--------------------------- MODULE SpiffeSources ----------------------------
(***************************************************************************)
(* NewX509Source and NewJWTSource (spiffe/spiffe.go), called by several    *)
(* goroutines with one slice of options: opts... passes the slice itself,  *)
(* and append writes behind its end while there is room in its array.      *)
(*                                                                         *)
(* An append in place is one write for each option, and go-spiffe          *)
(* (external) then reads the options one by one.  The slice is a data race *)
(* in Go; its outcomes here are those of the interleavings.                *)
(***************************************************************************)
EXTENDS SpiffeOptions, Naturals

CONSTANTS
  Sources,    \* the sources that are opened, by a goroutine each
  Path,       \* [Sources -> socket paths]
  Extra,      \* the options that the callers share
  Capacity    \* of the array behind them

VARIABLES
  array,      \* the shared array; its first options are Extra
  pc,         \* each goroutine: start, append (the next write), apply, open
  next,       \* the place of the next write or read
  opts,       \* the options it has, if append made an array for them
  config      \* what the options it has read set

vars == <<array, pc, next, opts, config>>

unset == [sets |-> "nothing", to |-> ""]

Init ==
  /\ array = [i \in 1 .. Capacity |-> IF i <= Len(Extra) THEN Extra[i] ELSE unset]
  /\ pc = [s \in Sources |-> "start"]
  /\ next = [s \in Sources |-> 1]
  /\ opts = [s \in Sources |-> <<>>]
  /\ config = [s \in Sources |-> [address |-> "", authority |-> ""]]

fits == Len(Extra) + Len(boundOptions("")) <= Capacity

\* clientOptions: append copies when the array is full.
CopyOptions(s) ==
  /\ pc[s] = "start" /\ ~fits
  /\ opts' = [opts EXCEPT ![s] = Extra \o boundOptions(Path[s])]
  /\ pc' = [pc EXCEPT ![s] = "apply"]
  /\ UNCHANGED <<array, next, config>>

\* Otherwise it writes to the array that the others have too.
AppendOption(s) ==
  /\ pc[s] \in {"start", "append"} /\ fits
  /\ array' = [array EXCEPT ![Len(Extra) + next[s]] = boundOptions(Path[s])[next[s]]]
  /\ LET last == next[s] = Len(boundOptions(Path[s]))
     IN /\ pc' = [pc EXCEPT ![s] = IF last THEN "apply" ELSE "append"]
        /\ next' = [next EXCEPT ![s] = IF last THEN 1 ELSE @ + 1]
  /\ UNCHANGED <<opts, config>>

\* External: go-spiffe applies the options in order, and opens the source.
ApplyOption(s) ==
  LET mine == IF opts[s] # <<>> THEN opts[s] ELSE array
      n == Len(Extra) + Len(boundOptions(Path[s]))
  IN /\ pc[s] = "apply"
     /\ config' = [config EXCEPT ![s] =
          [what \in DOMAIN @ |-> IF mine[next[s]].sets = what THEN mine[next[s]].to ELSE @[what]]]
     /\ pc' = [pc EXCEPT ![s] = IF next[s] = n THEN "open" ELSE "apply"]
     /\ next' = [next EXCEPT ![s] = @ + 1]
     /\ UNCHANGED <<array, opts>>

Next == \E s \in Sources : CopyOptions(s) \/ AppendOption(s) \/ ApplyOption(s)

Spec == Init /\ [][Next]_vars

\* The comments of NewX509Source and NewJWTSource: a source is bound to the
\* Workload API at its own socketPath.
BoundToSocket ==
  \A s \in Sources : pc[s] = "open" => config[s].address = socketAddr(Path[s])
=============================================================================
