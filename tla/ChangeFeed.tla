----------------------------- MODULE ChangeFeed -----------------------------
(***************************************************************************)
(* What Client.Watch promises a watcher: the changes of the kinds it asked *)
(* for, from the moment it subscribed, in order, each at most once and     *)
(* none left out, until the feed ends.  It ends cleanly only after the     *)
(* last change before the broker closed it; every other end is an error.   *)
(***************************************************************************)
EXTENDS Integers, Sequences

CONSTANTS
  Changes,  \* all the changes there are, in order: messages with a Kind
  Kinds     \* the kinds there are

VARIABLES
  published,  \* how many of the changes have happened
  state,      \* none, open, closing (the broker has closed it), ended
  kinds,      \* the kinds asked for, none for all
  from,       \* the changes up to here are not the watcher's
  limit,      \* the last change before the broker closed the feed
  seen,       \* what the watcher got: [of, change]
  told        \* how the feed ended: "", clean or error

feedVars == <<published, state, kinds, from, limit, seen, told>>

Wanted(i) == kinds = {} \/ Changes[i].Kind \in kinds

\* The change the watcher has to get next is i.
IsNext(i, top) ==
  /\ i \in 1 .. top /\ i > from /\ Wanted(i)
  /\ \A s \in DOMAIN seen : seen[s].of < i
  /\ \A j \in from + 1 .. i - 1 : Wanted(j) => \E s \in DOMAIN seen : seen[s].of = j

Init ==
  /\ published = 0 /\ state = "none" /\ kinds = {} /\ from = 0 /\ limit = 0
  /\ seen = <<>> /\ told = ""

Subscribe ==
  /\ state = "none" /\ state' = "open"
  /\ kinds' \in SUBSET Kinds
  /\ from' = published
  /\ UNCHANGED <<published, limit, seen, told>>

Publish ==
  /\ published < Len(Changes)
  /\ published' = published + 1
  /\ UNCHANGED <<state, kinds, from, limit, seen, told>>

CloseFeed ==
  /\ state = "open" /\ state' = "closing"
  /\ limit' = published
  /\ UNCHANGED <<published, kinds, from, seen, told>>

Deliver ==
  /\ state \in {"open", "closing"}
  /\ \E i \in 1 .. Len(Changes) :
       /\ IsNext(i, IF state = "open" THEN published ELSE limit)
       /\ seen' = Append(seen, [of |-> i, change |-> Changes[i]])
  /\ UNCHANGED <<published, state, kinds, from, limit, told>>

EndClean ==
  /\ state = "closing" /\ state' = "ended" /\ told' = "clean"
  /\ \A i \in 1 .. limit : ~IsNext(i, limit)
  /\ UNCHANGED <<published, kinds, from, limit, seen>>

EndError ==
  /\ state # "ended" /\ state' = "ended" /\ told' = "error"
  /\ UNCHANGED <<published, kinds, from, limit, seen>>

Next == Subscribe \/ Publish \/ CloseFeed \/ Deliver \/ EndClean \/ EndError

Spec == Init /\ [][Next]_feedVars
=============================================================================
