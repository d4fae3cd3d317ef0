---------------------------- MODULE WatchStream -----------------------------
(***************************************************************************)
(* Client.Watch and WatchStream (basil/admin.go): a stream of changes that *)
(* a watcher takes with Recv or ranges over with Events, while others      *)
(* cancel its context or call Close, and a broker that keeps a bounded     *)
(* buffer and cuts off a watcher that falls behind.                        *)
(*                                                                         *)
(* The broker and gRPC's stream are external, one queue of messages and    *)
(* the way it ends.                                                        *)
(***************************************************************************)
EXTENDS BrokerMessages

CONSTANTS
  Changes,     \* the events that happen, in order, as the broker sends them
  Kinds,       \* the event kinds there are
  BufferSize,  \* how many events the broker keeps for a watcher
  ZeroTime     \* the zero time.Time

ASSUME WatchAssumption ==
  /\ Changes \in Seq(Event) /\ \A i \in DOMAIN Changes : Changes[i].Kind \in Kinds
  /\ Kinds \subseteq Enum
  /\ BufferSize \in Nat /\ ZeroTime \in Int
  /\ \A i \in DOMAIN Changes : ZeroTime \notin Changes[i].At

VARIABLES
  published,  \* external: how many of the changes have happened
  sub,        \* external: the subscription, [kinds, from, upTo, lost]
  queue,      \* external: the events on their way, as places in Changes
  end,        \* external: "", or what the broker ends the stream with
  stream,     \* what Watch has returned: none, open or refused
  done,       \* the code streamCtx is done with, or ""
  closed,     \* has Close been called?
  pc,         \* the watcher: idle, in Recv, or in Recv for the loop of Events
  got,        \* the events it was given: [of, event]
  over,       \* what gRPC's stream returns from now on, or ""
  err,        \* the error that Recv, or Watch, returned last
  yielded     \* the error that Events yielded last

vars == <<published, sub, queue, end, stream, done, closed, pc, got, over, err, yielded>>
brokerVars == <<published, sub, queue, end>>

\* basil.Event.
EventStruct ==
  [Kind : Enum, At : Int, KeyRotated : Opt([KeyID : Str, NewVersion : Nat]),
   BundleChanged : Opt([TrustDomain : Str]), Revoked : Opt([TrustDomain : Str, ID : Str])]

eventFromProto(ev) ==
  LET Of(field) == {d[field] : d \in {d \in ev.Detail : field \in DOMAIN d}}
  IN [Kind |-> ev.Kind,
      At |-> IF ev.At = {} THEN ZeroTime ELSE CHOOSE t \in ev.At : TRUE,
      KeyRotated |-> {[KeyID |-> k.KeyId, NewVersion |-> k.NewVersion] : k \in Of("KeyRotated")},
      BundleChanged |-> {[TrustDomain |-> b.TrustDomain] : b \in Of("BundleChanged")},
      Revoked |-> {[TrustDomain |-> r.TrustDomain, ID |-> r.Id] : r \in Of("Revoked")}]

Err(kind, code) == [kind |-> kind, code |-> code]
nil == Err("nil", "")

\* Mutant of recvError: the broker's way to end a stream is an end.
RecvErrorLossIsEnd(what) ==
  IF what \in {"EOF", "DataLoss"} THEN Err("EOF", "") ELSE Err("StatusError", what)

\* Recv's error, of the error of gRPC's stream.
recvError(what) == IF what = "EOF" THEN Err("EOF", "") ELSE Err("StatusError", what)

Wanted(ks, i) == ks = {} \/ Changes[i].Kind \in ks

-----------------------------------------------------------------------------
Init ==
  /\ published = 0 /\ sub = [kinds |-> {}, from |-> 0, upTo |-> 0, lost |-> FALSE]
  /\ queue = <<>> /\ end = ""
  /\ stream = "none" /\ done = "" /\ closed = FALSE
  /\ pc = "idle" /\ got = <<>> /\ over = "" /\ err = nil /\ yielded = nil

\* Mutant of cancel: it is left to the caller's context.
CancelNothing == done' = done

cancel == done' = IF done = "" THEN "Canceled" ELSE done

\* Watch opens the stream, or fails and cancels its own context.
Watch(ks) ==
  /\ stream = "none"
  /\ \/ /\ done = ""
        /\ stream' = "open"
        /\ sub' = [kinds |-> ks, from |-> published, upTo |-> published, lost |-> FALSE]
        /\ UNCHANGED <<done, err>>
     \/ \E code \in IF done # "" THEN {done} ELSE {"Unavailable", "PermissionDenied"} :
          /\ stream' = "refused" /\ cancel
          /\ err' = Err("StatusError", code)
          /\ UNCHANGED sub
  /\ UNCHANGED <<published, queue, end, closed, pc, got, over, yielded>>

\* The watcher calls Recv, or ranges over Events.
Recv ==
  /\ stream = "open" /\ pc = "idle" /\ pc' = "Recv"
  /\ UNCHANGED <<brokerVars, stream, done, closed, got, over, err, yielded>>

Events ==
  /\ stream = "open" /\ pc = "idle" /\ pc' = "Events"
  /\ UNCHANGED <<brokerVars, stream, done, closed, got, over, err, yielded>>

\* gRPC's Recv has a message.  The loop of Events goes on if yield says so.
Deliver ==
  /\ pc # "idle" /\ over = "" /\ queue # <<>>
  /\ got' = Append(got, [of |-> Head(queue), event |-> eventFromProto(Changes[Head(queue)])])
  /\ queue' = Tail(queue)
  /\ err' = nil /\ yielded' = nil
  /\ pc' \in IF pc = "Events" THEN {"Events", "idle"} ELSE {"idle"}
  /\ UNCHANGED <<published, sub, end, stream, done, closed, over>>

\* Mutant of rangeEnds: the end is yielded as an error.
RangeEndsYieldsEOF(what) == pc' = "idle" /\ yielded' = recvError(what)

\* Mutant of rangeEnds: the loop goes on after an error.
RangeEndsOnlyAtEOF(what) ==
  IF recvError(what).kind = "EOF" THEN pc' = "idle" /\ yielded' = nil
  ELSE UNCHANGED <<pc, yielded>>

\* The loop of Events ends, and yields the error unless it is the end.
rangeEnds(what) ==
  /\ pc' = "idle"
  /\ yielded' = IF recvError(what).kind = "EOF" THEN nil ELSE recvError(what)

\* gRPC's Recv fails: the context is done, or the broker has ended the
\* stream and the messages before its end are taken.  From then on it fails
\* the same way.
EndOfStream ==
  /\ pc # "idle"
  /\ \E what \in IF over # "" THEN {over}
                 ELSE {c \in {done} : c # ""} \cup {e \in {end} : e # "" /\ queue = <<>>} :
       /\ over' = what
       /\ \/ pc = "Recv" /\ pc' = "idle" /\ err' = recvError(what) /\ UNCHANGED yielded
          \/ pc = "Events" /\ rangeEnds(what) /\ UNCHANGED err
  /\ UNCHANGED <<brokerVars, stream, done, closed, got>>

\* From any goroutine, once or more.
Close ==
  /\ stream = "open"
  /\ closed' = TRUE
  /\ cancel
  /\ UNCHANGED <<brokerVars, stream, pc, got, over, err, yielded>>

\* The caller's context is cancelled or its deadline passes.
ContextDone(code) ==
  /\ done = "" /\ done' = code
  /\ UNCHANGED <<brokerVars, stream, closed, pc, got, over, err, yielded>>

\* The broker serves the stream.
serving == stream = "open" /\ end = "" /\ over = ""

\* External: a change happens.  The broker queues it for the watcher if it
\* asked for it, and ends the stream when the queue is full.
Publish ==
  LET i == published + 1
  IN /\ published < Len(Changes) /\ published' = i
     /\ \/ /\ serving /\ Wanted(sub.kinds, i) /\ Len(queue) < BufferSize
           /\ queue' = Append(queue, i) /\ sub' = [sub EXCEPT !.upTo = i]
           /\ UNCHANGED end
        \/ /\ serving /\ Wanted(sub.kinds, i) /\ Len(queue) >= BufferSize
           /\ end' = "DataLoss" /\ sub' = [sub EXCEPT !.lost = TRUE]
           /\ UNCHANGED queue
        \/ /\ serving /\ ~Wanted(sub.kinds, i)
           /\ sub' = [sub EXCEPT !.upTo = i]
           /\ UNCHANGED <<queue, end>>
        \/ /\ ~serving
           /\ UNCHANGED <<sub, queue, end>>
     /\ UNCHANGED <<stream, done, closed, pc, got, over, err, yielded>>

\* External: the broker closes the stream or fails it.
BrokerEnds(what) ==
  /\ serving /\ end' = what
  /\ UNCHANGED <<published, sub, queue, stream, done, closed, pc, got, over, err, yielded>>

Next ==
  \/ \E ks \in SUBSET Kinds : Watch(ks)
  \/ Recv \/ Events \/ Deliver \/ EndOfStream \/ Close
  \/ \E code \in {"Canceled", "DeadlineExceeded"} : ContextDone(code)
  \/ Publish
  \/ \E what \in {"EOF", "PermissionDenied", "Unavailable"} : BrokerEnds(what)

Spec == Init /\ [][Next]_vars

\* gRPC's Recv returns once it has a message or an error.
FairSpec == Spec /\ WF_vars(Deliver \/ EndOfStream)

-----------------------------------------------------------------------------
\* The codes a broker ends a stream with, and a context.
EndCodes == {"EOF", "DataLoss", "PermissionDenied", "Unavailable"}
DoneCodes == {"Canceled", "DeadlineExceeded"}

\* The states are well formed, and Events never yields the end of the stream
\* as an error.
WatchTypeOK ==
  /\ published \in 0 .. Len(Changes)
  /\ sub \in [kinds : SUBSET Kinds, from : Nat, upTo : Nat, lost : BOOLEAN]
  /\ queue \in Seq(1 .. Len(Changes)) /\ Len(queue) <= BufferSize
  /\ end \in EndCodes \cup {""}
  /\ stream \in {"none", "open", "refused"}
  /\ done \in DoneCodes \cup {""} /\ closed \in BOOLEAN
  /\ pc \in {"idle", "Recv", "Events"}
  /\ got \in Seq([of : 1 .. Len(Changes), event : EventStruct])
  /\ over \in EndCodes \cup DoneCodes \cup {""}
  /\ err.kind \in {"nil", "EOF", "StatusError"} /\ yielded.kind \in {"nil", "StatusError"}

\* The message an Event came from.
Meaning(e) ==
  [Kind |-> e.Kind, At |-> {e.At} \ {ZeroTime},
   Detail |-> {[KeyRotated |-> [KeyId |-> k.KeyID, NewVersion |-> k.NewVersion]] :
                 k \in e.KeyRotated}
              \cup {[BundleChanged |-> b] : b \in e.BundleChanged}
              \cup {[Revoked |-> [TrustDomain |-> r.TrustDomain, Id |-> r.ID]] :
                 r \in e.Revoked}]

\* What the watcher knows of the end of the feed.
Told == IF stream = "refused" THEN "error"
        ELSE IF over = "" THEN "" ELSE IF recvError(over).kind = "EOF" THEN "clean" ELSE "error"

Feed == INSTANCE ChangeFeed WITH
  state <- IF stream = "none" THEN "none" ELSE IF Told # "" THEN "ended"
           ELSE IF end = "EOF" THEN "closing" ELSE "open",
  kinds <- sub.kinds, from <- sub.from,
  limit <- IF end = "EOF" THEN sub.upTo ELSE 0,
  seen <- [k \in DOMAIN got |-> [of |-> got[k].of, change |-> Meaning(got[k].event)]],
  told <- Told

\* A watcher gets every change it asked for in order, once, with all the
\* broker said of it, and never takes a stream that lost one for one that the
\* broker closed: the stream keeps ChangeFeed's promise.
FeedPromise == Feed!Spec

\* After Close, from whichever goroutine, a Recv that waits returns.
CloseUnblocks == (closed /\ pc # "idle") ~> (pc = "idle")

\* A watcher that ranges over Events learns that a change was dropped, unless
\* it stops ranging.
LossNoticed ==
  (sub.lost /\ pc = "Events") ~> (pc = "idle" /\ (over # "" => yielded.kind = "StatusError"))

\* Recv's comment: after a cancellation its error is the context's.
CancelErrorIsContexts ==
  (over \in {"Canceled", "DeadlineExceeded"} /\ err # nil) => err.kind = "context"
=============================================================================
