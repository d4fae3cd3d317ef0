------------------------------ MODULE ReadFull ------------------------------
(***************************************************************************)
(* readFull of stream/stream.go: the loop over src.Read that every read of *)
(* the package goes through.  One action is one iteration of the loop, one *)
(* call of src.Read.  The source is an io.Reader with avail bytes left; it *)
(* may return fewer bytes than asked for, may deliver io.EOF with the last *)
(* bytes or on its own, and may fail after any number of bytes.  The byte  *)
(* positions handed over are kept, so that lost or repeated bytes show.    *)
(***************************************************************************)
EXTENDS StreamFormat

CONSTANTS MaxAvail, MaxBuf   \* bounds on the source and the buffer

ASSUME BoundsAssumption == MaxAvail \in Nat /\ MaxBuf \in Nat

VARIABLES
  total,   \* bytes the source holds when readFull is called
  bufLen,  \* len(buf)
  taken,   \* bytes the source has handed out
  buf,     \* the positions of the bytes in buf[:filled]
  status,  \* "loop", "ok" or "error"
  emptied  \* an empty Read ended the loop

vars == <<total, bufLen, taken, buf, status, emptied>>

filled == Len(buf)

Init ==
  /\ total \in 0 .. MaxAvail
  /\ bufLen \in 0 .. MaxBuf
  /\ taken = 0
  /\ buf = <<>>
  /\ status = "loop"
  /\ emptied = FALSE

\* for filled < len(buf)
Looping == status = "loop" /\ filled < bufLen

\* Mutant of Fill: a Read overwrites the buffer from its start.
FillFromStart(n) ==
  /\ n <= bufLen - filled
  /\ taken + n <= total
  /\ taken' = taken + n
  /\ buf' = [i \in 1 .. n |-> taken + i]
  /\ UNCHANGED <<total, bufLen>>

\* src.Read(buf[filled:]) puts n bytes in the buffer.
Fill(n) ==
  /\ n <= bufLen - filled
  /\ taken + n <= total
  /\ taken' = taken + n
  /\ buf' = buf \o [i \in 1 .. n |-> taken + i]
  /\ UNCHANGED <<total, bufLen>>

\* Mutant of ReadSome: the loop returns after the first successful Read.
ReadSomeOnce ==
  /\ Looping
  /\ \E n \in 1 .. MaxBuf : Fill(n)
  /\ status' = "ok"
  /\ UNCHANGED emptied

\* (n, nil) with n > 0: another iteration.
ReadSome ==
  /\ Looping
  /\ \E n \in 1 .. MaxBuf : Fill(n)
  /\ UNCHANGED <<status, emptied>>

\* (n, io.EOF): the source has nothing more.
ReadEOF ==
  /\ Looping
  /\ \E n \in 0 .. MaxBuf : Fill(n) /\ taken + n = total
  /\ status' = "ok"
  /\ UNCHANGED emptied

\* (n, err) for any other error.
ReadError ==
  /\ Looping
  /\ \E n \in 0 .. MaxBuf : Fill(n)
  /\ status' = "error"
  /\ UNCHANGED emptied

\* (0, nil): allowed though discouraged by io.Reader; the code returns.
ReadNothing ==
  /\ Looping /\ EmptyReads
  /\ Fill(0)
  /\ status' = "ok"
  /\ emptied' = TRUE

\* Mutant of Full: the loop goes on with a buffer that has no room.
FullLoops == status = "loop" /\ filled >= bufLen /\ UNCHANGED vars

\* The loop ends: the buffer is full.
Full ==
  /\ status = "loop" /\ filled >= bufLen
  /\ status' = "ok"
  /\ UNCHANGED <<total, bufLen, taken, buf, emptied>>

\* The caller has its answer.
Returned == status # "loop" /\ UNCHANGED vars

Next == ReadSome \/ ReadEOF \/ ReadError \/ ReadNothing \/ Full \/ Returned

Spec == Init /\ [][Next]_vars

\* src.Read returns; nothing is assumed of errors.
FairSpec == Spec /\ WF_vars(ReadSome \/ ReadEOF \/ ReadNothing \/ Full)

-----------------------------------------------------------------------------
\* Nothing is lost or repeated: at every point, also when the source failed,
\* the buffer holds exactly the bytes the source has handed out, in order.
NoByteLost == buf = [i \in 1 .. taken |-> i]

\* The atomic readFull the other modules use: a return without error gives
\* one of readFullCounts, and unless an empty Read ended the loop it gives
\* all that was asked for or all that the source had, however short the
\* single reads were.
AtomicOutcome ==
  status = "ok" =>
    /\ filled \in readFullCounts(total, bufLen)
    /\ emptied \/ filled = Least(total, bufLen)

\* The loop ends whatever the sizes of the reads, an empty buffer included.
Terminates == <>(status # "loop")
=============================================================================
