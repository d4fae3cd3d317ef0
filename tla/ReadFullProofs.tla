--------------------------- MODULE ReadFullProofs ---------------------------
(***************************************************************************)
(* Proofs about ReadFull, for every source, every buffer and every way the *)
(* source splits its bytes up.                                             *)
(***************************************************************************)
EXTENDS ReadFull, TLAPS

\* How far the loop is: what was taken fits in the buffer, and it ends only
\* with a full buffer, an empty source, an empty Read or an error.
LoopOK ==
  /\ total \in Nat /\ bufLen \in Nat /\ taken \in Nat
  /\ taken <= total /\ taken <= bufLen
  /\ status = "ok" => emptied \/ taken = Least(total, bufLen)
  /\ emptied \in BOOLEAN /\ (emptied => EmptyReads)

ReadFullInv == NoByteLost /\ LoopOK

\* The first n positions are a sequence of n elements, and the next k of
\* them follow it.
LEMMA Positions ==
  ASSUME NEW n \in Nat
  PROVE  /\ [i \in 1 .. n |-> i] \in Seq(Nat)
         /\ Len([i \in 1 .. n |-> i]) = n
  OBVIOUS

LEMMA PositionsFollow ==
  ASSUME NEW n \in Nat, NEW k \in Nat
  PROVE  [i \in 1 .. n |-> i] \o [i \in 1 .. k |-> n + i] = [i \in 1 .. n + k |-> i]
  BY Positions

\* What a Read that returns n bytes does to the invariant's variables.
LEMMA FillKeeps ==
  ASSUME ReadFullInv, NEW n \in Nat, Fill(n)
  PROVE  /\ NoByteLost'
         /\ total' = total /\ bufLen' = bufLen /\ taken' = taken + n
         /\ taken' <= total /\ taken' <= bufLen
<1>1. filled = taken
  BY Positions DEF ReadFullInv, LoopOK, NoByteLost, filled
<1>2. buf' = [i \in 1 .. taken + n |-> i]
  BY PositionsFollow DEF ReadFullInv, LoopOK, NoByteLost, Fill
<1> QED BY <1>1, <1>2 DEF ReadFullInv, LoopOK, NoByteLost, Fill

LEMMA ReadFullInit == Init => ReadFullInv
<1> SUFFICES ASSUME Init PROVE ReadFullInv
  OBVIOUS
<1>1. buf = [i \in 1 .. taken |-> i]
  BY DEF Init
<1>2. total \in Nat /\ bufLen \in Nat /\ taken \in Nat /\ taken <= total /\ taken <= bufLen
  BY BoundsAssumption DEF Init
<1>3. status # "ok" /\ emptied \in BOOLEAN /\ ~emptied
  BY DEF Init
<1> QED BY <1>1, <1>2, <1>3 DEF ReadFullInv, LoopOK, NoByteLost

LEMMA ReadFullNext == ReadFullInv /\ [Next]_vars => ReadFullInv'
<1> SUFFICES ASSUME ReadFullInv, [Next]_vars PROVE ReadFullInv'
  OBVIOUS
<1>0. filled = taken
  BY Positions DEF ReadFullInv, LoopOK, NoByteLost, filled
<1>1. CASE ReadSome
  <2>1. PICK n \in 1 .. MaxBuf : Fill(n)
    BY <1>1 DEF ReadSome
  <2>2. n \in Nat
    BY <2>1, BoundsAssumption
  <2> QED BY <1>1, <2>1, <2>2, FillKeeps DEF ReadFullInv, LoopOK, ReadSome, Looping
<1>2. CASE ReadEOF
  <2>1. PICK n \in 0 .. MaxBuf : Fill(n) /\ taken + n = total
    BY <1>2 DEF ReadEOF
  <2>2. n \in Nat
    BY <2>1, BoundsAssumption
  <2> QED BY <1>2, <2>1, <2>2, FillKeeps DEF ReadFullInv, LoopOK, ReadEOF, Least
<1>3. CASE ReadError
  <2>1. PICK n \in 0 .. MaxBuf : Fill(n)
    BY <1>3 DEF ReadError
  <2>2. n \in Nat
    BY <2>1, BoundsAssumption
  <2> QED BY <1>3, <2>1, <2>2, FillKeeps DEF ReadFullInv, LoopOK, ReadError
<1>4. CASE ReadNothing
  BY <1>4, FillKeeps, EmptyReadsAssumption DEF ReadFullInv, LoopOK, ReadNothing
<1>5. CASE Full
  BY <1>0, <1>5 DEF ReadFullInv, LoopOK, NoByteLost, Full, Least
<1>6. CASE UNCHANGED vars
  BY <1>6 DEF ReadFullInv, LoopOK, NoByteLost, vars
<1> QED
  BY <1>1, <1>2, <1>3, <1>4, <1>5, <1>6 DEF Next, Returned

LEMMA ReadFullInvariant == Spec => []ReadFullInv
  BY ReadFullInit, ReadFullNext, PTL DEF Spec

\* readFull loses and repeats no byte, however the source splits them up and
\* whenever it fails.
THEOREM NoByteIsLost == Spec => []NoByteLost
<1>1. ReadFullInv => NoByteLost
  BY DEF ReadFullInv
<1> QED BY <1>1, ReadFullInvariant, PTL

\* The loop returns what the single step readFullCounts allows, which is what
\* StreamWriter and StreamReader take it for.
THEOREM LoopIsAtomic == Spec => []AtomicOutcome
<1>1. ReadFullInv => AtomicOutcome
  <2> SUFFICES ASSUME ReadFullInv, status = "ok"
               PROVE  /\ filled \in readFullCounts(total, bufLen)
                      /\ emptied \/ filled = Least(total, bufLen)
    BY DEF AtomicOutcome
  <2>1. filled = taken
    BY Positions DEF ReadFullInv, LoopOK, NoByteLost, filled
  <2> QED
    BY <2>1, EmptyReadsAssumption DEF ReadFullInv, LoopOK, readFullCounts, Least
<1> QED BY <1>1, ReadFullInvariant, PTL
=============================================================================
