--------------------------- MODULE StreamProofs ---------------------------
(***************************************************************************)
(* Proofs about StreamRunner, for streams of any length, any rewind and    *)
(* any starting cursor: type correctness, no gap across reconnects, and    *)
(* the growth of the backoff.                                              *)
(***************************************************************************)
EXTENDS StreamRunner, SequenceTheorems, TLAPS

\* The cursor is the time of the event read last.
CursorOfLast ==
  /\ first = 0 <=> got = {}
  /\ first = 0 <=> last = 0
  /\ last # 0 => last \in got /\ cursor = stream[last]

\* What a connection has moved past since the first event was dispatched.
Passed ==
  Rewind > 0 /\ pc = "read" /\ first # 0 => \A i \in first..(next - 1) : i \in got

BackedOff == pc # "stopped" => attempt >= dry

IInv == TypeOK /\ CursorOfLast /\ NoGap /\ Passed /\ BackedOff

----------------------------------------------------------------------------
LEMMA InitIInv == Init => IInv
<1> SUFFICES ASSUME Init PROVE IInv
  OBVIOUS
<1>1. << >> \in Seq(1..MaxTime) /\ Len(<< >>) = 0
  BY EmptySeq, Zenon
<1>2. stream \in Seq(1..MaxTime) /\ Len(stream) = 0
  BY <1>1, Zenon DEF Init
<1>3. /\ pc = "top" /\ cursor = StartCursor /\ attempt = 0 /\ next = 1
      /\ got = {} /\ first = 0 /\ last = 0 /\ opened = 0 /\ dry = 0
  BY Zenon DEF Init
<1>4. TypeOK
  <2>1. gotData \in BOOLEAN /\ shutdown \in BOOLEAN
    BY Zenon DEF Init
  <2>2. pc \in PCs /\ got \in SUBSET (1..Len(stream))
    BY <1>3, Zenon DEF PCs
  <2>3. /\ cursor \in Nat \cup {None} /\ attempt \in 0..MaxAttempt
        /\ next \in 1..(Len(stream) + 1) /\ first \in 0..Len(stream)
        /\ last \in 0..Len(stream) /\ opened \in 0..(Len(stream) + 1)
        /\ dry \in 0..MaxAttempt
    BY <1>2, <1>3, ConfigAssumption, BoundsAssumption
  <2> QED
    BY <1>2, <2>1, <2>2, <2>3, Zenon DEF TypeOK
<1> QED
  BY <1>3, <1>4 DEF IInv, CursorOfLast, NoGap, Passed, BackedOff

LEMMA EnvironmentIInv == IInv /\ Environment => IInv'
<1> SUFFICES ASSUME IInv, Environment PROVE IInv'
  OBVIOUS
<1> USE DEF IInv
<1>1. CASE RequestShutdown
  BY <1>1 DEF RequestShutdown, history, TypeOK, CursorOfLast, NoGap, Passed, BackedOff
<1>2. ASSUME NEW t \in 1..MaxTime, Emit(t) PROVE IInv'
  <2>1. /\ stream' \in Seq(1..MaxTime)
        /\ Len(stream') = Len(stream) + 1
        /\ \A j \in 1..Len(stream) : stream'[j] = stream[j]
    BY <1>2 DEF Emit, TypeOK
  <2>2. TypeOK'
    BY <1>2, <2>1 DEF Emit, history, TypeOK
  <2>3. CursorOfLast'
    BY <1>2, <2>1 DEF Emit, history, TypeOK, CursorOfLast
  <2> QED
    BY <1>2, <2>2, <2>3 DEF Emit, history, NoGap, Passed, BackedOff
<1> QED
  BY <1>1, <1>2 DEF Environment

(***************************************************************************)
(* A connection starts no later than at the event read last, because its   *)
(* cursor is older than that event.                                        *)
(***************************************************************************)
LEMMA StartsAtLast ==
  ASSUME IInv, Rewind > 0, first # 0, NEW i \in Starts
  PROVE  i <= last
<1> USE DEF IInv
<1>1. last \in 1..Len(stream) /\ cursor = stream[last] /\ stream[last] \in 1..MaxTime
  <2>1. last \in 1..Len(stream) /\ cursor = stream[last]
    BY DEF TypeOK, CursorOfLast
  <2> QED
    BY <2>1, ElementOfSeq DEF TypeOK
<1>2. cursor # None /\ cursor \in Nat
  BY <1>1, NoneAssumption, BoundsAssumption
<1>3. UrlCursor \in Nat /\ UrlCursor < stream[last]
  BY <1>1, <1>2, ConfigAssumption, BoundsAssumption DEF UrlCursor
<1>4. UrlCursor # None
  BY <1>3, NoneAssumption
<1>5. i \in 1..(Len(stream) + 1) /\ ~(last < i)
  BY <1>1, <1>3, <1>4, BoundsAssumption DEF Starts
<1> QED
  BY <1>1, <1>5

\* An interval that ends earlier is part of the longer one.
LEMMA ShorterInterval ==
  ASSUME NEW a \in Nat, NEW b \in Nat, NEW c \in Nat, b <= c
  PROVE  \A i \in a..(b - 1) : i \in a..c
  OBVIOUS

LEMMA ConnectedIInv == IInv /\ Connected => IInv'
<1> SUFFICES ASSUME IInv, Connected PROVE IInv'
  OBVIOUS
<1> USE DEF IInv
<1>1. next' \in 1..(Len(stream) + 1)
  BY DEF Connected, Starts, TypeOK
<1>2. TypeOK'
  <2>1. gotData' \in BOOLEAN /\ shutdown' \in BOOLEAN
    BY Zenon DEF Connected, TypeOK
  <2>2. pc' \in PCs
    BY DEF Connected, PCs
  <2> QED
    BY <1>1, <2>1, <2>2 DEF Connected, TypeOK
<1>3. Passed'
  <2> SUFFICES ASSUME Rewind > 0, first # 0 PROVE \A i \in first..(next' - 1) : i \in got
    BY DEF Connected, Passed
  <2>1. next' <= last
    BY StartsAtLast DEF Connected
  <2>2. \A i \in first..last : i \in got
    BY DEF NoGap, CursorOfLast
  <2>3. first \in Nat /\ last \in Nat /\ next' \in Nat
    BY <1>1 DEF TypeOK
  <2>4. \A i \in first..(next' - 1) : i \in first..last
    BY <2>1, <2>3, ShorterInterval
  <2> QED
    BY <2>2, <2>4, Zenon
<1> QED
  BY <1>2, <1>3 DEF Connected, CursorOfLast, NoGap, BackedOff

LEMMA ReadEventIInv == IInv /\ ReadEvent => IInv'
<1> SUFFICES ASSUME IInv, ReadEvent PROVE IInv'
  OBVIOUS
<1> USE DEF IInv
<1>1. next \in 1..Len(stream) /\ stream[next] \in 1..MaxTime
  <2>1. next \in 1..Len(stream)
    BY DEF ReadEvent, TypeOK
  <2> QED
    BY <2>1, ElementOfSeq DEF TypeOK
<1>2. stream[next] \in Nat
  BY <1>1, BoundsAssumption
<1>3. TypeOK'
  BY <1>1, <1>2 DEF ReadEvent, TypeOK
<1>4. CursorOfLast'
  BY <1>1 DEF ReadEvent, TypeOK, CursorOfLast
<1>5. NoGap'
  BY <1>1 DEF ReadEvent, TypeOK, NoGap, Passed, CursorOfLast
<1>6. Passed'
  BY <1>1 DEF ReadEvent, TypeOK, NoGap, Passed, CursorOfLast
<1> QED
  BY <1>3, <1>4, <1>5, <1>6 DEF ReadEvent, BackedOff

LEMMA EndedIInv == IInv /\ Ended => IInv'
<1> SUFFICES ASSUME IInv, Ended PROVE IInv'
  OBVIOUS
<1> USE BoundsAssumption DEF IInv
<1>1. \A n \in 0..MaxAttempt : Saturate(n) \in 0..MaxAttempt
  BY DEF Saturate
<1>2. TypeOK'
  <2>1. pc' \in PCs
    BY DEF Ended, PCs
  <2>2. attempt' \in {attempt, 0, Saturate(attempt), Saturate(0)}
    BY Zenon DEF Ended
  <2>3. dry' \in {0, Saturate(dry)}
    BY Zenon DEF Ended
  <2>4. attempt \in 0..MaxAttempt /\ dry \in 0..MaxAttempt /\ 0 \in 0..MaxAttempt
    BY DEF TypeOK
  <2>5. attempt' \in 0..MaxAttempt /\ dry' \in 0..MaxAttempt
    BY <1>1, <2>2, <2>3, <2>4, Zenon
  <2> QED
    BY <2>1, <2>5 DEF Ended, TypeOK
<1>3. BackedOff'
  BY <1>1 DEF Ended, TypeOK, BackedOff, Saturate
<1> QED
  BY <1>2, <1>3 DEF Ended, CursorOfLast, NoGap, Passed

LEMMA OthersIInv ==
  IInv /\ (Top \/ ReadOtherText \/ BackoffOver \/ Stop \/ UNCHANGED vars) => IInv'
<1> SUFFICES ASSUME IInv, Top \/ ReadOtherText \/ BackoffOver \/ Stop \/ UNCHANGED vars
             PROVE  IInv'
  OBVIOUS
<1> USE DEF IInv, TypeOK, PCs, CursorOfLast, NoGap, Passed, BackedOff, history
<1>1. CASE Top
  BY <1>1 DEF Top
<1>2. CASE ReadOtherText
  BY <1>2 DEF ReadOtherText
<1>3. CASE BackoffOver
  BY <1>3 DEF BackoffOver
<1>4. CASE Stop
  BY <1>4 DEF Stop
<1>5. CASE UNCHANGED vars
  BY <1>5 DEF vars
<1> QED
  BY <1>1, <1>2, <1>3, <1>4, <1>5

LEMMA NextIInv == IInv /\ [Next]_vars => IInv'
  BY EnvironmentIInv, ConnectedIInv, ReadEventIInv, EndedIInv, OthersIInv
  DEF Next, Runner, Network

LEMMA Invariance == Spec => []IInv
  BY InitIInv, NextIInv, PTL DEF Spec

----------------------------------------------------------------------------
(***************************************************************************)
(* The runner's state stays well-formed.                                   *)
(***************************************************************************)
THEOREM StreamTypeCorrect == Spec => []TypeOK
<1>1. IInv => TypeOK
  BY DEF IInv
<1> QED
  BY <1>1, Invariance, PTL

(***************************************************************************)
(* Any rewind at all closes the gaps between connections, for every server *)
(* that starts at or after the cursor.                                     *)
(***************************************************************************)
THEOREM ResumesWithoutGap == Spec => []NoGap
<1>1. IInv => NoGap
  BY DEF IInv
<1> QED
  BY <1>1, Invariance, PTL

(***************************************************************************)
(* Connections that yield nothing are backed off ever longer.              *)
(***************************************************************************)
THEOREM BacksOff == Spec => []DryConnectionsBackedOff
<1>1. IInv => DryConnectionsBackedOff
  BY DEF IInv, BackedOff, DryConnectionsBackedOff
<1> QED
  BY <1>1, Invariance, PTL

============================================================================
