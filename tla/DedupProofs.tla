---------------------------- MODULE DedupProofs ----------------------------
(***************************************************************************)
(* DedupTracker for any set of notifications, any timestamps and any       *)
(* sequence of operations: the watermark answers as unbounded memory.      *)
(***************************************************************************)
EXTENDS DedupTracker, DedupLemmas

IInv == TypeOK /\ IsNewExactly

LEMMA TypeInit == Init => TypeOK
BY DEF Init, TypeOK, EmptyDedup, Dedups

(***************************************************************************)
(* The tracker and its history stay well-formed (dedup.rs:33-37).          *)
(***************************************************************************)
LEMMA TypeNext == TypeOK /\ [Next]_vars => TypeOK'
<1> SUFFICES ASSUME TypeOK, [Next]_vars PROVE TypeOK'
  OBVIOUS
<1> USE DEF TypeOK
<1>0. indexedAt \in [Notifs -> Stamps]
  BY DEF Stamps
<1>1. ASSUME NEW n \in Notifs, MarkOne(n) PROVE TypeOK'
  BY <1>0, <1>1, MarkType DEF MarkOne
<1>2. ASSUME NEW page \in SUBSET Notifs, Prime(page) PROVE TypeOK'
  BY <1>0, <1>2, MarkAllType DEF Prime
<1>3. ASSUME NEW page \in SUBSET Notifs, TakeNewSorted(page) PROVE TypeOK'
  <2>1. fresh' \in SUBSET Notifs
    BY <1>3 DEF TakeNewSorted, Fresh
  <2> QED
    BY <1>0, <1>3, <2>1, MarkAllType DEF TakeNewSorted
<1>4. CASE SaveAndReload
  BY <1>4, SaveRoundTrip DEF SaveAndReload
<1>5. CASE UNCHANGED vars
  BY <1>5 DEF vars
<1> QED
  BY <1>1, <1>2, <1>3, <1>4, <1>5 DEF Next

LEMMA ExactInit == Init => IsNewExactly
<1> SUFFICES ASSUME Init, NEW n \in Notifs
             PROVE  IsNew(dedup, indexedAt, n)
  BY DEF Init, IsNewExactly
<1>1. indexedAt[n] \in Nat /\ indexedAt[n] > 0 /\ dedup.highWater = 0
  BY MaxTimeAssumption DEF Init, EmptyDedup, Times, NoTime
<1> QED
  BY <1>1 DEF IsNew

LEMMA ExactNext == IInv /\ [Next]_vars => IsNewExactly'
<1> SUFFICES ASSUME IInv, [Next]_vars, NEW n \in Notifs
             PROVE  (IsNew(dedup, indexedAt, n) <=>
                       n \notin handled /\
                       \A m \in handled : indexedAt[m] <= indexedAt[n])'
  BY DEF IsNewExactly
<1> USE DEF IInv, TypeOK, IsNewExactly
<1>0. indexedAt \in [Notifs -> Stamps]
  BY DEF Stamps
<1>1. ASSUME NEW k \in Notifs, MarkOne(k)
      PROVE  (IsNew(dedup, indexedAt, n) <=>
                n \notin handled /\ \A m \in handled : indexedAt[m] <= indexedAt[n])'
  BY <1>0, <1>1, MarkIsNew DEF MarkOne
<1>2. ASSUME NEW page \in SUBSET Notifs, Prime(page)
      PROVE  (IsNew(dedup, indexedAt, n) <=>
                n \notin handled /\ \A m \in handled : indexedAt[m] <= indexedAt[n])'
  BY <1>0, <1>2, MarkAllIsNew DEF Prime
<1>3. ASSUME NEW page \in SUBSET Notifs, TakeNewSorted(page)
      PROVE  (IsNew(dedup, indexedAt, n) <=>
                n \notin handled /\ \A m \in handled : indexedAt[m] <= indexedAt[n])'
  <2>1. fresh' \in SUBSET Notifs
    BY <1>3 DEF TakeNewSorted, Fresh
  <2> QED
    BY <1>0, <1>3, <2>1, MarkAllIsNew DEF TakeNewSorted
<1>4. CASE SaveAndReload
  BY <1>4, SaveRoundTrip DEF SaveAndReload
<1>5. CASE UNCHANGED vars
  BY <1>5 DEF vars
<1> QED
  BY <1>1, <1>2, <1>3, <1>4, <1>5 DEF Next

(***************************************************************************)
(* The state of the tracker is always one the code's types allow.          *)
(***************************************************************************)
THEOREM TypeCorrect == Spec => []TypeOK
<1>1. TypeOK /\ [Next]_vars => TypeOK'
  BY TypeNext
<1> QED
  BY TypeInit, <1>1, PTL DEF Spec

(***************************************************************************)
(* Whatever pages it is given, in whatever order, the tracker calls a      *)
(* notification new iff it was never marked and nothing newer was          *)
(* (is_new and mark, dedup.rs:46-78).                                      *)
(***************************************************************************)
THEOREM WatermarkIsExact == Spec => []IsNewExactly
<1>1. Init => IInv
  BY TypeInit, ExactInit DEF IInv
<1>2. IInv /\ [Next]_vars => IInv'
  BY TypeNext, ExactNext DEF IInv
<1>3. IInv => IsNewExactly
  BY DEF IInv
<1> QED
  BY <1>1, <1>2, <1>3, PTL DEF Spec

(***************************************************************************)
(* A step of the tracker is a step of unbounded memory, or a stutter.      *)
(***************************************************************************)
LEMMA StepRefines ==
  IInv /\ [Next]_vars => [Abstract!Next]_(Abstract!vars)
<1> SUFFICES ASSUME IInv, [Next]_vars
             PROVE  Abstract!Next \/ UNCHANGED Abstract!vars
  OBVIOUS
<1> USE DEF IInv, TypeOK
<1>1. ASSUME NEW n \in Notifs, MarkOne(n) PROVE Abstract!Next
  <2>1. Abstract!Skip({n})
    BY <1>1 DEF MarkOne, Abstract!Skip
  <2> QED
    BY <2>1 DEF Abstract!Next
<1>2. ASSUME NEW page \in SUBSET Notifs, Prime(page) PROVE Abstract!Next
  BY <1>2 DEF Prime, Abstract!Skip, Abstract!Next
<1>3. ASSUME NEW page \in SUBSET Notifs, TakeNewSorted(page) PROVE Abstract!Next
  <2>1. Fresh(dedup, indexedAt, page) = {n \in page : Abstract!StillNew(n)}
    BY DEF Fresh, IsNewExactly, Abstract!StillNew
  <2>2. Abstract!Take(page)
    BY <1>3, <2>1 DEF TakeNewSorted, Abstract!Take
  <2> QED
    BY <2>2 DEF Abstract!Next
<1>4. CASE SaveAndReload
  <2>1. Abstract!Take({})
    BY <1>4 DEF SaveAndReload, Abstract!Take
  <2> QED
    BY <2>1 DEF Abstract!Next
<1>5. CASE UNCHANGED vars
  BY <1>5 DEF vars, Abstract!vars
<1> QED
  BY <1>1, <1>2, <1>3, <1>4, <1>5 DEF Next

(***************************************************************************)
(* The tracker implements FreshSet: one timestamp and one tie set are      *)
(* enough to do what remembering every notification would.                 *)
(***************************************************************************)
THEOREM ImplementsFreshSet == Spec => FreshSpec
<1>1. Init => Abstract!Init
  BY DEF Init, Abstract!Init, Times
<1>2. Init => IInv
  BY TypeInit, ExactInit DEF IInv
<1>3. IInv /\ [Next]_vars => IInv'
  BY TypeNext, ExactNext DEF IInv
<1>4. IInv /\ [Next]_vars => [Abstract!Next]_(Abstract!vars)
  BY StepRefines
<1> QED
  BY <1>1, <1>2, <1>3, <1>4, PTL DEF Spec, FreshSpec, Abstract!Spec

============================================================================
