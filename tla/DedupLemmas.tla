---------------------------- MODULE DedupLemmas ----------------------------
(***************************************************************************)
(* What the watermark operators of module Dedup compute, for any set of    *)
(* notifications and any timestamps.                                       *)
(***************************************************************************)
EXTENDS Dedup, WellFoundedInduction, TLAPS

Stamps == Times \cup {NoTime}

(***************************************************************************)
(* A non-empty set of timestamps has a newest one.  The least of its upper *)
(* bounds exists because < is well-founded, and belongs to the set: if it  *)
(* did not, the number before it would be a smaller upper bound.           *)
(***************************************************************************)
LEMMA NewestExists ==
  ASSUME NEW T \in SUBSET (0..MaxTime), T # {}
  PROVE  \E t \in T : \A u \in T : t >= u
<1> DEFINE Bounds == {b \in Nat : \A u \in T : u <= b}
<1>1. Bounds \subseteq Nat /\ MaxTime \in Bounds
  BY MaxTimeAssumption
<1>2. PICK b \in Bounds : \A c \in Bounds : <<c, b>> \notin OpToRel(<, Nat)
  BY <1>1, NatLessThanWellFounded, WFMin
<1>3. \A c \in Bounds : ~(c < b)
  BY <1>1, <1>2 DEF OpToRel
<1>4. b \in T
  <2> SUFFICES ASSUME b \notin T PROVE FALSE
    OBVIOUS
  <2>1. PICK u \in T : TRUE
    OBVIOUS
  <2>2. \A v \in T : v \in Nat /\ v < b
    BY <1>1
  <2>3. b - 1 \in Bounds /\ b - 1 < b
    BY <1>1, <2>1, <2>2
  <2> QED
    BY <1>3, <2>3
<1> QED
  BY <1>1, <1>4

LEMMA MaxIsNewest ==
  ASSUME NEW T \in SUBSET (0..MaxTime), T # {}
  PROVE  Max(T) \in T /\ \A u \in T : u <= Max(T)
<1>1. \E t \in T : \A u \in T : t >= u
  BY NewestExists
<1>2. Max(T) \in T /\ \A u \in T : Max(T) >= u
  BY <1>1 DEF Max
<1> QED
  BY <1>2, MaxTimeAssumption

(***************************************************************************)
(* The top of a page joined with the watermark, as MarkAll computes it.    *)
(***************************************************************************)
LEMMA TopOfPage ==
  ASSUME NEW d \in Dedups, NEW at \in [Notifs -> Stamps],
         NEW S \in SUBSET Notifs
  PROVE  /\ Top(d, at, S) \in Stamps
         /\ Top(d, at, S) = d.highWater \/ \E m \in S : at[m] = Top(d, at, S)
         /\ d.highWater <= Top(d, at, S)
         /\ \A n \in S : at[n] <= Top(d, at, S)
<1> DEFINE T == {d.highWater} \cup {at[n] : n \in S}
<1>1. T \in SUBSET (0..MaxTime) /\ T # {}
  BY MaxTimeAssumption DEF Dedups, Stamps, Times, NoTime
<1>2. Top(d, at, S) \in T /\ \A u \in T : u <= Top(d, at, S)
  <2> HIDE DEF T
  <2>1. Max(T) \in T /\ \A u \in T : u <= Max(T)
    BY <1>1, MaxIsNewest
  <2> QED
    BY <2>1 DEF T, Top
<1>3. Top(d, at, S) \in Stamps
  BY <1>1, <1>2, MaxTimeAssumption DEF Stamps, Times, NoTime
<1> QED
  BY <1>2, <1>3

(***************************************************************************)
(* Marking a page yields a tracker again, and nothing else is forgotten or *)
(* remembered: a notification is new afterwards iff it was new before, is  *)
(* not on the page, and is not older than a notification on it.            *)
(***************************************************************************)
LEMMA MarkAllType ==
  ASSUME NEW d \in Dedups, NEW at \in [Notifs -> Stamps],
         NEW S \in SUBSET Notifs
  PROVE  MarkAll(d, at, S) \in Dedups
BY TopOfPage DEF MarkAll, Dedups, Stamps

LEMMA MarkAllIsNew ==
  ASSUME NEW d \in Dedups, NEW at \in [Notifs -> Stamps],
         NEW S \in SUBSET Notifs, NEW n \in Notifs
  PROVE  IsNew(MarkAll(d, at, S), at, n) <=>
           /\ IsNew(d, at, n)
           /\ n \notin S
           /\ \A m \in S : at[m] <= at[n]
<1> DEFINE top == Top(d, at, S)
<1>1. /\ top \in Stamps
      /\ top = d.highWater \/ \E m \in S : at[m] = top
      /\ d.highWater <= top
      /\ \A m \in S : at[m] <= top
  BY TopOfPage
<1>2. at[n] \in Nat /\ top \in Nat /\ d.highWater \in Nat /\ \A m \in S : at[m] \in Nat
  BY <1>1, MaxTimeAssumption DEF Dedups, Stamps, Times, NoTime
<1>3. IsNew(MarkAll(d, at, S), at, n) <=>
        \/ at[n] > top
        \/ /\ at[n] = top
           /\ n \notin S
           /\ top = d.highWater => n \notin d.seenAtWatermark
  BY DEF IsNew, MarkAll
<1> HIDE DEF top
<1>4. ASSUME at[n] > top
      PROVE  IsNew(d, at, n) /\ n \notin S /\ \A m \in S : at[m] <= at[n]
  BY <1>1, <1>2, <1>4 DEF IsNew
<1>5. ASSUME at[n] = top
      PROVE  \A m \in S : at[m] <= at[n]
  BY <1>1, <1>5
<1>6. ASSUME at[n] = top
      PROVE  IsNew(d, at, n) <=> (top = d.highWater => n \notin d.seenAtWatermark)
  BY <1>1, <1>2, <1>6 DEF IsNew
<1>7. ASSUME at[n] < top
      PROVE  IsNew(d, at, n) => \E m \in S : ~(at[m] <= at[n])
  BY <1>1, <1>2, <1>7 DEF IsNew
<1>8. at[n] > top \/ at[n] = top \/ at[n] < top
  BY <1>2
<1> QED
  BY <1>2, <1>3, <1>4, <1>5, <1>6, <1>7, <1>8

(***************************************************************************)
(* The same of marking one notification.                                   *)
(***************************************************************************)
LEMMA MarkType ==
  ASSUME NEW d \in Dedups, NEW at \in [Notifs -> Stamps], NEW m \in Notifs
  PROVE  Mark(d, at, m) \in Dedups
<1>1. at[m] \in Nat /\ d.highWater \in Nat /\ at[m] \in Times \cup {NoTime}
  BY MaxTimeAssumption DEF Dedups, Stamps, Times, NoTime
<1>2. at[m] = d.highWater \/ at[m] < d.highWater \/ at[m] > d.highWater
  BY <1>1
<1> QED
  BY <1>1, <1>2 DEF Mark, Dedups

LEMMA MarkIsNew ==
  ASSUME NEW d \in Dedups, NEW at \in [Notifs -> Stamps],
         NEW m \in Notifs, NEW n \in Notifs
  PROVE  IsNew(Mark(d, at, m), at, n) <=>
           IsNew(d, at, n) /\ n # m /\ at[m] <= at[n]
<1>1. at[m] \in Nat /\ at[n] \in Nat /\ d.highWater \in Nat
  BY MaxTimeAssumption DEF Dedups, Stamps, Times, NoTime
<1>2. CASE at[m] = d.highWater
  <2>1. /\ Mark(d, at, m).highWater = d.highWater
        /\ Mark(d, at, m).seenAtWatermark = d.seenAtWatermark \cup {m}
    BY <1>1, <1>2 DEF Mark, Dedups
  <2> QED
    BY <1>1, <1>2, <2>1 DEF IsNew
<1>3. CASE at[m] < d.highWater
  <2>1. Mark(d, at, m) = d
    BY <1>1, <1>3 DEF Mark
  <2> QED
    BY <1>1, <1>3, <2>1 DEF IsNew
<1>4. CASE at[m] > d.highWater
  <2>1. Mark(d, at, m) = [highWater |-> at[m], seenAtWatermark |-> {m}]
    BY <1>1, <1>4 DEF Mark
  <2> QED
    BY <1>1, <1>4, <2>1 DEF IsNew
<1> QED
  BY <1>1, <1>2, <1>3, <1>4

(***************************************************************************)
(* Saving a tracker and reading it back loses nothing, and every saved     *)
(* form reads back as a tracker.                                           *)
(***************************************************************************)
LEMMA SaveRoundTrip ==
  /\ \A d \in Dedups : ToJson(d) \in SavedForms /\ FromJson(ToJson(d)) = d
  /\ \A s \in SavedForms : FromJson(s) \in Dedups
BY DEF ToJson, FromJson, Dedups, SavedForms

============================================================================
