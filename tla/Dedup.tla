------------------------------- MODULE Dedup -------------------------------
(***************************************************************************)
(* The notification watermark of src/dedup.rs: which notifications has the *)
(* polling loop already handled?  The answer is kept in constant space:    *)
(* the newest indexedAt handled, and the notifications handled at exactly  *)
(* that time, since several may share a timestamp.                         *)
(*                                                                         *)
(* A notification is known by its URI (an element of Notifs); `at' maps it *)
(* to its indexedAt.  High water 0 is the code's None: real times start    *)
(* at 1, so every notification is newer than no watermark at all.          *)
(***************************************************************************)
EXTENDS Integers, FiniteSets, FiniteSetsExt

CONSTANTS
  Notifs,   \* The notifications that may ever exist, by URI.
  MaxTime   \* Bounds the server's timestamps.

ASSUME MaxTimeAssumption == MaxTime \in Nat

NoTime == 0
Times  == 1..MaxTime

Dedups == [highWater : Times \cup {NoTime}, seenAtWatermark : SUBSET Notifs]

EmptyDedup == [highWater |-> NoTime, seenAtWatermark |-> {}]

(***************************************************************************)
(* A notification at the watermark itself is new unless it is one of those *)
(* handled there; below it, everything counts as handled.                  *)
(***************************************************************************)
\* Mutant: the tie set is ignored, and what shares the watermark's time is old.
IsNewIgnoringTies(d, at, n) == at[n] > d.highWater

\* Mutant: the tie set is ignored, and what shares the watermark's time is new.
IsNewAtTies(d, at, n) == at[n] >= d.highWater

IsNew(d, at, n) ==
  \/ at[n] > d.highWater
  \/ at[n] = d.highWater /\ n \notin d.seenAtWatermark

(***************************************************************************)
(* Recording one notification.                                             *)
(***************************************************************************)
Mark(d, at, n) ==
  CASE at[n] = d.highWater -> [d EXCEPT !.seenAtWatermark = @ \cup {n}]
    [] at[n] < d.highWater -> d
    [] at[n] > d.highWater -> [highWater |-> at[n], seenAtWatermark |-> {n}]

(***************************************************************************)
(* Recording a whole page, one notification after another.  The result     *)
(* does not depend on the order, which is why it can be stated in closed   *)
(* form: the highest time there is, and all that is tied at it.            *)
(***************************************************************************)
Top(d, at, S) == Max({d.highWater} \cup {at[n] : n \in S})

\* Mutant: the tie set is replaced even when the watermark did not move.
MarkAllForgettingTies(d, at, S) ==
  [highWater       |-> Top(d, at, S),
   seenAtWatermark |-> {n \in S : at[n] = Top(d, at, S)}]

MarkAll(d, at, S) ==
  [highWater       |-> Top(d, at, S),
   seenAtWatermark |-> {n \in S : at[n] = Top(d, at, S)} \cup
     (IF Top(d, at, S) = d.highWater THEN d.seenAtWatermark ELSE {})]

Fresh(d, at, page) == {n \in page : IsNew(d, at, n)}

(***************************************************************************)
(* What is written to a store, and what comes back.  The tie set is saved  *)
(* as a list in the order the hash set yields it; reading it back collects *)
(* it into a set again, so the list is modelled as the set of its members. *)
(***************************************************************************)
SavedForms == [high_water : Times \cup {NoTime}, seen : SUBSET Notifs]

ToJson(d) == [high_water |-> d.highWater, seen |-> d.seenAtWatermark]

FromJson(s) == [highWater |-> s.high_water, seenAtWatermark |-> s.seen]

============================================================================
