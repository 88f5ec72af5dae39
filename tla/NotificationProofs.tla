------------------------ MODULE NotificationProofs ------------------------
(***************************************************************************)
(* The safety of the notification loop, for any number of notifications,   *)
(* any page size, any store and any number of crashes and restarts.        *)
(***************************************************************************)
EXTENDS NotificationLoop, DedupLemmas

USE DEF Down, Awake, Saving

----------------------------------------------------------------------------
(***************************************************************************)
(* Types.                                                                  *)
(***************************************************************************)

LEMMA SavesType ==
  ASSUME TypeOK, NEW w \in SavedForms, NEW s \in Saves(w)
  PROVE  s \in SavedForms \cup {Absent}
BY OptionsAssumption DEF Saves, TypeOK, StoreKinds

LEMMA PageType ==
  ASSUME NEW page \in Pages
  PROVE  page \subseteq listed
BY DEF Pages

LEMMA TypeInit == Init => TypeOK
<1>1. EmptyDedup \in Dedups
  BY DEF EmptyDedup, Dedups
<1>2. 0 \in 0..MaxRuns
  BY MaxRunsAssumption
<1>3. ASSUME Init
      PROVE  /\ indexedAt \in [Notifs -> Times \cup {NoTime}]
             /\ handled \in [Notifs -> Nat]
  BY <1>3 DEF Init
<1>4. ASSUME Init
      PROVE  stored \in SavedForms \cup {Absent} /\ pc \in Down \cup Awake
  BY <1>4 DEF Init
<1> QED
  BY <1>1, <1>2, <1>3, <1>4 DEF Init, TypeOK

(***************************************************************************)
(* Every step leaves the loop, its store, the server and the history in a  *)
(* state of the right shape.                                               *)
(***************************************************************************)
LEMMA TypeNext == TypeOK /\ [Next]_vars => TypeOK'
<1> SUFFICES ASSUME TypeOK, [Next]_vars PROVE TypeOK'
  OBVIOUS
<1> USE DEF TypeOK, server, history
<1>0. indexedAt \in [Notifs -> Stamps] /\ EmptyDedup \in Dedups
  BY DEF Stamps, EmptyDedup, Dedups
<1>s. \A s \in Saves(ToJson(dedup)) : s \in SavedForms \cup {Absent}
  BY SavesType, SaveRoundTrip
<1>1. ASSUME NEW n \in Notifs, NEW t \in Times, Index(n, t) PROVE TypeOK'
  BY <1>1 DEF Index
<1>2. ASSUME NEW n \in Notifs, Withdraw(n) PROVE TypeOK'
  BY <1>2 DEF Withdraw
<1>3. CASE Restore
  BY <1>3, SaveRoundTrip DEF Restore
<1>4. CASE NothingRestored
  BY <1>4 DEF NothingRestored
<1>5. CASE PrimeFetched
  <2>1. PICK page \in Pages :
          /\ dedup' = MarkAll(dedup, indexedAt, page)
          /\ primed' = primed \cup
               {n \in listed : n \in page \/ \E m \in page : indexedAt[n] < indexedAt[m]}
    BY <1>5 DEF PrimeFetched
  <2>2. dedup' \in Dedups
    BY <1>0, <2>1, PageType, MarkAllType
  <2> QED
    BY <1>5, <2>1, <2>2 DEF PrimeFetched
<1>6. CASE PersistPrime
  BY <1>6, <1>s DEF PersistPrime
<1>7. CASE PollFetched
  <2>1. PICK page \in Pages :
          /\ batch' = Fresh(dedup, indexedAt, page)
          /\ dedup' = MarkAll(dedup, indexedAt, batch')
          /\ missed' = missed \cup {n \in listed \ page :
                                     /\ IsNew(dedup, indexedAt, n)
                                     /\ ~IsNew(dedup', indexedAt, n)}
    BY <1>7 DEF PollFetched
  <2>2. batch' \in SUBSET Notifs
    BY <2>1, PageType DEF Fresh
  <2>3. dedup' \in Dedups
    BY <1>0, <2>1, <2>2, MarkAllType
  <2> QED
    BY <1>7, <2>1, <2>2, <2>3 DEF PollFetched
<1>8. ASSUME NEW n \in Notifs, Dispatch(n) PROVE TypeOK'
  BY <1>8 DEF Dispatch, AfterBatch
<1>9. CASE MarkSeen
  BY <1>9 DEF MarkSeen
<1>10. CASE Persist
  BY <1>10, <1>s DEF Persist
<1>11. CASE Stop
  BY <1>0, <1>11 DEF Stop
<1>12. CASE Start
  <2>1. runs' \in 0..MaxRuns
    BY <1>12, MaxRunsAssumption DEF Start
  <2>2. stored' \in SavedForms \cup {Absent} /\ pc' \in Down \cup Awake
    BY <1>12 DEF Start
  <2> QED
    BY <1>12, <2>1, <2>2 DEF Start
<1>13. CASE Crash
  BY <1>0, <1>s, <1>13 DEF Crash
<1>14. CASE PrimeFailed \/ Tick \/ PollFailed \/ RequestShutdown \/ UNCHANGED vars
  BY <1>14 DEF PrimeFailed, Tick, PollFailed, RequestShutdown, vars
<1> QED
  BY <1>1, <1>2, <1>3, <1>4, <1>5, <1>6, <1>7, <1>8, <1>9, <1>10, <1>11, <1>12,
     <1>13, <1>14 DEF Next, Server, Bot, Process

(***************************************************************************)
(* The loop never leaves the states its types allow, and is never started  *)
(* more often than the bound.                                              *)
(***************************************************************************)
THEOREM LoopTypeCorrect == Spec => []TypeOK
<1> QED
  BY TypeInit, TypeNext, PTL DEF Spec

----------------------------------------------------------------------------
(***************************************************************************)
(* The inductive invariant.  Each part is what one fact of the loop's      *)
(* correctness needs to survive every step.                                *)
(***************************************************************************)

\* What the bot has taken, dispatched or primed has been indexed.
Indexed(n) == indexedAt[n] # NoTime

IndexedInv == \A n \in listed \cup batch \cup inRun \cup primed : Indexed(n)

\* A tracker's watermark is the time of some notification, and its tie set
\* holds indexed ones: one indexed later can neither be older nor a tie.
Grounded(d) ==
  /\ d.highWater # NoTime => \E m \in Notifs : indexedAt[m] = d.highWater
  /\ \A m \in d.seenAtWatermark : Indexed(m)

GroundedInv ==
  /\ Grounded(dedup)
  /\ stored # Absent => Grounded(FromJson(stored))

\* What the program counter says about the loop's local state.
PhaseInv ==
  /\ pc # "dispatch" => batch = {}
  /\ pc \in Down \cup {"restore", "prime"} => dedup = EmptyDedup
  /\ pc \in {"restore", "prime", "persistPrime"} => inRun = {}

\* The batch and what was dispatched before it are covered by the watermark
\* in memory, disjoint, and in the order of their timestamps.
CoveredInv ==
  /\ batch \cap inRun = {}
  /\ pc \in Awake => \A n \in batch \cup inRun : ~IsNew(dedup, indexedAt, n)
  /\ \A m \in inRun, n \in batch : indexedAt[m] <= indexedAt[n]

\* The watermark in the store never covers more than the one in memory, nor
\* any of the batch.
StoredBehindInv ==
  StoreKind # "custom" =>
    /\ \A n \in batch : StoredIsNew(n)
    /\ pc \in Awake \ {"restore"} =>
         \A n \in Notifs :
           Indexed(n) /\ IsNew(dedup, indexedAt, n) => StoredIsNew(n)

\* What was primed is covered by both watermarks, wherever there is one.
PrimedInv ==
  StoreKind # "custom" =>
    /\ primed \cap batch = {}
    /\ pc \in Awake \ {"restore"} => \A n \in primed : ~IsNew(dedup, indexedAt, n)
    /\ stored # Absent => \A n \in primed : ~StoredIsNew(n)
    /\ pc \in {"prime", "persistPrime"} => stored = Absent

\* With a store that does not fail, the idle loop has saved all it did.
SavedInv ==
  StoreKind = "memory" /\ pc \in {"select", "fetch", "stopped"} =>
    \A n \in inRun : ~StoredIsNew(n)

IInv ==
  /\ TypeOK
  /\ IndexedInv
  /\ GroundedInv
  /\ PhaseInv
  /\ CoveredInv
  /\ NothingLost
  /\ StoredBehindInv
  /\ PrimedInv
  /\ SavedInv

----------------------------------------------------------------------------
(***************************************************************************)
(* Facts the steps share.                                                  *)
(***************************************************************************)

\* Without a watermark every indexed notification is new.
LEMMA EmptyIsNew ==
  ASSUME TypeOK, NEW n \in Notifs, Indexed(n)
  PROVE  IsNew(EmptyDedup, indexedAt, n)
<1>1. indexedAt[n] \in Nat /\ indexedAt[n] > 0
  BY MaxTimeAssumption DEF TypeOK, Indexed, Times, NoTime
<1> QED
  BY <1>1 DEF IsNew, EmptyDedup, NoTime

\* A save leaves the watermark in memory, what was there before, or nothing.
LEMMA SaveOutcomes ==
  ASSUME TypeOK, NEW s \in Saves(ToJson(dedup))
  PROVE  /\ s = ToJson(dedup) \/ s = stored \/ s = Absent
         /\ StoreKind = "memory" => s = ToJson(dedup)
         /\ ToJson(dedup) # Absent
         /\ FromJson(ToJson(dedup)) = dedup
<1>1. ToJson(dedup) \in SavedForms /\ FromJson(ToJson(dedup)) = dedup
  BY SaveRoundTrip DEF TypeOK
<1>2. s = ToJson(dedup) \/ s = stored \/ s = Absent
  BY OptionsAssumption DEF Saves, StoreKinds
<1>3. StoreKind = "memory" => s = ToJson(dedup)
  BY DEF Saves
<1> QED
  BY <1>1, <1>2, <1>3, AbsentAssumption

\* Indexing a notification leaves what is known of the others alone, and the
\* newcomer is new to every grounded tracker: its time is not before the
\* watermark, and it cannot be in the tie set.
LEMMA IndexKeepsOthers ==
  ASSUME TypeOK, NEW n \in Notifs, NEW t \in Times, Index(n, t)
  PROVE  /\ \A m \in Notifs \ {n} : indexedAt'[m] = indexedAt[m]
         /\ indexedAt'[n] = t
         /\ indexedAt[n] = NoTime /\ t # NoTime
         /\ \A m \in Notifs : indexedAt[m] <= t
         /\ \A m \in Notifs : Indexed(m) => m # n
BY MaxTimeAssumption DEF TypeOK, Index, Times, NoTime, Indexed

LEMMA NewcomerIsNew ==
  ASSUME TypeOK, NEW d \in Dedups, Grounded(d),
         NEW n \in Notifs, NEW t \in Times, Index(n, t)
  PROVE  IsNew(d, indexedAt', n)
<1>1. /\ indexedAt'[n] = t /\ indexedAt[n] = NoTime /\ t \in Nat /\ t > 0
      /\ \A m \in Notifs : indexedAt[m] <= t
  BY IndexKeepsOthers, MaxTimeAssumption DEF Times
<1>2. n \notin d.seenAtWatermark
  BY <1>1 DEF Grounded, Indexed
<1>3. d.highWater \in Nat /\ d.highWater <= t
  BY <1>1, MaxTimeAssumption DEF Grounded, Dedups, Times, NoTime
<1> QED
  BY <1>1, <1>2, <1>3 DEF IsNew

\* Priming and polling, with the page they were given.
LEMMA PrimePage ==
  ASSUME PrimeFetched
  PROVE  \E page \in SUBSET listed :
           /\ dedup' = MarkAll(dedup, indexedAt, page)
           /\ primed' = primed \cup
                {n \in listed : n \in page \/ \E m \in page : indexedAt[n] < indexedAt[m]}
BY PageType DEF PrimeFetched

LEMMA PollPage ==
  ASSUME PollFetched
  PROVE  \E page \in SUBSET listed :
           /\ batch' = Fresh(dedup, indexedAt, page)
           /\ dedup' = MarkAll(dedup, indexedAt, batch')
           /\ missed' = missed \cup {n \in listed \ page :
                                      /\ IsNew(dedup, indexedAt, n)
                                      /\ ~IsNew(dedup', indexedAt, n)}
BY PageType DEF PollFetched

----------------------------------------------------------------------------
(***************************************************************************)
(* Each part of the invariant survives every step.                         *)
(***************************************************************************)

LEMMA IndexedNext == IInv /\ [Next]_vars => IndexedInv'
<1> SUFFICES ASSUME IInv, [Next]_vars,
                    NEW n \in (listed \cup batch \cup inRun \cup primed)'
             PROVE  Indexed(n)'
  BY DEF IndexedInv
<1> USE DEF IInv, IndexedInv, server, history
<1>1. ASSUME NEW m \in Notifs, NEW t \in Times, Index(m, t) PROVE Indexed(n)'
  <2>1. n = m \/ Indexed(n)
    BY <1>1 DEF Index
  <2> QED
    BY <1>1, <2>1, IndexKeepsOthers DEF Index, Indexed, TypeOK
<1>2. CASE PrimeFetched
  <2>1. n \in listed \cup batch \cup inRun \cup primed /\ UNCHANGED indexedAt
    BY <1>2, PrimePage DEF PrimeFetched
  <2> QED
    BY <2>1 DEF Indexed
<1>3. CASE PollFetched
  <2>1. n \in listed \cup batch \cup inRun \cup primed /\ UNCHANGED indexedAt
    BY <1>3, PollPage DEF PollFetched, Fresh
  <2> QED
    BY <2>1 DEF Indexed
<1>4. ASSUME NEW m \in Notifs, Dispatch(m) PROVE Indexed(n)'
  BY <1>4 DEF Dispatch, Oldest, Indexed
<1>5. ASSUME NEW m \in Notifs, Withdraw(m) PROVE Indexed(n)'
  BY <1>5 DEF Withdraw, Indexed
<1>6. CASE Start \/ Crash \/ Restore \/ NothingRestored \/ Stop
  BY <1>6 DEF Start, Crash, Restore, NothingRestored, Stop, Indexed
<1>7. CASE \/ PrimeFailed \/ PersistPrime \/ Tick \/ PollFailed \/ MarkSeen
           \/ Persist \/ RequestShutdown \/ UNCHANGED vars
  BY <1>7 DEF PrimeFailed, PersistPrime, Tick, PollFailed, MarkSeen, Persist,
       RequestShutdown, vars, Indexed
<1> QED
  BY <1>1, <1>2, <1>3, <1>4, <1>5, <1>6, <1>7 DEF Next, Server, Bot, Process

LEMMA PhaseNext == IInv /\ [Next]_vars => PhaseInv'
<1> SUFFICES ASSUME IInv, [Next]_vars PROVE PhaseInv'
  OBVIOUS
<1> USE DEF IInv, PhaseInv, server, history
<1>1. ASSUME NEW n \in Notifs, NEW t \in Times, Index(n, t) PROVE PhaseInv'
  BY <1>1 DEF Index
<1>2. ASSUME NEW n \in Notifs, Withdraw(n) PROVE PhaseInv'
  BY <1>2 DEF Withdraw
<1>3. ASSUME NEW n \in Notifs, Dispatch(n) PROVE PhaseInv'
  BY <1>3 DEF Dispatch, AfterBatch
<1>4. CASE Restore \/ NothingRestored \/ PrimeFetched \/ PrimeFailed \/ PersistPrime
  BY <1>4 DEF Restore, NothingRestored, PrimeFetched, PrimeFailed, PersistPrime
<1>5. CASE Tick \/ PollFetched \/ PollFailed \/ MarkSeen \/ Persist
  BY <1>5 DEF Tick, PollFetched, PollFailed, MarkSeen, Persist
<1>6. CASE Start \/ RequestShutdown \/ Stop \/ Crash \/ UNCHANGED vars
  BY <1>6 DEF Start, RequestShutdown, Stop, Crash, vars
<1> QED
  BY <1>1, <1>2, <1>3, <1>4, <1>5, <1>6 DEF Next, Server, Bot, Process

\* Marking indexed notifications keeps a tracker grounded.
LEMMA MarkAllGrounded ==
  ASSUME TypeOK, NEW d \in Dedups, Grounded(d), NEW S \in SUBSET Notifs,
         \A n \in S : Indexed(n)
  PROVE  Grounded(MarkAll(d, indexedAt, S))
<1>1. Top(d, indexedAt, S) = d.highWater \/ \E m \in S : indexedAt[m] = Top(d, indexedAt, S)
  BY TopOfPage DEF TypeOK, Stamps
<1> QED
  BY <1>1 DEF Grounded, MarkAll

LEMMA GroundedNext == IInv /\ [Next]_vars => GroundedInv'
<1> SUFFICES ASSUME IInv, [Next]_vars PROVE GroundedInv'
  OBVIOUS
<1> USE DEF IInv, server, history
<1>0. Grounded(EmptyDedup)
  BY DEF Grounded, EmptyDedup
<1>1. ASSUME NEW n \in Notifs, NEW t \in Times, Index(n, t) PROVE GroundedInv'
  <2>1. ASSUME NEW d \in Dedups, Grounded(d) PROVE Grounded(d)'
    <3>1. \A m \in Notifs : indexedAt[m] # NoTime => indexedAt'[m] = indexedAt[m]
      BY <1>1, IndexKeepsOthers DEF Indexed
    <3>2. \A m \in d.seenAtWatermark : Indexed(m)'
      BY <2>1, <3>1 DEF Grounded, Indexed, Dedups
    <3>3. d.highWater # NoTime => \E m \in Notifs : indexedAt'[m] = d.highWater
      BY <2>1, <3>1 DEF Grounded
    <3> QED
      BY <3>2, <3>3 DEF Grounded
  <2>2. dedup \in Dedups /\ (stored # Absent => FromJson(stored) \in Dedups)
    BY SaveRoundTrip DEF TypeOK
  <2> QED
    BY <1>1, <2>1, <2>2 DEF Index, GroundedInv
<1>2. CASE PrimeFetched
  <2>1. PICK page \in SUBSET listed : dedup' = MarkAll(dedup, indexedAt, page)
    BY <1>2, PrimePage
  <2>2. Grounded(dedup')
    BY <2>1, MarkAllGrounded DEF TypeOK, GroundedInv, IndexedInv
  <2> QED
    BY <1>2, <2>2 DEF PrimeFetched, GroundedInv, Grounded, Indexed
<1>3. CASE PollFetched
  <2>1. PICK page \in SUBSET listed :
          batch' = Fresh(dedup, indexedAt, page) /\ dedup' = MarkAll(dedup, indexedAt, batch')
    BY <1>3, PollPage
  <2>2. batch' \in SUBSET listed
    BY <2>1 DEF Fresh
  <2>3. Grounded(dedup')
    BY <2>1, <2>2, MarkAllGrounded DEF TypeOK, GroundedInv, IndexedInv
  <2> QED
    BY <1>3, <2>3 DEF PollFetched, GroundedInv, Grounded, Indexed
<1>4. CASE PersistPrime \/ Persist
  BY <1>4, SaveOutcomes DEF PersistPrime, Persist, GroundedInv, Grounded, Indexed
<1>5. CASE Crash
  BY <1>0, <1>5, SaveOutcomes DEF Crash, GroundedInv, Grounded, Indexed
<1>6. CASE Restore
  BY <1>6 DEF Restore, GroundedInv, Grounded, Indexed
<1>7. CASE Start \/ Stop
  BY <1>0, <1>7 DEF Start, Stop, GroundedInv, Grounded, Indexed
<1>8. ASSUME NEW n \in Notifs, Withdraw(n) \/ Dispatch(n) PROVE GroundedInv'
  BY <1>8 DEF Withdraw, Dispatch, GroundedInv, Grounded, Indexed
<1>9. CASE \/ NothingRestored \/ PrimeFailed \/ Tick \/ PollFailed \/ MarkSeen
           \/ RequestShutdown \/ UNCHANGED vars
  BY <1>9 DEF NothingRestored, PrimeFailed, Tick, PollFailed, MarkSeen,
       RequestShutdown, vars, GroundedInv, Grounded, Indexed
<1> QED
  BY <1>1, <1>2, <1>3, <1>4, <1>5, <1>6, <1>7, <1>8, <1>9
     DEF Next, Server, Bot, Process

\* Facts about what a poll takes: it was new, and is covered from now on.
LEMMA TakenFromPage ==
  ASSUME IInv, NEW page \in SUBSET listed
  PROVE  LET fresh == Fresh(dedup, indexedAt, page)
             after == MarkAll(dedup, indexedAt, fresh)
         IN  /\ fresh \in SUBSET listed
             /\ \A n \in fresh : IsNew(dedup, indexedAt, n) /\ ~IsNew(after, indexedAt, n)
             /\ \A n \in Notifs : IsNew(after, indexedAt, n) => IsNew(dedup, indexedAt, n)
<1> DEFINE fresh == Fresh(dedup, indexedAt, page)
<1>1. fresh \in SUBSET listed /\ \A n \in fresh : IsNew(dedup, indexedAt, n)
  BY DEF Fresh
<1>2. listed \in SUBSET Notifs /\ dedup \in Dedups /\ indexedAt \in [Notifs -> Stamps]
  BY DEF IInv, TypeOK, Stamps
<1> HIDE DEF fresh
<1>3. fresh \in SUBSET Notifs
  BY <1>1, <1>2
<1>4. \A n \in Notifs : IsNew(MarkAll(dedup, indexedAt, fresh), indexedAt, n) =>
                           IsNew(dedup, indexedAt, n) /\ n \notin fresh
  BY <1>2, <1>3, MarkAllIsNew
<1> QED
  BY <1>1, <1>3, <1>4 DEF fresh

LEMMA CoveredNext == IInv /\ [Next]_vars => CoveredInv'
<1> SUFFICES ASSUME IInv, [Next]_vars PROVE CoveredInv'
  OBVIOUS
<1> USE DEF IInv, server, history
<1>1. ASSUME NEW n \in Notifs, NEW t \in Times, Index(n, t) PROVE CoveredInv'
  <2>1. \A m \in batch \cup inRun : m \in Notifs /\ indexedAt'[m] = indexedAt[m]
    BY <1>1, IndexKeepsOthers DEF IndexedInv, TypeOK
  <2> QED
    BY <1>1, <2>1 DEF Index, CoveredInv, IsNew
<1>2. CASE PrimeFetched
  <2>1. batch = {} /\ inRun = {}
    BY <1>2 DEF PrimeFetched, PhaseInv
  <2> QED
    BY <1>2, <2>1 DEF PrimeFetched, CoveredInv
<1>3. CASE PollFetched
  <2>1. PICK page \in SUBSET listed :
          batch' = Fresh(dedup, indexedAt, page) /\ dedup' = MarkAll(dedup, indexedAt, batch')
    BY <1>3, PollPage
  <2>2. /\ batch' \in SUBSET listed
        /\ \A n \in batch' : IsNew(dedup, indexedAt, n) /\ ~IsNew(dedup', indexedAt, n)
        /\ \A n \in Notifs : IsNew(dedup', indexedAt, n) => IsNew(dedup, indexedAt, n)
    BY <2>1, TakenFromPage
  <2>3. /\ \A n \in inRun : n \in Notifs /\ ~IsNew(dedup, indexedAt, n)
        /\ UNCHANGED <<inRun, indexedAt>>
    BY <1>3 DEF PollFetched, CoveredInv, TypeOK
  <2>4. \A m \in inRun, n \in batch' : indexedAt[m] <= indexedAt[n]
    <3> SUFFICES ASSUME NEW m \in inRun, NEW n \in batch'
                 PROVE  indexedAt[m] <= indexedAt[n]
      OBVIOUS
    <3>1. indexedAt[m] \in Nat /\ indexedAt[n] \in Nat /\ dedup.highWater \in Nat
      BY <2>2, MaxTimeAssumption DEF TypeOK, Dedups, Times, NoTime
    <3> QED
      BY <2>2, <2>3, <3>1 DEF IsNew
  <2> QED
    BY <2>2, <2>3, <2>4 DEF CoveredInv
<1>4. ASSUME NEW n \in Notifs, Dispatch(n) PROVE CoveredInv'
  BY <1>4 DEF Dispatch, Oldest, CoveredInv
<1>5. CASE Restore \/ NothingRestored
  BY <1>5 DEF Restore, NothingRestored, CoveredInv, PhaseInv
<1>6. CASE Start \/ Stop \/ Crash
  BY <1>6 DEF Start, Stop, Crash, CoveredInv, PhaseInv
<1>7. ASSUME NEW n \in Notifs, Withdraw(n) PROVE CoveredInv'
  BY <1>7 DEF Withdraw, CoveredInv
<1>8. CASE \/ PrimeFailed \/ PersistPrime \/ Tick \/ PollFailed \/ MarkSeen
           \/ Persist \/ RequestShutdown \/ UNCHANGED vars
  BY <1>8 DEF PrimeFailed, PersistPrime, Tick, PollFailed, MarkSeen, Persist,
       RequestShutdown, vars, CoveredInv
<1> QED
  BY <1>1, <1>2, <1>3, <1>4, <1>5, <1>6, <1>7, <1>8 DEF Next, Server, Bot, Process

LEMMA NothingLostNext == IInv /\ [Next]_vars => NothingLost'
<1> SUFFICES ASSUME IInv, [Next]_vars, NEW n \in listed',
                    (handled[n] = 0 /\ n \notin primed /\ n \notin missed)'
             PROVE  /\ (n \in batch \/ IsNew(dedup, indexedAt, n))'
                    /\ StoredIsNew(n)'
  BY DEF NothingLost
<1> DEFINE Goal == /\ (n \in batch \/ IsNew(dedup, indexedAt, n))'
                   /\ StoredIsNew(n)'
<1> USE DEF IInv, server, history
<1>1. ASSUME NEW m \in Notifs, NEW t \in Times, Index(m, t) PROVE Goal
  <2>0. dedup \in Dedups /\ (stored # Absent => FromJson(stored) \in Dedups)
    BY SaveRoundTrip DEF TypeOK
  <2>1. CASE n = m
    BY <1>1, <2>0, <2>1, NewcomerIsNew DEF Index, StoredIsNew, GroundedInv
  <2>2. CASE n # m
    <3>1. n \in listed /\ indexedAt'[n] = indexedAt[n]
      BY <1>1, <2>2, IndexKeepsOthers DEF Index, TypeOK
    <3> QED
      BY <1>1, <3>1 DEF Index, StoredIsNew, NothingLost, IsNew
  <2> QED
    BY <2>1, <2>2
<1>2. CASE PrimeFetched
  <2>1. PICK page \in SUBSET listed :
          /\ dedup' = MarkAll(dedup, indexedAt, page)
          /\ primed' = primed \cup
               {k \in listed : k \in page \/ \E m \in page : indexedAt[k] < indexedAt[m]}
    BY <1>2, PrimePage
  <2>2. /\ n \in listed /\ handled[n] = 0 /\ n \notin primed /\ n \notin missed
        /\ n \notin page /\ \A m \in page : ~(indexedAt[n] < indexedAt[m])
        /\ UNCHANGED <<indexedAt, stored>> /\ batch = {}
    BY <1>2, <2>1 DEF PrimeFetched, PhaseInv
  <2>3. IsNew(dedup, indexedAt, n) /\ StoredIsNew(n)
    BY <2>2 DEF NothingLost
  <2>4. \A m \in page : indexedAt[m] <= indexedAt[n]
    BY <2>2, MaxTimeAssumption DEF TypeOK, Times, NoTime
  <2>5. IsNew(dedup', indexedAt, n)
    BY <2>1, <2>2, <2>3, <2>4, MarkAllIsNew DEF TypeOK, Stamps
  <2> QED
    BY <2>2, <2>3, <2>5 DEF StoredIsNew
<1>3. CASE PollFetched
  <2>1. PICK page \in SUBSET listed :
          /\ batch' = Fresh(dedup, indexedAt, page)
          /\ missed' = missed \cup {k \in listed \ page :
                                     /\ IsNew(dedup, indexedAt, k)
                                     /\ ~IsNew(dedup', indexedAt, k)}
    BY <1>3, PollPage
  <2>2. /\ n \in listed /\ handled[n] = 0 /\ n \notin primed /\ n \notin missed
        /\ UNCHANGED <<indexedAt, stored>> /\ batch = {}
    BY <1>3, <2>1 DEF PollFetched, PhaseInv
  <2>3. IsNew(dedup, indexedAt, n) /\ StoredIsNew(n)
    BY <2>2 DEF NothingLost
  <2>4. n \in batch' \/ IsNew(dedup', indexedAt, n)
    BY <2>1, <2>2, <2>3 DEF Fresh
  <2> QED
    BY <2>2, <2>3, <2>4 DEF StoredIsNew
<1>4. ASSUME NEW m \in Notifs, Dispatch(m) PROVE Goal
  <2>1. CASE n = m
    BY <1>4, <2>1 DEF Dispatch, TypeOK
  <2>2. CASE n # m
    BY <1>4, <2>2 DEF Dispatch, TypeOK, NothingLost, StoredIsNew
  <2> QED
    BY <2>1, <2>2
<1>5. CASE PersistPrime \/ Persist
  <2>1. n \in listed /\ handled[n] = 0 /\ n \notin primed /\ n \notin missed
        /\ UNCHANGED <<indexedAt, dedup, batch>> /\ batch = {}
    BY <1>5 DEF PersistPrime, Persist, PhaseInv
  <2>2. stored' = ToJson(dedup) \/ stored' = stored \/ stored' = Absent
    BY <1>5, SaveOutcomes DEF PersistPrime, Persist
  <2>3. IsNew(dedup, indexedAt, n) /\ StoredIsNew(n)
    BY <2>1 DEF NothingLost
  <2>4. FromJson(ToJson(dedup)) = dedup
    BY SaveRoundTrip DEF TypeOK
  <2> QED
    BY <2>1, <2>2, <2>3, <2>4 DEF StoredIsNew
<1>6. CASE Crash
  <2>1. n \in listed /\ handled[n] = 0 /\ n \notin primed /\ n \notin missed
        /\ UNCHANGED indexedAt /\ dedup' = EmptyDedup
    BY <1>6 DEF Crash
  <2>2. stored' = stored \/ stored' = Absent \/ (stored' = ToJson(dedup) /\ batch = {})
    BY <1>6, SaveOutcomes DEF Crash, PhaseInv
  <2>3. StoredIsNew(n) /\ (batch = {} => IsNew(dedup, indexedAt, n))
    BY <2>1 DEF NothingLost
  <2>4. FromJson(ToJson(dedup)) = dedup
    BY SaveRoundTrip DEF TypeOK
  <2>5. IsNew(EmptyDedup, indexedAt, n)
    BY <2>1, EmptyIsNew DEF IndexedInv, TypeOK
  <2> QED
    BY <2>1, <2>2, <2>3, <2>4, <2>5 DEF StoredIsNew
<1>7. CASE Restore
  BY <1>7 DEF Restore, NothingLost, StoredIsNew
<1>8. CASE NothingRestored
  <2>1. n \in listed /\ handled[n] = 0 /\ n \notin missed /\ dedup = EmptyDedup
        /\ UNCHANGED <<indexedAt, dedup, stored>>
    BY <1>8 DEF NothingRestored, PhaseInv
  <2>2. IsNew(dedup, indexedAt, n)
    BY <2>1, EmptyIsNew DEF IndexedInv, TypeOK
  <2>3. stored = Absent \/ n \notin primed
    BY <1>8 DEF NothingRestored
  <2> QED
    BY <2>1, <2>2, <2>3 DEF NothingLost, StoredIsNew
<1>9. CASE Start \/ Stop
  <2>1. n \in listed /\ handled[n] = 0 /\ n \notin primed /\ n \notin missed
        /\ UNCHANGED indexedAt /\ dedup' = EmptyDedup
    BY <1>9 DEF Start, Stop, PhaseInv
  <2>2. IsNew(EmptyDedup, indexedAt, n)
    BY <2>1, EmptyIsNew DEF IndexedInv, TypeOK
  <2>3. stored' = Absent \/ stored' = stored
    BY <1>9 DEF Start, Stop
  <2> QED
    BY <2>1, <2>2, <2>3 DEF NothingLost, StoredIsNew
<1>10. ASSUME NEW m \in Notifs, Withdraw(m) PROVE Goal
  BY <1>10 DEF Withdraw, NothingLost, StoredIsNew
<1>11. CASE \/ PrimeFailed \/ Tick \/ PollFailed \/ MarkSeen
            \/ RequestShutdown \/ UNCHANGED vars
  BY <1>11 DEF PrimeFailed, Tick, PollFailed, MarkSeen, RequestShutdown, vars,
       NothingLost, StoredIsNew
<1> QED
  BY <1>1, <1>2, <1>3, <1>4, <1>5, <1>6, <1>7, <1>8, <1>9, <1>10, <1>11
     DEF Next, Server, Bot, Process

LEMMA StoredBehindNext == IInv /\ [Next]_vars => StoredBehindInv'
<1> SUFFICES ASSUME IInv, [Next]_vars, StoreKind # "custom"
             PROVE  /\ \A n \in batch' : StoredIsNew(n)'
                    /\ pc' \in Awake \ {"restore"} =>
                         \A n \in Notifs :
                           Indexed(n)' /\ IsNew(dedup, indexedAt, n)' => StoredIsNew(n)'
  BY DEF StoredBehindInv
<1> DEFINE Goal == /\ \A n \in batch' : StoredIsNew(n)'
                   /\ pc' \in Awake \ {"restore"} =>
                        \A n \in Notifs :
                          Indexed(n)' /\ IsNew(dedup, indexedAt, n)' => StoredIsNew(n)'
<1> USE DEF IInv, server, history
<1>1. ASSUME NEW m \in Notifs, NEW t \in Times, Index(m, t) PROVE Goal
  <2>0. dedup \in Dedups /\ (stored # Absent => FromJson(stored) \in Dedups)
    BY SaveRoundTrip DEF TypeOK
  <2>1. StoredIsNew(m)'
    BY <1>1, <2>0, NewcomerIsNew DEF Index, StoredIsNew, GroundedInv
  <2>2. \A n \in Notifs \ {m} : indexedAt'[n] = indexedAt[n]
    BY <1>1, IndexKeepsOthers
  <2>3. UNCHANGED <<pc, stored, dedup, batch>>
    BY <1>1 DEF Index
  <2>4. ASSUME NEW n \in Notifs \ {m}
        PROVE  /\ IsNew(dedup, indexedAt, n)' <=> IsNew(dedup, indexedAt, n)
               /\ StoredIsNew(n)' <=> StoredIsNew(n)
               /\ Indexed(n)' <=> Indexed(n)
    BY <2>2, <2>3 DEF IsNew, StoredIsNew, Indexed
  <2> QED
    BY <2>1, <2>3, <2>4 DEF StoredBehindInv, TypeOK
<1>2. CASE PrimeFetched
  <2>1. PICK page \in SUBSET listed : dedup' = MarkAll(dedup, indexedAt, page)
    BY <1>2, PrimePage
  <2>2. \A n \in Notifs : IsNew(dedup', indexedAt, n) => IsNew(dedup, indexedAt, n)
    BY <2>1, MarkAllIsNew DEF TypeOK, Stamps
  <2> QED
    BY <1>2, <2>2 DEF PrimeFetched, StoredBehindInv, StoredIsNew, Indexed
<1>3. CASE PollFetched
  <2>1. PICK page \in SUBSET listed :
          batch' = Fresh(dedup, indexedAt, page) /\ dedup' = MarkAll(dedup, indexedAt, batch')
    BY <1>3, PollPage
  <2>2. /\ batch' \in SUBSET listed
        /\ \A n \in batch' : IsNew(dedup, indexedAt, n)
        /\ \A n \in Notifs : IsNew(dedup', indexedAt, n) => IsNew(dedup, indexedAt, n)
    BY <2>1, TakenFromPage
  <2>3. UNCHANGED <<indexedAt, stored>> /\ pc = "fetch"
    BY <1>3 DEF PollFetched
  <2>4. \A n \in Notifs : Indexed(n) /\ IsNew(dedup, indexedAt, n) => StoredIsNew(n)
    BY <2>3 DEF StoredBehindInv
  <2>5. \A n \in batch' : n \in Notifs /\ Indexed(n)
    BY <2>2 DEF IndexedInv, TypeOK
  <2> QED
    BY <2>2, <2>3, <2>4, <2>5 DEF StoredIsNew, Indexed
<1>4. ASSUME NEW m \in Notifs, Dispatch(m) \/ Withdraw(m) PROVE Goal
  BY <1>4 DEF Dispatch, Withdraw, AfterBatch, StoredBehindInv, StoredIsNew, Indexed
<1>5. CASE PersistPrime \/ Persist
  <2>1. UNCHANGED <<indexedAt, dedup, batch>> /\ batch = {} /\ pc \in Saving
    BY <1>5 DEF PersistPrime, Persist, PhaseInv
  <2>2. stored' = ToJson(dedup) \/ stored' = stored \/ stored' = Absent
    BY <1>5, SaveOutcomes DEF PersistPrime, Persist
  <2>3. FromJson(ToJson(dedup)) = dedup
    BY SaveRoundTrip DEF TypeOK
  <2> QED
    BY <2>1, <2>2, <2>3 DEF StoredBehindInv, StoredIsNew, Indexed
<1>6. CASE Restore
  BY <1>6 DEF Restore, StoredBehindInv, StoredIsNew, Indexed, PhaseInv
<1>7. CASE NothingRestored
  BY <1>7 DEF NothingRestored, StoredIsNew, PhaseInv
<1>8. CASE Start \/ Stop \/ Crash
  BY <1>8 DEF Start, Stop, Crash, PhaseInv
<1>9. CASE \/ PrimeFailed \/ Tick \/ PollFailed \/ MarkSeen
           \/ RequestShutdown \/ UNCHANGED vars
  BY <1>9 DEF PrimeFailed, Tick, PollFailed, MarkSeen, RequestShutdown, vars,
       StoredBehindInv, StoredIsNew, Indexed
<1> QED
  BY <1>1, <1>2, <1>3, <1>4, <1>5, <1>6, <1>7, <1>8, <1>9
     DEF Next, Server, Bot, Process

LEMMA PrimedNext == IInv /\ [Next]_vars => PrimedInv'
<1> SUFFICES ASSUME IInv, [Next]_vars, StoreKind # "custom" PROVE PrimedInv'
  BY DEF PrimedInv
<1> USE DEF IInv, server, history
<1>0. primed \in SUBSET Notifs
  BY DEF TypeOK
<1>1. ASSUME NEW m \in Notifs, NEW t \in Times, Index(m, t) PROVE PrimedInv'
  <2>1. \A n \in primed : indexedAt'[n] = indexedAt[n]
    BY <1>0, <1>1, IndexKeepsOthers DEF IndexedInv
  <2> QED
    BY <1>1, <2>1 DEF Index, PrimedInv, StoredIsNew, IsNew
<1>2. CASE PrimeFetched
  <2>1. PICK page \in SUBSET listed :
          /\ dedup' = MarkAll(dedup, indexedAt, page)
          /\ primed' = primed \cup
               {n \in listed : n \in page \/ \E m \in page : indexedAt[n] < indexedAt[m]}
    BY <1>2, PrimePage
  <2>2. stored = Absent /\ batch = {} /\ \A n \in primed : ~IsNew(dedup, indexedAt, n)
    BY <1>2 DEF PrimeFetched, PrimedInv, PhaseInv
  <2>3. \A n \in Notifs :
          IsNew(dedup', indexedAt, n) =>
            /\ IsNew(dedup, indexedAt, n)
            /\ n \notin page
            /\ \A m \in page : indexedAt[m] <= indexedAt[n]
    BY <2>1, MarkAllIsNew DEF TypeOK, Stamps
  <2>4. \A m \in page, n \in Notifs :
          indexedAt[m] <= indexedAt[n] => ~(indexedAt[n] < indexedAt[m])
    BY MaxTimeAssumption DEF TypeOK, Times, NoTime
  <2>5. \A n \in primed' : ~IsNew(dedup', indexedAt, n)
    BY <1>0, <2>1, <2>2, <2>3, <2>4 DEF TypeOK
  <2> QED
    BY <1>2, <2>2, <2>5 DEF PrimeFetched, PrimedInv
<1>3. CASE PollFetched
  <2>1. PICK page \in SUBSET listed :
          batch' = Fresh(dedup, indexedAt, page) /\ dedup' = MarkAll(dedup, indexedAt, batch')
    BY <1>3, PollPage
  <2>2. /\ \A n \in batch' : IsNew(dedup, indexedAt, n)
        /\ \A n \in Notifs : IsNew(dedup', indexedAt, n) => IsNew(dedup, indexedAt, n)
    BY <2>1, TakenFromPage
  <2>3. \A n \in primed : ~IsNew(dedup, indexedAt, n)
    BY <1>3 DEF PollFetched, PrimedInv
  <2> QED
    BY <1>0, <1>3, <2>2, <2>3 DEF PollFetched, PrimedInv, StoredIsNew
<1>4. ASSUME NEW m \in Notifs, Dispatch(m) \/ Withdraw(m) PROVE PrimedInv'
  BY <1>4 DEF Dispatch, Withdraw, AfterBatch, PrimedInv, StoredIsNew
<1>5. CASE PersistPrime \/ Persist
  <2>1. /\ UNCHANGED <<indexedAt, dedup, batch, primed>> /\ batch = {}
        /\ pc \in Saving /\ pc' = "select"
    BY <1>5 DEF PersistPrime, Persist, PhaseInv
  <2>2. stored' = ToJson(dedup) \/ stored' = stored \/ stored' = Absent
    BY <1>5, SaveOutcomes DEF PersistPrime, Persist
  <2>3. FromJson(ToJson(dedup)) = dedup /\ ToJson(dedup) # Absent
    BY SaveRoundTrip, AbsentAssumption DEF TypeOK
  <2> QED
    BY <2>1, <2>2, <2>3 DEF PrimedInv, StoredIsNew
<1>6. CASE Restore
  BY <1>6 DEF Restore, PrimedInv, StoredIsNew
<1>7. CASE NothingRestored
  BY <1>7 DEF NothingRestored, PrimedInv
<1>8. CASE Start \/ Stop
  BY <1>8 DEF Start, Stop, PrimedInv, StoredIsNew
<1>9. CASE Crash
  <2>1. UNCHANGED <<indexedAt, primed>> /\ batch' = {} /\ pc' = "down"
    BY <1>9 DEF Crash
  <2>2. stored' = stored \/ stored' = Absent
          \/ (stored' = ToJson(dedup) /\ pc \in Saving)
    BY <1>9, SaveOutcomes DEF Crash
  <2>3. FromJson(ToJson(dedup)) = dedup
    BY SaveRoundTrip DEF TypeOK
  <2> QED
    BY <2>1, <2>2, <2>3 DEF PrimedInv, StoredIsNew
<1>10. CASE \/ PrimeFailed \/ Tick \/ PollFailed \/ MarkSeen
            \/ RequestShutdown \/ UNCHANGED vars
  BY <1>10 DEF PrimeFailed, Tick, PollFailed, MarkSeen, RequestShutdown, vars,
       PrimedInv, StoredIsNew
<1> QED
  BY <1>1, <1>2, <1>3, <1>4, <1>5, <1>6, <1>7, <1>8, <1>9, <1>10
     DEF Next, Server, Bot, Process

LEMMA SavedNext == IInv /\ [Next]_vars => SavedInv'
<1> SUFFICES ASSUME IInv, [Next]_vars, StoreKind = "memory",
                    pc' \in {"select", "fetch", "stopped"}, NEW n \in inRun'
             PROVE  ~StoredIsNew(n)'
  BY DEF SavedInv
<1> USE DEF IInv, server, history
<1>1. ASSUME NEW m \in Notifs, NEW t \in Times, Index(m, t) PROVE ~StoredIsNew(n)'
  <2>1. n \in inRun /\ indexedAt'[n] = indexedAt[n]
    BY <1>1, IndexKeepsOthers DEF Index, IndexedInv, TypeOK
  <2> QED
    BY <1>1, <2>1 DEF Index, SavedInv, StoredIsNew, IsNew
<1>2. CASE Persist
  <2>1. n \in inRun /\ ~IsNew(dedup, indexedAt, n) /\ UNCHANGED indexedAt
    BY <1>2 DEF Persist, CoveredInv
  <2>2. stored' = ToJson(dedup) /\ stored' # Absent /\ FromJson(stored') = dedup
    BY <1>2, SaveOutcomes DEF Persist
  <2> QED
    BY <2>1, <2>2 DEF StoredIsNew
<1>3. CASE Restore \/ NothingRestored \/ PrimeFetched \/ PrimeFailed \/ PersistPrime
  BY <1>3 DEF Restore, NothingRestored, PrimeFetched, PrimeFailed, PersistPrime,
       PhaseInv
<1>4. CASE Start \/ Crash \/ MarkSeen
  BY <1>4 DEF Start, Crash, MarkSeen
<1>5. ASSUME NEW m \in Notifs, Dispatch(m) \/ Withdraw(m) PROVE ~StoredIsNew(n)'
  BY <1>5 DEF Dispatch, Withdraw, AfterBatch, SavedInv, StoredIsNew
<1>6. CASE Tick \/ PollFetched \/ PollFailed \/ Stop \/ RequestShutdown \/ UNCHANGED vars
  BY <1>6 DEF Tick, PollFetched, PollFailed, Stop, RequestShutdown, vars, SavedInv,
       StoredIsNew
<1> QED
  BY <1>1, <1>2, <1>3, <1>4, <1>5, <1>6 DEF Next, Server, Bot, Process

----------------------------------------------------------------------------
(***************************************************************************)
(* The theorems.                                                           *)
(***************************************************************************)

LEMMA InductiveInit == Init => IInv
<1> SUFFICES ASSUME Init PROVE IInv
  OBVIOUS
<1>1. TypeOK
  BY TypeInit
<1>2. IndexedInv /\ PhaseInv /\ CoveredInv /\ NothingLost /\ SavedInv
  BY DEF Init, IndexedInv, PhaseInv, CoveredInv, NothingLost, SavedInv
<1>3. GroundedInv /\ StoredBehindInv /\ PrimedInv
  BY DEF Init, GroundedInv, Grounded, EmptyDedup, StoredBehindInv, PrimedInv
<1> QED
  BY <1>1, <1>2, <1>3 DEF IInv

LEMMA InductiveNext == IInv /\ [Next]_vars => IInv'
<1>1. IInv /\ [Next]_vars => TypeOK'
  BY TypeNext DEF IInv
<1> QED
  BY <1>1, IndexedNext, GroundedNext, PhaseNext, CoveredNext, NothingLostNext,
     StoredBehindNext, PrimedNext, SavedNext DEF IInv

\* The only step that dispatches, and what holds of the one dispatched.
LEMMA DispatchStep ==
  ASSUME IInv, [Next]_vars, NEW n \in Notifs, Dispatched(n)
  PROVE  n \in batch
<1> USE DEF IInv, TypeOK, Dispatched, server, history
<1>1. ASSUME NEW m \in Notifs, Dispatch(m) PROVE n \in batch
  <2>1. n = m
    BY <1>1 DEF Dispatch
  <2> QED
    BY <1>1, <2>1 DEF Dispatch, Oldest
<1>2. ASSUME NEW m \in Notifs, NEW t \in Times, Index(m, t) PROVE FALSE
  BY <1>2 DEF Index
<1>3. CASE \/ Restore \/ NothingRestored \/ PrimeFetched \/ PrimeFailed
           \/ PersistPrime \/ Tick \/ PollFetched \/ PollFailed
  BY <1>3 DEF Restore, NothingRestored, PrimeFetched, PrimeFailed, PersistPrime,
       Tick, PollFetched, PollFailed
<1>4. CASE \/ MarkSeen \/ Persist \/ Stop \/ Start \/ RequestShutdown \/ Crash
           \/ UNCHANGED vars
  BY <1>4 DEF MarkSeen, Persist, Stop, Start, RequestShutdown, Crash, vars
<1>5. ASSUME NEW m \in Notifs, Withdraw(m) PROVE FALSE
  BY <1>5 DEF Withdraw
<1> QED
  BY <1>1, <1>2, <1>3, <1>4, <1>5 DEF Next, Server, Bot, Process

(***************************************************************************)
(* Nothing is lost: whatever the crashes, failed saves and failed fetches, *)
(* a listed notification that was not handled, primed or passed over by a  *)
(* page is still being worked off or new to both watermarks                *)
(* (poll_and_dispatch and persist_watermark, bot.rs:1176-1236).            *)
(***************************************************************************)
THEOREM LosesNothing == Spec => []NothingLost
<1>1. IInv => NothingLost
  BY DEF IInv
<1> QED
  BY InductiveInit, InductiveNext, <1>1, PTL DEF Spec

(***************************************************************************)
(* No run dispatches a notification twice (take_new_sorted, dedup.rs:92).  *)
(***************************************************************************)
THEOREM OncePerRun == Spec => AtMostOncePerRun
<1>1. IInv /\ [Next]_vars => [\A n \in Notifs : Dispatched(n) => n \notin inRun]_vars
  BY DispatchStep DEF IInv, CoveredInv
<1> QED
  BY InductiveInit, InductiveNext, <1>1, PTL DEF Spec, AtMostOncePerRun

(***************************************************************************)
(* A run dispatches in the order of indexedAt, across batches too.         *)
(***************************************************************************)
THEOREM DispatchesInOrder == Spec => DispatchInOrder
<1>1. IInv /\ [Next]_vars =>
        [\A n \in Notifs : Dispatched(n) =>
           \A m \in inRun : indexedAt[m] <= indexedAt[n]]_vars
  BY DispatchStep DEF IInv, CoveredInv
<1> QED
  BY InductiveInit, InductiveNext, <1>1, PTL DEF Spec, DispatchInOrder

(***************************************************************************)
(* What the persisted watermark covers is never dispatched again, in any   *)
(* later run either (restore_watermark, bot.rs:1204-1220).                 *)
(***************************************************************************)
THEOREM NeverRedoesPersisted == Spec => PersistedNeverRedone
<1>1. IInv /\ [Next]_vars =>
        [StoreKind # "custom" =>
           \A n \in Notifs : Dispatched(n) => StoredIsNew(n)]_vars
  BY DispatchStep DEF IInv, StoredBehindInv
<1> QED
  BY InductiveInit, InductiveNext, <1>1, PTL DEF Spec, PersistedNeverRedone

(***************************************************************************)
(* The backlog a successful prime skipped is never dispatched              *)
(* (prime, dedup.rs:83-87, and bot.rs:1127-1137).                          *)
(***************************************************************************)
THEOREM PrimedIsSkipped == Spec => PrimedStaysSkipped
<1>1. IInv /\ [Next]_vars =>
        [StoreKind # "custom" =>
           \A n \in Notifs : Dispatched(n) => n \notin primed]_vars
  BY DispatchStep DEF IInv, PrimedInv
<1> QED
  BY InductiveInit, InductiveNext, <1>1, PTL DEF Spec, PrimedStaysSkipped

(***************************************************************************)
(* With saves that succeed, the store covers everything dispatched         *)
(* whenever a shutdown can be taken.                                       *)
(***************************************************************************)
THEOREM IdleIsSaved == Spec => []SavedWheneverIdle
<1>1. IInv => SavedWheneverIdle
  BY DEF IInv, SavedInv, SavedWheneverIdle
<1> QED
  BY InductiveInit, InductiveNext, <1>1, PTL DEF Spec

============================================================================
