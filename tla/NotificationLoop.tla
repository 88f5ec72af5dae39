------------------------- MODULE NotificationLoop -------------------------
(***************************************************************************)
(* The notification loop of a bot (src/bot.rs, run_notification_loop): it  *)
(* restores or primes the watermark, then polls the server one page at a   *)
(* time and dispatches what is new, oldest first, until it is told to shut *)
(* down or the process dies.  It may then be started again, with whatever  *)
(* its store kept.                                                         *)
(*                                                                         *)
(* The server indexes, and may withdraw, notifications at any moment.      *)
(* Every await of the loop is a step boundary; a step of the server, the   *)
(* shutdown signal or a crash may come at each of them.  What a handler    *)
(* does is not modelled here: dispatching a notification is one step.      *)
(***************************************************************************)
EXTENDS Dedup

CONSTANTS
  Limit,            \* BotConfig::notification_limit: the size of a page.
  ProcessBacklog,   \* BotConfig::process_backlog.
  MarkSeenEnabled,  \* BotConfig::mark_seen.
  StoreKind,        \* What persists the watermark, see StoreKinds.
  Absent,           \* What a store without a watermark yields (None).
  MaxRuns           \* Bounds how often the bot is started.

\* No store; a MemoryStore, which dies with the process; a FileStore, whose
\* file a failed write may truncate; a Store of the user's own, whose saves
\* are atomic but whose loads may fail.
StoreKinds == {"none", "memory", "file", "custom"}

ASSUME LimitAssumption == Limit \in 1..100
ASSUME OptionsAssumption ==
  /\ ProcessBacklog \in BOOLEAN
  /\ MarkSeenEnabled \in BOOLEAN
  /\ StoreKind \in StoreKinds
ASSUME AbsentAssumption == Absent \notin SavedForms
ASSUME MaxRunsAssumption == MaxRuns \in Nat

VARIABLES
  indexedAt,   \* Server: when each notification was indexed, NoTime before.
  listed,      \* Server: the notifications listNotifications would list.
  read,        \* Server: those marked read by updateSeen.
  stored,      \* Store: the persisted watermark, or Absent.
  pc,          \* Bot: the await the loop is at.
  dedup,       \* Bot: the watermark in memory.
  batch,       \* Bot: new notifications taken from a page, to dispatch.
  shutdown,    \* Whether the shutdown future has resolved.
  runs,        \* How often the bot was started.
  inRun,       \* History: dispatched since the bot was last started.
  handled,     \* History: how often each notification was dispatched, ever.
  primed,      \* History: skipped by a successful prime.
  missed       \* History: new, but not on a page that moved past it.

server  == <<indexedAt, listed, read>>
history == <<inRun, handled, primed, missed>>
vars    == <<indexedAt, listed, read, stored, pc, dedup, batch, shutdown, runs,
             inRun, handled, primed, missed>>

\* down: no process. stopped: run_until returned.  The rest are the awaits.
Down  == {"down", "stopped"}
Awake == {"restore", "prime", "persistPrime", "select", "fetch", "dispatch",
          "markSeen", "persist"}
Saving == {"persistPrime", "persist"}

TypeOK ==
  /\ indexedAt \in [Notifs -> Times \cup {NoTime}]
  /\ listed \in SUBSET Notifs
  /\ read \in SUBSET Notifs
  /\ stored \in SavedForms \cup {Absent}
  /\ pc \in Down \cup Awake
  /\ dedup \in Dedups
  /\ batch \in SUBSET Notifs
  /\ shutdown \in BOOLEAN
  /\ runs \in 0..MaxRuns
  /\ inRun \in SUBSET Notifs
  /\ handled \in [Notifs -> Nat]
  /\ primed \in SUBSET Notifs
  /\ missed \in SUBSET Notifs

Init ==
  /\ indexedAt = [n \in Notifs |-> NoTime]
  /\ listed = {}
  /\ read = {}
  /\ stored = Absent
  /\ pc = "down"
  /\ dedup = EmptyDedup
  /\ batch = {}
  /\ shutdown = FALSE
  /\ runs = 0
  /\ inRun = {}
  /\ handled = [n \in Notifs |-> 0]
  /\ primed = {}
  /\ missed = {}

----------------------------------------------------------------------------
(***************************************************************************)
(* The server.  Timestamps never go back, but may repeat.                  *)
(***************************************************************************)
Index(n, t) ==
  /\ indexedAt[n] = NoTime
  /\ \A m \in Notifs : indexedAt[m] <= t
  /\ indexedAt' = [indexedAt EXCEPT ![n] = t]
  /\ listed' = listed \cup {n}
  /\ UNCHANGED <<read, stored, pc, dedup, batch, shutdown, runs, history>>

\* A like is undone, a post deleted: its notification is listed no more.
Withdraw(n) ==
  /\ n \in listed
  /\ listed' = listed \ {n}
  /\ read' = read \ {n}
  /\ UNCHANGED <<indexedAt, stored, pc, dedup, batch, shutdown, runs, history>>

\* The newest Limit notifications (no cursor is sent, so there is only one
\* page).  Which of several equally old ones still fit is the server's choice.
Pages ==
  {p \in SUBSET listed :
    /\ Cardinality(p) = IF Cardinality(listed) < Limit THEN Cardinality(listed)
                                                       ELSE Limit
    /\ \A n \in p, m \in listed \ p : indexedAt[m] <= indexedAt[n]}

(***************************************************************************)
(* What the store may hold after a save of w: the write happened, or       *)
(* failed and left the old content, or failed after truncating the file,   *)
(* which a FileStore opens as an empty map.                                *)
(***************************************************************************)
Saves(w) ==
  CASE StoreKind = "none"   -> {stored}
    [] StoreKind = "memory" -> {w}
    [] StoreKind = "file"   -> {w, stored, Absent}
    [] StoreKind = "custom" -> {w, stored}

----------------------------------------------------------------------------
(***************************************************************************)
(* Starting: restore the watermark or, without one, skip the backlog.      *)
(***************************************************************************)
Start ==
  /\ pc \in Down
  /\ runs < MaxRuns
  /\ pc' = "restore"
  /\ runs' = runs + 1
  /\ shutdown' = FALSE
  /\ inRun' = {}
  /\ stored' = IF StoreKind = "memory" THEN Absent ELSE stored
  /\ UNCHANGED <<server, dedup, batch, handled, primed, missed>>

Restore ==
  /\ pc = "restore"
  /\ stored # Absent
  /\ dedup' = FromJson(stored)
  /\ pc' = "select"
  /\ UNCHANGED <<server, stored, batch, shutdown, runs, history>>

\* Nothing saved yet, or the load fails or yields no watermark.
NothingRestored ==
  /\ pc = "restore"
  /\ stored = Absent \/ StoreKind = "custom"
  /\ pc' = IF ProcessBacklog THEN "select" ELSE "prime"
  /\ primed' = IF stored = Absent THEN {} ELSE primed
  /\ UNCHANGED <<server, stored, dedup, batch, shutdown, runs, inRun, handled,
                 missed>>

\* Mutant: the page is fetched and thrown away.
PrimeWithoutMarking ==
  /\ pc = "prime"
  /\ \E page \in Pages :
       primed' = primed \cup
         {n \in listed : n \in page \/ \E m \in page : indexedAt[n] < indexedAt[m]}
  /\ pc' = "persistPrime"
  /\ UNCHANGED <<server, stored, dedup, batch, shutdown, runs, inRun, handled,
                 missed>>

PrimeFetched ==
  /\ pc = "prime"
  /\ \E page \in Pages :
       /\ dedup' = MarkAll(dedup, indexedAt, page)
       /\ primed' = primed \cup
            {n \in listed : n \in page \/ \E m \in page : indexedAt[n] < indexedAt[m]}
  /\ pc' = "persistPrime"
  /\ UNCHANGED <<server, stored, batch, shutdown, runs, inRun, handled,
                 missed>>

PrimeFailed ==
  /\ pc = "prime"
  /\ pc' = "select"
  /\ UNCHANGED <<server, stored, dedup, batch, shutdown, runs, history>>

PersistPrime ==
  /\ pc = "persistPrime"
  /\ stored' \in Saves(ToJson(dedup))
  /\ pc' = "select"
  /\ UNCHANGED <<server, dedup, batch, shutdown, runs, history>>

----------------------------------------------------------------------------
(***************************************************************************)
(* Polling.  select! takes the shutdown branch or the tick; a cycle that   *)
(* has begun is never cut short.                                           *)
(***************************************************************************)
Tick ==
  /\ pc = "select"
  /\ pc' = "fetch"
  /\ UNCHANGED <<server, stored, dedup, batch, shutdown, runs, history>>

PollFetched ==
  /\ pc = "fetch"
  /\ \E page \in Pages :
       /\ batch' = Fresh(dedup, indexedAt, page)
       /\ dedup' = MarkAll(dedup, indexedAt, batch')
       /\ missed' = missed \cup {n \in listed \ page :
                                  /\ IsNew(dedup, indexedAt, n)
                                  /\ ~IsNew(dedup', indexedAt, n)}
  /\ pc' = IF batch' = {} THEN "select" ELSE "dispatch"
  /\ UNCHANGED <<server, stored, shutdown, runs, inRun, handled, primed>>

PollFailed ==
  /\ pc = "fetch"
  /\ pc' = "select"
  /\ UNCHANGED <<server, stored, dedup, batch, shutdown, runs, history>>

\* The batch is worked off in the order of indexedAt.
Oldest(S) == {n \in S : \A m \in S : indexedAt[n] <= indexedAt[m]}

AfterBatch == IF MarkSeenEnabled THEN "markSeen" ELSE "persist"

\* Mutant: the page's order, newest first, is kept.
DispatchUnsorted(n) ==
  /\ pc = "dispatch"
  /\ n \in batch
  /\ batch' = batch \ {n}
  /\ handled' = [handled EXCEPT ![n] = @ + 1]
  /\ inRun' = inRun \cup {n}
  /\ pc' = IF batch' = {} THEN AfterBatch ELSE "dispatch"
  /\ UNCHANGED <<server, stored, dedup, shutdown, runs, primed, missed>>

\* Mutant: the watermark is saved as soon as the first of the batch is done.
DispatchThenPersist(n) ==
  /\ pc = "dispatch"
  /\ n \in Oldest(batch)
  /\ batch' = batch \ {n}
  /\ handled' = [handled EXCEPT ![n] = @ + 1]
  /\ inRun' = inRun \cup {n}
  /\ stored' \in Saves(ToJson(dedup))
  /\ pc' = IF batch' = {} THEN AfterBatch ELSE "dispatch"
  /\ UNCHANGED <<server, dedup, shutdown, runs, primed, missed>>

Dispatch(n) ==
  /\ pc = "dispatch"
  /\ n \in Oldest(batch)
  /\ batch' = batch \ {n}
  /\ handled' = [handled EXCEPT ![n] = @ + 1]
  /\ inRun' = inRun \cup {n}
  /\ pc' = IF batch' = {} THEN AfterBatch ELSE "dispatch"
  /\ UNCHANGED <<server, stored, dedup, shutdown, runs, primed, missed>>

\* updateSeen carries the present time: everything listed by now is read.
MarkSeen ==
  /\ pc = "markSeen"
  /\ read' \in {listed, read}
  /\ pc' = "persist"
  /\ UNCHANGED <<indexedAt, listed, stored, dedup, batch, shutdown, runs, history>>

Persist ==
  /\ pc = "persist"
  /\ stored' \in Saves(ToJson(dedup))
  /\ pc' = "select"
  /\ UNCHANGED <<server, dedup, batch, shutdown, runs, history>>

----------------------------------------------------------------------------
(***************************************************************************)
(* Ending: on request, between two cycles; or by a crash, at any await,    *)
(* possibly in the middle of a save.                                       *)
(***************************************************************************)
RequestShutdown ==
  /\ pc \in Awake
  /\ ~shutdown
  /\ shutdown' = TRUE
  /\ UNCHANGED <<server, stored, pc, dedup, batch, runs, history>>

\* Mutant: the shutdown signal is looked at only once work has been done.
StopAfterWork ==
  /\ pc = "select"
  /\ shutdown
  /\ inRun # {}
  /\ pc' = "stopped"
  /\ dedup' = EmptyDedup
  /\ UNCHANGED <<server, stored, batch, shutdown, runs, history>>

\* Mutant: the loop gives up the batch it is working off.
StopMidBatch ==
  /\ pc \in {"select", "dispatch"}
  /\ shutdown
  /\ pc' = "stopped"
  /\ dedup' = EmptyDedup
  /\ batch' = {}
  /\ UNCHANGED <<server, stored, shutdown, runs, history>>

Stop ==
  /\ pc = "select"
  /\ shutdown
  /\ pc' = "stopped"
  /\ dedup' = EmptyDedup
  /\ UNCHANGED <<server, stored, batch, shutdown, runs, history>>

Crash ==
  /\ pc \in Awake
  /\ stored' \in IF pc \in Saving THEN Saves(ToJson(dedup)) \cup {stored}
                                   ELSE {stored}
  /\ pc' = "down"
  /\ dedup' = EmptyDedup
  /\ batch' = {}
  /\ UNCHANGED <<server, shutdown, runs, history>>

----------------------------------------------------------------------------
Server ==
  \/ \E n \in Notifs, t \in Times : Index(n, t)
  \/ \E n \in Notifs : Withdraw(n)

Bot ==
  \/ Restore \/ NothingRestored
  \/ PrimeFetched \/ PrimeFailed \/ PersistPrime
  \/ Tick \/ PollFetched \/ PollFailed
  \/ \E n \in Notifs : Dispatch(n)
  \/ MarkSeen \/ Persist \/ Stop

Process == Start \/ RequestShutdown \/ Crash

Next == Server \/ Bot \/ Process

Spec == Init /\ [][Next]_vars

(***************************************************************************)
(* The runtime keeps driving the loop, whose steps all end (no await of    *)
(* the SDK's waits for ever).  select! picks at random among the branches  *)
(* that are ready, so a shutdown that stays ready is taken in the end,     *)
(* however often a tick wins.  The server answers a poll now and then.     *)
(* Nothing obliges the process to crash, to be started or to be stopped.   *)
(***************************************************************************)
Fairness == WF_vars(Bot) /\ SF_vars(Stop) /\ SF_vars(PollFetched)

FairSpec == Spec /\ Fairness

----------------------------------------------------------------------------
(***************************************************************************)
(* Safety.                                                                 *)
(***************************************************************************)

Dispatched(n) == handled'[n] # handled[n]

StoredIsNew(n) == stored # Absent => IsNew(FromJson(stored), indexedAt, n)

(***************************************************************************)
(* While it runs, the bot never dispatches a notification twice, although  *)
(* the server lists the same ones in poll after poll, in pages that shift  *)
(* as others come and go, and although timestamps repeat.                  *)
(***************************************************************************)
AtMostOncePerRun == [][\A n \in Notifs : Dispatched(n) => n \notin inRun]_vars

(***************************************************************************)
(* Within a run, dispatching never goes back in time: not inside a batch,  *)
(* and not from one batch to the next.                                     *)
(***************************************************************************)
DispatchInOrder ==
  [][\A n \in Notifs : Dispatched(n) =>
       \A m \in inRun : indexedAt[m] <= indexedAt[n]]_vars

(***************************************************************************)
(* A notification the bot has neither handled, nor skipped when it primed, *)
(* nor let slip past the end of a page is in the batch being worked off or *)
(* still new, both to the watermark in memory and to the one in the store: *)
(* no crash, failed save, failed fetch or shutdown can lose it.            *)
(***************************************************************************)
NothingLost ==
  \A n \in listed :
    handled[n] = 0 /\ n \notin primed /\ n \notin missed =>
      /\ n \in batch \/ IsNew(dedup, indexedAt, n)
      /\ StoredIsNew(n)

(***************************************************************************)
(* What the persisted watermark covers is never dispatched again, in this  *)
(* run or a later one.  A custom store whose load fails hides its content  *)
(* from the bot, so it is left out.                                        *)
(***************************************************************************)
PersistedNeverRedone ==
  [][StoreKind # "custom" =>
       \A n \in Notifs : Dispatched(n) => StoredIsNew(n)]_vars

(***************************************************************************)
(* The backlog skipped by a successful prime stays skipped: in the run     *)
(* that skipped it, and in later runs that resume from its watermark.      *)
(***************************************************************************)
PrimedStaysSkipped ==
  [][StoreKind # "custom" =>
       \A n \in Notifs : Dispatched(n) => n \notin primed]_vars

(***************************************************************************)
(* Whenever the loop can be shut down, the store already covers all it     *)
(* dispatched, given saves that succeed: restarting after a shutdown       *)
(* repeats nothing.                                                        *)
(***************************************************************************)
SavedWheneverIdle ==
  StoreKind = "memory" /\ pc \in {"select", "stopped"} =>
    \A n \in inRun : ~StoredIsNew(n)

----------------------------------------------------------------------------
(***************************************************************************)
(* Liveness.                                                               *)
(***************************************************************************)

(***************************************************************************)
(* A notification that is listed while the bot runs is handled in the end, *)
(* unless it is withdrawn, was skipped by the prime or slipped past a page *)
(* or the bot stops first.                                                 *)
(***************************************************************************)
EventuallyHandled ==
  \A n \in Notifs :
    n \in listed /\ pc \in Awake ~>
      handled[n] > 0 \/ n \notin listed \/ n \in primed \cup missed \/ pc \in Down

(***************************************************************************)
(* A shutdown request always stops the loop, even if ticks keep coming and *)
(* every poll finds work.                                                  *)
(***************************************************************************)
ShutdownHonoured == shutdown ~> pc \in Down

----------------------------------------------------------------------------
(***************************************************************************)
(* What the documentation says and the code does not do.  (A third is in   *)
(* MCOverflow, with a run; of these two no run is kept.)                   *)
(***************************************************************************)

(***************************************************************************)
(* "A watermark tracker (Dedup) that survives restarts and breaks          *)
(* timestamp ties, so you never double-reply" (README.md:53).  After a     *)
(* crash inside a batch, or a failed save, the batch is dispatched again.  *)
(***************************************************************************)
NeverDispatchedTwice == \A n \in Notifs : handled[n] <= 1

(***************************************************************************)
(* "Whether to call updateSeen after processing a batch, marking those     *)
(* notifications read on the server" (mark_seen, config.rs:33-34).  The    *)
(* call covers what arrived since the fetch too, read but never handled.   *)
(***************************************************************************)
ReadOnlyWhenHandled ==
  \A n \in read : handled[n] > 0 \/ n \in primed \cup missed

============================================================================
