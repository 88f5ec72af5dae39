----------------------------- MODULE DmRunner -----------------------------
(***************************************************************************)
(* The direct-message runner of src/dm.rs: it walks the conversation log   *)
(* (chat.bsky.convo.getLog) to its tail without looking at what it finds,  *)
(* then polls it from there, page after page, and hands every message that *)
(* is not the bot's own to the handlers, until the watch channel says to   *)
(* stop.                                                                   *)
(*                                                                         *)
(* A cursor is the position of an entry in the log; the code's None, which *)
(* reads from the beginning, is position 0.  A request returns a nonempty  *)
(* run of the entries after its cursor, of whatever length the server      *)
(* likes, with the cursor of the last; at the tail it returns none.  Its   *)
(* retries are part of it: it succeeds or fails as a whole.  Entries do    *)
(* not change once logged.                                                 *)
(***************************************************************************)
EXTENDS Integers, Sequences

CONSTANTS
  MaxLogPages,      \* MAX_LOG_PAGES: pages walked in one go.
  ProcessBacklog,   \* DmConfig::process_backlog.
  MaxLog            \* Bounds the length of the log.

ASSUME MaxLogPagesAssumption == MaxLogPages \in Nat \ {0}
ASSUME ProcessBacklogAssumption == ProcessBacklog \in BOOLEAN
ASSUME MaxLogAssumption == MaxLog \in Nat

\* A message of somebody else, one of the bot's own, any other event.
Kinds == {"theirs", "own", "other"}

VARIABLES
  log,        \* Server: what each entry of the conversation log is.
  pc,         \* Runner: the await it is at.
  cursor,     \* Runner: where the next request starts.
  pages,      \* Runner: pages walked by the current prime or poll.
  at,         \* Runner: the last entry of the current page looked at.
  upto,       \* Runner: the last entry of the current page.
  shutdown,   \* The watch channel.
  reached,    \* History: the last message dispatched, or where polling began.
  delivered,  \* History: the messages dispatched.
  backlog,    \* History: how long the log was when the runner started.
  primed,     \* History: whether the prime saw the end of the log.
  late        \* History: pages of messages fetched after the shutdown.

history == <<reached, delivered, backlog, primed, late>>
vars == <<log, pc, cursor, pages, at, upto, shutdown, reached, delivered,
          backlog, primed, late>>

PCs == {"spawned", "prime", "select", "fetch", "dispatch", "stopped"}

TypeOK ==
  /\ log \in Seq(Kinds)
  /\ pc \in PCs
  /\ cursor \in 0..Len(log)
  /\ pages \in 0..MaxLogPages
  /\ at \in 0..Len(log)
  /\ upto \in 0..Len(log)
  /\ shutdown \in BOOLEAN
  /\ reached \in 0..Len(log)
  /\ delivered \in SUBSET (1..Len(log))
  /\ backlog \in 0..Len(log)
  /\ primed \in BOOLEAN
  /\ late \in Nat

Init ==
  /\ log = << >>
  /\ pc = "spawned"
  /\ cursor = 0
  /\ pages = 0
  /\ at = 0
  /\ upto = 0
  /\ shutdown = FALSE
  /\ reached = 0
  /\ delivered = {}
  /\ backlog = 0
  /\ primed = FALSE
  /\ late = 0

----------------------------------------------------------------------------
(***************************************************************************)
(* The environment: the log grows, the bot is told to stop.                *)
(***************************************************************************)
Log(kind) ==
  /\ Len(log) < MaxLog
  /\ log' = Append(log, kind)
  /\ UNCHANGED <<pc, cursor, pages, at, upto, shutdown, history>>

RequestShutdown ==
  /\ ~shutdown
  /\ shutdown' = TRUE
  /\ UNCHANGED <<log, pc, cursor, pages, at, upto, history>>

----------------------------------------------------------------------------
(***************************************************************************)
(* Priming.  The channel is looked at before each request and awaited      *)
(* along with it.                                                          *)
(***************************************************************************)
Unless(stop, next) == IF stop THEN "stopped" ELSE next

Run ==
  /\ pc = "spawned"
  /\ pc' = IF ProcessBacklog THEN "select" ELSE Unless(shutdown, "prime")
  /\ backlog' = Len(log)
  /\ UNCHANGED <<log, cursor, pages, at, upto, shutdown, reached, delivered,
                 primed, late>>

PrimePage ==
  /\ pc = "prime"
  /\ cursor' \in (cursor + 1)..Len(log)
  /\ pages' = pages + 1
  /\ IF pages' >= MaxLogPages
     THEN /\ pc' = "select"
          /\ reached' = cursor'
     ELSE /\ pc' = Unless(shutdown, "prime")
          /\ UNCHANGED reached
  /\ UNCHANGED <<log, at, upto, shutdown, delivered, backlog, primed, late>>

\* Mutant: the last page, which has no entries, sets the cursor it lacks.
PrimeTailLosingCursor ==
  /\ pc = "prime"
  /\ cursor = Len(log)
  /\ pc' = "select"
  /\ cursor' = 0
  /\ reached' = 0
  /\ primed' = TRUE
  /\ UNCHANGED <<log, pages, at, upto, shutdown, delivered, backlog, late>>

PrimeTail ==
  /\ pc = "prime"
  /\ cursor = Len(log)
  /\ pc' = "select"
  /\ reached' = cursor
  /\ primed' = TRUE
  /\ UNCHANGED <<log, cursor, pages, at, upto, shutdown, delivered, backlog, late>>

PrimeFailed ==
  /\ pc = "prime"
  /\ pc' = "select"
  /\ reached' = cursor
  /\ UNCHANGED <<log, cursor, pages, at, upto, shutdown, delivered, backlog,
                 primed, late>>

PrimeInterrupted ==
  /\ pc = "prime"
  /\ shutdown
  /\ pc' = "stopped"
  /\ UNCHANGED <<log, cursor, pages, at, upto, shutdown, history>>

----------------------------------------------------------------------------
(***************************************************************************)
(* Polling.  Between two polls select! awaits the channel and the ticker;  *)
(* when both are ready it may take either.                                 *)
(***************************************************************************)
Tick ==
  /\ pc = "select"
  /\ pc' = "fetch"
  /\ pages' = 0
  /\ UNCHANGED <<log, cursor, at, upto, shutdown, history>>

Stop ==
  /\ pc = "select"
  /\ shutdown
  /\ pc' = "stopped"
  /\ UNCHANGED <<log, cursor, pages, at, upto, shutdown, history>>

PollPage ==
  /\ pc = "fetch"
  /\ upto' \in (cursor + 1)..Len(log)
  /\ at' = cursor
  /\ late' = IF shutdown THEN late + 1 ELSE late
  /\ pc' = "dispatch"
  /\ UNCHANGED <<log, cursor, pages, shutdown, reached, delivered, backlog, primed>>

PollTail ==
  /\ pc = "fetch"
  /\ cursor = Len(log)
  /\ pages' = pages + 1
  /\ pc' = Unless(shutdown, "select")
  /\ UNCHANGED <<log, cursor, at, upto, shutdown, history>>

\* The cursor stays after the last page that was worked off.
PollFailed ==
  /\ pc = "fetch"
  /\ pc' = Unless(shutdown, "select")
  /\ UNCHANGED <<log, cursor, pages, at, upto, shutdown, history>>

\* Mutant: the bot's own messages are not left out.
PendingWithOwn == {i \in (at + 1)..upto : log[i] \in {"theirs", "own"}}

Pending == {i \in (at + 1)..upto : log[i] = "theirs"}

\* Every handler sees the message, and one of them may send an answer, which
\* the log then shows as the bot's own.  A handler's error stops nothing.
Dispatch(i) ==
  /\ pc = "dispatch"
  /\ i \in Pending
  /\ \A j \in Pending : i <= j
  /\ at' = i
  /\ reached' = i
  /\ delivered' = delivered \cup {i}
  /\ log' \in {log} \cup (IF Len(log) < MaxLog THEN {Append(log, "own")} ELSE {})
  /\ UNCHANGED <<pc, cursor, pages, upto, shutdown, backlog, primed, late>>

\* Mutant: the cursor is not adopted, and the same page comes again.
KeepCursor ==
  /\ pc = "dispatch"
  /\ Pending = {}
  /\ pages' = pages + 1
  /\ pc' = IF shutdown THEN "stopped"
           ELSE IF pages' >= MaxLogPages THEN "select" ELSE "fetch"
  /\ UNCHANGED <<log, cursor, at, upto, shutdown, history>>

\* Mutant: paging goes on until the log is drained, whatever the channel says.
AdoptCursorUnchecked ==
  /\ pc = "dispatch"
  /\ Pending = {}
  /\ cursor' = upto
  /\ pages' = pages + 1
  /\ pc' = IF pages' >= MaxLogPages THEN Unless(shutdown, "select") ELSE "fetch"
  /\ UNCHANGED <<log, at, upto, shutdown, history>>

AdoptCursor ==
  /\ pc = "dispatch"
  /\ Pending = {}
  /\ cursor' = upto
  /\ pages' = pages + 1
  /\ pc' = IF shutdown THEN "stopped"
           ELSE IF pages' >= MaxLogPages THEN "select" ELSE "fetch"
  /\ UNCHANGED <<log, at, upto, shutdown, history>>

----------------------------------------------------------------------------
Environment == RequestShutdown \/ \E kind \in Kinds : Log(kind)

Runner ==
  \/ Run
  \/ PrimePage \/ PrimeTail \/ PrimeFailed \/ PrimeInterrupted
  \/ Tick \/ Stop
  \/ PollPage \/ PollTail \/ PollFailed
  \/ \E i \in 1..Len(log) : Dispatch(i)
  \/ AdoptCursor

Next == Environment \/ Runner

Spec == Init /\ [][Next]_vars

(***************************************************************************)
(* The runtime drives the task, whose awaits all end; now and then a poll  *)
(* is answered.  The channel needs no fairness of its own: it is looked at *)
(* after every poll.                                                       *)
(***************************************************************************)
Fairness == WF_vars(Runner) /\ SF_vars(PollPage)

FairSpec == Spec /\ Fairness

----------------------------------------------------------------------------
(***************************************************************************)
(* Whatever the pages, the failures and the moment of the shutdown, the    *)
(* handlers are given what DmFeed promises: the messages of others from    *)
(* where polling began, once each, in order, without a gap.  An own        *)
(* message is never among them, so a bot that answers every message does   *)
(* not answer itself.  (poll, dm.rs:441-466.)                              *)
(***************************************************************************)
Feed == INSTANCE DmFeed WITH
  log <- log, reached <- reached, delivered <- delivered

FeedSpec == Feed!Spec

(***************************************************************************)
(* Once the prime has seen the end of the log, nothing that was in the log *)
(* when the runner started is ever dispatched, even if the log grew while  *)
(* the prime walked it.  (prime, dm.rs:391-437.)                           *)
(***************************************************************************)
BacklogSkipped == primed => \A i \in delivered : i > backlog

(***************************************************************************)
(* After the shutdown at most one more page of messages is fetched and     *)
(* worked off, at whatever await the runner was.                           *)
(***************************************************************************)
StopsWithinAPage == late <= 1

(***************************************************************************)
(* A message of somebody else that polling has still ahead of it is        *)
(* dispatched in the end, across failed polls and the page cap, unless the *)
(* bot is told to stop.                                                    *)
(***************************************************************************)
EventuallyDispatched ==
  \A i \in 1..MaxLog :
    /\ pc \in {"select", "fetch", "dispatch"}
    /\ i \in (reached + 1)..Len(log)
    /\ log[i] = "theirs"
    ~> i \in delivered \/ shutdown

(***************************************************************************)
(* The task ends once it is told to, so that run_until can join it.        *)
(***************************************************************************)
ShutdownHonoured == shutdown ~> pc = "stopped"

----------------------------------------------------------------------------
(***************************************************************************)
(* "A restarting bot must not re-answer an old backlog by default"         *)
(* (dm.rs:726).  When a request of the prime fails, polling starts at the  *)
(* furthest cursor reached; if it was the first, that is the beginning.    *)
(***************************************************************************)
OldMessagesIgnored == ~ProcessBacklog => \A i \in delivered : i > backlog

============================================================================
