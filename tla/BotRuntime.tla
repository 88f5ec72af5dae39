---------------------------- MODULE BotRuntime ----------------------------
(***************************************************************************)
(* Bot::run_until (src/bot.rs) and the tasks it drives: the notification   *)
(* loop, which runs on the caller's task, and the scheduled jobs           *)
(* (src/schedule.rs), the stream and the direct messages, each spawned on  *)
(* a task of its own and told to stop over a watch channel.                *)
(*                                                                         *)
(* The loops are seen from outside: waiting in a select!, or working (user *)
(* code runs).  Modules NotificationLoop, DmRunner and StreamRunner have   *)
(* their insides.  Time is discrete, and the wall clock is the one that    *)
(* sleeps go by.                                                           *)
(***************************************************************************)
EXTENDS Integers, FiniteSets

CONSTANTS
  Jobs,         \* The scheduled jobs.
  Period,       \* For each job its interval (Schedule::every), or 0.
  Instants,     \* For each other job the instants its cron expression matches.
  Builds,       \* The sets of parts bots are built with.
  MaxTime       \* Bounds the wall clock.

Background == Jobs \cup {"stream", "dm"}
Parts      == Background \cup {"notif"}

ASSUME JobsAssumption == Jobs \cap {"stream", "dm", "notif"} = {}
ASSUME PeriodAssumption == Period \in [Jobs -> Nat]
ASSUME InstantsAssumption == Instants \in [Jobs -> SUBSET Nat]
ASSUME BuildsAssumption == Builds \subseteq SUBSET Parts
ASSUME MaxTimeAssumption == MaxTime \in Nat

VARIABLES
  parts,    \* What the bot has handlers or jobs for.
  main,     \* The task that called run_until.
  signal,   \* Whether the shutdown future has resolved.
  flag,     \* The value in the watch channel.
  now,      \* The wall clock.
  at,       \* For each background task, where it is.
  due,      \* For each job, the end of its sleep.
  ended,    \* History: when each job last began to wait or ended a run.
  late      \* History: work each task began after the flag was set.

runVars == <<parts, main, signal, flag, now, at, due, ended, late>>

Running == {"loop", "busy", "await"}
Ended   == {"absent", "done", "panicked"}

RunTypeOK ==
  /\ parts \in Builds \cup {{}}
  /\ main \in Running \cup {"off", "joining", "returned", "refused", "gone"}
  /\ signal \in BOOLEAN /\ flag \in BOOLEAN
  /\ now \in 0..MaxTime
  /\ \A t \in Background : at[t] \in Ended \cup {"top", "wait", "work"}
  /\ \A j \in Jobs : due[j] \in Nat /\ ended[j] \in 0..MaxTime

RunInit ==
  /\ parts = {}
  /\ main = "off"
  /\ signal = FALSE /\ flag = FALSE
  /\ now = 0
  /\ at = [t \in Background |-> "absent"]
  /\ due = [j \in Jobs |-> 0]
  /\ ended = [j \in Jobs |-> 0]
  /\ late = [t \in Background |-> 0]

----------------------------------------------------------------------------
(***************************************************************************)
(* The task of run_until.                                                  *)
(***************************************************************************)
RunUntil ==
  /\ main = "off"
  /\ parts' \in Builds
  /\ main' = CASE parts' = {} -> "refused"      \* Error::NoHandlers
               [] "notif" \in parts' -> "loop"
               [] OTHER -> "await"
  /\ at' = [t \in Background |-> IF t \in parts' THEN "top" ELSE "absent"]
  /\ ended' = [j \in Jobs |-> now]
  /\ UNCHANGED <<signal, flag, now, due, late>>

\* The notification loop is in a poll cycle, or back in its select!.
Cycle ==
  /\ main \in {"loop", "busy"}
  /\ main' = IF main = "loop" THEN "busy" ELSE "loop"
  /\ UNCHANGED <<parts, signal, flag, now, at, due, ended, late>>

\* Mutant: the background tasks are told only if there was a loop.
StopLoopOnly ==
  /\ main \in {"loop", "await"} /\ signal
  /\ main' = "joining"
  /\ flag' = (main = "loop")
  /\ UNCHANGED <<parts, signal, now, at, due, ended, late>>

\* The shutdown future has resolved: the background tasks are told.
StopAll ==
  /\ main \in {"loop", "await"} /\ signal
  /\ main' = "joining"
  /\ flag' = TRUE
  /\ UNCHANGED <<parts, signal, now, at, due, ended, late>>

\* Every task is waited for; how it ended does not matter.
Join ==
  /\ main = "joining"
  /\ \A t \in Background : at[t] \in Ended
  /\ main' = "returned"
  /\ UNCHANGED <<parts, signal, flag, now, at, due, ended, late>>

\* A handler panics in the loop, or the caller drops the future of run_until:
\* the sender of the watch channel goes with it, the tasks stay.
Abandon ==
  /\ main \in Running \cup {"joining"}
  /\ main' = "gone"
  /\ UNCHANGED <<parts, signal, flag, now, at, due, ended, late>>

----------------------------------------------------------------------------
(***************************************************************************)
(* The background tasks.  changed() resolves once the flag is set, and     *)
(* also once the sender is gone.                                           *)
(***************************************************************************)
Changed == flag \/ main = "gone"

\* Mutant: the next occurrence may be the present one.
OccurrenceInclusive(j) ==
  LET coming == {i \in Instants[j] : i >= now}
  IN  {i \in coming : \A k \in coming : i <= k}

\* The next instant strictly after now, none if there is none.
Occurrence(j) ==
  LET coming == {i \in Instants[j] : i > now}
  IN  {i \in coming : \A k \in coming : i <= k}

\* next_delay_from, as a set of at most one delay.
NextDelay(j) ==
  IF Period[j] > 0 THEN {Period[j]} ELSE {i - now : i \in Occurrence(j)}

\* Mutant: a job does not look at the flag between two runs.
SleepUnchecked(j) ==
  /\ at[j] = "top"
  /\ \E d \in NextDelay(j) :
       /\ due' = [due EXCEPT ![j] = now + d]
       /\ at' = [at EXCEPT ![j] = "wait"]
  /\ UNCHANGED <<parts, main, signal, flag, now, ended, late>>

Sleep(j) ==
  /\ at[j] = "top" /\ ~flag
  /\ \E d \in NextDelay(j) :
       /\ due' = [due EXCEPT ![j] = now + d]
       /\ at' = [at EXCEPT ![j] = "wait"]
  /\ UNCHANGED <<parts, main, signal, flag, now, ended, late>>

\* The stream connects, the messages are primed.
Listen(t) ==
  /\ t \in {"stream", "dm"}
  /\ at[t] = "top" /\ ~flag
  /\ at' = [at EXCEPT ![t] = "wait"]
  /\ UNCHANGED <<parts, main, signal, flag, now, due, ended, late>>

\* The flag is seen between two rounds, or the schedule has no future.
BreakAtTop(t) ==
  /\ at[t] = "top"
  /\ flag \/ (t \in Jobs /\ NextDelay(t) = {})
  /\ at' = [at EXCEPT ![t] = "done"]
  /\ UNCHANGED <<parts, main, signal, flag, now, due, ended, late>>

\* The select! takes the timer, or an event: user code runs.
Begin(t) ==
  /\ at[t] = "wait"
  /\ t \in Jobs => now >= due[t]
  /\ at' = [at EXCEPT ![t] = "work"]
  /\ late' = [late EXCEPT ![t] = IF flag /\ @ < 2 THEN @ + 1 ELSE @]
  /\ UNCHANGED <<parts, main, signal, flag, now, due, ended>>

\* Mutant: an error from the channel is taken for "not yet".
BreakIfTold(t) ==
  /\ at[t] = "wait" /\ flag
  /\ at' = [at EXCEPT ![t] = "done"]
  /\ UNCHANGED <<parts, main, signal, flag, now, due, ended, late>>

\* The select! takes the channel.
Break(t) ==
  /\ at[t] = "wait" /\ Changed
  /\ at' = [at EXCEPT ![t] = "done"]
  /\ UNCHANGED <<parts, main, signal, flag, now, due, ended, late>>

\* The work is done, well or not.  The stream reads on; the others look at
\* the flag first.
EndWork(t) ==
  /\ at[t] = "work"
  /\ at' = [at EXCEPT ![t] = IF t = "stream" THEN "wait" ELSE "top"]
  /\ ended' = IF t \in Jobs THEN [ended EXCEPT ![t] = now] ELSE ended
  /\ UNCHANGED <<parts, main, signal, flag, now, due, late>>

Panic(t) ==
  /\ at[t] = "work"
  /\ at' = [at EXCEPT ![t] = "panicked"]
  /\ UNCHANGED <<parts, main, signal, flag, now, due, ended, late>>

----------------------------------------------------------------------------
(***************************************************************************)
(* The world.                                                              *)
(***************************************************************************)
Signal ==
  /\ main \in Running /\ ~signal
  /\ signal' = TRUE
  /\ UNCHANGED <<parts, main, flag, now, at, due, ended, late>>

Tick ==
  /\ main # "off"
  /\ now < MaxTime /\ now' = now + 1
  /\ UNCHANGED <<parts, main, signal, flag, at, due, ended, late>>

TaskNext(t) ==
  \/ BreakAtTop(t) \/ Begin(t) \/ Break(t) \/ EndWork(t) \/ Panic(t) \/ Listen(t)
  \/ t \in Jobs /\ Sleep(t)

RunNext ==
  \/ RunUntil \/ Cycle \/ StopAll \/ Join \/ Abandon \/ Signal \/ Tick
  \/ \E t \in Background : TaskNext(t)

RunSpec == RunInit /\ [][RunNext]_runVars

(***************************************************************************)
(* The runtime drives every task, and user code that is begun ends.  A     *)
(* select! picks at random among what is ready, so what stays ready, or is *)
(* ready again and again, is taken in the end.                             *)
(***************************************************************************)
RunFairness ==
  /\ WF_runVars(main = "busy" /\ Cycle)
  /\ SF_runVars(StopAll)
  /\ WF_runVars(Join)
  /\ \A t \in Background :
       /\ WF_runVars(EndWork(t)) /\ WF_runVars(BreakAtTop(t)) /\ SF_runVars(Break(t))
       /\ WF_runVars(Listen(t))
  /\ \A j \in Jobs : WF_runVars(Sleep(j))

----------------------------------------------------------------------------
(***************************************************************************)
(* Work that is begun is never cut short by a shutdown ("in-flight work    *)
(* runs to completion before it stops", bot.rs:1063).                      *)
(***************************************************************************)
WorkCompletes == [][\A t \in Background : at[t] = "work" => at'[t] # "done"]_runVars

(***************************************************************************)
(* Once the flag is set, a job or the message task begins at most one more *)
(* piece of work, however short its interval: the one a select! may still  *)
(* choose over the channel.  When run_until returns, nothing of the bot    *)
(* runs any more, even if a task panicked.                                 *)
(***************************************************************************)
AtMostOneMore ==
  /\ \A t \in Background \ {"stream"} : late[t] <= 1
  /\ main = "returned" => \A t \in Background : at[t] \in Ended

(***************************************************************************)
(* The instant a job runs for is later than the end of its last run:       *)
(* instants that go by while it works are skipped, and none is served      *)
(* twice.                                                                  *)
(***************************************************************************)
NoInstantTwice ==
  [][\A j \in Jobs : at[j] = "wait" /\ at'[j] = "work" => due[j] > ended[j]]_runVars

(***************************************************************************)
(* A shutdown request makes run_until return, unless its future is dropped *)
(* or it panics.                                                           *)
(***************************************************************************)
ShutdownReturns == signal ~> main \in {"returned", "gone"}

(***************************************************************************)
(* Tasks left behind by a run_until that was dropped or panicked stop too. *)
(***************************************************************************)
NoOrphans == main = "gone" ~> \A t \in Background : at[t] \in Ended

============================================================================
