---------------------------- MODULE MCLifecycle ----------------------------
(***************************************************************************)
(* The life of a bot for TLC: BotBuild, and BotRuntime once a bot is       *)
(* built.  run_until only takes the finished Bot over, so its runs are     *)
(* explored from one such bot, of account a with its first token, and not  *)
(* again from every other.                                                 *)
(***************************************************************************)
EXTENDS BotBuild, BotRuntime, TLC

CONSTANTS a, b   \* Two accounts.

MCHome == a :> "e1" @@ b :> "e2"

Option(service, identifier, path, badCron, dm, lab) ==
  [service |-> service, identifier |-> identifier, path |-> path,
   badCron |-> badCron, dm |-> dm, label |-> lab]

MCConfigs == {
  Option("e1", a, TRUE, FALSE, "all", TRUE),
  Option("e2", b, TRUE, FALSE, Unset, FALSE),
  Option("e1", Unset, TRUE, FALSE, "none", Unset),
  Option("e1", a, FALSE, TRUE, Unset, Unset)}

\* One job every 2 units, one by a cron expression.
MCPeriod   == "every" :> 2 @@ "cron" :> 0
MCInstants == "every" :> {} @@ "cron" :> {1, 3}
MCBuilds   == {{}, {"every", "cron", "notif"}, {"stream", "dm"}}

Explored ==
  build = "built" /\ tokens = 1 /\ config.identifier = a /\ session = file /\ file \in valid

vars == <<buildVars, runVars>>

Init == BuildInit /\ RunInit

Next ==
  \/ main = "off" /\ BuildNext /\ UNCHANGED runVars
  \/ Explored /\ RunNext /\ UNCHANGED buildVars

Spec == Init /\ [][Next]_vars /\ RunFairness

============================================================================
