----------------------------- MODULE BotBuild -----------------------------
(***************************************************************************)
(* BotBuilder::build (src/bot.rs): resume the session of the session file  *)
(* or log in, save the session, publish the inbox policy and the automated *)
(* label.  Each await is a step; it may fail, and the process may die at   *)
(* it.  The next build may be configured differently and finds what the    *)
(* earlier ones left in the file and on the account.                       *)
(*                                                                         *)
(* A session is of an account, at the service that hosts it, and has a     *)
(* token that the server replaces whenever the session is refreshed.       *)
(***************************************************************************)
EXTENDS Integers

CONSTANTS
  Configs,    \* What a builder may be configured with, see Init.
  Home,       \* For each account, the service that hosts it.
  Unset,      \* An option that is not given, a file that does not load.
  MaxTokens   \* Bounds the tokens the servers issue.

ASSUME ConfigsAssumption == \A c \in Configs : c.identifier \in DOMAIN Home \cup {Unset}
ASSUME TokensAssumption  == MaxTokens \in Nat

VARIABLES
  config,     \* The builder: [service, identifier, path, badCron, dm, label].
  build,      \* The await the build is at.
  file,       \* The session file: a session, or Unset.
  endpoint,   \* The service the agent talks to.
  session,    \* The agent's session, or Unset.
  valid,      \* Servers: the sessions they honour.
  tokens,     \* Servers: how many tokens were issued.
  policy,     \* Account: the inbox policy of its chat declaration.
  label,      \* Account: whether its profile carries the bot label.
  behind      \* History: why the file may not hold the valid session.

buildVars == <<config, build, file, endpoint, session, valid, tokens, policy,
               label, behind>>

Sessions == [account : DOMAIN Home, home : {Home[a] : a \in DOMAIN Home},
             token : 1..MaxTokens]
Over == {"none", "failed"}

BuildInit ==
  /\ config \in Configs
  /\ build = "none"
  /\ file = Unset /\ endpoint = Unset /\ session = Unset
  /\ valid = {} /\ tokens = 0
  /\ policy = Unset /\ label = FALSE
  /\ behind = FALSE

----------------------------------------------------------------------------
\* build() is called; the first scheduling error of the chain is returned.
Build(c) ==
  /\ build \in Over
  /\ config' = c
  /\ build' = IF c.badCron THEN "failed" ELSE "load"
  /\ session' = Unset
  /\ UNCHANGED <<file, endpoint, valid, tokens, policy, label, behind>>

Persisted == IF config.path THEN file ELSE Unset

\* The endpoint is that of the file, if there is one.
LoadFile ==
  /\ build = "load"
  /\ endpoint' = IF Persisted = Unset THEN config.service ELSE Persisted.home
  /\ build' = IF Persisted = Unset THEN "login" ELSE "resume"
  /\ UNCHANGED <<config, file, session, valid, tokens, policy, label, behind>>

\* The server replaces the token of a session it honours.
Rotate(s) ==
  /\ s \in valid /\ tokens < MaxTokens
  /\ tokens' = tokens + 1
  /\ session' = [s EXCEPT !.token = tokens']
  /\ valid' = (valid \ {s}) \cup {session'}

\* The same, but the answer is lost: nobody has the new token.
RotateUnheard(s) ==
  /\ s \in valid /\ tokens < MaxTokens
  /\ tokens' = tokens + 1
  /\ valid' = (valid \ {s}) \cup {[s EXCEPT !.token = tokens']}
  /\ UNCHANGED session

\* The file's session is resumed as it is or refreshed; else the build logs in.
Resume ==
  /\ build = "resume"
  /\ \/ /\ file \in valid /\ session' = file /\ build' = "save"
        /\ UNCHANGED <<valid, tokens, behind>>
     \/ Rotate(file) /\ build' = "save" /\ UNCHANGED behind
     \/ RotateUnheard(file) /\ build' = "login" /\ behind' = TRUE
     \/ build' = "login" /\ UNCHANGED <<session, valid, tokens, behind>>
  /\ UNCHANGED <<config, file, endpoint, policy, label>>

\* With the credentials, at the endpoint settled on.
Login ==
  /\ build = "login"
  /\ \/ /\ config.identifier # Unset
        /\ Home[config.identifier] = endpoint
        /\ tokens < MaxTokens
        /\ tokens' = tokens + 1
        /\ session' = [account |-> config.identifier, home |-> endpoint, token |-> tokens']
        /\ valid' = valid \cup {session'}
        /\ build' = "save"
     \/ build' = "failed" /\ UNCHANGED <<session, valid, tokens>>
  /\ UNCHANGED <<config, file, endpoint, policy, label, behind>>

\* Mutant: a session is saved only if there was none.
SaveFirst ==
  /\ build = "save" /\ build' = "policy"
  /\ IF config.path /\ file = Unset THEN file' = session ELSE UNCHANGED file
  /\ UNCHANGED behind
  /\ UNCHANGED <<config, endpoint, session, valid, tokens, policy, label>>

\* The session is saved, if there is a path; a failure is only logged.
SaveSession ==
  /\ build = "save" /\ build' = "policy"
  /\ \/ config.path /\ file' = session /\ behind' = (session \notin valid)
     \/ config.path /\ file' \in {file, Unset} /\ behind' = TRUE
     \/ ~config.path /\ UNCHANGED <<file, behind>>
  /\ UNCHANGED <<config, endpoint, session, valid, tokens, policy, label>>

\* Mutant: a policy that cannot be published is only logged.
PolicyBestEffort ==
  /\ build = "policy" /\ build' = "label"
  /\ policy' \in {policy} \cup ({config.dm} \ {Unset})
  /\ UNCHANGED <<config, file, endpoint, session, valid, tokens, label, behind>>

\* A write that fails may have taken effect all the same.
PublishPolicy ==
  /\ build = "policy"
  /\ \/ config.dm = Unset /\ build' = "label" /\ UNCHANGED policy
     \/ config.dm # Unset /\ build' = "label" /\ policy' = config.dm
     \/ config.dm # Unset /\ build' = "failed" /\ policy' \in {policy, config.dm}
  /\ UNCHANGED <<config, file, endpoint, session, valid, tokens, label, behind>>

\* set_automated_label: a read, and a write if it would change anything.
ApplyLabel ==
  /\ build = "label"
  /\ \/ config.label \in {Unset, label} /\ build' = "built" /\ UNCHANGED label
     \/ config.label \notin {Unset, label} /\ build' = "built" /\ label' = config.label
     \/ config.label # Unset /\ build' = "failed" /\ label' \in {label, config.label}
  /\ UNCHANGED <<config, file, endpoint, session, valid, tokens, policy, behind>>

\* The process dies while it builds, or ends, in whatever way, after.
BuildCrash ==
  /\ build \notin Over
  /\ build' = "none"
  /\ behind' = (behind \/ build = "save")
  /\ UNCHANGED <<config, file, endpoint, session, valid, tokens, policy, label>>

\* The agent refreshes its session while the bot runs; the file is not told.
RefreshInUse ==
  /\ build = "built"
  /\ Rotate(session) \/ RotateUnheard(session)
  /\ behind' = TRUE
  /\ UNCHANGED <<config, build, file, endpoint, policy, label>>

\* A server drops a session, as it does when it expires.
Revoke(s) ==
  /\ s \in valid
  /\ valid' = valid \ {s}
  /\ behind' = (behind \/ s = file)
  /\ UNCHANGED <<config, build, file, endpoint, session, tokens, policy, label>>

BuildStep ==
  \/ LoadFile \/ Resume \/ Login \/ SaveSession \/ PublishPolicy \/ ApplyLabel

BuildNext ==
  \/ BuildStep \/ BuildCrash \/ RefreshInUse
  \/ \E c \in Configs : Build(c)
  \/ \E s \in valid : Revoke(s)

BuildSpec == BuildInit /\ [][BuildNext]_buildVars

----------------------------------------------------------------------------
(***************************************************************************)
(* A bot is only ever built with a session of the service its agent talks  *)
(* to, and with the inbox policy and the label it was configured with in   *)
(* force, whatever failed builds, crashes and lost answers came before.    *)
(***************************************************************************)
BuiltInForce ==
  build = "built" =>
    /\ session.home = endpoint
    /\ config.dm \in {Unset, policy} /\ config.label \in {Unset, label}

(***************************************************************************)
(* The session file a build leaves can be resumed by the next, unless its  *)
(* save failed, the process died before it, the server dropped the session *)
(* or refreshed it while the bot ran, or replaced it on a resume whose     *)
(* answer was lost and after which no new session was saved.               *)
(***************************************************************************)
FileResumable ==
  ~behind /\ file # Unset /\ build \in Over => file \in valid

----------------------------------------------------------------------------
(***************************************************************************)
(* "Override the XRPC service endpoint" (service, bot.rs:150), "Set the    *)
(* account identifier" (identifier, bot.rs:117).  A session file left by   *)
(* an earlier configuration decides both the endpoint and the account.     *)
(***************************************************************************)
BuiltAsConfigured ==
  build = "built" =>
    endpoint = config.service /\ config.identifier \in {Unset, session.account}

============================================================================
