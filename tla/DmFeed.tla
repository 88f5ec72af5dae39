------------------------------ MODULE DmFeed ------------------------------
(***************************************************************************)
(* What the direct-message loop promises a handler: the messages others    *)
(* sent, from some point of the conversation log on, each of them once, in *)
(* the order of the log and without a gap.                                 *)
(***************************************************************************)
EXTENDS Integers, Sequences

VARIABLES
  log,        \* The conversation log: for each entry, what it is.
  reached,    \* The position of the last message delivered, or of the start.
  delivered   \* The positions of all messages delivered.

vars == <<log, reached, delivered>>

\* A message of somebody else, one of the bot's own, any other event.
Kinds == {"theirs", "own", "other"}

Init ==
  /\ log = << >>
  /\ reached = 0
  /\ delivered = {}

Grow ==
  /\ \E kind \in Kinds : log' = Append(log, kind)
  /\ UNCHANGED <<reached, delivered>>

\* The reader may start anywhere in the log, once.
Begin(i) ==
  /\ reached = 0
  /\ delivered = {}
  /\ i \in 0..Len(log)
  /\ reached' = i
  /\ UNCHANGED <<log, delivered>>

\* The next message is delivered; its handler may send an answer.
Deliver(i) ==
  /\ i \in (reached + 1)..Len(log)
  /\ log[i] = "theirs"
  /\ \A j \in (reached + 1)..(i - 1) : log[j] # "theirs"
  /\ reached' = i
  /\ delivered' = delivered \cup {i}
  /\ log' \in {log, Append(log, "own")}

Next ==
  \/ Grow
  \/ \E i \in 0..Len(log) : Begin(i) \/ Deliver(i)

Spec == Init /\ [][Next]_vars

============================================================================
