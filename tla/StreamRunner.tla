--------------------------- MODULE StreamRunner ---------------------------
(***************************************************************************)
(* The Jetstream runner of src/stream.rs: it connects, dispatches the      *)
(* events it reads while remembering the time of the last one, and when    *)
(* the connection ends connects again after a backoff, asking for the      *)
(* events since a little before that time.                                 *)
(*                                                                         *)
(* An event is known by its place in the stream and carries a time (its    *)
(* time_us); times never go back, but may repeat.  A cursor is a time, or  *)
(* None for the live tail.  Whether a server starts with the events AT the *)
(* cursor or AFTER it is left open, so each connection may do either.      *)
(***************************************************************************)
EXTENDS Integers, Sequences

CONSTANTS
  None,          \* No cursor.
  StartCursor,   \* JetstreamConfig::cursor.
  Rewind,        \* JetstreamConfig::cursor_rewind.
  MaxAttempt,    \* u32::MAX, where the attempt count saturates.
  MaxTime,       \* Bounds the times of events.
  MaxEvents      \* Bounds the number of events.

ASSUME NoneAssumption == None \notin Nat
ASSUME ConfigAssumption ==
  /\ StartCursor \in Nat \cup {None}
  /\ Rewind \in Nat
ASSUME BoundsAssumption ==
  /\ MaxAttempt \in Nat \ {0}
  /\ MaxTime \in Nat
  /\ MaxEvents \in Nat

VARIABLES
  stream,     \* Server: the times of the events so far.
  pc,         \* Runner: the await it is at.
  cursor,     \* Runner: the time of the last event read, or None.
  attempt,    \* Runner: the attempt count of the backoff.
  gotData,    \* Runner: whether this connection has yielded any text.
  next,       \* The event this connection yields next.
  shutdown,   \* The watch channel.
  got,        \* History: the events dispatched.
  first,      \* History: the first of them ever (0: none yet).
  last,       \* History: the one read last (0: none yet).
  opened,     \* History: where the first connection started (0: none yet).
  dry         \* History: connections in a row that yielded nothing (saturates).

history == <<got, first, last, opened, dry>>
vars == <<stream, pc, cursor, attempt, gotData, next, shutdown, got, first, last,
          opened, dry>>

PCs == {"top", "connect", "read", "backoff", "stopped"}

TypeOK ==
  /\ stream \in Seq(1..MaxTime)
  /\ pc \in PCs
  /\ cursor \in Nat \cup {None}
  /\ attempt \in 0..MaxAttempt
  /\ gotData \in BOOLEAN
  /\ next \in 1..(Len(stream) + 1)
  /\ shutdown \in BOOLEAN
  /\ got \in SUBSET (1..Len(stream))
  /\ first \in 0..Len(stream)
  /\ last \in 0..Len(stream)
  /\ opened \in 0..(Len(stream) + 1)
  /\ dry \in 0..MaxAttempt

Init ==
  /\ stream = << >>
  /\ pc = "top"
  /\ cursor = StartCursor
  /\ attempt = 0
  /\ gotData = FALSE
  /\ next = 1
  /\ shutdown = FALSE
  /\ got = {}
  /\ first = 0
  /\ last = 0
  /\ opened = 0
  /\ dry = 0

----------------------------------------------------------------------------
(***************************************************************************)
(* The environment.                                                        *)
(***************************************************************************)
Emit(t) ==
  /\ Len(stream) < MaxEvents
  /\ \A i \in 1..Len(stream) : stream[i] <= t
  /\ stream' = Append(stream, t)
  /\ UNCHANGED <<pc, cursor, attempt, gotData, next, shutdown, history>>

RequestShutdown ==
  /\ ~shutdown
  /\ shutdown' = TRUE
  /\ UNCHANGED <<stream, pc, cursor, attempt, gotData, next, history>>

----------------------------------------------------------------------------
(***************************************************************************)
(* Connecting.                                                             *)
(***************************************************************************)
\* The channel is looked at once more before each connection.
Top ==
  /\ pc = "top"
  /\ pc' = IF shutdown THEN "stopped" ELSE "connect"
  /\ UNCHANGED <<stream, cursor, attempt, gotData, next, shutdown, history>>

\* Mutant: the cursor is not rewound.
UrlCursorNotRewound == cursor

\* build_url: the cursor is rewound; the subtraction saturates at 0.
UrlCursor ==
  IF cursor = None THEN None
  ELSE IF cursor < Rewind THEN 0 ELSE cursor - Rewind

\* Where in the stream a connection may start.
Starts ==
  IF UrlCursor = None THEN {Len(stream) + 1}
  ELSE {i \in 1..(Len(stream) + 1) :
         \/ \A j \in 1..Len(stream) : j < i <=> stream[j] < UrlCursor
         \/ \A j \in 1..Len(stream) : j < i <=> stream[j] <= UrlCursor}

Connected ==
  /\ pc = "connect"
  /\ pc' = "read"
  /\ next' \in Starts
  /\ gotData' = FALSE
  /\ opened' = IF opened = 0 THEN next' ELSE opened
  /\ UNCHANGED <<stream, cursor, attempt, shutdown, got, first, last, dry>>

----------------------------------------------------------------------------
(***************************************************************************)
(* Reading.  The cursor moves first, then the handlers run; reading goes   *)
(* on when they are done.                                                  *)
(***************************************************************************)
ReadEvent ==
  /\ pc = "read"
  /\ next <= Len(stream)
  /\ cursor' = stream[next]
  /\ gotData' = TRUE
  /\ next' = next + 1
  /\ got' = got \cup {next}
  /\ first' = IF first = 0 THEN next ELSE first
  /\ last' = next
  /\ UNCHANGED <<stream, pc, attempt, shutdown, opened, dry>>

\* A text that is no event, such as an error message, is dropped.
ReadOtherText ==
  /\ pc = "read"
  /\ gotData' = TRUE
  /\ UNCHANGED <<stream, pc, cursor, attempt, next, shutdown, history>>

----------------------------------------------------------------------------
(***************************************************************************)
(* The end of a connection, which may never have been established, and the *)
(* backoff.  With no connection there is no data.                          *)
(***************************************************************************)
Saturate(n) == IF n < MaxAttempt THEN n + 1 ELSE n

\* Mutant: any connection that was established resets the attempt count.
EndedResettingAlways ==
  /\ pc \in {"connect", "read"}
  /\ dry' = IF pc = "read" /\ gotData THEN 0 ELSE Saturate(dry)
  /\ pc' = IF shutdown THEN "stopped" ELSE "backoff"
  /\ LET a == IF pc = "read" THEN 0 ELSE attempt IN
     attempt' = IF shutdown THEN a ELSE Saturate(a)
  /\ UNCHANGED <<stream, cursor, gotData, next, shutdown, got, first, last, opened>>

Ended ==
  /\ pc \in {"connect", "read"}
  /\ dry' = IF pc = "read" /\ gotData THEN 0 ELSE Saturate(dry)
  /\ pc' = IF shutdown THEN "stopped" ELSE "backoff"
  /\ LET a == IF pc = "read" /\ gotData THEN 0 ELSE attempt IN
     attempt' = IF shutdown THEN a ELSE Saturate(a)
  /\ UNCHANGED <<stream, cursor, gotData, next, shutdown, got, first, last, opened>>

BackoffOver ==
  /\ pc = "backoff"
  /\ pc' = "top"
  /\ UNCHANGED <<stream, cursor, attempt, gotData, next, shutdown, history>>

\* Mutant: the channel is awaited only while connecting.
StopUnlessReading ==
  /\ pc = "connect"
  /\ shutdown
  /\ pc' = "stopped"
  /\ UNCHANGED <<stream, cursor, attempt, gotData, next, shutdown, history>>

\* Each await is a select! with the channel.
Stop ==
  /\ pc \in {"connect", "read", "backoff"}
  /\ shutdown
  /\ pc' = "stopped"
  /\ UNCHANGED <<stream, cursor, attempt, gotData, next, shutdown, history>>

----------------------------------------------------------------------------
Environment == RequestShutdown \/ \E t \in 1..MaxTime : Emit(t)

Runner == Top \/ Connected \/ ReadEvent \/ BackoffOver \/ Stop

Network == ReadOtherText \/ Ended

Next == Environment \/ Runner \/ Network

Spec == Init /\ [][Next]_vars

(***************************************************************************)
(* The runtime drives the task; select! takes a branch that stays ready.   *)
(***************************************************************************)
Fairness == WF_vars(Runner) /\ WF_vars(Stop)

FairSpec == Spec /\ Fairness

\* Connections may end any number of times, but not for ever.
Stable == <>[][~Ended]_vars

----------------------------------------------------------------------------
(***************************************************************************)
(* Given any rewind, once one event has been dispatched every later one    *)
(* is, before anything that follows it: across any number of reconnects,   *)
(* whichever way servers read the cursor and even if events share a time.  *)
(* This is what the rewind is for.  (build_url, stream.rs:652-668.)        *)
(***************************************************************************)
NoGap == Rewind > 0 => \A e \in got : \A i \in first..e : i \in got

(***************************************************************************)
(* Connections that end without having yielded a text are backed off ever  *)
(* longer, also from a server that accepts them and closes them at once.   *)
(* (run, stream.rs:693-709.)                                               *)
(***************************************************************************)
DryConnectionsBackedOff ==
  pc = "backoff" => attempt >= dry

(***************************************************************************)
(* Once an event has been dispatched, every later one is in the end, if    *)
(* connections finally last and the bot is not told to stop.               *)
(***************************************************************************)
EventuallyDispatched ==
  Stable => \A i \in 1..MaxEvents :
              first # 0 /\ i \in first..Len(stream) ~> i \in got \/ shutdown

(***************************************************************************)
(* The task ends once it is told to, whatever it is waiting for, even if   *)
(* events keep coming or no connection can be made.                        *)
(***************************************************************************)
ShutdownHonoured == shutdown ~> pc = "stopped"

----------------------------------------------------------------------------
(***************************************************************************)
(* "Tracks a time-based cursor so a reconnect resumes without gaps"        *)
(* (README.md:291-292).  Until an event was read there is no cursor, and a *)
(* reconnect starts at the live tail of its own time.                      *)
(***************************************************************************)
ResumesWithoutGaps ==
  pc = "read" => \A i \in opened..(next - 1) : i \in got

============================================================================
