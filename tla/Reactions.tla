----------------------------- MODULE Reactions -----------------------------
(***************************************************************************)
(* A bot reacting: the notification loop works off its batches while the   *)
(* stream and the direct-message tasks dispatch events of their own, all   *)
(* through handlers that share one Context and so one store.  The handlers *)
(* act at most once per event the way the SDK recommends: they ask         *)
(* is_remembered, act, and remember (src/context.rs).  The loop saves its  *)
(* watermark in the same store.                                            *)
(*                                                                         *)
(* Every await is a step boundary, where another task may run or the       *)
(* process may die; the next one starts from what the file holds.  The     *)
(* watermark is that of module Dedup: a time, and the ties at that time.   *)
(*                                                                         *)
(* External: a page may be any set of notifications; the server may bring  *)
(* one up late, and need not list what no longer fits.                     *)
(***************************************************************************)
EXTENDS Registry, Store

CONSTANTS
  Registries,     \* The registries a bot may be built with.
  StreamEvents,   \* Stream events: [uri, collection, op, words, tags].
  Dms,            \* Direct messages: [uri, text].
  Watermark,      \* The key of the watermark.
  Remembered,     \* The value saved for a remembered key.
  ProcessBacklog, \* The builder's process_backlog.
  MaxStamp,       \* Bounds the server's timestamps.
  MaxStarts       \* Bounds how often the bot is started.

Tasks == {"loop", "stream", "dm"}

indexedAt == [n \in Notifs |-> n.indexedAt]

Tracker == INSTANCE Dedup WITH MaxTime <- MaxStamp

Covered(d) == {n \in Notifs : ~Tracker!IsNew(d, indexedAt, n)}

VARIABLES
  registry,    \* What the builder registered.
  starts,      \* How often the bot was started.
  up,          \* Whether the process runs.
  dedup,       \* Loop: its watermark.
  batch,       \* Loop: new notifications not yet dispatched.
  event,       \* Task: the event it dispatches.
  todo,        \* Task: the stages of the dispatch that are left.
  step,        \* Task: where it is in the handler at hand.
  served,      \* Server: stream events and messages sent in this run.
  passed,      \* History: covered at some time without being in a batch then.
  finished,    \* History: <<handler, uri>> the loop has run to its end, ever.
  acked        \* History: keys remember was told Ok for, and file not torn since.

memory == <<dedup, batch, event, todo, step>>
vars == <<cache, file, registry, starts, up, dedup, batch, event, todo, step,
          served, passed, finished, acked>>

Idle == [uri |-> None]
Key(t) == <<Head(todo[t]).is, event[t].uri>>

\* The stages of an event are a sequence, and Keys has what its handlers remember.
Keyed(stages, e) ==
  /\ Len(stages) \in Nat /\ stages = [i \in 1..Len(stages) |-> stages[i]]
  /\ \A i \in DOMAIN stages :
       stages[i].kind = "handler" => <<stages[i].is, e.uri>> \in Keys

\* Every notification is about a record of its own.
ASSUME NotifsAssumption ==
  \A m, n \in Notifs : /\ n.reason \in Reasons /\ n.indexedAt \in 1..MaxStamp
                       /\ m.uri = n.uri => m = n
ASSUME RegistriesAssumption == \A r \in Registries : WellFormed(r)
ASSUME MaxStartsAssumption == MaxStarts \in Nat
ASSUME MaxStampAssumption == MaxStamp \in Nat
ASSUME ProcessBacklogAssumption == ProcessBacklog \in BOOLEAN
ASSUME ValuesAssumption ==
  Values = Tracker!SavedForms \cup {Remembered} /\ Remembered \notin Tracker!SavedForms
ASSUME KeysAssumption ==
  /\ Watermark \in Keys
  /\ \A r \in Registries :
       /\ \A n \in Notifs : Keyed(NotifStages(r, n), n)
       /\ \A e \in StreamEvents : Keyed(StreamStages(r, e), e)
       /\ \A m \in Dms : Keyed(DmStages(r, m), m)

TypeOK ==
  /\ StoreTypeOK
  /\ registry \in Registries
  /\ starts \in 0..MaxStarts /\ up \in BOOLEAN
  /\ dedup \in Tracker!Dedups /\ batch \in SUBSET Notifs
  /\ \A t \in Tasks : step[t] \in {"prime", "persistPrime", "idle", "next", "act", "remember"}
  /\ \A t \in Tasks : step[t] \in {"act", "remember"} => Key(t) \in Keys
  /\ served \in SUBSET (StreamEvents \cup Dms)
  /\ acked \in SUBSET Keys

ColdMemory ==
  /\ dedup' = Tracker!EmptyDedup /\ batch' = {}
  /\ event' = [t \in Tasks |-> Idle]
  /\ todo' = [t \in Tasks |-> << >>]
  /\ step' = [t \in Tasks |-> "idle"]

Init ==
  /\ StoreInit
  /\ registry \in Registries
  /\ starts = 0 /\ up = FALSE
  /\ dedup = Tracker!EmptyDedup /\ batch = {}
  /\ event = [t \in Tasks |-> Idle]
  /\ todo = [t \in Tasks |-> << >>]
  /\ step = [t \in Tasks |-> "idle"]
  /\ served = {} /\ passed = {} /\ finished = {} /\ acked = {}

----------------------------------------------------------------------------
(***************************************************************************)
(* The process.                                                            *)
(***************************************************************************)
\* The watermark is restored, unless there is none or it does not parse; then
\* the loop sets out to prime, unless the backlog is to be processed.
Start ==
  /\ ~up /\ starts < MaxStarts
  /\ up' = TRUE /\ starts' = starts + 1
  /\ Reopen
  /\ IF cache'[Watermark] \in Tracker!SavedForms
     THEN dedup' = Tracker!FromJson(cache'[Watermark]) /\ UNCHANGED step
     ELSE /\ dedup' = Tracker!EmptyDedup
          /\ step' = [step EXCEPT !["loop"] = IF ProcessBacklog THEN "idle" ELSE "prime"]
  /\ served' = {}
  /\ acked' = IF Persistent THEN acked ELSE {}
  /\ UNCHANGED <<registry, batch, event, todo, passed, finished>>

Crash ==
  /\ up /\ up' = FALSE
  /\ ColdMemory
  /\ UNCHANGED <<store, registry, starts, served, passed, finished, acked>>

\* A torn file voids what the store acknowledged before.
Acknowledge(keys) == acked' = IF file' = Torn THEN {} ELSE keys

----------------------------------------------------------------------------
(***************************************************************************)
(* Taking up events.                                                       *)
(***************************************************************************)
Dispatching(t, e, stages) ==
  /\ event' = [event EXCEPT ![t] = e]
  /\ todo' = [todo EXCEPT ![t] = stages]
  /\ step' = [step EXCEPT ![t] = "next"]

\* The watermark takes in the notifications of S, those of fresh to be dispatched.
Cover(S, fresh) ==
  /\ dedup' = Tracker!MarkAll(dedup, indexedAt, S)
  /\ passed' = passed \cup (Covered(dedup') \ (Covered(dedup) \cup fresh))

\* The page listed first is marked as a whole, and none of it is dispatched.
PrimeFetched ==
  /\ up /\ step["loop"] = "prime"
  /\ \E page \in SUBSET Notifs : Cover(page, {})
  /\ step' = [step EXCEPT !["loop"] = "persistPrime"]
  /\ UNCHANGED <<store, registry, starts, up, batch, event, todo, served, finished, acked>>

PrimeFailed ==
  /\ up /\ step["loop"] = "prime"
  /\ step' = [step EXCEPT !["loop"] = "idle"]
  /\ UNCHANGED <<store, registry, starts, up, dedup, batch, event, todo, served,
                 passed, finished, acked>>

\* A poll; the watermark moves past the batch at once.
Poll ==
  /\ up /\ step["loop"] = "idle" /\ batch = {}
  /\ \E page \in SUBSET Notifs : batch' = Tracker!Fresh(dedup, indexedAt, page)
  /\ batch' # {}
  /\ Cover(batch', batch')
  /\ UNCHANGED <<store, registry, starts, up, event, todo, step, served, finished, acked>>

DispatchNotif(n) ==
  /\ up /\ step["loop"] = "idle"
  /\ n \in batch /\ \A m \in batch : indexedAt[n] <= indexedAt[m]
  /\ batch' = batch \ {n}
  /\ Dispatching("loop", n, NotifStages(registry, n))
  /\ UNCHANGED <<store, registry, starts, up, dedup, served, passed, finished, acked>>

DispatchStream(e) ==
  /\ up /\ step["stream"] = "idle" /\ e \notin served
  /\ Subscribed(registry, e)
  /\ served' = served \cup {e}
  /\ Dispatching("stream", e, StreamStages(registry, e))
  /\ UNCHANGED <<store, registry, starts, up, dedup, batch, passed, finished, acked>>

DispatchDm(m) ==
  /\ up /\ step["dm"] = "idle" /\ m \notin served
  /\ served' = served \cup {m}
  /\ Dispatching("dm", m, DmStages(registry, m))
  /\ UNCHANGED <<store, registry, starts, up, dedup, batch, passed, finished, acked>>

----------------------------------------------------------------------------
(***************************************************************************)
(* Handlers::dispatch, stage by stage.                                     *)
(***************************************************************************)
AtStage(t, kind) ==
  up /\ step[t] = "next" /\ todo[t] # << >> /\ Head(todo[t]).kind = kind

\* The first stage left has run to its end.
Done(t) ==
  /\ todo' = [todo EXCEPT ![t] = Tail(@)]
  /\ finished' = IF t = "loop" THEN finished \cup {Key(t)} ELSE finished

\* A middleware: Flow::Skip drops all that is left.
Filter(t) ==
  /\ AtStage(t, "before")
  /\ todo' = [todo EXCEPT ![t] = IF event[t] \in Head(@).is THEN Tail(@) ELSE << >>]
  /\ UNCHANGED <<store, registry, starts, up, dedup, batch, event, step, served,
                 passed, finished, acked>>

\* Mutant: the last handler of a dispatch acts without asking.
CheckAllButLast(t) ==
  /\ AtStage(t, "handler")
  /\ IF Load(Key(t)) = None \/ Tail(todo[t]) = << >>
     THEN step' = [step EXCEPT ![t] = "act"] /\ UNCHANGED <<todo, finished>>
     ELSE Done(t) /\ UNCHANGED step
  /\ UNCHANGED <<store, registry, starts, up, dedup, batch, event, served, passed, acked>>

\* A handler begins: it asks is_remembered, and returns if so.
Check(t) ==
  /\ AtStage(t, "handler")
  /\ IF Load(Key(t)) = None
     THEN step' = [step EXCEPT ![t] = "act"] /\ UNCHANGED <<todo, finished>>
     ELSE Done(t) /\ UNCHANGED step
  /\ UNCHANGED <<store, registry, starts, up, dedup, batch, event, served, passed, acked>>

\* Mutant: a handler's error ends the dispatch.
ActErrorEnds(t) ==
  /\ up /\ step[t] = "act"
  /\ \/ step' = [step EXCEPT ![t] = "remember"] /\ UNCHANGED <<todo, finished>>
     \/ /\ step' = [step EXCEPT ![t] = "next"] /\ todo' = [todo EXCEPT ![t] = << >>]
        /\ finished' = IF t = "loop" THEN finished \cup {Key(t)} ELSE finished
  /\ UNCHANGED <<store, registry, starts, up, dedup, batch, event, served, passed, acked>>

\* It acts.  On an error, whether or not the action took effect, it returns;
\* the error goes to on_error or to the log, and the dispatch goes on.
Act(t) ==
  /\ up /\ step[t] = "act"
  /\ \/ step' = [step EXCEPT ![t] = "remember"] /\ UNCHANGED <<todo, finished>>
     \/ step' = [step EXCEPT ![t] = "next"] /\ Done(t)
  /\ UNCHANGED <<store, registry, starts, up, dedup, batch, event, served, passed, acked>>

\* It remembers having acted, and is done, with an error if the save failed.
Remember(t) ==
  /\ up /\ step[t] = "remember"
  /\ \E ok \in BOOLEAN :
       /\ Save(Key(t), Remembered, ok)
       /\ Acknowledge(IF ok THEN acked \cup {Key(t)} ELSE acked)
  /\ step' = [step EXCEPT ![t] = "next"]
  /\ Done(t)
  /\ UNCHANGED <<registry, starts, up, dedup, batch, event, served, passed>>

RunAfter(t) ==
  /\ AtStage(t, "after")
  /\ Done(t)
  /\ UNCHANGED <<store, registry, starts, up, dedup, batch, event, step, served, passed, acked>>

----------------------------------------------------------------------------
(***************************************************************************)
(* A dispatch is over, and its task comes back to where it left off.       *)
(***************************************************************************)
Return(t) ==
  /\ step' = [step EXCEPT ![t] = "idle"]
  /\ event' = [event EXCEPT ![t] = Idle]

Finish(t) ==
  /\ up /\ step[t] = "next" /\ todo[t] = << >>
  /\ Return(t)
  /\ UNCHANGED <<store, registry, starts, up, dedup, batch, todo, served,
                 passed, finished, acked>>

FinishStream == Finish("stream")

FinishDm == Finish("dm")

\* The loop has more of its batch to dispatch,
FinishNotif == batch # {} /\ Finish("loop")

\* or is through with it, and saves its watermark; as it does once primed.
Persist ==
  /\ \E ok \in BOOLEAN : Save(Watermark, Tracker!ToJson(dedup), ok) /\ Acknowledge(acked)
  /\ Return("loop")
  /\ UNCHANGED <<registry, starts, up, dedup, batch, todo, served, passed, finished>>

PersistWatermark ==
  /\ up /\ step["loop"] = "next" /\ todo["loop"] = << >> /\ batch = {}
  /\ Persist

PersistPrime == up /\ step["loop"] = "persistPrime" /\ Persist

\* Any code of the bot's may forget a key.
Forget(k) ==
  /\ up /\ k # Watermark
  /\ \E ok \in BOOLEAN : Remove(k, ok) /\ Acknowledge(acked \ {k})
  /\ UNCHANGED <<registry, starts, up, memory, served, passed, finished>>

----------------------------------------------------------------------------
Next ==
  \/ Start \/ Crash
  \/ PrimeFetched \/ PrimeFailed \/ PersistPrime \/ Poll \/ PersistWatermark
  \/ \E n \in Notifs : DispatchNotif(n)
  \/ \E e \in StreamEvents : DispatchStream(e)
  \/ \E m \in Dms : DispatchDm(m)
  \/ \E t \in Tasks :
       Filter(t) \/ Check(t) \/ Act(t) \/ Remember(t) \/ RunAfter(t)
  \/ FinishNotif \/ FinishStream \/ FinishDm
  \/ \E k \in Keys : Forget(k)

Spec == Init /\ [][Next]_vars

----------------------------------------------------------------------------
(***************************************************************************)
(* Once remember has answered Ok for a key, no handler is let through to   *)
(* act on it again: not by another task that changes other keys at the     *)
(* same time, not by failed saves of theirs, and not after a restart,      *)
(* unless the key is forgotten or a failing write tears the whole file.    *)
(***************************************************************************)
RememberedNotRedone ==
  [][\A t \in Tasks : step[t] # "act" /\ step'[t] = "act" =>
       <<Head(todo[t]).is, event[t].uri>> \notin acked]_vars

(***************************************************************************)
(* The watermark that outlives the process covers a notification only if   *)
(* it was passed over, primed or out of the page's reach; or else if every *)
(* handler and hook selected for it has run to its end, in this run or an  *)
(* earlier one, however its other handlers failed and wherever the process *)
(* died; and if any one of the middlewares skips it, none has.             *)
(***************************************************************************)
CoveredMeansHandled ==
  LET saved == Parsed(file)[Watermark]
      stages(n) == {NotifStages(registry, n)[i] : i \in DOMAIN NotifStages(registry, n)}
  IN  saved \in Tracker!SavedForms =>
        \A n \in Covered(Tracker!FromJson(saved)) \ passed :
          IF Admitted(registry, n)
          THEN \A s \in stages(n) : s.kind = "before" \/ <<s.is, n.uri>> \in finished
          ELSE \A k \in finished : k[2] # n.uri

(***************************************************************************)
(* The store, shared by all tasks and through crashes, is the durable map. *)
(***************************************************************************)
DurableSpec == Abstract!Spec

============================================================================
