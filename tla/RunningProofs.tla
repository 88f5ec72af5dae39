--------------------------- MODULE RunningProofs ---------------------------
(***************************************************************************)
(* Proofs about a running bot: its tasks, for any jobs, schedules and      *)
(* parts (BotRuntime); and its handlers and their store, for any events,   *)
(* registries and numbers of starts (Reactions).                           *)
(***************************************************************************)
EXTENDS BotRuntime, Reactions, SequenceTheorems, TLAPS

Facts == INSTANCE DedupLemmas WITH MaxTime <- MaxStamp

----------------------------------------------------------------------------
(***************************************************************************)
(* Tasks.  Nothing begins to wait any more once the flag is set, but the   *)
(* stream, so what has begun a late piece of work does not begin another.  *)
(***************************************************************************)
Histories ==
  /\ DOMAIN at = Background
  /\ late \in [Background -> 0..2]
  /\ due \in [Jobs -> Nat]
  /\ ended \in [Jobs -> 0..MaxTime]

\* The next end of a sleep is later than the run before, and that not in the future.
Forward ==
  \A j \in Jobs : ended[j] <= now /\ (at[j] = "wait" => due[j] > ended[j])

Told ==
  /\ flag => main \in {"joining", "returned", "gone"}
  /\ \A t \in Background \ {"stream"} :
       late[t] <= 1 /\ (late[t] = 1 => flag /\ at[t] # "wait")
  /\ main = "returned" => \A t \in Background : at[t] \in Ended

RunInv == RunTypeOK /\ Histories /\ Forward /\ Told

LEMMA RunInitInv == RunInit => RunInv
<1> SUFFICES ASSUME RunInit PROVE RunInv
  OBVIOUS
<1>1. signal \in BOOLEAN /\ flag \in BOOLEAN
  BY Zenon DEF RunInit
<1>2. RunTypeOK
  BY <1>1, MaxTimeAssumption DEF RunInit, RunTypeOK, Running, Ended, Background
<1>3. Histories /\ Forward /\ Told
  BY MaxTimeAssumption DEF RunInit, Histories, Forward, Told, Background, Ended
<1> QED
  BY <1>2, <1>3 DEF RunInv

\* The task of run_until, the signal and the clock.
LEMMA MainInv ==
  ASSUME RunInv,
         RunUntil \/ Cycle \/ StopAll \/ Join \/ Abandon \/ Signal \/ Tick
  PROVE  RunInv'
<1> USE DEF RunInv
<1>1. CASE RunUntil
  <2>1. RunTypeOK'
    BY <1>1, BuildsAssumption DEF RunUntil, RunTypeOK, Running, Ended
  <2>2. Histories'
    BY <1>1 DEF RunUntil, RunTypeOK, Histories
  <2>3. Forward' /\ Told'
    BY <1>1 DEF RunUntil, RunTypeOK, Histories, Forward, Told, Background, Ended
  <2> QED
    BY <2>1, <2>2, <2>3
<1>2. CASE Cycle \/ StopAll \/ Join \/ Abandon \/ Signal
  <2>1. signal' \in BOOLEAN /\ flag' \in BOOLEAN
    BY <1>2, Zenon DEF Cycle, StopAll, Join, Abandon, Signal, RunTypeOK
  <2>2. RunTypeOK'
    BY <1>2, <2>1 DEF Cycle, StopAll, Join, Abandon, Signal, RunTypeOK, Running
  <2>3. Histories' /\ Forward'
    BY <1>2 DEF Cycle, StopAll, Join, Abandon, Signal, Histories, Forward
  <2>4. Told'
    BY <1>2 DEF Cycle, StopAll, Join, Abandon, Signal, Told, Running, RunTypeOK
  <2> QED
    BY <2>2, <2>3, <2>4
<1>3. CASE Tick
  <2>1. RunTypeOK'
    BY <1>3, MaxTimeAssumption DEF Tick, RunTypeOK
  <2>2. Histories' /\ Forward' /\ Told'
    BY <1>3, MaxTimeAssumption DEF Tick, RunTypeOK, Histories, Forward, Told
  <2> QED
    BY <2>1, <2>2
<1> QED
  BY <1>1, <1>2, <1>3

\* A sleep ends later than now.
LEMMA DelayPositive ==
  ASSUME RunInv, NEW j \in Jobs, NEW d \in NextDelay(j)
  PROVE  d \in Nat /\ d > 0
<1>1. now \in Nat /\ Period[j] \in Nat /\ Instants[j] \in SUBSET Nat
  BY PeriodAssumption, InstantsAssumption, MaxTimeAssumption DEF RunInv, RunTypeOK
<1> QED
  BY <1>1 DEF NextDelay, Occurrence

LEMMA TaskInv ==
  ASSUME RunInv, NEW t \in Background, TaskNext(t)
  PROVE  RunInv'
<1> USE DEF RunInv
<1>1. /\ UNCHANGED <<parts, main, signal, flag, now>>
      /\ \A u \in Background \ {t} : at'[u] = at[u]
      /\ DOMAIN at' = Background
  BY DEF TaskNext, BreakAtTop, Begin, Break, EndWork, Panic, Listen, Sleep, Histories
<1>2. at[t] \notin Ended
  BY DEF TaskNext, BreakAtTop, Begin, Break, EndWork, Panic, Listen, Sleep, Ended
<1>3. main # "returned"
  BY <1>2 DEF Told
<1>4. now \in 0..MaxTime /\ now \in Nat
  BY MaxTimeAssumption DEF RunTypeOK
<1>5. CASE BreakAtTop(t) \/ Break(t) \/ Panic(t)
  <2>1. at'[t] \in Ended /\ UNCHANGED <<due, ended, late>>
    BY <1>5 DEF BreakAtTop, Break, Panic, Histories, Ended
  <2>2. RunTypeOK'
    BY <1>1, <2>1 DEF RunTypeOK
  <2>3. Histories' /\ Forward'
    BY <1>1, <2>1 DEF Histories, Forward, Ended, Background
  <2>4. Told'
    BY <1>1, <1>3, <2>1 DEF Told, Ended
  <2> QED
    BY <2>2, <2>3, <2>4
<1>6. CASE Begin(t)
  <2>1. /\ at[t] = "wait" /\ at'[t] = "work" /\ UNCHANGED <<due, ended>>
        /\ late' = [late EXCEPT ![t] = IF flag /\ @ < 2 THEN @ + 1 ELSE @]
    BY <1>6 DEF Begin, Histories
  <2>2. RunTypeOK'
    BY <1>1, <2>1 DEF RunTypeOK
  <2>3. Histories' /\ Forward'
    BY <1>1, <2>1 DEF Histories, Forward, Background
  <2>4. Told'
    BY <1>1, <1>3, <2>1 DEF Told, Histories
  <2> QED
    BY <2>2, <2>3, <2>4
<1>7. CASE EndWork(t)
  <2>1. /\ at'[t] = IF t = "stream" THEN "wait" ELSE "top"
        /\ at[t] = "work"
        /\ UNCHANGED <<due, late>>
        /\ ended' = IF t \in Jobs THEN [ended EXCEPT ![t] = now] ELSE ended
    BY <1>7 DEF EndWork, Histories
  <2>2. RunTypeOK'
    BY <1>1, <1>4, <2>1 DEF RunTypeOK, Histories
  <2>3. Histories'
    BY <1>1, <1>4, <2>1 DEF Histories
  <2>4. Forward'
    BY <1>1, <1>4, <2>1, JobsAssumption DEF Histories, Forward, Background
  <2>5. Told'
    BY <1>1, <1>3, <2>1 DEF Told
  <2> QED
    BY <2>2, <2>3, <2>4, <2>5
<1>8. CASE Listen(t) \/ (t \in Jobs /\ Sleep(t))
  <2>1. /\ ~flag /\ at'[t] = "wait" /\ UNCHANGED <<ended, late>>
    BY <1>8 DEF Listen, Sleep, Histories
  <2>2. \/ due' = due /\ t \in {"stream", "dm"}
        \/ t \in Jobs /\ \E d \in Nat : d > 0 /\ due' = [due EXCEPT ![t] = now + d]
    BY <1>8, DelayPositive DEF Listen, Sleep
  <2>3. RunTypeOK' /\ Histories'
    BY <1>1, <1>4, <2>1, <2>2 DEF RunTypeOK, Histories
  <2>4. Forward'
    BY <1>1, <1>4, <2>1, <2>2, JobsAssumption DEF Histories, Forward, Background
  <2>5. Told'
    BY <1>1, <1>3, <2>1 DEF Told, Histories
  <2> QED
    BY <2>3, <2>4, <2>5
<1> QED
  BY <1>5, <1>6, <1>7, <1>8 DEF TaskNext

LEMMA RunNextInv == RunInv /\ [RunNext]_runVars => RunInv'
<1> SUFFICES ASSUME RunInv, [RunNext]_runVars PROVE RunInv'
  OBVIOUS
<1>1. CASE UNCHANGED runVars
  BY <1>1 DEF runVars, RunInv, RunTypeOK, Histories, Forward, Told
<1> QED
  BY <1>1, MainInv, TaskInv DEF RunNext

\* The state of run_until and its tasks is well-formed (bot.rs, schedule.rs).
THEOREM RunTypeCorrect == RunSpec => []RunTypeOK
<1>1. RunInv => RunTypeOK
  BY DEF RunInv
<1> QED
  BY <1>1, RunInitInv, RunNextInv, PTL DEF RunSpec

(***************************************************************************)
(* After the shutdown is announced a job or the message task begins at     *)
(* most one more piece of work, and when run_until returns none runs any   *)
(* more (Bot::run_until, bot.rs).                                          *)
(***************************************************************************)
THEOREM StopsInTime == RunSpec => []AtMostOneMore
<1>1. RunInv => AtMostOneMore
  BY DEF RunInv, Told, AtMostOneMore
<1> QED
  BY <1>1, RunInitInv, RunNextInv, PTL DEF RunSpec

(***************************************************************************)
(* A shutdown cuts no work short (Bot::run_until, bot.rs).                 *)
(***************************************************************************)
THEOREM CompletesWork == RunSpec => WorkCompletes
<1>1. RunInv /\ [RunNext]_runVars
        => [\A t \in Background : at[t] = "work" => at'[t] # "done"]_runVars
  <2> SUFFICES ASSUME RunInv, RunNext, NEW t \in Background, at[t] = "work"
               PROVE  at'[t] # "done"
    OBVIOUS
  <2>1. ASSUME NEW u \in Background, TaskNext(u) PROVE at'[t] # "done"
    BY <2>1 DEF TaskNext, BreakAtTop, Begin, Break, EndWork, Panic, Listen, Sleep,
                RunInv, Histories
  <2> QED
    BY <2>1 DEF RunNext, RunUntil, Cycle, StopAll, Join, Abandon, Signal, Tick
<1> QED
  BY <1>1, RunInitInv, RunNextInv, PTL DEF RunSpec, WorkCompletes

(***************************************************************************)
(* No instant of a schedule is served twice, nor one that went by while    *)
(* the job worked (next_delay_from, schedule.rs).                          *)
(***************************************************************************)
THEOREM ServesInstantsOnce == RunSpec => NoInstantTwice
<1>1. RunInv /\ [RunNext]_runVars
        => [\A j \in Jobs : at[j] = "wait" /\ at'[j] = "work" => due[j] > ended[j]]_runVars
  BY DEF RunInv, Forward
<1> QED
  BY <1>1, RunInitInv, RunNextInv, PTL DEF RunSpec, NoInstantTwice

----------------------------------------------------------------------------
(***************************************************************************)
(* Handlers and their store.  What is left of a dispatch is a sequence of  *)
(* stages whose handlers remember under keys in use; and a key remembered  *)
(* is in the map, and in the file as long as no write tore it.             *)
(***************************************************************************)
StagesOf(s) == {s[i] : i \in DOMAIN s}

NotifStagesBy(r)  == UNION {StagesOf(NotifStages(r, n)) : n \in Notifs}
StreamStagesBy(r) == UNION {StagesOf(StreamStages(r, e)) : e \in StreamEvents}
DmStagesBy(r)     == UNION {StagesOf(DmStages(r, m)) : m \in Dms}

StagesBy(r) == NotifStagesBy(r) \cup StreamStagesBy(r) \cup DmStagesBy(r)

AllStages == UNION {StagesBy(r) : r \in Registries}

\* The stages s of the event e.
Staging(s, e) ==
  /\ s \in Seq(AllStages)
  /\ \A i \in 1..Len(s) : s[i].kind = "handler" => <<s[i].is, e.uri>> \in Keys

Staged ==
  /\ DOMAIN event = Tasks /\ DOMAIN todo = Tasks /\ DOMAIN step = Tasks
  /\ \A t \in Tasks : Staging(todo[t], event[t])
  /\ \A t \in Tasks : step[t] \in {"act", "remember"} =>
                        todo[t] # << >> /\ Head(todo[t]).kind = "handler"

Kept ==
  \A k \in acked : cache[k] # None /\ (Persistent => file # Torn /\ file[k] # None)

\* A process that is down, or has yet to poll, has nothing to dispatch.
Unoccupied ==
  ~up \/ step["loop"] \in {"prime", "persistPrime"} => batch = {} /\ todo["loop"] = << >>

ReactInv == TypeOK /\ Staged /\ Unoccupied /\ Kept

LEMMA StagingOf ==
  ASSUME NEW s, NEW e, Keyed(s, e), StagesOf(s) \subseteq AllStages
  PROVE  Staging(s, e)
<1>1. DOMAIN s = 1..Len(s) /\ s \in [1..Len(s) -> AllStages] /\ Len(s) \in Nat
  BY DEF Keyed, StagesOf
<1> QED
  BY <1>1, SeqDef DEF Keyed, Staging

LEMMA StagesStaging ==
  ASSUME NEW r \in Registries
  PROVE  /\ \A n \in Notifs : Staging(NotifStages(r, n), n)
         /\ \A e \in StreamEvents : Staging(StreamStages(r, e), e)
         /\ \A m \in Dms : Staging(DmStages(r, m), m)
<1>0. StagesBy(r) \subseteq AllStages
  BY Zenon DEF AllStages
<1>1. ASSUME NEW n \in Notifs PROVE StagesOf(NotifStages(r, n)) \subseteq AllStages
  <2>1. StagesOf(NotifStages(r, n)) \subseteq NotifStagesBy(r)
    BY Zenon DEF NotifStagesBy
  <2> QED
    BY <1>0, <2>1 DEF StagesBy
<1>2. ASSUME NEW e \in StreamEvents PROVE StagesOf(StreamStages(r, e)) \subseteq AllStages
  <2>1. StagesOf(StreamStages(r, e)) \subseteq StreamStagesBy(r)
    BY Zenon DEF StreamStagesBy
  <2> QED
    BY <1>0, <2>1 DEF StagesBy
<1>3. ASSUME NEW m \in Dms PROVE StagesOf(DmStages(r, m)) \subseteq AllStages
  <2>1. StagesOf(DmStages(r, m)) \subseteq DmStagesBy(r)
    BY Zenon DEF DmStagesBy
  <2> QED
    BY <1>0, <2>1 DEF StagesBy
<1> QED
  BY <1>1, <1>2, <1>3, KeysAssumption, StagingOf

LEMMA StagingTail ==
  ASSUME NEW s, NEW e, Staging(s, e), s # << >>
  PROVE  /\ Staging(Tail(s), e)
         /\ Head(s).kind = "handler" => <<Head(s).is, e.uri>> \in Keys
<1>1. s \in Seq(AllStages) /\ Len(s) \in Nat \ {0} /\ Head(s) = s[1]
  BY EmptySeq DEF Staging
<1>2. /\ Tail(s) \in Seq(AllStages) /\ Len(Tail(s)) = Len(s) - 1
      /\ \A i \in 1..Len(Tail(s)) : Tail(s)[i] = s[i + 1]
  BY <1>1, HeadTailProperties
<1> QED
  BY <1>1, <1>2 DEF Staging

LEMMA StagingEmpty ==
  ASSUME NEW e
  PROVE  Staging(<< >>, e)
<1>1. << >> \in Seq(AllStages) /\ Len(<< >>) = 0
  BY EmptySeq, Zenon
<1> QED
  BY <1>1 DEF Staging

----------------------------------------------------------------------------
(***************************************************************************)
(* The store.                                                              *)
(***************************************************************************)
LEMMA Changed1 ==
  ASSUME StoreTypeOK, NEW k \in Keys, NEW v \in Values \cup {None}, NEW ok \in BOOLEAN,
         cache' = [cache EXCEPT ![k] = v], file' \in Written(ok, cache')
  PROVE  /\ StoreTypeOK' /\ Abstract!Next
         /\ file' # Torn => file' = file \/ file' = cache'
         /\ ok /\ Persistent => file' = cache'
<1>1. cache \in Maps /\ cache' \in Maps /\ file \in Maps \cup {Torn}
  BY DEF StoreTypeOK, Maps
<1>2. Torn \notin Maps /\ EmptyMap \in Maps
  BY TornAssumption DEF Maps, EmptyMap
<1>3. /\ file' \in {file, Torn, cache'}
      /\ ok /\ Persistent => file' = cache'
  BY DEF Written
<1>4. StoreTypeOK'
  BY <1>1, <1>3 DEF StoreTypeOK
<1>5. Abstract!Update(k, v)
  <2>1. Parsed(file') \in {cache', Parsed(file), EmptyMap}
    BY <1>1, <1>2, <1>3 DEF Parsed
  <2>2. Parsed(file)' = Parsed(file')
    BY DEF Parsed
  <2>3. EmptyMap = Abstract!Empty
    BY DEF EmptyMap, Abstract!Empty
  <2> QED
    BY <2>1, <2>2, <2>3 DEF Abstract!Update
<1>6. Abstract!Next
  BY <1>5 DEF Abstract!Next
<1> QED
  BY <1>3, <1>4, <1>6

LEMMA Values1 == Remembered \in Values /\ Tracker!SavedForms \subseteq Values /\ None \notin Values
BY ValuesAssumption, NoneAssumption

----------------------------------------------------------------------------
(***************************************************************************)
(* The watermark, and its saved form.                                      *)
(***************************************************************************)
LEMMA WatermarkForms ==
  /\ Tracker!EmptyDedup \in Tracker!Dedups /\ Covered(Tracker!EmptyDedup) = {}
  /\ \A s \in Tracker!SavedForms : Tracker!FromJson(s) \in Tracker!Dedups
  /\ \A d \in Tracker!Dedups : /\ Tracker!ToJson(d) \in Tracker!SavedForms
                              /\ Tracker!FromJson(Tracker!ToJson(d)) = d
<1>1. Tracker!EmptyDedup \in Tracker!Dedups
  BY DEF Tracker!EmptyDedup, Tracker!Dedups, Tracker!NoTime
<1>2. Covered(Tracker!EmptyDedup) = {}
  <2>1. \A n \in Notifs : indexedAt[n] > 0
    BY NotifsAssumption, MaxStampAssumption DEF indexedAt
  <2> QED
    BY <2>1 DEF Covered, Tracker!IsNew, Tracker!EmptyDedup, Tracker!NoTime
<1>3. \A s \in Tracker!SavedForms : Tracker!FromJson(s) \in Tracker!Dedups
  BY DEF Tracker!SavedForms, Tracker!FromJson, Tracker!Dedups
<1>4. \A d \in Tracker!Dedups : /\ Tracker!ToJson(d) \in Tracker!SavedForms
                              /\ Tracker!FromJson(Tracker!ToJson(d)) = d
  BY DEF Tracker!SavedForms, Tracker!FromJson, Tracker!ToJson, Tracker!Dedups
<1> QED
  BY <1>1, <1>2, <1>3, <1>4

LEMMA CoverType ==
  ASSUME dedup \in Tracker!Dedups, NEW S \in SUBSET Notifs, NEW fresh, Cover(S, fresh)
  PROVE  dedup' \in Tracker!Dedups
<1>1. indexedAt \in [Notifs -> Facts!Stamps]
  BY NotifsAssumption DEF indexedAt, Facts!Stamps, Facts!Times, Facts!NoTime
<1>2. Facts!Dedups = Tracker!Dedups
  BY DEF Facts!Dedups, Tracker!Dedups, Facts!Times, Facts!NoTime, Tracker!Times, Tracker!NoTime
<1>3. Facts!MarkAll(dedup, indexedAt, S) \in Facts!Dedups
  BY <1>1, <1>2, Facts!MarkAllType, MaxStampAssumption
<1>4. Facts!MarkAll(dedup, indexedAt, S) = Tracker!MarkAll(dedup, indexedAt, S)
  BY Zenon DEF Facts!MarkAll, Tracker!MarkAll, Facts!Top, Tracker!Top, Facts!Max, Tracker!Max
<1> QED
  BY <1>2, <1>3, <1>4 DEF Cover

----------------------------------------------------------------------------
LEMMA ReactInitInv == Init => ReactInv
<1> SUFFICES ASSUME Init PROVE ReactInv
  OBVIOUS
<1>1. StoreTypeOK
  BY DEF Init, StoreInit, StoreTypeOK, Maps, EmptyMap
<1>2. TypeOK
  <2>1. up \in BOOLEAN /\ registry \in Registries /\ starts = 0
    BY Zenon DEF Init
  <2>2. /\ dedup \in Tracker!Dedups /\ batch = {} /\ served = {} /\ acked = {}
        /\ \A t \in Tasks : step[t] = "idle"
    BY WatermarkForms DEF Init
  <2> QED
    BY <1>1, <2>1, <2>2, MaxStartsAssumption DEF TypeOK
<1>3. Staged /\ Unoccupied
  BY StagingEmpty DEF Init, Staged, Unoccupied, Tasks
<1>4. Kept
  BY DEF Init, Kept
<1> QED
  BY <1>2, <1>3, <1>4 DEF ReactInv

LEMMA StartStep ==
  ASSUME ReactInv, Start
  PROVE  ReactInv' /\ Abstract!Next
<1>1. /\ cache' = Parsed(file) /\ file' = file /\ ~up /\ up' = TRUE /\ starts' = starts + 1
      /\ starts < MaxStarts
      /\ UNCHANGED <<registry, batch, event, todo>>
      /\ served' = {} /\ acked' = IF Persistent THEN acked ELSE {}
      /\ DOMAIN step = Tasks
      /\ \/ step' = step
         \/ step' = [step EXCEPT !["loop"] = "idle"]
         \/ step' = [step EXCEPT !["loop"] = "prime"]
  BY DEF Start, Reopen, ReactInv, Staged
<1>2. StoreTypeOK'
  BY <1>1 DEF ReactInv, TypeOK, StoreTypeOK, Parsed, Maps, EmptyMap
<1>3. dedup' \in Tracker!Dedups
  BY WatermarkForms DEF Start
<1>4. TypeOK'
  <2>1. up' \in BOOLEAN /\ starts' \in 0..MaxStarts /\ served' = {} /\ acked' \subseteq acked
    BY <1>1, MaxStartsAssumption DEF ReactInv, TypeOK
  <2>2. \A t \in Tasks :
          /\ step'[t] \in {"idle", "prime", step[t]}
          /\ event'[t] = event[t] /\ todo'[t] = todo[t]
    BY <1>1
  <2> QED
    BY <1>1, <1>2, <1>3, <2>1, <2>2 DEF ReactInv, TypeOK, Key
<1>5. Staged' /\ Unoccupied' /\ Kept'
  <2>1. Staged' /\ Unoccupied'
    BY <1>1 DEF ReactInv, Staged, Unoccupied
  <2>2. Kept'
    BY <1>1 DEF ReactInv, Kept, Parsed
  <2> QED
    BY <2>1, <2>2
<1>6. Abstract!Next
  <2>1. Parsed(file)' = Parsed(file)
    BY <1>1 DEF Parsed
  <2> QED
    BY <1>1, <2>1 DEF Abstract!Next, Abstract!Restart
<1> QED
  BY <1>4, <1>5, <1>6 DEF ReactInv

\* The steps that leave the store alone.
Taking ==
  \/ PrimeFetched
  \/ PrimeFailed
  \/ Poll
  \/ \E n \in Notifs : DispatchNotif(n)
  \/ \E e \in StreamEvents : DispatchStream(e)
  \/ \E m \in Dms : DispatchDm(m)

LEMMA DispatchingStep ==
  ASSUME Staged, NEW t \in Tasks, NEW e, NEW stages, Staging(stages, e),
         Dispatching(t, e, stages)
  PROVE  /\ Staged' /\ step'[t] = "next"
         /\ \A u \in Tasks \ {t} : step'[u] = step[u] /\ todo'[u] = todo[u] /\ event'[u] = event[u]
<1>1. /\ event' = [event EXCEPT ![t] = e]
      /\ todo' = [todo EXCEPT ![t] = stages]
      /\ step' = [step EXCEPT ![t] = "next"]
  BY DEF Dispatching
<1> QED
  BY <1>1 DEF Staged

LEMMA TakingStep ==
  ASSUME ReactInv, Taking
  PROVE  ReactInv' /\ UNCHANGED store
<1> USE DEF ReactInv
<1>1. /\ UNCHANGED <<cache, file, registry, starts, up, acked>>
      /\ batch' \in SUBSET Notifs
      /\ served' \in SUBSET (StreamEvents \cup Dms)
  BY DEF Taking, PrimeFetched, PrimeFailed, Poll, Tracker!Fresh, DispatchNotif, DispatchStream,
         DispatchDm, store, TypeOK
<1>2. Kept' /\ StoreTypeOK'
  BY <1>1 DEF Kept, TypeOK, StoreTypeOK
<1>a. dedup' \in Tracker!Dedups
  <2>1. CASE PrimeFetched
    <3>1. PICK page \in SUBSET Notifs : Cover(page, {})
      BY <2>1 DEF PrimeFetched
    <3> QED
      BY <3>1, CoverType DEF TypeOK
  <2>2. CASE Poll
    <3>1. Cover(batch', batch')
      BY <2>2 DEF Poll
    <3> QED
      BY <1>1, <3>1, CoverType DEF TypeOK
  <2>3. CASE ~PrimeFetched /\ ~Poll
    BY <2>3 DEF Taking, PrimeFailed, DispatchNotif, DispatchStream, DispatchDm, TypeOK
  <2> QED
    BY <2>1, <2>2, <2>3
<1>3. /\ Staged'
      /\ \A t \in Tasks :
           \/ step'[t] \in {"next", "idle", "persistPrime"}
           \/ step'[t] = step[t] /\ todo'[t] = todo[t] /\ event'[t] = event[t]
  <2>1. CASE PrimeFetched \/ PrimeFailed \/ Poll
    BY <2>1 DEF PrimeFetched, PrimeFailed, Poll, Staged
  <2>2. ASSUME NEW n \in Notifs, DispatchNotif(n) PROVE <1>3!:
    BY <2>2, StagesStaging, DispatchingStep DEF DispatchNotif, Tasks, TypeOK
  <2>3. ASSUME NEW e \in StreamEvents, DispatchStream(e) PROVE <1>3!:
    BY <2>3, StagesStaging, DispatchingStep DEF DispatchStream, Tasks, TypeOK
  <2>4. ASSUME NEW m \in Dms, DispatchDm(m) PROVE <1>3!:
    BY <2>4, StagesStaging, DispatchingStep DEF DispatchDm, Tasks, TypeOK
  <2> QED
    BY <2>1, <2>2, <2>3, <2>4 DEF Taking
<1>4. TypeOK'
  BY <1>1, <1>2, <1>a, <1>3 DEF TypeOK, Key
<1>5. Unoccupied'
  <2>1. CASE PrimeFetched \/ PrimeFailed \/ Poll
    BY <2>1 DEF PrimeFetched, PrimeFailed, Poll, Unoccupied, Staged, Tasks
  <2>2. CASE ~(PrimeFetched \/ PrimeFailed \/ Poll)
    <3>1. /\ up /\ up' = up /\ DOMAIN step = Tasks /\ DOMAIN todo = Tasks
          /\ \/ step'["loop"] = "next"
             \/ step'["loop"] = step["loop"] /\ todo'["loop"] = todo["loop"] /\ batch' = batch
      BY <2>2
      DEF Taking, DispatchNotif, DispatchStream, DispatchDm, Dispatching, Staged, Tasks
    <3> QED
      BY <3>1 DEF Unoccupied
  <2> QED
    BY <2>1, <2>2
<1> QED
  BY <1>1, <1>2, <1>3, <1>4, <1>5 DEF store

\* The stages of a dispatch, and its end.
Working(t) == Filter(t) \/ Check(t) \/ Act(t) \/ RunAfter(t) \/ Finish(t)

LEMMA WorkingStep ==
  ASSUME ReactInv, NEW t \in Tasks, Working(t)
  PROVE  ReactInv' /\ UNCHANGED store
<1> USE DEF ReactInv
<1>1. /\ UNCHANGED <<cache, file, registry, starts, up, dedup, batch, served, acked>>
      /\ UNCHANGED store /\ up
  BY DEF Working, AtStage, Filter, Check, Act, RunAfter, Finish, store
<1>2. Kept' /\ StoreTypeOK'
  BY <1>1 DEF Kept, TypeOK, StoreTypeOK
<1>3. CASE Finish(t)
  <2>1. /\ todo[t] = << >> /\ todo' = todo
        /\ step' = [step EXCEPT ![t] = "idle"] /\ event' = [event EXCEPT ![t] = Idle]
    BY <1>3 DEF Finish, Return
  <2>2. Staged' /\ Unoccupied'
    BY <1>1, <2>1, StagingEmpty DEF Staged, Unoccupied
  <2>3. TypeOK'
    BY <1>1, <1>2, <2>1 DEF TypeOK, Key, Staged
  <2> QED
    BY <1>1, <1>2, <2>2, <2>3
<1>4. CASE ~Finish(t)
  <2>1. /\ event' = event
        /\ step[t] \in {"next", "act"} /\ todo[t] # << >>
        /\ \/ todo' = [todo EXCEPT ![t] = << >>] /\ step' = step /\ step[t] = "next"
           \/ /\ todo' = [todo EXCEPT ![t] = Tail(todo[t])]
              /\ \/ step' = step /\ step[t] = "next"
                 \/ step' = [step EXCEPT ![t] = "next"]
           \/ /\ todo' = todo /\ Head(todo[t]).kind = "handler"
              /\ step' = [step EXCEPT ![t] = "act"] \/ step' = [step EXCEPT ![t] = "remember"]
    BY <1>4 DEF Working, Filter, Check, Act, RunAfter, AtStage, Done, Staged
  <2>2. /\ Staging(Tail(todo[t]), event[t])
        /\ Head(todo[t]).kind = "handler" => Key(t) \in Keys
    BY <2>1, StagingTail DEF Staged, Key
  <2>3. Staging(<< >>, event[t])
    BY StagingEmpty
  <2>4. Staged'
    BY <2>1, <2>2, <2>3 DEF Staged
  <2>5. \A u \in Tasks : step'[u] \in {"act", "remember"} => Key(u)' \in Keys
    <3> SUFFICES ASSUME NEW u \in Tasks, step'[u] \in {"act", "remember"} PROVE Key(u)' \in Keys
      OBVIOUS
    <3>1. CASE u = t
      <4>1. todo'[t] = todo[t] /\ Head(todo[t]).kind = "handler"
        BY <2>1, <3>1 DEF Staged
      <4> QED
        BY <2>1, <2>2, <3>1, <4>1 DEF Key
    <3>2. CASE u # t
      BY <2>1, <3>2 DEF TypeOK, Staged, Key
    <3> QED
      BY <3>1, <3>2
  <2>6. \A u \in Tasks :
          step'[u] \in {"prime", "persistPrime", "idle", "next", "act", "remember"}
    BY <2>1 DEF TypeOK, Staged
  <2>7. TypeOK'
    BY <1>1, <1>2, <2>5, <2>6 DEF TypeOK
  <2>8. Unoccupied'
    BY <1>1, <2>1 DEF Unoccupied, Staged, Tasks
  <2> QED
    BY <1>1, <1>2, <2>4, <2>7, <2>8
<1> QED
  BY <1>3, <1>4

LEMMA CrashStep ==
  ASSUME ReactInv, Crash
  PROVE  ReactInv' /\ UNCHANGED store
<1> USE DEF ReactInv
<1>1. /\ UNCHANGED <<cache, file, registry, starts, served, acked>> /\ UNCHANGED store
      /\ up' = FALSE /\ dedup' = Tracker!EmptyDedup /\ batch' = {}
      /\ event' = [t \in Tasks |-> Idle] /\ todo' = [t \in Tasks |-> << >>]
      /\ step' = [t \in Tasks |-> "idle"]
  BY DEF Crash, ColdMemory, store
<1>2. Kept' /\ StoreTypeOK'
  BY <1>1 DEF Kept, TypeOK, StoreTypeOK
<1>3. Staged' /\ Unoccupied'
  BY <1>1, StagingEmpty DEF Staged, Unoccupied, Tasks
<1>4. TypeOK'
  <2>1. up' \in BOOLEAN /\ dedup' \in Tracker!Dedups
    BY <1>1, WatermarkForms, Zenon
  <2> QED
    BY <1>1, <1>2, <2>1 DEF TypeOK
<1> QED
  BY <1>1, <1>2, <1>3, <1>4

\* A change of the store keeps what was remembered, but for the key it is about.
LEMMA KeptBy ==
  ASSUME TypeOK, Kept, NEW k \in Keys, NEW v \in Values \cup {None}, NEW ok \in BOOLEAN,
         cache' = [cache EXCEPT ![k] = v], file' \in Written(ok, cache'),
         NEW keys, \A l \in keys : \/ l \in acked /\ (l # k \/ v # None)
                                   \/ l = k /\ ok /\ v # None,
         Acknowledge(keys)
  PROVE  Kept'
<1>1. /\ file' # Torn => file' = file \/ file' = cache'
      /\ ok /\ Persistent => file' = cache'
      /\ cache \in Maps
  BY Changed1 DEF TypeOK, StoreTypeOK
<1>2. acked' = IF file' = Torn THEN {} ELSE keys
  BY DEF Acknowledge
<1>3. ASSUME NEW l \in acked'
      PROVE  cache'[l] # None /\ (Persistent => file' # Torn /\ file'[l] # None)
  <2>1. file' # Torn /\ l \in keys
    BY <1>2, <1>3
  <2>2. cache'[l] # None
    BY <1>1, <2>1 DEF Kept, Maps
  <2>3. CASE Persistent
    BY <1>1, <2>1, <2>2, <2>3 DEF Kept
  <2> QED
    BY <2>1, <2>2, <2>3
<1> QED
  BY <1>3 DEF Kept

\* The steps that change the store.
Storing ==
  \/ PersistWatermark \/ PersistPrime
  \/ \E t \in Tasks : Remember(t)
  \/ \E k \in Keys : Forget(k)

LEMMA StoringStep ==
  ASSUME ReactInv, Storing
  PROVE  ReactInv' /\ Abstract!Next
<1> USE DEF ReactInv
<1>1. CASE PersistWatermark \/ PersistPrime
  <2> DEFINE w == Tracker!ToJson(dedup)
  <2>1. PICK ok \in BOOLEAN : Save(Watermark, w, ok) /\ Acknowledge(acked)
    BY <1>1 DEF PersistWatermark, PersistPrime, Persist
  <2>2. /\ todo["loop"] = << >> /\ "loop" \in Tasks /\ up
        /\ step' = [step EXCEPT !["loop"] = "idle"] /\ event' = [event EXCEPT !["loop"] = Idle]
        /\ UNCHANGED <<registry, starts, up, dedup, batch, todo, served>>
    BY <1>1 DEF PersistWatermark, PersistPrime, Persist, Return, Tasks, Unoccupied
  <2>3. w \in Values /\ w # None /\ Watermark \in Keys
    BY Values1, WatermarkForms, KeysAssumption DEF TypeOK
  <2> HIDE DEF w
  <2>4. StoreTypeOK' /\ Abstract!Next
    BY <2>1, <2>3, Changed1 DEF Save, TypeOK
  <2>5. Kept'
    <3>1. cache' = [cache EXCEPT ![Watermark] = w] /\ file' \in Written(ok, cache')
      BY <2>1 DEF Save
    <3>2. \A l \in acked : \/ l \in acked /\ (l # Watermark \/ w # None)
                           \/ l = Watermark /\ ok /\ w # None
      BY <2>3
    <3>3. TypeOK /\ Kept /\ Acknowledge(acked) /\ w \in Values \cup {None}
      BY <2>1, <2>3
    <3> HIDE DEF ReactInv
    <3> QED
      BY <2>1, <2>3, <3>1, <3>2, <3>3, KeptBy, Zenon
  <2>6. Staged' /\ Unoccupied'
    BY <2>2, StagingEmpty DEF Staged, Unoccupied
  <2>7. acked' \subseteq acked
    BY <2>1 DEF Acknowledge
  <2>8. TypeOK'
    BY <2>2, <2>4, <2>7 DEF TypeOK, Key, Staged
  <2> QED
    BY <2>4, <2>5, <2>6, <2>8
<1>2. ASSUME NEW t \in Tasks, Remember(t) PROVE ReactInv' /\ Abstract!Next
  <2>1. PICK ok \in BOOLEAN :
          /\ Save(Key(t), Remembered, ok)
          /\ Acknowledge(IF ok THEN acked \cup {Key(t)} ELSE acked)
    BY <1>2 DEF Remember
  <2>2. /\ step[t] = "remember"
        /\ step' = [step EXCEPT ![t] = "next"] /\ todo' = [todo EXCEPT ![t] = Tail(todo[t])]
        /\ UNCHANGED <<registry, starts, up, dedup, batch, event, served>> /\ up
    BY <1>2 DEF Remember, Done, Staged
  <2>3. Key(t) \in Keys /\ Remembered \in Values /\ Remembered # None
    BY <2>2, Values1 DEF TypeOK
  <2>4. StoreTypeOK' /\ Abstract!Next
    BY <2>1, <2>3, Changed1 DEF Save, TypeOK
  <2>5. Kept'
    <3> DEFINE keys == IF ok THEN acked \cup {Key(t)} ELSE acked
    <3>1. /\ cache' = [cache EXCEPT ![Key(t)] = Remembered]
          /\ file' \in Written(ok, cache')
      BY <2>1 DEF Save
    <3>2. \A l \in keys : \/ l \in acked /\ (l # Key(t) \/ Remembered # None)
                          \/ l = Key(t) /\ ok /\ Remembered # None
      BY <2>3
    <3>3. TypeOK /\ Kept /\ Acknowledge(keys) /\ Remembered \in Values \cup {None}
      BY <2>1, <2>3
    <3> HIDE DEF ReactInv, keys
    <3> QED
      BY <2>1, <2>3, <3>1, <3>2, <3>3, KeptBy, Zenon
  <2>6. Staging(Tail(todo[t]), event[t])
    BY <2>2, StagingTail DEF Staged
  <2>7. Staged' /\ Unoccupied'
    BY <2>2, <2>6 DEF Staged, Unoccupied
  <2>8. acked' \subseteq acked \cup {Key(t)}
    BY <2>1 DEF Acknowledge
  <2>9. TypeOK'
    BY <2>2, <2>3, <2>4, <2>8 DEF TypeOK, Key, Staged
  <2> QED
    BY <2>4, <2>5, <2>7, <2>9
<1>3. ASSUME NEW k \in Keys, Forget(k) PROVE ReactInv' /\ Abstract!Next
  <2>1. PICK ok \in BOOLEAN : Remove(k, ok) /\ Acknowledge(acked \ {k})
    BY <1>3 DEF Forget
  <2>2. UNCHANGED <<registry, starts, up, dedup, batch, event, todo, step, served>>
    BY <1>3 DEF Forget, memory
  <2>3. StoreTypeOK' /\ Abstract!Next
    BY <2>1, Changed1 DEF Remove, TypeOK
  <2>4. Kept'
    <3> DEFINE keys == acked \ {k}
    <3>1. /\ cache' = [cache EXCEPT ![k] = None]
          /\ file' \in Written(ok, cache')
      BY <2>1 DEF Remove
    <3>2. \A l \in keys : \/ l \in acked /\ (l # k \/ None # None)
                          \/ l = k /\ ok /\ None # None
      OBVIOUS
    <3>3. TypeOK /\ Kept /\ Acknowledge(keys) /\ None \in Values \cup {None}
      BY <2>1
    <3> HIDE DEF ReactInv, keys
    <3> QED
      BY <2>1, <3>1, <3>2, <3>3, KeptBy, Zenon
  <2>5. acked' \subseteq acked
    BY <2>1 DEF Acknowledge
  <2>6. TypeOK' /\ Staged' /\ Unoccupied'
    BY <2>2, <2>3, <2>5 DEF TypeOK, Key, Staged, Unoccupied
  <2> QED
    BY <2>3, <2>4, <2>6
<1> QED
  BY <1>1, <1>2, <1>3 DEF Storing

LEMMA NextSplit == Next => Start \/ Crash \/ Taking \/ Storing \/ \E t \in Tasks : Working(t)
<1>1. FinishNotif \/ FinishStream \/ FinishDm => \E t \in Tasks : Finish(t)
  BY Zenon DEF FinishNotif, FinishStream, FinishDm, Tasks
<1> QED
  BY <1>1, Zenon DEF Next, Taking, Storing, Working

LEMMA ReactNextInv ==
  ReactInv /\ [Next]_vars => ReactInv' /\ (Abstract!Next \/ UNCHANGED store)
<1> SUFFICES ASSUME ReactInv, [Next]_vars
             PROVE  ReactInv' /\ (Abstract!Next \/ UNCHANGED store)
  OBVIOUS
<1>1. CASE UNCHANGED vars
  BY <1>1 DEF vars, store, ReactInv, TypeOK, StoreTypeOK, Staged, Unoccupied, Kept, Key
<1>2. CASE Next
  BY <1>2, NextSplit, StartStep, CrashStep, TakingStep, StoringStep, WorkingStep
<1> QED
  BY <1>1, <1>2

\* The handlers' and the store's state is well-formed (handler.rs, store.rs).
THEOREM ReactionsTypeCorrect == Spec => []TypeOK
<1>1. ReactInv => TypeOK
  BY DEF ReactInv
<1>2. ReactInv /\ [Next]_vars => ReactInv'
  BY ReactNextInv
<1> QED
  BY <1>1, <1>2, ReactInitInv, PTL DEF Spec

(***************************************************************************)
(* However many tasks share it, whatever writes fail or tear the file, and *)
(* through any number of restarts, the store is a durable map (store.rs).  *)
(***************************************************************************)
THEOREM StoreIsDurable == Spec => DurableSpec
<1>1. Init => Abstract!Init
  BY TornAssumption DEF Init, StoreInit, Abstract!Init, Abstract!Empty, EmptyMap, Parsed
<1>2. ReactInv /\ [Next]_vars => ReactInv'
  BY ReactNextInv
<1>3. ReactInv /\ [Next]_vars => [Abstract!Next]_(Abstract!vars)
  <2> SUFFICES ASSUME ReactInv, [Next]_vars
               PROVE  Abstract!Next \/ UNCHANGED Abstract!vars
    OBVIOUS
  <2>1. UNCHANGED store => UNCHANGED Abstract!vars
    BY DEF store, Abstract!vars, Parsed
  <2> QED
    BY <2>1, ReactNextInv
<1> QED
  BY <1>1, <1>2, <1>3, ReactInitInv, PTL DEF Spec, DurableSpec, Abstract!Spec

(***************************************************************************)
(* A handler that asks is_remembered and remembers does not act twice for  *)
(* an event once remember has answered Ok, not even after restarts, unless *)
(* the key is forgotten or the file torn (remember, context.rs).           *)
(***************************************************************************)
THEOREM RemembersForGood == Spec => RememberedNotRedone
<1>1. ReactInv /\ [Next]_vars
        => [\A t \in Tasks : step[t] # "act" /\ step'[t] = "act" =>
              <<Head(todo[t]).is, event[t].uri>> \notin acked]_vars
  <2> SUFFICES ASSUME ReactInv, Next, NEW t \in Tasks, step[t] # "act", step'[t] = "act"
               PROVE  Key(t) \notin acked
    BY DEF Key
  <2>1. Check(t)
    BY NextSplit
    DEF Taking, Storing, Working, Start, Crash, ColdMemory, PrimeFetched, PrimeFailed, Poll, Persist,
        PersistWatermark, PersistPrime, Return, DispatchNotif, DispatchStream, DispatchDm,
        Dispatching, Filter, Check, Act, Remember, RunAfter, Finish, Forget, memory, ReactInv, Staged
  <2>2. cache[Key(t)] = None
    BY <2>1 DEF Check, Load, ReactInv, Staged
  <2> QED
    BY <2>2 DEF ReactInv, Kept
<1>2. ReactInv /\ [Next]_vars => ReactInv'
  BY ReactNextInv
<1> QED
  BY <1>1, <1>2, ReactInitInv, PTL DEF Spec, RememberedNotRedone

----------------------------------------------------------------------------
(***************************************************************************)
(* Coverage.  The stages of a notification are its filters and then its    *)
(* handlers and hooks; a dispatch under way has run all of them but the    *)
(* ones left, unless a filter dropped it.  What the watermark in memory    *)
(* covers was passed over or handled, or is in the batch, or is being      *)
(* dispatched; what a saved one covers was passed over or handled.         *)
(***************************************************************************)
Stage == [kind : {"before", "handler", "after"}, is : Handlers \cup SUBSET Notifs]

LEMMA StagesSeq ==
  ASSUME NEW kind \in {"before", "handler", "after"},
         NEW s \in Seq(Handlers \cup SUBSET Notifs)
  PROVE  /\ Stages(kind, s) \in Seq(Stage) /\ Len(Stages(kind, s)) = Len(s)
         /\ \A i \in 1..Len(s) : Stages(kind, s)[i] = [kind |-> kind, is |-> s[i]]
         /\ \A i \in 1..Len(Stages(kind, s)) : Stages(kind, s)[i].kind = kind
<1>1. Len(s) \in Nat /\ DOMAIN s = 1..Len(s) /\ \A i \in 1..Len(s) : s[i] \in Handlers \cup SUBSET Notifs
  BY ElementOfSeq, LenProperties
<1>2. Stages(kind, s) = [i \in 1..Len(s) |-> [kind |-> kind, is |-> s[i]]]
  BY <1>1 DEF Stages
<1>3. \A i \in 1..Len(s) : [kind |-> kind, is |-> s[i]] \in Stage
  BY <1>1 DEF Stage
<1>4. Stages(kind, s) \in [1..Len(s) -> Stage]
  BY <1>2, <1>3
<1>5. Stages(kind, s) \in Seq(Stage)
  BY <1>1, <1>4, SeqDef
<1> QED
  BY <1>1, <1>2, <1>4, <1>5, LenProperties

LEMMA SelectedSeq ==
  ASSUME NEW r \in Registries, NEW n \in Notifs
  PROVE  Selected(r, n) \in Seq(Handlers)
<1>1. /\ r.byReason[n.reason] \in Seq(Handlers) /\ r.any \in Seq(Handlers)
      /\ r.router.fallback \in Seq(Handlers)
      /\ \A w \in DOMAIN r.router.commands : r.router.commands[w] \in Handlers
  BY RegistriesAssumption, NotifsAssumption DEF WellFormed
<1>2. << >> \in Seq(Handlers)
  BY EmptySeq, Zenon
<1>3. Route(r.router, n.text, TRUE) \in Seq(Handlers)
  <2> DEFINE command == ParseCommand(n.text, r.router.prefixed, TRUE)
  <2>1. \/ Route(r.router, n.text, TRUE) = << >>
        \/ /\ Head(command) \in DOMAIN r.router.commands
           /\ Route(r.router, n.text, TRUE) = <<r.router.commands[Head(command)]>>
        \/ Route(r.router, n.text, TRUE) = r.router.fallback
    BY DEF Route
  <2>2. \A h \in Handlers : <<h>> \in Seq(Handlers)
    OBVIOUS
  <2> QED
    BY <1>1, <1>2, <2>1, <2>2
<1> QED
  BY <1>1, <1>2, <1>3, ConcatProperties DEF Selected

\* How many filters come first.
Filters(r) == Len(r.before)

LEMMA StagesInOrder ==
  ASSUME NEW r \in Registries, NEW n \in Notifs
  PROVE  /\ Filters(r) \in Nat /\ NotifStages(r, n) \in Seq(Stage)
         /\ Filters(r) <= Len(NotifStages(r, n))
         /\ \A i \in 1..Len(NotifStages(r, n)) :
              NotifStages(r, n)[i].kind = "before" <=> i <= Filters(r)
         /\ \A i \in 1..Filters(r) : NotifStages(r, n)[i].is = r.before[i]
         /\ Admitted(r, n) <=> \A i \in 1..Filters(r) : n \in r.before[i]
<1> DEFINE b == Stages("before", r.before)
           h == Stages("handler", Selected(r, n))
           a == Stages("after", r.after)
<1>1. /\ r.before \in Seq(Handlers \cup SUBSET Notifs)
      /\ Selected(r, n) \in Seq(Handlers \cup SUBSET Notifs)
      /\ r.after \in Seq(Handlers \cup SUBSET Notifs)
  <2>1. \A S, T : S \subseteq T => Seq(S) \subseteq Seq(T)
    <3> SUFFICES ASSUME NEW S, NEW T, S \subseteq T, NEW q \in Seq(S) PROVE q \in Seq(T)
      OBVIOUS
    <3>1. Len(q) \in Nat /\ q \in [1..Len(q) -> S]
      BY LenProperties
    <3>2. q \in [1..Len(q) -> T]
      BY <3>1
    <3> QED
      BY <3>1, <3>2, SeqDef
  <2>2. /\ Seq(Handlers) \subseteq Seq(Handlers \cup SUBSET Notifs)
        /\ Seq(SUBSET Notifs) \subseteq Seq(Handlers \cup SUBSET Notifs)
    BY <2>1, Zenon
  <2> QED
    BY <2>2, SelectedSeq, RegistriesAssumption, Zenon DEF WellFormed
<1>2. /\ b \in Seq(Stage) /\ Len(b) = Filters(r)
      /\ \A i \in 1..Filters(r) : b[i] = [kind |-> "before", is |-> r.before[i]]
  BY <1>1, StagesSeq DEF Filters
<1>3. h \in Seq(Stage) /\ \A i \in 1..Len(h) : h[i].kind = "handler"
  BY <1>1, StagesSeq
<1>4. a \in Seq(Stage) /\ \A i \in 1..Len(a) : a[i].kind = "after"
  BY <1>1, StagesSeq
<1>5. NotifStages(r, n) = (b \o h) \o a
  BY DEF NotifStages
<1>6. Filters(r) \in Nat /\ DOMAIN r.before = 1..Filters(r)
  BY <1>1, LenProperties DEF Filters
<1>7. /\ b \o h \in Seq(Stage) /\ Len(b \o h) = Len(b) + Len(h)
      /\ \A i \in 1..Len(b \o h) : (b \o h)[i] = IF i <= Len(b) THEN b[i] ELSE h[i - Len(b)]
  BY <1>2, <1>3, ConcatProperties
<1>8. /\ (b \o h) \o a \in Seq(Stage) /\ Len((b \o h) \o a) = Len(b \o h) + Len(a)
      /\ \A i \in 1..Len((b \o h) \o a) :
           ((b \o h) \o a)[i] = IF i <= Len(b \o h) THEN (b \o h)[i] ELSE a[i - Len(b \o h)]
  BY <1>4, <1>7, ConcatProperties
<1>9. Len(h) \in Nat /\ Len(a) \in Nat
  BY <1>3, <1>4, LenProperties
<1> HIDE DEF b, h, a
<1>10. \A i \in 1..Len(NotifStages(r, n)) :
         /\ i <= Filters(r) => NotifStages(r, n)[i] = b[i]
         /\ i > Filters(r) /\ i <= Len(b \o h) =>
              NotifStages(r, n)[i] = h[i - Filters(r)] /\ i - Filters(r) \in 1..Len(h)
         /\ i > Len(b \o h) =>
              NotifStages(r, n)[i] = a[i - Len(b \o h)] /\ i - Len(b \o h) \in 1..Len(a)
  BY <1>2, <1>5, <1>6, <1>7, <1>8, <1>9
<1>11. \A i \in 1..Len(NotifStages(r, n)) :
         NotifStages(r, n)[i].kind = "before" <=> i <= Filters(r)
  <2> SUFFICES ASSUME NEW i \in 1..Len(NotifStages(r, n))
               PROVE  NotifStages(r, n)[i].kind = "before" <=> i <= Filters(r)
    OBVIOUS
  <2>1. CASE i <= Filters(r)
    BY <1>2, <1>6, <1>10, <2>1
  <2>2. CASE i > Filters(r) /\ i <= Len(b \o h)
    <3>1. NotifStages(r, n)[i].kind = "handler"
      BY <1>3, <1>10, <2>2
    <3> QED
      BY <1>6, <2>2, <3>1
  <2>3. CASE i > Len(b \o h)
    <3>1. NotifStages(r, n)[i].kind = "after" /\ i > Filters(r)
      BY <1>2, <1>4, <1>6, <1>7, <1>9, <1>10, <2>3
    <3> QED
      BY <1>6, <3>1
  <2> QED
    BY <1>2, <1>6, <1>7, <1>9, <2>1, <2>2, <2>3
<1>12. Filters(r) <= Len(NotifStages(r, n))
  BY <1>2, <1>5, <1>6, <1>7, <1>8, <1>9
<1>13. \A i \in 1..Filters(r) : NotifStages(r, n)[i].is = r.before[i]
  BY <1>2, <1>6, <1>10, <1>12
<1> QED
  BY <1>5, <1>6, <1>8, <1>11, <1>12, <1>13 DEF Admitted

\* Whether the stage s of n has let it pass, or has run, given all done so far.
Through(done, n, s) == IF s.kind = "before" THEN n \in s.is ELSE <<s.is, n.uri>> \in done

HandledBy(r, done, n) ==
  Admitted(r, n) =>
    \A j \in 1..Len(NotifStages(r, n)) : Through(done, n, NotifStages(r, n)[j])

\* The stages left are the last ones, and n is through those before them.
Suffix(r, done, n, left) ==
  LET all == NotifStages(r, n)
  IN  /\ Len(left) <= Len(all)
      /\ \A i \in 1..Len(left) : left[i] = all[Len(all) - Len(left) + i]
      /\ \A j \in 1..Len(all) - Len(left) : Through(done, n, all[j])

\* The dispatch of n, with some stages left.
Underway(r, done, n, left) ==
  \/ ~Admitted(r, n) /\ left = << >>
  \/ Suffix(r, done, n, left)

LEMMA UnderwayAll ==
  ASSUME NEW r \in Registries, NEW n \in Notifs, NEW done
  PROVE  Underway(r, done, n, NotifStages(r, n))
<1>1. Len(NotifStages(r, n)) \in Nat
  BY StagesInOrder, LenProperties
<1> QED
  BY <1>1 DEF Underway, Suffix

LEMMA UnderwayEnd ==
  ASSUME NEW r \in Registries, NEW n \in Notifs, NEW done,
         Underway(r, done, n, << >>)
  PROVE  HandledBy(r, done, n)
<1>1. Len(NotifStages(r, n)) \in Nat
  BY StagesInOrder, LenProperties
<1>2. Len(<< >>) = 0
  OBVIOUS
<1> QED
  BY <1>1, <1>2 DEF Underway, Suffix, HandledBy

LEMMA UnderwayOn ==
  ASSUME NEW r \in Registries, NEW n \in Notifs, NEW done, NEW left \in Seq(AllStages),
         Underway(r, done, n, left), left # << >>,
         NEW more, done \subseteq more, Through(more, n, Head(left))
  PROVE  Underway(r, more, n, Tail(left))
<1> DEFINE all == NotifStages(r, n)
<1>1. Len(all) \in Nat
  BY StagesInOrder, LenProperties
<1>2. /\ Len(left) \in Nat \ {0} /\ Head(left) = left[1]
      /\ Len(Tail(left)) = Len(left) - 1
      /\ \A i \in 1..Len(Tail(left)) : Tail(left)[i] = left[i + 1]
  BY EmptySeq, HeadTailProperties
<1>3. Suffix(r, done, n, left)
  BY DEF Underway
<1>4. \A s : Through(done, n, s) => Through(more, n, s)
  BY DEF Through
<1> HIDE DEF all
<1>5. Len(left) <= Len(all) /\ left[1] = all[Len(all) - Len(left) + 1]
  BY <1>2, <1>3 DEF Suffix, all
<1>6. \A j \in 1..Len(all) - Len(left) : Through(more, n, all[j])
  BY <1>3, <1>4 DEF Suffix, all
<1>7. \A j \in 1..Len(all) - Len(Tail(left)) : Through(more, n, all[j])
  BY <1>1, <1>2, <1>5, <1>6
<1>8. \A i \in 1..Len(left) : left[i] = all[Len(all) - Len(left) + i]
  BY <1>3 DEF Suffix, all
<1>9. \A i \in 1..Len(Tail(left)) : Tail(left)[i] = all[Len(all) - Len(Tail(left)) + i]
  BY <1>1, <1>2, <1>8
<1>10. Suffix(r, more, n, Tail(left))
  BY <1>1, <1>2, <1>5, <1>7, <1>9 DEF Suffix, all
<1> QED
  BY <1>10 DEF Underway

\* Past the filters a notification is admitted; one that a filter skips is not.
LEMMA UnderwayFilters ==
  ASSUME NEW r \in Registries, NEW n \in Notifs, NEW done, NEW left \in Seq(AllStages),
         Underway(r, done, n, left), left # << >>
  PROVE  /\ Head(left).kind # "before" => Admitted(r, n)
         /\ Head(left).kind = "before" /\ n \notin Head(left).is => ~Admitted(r, n)
<1> DEFINE all == NotifStages(r, n)
           k == Len(all) - Len(left) + 1
<1>1. /\ Len(left) \in Nat \ {0} /\ Head(left) = left[1] /\ Len(all) \in Nat
  BY EmptySeq, HeadTailProperties, StagesInOrder, LenProperties
<1>2. Suffix(r, done, n, left)
  BY DEF Underway
<1>3. /\ k \in 1..Len(all) /\ Head(left) = all[k]
      /\ \A j \in 1..k - 1 : Through(done, n, all[j])
  BY <1>1, <1>2 DEF Suffix
<1> HIDE DEF all, k
<1>4. /\ Filters(r) \in Nat /\ Filters(r) <= Len(all)
      /\ \A i \in 1..Len(all) : all[i].kind = "before" <=> i <= Filters(r)
      /\ \A i \in 1..Filters(r) : all[i].is = r.before[i]
      /\ Admitted(r, n) <=> \A i \in 1..Filters(r) : n \in r.before[i]
  BY StagesInOrder DEF all
<1>5. CASE Head(left).kind # "before"
  <2>1. k > Filters(r)
    BY <1>1, <1>3, <1>4, <1>5
  <2>2. ASSUME NEW i \in 1..Filters(r) PROVE n \in r.before[i]
    <3>1. Through(done, n, all[i]) /\ all[i].kind = "before" /\ all[i].is = r.before[i]
      BY <1>1, <1>3, <1>4, <2>1
    <3> QED
      BY <3>1 DEF Through
  <2> QED
    BY <1>4, <1>5, <2>2
<1>6. CASE Head(left).kind = "before"
  BY <1>1, <1>3, <1>4, <1>6
<1> QED
  BY <1>5, <1>6

----------------------------------------------------------------------------
Busy == step["loop"] \in {"next", "act", "remember"}

Dispatched ==
  Busy => /\ event["loop"] \in Notifs
          /\ Underway(registry, finished, event["loop"], todo["loop"])

Handled(n) == HandledBy(registry, finished, n)

Settled(n) == n \in passed \/ Handled(n)

\* Nothing was run for a notification that a filter skips.
Untouched ==
  \A k \in finished : \A n \in Notifs : k[2] = n.uri => Admitted(registry, n)

InMemory ==
  \A n \in Covered(dedup) : Settled(n) \/ n \in batch \/ (Busy /\ event["loop"] = n)

\* What the saved value w covers.
CoveredBy(w) == IF w \in Tracker!SavedForms THEN Covered(Tracker!FromJson(w)) ELSE {}

InStore ==
  /\ \A n \in CoveredBy(cache[Watermark]) : Settled(n)
  /\ file # Torn => \A n \in CoveredBy(file[Watermark]) : Settled(n)

Coverage == Dispatched /\ Untouched /\ InMemory /\ InStore

LEMMA NothingCovered == CoveredBy(None) = {} /\ CoveredBy(Remembered) = {}
BY Values1, ValuesAssumption DEF CoveredBy

LEMMA CoverageInit == Init => Coverage
<1> SUFFICES ASSUME Init PROVE Coverage
  OBVIOUS
<1>1. /\ step["loop"] = "idle" /\ finished = {} /\ dedup = Tracker!EmptyDedup
      /\ cache[Watermark] = None /\ file[Watermark] = None
  BY KeysAssumption DEF Init, StoreInit, EmptyMap, Tasks
<1>2. Dispatched /\ Untouched
  BY <1>1 DEF Dispatched, Busy, Untouched
<1>3. InMemory /\ InStore
  BY <1>1, WatermarkForms, NothingCovered DEF InMemory, InStore
<1> QED
  BY <1>2, <1>3 DEF Coverage

LEMMA HandledGrows ==
  ASSUME NEW r, NEW n, NEW done, NEW more, done \subseteq more, HandledBy(r, done, n)
  PROVE  HandledBy(r, more, n)
BY DEF HandledBy, Through

LEMMA SettledGrows ==
  ASSUME registry' = registry, passed \subseteq passed', finished \subseteq finished'
  PROVE  \A n : Settled(n) => Settled(n)'
BY HandledGrows DEF Settled, Handled

\* Steps of which neither the loop nor its watermark takes notice.
LEMMA Unnoticed ==
  ASSUME Coverage,
         UNCHANGED <<registry, dedup, batch, passed, finished>>,
         event'["loop"] = event["loop"], todo'["loop"] = todo["loop"],
         step'["loop"] = step["loop"], InStore'
  PROVE  Coverage'
<1>1. Dispatched' /\ Untouched'
  BY DEF Coverage, Dispatched, Busy, Untouched
<1>2. InMemory'
  BY DEF Coverage, InMemory, Busy, Settled, Handled
<1> QED
  BY <1>1, <1>2 DEF Coverage

LEMMA StoreUnnoticed ==
  ASSUME Coverage, UNCHANGED <<cache, file, registry>>,
         passed \subseteq passed', finished \subseteq finished'
  PROVE  InStore'
<1>1. \A n : Settled(n) => Settled(n)'
  BY SettledGrows, Zenon
<1> QED
  BY <1>1 DEF Coverage, InStore

\* A change of the store that saves a watermark only of what is settled.
LEMMA StoreCovered ==
  ASSUME ReactInv, InStore, NEW k \in Keys, NEW v \in Values \cup {None}, NEW ok \in BOOLEAN,
         cache' = [cache EXCEPT ![k] = v], file' \in Written(ok, cache'),
         \A n \in CoveredBy(v) : Settled(n),
         registry' = registry, passed' = passed, finished \subseteq finished'
  PROVE  InStore'
<1>1. file' # Torn => file' = file \/ file' = cache'
  BY Changed1 DEF ReactInv, TypeOK
<1>2. \A n : Settled(n) => Settled(n)'
  BY SettledGrows, Zenon
<1>3. cache'[Watermark] \in {cache[Watermark], v}
  BY KeysAssumption DEF ReactInv, TypeOK, StoreTypeOK, Maps
<1>4. \A n \in CoveredBy(cache'[Watermark]) : Settled(n)
  BY <1>3 DEF InStore
<1>5. file' # Torn => \A n \in CoveredBy(file'[Watermark]) : Settled(n)
  BY <1>1, <1>4 DEF InStore
<1> QED
  BY <1>2, <1>4, <1>5 DEF InStore

\* The loop's own steps within a dispatch.
LEMMA LoopWorks ==
  ASSUME ReactInv, Coverage, Working("loop")
  PROVE  Coverage'
<1> DEFINE n == event["loop"]
           left == todo["loop"]
<1> USE DEF ReactInv, Coverage
<1>1. /\ registry \in Registries /\ "loop" \in Tasks
      /\ left \in Seq(AllStages) /\ DOMAIN todo = Tasks /\ DOMAIN step = Tasks
      /\ DOMAIN event = Tasks
  BY DEF TypeOK, Tasks, Staged, Staging
<1>2. /\ UNCHANGED <<cache, file, registry, dedup, batch, passed>>
      /\ Busy
  BY <1>1 DEF Working, Filter, Check, Act, RunAfter, Finish, AtStage, store, Busy
<1>3. n \in Notifs /\ Underway(registry, finished, n, left)
  BY <1>2 DEF Dispatched
<1>4. CASE Finish("loop")
  <2>1. left = << >> /\ step'["loop"] = "idle" /\ finished' = finished
    BY <1>1, <1>4 DEF Finish, Return
  <2>2. Handled(n) /\ ~Busy'
    BY <1>1, <1>3, <2>1, UnderwayEnd DEF Handled, Busy
  <2>3. Dispatched' /\ Untouched'
    BY <1>2, <2>1, <2>2 DEF Dispatched, Untouched
  <2>4. InMemory'
    BY <1>2, <2>1, <2>2 DEF InMemory, Settled, Handled
  <2> QED
    BY <1>2, <2>1, <2>3, <2>4, StoreUnnoticed
<1>5. CASE ~Finish("loop")
  <2>1. /\ left # << >> /\ event' = event /\ Busy'
        /\ \/ finished' = finished
           \/ finished' = finished \cup {<<Head(left).is, n.uri>>} /\ Head(left).kind # "before"
    BY <1>1, <1>5 DEF Working, Filter, Check, Act, RunAfter, AtStage, Done, Staged, Busy, Key
  <2>2. finished' = finished \/ Admitted(registry, n)
    BY <1>1, <1>3, <2>1, UnderwayFilters
  <2>3. Untouched'
    <3>1. \A k \in finished' : k \in finished \/ (k[2] = n.uri /\ Admitted(registry, n))
      BY <2>1, <2>2
    <3>2. \A m \in Notifs : m.uri = n.uri => m = n
      BY <1>3, NotifsAssumption
    <3> QED
      BY <1>2, <3>1, <3>2 DEF Untouched
  <2>4. \A m : Settled(m) => Settled(m)'
    BY <1>2, <2>1, SettledGrows
  <2>5. InMemory'
    BY <1>2, <2>1, <2>4 DEF InMemory
  <2>6. InStore'
    BY <1>2, <2>1, StoreUnnoticed
  <2>7. Underway(registry, finished', n, todo'["loop"])
    <3>1. CASE Filter("loop")
      <4>1. /\ Head(left).kind = "before" /\ finished' = finished
            /\ todo'["loop"] = IF n \in Head(left).is THEN Tail(left) ELSE << >>
        BY <1>1, <3>1 DEF Filter, AtStage
      <4>2. CASE n \in Head(left).is
        <5>1. Through(finished, n, Head(left))
          BY <4>1, <4>2 DEF Through
        <5> QED
          BY <1>1, <1>3, <2>1, <4>1, <4>2, <5>1, UnderwayOn
      <4>3. CASE n \notin Head(left).is
        BY <1>1, <1>3, <2>1, <4>1, <4>3, UnderwayFilters DEF Underway
      <4> QED
        BY <4>2, <4>3
    <3>2. CASE Check("loop") \/ RunAfter("loop") \/ Act("loop")
      <4>1. \/ todo' = todo /\ finished' = finished
            \/ /\ Head(left).kind # "before" /\ todo'["loop"] = Tail(left)
               /\ finished' = finished \cup {<<Head(left).is, n.uri>>}
        BY <1>1, <3>2 DEF Check, RunAfter, Act, AtStage, Done, Key, Staged
      <4>2. CASE todo' = todo /\ finished' = finished
        BY <1>3, <4>2
      <4>3. CASE todo' # todo \/ finished' # finished
        <5>1. Through(finished', n, Head(left)) /\ finished \subseteq finished'
          BY <4>1, <4>3 DEF Through
        <5> QED
          BY <1>1, <1>3, <2>1, <4>1, <4>3, <5>1, UnderwayOn
      <4> QED
        BY <4>2, <4>3
    <3> QED
      BY <1>5, <3>1, <3>2 DEF Working
  <2>8. Dispatched'
    BY <1>2, <1>3, <2>1, <2>7 DEF Dispatched
  <2> QED
    BY <2>3, <2>5, <2>6, <2>8
<1> QED
  BY <1>4, <1>5

LEMMA OthersWork ==
  ASSUME ReactInv, Coverage, NEW t \in Tasks \ {"loop"}, Working(t)
  PROVE  Coverage'
<1>1. /\ UNCHANGED <<cache, file, registry, dedup, batch, passed, finished>>
      /\ event'["loop"] = event["loop"] /\ todo'["loop"] = todo["loop"]
      /\ step'["loop"] = step["loop"]
  BY DEF ReactInv, Staged, Tasks, Working, Filter, Check, Act, RunAfter, Finish, Return, AtStage,
         Done, store
<1> QED
  BY <1>1, StoreUnnoticed, Unnoticed

\* A watermark moved past S, of which fresh goes to the batch.
LEMMA Moved ==
  ASSUME InMemory, NEW S, NEW fresh, Cover(S, fresh), batch = {}, ~Busy,
         UNCHANGED <<registry, finished>>, fresh \subseteq batch'
  PROVE  InMemory' /\ passed \subseteq passed'
<1>1. passed' = passed \cup (Covered(dedup') \ (Covered(dedup) \cup fresh))
  BY DEF Cover
<1>2. \A n : Settled(n) => Settled(n)'
  BY <1>1, SettledGrows
<1>3. \A n \in Covered(dedup) : Settled(n)
  BY DEF InMemory
<1>4. \A n \in Covered(dedup') : n \in Covered(dedup) \/ n \in batch' \/ n \in passed'
  BY <1>1
<1>5. \A n \in passed' : Settled(n)'
  BY DEF Settled
<1>6. \A n \in Covered(dedup') : Settled(n)' \/ n \in batch'
  BY <1>2, <1>3, <1>4, <1>5, Zenon
<1> QED
  BY <1>1, <1>6 DEF InMemory

LEMMA CoverageTaking ==
  ASSUME ReactInv, Coverage, Taking
  PROVE  Coverage'
<1> USE DEF ReactInv, Coverage
<1>1. /\ UNCHANGED <<cache, file, registry, finished>> /\ registry \in Registries
      /\ DOMAIN todo = Tasks /\ DOMAIN step = Tasks /\ DOMAIN event = Tasks
  BY DEF Taking, PrimeFetched, PrimeFailed, Poll, DispatchNotif, DispatchStream, DispatchDm,
         store, TypeOK, Staged
<1>2. CASE PrimeFetched \/ Poll
  <2>1. /\ ~Busy /\ ~Busy' /\ batch = {}
        /\ \E S, fresh : Cover(S, fresh) /\ fresh \subseteq batch'
    <3>1. CASE PrimeFetched
      BY <1>1, <3>1 DEF PrimeFetched, Busy, Unoccupied, Tasks
    <3>2. CASE Poll
      BY <1>1, <3>2 DEF Poll, Busy
    <3> QED
      BY <1>2, <3>1, <3>2
  <2>2. InMemory' /\ passed \subseteq passed'
    BY <1>1, <2>1, Moved
  <2>3. InStore'
    BY <1>1, <2>2, StoreUnnoticed
  <2>4. Dispatched' /\ Untouched'
    BY <1>1, <2>1 DEF Dispatched, Untouched
  <2> QED
    BY <2>2, <2>3, <2>4
<1>3. CASE ~PrimeFetched /\ ~Poll
  <2>1. passed' = passed /\ dedup' = dedup
    BY <1>3 DEF Taking, PrimeFailed, DispatchNotif, DispatchStream, DispatchDm
  <2>2. InStore'
    BY <1>1, <2>1, StoreUnnoticed
  <2>3. CASE PrimeFailed
    <3>1. ~Busy /\ ~Busy' /\ batch' = batch
      BY <1>1, <2>3 DEF PrimeFailed, Busy, Tasks
    <3>2. Dispatched' /\ Untouched'
      BY <1>1, <3>1 DEF Dispatched, Untouched
    <3>3. InMemory'
      BY <1>1, <2>1, <3>1 DEF InMemory, Settled, Handled
    <3> QED
      BY <2>2, <3>2, <3>3
  <2>4. ASSUME NEW n \in Notifs, DispatchNotif(n) PROVE Coverage'
    <3>1. /\ ~Busy /\ batch' = batch \ {n}
          /\ event'["loop"] = n /\ todo'["loop"] = NotifStages(registry, n)
          /\ step'["loop"] = "next"
      BY <1>1, <2>4 DEF DispatchNotif, Dispatching, Tasks, Busy
    <3>2. Underway(registry, finished, n, NotifStages(registry, n))
      BY <1>1, UnderwayAll
    <3>3. Dispatched' /\ Untouched'
      BY <1>1, <3>1, <3>2 DEF Dispatched, Untouched
    <3>4. InMemory'
      BY <1>1, <2>1, <3>1 DEF InMemory, Settled, Handled, Busy
    <3> QED
      BY <2>2, <3>3, <3>4
  <2>5. ASSUME NEW e \in StreamEvents, DispatchStream(e) PROVE Coverage'
    <3>1. /\ batch' = batch /\ event'["loop"] = event["loop"]
          /\ todo'["loop"] = todo["loop"] /\ step'["loop"] = step["loop"]
      BY <1>1, <2>5 DEF DispatchStream, Dispatching, Tasks
    <3> QED
      BY <1>1, <2>1, <2>2, <3>1, Unnoticed
  <2>6. ASSUME NEW m \in Dms, DispatchDm(m) PROVE Coverage'
    <3>1. /\ batch' = batch /\ event'["loop"] = event["loop"]
          /\ todo'["loop"] = todo["loop"] /\ step'["loop"] = step["loop"]
      BY <1>1, <2>6 DEF DispatchDm, Dispatching, Tasks
    <3> QED
      BY <1>1, <2>1, <2>2, <3>1, Unnoticed
  <2> QED
    BY <1>3, <2>3, <2>4, <2>5, <2>6 DEF Taking
<1> QED
  BY <1>2, <1>3

LEMMA CoverageStoring ==
  ASSUME ReactInv, Coverage, Storing
  PROVE  Coverage'
<1> USE DEF ReactInv, Coverage
<1>1. /\ DOMAIN todo = Tasks /\ DOMAIN step = Tasks /\ DOMAIN event = Tasks
      /\ "loop" \in Tasks /\ registry \in Registries
  BY DEF Staged, Tasks, TypeOK
<1>2. CASE PersistWatermark \/ PersistPrime
  <2> DEFINE w == Tracker!ToJson(dedup)
  <2>1. /\ step'["loop"] = "idle"
        /\ UNCHANGED <<registry, dedup, batch, passed, finished>>
    BY <1>1, <1>2 DEF PersistWatermark, PersistPrime, Persist, Return
  <2>2. PICK ok \in BOOLEAN : Save(Watermark, w, ok)
    BY <1>2 DEF PersistWatermark, PersistPrime, Persist
  <2>3. batch = {} /\ (Busy => Handled(event["loop"]))
    <3>1. CASE PersistWatermark
      BY <1>1, <3>1, UnderwayEnd DEF PersistWatermark, Dispatched, Handled
    <3>2. CASE PersistPrime
      BY <3>2 DEF PersistPrime, Unoccupied, Busy
    <3> QED
      BY <1>2, <3>1, <3>2
  <2>4. \A n \in Covered(dedup) : Settled(n)
    BY <2>3 DEF InMemory, Settled
  <2>5. Watermark \in Keys /\ w \in Values /\ CoveredBy(w) = Covered(dedup)
    BY KeysAssumption, Values1, WatermarkForms DEF TypeOK, CoveredBy
  <2>6. cache' = [cache EXCEPT ![Watermark] = w] /\ file' \in Written(ok, cache')
    BY <2>2 DEF Save
  <2> HIDE DEF w
  <2>7. InStore'
    BY <2>1, <2>4, <2>5, <2>6, StoreCovered
  <2>8. Dispatched' /\ Untouched'
    BY <2>1 DEF Dispatched, Untouched, Busy
  <2>9. InMemory'
    BY <2>1, <2>4 DEF InMemory, Settled, Handled
  <2> QED
    BY <2>7, <2>8, <2>9
<1>3. ASSUME NEW t \in Tasks, Remember(t) PROVE Coverage'
  <2>1. /\ UNCHANGED <<registry, dedup, batch, event, passed>>
        /\ step[t] = "remember"
        /\ step' = [step EXCEPT ![t] = "next"] /\ todo' = [todo EXCEPT ![t] = Tail(todo[t])]
        /\ finished' = IF t = "loop" THEN finished \cup {Key(t)} ELSE finished
    BY <1>1, <1>3 DEF Remember, Done
  <2>2. PICK ok \in BOOLEAN : Save(Key(t), Remembered, ok)
    BY <1>3 DEF Remember
  <2>3. Key(t) \in Keys /\ Remembered \in Values
    BY <2>1, Values1 DEF TypeOK
  <2>4. cache' = [cache EXCEPT ![Key(t)] = Remembered] /\ file' \in Written(ok, cache')
    BY <2>2 DEF Save
  <2>5. \A n \in CoveredBy(Remembered) : Settled(n)
    BY NothingCovered
  <2>6. InStore'
    BY <2>1, <2>3, <2>4, <2>5, StoreCovered
  <2>7. CASE t = "loop"
    <3> DEFINE n == event["loop"]
               left == todo["loop"]
    <3>1. /\ Busy /\ Busy' /\ n \in Notifs /\ Underway(registry, finished, n, left)
          /\ left \in Seq(AllStages) /\ left # << >> /\ Head(left).kind = "handler"
          /\ finished' = finished \cup {<<Head(left).is, n.uri>>}
          /\ todo'["loop"] = Tail(left)
      BY <1>1, <2>1, <2>7 DEF Dispatched, Staged, Staging, Busy, Key
    <3>2. Through(finished', n, Head(left)) /\ finished \subseteq finished'
      BY <3>1 DEF Through
    <3>3. Underway(registry, finished', n, Tail(left))
      BY <1>1, <3>1, <3>2, UnderwayOn
    <3>4. Admitted(registry, n)
      BY <1>1, <3>1, UnderwayFilters
    <3>5. Untouched'
      <4>1. \A m \in Notifs : m.uri = n.uri => m = n
        BY <3>1, NotifsAssumption
      <4> QED
        BY <2>1, <3>1, <3>4, <4>1 DEF Untouched
    <3>6. Dispatched'
      BY <2>1, <3>1, <3>3 DEF Dispatched
    <3>7. \A m : Settled(m) => Settled(m)'
      BY <2>1, <3>2, SettledGrows
    <3>8. InMemory'
      BY <2>1, <3>1, <3>7 DEF InMemory
    <3> QED
      BY <2>6, <3>5, <3>6, <3>8
  <2>8. CASE t # "loop"
    BY <1>1, <2>1, <2>6, <2>8, Unnoticed
  <2> QED
    BY <2>7, <2>8
<1>4. ASSUME NEW k \in Keys, Forget(k) PROVE Coverage'
  <2>1. UNCHANGED <<registry, dedup, batch, event, todo, step, passed, finished>> /\ k # Watermark
    BY <1>4 DEF Forget, memory
  <2>2. PICK ok \in BOOLEAN : Remove(k, ok)
    BY <1>4 DEF Forget
  <2>3. cache' = [cache EXCEPT ![k] = None] /\ file' \in Written(ok, cache')
    BY <2>2 DEF Remove
  <2>4. InStore'
    BY <2>1, <2>3, NothingCovered, StoreCovered
  <2> QED
    BY <2>1, <2>4, Unnoticed
<1> QED
  BY <1>2, <1>3, <1>4 DEF Storing

LEMMA CoverageNext == ReactInv /\ Coverage /\ [Next]_vars => Coverage'
<1> SUFFICES ASSUME ReactInv, Coverage, [Next]_vars PROVE Coverage'
  OBVIOUS
<1>1. CASE Start
  <2>1. /\ cache' = Parsed(file) /\ UNCHANGED <<file, registry, batch, event, todo, passed, finished>>
        /\ \/ step'["loop"] = step["loop"] \/ step'["loop"] \in {"idle", "prime"}
        /\ Covered(dedup') = CoveredBy(cache'[Watermark])
    BY <1>1, WatermarkForms DEF Start, Reopen, CoveredBy, ReactInv, Staged, Tasks
  <2>2. \A n : Settled(n)' <=> Settled(n)
    BY <2>1 DEF Settled, Handled
  <2>3. \A n \in CoveredBy(cache'[Watermark]) : Settled(n)
    <3>1. CASE file = Torn
      BY <2>1, <3>1, KeysAssumption, NothingCovered DEF Parsed, EmptyMap
    <3>2. CASE file # Torn
      BY <2>1, <3>2 DEF Parsed, Coverage, InStore
    <3> QED
      BY <3>1, <3>2
  <2>4. InStore' /\ InMemory'
    BY <2>1, <2>2, <2>3 DEF Coverage, InStore, InMemory
  <2>5. Dispatched' /\ Untouched'
    BY <2>1 DEF Coverage, Dispatched, Busy, Untouched
  <2> QED
    BY <2>4, <2>5 DEF Coverage
<1>2. CASE Crash
  <2>1. /\ UNCHANGED <<cache, file, registry, passed, finished>>
        /\ dedup' = Tracker!EmptyDedup /\ step'["loop"] = "idle"
    BY <1>2 DEF Crash, ColdMemory, store, Tasks
  <2>2. InStore'
    BY <2>1, StoreUnnoticed
  <2>3. InMemory'
    BY <2>1, WatermarkForms DEF InMemory
  <2>4. Dispatched' /\ Untouched'
    BY <2>1 DEF Coverage, Dispatched, Busy, Untouched
  <2> QED
    BY <2>2, <2>3, <2>4 DEF Coverage
<1>3. CASE UNCHANGED vars
  BY <1>3, Unnoticed, StoreUnnoticed DEF vars
<1> QED
  BY <1>1, <1>2, <1>3, NextSplit, CoverageTaking, CoverageStoring, LoopWorks, OthersWork

(***************************************************************************)
(* What the watermark that outlives the process covers, but did not merely *)
(* pass over, all that was registered for it has dealt with to the end; or *)
(* it was filtered, and none has: in any number of runs, for any registry, *)
(* times and pages, however handlers fail, writes fail and processes die   *)
(* (Handlers::dispatch, handler.rs; run_notification_loop, bot.rs).        *)
(***************************************************************************)
THEOREM CoversWhatWasHandled == Spec => []CoveredMeansHandled
<1>1. ReactInv /\ Coverage => CoveredMeansHandled
  <2> SUFFICES ASSUME ReactInv, Coverage PROVE CoveredMeansHandled
    OBVIOUS
  <2> DEFINE saved == Parsed(file)[Watermark]
             Reached == Covered(Tracker!FromJson(saved)) \ passed
  <2>1. saved \in Tracker!SavedForms => \A n \in Reached : Handled(n)
    <3>1. CASE file = Torn
      <4>1. saved = None
        BY <3>1, KeysAssumption DEF Parsed, EmptyMap
      <4> QED
        BY <4>1, Values1
    <3>2. CASE file # Torn
      BY <3>2 DEF Parsed, Coverage, InStore, CoveredBy, Settled
    <3> QED
      BY <3>1, <3>2
  <2>2. Reached \subseteq Notifs
    BY DEF Covered
  <2> HIDE DEF Reached
  <2>3. ASSUME saved \in Tracker!SavedForms, NEW n \in Reached, Admitted(registry, n),
               NEW s \in {NotifStages(registry, n)[i] : i \in DOMAIN NotifStages(registry, n)}
        PROVE  s.kind = "before" \/ <<s.is, n.uri>> \in finished
    <3>1. registry \in Registries /\ n \in Notifs
      BY <2>2, <2>3 DEF ReactInv, TypeOK
    <3>2. DOMAIN NotifStages(registry, n) = 1..Len(NotifStages(registry, n))
      BY <3>1, StagesInOrder, LenProperties
    <3> QED
      BY <2>1, <2>3, <3>2 DEF Handled, HandledBy, Through
  <2>4. ASSUME NEW n \in Reached, ~Admitted(registry, n), NEW k \in finished
        PROVE  k[2] # n.uri
    BY <2>2, <2>4 DEF Coverage, Untouched
  <2> QED
    BY <2>3, <2>4 DEF CoveredMeansHandled, Reached
<1>2. ReactInv /\ [Next]_vars => ReactInv'
  BY ReactNextInv
<1> QED
  BY <1>1, <1>2, ReactInitInv, CoverageInit, CoverageNext, PTL DEF Spec

============================================================================
