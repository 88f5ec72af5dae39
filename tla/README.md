# Specifications of bsky-bot-sdk

TLA+ models of the parts of `bsky-bot-sdk` that keep state across awaits,
requests and restarts, model-checked with TLC on small instances and, for the
central ones, proved with TLAPS for every value of their constants. Paths are
relative to the repository; `dedup.rs` stands for `src/dedup.rs`, and so on.

## 1. The system

A bot is one process. `BotBuilder::build` logs in and assembles a `Bot`, whose
`run_until` drives up to three ingestion loops and any number of scheduled
jobs, each on its own task, until a shutdown future resolves.

| Component | State it keeps | Operations | What makes it correct |
| --- | --- | --- | --- |
| Notification watermark (`dedup.rs`) | newest `indexedAt` handled and the tie set at that instant | `is_new`, `mark`, `prime`, `take_new_sorted`, `to_json`/`from_json` | answers as unbounded memory would, whatever the pages |
| Notification loop (`bot.rs:1114-1296`) | the watermark, the batch in flight | restore, prime, tick, fetch, dispatch, mark seen, persist, stop | nothing lost, nothing twice in a run, in order, saved work never redone |
| Stores (`store.rs`) | a key/value map, in memory or in one JSON file | `load`, `save`, `remove` | a failed save leaves an older state or none, never a newer one |
| Direct messages (`dm.rs`) | the `getLog` cursor | prime to the tail, drain pages, dispatch | every message of others once, in order, own messages never |
| Jetstream (`stream.rs`) | cursor, attempt count, the connection | connect, read, dispatch, back off | no gap while resuming, growing delays, stops on shutdown |
| Write budget (`ratelimit.rs`) | token bucket, last server headers | charge, refill, observe | never above a full bucket and its refill, exhausted windows waited out |
| Retry (`retry.rs`) | attempt count | send a failed read again | bounded, transient errors only, never a write |
| Scheduler (`schedule.rs`) | next due time per job | wait, run, stop | no instant served twice, stops on shutdown |
| Runtime (`bot.rs:1048-1110`) | background tasks, watch channel | spawn, signal, join | every task ends after a shutdown |
| Builder (`bot.rs:59-1046`) | configuration, session file, session, the account's policy and label | resume or log in, save, publish | what is configured is in force once a bot is built |
| Registry, routers (`handler.rs`, `command.rs`) | registered handlers, middlewares, commands | dispatch, route | one failing handler does not stop the others; a skip stops all |
| Threads (`thread.rs`) | the plan, the posts so far | split, number, post one by one | no word lost, every post fits, one chain, a prefix on failure |
| Posts (`embed.rs`) | uploaded blobs, the embed | check, upload, poll, write | as composed or not at all; the wait ends |
| Reads (`read.rs`, `context.rs`) | cursor, buffer, attempts | fetch, yield, retry | newest first, once, nothing skipped, ends |
| Account (`context.rs`, `self_label.rs`) | records, the profile | create, put, look up and delete, read-edit-write | touches only its own, undoes no edit it has seen |
| Events, errors, test kit | none of their own | | accessors and canned answers, not modelled |

### How they interact

The loops share a `Context` (agent, store, write budget) and the registry.
Handlers run inside the loop that dispatches them, so a loop does not fetch
while a handler runs, but handlers of different loops run at the same time and
meet in the store, in the write budget and on the account.
The store outlives the process. The shutdown future is awaited by the
notification loop itself; the other tasks watch a channel that is set once the
notification loop has ended, and `run_until` joins them.

### What is hard

Pages shift under the bot while it polls. Timestamps repeat. The watermark in
memory moves before the handlers run, the one in the store after: a crash or a
failed save falls in between. `std::fs::write` truncates before it writes. A
shutdown may come at any await but is looked at only at some. A request may take
effect although its answer is lost. The profile is read, edited and put back
with awaits in between, while other tasks and other clients do the same. A
list changes while it is read page by page. `PROJECT.json`
lists every such hazard at its line, with the properties that cover it.

## 2. Modules

| Module | Models | Kind |
| --- | --- | --- |
| `Dedup` | the data and operators of `struct Dedup` | operators |
| `FreshSet` | de-duplication with unbounded memory | abstract specification |
| `DedupTracker` | any sequence of `Dedup`'s operations; implements `FreshSet` | specification |
| `NotificationLoop` | the loop, its server, its store, crashes and restarts | specification |
| `DmFeed` | what the direct-message loop promises its handlers | abstract specification |
| `DmRunner` | the direct-message loop and its log; implements `DmFeed` | specification |
| `StreamRunner` | the Jetstream loop, its server and its connections | specification |
| `WriteBudget` | the writers, the token bucket, the server's report, the clock | specification |
| `DurableMap` | what a bot may rely on of its store | abstract specification |
| `Store` | `FileStore` and `MemoryStore`; implements `DurableMap` | operators on a state |
| `Registry` | what the builder's registrations select for an event | operators |
| `Reactions` | three loops dispatching through `Registry`, sharing one `Store` | composition |
| `BotBuild` | `BotBuilder::build`, again and again, and the servers it logs in to | specification |
| `BotRuntime` | `run_until`, the jobs and the background tasks | specification |
| `Repo` | the account's posts, and what becomes of one write request | operators on a state |
| `ThreadSplit` | splitting and numbering a thread's text | operators |
| `Threads` | `ThreadBuilder::send` | specification |
| `PostBuilder` | `PostBuilder::send` with uploads, link cards and video jobs | specification |
| `Retry` | which failed requests are sent again | operators |
| `Reads` | paginated reads of a list that changes | specification |
| `Account` | the methods of `Context` that change the account | specification |
| `MCNotificationLoop`, `MCReactions`, `MCLifecycle`, `MCCalls` | the same for TLC | model |
| `MCOverflow` | `MCNotificationLoop`, with what a downtime leaves waiting | model |
| `DedupLemmas` | what marking does to newness, for any page | lemmas |
| `DedupProofs`, `NotificationProofs`, `DmProofs`, `StreamProofs`, `BudgetProofs`, `RunningProofs`, `CallsProofs` | theorems | proofs |

In every module the program counter names the await a task is at; an action is
the code from one await to the next, with all it calls. Definitions whose name
or comment says *mutant* are plausible bugs of a definition beside them; no
specification uses them, and `PROJECT.json` says which property catches which.

### 2.1 `Dedup`, `DedupTracker`, `FreshSet`

A notification is a model value with a timestamp; timestamps may be equal. A
watermark is the record `[top, ties]` of `struct Dedup`; `None` is time 0.
`IsNew`, `Mark`, `MarkAll` (`prime`), `Fresh` (`take_new_sorted`), `ToJson` and
`FromJson` are the methods of the same name. `DedupTracker` calls them in any
order and keeps, as history, the set of all notifications ever marked and the
highest time among them; `FreshSet` remembers that set itself.

### 2.2 `NotificationLoop`

| Action | Code |
| --- | --- |
| `Index`, `Withdraw` | the server's feed: a notification appears, one is withdrawn |
| `Start`, `Restore`, `NothingRestored` | `run_notification_loop`, `restore_watermark` |
| `PrimeFetched`, `PrimeFailed`, `PersistPrime` | the initial fetch, and the save after it |
| `Tick`, `Stop` | the two branches of the `select!` |
| `PollFetched`, `PollFailed` | `fetch` and the watermark moving over the page |
| `Dispatch`, `AfterBatch`, `MarkSeen`, `Persist` | `poll_and_dispatch` |
| `RequestShutdown`, `Crash` | the process's environment |

`StoreKind` chooses what the store does with a save: `none`; `memory` (always
succeeds, lost with the process); `file` (a failed write may leave the file
empty, and an emptied file opens as an empty map); `custom` (a user's store:
saves and loads may fail, an older value survives). A run is what lies between
two starts of the process. `MCOverflow` adds, as history, what was indexed
while no process ran and the store held a watermark to resume from.

### 2.3 `DmRunner`, `DmFeed`

The log is a sequence of entries, each a message of somebody else, one of the
bot's own, or another event; a cursor is a position, `None` is 0. `Run` and the
`Prime...` actions are `run` and `prime`; `Tick`, `Stop`, `PollPage`,
`PollTail`, `PollFailed`, `Dispatch` and `AdoptCursor` are `run`'s `select!` and
`poll`. `Dispatch` runs all handlers for one message and may append the bot's
answer to the log. `DmFeed` knows the log and how far it was delivered, nothing
of pages and cursors; the refinement mapping is the identity on `log`,
`reached` and `delivered`.

### 2.4 `StreamRunner`

Events are positions in a stream and carry times that may repeat. `Top`,
`Connected`, `ReadEvent`, `ReadOtherText`, `Ended`, `BackoffOver`, `Stop` are
`run`, `connect_and_stream` and `handle_text`; `UrlCursor` is `build_url`'s
rewind with its saturating subtraction. How a server reads a cursor (at it or
after it) is left open per connection. Only the attempt count of the backoff is
modelled, not the delay. Pings and binary frames change nothing and are left
out.

### 2.5 `WriteBudget`

`Charge` is the entry of `charge_create`/`charge_delete`; `LoadRemaining`,
`LoadReset` and `WindowOver` are `await_server_reset`, one action per atomic
load; `Take`, `TooFew` and `SleepOver` are the loop of `acquire`, whose body
runs under the lock. `ObserveRemaining` and `ObserveReset` store a response's
headers, one atomic after the other; a response is assumed to carry both or
neither. Time is relative and advances in units that refill whole tokens, so
the smallest sleep of 10 ms and rounding of `f64` are below the model's
resolution. Writers whose limiter or server is `None` skip steps and are not
modelled.

### 2.6 `Store`, `DurableMap`, `Registry`, `Reactions`

`Store` has the map in memory and what the file holds, which is `Torn` when it
does not parse. `Save`, `Remove` and `Load` are the methods of `FileStore`;
each holds the mutex from the change of the map to the end of the write, so it
is one step. A write that fails leaves the old file or a torn one, and the
change stays in memory. `Reopen` is `FileStore::new` in the next process.

`Registry` is a record of registrations with one operator per builder method
(`On`, `OnAny`, `Before`, `After`, `BlockAuthors`, `OnCommand`, `OnStream`, ...),
and what they select: `NotifStages`, `StreamStages`, `DmStages` list the
middlewares, handlers and hooks for an event in the order `dispatch` runs them,
with `Route` and `ParseCommand` for the routers.

`Reactions` runs them, one await at a time, behind the watermark of `Dedup`:

| Action | Code |
| --- | --- |
| `Start`, `Crash` | a process with the store opened anew, its watermark restored or to be primed; its death at any await |
| `PrimeFetched`, `PrimeFailed`, `PersistPrime` | the initial fetch, and the save after it |
| `Poll`, `DispatchNotif`, `PersistWatermark` | a poll with a page, the batch oldest first, the save after it |
| `DispatchStream`, `DispatchDm` | the other loops take up an event |
| `Filter`, `RunAfter` | middlewares and hooks of `Handlers::dispatch` |
| `Check`, `Act`, `Remember` | a handler that asks `is_remembered`, acts, and calls `remember`; any of it may fail |
| `Forget` | any code of the bot's calls `forget` |
| `FinishNotif`, `FinishStream`, `FinishDm` | the dispatch is over |

A page is any set of notifications: one that does not fit, or comes up late, may
be missing from it. Two histories say what became of a notification. `passed`
has those the watermark covered when they were not in the batch it covered with
them: primed, past a page's end, or listed late. `finished` has the handlers and
hooks the loop has run to their end for an event.

### 2.7 `BotBuild`, `BotRuntime`

`BotBuild` is `build` from await to await: `Build` (the first scheduling error),
`LoadFile`, `Resume`, `Login`, `SaveSession`, `PublishPolicy`, `ApplyLabel`.
Builds follow one another with changing configurations, and find the session
file, the inbox policy and the label that earlier ones left, complete or not.
Servers rotate and revoke tokens (`Rotate`, `RefreshInUse`, `Revoke`); a refresh
may take effect although its answer is lost (`RotateUnheard`), in `Resume` as
while the bot runs; and the process may die at any await, then or later.

`BotRuntime` has the task of `run_until` (`RunUntil`, `Cycle`, `StopAll`,
`Join`, `Abandon` for a panic or a dropped future) and the spawned ones: `Sleep`,
`Listen`, `Begin`, `EndWork`, `Break` (the channel wins the `select!`),
`BreakAtTop` (the flag is seen between two rounds), `Panic`. A job's delay is
`next_delay_from`: its interval, or the time to the next instant of its cron
expression, which is an input.

### 2.8 `ThreadSplit`, `Threads`, `PostBuilder`, `Repo`

`Repo` is the sequence of posts of the account; `Created` gives it after one
request that was answered, refused, or took effect although its answer was lost.

A text is a sequence of graphemes, told apart only into white space and the
rest; a chunk is an interval of it. `Chunks`, `SplitAll`, `NumberingReserve`,
`Settled`, `PlanSegments` are `split_into_chunks`, `split_all`,
`numbering_reserve` and `plan_segments` with its search for a reserve.
`SendThread`, `FacetsFail`, `PostSegment` are `ThreadBuilder::send`.

`PostBuilder` is `send` by its requests: `SendPost` (the checks), `UploadImage`,
`BuildExternal` and `Thumb` (a link card), `UploadVideo` and `Poll` (the job),
`WritePost`. A page is a sequence of meta tags and title elements. `FirstOf` picks
the first of a key that is not empty, as `extract_link_meta` does; `TitleTag`
looks at the first title element only, which may be empty, as
`extract_title_tag` does. `At("panicked")` is the end of a page whose cut falls
inside a character (`embed.rs:445`).

### 2.9 `Retry`, `Reads`, `Account`

`Again` is `retry`'s decision; `Reads` and `Account` use it for each of their
requests that go through `retry`.

`Reads` numbers the items of a list as they appear. `Open`, `Fetch`,
`FetchFails`, `Yield`, `Exhausted` are `paginate`, `next` and `take`; `Appear`
and `Disappear` change the list in between, `hidden` items are left out of the
pages the server makes, and at the end of the list it may still send a cursor. A
stream of `take(0)` ends without asking, an invalid actor included.

`Account` classifies the methods by what they do to the records: `Creates`,
`Puts`, `LooksUp`, `Deletes` and `Edits`. A task is at a read (`LookUp`,
`FindConvo`, `FetchProfile`, `ReadFails`) or at its write (`Create`, `Put`,
`Delete`, `PutProfile`), each of which may take effect or not; `Elsewhere` is
another client of the account's owner. The history `since` has, for each task,
the parts of the profile that changed since it read them; labels in a form other
than self-labels are a part (`form`), which labelling replaces as its doc says.

## 3. Runs

| Run | Module | Question | Bounds |
| --- | --- | --- | --- |
| `notif_file` | `MCNotificationLoop` | is anything lost, repeated in a run, dispatched out of order, or redone although saved, with a file store that fails and truncates? | 3 notifications, 2 times, pages of 2, 2 runs |
| `notif_live` | `MCNotificationLoop` | is everything handled in the end, a shutdown honoured, and everything dispatched saved by then, if saves succeed? | 2 notifications, 2 times, 2 runs |
| `dm` | `DmRunner` | does the runner implement the feed, skip the backlog, dispatch all that follows, and fetch one page of messages at most after a shutdown? | log of 4, page cap 2 |
| `stream` | `StreamRunner` | do reconnects leave a gap? is a fruitless server backed off from? does every event arrive, and the task stop? | 3 events, 3 times, attempts up to 2 |
| `budget` | `WriteBudget` | is the budget kept by all writers together, a closed window waited out, and does some waiting write get through? | 2 writers, costs 1 and 3, capacity 3, windows up to 2, sleeps up to 1, stretches up to 1 |
| `reactions` | `MCReactions` | is anything remembered redone, anything the saved watermark covers left unhandled without being passed over, anything filtered handled? is the store the durable map? | 3 bots, 2 notifications at 2 times, 2 stream events, 1 message, 2 runs |
| `lifecycle` | `MCLifecycle` | is a built bot as configured in policy and label, its session file resumable? do its tasks stop, in time, and serve no instant twice? | 2 accounts and services, 4 configurations, 3 tokens; 2 jobs, the other tasks, 3 instants |
| `calls` | `MCCalls` | is the watermark exact? do threads, posts, reads and changes of the account keep what they promise? | 4 notifications, 3 times; posts of 8 graphemes and numbers to base 3, texts up to 9; 2 images, 3 polls; lists of 4, pages of 2, 1 retry; 2 tasks, 3 changes |

`calls` looks at five parts of the SDK that share no state: its variable `focus`
says which of them a behaviour explores, and the others stay at one initial
state. `lifecycle` first builds, then runs the bot; runs are explored from one
built bot, as `run_until` looks at nothing in which built bots differ but their
parts, which are chosen when it is called.

Why these are enough: two equal times and one different one produce every tie
the watermark tells apart; three notifications over pages of two make pages
overlap and overflow; two runs produce every pairing of an old run's saved
state with a new run. For the log, four entries fill the page cap of two with
pages of different lengths and leave a tail. In the stream, a rewind of 1 over
three times covers a part of what was read, and the attempt count reaches its
saturation. In the budget, the expensive write needs the whole bucket, windows
exceed the longest sleep, and two writers are the least that compete. In
`reactions` the three bots have between them filters that skip one of the
events, handlers that run for one event by two loops, commands, and hooks; the
second run finds whatever the first left, primed or not; two times and pages that
may be any set let a watermark cover what was primed, and what is listed too
late. This is the largest run, some 520 thousand states. In `lifecycle` the two services make
a session file of the other configuration, three tokens allow a login, a
rotation and a login elsewhere; one interval is as long as the gap between two
instants. In `calls`, a limit of 8 with numbers to base 3 makes texts of nine
graphemes cross the point where numbers get a second digit and leave room for
two graphemes only, which happens in the code at ten posts of 300; lists of
four over pages of two have a middle, an end and an item that appears or
vanishes between them; three changes are enough for two overlapping calls and
another client. The safety properties are
proved for every value of the constants (section 5): so `custom` stores,
a set `process_backlog` and longer stretches of time are covered there. No run
checks the type invariants, which are proved. Symmetry
of the notifications is used in runs without liveness properties only.

`CHECK_DEADLOCK FALSE` appears where the system really may stop: the bot is
down, or the task has ended and the server's bound is reached.

### Fairness

The runtime keeps polling a task whose future is ready, so each loop gets weak
fairness on the disjunction of its own steps (`WF_vars(Bot)`,
`WF_vars(Runner)`). `tokio::select!` chooses at random among its ready branches;
a shutdown that stays ready while ticks keep winning is therefore chosen in the
end: `SF_vars(Stop)` for the notification loop, where the branch is disabled
during a poll cycle and enabled again after, and `WF_vars(Stop)` for the stream,
where it stays enabled. The direct-message loop looks at the channel after each
poll and needs none. Requests are answered now and then
(`SF_vars(PollFetched)`, `SF_vars(PollPage)`): without that nothing could ever
be handled. `Stable`, the premise of the stream's `EventuallyDispatched`, says that
connections end only finitely often, for the same reason. The clock ticks.

In `lifecycle` (`RunFairness`) user code that is begun ends, and a branch of a
`select!` that is ready again and again is taken: `SF` on `StopAll`, where a
poll cycle disables it in between, and on `Break`. In `calls`, a post being sent
and a read being drained go on (`PostFairness`, `ReadFairness`): each request
ends, by its timeout at the latest, in any of its ways. Nothing is assumed of the environment's
choices: no notification need appear, no crash, no shutdown, no write.

## 4. Where the code and its docs disagree

Each of these runs checks one property a doc, comment or test states, and TLC
finds it violated by what the code does.

| Run | Stated | What happens |
| --- | --- | --- |
| `overflow` | `bot.rs:222-224`: no missed notifications across downtime | a notification indexed while a bot with a stored watermark is down does not fit the one page the resumed bot fetches, and is passed over |
| `dm_not_primed` | `dm.rs:407-408`, `dm.rs:726`: no replay of the log | the first request of the prime fails and the cursor stays `None` |
| `stale_session` | `bot.rs:150`, `bot.rs:117`: the service and the account are those given | a session file of another configuration decides both |
| `lost_update` | `context.rs:808-810`: every field left untouched is preserved | a field changed between the read and the write is put back |

The modules state more that they do not satisfy; no run repeats these:

| Property | Stated | What happens |
| --- | --- | --- |
| `NotificationLoop!NeverDispatchedTwice` | `README.md:53`: you never double-reply | a crash or failed save between dispatching and persisting |
| `NotificationLoop!ReadOnlyWhenHandled` | `config.rs:33-34`: marks *those* notifications read | `updateSeen` carries the time after dispatching, not of the fetch |
| `StreamRunner!ResumesWithoutGaps` | `README.md:291-292`: a reconnect resumes without gaps | a connection that yielded no event leaves no cursor |
| `WriteBudget!WaitsBeforeEachWrite` | `README.md:556-558`: each write waits out an exhausted window | the window is looked at before the wait for tokens, not after |

More was met while modelling. The
notification loop's prime has no fallback either (`bot.rs:1138`): when the
initial fetch fails, the next poll dispatches the backlog although
`process_backlog` is off, and no property says otherwise, since no line promises
it. `got_data` is set by any text frame (`stream.rs:761`),
not only by an event as `stream.rs:624-625` has it, so a server that only sends
error messages is never backed off from: `DryConnectionsBackedOff` speaks of
connections without any text. And `BudgetKept` is all the bucket promises: it
starts full and refills an hour's budget in an hour, so nearly twice the
"rolling budget of 5000 points per hour" (`ratelimit.rs:5-6`) may be spent in
the first one. A firehose handler is to see "every" event where no collections
are named (`bot.rs:402-404`), but a keyword handler beside it narrows the
subscription to posts (`stream.rs:645`; `Registry!Wanted`). "A negative or zero
span becomes a tiny non-negative delay" (`schedule.rs:132-133`): a negative one
makes `to_std` fail, and the job stop; with one clock the span is never
negative. And a link card's page is cut at a byte (`embed.rs:445`), which
panics inside a character of several bytes: in the model every page that is
fetched may end `send` that way, and `SendEnds` counts it as an ending.

## 5. What is proved

All theorems hold for every value of the constants allowed by the `ASSUME`s of
the modules (page caps and capacities positive, bounds natural numbers, `None`
not a number); TLC evaluates these on every run. No theorem assumes fairness.

- **Watermark** (`DedupProofs`). `TypeCorrect`, `WatermarkIsExact`,
  `ImplementsFreshSet`. The invariant is `IsNewExactly` itself: a notification
  is new exactly if its time is above the highest ever marked, or equal to it
  and it was not marked. Inductiveness rests on `DedupLemmas`: marking a whole
  page leaves the page's maximum or the old one as `top`, with the ties at it.
- **Notification loop** (`NotificationProofs`). `LoopTypeCorrect`,
  `LosesNothing`, `OncePerRun`, `DispatchesInOrder`, `NeverRedoesPersisted`,
  `PrimedIsSkipped`, `IdleIsSaved`. None of these is inductive alone.
  The strengthening says, for each program counter, where a notification can
  be: `CoveredInv` that what was dispatched in this run is covered by the
  watermark, `StoredBehindInv` that the store is never ahead of the watermark
  and what was dispatched, `PhaseInv` that the batch in flight is new and
  sorted, `GroundedInv` that what a watermark covers was handled, skipped or
  passed over, `PrimedInv` and `SavedInv` the same for the prime and the store.
- **Direct messages** (`DmProofs`). `RunnerTypeCorrect`, `SkipsBacklog`,
  `StopsSoon`, `ImplementsFeed`. The strengthening relates the cursor, the
  place within the page and the last message delivered: between `reached` and
  where the runner looks there is no message of anybody else (`NoGap`,
  `OnPage`), and after a prime the cursor is past the backlog.
- **Stream** (`StreamProofs`). `StreamTypeCorrect`, `ResumesWithoutGap`,
  `BacksOff`. The cursor is the time of the event read last (`CursorOfLast`),
  so a rewound connection starts at or before the event after it, and all the
  connection has passed since the first event was dispatched (`Passed`).
- **Write budget** (`BudgetProofs`). `BudgetTypeCorrect`, `StaysWithinBudget`.
  The bound on what was granted is not inductive: what is still in the bucket,
  refilled up to now, could be granted at once. `SpendableKept` counts it in.
  `WaitsOutWindow` rests on `Owing`: a writer that is still owed a wait has yet
  to load a window that lasts at least as long, or sleeps at least as long, and
  no newer report is half stored.
- **Running bot** (`RunningProofs`). `RunTypeCorrect`, `StopsInTime`,
  `CompletesWork`, `ServesInstantsOnce`. `RunInv` adds that a task that began
  work after the flag was set does not wait again before it looks at it
  (`Told`), and that a waiting job is due later than its last run ended
  (`Forward`), which is what the strict "after" of the next occurrence and a
  positive interval are for. `CompletesWork` (`WorkCompletes`) holds step by
  step, panics aside.
- **Reactions** (`RunningProofs`). `ReactionsTypeCorrect`, `StoreIsDurable`,
  `RemembersForGood`. `ReactInv` says that an acknowledged key is in the map
  and in the file (`Kept`), across the writes of other tasks, which rewrite the
  whole file; and that what a task has left to do are stages of its event
  (`Staged`), so that the keys it uses are keys of the store. The refinement to
  `DurableMap` follows from it: each save or removal is an `Update`, a
  restart is a `Restart`, all else leaves both maps alone.
  `CoversWhatWasHandled` needs more: `Coverage` says that what a dispatch has
  left to do is the end of the stages of its notification, and all before it
  have run to their end (`Dispatched`), that what a middleware turns away was
  never touched (`Untouched`), and that what is covered is settled (`Settled`:
  passed over, run to the end by every handler and hook, or turned away): by the
  watermark in memory unless it waits in the batch or is under dispatch
  (`InMemory`), by the saved one without exception (`InStore`). How a page moves
  what is covered is `DedupLemmas` again (`Moved`), and what is saved is the
  form that restores it (`WatermarkForms`). It assumes that each notification is about a
  record of its own and that registries are what registrations make
  (`WellFormed`).
- **Threads** (`CallsProofs`). `PublishesPrefix`, `ThreadsOneChain`: `ThreadInv`
  ties the posts made to the answers received (at most one more post than
  answers, and then nothing follows) and the builder's `root` and `parent` to
  the first and the last of them; both hold for any plan. `PlansEveryWord` and
  `PlansFit` are about the plan. A text's chunks from a start are one chunk and
  the chunks from a later start, so `ChunksKept` goes from the text's end
  backwards: from each start, every letter after it is in one chunk, each chunk
  fits, and only a word longer than a chunk is cut. `SplitKept` carries that over
  the pieces. For the length, `Settles`: a smaller budget never gives fewer
  posts (`SplitGrows`, from `FewerChunks`), so the search of `plan_segments`
  only goes up; a round that does not settle adds a digit to the number of posts
  (`DigitsGrow`); so after eight rounds either the reserve is that of the posts
  it leads to, or these have eight digits. `RoomForNumbers` rules out the
  second, that is numbered threads of ten million posts, and numbers that leave
  no room beside them.
- **Reads** (`CallsProofs`). `ReadsInOrder`, `ReadsEverything`: `ReadsInv` says
  that what was handed out followed by the buffer is one falling sequence
  (`InLine`), all of it above the cursor (`Cleared`), which is how no page can
  repeat an item; and that an item listed all the while was handed out, waits in
  the buffer, or is below the cursor (`Covered`). That a page is a sorted
  sequence is not assumed: `Listable` shows that every finite set of numbers can be
  listed in falling order, so `NewestFirst` chooses one. `ReadsWindDown` is
  what of `ReadEnds` needs no fairness: each step of the caller ends the read or
  makes less of what is `Ahead` of the cursor, of the buffer, or of the retries
  left, and what happens on the server changes none of them.
- **Posts** (`CallsProofs`). `SendsAsComposed`: `PostInv` says for
  each stage of `send` what is embedded so far (`AtImages`: the first images,
  each with its own blob; `AtThumb`: the card; `AtText`: all that was composed),
  and `TitleFound` that a card has no title only if neither the page's meta tags
  nor its first title element give one. In
  the same way `SendWindsDown` is what of `SendEnds` needs no fairness: each step
  passes a stage, uploads one of the images or makes one of the polls (`Polled`:
  fewer than `MaxPolls` before each).
- **Account** (`CallsProofs`). `TouchesItsOwn`: `AccountInv` says that
  the keys the server gives are never used again and that a record found under
  such a key is of the actor looked up, so deleting by a key that was read
  earlier deletes that actor's record or none. `EditsKeepOthers`: `EditsInv` says
  that the profile a task is about to put back agrees with the account's in every
  part that was not changed since it was read (`Recalled`); `EditKeeps` that an
  edit changes one part only. For the labels that is `LabelsKept`: removing the
  bot's label from a list from which it was removed, or to whose end it was added,
  gives the same others, by induction over the list (`FlattenSingles`).
- **Builds** (`CallsProofs`).
  `BuildsAsPublished` and `LeavesResumable`: `BuildInv` says that the endpoint
  is that of the session once there is one (`Connected`), that what the build
  has published stays in force (`Published`), and that the file may lag behind
  the server only at the save, unless something went wrong (`Resumable`).

What a recursive function computes is proved in two steps. `RecursionExists`
gives a function that satisfies the equation, as TLA+ only says that the
recursive function is one if there is any; the values are then found by
induction over a set of numbers (`Counting`): the set of those for which the
claim holds contains 0 and each one's successor. Both rest on numbers being
well-founded, which the library has.

The constants are assumed to be what the code has: a page holds one item or more
(`PageAssumption`: the SDK's limit is between 1 and 100), a draft is a sequence of
texts (`DraftAssumption`), a profile's labels are a sequence or a value of another
form (`ProfileAssumption`), and `None` is none of the values it stands beside.

## 6. What is only model-checked

Liveness: `EventuallyHandled`, `EventuallyDispatched`, `ShutdownHonoured`,
`NeverStalls`, `SendEnds`, `ReadEnds`, `ShutdownReturns`, `NoOrphans`. The proof
system does not reach fairness; of `ReadEnds` and `SendEnds` it leaves just that
to TLC, for `ReadsWindDown` and `SendWindsDown` show that the steps run out. Every invariant and every action property of a
passing run is proved, and so are the refinements. What the runs that expect a
violation check does not hold.

## 7. What the models leave out

- In `NotificationLoop`, `DmRunner` and `StreamRunner` a handler runs in one
  step: handlers do not change the loop's state, and a loop fetches nothing
  while one runs. What handlers do one await at a time, and how their errors
  are passed over, is in `Reactions`. A panic is a crash there.
- In the loops, retries inside a request are part of it: it succeeds or fails.
  Delays between retries, and between reconnects, are not told apart.
- Deletion of direct messages that are already in the log.
- Two processes that share a file.
- Times are those of the server and, as the SDK assumes, never go back within
  a feed; the wall clock does not go back either.
- A cost above the bucket's capacity (`ratelimit.rs:279`), which `acquire`
  would wait for for ever: the costs of the SDK are 1 and 3, the capacity is
  5000 unless configured, and the run has no larger cost. That every single
  writer is served in the end is not promised by the code, which lets sleepers
  race for tokens; `NeverStalls` says that some write is.
- What a user's handlers, stores and HTTP pages contain; record contents,
  formatting, logging, serialisation formats, cron syntax, MIME sniffing, HTML
  parsing, facet detection and URL resolution.
- `event.rs` (accessors of one immutable record), `error.rs`, `prelude.rs`,
  `testkit.rs` (canned answers for users' unit tests) and the examples keep no
  state that outlives a call of the SDK.

## 8. Plan

1. `NotificationDelivery`: an abstract specification of at-least-once delivery
   that `NotificationLoop` implements.
2. `Reactions` with the bounded pages of `NotificationLoop`, so that what is
   passed over for want of room is told apart from what is listed late.
