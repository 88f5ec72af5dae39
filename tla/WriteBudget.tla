---------------------------- MODULE WriteBudget ----------------------------
(***************************************************************************)
(* The write budget of src/ratelimit.rs, which every write of every        *)
(* handler goes through: first the write waits out an exhausted window of  *)
(* the server, as its last response reported it, then it takes its cost    *)
(* from a token bucket shared by all of them, sleeping until there are     *)
(* enough tokens.                                                          *)
(*                                                                         *)
(* Time is counted in units that refill a whole number of tokens, and kept *)
(* relative: how long ago the bucket was refilled, how long a sleep or a   *)
(* window still lasts.  A sleep never ends early and may end late.  The    *)
(* server's report is kept in separate atomics, stored one after the other *)
(* and loaded one after the other.                                         *)
(***************************************************************************)
EXTENDS Integers, FiniteSetsExt

CONSTANTS
  Writers,     \* Tasks that write through one Context.
  Capacity,    \* The bucket's capacity: points_per_hour, at least 1.
  Rate,        \* Tokens refilled per unit of time.
  Costs,       \* What a write may cost: create_cost, delete_cost.
  MaxWait,     \* An hour: the longest single sleep.
  MaxWindow,   \* Bounds how far off the server's reset may be.
  MaxElapsed   \* Bounds the stretch of time looked at.

ASSUME BucketAssumption ==
  /\ Capacity \in Nat \ {0}
  /\ Rate \in Nat \ {0}
  /\ Costs \subseteq Nat
ASSUME TimeAssumption ==
  /\ MaxWait \in Nat \ {0}
  /\ MaxWindow \in Nat
  /\ MaxElapsed \in Nat

VARIABLES
  tokens,      \* Bucket: what it held when last refilled.
  since,       \* Bucket: how long ago that was.
  remaining,   \* Server: "unknown", "none" or "some" requests remaining.
  resetIn,     \* Server: how long until the reported reset (0: past).
  storing,     \* The reset of a report half stored, or -1.
  pc,          \* Writers: what each is doing.
  cost,        \* Writers: the points its write costs.
  sleep,       \* Writers: how long it still has to sleep.
  elapsed,     \* History: the length of the stretch looked at so far.
  spent,       \* History: the points granted in that stretch.
  owed,        \* History: how long each writer has to wait for the server.
  closed       \* History: the window was exhausted when the writer woke up.

bucket  == <<tokens, since>>
report  == <<remaining, resetIn, storing>>
stretch == <<elapsed, spent>>
vars == <<tokens, since, remaining, resetIn, storing, pc, cost, sleep, elapsed,
          spent, owed, closed>>

\* idle: no write under way.  remaining, reset: loading the report's atomics.
\* window, sleep: sleeping until the reset, until there are tokens.
\* take: at the bucket.  granted: allowed to send the write.
PCs == {"idle", "remaining", "reset", "window", "take", "sleep", "granted"}

\* After this long the bucket is full anyway.
Full == Capacity

TypeOK ==
  /\ tokens \in 0..Capacity
  /\ since \in 0..Full
  /\ remaining \in {"unknown", "none", "some"}
  /\ resetIn \in 0..MaxWindow
  /\ storing \in -1..MaxWindow
  /\ pc \in [Writers -> PCs]
  /\ cost \in [Writers -> Costs \cup {0}]
  /\ sleep \in [Writers -> 0..MaxWait]
  /\ elapsed \in 0..MaxElapsed
  /\ spent \in Nat
  /\ owed \in [Writers -> 0..MaxWait]
  /\ closed \in [Writers -> BOOLEAN]

\* The bucket starts full, the server has reported nothing.
Init ==
  /\ tokens = Capacity
  /\ since = 0
  /\ remaining = "unknown"
  /\ resetIn = 0
  /\ storing = -1
  /\ pc = [w \in Writers |-> "idle"]
  /\ cost = [w \in Writers |-> 0]
  /\ sleep = [w \in Writers |-> 0]
  /\ elapsed = 0
  /\ spent = 0
  /\ owed = [w \in Writers |-> 0]
  /\ closed = [w \in Writers |-> FALSE]

Lesser(a, b) == IF a < b THEN a ELSE b

----------------------------------------------------------------------------
(***************************************************************************)
(* Time passes for everything at once.  The stretch of time looked at may  *)
(* begin anew at any moment.                                               *)
(***************************************************************************)
Down(timers) == [w \in Writers |-> IF timers[w] = 0 THEN 0 ELSE timers[w] - 1]

Tick ==
  /\ since' = Lesser(since + 1, Full)
  /\ resetIn' = IF resetIn = 0 THEN 0 ELSE resetIn - 1
  /\ storing' = IF storing <= 0 THEN storing ELSE storing - 1
  /\ sleep' = Down(sleep)
  /\ owed' = Down(owed)
  /\ IF elapsed < MaxElapsed
     THEN elapsed' = elapsed + 1 /\ UNCHANGED spent
     ELSE elapsed' = 0 /\ spent' = 0
  /\ UNCHANGED <<tokens, remaining, pc, cost, closed>>

BeginStretch ==
  /\ elapsed' = 0
  /\ spent' = 0
  /\ UNCHANGED <<bucket, report, pc, cost, sleep, owed, closed>>

(***************************************************************************)
(* A response reports both what remains and when the window resets, and    *)
(* they are stored one after the other; all four combinations of old and   *)
(* new a reader may see arise without any reordering of relaxed accesses.  *)
(* What a writer is owed is due to the report it started with; a newer one *)
(* supersedes it.                                                          *)
(***************************************************************************)
Exhausted == remaining = "none" /\ resetIn > 0

ObserveRemaining(r, t) ==
  /\ storing = -1
  /\ remaining' = r
  /\ storing' = t
  /\ owed' = [w \in Writers |-> 0]
  /\ UNCHANGED <<bucket, resetIn, pc, cost, sleep, stretch, closed>>

ObserveReset ==
  /\ storing # -1
  /\ resetIn' = storing
  /\ storing' = -1
  /\ UNCHANGED <<bucket, remaining, pc, cost, sleep, stretch, owed, closed>>

----------------------------------------------------------------------------
(***************************************************************************)
(* A writer charges its write.                                             *)
(***************************************************************************)
Goto(w, label) == pc' = [pc EXCEPT ![w] = label]

Charge(w, c) ==
  /\ pc[w] = "idle"
  /\ Goto(w, "remaining")
  /\ cost' = [cost EXCEPT ![w] = c]
  /\ owed' = [owed EXCEPT ![w] = IF Exhausted /\ storing = -1
                                 THEN Lesser(resetIn, MaxWait) ELSE 0]
  /\ closed' = [closed EXCEPT ![w] = FALSE]
  /\ UNCHANGED <<bucket, report, sleep, stretch>>

LoadRemaining(w) ==
  /\ pc[w] = "remaining"
  /\ Goto(w, IF remaining = "none" THEN "reset" ELSE "take")
  /\ UNCHANGED <<bucket, report, cost, sleep, stretch, owed, closed>>

\* Mutant: the window is looked at but not waited out.
LoadResetWithoutWaiting(w) ==
  /\ pc[w] = "reset"
  /\ Goto(w, "take")
  /\ UNCHANGED <<bucket, report, cost, sleep, stretch, owed, closed>>

LoadReset(w) ==
  /\ pc[w] = "reset"
  /\ IF resetIn > 0
     THEN /\ sleep' = [sleep EXCEPT ![w] = Lesser(resetIn, MaxWait)]
          /\ Goto(w, "window")
     ELSE /\ Goto(w, "take")
          /\ UNCHANGED sleep
  /\ UNCHANGED <<bucket, report, cost, stretch, owed, closed>>

WindowOver(w) ==
  /\ pc[w] = "window"
  /\ sleep[w] = 0
  /\ Goto(w, "take")
  /\ UNCHANGED <<bucket, report, cost, sleep, stretch, owed, closed>>

\* Mutant: what accrues in less than two units is dropped.
RefilledTruncated == Lesser(tokens + (since \div 2) * 2 * Rate, Capacity)

Refilled == Lesser(tokens + since * Rate, Capacity)

\* Mutant: the tokens are not taken out.
TakeForFree(w) ==
  /\ pc[w] = "take"
  /\ Refilled >= cost[w]
  /\ tokens' = Refilled
  /\ since' = 0
  /\ spent' = spent + cost[w]
  /\ Goto(w, "granted")
  /\ UNCHANGED <<report, cost, sleep, elapsed, owed, closed>>

\* acquire, under the bucket's lock: there are enough tokens.
Take(w) ==
  /\ pc[w] = "take"
  /\ Refilled >= cost[w]
  /\ tokens' = Refilled - cost[w]
  /\ since' = 0
  /\ spent' = spent + cost[w]
  /\ Goto(w, "granted")
  /\ UNCHANGED <<report, cost, sleep, elapsed, owed, closed>>

\* The time in which so many tokens accrue, at least one unit.
Accrual(n) == Max({1, (n + Rate - 1) \div Rate})

\* acquire: there are too few tokens; sleep, then try again.
TooFew(w) ==
  /\ pc[w] = "take"
  /\ Refilled < cost[w]
  /\ tokens' = Refilled
  /\ since' = 0
  /\ sleep' = [sleep EXCEPT ![w] = Lesser(Accrual(cost[w] - Refilled), MaxWait)]
  /\ Goto(w, "sleep")
  /\ UNCHANGED <<report, cost, stretch, owed, closed>>

SleepOver(w) ==
  /\ pc[w] = "sleep"
  /\ sleep[w] = 0
  /\ closed' = [closed EXCEPT ![w] = Exhausted]
  /\ Goto(w, "take")
  /\ UNCHANGED <<bucket, report, cost, sleep, stretch, owed>>

\* The request is sent and answered; its report is an ObserveRemaining.
Write(w) ==
  /\ pc[w] = "granted"
  /\ Goto(w, "idle")
  /\ UNCHANGED <<bucket, report, cost, sleep, stretch, owed, closed>>

----------------------------------------------------------------------------
Server ==
  \/ \E r \in {"none", "some"}, t \in 0..MaxWindow : ObserveRemaining(r, t)
  \/ ObserveReset

Step(w) ==
  \/ LoadRemaining(w) \/ LoadReset(w) \/ WindowOver(w)
  \/ Take(w) \/ TooFew(w) \/ SleepOver(w) \/ Write(w)

Next ==
  \/ Tick \/ BeginStretch \/ Server
  \/ \E w \in Writers : Step(w) \/ \E c \in Costs : Charge(w, c)

Spec == Init /\ [][Next]_vars

(***************************************************************************)
(* Time passes, and each task that can go on does.  Nothing makes a        *)
(* handler write.  The bucket's lock favours nobody in particular: no      *)
(* writer is promised to find enough tokens when it comes back.            *)
(***************************************************************************)
Fairness == WF_vars(Tick) /\ \A w \in Writers : WF_vars(Step(w))

FairSpec == Spec /\ Fairness

----------------------------------------------------------------------------
(***************************************************************************)
(* Over any stretch of time, all writers together are granted no more than *)
(* a full bucket and what was refilled meanwhile, however their sleeps     *)
(* interleave.  (Bucket::refill, try_take, acquire; ratelimit.rs:219-290.) *)
(***************************************************************************)
BudgetKept == spent <= Capacity + Rate * elapsed

(***************************************************************************)
(* A write charged while the last report says the window is exhausted is   *)
(* not granted before the reset (or an hour, if that is sooner), unless a  *)
(* newer report has come in.  (await_server_reset, ratelimit.rs:339-351.)  *)
(***************************************************************************)
WindowWaitedOut == \A w \in Writers : pc[w] = "granted" => owed[w] = 0

(***************************************************************************)
(* As long as some write waits for tokens, some write is granted: the      *)
(* sleeps are long enough and end, and no refill is lost, given that no    *)
(* cost exceeds the capacity.                                              *)
(***************************************************************************)
NeverStalls ==
  (\E w \in Writers : pc[w] \in {"take", "sleep"}) ~>
  (\E w \in Writers : pc[w] = "granted")

----------------------------------------------------------------------------
(***************************************************************************)
(* "Before each write, if the server last reported the window exhausted,   *)
(* the write waits until the reset" (README.md:556-558).  The report is    *)
(* looked at before the sleeps for tokens, not after.                      *)
(***************************************************************************)
WaitsBeforeEachWrite ==
  [][\A w \in Writers :
       pc[w] # "granted" /\ pc'[w] = "granted" => ~(closed[w] /\ Exhausted)]_vars

============================================================================
