--------------------------- MODULE BudgetProofs ---------------------------
(***************************************************************************)
(* Proofs about WriteBudget, for any number of writers, any capacity, any  *)
(* rate and any costs: type correctness, and the bound on what is spent    *)
(* in a stretch of time of any length.                                     *)
(***************************************************************************)
EXTENDS WriteBudget, TLAPS

\* What is still in the bucket could be spent at once.
SpendableKept == spent + Refilled <= Capacity + Rate * elapsed

IInv == TypeOK /\ SpendableKept

----------------------------------------------------------------------------
LEMMA NextProduct ==
  \A n \in Nat :
    /\ n * Rate \in Nat
    /\ Rate * n \in Nat
    /\ (n + 1) * Rate = n * Rate + Rate
    /\ Rate * (n + 1) = Rate * n + Rate
BY BucketAssumption

LEMMA NoProduct == 0 * Rate = 0 /\ Rate * 0 = 0
BY BucketAssumption

\* The bucket never holds more than its capacity.
LEMMA RefillBounded ==
  ASSUME NEW t \in Nat, NEW s \in Nat
  PROVE  Lesser(t + s * Rate, Capacity) \in 0..Capacity
<1> DEFINE product == s * Rate
<1>1. product \in Nat
  BY NextProduct
<1> HIDE DEF product
<1>2. Lesser(t + product, Capacity) \in 0..Capacity
  BY <1>1, BucketAssumption DEF Lesser
<1> QED
  BY <1>2 DEF product

\* A unit of time refills what it should, or less.
LEMMA RefillOfOneUnit ==
  ASSUME NEW t \in Nat, NEW s \in Nat
  PROVE  Lesser(t + (s + 1) * Rate, Capacity) <= Lesser(t + s * Rate, Capacity) + Rate
<1> DEFINE product == s * Rate
           next == (s + 1) * Rate
<1>1. product \in Nat /\ next = product + Rate
  BY NextProduct
<1> HIDE DEF product, next
<1>2. Lesser(t + next, Capacity) <= Lesser(t + product, Capacity) + Rate
  BY <1>1, BucketAssumption DEF Lesser
<1> QED
  BY <1>2 DEF product, next

\* Just after a refill there is nothing to refill.
LEMMA RefillOfNoTime ==
  ASSUME NEW t \in 0..Capacity
  PROVE  Lesser(t + 0 * Rate, Capacity) = t
BY NoProduct, BucketAssumption DEF Lesser

LEMMA CostBounded ==
  ASSUME TypeOK, NEW w \in Writers
  PROVE  cost[w] \in Nat
<1>1. cost[w] \in Costs \cup {0}
  BY DEF TypeOK
<1>2. Costs \subseteq Nat /\ 0 \in Nat
  BY BucketAssumption
<1> QED
  BY <1>1, <1>2, Zenon

LEMMA RefilledBounded == TypeOK => Refilled \in 0..Capacity
<1> SUFFICES ASSUME TypeOK PROVE Refilled \in 0..Capacity
  OBVIOUS
<1>1. since \in Nat /\ tokens \in Nat
  BY BucketAssumption DEF TypeOK, Full
<1> QED
  BY <1>1, RefillBounded, Zenon DEF Refilled

\* A sleep lasts between nothing and an hour.
LEMMA SleepBounded ==
  ASSUME NEW n \in Nat
  PROVE  Lesser(Accrual(n), MaxWait) \in 0..MaxWait
<1> DEFINE quotient == (n + Rate - 1) \div Rate
<1>1. quotient \in Int
  BY BucketAssumption
<1> HIDE DEF quotient
<1>2. \E x \in {1, quotient} : \A y \in {1, quotient} : x >= y
  <2>1. CASE quotient >= 1
    BY <1>1, <2>1
  <2>2. CASE ~(quotient >= 1)
    BY <1>1, <2>2
  <2> QED
    BY <2>1, <2>2
<1>3. Max({1, quotient}) \in Nat
  BY <1>1, <1>2 DEF Max
<1>4. Accrual(n) \in Nat
  BY <1>3 DEF Accrual, quotient
<1> QED
  BY <1>4, TimeAssumption DEF Lesser

\* A timer that runs down stays in its range.
LEMMA DownBounded ==
  ASSUME NEW timers \in [Writers -> 0..MaxWait]
  PROVE  Down(timers) \in [Writers -> 0..MaxWait]
BY TimeAssumption DEF Down

----------------------------------------------------------------------------
LEMMA InitIInv == Init => IInv
<1> SUFFICES ASSUME Init PROVE IInv
  OBVIOUS
<1>1. TypeOK
  BY BucketAssumption, TimeAssumption DEF Init, TypeOK, PCs, Full
<1>2. Refilled \in 0..Capacity
  BY <1>1, RefilledBounded
<1>3. SpendableKept
  BY <1>2, NoProduct, BucketAssumption DEF Init, SpendableKept
<1> QED
  BY <1>1, <1>3 DEF IInv

LEMMA TypeStep == TypeOK /\ [Next]_vars => TypeOK'
<1> SUFFICES ASSUME TypeOK, [Next]_vars PROVE TypeOK'
  OBVIOUS
<1> USE DEF TypeOK
<1>1. CASE Tick
  <2>1. Down(sleep) \in [Writers -> 0..MaxWait] /\ Down(owed) \in [Writers -> 0..MaxWait]
    BY DownBounded
  <2>2. since' \in 0..Full
    BY <1>1, BucketAssumption DEF Tick, Lesser, Full
  <2>3. resetIn' \in 0..MaxWindow /\ storing' \in -1..MaxWindow
    BY <1>1, TimeAssumption DEF Tick
  <2>4. elapsed' \in 0..MaxElapsed /\ spent' \in Nat
    BY <1>1, TimeAssumption DEF Tick
  <2> QED
    BY <1>1, <2>1, <2>2, <2>3, <2>4 DEF Tick
<1>2. CASE BeginStretch
  BY <1>2, TimeAssumption DEF BeginStretch, bucket, report
<1>3. CASE Server
  <2>1. ASSUME NEW r \in {"none", "some"}, NEW t \in 0..MaxWindow,
               ObserveRemaining(r, t)
        PROVE  TypeOK'
    BY <2>1, TimeAssumption DEF ObserveRemaining, bucket, stretch
  <2>2. CASE ObserveReset
    BY <2>2, TimeAssumption DEF ObserveReset, bucket, stretch
  <2> QED
    BY <1>3, <2>1, <2>2 DEF Server
<1>4. ASSUME NEW w \in Writers, NEW c \in Costs, Charge(w, c) PROVE TypeOK'
  <2>1. owed' \in [Writers -> 0..MaxWait]
    BY <1>4, TimeAssumption DEF Charge, Lesser, Exhausted
  <2> QED
    BY <1>4, <2>1 DEF Charge, Goto, PCs, bucket, report, stretch
<1>5. ASSUME NEW w \in Writers, Step(w) PROVE TypeOK'
  <2>1. CASE LoadRemaining(w)
    BY <2>1 DEF LoadRemaining, Goto, PCs, bucket, report, stretch
  <2>2. CASE LoadReset(w)
    <3>1. sleep' \in [Writers -> 0..MaxWait]
      BY <2>2, TimeAssumption DEF LoadReset, Lesser
    <3> QED
      BY <2>2, <3>1 DEF LoadReset, Goto, PCs, bucket, report, stretch
  <2>3. CASE WindowOver(w)
    BY <2>3 DEF WindowOver, Goto, PCs, bucket, report, stretch
  <2>4. CASE Take(w)
    <3>1. tokens' \in 0..Capacity /\ since' \in 0..Full /\ spent' \in Nat
      BY <2>4, RefilledBounded, CostBounded, BucketAssumption DEF Take, Full
    <3> QED
      BY <2>4, <3>1 DEF Take, Goto, PCs, report
  <2>5. CASE TooFew(w)
    <3>1. tokens' \in 0..Capacity /\ since' \in 0..Full
      BY <2>5, RefilledBounded, BucketAssumption DEF TooFew, Full
    <3>2. cost[w] - Refilled \in Nat
      BY <2>5, RefilledBounded, CostBounded, BucketAssumption DEF TooFew
    <3>3. sleep' \in [Writers -> 0..MaxWait]
      BY <2>5, <3>2, SleepBounded DEF TooFew
    <3> QED
      BY <2>5, <3>1, <3>3 DEF TooFew, Goto, PCs, report, stretch
  <2>6. CASE SleepOver(w)
    <3>1. Exhausted \in BOOLEAN
      BY DEF Exhausted
    <3>2. closed' \in [Writers -> BOOLEAN]
      BY <2>6, <3>1, Zenon DEF SleepOver
    <3> QED
      BY <2>6, <3>2 DEF SleepOver, Goto, PCs, bucket, report, stretch
  <2>7. CASE Write(w)
    BY <2>7 DEF Write, Goto, PCs, bucket, report, stretch
  <2> QED
    BY <1>5, <2>1, <2>2, <2>3, <2>4, <2>5, <2>6, <2>7 DEF Step
<1>6. CASE UNCHANGED vars
  BY <1>6 DEF vars
<1> QED
  BY <1>1, <1>2, <1>3, <1>4, <1>5, <1>6 DEF Next

----------------------------------------------------------------------------
\* Nothing of the bucket and of the stretch changes.
LEMMA SameSpendable ==
  UNCHANGED <<tokens, since, elapsed, spent>> /\ SpendableKept => SpendableKept'
BY DEF SpendableKept, Refilled

LEMMA SpendableStep == IInv /\ [Next]_vars => SpendableKept'
<1> SUFFICES ASSUME IInv, [Next]_vars PROVE SpendableKept'
  OBVIOUS
<1>1. TypeOK /\ TypeOK' /\ SpendableKept /\ Refilled \in 0..Capacity
  BY TypeStep, RefilledBounded DEF IInv
<1>2. /\ elapsed \in Nat /\ elapsed' \in Nat /\ spent \in Nat /\ spent' \in Nat
      /\ since \in Nat /\ since' \in Nat /\ tokens \in Nat /\ tokens' \in Nat
      /\ Rate \in Nat /\ Capacity \in Nat
  BY <1>1, BucketAssumption, TimeAssumption DEF TypeOK, Full
<1>3. Refilled' \in 0..Capacity
  BY <1>2, RefillBounded, Zenon DEF Refilled
<1>4. PICK after \in 0..Capacity : after = Refilled'
  BY <1>3, Zenon
<1>5. CASE Tick
  <2>1. CASE elapsed < MaxElapsed
    <3>1. Refilled' <= Refilled + Rate
      <4>1. since' = since + 1 \/ since' = since
        BY <1>1, <1>2, <1>5 DEF Tick, TypeOK, Lesser, Full
      <4>2. tokens' = tokens
        BY <1>5 DEF Tick
      <4>3. CASE since' = since + 1
        BY <1>2, <4>2, <4>3, RefillOfOneUnit, Zenon DEF Refilled
      <4>4. CASE since' = since
        <5>1. Refilled' = Refilled
          BY <4>2, <4>4, Zenon DEF Refilled
        <5> QED
          BY <1>1, <1>2, <5>1
      <4> QED
        BY <4>1, <4>3, <4>4
    <3>2. elapsed' = elapsed + 1 /\ spent' = spent
      BY <1>5, <2>1 DEF Tick
    <3>3. Rate * elapsed' = Rate * elapsed + Rate /\ Rate * elapsed \in Nat
      BY <1>2, <3>2, NextProduct
    <3> DEFINE granted == Rate * elapsed
    <3>4. granted \in Nat /\ spent + Refilled <= Capacity + granted
      BY <1>1, <3>3 DEF SpendableKept
    <3> HIDE DEF granted
    <3>5. after <= Refilled + Rate
      BY <1>4, <3>1, Zenon
    <3>6. spent + after <= Capacity + (granted + Rate)
      BY <1>1, <1>2, <3>4, <3>5
    <3> QED
      BY <1>4, <3>2, <3>3, <3>6, Zenon DEF SpendableKept, granted
  <2>2. CASE ~(elapsed < MaxElapsed)
    <3>1. elapsed' = 0 /\ spent' = 0
      BY <1>5, <2>2 DEF Tick
    <3>2. Rate * elapsed' = 0
      BY <3>1, NoProduct, Zenon
    <3>3. spent' + after <= Capacity + 0
      BY <1>2, <3>1
    <3> QED
      BY <1>4, <3>2, <3>3, Zenon DEF SpendableKept
  <2> QED
    BY <2>1, <2>2
<1>6. CASE BeginStretch
  <2>1. elapsed' = 0 /\ spent' = 0
    BY <1>6 DEF BeginStretch
  <2>2. Rate * elapsed' = 0
    BY <2>1, NoProduct, Zenon
  <2>3. spent' + after <= Capacity + 0
    BY <1>2, <2>1
  <2> QED
    BY <1>4, <2>2, <2>3, Zenon DEF SpendableKept
<1>7. CASE Server
  BY <1>1, <1>7, SameSpendable
     DEF Server, ObserveRemaining, ObserveReset, bucket, stretch
<1>8. ASSUME NEW w \in Writers, NEW c \in Costs, Charge(w, c)
      PROVE  SpendableKept'
  BY <1>1, <1>8, SameSpendable DEF Charge, bucket, stretch
<1>9. ASSUME NEW w \in Writers, Step(w) PROVE SpendableKept'
  <2>1. since' = 0 => Refilled' = tokens'
    <3> SUFFICES ASSUME since' = 0 PROVE Refilled' = tokens'
      OBVIOUS
    <3>1. tokens' \in 0..Capacity
      BY <1>1 DEF TypeOK
    <3> QED
      BY <3>1, RefillOfNoTime, Zenon DEF Refilled
  <2>2. Rate * elapsed \in Nat
    BY <1>2, NextProduct
  <2>3. CASE Take(w)
    <3>1. /\ since' = 0 /\ tokens' = Refilled - cost[w]
          /\ spent' = spent + cost[w] /\ elapsed' = elapsed
      BY <2>3 DEF Take
    <3> QED
      BY <1>1, <1>2, <1>3, <2>1, <2>2, <3>1, CostBounded DEF SpendableKept
  <2>4. CASE TooFew(w)
    <3>1. /\ since' = 0 /\ tokens' = Refilled
          /\ spent' = spent /\ elapsed' = elapsed
      BY <2>4 DEF TooFew, stretch
    <3> QED
      BY <1>1, <1>2, <2>1, <2>2, <3>1 DEF SpendableKept
  <2>5. CASE LoadRemaining(w) \/ LoadReset(w) \/ WindowOver(w)
             \/ SleepOver(w) \/ Write(w)
    BY <1>1, <2>5, SameSpendable
       DEF LoadRemaining, LoadReset, WindowOver, SleepOver, Write, bucket, stretch
  <2> QED
    BY <1>9, <2>3, <2>4, <2>5 DEF Step
<1>10. CASE UNCHANGED vars
  BY <1>1, <1>10, SameSpendable DEF vars
<1> QED
  BY <1>5, <1>6, <1>7, <1>8, <1>9, <1>10 DEF Next

LEMMA Invariant == Spec => []IInv
<1>1. IInv /\ [Next]_vars => IInv'
  BY TypeStep, SpendableStep DEF IInv
<1> QED
  BY <1>1, InitIInv, PTL DEF Spec

----------------------------------------------------------------------------
(***************************************************************************)
(* The budget stays well-formed: the bucket never holds more than its      *)
(* capacity nor less than nothing, and no sleep exceeds an hour            *)
(* (Bucket::refill, RateLimiter::acquire).                                 *)
(***************************************************************************)
THEOREM BudgetTypeCorrect == Spec => []TypeOK
<1>1. IInv => TypeOK
  BY DEF IInv
<1> QED
  BY <1>1, Invariant, PTL

(***************************************************************************)
(* In any stretch of time, however long, any number of writers are granted *)
(* at most a full bucket and what was refilled in that time.               *)
(***************************************************************************)
THEOREM StaysWithinBudget == Spec => []BudgetKept
<1>1. IInv => BudgetKept
  <2> SUFFICES ASSUME IInv PROVE BudgetKept
    OBVIOUS
  <2>1. Refilled \in 0..Capacity /\ spent \in Nat /\ elapsed \in Nat
    BY RefilledBounded, TimeAssumption DEF IInv, TypeOK
  <2>2. Rate * elapsed \in Nat
    BY <2>1, NextProduct
  <2> QED
    BY <2>1, <2>2, BucketAssumption DEF IInv, SpendableKept, BudgetKept
<1> QED
  BY <1>1, Invariant, PTL

----------------------------------------------------------------------------
(***************************************************************************)
(* What a writer is owed.  It follows the report the writer started with:  *)
(* as long as it is positive, no newer report is half stored, and the      *)
(* writer has either still to load an exhausted window that lasts at least *)
(* as long, or sleeps at least as long.                                    *)
(***************************************************************************)
ToLoad(w) ==
  pc[w] \in {"remaining", "reset"} /\ remaining = "none" /\ resetIn >= owed[w]

Asleep(w) == pc[w] = "window" /\ sleep[w] >= owed[w]

Owing == \A w \in Writers : owed[w] > 0 => storing = -1 /\ (ToLoad(w) \/ Asleep(w))

\* What the other writers are owed does not depend on the one that acts.
LEMMA OthersOwing ==
  ASSUME TypeOK, Owing, NEW w \in Writers, NEW label, Goto(w, label),
         UNCHANGED <<remaining, resetIn, storing>>,
         \A v \in Writers \ {w} : owed'[v] = owed[v] /\ sleep'[v] = sleep[v],
         owed'[w] > 0 => ToLoad(w)' \/ Asleep(w)',
         owed'[w] > 0 => storing = -1
  PROVE  Owing'
<1>1. ASSUME NEW v \in Writers \ {w} PROVE pc'[v] = pc[v]
  BY DEF TypeOK, Goto
<1>2. ASSUME NEW v \in Writers \ {w}, owed'[v] > 0
      PROVE  storing' = -1 /\ (ToLoad(v)' \/ Asleep(v)')
  BY <1>1, <1>2 DEF Owing, ToLoad, Asleep
<1> QED
  BY <1>2 DEF Owing

LEMMA OwingTick ==
  ASSUME TypeOK, Owing, Tick
  PROVE  Owing'
<1> SUFFICES ASSUME NEW w \in Writers, owed'[w] > 0
             PROVE  storing' = -1 /\ (ToLoad(w)' \/ Asleep(w)')
  BY DEF Owing
<1>1. owed[w] \in Nat /\ sleep[w] \in Nat /\ resetIn \in Nat
  BY TimeAssumption DEF TypeOK
<1>2. owed'[w] = owed[w] - 1 /\ owed[w] > 0
  BY <1>1 DEF Tick, Down
<1>3. storing = -1 /\ (ToLoad(w) \/ Asleep(w))
  BY <1>2 DEF Owing
<1>4. storing' = -1
  BY <1>3 DEF Tick
<1>5. CASE ToLoad(w)
  BY <1>1, <1>2, <1>4, <1>5 DEF ToLoad, Tick
<1>6. CASE Asleep(w)
  <2>1. sleep'[w] = IF sleep[w] = 0 THEN 0 ELSE sleep[w] - 1
    BY DEF Tick, Down
  <2>2. pc'[w] = "window"
    BY <1>6 DEF Asleep, Tick
  <2> QED
    BY <1>1, <1>2, <1>4, <1>6, <2>1, <2>2 DEF Asleep
<1> QED
  BY <1>3, <1>5, <1>6

LEMMA OwingCharge ==
  ASSUME TypeOK, Owing, NEW w \in Writers, NEW c \in Costs, Charge(w, c)
  PROVE  Owing'
<1>1. \A v \in Writers \ {w} : owed'[v] = owed[v] /\ sleep'[v] = sleep[v]
  BY DEF Charge, TypeOK
<1>2. owed'[w] > 0 => Exhausted /\ storing = -1 /\ owed'[w] = Lesser(resetIn, MaxWait)
  BY DEF Charge, TypeOK
<1>3. pc'[w] = "remaining" /\ UNCHANGED <<remaining, resetIn, storing>>
  BY DEF Charge, Goto, TypeOK, report
<1>4. Lesser(resetIn, MaxWait) <= resetIn
  BY TimeAssumption DEF TypeOK, Lesser
<1>5. owed'[w] > 0 => ToLoad(w)'
  BY <1>2, <1>3, <1>4 DEF ToLoad, Exhausted
<1> QED
  BY <1>1, <1>2, <1>3, <1>5, OthersOwing DEF Charge

LEMMA OwingStep ==
  ASSUME TypeOK, Owing, NEW w \in Writers, Step(w)
  PROVE  Owing'
<1>1. owed[w] \in 0..MaxWait /\ resetIn \in Nat /\ sleep[w] \in Nat
  BY TimeAssumption DEF TypeOK
<1>2. owed' = owed /\ UNCHANGED <<remaining, resetIn, storing>>
  BY DEF Step, LoadRemaining, LoadReset, WindowOver, Take, TooFew, SleepOver,
         Write, report
<1>3. owed[w] > 0 => storing = -1 /\ (ToLoad(w) \/ Asleep(w))
  BY DEF Owing
<1>4. CASE LoadRemaining(w)
  <2>1. owed[w] > 0 => pc'[w] = "reset" /\ ToLoad(w)
    BY <1>3, <1>4 DEF LoadRemaining, Goto, ToLoad, Asleep, TypeOK
  <2>2. owed'[w] > 0 => ToLoad(w)'
    BY <1>2, <2>1 DEF ToLoad
  <2> QED
    BY <1>2, <1>3, <1>4, <2>2, OthersOwing DEF LoadRemaining
<1>5. CASE LoadReset(w)
  <2>1. \A v \in Writers \ {w} : sleep'[v] = sleep[v]
    BY <1>5 DEF LoadReset, TypeOK
  <2>2. ASSUME owed[w] > 0 PROVE Asleep(w)'
    <3>1. resetIn >= owed[w]
      BY <1>3, <1>5, <2>2 DEF LoadReset, ToLoad, Asleep
    <3>2. pc'[w] = "window" /\ sleep'[w] = Lesser(resetIn, MaxWait)
      BY <1>1, <1>5, <2>2, <3>1 DEF LoadReset, Goto, TypeOK
    <3>3. Lesser(resetIn, MaxWait) >= owed[w]
      BY <1>1, <3>1, TimeAssumption DEF Lesser
    <3> QED
      BY <1>2, <3>2, <3>3 DEF Asleep
  <2>3. PICK label : Goto(w, label)
    BY <1>5 DEF LoadReset
  <2> QED
    BY <1>2, <1>3, <2>1, <2>2, <2>3, OthersOwing
<1>6. CASE WindowOver(w) \/ Take(w) \/ TooFew(w) \/ SleepOver(w) \/ Write(w)
  \* A writer that gets this far is owed nothing.
  <2>1. owed[w] = 0
    BY <1>1, <1>3, <1>6
       DEF WindowOver, Take, TooFew, SleepOver, Write, ToLoad, Asleep
  <2>2. \A v \in Writers \ {w} : sleep'[v] = sleep[v]
    BY <1>6 DEF WindowOver, Take, TooFew, SleepOver, Write, TypeOK
  <2>3. PICK label : Goto(w, label)
    BY <1>6 DEF WindowOver, Take, TooFew, SleepOver, Write
  <2> QED
    BY <1>2, <2>1, <2>2, <2>3, OthersOwing
<1> QED
  BY <1>4, <1>5, <1>6 DEF Step

LEMMA OwingNext == TypeOK /\ Owing /\ [Next]_vars => Owing'
<1> SUFFICES ASSUME TypeOK, Owing, [Next]_vars
             PROVE  Owing'
  OBVIOUS
<1>1. CASE Tick
  BY <1>1, OwingTick
<1>2. CASE BeginStretch
  BY <1>2 DEF BeginStretch, Owing, ToLoad, Asleep, report
<1>3. ASSUME NEW r \in {"none", "some"}, NEW t \in 0..MaxWindow, ObserveRemaining(r, t)
      PROVE  Owing'
  BY <1>3 DEF ObserveRemaining, Owing
<1>4. CASE ObserveReset
  <2>1. ASSUME NEW w \in Writers PROVE ~(owed[w] > 0)
    BY <1>4 DEF ObserveReset, Owing
  <2> QED
    BY <1>4, <2>1 DEF ObserveReset, Owing
<1>5. ASSUME NEW w \in Writers, Step(w)
      PROVE  Owing'
  BY <1>5, OwingStep
<1>6. ASSUME NEW w \in Writers, NEW c \in Costs, Charge(w, c)
      PROVE  Owing'
  BY <1>6, OwingCharge
<1>7. CASE UNCHANGED vars
  BY <1>7 DEF vars, Owing, ToLoad, Asleep
<1> QED
  BY <1>1, <1>2, <1>3, <1>4, <1>5, <1>6, <1>7 DEF Next, Server

(***************************************************************************)
(* A write charged while the window is exhausted is not granted before the *)
(* reset, or an hour, or a newer report.  (await_server_reset,             *)
(* ratelimit.rs:339-351.)                                                  *)
(***************************************************************************)
THEOREM WaitsOutWindow == Spec => []WindowWaitedOut
<1>1. Init => TypeOK /\ Owing
  <2>1. Init => TypeOK
    BY InitIInv DEF IInv
  <2>2. Init => Owing
    BY DEF Init, Owing
  <2> QED
    BY <2>1, <2>2
<1>2. TypeOK /\ Owing /\ [Next]_vars => (TypeOK /\ Owing)'
  BY TypeStep, OwingNext
<1>3. TypeOK /\ Owing => WindowWaitedOut
  <2> SUFFICES ASSUME TypeOK, Owing, NEW w \in Writers, pc[w] = "granted"
               PROVE  owed[w] = 0
    BY DEF WindowWaitedOut
  <2>1. owed[w] \in Nat
    BY TimeAssumption DEF TypeOK
  <2>2. ~ToLoad(w) /\ ~Asleep(w)
    BY DEF ToLoad, Asleep
  <2> QED
    BY <2>1, <2>2 DEF Owing
<1> QED
  BY <1>1, <1>2, <1>3, PTL DEF Spec

============================================================================
