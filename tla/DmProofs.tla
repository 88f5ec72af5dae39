----------------------------- MODULE DmProofs -----------------------------
(***************************************************************************)
(* Proofs about DmRunner, for logs of any length, any page cap and any     *)
(* page sizes: type correctness, the order of a shutdown, the skipped      *)
(* backlog, and that the runner implements DmFeed.                         *)
(*                                                                         *)
(* The inductive invariant says where the runner is in the log: no message *)
(* of somebody else lies between the last one delivered and the entry it   *)
(* has looked at last.                                                     *)
(***************************************************************************)
EXTENDS DmRunner, SequenceTheorems, TLAPS

\* A page is walked only while the cap leaves room for it.
Paging ==
  /\ pc = "spawned" => pages = 0
  /\ pc \in {"prime", "fetch", "dispatch"} => pages < MaxLogPages

\* The page being worked off, and how far.
OnPage == pc = "dispatch" => cursor <= at /\ at <= upto

LookedAt == IF pc = "dispatch" THEN at ELSE cursor

\* Nothing is delivered before polling begins; afterwards, no gap is left.
NoGap ==
  /\ pc \in {"spawned", "prime"} => reached = 0 /\ delivered = {}
  /\ pc = "spawned" => cursor = 0
  /\ pc \in {"select", "fetch", "dispatch"} =>
       /\ reached <= LookedAt
       /\ \A j \in (reached + 1)..LookedAt : log[j] # "theirs"

\* A prime that saw the end of the log has passed the backlog.
PastBacklog ==
  /\ pc \in {"spawned", "prime"} => ~primed
  /\ primed => reached >= backlog /\ \A i \in delivered : i > backlog

\* A page fetched after the shutdown is the last.
LastPage ==
  /\ ~shutdown => late = 0
  /\ late # 0 => late = 1 /\ pc \in {"dispatch", "stopped"}

IInv == TypeOK /\ Paging /\ OnPage /\ NoGap /\ PastBacklog /\ LastPage

----------------------------------------------------------------------------
LEMMA InitIInv == Init => IInv
<1> SUFFICES ASSUME Init PROVE IInv
  OBVIOUS
<1>1. << >> \in Seq(Kinds) /\ Len(<< >>) = 0
  BY EmptySeq, Zenon
<1>2. log \in Seq(Kinds) /\ Len(log) = 0
  BY <1>1, Zenon DEF Init
<1>3. /\ pc = "spawned" /\ cursor = 0 /\ pages = 0 /\ at = 0 /\ upto = 0
      /\ reached = 0 /\ delivered = {} /\ backlog = 0 /\ ~primed /\ late = 0
  BY Zenon DEF Init
<1>4. TypeOK
  <2>1. shutdown \in BOOLEAN /\ primed \in BOOLEAN
    BY Zenon DEF Init
  <2>2. pc \in PCs /\ delivered \in SUBSET (1..Len(log))
    BY <1>3, Zenon DEF PCs
  <2>3. /\ cursor \in 0..Len(log) /\ at \in 0..Len(log) /\ upto \in 0..Len(log)
        /\ reached \in 0..Len(log) /\ backlog \in 0..Len(log)
        /\ pages \in 0..MaxLogPages /\ late \in Nat
    BY <1>2, <1>3, MaxLogPagesAssumption
  <2> QED
    BY <1>2, <2>1, <2>2, <2>3, Zenon DEF TypeOK
<1> QED
  BY <1>3, <1>4, MaxLogPagesAssumption
  DEF IInv, Paging, OnPage, NoGap, LookedAt, PastBacklog, LastPage

(***************************************************************************)
(* Appending to the log changes none of its entries.                       *)
(***************************************************************************)
LEMMA Appended ==
  ASSUME TypeOK, NEW kind \in Kinds
  PROVE  /\ Append(log, kind) \in Seq(Kinds)
         /\ Len(Append(log, kind)) = Len(log) + 1
         /\ \A j \in 1..Len(log) : Append(log, kind)[j] = log[j]
  BY DEF TypeOK

LEMMA EnvironmentIInv == IInv /\ Environment => IInv'
<1> SUFFICES ASSUME IInv, Environment PROVE IInv'
  OBVIOUS
<1> USE DEF IInv
<1>1. CASE RequestShutdown
  BY <1>1 DEF RequestShutdown, history, TypeOK, Paging, OnPage, NoGap, LookedAt,
              PastBacklog, LastPage
<1>2. ASSUME NEW kind \in Kinds, Log(kind) PROVE IInv'
  <2>1. /\ log' \in Seq(Kinds)
        /\ Len(log') = Len(log) + 1
        /\ \A j \in 1..Len(log) : log'[j] = log[j]
    BY <1>2, Appended DEF Log
  <2>2. TypeOK'
    BY <1>2, <2>1 DEF Log, history, TypeOK
  <2>3. NoGap'
    BY <1>2, <2>1 DEF Log, history, TypeOK, NoGap, LookedAt, OnPage
  <2> QED
    BY <1>2, <2>2, <2>3
    DEF Log, history, Paging, OnPage, PastBacklog, LastPage
<1> QED
  BY <1>1, <1>2 DEF Environment

LEMMA RunIInv == IInv /\ Run => IInv'
  BY MaxLogPagesAssumption
  DEF IInv, Run, Unless, TypeOK, PCs, Paging, OnPage, NoGap, LookedAt, PastBacklog,
      LastPage

LEMMA PrimeIInv ==
  IInv /\ (PrimePage \/ PrimeTail \/ PrimeFailed \/ PrimeInterrupted) => IInv'
<1> SUFFICES ASSUME IInv, PrimePage \/ PrimeTail \/ PrimeFailed \/ PrimeInterrupted
             PROVE  IInv'
  OBVIOUS
<1> USE MaxLogPagesAssumption
    DEF IInv, TypeOK, PCs, Paging, OnPage, NoGap, LookedAt, PastBacklog, LastPage
<1>1. CASE PrimePage
  BY <1>1 DEF PrimePage, Unless
<1>2. CASE PrimeTail
  BY <1>2 DEF PrimeTail
<1>3. CASE PrimeFailed
  BY <1>3 DEF PrimeFailed
<1>4. CASE PrimeInterrupted
  BY <1>4 DEF PrimeInterrupted, history
<1> QED
  BY <1>1, <1>2, <1>3, <1>4

LEMMA PollIInv ==
  IInv /\ (Tick \/ Stop \/ PollPage \/ PollTail \/ PollFailed) => IInv'
<1> SUFFICES ASSUME IInv, Tick \/ Stop \/ PollPage \/ PollTail \/ PollFailed
             PROVE  IInv'
  OBVIOUS
<1> USE MaxLogPagesAssumption
    DEF IInv, TypeOK, PCs, Paging, OnPage, NoGap, LookedAt, PastBacklog, LastPage
<1>1. CASE Tick
  BY <1>1 DEF Tick, history
<1>2. CASE Stop
  BY <1>2 DEF Stop, history
<1>3. CASE PollPage
  BY <1>3 DEF PollPage
<1>4. CASE PollTail
  BY <1>4 DEF PollTail, Unless, history
<1>5. CASE PollFailed
  BY <1>5 DEF PollFailed, Unless, history
<1> QED
  BY <1>1, <1>2, <1>3, <1>4, <1>5

LEMMA DispatchIInv ==
  ASSUME IInv, NEW i \in 1..Len(log), Dispatch(i)
  PROVE  IInv'
<1> USE DEF IInv
<1>1. /\ log' \in Seq(Kinds)
      /\ Len(log') \in {Len(log), Len(log) + 1}
      /\ \A j \in 1..Len(log) : log'[j] = log[j]
  <2>1. CASE log' = log
    BY <2>1 DEF TypeOK
  <2>2. CASE log' = Append(log, "own")
    BY <2>2, Appended DEF Kinds
  <2> QED
    BY <2>1, <2>2 DEF Dispatch
<1>2. TypeOK'
  BY <1>1 DEF Dispatch, TypeOK, Pending
<1>3. NoGap'
  BY DEF Dispatch, Pending, TypeOK, NoGap, LookedAt
<1>4. i > reached
  BY DEF Dispatch, Pending, TypeOK, NoGap, LookedAt, OnPage
<1>5. PastBacklog'
  BY <1>4 DEF Dispatch, TypeOK, PastBacklog
<1> QED
  BY <1>2, <1>3, <1>5 DEF Dispatch, Pending, TypeOK, Paging, OnPage, LastPage

LEMMA AdoptIInv == IInv /\ AdoptCursor => IInv'
<1> SUFFICES ASSUME IInv, AdoptCursor PROVE IInv'
  OBVIOUS
<1> USE MaxLogPagesAssumption DEF IInv, AdoptCursor
<1>1. TypeOK' /\ Paging' /\ OnPage'
  BY DEF history, TypeOK, PCs, Paging, OnPage
<1>2. PastBacklog'
  BY DEF history, PastBacklog
<1>3. LastPage'
  BY DEF history, TypeOK, LastPage
<1>4. NoGap'
  <2>1. \A j \in (at + 1)..upto : log[j] # "theirs"
    BY DEF Pending
  <2>2. \A j \in (reached + 1)..upto : log[j] # "theirs"
    BY <2>1 DEF NoGap, LookedAt, TypeOK
  <2> QED
    BY <2>2 DEF history, NoGap, LookedAt, OnPage, TypeOK
<1> QED
  BY <1>1, <1>2, <1>3, <1>4

LEMMA NextIInv == IInv /\ [Next]_vars => IInv'
<1> SUFFICES ASSUME IInv, [Next]_vars PROVE IInv'
  OBVIOUS
<1>1. CASE UNCHANGED vars
  BY <1>1 DEF vars, IInv, TypeOK, Paging, OnPage, NoGap, LookedAt, PastBacklog,
              LastPage
<1> QED
  BY <1>1, EnvironmentIInv, RunIInv, PrimeIInv, PollIInv, DispatchIInv, AdoptIInv
  DEF Next, Runner

LEMMA Invariance == Spec => []IInv
  BY InitIInv, NextIInv, PTL DEF Spec

----------------------------------------------------------------------------
(***************************************************************************)
(* The runner's state stays well-formed: cursors point into the log, and   *)
(* no walk exceeds the page cap.                                           *)
(***************************************************************************)
THEOREM RunnerTypeCorrect == Spec => []TypeOK
<1>1. IInv => TypeOK
  BY DEF IInv
<1> QED
  BY <1>1, Invariance, PTL

(***************************************************************************)
(* A prime that saw the end of the log skips all of the backlog.           *)
(***************************************************************************)
THEOREM SkipsBacklog == Spec => []BacklogSkipped
<1>1. IInv => BacklogSkipped
  BY DEF IInv, PastBacklog, BacklogSkipped
<1> QED
  BY <1>1, Invariance, PTL

(***************************************************************************)
(* At most one page is handled after the shutdown, however long the log.   *)
(***************************************************************************)
THEOREM StopsSoon == Spec => []StopsWithinAPage
<1>1. IInv => StopsWithinAPage
  BY DEF IInv, LastPage, StopsWithinAPage
<1> QED
  BY <1>1, Invariance, PTL

(***************************************************************************)
(* A step of the runner is a step of the feed, or a stutter.               *)
(***************************************************************************)
LEMMA StepRefines == IInv /\ [Next]_vars => [Feed!Next]_(Feed!vars)
<1> SUFFICES ASSUME IInv, [Next]_vars
             PROVE  Feed!Next \/ UNCHANGED Feed!vars
  OBVIOUS
<1> USE DEF IInv
<1>1. ASSUME NEW kind \in Kinds, Log(kind) PROVE Feed!Next
  BY <1>1 DEF Log, history, Kinds, Feed!Kinds, Feed!Grow, Feed!Next
<1>2. CASE RequestShutdown \/ Run \/ PrimeInterrupted \/ Tick \/ Stop \/ PollPage
           \/ PollTail \/ PollFailed \/ AdoptCursor \/ UNCHANGED vars
  BY <1>2 DEF RequestShutdown, Run, PrimeInterrupted, Tick, Stop, PollPage,
              PollTail, PollFailed, AdoptCursor, history, vars, Feed!vars
<1>3. CASE PrimePage \/ PrimeTail \/ PrimeFailed
  <2>1. CASE UNCHANGED reached
    BY <1>3, <2>1 DEF PrimePage, PrimeTail, PrimeFailed, Feed!vars
  <2>2. CASE reached' = cursor'
    <3>1. cursor' \in 0..Len(log)
      BY <1>3 DEF PrimePage, PrimeTail, PrimeFailed, TypeOK
    <3>2. Feed!Begin(cursor')
      BY <1>3, <2>2, <3>1
      DEF PrimePage, PrimeTail, PrimeFailed, NoGap, Feed!Begin
    <3> QED
      BY <3>1, <3>2 DEF Feed!Next
  <2> QED
    BY <1>3, <2>1, <2>2 DEF PrimePage, PrimeTail, PrimeFailed
<1>4. ASSUME NEW i \in 1..Len(log), Dispatch(i) PROVE Feed!Next
  <2>1. i \in (reached + 1)..Len(log)
    BY <1>4 DEF Dispatch, Pending, TypeOK, NoGap, LookedAt, OnPage
  <2>2. \A j \in (reached + 1)..(i - 1) : log[j] # "theirs"
    BY <1>4 DEF Dispatch, Pending, TypeOK, NoGap, LookedAt, OnPage
  <2>3. Feed!Deliver(i)
    BY <1>4, <2>1, <2>2 DEF Dispatch, Pending, Feed!Deliver
  <2> QED
    BY <2>3 DEF Feed!Next, TypeOK
<1> QED
  BY <1>1, <1>2, <1>3, <1>4 DEF Next, Environment, Runner

(***************************************************************************)
(* The runner implements DmFeed: from where polling begins, every message  *)
(* of somebody else is dispatched once, in order, without a gap.           *)
(***************************************************************************)
THEOREM ImplementsFeed == Spec => FeedSpec
<1>1. Init => Feed!Init
  BY DEF Init, Feed!Init
<1>2. IInv /\ [Next]_vars => [Feed!Next]_(Feed!vars)
  BY StepRefines
<1> QED
  BY <1>1, <1>2, Invariance, PTL DEF Spec, FeedSpec, Feed!Spec

============================================================================
