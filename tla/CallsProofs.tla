---------------------------- MODULE CallsProofs ----------------------------
(***************************************************************************)
(* Proofs about the calls of a bot's code: a thread, for drafts of any     *)
(* length, however they are split and whatever fails (Threads); reads of   *)
(* several pages, for listings of any length and any page size (Reads); a  *)
(* post, whatever it is composed of (PostBuilder); the account, for any    *)
(* number of tasks and calls (Account); and build, for any sequence of     *)
(* configurations (BotBuild).                                              *)
(***************************************************************************)
EXTENDS Threads, PostBuilder, Reads, Account, BotBuild, SequenceTheorems, FiniteSetTheorems,
        WellFoundedInduction, TLAPS

----------------------------------------------------------------------------
(***************************************************************************)
(* Numbers, recursive functions and sequences, as the sections below need  *)
(* them.  Induction is over a set of numbers: the set of those for which   *)
(* the claim holds contains 0 and each one's successor, hence all.         *)
(***************************************************************************)

\* A set of numbers that is not empty has a lowest one.
LEMMA LowestExists ==
  ASSUME NEW S, S \subseteq Nat, S # {}
  PROVE  /\ (CHOOSE i \in S : \A j \in S : i <= j) \in S
         /\ \A k \in S : (CHOOSE i \in S : \A j \in S : i <= j) <= k
<1>1. PICK x \in S : \A y \in S : <<y, x>> \notin OpToRel(<, Nat)
  BY WFMin, NatLessThanWellFounded
<1>2. ASSUME NEW y \in S PROVE ~(y < x)
  BY <1>1, Zenon DEF OpToRel
<1>3. \A y \in S : x <= y
  BY <1>2
<1> QED
  BY <1>3

\* What holds of 0 and goes on from each number to the next holds of all: P is the
\* set of the numbers it holds of.
LEMMA Counting ==
  ASSUME NEW P, 0 \in P, \A k \in Nat : k \in P => k + 1 \in P
  PROVE  Nat \subseteq P
<1> SUFFICES ASSUME Nat \ P # {} PROVE FALSE
  OBVIOUS
<1> DEFINE k == CHOOSE i \in Nat \ P : \A j \in Nat \ P : i <= j
<1>1. k \in Nat \ P
  BY LowestExists
<1>2. \A j \in Nat \ P : k <= j
  BY LowestExists
<1> HIDE DEF k
<1>3. k # 0 /\ k - 1 \in Nat
  BY <1>1
<1>4. k - 1 \notin P
  BY <1>1, <1>3
<1> QED
  BY <1>1, <1>2, <1>3, <1>4

\* A recursion over D: the value at d is what rule gives, which asks for the values
\* at a lower rank only.
Recursion(D, S, N, rank, rule) ==
  /\ S # {} /\ N \in Nat /\ rank \in [D -> 0..N] /\ rule \in [D \X [D -> S] -> S]
  /\ \A d \in D : \A g, h \in [D -> S] :
       (\A e \in D : rank[e] < rank[d] => g[e] = h[e]) => rule[<<d, g>>] = rule[<<d, h>>]

\* The functions it defines.
Recursive(D, S, rule) == {f \in [D -> S] : \A d \in D : f[d] = rule[<<d, f>>]}

LEMMA RecursionExists ==
  ASSUME NEW D, NEW S, NEW N, NEW rank, NEW rule, Recursion(D, S, N, rank, rule)
  PROVE  \E f : f \in Recursive(D, S, rule)
<1> USE DEF Recursion
<1> SUFFICES \E f \in [D -> S] : \A d \in D : f[d] = rule[<<d, f>>]
  BY Zenon DEF Recursive
<1> DEFINE P == {k \in Nat : \E f \in [D -> S] :
                   \A d \in D : rank[d] < k => f[d] = rule[<<d, f>>]}
<1>1. 0 \in P
  <2>1. PICK s \in S : TRUE
    OBVIOUS
  <2>2. [d \in D |-> s] \in [D -> S]
    OBVIOUS
  <2>3. \A d \in D : ~(rank[d] < 0)
    OBVIOUS
  <2> QED
    BY <2>2, <2>3
<1>2. ASSUME NEW k \in Nat, k \in P PROVE k + 1 \in P
  <2>1. PICK f \in [D -> S] : \A d \in D : rank[d] < k => f[d] = rule[<<d, f>>]
    BY <1>2
  <2> DEFINE g == [d \in D |-> IF rank[d] = k THEN rule[<<d, f>>] ELSE f[d]]
  <2>2. g \in [D -> S]
    OBVIOUS
  <2>3. \A d \in D : rank[d] < k => g[d] = f[d]
    OBVIOUS
  <2>4. \A d \in D : rank[d] = k => g[d] = rule[<<d, f>>]
    OBVIOUS
  <2> HIDE DEF g
  <2>5. ASSUME NEW d \in D, rank[d] < k + 1 PROVE g[d] = rule[<<d, g>>]
    <3>1. rank[d] \in Nat
      OBVIOUS
    <3>2. \A e \in D : rank[e] \in Nat /\ (rank[e] < rank[d] => f[e] = g[e])
      BY <2>3, <2>5, <3>1
    <3>3. rule[<<d, f>>] = rule[<<d, g>>]
      BY <2>2, <3>2
    <3>4. rank[d] < k \/ rank[d] = k
      BY <2>5, <3>1
    <3> QED
      BY <2>1, <2>3, <2>4, <3>3, <3>4, Zenon
  <2> QED
    BY <2>2, <2>5
<1> HIDE DEF P
<1>3. Nat \subseteq P
  BY <1>1, <1>2, Counting
<1>4. N + 1 \in P
  BY <1>3
<1>5. PICK f \in [D -> S] : \A d \in D : rank[d] < N + 1 => f[d] = rule[<<d, f>>]
  BY <1>4 DEF P
<1>6. \A d \in D : rank[d] < N + 1
  OBVIOUS
<1> QED
  BY <1>5, <1>6

\* A function on 1..n is a sequence.
LEMMA AsSequence ==
  ASSUME NEW S, NEW n \in Nat, NEW f, f \in [1..n -> S]
  PROVE  f \in Seq(S) /\ Len(f) = n
<1>1. f \in Seq(S)
  OBVIOUS
<1>2. Len(f) \in Nat /\ 1..Len(f) = 1..n
  BY <1>1, LenProperties
<1> QED
  BY <1>1, <1>2

\* Where the elements of two sequences are once they are joined.
LEMMA Joined ==
  ASSUME NEW S, NEW s \in Seq(S), NEW t \in Seq(S)
  PROVE  /\ s \o t \in Seq(S) /\ Len(s) \in Nat /\ Len(t) \in Nat
         /\ Len(s \o t) = Len(s) + Len(t)
         /\ \A k \in 1..Len(s) : k \in 1..Len(s \o t) /\ (s \o t)[k] = s[k]
         /\ \A k \in 1..Len(t) : /\ Len(s) + k \in 1..Len(s \o t)
                                 /\ (s \o t)[Len(s) + k] = t[k]
         /\ \A k \in 1..Len(s \o t) : k \in 1..Len(s) \/ \E h \in 1..Len(t) : k = Len(s) + h
<1> DEFINE r == s \o t
<1>1. /\ r \in Seq(S) /\ Len(s) \in Nat /\ Len(t) \in Nat /\ Len(r) = Len(s) + Len(t)
      /\ \A i \in 1..Len(s) + Len(t) : r[i] = IF i <= Len(s) THEN s[i] ELSE t[i - Len(s)]
  BY ConcatProperties, LenProperties
<1> HIDE DEF r
<1>2. \A k \in 1..Len(s) : k \in 1..Len(r) /\ r[k] = s[k]
  BY <1>1
<1>3. ASSUME NEW k \in 1..Len(t) PROVE Len(s) + k \in 1..Len(r) /\ r[Len(s) + k] = t[k]
  <2>1. /\ Len(s) + k \in 1..Len(s) + Len(t) /\ ~(Len(s) + k <= Len(s))
        /\ (Len(s) + k) - Len(s) = k
    BY <1>1
  <2> QED
    BY <1>1, <2>1
<1>4. ASSUME NEW k \in 1..Len(r), k \notin 1..Len(s)
      PROVE  \E h \in 1..Len(t) : k = Len(s) + h
  <2>1. k - Len(s) \in 1..Len(t) /\ k = Len(s) + (k - Len(s))
    BY <1>1, <1>4
  <2> QED
    BY <2>1
<1> QED
  BY <1>1, <1>2, <1>3, <1>4 DEF r

\* FlattenSeq joins its sequences one by one.
LEMMA FlattenRecursive ==
  ASSUME NEW S, NEW seqs \in Seq(Seq(S)), Len(seqs) # 0
  PROVE  \E f \in [1..Len(seqs) -> Seq(S)] :
           /\ FlattenSeq(seqs) = f[Len(seqs)]
           /\ \A i \in 1..Len(seqs) : f[i] = IF i = 1 THEN seqs[i] ELSE f[i - 1] \o seqs[i]
<1> DEFINE n == Len(seqs)
           D == 1..n
           rank == [d \in D |-> d]
           body(g, d) == IF d = 1 THEN seqs[d] ELSE g[d - 1] \o seqs[d]
           rule == [p \in D \X [D -> Seq(S)] |-> body(p[2], p[1])]
<1>1. n \in Nat
  BY LenProperties
<1>2. \A d \in D : seqs[d] \in Seq(S) /\ (d # 1 => d - 1 \in D /\ d - 1 < d)
  <2>1. \A d \in D : seqs[d] \in Seq(S)
    BY ElementOfSeq
  <2> QED
    BY <1>1, <2>1
<1>3. ASSUME NEW d \in D, NEW g \in [D -> Seq(S)] PROVE body(g, d) \in Seq(S)
  BY <1>2, ConcatProperties
<1>4. rule \in [D \X [D -> Seq(S)] -> Seq(S)]
  BY <1>3
<1>5. ASSUME NEW d \in D, NEW g \in [D -> Seq(S)], NEW h \in [D -> Seq(S)],
             \A e \in D : rank[e] < rank[d] => g[e] = h[e]
      PROVE  rule[<<d, g>>] = rule[<<d, h>>]
  <2>1. rule[<<d, g>>] = body(g, d) /\ rule[<<d, h>>] = body(h, d)
    OBVIOUS
  <2>2. d # 1 => g[d - 1] = h[d - 1]
    BY <1>2, <1>5
  <2> QED
    BY <2>1, <2>2
<1>6. rank \in [D -> 0..n]
  BY <1>1
<1>7. Recursion(D, Seq(S), n, rank, rule)
  <2>1. Seq(S) # {}
    BY EmptySeq
  <2> HIDE DEF D, rank, rule, n
  <2> QED
    BY <1>1, <1>4, <1>5, <1>6, <2>1 DEF Recursion
<1> HIDE DEF rank, rule
<1>8. PICK f \in [D -> Seq(S)] : \A d \in D : f[d] = rule[<<d, f>>]
  <2> HIDE DEF D
  <2>1. PICK f : f \in Recursive(D, Seq(S), rule)
    BY <1>7, RecursionExists, Zenon
  <2> QED
    BY <2>1, Zenon DEF Recursive
<1>9. f = [d \in D |-> body(f, d)]
  BY <1>8 DEF rule
<1> DEFINE flat == CHOOSE g : g = [d \in D |-> body(g, d)]
<1>10. flat = [d \in D |-> body(flat, d)]
  BY <1>9
<1>11. FlattenSeq(seqs) = flat[n]
  BY DEF FlattenSeq
<1> HIDE DEF flat
<1>12. \A d \in D : flat[d] = body(flat, d)
  BY <1>10
<1>13. flat \in [D -> Seq(S)]
  <2> DEFINE P == {k \in Nat : k \in D => flat[k] \in Seq(S)}
  <2>1. 0 \in P
    OBVIOUS
  <2>2. ASSUME NEW k \in Nat, k \in P PROVE k + 1 \in P
    <3> SUFFICES ASSUME k + 1 \in D PROVE flat[k + 1] \in Seq(S)
      OBVIOUS
    <3>1. CASE k = 0
      <4>1. 1 \in D /\ k + 1 = 1
        BY <3>1
      <4>2. flat[1] = seqs[1]
        BY <1>12, <4>1
      <4> QED
        BY <1>2, <4>1, <4>2
    <3>2. CASE k # 0
      <4>1. k \in D /\ flat[k] \in Seq(S) /\ (k + 1) - 1 = k /\ k + 1 # 1
        BY <1>1, <2>2, <3>2
      <4>2. flat[k + 1] = flat[k] \o seqs[k + 1]
        BY <1>12, <4>1
      <4> QED
        BY <1>2, <4>1, <4>2, ConcatProperties
    <3> QED
      BY <3>1, <3>2
  <2> HIDE DEF P
  <2>3. Nat \subseteq P
    BY <2>1, <2>2, Counting
  <2>4. \A d \in D : flat[d] \in Seq(S)
    BY <1>1, <2>3 DEF P
  <2> QED
    BY <1>10, <2>4
<1> QED
  BY <1>11, <1>12, <1>13

\* A sequence is that of its elements, each on its own, with nothing after them.
LEMMA FlattenSingles ==
  ASSUME NEW S, NEW s \in Seq(S), NEW seqs \in Seq(Seq(S)), Len(s) <= Len(seqs),
         \A i \in 1..Len(s) : seqs[i] = <<s[i]>>,
         \A i \in 1..Len(seqs) : i > Len(s) => seqs[i] = <<>>
  PROVE  FlattenSeq(seqs) = s
<1>1. Len(s) \in Nat /\ Len(seqs) \in Nat
  BY LenProperties
<1>2. CASE Len(seqs) = 0
  <2>1. seqs = <<>> /\ s = <<>>
    <3>1. Len(s) = 0
      BY <1>1, <1>2
    <3> QED
      BY <1>2, <3>1, EmptySeq
  <2>2. FlattenSeq(seqs) = seqs
    BY <1>2, Zenon DEF FlattenSeq
  <2> QED
    BY <2>1, <2>2
<1>3. CASE Len(seqs) # 0
  <2>1. PICK f \in [1..Len(seqs) -> Seq(S)] :
          /\ FlattenSeq(seqs) = f[Len(seqs)]
          /\ \A i \in 1..Len(seqs) : f[i] = IF i = 1 THEN seqs[i] ELSE f[i - 1] \o seqs[i]
    BY <1>3, FlattenRecursive
  <2> DEFINE P == {k \in Nat : k \in 1..Len(seqs) =>
                     /\ k <= Len(s) => f[k] = SubSeq(s, 1, k)
                     /\ k > Len(s) => f[k] = s}
  <2>2. 0 \in P
    OBVIOUS
  <2>3. ASSUME NEW k \in Nat, k \in P PROVE k + 1 \in P
    <3> SUFFICES ASSUME k + 1 \in 1..Len(seqs)
                 PROVE  /\ k + 1 <= Len(s) => f[k + 1] = SubSeq(s, 1, k + 1)
                        /\ k + 1 > Len(s) => f[k + 1] = s
      OBVIOUS
    <3>1. f[k + 1] = IF k = 0 THEN seqs[k + 1] ELSE f[k] \o seqs[k + 1]
      <4>1. (k + 1) - 1 = k /\ (k + 1 = 1 <=> k = 0)
        OBVIOUS
      <4> QED
        BY <2>1, <4>1
    <3>2. CASE k + 1 <= Len(s)
      <4>1. k + 1 \in 1..Len(s) /\ 1 \in 1..Len(s)
        BY <1>1, <3>2
      <4>2. SubSeq(s, 1, k + 1) = SubSeq(s, 1, k) \o <<s[k + 1]>>
        <5>1. SubSeq(s, 1, k + 1) = SubSeq(s, 1, (k + 1) - 1) \o <<s[k + 1]>>
          BY <4>1, SubSeqRecursiveSecond
        <5>2. (k + 1) - 1 = k
          OBVIOUS
        <5> QED
          BY <5>1, <5>2, Zenon
      <4>3. seqs[k + 1] = <<s[k + 1]>> /\ seqs[k + 1] \in Seq(S)
        BY <4>1, ElementOfSeq
      <4>4. CASE k = 0
        <5>1. SubSeq(s, 1, k) = <<>>
          BY <4>4, SubSeqEmpty
        <5>2. SubSeq(s, 1, k + 1) = <<s[k + 1]>>
          BY <4>2, <4>3, <5>1, ConcatEmptySeq
        <5> QED
          BY <1>1, <3>1, <3>2, <4>3, <4>4, <5>2
      <4>5. CASE k # 0
        <5>1. k \in 1..Len(seqs) /\ k <= Len(s)
          BY <1>1, <3>2, <4>5
        <5>2. f[k] = SubSeq(s, 1, k)
          BY <2>3, <5>1
        <5> QED
          BY <1>1, <3>1, <3>2, <4>2, <4>3, <4>5, <5>2
      <4> QED
        BY <4>4, <4>5
    <3>3. CASE k + 1 > Len(s)
      <4>1. seqs[k + 1] = <<>>
        BY <3>3
      <4>2. CASE k = 0
        <5>1. s = <<>>
          <6>1. Len(s) = 0
            BY <1>1, <3>3, <4>2
          <6> QED
            BY <6>1, EmptySeq
        <5> QED
          BY <1>1, <3>1, <3>3, <4>1, <4>2, <5>1
      <4>3. CASE k # 0
        <5>1. k \in 1..Len(seqs) /\ (k > Len(s) \/ k = Len(s))
          BY <1>1, <3>3, <4>3
        <5>2. f[k] = s
          <6>1. SubSeq(s, 1, Len(s)) = s
            BY SubSeqFull
          <6>2. k = Len(s) => f[k] = SubSeq(s, 1, k)
            BY <1>1, <2>3, <5>1
          <6> QED
            BY <2>3, <5>1, <6>1, <6>2
        <5>3. s \o <<>> = s
          BY ConcatEmptySeq
        <5> QED
          BY <1>1, <3>1, <3>3, <4>1, <4>3, <5>2, <5>3
      <4> QED
        BY <4>2, <4>3
    <3> QED
      BY <1>1, <3>2, <3>3
  <2> HIDE DEF P
  <2>4. Nat \subseteq P
    BY <2>2, <2>3, Counting
  <2>5. Len(seqs) \in P /\ Len(seqs) \in 1..Len(seqs)
    BY <1>1, <1>3, <2>4
  <2>6. SubSeq(s, 1, Len(s)) = s
    BY SubSeqFull
  <2>7. Len(seqs) = Len(s) \/ Len(seqs) > Len(s)
    BY <1>1
  <2>8. /\ Len(seqs) <= Len(s) => f[Len(seqs)] = SubSeq(s, 1, Len(seqs))
        /\ Len(seqs) > Len(s) => f[Len(seqs)] = s
    BY <2>5, Zenon DEF P
  <2>9. Len(seqs) = Len(s) => f[Len(seqs)] = s
    <3>1. Len(seqs) <= Len(seqs)
      BY <1>1
    <3> QED
      BY <2>6, <2>8, <3>1, Zenon
  <2> QED
    BY <2>1, <2>7, <2>8, <2>9, Zenon
<1> QED
  BY <1>2, <1>3

LEMMA OneMore ==
  ASSUME NEW S, NEW s \in Seq(S), NEW e \in S
  PROVE  /\ s \o <<e>> \in Seq(S) /\ Len(s \o <<e>>) = Len(s) + 1
         /\ \A i \in 1..Len(s) : (s \o <<e>>)[i] = s[i]
         /\ (s \o <<e>>)[Len(s) + 1] = e
BY AppendProperties, AppendIsConcat

----------------------------------------------------------------------------
(***************************************************************************)
(* Threads.  The thread to go on from is always that of the last post: its *)
(* parent is the newest record, its root the first one or the root of what *)
(* the thread replies to.                                                  *)
(***************************************************************************)
Posts == [segment : Nat, reply : Replies]

First == IF draft.reply = Nil THEN 1 ELSE draft.reply.root

ThreadType ==
  /\ draft \in ThreadDrafts
  /\ outputs \in Seq(Int) /\ repo \in Seq(Posts)

\* How many posts were made at each stage.
Progress ==
  /\ sending \in {"new", "sending", "sent", "failed"}
  /\ sending = "new" => Len(repo) = 0 /\ Len(outputs) = 0
  /\ sending \in {"sending", "sent"} => Len(repo) = Len(outputs)
  /\ sending = "sent" => Len(repo) = Len(plan)
  /\ sending = "failed" => Len(repo) \in {Len(outputs), Len(outputs) + 1}

\* Where the next post is linked to.
Here ==
  sending = "sending" =>
    IF Len(repo) = 0
    THEN IF draft.reply = Nil THEN root = Nil /\ parent = Nil
         ELSE root = draft.reply.root /\ parent = draft.reply.parent
    ELSE root = First /\ parent = Len(repo)

Segments == \A i \in 1..Len(repo) : repo[i].segment = i

Chain ==
  \A i \in 1..Len(repo) :
    IF i = 1 THEN repo[i].reply = draft.reply
    ELSE repo[i].reply = [parent |-> i - 1, root |-> First]

ThreadInv == ThreadType /\ Progress /\ Here /\ Segments /\ Chain

LEMMA ThreadInitInv == ThreadInit /\ repo = <<>> => ThreadInv
<1> SUFFICES ASSUME ThreadInit, repo = <<>> PROVE ThreadInv
  OBVIOUS
<1>1. /\ <<>> \in Seq(Int) /\ <<>> \in Seq(Posts)
  BY EmptySeq, Zenon
<1>2. Len(<<>>) = 0
  BY EmptySeq, Zenon
<1>3. Len(repo) = 0 /\ Len(outputs) = 0 /\ sending = "new"
  BY <1>2, Zenon DEF ThreadInit
<1>4. ThreadType
  BY <1>1, Zenon DEF ThreadInit, ThreadType
<1> QED
  BY <1>3, <1>4 DEF ThreadInv, Progress, Here, Segments, Chain

\* The record a post is written as is linked as the chain wants it.
LEMMA RecordLinked ==
  ASSUME ThreadInv, sending = "sending"
  PROVE  LET i == Len(repo) + 1 IN
         /\ Record(i) \in Posts /\ Record(i).segment = i
         /\ IF i = 1 THEN Record(i).reply = draft.reply
            ELSE Record(i).reply = [parent |-> i - 1, root |-> First]
<1>1. Len(repo) \in Nat
  BY DEF ThreadInv, ThreadType
<1>2. draft.reply \in Replies
  BY ReplyAssumption DEF ThreadInv, ThreadType
<1>3. First \in Int
  BY <1>2 DEF First, Replies
<1>4. CASE Len(repo) = 0
  <2>1. CASE draft.reply = Nil
    BY <1>1, <1>2, <1>4, <2>1 DEF ThreadInv, Here, Record, Posts
  <2>2. CASE draft.reply # Nil
    <3>1. /\ draft.reply \in [parent : Int, root : Int]
          /\ root = draft.reply.root /\ parent = draft.reply.parent
      BY <1>2, <1>4, <2>2 DEF Replies, ThreadInv, Here
    <3>2. root # Nil /\ parent # Nil
      BY <3>1, NilAssumption
    <3>3. draft.reply = [parent |-> parent, root |-> root]
      BY <3>1
    <3>4. Record(1) = [segment |-> 1, reply |-> draft.reply]
      BY <3>2, <3>3 DEF Record
    <3> QED
      BY <1>1, <1>2, <1>4, <3>4 DEF Posts
  <2> QED
    BY <2>1, <2>2
<1>5. CASE Len(repo) # 0
  <2>1. root = First /\ parent = Len(repo)
    BY <1>5 DEF ThreadInv, Here
  <2>2. root # Nil /\ parent # Nil
    BY <1>1, <1>3, <2>1, NilAssumption
  <2> DEFINE k == Len(repo) + 1
  <2>3. Record(k) = [segment |-> k, reply |-> [parent |-> Len(repo), root |-> First]]
    BY <2>1, <2>2 DEF Record
  <2>4. k \in Nat /\ k - 1 = Len(repo) /\ k # 1
    BY <1>1, <1>5
  <2>5. [parent |-> Len(repo), root |-> First] \in Replies
    BY <1>1, <1>3 DEF Replies
  <2> QED
    BY <2>3, <2>4, <2>5 DEF Posts
<1> QED
  BY <1>4, <1>5

LEMMA PostSegmentInv ==
  ASSUME ThreadInv, NEW outcome \in Outcomes, PostSegment(outcome)
  PROVE  ThreadInv'
<1> DEFINE k == Len(repo) + 1
           record == Record(k)
<1>1. /\ Len(repo) \in Nat /\ Len(repo) = Len(outputs) /\ k \in Nat /\ k >= 1
      /\ sending = "sending"
  BY DEF ThreadInv, ThreadType, Progress, PostSegment
<1>2. /\ record \in Posts /\ record.segment = k
      /\ IF k = 1 THEN record.reply = draft.reply
         ELSE record.reply = [parent |-> k - 1, root |-> First]
  BY <1>1, RecordLinked
<1>3. repo' = repo \/ repo' = Append(repo, record)
  BY <1>1 DEF PostSegment, Created
<1>4. UNCHANGED <<draft, plan>> /\ First' = First
  BY DEF PostSegment, First
<1> HIDE DEF record
<1>5. repo' \in Seq(Posts) /\ Segments' /\ Chain' /\ Len(repo') \in {Len(repo), k}
  <2>1. CASE repo' = repo
    BY <2>1, <1>4 DEF ThreadInv, ThreadType, Segments, Chain
  <2>2. CASE repo' = Append(repo, record)
    <3>1. /\ repo' \in Seq(Posts) /\ Len(repo') = k
          /\ \A i \in 1..Len(repo) : repo'[i] = repo[i]
          /\ repo'[k] = record
      BY <2>2, <1>2 DEF ThreadInv, ThreadType
    <3>2. \A i \in 1..Len(repo') : i \in 1..Len(repo) \/ i = k
      BY <3>1, <1>1
    <3>3. Segments'
      BY <3>1, <3>2, <1>2 DEF ThreadInv, Segments
    <3>4. Chain'
      BY <3>1, <3>2, <1>2, <1>4 DEF ThreadInv, Chain
    <3> QED
      BY <3>1, <3>3, <3>4
  <2> QED
    BY <1>3, <2>1, <2>2
<1>6. CASE outcome = "ok"
  <2>1. repo' = Append(repo, record) /\ Len(repo') = k
    BY <1>1, <1>2, <1>6 DEF PostSegment, Created, record, ThreadInv, ThreadType
  <2>2. outputs' = Append(outputs, k) /\ Threaded(k)
    BY <1>6 DEF PostSegment, NewRef
  <2>3. outputs' \in Seq(Int) /\ Len(outputs') = k
    BY <1>1, <2>2 DEF ThreadInv, ThreadType
  <2>4. /\ sending' \in {"sending", "sent"}
        /\ sending' = "sent" => Len(outputs') = Len(plan)
    BY <1>6 DEF PostSegment
  <2>5. root' = First
    <3>1. draft.reply \in Replies
      BY ReplyAssumption DEF ThreadInv, ThreadType
    <3>2. CASE Len(repo) = 0
      BY <1>1, <2>2, <3>1, <3>2, NilAssumption
      DEF Threaded, First, ThreadInv, Here, Replies
    <3>3. CASE Len(repo) # 0
      <4>1. root = First /\ First # Nil
        BY <1>1, <3>1, <3>3, NilAssumption DEF ThreadInv, Here, First, Replies
      <4> QED
        BY <2>2, <4>1 DEF Threaded
    <3> QED
      BY <3>2, <3>3
  <2>6. ThreadType'
    BY <1>4, <1>5, <2>3 DEF ThreadInv, ThreadType
  <2>7. Progress'
    BY <1>4, <2>1, <2>3, <2>4 DEF Progress
  <2>8. Here'
    BY <1>1, <1>4, <2>1, <2>2, <2>5 DEF Here, Threaded
  <2> QED
    BY <1>5, <2>6, <2>7, <2>8 DEF ThreadInv
<1>7. CASE outcome # "ok"
  <2>1. sending' = "failed" /\ outputs' = outputs
    BY <1>7 DEF PostSegment
  <2>2. ThreadType'
    BY <1>4, <1>5, <2>1 DEF ThreadInv, ThreadType
  <2>3. Progress' /\ Here'
    BY <1>1, <1>5, <2>1 DEF Progress, Here
  <2> QED
    BY <1>5, <2>2, <2>3 DEF ThreadInv
<1> QED
  BY <1>6, <1>7

LEMMA ThreadNextInv == ThreadInv /\ [ThreadNext]_<<threadVars, repo>> => ThreadInv'
<1> SUFFICES ASSUME ThreadInv, [ThreadNext]_<<threadVars, repo>> PROVE ThreadInv'
  OBVIOUS
<1>1. CASE SendThread
  BY <1>1 DEF SendThread, ThreadInv, ThreadType, Progress, Here, Segments, Chain, First
<1>2. CASE FacetsFail
  BY <1>2 DEF FacetsFail, ThreadInv, ThreadType, Progress, Here, Segments, Chain, First
<1>3. ASSUME NEW outcome \in Outcomes, PostSegment(outcome) PROVE ThreadInv'
  BY <1>3, PostSegmentInv
<1>4. CASE UNCHANGED <<threadVars, repo>>
  BY <1>4 DEF threadVars, ThreadInv, ThreadType, Progress, Here, Segments, Chain, First
<1> QED
  BY <1>1, <1>2, <1>3, <1>4 DEF ThreadNext

(***************************************************************************)
(* What a thread has published is always the start of its plan, whichever  *)
(* request failed or lost its answer (ThreadBuilder::send, thread.rs).     *)
(***************************************************************************)
THEOREM PublishesPrefix == ThreadSpec => []PublishedIsPrefix
<1>1. ThreadInv => PublishedIsPrefix
  BY DEF ThreadInv, Progress, Segments, PublishedIsPrefix
<1> QED
  BY <1>1, ThreadInitInv, ThreadNextInv, PTL DEF ThreadSpec

(***************************************************************************)
(* The posts of a thread are one chain with one root, also when the thread *)
(* is itself a reply (ThreadBuilder::send, thread.rs).                     *)
(***************************************************************************)
THEOREM ThreadsOneChain == ThreadSpec => []OneChain
<1>1. ThreadInv => OneChain
  BY DEF ThreadInv, Chain, First, OneChain
<1> QED
  BY <1>1, ThreadInitInv, ThreadNextInv, PTL DEF ThreadSpec

----------------------------------------------------------------------------
(***************************************************************************)
(* How a text is split, for texts of any length.  From a start the chunks  *)
(* are the one at its first letter and those from where the next begins,   *)
(* so what holds of them is proved by induction from the text's end.       *)
(***************************************************************************)
LEMMA HighestExists ==
  ASSUME NEW S, S \subseteq Nat, S # {}, NEW N \in Nat, \A i \in S : i <= N
  PROVE  Highest(S) \in S /\ \A k \in S : k <= Highest(S)
<1> DEFINE T == {k \in Nat : \A i \in S : i <= k}
           l == CHOOSE k \in T : \A j \in T : k <= j
<1>1. l \in T /\ \A k \in T : l <= k
  BY LowestExists
<1> HIDE DEF l
<1>2. l \in Nat /\ \A i \in S : i <= l
  BY <1>1
<1> SUFFICES ASSUME l \notin S PROVE FALSE
  BY <1>2 DEF Highest
<1>3. \A i \in S : i \in Nat /\ i <= l /\ i # l
  BY <1>2
<1>4. PICK i \in S : TRUE
  OBVIOUS
<1>5. l - 1 \in T
  BY <1>2, <1>3, <1>4
<1> QED
  BY <1>1, <1>2, <1>5

FirstAt(text, start) == Lowest(Letters(text, start))

FitsAt(text, max, start) == Len(text) - FirstAt(text, start) < max

NextAt(text, max, start) ==
  LET first == FirstAt(text, start)
  IN  IF Breaks(text, first, max) = {} THEN first + max ELSE Highest(Breaks(text, first, max))

\* The chunks from a start, when g gives those from each later one.
ChunksFrom(text, max, g, start) ==
  IF Letters(text, start) = {} THEN <<>>
  ELSE IF FitsAt(text, max, start)
       THEN <<Chunk(text, FirstAt(text, start), Len(text))>>
       ELSE <<Chunk(text, FirstAt(text, start), NextAt(text, max, start) - 1)>>
              \o g[NextAt(text, max, start)]

LEMMA FirstLetter ==
  ASSUME NEW S, NEW text \in Seq(S), NEW start \in 1..Len(text) + 1, Letters(text, start) # {}
  PROVE  /\ FirstAt(text, start) \in start..Len(text) /\ start \in Nat
         /\ text[FirstAt(text, start)] # Space
         /\ \A i \in Letters(text, start) : FirstAt(text, start) <= i
<1>1. Len(text) \in Nat
  BY LenProperties
<1>2. Letters(text, start) \subseteq Nat
  BY <1>1 DEF Letters
<1>3. /\ FirstAt(text, start) \in Letters(text, start)
      /\ \A i \in Letters(text, start) : FirstAt(text, start) <= i
  BY <1>2, LowestExists DEF FirstAt, Lowest
<1> QED
  BY <1>1, <1>3 DEF Letters

\* Where the next chunk begins: after the first letter and within the budget, at the
\* last white space there or, without any, in the middle of a word.
LEMMA NextStart ==
  ASSUME NEW S, NEW text \in Seq(S), NEW max \in Nat \ {0}, NEW start \in 1..Len(text) + 1,
         Letters(text, start) # {}, ~FitsAt(text, max, start)
  PROVE  LET first == FirstAt(text, start)
             next  == NextAt(text, max, start)
         IN  /\ next \in first + 1..Len(text) /\ next <= first + max
             /\ \/ text[next] = Space /\ \A i \in first + 1..first + max :
                                           text[i] = Space => i <= next
                \/ /\ next = first + max
                   /\ \A i \in first + 1..first + max : text[i] # Space
<1> DEFINE first == FirstAt(text, start)
           next  == NextAt(text, max, start)
           breaks == Breaks(text, first, max)
<1>1. first \in Nat /\ Len(text) \in Nat
  BY FirstLetter, LenProperties
<1>2. first + max <= Len(text)
  BY <1>1 DEF FitsAt
<1>3. CASE breaks = {}
  <2>1. next = first + max
    BY <1>3 DEF NextAt
  <2>2. \A i \in first + 1..first + max : text[i] # Space
    BY <1>3 DEF Breaks
  <2> HIDE DEF first, next
  <2> QED
    BY <1>1, <1>2, <2>1, <2>2 DEF first, next
<1>4. CASE breaks # {}
  <2>1. next = Highest(breaks)
    BY <1>4 DEF NextAt
  <2> HIDE DEF first, next
  <2>2. breaks \subseteq Nat /\ (\A i \in breaks : i <= first + max) /\ first + max \in Nat
    BY <1>1 DEF Breaks
  <2>3. next \in breaks /\ \A i \in breaks : i <= next
    BY <1>4, <2>1, <2>2, HighestExists
  <2>4. /\ next \in first + 1..first + max /\ text[next] = Space
        /\ \A i \in first + 1..first + max : text[i] = Space => i <= next
    BY <2>3 DEF Breaks
  <2> QED
    BY <1>1, <1>2, <2>4 DEF first, next
<1> QED
  BY <1>3, <1>4

\* What push_chunk makes of an interval that begins with a letter.
LEMMA Trimmed ==
  ASSUME NEW S, NEW text \in Seq(S), NEW from \in 1..Len(text), text[from] # Space,
         NEW to \in from..Len(text)
  PROVE  LET c == Chunk(text, from, to)
         IN  /\ c \in [from : Nat, to : Nat] /\ c.from = from /\ c.to \in from..to
             /\ text[c.to] # Space
             /\ \A i \in c.to + 1..to : text[i] = Space
<1> DEFINE letters == Letters(text, from) \cap from..to
<1>1. Len(text) \in Nat
  BY LenProperties
<1>2. from \in letters /\ letters \subseteq Nat /\ (\A i \in letters : i <= to) /\ to \in Nat
  BY <1>1 DEF Letters
<1>3. Highest(letters) \in letters /\ \A i \in letters : i <= Highest(letters)
  BY <1>2, HighestExists
<1> DEFINE h == Highest(letters)
<1>4. Chunk(text, from, to) = [from |-> from, to |-> h]
  BY DEF Chunk
<1> HIDE DEF h
<1>5. h \in from..to /\ text[h] # Space
  BY <1>1, <1>3 DEF Letters, h
<1>6. ASSUME NEW i \in h + 1..to PROVE text[i] = Space
  <2>1. i \in from..Len(text) /\ i \in from..to /\ ~(i <= h)
    BY <1>1, <1>5
  <2> QED
    BY <1>3, <2>1 DEF Letters, h
<1> QED
  BY <1>1, <1>4, <1>5, <1>6

\* The recursion of split_into_chunks is defined from each start on.
LEMMA ChunksRecursive ==
  ASSUME NEW S, NEW text \in Seq(S), NEW max \in Nat \ {0}
  PROVE  \E f : /\ Chunks(text, max) = f[1]
                /\ \A start \in 1..Len(text) + 1 : f[start] = ChunksFrom(text, max, f, start)
<1> DEFINE n == Len(text)
           D == 1..n + 1
           Made == Seq([from : Nat, to : Nat])
           rank == [d \in D |-> n + 1 - d]
           rule == [p \in D \X [D -> Made] |-> ChunksFrom(text, max, p[2], p[1])]
<1>1. n \in Nat
  BY LenProperties
<1>2. <<>> \in Made
  BY EmptySeq, Zenon
<1>3. n + 1 \in Nat /\ rank \in [D -> 0..n + 1]
  BY <1>1
<1>4. ASSUME NEW d \in D, Letters(text, d) # {}
      PROVE  /\ FirstAt(text, d) \in d..n /\ text[FirstAt(text, d)] # Space
             /\ ~FitsAt(text, max, d) => NextAt(text, max, d) \in FirstAt(text, d) + 1..n
  BY <1>4, FirstLetter, NextStart
<1>5. ASSUME NEW d \in D, NEW g \in [D -> Made] PROVE ChunksFrom(text, max, g, d) \in Made
  <2>1. CASE Letters(text, d) = {}
    BY <1>2, <2>1 DEF ChunksFrom
  <2>2. CASE Letters(text, d) # {} /\ FitsAt(text, max, d)
    <3>1. Chunk(text, FirstAt(text, d), n) \in [from : Nat, to : Nat]
      BY <1>1, <1>4, <2>2, Trimmed
    <3>2. <<Chunk(text, FirstAt(text, d), n)>> \in Made
      BY <3>1
    <3> QED
      BY <2>2, <3>2 DEF ChunksFrom
  <2>3. CASE Letters(text, d) # {} /\ ~FitsAt(text, max, d)
    <3>1. /\ NextAt(text, max, d) \in D
          /\ FirstAt(text, d) \in 1..n
          /\ NextAt(text, max, d) - 1 \in FirstAt(text, d)..n
      BY <1>1, <1>4, <2>3
    <3>2. Chunk(text, FirstAt(text, d), NextAt(text, max, d) - 1) \in [from : Nat, to : Nat]
      BY <1>4, <2>3, <3>1, Trimmed
    <3>3. g[NextAt(text, max, d)] \in Made
      BY <3>1
    <3>4. <<Chunk(text, FirstAt(text, d), NextAt(text, max, d) - 1)>> \in Made
      BY <3>2
    <3> QED
      BY <2>3, <3>3, <3>4, ConcatProperties DEF ChunksFrom
  <2> QED
    BY <2>1, <2>2, <2>3
<1>6. rule \in [D \X [D -> Made] -> Made]
  BY <1>5
<1>7. ASSUME NEW d \in D, NEW g \in [D -> Made], NEW h \in [D -> Made],
             \A e \in D : rank[e] < rank[d] => g[e] = h[e]
      PROVE  rule[<<d, g>>] = rule[<<d, h>>]
  <2>1. rule[<<d, g>>] = ChunksFrom(text, max, g, d) /\ rule[<<d, h>>] = ChunksFrom(text, max, h, d)
    OBVIOUS
  <2>2. CASE Letters(text, d) # {} /\ ~FitsAt(text, max, d)
    <3>1. NextAt(text, max, d) \in D /\ rank[NextAt(text, max, d)] < rank[d]
      BY <1>1, <1>4, <2>2
    <3>2. g[NextAt(text, max, d)] = h[NextAt(text, max, d)]
      BY <1>7, <3>1
    <3> QED
      BY <2>1, <2>2, <3>2 DEF ChunksFrom
  <2>3. CASE ~(Letters(text, d) # {} /\ ~FitsAt(text, max, d))
    BY <2>1, <2>3 DEF ChunksFrom
  <2> QED
    BY <2>2, <2>3
<1>8. Recursion(D, Made, n + 1, rank, rule)
  <2>1. Made # {}
    BY <1>2
  <2> HIDE DEF Made, D, rank, rule
  <2> QED
    BY <1>3, <1>6, <1>7, <2>1 DEF Recursion
<1> HIDE DEF rank, rule
<1>9. PICK f \in [D -> Made] : \A d \in D : f[d] = rule[<<d, f>>]
  <2> HIDE DEF Made, D
  <2>1. PICK f : f \in Recursive(D, Made, rule)
    BY <1>8, RecursionExists, Zenon
  <2> QED
    BY <2>1, Zenon DEF Recursive
<1>10. f = [d \in D |-> ChunksFrom(text, max, f, d)]
  BY <1>9 DEF rule
<1> DEFINE from == CHOOSE g : g = [d \in D |-> ChunksFrom(text, max, g, d)]
<1>11. from = [d \in D |-> ChunksFrom(text, max, from, d)]
  BY <1>10
<1>12. Chunks(text, max) = from[1]
  BY DEF Chunks, ChunksFrom, FirstAt, FitsAt, NextAt
<1> HIDE DEF from
<1>13. \A d \in D : from[d] = ChunksFrom(text, max, from, d)
  BY <1>11
<1> QED
  BY <1>12, <1>13

\* What one chunk is to be: within the budget, and cut off from the rest of a word
\* only if it is all one word.
ChunkFits(text, max, c) ==
  /\ c.from \in Nat /\ c.to \in Nat
  /\ 1 <= c.from /\ c.from <= c.to /\ c.to <= Len(text) /\ c.to - c.from < max
  /\ c.to < Len(text) /\ text[c.to + 1] # Space => \A i \in c.from..c.to : text[i] # Space

\* And what the chunks from a start on are to be: in order, and with every letter.
ChunksKeep(text, max, start, s) ==
  /\ s \in Seq([from : Nat, to : Nat])
  /\ \A k \in 1..Len(s) : ChunkFits(text, max, s[k]) /\ start <= s[k].from
  /\ \A i, j \in 1..Len(s) : i < j => s[i].to < s[j].from
  /\ \A c \in Letters(text, start) : \E k \in 1..Len(s) : c \in s[k].from..s[k].to

\* The chunk from a start on, when the rest of the text fits it.
LEMMA LastChunk ==
  ASSUME NEW S, NEW text \in Seq(S), NEW max \in Nat \ {0}, NEW start \in 1..Len(text) + 1,
         Letters(text, start) # {}, FitsAt(text, max, start)
  PROVE  ChunksKeep(text, max, start, <<Chunk(text, FirstAt(text, start), Len(text))>>)
<1> DEFINE first == FirstAt(text, start)
           c == Chunk(text, first, Len(text))
<1>1. /\ first \in start..Len(text) /\ start \in Nat /\ start >= 1 /\ Len(text) \in Nat
      /\ text[first] # Space /\ \A i \in Letters(text, start) : first <= i
  BY FirstLetter, LenProperties
<1>2. Len(text) - first < max
  BY DEF FitsAt
<1> HIDE DEF first
<1>3. /\ c \in [from : Nat, to : Nat] /\ c.from = first /\ c.to \in first..Len(text)
      /\ \A i \in c.to + 1..Len(text) : text[i] = Space
  <2>1. first \in 1..Len(text) /\ Len(text) \in first..Len(text)
    BY <1>1
  <2> QED
    BY <1>1, <2>1, Trimmed
<1> HIDE DEF c
<1>4. ChunkFits(text, max, c)
  <2>1. /\ c.from \in Nat /\ c.to \in Nat /\ 1 <= c.from /\ c.from <= c.to
        /\ c.to <= Len(text) /\ c.to - c.from < max
    BY <1>1, <1>2, <1>3
  <2>2. c.to < Len(text) => text[c.to + 1] = Space
    BY <1>1, <1>3, <2>1
  <2> QED
    BY <2>1, <2>2 DEF ChunkFits
<1>5. ASSUME NEW i \in Letters(text, start) PROVE i \in c.from..c.to
  BY <1>1, <1>3 DEF Letters
<1>6. <<c>> \in Seq([from : Nat, to : Nat]) /\ Len(<<c>>) = 1 /\ <<c>>[1] = c
  BY <1>3
<1>7. start <= c.from
  BY <1>1, <1>3
<1> QED
  BY <1>4, <1>5, <1>6, <1>7 DEF ChunksKeep, c, first

\* Otherwise the chunk up to where the next begins, before those from there on.
LEMMA EarlierChunk ==
  ASSUME NEW S, NEW text \in Seq(S), NEW max \in Nat \ {0}, NEW start \in 1..Len(text) + 1,
         Letters(text, start) # {}, ~FitsAt(text, max, start),
         NEW s, ChunksKeep(text, max, NextAt(text, max, start), s)
  PROVE  ChunksKeep(text, max, start,
           <<Chunk(text, FirstAt(text, start), NextAt(text, max, start) - 1)>> \o s)
<1> DEFINE first == FirstAt(text, start)
           next == NextAt(text, max, start)
           c == Chunk(text, first, next - 1)
           r == <<c>> \o s
<1>1. /\ first \in start..Len(text) /\ start \in Nat /\ start >= 1 /\ Len(text) \in Nat
      /\ text[first] # Space /\ \A i \in Letters(text, start) : first <= i
  BY FirstLetter, LenProperties
<1>2. /\ next \in first + 1..Len(text) /\ next <= first + max
      /\ \/ text[next] = Space
         \/ next = first + max /\ \A i \in first + 1..first + max : text[i] # Space
  BY NextStart
<1> HIDE DEF first, next
<1>3. /\ c \in [from : Nat, to : Nat] /\ c.from = first /\ c.to \in first..next - 1
      /\ \A i \in c.to + 1..next - 1 : text[i] = Space
  <2>1. first \in 1..Len(text) /\ next - 1 \in first..Len(text)
    BY <1>1, <1>2
  <2> QED
    BY <1>1, <2>1, Trimmed
<1> HIDE DEF c
<1>4. ASSUME c.to < Len(text), text[c.to + 1] # Space, NEW i \in c.from..c.to
      PROVE  text[i] # Space
  <2>1. c.to = next - 1
    BY <1>1, <1>2, <1>3, <1>4
  <2>2. next = first + max /\ \A j \in first + 1..first + max : text[j] # Space
    BY <1>1, <1>2, <1>3, <1>4, <2>1
  <2> QED
    BY <1>1, <1>2, <1>3, <2>1, <2>2
<1>5. ChunkFits(text, max, c)
  BY <1>1, <1>2, <1>3, <1>4 DEF ChunkFits
<1>6. /\ s \in Seq([from : Nat, to : Nat]) /\ Len(s) \in Nat
      /\ \A k \in 1..Len(s) : /\ s[k].from \in Nat /\ s[k].to \in Nat
                              /\ ChunkFits(text, max, s[k]) /\ next <= s[k].from
      /\ \A i, j \in 1..Len(s) : i < j => s[i].to < s[j].from
      /\ \A l \in Letters(text, next) : \E k \in 1..Len(s) : l \in s[k].from..s[k].to
  BY DEF ChunksKeep, ChunkFits, next
<1>7. /\ r \in Seq([from : Nat, to : Nat]) /\ Len(r) = Len(s) + 1
      /\ r[1] = c /\ \A h \in 1..Len(s) : r[h + 1] = s[h]
  <2>1. <<c>> \in Seq([from : Nat, to : Nat]) /\ Len(<<c>>) = 1 /\ <<c>>[1] = c
    BY <1>3
  <2>2. /\ r \in Seq([from : Nat, to : Nat]) /\ Len(r) = 1 + Len(s)
        /\ \A i \in 1..1 + Len(s) : r[i] = IF i <= 1 THEN <<c>>[i] ELSE s[i - 1]
    BY <1>6, <2>1, ConcatProperties
  <2>3. Len(s) \in Nat
    BY <1>6
  <2>4. \A h \in 1..Len(s) : h + 1 \in 1..1 + Len(s) /\ ~(h + 1 <= 1) /\ (h + 1) - 1 = h
    BY <2>3
  <2>5. \A h \in 1..Len(s) : r[h + 1] = s[h]
    BY <2>2, <2>4
  <2>6. r[1] = c
    BY <2>1, <2>2, <2>3
  <2>7. 1 + Len(s) = Len(s) + 1
    BY <2>3
  <2> QED
    BY <2>2, <2>5, <2>6, <2>7, Zenon
<1> HIDE DEF r
<1>8. Len(s) \in Nat /\ 1 \in 1..Len(r) /\ \A h \in 1..Len(s) : h + 1 \in 1..Len(r)
  BY <1>6, <1>7
<1>9. ASSUME NEW k \in 1..Len(r), k # 1
      PROVE  \E h \in 1..Len(s) : k = h + 1 /\ r[k] = s[h]
  <2>1. k - 1 \in 1..Len(s) /\ k = (k - 1) + 1
    BY <1>7, <1>8, <1>9
  <2> QED
    BY <1>7, <2>1
<1>10. ASSUME NEW k \in 1..Len(r) PROVE ChunkFits(text, max, r[k]) /\ start <= r[k].from
  <2>1. CASE k = 1
    BY <1>1, <1>3, <1>5, <1>7, <2>1
  <2>2. CASE k # 1
    <3>1. PICK h \in 1..Len(s) : r[k] = s[h]
      BY <1>9, <2>2
    <3>2. ChunkFits(text, max, s[h]) /\ next <= s[h].from /\ s[h].from \in Nat
      BY <1>6, Zenon
    <3>3. next \in Nat /\ start <= next
      BY <1>1, <1>2
    <3> QED
      BY <1>1, <3>1, <3>2, <3>3
  <2> QED
    BY <2>1, <2>2
<1>11. ASSUME NEW i \in 1..Len(r), NEW j \in 1..Len(r), i < j PROVE r[i].to < r[j].from
  <2>1. PICK h \in 1..Len(s) : j = h + 1 /\ r[j] = s[h]
    BY <1>8, <1>9, <1>11
  <2>2. s[h].from \in Nat /\ next <= s[h].from
    BY <1>6, Zenon
  <2>3. CASE i = 1
    <3>1. c.to \in Nat /\ next \in Nat /\ c.to < next
      BY <1>1, <1>2, <1>3
    <3>2. c.to < s[h].from
      BY <2>2, <3>1
    <3>3. r[i] = c /\ r[j] = s[h]
      BY <1>7, <2>1, <2>3, Zenon
    <3> QED
      BY <3>2, <3>3, Zenon
  <2>4. CASE i # 1
    <3>1. PICK g \in 1..Len(s) : i = g + 1 /\ r[i] = s[g]
      BY <1>9, <2>4
    <3>2. g < h
      BY <1>11, <2>1, <3>1
    <3> QED
      BY <1>6, <2>1, <3>1, <3>2
  <2> QED
    BY <2>3, <2>4
<1>12. ASSUME NEW l \in Letters(text, start)
       PROVE  \E k \in 1..Len(r) : l \in r[k].from..r[k].to
  <2>1. l \in Nat /\ first <= l /\ l <= Len(text) /\ text[l] # Space
    BY <1>1 DEF Letters
  <2>2. CASE l <= c.to
    <3>1. l \in c.from..c.to
      BY <1>1, <1>3, <2>1, <2>2
    <3> QED
      BY <1>7, <1>8, <3>1
  <2>3. CASE ~(l <= c.to)
    <3>1. l >= next
      BY <1>1, <1>2, <1>3, <2>1, <2>3
    <3>2. l \in Letters(text, next)
      BY <1>1, <1>2, <2>1, <3>1 DEF Letters
    <3>3. PICK h \in 1..Len(s) : l \in s[h].from..s[h].to
      BY <1>6, <3>2
    <3> QED
      BY <1>7, <1>8, <3>3
  <2> QED
    BY <2>2, <2>3
<1> QED
  BY <1>7, <1>10, <1>11, <1>12 DEF ChunksKeep, r, c, first, next

\* split_into_chunks keeps the words of a text.
LEMMA ChunksKept ==
  ASSUME NEW S, NEW text \in Seq(S), NEW max \in Nat \ {0}, NEW f,
         \A start \in 1..Len(text) + 1 : f[start] = ChunksFrom(text, max, f, start)
  PROVE  \A start \in 1..Len(text) + 1 : ChunksKeep(text, max, start, f[start])
<1> DEFINE n == Len(text)
           P == {k \in Nat : \A start \in 1..n + 1 :
                   n + 1 - start <= k => ChunksKeep(text, max, start, f[start])}
<1>1. n \in Nat
  BY LenProperties
<1>2. \A start \in 1..n + 1 : Letters(text, start) = {} => ChunksKeep(text, max, start, f[start])
  <2> SUFFICES ASSUME NEW start \in 1..n + 1, Letters(text, start) = {}
               PROVE  ChunksKeep(text, max, start, f[start])
    OBVIOUS
  <2>1. f[start] = <<>>
    BY DEF ChunksFrom
  <2>2. <<>> \in Seq([from : Nat, to : Nat]) /\ Len(<<>>) = 0
    BY EmptySeq, Zenon
  <2> QED
    BY <2>1, <2>2 DEF ChunksKeep
<1>3. 0 \in P
  <2> SUFFICES ASSUME NEW start \in 1..n + 1, n + 1 - start <= 0
               PROVE  ChunksKeep(text, max, start, f[start])
    OBVIOUS
  <2>1. Letters(text, start) = {}
    BY <1>1 DEF Letters
  <2> QED
    BY <1>2, <2>1
<1>4. ASSUME NEW k \in Nat, k \in P PROVE k + 1 \in P
  <2> SUFFICES ASSUME NEW start \in 1..n + 1, n + 1 - start <= k + 1
               PROVE  ChunksKeep(text, max, start, f[start])
    OBVIOUS
  <2>1. CASE Letters(text, start) = {}
    BY <1>2, <2>1
  <2>2. CASE Letters(text, start) # {} /\ FitsAt(text, max, start)
    <3>1. f[start] = <<Chunk(text, FirstAt(text, start), n)>>
      BY <2>2 DEF ChunksFrom
    <3> QED
      BY <2>2, <3>1, LastChunk
  <2>3. CASE Letters(text, start) # {} /\ ~FitsAt(text, max, start)
    <3> DEFINE next == NextAt(text, max, start)
    <3>1. FirstAt(text, start) \in start..n /\ next \in FirstAt(text, start) + 1..n
      BY <2>3, FirstLetter, NextStart
    <3>2. next \in 1..n + 1 /\ n + 1 - next <= k
      BY <1>1, <3>1
    <3>3. ChunksKeep(text, max, next, f[next])
      BY <1>4, <3>2
    <3>4. f[start] = <<Chunk(text, FirstAt(text, start), next - 1)>> \o f[next]
      BY <2>3 DEF ChunksFrom
    <3> QED
      BY <2>3, <3>3, <3>4, EarlierChunk
  <2> QED
    BY <2>1, <2>2, <2>3
<1> HIDE DEF P
<1>5. Nat \subseteq P
  BY <1>3, <1>4, Counting
<1>6. ASSUME NEW start \in 1..n + 1 PROVE ChunksKeep(text, max, start, f[start])
  <2>1. n + 1 - start \in P /\ n + 1 - start <= n + 1 - start
    BY <1>1, <1>5
  <2> QED
    BY <2>1 DEF P
<1> QED
  BY <1>6

Segment == [piece : Nat, from : Nat, to : Nat]

\* The segments of one piece.
Tagged(pieces, max, p) ==
  LET chunks == Chunks(pieces[p], max)
  IN  [i \in 1..Len(chunks) |->
         [piece |-> p, from |-> chunks[i].from, to |-> chunks[i].to]]

\* What the segments of the first p pieces are to be.
SegmentsKeep(pieces, max, p, s) ==
  /\ s \in Seq(Segment)
  /\ \A k \in 1..Len(s) : s[k].piece \in 1..p /\ ChunkFits(pieces[s[k].piece], max, s[k])
  /\ \A i, j \in 1..Len(s) : i < j =>
       s[i].piece < s[j].piece \/ (s[i].piece = s[j].piece /\ s[i].to < s[j].from)
  /\ \A q \in 1..p : \A c \in Letters(pieces[q], 1) :
       \E k \in 1..Len(s) : s[k].piece = q /\ c \in s[k].from..s[k].to

LEMMA TaggedKept ==
  ASSUME NEW S, NEW pieces \in Seq(Seq(S)), NEW max \in Nat \ {0}, NEW p \in 1..Len(pieces)
  PROVE  LET t == Tagged(pieces, max, p)
         IN  /\ t \in Seq(Segment) /\ Len(t) = Len(Chunks(pieces[p], max))
             /\ \A k \in 1..Len(t) : t[k].piece = p /\ ChunkFits(pieces[p], max, t[k])
             /\ \A i, j \in 1..Len(t) : i < j => t[i].to < t[j].from
             /\ \A c \in Letters(pieces[p], 1) : \E k \in 1..Len(t) : c \in t[k].from..t[k].to
<1> DEFINE text == pieces[p]
           s == Chunks(text, max)
           t == Tagged(pieces, max, p)
<1>1. text \in Seq(S) /\ Len(text) \in Nat /\ p \in Nat
  BY ElementOfSeq, LenProperties
<1>2. ChunksKeep(text, max, 1, s)
  <2>1. PICK f : /\ s = f[1]
                 /\ \A start \in 1..Len(text) + 1 : f[start] = ChunksFrom(text, max, f, start)
    BY <1>1, ChunksRecursive
  <2>2. 1 \in 1..Len(text) + 1
    BY <1>1
  <2> QED
    BY <1>1, <2>1, <2>2, ChunksKept
<1> HIDE DEF s, text
<1>3. /\ s \in Seq([from : Nat, to : Nat]) /\ Len(s) \in Nat
      /\ \A k \in 1..Len(s) : ChunkFits(text, max, s[k]) /\ s[k] \in [from : Nat, to : Nat]
      /\ \A i, j \in 1..Len(s) : i < j => s[i].to < s[j].from
      /\ \A c \in Letters(text, 1) : \E k \in 1..Len(s) : c \in s[k].from..s[k].to
  BY <1>2, ElementOfSeq, LenProperties DEF ChunksKeep
<1>4. t = [i \in 1..Len(s) |-> [piece |-> p, from |-> s[i].from, to |-> s[i].to]]
  BY DEF Tagged, s, text
<1>5. /\ t \in Seq(Segment) /\ Len(t) = Len(s)
      /\ \A k \in 1..Len(s) : /\ t[k].piece = p /\ t[k].from = s[k].from /\ t[k].to = s[k].to
  <2>1. \A i \in 1..Len(s) : [piece |-> p, from |-> s[i].from, to |-> s[i].to] \in Segment
    BY <1>1, <1>3 DEF Segment
  <2> HIDE DEF t
  <2>2. t \in [1..Len(s) -> Segment]
    BY <1>4, <2>1
  <2>3. t \in Seq(Segment) /\ Len(t) = Len(s)
    BY <1>3, <2>2, AsSequence
  <2> QED
    BY <1>4, <2>3
<1> HIDE DEF t
<1>6. \A k \in 1..Len(s) : ChunkFits(text, max, t[k])
  BY <1>3, <1>5 DEF ChunkFits
<1>7. \A i, j \in 1..Len(s) : i < j => t[i].to < t[j].from
  BY <1>3, <1>5
<1>8. \A c \in Letters(text, 1) : \E k \in 1..Len(t) : c \in t[k].from..t[k].to
  BY <1>3, <1>5
<1> QED
  BY <1>5, <1>6, <1>7, <1>8 DEF t, s, text

\* The segments of one more piece.
LEMMA JoinedKept ==
  ASSUME NEW S, NEW pieces \in Seq(Seq(S)), NEW max \in Nat \ {0}, NEW p \in Nat,
         p + 1 \in 1..Len(pieces), NEW s, SegmentsKeep(pieces, max, p, s)
  PROVE  SegmentsKeep(pieces, max, p + 1, s \o Tagged(pieces, max, p + 1))
<1> DEFINE t == Tagged(pieces, max, p + 1)
           r == s \o t
<1>1. /\ t \in Seq(Segment)
      /\ \A k \in 1..Len(t) : t[k].piece = p + 1 /\ ChunkFits(pieces[p + 1], max, t[k])
      /\ \A i, j \in 1..Len(t) : i < j => t[i].to < t[j].from
      /\ \A c \in Letters(pieces[p + 1], 1) : \E k \in 1..Len(t) : c \in t[k].from..t[k].to
  BY TaggedKept
<1> HIDE DEF t
<1>2. /\ s \in Seq(Segment)
      /\ \A k \in 1..Len(s) : s[k].piece \in 1..p /\ ChunkFits(pieces[s[k].piece], max, s[k])
      /\ \A i, j \in 1..Len(s) : i < j =>
           s[i].piece < s[j].piece \/ (s[i].piece = s[j].piece /\ s[i].to < s[j].from)
  BY DEF SegmentsKeep
<1>3. /\ r \in Seq(Segment) /\ Len(s) \in Nat /\ Len(t) \in Nat
      /\ Len(r) = Len(s) + Len(t)
      /\ \A k \in 1..Len(s) : k \in 1..Len(r) /\ r[k] = s[k]
      /\ \A k \in 1..Len(t) : Len(s) + k \in 1..Len(r) /\ r[Len(s) + k] = t[k]
      /\ \A k \in 1..Len(r) : k \in 1..Len(s) \/ \E h \in 1..Len(t) : k = Len(s) + h
  BY <1>1, <1>2, Joined
<1> HIDE DEF r
<1>4. ASSUME NEW k \in 1..Len(r)
      PROVE  \/ k \in 1..Len(s) /\ r[k] = s[k] /\ s[k].piece \in 1..p
                /\ ChunkFits(pieces[s[k].piece], max, s[k])
             \/ \E h \in 1..Len(t) : k = Len(s) + h /\ r[k] = t[h]
  BY <1>2, <1>3, Zenon
<1>5. ASSUME NEW k \in 1..Len(r)
      PROVE  r[k].piece \in 1..p + 1 /\ ChunkFits(pieces[r[k].piece], max, r[k])
  <2>1. CASE r[k] = s[k] /\ s[k].piece \in 1..p /\ ChunkFits(pieces[s[k].piece], max, s[k])
    BY <2>1
  <2>2. ASSUME NEW h \in 1..Len(t), r[k] = t[h]
        PROVE  r[k].piece \in 1..p + 1 /\ ChunkFits(pieces[r[k].piece], max, r[k])
    BY <1>1, <2>2
  <2> QED
    BY <1>4, <2>1, <2>2
<1>6. ASSUME NEW i \in 1..Len(r), NEW j \in 1..Len(r), i < j
      PROVE  r[i].piece < r[j].piece \/ (r[i].piece = r[j].piece /\ r[i].to < r[j].from)
  <2>1. CASE j \in 1..Len(s)
    <3>1. i \in 1..Len(s)
      BY <1>3, <1>6, <2>1
    <3>2. r[i] = s[i] /\ r[j] = s[j]
      BY <1>3, <2>1, <3>1, Zenon
    <3> QED
      BY <1>2, <1>6, <2>1, <3>1, <3>2, Zenon
  <2>2. ASSUME NEW h \in 1..Len(t), j = Len(s) + h, r[j] = t[h]
        PROVE  r[i].piece < r[j].piece \/ (r[i].piece = r[j].piece /\ r[i].to < r[j].from)
    <3>1. r[j].piece = p + 1
      BY <1>1, <2>2
    <3>2. CASE r[i] = s[i] /\ s[i].piece \in 1..p
      BY <3>1, <3>2
    <3>3. ASSUME NEW g \in 1..Len(t), i = Len(s) + g, r[i] = t[g]
          PROVE  r[i].piece = r[j].piece /\ r[i].to < r[j].from
      <4>1. g < h
        BY <1>3, <1>6, <2>2, <3>3
      <4> QED
        BY <1>1, <2>2, <3>3, <4>1
    <3> QED
      BY <1>4, <3>2, <3>3
  <2> QED
    BY <1>4, <2>1, <2>2
<1>7. ASSUME NEW q \in 1..p + 1, NEW c \in Letters(pieces[q], 1)
      PROVE  \E k \in 1..Len(r) : r[k].piece = q /\ c \in r[k].from..r[k].to
  <2>1. CASE q = p + 1
    <3>1. PICK h \in 1..Len(t) : c \in t[h].from..t[h].to
      BY <1>1, <2>1
    <3>2. t[h].piece = q
      BY <1>1, <2>1
    <3> QED
      BY <1>3, <3>1, <3>2
  <2>2. CASE q # p + 1
    <3>1. q \in 1..p
      BY <2>2
    <3>2. PICK k \in 1..Len(s) : s[k].piece = q /\ c \in s[k].from..s[k].to
      BY <3>1 DEF SegmentsKeep
    <3> QED
      BY <1>3, <3>2
  <2> QED
    BY <2>1, <2>2
<1> QED
  BY <1>3, <1>5, <1>6, <1>7 DEF SegmentsKeep, r, t

\* How the pieces' segments add up.
LEMMA SplitRecursive ==
  ASSUME NEW S, NEW pieces \in Seq(Seq(S)), NEW reserve \in Nat, Len(pieces) # 0
  PROVE  LET max == Larger(Limit - reserve, 1)
         IN  \E f \in [1..Len(pieces) -> Seq(Segment)] :
               /\ SplitAll(pieces, reserve) = f[Len(pieces)]
               /\ \A p \in 1..Len(pieces) :
                    f[p] = IF p = 1 THEN Tagged(pieces, max, p)
                           ELSE f[p - 1] \o Tagged(pieces, max, p)
<1> DEFINE max == Larger(Limit - reserve, 1)
           n == Len(pieces)
           seqs == [p \in 1..n |-> Tagged(pieces, max, p)]
<1>1. max \in Nat \ {0} /\ n \in Nat
  BY SplitAssumption, LenProperties DEF Larger
<1>2. SplitAll(pieces, reserve) = FlattenSeq(seqs)
  BY DEF SplitAll, Tagged
<1> HIDE DEF max
<1>3. \A p \in 1..n : Tagged(pieces, max, p) \in Seq(Segment)
  BY <1>1, TaggedKept
<1>4. seqs \in Seq(Seq(Segment)) /\ Len(seqs) = n
  BY <1>1, <1>3
<1>5. \A p \in 1..n : seqs[p] = Tagged(pieces, max, p)
  OBVIOUS
<1> HIDE DEF seqs
<1>6. PICK f \in [1..Len(seqs) -> Seq(Segment)] :
        /\ FlattenSeq(seqs) = f[Len(seqs)]
        /\ \A i \in 1..Len(seqs) : f[i] = IF i = 1 THEN seqs[i] ELSE f[i - 1] \o seqs[i]
  BY <1>4, FlattenRecursive
<1>7. /\ f \in [1..n -> Seq(Segment)] /\ SplitAll(pieces, reserve) = f[n]
      /\ \A p \in 1..n : f[p] = IF p = 1 THEN Tagged(pieces, max, p)
                                ELSE f[p - 1] \o Tagged(pieces, max, p)
  BY <1>2, <1>4, <1>5, <1>6
<1> QED
  BY <1>7 DEF max

\* split_all keeps the words of every piece.
LEMMA SplitKept ==
  ASSUME NEW S, NEW pieces \in Seq(Seq(S)), NEW reserve \in Nat
  PROVE  SegmentsKeep(pieces, Larger(Limit - reserve, 1), Len(pieces),
                      SplitAll(pieces, reserve))
<1> DEFINE max == Larger(Limit - reserve, 1)
           n == Len(pieces)
<1>1. max \in Nat \ {0} /\ n \in Nat
  BY SplitAssumption, LenProperties DEF Larger
<1>2. <<>> \in Seq(Segment) /\ Len(<<>>) = 0
  BY EmptySeq, Zenon
<1>3. SegmentsKeep(pieces, max, 0, <<>>)
  BY <1>2 DEF SegmentsKeep
<1>4. CASE n = 0
  <2>1. pieces = <<>>
    BY <1>4, EmptySeq
  <2>2. SplitAll(pieces, reserve) = <<>>
    BY <2>1, <1>4 DEF SplitAll, FlattenSeq
  <2> QED
    BY <1>3, <1>4, <2>2
<1>5. CASE n # 0
  <2>1. PICK f \in [1..n -> Seq(Segment)] :
          /\ SplitAll(pieces, reserve) = f[n]
          /\ \A p \in 1..n : f[p] = IF p = 1 THEN Tagged(pieces, max, p)
                                    ELSE f[p - 1] \o Tagged(pieces, max, p)
    BY <1>5, SplitRecursive
  <2> HIDE DEF max
  <2> DEFINE P == {k \in Nat : k \in 1..n => SegmentsKeep(pieces, max, k, f[k])}
  <2>2. 0 \in P
    OBVIOUS
  <2>3. ASSUME NEW k \in Nat, k \in P PROVE k + 1 \in P
    <3> SUFFICES ASSUME k + 1 \in 1..n PROVE SegmentsKeep(pieces, max, k + 1, f[k + 1])
      OBVIOUS
    <3>1. CASE k = 0
      <4>1. Tagged(pieces, max, 1) \in Seq(Segment)
        BY <1>1, <3>1, TaggedKept
      <4>2. f[k + 1] = <<>> \o Tagged(pieces, max, k + 1)
        BY <2>1, <3>1, <4>1, ConcatEmptySeq
      <4> QED
        BY <1>1, <1>3, <3>1, <4>2, JoinedKept
    <3>2. CASE k # 0
      <4>1. k \in 1..n /\ k + 1 # 1 /\ (k + 1) - 1 = k
        BY <1>1, <3>2
      <4>2. SegmentsKeep(pieces, max, k, f[k])
        BY <2>3, <4>1
      <4>3. f[k + 1] = f[k] \o Tagged(pieces, max, k + 1)
        BY <2>1, <4>1
      <4> QED
        BY <1>1, <4>2, <4>3, JoinedKept
    <3> QED
      BY <3>1, <3>2
  <2> HIDE DEF P
  <2>4. Nat \subseteq P
    BY <2>2, <2>3, Counting
  <2>5. n \in P /\ n \in 1..n
    BY <1>1, <1>5, <2>4
  <2>6. SegmentsKeep(pieces, max, n, f[n])
    BY <2>5 DEF P
  <2> QED
    BY <2>1, <2>6 DEF max
<1> QED
  BY <1>4, <1>5

\* A larger budget, from a later start, makes no more chunks.
LEMMA NextLater ==
  ASSUME NEW S, NEW text \in Seq(S), NEW m \in Nat \ {0}, NEW n \in Nat \ {0}, m <= n,
         NEW s \in 1..Len(text) + 1, NEW t \in 1..Len(text) + 1, s <= t,
         Letters(text, t) # {}
  PROVE  /\ Letters(text, s) # {}
         /\ FitsAt(text, m, s) => FitsAt(text, n, t)
         /\ ~FitsAt(text, n, t) => NextAt(text, m, s) <= NextAt(text, n, t)
<1>1. Len(text) \in Nat
  BY LenProperties
<1>2. Letters(text, t) \subseteq Letters(text, s)
  BY <1>1 DEF Letters
<1>3. Letters(text, s) # {}
  BY <1>2
<1> DEFINE f == FirstAt(text, s)
           g == FirstAt(text, t)
<1>4. f \in Nat /\ g \in Nat /\ f <= Len(text) /\ g <= Len(text) /\ g >= t
      /\ f >= 1 /\ g \in Letters(text, t) /\ \A i \in Letters(text, s) : f <= i
  BY <1>1, <1>3, FirstLetter DEF Letters
<1>5. f <= g
  BY <1>2, <1>4
<1>6. FitsAt(text, m, s) => FitsAt(text, n, t)
  <2> HIDE DEF f, g
  <2>1. Len(text) - f < m => Len(text) - g < n
    BY <1>1, <1>4, <1>5
  <2> QED
    BY <2>1 DEF FitsAt, f, g
<1>7. ASSUME ~FitsAt(text, n, t) PROVE NextAt(text, m, s) <= NextAt(text, n, t)
  <2> DEFINE a == NextAt(text, m, s)
             b == NextAt(text, n, t)
  <2>1. ~FitsAt(text, m, s)
    BY <1>6, <1>7
  <2>2. /\ a \in f + 1..Len(text) /\ a <= f + m
        /\ \/ text[a] = Space /\ \A i \in f + 1..f + m : text[i] = Space => i <= a
           \/ a = f + m /\ \A i \in f + 1..f + m : text[i] # Space
    BY <1>3, <2>1, NextStart
  <2>3. /\ b \in g + 1..Len(text) /\ b <= g + n
        /\ \/ text[b] = Space /\ \A i \in g + 1..g + n : text[i] = Space => i <= b
           \/ b = g + n /\ \A i \in g + 1..g + n : text[i] # Space
    BY <1>7, NextStart
  <2> HIDE DEF a, b, f, g
  <2> SUFFICES ASSUME a > b PROVE FALSE
    BY <1>1, <1>4, <2>2, <2>3 DEF a, b
  <2>4. a \in g + 1..g + n /\ b \in f + 1..f + m /\ a \in Nat /\ b \in Nat
    BY <1>1, <1>4, <1>5, <2>2, <2>3
  <2>5. text[b] = Space
    BY <1>1, <1>4, <1>5, <2>2, <2>3, <2>4
  <2>6. text[a] = Space
    BY <2>2, <2>4, <2>5
  <2> QED
    BY <2>3, <2>4, <2>5, <2>6
<1> QED
  BY <1>3, <1>6, <1>7

LEMMA FewerChunks ==
  ASSUME NEW S, NEW text \in Seq(S), NEW m \in Nat \ {0}, NEW n \in Nat \ {0}, m <= n
  PROVE  Len(Chunks(text, n)) <= Len(Chunks(text, m))
<1>1. PICK f : /\ Chunks(text, m) = f[1]
               /\ \A start \in 1..Len(text) + 1 : f[start] = ChunksFrom(text, m, f, start)
  BY ChunksRecursive
<1>2. PICK g : /\ Chunks(text, n) = g[1]
               /\ \A start \in 1..Len(text) + 1 : g[start] = ChunksFrom(text, n, g, start)
  BY ChunksRecursive
<1> DEFINE l == Len(text)
<1>3. l \in Nat
  BY LenProperties
<1>4. ASSUME NEW max \in Nat \ {0}, NEW h,
             \A start \in 1..l + 1 : h[start] = ChunksFrom(text, max, h, start),
             NEW start \in 1..l + 1
      PROVE  /\ Len(h[start]) \in Nat
             /\ Len(h[start]) = IF Letters(text, start) = {} THEN 0
                                ELSE IF FitsAt(text, max, start) THEN 1
                                ELSE 1 + Len(h[NextAt(text, max, start)])
    <2>1. \A k \in 1..l + 1 : h[k] \in Seq([from : Nat, to : Nat])
      BY <1>4, ChunksKept DEF ChunksKeep
    <2>2. \A k \in 1..l + 1 : Len(h[k]) \in Nat
      BY <2>1, LenProperties
    <2>3. CASE Letters(text, start) = {}
      <3>1. h[start] = <<>>
        BY <1>4, <2>3 DEF ChunksFrom
      <3> QED
        BY <2>2, <2>3, <3>1, EmptySeq
    <2>4. CASE Letters(text, start) # {} /\ FitsAt(text, max, start)
      <3>1. h[start] = <<Chunk(text, FirstAt(text, start), l)>>
        BY <1>4, <2>4 DEF ChunksFrom
      <3>2. Len(h[start]) = 1
        BY <3>1
      <3> QED
        BY <2>2, <2>4, <3>2
    <2>5. CASE Letters(text, start) # {} /\ ~FitsAt(text, max, start)
      <3> DEFINE next == NextAt(text, max, start)
                 first == FirstAt(text, start)
                 c == Chunk(text, first, next - 1)
      <3>1. h[start] = <<c>> \o h[next]
        BY <1>4, <2>5 DEF ChunksFrom
      <3>2. first \in start..l /\ next \in first + 1..l /\ text[first] # Space /\ start \in Nat
        BY <2>5, FirstLetter, NextStart
      <3>3. next \in 1..l + 1 /\ first \in 1..l /\ next - 1 \in first..l
        BY <1>3, <3>2
      <3>4. c \in [from : Nat, to : Nat]
        BY <3>2, <3>3, Trimmed
      <3> HIDE DEF c, next, first
      <3>5. <<c>> \in Seq([from : Nat, to : Nat]) /\ Len(<<c>>) = 1
        BY <3>4
      <3>6. h[next] \in Seq([from : Nat, to : Nat])
        BY <2>1, <3>3
      <3>7. Len(h[start]) = 1 + Len(h[next])
        BY <3>1, <3>5, <3>6, ConcatProperties
      <3> QED
        BY <2>2, <2>5, <3>7 DEF next
    <2> QED
      BY <2>3, <2>4, <2>5
<1> DEFINE P == {k \in Nat : \A s, t \in 1..l + 1 :
                   s <= t /\ l + 1 - s <= k => Len(g[t]) <= Len(f[s])}
<1>5. \A s \in 1..l + 1 :
        /\ Len(f[s]) \in Nat
        /\ Len(f[s]) = IF Letters(text, s) = {} THEN 0
                       ELSE IF FitsAt(text, m, s) THEN 1 ELSE 1 + Len(f[NextAt(text, m, s)])
  BY <1>1, <1>4
<1>6. \A t \in 1..l + 1 :
        /\ Len(g[t]) \in Nat
        /\ Len(g[t]) = IF Letters(text, t) = {} THEN 0
                       ELSE IF FitsAt(text, n, t) THEN 1 ELSE 1 + Len(g[NextAt(text, n, t)])
  BY <1>2, <1>4
<1>7. 0 \in P
  <2> SUFFICES ASSUME NEW s \in 1..l + 1, NEW t \in 1..l + 1, s <= t, l + 1 - s <= 0
               PROVE  Len(g[t]) <= Len(f[s])
    OBVIOUS
  <2>1. Letters(text, t) = {}
    BY <1>3 DEF Letters
  <2> QED
    BY <1>5, <1>6, <2>1
<1>8. ASSUME NEW k \in Nat, k \in P PROVE k + 1 \in P
  <2> SUFFICES ASSUME NEW s \in 1..l + 1, NEW t \in 1..l + 1, s <= t, l + 1 - s <= k + 1
               PROVE  Len(g[t]) <= Len(f[s])
    OBVIOUS
  <2>1. CASE Letters(text, t) = {}
    BY <1>5, <1>6, <2>1
  <2>2. CASE Letters(text, t) # {} /\ FitsAt(text, n, t)
    <3>1. Letters(text, s) # {} /\ Len(g[t]) = 1 /\ Len(f[s]) \in Nat
      <4>1. Letters(text, s) # {}
        BY <2>2, NextLater
      <4> QED
        BY <1>5, <1>6, <2>2, <4>1
    <3>2. ~FitsAt(text, m, s) => Len(f[NextAt(text, m, s)]) \in Nat
      <4>1. ~FitsAt(text, m, s) => NextAt(text, m, s) \in 1..l + 1
        BY <1>3, <3>1, FirstLetter, NextStart
      <4> QED
        BY <1>5, <4>1
    <3>3. Len(f[s]) = IF FitsAt(text, m, s) THEN 1 ELSE 1 + Len(f[NextAt(text, m, s)])
      BY <1>5, <3>1
    <3> QED
      BY <3>1, <3>2, <3>3
  <2>3. CASE Letters(text, t) # {} /\ ~FitsAt(text, n, t)
    <3> DEFINE a == NextAt(text, m, s)
               b == NextAt(text, n, t)
    <3>1. Letters(text, s) # {} /\ ~FitsAt(text, m, s) /\ a <= b
      BY <2>3, NextLater
    <3>2. /\ FirstAt(text, s) \in s..l /\ s \in Nat /\ a \in FirstAt(text, s) + 1..l
          /\ FirstAt(text, t) \in t..l /\ t \in Nat /\ b \in FirstAt(text, t) + 1..l
      BY <2>3, <3>1, FirstLetter, NextStart
    <3> HIDE DEF a, b
    <3>3. a \in 1..l + 1 /\ b \in 1..l + 1 /\ l + 1 - a <= k
      BY <1>3, <3>2
    <3>4. Len(g[b]) <= Len(f[a])
      BY <1>8, <3>1, <3>3
    <3>5. Len(g[t]) = 1 + Len(g[b]) /\ Len(f[s]) = 1 + Len(f[a])
      BY <1>5, <1>6, <2>3, <3>1 DEF a, b
    <3>6. Len(g[b]) \in Nat /\ Len(f[a]) \in Nat
      BY <1>5, <1>6, <3>3
    <3> QED
      BY <3>4, <3>5, <3>6
  <2> QED
    BY <2>1, <2>2, <2>3
<1> HIDE DEF P
<1>9. Nat \subseteq P
  BY <1>7, <1>8, Counting
<1>10. l \in P /\ 1 \in 1..l + 1 /\ l + 1 - 1 <= l
  BY <1>3, <1>9
<1>11. Len(g[1]) <= Len(f[1])
  BY <1>10 DEF P
<1> QED
  BY <1>1, <1>2, <1>11

\* The more is left free in each post, the more posts there are.
LEMMA SplitGrows ==
  ASSUME NEW S, NEW pieces \in Seq(Seq(S)), NEW r \in Nat, NEW q \in Nat, r <= q
  PROVE  /\ Len(SplitAll(pieces, r)) \in Nat /\ Len(SplitAll(pieces, q)) \in Nat
         /\ Len(SplitAll(pieces, r)) <= Len(SplitAll(pieces, q))
<1> DEFINE n == Len(pieces)
           max(k) == Larger(Limit - k, 1)
<1>1. /\ n \in Nat /\ max(r) \in Nat \ {0} /\ max(q) \in Nat \ {0} /\ max(q) <= max(r)
  BY SplitAssumption, LenProperties DEF Larger
<1>2. CASE n = 0
  <2>1. pieces = <<>>
    BY <1>2, EmptySeq
  <2>2. \A k \in Nat : SplitAll(pieces, k) = <<>>
    BY <2>1, <1>2 DEF SplitAll, FlattenSeq
  <2> QED
    BY <2>2
<1>3. CASE n # 0
  <2>1. PICK f \in [1..n -> Seq(Segment)] :
          /\ SplitAll(pieces, r) = f[n]
          /\ \A p \in 1..n : f[p] = IF p = 1 THEN Tagged(pieces, max(r), p)
                                    ELSE f[p - 1] \o Tagged(pieces, max(r), p)
    BY <1>3, SplitRecursive
  <2>2. PICK g \in [1..n -> Seq(Segment)] :
          /\ SplitAll(pieces, q) = g[n]
          /\ \A p \in 1..n : g[p] = IF p = 1 THEN Tagged(pieces, max(q), p)
                                    ELSE g[p - 1] \o Tagged(pieces, max(q), p)
    BY <1>3, SplitRecursive
  <2>3. ASSUME NEW p \in 1..n
        PROVE  /\ Tagged(pieces, max(r), p) \in Seq(Segment)
               /\ Tagged(pieces, max(q), p) \in Seq(Segment)
               /\ Len(Tagged(pieces, max(r), p)) <= Len(Tagged(pieces, max(q), p))
    <3>1. pieces[p] \in Seq(S)
      BY ElementOfSeq
    <3> HIDE DEF max
    <3>2. Len(Chunks(pieces[p], max(r))) <= Len(Chunks(pieces[p], max(q)))
      BY <1>1, <3>1, FewerChunks
    <3>3. /\ Tagged(pieces, max(r), p) \in Seq(Segment)
          /\ Len(Tagged(pieces, max(r), p)) = Len(Chunks(pieces[p], max(r)))
      BY <1>1, TaggedKept
    <3>4. /\ Tagged(pieces, max(q), p) \in Seq(Segment)
          /\ Len(Tagged(pieces, max(q), p)) = Len(Chunks(pieces[p], max(q)))
      BY <1>1, TaggedKept
    <3> QED
      BY <3>2, <3>3, <3>4
  <2> DEFINE t(p) == Tagged(pieces, max(r), p)
             u(p) == Tagged(pieces, max(q), p)
  <2> HIDE DEF max
  <2>4. \A p \in 1..n : Len(t(p)) \in Nat /\ Len(u(p)) \in Nat /\ Len(t(p)) <= Len(u(p))
    BY <2>3, LenProperties
  <2>5. \A p \in 1..n : Len(f[p]) \in Nat /\ Len(g[p]) \in Nat
    BY <2>1, <2>2, LenProperties
  <2> DEFINE P == {k \in Nat : k \in 1..n => Len(f[k]) <= Len(g[k])}
  <2>6. 0 \in P
    OBVIOUS
  <2>7. ASSUME NEW k \in Nat, k \in P PROVE k + 1 \in P
    <3> SUFFICES ASSUME k + 1 \in 1..n PROVE Len(f[k + 1]) <= Len(g[k + 1])
      OBVIOUS
    <3>1. CASE k = 0
      <4>1. f[k + 1] = t(k + 1) /\ g[k + 1] = u(k + 1)
        BY <2>1, <2>2, <3>1
      <4> HIDE DEF t, u
      <4> QED
        BY <2>4, <4>1
    <3>2. CASE k # 0
      <4>1. k \in 1..n /\ k + 1 # 1 /\ (k + 1) - 1 = k
        BY <1>1, <3>2
      <4>2. f[k + 1] = f[k] \o t(k + 1) /\ g[k + 1] = g[k] \o u(k + 1)
        BY <2>1, <2>2, <4>1
      <4>3. t(k + 1) \in Seq(Segment) /\ u(k + 1) \in Seq(Segment)
        BY <2>3
      <4> HIDE DEF t, u
      <4>4. f[k] \in Seq(Segment) /\ g[k] \in Seq(Segment)
        BY <2>1, <2>2, <4>1
      <4>5. /\ Len(f[k + 1]) = Len(f[k]) + Len(t(k + 1))
            /\ Len(g[k + 1]) = Len(g[k]) + Len(u(k + 1))
        BY <4>2, <4>3, <4>4, ConcatProperties
      <4>6. Len(f[k]) <= Len(g[k])
        BY <2>7, <4>1
      <4>7. Len(t(k + 1)) \in Nat /\ Len(u(k + 1)) \in Nat /\ Len(t(k + 1)) <= Len(u(k + 1))
        BY <2>4
      <4>8. Len(f[k]) \in Nat /\ Len(g[k]) \in Nat
        BY <2>5, <4>1
      <4>9. \A a, b, c, d \in Nat : a <= b /\ c <= d => a + c <= b + d
        OBVIOUS
      <4>10. Len(f[k]) + Len(t(k + 1)) <= Len(g[k]) + Len(u(k + 1))
        BY <4>6, <4>7, <4>8, <4>9, Zenon
      <4> QED
        BY <4>5, <4>10, Zenon
    <3> QED
      BY <3>1, <3>2
  <2> HIDE DEF P
  <2>8. Nat \subseteq P
    BY <2>6, <2>7, Counting
  <2>9. n \in P /\ n \in 1..n
    BY <1>1, <1>3, <2>8
  <2>10. Len(f[n]) <= Len(g[n])
    BY <2>9 DEF P
  <2> QED
    BY <2>1, <2>2, <2>5, <2>9, <2>10
<1> QED
  BY <1>2, <1>3

\* A larger number has no fewer digits.
LEMMA DigitsRecursive ==
  ASSUME NEW n \in Nat
  PROVE  \E f : /\ Digits(n) = f[n]
                /\ \A m \in 0..n : f[m] = IF m < Base THEN 1 ELSE 1 + f[m \div Base]
<1> DEFINE D == 0..n
           rank == [d \in D |-> d]
           body(g, d) == IF d < Base THEN 1 ELSE 1 + g[d \div Base]
           rule == [p \in D \X [D -> Nat] |-> body(p[2], p[1])]
<1>1. ASSUME NEW d \in D, ~(d < Base) PROVE d \div Base \in D /\ d \div Base < d
  BY <1>1, SplitAssumption
<1>2. ASSUME NEW d \in D, NEW g \in [D -> Nat] PROVE body(g, d) \in Nat
  BY <1>1
<1>3. rule \in [D \X [D -> Nat] -> Nat]
  BY <1>2
<1>4. ASSUME NEW d \in D, NEW g \in [D -> Nat], NEW h \in [D -> Nat],
             \A e \in D : rank[e] < rank[d] => g[e] = h[e]
      PROVE  rule[<<d, g>>] = rule[<<d, h>>]
  <2>1. rule[<<d, g>>] = body(g, d) /\ rule[<<d, h>>] = body(h, d)
    OBVIOUS
  <2>2. ~(d < Base) => g[d \div Base] = h[d \div Base]
    BY <1>1, <1>4
  <2> QED
    BY <2>1, <2>2
<1>5. rank \in [D -> 0..n]
  OBVIOUS
<1>6. Recursion(D, Nat, n, rank, rule)
  <2> HIDE DEF D, rank, rule
  <2> QED
    BY <1>3, <1>4, <1>5 DEF Recursion
<1> HIDE DEF rank, rule
<1>7. PICK f \in [D -> Nat] : \A d \in D : f[d] = rule[<<d, f>>]
  <2> HIDE DEF D
  <2>1. PICK f : f \in Recursive(D, Nat, rule)
    BY <1>6, RecursionExists, Zenon
  <2> QED
    BY <2>1, Zenon DEF Recursive
<1>8. f = [d \in D |-> body(f, d)]
  BY <1>7 DEF rule
<1> DEFINE of == CHOOSE g : g = [d \in D |-> body(g, d)]
<1>9. of = [d \in D |-> body(of, d)]
  BY <1>8
<1>10. Digits(n) = of[n]
  BY DEF Digits
<1> HIDE DEF of
<1> QED
  BY <1>9, <1>10

LEMMA DigitsGrow ==
  ASSUME NEW m \in Nat, NEW n \in Nat, m <= n
  PROVE  Digits(m) \in Nat \ {0} /\ Digits(n) \in Nat \ {0} /\ Digits(m) <= Digits(n)
<1>1. ASSUME NEW l \in Nat, NEW h,
             \A i \in 0..l : h[i] = IF i < Base THEN 1 ELSE 1 + h[i \div Base]
      PROVE  \A i \in 0..l : h[i] \in Nat \ {0}
  <2> DEFINE P == {k \in Nat : \A i \in 0..l : i <= k => h[i] \in Nat \ {0}}
  <2>1. 0 \in P
    BY <1>1, SplitAssumption
  <2>2. ASSUME NEW k \in Nat, k \in P PROVE k + 1 \in P
    <3> SUFFICES ASSUME NEW i \in 0..l, i <= k + 1 PROVE h[i] \in Nat \ {0}
      OBVIOUS
    <3>1. CASE i < Base
      BY <1>1, <3>1
    <3>2. CASE ~(i < Base)
      <4>1. i \div Base \in 0..l /\ i \div Base <= k
        BY <3>2, SplitAssumption
      <4>2. h[i \div Base] \in Nat
        BY <2>2, <4>1
      <4>3. h[i] = 1 + h[i \div Base]
        BY <1>1, <3>2
      <4> QED
        BY <4>2, <4>3
    <3> QED
      BY <3>1, <3>2
  <2> HIDE DEF P
  <2>3. Nat \subseteq P
    BY <2>1, <2>2, Counting
  <2>4. l \in P
    BY <2>3
  <2> QED
    BY <2>4 DEF P
<1>2. PICK f : /\ Digits(m) = f[m]
               /\ \A i \in 0..m : f[i] = IF i < Base THEN 1 ELSE 1 + f[i \div Base]
  BY DigitsRecursive
<1>3. PICK g : /\ Digits(n) = g[n]
               /\ \A i \in 0..n : g[i] = IF i < Base THEN 1 ELSE 1 + g[i \div Base]
  BY DigitsRecursive
<1>4. (\A i \in 0..m : f[i] \in Nat \ {0}) /\ (\A i \in 0..n : g[i] \in Nat \ {0})
  BY <1>1, <1>2, <1>3
<1> DEFINE P == {k \in Nat : \A i \in 0..m, j \in 0..n : i <= k /\ i <= j => f[i] <= g[j]}
<1>5. 0 \in P
  <2> SUFFICES ASSUME NEW i \in 0..m, NEW j \in 0..n, i <= 0 PROVE f[i] <= g[j]
    OBVIOUS
  <2>1. f[i] = 1 /\ g[j] \in Nat \ {0}
    BY <1>2, <1>4, SplitAssumption
  <2> QED
    BY <2>1
<1>6. ASSUME NEW k \in Nat, k \in P PROVE k + 1 \in P
  <2> SUFFICES ASSUME NEW i \in 0..m, NEW j \in 0..n, i <= k + 1, i <= j PROVE f[i] <= g[j]
    OBVIOUS
  <2>1. CASE i < Base
    <3>1. f[i] = 1 /\ g[j] \in Nat \ {0}
      BY <1>2, <1>4, <2>1
    <3> QED
      BY <3>1
  <2>2. CASE ~(i < Base)
    <3>1. /\ i \div Base \in 0..m /\ i \div Base <= k /\ ~(j < Base)
          /\ j \div Base \in 0..n /\ i \div Base <= j \div Base
      BY <2>2, SplitAssumption
    <3>2. f[i \div Base] <= g[j \div Base]
      BY <1>6, <3>1
    <3>3. f[i] = 1 + f[i \div Base] /\ g[j] = 1 + g[j \div Base]
      BY <1>2, <1>3, <2>2, <3>1
    <3>4. f[i \div Base] \in Nat /\ g[j \div Base] \in Nat
      BY <1>4, <3>1
    <3> QED
      BY <3>2, <3>3, <3>4
  <2> QED
    BY <2>1, <2>2
<1> HIDE DEF P
<1>7. Nat \subseteq P
  BY <1>5, <1>6, Counting
<1>8. m \in P /\ m \in 0..m /\ n \in 0..n
  BY <1>7
<1>9. f[m] <= g[n]
  BY <1>8 DEF P
<1> QED
  BY <1>2, <1>3, <1>4, <1>8, <1>9

\* One round of plan_segments' search.
Round(pieces, before) ==
  IF before.stable THEN before
  ELSE [segments |-> SplitAll(pieces, NumberingReserve(Len(before.segments))),
        stable   |-> Len(SplitAll(pieces, NumberingReserve(Len(before.segments))))
                       = Len(before.segments)]

LEMMA ReserveIs ==
  ASSUME NEW n \in Nat
  PROVE  /\ NumberingReserve(n) \in Nat
         /\ \E d \in Nat : d >= 1 /\ NumberingReserve(n) = 2 + 2 * d /\ d = Digits(Larger(n, 1))
<1>1. Larger(n, 1) \in Nat /\ Larger(n, 1) <= Larger(n, 1)
  BY DEF Larger
<1> DEFINE d == Digits(Larger(n, 1))
<1>2. d \in Nat \ {0}
  BY <1>1, DigitsGrow
<1>3. NumberingReserve(n) = 2 + 2 * d
  BY DEF NumberingReserve
<1> HIDE DEF d
<1>4. d >= 1 /\ 2 + 2 * d \in Nat
  BY <1>2
<1> QED
  BY <1>2, <1>3, <1>4 DEF d

LEMMA ReserveGrows ==
  ASSUME NEW m \in Nat, NEW n \in Nat, m <= n
  PROVE  NumberingReserve(m) <= NumberingReserve(n)
<1>1. Larger(m, 1) \in Nat /\ Larger(n, 1) \in Nat /\ Larger(m, 1) <= Larger(n, 1)
  BY DEF Larger
<1> DEFINE d == Digits(Larger(m, 1))
           e == Digits(Larger(n, 1))
<1>2. d \in Nat \ {0} /\ e \in Nat \ {0} /\ d <= e
  BY <1>1, DigitsGrow
<1>3. NumberingReserve(m) = 2 + 2 * d /\ NumberingReserve(n) = 2 + 2 * e
  BY DEF NumberingReserve
<1> HIDE DEF d, e
<1>4. 2 + 2 * d <= 2 + 2 * e
  BY <1>2
<1> QED
  BY <1>3, <1>4

\* The rounds are well defined.
LEMMA RoundsRecursive ==
  ASSUME NEW S, NEW pieces \in Seq(Seq(S))
  PROVE  \E f : /\ Settled(pieces) = f[Rounds].segments
                /\ f[0] = [segments |-> SplitAll(pieces, 0), stable |-> FALSE]
                /\ \A r \in 1..Rounds : f[r] = Round(pieces, f[r - 1])
<1> DEFINE D == 0..Rounds
           States == [segments : Seq(Segment), stable : BOOLEAN]
           rank == [d \in D |-> d]
           body(g, d) == IF d = 0 THEN [segments |-> SplitAll(pieces, 0), stable |-> FALSE]
                         ELSE Round(pieces, g[d - 1])
           rule == [p \in D \X [D -> States] |-> body(p[2], p[1])]
<1>1. \A r \in Nat : SplitAll(pieces, r) \in Seq(Segment)
  BY SplitKept DEF SegmentsKeep
<1>2. \A s \in Seq(Segment) : NumberingReserve(Len(s)) \in Nat
  BY ReserveIs, LenProperties
<1>3. ASSUME NEW b \in States PROVE Round(pieces, b) \in States
  <2>1. b.segments \in Seq(Segment) /\ b.stable \in BOOLEAN
    OBVIOUS
  <2>2. SplitAll(pieces, NumberingReserve(Len(b.segments))) \in Seq(Segment)
    BY <1>1, <1>2, <2>1
  <2> QED
    BY <2>1, <2>2 DEF Round
<1>4. \A d \in D : d # 0 => d - 1 \in D /\ d - 1 < d
  BY DEF Rounds
<1>5. ASSUME NEW d \in D, NEW g \in [D -> States] PROVE body(g, d) \in States
  <2>1. CASE d = 0
    BY <1>1, <2>1
  <2>2. CASE d # 0
    <3>1. g[d - 1] \in States
      BY <1>4, <2>2
    <3> QED
      BY <1>3, <2>2, <3>1
  <2> QED
    BY <2>1, <2>2
<1> HIDE DEF States
<1>6. rule \in [D \X [D -> States] -> States]
  BY <1>5
<1>7. ASSUME NEW d \in D, NEW g \in [D -> States], NEW h \in [D -> States],
             \A e \in D : rank[e] < rank[d] => g[e] = h[e]
      PROVE  rule[<<d, g>>] = rule[<<d, h>>]
  <2>1. rule[<<d, g>>] = body(g, d) /\ rule[<<d, h>>] = body(h, d)
    OBVIOUS
  <2>2. d # 0 => g[d - 1] = h[d - 1]
    BY <1>4, <1>7
  <2> QED
    BY <2>1, <2>2
<1>8. rank \in [D -> 0..Rounds] /\ Rounds \in Nat
  BY DEF Rounds
<1>9. States # {}
  <2>1. [segments |-> SplitAll(pieces, 0), stable |-> FALSE] \in States
    BY <1>1 DEF States
  <2> QED
    BY <2>1
<1>10. Recursion(D, States, Rounds, rank, rule)
  <2> HIDE DEF D, rank, rule
  <2> QED
    BY <1>6, <1>7, <1>8, <1>9 DEF Recursion
<1> HIDE DEF rank, rule
<1>11. PICK f \in [D -> States] : \A d \in D : f[d] = rule[<<d, f>>]
  <2> HIDE DEF D
  <2>1. PICK f : f \in Recursive(D, States, rule)
    BY <1>10, RecursionExists, Zenon
  <2> QED
    BY <2>1, Zenon DEF Recursive
<1>12. f = [d \in D |-> body(f, d)]
  BY <1>11 DEF rule
<1> DEFINE after == CHOOSE g : g = [d \in D |-> body(g, d)]
<1>13. after = [d \in D |-> body(after, d)]
  BY <1>12
<1>14. Settled(pieces) = after[Rounds].segments
  BY DEF Settled, Round
<1> HIDE DEF after
<1>15. \A d \in D : after[d] = body(after, d)
  BY <1>13
<1>16. 0 \in D /\ \A r \in 1..Rounds : r \in D /\ r # 0
  BY DEF Rounds
<1>17. after[0] = [segments |-> SplitAll(pieces, 0), stable |-> FALSE]
  BY <1>15, <1>16
<1>18. \A r \in 1..Rounds : after[r] = Round(pieces, after[r - 1])
  BY <1>15, <1>16
<1> QED
  BY <1>14, <1>17, <1>18

\* The search ends with a reserve that fits the number of posts it leads to, unless
\* their number has as many digits as there are rounds: a round that changes the
\* number of posts after the first one follows a number with one more digit.
LEMMA Settles ==
  ASSUME NEW S, NEW pieces \in Seq(Seq(S))
  PROVE  \E reserve \in Nat :
           /\ Settled(pieces) = SplitAll(pieces, reserve)
           /\ \/ reserve = NumberingReserve(Len(Settled(pieces)))
              \/ Digits(Larger(Len(Settled(pieces)), 1)) >= Rounds
<1> DEFINE Search(r, s) ==
             \E reserve \in Nat :
               /\ s.segments = SplitAll(pieces, reserve)
               /\ s.stable => reserve = NumberingReserve(Len(s.segments))
               /\ ~s.stable =>
                    /\ reserve <= NumberingReserve(Len(s.segments))
                    /\ \/ reserve = 0 /\ r = 0
                       \/ \E e \in Nat : e >= r /\ reserve = 2 + 2 * e
<1>1. PICK f : /\ Settled(pieces) = f[Rounds].segments
               /\ f[0] = [segments |-> SplitAll(pieces, 0), stable |-> FALSE]
               /\ \A r \in 1..Rounds : f[r] = Round(pieces, f[r - 1])
  BY RoundsRecursive
<1>2. \A r \in Nat : Len(SplitAll(pieces, r)) \in Nat
  BY SplitGrows
<1>3. \A c \in Nat : NumberingReserve(c) \in Nat
  BY ReserveIs
<1> DEFINE P == {r \in Nat : r <= Rounds => Search(r, f[r])}
<1>4. 0 \in P
  <2>1. f[0].segments = SplitAll(pieces, 0) /\ f[0].stable = FALSE
    BY <1>1
  <2>2. 0 <= NumberingReserve(Len(f[0].segments))
    BY <1>2, <1>3, <2>1
  <2>3. Search(0, f[0])
    BY <2>1, <2>2
  <2> QED
    BY <2>3
<1>5. ASSUME NEW r \in Nat, r \in P PROVE r + 1 \in P
  <2> SUFFICES ASSUME r + 1 <= Rounds PROVE Search(r + 1, f[r + 1])
    OBVIOUS
  <2> DEFINE s == f[r]
             t == f[r + 1]
  <2>1. Search(r, s)
    BY <1>5 DEF Rounds
  <2>2. t = Round(pieces, s)
    <3>1. r + 1 \in 1..Rounds /\ (r + 1) - 1 = r
      BY DEF Rounds
    <3> QED
      BY <1>1, <3>1
  <2>3. PICK reserve \in Nat :
          /\ s.segments = SplitAll(pieces, reserve)
          /\ s.stable => reserve = NumberingReserve(Len(s.segments))
          /\ ~s.stable =>
               /\ reserve <= NumberingReserve(Len(s.segments))
               /\ \/ reserve = 0 /\ r = 0
                  \/ \E e \in Nat : e >= r /\ reserve = 2 + 2 * e
    BY <2>1
  <2> HIDE DEF s, t
  <2>4. CASE s.stable
    <3>1. t = s
      BY <2>2, <2>4 DEF Round
    <3>2. Search(r + 1, s)
      BY <2>3, <2>4
    <3> QED
      BY <3>1, <3>2 DEF t
  <2>5. CASE ~s.stable
    <3> DEFINE count == Len(s.segments)
               next  == NumberingReserve(count)
    <3>1. count \in Nat /\ next \in Nat
      BY <1>2, <1>3, <2>3
    <3>2. t.segments = SplitAll(pieces, next) /\ t.stable = (Len(SplitAll(pieces, next)) = count)
      BY <2>2, <2>5 DEF Round
    <3>3. PICK d \in Nat : d >= 1 /\ next = 2 + 2 * d
      BY <3>1, ReserveIs
    <3>4. /\ reserve <= next
          /\ \/ reserve = 0 /\ r = 0
             \/ \E e \in Nat : e >= r /\ reserve = 2 + 2 * e
      BY <2>3, <2>5
    <3> HIDE DEF count, next
    <3>5. Len(SplitAll(pieces, next)) \in Nat /\ count <= Len(SplitAll(pieces, next))
      BY <2>3, <3>1, <3>4, SplitGrows DEF count
    <3>6. next <= NumberingReserve(Len(t.segments))
      BY <3>1, <3>2, <3>5, ReserveGrows DEF next
    <3>7. CASE t.stable
      <4>1. Len(t.segments) = count
        BY <3>2, <3>7
      <4>2. next = NumberingReserve(Len(t.segments))
        BY <4>1 DEF next
      <4> QED
        BY <3>1, <3>2, <3>7, <4>2 DEF t
    <3>8. CASE ~t.stable
      <4>1. reserve # next
        BY <2>3, <3>2, <3>8 DEF count
      <4>2. d >= r + 1
        BY <3>3, <3>4, <4>1
      <4> QED
        BY <3>1, <3>2, <3>3, <3>6, <3>8, <4>2 DEF t
    <3> QED
      BY <3>7, <3>8
  <2> QED
    BY <2>4, <2>5
<1> HIDE DEF P
<1>6. Nat \subseteq P
  BY <1>4, <1>5, Counting
<1>7. Search(Rounds, f[Rounds])
  <2>1. Rounds \in P /\ Rounds <= Rounds
    BY <1>6 DEF Rounds
  <2> QED
    BY <2>1 DEF P
<1> DEFINE s == f[Rounds]
           n == Len(s.segments)
<1>8. PICK reserve \in Nat :
        /\ s.segments = SplitAll(pieces, reserve)
        /\ s.stable => reserve = NumberingReserve(n)
        /\ ~s.stable => /\ reserve <= NumberingReserve(n)
                        /\ \/ reserve = 0 /\ Rounds = 0
                           \/ \E e \in Nat : e >= Rounds /\ reserve = 2 + 2 * e
  BY <1>7
<1>9. n \in Nat
  BY <1>2, <1>8
<1> HIDE DEF s, n
<1>10. ASSUME ~s.stable PROVE Digits(Larger(n, 1)) >= Rounds
  <2>1. Rounds \in Nat /\ Rounds # 0
    BY DEF Rounds
  <2>2. PICK e \in Nat : e >= Rounds /\ reserve = 2 + 2 * e
    BY <1>8, <1>10, <2>1
  <2>3. PICK d \in Nat : NumberingReserve(n) = 2 + 2 * d /\ d = Digits(Larger(n, 1))
    BY <1>9, ReserveIs
  <2>4. d >= e
    BY <1>8, <1>10, <2>2, <2>3
  <2> QED
    BY <2>1, <2>2, <2>3, <2>4
<1>11. Settled(pieces) = s.segments
  BY <1>1 DEF s
<1> QED
  BY <1>8, <1>10, <1>11 DEF n

\* plan_segments: the segments that leave a reserve in each post, in order, with
\* their numbers.
LEMMA Planned ==
  ASSUME NEW S, NEW pieces \in Seq(Seq(S)), NEW numbered \in BOOLEAN, NEW p,
         p = PlanSegments(pieces, numbered)
  PROVE  \E reserve \in Nat, s \in Seq(Segment) :
           /\ s = SplitAll(pieces, reserve) /\ Len(p) = Len(s) /\ Len(s) \in Nat
           /\ \A i \in 1..Len(s) :
                /\ p[i].piece = s[i].piece /\ p[i].from = s[i].from /\ p[i].to = s[i].to
                /\ p[i].number = IF numbered /\ Len(s) > 1 THEN i ELSE 0
           /\ numbered /\ Len(s) > 1 => \/ reserve = NumberingReserve(Len(s))
                                        \/ Digits(Len(s)) >= Rounds
<1> DEFINE s == IF numbered /\ SplitAll(pieces, 0) # <<>>
                THEN Settled(pieces) ELSE SplitAll(pieces, 0)
           row(i) == [piece |-> s[i].piece, from |-> s[i].from, to |-> s[i].to,
                      number |-> IF numbered /\ Len(s) > 1 THEN i ELSE 0]
<1>1. \E reserve \in Nat :
        /\ s = SplitAll(pieces, reserve)
        /\ numbered /\ Len(s) > 1 => \/ reserve = NumberingReserve(Len(s))
                                     \/ Digits(Larger(Len(s), 1)) >= Rounds
  <2>1. CASE numbered /\ SplitAll(pieces, 0) # <<>>
    <3>1. s = Settled(pieces)
      BY <2>1
    <3> HIDE DEF s
    <3> QED
      BY <3>1, Settles
  <2>2. CASE ~numbered
    <3>1. s = SplitAll(pieces, 0)
      BY <2>2
    <3> HIDE DEF s
    <3> QED
      BY <2>2, <3>1
  <2>3. CASE SplitAll(pieces, 0) = <<>>
    <3>1. s = SplitAll(pieces, 0) /\ Len(s) = 0
      BY <2>3, EmptySeq
    <3> HIDE DEF s
    <3>2. ~(Len(s) > 1)
      BY <3>1
    <3> QED
      BY <3>1, <3>2
  <2> QED
    BY <2>1, <2>2, <2>3
<1>2. p = [i \in 1..Len(s) |-> row(i)]
  BY DEF PlanSegments
<1> HIDE DEF s
<1>3. PICK reserve \in Nat :
        /\ s = SplitAll(pieces, reserve)
        /\ numbered /\ Len(s) > 1 => \/ reserve = NumberingReserve(Len(s))
                                     \/ Digits(Larger(Len(s), 1)) >= Rounds
  BY <1>1
<1>4. s \in Seq(Segment) /\ Len(s) \in Nat
  BY <1>3, SplitKept, LenProperties DEF SegmentsKeep
<1>5. Len(s) > 1 => Larger(Len(s), 1) = Len(s)
  BY <1>4 DEF Larger
<1>6. Len(p) = Len(s)
  <2> DEFINE n == Len(s)
           R == {row(i) : i \in 1..n}
  <2> HIDE DEF n, row
  <2>1. p = [i \in 1..n |-> row(i)] /\ n \in Nat
    BY <1>2, <1>4 DEF n
  <2>2. p \in [1..n -> R]
    BY <2>1
  <2> HIDE DEF R
  <2> QED
    BY <2>1, <2>2, AsSequence DEF n
<1>7. \A i \in 1..Len(s) :
        /\ p[i].piece = s[i].piece /\ p[i].from = s[i].from /\ p[i].to = s[i].to
        /\ p[i].number = IF numbered /\ Len(s) > 1 THEN i ELSE 0
  BY <1>2
<1> QED
  BY <1>3, <1>4, <1>5, <1>6, <1>7

PlanInv ==
  /\ draft \in ThreadDrafts
  /\ plan = IF sending = "new" THEN <<>> ELSE PlanSegments(draft.pieces, draft.numbered)

LEMMA PlanNextInv == PlanInv /\ [ThreadNext]_<<threadVars, repo>> => PlanInv'
BY DEF PlanInv, ThreadNext, SendThread, FacetsFail, PostSegment, threadVars

LEMMA PlanInitInv == ThreadInit => PlanInv
BY DEF ThreadInit, PlanInv

(***************************************************************************)
(* Nothing of a thread's text is lost between its posts, nothing comes     *)
(* twice or out of order, and no word is cut that would fit a post, for    *)
(* texts of any length, any limit, and whatever the numbering leaves of it *)
(* (split_into_chunks, push_chunk and plan_segments, thread.rs:217-341).   *)
(***************************************************************************)
THEOREM PlansEveryWord == ThreadSpec => []PlanKeepsEveryWord
<1>1. PlanInv => PlanKeepsEveryWord
  <2> SUFFICES ASSUME PlanInv, sending # "new" PROVE PlanKeepsEveryWord
    BY DEF PlanKeepsEveryWord
  <2>1. /\ Pieces \in Seq(Seq({Letter, Space})) /\ draft.numbered \in BOOLEAN
        /\ plan = PlanSegments(Pieces, draft.numbered)
    BY DraftAssumption DEF PlanInv, Pieces
  <2>2. PICK reserve \in Nat, s \in Seq(Segment) :
          /\ s = SplitAll(Pieces, reserve) /\ Len(plan) = Len(s)
          /\ \A i \in 1..Len(s) :
               plan[i].piece = s[i].piece /\ plan[i].from = s[i].from /\ plan[i].to = s[i].to
    BY <2>1, Planned
  <2> DEFINE max == Larger(Limit - reserve, 1)
  <2>3. SegmentsKeep(Pieces, max, Len(Pieces), s)
    BY <2>1, <2>2, SplitKept
  <2> HIDE DEF max
  <2>4. \A i, j \in 1..Len(plan) : i < j =>
          \/ plan[i].piece < plan[j].piece
          \/ plan[i].piece = plan[j].piece /\ plan[i].to < plan[j].from
    BY <2>2, <2>3 DEF SegmentsKeep
  <2>5. \A p \in 1..Len(Pieces) : \A c \in Letters(Pieces[p], 1) :
          \E i \in 1..Len(plan) : plan[i].piece = p /\ c \in plan[i].from..plan[i].to
    <3> SUFFICES ASSUME NEW p \in 1..Len(Pieces), NEW c \in Letters(Pieces[p], 1)
                 PROVE  \E i \in 1..Len(plan) : /\ plan[i].piece = p
                                                /\ c \in plan[i].from..plan[i].to
      OBVIOUS
    <3>1. PICK i \in 1..Len(s) : s[i].piece = p /\ c \in s[i].from..s[i].to
      BY <2>3, Zenon DEF SegmentsKeep
    <3>2. i \in 1..Len(plan) /\ plan[i].piece = p /\ c \in plan[i].from..plan[i].to
      BY <2>2, <3>1, Zenon
    <3> QED
      BY <3>2
  <2>6. ASSUME NEW i \in 1..Len(plan)
        PROVE  LET text == Pieces[plan[i].piece]
                   end  == plan[i].to
               IN  end < Len(text) /\ text[end + 1] # Space
                     => \A c \in plan[i].from..end : text[c] # Space
    <3>1. ChunkFits(Pieces[s[i].piece], max, s[i])
      BY <2>2, <2>3 DEF SegmentsKeep
    <3> QED
      BY <2>2, <3>1 DEF ChunkFits
  <2> QED
    BY <2>4, <2>5, <2>6 DEF PlanKeepsEveryWord
<1> QED
  BY <1>1, PlanInitInv, PlanNextInv, PTL DEF ThreadSpec

\* What the search of a numbered thread can settle: the number of posts has fewer
\* digits than there are rounds, and beside its number a post has room for some text.
\* With 300 graphemes a post and eight rounds, threads of less than ten million posts.
RoomForNumbers ==
  draft.numbered /\ Len(plan) > 1 =>
    Digits(Len(plan)) < Rounds /\ NumberingReserve(Len(plan)) < Limit

(***************************************************************************)
(* No post of a thread is too long, its number included, for texts of any  *)
(* length, any limit and any base.  That the reserve is found in time is   *)
(* the point: each round that does not settle adds a digit to the number   *)
(* of posts, so a reserve that is too small would need as many digits as   *)
(* there are rounds (plan_segments, thread.rs:217-259).                    *)
(***************************************************************************)
THEOREM PlansFit == ThreadSpec => [](RoomForNumbers => PlanFits)
<1>1. PlanInv => (RoomForNumbers => PlanFits)
  <2> SUFFICES ASSUME PlanInv, RoomForNumbers, NEW i \in 1..Len(plan)
               PROVE  PostLength(plan[i]) <= Limit
    BY DEF PlanFits
  <2>1. CASE sending = "new"
    <3>1. Len(plan) = 0
      BY <2>1, EmptySeq DEF PlanInv
    <3> QED
      BY <3>1
  <2>2. CASE sending # "new"
    <3>1. /\ Pieces \in Seq(Seq({Letter, Space})) /\ draft.numbered \in BOOLEAN
          /\ plan = PlanSegments(Pieces, draft.numbered)
      BY <2>2, DraftAssumption DEF PlanInv, Pieces
    <3>2. PICK reserve \in Nat, s \in Seq(Segment) :
            /\ s = SplitAll(Pieces, reserve) /\ Len(plan) = Len(s) /\ Len(s) \in Nat
            /\ \A k \in 1..Len(s) :
                 /\ plan[k].piece = s[k].piece /\ plan[k].from = s[k].from
                 /\ plan[k].to = s[k].to
                 /\ plan[k].number = IF draft.numbered /\ Len(s) > 1 THEN k ELSE 0
            /\ draft.numbered /\ Len(s) > 1 => \/ reserve = NumberingReserve(Len(s))
                                               \/ Digits(Len(s)) >= Rounds
      BY <3>1, Planned
    <3> DEFINE max == Larger(Limit - reserve, 1)
               n == Len(plan)
    <3>3. SegmentsKeep(Pieces, max, Len(Pieces), s)
      BY <3>1, <3>2, SplitKept
    <3>4. max \in Nat /\ max <= Limit /\ (reserve < Limit => max = Limit - reserve)
      BY SplitAssumption DEF Larger
    <3> HIDE DEF max
    <3>5. /\ plan[i].from \in Nat /\ plan[i].to \in Nat
          /\ plan[i].to - plan[i].from < max
      <4>1. ChunkFits(Pieces[s[i].piece], max, s[i])
        BY <3>2, <3>3 DEF SegmentsKeep
      <4> QED
        BY <3>2, <4>1 DEF ChunkFits
    <3>6. n \in Nat /\ i \in Nat /\ i <= n
      BY <3>2
    <3>7. Digits(i) \in Nat /\ Digits(n) \in Nat /\ Digits(i) <= Digits(n)
      BY <3>6, DigitsGrow
    <3>8. CASE plan[i].number = 0
      <4>1. PostLength(plan[i]) = plan[i].to - plan[i].from + 1 + 0
        BY <3>8 DEF PostLength
      <4> QED
        BY <3>4, <3>5, <4>1, SplitAssumption
    <3>9. CASE plan[i].number # 0
      <4>1. draft.numbered /\ n > 1 /\ plan[i].number = i
        BY <3>2, <3>9
      <4>2. PostLength(plan[i]) = plan[i].to - plan[i].from + 1 + (2 + Digits(i) + Digits(n))
        BY <3>9, <4>1 DEF PostLength
      <4>3. Rounds \in Nat
        BY DEF Rounds
      <4>4. reserve = NumberingReserve(n)
        BY <3>2, <3>7, <4>1, <4>3 DEF RoomForNumbers
      <4>5. NumberingReserve(n) = 2 + 2 * Digits(n)
        <5>1. Larger(n, 1) = n
          BY <3>6, <4>1 DEF Larger
        <5> QED
          BY <5>1 DEF NumberingReserve
      <4>6. max = Limit - reserve
        BY <3>4, <4>1, <4>4 DEF RoomForNumbers
      <4> HIDE DEF n
      <4>7. max = Limit - (2 + 2 * Digits(n)) /\ Limit \in Nat
        BY <4>4, <4>5, <4>6, SplitAssumption
      <4>8. \A from, to, l, k, d \in Nat : to - from < l - (2 + 2 * d) /\ k <= d
              => to - from + 1 + (2 + k + d) <= l
        OBVIOUS
      <4> QED
        BY <3>5, <3>7, <4>2, <4>7, <4>8
    <3> QED
      BY <3>8, <3>9
  <2> QED
    BY <2>1, <2>2
<1> QED
  BY <1>1, PlanInitInv, PlanNextInv, PTL DEF ThreadSpec

----------------------------------------------------------------------------
(***************************************************************************)
(* Reads.  What has been handed out and what waits in the buffer is one    *)
(* descending run, and what the cursor still is to bring lies below it;    *)
(* and an item that was there all the while is handed out, waits, or lies  *)
(* below the cursor.                                                       *)
(***************************************************************************)
Falling(q) == \A i, j \in 1..Len(q) : i < j => q[i] > q[j]

\* A set of numbers can be listed in falling order.
LEMMA Listable ==
  ASSUME NEW S \in SUBSET Nat, IsFiniteSet(S)
  PROVE  \E q \in [1..Cardinality(S) -> S] : \A i, j \in DOMAIN q : i < j => q[i] > q[j]
<1> DEFINE Lists(T, n) ==
             \E q \in [1..n -> T] : \A i, j \in 1..n : i < j => q[i] > q[j]
           P == {n \in Nat : \A T \in SUBSET Nat :
                   IsFiniteSet(T) /\ Cardinality(T) = n => Lists(T, n)}
<1>1. 0 \in P
  <2> SUFFICES ASSUME NEW T \in SUBSET Nat PROVE Lists(T, 0)
    OBVIOUS
  <2>1. 1..0 = {}
    OBVIOUS
  <2>2. [i \in 1..0 |-> i] \in [1..0 -> T]
    BY <2>1
  <2>3. \A i, j \in 1..0 : i < j => [k \in 1..0 |-> k][i] > [k \in 1..0 |-> k][j]
    BY <2>1
  <2> QED
    BY <2>2, <2>3
<1>2. ASSUME NEW n \in Nat, n \in P PROVE n + 1 \in P
  <2> SUFFICES ASSUME NEW T \in SUBSET Nat, IsFiniteSet(T), Cardinality(T) = n + 1
               PROVE  Lists(T, n + 1)
    OBVIOUS
  <2>1. T # {}
    BY FS_EmptySet
  <2>2. PICK m \in T : \A k \in T : m <= k
    BY <2>1, LowestExists
  <2>3. IsFiniteSet(T \ {m}) /\ Cardinality(T \ {m}) = n
    <3>1. IsFiniteSet(T \ {m}) /\ Cardinality(T \ {m}) = Cardinality(T) - 1
      BY FS_RemoveElement, Zenon
    <3> QED
      BY <3>1
  <2>4. Lists(T \ {m}, n)
    BY <1>2, <2>3
  <2>5. PICK q \in [1..n -> T \ {m}] : \A i, j \in 1..n : i < j => q[i] > q[j]
    BY <2>4
  <2> DEFINE r == [i \in 1..n + 1 |-> IF i = n + 1 THEN m ELSE q[i]]
  <2>6. r \in [1..n + 1 -> T]
    OBVIOUS
  <2>7. ASSUME NEW i \in 1..n + 1, NEW j \in 1..n + 1, i < j PROVE r[i] > r[j]
    <3>1. i \in 1..n
      BY <2>7
    <3>2. r[i] = q[i] /\ q[i] \in T \ {m}
      <4>1. i \in 1..n + 1 /\ i # n + 1
        BY <3>1
      <4> QED
        BY <2>5, <3>1, <4>1, Zenon
    <3> HIDE DEF r
    <3>3. CASE j = n + 1
      <4>1. r[j] = m
        BY <3>3 DEF r
      <4>2. q[i] \in Nat /\ m \in Nat
        BY <3>2, Zenon
      <4> QED
        BY <2>2, <3>2, <4>1, <4>2
    <3>4. CASE j # n + 1
      <4>1. j \in 1..n /\ r[j] = q[j]
        BY <3>4 DEF r
      <4> QED
        BY <2>5, <2>7, <3>1, <3>2, <4>1
    <3> QED
      BY <3>3, <3>4
  <2> HIDE DEF r
  <2> QED
    BY <2>6, <2>7
<1> HIDE DEF P
<1>3. Nat \subseteq P
  BY <1>1, <1>2, Counting
<1>4. Cardinality(S) \in Nat
  BY FS_CardinalityType
<1>5. Lists(S, Cardinality(S))
  BY <1>3, <1>4 DEF P
<1> QED
  BY <1>4, <1>5

\* NewestFirst lists each item of a page once, the newest first.
LEMMA ListedOnce ==
  ASSUME NEW S \in SUBSET Nat, IsFiniteSet(S)
  PROVE  /\ NewestFirst(S) \in Seq(S) /\ NewestFirst(S) \in Seq(Nat)
         /\ Falling(NewestFirst(S)) /\ Range(NewestFirst(S)) = S
         /\ (NewestFirst(S) = <<>>) = (S = {})
<1> DEFINE n == Cardinality(S)
           q == NewestFirst(S)
<1> HIDE DEF n, q
<1>1. n \in Nat
  BY FS_CardinalityType DEF n
<1>2. q \in [1..n -> S] /\ \A i, j \in DOMAIN q : i < j => q[i] > q[j]
  BY Listable DEF NewestFirst, n, q
<1>3. q \in Seq(S) /\ Len(q) = n /\ q \in Seq(Nat)
  <2>1. q \in Seq(S)
    BY <1>1, <1>2
  <2>2. q \in Seq(Nat)
    BY <2>1, SeqMonotonic
  <2>3. DOMAIN q = 1..n /\ Len(q) \in Nat /\ DOMAIN q = 1..Len(q)
    BY <1>2, <2>1, LenProperties
  <2> QED
    BY <1>1, <2>1, <2>2, <2>3
<1>4. Falling(q)
  BY <1>1, <1>2, <1>3 DEF Falling
<1>5. q \in Injection(1..n, S)
  <2>1. ASSUME NEW i \in 1..n, NEW j \in 1..n, q[i] = q[j] PROVE i = j
    <3>1. DOMAIN q = 1..n /\ q[i] \in S /\ q[j] \in S
      BY <1>2, Zenon
    <3>2. (i < j => q[i] > q[j]) /\ (j < i => q[j] > q[i])
      BY <1>2, <3>1, Zenon
    <3>3. q[i] \in Nat /\ q[j] \in Nat
      BY <3>1, Zenon
    <3>4. i \in Nat /\ j \in Nat
      BY <1>1
    <3> QED
      BY <2>1, <3>2, <3>3, <3>4
  <2> QED
    BY <1>2, <2>1 DEF Injection, IsInjective
<1>6. IsFiniteSet(1..n) /\ Cardinality(1..n) = n
  BY <1>1, FS_Interval
<1>7. q \in Surjection(1..n, S)
  <2>1. Cardinality(1..n) = Cardinality(S)
    BY <1>6 DEF n
  <2> QED
    BY <1>5, <2>1, FS_Injection, Zenon
<1>8. \A s \in S : \E i \in 1..n : q[i] = s
  BY <1>7 DEF Surjection
<1>9. Range(q) = S
  BY <1>2, <1>8 DEF Range
<1>10. (q = <<>>) = (S = {})
  <2>1. CASE S = {}
    BY <1>3, <2>1, FS_EmptySet DEF n
  <2>2. CASE S # {}
    BY <1>1, <1>3, <1>8, <2>2
  <2> QED
    BY <2>1, <2>2
<1> QED
  BY <1>3, <1>4, <1>9, <1>10 DEF q

ReadsType ==
  /\ newest \in 0..MaxItem /\ listed \subseteq 1..newest
  /\ buffer \in Seq(Nat) /\ yielded \in Seq(Nat)
  /\ cursor \in Nat \cup {None} /\ exhausted \in BOOLEAN /\ gap \in BOOLEAN
  /\ there # None => there \subseteq listed

\* Before the first page is made.
Untouched ==
  /\ there = None => cursor = None /\ ~exhausted /\ buffer = <<>> /\ yielded = <<>>
  /\ reading = "new" => there = None
  /\ reading = "ended" => there # None \/ Len(yielded) = limit

InLine ==
  /\ Falling(yielded) /\ Falling(buffer)
  /\ \A i \in 1..Len(yielded), j \in 1..Len(buffer) : yielded[i] > buffer[j]

\* The cursor is at or below all that came before it.
Cleared ==
  /\ cursor # None => /\ \A i \in 1..Len(yielded) : yielded[i] >= cursor
                      /\ \A i \in 1..Len(buffer) : buffer[i] >= cursor
  /\ cursor = None /\ ~exhausted => yielded = <<>> /\ buffer = <<>>

Covered ==
  there # None => \A i \in there \ hidden :
    \/ i \in Range(yielded) \/ i \in Range(buffer)
    \/ ~exhausted /\ (cursor = None \/ i < cursor)

ReadsInv ==
  /\ ReadsType /\ Untouched /\ InLine /\ Cleared /\ Covered /\ NothingSkipped

\* A page is the newest part of what there is to list.
LEMMA PageIsNewest ==
  ASSUME ReadsType
  PROVE  /\ Page \subseteq Older /\ Older \subseteq listed /\ listed \subseteq Nat
         /\ IsFiniteSet(Older) /\ IsFiniteSet(Page \ hidden)
         /\ \A i \in Page, j \in Older : j > i => j \in Page
<1>1. Page \subseteq Older /\ Older \subseteq listed
  BY DEF Page, Older
<1>2. newest \in Nat /\ listed \subseteq 1..newest /\ listed \subseteq Nat
  BY PageAssumption DEF ReadsType
<1>3. IsFiniteSet(1..newest)
  BY <1>2, FS_Interval
<1>4. \A S : S \subseteq 1..newest => IsFiniteSet(S)
  BY <1>3, FS_Subset
<1>5. IsFiniteSet(Older) /\ IsFiniteSet(Page \ hidden)
  BY <1>1, <1>2, <1>4
<1>6. ASSUME NEW i \in Page, NEW j \in Older, j > i PROVE j \in Page
  <2> DEFINE Above(k) == {l \in Older : l > k}
  <2>1. i \in Nat /\ j \in Nat /\ Older \subseteq Nat
    BY <1>1, <1>2
  <2>2. ASSUME NEW l \in Older, l > j PROVE l > i
    <3>1. l \in Nat
      BY <2>1
    <3> QED
      BY <1>6, <2>1, <2>2, <3>1
  <2>3. Above(i) \subseteq 1..newest
    BY <1>1, <1>2
  <2>4. IsFiniteSet(Above(i)) /\ IsFiniteSet(Above(j))
    <3>1. Above(j) \subseteq 1..newest
      BY <1>1, <1>2
    <3> QED
      BY <1>4, <2>3, <3>1
  <2>5. Cardinality(Above(j)) <= Cardinality(Above(i))
    BY <2>2, <2>4, FS_Subset
  <2>6. Cardinality(Above(i)) \in Nat /\ Cardinality(Above(j)) \in Nat
    BY <2>4, FS_CardinalityType
  <2>7. Cardinality(Above(i)) < PageSize
    BY DEF Page
  <2>8. Cardinality(Above(j)) < PageSize
    BY <2>5, <2>6, <2>7, PageAssumption
  <2> QED
    BY <2>8 DEF Page
<1> QED
  BY <1>1, <1>2, <1>5, <1>6

\* The cursor that comes with a page lies between it and what is left.
LEMMA CursorBetween ==
  ASSUME ReadsType, NEW next \in Cursors, Page # {}
  PROVE  \/ next = None /\ Page = Older
         \/ /\ next \in Nat /\ next # None
            /\ \A i \in Page : i >= next
            /\ \A i \in Older \ Page : i < next
<1>1. Page \subseteq Nat /\ Older \subseteq Nat
  BY PageIsNewest
<1>2. Oldest(Page) \in Page /\ \A i \in Page : Oldest(Page) <= i
  BY <1>1, LowestExists DEF Oldest
<1>3. ASSUME NEW i \in Older \ Page PROVE i < Oldest(Page)
  <2>1. i \in Nat /\ Oldest(Page) \in Nat /\ i # Oldest(Page)
    BY <1>1, <1>2
  <2>2. ~(i > Oldest(Page))
    BY <1>2, <1>3, PageIsNewest
  <2> QED
    BY <2>1, <2>2
<1>4. (next = None /\ Page = Older) \/ next = Oldest(Page)
  BY DEF Cursors
<1>5. Oldest(Page) \in Nat /\ Oldest(Page) # None
  <2>1. Oldest(Page) \in Nat
    BY <1>1, <1>2
  <2>2. None \notin Nat
    BY NoneAssumption
  <2> QED
    BY <2>1, <2>2, Zenon
<1>6. \A i \in Page : i >= Oldest(Page)
  BY <1>1, <1>2, <1>5
<1> QED
  BY <1>3, <1>4, <1>5, <1>6

LEMMA ReadInitInv == ReadInit => ReadsInv
<1> SUFFICES ASSUME ReadInit PROVE ReadsInv
  OBVIOUS
<1>1. /\ newest \in 0..MaxItem /\ listed = 1..newest
      /\ cursor = None /\ buffer = <<>> /\ exhausted = FALSE
      /\ yielded = <<>> /\ reading = "new" /\ there = None /\ gap = FALSE
  BY PageAssumption DEF ReadInit
<1>2. <<>> \in Seq(Nat) /\ Len(<<>>) = 0
  BY EmptySeq, Zenon
<1>3. ReadsType
  BY <1>1, <1>2 DEF ReadsType
<1>4. InLine
  BY <1>1, <1>2 DEF InLine, Falling
<1> QED
  BY <1>1, <1>3, <1>4 DEF ReadsInv, Untouched, Cleared, Covered, NothingSkipped

\* Opening, and what the server's list does.
LEMMA OpenReadInv == ASSUME ReadsInv, NEW answer, Open(answer) PROVE ReadsInv'
<1>1. UNCHANGED <<listed, hidden, newest, limit, cursor, buffer, exhausted, yielded,
                  there, gap>>
  BY DEF Open, pageVars
<1>2. ReadsType' /\ InLine' /\ Cleared' /\ Covered'
  BY <1>1 DEF ReadsInv, ReadsType, InLine, Falling, Cleared, Covered
<1>3. reading = "new" /\ there = None /\ yielded = <<>> /\ Len(yielded) = 0
  BY EmptySeq DEF Open, ReadsInv, Untouched
<1>4. reading' # "new" /\ (reading' = "ended" => limit = 0)
  BY DEF Open
<1>5. Untouched' /\ NothingSkipped'
  BY <1>1, <1>3, <1>4 DEF ReadsInv, Untouched, NothingSkipped
<1> QED
  BY <1>2, <1>5 DEF ReadsInv

LEMMA AppearInv == ASSUME ReadsInv, Appear PROVE ReadsInv'
<1>1. /\ UNCHANGED <<hidden, limit, cursor, buffer, exhausted, yielded, reading, there, gap>>
      /\ newest \in Nat /\ newest' \in 0..MaxItem
      /\ listed \subseteq 1..newest /\ listed' = listed \cup {newest'} /\ newest' = newest + 1
  <2>1. newest \in 0..MaxItem /\ newest < MaxItem /\ newest' = newest + 1
    BY DEF Appear, ReadsInv, ReadsType
  <2>2. newest \in Nat /\ newest' \in 0..MaxItem
    BY <2>1, PageAssumption
  <2>3. listed \subseteq 1..newest /\ listed' = listed \cup {newest'}
    BY <2>1 DEF Appear, ReadsInv, ReadsType
  <2> QED
    BY <2>1, <2>2, <2>3 DEF Appear, pageVars
<1>2. listed' \subseteq 1..newest' /\ listed \subseteq listed'
  BY <1>1
<1>3. ReadsType'
  BY <1>1, <1>2 DEF ReadsInv, ReadsType
<1>4. Untouched' /\ InLine' /\ Cleared' /\ Covered' /\ NothingSkipped'
  BY <1>1 DEF ReadsInv, Untouched, InLine, Falling, Cleared, Covered, NothingSkipped
<1> QED
  BY <1>3, <1>4 DEF ReadsInv

LEMMA DisappearInv == ASSUME ReadsInv, NEW i \in listed, Disappear(i) PROVE ReadsInv'
<1>1. /\ UNCHANGED <<hidden, newest, limit, cursor, buffer, exhausted, yielded, reading, gap>>
      /\ listed' = listed \ {i} /\ there' = IF there = None THEN None ELSE there \ {i}
  BY DEF Disappear, pageVars
<1>2. there # None => there \subseteq 1..MaxItem
  <2>1. newest \in 0..MaxItem /\ listed \subseteq 1..newest
    BY DEF ReadsInv, ReadsType
  <2>2. 1..newest \subseteq 1..MaxItem
    BY <2>1, PageAssumption
  <2> QED
    BY <2>1, <2>2 DEF ReadsInv, ReadsType
<1>3. (there' = None) = (there = None) /\ (there # None => there' \subseteq there)
  BY <1>1, <1>2, NoneAssumption
<1>4. ReadsType'
  BY <1>1 DEF ReadsInv, ReadsType
<1>5. Untouched' /\ InLine' /\ Cleared' /\ Covered'
  BY <1>1, <1>3 DEF ReadsInv, Untouched, InLine, Falling, Cleared, Covered
<1>6. NothingSkipped'
  BY <1>1, <1>3 DEF ReadsInv, Untouched, NothingSkipped
<1> QED
  BY <1>4, <1>5, <1>6 DEF ReadsInv

LEMMA FetchFailsInv == ASSUME ReadsInv, NEW err \in Errors, FetchFails(err) PROVE ReadsInv'
<1>1. UNCHANGED <<listed, hidden, newest, limit, cursor, buffer, exhausted, yielded,
                  there, gap>>
  BY DEF FetchFails, pageVars
<1>2. reading = "open" /\ reading' \in {"open", "failed"}
  BY DEF FetchFails, Asking
<1>3. ReadsType' /\ Untouched' /\ InLine' /\ Cleared' /\ Covered' /\ NothingSkipped'
  BY <1>1, <1>2
  DEF ReadsInv, ReadsType, Untouched, InLine, Falling, Cleared, Covered, NothingSkipped
<1> QED
  BY <1>3 DEF ReadsInv

LEMMA ExhaustedInv == ASSUME ReadsInv, Exhausted PROVE ReadsInv'
<1>1. UNCHANGED <<listed, hidden, newest, limit, cursor, buffer, exhausted, yielded,
                  there, gap>>
  BY DEF Exhausted, pageVars
<1>2. exhausted /\ buffer = <<>> /\ reading' = "ended" /\ there # None
  BY DEF Exhausted, ReadsInv, Untouched
<1>3. ReadsType' /\ Untouched' /\ InLine' /\ Cleared' /\ Covered'
  BY <1>1, <1>2 DEF ReadsInv, ReadsType, Untouched, InLine, Falling, Cleared, Covered
<1>4. Range(buffer) = {}
  BY <1>2 DEF Range
<1>5. NothingSkipped'
  BY <1>1, <1>2, <1>4 DEF ReadsInv, Covered, NothingSkipped
<1> QED
  BY <1>3, <1>5 DEF ReadsInv

LEMMA YieldInv == ASSUME ReadsInv, Yield PROVE ReadsInv'
<1>1. /\ UNCHANGED <<listed, hidden, newest, limit, cursor, exhausted, there, gap>>
      /\ buffer # <<>> /\ yielded' = Append(yielded, Head(buffer)) /\ buffer' = Tail(buffer)
      /\ reading = "open"
      /\ reading' = IF Len(yielded') = limit THEN "ended" ELSE reading
  BY DEF Yield
<1>2. buffer \in Seq(Nat) /\ yielded \in Seq(Nat)
  BY DEF ReadsInv, ReadsType
<1> DEFINE m == Len(yielded)
           n == Len(buffer)
<1>3. m \in Nat /\ n \in Nat /\ n # 0
  BY <1>1, <1>2, EmptySeq, LenProperties
<1>4. /\ Head(buffer) = buffer[1] /\ Head(buffer) \in Nat
      /\ buffer' \in Seq(Nat) /\ Len(buffer') = n - 1
      /\ \A i \in 1..n - 1 : buffer'[i] = buffer[i + 1]
  BY <1>1, <1>2, HeadTailProperties
<1>5. /\ yielded' \in Seq(Nat) /\ Len(yielded') = m + 1
      /\ \A i \in 1..m : yielded'[i] = yielded[i]
      /\ yielded'[m + 1] = buffer[1]
  BY <1>1, <1>2, <1>4, AppendProperties
<1>6. ReadsType'
  BY <1>1, <1>4, <1>5 DEF ReadsInv, ReadsType
<1>7. there # None
  BY <1>1 DEF ReadsInv, Untouched
<1>8. Untouched'
  BY <1>1, <1>7 DEF Untouched
<1> HIDE DEF m, n
<1>9. InLine'
  <2>1. /\ \A i, j \in 1..m : i < j => yielded[i] > yielded[j]
        /\ \A i, j \in 1..n : i < j => buffer[i] > buffer[j]
        /\ \A i \in 1..m, j \in 1..n : yielded[i] > buffer[j]
    BY DEF ReadsInv, InLine, Falling, m, n
  <2>2. ASSUME NEW i \in 1..m + 1, NEW j \in 1..m + 1, i < j PROVE yielded'[i] > yielded'[j]
    <3>1. i \in 1..m /\ yielded'[i] = yielded[i] /\ 1 \in 1..n
      BY <1>3, <1>5, <2>2
    <3>2. CASE j = m + 1
      BY <1>5, <2>1, <3>1, <3>2
    <3>3. CASE j # m + 1
      BY <1>3, <1>5, <2>1, <2>2, <3>1, <3>3
    <3> QED
      BY <3>2, <3>3
  <2>3. \A i, j \in 1..n - 1 : i < j => buffer'[i] > buffer'[j]
    BY <1>3, <1>4, <2>1
  <2>4. ASSUME NEW i \in 1..m + 1, NEW j \in 1..n - 1 PROVE yielded'[i] > buffer'[j]
    <3>1. j + 1 \in 1..n /\ 1 \in 1..n /\ 1 < j + 1 /\ buffer'[j] = buffer[j + 1]
      BY <1>3, <1>4
    <3>2. CASE i = m + 1
      BY <1>5, <2>1, <3>1, <3>2
    <3>3. CASE i # m + 1
      <4>1. i \in 1..m /\ yielded'[i] = yielded[i]
        BY <1>3, <1>5, <3>3
      <4> QED
        BY <2>1, <3>1, <4>1
    <3> QED
      BY <3>2, <3>3
  <2> QED
    BY <1>4, <1>5, <2>2, <2>3, <2>4 DEF InLine, Falling
<1>10. Cleared'
  <2>1. ASSUME cursor # None
        PROVE  /\ \A i \in 1..m + 1 : yielded'[i] >= cursor
               /\ \A i \in 1..n - 1 : buffer'[i] >= cursor
    <3>1. /\ \A i \in 1..m : yielded[i] >= cursor
          /\ \A i \in 1..n : buffer[i] >= cursor
      BY <2>1 DEF ReadsInv, Cleared, m, n
    <3>2. ASSUME NEW i \in 1..m + 1 PROVE yielded'[i] >= cursor
      <4>1. CASE i = m + 1
        BY <1>3, <1>5, <3>1, <4>1
      <4>2. CASE i # m + 1
        BY <1>3, <1>5, <3>1, <4>2
      <4> QED
        BY <4>1, <4>2
    <3>3. ASSUME NEW i \in 1..n - 1 PROVE buffer'[i] >= cursor
      BY <1>3, <1>4, <3>1
    <3> QED
      BY <3>2, <3>3
  <2>2. cursor # None \/ exhausted
    BY <1>1 DEF ReadsInv, Cleared
  <2> QED
    BY <1>1, <1>4, <1>5, <2>1, <2>2 DEF Cleared
<1>11. Covered'
  <2>1. Range(yielded) \subseteq Range(yielded')
    <3>1. Range(yielded) = {yielded[i] : i \in 1..m}
      BY <1>2, RangeEquality DEF m
    <3>2. Range(yielded') = {yielded'[i] : i \in 1..Len(yielded')}
      BY <1>5, RangeEquality
    <3> QED
      BY <1>3, <1>5, <3>1, <3>2
  <2>2. buffer[1] \in Range(yielded')
    BY <1>3, <1>5, RangeEquality DEF m
  <2>3. ASSUME NEW x \in Range(buffer) PROVE x = buffer[1] \/ x \in Range(buffer')
    <3>1. PICK i \in 1..n : x = buffer[i]
      BY <1>2, RangeEquality DEF n
    <3>2. CASE i = 1
      BY <3>1, <3>2
    <3>3. CASE i # 1
      <4>1. i - 1 \in 1..n - 1 /\ x = buffer'[i - 1]
        BY <1>3, <1>4, <3>1, <3>3
      <4> QED
        BY <1>4, <4>1, RangeEquality
    <3> QED
      BY <3>2, <3>3
  <2> QED
    BY <1>1, <2>1, <2>2, <2>3 DEF ReadsInv, Covered
<1>12. NothingSkipped'
  BY <1>1 DEF NothingSkipped
<1> QED
  BY <1>6, <1>8, <1>9, <1>10, <1>11, <1>12 DEF ReadsInv

LEMMA FetchInv == ASSUME ReadsInv, Fetch PROVE ReadsInv'
<1> DEFINE items == NewestFirst(Page \ hidden)
<1>1. PICK next \in Cursors : Fetched(items, next)
  BY DEF Fetch
<1>2. /\ UNCHANGED <<listed, hidden, newest, limit, yielded>>
      /\ reading = "open" /\ buffer = <<>> /\ ~exhausted
      /\ there' = IF there = None THEN listed ELSE there
      /\ gap' = (gap \/ (Page \ hidden = {} /\ Older \ hidden # {}))
  BY DEF Fetch, Asking
<1>3. ReadsType
  BY DEF ReadsInv
<1>4. Page \subseteq Older /\ Older \subseteq listed /\ listed \subseteq Nat
  BY <1>3, PageIsNewest
<1>5. /\ items \in Seq(Nat) /\ Falling(items) /\ Range(items) = Page \ hidden
      /\ (items = <<>>) = (Page \ hidden = {})
  <2>1. Page \ hidden \in SUBSET Nat /\ IsFiniteSet(Page \ hidden)
    BY <1>3, <1>4, PageIsNewest
  <2> QED
    BY <2>1, ListedOnce
<1> HIDE DEF items
<1>6. there' # None /\ there' \subseteq listed'
  <2>1. newest \in 0..MaxItem /\ listed \subseteq 1..newest
    BY DEF ReadsInv, ReadsType
  <2>2. 1..newest \subseteq 1..MaxItem
    BY <2>1, PageAssumption
  <2>3. listed # None
    BY <2>1, <2>2, NoneAssumption
  <2> QED
    BY <1>2, <2>3 DEF ReadsInv, ReadsType
<1>7. gap \in BOOLEAN /\ gap' \in BOOLEAN
  BY <1>2, Zenon DEF ReadsInv, ReadsType
<1>8. \A i \in there' \ hidden : i \in Range(yielded) \/ (i \in Older /\ i \in Nat)
  <2>1. Range(buffer) = {}
    BY <1>2 DEF Range
  <2>2. there = None => cursor = None
    BY DEF ReadsInv, Untouched
  <2>3. \A i \in listed : cursor = None \/ i < cursor => i \in Older /\ i \in Nat
    BY <1>4 DEF Older
  <2>4. there # None => there \subseteq listed
    BY DEF ReadsInv, ReadsType
  <2> QED
    BY <1>2, <2>1, <2>2, <2>3, <2>4 DEF ReadsInv, Covered
<1>9. CASE items = <<>>
  <2>1. UNCHANGED <<cursor, buffer, exhausted>> /\ reading' = "ended"
    BY <1>1, <1>9 DEF Fetched, pageVars
  <2>2. ReadsType'
    BY <1>2, <1>6, <1>7, <2>1 DEF ReadsInv, ReadsType
  <2>3. Untouched' /\ InLine' /\ Cleared'
    BY <1>2, <1>6, <2>1 DEF ReadsInv, Untouched, InLine, Falling, Cleared
  <2>4. Covered'
    <3>1. \A i \in Older : cursor = None \/ i < cursor
      BY DEF Older
    <3> QED
      BY <1>2, <1>8, <2>1, <3>1 DEF Covered
  <2>5. NothingSkipped'
    <3>1. Page \ hidden = {}
      BY <1>5, <1>9
    <3>2. ~gap' => Older \ hidden = {}
      BY <1>2, <3>1
    <3> QED
      BY <1>2, <1>8, <3>2 DEF NothingSkipped
  <2> QED
    BY <2>2, <2>3, <2>4, <2>5 DEF ReadsInv
<1>10. CASE items # <<>>
  <2>1. /\ buffer' = items /\ cursor' = next /\ exhausted' = (next = None)
        /\ reading' = "open"
    BY <1>1, <1>2, <1>10 DEF Fetched
  <2>2. Page # {}
    BY <1>5, <1>10
  <2>3. \/ next = None /\ Page = Older
        \/ /\ next \in Nat /\ next # None
           /\ \A i \in Page : i >= next
           /\ \A i \in Older \ Page : i < next
    BY <1>3, <2>2, CursorBetween
  <2>4. ReadsType'
    BY <1>2, <1>5, <1>6, <1>7, <2>1, <2>3 DEF ReadsInv, ReadsType
  <2>5. Untouched'
    BY <1>6, <2>1 DEF Untouched
  <2>6. yielded \in Seq(Nat) /\ Falling(yielded)
    BY DEF ReadsInv, ReadsType, InLine
  <2>7. \A i \in 1..Len(items) : items[i] \in Page
    BY <1>5, RangeEquality
  <2>8. \A i \in 1..Len(yielded) : yielded[i] \in Nat
    BY <2>6, ElementOfSeq
  <2>9. cursor = None => Len(yielded) = 0
    BY <1>2, EmptySeq DEF ReadsInv, Cleared
  <2>10. cursor # None =>
           /\ cursor \in Nat
           /\ \A i \in Page : i \in Nat /\ i < cursor
           /\ \A i \in 1..Len(yielded) : yielded[i] >= cursor
    BY <1>4 DEF ReadsInv, ReadsType, Cleared, Page, Older
  <2>11. \A i \in 1..Len(yielded), p \in Page : yielded[i] > p
    BY <2>8, <2>9, <2>10
  <2>12. InLine'
    BY <1>2, <1>5, <2>1, <2>6, <2>7, <2>11 DEF InLine, Falling
  <2>13. Cleared'
    <3>1. ASSUME next # None, NEW i \in 1..Len(yielded) PROVE yielded[i] >= next
      <4>1. PICK p \in Page : p >= next
        BY <2>2, <2>3, <3>1
      <4> QED
        BY <1>4, <2>3, <2>8, <2>11, <3>1, <4>1
    <3> QED
      BY <1>2, <2>1, <2>3, <2>7, <3>1 DEF Cleared
  <2>14. Covered'
    <3>1. \A i \in Older : i \in Page \/ (next # None /\ i < next)
      BY <2>3
    <3> QED
      BY <1>2, <1>5, <1>8, <2>1, <3>1 DEF Covered
  <2>15. NothingSkipped'
    BY <2>1 DEF NothingSkipped
  <2> QED
    BY <2>4, <2>5, <2>12, <2>13, <2>14, <2>15 DEF ReadsInv
<1> QED
  BY <1>9, <1>10

LEMMA ReadNextInv == ReadsInv /\ [ReadNext]_readVars => ReadsInv'
<1> SUFFICES ASSUME ReadsInv, [ReadNext]_readVars PROVE ReadsInv'
  OBVIOUS
<1>1. CASE UNCHANGED readVars
  BY <1>1 DEF readVars, pageVars, ReadsInv, ReadsType, Untouched, InLine, Falling, Cleared,
              Covered, NothingSkipped
<1> QED
  BY <1>1, OpenReadInv, AppearInv, DisappearInv, FetchInv, FetchFailsInv, YieldInv,
     ExhaustedInv
  DEF ReadNext, ReadStep

(***************************************************************************)
(* Items come newest first and none twice, however many items there are    *)
(* and however many a page holds, whatever appears and vanishes between    *)
(* two pages and however often a page is asked for (paginate and retry,    *)
(* read.rs and retry.rs).                                                  *)
(***************************************************************************)
THEOREM ReadsInOrder == ReadSpec => []InOrderOnce
<1>1. ReadsInv => InOrderOnce
  BY DEF ReadsInv, InLine, Falling, InOrderOnce
<1> QED
  BY <1>1, ReadInitInv, ReadNextInv, PTL DEF ReadSpec

(***************************************************************************)
(* A read that ends by itself, and not at an empty page the server made    *)
(* too early, has yielded all that was there all the while (paginate,      *)
(* read.rs).                                                               *)
(***************************************************************************)
THEOREM ReadsEverything == ReadSpec => []NothingSkipped
<1>1. ReadsInv => NothingSkipped
  BY DEF ReadsInv
<1> QED
  BY <1>1, ReadInitInv, ReadNextInv, PTL DEF ReadSpec

(***************************************************************************)
(* What is left of a read, in this order of weight: how far its cursor has *)
(* to go, what is in the buffer, and how often the request may fail yet.   *)
(***************************************************************************)
Ahead == IF exhausted THEN 0 ELSE IF cursor = None THEN MaxItem + 2 ELSE cursor + 1

ReadNearsItsEnd ==
  \/ reading' # "open"
  \/ Ahead' < Ahead
  \/ Ahead' = Ahead /\ Len(buffer') < Len(buffer)
  \/ Ahead' = Ahead /\ buffer' = buffer /\ attempt < attempt' /\ attempt' <= MaxRetries

LessAhead ==
  [][IF ReadStep THEN ReadNearsItsEnd ELSE UNCHANGED <<Ahead, buffer, attempt>>]_readVars

Attempts == attempt \in 0..MaxRetries

LEMMA AttemptsInv == Attempts /\ [ReadNext]_readVars => Attempts'
<1> SUFFICES ASSUME Attempts, [ReadNext]_readVars PROVE Attempts'
  OBVIOUS
<1>1. CASE \E err \in Errors : FetchFails(err)
  BY <1>1, RetryAssumption DEF Attempts, FetchFails, Again
<1>2. CASE Fetch
  BY <1>2, RetryAssumption DEF Attempts, Fetch
<1>3. CASE attempt' = attempt
  BY <1>3 DEF Attempts
<1> QED
  BY <1>1, <1>2, <1>3 DEF ReadNext, ReadStep, readVars, Open, Appear, Disappear, Yield, Exhausted

LEMMA AheadType == ReadsType => Ahead \in Nat
BY PageAssumption, NoneAssumption DEF ReadsType, Ahead

LEMMA ReadStepNears ==
  ASSUME ReadsInv, Attempts, ReadStep
  PROVE  ReadNearsItsEnd
<1>1. CASE Exhausted
  BY <1>1 DEF Exhausted, ReadNearsItsEnd
<1>2. CASE Yield
  <2>1. /\ Ahead' = Ahead /\ buffer # <<>> /\ buffer' = Tail(buffer)
    BY <1>2 DEF Yield, Ahead
  <2>2. buffer \in Seq(Nat)
    BY DEF ReadsInv, ReadsType
  <2>3. Len(buffer') < Len(buffer)
    BY <2>1, <2>2, HeadTailProperties, EmptySeq, LenProperties
  <2> QED
    BY <2>1, <2>3 DEF ReadNearsItsEnd
<1>3. ASSUME NEW err \in Errors, FetchFails(err) PROVE ReadNearsItsEnd
  <2>1. Ahead' = Ahead /\ buffer' = buffer
    BY <1>3 DEF FetchFails, Ahead, pageVars
  <2>2. CASE Again(attempt, err)
    BY <1>3, <2>1, <2>2, RetryAssumption DEF FetchFails, Again, Attempts, ReadNearsItsEnd
  <2>3. CASE ~Again(attempt, err)
    BY <1>3, <2>3 DEF FetchFails, ReadNearsItsEnd
  <2> QED
    BY <2>2, <2>3
<1>4. CASE Fetch
  <2> DEFINE items == NewestFirst(Page \ hidden)
  <2>1. PICK next \in Cursors : Fetched(items, next)
    BY <1>4 DEF Fetch
  <2>2. ReadsType /\ ~exhausted
    BY <1>4 DEF ReadsInv, Fetch, Asking
  <2>3. Page \subseteq Older /\ Older \subseteq listed /\ listed \subseteq Nat
    BY <2>2, PageIsNewest
  <2>4. (items = <<>>) = (Page \ hidden = {})
    <3>1. Page \ hidden \in SUBSET Nat /\ IsFiniteSet(Page \ hidden)
      BY <2>2, <2>3, PageIsNewest
    <3> QED
      BY <3>1, ListedOnce
  <2> HIDE DEF items
  <2>5. CASE items = <<>>
    BY <2>1, <2>5 DEF Fetched, ReadNearsItsEnd
  <2>6. CASE items # <<>>
    <3>1. cursor' = next /\ exhausted' = (next = None)
      BY <2>1, <2>6 DEF Fetched
    <3>2. Page # {}
      BY <2>4, <2>6
    <3>3. \/ next = None
          \/ next \in Nat /\ next # None /\ \A i \in Page : i >= next
      BY <2>2, <3>2, CursorBetween
    <3>4. PICK i \in Page : TRUE
      BY <3>2
    <3>5. /\ i \in Nat /\ i <= MaxItem /\ MaxItem \in Nat
          /\ cursor # None => cursor \in Nat /\ i < cursor
      <4>1. i \in listed /\ i \in Older /\ i \in Nat
        BY <2>3, <3>4
      <4>2. newest \in 0..MaxItem /\ listed \subseteq 1..newest /\ cursor \in Nat \cup {None}
        BY <2>2 DEF ReadsType
      <4> QED
        BY <4>1, <4>2, PageAssumption DEF Older
    <3>6. Ahead \in Nat /\ Ahead > 0
      BY <2>2, <3>5 DEF Ahead
    <3>7. CASE next = None
      <4>1. Ahead' = 0
        BY <3>1, <3>7 DEF Ahead
      <4> QED
        BY <3>6, <4>1 DEF ReadNearsItsEnd
    <3>8. CASE next # None
      <4>1. next \in Nat /\ next <= i
        BY <3>3, <3>4, <3>5, <3>8
      <4>2. Ahead' = next + 1
        BY <3>1, <3>8 DEF Ahead
      <4>3. Ahead = IF cursor = None THEN MaxItem + 2 ELSE cursor + 1
        BY <2>2 DEF Ahead
      <4>4. Ahead' < Ahead
        BY <3>5, <4>1, <4>2, <4>3
      <4> QED
        BY <4>4 DEF ReadNearsItsEnd
    <3> QED
      BY <3>7, <3>8
  <2> QED
    BY <2>5, <2>6
<1> QED
  BY <1>1, <1>2, <1>3, <1>4 DEF ReadStep

(***************************************************************************)
(* A read cannot go on for ever: whatever is listed, appears and vanishes, *)
(* whichever cursors the server sends and requests fail, each step of the  *)
(* caller brings it nearer to its end, and nothing takes it farther from   *)
(* there.  With the fairness assumed, that is ReadEnds.  (paginate, take   *)
(* and next, read.rs; retry, retry.rs.)                                    *)
(***************************************************************************)
THEOREM ReadsWindDown == ReadSpec => [](Ahead \in Nat) /\ LessAhead
<1>1. ReadsInv => Ahead \in Nat
  BY AheadType DEF ReadsInv
<1>2. ReadInit => Attempts
  BY RetryAssumption DEF ReadInit, Attempts
<1>3. ASSUME ReadsInv, Attempts, [ReadNext]_readVars
      PROVE  [IF ReadStep THEN ReadNearsItsEnd
              ELSE UNCHANGED <<Ahead, buffer, attempt>>]_readVars
  <2>1. CASE ReadStep
    BY <1>3, <2>1, ReadStepNears
  <2>2. CASE ~ReadStep
    <3>1. UNCHANGED <<cursor, exhausted, buffer, attempt>>
      BY <1>3, <2>2 DEF ReadNext, readVars, pageVars, Open, Appear, Disappear
    <3> QED
      BY <2>2, <3>1 DEF Ahead
  <2> QED
    BY <2>1, <2>2
<1> QED
  BY <1>1, <1>2, <1>3, ReadInitInv, ReadNextInv, AttemptsInv, PTL DEF ReadSpec, LessAhead

----------------------------------------------------------------------------
(***************************************************************************)
(* Posts.  What send has embedded so far is what was composed, as far as   *)
(* it got; what is written is the whole of it.                             *)
(***************************************************************************)
Blob == [of : Nat \cup {"thumb", "video"}, mime : {"*/*"}]

Bare == Untitled(post.external.page)

\* Image i is embedded with its own blob and the type it is known to have.
ImageAt(m, i) ==
  /\ m[i].blob \in 1..Len(blobs) /\ blobs[m[i].blob].of = i
  /\ post.images[i] # Nil => m[i].mime = post.images[i]

VideoIn(m) ==
  Len(m) = 1 /\ m[1].blob \in 1..Len(blobs) /\ blobs[m[1].blob].of = "video"

CardIn(m) ==
  /\ Len(m) = 1
  /\ m[1].thumb # Nil => blobs[m[1].thumb].of = "thumb"
  /\ m[1].title = Nil => Bare

Images   == post.images # <<>> /\ ~post.video /\ post.external = Nil
Video    == post.images = <<>> /\ post.video /\ post.external = Nil
External == post.images = <<>> /\ ~post.video /\ post.external # Nil
Plain    == post.images = <<>> /\ ~post.video /\ post.external = Nil

Composed(m) ==
  \/ Images /\ Len(m) = Len(post.images) /\ \A i \in 1..Len(m) : ImageAt(m, i)
  \/ Video /\ VideoIn(m)
  \/ External /\ CardIn(m)
  \/ Plain

PostType ==
  /\ post \in PostDrafts /\ blobs \in Seq(Blob)
  /\ \/ \E s \in Steps \cup {"sent", "panicked"} : step = At(s)
     \/ \E s \in Steps : step = Error(s)

NotYet == step \notin {At("sent"), Error("write")} => repo = <<>>

AtImages ==
  step = At("images") =>
    /\ Images /\ media \in Seq([of : Nat, blob : Nat, mime : Range(post.images) \cup {"*/*"}])
    /\ Len(media) < Len(post.images)
    /\ \A i \in 1..Len(media) : ImageAt(media, i)

AtVideo    == step \in {At("video"), At("poll")} => Video /\ media = <<>>
AtExternal == step = At("external") => External
AtThumb    == step = At("thumb") => External /\ CardIn(media)
AtText     == step = At("text") => Composed(media)
AtCheck    == step = At("check") => media = <<>>

Written ==
  /\ step = At("sent") => repo # <<>>
  /\ step \in {At("sent"), Error("write")} =>
       /\ Len(repo) <= 1
       /\ \A r \in 1..Len(repo) : /\ repo[r].embed.record = post.quote
                                  /\ Composed(repo[r].embed.media)

Stages == AtCheck /\ AtImages /\ AtVideo /\ AtExternal /\ AtThumb /\ AtText

PostInv == PostType /\ NotYet /\ Stages /\ Written

LEMMA StepsDiffer ==
  ASSUME NEW x, NEW y
  PROVE  (At(x) = At(y) <=> x = y) /\ At(x) # Error(y) /\ (Error(x) = Error(y) <=> x = y)
BY DEF At, Error

LEMMA RangeOfPage ==
  ASSUME NEW page, page \in Seq(Range(page))
  PROVE  Len(page) \in Nat /\ Range(page) = {page[i] : i \in 1..Len(page)}
<1>1. DOMAIN page = 1..Len(page) /\ Len(page) \in Nat
  OBVIOUS
<1> QED
  BY <1>1, Zenon DEF Range

\* Of the meta tags looked for, each is empty when none is found.
LEMMA NoneFound ==
  ASSUME NEW page, page \in Seq(Range(page)), \A tag \in Range(page) : tag.content # Nil,
         NEW keys, Len(keys) \in Nat, FirstOf(page, keys) = Nil,
         NEW i \in 1..Len(page), NEW k \in 1..Len(keys), page[i].key = keys[k]
  PROVE  page[i].content = ""
<1> DEFINE given(l) == {j \in 1..Len(page) : page[j].key = l /\ page[j].content # ""}
           found == {l \in 1..Len(keys) : given(keys[l]) # {}}
           lowest(S) == CHOOSE j \in S : \A l \in S : j <= l
           best == given(keys[lowest(found)])
<1>2. SUFFICES ASSUME page[i].content # ""
               PROVE  FALSE
  OBVIOUS
<1>3. given(keys[k]) # {} /\ \A l : given(l) \subseteq 1..Len(page)
  BY <1>2
<1> HIDE DEF given
<1>4. k \in found /\ found \subseteq Nat
  BY <1>3
<1>5. lowest(found) \in found
  BY <1>4, LowestExists
<1>6. best # {} /\ best \subseteq Nat /\ best \subseteq 1..Len(page)
  <2>1. PICK m \in found : m = lowest(found)
    BY <1>5
  <2>2. best = given(keys[m]) /\ best # {}
    BY <2>1
  <2>3. best \subseteq 1..Len(page)
    BY <1>3, <2>2
  <2> QED
    BY <2>2, <2>3
<1>7. lowest(best) \in best
  BY <1>6, LowestExists
<1>8. page[lowest(best)] \in Range(page)
  BY <1>6, <1>7, RangeOfPage, Zenon
<1>9. FirstOf(page, keys) = page[lowest(best)].content
  BY <1>4, Zenon DEF FirstOf, given
<1> QED
  BY <1>8, <1>9

LEMMA LowestFirst ==
  ASSUME NEW n \in Nat, NEW S, S \subseteq 1..n, NEW i \in S,
         NEW first, first = CHOOSE j \in S : \A l \in S : j <= l
  PROVE  first \in S /\ (first # i => first \in 1..(i - 1))
<1>1. S \subseteq Nat /\ S # {}
  OBVIOUS
<1>2. first \in S /\ first <= i
  BY <1>1, LowestExists
<1>3. first \in 1..n /\ i \in 1..n
  BY <1>2
<1> QED
  BY <1>2, <1>3

\* The first title element, when that has no text, is the only one to do without.
LEMMA FirstTitleBare ==
  ASSUME NEW page, page \in Seq(Range(page)), \A tag \in Range(page) : tag.content # Nil,
         TitleTag(page) = Nil, NEW i \in 1..Len(page), page[i].key = "title",
         page[i].content # ""
  PROVE  \E j \in 1..(i - 1) : page[j].key = "title"
<1> DEFINE titles == {j \in 1..Len(page) : page[j].key = "title"}
<1>1. PICK first : first = CHOOSE j \in titles : \A l \in titles : j <= l
  BY Zenon
<1>2. i \in titles /\ titles \subseteq 1..Len(page) /\ \A j \in titles : page[j].key = "title"
  BY Zenon
<1>3. \/ titles = {} \/ page[first].content = ""
      \/ TitleTag(page) = page[first].content
  BY <1>1, Zenon DEF TitleTag
<1> HIDE DEF titles
<1>4. first \in titles /\ (first # i => first \in 1..(i - 1))
  BY <1>1, <1>2, RangeOfPage, LowestFirst, Zenon
<1>5. page[first] \in Range(page)
  BY <1>2, <1>4, RangeOfPage, Zenon
<1> QED
  BY <1>2, <1>3, <1>4, <1>5, Zenon

\* A card has no title only if the page gives none.
LEMMA TitleFound ==
  ASSUME NEW page, page \in Seq(Range(page)), \A tag \in Range(page) : tag.content # Nil,
         LinkMeta(page).title = Nil
  PROVE  Untitled(page)
<1> DEFINE keys == <<"og:title", "twitter:title">>
<1>1. FirstOf(page, keys) = Nil /\ TitleTag(page) = Nil
  BY DEF LinkMeta
<1>2. Len(keys) = 2 /\ keys[1] = "og:title" /\ keys[2] = "twitter:title"
  OBVIOUS
<1> HIDE DEF keys
<1>3. ASSUME NEW i \in 1..Len(page), page[i].key \in {"og:title", "twitter:title"}
      PROVE  page[i].content = ""
  <2>1. PICK k \in 1..2 : page[i].key = keys[k]
    BY <1>2, <1>3
  <2> QED
    <3>1. Len(keys) \in Nat /\ k \in 1..Len(keys)
      BY <1>2
    <3> QED
      BY <1>1, <2>1, <3>1, NoneFound, Zenon
<1>4. ASSUME NEW tag \in Range(page), tag.key \in {"og:title", "twitter:title"}
      PROVE  tag.content = ""
  <2>1. PICK i \in 1..Len(page) : tag = page[i]
    BY RangeOfPage, Zenon
  <2> QED
    BY <1>3, <1>4, <2>1, Zenon
<1>5. \A i \in 1..Len(page) :
        page[i].key = "title" /\ page[i].content # "" =>
          \E j \in 1..(i - 1) : page[j].key = "title"
  BY <1>1, FirstTitleBare
<1> QED
  BY <1>4, <1>5 DEF Untitled

\* A blob more.
LEMMA BlobStored ==
  ASSUME blobs \in Seq(Blob), NEW of \in Nat \cup {"thumb", "video"}
  PROVE  LET more == Stored(of) IN
         /\ more \in Seq(Blob) /\ Len(more) = Len(blobs) + 1
         /\ \A b \in 1..Len(blobs) : b \in 1..Len(more) /\ more[b] = blobs[b]
         /\ Len(blobs) + 1 \in 1..Len(more) /\ more[Len(blobs) + 1].of = of
<1> DEFINE blob == [of |-> of, mime |-> "*/*"]
<1>1. blob \in Blob /\ blob.of = of
  BY DEF Blob
<1> HIDE DEF blob
<1>2. LET more == Append(blobs, blob) IN
      /\ more \in Seq(Blob) /\ Len(more) = Len(blobs) + 1
      /\ \A b \in 1..Len(blobs) : b \in 1..Len(more) /\ more[b] = blobs[b]
      /\ Len(blobs) + 1 \in 1..Len(more) /\ more[Len(blobs) + 1].of = of
  BY <1>1
<1> QED
  BY <1>2 DEF Stored, blob

\* What every step does that goes on, or fails, before the post is written.
LEMMA GoesOn ==
  ASSUME PostInv, NEW s \in Steps \ {"write"}, step' \in {At(s), Error(s)},
         NEW t \in Steps, step = At(t), UNCHANGED <<post, repo>>, blobs' \in Seq(Blob),
         step' = At(s) => Stages'
  PROVE  PostInv'
<1>1. repo' = <<>>
  BY StepsDiffer DEF PostInv, NotYet, Steps
<1>2. step' \notin {At("sent"), Error("write")}
  BY StepsDiffer DEF Steps
<1>3. Stages'
  BY StepsDiffer DEF Stages, AtCheck, AtImages, AtVideo, AtExternal, AtThumb, AtText
<1>4. PostType'
  BY DEF PostInv, PostType
<1> QED
  BY <1>1, <1>2, <1>3, <1>4 DEF PostInv, NotYet, Written

LEMMA PostInitInv == PostInit /\ repo = <<>> => PostInv
<1> SUFFICES ASSUME PostInit, repo = <<>> PROVE PostInv
  OBVIOUS
<1>1. <<>> \in Seq(Blob)
  BY EmptySeq, Zenon
<1>2. PostType
  BY <1>1 DEF PostInit, PostType, Steps
<1>3. step = At("check") /\ media = <<>>
  BY DEF PostInit
<1>4. Stages /\ NotYet /\ Written
  BY <1>3, StepsDiffer
     DEF Stages, AtCheck, AtImages, AtVideo, AtExternal, AtThumb, AtText, NotYet, Written
<1> QED
  BY <1>2, <1>4 DEF PostInv

\* Past the checks there is one kind of media, and nothing is embedded yet.
LEMMA SendPostInv ==
  ASSUME PostInv, SendPost
  PROVE  PostInv'
<1>1. /\ post \in PostDrafts /\ post.video \in BOOLEAN /\ blobs \in Seq(Blob)
      /\ step = At("check") /\ media = <<>> /\ UNCHANGED <<post, blobs, media, repo>>
      /\ post.images \in Seq(Range(post.images))
  BY DraftsAssumption DEF PostInv, PostType, Stages, AtCheck, SendPost
<1>2. Kinds(post) \subseteq {"images", "video", "external"}
  BY DEF Kinds
<1>3. CASE \/ \E k, l \in Kinds(post) : k # l
           \/ Len(post.images) > MaxImages
  <2>1. Kinds(post) # {}
    <3>1. Len(post.images) > MaxImages => post.images # <<>>
      BY <1>1, MaxImagesAssumption
    <3> QED
      BY <1>3, <3>1 DEF Kinds
  <2>2. step' = Error("check")
    BY <1>3, <2>1 DEF SendPost
  <2> QED
    BY <1>1, <2>2, StepsDiffer, GoesOn DEF Steps
<1>4. CASE /\ ~(\E k, l \in Kinds(post) : k # l)
           /\ ~(Len(post.images) > MaxImages) /\ Kinds(post) = {}
  <2>1. step' = At("text") /\ Plain
    BY <1>1, <1>4 DEF SendPost, Kinds, Plain
  <2>2. Stages'
    BY <1>1, <2>1, StepsDiffer
       DEF Stages, AtCheck, AtImages, AtVideo, AtExternal, AtThumb, AtText, Composed, Plain
  <2> QED
    BY <1>1, <2>1, <2>2, GoesOn DEF Steps
<1>5. CASE /\ ~(\E k, l \in Kinds(post) : k # l)
           /\ ~(Len(post.images) > MaxImages) /\ Kinds(post) # {}
  <2>1. PICK k \in Kinds(post) : step' = At(k)
    BY <1>5 DEF SendPost
  <2>2. Kinds(post) = {k}
    BY <1>5
  <2>3. CASE k = "images"
    <3>1. Images
      BY <1>1, <2>2, <2>3 DEF Kinds, Images
    <3>2. Len(media) = 0 /\ Len(post.images) > 0
      BY <1>1, <3>1 DEF Images
    <3>3. <<>> \in Seq([of : Nat, blob : Nat, mime : Range(post.images) \cup {"*/*"}])
      BY EmptySeq, Zenon
    <3>4. AtImages'
      BY <1>1, <3>1, <3>2, <3>3 DEF AtImages, Images
    <3>5. Stages'
      BY <2>1, <2>3, <3>4, StepsDiffer
         DEF Stages, AtCheck, AtVideo, AtExternal, AtThumb, AtText
    <3> QED
      BY <1>1, <2>1, <2>3, <3>5, GoesOn DEF Steps
  <2>4. CASE k = "video"
    <3>1. Video
      BY <1>1, <2>2, <2>4 DEF Kinds, Video
    <3>2. Stages'
      BY <1>1, <2>1, <2>4, <3>1, StepsDiffer
         DEF Stages, AtCheck, AtImages, AtVideo, AtExternal, AtThumb, AtText, Video
    <3> QED
      BY <1>1, <2>1, <2>4, <3>2, GoesOn DEF Steps
  <2>5. CASE k = "external"
    <3>1. External
      BY <1>1, <2>2, <2>5 DEF Kinds, External
    <3>2. Stages'
      BY <1>1, <2>1, <2>5, <3>1, StepsDiffer
         DEF Stages, AtCheck, AtImages, AtVideo, AtExternal, AtThumb, AtText, External
    <3> QED
      BY <1>1, <2>1, <2>5, <3>2, GoesOn DEF Steps
  <2> QED
    BY <1>2, <2>3, <2>4, <2>5
<1> QED
  BY <1>3, <1>4, <1>5

LEMMA UploadImageInv ==
  ASSUME PostInv, UploadImage
  PROVE  PostInv'
<1> DEFINE i == Len(media) + 1
           Item == [of : Nat, blob : Nat, mime : Range(post.images) \cup {"*/*"}]
           item == [of |-> i, blob |-> Len(blobs) + 1,
                    mime |-> IF post.images[i] = Nil THEN "*/*" ELSE post.images[i]]
<1>1. /\ post \in PostDrafts /\ blobs \in Seq(Blob) /\ step = At("images")
      /\ post.images \in Seq(Range(post.images))
      /\ Images /\ media \in Seq(Item) /\ Len(media) < Len(post.images)
      /\ \A j \in 1..Len(media) : ImageAt(media, j)
      /\ UNCHANGED <<post, repo>>
  BY DraftsAssumption DEF PostInv, PostType, Stages, AtImages, UploadImage
<1>2. i \in 1..Len(post.images) /\ i \in Nat /\ Len(blobs) \in Nat
  BY <1>1
<1>3. CASE step' = Error("images") /\ UNCHANGED <<blobs, media>>
  BY <1>1, <1>3, StepsDiffer, GoesOn DEF Steps
<1>4. CASE /\ blobs' = Stored(i) /\ media' = Embedded(i, post.images[i])
           /\ step' = IF i = Len(post.images) THEN At("text") ELSE At("images")
  <2>1. /\ item \in Item /\ item.blob = Len(blobs) + 1
        /\ post.images[i] # Nil => item.mime = post.images[i]
    BY <1>1, <1>2 DEF Range
  <2>2. media' = Append(media, item)
    BY <1>4 DEF Embedded
  <2>3. /\ blobs' \in Seq(Blob)
        /\ \A b \in 1..Len(blobs) : b \in 1..Len(blobs') /\ blobs'[b] = blobs[b]
        /\ Len(blobs) + 1 \in 1..Len(blobs') /\ blobs'[Len(blobs) + 1].of = i
    BY <1>1, <1>2, <1>4, BlobStored
  <2> HIDE DEF item
  <2>4. /\ media' \in Seq(Item) /\ Len(media') = i /\ media'[i] = item
        /\ \A j \in 1..Len(media) : media'[j] = media[j]
    BY <1>1, <2>1, <2>2
  <2>5. ASSUME NEW j \in 1..i PROVE ImageAt(media, j)'
    <3>1. CASE j = i
      BY <1>1, <2>1, <2>3, <2>4, <3>1 DEF ImageAt
    <3>2. CASE j # i
      <4>1. j \in 1..Len(media)
        BY <1>1, <3>2
      <4> QED
        BY <1>1, <2>3, <2>4, <4>1 DEF ImageAt
    <3> QED
      BY <3>1, <3>2
  <2>6. Images'
    BY <1>1 DEF Images
  <2>7. CASE i = Len(post.images)
    <3>1. step' = At("text")
      BY <1>4, <2>7
    <3>2. Composed(media)'
      BY <1>1, <2>4, <2>5, <2>6, <2>7 DEF Composed
    <3>3. Stages'
      BY <3>1, <3>2, StepsDiffer
         DEF Stages, AtCheck, AtImages, AtVideo, AtExternal, AtThumb, AtText
    <3> QED
      BY <1>1, <2>3, <3>1, <3>3, GoesOn DEF Steps
  <2>8. CASE i # Len(post.images)
    <3>1. step' = At("images")
      BY <1>4, <2>8
    <3>2. AtImages'
      BY <1>1, <1>2, <2>4, <2>5, <2>6, <2>8 DEF AtImages
    <3>3. Stages'
      BY <3>1, <3>2, StepsDiffer
         DEF Stages, AtCheck, AtVideo, AtExternal, AtThumb, AtText
    <3> QED
      BY <1>1, <2>3, <3>1, <3>3, GoesOn DEF Steps
  <2> QED
    BY <2>7, <2>8
<1> QED
  BY <1>3, <1>4 DEF UploadImage

LEMMA BuildExternalInv ==
  ASSUME PostInv, BuildExternal
  PROVE  PostInv'
<1>1. /\ post \in PostDrafts /\ blobs \in Seq(Blob) /\ step = At("external") /\ External
      /\ UNCHANGED <<post, blobs, repo>>
  BY DEF PostInv, PostType, Stages, AtExternal, BuildExternal
<1>2. LET page == post.external.page IN
      page \in Seq(Range(page)) /\ \A tag \in Range(page) : tag.content # Nil
  BY <1>1, DraftsAssumption DEF External
<1>3. ASSUME NEW title, title = Nil => Bare, media' = Card(title, Nil)
      PROVE  CardIn(media)' /\ External' /\ Composed(media)'
  <2>1. Len(media') = 1 /\ media'[1].thumb = Nil /\ media'[1].title = title
    BY <1>3 DEF Card
  <2>2. Bare' = Bare
    BY <1>1 DEF Bare
  <2>3. CardIn(media)' /\ External'
    BY <1>1, <1>3, <2>1, <2>2 DEF CardIn, External
  <2> QED
    BY <2>3 DEF Composed
<1>4. ASSUME NEW s \in {"text", "thumb"}, step' = At(s),
             CardIn(media)' /\ External' /\ Composed(media)'
      PROVE  PostInv'
  <2>1. Stages'
    BY <1>4, StepsDiffer
       DEF Stages, AtCheck, AtImages, AtVideo, AtExternal, AtThumb, AtText
  <2> QED
    BY <1>1, <1>4, <2>1, GoesOn DEF Steps
<1>5. CASE ~post.external.fetch
  <2>1. media' = Card("given", Nil) /\ step' = At("text")
    BY <1>5 DEF BuildExternal
  <2> QED
    BY <1>3, <1>4, <2>1, TitleAssumption
<1>6. CASE /\ media' = Card(LinkMeta(post.external.page).title, Nil)
           /\ step' = IF LinkMeta(post.external.page).image = Nil THEN At("text") ELSE At("thumb")
  <2>1. LinkMeta(post.external.page).title = Nil => Bare
    BY <1>2, TitleFound DEF Bare
  <2>2. CardIn(media)' /\ External' /\ Composed(media)'
    BY <1>3, <1>6, <2>1
  <2> QED
    BY <1>4, <1>6, <2>2
<1>7. CASE media' = media /\ step' = Error("external")
  BY <1>1, <1>7, StepsDiffer, GoesOn DEF Steps
<1>8. CASE media' = media /\ step' = At("panicked")
  <2>1. Stages' /\ NotYet' /\ Written'
    BY <1>1, <1>8, StepsDiffer
       DEF PostInv, NotYet, Written, Stages, AtCheck, AtImages, AtVideo, AtExternal, AtThumb, AtText
  <2>2. PostType'
    BY <1>1, <1>8 DEF PostType
  <2> QED
    BY <2>1, <2>2 DEF PostInv
<1> QED
  BY <1>5, <1>6, <1>7, <1>8 DEF BuildExternal

LEMMA ThumbInv ==
  ASSUME PostInv, Thumb
  PROVE  PostInv'
<1>1. /\ blobs \in Seq(Blob) /\ step = At("thumb") /\ External /\ CardIn(media)
      /\ step' = At("text") /\ UNCHANGED <<post, repo>>
  BY DEF PostInv, PostType, Stages, AtThumb, Thumb
<1>2. Bare' = Bare /\ External'
  BY <1>1 DEF Bare, External
<1>3. blobs' \in Seq(Blob) /\ CardIn(media)'
  <2>1. CASE UNCHANGED <<blobs, media>>
    BY <1>1, <1>2, <2>1 DEF CardIn
  <2>2. CASE /\ blobs' = Stored("thumb")
             /\ media' = Card(media[1].title, Len(blobs) + 1)
    <3>1. blobs' \in Seq(Blob) /\ blobs'[Len(blobs) + 1].of = "thumb"
      BY <1>1, <2>2, BlobStored
    <3>2. /\ Len(media') = 1 /\ media'[1].thumb = Len(blobs) + 1
          /\ media'[1].title = media[1].title
      BY <2>2 DEF Card
    <3> QED
      BY <1>1, <1>2, <3>1, <3>2 DEF CardIn
  <2> QED
    BY <2>1, <2>2 DEF Thumb
<1>4. Stages'
  BY <1>1, <1>2, <1>3, StepsDiffer
     DEF Stages, AtCheck, AtImages, AtVideo, AtExternal, AtThumb, AtText, Composed
<1> QED
  BY <1>1, <1>3, <1>4, GoesOn DEF Steps

\* Whatever the state of the job, before and while it is polled.
LEMMA JobDoneInv ==
  ASSUME PostInv, NEW at \in {"video", "poll"}, step = At(at), UNCHANGED <<post, repo>>,
         \/ step' = Error(at) /\ UNCHANGED <<blobs, media>>
         \/ \E job \in JobStates : JobDone(job, at)
  PROVE  PostInv'
<1>1. blobs \in Seq(Blob) /\ Video /\ media = <<>>
  BY DEF PostInv, PostType, Stages, AtVideo
<1>2. Video'
  BY <1>1 DEF Video
<1>3. CASE step' = Error(at) /\ UNCHANGED <<blobs, media>>
  BY <1>1, <1>3, StepsDiffer, GoesOn DEF Steps
<1>4. CASE step' = At("poll") /\ UNCHANGED <<blobs, media>>
  <2>1. Stages'
    BY <1>1, <1>2, <1>4, StepsDiffer
       DEF Stages, AtCheck, AtImages, AtVideo, AtExternal, AtThumb, AtText
  <2> QED
    BY <1>1, <1>4, <2>1, GoesOn DEF Steps
<1>5. CASE blobs' = Stored("video") /\ media' = Embedded("video", Nil) /\ step' = At("text")
  <2>1. /\ blobs' \in Seq(Blob) /\ Len(blobs) + 1 \in 1..Len(blobs')
        /\ blobs'[Len(blobs) + 1].of = "video"
    BY <1>1, <1>5, BlobStored
  <2>2. Len(media') = 1 /\ media'[1].blob = Len(blobs) + 1
    BY <1>1, <1>5 DEF Embedded
  <2>3. Stages'
    BY <1>2, <1>5, <2>1, <2>2, StepsDiffer
       DEF Stages, AtCheck, AtImages, AtVideo, AtExternal, AtThumb, AtText, Composed, VideoIn
  <2> QED
    BY <1>5, <2>1, <2>3, GoesOn DEF Steps
<1> QED
  BY <1>3, <1>4, <1>5 DEF JobDone

LEMMA WritePostInv ==
  ASSUME PostInv, NEW outcome \in Outcomes, WritePost(outcome)
  PROVE  PostInv'
<1>1. /\ post \in PostDrafts /\ blobs \in Seq(Blob) /\ step = At("text") /\ Composed(media)
      /\ UNCHANGED <<post, blobs, media>>
  BY DEF PostInv, PostType, Stages, AtText, WritePost
<1>2. CASE step' = Error("text") /\ UNCHANGED repo
  BY <1>1, <1>2, StepsDiffer, GoesOn DEF Steps
<1>3. CASE /\ repo' = Created([embed |-> AssembleEmbed, text |-> post.text], outcome)
           /\ step' = IF outcome = "ok" THEN At("sent") ELSE Error("write")
  <2> DEFINE record == [embed |-> AssembleEmbed, text |-> post.text]
  <2>1. repo = <<>>
    BY <1>1, StepsDiffer DEF PostInv, NotYet
  <2>2. /\ record.embed.record = post.quote /\ record.embed.media = media
    BY DEF AssembleEmbed
  <2> HIDE DEF record
  <2>3. \/ repo' = <<record>>
        \/ repo' = <<>> /\ step' # At("sent")
    BY <1>3, <2>1, StepsDiffer DEF Created, record
  <2>4. ASSUME NEW m, Composed(m) PROVE Composed(m)'
    BY <1>1, <2>4 DEF Composed, Images, Video, External, Plain, ImageAt, VideoIn, CardIn, Bare
  <2>5. Written'
    <3>1. CASE repo' = <<>>
      BY <2>3, <3>1 DEF Written
    <3>2. CASE repo' = <<record>>
      <4>1. repo' # <<>> /\ Len(repo') = 1 /\ repo'[1] = record
        BY <3>2
      <4>2. Composed(media)'
        BY <1>1 DEF Composed, Images, Video, External, Plain, ImageAt, VideoIn, CardIn, Bare
      <4>3. ASSUME NEW r \in 1..Len(repo')
            PROVE  repo'[r].embed.record = post'.quote /\ repo'[r].embed.media = media
        BY <1>1, <2>2, <4>1, <4>3
      <4>4. ASSUME NEW r \in 1..Len(repo') PROVE Composed(repo[r].embed.media)'
        <5>1. repo'[r].embed.media = media'
          BY <1>1, <4>3
        <5> QED
          BY <4>2, <5>1 DEF Composed, ImageAt, VideoIn, CardIn
      <4> QED
        BY <4>1, <4>3, <4>4 DEF Written
    <3> QED
      BY <2>3, <3>1, <3>2
  <2>6. step' \in {At("sent"), Error("write")}
    BY <1>3
  <2>7. Stages' /\ NotYet'
    BY <2>6, StepsDiffer
       DEF Stages, AtCheck, AtImages, AtVideo, AtExternal, AtThumb, AtText, NotYet
  <2>8. PostType'
    BY <1>1, <2>6 DEF PostType, Steps
  <2> QED
    BY <2>5, <2>7, <2>8 DEF PostInv
<1> QED
  BY <1>2, <1>3 DEF WritePost

LEMMA PostNextInv == PostInv /\ [PostNext]_<<postVars, repo>> => PostInv'
<1> SUFFICES ASSUME PostInv, [PostNext]_<<postVars, repo>>
             PROVE  PostInv'
  OBVIOUS
<1>1. CASE SendPost
  BY <1>1, SendPostInv
<1>2. CASE UploadImage
  BY <1>2, UploadImageInv
<1>3. CASE BuildExternal
  BY <1>3, BuildExternalInv
<1>4. CASE Thumb
  BY <1>4, ThumbInv
<1>5. CASE UploadVideo
  BY <1>5, JobDoneInv DEF UploadVideo
<1>6. CASE Poll
  BY <1>6, JobDoneInv DEF Poll
<1>7. ASSUME NEW outcome \in Outcomes, WritePost(outcome)
      PROVE  PostInv'
  BY <1>7, WritePostInv
<1>8. CASE UNCHANGED <<postVars, repo>>
  <2>1. UNCHANGED <<post, blobs, media, polls, step, repo>>
    BY <1>8 DEF postVars
  <2>2. /\ Images' = Images /\ Video' = Video /\ External' = External /\ Plain' = Plain
        /\ Bare' = Bare
    BY <2>1 DEF Images, Video, External, Plain, Bare
  <2>3. \A i : ImageAt(media, i)' = ImageAt(media, i)
    BY <2>1 DEF ImageAt
  <2>4. CardIn(media)' = CardIn(media) /\ VideoIn(media)' = VideoIn(media)
    BY <2>1, <2>2 DEF CardIn, VideoIn
  <2>5. Composed(media)' = Composed(media)
    BY <2>1, <2>2, <2>3, <2>4 DEF Composed
  <2>6. ASSUME NEW r \in 1..Len(repo), Composed(repo[r].embed.media)
        PROVE  Composed(repo[r].embed.media)'
    BY <2>1, <2>2, <2>6 DEF Composed, ImageAt, CardIn, VideoIn
  <2>7. Stages'
    BY <2>1, <2>2, <2>3, <2>4, <2>5
       DEF PostInv, Stages, AtCheck, AtImages, AtVideo, AtExternal, AtThumb, AtText
  <2>8. Written'
    BY <2>1, <2>6 DEF PostInv, Written
  <2>9. PostType' /\ NotYet'
    BY <2>1 DEF PostInv, PostType, NotYet
  <2> QED
    BY <2>7, <2>8, <2>9 DEF PostInv
<1> QED
  BY <1>1, <1>2, <1>3, <1>4, <1>5, <1>6, <1>7, <1>8 DEF PostNext, PostStep

(***************************************************************************)
(* A call of send leaves at most one post, none if it failed before the    *)
(* write itself, and the post carries what was composed, whatever the      *)
(* servers answer.  (PostBuilder::send, embed.rs:262-323.)                 *)
(***************************************************************************)
THEOREM SendsAsComposed == PostSpec => []EmbedsAsComposed
<1>1. PostInit /\ repo = <<>> => PostInv
  BY PostInitInv
<1>2. PostInv /\ [PostNext]_<<postVars, repo>> => PostInv'
  BY PostNextInv
<1>3. PostInv => EmbedsAsComposed
  <2> SUFFICES ASSUME PostInv PROVE EmbedsAsComposed
    OBVIOUS
  <2>1. step \notin {At("sent"), Error("write")} => repo = <<>> /\ Len(repo) = 0
    BY DEF PostInv, NotYet
  <2>2. Len(repo) <= 1 /\ (repo # <<>> => step \in {At("sent"), Error("write")})
    BY <2>1 DEF PostInv, Written
  <2>3. step = At("sent") => repo # <<>>
    BY DEF PostInv, Written
  <2>4. ASSUME NEW r \in 1..Len(repo)
        PROVE  /\ repo[r].embed.record = post.quote
               /\ Composed(repo[r].embed.media)
    BY <2>1 DEF PostInv, Written
  <2>5. ASSUME NEW m, Composed(m)
        PROVE  /\ post.images # <<>> => Len(m) = Len(post.images)
               /\ post.video \/ post.external # Nil => Len(m) = 1
               /\ \A i \in 1..Len(post.images) :
                    /\ blobs[m[i].blob].of = i
                    /\ post.images[i] # Nil => m[i].mime = post.images[i]
               /\ post.video => /\ m[1].blob \in 1..Len(blobs)
                                /\ blobs[m[1].blob].of = "video"
               /\ post.external # Nil =>
                    /\ m[1].thumb # Nil => blobs[m[1].thumb].of = "thumb"
                    /\ m[1].title = Nil => Bare
    <3>1. post.images = <<>> => Len(post.images) = 0
      OBVIOUS
    <3>2. CASE Images /\ Len(m) = Len(post.images) /\ \A i \in 1..Len(m) : ImageAt(m, i)
      BY <3>2 DEF Images, ImageAt
    <3>3. CASE Video /\ VideoIn(m)
      BY <3>1, <3>3 DEF Video, VideoIn
    <3>4. CASE External /\ CardIn(m)
      BY <3>1, <3>4 DEF External, CardIn
    <3>5. CASE Plain
      BY <3>1, <3>5 DEF Plain
    <3> QED
      BY <2>5, <3>2, <3>3, <3>4, <3>5 DEF Composed
  <2> QED
    BY <2>2, <2>3, <2>4, <2>5 DEF EmbedsAsComposed, Bare
<1> QED
  BY <1>1, <1>2, <1>3, PTL DEF PostSpec

(***************************************************************************)
(* What is left of a call of send: the stages it has yet to pass, and in   *)
(* one of them the images to upload or the polls it may make yet.          *)
(***************************************************************************)
StagesLeft ==
  IF step = At("check") THEN 4
  ELSE IF step \in {At("images"), At("external"), At("video")} THEN 3
  ELSE IF step \in {At("thumb"), At("poll")} THEN 2
  ELSE IF step = At("text") THEN 1
  ELSE 0

SendNearsItsEnd ==
  \/ StagesLeft' < StagesLeft
  \/ /\ step = At("images") /\ UNCHANGED <<step, post>>
     /\ Len(media) < Len(media') /\ Len(media') < Len(post.images)
  \/ /\ step = At("poll") /\ UNCHANGED step
     /\ polls < polls' /\ polls' < MaxPolls

Polled == step = At("poll") => polls \in Nat /\ polls < MaxPolls

LEMMA StageWeights ==
  /\ step = At("check") => StagesLeft = 4
  /\ step \in {At("images"), At("external"), At("video")} => StagesLeft = 3
  /\ step \in {At("thumb"), At("poll")} => StagesLeft = 2
  /\ step = At("text") => StagesLeft = 1
  /\ step \in {At("sent"), At("panicked")} => StagesLeft = 0
  /\ \A s : step = Error(s) => StagesLeft = 0
BY StepsDiffer DEF StagesLeft

LEMMA StageWeightsNext ==
  /\ step' \in {At("images"), At("external"), At("video")} => StagesLeft' = 3
  /\ step' \in {At("thumb"), At("poll")} => StagesLeft' = 2
  /\ step' = At("text") => StagesLeft' = 1
  /\ step' \in {At("sent"), At("panicked")} => StagesLeft' = 0
  /\ \A s : step' = Error(s) => StagesLeft' = 0
BY StepsDiffer DEF StagesLeft

\* What is asked of a video job, on the upload and on each poll.
LEMMA JobDoneNears ==
  ASSUME NEW at \in {"video", "poll"}, polls' \in Nat, polls' <= MaxPolls,
         \/ step' = Error(at) /\ UNCHANGED <<blobs, media>>
         \/ \E job \in JobStates : JobDone(job, at)
  PROVE  \/ step' = Error(at)
         \/ step' = At("text")
         \/ step' = At("poll") /\ polls' < MaxPolls
BY PollsAssumption DEF JobDone

LEMMA PolledInv == PostInv /\ Polled /\ [PostNext]_<<postVars, repo>> => Polled'
<1> SUFFICES ASSUME Polled, [PostNext]_<<postVars, repo>>, step' = At("poll")
             PROVE  polls' \in Nat /\ polls' < MaxPolls
  BY DEF Polled
<1>1. CASE SendPost
  <2>1. step' # At("poll")
    BY <1>1, StepsDiffer DEF SendPost, Kinds
  <2> QED
    BY <2>1
<1>2. CASE UploadImage \/ BuildExternal \/ Thumb \/ \E outcome \in Outcomes : WritePost(outcome)
  <2>1. step' # At("poll")
    BY <1>2, StepsDiffer DEF UploadImage, BuildExternal, Thumb, WritePost
  <2> QED
    BY <2>1
<1>3. CASE UploadVideo
  <2>1. polls' = 0 /\ 0 <= MaxPolls
    BY <1>3, PollsAssumption DEF UploadVideo
  <2>2. \/ step' = Error("video") /\ UNCHANGED <<blobs, media>>
        \/ \E job \in JobStates : JobDone(job, "video")
    BY <1>3 DEF UploadVideo
  <2> QED
    BY <2>1, <2>2, JobDoneNears, StepsDiffer
<1>4. CASE Poll
  <2>1. polls' \in Nat /\ polls' <= MaxPolls
    BY <1>4, PollsAssumption DEF Poll, Polled
  <2>2. \/ step' = Error("poll") /\ UNCHANGED <<blobs, media>>
        \/ \E job \in JobStates : JobDone(job, "poll")
    BY <1>4 DEF Poll
  <2> QED
    BY <2>1, <2>2, JobDoneNears, StepsDiffer
<1>5. CASE UNCHANGED <<postVars, repo>>
  BY <1>5 DEF Polled, postVars
<1> QED
  BY <1>1, <1>2, <1>3, <1>4, <1>5 DEF PostNext, PostStep

LEMMA SendStepNears ==
  ASSUME PostInv, PostInv', Polled, PostNext
  PROVE  SendNearsItsEnd
<1>1. CASE SendPost
  <2>1. step = At("check")
    BY <1>1 DEF SendPost
  <2>2. \/ step' \in {At("images"), At("external"), At("video")}
        \/ step' = At("text")
        \/ step' = Error("check")
    BY <1>1 DEF SendPost, Kinds
  <2> QED
    BY <2>1, <2>2, StageWeights, StageWeightsNext DEF SendNearsItsEnd
<1>2. CASE UploadImage
  <2>1. step = At("images") /\ post' = post
    BY <1>2 DEF UploadImage
  <2>2. CASE step' \in {At("text"), Error("images")}
    BY <2>1, <2>2, StageWeights, StageWeightsNext DEF SendNearsItsEnd
  <2>3. CASE step' = At("images")
    <3>1. Len(media) \in Nat /\ Len(media') \in Nat /\ Len(media') < Len(post.images)
      BY <2>1, <2>3 DEF PostInv, Stages, AtImages
    <3>2. media' = Embedded(Len(media) + 1, post.images[Len(media) + 1])
      BY <1>2, <2>3, StepsDiffer DEF UploadImage
    <3>3. Len(media') = Len(media) + 1
      BY <2>1, <3>2 DEF Embedded, PostInv, Stages, AtImages
    <3> QED
      BY <2>1, <2>3, <3>1, <3>3 DEF SendNearsItsEnd
  <2> QED
    BY <1>2, <2>2, <2>3 DEF UploadImage
<1>3. CASE BuildExternal
  <2>1. /\ step = At("external")
        /\ step' \in {At("text"), At("thumb"), Error("external"), At("panicked")}
    BY <1>3 DEF BuildExternal
  <2> QED
    BY <2>1, StageWeights, StageWeightsNext DEF SendNearsItsEnd
<1>4. CASE Thumb
  <2>1. step = At("thumb") /\ step' = At("text")
    BY <1>4 DEF Thumb
  <2> QED
    BY <2>1, StageWeights, StageWeightsNext DEF SendNearsItsEnd
<1>5. CASE UploadVideo
  <2>1. step = At("video") /\ polls' = 0 /\ 0 <= MaxPolls
    BY <1>5, PollsAssumption DEF UploadVideo
  <2>2. \/ step' = Error("video") /\ UNCHANGED <<blobs, media>>
        \/ \E job \in JobStates : JobDone(job, "video")
    BY <1>5 DEF UploadVideo
  <2>3. step' \in {Error("video"), At("text"), At("poll")}
    BY <2>1, <2>2, JobDoneNears
  <2> QED
    BY <2>1, <2>3, StageWeights, StageWeightsNext DEF SendNearsItsEnd
<1>6. CASE Poll
  <2>1. step = At("poll") /\ polls \in Nat /\ polls' = polls + 1 /\ polls' <= MaxPolls
    BY <1>6, PollsAssumption DEF Poll, Polled
  <2>2. \/ step' = Error("poll") /\ UNCHANGED <<blobs, media>>
        \/ \E job \in JobStates : JobDone(job, "poll")
    BY <1>6 DEF Poll
  <2>3. \/ step' \in {Error("poll"), At("text")}
        \/ step' = At("poll") /\ polls' < MaxPolls
    BY <2>1, <2>2, JobDoneNears
  <2> QED
    BY <2>1, <2>3, StageWeights, StageWeightsNext DEF SendNearsItsEnd
<1>7. ASSUME NEW outcome \in Outcomes, WritePost(outcome)
      PROVE  SendNearsItsEnd
  <2>1. step = At("text") /\ step' \in {Error("text"), At("sent"), Error("write")}
    BY <1>7 DEF WritePost
  <2> QED
    BY <2>1, StageWeights, StageWeightsNext DEF SendNearsItsEnd
<1> QED
  BY <1>1, <1>2, <1>3, <1>4, <1>5, <1>6, <1>7 DEF PostNext, PostStep

(***************************************************************************)
(* A call of send cannot go on for ever: whatever it was given and the     *)
(* servers answer, each of its steps passes a stage, uploads one of the    *)
(* images or makes one of the polls, of which there are MaxPolls.  With    *)
(* the fairness assumed, that is SendEnds.  (send and upload_video_blob,   *)
(* embed.rs.)                                                              *)
(***************************************************************************)
THEOREM SendWindsDown == PostSpec => [][SendNearsItsEnd]_<<postVars, repo>>
<1>1. PostInit => Polled
  BY StepsDiffer DEF PostInit, Polled
<1>2. PostInv /\ PostInv' /\ Polled /\ [PostNext]_<<postVars, repo>>
        => [SendNearsItsEnd]_<<postVars, repo>>
  BY SendStepNears
<1> QED
  BY <1>1, <1>2, PostInitInv, PostNextInv, PolledInv, PTL DEF PostSpec

----------------------------------------------------------------------------
(***************************************************************************)
(* The account.  The server never gives out a key twice, so a record keeps *)
(* its key to itself, a task that is to delete the record it looked up     *)
(* finds that one under the key or none, and the record a task is still to *)
(* create has a key nobody can have looked up.                             *)
(***************************************************************************)
Fields == {"op", "on", "no", "at", "seen", "attempt"}

Shape ==
  /\ DOMAIN task = Tasks
  /\ \A t \in Tasks : DOMAIN task[t] = Fields /\ task[t].at \in {"idle", "read", "write"}

Numbered ==
  /\ changes \in Nat
  /\ \A t \in Tasks : task[t].at # "idle" => task[t].no \in 1..changes
  /\ \A t, u \in Tasks : t # u /\ task[t].at # "idle" /\ task[u].at # "idle"
                           => task[t].no # task[u].no

ServerKeyed == {"post", "like", "repost", "follow", "block", "list", "listitem", "message"}
SelfKeyed   == {"threadgate", "postgate", "declaration", "mute"}

Keyed ==
  /\ \A r \in records :
       /\ r.by \in 1..changes
       /\ r.coll \in ServerKeyed => r.rkey = r.by
       /\ r.coll \in SelfKeyed => r.rkey = r.on
  /\ \A r, s \in records : r.by = s.by => r = s

\* No record yet of a call that has not returned.
Unwritten == \A t \in Tasks : task[t].at # "idle" => \A r \in records : r.by # task[t].no

Found ==
  \A t \in Tasks : task[t].at = "write" /\ task[t].op \in DOMAIN LooksUp =>
    /\ task[t].seen \in 1..changes
    /\ \A u \in Tasks : task[u].at # "idle" => task[u].no # task[t].seen
    /\ \A r \in records : r.coll = Coll[task[t].op] /\ r.rkey = task[t].seen
                            => r.on = task[t].on

AccountInv == Shape /\ Numbered /\ Keyed /\ Unwritten /\ Found

LEMMA CollOf ==
  /\ \A op \in DOMAIN Creates : Coll[op] \in ServerKeyed
  /\ \A op \in DOMAIN Puts : Coll[op] \in SelfKeyed
  /\ \A op \in DOMAIN LooksUp : Coll[op] \in ServerKeyed /\ op \notin Edits \cup {"send_dm"}
  /\ \A op \in DOMAIN Deletes : Coll[op] \in SelfKeyed
<1>1. /\ DOMAIN Creates = {"post", "like", "repost", "follow", "block", "create_list",
                           "add_to_list", "send_dm_to_convo", "send_dm"}
      /\ DOMAIN Puts = {"set_reply_gate", "disable_quotes", "set_dm_access", "mute"}
      /\ DOMAIN LooksUp = {"unfollow", "unblock"}
      /\ DOMAIN Deletes = {"remove_reply_gate", "allow_quotes", "unmute"}
  BY DEF Creates, Puts, LooksUp, Deletes
<1>2. \A op \in DOMAIN Creates : Coll[op] = Creates[op] /\ Creates[op] \in ServerKeyed
  BY <1>1 DEF Coll, Creates, ServerKeyed
<1>3. \A op \in DOMAIN Puts : Coll[op] = Puts[op] /\ Puts[op] \in SelfKeyed
  BY <1>1 DEF Coll, Puts, SelfKeyed
<1>4. \A op \in DOMAIN LooksUp : /\ Coll[op] = LooksUp[op] /\ LooksUp[op] \in ServerKeyed
                                 /\ op \notin Edits \cup {"send_dm"}
  BY <1>1 DEF Coll, LooksUp, ServerKeyed, Edits
<1>5. \A op \in DOMAIN Deletes : Coll[op] = Deletes[op] /\ Deletes[op] \in SelfKeyed
  BY <1>1 DEF Coll, Deletes, SelfKeyed
<1> QED
  BY <1>2, <1>3, <1>4, <1>5

LEMMA AccountInitInv == AccountInit => AccountInv
BY DEF AccountInit, Idle, Fields, AccountInv, Shape, Numbered, Keyed, Unwritten, Found

\* What a task does to its own entry.
LEMMA Returned ==
  ASSUME Shape, NEW t \in Tasks, Return(t)
  PROVE  /\ Shape' /\ task'[t] = Idle /\ Idle.at = "idle"
         /\ \A u \in Tasks \ {t} : task'[u] = task[u]
BY DEF Return, Shape, Idle, Fields

LEMMA Wrote ==
  ASSUME Shape, NEW t \in Tasks, NEW seen, Write(t, seen)
  PROVE  /\ Shape' /\ task'[t].at = "write" /\ task'[t].seen = seen
         /\ task'[t].op = task[t].op /\ task'[t].on = task[t].on /\ task'[t].no = task[t].no
         /\ \A u \in Tasks \ {t} : task'[u] = task[u]
<1>1. task' = [task EXCEPT ![t].at = "write", ![t].seen = seen]
  BY DEF Write
<1> QED
  BY <1>1 DEF Shape, Fields

LEMMA CallInv ==
  ASSUME AccountInv, NEW t \in Tasks, NEW call \in Calls, Call(t, call)
  PROVE  AccountInv'
<1>1. /\ changes \in Nat /\ changes' = changes + 1 /\ records' = records
      /\ task[t].at = "idle"
  BY DEF Call, AccountInv, Numbered
<1>2. /\ Shape' /\ task'[t].no = changes' /\ task'[t].op = call.op
      /\ task'[t].at = IF call.op \in Edits \cup DOMAIN LooksUp \cup {"send_dm"}
                       THEN "read" ELSE "write"
      /\ \A u \in Tasks \ {t} : task'[u] = task[u]
  BY DEF Call, AccountInv, Shape, Fields
<1>3. Numbered'
  BY <1>1, <1>2 DEF AccountInv, Numbered
<1>4. Keyed' /\ Unwritten'
  BY <1>1, <1>2 DEF AccountInv, Keyed, Unwritten
<1>5. Found'
  BY <1>1, <1>2 DEF AccountInv, Found
<1> QED
  BY <1>2, <1>3, <1>4, <1>5 DEF AccountInv

LEMMA LookUpInv ==
  ASSUME AccountInv, NEW t \in Tasks, LookUp(t)
  PROVE  AccountInv'
<1>1. records' = records /\ changes' = changes /\ task[t].at = "read" /\ changes \in Nat
  BY DEF LookUp, AccountInv, Numbered
<1>2. CASE Return(t)
  BY <1>1, <1>2, Returned DEF AccountInv, Numbered, Keyed, Unwritten, Found
<1>3. ASSUME NEW r \in records, r.coll = Coll[task[t].op], r.on = task[t].on, Write(t, r.rkey)
      PROVE  AccountInv'
  <2>1. /\ Shape' /\ task'[t].at = "write" /\ task'[t].seen = r.rkey
        /\ task'[t].op = task[t].op /\ task'[t].on = task[t].on /\ task'[t].no = task[t].no
        /\ \A u \in Tasks \ {t} : task'[u] = task[u]
    BY <1>3, Wrote DEF AccountInv
  <2>2. Numbered' /\ Keyed' /\ Unwritten'
    BY <1>1, <2>1 DEF AccountInv, Numbered, Keyed, Unwritten
  <2>3. Coll[task[t].op] \in ServerKeyed
    BY CollOf DEF LookUp
  <2>4. r.rkey = r.by
    BY <1>3, <2>3 DEF AccountInv, Keyed
  <2>5. \A s \in records : s.coll = Coll[task[t].op] /\ s.rkey = r.rkey => s = r
    BY <2>3, <2>4 DEF AccountInv, Keyed
  <2>6. \A u \in Tasks : task'[u].at # "idle" => task'[u].no # r.by
    BY <1>1, <2>1 DEF AccountInv, Unwritten
  <2>7. Found'
    BY <1>1, <1>3, <2>1, <2>4, <2>5, <2>6 DEF AccountInv, Keyed, Found
  <2> QED
    BY <2>1, <2>2, <2>7 DEF AccountInv
<1> QED
  BY <1>2, <1>3 DEF LookUp

\* Other reads go on to write without a key, return, or try again.
LEMMA ReadInv ==
  ASSUME AccountInv, NEW t \in Tasks,
         FindConvo(t) \/ FetchProfile(t) \/ \E err \in Errors : ReadFails(t, err)
  PROVE  AccountInv'
<1>1. records' = records /\ changes' = changes /\ task[t].at = "read" /\ changes \in Nat
  BY DEF FindConvo, FetchProfile, ReadFails, AccountInv, Numbered
<1>2. CASE Return(t)
  BY <1>1, <1>2, Returned DEF AccountInv, Numbered, Keyed, Unwritten, Found
<1>3. ASSUME NEW seen, Write(t, seen), task[t].op \notin DOMAIN LooksUp PROVE AccountInv'
  <2>1. /\ Shape' /\ task'[t].at = "write"
        /\ task'[t].op = task[t].op /\ task'[t].no = task[t].no
        /\ \A u \in Tasks \ {t} : task'[u] = task[u]
    BY <1>3, Wrote DEF AccountInv
  <2> QED
    BY <1>1, <1>3, <2>1 DEF AccountInv, Numbered, Keyed, Unwritten, Found
<1>4. CASE task' = [task EXCEPT ![t].attempt = @ + 1]
  <2>1. /\ Shape' /\ task'[t].at = task[t].at
        /\ task'[t].op = task[t].op /\ task'[t].no = task[t].no
        /\ \A u \in Tasks \ {t} : task'[u] = task[u]
    BY <1>4 DEF AccountInv, Shape, Fields
  <2> QED
    BY <1>1, <2>1 DEF AccountInv, Numbered, Keyed, Unwritten, Found
<1>5. CASE FindConvo(t)
  BY <1>3, <1>5, CollOf DEF FindConvo
<1>6. CASE FetchProfile(t)
  BY <1>2, <1>3, <1>6, CollOf DEF FetchProfile
<1>7. CASE \E err \in Errors : ReadFails(t, err)
  BY <1>2, <1>4, <1>7 DEF ReadFails
<1> QED
  BY <1>5, <1>6, <1>7

\* A call that writes adds at most the one record it numbers, under a key as its
\* collection has them.
LEMMA WriteInv ==
  ASSUME AccountInv, NEW t \in Tasks, task[t].at = "write", Return(t), changes' = changes,
         NEW r, r.by = task[t].no, r.coll \in ServerKeyed => r.rkey = r.by,
         r.coll \in SelfKeyed => r.rkey = r.on,
         r.coll \in ServerKeyed \/ r.coll \in SelfKeyed,
         records' \subseteq records \cup {r}
  PROVE  AccountInv'
<1>1. /\ Shape' /\ task'[t] = Idle /\ Idle.at = "idle"
      /\ \A u \in Tasks \ {t} : task'[u] = task[u]
  BY Returned DEF AccountInv
<1>2. Numbered'
  BY <1>1 DEF AccountInv, Numbered
<1>3. Keyed'
  BY DEF AccountInv, Numbered, Keyed, Unwritten
<1>4. Unwritten'
  BY <1>1 DEF AccountInv, Numbered, Unwritten
<1>5. Found'
  <2> SUFFICES ASSUME NEW u \in Tasks, task'[u].at = "write", task'[u].op \in DOMAIN LooksUp
               PROVE  /\ task'[u].seen \in 1..changes'
                      /\ \A v \in Tasks : task'[v].at # "idle" => task'[v].no # task'[u].seen
                      /\ \A s \in records' :
                           s.coll = Coll[task'[u].op] /\ s.rkey = task'[u].seen
                             => s.on = task'[u].on
    BY DEF Found
  <2>1. u # t /\ task'[u] = task[u]
    BY <1>1
  <2>2. r.by # task[u].seen
    BY <2>1 DEF AccountInv, Found
  <2>3. Coll[task[u].op] \in ServerKeyed
    BY <2>1, CollOf
  <2> QED
    BY <1>1, <2>1, <2>2, <2>3 DEF AccountInv, Found
<1> QED
  BY <1>1, <1>2, <1>3, <1>4, <1>5 DEF AccountInv

\* What the writes of records do to them.
LEMMA Effect ==
  ASSUME AccountInv, NEW t \in Tasks, Create(t) \/ Put(t) \/ Delete(t)
  PROVE  /\ AccountInv'
         /\ \A r \in (records \ records') \cup (records' \ records) :
              /\ r.coll = Coll[task[t].op] /\ r.on = task[t].on
              /\ r \in records' => records' \subseteq records \cup {r}
<1>1. task[t].at = "write" /\ Return(t) /\ changes' = changes
  BY DEF Create, Put, Delete
<1>2. CASE Create(t)
  <2> DEFINE r == New(t, task[t].no)
  <2>1. /\ r.coll = Coll[task[t].op] /\ r.on = task[t].on /\ r.by = task[t].no
        /\ r.rkey = task[t].no
    BY DEF New
  <2>2. r.coll \in ServerKeyed
    BY <1>2, <2>1, CollOf DEF Create
  <2>3. records' \in {records, records \cup {r}}
    BY <1>2 DEF Create
  <2> HIDE DEF r
  <2>4. r.coll \notin SelfKeyed
    BY <2>2 DEF ServerKeyed, SelfKeyed
  <2>5. AccountInv'
    BY <1>1, <2>1, <2>2, <2>3, <2>4, WriteInv
  <2> QED
    BY <2>1, <2>3, <2>5
<1>3. CASE Put(t)
  <2> DEFINE r == New(t, task[t].on)
             old == {s \in records : s.coll = Coll[task[t].op] /\ s.rkey = task[t].on}
  <2>1. /\ r.coll = Coll[task[t].op] /\ r.on = task[t].on /\ r.by = task[t].no
        /\ r.rkey = task[t].on
    BY DEF New
  <2>2. Coll[task[t].op] \in SelfKeyed
    BY <1>3, CollOf DEF Put
  <2>3. records' \in {records, (records \ old) \cup {r}}
    BY <1>3 DEF Put
  <2>4. r.coll \notin ServerKeyed
    BY <2>1, <2>2 DEF ServerKeyed, SelfKeyed
  <2>5. \A s \in old : s.coll = Coll[task[t].op] /\ s.on = task[t].on
    BY <2>2 DEF AccountInv, Keyed
  <2> HIDE DEF r, old
  <2>6. old \subseteq records
    BY DEF old
  <2>7. AccountInv'
    BY <1>1, <2>1, <2>2, <2>3, <2>4, WriteInv
  <2> QED
    BY <2>1, <2>3, <2>5, <2>6, <2>7
<1>4. CASE Delete(t)
  <2>1. records' \subseteq records
    BY <1>4 DEF Delete
  <2>2. /\ Shape' /\ task'[t] = Idle /\ Idle.at = "idle"
        /\ \A u \in Tasks \ {t} : task'[u] = task[u]
    BY <1>1, Returned DEF AccountInv
  <2>3. AccountInv'
    BY <1>1, <2>1, <2>2 DEF AccountInv, Numbered, Keyed, Unwritten, Found
  <2>4. CASE task[t].op \in DOMAIN LooksUp
    <3>1. \A r \in records \ records' :
            r.coll = Coll[task[t].op] /\ r.rkey = task[t].seen
      BY <1>4, <2>4 DEF Delete
    <3> QED
      BY <1>1, <2>1, <2>3, <2>4, <3>1 DEF AccountInv, Found
  <2>5. CASE task[t].op \notin DOMAIN LooksUp
    <3>1. \A r \in records \ records' :
            r.coll = Coll[task[t].op] /\ r.rkey = task[t].on
      BY <1>4, <2>5 DEF Delete
    <3>2. Coll[task[t].op] \in SelfKeyed
      BY <1>4, <2>5, CollOf DEF Delete
    <3> QED
      BY <2>1, <2>3, <3>1, <3>2 DEF AccountInv, Keyed
  <2> QED
    BY <2>4, <2>5
<1> QED
  BY <1>2, <1>3, <1>4

LEMMA PutProfileInv ==
  ASSUME AccountInv, NEW t \in Tasks, PutProfile(t)
  PROVE  AccountInv' /\ records' = records
<1>1. records' = records /\ changes' = changes /\ Return(t)
  BY DEF PutProfile
<1> QED
  BY <1>1, Returned DEF AccountInv, Numbered, Keyed, Unwritten, Found

LEMMA ElsewhereInv == AccountInv /\ Elsewhere => AccountInv'
<1> SUFFICES ASSUME AccountInv, Elsewhere PROVE AccountInv'
  OBVIOUS
<1>1. /\ task' = task /\ records' \subseteq records
      /\ changes \in Nat /\ changes' = changes + 1
  BY DEF Elsewhere, AccountInv, Numbered
<1>2. Shape' /\ Numbered' /\ Keyed' /\ Unwritten'
  BY <1>1 DEF AccountInv, Shape, Numbered, Keyed, Unwritten
<1>3. Found'
  BY <1>1 DEF AccountInv, Found
<1> QED
  BY <1>2, <1>3 DEF AccountInv

LEMMA AccountNextInv == AccountInv /\ [AccountNext]_accountVars => AccountInv'
<1> SUFFICES ASSUME AccountInv, [AccountNext]_accountVars PROVE AccountInv'
  OBVIOUS
<1>1. CASE UNCHANGED accountVars
  BY <1>1 DEF accountVars, AccountInv, Shape, Numbered, Keyed, Unwritten, Found
<1>2. ASSUME NEW t \in Tasks, CallNext(t) PROVE AccountInv'
  BY <1>2, CallInv, LookUpInv, ReadInv, Effect, PutProfileInv DEF CallNext
<1> QED
  BY <1>1, <1>2, ElsewhereInv DEF AccountNext

(***************************************************************************)
(* A call touches no records but those it is about and adds at most one,   *)
(* whatever other tasks and clients do between its steps (the methods of   *)
(* Context, context.rs).                                                   *)
(***************************************************************************)
THEOREM TouchesItsOwn == AccountSpec => TouchesOnlyItsOwn
<1> DEFINE KeepsTo(t) ==
      task[t].at = "write" /\ task'[t] = Idle =>
        \A r \in (records \ records') \cup (records' \ records) :
          /\ r.coll = Coll[task[t].op] /\ r.on = task[t].on
          /\ r \in records' => records' \subseteq records \cup {r}
<1>1. ASSUME AccountInv, [AccountNext]_accountVars PROVE [\A t \in Tasks : KeepsTo(t)]_accountVars
  <2> SUFFICES ASSUME AccountNext, NEW t \in Tasks, task[t].at = "write", task'[t] = Idle,
                      NEW r \in (records \ records') \cup (records' \ records)
               PROVE  /\ r.coll = Coll[task[t].op] /\ r.on = task[t].on
                      /\ r \in records' => records' \subseteq records \cup {r}
    BY <1>1
  <2>1. task' # task
    BY DEF Idle
  <2>2. ASSUME NEW u \in Tasks, CallNext(u) PROVE u = t
    <3>1. \A v \in Tasks \ {u} : task'[v] = task[v]
      BY <1>1, <2>2 DEF CallNext, Call, LookUp, FindConvo, FetchProfile, ReadFails, Create, Put,
                        Delete, PutProfile, Return, Write, AccountInv, Shape
    <3> QED
      BY <3>1 DEF Idle
  <2>3. CASE Create(t) \/ Put(t) \/ Delete(t)
    BY <1>1, <2>3, Effect
  <2>4. records' = records \/ Create(t) \/ Put(t) \/ Delete(t)
    BY <2>1, <2>2 DEF AccountNext, CallNext, Elsewhere, Call, LookUp, FindConvo, FetchProfile,
                      ReadFails, PutProfile
  <2> QED
    BY <2>3, <2>4
<1> QED
  BY <1>1, AccountInitInv, AccountNextInv, PTL DEF AccountSpec, TouchesOnlyItsOwn

\* The labels without the bot's, and a profile's parts, whichever of the calls put it.
Others   == Labels \ {Bot}
Labelled == Seq(Labels) \cup {Unknown}

LEMMA OthersType ==
  ASSUME NEW L \in Labelled
  PROVE  OtherLabels(L) \in Seq(Others)
<1> DEFINE kept == [i \in 1..Len(L) |-> IF L[i] = Bot THEN <<>> ELSE <<L[i]>>]
<1>1. <<>> \in Seq(Others)
  BY EmptySeq, Zenon
<1>2. CASE L = Unknown
  BY <1>1, <1>2 DEF OtherLabels
<1>3. ASSUME L # Unknown PROVE FlattenSeq(kept) \in Seq(Others)
  <2>1. L \in Seq(Labels) /\ Len(L) \in Nat
    BY <1>3, LenProperties DEF Labelled
  <2>2. ASSUME NEW i \in 1..Len(L) PROVE (IF L[i] = Bot THEN <<>> ELSE <<L[i]>>) \in Seq(Others)
    <3>1. L[i] \in Labels
      BY <2>1, ElementOfSeq
    <3>2. L[i] # Bot => <<L[i]>> \in Seq(Others)
      <4>1. L[i] # Bot => L[i] \in Others
        BY <3>1 DEF Others
      <4> QED
        BY <4>1
    <3> QED
      BY <1>1, <3>2, Zenon
  <2>3. kept \in [1..Len(L) -> Seq(Others)]
    BY <2>2
  <2> HIDE DEF kept
  <2>4. kept \in Seq(Seq(Others)) /\ Len(kept) = Len(L)
    BY <2>1, <2>3, AsSequence
  <2>5. CASE Len(kept) = 0
    <3>1. kept = <<>>
      BY <2>4, <2>5, EmptySeq
    <3>2. FlattenSeq(kept) = kept
      BY <2>5, Zenon DEF FlattenSeq
    <3> QED
      BY <1>1, <3>1, <3>2
  <2>6. CASE Len(kept) # 0
    <3>1. PICK f \in [1..Len(kept) -> Seq(Others)] : FlattenSeq(kept) = f[Len(kept)]
      BY <2>4, <2>6, FlattenRecursive
    <3> QED
      BY <2>1, <2>4, <2>6, <3>1
  <2> QED
    BY <2>5, <2>6
<1>4. L # Unknown => OtherLabels(L) = FlattenSeq(kept)
  BY Zenon DEF OtherLabels
<1> QED
  BY <1>2, <1>3, <1>4

\* Without the bot's label where it is last, the others remain as they are.
LEMMA OthersOf ==
  ASSUME NEW M \in Seq(Others), NEW L \in Seq(Labels), Len(M) <= Len(L),
         \A i \in 1..Len(M) : L[i] = M[i],
         \A i \in 1..Len(L) : i > Len(M) => L[i] = Bot
  PROVE  OtherLabels(L) = M
<1> DEFINE kept == [i \in 1..Len(L) |-> IF L[i] = Bot THEN <<>> ELSE <<L[i]>>]
<1>1. Len(M) \in Nat /\ Len(L) \in Nat /\ 1..Len(M) \subseteq 1..Len(L)
  BY LenProperties
<1>2. \A i \in 1..Len(M) : M[i] \in Others /\ M[i] # Bot
  <2>1. \A i \in 1..Len(M) : M[i] \in Others
    BY ElementOfSeq
  <2> QED
    BY <2>1 DEF Others
<1>3. OtherLabels(L) = FlattenSeq(kept)
  BY ProfileAssumption, Zenon DEF OtherLabels
<1>4. \A i \in 1..Len(M) : kept[i] = <<M[i]>> /\ <<M[i]>> \in Seq(Others)
  BY <1>1, <1>2
<1>5. \A i \in 1..Len(L) : i > Len(M) => kept[i] = <<>>
  OBVIOUS
<1>6. kept \in [1..Len(L) -> Seq(Others)]
  <2>1. \A i \in 1..Len(L) : kept[i] \in Seq(Others)
    <3>1. <<>> \in Seq(Others)
      BY EmptySeq, Zenon
    <3>2. \A i \in 1..Len(L) : i \in 1..Len(M) \/ i > Len(M)
      BY <1>1
    <3> HIDE DEF kept
    <3> QED
      BY <1>4, <1>5, <3>1, <3>2
  <2> QED
    BY <2>1
<1> HIDE DEF kept
<1>7. kept \in Seq(Seq(Others)) /\ Len(kept) = Len(L)
  BY <1>1, <1>6, AsSequence
<1>8. FlattenSeq(kept) = M
  <2>1. /\ Len(M) <= Len(kept)
        /\ \A i \in 1..Len(M) : kept[i] = <<M[i]>>
        /\ \A i \in 1..Len(kept) : i > Len(M) => kept[i] = <<>>
    BY <1>4, <1>5, <1>7, Zenon
  <2> QED
    BY <1>7, <2>1, FlattenSingles, Zenon
<1> QED
  BY <1>3, <1>8

\* set_bot_label changes no label but the bot's.
LEMMA LabelsKept ==
  ASSUME NEW L \in Labelled, NEW present \in BOOLEAN
  PROVE  /\ SetBotLabel(L, present) \in Labelled
         /\ OtherLabels(SetBotLabel(L, present)) = OtherLabels(L)
<1> DEFINE M == OtherLabels(L)
<1>1. M \in Seq(Others) /\ M \in Seq(Labels) /\ Len(M) \in Nat
  <2>1. M \in Seq(Others)
    BY OthersType
  <2>2. M \in Seq(Labels)
    BY <2>1, SeqMonotonic DEF Others
  <2> QED
    BY <2>1, <2>2, LenProperties
<1> HIDE DEF M
<1>2. CASE present /\ HasBotLabel(L)
  BY <1>2 DEF SetBotLabel
<1>3. CASE present /\ ~HasBotLabel(L)
  <2>1. SetBotLabel(L, present) = M \o <<Bot>>
    BY <1>3 DEF SetBotLabel, M
  <2> DEFINE N == M \o <<Bot>>
  <2>3. /\ N \in Seq(Labels) /\ Len(N) = Len(M) + 1
        /\ \A i \in 1..Len(M) : N[i] = M[i]
        /\ N[Len(M) + 1] = Bot
    <3>1. Bot \in Labels
      BY ProfileAssumption
    <3> QED
      BY <1>1, <3>1, OneMore, Zenon
  <2> HIDE DEF N
  <2>4. \A i \in 1..Len(N) : i > Len(M) => i = Len(M) + 1
    BY <1>1, <2>3
  <2>5. \A i \in 1..Len(N) : i > Len(M) => N[i] = Bot
    BY <2>3, <2>4
  <2>6. Len(M) <= Len(N)
    BY <1>1, <2>3
  <2>7. OtherLabels(N) = M
    BY <1>1, <2>3, <2>5, <2>6, OthersOf
  <2> QED
    BY <2>1, <2>3, <2>7 DEF N, M, Labelled
<1>4. CASE ~present
  <2>1. SetBotLabel(L, present) = M
    <3>1. M \o <<>> = M
      BY <1>1, ConcatEmptySeq
    <3> QED
      BY <1>4, <3>1 DEF SetBotLabel, M
  <2>2. OtherLabels(M) = M
    <3>1. Len(M) <= Len(M) /\ \A i \in 1..Len(M) : ~(i > Len(M))
      BY <1>1
    <3> QED
      BY <1>1, <3>1, OthersOf
  <2> QED
    BY <1>1, <2>1, <2>2 DEF M, Labelled
<1> QED
  BY <1>2, <1>3, <1>4

\* A profile's parts, and what an edit makes of a profile.
Filled(p) == IF p = None THEN EmptyProfile ELSE p

Edit(op, no, seen) ==
  IF op = "update_profile" THEN [seen EXCEPT !.name = no]
  ELSE [seen EXCEPT !.labels = SetBotLabel(@, op = "label")]

Parts == {"name", "bot", "labels", "form", "other"}

LEMMA FacetsOf ==
  ASSUME NEW p \in ProfileRecords \cup {None}
  PROVE  /\ Filled(p) \in ProfileRecords /\ Facets(Filled(p)) = Facets(p)
         /\ DOMAIN Facets(p) = Parts
<1>1. <<>> \in Seq(Labels)
  BY EmptySeq, Zenon
<1>2. EmptyProfile \in ProfileRecords
  BY <1>1 DEF EmptyProfile, ProfileRecords
<1>3. Filled(p) \in ProfileRecords /\ Filled(p) # None
  BY <1>2, ProfileAssumption DEF Filled
<1>4. Facets(Filled(p)) = Facets(p)
  BY <1>3, Zenon DEF Facets, Filled
<1>5. DOMAIN Facets(p) = Parts
  BY DEF Facets, Parts
<1> QED
  BY <1>3, <1>4, <1>5

\* An edit changes what is its own.
LEMMA EditKeeps ==
  ASSUME NEW seen \in ProfileRecords, NEW op \in Edits, NEW no \in Nat
  PROVE  /\ Edit(op, no, seen) \in ProfileRecords
         /\ \A f \in Parts \ Own(op) : Facets(Edit(op, no, seen))[f] = Facets(seen)[f]
<1> DEFINE new == Edit(op, no, seen)
<1>1. /\ seen.name \in Nat /\ seen.labels \in Labelled /\ seen.other \in Nat
      /\ seen = [name |-> seen.name, labels |-> seen.labels, other |-> seen.other]
      /\ seen # None
  BY ProfileAssumption DEF ProfileRecords, Labelled
<1>2. CASE op = "update_profile"
  <2>1. new = [name |-> no, labels |-> seen.labels, other |-> seen.other]
    BY <1>1, <1>2 DEF Edit
  <2> HIDE DEF new
  <2>2. new \in ProfileRecords /\ new # None
    BY <1>1, <2>1, ProfileAssumption DEF ProfileRecords, Labelled
  <2>3. new.labels = seen.labels /\ new.other = seen.other
    BY <2>1
  <2>4. \A f \in Parts \ {"name"} : Facets(new)[f] = Facets(seen)[f]
    BY <1>1, <2>2, <2>3 DEF Facets, Parts
  <2> QED
    BY <1>2, <2>2, <2>4 DEF new, Own
<1>3. CASE op # "update_profile"
  <2> DEFINE labels == SetBotLabel(seen.labels, op = "label")
  <2>1. labels \in Labelled /\ OtherLabels(labels) = OtherLabels(seen.labels)
    <3>1. (op = "label") \in BOOLEAN
      OBVIOUS
    <3> QED
      BY <1>1, <3>1, LabelsKept, Zenon
  <2>2. new = [name |-> seen.name, labels |-> labels, other |-> seen.other]
    BY <1>1, <1>3 DEF Edit
  <2> HIDE DEF new, labels
  <2>3. new \in ProfileRecords /\ new # None
    BY <1>1, <2>1, <2>2, ProfileAssumption DEF ProfileRecords, Labelled
  <2>4. new.name = seen.name /\ new.labels = labels /\ new.other = seen.other
    BY <2>2
  <2>5. \A f \in Parts \ {"bot", "form"} : Facets(new)[f] = Facets(seen)[f]
    BY <1>1, <2>1, <2>3, <2>4 DEF Facets, Parts
  <2> QED
    BY <1>3, <2>3, <2>5 DEF new, Own
<1> QED
  BY <1>2, <1>3

(***************************************************************************)
(* What an edit is to put back is the profile as it is, but for the parts  *)
(* that were changed since it was read.                                    *)
(***************************************************************************)
Recalled(t) ==
  task[t].at = "write" /\ task[t].op \in Edits =>
    /\ task[t].seen \in ProfileRecords
    /\ \A f \in Parts \ since[t] : Facets(task[t].seen)[f] = Facets(profile)[f]

EditsInv ==
  /\ profile \in ProfileRecords \cup {None}
  /\ DOMAIN since = Tasks
  /\ \A t \in Tasks : Recalled(t)

LEMMA EditsInitInv == AccountInit => EditsInv
BY ProfileAssumption DEF AccountInit, EditsInv, Recalled, Idle

\* A task that neither reads the profile nor puts it is not about to edit it.
LEMMA NotEdited ==
  ASSUME AccountInv, EditsInv, NEW t \in Tasks, UNCHANGED <<profile, since>>,
         \A u \in Tasks \ {t} : task'[u] = task[u],
         ~(task'[t].at = "write" /\ task'[t].op \in Edits)
  PROVE  EditsInv'
<1>1. \A u \in Tasks : Recalled(u)'
  BY DEF EditsInv, Recalled
<1> QED
  BY <1>1 DEF EditsInv

\* A new profile: what it changes is missed by every task that has read the old one.
LEMMA ReplacedInv ==
  ASSUME EditsInv, NEW new \in ProfileRecords, Replaced(new),
         \A u \in Tasks : task'[u] = task[u] \/ task'[u].at # "write"
  PROVE  EditsInv'
<1>1. profile' = new /\ DOMAIN Facets(new) = Parts
  BY FacetsOf DEF Replaced
<1>2. since' = [u \in Tasks |->
         since[u] \cup {f \in Parts : Facets(new)[f] # Facets(profile)[f]}]
  BY <1>1 DEF Replaced
<1>3. ASSUME NEW u \in Tasks PROVE Recalled(u)'
  <2>1. CASE task'[u].at # "write"
    BY <2>1 DEF Recalled
  <2>2. CASE task'[u] = task[u]
    <3>1. \A f \in Parts \ since'[u] : f \in Parts \ since[u] /\ Facets(new)[f] = Facets(profile)[f]
      BY <1>2
    <3> QED
      BY <1>1, <2>2, <3>1 DEF EditsInv, Recalled
  <2> QED
    BY <2>1, <2>2
<1> QED
  BY <1>1, <1>2, <1>3 DEF EditsInv

LEMMA FetchEditsInv ==
  ASSUME AccountInv, EditsInv, NEW t \in Tasks, FetchProfile(t)
  PROVE  EditsInv'
<1> DEFINE found == Filled(profile)
<1>1. /\ profile' = profile /\ since' = [since EXCEPT ![t] = {}]
      /\ Return(t) \/ Write(t, found)
  BY DEF FetchProfile, Filled
<1>2. found \in ProfileRecords /\ Facets(found) = Facets(profile)
  BY FacetsOf DEF EditsInv
<1> HIDE DEF found
<1>3. \A u \in Tasks \ {t} : since'[u] = since[u]
  BY <1>1 DEF EditsInv
<1>4. ASSUME NEW u \in Tasks PROVE Recalled(u)'
  <2>1. CASE Return(t)
    <3>1. task'[t].op \notin Edits
      BY <2>1, Returned DEF AccountInv, Idle, Edits
    <3>2. u # t => task'[u] = task[u]
      BY <2>1, Returned DEF AccountInv
    <3> QED
      BY <1>1, <1>3, <3>1, <3>2 DEF EditsInv, Recalled
  <2>2. CASE Write(t, found)
    <3>1. task'[t].seen = found /\ (u # t => task'[u] = task[u])
      BY <2>2, Wrote DEF AccountInv
    <3> QED
      BY <1>1, <1>2, <1>3, <3>1 DEF EditsInv, Recalled
  <2> QED
    BY <1>1, <2>1, <2>2
<1>5. DOMAIN since' = Tasks
  BY <1>1 DEF EditsInv
<1> QED
  BY <1>1, <1>4, <1>5 DEF EditsInv

\* What an edit puts back changes, of what is not its own, only what it missed.
LEMMA PutEdits ==
  ASSUME AccountInv, EditsInv, NEW t \in Tasks, PutProfile(t)
  PROVE  /\ EditsInv'
         /\ \A f \in Parts \ Own(task[t].op) :
              Facets(profile')[f] # Facets(profile)[f] => f \in since[t]
<1> DEFINE new == Edit(task[t].op, task[t].no, task[t].seen)
<1>1. /\ task[t].at = "write" /\ task[t].op \in Edits /\ Return(t)
      /\ Replaced(new) \/ UNCHANGED <<profile, since>>
  BY DEF PutProfile, Edit
<1>2. /\ task[t].seen \in ProfileRecords
      /\ \A f \in Parts \ since[t] : Facets(task[t].seen)[f] = Facets(profile)[f]
  BY <1>1 DEF EditsInv, Recalled
<1>3. task[t].no \in Nat
  BY <1>1 DEF AccountInv, Numbered
<1>4. /\ new \in ProfileRecords
      /\ \A f \in Parts \ Own(task[t].op) : Facets(new)[f] = Facets(task[t].seen)[f]
  BY <1>1, <1>2, <1>3, EditKeeps
<1> HIDE DEF new
<1>5. /\ task'[t].at = "idle" /\ task'[t].op \notin Edits
      /\ \A u \in Tasks \ {t} : task'[u] = task[u]
  BY <1>1, Returned DEF AccountInv, Idle, Edits
<1>6. CASE Replaced(new)
  <2>1. EditsInv'
    BY <1>4, <1>5, <1>6, ReplacedInv
  <2> QED
    BY <1>2, <1>4, <1>6, <2>1 DEF Replaced
<1>7. CASE UNCHANGED <<profile, since>>
  <2>1. EditsInv'
    BY <1>5, <1>7, NotEdited
  <2> QED
    BY <1>7, <2>1
<1> QED
  BY <1>1, <1>6, <1>7

LEMMA ElsewhereEdits ==
  ASSUME AccountInv, EditsInv, Elsewhere
  PROVE  EditsInv'
<1> DEFINE new == [Filled(profile) EXCEPT !.other = changes']
<1>1. task' = task /\ changes' \in Nat
  BY DEF Elsewhere, AccountInv, Numbered
<1>2. Replaced(new) \/ UNCHANGED <<profile, since>>
  BY DEF Elsewhere, Filled
<1>3. new \in ProfileRecords
  <2>1. Filled(profile) \in ProfileRecords
    BY FacetsOf DEF EditsInv
  <2> QED
    BY <1>1, <2>1 DEF ProfileRecords
<1> HIDE DEF new
<1>4. CASE Replaced(new)
  BY <1>1, <1>3, <1>4, ReplacedInv
<1>5. CASE UNCHANGED <<profile, since>>
  BY <1>1, <1>5 DEF EditsInv, Recalled
<1> QED
  BY <1>2, <1>4, <1>5

\* The other steps leave the profile alone, and none of them is a call's way to edit
\* it or from it.
LEMMA OtherSteps ==
  ASSUME AccountInv, EditsInv, NEW t \in Tasks, CallNext(t), ~FetchProfile(t), ~PutProfile(t)
  PROVE  /\ UNCHANGED <<profile, since>>
         /\ EditsInv'
<1>1. UNCHANGED <<profile, since>>
  BY DEF CallNext, Call, LookUp, FindConvo, ReadFails, Create, Put, Delete
<1>2. ASSUME Return(t) PROVE EditsInv'
  <2>1. /\ task'[t].at # "write" /\ \A u \in Tasks \ {t} : task'[u] = task[u]
    BY <1>2, Returned DEF AccountInv, Idle
  <2> QED
    BY <1>1, <2>1, NotEdited
<1>3. ASSUME NEW seen, Write(t, seen), task[t].op \notin Edits PROVE EditsInv'
  <2>1. task'[t].op \notin Edits /\ \A u \in Tasks \ {t} : task'[u] = task[u]
    BY <1>3, Wrote DEF AccountInv
  <2> QED
    BY <1>1, <2>1, NotEdited
<1>4. ASSUME NEW call \in Calls, Call(t, call) PROVE EditsInv'
  <2>1. /\ task'[t].op = call.op
        /\ task'[t].at = IF call.op \in Edits \cup DOMAIN LooksUp \cup {"send_dm"}
                         THEN "read" ELSE "write"
        /\ \A u \in Tasks \ {t} : task'[u] = task[u]
    BY <1>4 DEF Call, AccountInv, Shape
  <2>2. ~(task'[t].at = "write" /\ task'[t].op \in Edits)
    BY <2>1
  <2> QED
    BY <1>1, <2>1, <2>2, NotEdited
<1>5. ASSUME LookUp(t) PROVE EditsInv'
  <2>1. task[t].op \notin Edits
    BY <1>5, CollOf DEF LookUp
  <2> QED
    BY <1>2, <1>3, <1>5, <2>1 DEF LookUp
<1>6. ASSUME FindConvo(t) PROVE EditsInv'
  <2>1. task[t].op \notin Edits
    BY <1>6 DEF FindConvo, Edits
  <2> QED
    BY <1>3, <1>6, <2>1 DEF FindConvo
<1>7. ASSUME NEW err \in Errors, ReadFails(t, err) PROVE EditsInv'
  <2>1. CASE task' = [task EXCEPT ![t].attempt = @ + 1]
    <3>1. task[t].at = "read"
      BY <1>7 DEF ReadFails
    <3>2. task'[t].at = task[t].at /\ \A u \in Tasks \ {t} : task'[u] = task[u]
      BY <2>1 DEF AccountInv, Shape, Fields
    <3> QED
      BY <1>1, <3>1, <3>2, NotEdited
  <2> QED
    BY <1>2, <1>7, <2>1 DEF ReadFails
<1>8. ASSUME Create(t) \/ Put(t) \/ Delete(t) PROVE EditsInv'
  BY <1>2, <1>8 DEF Create, Put, Delete
<1> QED
  BY <1>1, <1>4, <1>5, <1>6, <1>7, <1>8 DEF CallNext

LEMMA EditsNextInv == AccountInv /\ EditsInv /\ [AccountNext]_accountVars => EditsInv'
<1> SUFFICES ASSUME AccountInv, EditsInv, [AccountNext]_accountVars PROVE EditsInv'
  OBVIOUS
<1>1. CASE UNCHANGED accountVars
  BY <1>1 DEF accountVars, EditsInv, Recalled
<1>2. ASSUME NEW t \in Tasks, CallNext(t) PROVE EditsInv'
  BY <1>2, FetchEditsInv, PutEdits, OtherSteps
<1> QED
  BY <1>1, <1>2, ElsewhereEdits DEF AccountNext

(***************************************************************************)
(* A call that edits the profile changes nothing in it but its own part    *)
(* and what was changed since it read it: other fields, other labels and   *)
(* edits finished before are kept, and a failed read loses none of them    *)
(* (Context::update_profile and set_automated_label, self_label.rs).       *)
(***************************************************************************)
THEOREM EditsKeepOthers == AccountSpec => EditsSurvive
<1> DEFINE Keeps(t) ==
      task[t].op \in Edits /\ task'[t] = Idle =>
        \A f \in DOMAIN Facets(profile) \ Own(task[t].op) :
          Facets(profile')[f] # Facets(profile)[f] => f \in since[t]
<1>1. ASSUME AccountInv, EditsInv, [AccountNext]_accountVars
      PROVE  [\A t \in Tasks : Keeps(t)]_accountVars
  <2> SUFFICES ASSUME AccountNext, NEW t \in Tasks, task[t].op \in Edits, task'[t] = Idle,
                      NEW f \in DOMAIN Facets(profile) \ Own(task[t].op),
                      Facets(profile')[f] # Facets(profile)[f]
               PROVE  f \in since[t]
    BY <1>1
  <2>1. f \in Parts \ Own(task[t].op)
    BY <1>1, FacetsOf DEF EditsInv
  <2>2. task' # task
    BY DEF Idle, Edits
  <2>3. ASSUME NEW u \in Tasks, CallNext(u) PROVE u = t
    <3>1. \A v \in Tasks \ {u} : task'[v] = task[v]
      BY <1>1, <2>3 DEF CallNext, Call, LookUp, FindConvo, FetchProfile, ReadFails, Create, Put,
                        Delete, PutProfile, Return, Write, AccountInv, Shape
    <3> QED
      BY <3>1 DEF Idle, Edits
  <2>4. CallNext(t)
    BY <2>2, <2>3 DEF AccountNext, Elsewhere
  <2>5. profile' # profile
    BY Zenon
  <2>6. PutProfile(t)
    BY <1>1, <2>4, <2>5, OtherSteps DEF FetchProfile
  <2> QED
    BY <1>1, <2>1, <2>6, PutEdits
<1> QED
  BY <1>1, AccountInitInv, AccountNextInv, EditsInitInv, EditsNextInv, PTL
     DEF AccountSpec, EditsSurvive

----------------------------------------------------------------------------
(***************************************************************************)
(* Builds.  The service the agent talks to is that of the file it resumes, *)
(* and what a step of build has published stays so until the build is over.*)
(* The file can only fall behind where it is about to be written.          *)
(***************************************************************************)
BuildType ==
  /\ config \in Configs
  /\ valid \subseteq Sessions
  /\ file \in Sessions \cup {Unset}
  /\ tokens \in 0..MaxTokens

Connected ==
  /\ build = "resume" => config.path /\ file \in Sessions /\ endpoint = file.home
  /\ build \in {"save", "policy", "label", "built"} =>
       session \in Sessions /\ session.home = endpoint

Published ==
  /\ build \in {"label", "built"} => config.dm \in {Unset, policy}
  /\ build = "built" => config.label \in {Unset, label}

Resumable ==
  ~behind /\ file # Unset => file \in valid \/ (build = "save" /\ config.path)

BuildInv == BuildType /\ Connected /\ Published /\ Resumable

LEMMA BuildInitInv == BuildInit => BuildInv
<1> SUFFICES ASSUME BuildInit PROVE BuildInv
  OBVIOUS
<1> QED
  BY TokensAssumption DEF BuildInit, BuildInv, BuildType, Connected, Published, Resumable

\* A session keeps its account and its service when its token is replaced.
LEMMA RotateKeeps ==
  ASSUME BuildType, NEW s, Rotate(s)
  PROVE  /\ s \in valid /\ s \in Sessions /\ session' \in Sessions
         /\ session'.home = s.home
         /\ tokens' \in 0..MaxTokens
         /\ valid' = (valid \ {s}) \cup {session'} /\ valid' \subseteq Sessions
<1>1. s \in Sessions /\ tokens' \in 1..MaxTokens /\ session' = [s EXCEPT !.token = tokens']
  BY TokensAssumption DEF Rotate, BuildType
<1>2. session' \in Sessions /\ session'.home = s.home
  BY <1>1 DEF Sessions
<1> QED
  BY <1>1, <1>2 DEF Rotate, BuildType

LEMMA RotateUnheardKeeps ==
  ASSUME BuildType, NEW s, RotateUnheard(s)
  PROVE  /\ session' = session
         /\ tokens' \in 0..MaxTokens
         /\ valid' \subseteq Sessions
<1>1. s \in Sessions /\ tokens' \in 1..MaxTokens
  BY TokensAssumption DEF RotateUnheard, BuildType
<1>2. [s EXCEPT !.token = tokens'] \in Sessions
  BY <1>1 DEF Sessions
<1> QED
  BY <1>1, <1>2 DEF RotateUnheard, BuildType

LEMMA BuildNextInv == BuildInv /\ [BuildNext]_buildVars => BuildInv'
<1> SUFFICES ASSUME BuildInv, [BuildNext]_buildVars PROVE BuildInv'
  OBVIOUS
<1> USE DEF BuildInv, Over
<1>1. ASSUME NEW c \in Configs, Build(c) PROVE BuildInv'
  BY <1>1 DEF Build, BuildType, Connected, Published, Resumable
<1>2. CASE LoadFile
  BY <1>2 DEF LoadFile, Persisted, BuildType, Connected, Published, Resumable
<1>3. CASE Resume
  <2>1. CASE Rotate(file)
    BY <1>3, <2>1, RotateKeeps DEF Resume, BuildType, Connected, Published, Resumable
  <2>2. CASE RotateUnheard(file) /\ build' = "login" /\ behind' = TRUE
    BY <1>3, <2>2, RotateUnheardKeeps DEF Resume, BuildType, Connected, Published, Resumable
  <2>3. CASE \/ file \in valid /\ session' = file /\ build' = "save"
                   /\ UNCHANGED <<valid, tokens, behind>>
             \/ build' = "login" /\ UNCHANGED <<session, valid, tokens, behind>>
    BY <1>3, <2>3 DEF Resume, BuildType, Connected, Published, Resumable
  <2> QED
    BY <1>3, <2>1, <2>2, <2>3 DEF Resume
<1>4. CASE Login
  <2>1. CASE build' = "save"
    <3>1. session' \in Sessions /\ session'.home = endpoint /\ tokens' \in 0..MaxTokens
      <4>1. /\ config.identifier \in DOMAIN Home /\ endpoint = Home[config.identifier]
            /\ tokens' \in 1..MaxTokens
            /\ session' = [account |-> config.identifier, home |-> endpoint, token |-> tokens']
        BY <1>4, <2>1, ConfigsAssumption, TokensAssumption DEF Login, BuildType
      <4> QED
        BY <4>1 DEF Sessions
    <3> QED
      BY <1>4, <2>1, <3>1 DEF Login, BuildType, Connected, Published, Resumable
  <2>2. CASE build' = "failed"
    BY <1>4, <2>2 DEF Login, BuildType, Connected, Published, Resumable
  <2> QED
    BY <1>4, <2>1, <2>2 DEF Login
<1>5. CASE SaveSession
  BY <1>5 DEF SaveSession, BuildType, Connected, Published, Resumable
<1>6. CASE PublishPolicy
  BY <1>6 DEF PublishPolicy, BuildType, Connected, Published, Resumable
<1>7. CASE ApplyLabel
  BY <1>7 DEF ApplyLabel, BuildType, Connected, Published, Resumable
<1>8. CASE BuildCrash
  BY <1>8 DEF BuildCrash, BuildType, Connected, Published, Resumable
<1>9. CASE RefreshInUse
  <2>1. CASE Rotate(session)
    BY <1>9, <2>1, RotateKeeps DEF RefreshInUse, BuildType, Connected, Published, Resumable
  <2>2. CASE RotateUnheard(session)
    BY <1>9, <2>2, RotateUnheardKeeps
       DEF RefreshInUse, BuildType, Connected, Published, Resumable
  <2> QED
    BY <1>9, <2>1, <2>2 DEF RefreshInUse
<1>10. ASSUME NEW s \in valid, Revoke(s) PROVE BuildInv'
  BY <1>10 DEF Revoke, BuildType, Connected, Published, Resumable
<1>11. CASE UNCHANGED buildVars
  BY <1>11 DEF buildVars, BuildType, Connected, Published, Resumable
<1> QED
  BY <1>1, <1>2, <1>3, <1>4, <1>5, <1>6, <1>7, <1>8, <1>9, <1>10, <1>11
  DEF BuildNext, BuildStep

(***************************************************************************)
(* A built bot talks to the service of its session, with its inbox policy  *)
(* and its label in force, whatever earlier builds of whatever             *)
(* configurations left behind (BotBuilder::build, bot.rs).                 *)
(***************************************************************************)
THEOREM BuildsAsPublished == BuildSpec => []BuiltInForce
<1>1. BuildInv => BuiltInForce
  BY DEF BuildInv, Connected, Published, BuiltInForce
<1> QED
  BY <1>1, BuildInitInv, BuildNextInv, PTL DEF BuildSpec

(***************************************************************************)
(* The session file can be resumed whenever no build is under way, unless  *)
(* a save failed, a server dropped the session, the token was replaced     *)
(* while the bot ran or died, or it was by a resume that did not learn the *)
(* new one (BotBuilder::build, bot.rs).                                    *)
(***************************************************************************)
THEOREM LeavesResumable == BuildSpec => []FileResumable
<1>1. BuildInv => FileResumable
  BY DEF BuildInv, Resumable, FileResumable, Over
<1> QED
  BY <1>1, BuildInitInv, BuildNextInv, PTL DEF BuildSpec

============================================================================
