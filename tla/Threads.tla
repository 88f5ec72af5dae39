------------------------------ MODULE Threads ------------------------------
(***************************************************************************)
(* ThreadBuilder (thread.rs): send plans the posts and then writes them    *)
(* one after the other, each a reply to the one before.                    *)
(***************************************************************************)
EXTENDS Repo, ThreadSplit

CONSTANT ThreadDrafts   \* [pieces, numbered, reply]: what a caller may build

\* A draft's reply is Nil, or [parent, root]: posts of others, whose references are
\* negative, so not among the positions of repo.
Replies == {Nil} \cup [parent : Int, root : Int]

ASSUME NilAssumption   == Nil \notin Int
ASSUME ReplyAssumption == \A d \in ThreadDrafts : d.reply \in Replies
ASSUME DraftAssumption ==
  \A d \in ThreadDrafts : d.pieces \in Seq(Seq({Letter, Space})) /\ d.numbered \in BOOLEAN

VARIABLES
  draft,     \* The builder, as send takes it over
  plan,      \* The segments; <<>> before send
  outputs,   \* References of the posts that were answered
  root, parent,
  sending    \* "new", "sending", "sent", "failed"

threadVars == <<draft, plan, outputs, root, parent, sending>>

ThreadInit ==
  /\ draft \in ThreadDrafts
  /\ plan = <<>> /\ outputs = <<>>
  /\ root = Nil /\ parent = Nil
  /\ sending = "new"

\* send, up to its loop: a thread without content is refused.
SendThread ==
  /\ sending = "new"
  /\ plan' = PlanSegments(draft.pieces, draft.numbered)
  /\ sending' = IF plan' = <<>> THEN "failed" ELSE "sending"
  /\ root'   = IF draft.reply = Nil THEN Nil ELSE draft.reply.root
  /\ parent' = IF draft.reply = Nil THEN Nil ELSE draft.reply.parent
  /\ UNCHANGED <<draft, outputs, repo>>

\* build_post for a segment fails: a mention in it could not be looked up.
FacetsFail ==
  /\ sending = "sending" /\ Len(outputs) < Len(plan)
  /\ sending' = "failed"
  /\ UNCHANGED <<draft, plan, outputs, root, parent, repo>>

\* Mutant: the parent does not move on.
ThreadedFlat(ref) ==
  /\ root'   = IF root = Nil THEN ref ELSE root
  /\ parent' = IF parent = Nil THEN ref ELSE parent

\* The thread goes on from its newest post; its first becomes the root unless it
\* has one.
Threaded(ref) ==
  /\ root'   = IF root = Nil THEN ref ELSE root
  /\ parent' = ref

\* The post of segment i, as build_post and send make it.
Record(i) ==
  [segment |-> i,
   reply   |-> IF root = Nil \/ parent = Nil THEN Nil
               ELSE [parent |-> parent, root |-> root]]

\* post_record of the next segment.
PostSegment(outcome) ==
  /\ sending = "sending" /\ Len(outputs) < Len(plan)
  /\ repo' = Created(Record(Len(outputs) + 1), outcome)
  /\ IF outcome = "ok"
     THEN /\ outputs' = Append(outputs, NewRef)
          /\ Threaded(NewRef)
          /\ sending' = IF Len(outputs') = Len(plan) THEN "sent" ELSE "sending"
     ELSE /\ sending' = "failed"
          /\ UNCHANGED <<outputs, root, parent>>
  /\ UNCHANGED <<draft, plan>>

ThreadNext ==
  \/ SendThread
  \/ FacetsFail
  \/ \E outcome \in Outcomes : PostSegment(outcome)

ThreadSpec ==
  ThreadInit /\ repo = <<>> /\ [][ThreadNext]_<<threadVars, repo>>

-----------------------------------------------------------------------------
Pieces == draft.pieces

\* What a post of the plan is long: the interval, and ` i/N` with a number.
PostLength(segment) ==
  LET suffix == IF segment.number = 0 THEN 0
                ELSE 2 + Digits(segment.number) + Digits(Len(plan))
  IN  segment.to - segment.from + 1 + suffix

\* The plan holds every grapheme of every piece that is not white space, once,
\* and in the order it was written in: nothing is lost where a chunk is cut or
\* trimmed (split_into_chunks, push_chunk), whatever budget the numbering leaves.
\* And a word is cut in two only if it is longer than a whole post's budget.
PlanKeepsEveryWord ==
  sending # "new" =>
    /\ \A i, j \in 1..Len(plan) : i < j =>
         \/ plan[i].piece < plan[j].piece
         \/ plan[i].piece = plan[j].piece /\ plan[i].to < plan[j].from
    /\ \A p \in 1..Len(Pieces) : \A c \in Letters(Pieces[p], 1) :
         \E i \in 1..Len(plan) : plan[i].piece = p /\ c \in plan[i].from..plan[i].to
    /\ \A i \in 1..Len(plan) :
         LET text == Pieces[plan[i].piece]
             end  == plan[i].to
         IN  end < Len(text) /\ text[end + 1] # Space
               => \A c \in plan[i].from..end : text[c] # Space

\* No post is longer than a post may be, its number included: the fixed point
\* of plan_segments reserves enough even where numbering costs so much that more
\* posts, with longer numbers, are needed.
PlanFits ==
  \A i \in 1..Len(plan) : PostLength(plan[i]) <= Limit

\* The posts of a thread are one chain: each is a reply to the one before, the
\* first to what the thread replies to, and all name the same root.
OneChain ==
  sending # "new" => \A i \in 1..Len(repo) :
    LET first == IF draft.reply = Nil THEN 1 ELSE draft.reply.root IN
    IF i = 1
    THEN repo[i].reply = draft.reply
    ELSE repo[i].reply = [parent |-> i - 1, root |-> first]

\* Whatever fails on the way, what has been published is the start of the plan,
\* no segment twice: the posts answered, and at most one whose answer was lost.
\* A caller that counts the posts made can go on from there.
PublishedIsPrefix == sending # "new" =>
  /\ \A i \in 1..Len(repo) : repo[i].segment = i
  /\ Len(repo) \in {Len(outputs), Len(outputs) + 1}
  /\ sending = "sent" => Len(repo) = Len(plan)
============================================================================
