------------------------------ MODULE MCCalls ------------------------------
(***************************************************************************)
(* What a bot's code calls, for TLC: the tracker Dedup, a thread, a post,  *)
(* a paginated read and the methods that change the account.  They share   *)
(* nothing that is not modelled elsewhere (the budget: WriteBudget), so    *)
(* each is explored by itself: focus says which, and the others stay at an *)
(* initial state.                                                          *)
(***************************************************************************)
EXTENDS DedupTracker, Threads, PostBuilder, Reads, Account

CONSTANTS
  a,      \* An actor
  s, t    \* Two tasks

VARIABLE focus

Texts(n) == UNION {[1..k -> {Letter, Space}] : k \in 0..n}

\* One text of up to nine graphemes, or two: with Limit 8 and numbers to base 3,
\* up to five posts a thread, numbered with one digit or, leaving room for only
\* two graphemes, with two.
MCThreadDrafts ==
  [pieces : {<<x>> : x \in Texts(9)} \cup {<<x, <<Letter, Space, Letter>> >> : x \in Texts(6)},
   numbered : BOOLEAN,
   reply : {Nil, [parent |-> -2, root |-> -1]}]

Tag(key, content) == [key |-> key, content |-> content]

\* Pages without tags, with an empty og:title before a usable title, with an empty
\* title before another, with tags of every precedence in the wrong order.
MCPages ==
  {<<>>,
   <<Tag("og:title", ""), Tag("title", "T")>>,
   <<Tag("title", ""), Tag("title", "T")>>,
   <<Tag("title", "T"), Tag("twitter:image", "j"), Tag("og:image", "i"), Tag("og:title", "O")>>}

MCPostDrafts ==
  [images : {<<>>, <<"png">>, <<Nil, "jpeg">>, <<"png", "png", "gif">>},
   video : BOOLEAN,
   external : {Nil, [fetch |-> FALSE, page |-> <<>>]} \cup [fetch : {TRUE}, page : MCPages],
   quote : {Nil, -1},
   text : BOOLEAN]

PlainPost == [images |-> <<>>, video |-> FALSE, external |-> Nil, quote |-> Nil, text |-> TRUE]

\* Calls that concern one actor, the profile and whoever a DM goes to, and a post.
MCCalls ==
  [op : {"follow", "unfollow", "block", "unblock"}, on : {a}]
    \cup [op : {"update_profile", "label", "unlabel", "send_dm"}, on : {None}]
    \cup [op : {"set_reply_gate", "disable_quotes", "remove_reply_gate"}, on : {-1}]

MCLabels == {Bot, "x"}

MCProfiles ==
  {None} \cup [name : {0}, labels : {<<>>, <<"x">>, <<Bot, "x">>, Unknown}, other : {0}]

callVars == <<focus, vars, threadVars, postVars, repo, readVars, accountVars>>

CallsInit ==
  /\ focus \in {"dedup", "thread", "post", "read", "account"}
  /\ Init        /\ (focus # "dedup"   => indexedAt = [n \in Notifs |-> 1])
  /\ ThreadInit  /\ (focus # "thread"  => draft = [pieces |-> <<<<>>>>, numbered |-> FALSE, reply |-> Nil])
  /\ PostInit    /\ (focus # "post"    => post = PlainPost)
  /\ ReadInit    /\ (focus # "read"    => newest = 0 /\ limit = None)
  /\ AccountInit /\ (focus # "account" => profile = None)
  /\ repo = <<>>

CallsNext ==
  /\ UNCHANGED focus
  /\ \/ focus = "dedup" /\ Next
        /\ UNCHANGED <<threadVars, postVars, repo, readVars, accountVars>>
     \/ focus = "thread" /\ ThreadNext
        /\ UNCHANGED <<vars, postVars, readVars, accountVars>>
     \/ focus = "post" /\ PostNext
        /\ UNCHANGED <<vars, threadVars, readVars, accountVars>>
     \/ focus = "read" /\ ReadNext
        /\ UNCHANGED <<vars, threadVars, postVars, repo, accountVars>>
     \/ focus = "account" /\ AccountNext
        /\ UNCHANGED <<vars, threadVars, postVars, repo, readVars>>

CallsSpec == CallsInit /\ [][CallsNext]_callVars /\ PostFairness /\ ReadFairness

============================================================================
