----------------------------- MODULE Registry -----------------------------
(***************************************************************************)
(* Who reacts to what: the registries a BotBuilder fills (src/handler.rs,  *)
(* src/command.rs, src/stream.rs, src/dm.rs) and the handlers they select, *)
(* in order, for a notification, a direct message or a stream event.       *)
(*                                                                         *)
(* A registry is a record, every builder method an operator from registry  *)
(* to registry.  Names, keywords and tags stand for their lowercase form,  *)
(* which the code takes of both sides before it compares them.             *)
(***************************************************************************)
EXTENDS Integers, Sequences

CONSTANTS
  Notifs,    \* Notifications: [uri, indexedAt, reason, author, handle, text].
  Handlers,  \* Handlers, commands and hooks.
  Self       \* The DID of the bot.

Reasons == {"mention", "like"}
Post    == "app.bsky.feed.post"

EmptyRouter ==
  [commands |-> << >>,     \* For each command's word its handler.
   fallback |-> << >>,     \* Empty, or the default command.
   prefixed |-> FALSE]     \* Whether a command needs the prefix.

EmptyRegistry ==
  [byReason  |-> [r \in Reasons |-> << >>],
   any       |-> << >>,
   before    |-> << >>,
   after     |-> << >>,
   router    |-> EmptyRouter,     \* CommandRouter, for mentions.
   dmRouter  |-> EmptyRouter,     \* DmCommandRouter.
   stream    |-> << >>,     \* Registrations <<matcher, handler>>.
   explicit  |-> {},        \* JetstreamConfig::collections.
   dm        |-> << >>]

\* What registrations make of a registry, for notifications.
WellFormed(r) ==
  /\ r.byReason \in [Reasons -> Seq(Handlers)]
  /\ r.any \in Seq(Handlers) /\ r.after \in Seq(Handlers)
  /\ r.before \in Seq(SUBSET Notifs)
  /\ r.router.fallback \in Seq(Handlers)
  /\ \A word \in DOMAIN r.router.commands : r.router.commands[word] \in Handlers

On(r, reason, h) == [r EXCEPT !.byReason[reason] = Append(@, h)]
OnAny(r, h)      == [r EXCEPT !.any = Append(@, h)]
After(r, h)      == [r EXCEPT !.after = Append(@, h)]
Before(r, admitted) == [r EXCEPT !.before = Append(@, admitted)]

\* The convenience filters; an author is named by handle or by DID.
BlockAuthors(r, names) ==
  Before(r, {n \in Notifs : {n.author, n.handle} \cap names = {}})
AllowAuthors(r, names) ==
  Before(r, {n \in Notifs : {n.author, n.handle} \cap names # {}})
IgnoreSelf(r) == Before(r, {n \in Notifs : n.author # Self})

\* Of a router: "router" or "dmRouter".
OnCommand(r, of, name, h) ==
  LET word == [sigil |-> "", body |-> name]
  IN  [r EXCEPT ![of].commands =
         [w \in DOMAIN @ \cup {word} |-> IF w = word THEN h ELSE @[w]]]
DefaultCommand(r, of, h)  == [r EXCEPT ![of].fallback = <<h>>]
CommandPrefix(r, of)      == [r EXCEPT ![of].prefixed = TRUE]

OnStream(r, matcher, h) == [r EXCEPT !.stream = Append(@, <<matcher, h>>)]
Collections(r, cs)      == [r EXCEPT !.explicit = @ \cup cs]
OnMessage(r, h)         == [r EXCEPT !.dm = Append(@, h)]

----------------------------------------------------------------------------
(***************************************************************************)
(* Commands.  A text is a sequence of words, each a sigil ("@", "!" for    *)
(* the prefix, or none) and a body, which may be blank after a sigil.      *)
(***************************************************************************)
IsHandle(w) == w.sigil = "@" /\ w.body # ""

\* The text after its leading run of @mentions.
Addressed(text) ==
  LET skipped == CHOOSE i \in 0..Len(text) :
                   /\ \A j \in 1..i : IsHandle(text[j])
                   /\ i = Len(text) \/ ~IsHandle(text[i + 1])
  IN  SubSeq(text, skipped + 1, Len(text))

\* The text without the prefix of its first word.
Unprefixed(text) ==
  IF Head(text).body = "" THEN Tail(text)
  ELSE <<[sigil |-> "", body |-> Head(text).body]>> \o Tail(text)

\* parse_command: the words of the command, none if there is no command.
ParseCommand(text, prefixed, stripHandles) ==
  LET s == IF stripHandles THEN Addressed(text) ELSE text
  IN  CASE ~prefixed -> s
        [] prefixed /\ s # << >> /\ Head(s).sigil = "!" -> Unprefixed(s)
        [] OTHER -> << >>

\* The handler of a command: the one registered last under its name.
Route(router, text, stripHandles) ==
  LET command == ParseCommand(text, router.prefixed, stripHandles)
  IN  CASE command = << >> -> << >>
        [] command # << >> /\ Head(command) \in DOMAIN router.commands ->
             <<router.commands[Head(command)]>>
        [] OTHER -> router.fallback

----------------------------------------------------------------------------
(***************************************************************************)
(* Notifications: the filters, the handlers of the reason with the command *)
(* router as the last one for mentions, the catch-alls, the after hooks.   *)
(***************************************************************************)
Selected(r, n) ==
  r.byReason[n.reason]
    \o (IF n.reason = "mention" THEN Route(r.router, n.text, TRUE) ELSE << >>)
    \o r.any

Stages(kind, s) == [i \in DOMAIN s |-> [kind |-> kind, is |-> s[i]]]

NotifStages(r, n) ==
  Stages("before", r.before) \o Stages("handler", Selected(r, n))
    \o Stages("after", r.after)

Admitted(r, n) == \A i \in DOMAIN r.before : n \in r.before[i]

----------------------------------------------------------------------------
(***************************************************************************)
(* Direct messages and stream events have neither filters nor hooks.       *)
(***************************************************************************)
DmStages(r, m) == Stages("handler", r.dm \o Route(r.dmRouter, m.text, FALSE))

IsPostWrite(e) == e.collection = Post /\ e.op \in {"create", "update"}

Matches(matcher, e) ==
  \/ matcher.kind = "firehose"
  \/ matcher.kind = "keyword" /\ IsPostWrite(e) /\ matcher.terms \cap e.words # {}
  \/ matcher.kind = "hashtag" /\ IsPostWrite(e) /\ matcher.terms \cap e.tags # {}

StreamStages(r, e) ==
  LET matching(s) == Matches(s[1], e)
      listeners   == SelectSeq(r.stream, matching)
  IN  Stages("handler", [i \in DOMAIN listeners |-> listeners[i][2]])

\* The collections keyword and hashtag handlers need.
Implied(r) ==
  IF \E i \in DOMAIN r.stream : r.stream[i][1].kind # "firehose"
  THEN {Post} ELSE {}

Wanted(r) == r.explicit \cup Implied(r)

\* The server sends the commits of the collections wanted, all if none is
\* named, and every event that is no commit (its collection is blank here).
Subscribed(r, e) == Wanted(r) = {} \/ e.collection \in Wanted(r) \cup {""}

============================================================================
