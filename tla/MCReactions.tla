---------------------------- MODULE MCReactions ----------------------------
(***************************************************************************)
(* Reactions for TLC: two notifications, one of them also on the stream,   *)
(* one message, and bots built by the calls of the builder.                *)
(***************************************************************************)
EXTENDS Reactions

Word(sigil, body) == [sigil |-> sigil, body |-> body]

\* "@bot !ping", from alice; a like from bob.
Mention == [uri |-> "u1", indexedAt |-> 1, reason |-> "mention", author |-> "did:alice",
            handle |-> "alice", text |-> <<Word("@", "bot"), Word("!", "ping")>>]
Like    == [uri |-> "u2", indexedAt |-> 2, reason |-> "like", author |-> "did:bob",
            handle |-> "bob", text |-> << >>]
MCNotifs == {Mention, Like}

\* The post of the mention, and a like of somebody's.
Posted == [uri |-> "u1", collection |-> Post, op |-> "create",
           words |-> {"ping"}, tags |-> {}]
Liked  == [uri |-> "u3", collection |-> "like", op |-> "create",
           words |-> {}, tags |-> {}]
MCStreamEvents == {Posted, Liked}

MCDms == {[uri |-> "u4", text |-> <<Word("", "ping")>>]}

Keyword(term) == [kind |-> "keyword", terms |-> {term}]
Firehose      == [kind |-> "firehose", terms |-> {}]

\* Reacts to mentions and their posts by one handler; bob is blocked.
Blocking ==
  OnStream(After(OnAny(On(
    BlockAuthors(IgnoreSelf(EmptyRegistry), {"bob"}),
    "mention", "h1"), "h2"), "log"), Keyword("ping"), "h1")

\* A bot of commands and messages; only alice is heard.
Commands ==
  OnCommand(DefaultCommand(OnCommand(CommandPrefix(
    AllowAuthors(EmptyRegistry, {"did:alice"}), "router"),
    "router", "ping", "h1"), "router", "h2"), "dmRouter", "ping", "h1")

\* Hears all likes, and posts, those of the keyword twice.
Listening ==
  Collections(OnStream(OnStream(EmptyRegistry, Firehose, "h1"), Keyword("ping"), "h1"), {"like"})

MCRegistries == {Blocking, Commands, Listening}

MCKeys == ({"h1", "h2"} \X {"u1", "u2"}) \cup {<<"h1", "u4">>, <<"h1", "u3">>, Watermark}
MCValues == {Remembered} \cup
  [high_water : 0..MaxStamp, seen : SUBSET MCNotifs]

============================================================================
