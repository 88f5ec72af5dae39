------------------------------- MODULE Reads -------------------------------
(***************************************************************************)
(* The paginated reads of a Context (read.rs): timeline, user_posts,       *)
(* followers, following.  A caller drains the stream, or so much of it as  *)
(* take lets through, while the list changes on the server.  Items are     *)
(* numbered as they appear, and are listed newest first.                   *)
(***************************************************************************)
EXTENDS Retry, SequencesExt

CONSTANTS
  MaxItem,    \* Bound: items that ever exist
  PageSize,   \* page_limit
  Limits      \* What may be asked of take; None for no limit

ASSUME PageAssumption == MaxItem \in Nat /\ PageSize \in Nat \ {0}

\* No set of items is taken for the absence of one.
ASSUME NoneAssumption == None \notin Int /\ \A S \in SUBSET (1..MaxItem) : S # None

VARIABLES
  listed,     \* Items the server has
  hidden,     \* Those it leaves out of the pages it makes (moderation)
  newest,     \* The last item that appeared
  limit,      \* take
  cursor, buffer, exhausted,   \* PageState
  attempt,    \* Requests already failed for the present page
  yielded,    \* Items handed to the caller
  reading,    \* "new", "open", "ended", "failed"
  there,      \* History: items listed when the first page was made, and still
  gap         \* History: a page came back empty although older items exist

pageVars == <<cursor, buffer, exhausted>>
readVars == <<listed, hidden, newest, limit, pageVars, attempt, yielded, reading,
              there, gap>>

ReadInit ==
  /\ newest \in 0..MaxItem - 1
  /\ listed = 1..newest
  /\ hidden \in {H : H \in SUBSET listed} /\ Cardinality(hidden) <= 2
  /\ limit \in Limits
  /\ cursor = None /\ buffer = <<>> /\ exhausted = FALSE
  /\ attempt = 0 /\ yielded = <<>> /\ reading = "new"
  /\ there = None /\ gap = FALSE

\* A read helper: an actor that cannot be parsed makes a stream of one error
\* (once_err); take(0) asks neither that stream nor any other for anything.
Open(valid) ==
  /\ reading = "new"
  /\ reading' = IF limit = 0 THEN "ended" ELSE IF ~valid THEN "failed" ELSE "open"
  /\ UNCHANGED <<listed, hidden, newest, limit, pageVars, attempt, yielded, there, gap>>

Asking == reading = "open" /\ buffer = <<>> /\ ~exhausted

-----------------------------------------------------------------------------
\* The server's page after a cursor: the next PageSize items, of which only those
\* not hidden are in it.  At the end of the list it may still send a cursor, and
\* to that one it answers with an empty page, and sends it again or not.
Older      == {i \in listed : cursor = None \/ i < cursor}
Page       == {i \in Older : Cardinality({j \in Older : j > i}) < PageSize}
Oldest(S)  == CHOOSE i \in S : \A j \in S : i <= j

NewestFirst(S) ==
  CHOOSE q \in [1..Cardinality(S) -> S] : \A i, j \in DOMAIN q : i < j => q[i] > q[j]

Cursors ==
  IF Page # Older THEN {Oldest(Page)}
  ELSE {None} \cup (IF Page = {} THEN {cursor} ELSE {Oldest(Page)})

\* The list changes: an item appears, or one is taken away.
Appear ==
  /\ newest < MaxItem
  /\ newest' = newest + 1
  /\ listed' = listed \cup {newest + 1}
  /\ UNCHANGED <<hidden, limit, pageVars, attempt, yielded, reading, there, gap>>

Disappear(i) ==
  /\ listed' = listed \ {i}
  /\ there' = IF there = None THEN None ELSE there \ {i}
  /\ UNCHANGED <<hidden, newest, limit, pageVars, attempt, yielded, reading, gap>>

-----------------------------------------------------------------------------
\* Mutant: an empty page is passed over as long as there is a cursor.
FetchedOnward(items, next) ==
  /\ reading' = IF items = <<>> /\ next = None THEN "ended" ELSE reading
  /\ buffer' = items /\ cursor' = next /\ exhausted' = (next = None)

\* Mutant: a page that is not full is taken to be the last.
FetchedUntilShort(items, next) ==
  /\ reading' = IF items = <<>> THEN "ended" ELSE reading
  /\ buffer' = items /\ cursor' = next /\ exhausted' = (Len(items) < PageSize)

\* What paginate makes of a page: an empty one ends the stream, whatever cursor
\* it came with.
Fetched(items, next) ==
  /\ reading' = IF items = <<>> THEN "ended" ELSE reading
  /\ IF items = <<>> THEN UNCHANGED pageVars
     ELSE buffer' = items /\ cursor' = next /\ exhausted' = (next = None)

\* A page is fetched, once the one before is drained.
Fetch ==
  /\ Asking
  /\ \E next \in Cursors : Fetched(NewestFirst(Page \ hidden), next)
  /\ attempt' = 0
  /\ there' = IF there = None THEN listed ELSE there
  /\ gap' = (gap \/ (Page \ hidden = {} /\ Older \ hidden # {}))
  /\ UNCHANGED <<listed, hidden, newest, limit, yielded>>

\* Mutant: the cursor goes with the first attempt.
FetchFailsAndForgets(err) ==
  /\ Asking
  /\ IF Again(attempt, err) THEN attempt' = attempt + 1 /\ reading' = reading
     ELSE attempt' = attempt /\ reading' = "failed"
  /\ cursor' = None
  /\ UNCHANGED <<listed, hidden, newest, limit, buffer, exhausted, yielded, there, gap>>

\* The request fails: retry sends it again, for the same page, or the stream
\* yields the error and is over.
FetchFails(err) ==
  /\ Asking
  /\ IF Again(attempt, err) THEN attempt' = attempt + 1 /\ reading' = reading
     ELSE attempt' = attempt /\ reading' = "failed"
  /\ UNCHANGED <<listed, hidden, newest, limit, pageVars, yielded, there, gap>>

\* next: an item of the buffer, the last one that take lets through or not.
Yield ==
  /\ reading = "open" /\ buffer # <<>>
  /\ yielded' = Append(yielded, Head(buffer))
  /\ buffer' = Tail(buffer)
  /\ reading' = IF Len(yielded') = limit THEN "ended" ELSE reading
  /\ UNCHANGED <<listed, hidden, newest, limit, cursor, exhausted, attempt, there, gap>>

\* next, when the last page is drained.
Exhausted ==
  /\ reading = "open" /\ buffer = <<>> /\ exhausted
  /\ reading' = "ended"
  /\ UNCHANGED <<listed, hidden, newest, limit, pageVars, attempt, yielded, there, gap>>

ReadStep == Fetch \/ (\E err \in Errors : FetchFails(err)) \/ Yield \/ Exhausted

ReadNext ==
  \/ \E valid \in BOOLEAN : Open(valid)
  \/ Appear
  \/ \E i \in listed : Disappear(i)
  \/ ReadStep

ReadSpec == ReadInit /\ [][ReadNext]_readVars

ReadFairness == WF_readVars(ReadStep)

-----------------------------------------------------------------------------
\* Items come newest first and none comes twice, although items appear and vanish
\* between two pages and a page may be asked for several times (paginate, retry).
InOrderOnce ==
  \A i, j \in 1..Len(yielded) : i < j => yielded[i] > yielded[j]

\* A stream that ends by itself has yielded everything that was listed all the
\* while and not hidden, unless the server made a page that was empty before the
\* end, which ends it early (read.rs:66).
NothingSkipped ==
  reading = "ended" /\ Len(yielded) # limit /\ ~gap =>
    there \ hidden \subseteq Range(yielded)

\* A caller that drains a stream comes to its end, whatever cursors the server
\* sends with empty pages and however requests fail.
ReadEnds == reading = "open" ~> reading \in {"ended", "failed"}
============================================================================
