----------------------------- MODULE FreshSet -----------------------------
(***************************************************************************)
(* What de-duplication promises, with no watermark: the caller remembers   *)
(* every notification it ever handled, and asked for the new ones of a     *)
(* page it returns those it has not handled and that are not older than    *)
(* something it has.  A watermark of one timestamp and one tie set (module *)
(* Dedup) is to be indistinguishable from this unbounded memory.           *)
(***************************************************************************)
EXTENDS Integers

CONSTANTS
  Notifs,   \* The notifications that may ever exist.
  MaxTime   \* Bounds the timestamps.

VARIABLES
  indexedAt,   \* When the server indexed each notification.
  handled,     \* Every notification marked so far.
  fresh        \* What the last page yielded.

vars == <<indexedAt, handled, fresh>>

StillNew(n) == n \notin handled /\ \A m \in handled : indexedAt[m] <= indexedAt[n]

Init ==
  /\ indexedAt \in [Notifs -> 1..MaxTime]
  /\ handled = {}
  /\ fresh = {}

\* Notifications become handled without being returned as work.
Skip(page) ==
  /\ handled' = handled \cup page
  /\ UNCHANGED <<indexedAt, fresh>>

\* A page is asked for its new notifications, all of which become handled.
Take(page) ==
  /\ fresh' = {n \in page : StillNew(n)}
  /\ handled' = handled \cup fresh'
  /\ UNCHANGED indexedAt

Next == \E page \in SUBSET Notifs : Skip(page) \/ Take(page)

Spec == Init /\ [][Next]_vars

============================================================================
