--------------------------- MODULE DedupTracker ---------------------------
(***************************************************************************)
(* The tracker as its owner drives it: an arbitrary sequence of the public *)
(* operations of struct Dedup, on arbitrary pages.  Pages need not be what *)
(* a well-behaved server would send next: they may overlap, go back in     *)
(* time and repeat, as they do when the network reorders polls.            *)
(***************************************************************************)
EXTENDS Dedup

VARIABLES
  indexedAt,   \* When the server indexed each notification.
  dedup,       \* The tracker.
  handled,     \* History: every notification marked so far.
  fresh        \* What the last take_new_sorted returned.

vars == <<indexedAt, dedup, handled, fresh>>

TypeOK ==
  /\ indexedAt \in [Notifs -> Times]
  /\ dedup \in Dedups
  /\ handled \in SUBSET Notifs
  /\ fresh \in SUBSET Notifs

Init ==
  /\ indexedAt \in [Notifs -> Times]
  /\ dedup = EmptyDedup
  /\ handled = {}
  /\ fresh = {}

----------------------------------------------------------------------------
MarkOne(n) ==
  /\ dedup' = Mark(dedup, indexedAt, n)
  /\ handled' = handled \cup {n}
  /\ UNCHANGED <<indexedAt, fresh>>

Prime(page) ==
  /\ dedup' = MarkAll(dedup, indexedAt, page)
  /\ handled' = handled \cup page
  /\ UNCHANGED <<indexedAt, fresh>>

\* Mutant: the page is filtered but the watermark is moved by its first
\* element only, as if the marking loop stopped early.
TakeNewMarkingOne(page) ==
  /\ fresh' = Fresh(dedup, indexedAt, page)
  /\ handled' = handled \cup fresh'
  /\ \/ fresh' = {} /\ UNCHANGED dedup
     \/ \E n \in fresh' : dedup' = Mark(dedup, indexedAt, n)
  /\ UNCHANGED indexedAt

TakeNewSorted(page) ==
  /\ fresh' = Fresh(dedup, indexedAt, page)
  /\ dedup' = MarkAll(dedup, indexedAt, fresh')
  /\ handled' = handled \cup fresh'
  /\ UNCHANGED indexedAt

\* The owner saves the tracker and rebuilds it from what was saved.
SaveAndReload ==
  /\ dedup' = FromJson(ToJson(dedup))
  /\ fresh' = {}
  /\ UNCHANGED <<indexedAt, handled>>

Next ==
  \/ \E n \in Notifs : MarkOne(n)
  \/ \E page \in SUBSET Notifs : Prime(page) \/ TakeNewSorted(page)
  \/ SaveAndReload

Spec == Init /\ [][Next]_vars

----------------------------------------------------------------------------
(***************************************************************************)
(* The watermark answers exactly as unbounded memory would: a notification *)
(* is new iff it was never marked and nothing newer was.  In particular no *)
(* notification is ever new again, and ties at the watermark are told      *)
(* apart whatever the pages were.  (is_new and mark, dedup.rs:46-78.)      *)
(***************************************************************************)
IsNewExactly ==
  \A n \in Notifs :
    IsNew(dedup, indexedAt, n) <=>
      n \notin handled /\ \A m \in handled : indexedAt[m] <= indexedAt[n]

(***************************************************************************)
(* Every operation of the tracker, seen through the set of notifications   *)
(* ever marked, is an operation of FreshSet: what take_new_sorted returns  *)
(* is what unbounded memory would return.                                  *)
(***************************************************************************)
Abstract == INSTANCE FreshSet WITH
  Notifs <- Notifs, MaxTime <- MaxTime,
  indexedAt <- indexedAt, handled <- handled, fresh <- fresh

FreshSpec == Abstract!Spec

============================================================================
