------------------------------- MODULE Retry -------------------------------
(***************************************************************************)
(* retry (retry.rs), by which every read of a Context goes: what a failed  *)
(* request may have failed of, and when it is sent again.                  *)
(***************************************************************************)
EXTENDS Integers

CONSTANTS
  MaxRetries,
  None         \* An absent option

ASSUME RetryAssumption == MaxRetries \in Nat

\* 408, 429, 5xx, no response at all, a failed plain HTTP call; any other 4xx; and
\* what fails on this side (invalid input, a body that cannot be decoded).
Transient == {"timeout", "limited", "server", "transport", "http"}
Errors    == Transient \cup {"client", "local"}

\* Whether the attempt, counted from 0, is followed by another.
Again(attempt, err) == attempt < MaxRetries /\ err \in Transient
============================================================================
