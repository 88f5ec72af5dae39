------------------------------- MODULE Repo -------------------------------
(***************************************************************************)
(* The account's repository as the SDK's writes see it: the records, in    *)
(* the order the server created them, and what may become of one request.  *)
(* A reference to a record (its URI and CID) is its position.  A write is  *)
(* sent once, after its budget is charged (WriteBudget): it may be         *)
(* refused, and it may take effect although its answer is lost.            *)
(***************************************************************************)
EXTENDS Sequences, Integers

CONSTANT Nil   \* An absent option

VARIABLE repo

Outcomes == {"ok", "refused", "unanswered"}

\* Mutant: post_record retries its failed request.
CreatedByRetry(record, outcome) ==
  IF outcome = "unanswered" THEN repo \o <<record, record>> ELSE Append(repo, record)

\* One createRecord request of the write path (post_record): after, the records
\* the server holds.
Created(record, outcome) == IF outcome = "refused" THEN repo ELSE Append(repo, record)

\* The reference a call that was answered gets back.
NewRef == Len(repo) + 1

============================================================================
