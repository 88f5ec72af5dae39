------------------------------ MODULE Account ------------------------------
(***************************************************************************)
(* What the methods of a Context change of the bot's account (context.rs,  *)
(* self_label.rs): records created under a new key, records put under a    *)
(* key of their own, records looked up and deleted, and the profile, read, *)
(* edited and put back.  Handlers run as tasks of their own, so calls      *)
(* overlap; and the account's owner may change it from elsewhere.  A write *)
(* first waits for its budget (WriteBudget), which changes nothing here.   *)
(***************************************************************************)
EXTENDS Retry, SequencesExt

CONSTANTS
  Tasks,
  Calls,      \* What a task may call: [op, on], on an actor or a post's key
  Profiles,   \* What the profile may be at first
  Labels,     \* What a profile may be labelled
  Unknown,    \* Labels in another form than self-labels
  Bot,        \* BOT_SELF_LABEL
  MaxChange   \* Bound: calls and changes from elsewhere

\* A record is [coll, rkey, on, by]: rkey is a number the server gave, or of the
\* record's own, by the call that made it.  The profile is None, for no record, or
\* [name, labels, other]: `other` for the fields no call here edits, and for a
\* field's value the number of the change that set it, 0 for none.
ProfileRecords == [name : Nat, labels : Seq(Labels) \cup {Unknown}, other : Nat]

ASSUME ProfileAssumption ==
  /\ Bot \in Labels /\ Unknown \notin Seq(Labels)
  /\ None \notin ProfileRecords /\ Profiles \subseteq ProfileRecords \cup {None}

VARIABLES
  records, profile,
  task,       \* For each task, the call it is in: [op, on, no, at, seen, attempt]
  changes,    \* Calls and changes from elsewhere so far, which are so numbered
  since       \* History: parts of the profile changed since a task's read

accountVars == <<records, profile, task, changes, since>>

Idle == [op |-> "none", on |-> None, no |-> 0, at |-> "idle", seen |-> None, attempt |-> 0]

\* The calls, by how they change the account: the record each creates, puts under
\* a key of its own, or looks up and deletes, or deletes under the key given.
Creates == [post |-> "post", like |-> "like", repost |-> "repost", follow |-> "follow",
            block |-> "block", create_list |-> "list", add_to_list |-> "listitem",
            send_dm_to_convo |-> "message", send_dm |-> "message"]
Puts    == [set_reply_gate |-> "threadgate", disable_quotes |-> "postgate",
            set_dm_access |-> "declaration", mute |-> "mute"]
LooksUp == [unfollow |-> "follow", unblock |-> "block"]
Deletes == [remove_reply_gate |-> "threadgate", allow_quotes |-> "postgate",
            unmute |-> "mute"]
Edits   == {"update_profile", "label", "unlabel"}

Coll == [op \in DOMAIN Creates \cup DOMAIN Puts \cup DOMAIN LooksUp \cup DOMAIN Deletes |->
           CASE op \in DOMAIN Creates -> Creates[op]
             [] op \in DOMAIN Puts    -> Puts[op]
             [] op \in DOMAIN LooksUp -> LooksUp[op]
             [] op \in DOMAIN Deletes -> Deletes[op]]

EmptyProfile == [name |-> 0, labels |-> <<>>, other |-> 0]

AccountInit ==
  /\ records = {}
  /\ profile \in Profiles
  /\ task = [t \in Tasks |-> Idle]
  /\ changes = 0
  /\ since = [t \in Tasks |-> {}]

\* A task calls a method.  What has to be looked up is read first.
Call(t, call) ==
  /\ task[t].at = "idle" /\ changes < MaxChange
  /\ changes' = changes + 1
  /\ task' = [task EXCEPT ![t] =
       [op |-> call.op, on |-> call.on, no |-> changes', seen |-> None, attempt |-> 0,
        at |-> IF call.op \in Edits \cup DOMAIN LooksUp \cup {"send_dm"}
               THEN "read" ELSE "write"]]
  /\ UNCHANGED <<records, profile, since>>

Return(t)      == task' = [task EXCEPT ![t] = Idle]
Write(t, seen) == task' = [task EXCEPT ![t].at = "write", ![t].seen = seen]

-----------------------------------------------------------------------------
\* Reads.

\* viewer_for: the records by which the bot follows or blocks the actor, of which
\* the server names one.  Without any, unfollow and unblock are done.
LookUp(t) ==
  /\ task[t].at = "read" /\ task[t].op \in DOMAIN LooksUp
  /\ LET found == {r \in records : r.coll = Coll[task[t].op] /\ r.on = task[t].on}
     IN  \/ found = {} /\ Return(t)
         \/ \E r \in found : Write(t, r.rkey)
  /\ UNCHANGED <<records, profile, changes, since>>

\* convo_id_for
FindConvo(t) ==
  /\ task[t].at = "read" /\ task[t].op = "send_dm"
  /\ Write(t, None)
  /\ UNCHANGED <<records, profile, changes, since>>

HasBotLabel(labels) == labels # Unknown /\ Bot \in Range(labels)
OtherLabels(labels) ==
  IF labels = Unknown THEN <<>>
  ELSE FlattenSeq([i \in 1..Len(labels) |-> IF labels[i] = Bot THEN <<>> ELSE <<labels[i]>>])

\* set_bot_label: labels in another form count as none.
SetBotLabel(labels, present) ==
  IF present /\ HasBotLabel(labels) THEN labels
  ELSE OtherLabels(labels) \o IF present THEN <<Bot>> ELSE <<>>

\* fetch_profile_record: no record is an empty profile.  set_automated_label then
\* writes only what is not so already.
FetchProfile(t) ==
  /\ task[t].at = "read" /\ task[t].op \in Edits
  /\ LET found  == IF profile = None THEN EmptyProfile ELSE profile
         wanted == (task[t].op = "label")
     IN  IF task[t].op # "update_profile" /\ HasBotLabel(found.labels) = wanted
         THEN Return(t) ELSE Write(t, found)
  /\ since' = [since EXCEPT ![t] = {}]
  /\ UNCHANGED <<records, profile, changes>>

\* Mutant: a profile that cannot be read is taken for one that does not exist.
ReadFailsEmpty(t, err) ==
  /\ task[t].at = "read"
  /\ \/ Again(task[t].attempt, err) /\ task' = [task EXCEPT ![t].attempt = @ + 1]
     \/ ~Again(task[t].attempt, err) /\ task[t].op \in Edits /\ Write(t, EmptyProfile)
     \/ ~Again(task[t].attempt, err) /\ task[t].op \notin Edits /\ Return(t)
  /\ UNCHANGED <<records, profile, changes, since>>

\* A read fails: it is retried, or the call returns its error.
ReadFails(t, err) ==
  /\ task[t].at = "read"
  /\ \/ Again(task[t].attempt, err) /\ task' = [task EXCEPT ![t].attempt = @ + 1]
     \/ ~Again(task[t].attempt, err) /\ Return(t)
  /\ UNCHANGED <<records, profile, changes, since>>

-----------------------------------------------------------------------------
\* Writes, each one request that may take effect or not.

\* A key of the server's is never used again: here, the number of the call.
New(t, key) == [coll |-> Coll[task[t].op], rkey |-> key, on |-> task[t].on, by |-> task[t].no]

\* record.create, or send_message
Create(t) ==
  /\ task[t].at = "write" /\ task[t].op \in DOMAIN Creates
  /\ records' \in {records, records \cup {New(t, task[t].no)}}
  /\ Return(t)
  /\ UNCHANGED <<profile, changes, since>>

\* A gate has the key of its post; the others are singletons, a mute one of its
\* actor.  What was there under the key is replaced.
Put(t) ==
  /\ task[t].at = "write" /\ task[t].op \in DOMAIN Puts
  /\ LET there == {r \in records : r.coll = Coll[task[t].op] /\ r.rkey = task[t].on}
     IN  records' \in {records, (records \ there) \cup {New(t, task[t].on)}}
  /\ Return(t)
  /\ UNCHANGED <<profile, changes, since>>

\* Mutant: what has the key is deleted, of whatever collection.
DeleteByKey(t) ==
  /\ task[t].at = "write" /\ task[t].op \in DOMAIN LooksUp \cup DOMAIN Deletes
  /\ LET rkey == IF task[t].op \in DOMAIN LooksUp THEN task[t].seen ELSE task[t].on
     IN  records' \in {records, {r \in records : r.rkey # rkey}}
  /\ Return(t)
  /\ UNCHANGED <<profile, changes, since>>

\* delete, of the record looked up or under the key given; to delete one that is
\* gone is no error.
Delete(t) ==
  /\ task[t].at = "write" /\ task[t].op \in DOMAIN LooksUp \cup DOMAIN Deletes
  /\ LET rkey == IF task[t].op \in DOMAIN LooksUp THEN task[t].seen ELSE task[t].on
     IN  records' \in {records,
                       {r \in records : ~(r.coll = Coll[task[t].op] /\ r.rkey = rkey)}}
  /\ Return(t)
  /\ UNCHANGED <<profile, changes, since>>

\* The parts of a profile, as the calls edit them; `form` for labels in another form.
Facets(p) ==
  LET q == IF p = None THEN EmptyProfile ELSE p IN
  [name |-> q.name, bot |-> HasBotLabel(q.labels), labels |-> OtherLabels(q.labels),
   form |-> q.labels = Unknown, other |-> q.other]

\* Puts a profile, for the history: every task that has read it has now missed
\* what this changes.
Replaced(new) ==
  /\ profile' = new
  /\ since' = [u \in Tasks |->
       since[u] \cup {f \in DOMAIN Facets(new) : Facets(new)[f] # Facets(profile)[f]}]

\* update_profile, here with an edit of the name, and set_automated_label put back
\* what they read, edited.
PutProfile(t) ==
  /\ task[t].at = "write" /\ task[t].op \in Edits
  /\ LET edited == IF task[t].op = "update_profile"
                   THEN [task[t].seen EXCEPT !.name = task[t].no]
                   ELSE [task[t].seen EXCEPT !.labels = SetBotLabel(@, task[t].op = "label")]
     IN  Replaced(edited) \/ UNCHANGED <<profile, since>>
  /\ Return(t)
  /\ UNCHANGED <<records, changes>>

\* The owner edits the profile or deletes a record with another client.
Elsewhere ==
  /\ changes < MaxChange
  /\ changes' = changes + 1
  /\ \/ /\ LET p == IF profile = None THEN EmptyProfile ELSE profile IN
             Replaced([p EXCEPT !.other = changes'])
        /\ UNCHANGED records
     \/ /\ \E r \in records : records' = records \ {r}
        /\ UNCHANGED <<profile, since>>
  /\ UNCHANGED task

CallNext(t) ==
  \/ \E call \in Calls : Call(t, call)
  \/ LookUp(t) \/ FindConvo(t) \/ FetchProfile(t)
  \/ \E err \in Errors : ReadFails(t, err)
  \/ Create(t) \/ Put(t) \/ Delete(t) \/ PutProfile(t)

AccountNext == (\E t \in Tasks : CallNext(t)) \/ Elsewhere

AccountSpec == AccountInit /\ [][AccountNext]_accountVars

-----------------------------------------------------------------------------
\* What a call is to change: to label replaces labels in another form, as the doc of
\* set_bot_label says.
Own(op) == IF op = "update_profile" THEN {"name"} ELSE {"bot", "form"}

\* A call that edits the profile undoes nothing that was there when it read it,
\* and puts nothing that was not: other fields, other labels, an edit finished
\* before, and no part of them is lost because a read failed.  What it may undo is
\* only what was changed between its read and its write.
EditsSurvive ==
  [][\A t \in Tasks : task[t].op \in Edits /\ task'[t] = Idle =>
       \A f \in DOMAIN Facets(profile) \ Own(task[t].op) :
         Facets(profile')[f] # Facets(profile)[f] => f \in since[t]]_accountVars

\* A call touches only records of the kind and for the actor or post it is about,
\* although it may delete by a key it read some time before, and creates one at most,
\* as no create goes through retry: unfollow removes no block, and re-opening a post's
\* replies leaves its quotes disabled.
TouchesOnlyItsOwn ==
  [][\A t \in Tasks : task[t].at = "write" /\ task'[t] = Idle =>
       \A r \in (records \ records') \cup (records' \ records) :
         /\ r.coll = Coll[task[t].op] /\ r.on = task[t].on
         /\ r \in records' => records' \subseteq records \cup {r}]_accountVars

\* As the doc of update_profile has it (context.rs:806): what mutate leaves
\* untouched is preserved.  It is not, if it was changed since the read.
PreservesUntouched ==
  [][\A t \in Tasks : task[t].op \in Edits /\ task'[t] = Idle =>
       \A f \in DOMAIN Facets(profile) \ Own(task[t].op) :
         Facets(profile')[f] = Facets(profile)[f]]_accountVars
============================================================================
