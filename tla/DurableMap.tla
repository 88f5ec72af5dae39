---------------------------- MODULE DurableMap ----------------------------
(***************************************************************************)
(* What a bot may rely on of its store: a map it sees, and a map that      *)
(* outlives the process.  A change is seen at once.  What outlives the     *)
(* process is then the whole map as seen, or what it was before, or        *)
(* nothing at all; never a mixture of old and new keys.                    *)
(***************************************************************************)
CONSTANTS
  Keys,     \* The keys in use.
  Values,   \* The values that are stored.
  None      \* The value of an absent key.

VARIABLES
  view,      \* The map the bot sees.
  durable    \* The map a restarted bot would see.

vars == <<view, durable>>

Empty == [k \in Keys |-> None]

Init == view = Empty /\ durable = Empty

Update(k, v) ==
  /\ view' = [view EXCEPT ![k] = v]
  /\ durable' \in {view', durable, Empty}

Restart == view' = durable /\ durable' = durable

Next == Restart \/ \E k \in Keys, v \in Values \cup {None} : Update(k, v)

Spec == Init /\ [][Next]_vars

============================================================================
