------------------------------- MODULE Store -------------------------------
(***************************************************************************)
(* The key-value stores of src/store.rs.  A FileStore keeps the whole map  *)
(* in memory and rewrites its one file on every change, synchronously and  *)
(* under the lock of the map, so that a change is one step.  Writing the   *)
(* file truncates it first: a write that fails may leave the old file, or  *)
(* one that no longer parses, which the next process opens as empty.  The  *)
(* change stays in memory even when its write fails.  A MemoryStore has no *)
(* file.                                                                   *)
(***************************************************************************)
CONSTANTS
  Keys,        \* The keys in use.
  Values,      \* The values that are stored.
  None,        \* The value of an absent key (Option::None).
  Torn,        \* A file that does not parse.
  Persistent   \* A FileStore, or else a MemoryStore.

ASSUME NoneAssumption == None \notin Values
ASSUME PersistentAssumption == Persistent \in BOOLEAN
ASSUME TornAssumption == Torn \notin [Keys -> Values \cup {None}]

VARIABLES
  cache,   \* The map in memory, under its mutex.
  file     \* What the file holds, Torn if it does not parse.

store == <<cache, file>>

Maps == [Keys -> Values \cup {None}]
EmptyMap == [k \in Keys |-> None]

StoreTypeOK == cache \in Maps /\ file \in Maps \cup {Torn}

StoreInit == cache = EmptyMap /\ file = EmptyMap

\* serde_json::from_slice(&bytes).unwrap_or_default()
Parsed(f) == IF f = Torn THEN EmptyMap ELSE f

Load(k) == cache[k]

\* The file after the map m is written, by whether the caller is told Ok.
Written(ok, m) ==
  IF ~Persistent THEN IF ok THEN {file} ELSE {}
                 ELSE IF ok THEN {m} ELSE {file, Torn}

\* Mutant: only the key that changed reaches the file.
SaveOneKey(k, v, ok) ==
  /\ cache' = [cache EXCEPT ![k] = v]
  /\ file' \in Written(ok, [EmptyMap EXCEPT ![k] = v])

Save(k, v, ok) ==
  /\ cache' = [cache EXCEPT ![k] = v]
  /\ file' \in Written(ok, cache')

Remove(k, ok) ==
  /\ cache' = [cache EXCEPT ![k] = None]
  /\ file' \in Written(ok, cache')

\* FileStore::new, by the next process.
Reopen == cache' = Parsed(file) /\ UNCHANGED file

(***************************************************************************)
(* The store is the durable map above it, a torn file standing for the     *)
(* empty one it is opened as.                                              *)
(***************************************************************************)
Abstract == INSTANCE DurableMap WITH
  Keys <- Keys, Values <- Values, None <- None,
  view <- cache, durable <- Parsed(file)

============================================================================
