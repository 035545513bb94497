------------------------- MODULE HashTableRefinement -------------------------
(***************************************************************************)
(* Used without ht_delete_key, the hash table implements SharedMap.        *)
(*                                                                         *)
(* An insertion takes effect when it links or fills its entry, or fails.   *)
(* A search takes effect when it locks its bucket's first entry: later     *)
(* insertions go behind that entry, where the search has already been.  So *)
(* its answer is what the rest of the chain holds.                         *)
(***************************************************************************)
EXTENDS HashTable

\* The answer of a search that is at entry e.
AnswerFrom(e, k) ==
  LET holders == {d \in ChainFrom(e) : occupied[d] /\ key[d] = k}
  IN  IF holders = {} THEN [val |-> None, errno |-> "ENOENT"]
      ELSE [val |-> data[CHOOSE d \in holders : TRUE], errno |-> "0"]

Searching(t) == pc[t] \in {"find_cmp", "find_next", "loc_read"}

Phase(t) ==
  CASE pc[t] = "idle" -> "idle"
    [] Searching(t)   -> "decided"
    [] OTHER          -> "called"

Due(t) ==
  IF Searching(t) THEN AnswerFrom(dhte[t], argKey[t]) ELSE [val |-> None, errno |-> "0"]

Promise == INSTANCE SharedMap WITH
  map    <- [k \in Keys |-> Lookup(k)],
  phase  <- [t \in Threads |-> Phase(t)],
  call   <- [t \in Threads |-> [op |-> op[t], key |-> argKey[t], data |-> argData[t]]],
  due    <- [t \in Threads |-> Due(t)],
  answer <- result

\* Lookups and insertions behave as if each had happened at one moment, on
\* one map: ht_locate_key returns the data of the insertion that succeeded,
\* ht_insert_key succeeds once per key.
Linearizable == Promise!Spec
=============================================================================
