------------------------------ MODULE HashTable ------------------------------
(***************************************************************************)
(* The chained hash table of tools/stf/contrib/hashtable shared by several *)
(* threads that call ht_locate_key, ht_insert_key and ht_delete_key.       *)
(*                                                                         *)
(* An entry is in the table proper (slab 0) or in one of the slabs         *)
(* allocated when the free chain runs dry.  A step is what a thread does   *)
(* between two points where another thread can interfere: a lock           *)
(* acquisition, or an access that no lock protects.  A release is part of  *)
(* the step it ends.                                                       *)
(*                                                                         *)
(* Abstracted: the keys' bytes (Hash stands for ht_hash_bytes), and the    *)
(* statistics, except the one that is read back to compute its next value  *)
(* (stats.freechain.current).  The branches taken when a release fails, or *)
(* when a lock the thread cannot hold already is refused, have no step:    *)
(* LocksHeld (HashTableProofs) shows that they are never taken.            *)
(***************************************************************************)
EXTENDS Integers, FiniteSets

CONSTANTS
  Threads,      \* callers of the table
  Keys,         \* keys, compared by bcmp()
  Data,         \* addresses the callers associate with the keys
  NumEnts,      \* entries in the table proper, and in each later slab
  Hash,         \* ht->hash_compute: the index of a key in the table proper
  MaxSlabs,     \* bound: slabs that malloc() gives out after the first one
  MaxCalls,     \* bound: calls made by one thread
  Ops,          \* the calls in use, a subset of {"locate", "insert", "delete"}
  DupsAllowed,  \* is hto_dups_allowed set in ht->options?
  Modulus,      \* 2^64 in the code: the statistics are u_longlong_t
  None          \* NULL, and "no thread"

ASSUME SizeAssumption ==
  /\ NumEnts \in Nat \ {0}
  /\ MaxSlabs \in Nat
  /\ MaxCalls \in Nat
  /\ Modulus \in Nat \ {0}
ASSUME HashAssumption == Hash \in [Keys -> 0 .. NumEnts - 1]
ASSUME OpsAssumption == Ops \subseteq {"locate", "insert", "delete"}
ASSUME OptionAssumption == DupsAllowed \in BOOLEAN

\* Entry <<s, i>> is slab s's entry[i]; slab 0 is ht->table.
Entry == (0 .. MaxSlabs) \X (0 .. NumEnts - 1)
Table == {0} \X (0 .. NumEnts - 1)

ASSUME NoneAssumption ==
  /\ None \notin Threads
  /\ None \notin Entry
  /\ None \notin Keys
  /\ None \notin Data

VARIABLES
  occupied,   \* is htef_occupied set in the entry's flags?
  key,        \* the entry's key, None before its first use
  data,       \* the entry's data
  next,       \* the next entry of its bucket's chain or of the free chain
  freechain,  \* head of the free chain
  slabs,      \* number of slabs added to the one that is the table
  freeCount,  \* stats.freechain.current
  tableR,     \* threads that hold ht->tablelock for reading
  tableW,     \* thread that holds it for writing, or None
  freeW,      \* thread that holds ht->freelock for writing, or None
  entryR,     \* readers of each entry's rwlock
  entryW,     \* writer of each entry's rwlock, or None
  pc,         \* where each thread is
  op,         \* its current or latest call
  argKey,     \* and the parameters of that call
  argData,
  dhte,       \* its local variables, named as in the code
  phte,
  pphte,
  ohte,
  result,     \* what the latest call returned, and errno
  calls,      \* number of calls it has made
  found       \* history: the data of the entry its delete call matched

heap   == <<occupied, key, data, next, freechain, slabs, freeCount>>
locks  == <<tableR, tableW, freeW, entryR, entryW>>
args   == <<op, argKey, argData, calls>>
locals == <<dhte, phte, pphte, ohte>>
vars   == <<heap, locks, pc, args, locals, result, found>>

Labels == {"idle", "lock_table", "find_base", "find_cmp", "find_next",
           "loc_read", "ins_base", "ins_check", "ins_cmp", "ins_next",
           "ins_lockfree", "ins_take", "ins_fill", "ins_link", "del_case",
           "del_copy", "del_lockfree", "del_unlink", "del_unlock",
           "del_return", "fault"}

\* ht_insert_key returns 0, -1 or -2, the other calls an address or NULL.
Results == [val : Data \cup {None, 0, -1, -2}, errno : {"0", "ENOENT", "EEXIST", "EDEADLK"}]

TypeOK ==
  /\ occupied \in [Entry -> BOOLEAN]
  /\ key \in [Entry -> Keys \cup {None}]
  /\ data \in [Entry -> Data \cup {None}]
  /\ next \in [Entry -> Entry \cup {None}]
  /\ freechain \in Entry \cup {None}
  /\ slabs \in 0 .. MaxSlabs
  /\ freeCount \in 0 .. Modulus - 1
  /\ tableR \in SUBSET Threads
  /\ tableW \in Threads \cup {None}
  /\ freeW \in Threads \cup {None}
  /\ entryR \in [Entry -> SUBSET Threads]
  /\ entryW \in [Entry -> Threads \cup {None}]
  /\ pc \in [Threads -> Labels]
  /\ op \in [Threads -> Ops \cup {None}]
  /\ argKey \in [Threads -> Keys \cup {None}]
  /\ argData \in [Threads -> Data \cup {None}]
  /\ dhte \in [Threads -> Entry \cup {None}]
  /\ phte \in [Threads -> Entry \cup {None}]
  /\ pphte \in [Threads -> Entry \cup {None}]
  /\ ohte \in [Threads -> Entry \cup {None}]
  /\ result \in [Threads -> Results]
  /\ calls \in [Threads -> 0 .. MaxCalls]
  /\ found \in [Threads -> Data \cup {None}]

Init ==
  /\ occupied = [e \in Entry |-> FALSE]
  /\ key = [e \in Entry |-> None]
  /\ data = [e \in Entry |-> None]
  /\ next = [e \in Entry |-> None]
  /\ freechain = None
  /\ slabs = 0
  /\ freeCount = 0
  /\ tableR = {}
  /\ tableW = None
  /\ freeW = None
  /\ entryR = [e \in Entry |-> {}]
  /\ entryW = [e \in Entry |-> None]
  /\ pc = [t \in Threads |-> "idle"]
  /\ op = [t \in Threads |-> None]
  /\ argKey = [t \in Threads |-> None]
  /\ argData = [t \in Threads |-> None]
  /\ dhte = [t \in Threads |-> None]
  /\ phte = [t \in Threads |-> None]
  /\ pphte = [t \in Threads |-> None]
  /\ ohte = [t \in Threads |-> None]
  /\ result = [t \in Threads |-> [val |-> None, errno |-> "0"]]
  /\ calls = [t \in Threads |-> 0]
  /\ found = [t \in Threads |-> None]

-----------------------------------------------------------------------------
(* Steps of the program counter, and the locks.                            *)

Goto(t, from, to) ==
  /\ pc[t] = from
  /\ pc' = [pc EXCEPT ![t] = to]

Return(t, v, err) ==
  /\ pc' = [pc EXCEPT ![t] = "idle"]
  /\ result' = [result EXCEPT ![t] = [val |-> v, errno |-> err]]

\* ht_locate_key passes rw_rdlock to ht_locate_entry_, ht_delete_key
\* rw_wrlock; ht_insert_key write-locks.
Reads(t) == op[t] = "locate"

\* The lock is granted when no other thread holds it in a conflicting mode.
CanLock(t, e) ==
  /\ entryW[e] = None
  /\ Reads(t) \/ entryR[e] = {}

\* It is refused with EDEADLK to the thread that already holds it (a write
\* lock, or a read lock it would turn into a write lock).
Refused(t, e) ==
  \/ entryW[e] = t
  \/ ~Reads(t) /\ t \in entryR[e]

\* Thread t takes the locks of the entries in A and gives back those in B.
Relock(t, A, B) ==
  /\ entryW' = [e \in Entry |->
       IF e \in A /\ ~Reads(t) THEN t
       ELSE IF e \in B /\ entryW[e] = t THEN None ELSE entryW[e]]
  /\ entryR' = [e \in Entry |->
       IF e \in A /\ Reads(t) THEN entryR[e] \cup {t}
       ELSE IF e \in B THEN entryR[e] \ {t} ELSE entryR[e]]

LockEntry(t, e) == CanLock(t, e) /\ Relock(t, {e}, {})
UnlockEntries(t, B) == Relock(t, {}, B)

UnlockTable(t) ==
  /\ tableR' = tableR \ {t}
  /\ tableW' = IF tableW = t THEN None ELSE tableW

Bucket(k) == <<0, Hash[k]>>
-----------------------------------------------------------------------------
(* A call begins: the table lock is next.                                  *)

Call(t) ==
  /\ calls[t] < MaxCalls
  /\ Goto(t, "idle", "lock_table")
  /\ \E o \in Ops, k \in Keys, d \in Data :
       /\ op' = [op EXCEPT ![t] = o]
       /\ argKey' = [argKey EXCEPT ![t] = k]
       /\ argData' = [argData EXCEPT ![t] = IF o = "insert" THEN d ELSE None]
  /\ calls' = [calls EXCEPT ![t] = @ + 1]
  /\ UNCHANGED <<heap, locks, locals, result, found>>

\* ht_locate_entry read-locks the table, ht_insert_key and ht_delete_key
\* write-lock it.
LockTable(t) ==
  /\ pc[t] = "lock_table"
  /\ tableW = None
  /\ IF Reads(t)
     THEN tableR' = tableR \cup {t} /\ UNCHANGED tableW
     ELSE tableR = {} /\ tableW' = t /\ UNCHANGED tableR
  /\ pc' = [pc EXCEPT ![t] = IF op[t] = "insert" THEN "ins_base" ELSE "find_base"]
  /\ UNCHANGED <<heap, freeW, entryR, entryW, args, locals, result, found>>
-----------------------------------------------------------------------------
(* ht_locate_entry_: hand over hand along the chain of the key's bucket.   *)

FindBase(t) ==
  /\ Goto(t, "find_base", "find_cmp")
  /\ LockEntry(t, Bucket(argKey[t]))
  /\ dhte' = [dhte EXCEPT ![t] = Bucket(argKey[t])]
  /\ phte' = [phte EXCEPT ![t] = None]
  /\ pphte' = [pphte EXCEPT ![t] = None]
  /\ UNCHANGED <<heap, tableR, tableW, freeW, args, ohte, result, found>>

\* The caller returns NULL; it gives back the table lock first.
FindFails(t, err, release) ==
  /\ UnlockEntries(t, release)
  /\ UnlockTable(t)
  /\ Return(t, None, err)
  /\ UNCHANGED <<heap, freeW, args, ohte, found>>

\* The lock was refused: ht_counter_add leaves errno zero.
FindRefused(t) ==
  /\ pc[t] = "find_base"
  /\ Refused(t, Bucket(argKey[t]))
  /\ FindFails(t, "0", {})
  /\ UNCHANGED <<dhte, phte, pphte>>

Probing(t) ==
  /\ pc[t] = "find_cmp"
  /\ phte[t] = None => occupied[dhte[t]]

FindEmpty(t) ==
  /\ pc[t] = "find_cmp"
  /\ phte[t] = None
  /\ ~occupied[dhte[t]]
  /\ FindFails(t, "ENOENT", {dhte[t]})
  /\ UNCHANGED <<dhte, phte, pphte>>

FindEnd(t) ==
  /\ Probing(t)
  /\ key[dhte[t]] # argKey[t]
  /\ next[dhte[t]] = None
  /\ FindFails(t, "ENOENT", {phte[t], dhte[t]})
  /\ UNCHANGED <<dhte, phte, pphte>>

FindAdvance(t) ==
  /\ Probing(t)
  /\ key[dhte[t]] # argKey[t]
  /\ next[dhte[t]] # None
  /\ Goto(t, "find_cmp", "find_next")
  /\ pphte' = [pphte EXCEPT ![t] = phte[t]]
  /\ phte' = [phte EXCEPT ![t] = dhte[t]]
  /\ dhte' = [dhte EXCEPT ![t] = next[dhte[t]]]
  /\ UNCHANGED <<heap, locks, args, ohte, result, found>>

\* Mutant of FindNext: it releases the entry it comes from.
FindNext_EarlyRelease(t) ==
  /\ Goto(t, "find_next", "find_cmp")
  /\ CanLock(t, dhte[t])
  /\ Relock(t, {dhte[t]}, {pphte[t], phte[t]})
  /\ UNCHANGED <<heap, tableR, tableW, freeW, args, locals, result, found>>

FindNext(t) ==
  /\ Goto(t, "find_next", "find_cmp")
  /\ CanLock(t, dhte[t])
  /\ Relock(t, {dhte[t]}, {pphte[t]})
  /\ UNCHANGED <<heap, tableR, tableW, freeW, args, locals, result, found>>

\* The entry is returned locked.  Only ht_delete_key asks for the previous
\* one: for ht_locate_key it is unlocked.  Either gives back the table lock.
FindMatch(t) ==
  /\ Probing(t)
  /\ key[dhte[t]] = argKey[t]
  /\ Goto(t, "find_cmp", IF Reads(t) THEN "loc_read" ELSE "del_case")
  /\ UnlockEntries(t, IF Reads(t) THEN {phte[t]} ELSE {})
  /\ UnlockTable(t)
  /\ found' = [found EXCEPT ![t] = data[dhte[t]]]
  /\ UNCHANGED <<heap, freeW, args, locals, result>>

\* The end of ht_locate_key.
LocateRead(t) ==
  /\ pc[t] = "loc_read"
  /\ UnlockEntries(t, {dhte[t]})
  /\ Return(t, data[dhte[t]], "0")
  /\ UNCHANGED <<heap, tableR, tableW, freeW, args, locals, found>>
-----------------------------------------------------------------------------
(* ht_insert_key.                                                          *)

InsertBase(t) ==
  /\ Goto(t, "ins_base", "ins_check")
  /\ LockEntry(t, Bucket(argKey[t]))
  /\ dhte' = [dhte EXCEPT ![t] = Bucket(argKey[t])]
  /\ UnlockTable(t)
  /\ UNCHANGED <<heap, freeW, args, phte, pphte, ohte, result, found>>

InsertRefused(t) ==
  /\ pc[t] = "ins_base"
  /\ Refused(t, Bucket(argKey[t]))
  /\ UnlockTable(t)
  /\ Return(t, -2, "EDEADLK")
  /\ UNCHANGED <<heap, freeW, entryR, entryW, args, locals, found>>

InsertInTable(t) ==
  /\ pc[t] = "ins_check"
  /\ ~occupied[dhte[t]]
  /\ occupied' = [occupied EXCEPT ![dhte[t]] = TRUE]
  /\ key' = [key EXCEPT ![dhte[t]] = argKey[t]]
  /\ data' = [data EXCEPT ![dhte[t]] = argData[t]]
  /\ UnlockEntries(t, {dhte[t]})
  /\ Return(t, 0, "0")
  /\ UNCHANGED <<next, freechain, slabs, freeCount, tableR, tableW, freeW, args, locals, found>>

InsertOccupied(t) ==
  /\ Goto(t, "ins_check", "ins_cmp")
  /\ occupied[dhte[t]]
  /\ ohte' = [ohte EXCEPT ![t] = dhte[t]]
  /\ UNCHANGED <<heap, locks, args, dhte, phte, pphte, result, found>>

\* Mutant of InsertDuplicate: it returns without unlocking.
InsertDuplicate_KeepsLock(t) ==
  /\ pc[t] = "ins_cmp"
  /\ ~DupsAllowed
  /\ key[ohte[t]] = argKey[t]
  /\ Return(t, -1, "EEXIST")
  /\ UNCHANGED <<heap, locks, args, locals, found>>

\* The walk for duplicates takes no lock on the entries of the chain.
InsertDuplicate(t) ==
  /\ pc[t] = "ins_cmp"
  /\ ~DupsAllowed
  /\ key[ohte[t]] = argKey[t]
  /\ UnlockEntries(t, {dhte[t]})
  /\ Return(t, -1, "EEXIST")
  /\ UNCHANGED <<heap, tableR, tableW, freeW, args, locals, found>>

\* Mutant of InsertDiffers: only the first entry is compared.
InsertDiffers_FirstOnly(t) ==
  /\ Goto(t, "ins_cmp", "ins_lockfree")
  /\ DupsAllowed \/ key[ohte[t]] \notin {argKey[t], None}
  /\ UNCHANGED <<heap, locks, args, locals, result, found>>

InsertDiffers(t) ==
  /\ Goto(t, "ins_cmp", "ins_next")
  /\ DupsAllowed \/ key[ohte[t]] \notin {argKey[t], None}
  /\ UNCHANGED <<heap, locks, args, locals, result, found>>

\* bcmp() of a key that was never set: the process dies.
InsertFault(t) ==
  /\ pc[t] = "ins_cmp"
  /\ ~DupsAllowed
  /\ key[ohte[t]] = None
  /\ pc' = [u \in Threads |-> "fault"]
  /\ UNCHANGED <<heap, locks, args, locals, result, found>>

InsertNext(t) ==
  /\ Goto(t, "ins_next", IF next[ohte[t]] = None THEN "ins_lockfree" ELSE "ins_cmp")
  /\ ohte' = [ohte EXCEPT ![t] = next[ohte[t]]]
  /\ UNCHANGED <<heap, locks, args, dhte, phte, pphte, result, found>>

LockFree(t, from, to) ==
  /\ Goto(t, from, to)
  /\ freeW = None
  /\ freeW' = t
  /\ UNCHANGED <<heap, tableR, tableW, entryR, entryW, args, locals, result, found>>

InsertLockFree(t) == LockFree(t, "ins_lockfree", "ins_take")

\* Mutant of InsertRefill: the last entry points past the slab.
InsertRefill_OffByOne(t) ==
  /\ pc[t] = "ins_take"
  /\ freechain = None
  /\ slabs < MaxSlabs
  /\ slabs' = slabs + 1
  /\ next' = [e \in Entry |-> IF e[1] # slabs + 1 THEN next[e] ELSE <<e[1], e[2] + 1>>]
  /\ freechain' = <<slabs + 1, 0>>
  /\ freeCount' = (freeCount + NumEnts) % Modulus
  /\ UNCHANGED <<occupied, key, data, locks, pc, args, locals, result, found>>

\* A slab of the size of the table, hung on the free chain in its order.
InsertRefill(t) ==
  /\ pc[t] = "ins_take"
  /\ freechain = None
  /\ slabs < MaxSlabs
  /\ slabs' = slabs + 1
  /\ next' = [e \in Entry |->
       IF e[1] # slabs + 1 THEN next[e]
       ELSE IF e[2] < NumEnts - 1 THEN <<e[1], e[2] + 1>> ELSE freechain]
  /\ freechain' = <<slabs + 1, 0>>
  /\ freeCount' = (freeCount + NumEnts) % Modulus
  /\ UNCHANGED <<occupied, key, data, locks, pc, args, locals, result, found>>

\* Mutant of InsertNoMemory: the free chain stays locked.
InsertNoMemory_KeepsFreeLock(t) ==
  /\ pc[t] = "ins_take"
  /\ freechain = None
  /\ UnlockEntries(t, {dhte[t]})
  /\ Return(t, -1, "0")
  /\ UNCHANGED <<heap, tableR, tableW, freeW, args, locals, found>>

\* ht_counter_add clears the errno that malloc() has set.
InsertNoMemory(t) ==
  /\ pc[t] = "ins_take"
  /\ freechain = None
  /\ freeW' = None
  /\ UnlockEntries(t, {dhte[t]})
  /\ Return(t, -1, "0")
  /\ UNCHANGED <<heap, tableR, tableW, args, locals, found>>

\* Mutants of InsertTake: the entry keeps its link to the free chain; the
\* count is not updated.
InsertTake_KeepsNext(t) ==
  /\ Goto(t, "ins_take", "ins_fill")
  /\ freechain # None
  /\ ohte' = [ohte EXCEPT ![t] = freechain]
  /\ freechain' = next[freechain]
  /\ freeCount' = (freeCount - 1) % Modulus
  /\ freeW' = None
  /\ UNCHANGED <<occupied, key, data, next, slabs, tableR, tableW, entryR, entryW, args,
                 dhte, phte, pphte, result, found>>
InsertTake_NoCount(t) ==
  /\ Goto(t, "ins_take", "ins_fill")
  /\ freechain # None
  /\ ohte' = [ohte EXCEPT ![t] = freechain]
  /\ freechain' = next[freechain]
  /\ next' = [next EXCEPT ![freechain] = None]
  /\ freeW' = None
  /\ UNCHANGED <<occupied, key, data, slabs, freeCount, tableR, tableW, entryR, entryW,
                 args, dhte, phte, pphte, result, found>>

InsertTake(t) ==
  /\ Goto(t, "ins_take", "ins_fill")
  /\ freechain # None
  /\ ohte' = [ohte EXCEPT ![t] = freechain]
  /\ freechain' = next[freechain]
  /\ next' = [next EXCEPT ![freechain] = None]
  /\ freeCount' = (freeCount - 1) % Modulus
  /\ freeW' = None
  /\ UNCHANGED <<occupied, key, data, slabs, tableR, tableW, entryR, entryW, args,
                 dhte, phte, pphte, result, found>>

InsertFill(t) ==
  /\ Goto(t, "ins_fill", "ins_link")
  /\ occupied' = [occupied EXCEPT ![ohte[t]] = TRUE]
  /\ key' = [key EXCEPT ![ohte[t]] = argKey[t]]
  /\ data' = [data EXCEPT ![ohte[t]] = argData[t]]
  /\ UNCHANGED <<next, freechain, slabs, freeCount, locks, args, locals, result, found>>

\* Mutant of InsertLink: the rest of the chain is lost.
InsertLink_DropsChain(t) ==
  /\ pc[t] = "ins_link"
  /\ next' = [next EXCEPT ![dhte[t]] = ohte[t]]
  /\ UnlockEntries(t, {dhte[t]})
  /\ Return(t, 0, "0")
  /\ UNCHANGED <<occupied, key, data, freechain, slabs, freeCount, tableR, tableW, freeW,
                 args, locals, found>>

InsertLink(t) ==
  /\ pc[t] = "ins_link"
  /\ next' = [next EXCEPT ![ohte[t]] = next[dhte[t]], ![dhte[t]] = ohte[t]]
  /\ UnlockEntries(t, {dhte[t]})
  /\ Return(t, 0, "0")
  /\ UNCHANGED <<occupied, key, data, freechain, slabs, freeCount, tableR, tableW, freeW,
                 args, locals, found>>
-----------------------------------------------------------------------------
(* ht_delete_key, once ht_locate_entry_ has returned the entry.            *)

\* In the table, with no chain: the entry's lock is not given back.
DeleteLone(t) ==
  /\ pc[t] = "del_case"
  /\ phte[t] = None
  /\ next[dhte[t]] = None
  /\ occupied' = [occupied EXCEPT ![dhte[t]] = FALSE]
  /\ Return(t, data[dhte[t]], "0")
  /\ UNCHANGED <<key, data, next, freechain, slabs, freeCount, locks, args, locals, found>>

\* In the table, with a chain: its first entry takes the deleted one's place.
DeleteHead(t) ==
  /\ Goto(t, "del_case", "del_copy")
  /\ phte[t] = None
  /\ next[dhte[t]] # None
  /\ phte' = [phte EXCEPT ![t] = dhte[t]]
  /\ dhte' = [dhte EXCEPT ![t] = next[dhte[t]]]
  /\ UNCHANGED <<heap, locks, args, pphte, ohte, result, found>>

DeleteCopy(t) ==
  /\ Goto(t, "del_copy", "del_lockfree")
  /\ LockEntry(t, dhte[t])
  /\ key' = [key EXCEPT ![phte[t]] = key[dhte[t]]]
  /\ data' = [data EXCEPT ![phte[t]] = data[dhte[t]]]
  /\ occupied' = [occupied EXCEPT ![phte[t]] = occupied[dhte[t]], ![dhte[t]] = FALSE]
  /\ UNCHANGED <<next, freechain, slabs, freeCount, tableR, tableW, freeW, args, locals,
                 result, found>>

\* On the chain.
DeleteChained(t) ==
  /\ Goto(t, "del_case", "del_lockfree")
  /\ phte[t] # None
  /\ occupied' = [occupied EXCEPT ![dhte[t]] = FALSE]
  /\ UNCHANGED <<key, data, next, freechain, slabs, freeCount, locks, args, locals,
                 result, found>>

DeleteLockFree(t) == LockFree(t, "del_lockfree", "del_unlink")

\* Mutant of DeleteUnlink: the previous entry still points to it.
DeleteUnlink_KeepsLink(t) ==
  /\ Goto(t, "del_unlink", "del_unlock")
  /\ next' = [next EXCEPT ![dhte[t]] = freechain]
  /\ freechain' = dhte[t]
  /\ freeW' = None
  /\ UNCHANGED <<occupied, key, data, slabs, freeCount, tableR, tableW, entryR, entryW,
                 args, locals, result, found>>

DeleteUnlink(t) ==
  /\ Goto(t, "del_unlink", "del_unlock")
  /\ next' = [next EXCEPT ![phte[t]] = next[dhte[t]], ![dhte[t]] = freechain]
  /\ freechain' = dhte[t]
  /\ freeW' = None
  /\ UNCHANGED <<occupied, key, data, slabs, freeCount, tableR, tableW, entryR, entryW,
                 args, locals, result, found>>

DeleteUnlock(t) ==
  /\ Goto(t, "del_unlock", "del_return")
  /\ UnlockEntries(t, {phte[t], dhte[t]})
  /\ UNCHANGED <<heap, tableR, tableW, freeW, args, locals, result, found>>

\* dhte->data is read from the entry, which is on the free chain by now.
DeleteReturn(t) ==
  /\ pc[t] = "del_return"
  /\ Return(t, data[dhte[t]], "0")
  /\ UNCHANGED <<heap, locks, args, locals, found>>
-----------------------------------------------------------------------------
Find(t) ==
  \/ FindBase(t) \/ FindRefused(t) \/ FindEmpty(t) \/ FindEnd(t)
  \/ FindAdvance(t) \/ FindNext(t) \/ FindMatch(t)

Insert(t) ==
  \/ InsertBase(t) \/ InsertRefused(t) \/ InsertInTable(t) \/ InsertOccupied(t)
  \/ InsertDuplicate(t) \/ InsertDiffers(t) \/ InsertFault(t) \/ InsertNext(t)
  \/ InsertLockFree(t) \/ InsertRefill(t) \/ InsertNoMemory(t) \/ InsertTake(t)
  \/ InsertFill(t) \/ InsertLink(t)

Delete(t) ==
  \/ DeleteLone(t) \/ DeleteHead(t) \/ DeleteCopy(t) \/ DeleteChained(t)
  \/ DeleteLockFree(t) \/ DeleteUnlink(t) \/ DeleteUnlock(t) \/ DeleteReturn(t)

Step(t) == LockTable(t) \/ Find(t) \/ LocateRead(t) \/ Insert(t) \/ Delete(t)

Next == \E t \in Threads : Call(t) \/ Step(t)

Spec == Init /\ [][Next]_vars

\* A thread inside a call keeps running; nobody is obliged to call.
FairSpec == Spec /\ \A t \in Threads : WF_vars(Step(t))
-----------------------------------------------------------------------------
(* What the entries look like from outside.                                *)

\* The entries met when following next from e, e included.
ChainFrom(e) ==
  LET walk[n \in 0 .. (MaxSlabs + 1) * NumEnts] ==
        IF n = 0 THEN e
        ELSE IF walk[n - 1] = None THEN None ELSE next[walk[n - 1]]
  IN  {walk[n] : n \in DOMAIN walk} \ {None}

InUse == UNION {ChainFrom(e) : e \in {b \in Table : occupied[b]}}

\* The data held for a key, when at most one entry holds it.
Lookup(k) ==
  LET holders == {e \in InUse : occupied[e] /\ key[e] = k}
  IN  IF holders = {} THEN None ELSE data[CHOOSE e \in holders : TRUE]

\* The entries that thread t must hold a lock of, where it is.
Holding(t) ==
  CASE pc[t] \in {"find_cmp", "del_case"}       -> {phte[t], dhte[t]} \ {None}
    [] pc[t] = "find_next"                      -> {pphte[t], phte[t]} \ {None}
    [] pc[t] = "del_copy"                       -> {phte[t]}
    [] pc[t] \in {"del_lockfree", "del_unlink", "del_unlock"} -> {phte[t], dhte[t]}
    [] pc[t] \in {"loc_read", "ins_check", "ins_cmp", "ins_next", "ins_lockfree",
                  "ins_take", "ins_fill", "ins_link"} -> {dhte[t]}
    [] OTHER                                    -> {}

Holds(t, e) == entryW[e] = t \/ t \in entryR[e]
-----------------------------------------------------------------------------
(* Properties.                                                             *)

\* A write lock excludes every other holder, and a thread in the middle of
\* a search or an update holds the lock of each entry it works on, in the
\* mode its call asked for: the releases of the code never fail.
LocksHeld ==
  /\ tableW # None => tableR = {}
  /\ \A e \in Entry : entryW[e] # None => entryR[e] = {}
  /\ \A t \in Threads : \A e \in Entry : e \in Holding(t) =>
       (IF Reads(t) THEN t \in entryR[e] ELSE entryW[e] = t)

\* The entries form disjoint chains: an entry is pointed to by at most one
\* other entry, the heads (the table's entries and the free chain's first)
\* by none, an entry between free chain and bucket by none.  So what the
\* free chain hands out is on no bucket's chain.
DisjointChains ==
  /\ \A d, e \in Entry : next[d] = next[e] /\ next[d] # None => d = e
  /\ \A e \in Entry : next[e] \notin Table \cup ({freechain} \ {None})
  /\ freechain \notin Table
  /\ \A t \in Threads : pc[t] \in {"ins_fill", "ins_link"} =>
       /\ ohte[t] \notin Table \cup {None, freechain}
       /\ \A e \in Entry : next[e] # ohte[t]
       /\ \A u \in Threads \ {t} :
            pc[u] \in {"ins_fill", "ins_link"} => ohte[u] # ohte[t]

\* An empty table entry has no chain (a search stops there), and the free
\* chain starts at an empty entry.
EmptyEntries ==
  /\ \A e \in Table : ~occupied[e] => next[e] = None
  /\ freechain # None => ~occupied[freechain]

\* Without hto_dups_allowed a key is in the table once, on the chain of the
\* bucket it hashes to.
KeysUnique ==
  ~DupsAllowed =>
    \A b \in Table : occupied[b] =>
      \A e \in ChainFrom(b) : occupied[e] =>
        /\ b = Bucket(key[e])
        /\ \A d \in ChainFrom(b) : occupied[d] /\ key[d] = key[e] => d = e

\* A thread that is not inside a call holds no lock.
NoLocksAtReturn ==
  \A t \in Threads : pc[t] = "idle" =>
    /\ t \notin tableR /\ tableW # t /\ freeW # t
    /\ \A e \in Entry : ~Holds(t, e)

\* stats.freechain.current is the length of the free chain whenever nobody
\* is working on it.
FreeCountIsLength ==
  freeW = None => freeCount = Cardinality(IF freechain = None THEN {} ELSE ChainFrom(freechain))

\* libhashtable.c:2177: ht_delete_key returns the data of the key it was
\* asked to delete.
DeleteReturnsItsData ==
  \A t \in Threads :
    pc[t] = "idle" /\ op[t] = "delete" /\ result[t].val # None => result[t].val = found[t]

\* libhashtable.c:1730: when ht_locate_key finds no match it returns NULL and
\* errno is ENOENT.
NotFoundIsENOENT ==
  \A t \in Threads :
    pc[t] = "idle" /\ op[t] = "locate" /\ result[t].val = None => result[t].errno = "ENOENT"

\* Every call returns: no thread waits forever for a lock of the table, of
\* the free chain or of an entry.
CallsReturn == \A t \in Threads : pc[t] # "idle" ~> pc[t] = "idle"
=============================================================================
