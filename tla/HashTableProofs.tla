--------------------------- MODULE HashTableProofs ---------------------------
(***************************************************************************)
(* What holds of HashTable for any number of threads, keys, buckets and    *)
(* slabs.  The invariant has three layers, each proved with the help of    *)
(* the others: types (TypeInv), who holds which lock (LockInv), the shape  *)
(* of the chains (StructInv and Acyclic).  The locks give the chains       *)
(* exclusive access to the entries a step changes; the chains tell the     *)
(* locks that a search's neighbours differ.                                *)
(***************************************************************************)
EXTENDS HashTableInv, TLAPS

(* Types.                                                                  *)

\* A key's bucket is an entry of the table proper.
LEMMA BucketInTable ==
  ASSUME NEW k \in Keys
  PROVE  Bucket(k) \in Table /\ Bucket(k) \in Entry
BY HashAssumption, SizeAssumption DEF Bucket, Table, Entry

\* Taking and giving back locks leaves the lock variables well typed.
LEMMA RelockType ==
  ASSUME TypeOK, NEW t \in Threads, NEW A, NEW B, Relock(t, A, B)
  PROVE  /\ entryR' \in [Entry -> SUBSET Threads]
         /\ entryW' \in [Entry -> Threads \cup {None}]
BY DEF TypeOK, Relock

\* The table as created by ht_create, with every thread outside.
LEMMA TypeInit == Init => TypeInv
BY SizeAssumption
   DEF Init, TypeInv, TypeOK, PlaceOK, Labels, Results, FindLabels, InsertLabels, DeleteLabels

\* The steps of a search preserve the types.
LEMMA TypeFind ==
  ASSUME TypeInv, NEW t \in Threads, Find(t) \/ LocateRead(t)
  PROVE  TypeInv'
<1> USE SizeAssumption, NoneAssumption DEF TypeInv, TypeOK, PlaceOK, Labels, Results, FindLabels,
    InsertLabels, DeleteLabels, Goto, Return,
    heap, locks, args, locals
<1>1. CASE FindBase(t)
  <2>1. /\ entryR' \in [Entry -> SUBSET Threads]
        /\ entryW' \in [Entry -> Threads \cup {None}]
    BY <1>1, RelockType DEF FindBase, LockEntry
  <2>2. QED BY <1>1, <2>1, BucketInTable DEF FindBase, LockEntry
<1>2. CASE FindRefused(t)
  <2>1. /\ entryR' \in [Entry -> SUBSET Threads]
        /\ entryW' \in [Entry -> Threads \cup {None}]
    BY <1>2, RelockType DEF FindRefused, FindFails, UnlockEntries, UnlockTable
  <2>2. QED BY <1>2, <2>1, BucketInTable DEF FindRefused, FindFails, UnlockEntries, UnlockTable
<1>3. CASE FindEmpty(t)
  <2>1. /\ entryR' \in [Entry -> SUBSET Threads]
        /\ entryW' \in [Entry -> Threads \cup {None}]
    BY <1>3, RelockType DEF FindEmpty, FindFails, UnlockEntries, UnlockTable
  <2>2. QED BY <1>3, <2>1, BucketInTable DEF FindEmpty, FindFails, UnlockEntries, UnlockTable
<1>4. CASE FindEnd(t)
  <2>1. /\ entryR' \in [Entry -> SUBSET Threads]
        /\ entryW' \in [Entry -> Threads \cup {None}]
    BY <1>4, RelockType DEF FindEnd, Probing, FindFails, UnlockEntries, UnlockTable
  <2>2. QED BY <1>4, <2>1, BucketInTable DEF FindEnd, Probing, FindFails, UnlockEntries, UnlockTable
<1>5. CASE FindAdvance(t)
  BY <1>5, BucketInTable DEF FindAdvance, Probing
<1>6. CASE FindNext(t)
  <2>1. /\ entryR' \in [Entry -> SUBSET Threads]
        /\ entryW' \in [Entry -> Threads \cup {None}]
    BY <1>6, RelockType DEF FindNext
  <2>2. QED BY <1>6, <2>1, BucketInTable DEF FindNext
<1>7. CASE FindMatch(t)
  <2>1. /\ entryR' \in [Entry -> SUBSET Threads]
        /\ entryW' \in [Entry -> Threads \cup {None}]
    BY <1>7, RelockType DEF FindMatch, Probing, UnlockEntries, UnlockTable
  <2>2. QED BY <1>7, <2>1, BucketInTable DEF Reads, FindMatch, Probing, UnlockEntries, UnlockTable
<1>8. CASE LocateRead(t)
  <2>1. /\ entryR' \in [Entry -> SUBSET Threads]
        /\ entryW' \in [Entry -> Threads \cup {None}]
    BY <1>8, RelockType DEF LocateRead, UnlockEntries
  <2>2. QED BY <1>8, <2>1, BucketInTable DEF LocateRead, UnlockEntries
<1> QED BY <1>1, <1>2, <1>3, <1>4, <1>5, <1>6, <1>7, <1>8 DEF Find

\* So do those of an insertion.
LEMMA TypeInsert ==
  ASSUME TypeInv, NEW t \in Threads, Insert(t)
  PROVE  TypeInv'
<1> USE SizeAssumption, NoneAssumption DEF TypeInv, TypeOK, PlaceOK, Labels, Results, FindLabels,
    InsertLabels, DeleteLabels, Goto, Return,
    heap, locks, args, locals
<1>1. CASE InsertBase(t)
  <2>1. /\ entryR' \in [Entry -> SUBSET Threads]
        /\ entryW' \in [Entry -> Threads \cup {None}]
    BY <1>1, RelockType DEF InsertBase, LockEntry, UnlockTable
  <2>2. QED BY <1>1, <2>1, BucketInTable DEF InsertBase, LockEntry, UnlockTable
<1>2. CASE InsertRefused(t)
  BY <1>2, BucketInTable DEF InsertRefused, UnlockTable
<1>3. CASE InsertInTable(t)
  <2>1. /\ entryR' \in [Entry -> SUBSET Threads]
        /\ entryW' \in [Entry -> Threads \cup {None}]
    BY <1>3, RelockType DEF InsertInTable, UnlockEntries
  <2>2. QED BY <1>3, <2>1, BucketInTable DEF InsertInTable, UnlockEntries
<1>4. CASE InsertOccupied(t)
  BY <1>4, BucketInTable DEF InsertOccupied
<1>5. CASE InsertDuplicate(t)
  <2>1. /\ entryR' \in [Entry -> SUBSET Threads]
        /\ entryW' \in [Entry -> Threads \cup {None}]
    BY <1>5, RelockType DEF InsertDuplicate, UnlockEntries
  <2>2. QED BY <1>5, <2>1, BucketInTable DEF InsertDuplicate, UnlockEntries
<1>6. CASE InsertDiffers(t)
  BY <1>6, BucketInTable DEF InsertDiffers
<1>7. CASE InsertFault(t)
  BY <1>7, BucketInTable DEF InsertFault
<1>8. CASE InsertNext(t)
  BY <1>8, BucketInTable DEF InsertNext
<1>9. CASE InsertLockFree(t)
  BY <1>9, BucketInTable DEF InsertLockFree, LockFree
<1>10. CASE InsertRefill(t)
  <2>1. <<slabs + 1, 0>> \in Entry /\ next' \in [Entry -> Entry \cup {None}]
    BY <1>10 DEF InsertRefill, Entry, TypeOK
  <2>2. (freeCount + NumEnts) % Modulus \in 0 .. Modulus - 1
    BY DEF TypeOK
  <2>3. QED BY <1>10, <2>1, <2>2 DEF InsertRefill, locks, args, locals
<1>11. CASE InsertNoMemory(t)
  <2>1. /\ entryR' \in [Entry -> SUBSET Threads]
        /\ entryW' \in [Entry -> Threads \cup {None}]
    BY <1>11, RelockType DEF InsertNoMemory, UnlockEntries
  <2>2. QED BY <1>11, <2>1, BucketInTable DEF InsertNoMemory, UnlockEntries
<1>12. CASE InsertTake(t)
  BY <1>12, BucketInTable DEF InsertTake
<1>13. CASE InsertFill(t)
  BY <1>13, BucketInTable DEF InsertFill
<1>14. CASE InsertLink(t)
  <2>1. /\ entryR' \in [Entry -> SUBSET Threads]
        /\ entryW' \in [Entry -> Threads \cup {None}]
    BY <1>14, RelockType DEF InsertLink, UnlockEntries
  <2>2. QED BY <1>14, <2>1, BucketInTable DEF InsertLink, UnlockEntries
<1> QED BY <1>1, <1>2, <1>3, <1>4, <1>5, <1>6, <1>7, <1>8, <1>9, <1>10, <1>11, <1>12, <1>13,
    <1>14 DEF Insert

\* And those of a deletion.
LEMMA TypeDelete ==
  ASSUME TypeInv, NEW t \in Threads, Delete(t)
  PROVE  TypeInv'
<1> USE SizeAssumption, NoneAssumption DEF TypeInv, TypeOK, PlaceOK, Labels, Results, FindLabels,
    InsertLabels, DeleteLabels, Goto, Return,
    heap, locks, args, locals
<1>1. CASE DeleteLone(t)
  BY <1>1, BucketInTable DEF DeleteLone
<1>2. CASE DeleteHead(t)
  BY <1>2, BucketInTable DEF DeleteHead
<1>3. CASE DeleteCopy(t)
  <2>1. /\ entryR' \in [Entry -> SUBSET Threads]
        /\ entryW' \in [Entry -> Threads \cup {None}]
    BY <1>3, RelockType DEF DeleteCopy, LockEntry
  <2>2. QED BY <1>3, <2>1, BucketInTable DEF DeleteCopy, LockEntry
<1>4. CASE DeleteChained(t)
  BY <1>4, BucketInTable DEF DeleteChained
<1>5. CASE DeleteLockFree(t)
  BY <1>5, BucketInTable DEF DeleteLockFree, LockFree
<1>6. CASE DeleteUnlink(t)
  BY <1>6, BucketInTable DEF DeleteUnlink
<1>7. CASE DeleteUnlock(t)
  <2>1. /\ entryR' \in [Entry -> SUBSET Threads]
        /\ entryW' \in [Entry -> Threads \cup {None}]
    BY <1>7, RelockType DEF DeleteUnlock, UnlockEntries
  <2>2. QED BY <1>7, <2>1, BucketInTable DEF DeleteUnlock, UnlockEntries
<1>8. CASE DeleteReturn(t)
  BY <1>8, BucketInTable DEF DeleteReturn
<1> QED BY <1>1, <1>2, <1>3, <1>4, <1>5, <1>6, <1>7, <1>8 DEF Delete

\* A call begins, takes the table lock, and goes on.
LEMMA TypeNext == TypeInv /\ [Next]_vars => TypeInv'
<1> SUFFICES ASSUME TypeInv, [Next]_vars PROVE TypeInv'
  OBVIOUS
<1>1. CASE UNCHANGED vars
  BY <1>1 DEF vars, heap, locks, args, locals, TypeInv, TypeOK, PlaceOK
<1>2. ASSUME NEW t \in Threads, Call(t) PROVE TypeInv'
  BY <1>2, SizeAssumption, NoneAssumption
     DEF Call, TypeInv, TypeOK, PlaceOK, Labels, FindLabels, InsertLabels, DeleteLabels,
         Goto, heap, locks, locals
<1>3. ASSUME NEW t \in Threads, LockTable(t) PROVE TypeInv'
  <2> USE <1>3, NoneAssumption DEF LockTable
  <2>1. tableR' \in SUBSET Threads /\ tableW' \in Threads \cup {None}
    BY DEF TypeInv, TypeOK
  <2>2. op[t] \in {"locate", "insert", "delete"}
    BY OpsAssumption DEF TypeInv, PlaceOK
  <2>3. pc' \in [Threads -> Labels]
    BY DEF TypeInv, TypeOK, Labels
  <2>4. TypeOK'
    BY <2>1, <2>3 DEF TypeInv, TypeOK, heap, args, locals
  <2>5. PlaceOK'
    BY <2>2 DEF TypeInv, TypeOK, PlaceOK, FindLabels, InsertLabels, DeleteLabels, args, locals
  <2>6. QED BY <2>4, <2>5 DEF TypeInv
<1>4. QED BY <1>1, <1>2, <1>3, TypeFind, TypeInsert, TypeDelete DEF Next, Step

\* TypeOK is an invariant of the table: pointers are entries or NULL, locks
\* are held by threads.
THEOREM TypeCorrect == Spec => []TypeOK
<1>1. TypeInv => TypeOK BY DEF TypeInv
<1>2. QED BY <1>1, TypeInit, TypeNext, PTL DEF Spec

-----------------------------------------------------------------------------
(* Entries and chains.                                                     *)

\* An entry is a slab number and an index; slab 0 is the table proper.
LEMMA EntryPair ==
  \A e \in Entry :
    /\ e = <<e[1], e[2]>>
    /\ e[1] \in 0 .. MaxSlabs
    /\ e[2] \in 0 .. NumEnts - 1
    /\ e \in Table <=> e[1] = 0
BY SizeAssumption DEF Entry, Table

\* The entries of the table proper are entries.
LEMMA TableInEntry == Table \subseteq Entry
BY SizeAssumption DEF Table, Entry

\* Following next always ends: a rank decreases along every chain.  (TLC cannot
\* enumerate the ranks, so this part of the invariant is stated here.)
Acyclic == \E rank \in [Entry -> Nat] : \A e \in Entry : next[e] # None => rank[next[e]] < rank[e]

\* In particular no entry is its own successor.
NoLoop == \A e \in Entry : next[e] # e

\* A chain that ends has no entry that is its own successor.
LEMMA AcyclicNoLoop == TypeInv /\ Acyclic => NoLoop
<1> SUFFICES ASSUME TypeInv, Acyclic, NEW e \in Entry, next[e] = e PROVE FALSE
  BY DEF NoLoop
<1>1. PICK rank \in [Entry -> Nat] : \A x \in Entry : next[x] # None => rank[next[x]] < rank[x]
  BY DEF Acyclic
<1>2. rank[e] < rank[e] /\ rank[e] \in Nat BY <1>1, NoneAssumption
<1> QED BY <1>2

-----------------------------------------------------------------------------
(* Locks.                                                                  *)

\* An entry on which an inserting or deleting thread works is nobody else's.
LEMMA WriterAlone ==
  ASSUME TypeInv, LockInv, NEW t \in Threads, NEW u \in Threads, u # t, NEW e \in Entry,
         ~Reads(t), e \in Holding(t)
  PROVE  e \notin Holding(u)
BY NoneAssumption DEF TypeInv, TypeOK, LockInv, LocksHeld

\* A lock that can be granted for writing is held by nobody, one that can be
\* granted at all by no writer.
LEMMA GrantedAlone ==
  ASSUME TypeInv, LockInv, NEW t \in Threads, NEW u \in Threads, NEW e \in Entry,
         ~Reads(t) \/ ~Reads(u), CanLock(t, e)
  PROVE  e \notin Holding(u)
BY NoneAssumption DEF TypeInv, TypeOK, LockInv, LocksHeld, CanLock

\* An entry whose lock can be granted is not about to be unlinked.
LEMMA GrantedLinked ==
  ASSUME TypeInv, LockInv, NEW t \in Threads, NEW e \in Entry, CanLock(t, e)
  PROVE  ~Unlinking(e)
<1> SUFFICES ASSUME NEW u \in Threads, pc[u] \in {"del_lockfree", "del_unlink"},
    dhte[u] = e PROVE FALSE
  BY DEF Unlinking
<1>1. e \in Holding(u) BY DEF Holding
<1>2. ~Reads(u) BY DEF Reads, TypeInv, PlaceOK, DeleteLabels
<1> QED BY <1>1, <1>2, GrantedAlone

\* A search holds the locks Holding says, in the mode of its call.
LEMMA LockFind ==
  ASSUME TypeInv, LockInv, StructInv, NoLoop, NEW t \in Threads, Find(t) \/ LocateRead(t)
  PROVE  LockInv'
<1> USE NoneAssumption DEF TypeInv, TypeOK, PlaceOK, FindLabels, InsertLabels, DeleteLabels,
    LockInv, LocksHeld, LocksExplained, Holding, Reads, Relock, CanLock, Goto, Return,
    heap, locks, args, locals
<1>1. CASE FindBase(t)
  <2> USE <1>1, BucketInTable DEF FindBase, LockEntry
  <2>1. (/\ tableW # None => tableR = {}
         /\ \A e \in Entry : entryW[e] # None => entryR[e] = {})'
    OBVIOUS
  <2>2. ASSUME NEW u \in Threads, NEW e \in Entry, e \in Holding(u)'
        PROVE  (IF Reads(u) THEN u \in entryR[e] ELSE entryW[e] = u)'
    <3>1. CASE u = t BY <2>2, <3>1
    <3>2. CASE u # t
      <4>1. Holding(u)' = Holding(u) /\ Reads(u)' = Reads(u) BY <3>2
      <4> QED BY <2>2, <3>2, <4>1
    <3> QED BY <3>1, <3>2
  <2>3. LocksExplained' OBVIOUS
  <2> QED BY <2>1, <2>2, <2>3
<1>2. CASE FindRefused(t)
  BY <1>2 DEF FindRefused, FindFails, UnlockEntries, UnlockTable
<1>3. CASE FindEmpty(t)
  BY <1>3 DEF FindEmpty, FindFails, UnlockEntries, UnlockTable
<1>4. CASE FindEnd(t)
  BY <1>4 DEF FindEnd, Probing, FindFails, UnlockEntries, UnlockTable
<1>5. CASE FindAdvance(t)
  BY <1>5 DEF FindAdvance, Probing
<1>6. CASE FindNext(t)
  <2>0. phte[t] # pphte[t]
    BY <1>6 DEF FindNext, StructInv, Neighbours
  <2> USE <1>6 DEF FindNext
  <2>1. (/\ tableW # None => tableR = {}
         /\ \A e \in Entry : entryW[e] # None => entryR[e] = {})'
    OBVIOUS
  <2>2. ASSUME NEW u \in Threads, NEW e \in Entry, e \in Holding(u)'
        PROVE  (IF Reads(u) THEN u \in entryR[e] ELSE entryW[e] = u)'
    <3>1. CASE u = t BY <2>0, <2>2, <3>1
    <3>2. CASE u # t
      <4>1. Holding(u)' = Holding(u) /\ Reads(u)' = Reads(u) BY <3>2
      <4> QED BY <2>2, <3>2, <4>1
    <3> QED BY <3>1, <3>2
  <2>3. LocksExplained' OBVIOUS
  <2> QED BY <2>1, <2>2, <2>3
<1>7. CASE FindMatch(t)
  <2>0. phte[t] # dhte[t]
    BY <1>7 DEF FindMatch, Probing, StructInv, Neighbours, NoLoop
  <2> USE <1>7 DEF FindMatch, Probing, UnlockEntries, UnlockTable
  <2>1. (/\ tableW # None => tableR = {}
         /\ \A e \in Entry : entryW[e] # None => entryR[e] = {})'
    OBVIOUS
  <2>2. ASSUME NEW u \in Threads, NEW e \in Entry, e \in Holding(u)'
        PROVE  (IF Reads(u) THEN u \in entryR[e] ELSE entryW[e] = u)'
    <3>1. CASE u = t
      <4>1. e \in Holding(t) /\ Reads(t)' = Reads(t)
        BY <2>2, <3>1
      <4>2. IF Reads(t) THEN t \in entryR[e] ELSE entryW[e] = t
        BY <4>1
      <4>3. Reads(t) => e # phte[t]
        BY <2>0, <2>2, <3>1
      <4> QED BY <3>1, <4>1, <4>2, <4>3
    <3>2. CASE u # t
      <4>1. Holding(u)' = Holding(u) /\ Reads(u)' = Reads(u) BY <3>2
      <4> QED BY <2>2, <3>2, <4>1
    <3> QED BY <3>1, <3>2
  <2>3. LocksExplained' OBVIOUS
  <2> QED BY <2>1, <2>2, <2>3
<1>8. CASE LocateRead(t)
  BY <1>8 DEF LocateRead, UnlockEntries
<1> QED BY <1>1, <1>2, <1>3, <1>4, <1>5, <1>6, <1>7, <1>8 DEF Find

\* So does an insertion.
LEMMA LockInsert ==
  ASSUME TypeInv, LockInv, StructInv, NoLoop, NEW t \in Threads, Insert(t)
  PROVE  LockInv'
<1> USE NoneAssumption DEF TypeInv, TypeOK, PlaceOK, FindLabels, InsertLabels, DeleteLabels,
    LockInv, LocksHeld, LocksExplained, Holding, Reads, Relock, CanLock, Goto, Return,
    heap, locks, args, locals
<1>1. CASE InsertBase(t)
  BY <1>1, BucketInTable DEF InsertBase, LockEntry, UnlockTable
<1>2. CASE InsertRefused(t)
  BY <1>2 DEF InsertRefused, UnlockTable
<1>3. CASE InsertInTable(t)
  BY <1>3 DEF InsertInTable, UnlockEntries
<1>4. CASE InsertOccupied(t)
  BY <1>4 DEF InsertOccupied
<1>5. CASE InsertDuplicate(t)
  BY <1>5 DEF InsertDuplicate, UnlockEntries
<1>6. CASE InsertDiffers(t)
  BY <1>6 DEF InsertDiffers
<1>7. CASE InsertFault(t)
  BY <1>7 DEF InsertFault
<1>8. CASE InsertNext(t)
  BY <1>8 DEF InsertNext
<1>9. CASE InsertLockFree(t)
  BY <1>9 DEF InsertLockFree, LockFree
<1>10. CASE InsertRefill(t)
  BY <1>10 DEF InsertRefill
<1>11. CASE InsertNoMemory(t)
  BY <1>11 DEF InsertNoMemory, UnlockEntries
<1>12. CASE InsertTake(t)
  BY <1>12 DEF InsertTake
<1>13. CASE InsertFill(t)
  BY <1>13 DEF InsertFill
<1>14. CASE InsertLink(t)
  BY <1>14 DEF InsertLink, UnlockEntries
<1> QED BY <1>1, <1>2, <1>3, <1>4, <1>5, <1>6, <1>7, <1>8, <1>9, <1>10, <1>11, <1>12, <1>13,
    <1>14 DEF Insert

\* So does a deletion; DeleteLone leaves a write lock on an entry of the table.
LEMMA LockDelete ==
  ASSUME TypeInv, LockInv, StructInv, NoLoop, NEW t \in Threads, Delete(t)
  PROVE  LockInv'
<1> USE NoneAssumption DEF TypeInv, TypeOK, PlaceOK, FindLabels, InsertLabels, DeleteLabels,
    LockInv, LocksHeld, LocksExplained, Holding, Reads, Relock, CanLock, Goto, Return,
    heap, locks, args, locals
<1>1. CASE DeleteLone(t)
  <2> USE <1>1 DEF DeleteLone
  <2>1. (/\ tableW # None => tableR = {}
         /\ \A e \in Entry : entryW[e] # None => entryR[e] = {})'
    OBVIOUS
  <2>2. ASSUME NEW u \in Threads, NEW e \in Entry, e \in Holding(u)'
        PROVE  (IF Reads(u) THEN u \in entryR[e] ELSE entryW[e] = u)'
    <3>1. CASE u = t BY <2>2, <3>1
    <3>2. CASE u # t
      <4>1. Holding(u)' = Holding(u) /\ Reads(u)' = Reads(u) BY <3>2
      <4> QED BY <2>2, <3>2, <4>1
    <3> QED BY <3>1, <3>2
  <2>3. LocksExplained' OBVIOUS
  <2> QED BY <2>1, <2>2, <2>3
<1>2. CASE DeleteHead(t)
  BY <1>2 DEF DeleteHead
<1>3. CASE DeleteCopy(t)
  BY <1>3 DEF DeleteCopy, LockEntry
<1>4. CASE DeleteChained(t)
  BY <1>4 DEF DeleteChained
<1>5. CASE DeleteLockFree(t)
  BY <1>5 DEF DeleteLockFree, LockFree
<1>6. CASE DeleteUnlink(t)
  BY <1>6 DEF DeleteUnlink
<1>7. CASE DeleteUnlock(t)
  BY <1>7 DEF DeleteUnlock, UnlockEntries
<1>8. CASE DeleteReturn(t)
  BY <1>8 DEF DeleteReturn
<1> QED BY <1>1, <1>2, <1>3, <1>4, <1>5, <1>6, <1>7, <1>8 DEF Delete

-----------------------------------------------------------------------------
(* The shape of the chains.                                                *)

\* ht_delete_key clears htef_occupied of an entry that is on a chain: the entry stays
\* live until it is unlinked, and nobody else was looking at it.
LEMMA MarkEmpty ==
  ASSUME TypeInv, LockInv, StructInv, NEW t \in Threads, NEW p \in Entry, NEW d \in Entry,
         pc[t] \in {"del_case", "del_copy"}, pc' = [pc EXCEPT ![t] = "del_lockfree"],
         phte[t] = p, dhte[t] = d, next[p] = d, p # d, occupied[p], occupied[d],
         \A u \in Threads \ {t} : d \notin Holding(u),
         occupied' = [occupied EXCEPT ![d] = FALSE],
         UNCHANGED <<next, freechain, slabs, locals>>
  PROVE  StructInv'
<1> USE NoneAssumption
<1>0. d \notin Table /\ freechain # d
  BY DEF StructInv, DisjointChains
<1>1. \A e \in Entry \ {d} : Unlinking(e)' <=> Unlinking(e)
  BY DEF Unlinking, TypeInv, TypeOK, locals
<1>2. Unlinking(d)'
  BY DEF Unlinking, TypeInv, TypeOK, locals
<1>3. \A e \in Entry : occupied'[e] <=> occupied[e] /\ e # d
  BY DEF TypeInv, TypeOK
<1>4. \A e \in Entry : Live(e)' <=> Live(e)
  <2>1. ASSUME NEW e \in Entry, e # d PROVE Live(e)' <=> Live(e)
    BY <1>1, <1>3, <2>1 DEF Live
  <2>2. Live(d)' /\ Live(d)
    BY <1>2 DEF Live
  <2> QED BY <2>1, <2>2
<1>5. DisjointChains'
  BY DEF DisjointChains, StructInv, TypeInv, TypeOK, locals
<1>6. EmptyEntries'
  BY <1>0, <1>3 DEF StructInv, EmptyEntries, Table, Entry, TypeInv, TypeOK
<1>7. ChainsPure'
  <2>1. \A u \in Threads : pc[u] # "fault" BY DEF TypeInv, PlaceOK
  <2>2. QED BY <1>4, <2>1 DEF StructInv, ChainsPure, TypeInv, TypeOK
<1>8. Allocated'
  BY <1>3 DEF StructInv, Allocated, TypeInv, TypeOK, locals
<1>9. Neighbours'
  <2>1. ASSUME NEW u \in Threads, u # t PROVE Neighbours!(u)'
    <3> \A x \in {phte[u], dhte[u]} : x \in Holding(u) => x # d BY <2>1
    <3> QED BY <2>1, <1>3 DEF StructInv, Neighbours, Holding, TypeInv, TypeOK, PlaceOK, locals
  <2>2. Neighbours!(t)'
    BY <1>3 DEF StructInv, Neighbours, TypeInv, TypeOK, PlaceOK, locals
  <2> QED BY <2>1, <2>2 DEF Neighbours
<1>10. Inserting'
  <2>1. \A u \in Threads : pc[u] \in {"ins_fill", "ins_link"} => ohte[u] # d
    BY DEF StructInv, DisjointChains
  <2> QED BY <1>3, <1>0, <2>1 DEF StructInv, Inserting, InsertLabels, TypeInv, TypeOK, PlaceOK,
      locals
<1> QED BY <1>5, <1>6, <1>7, <1>8, <1>9, <1>10 DEF StructInv

\* The entry copied to the bucket's head is occupied, so only its own flag changes.
LEMMA StructDeleteCopy ==
  ASSUME TypeInv, LockInv, StructInv, NoLoop, NEW t \in Threads, DeleteCopy(t)
  PROVE  StructInv'
<1> USE NoneAssumption DEF TypeInv
<1>1. /\ pc[t] = "del_copy" /\ phte[t] \in Entry /\ dhte[t] \in Entry /\ phte[t] \in Table
      /\ next[phte[t]] = dhte[t] /\ occupied[phte[t]] /\ ~Reads(t) /\ CanLock(t, dhte[t])
  BY DEF DeleteCopy, Goto, PlaceOK, DeleteLabels, StructInv, Neighbours, Reads, LockEntry
<1>2. occupied[dhte[t]]
  <2>1. Live(dhte[t]) BY <1>1 DEF Live, StructInv, ChainsPure
  <2>2. QED BY <1>1, <2>1, GrantedLinked DEF Live, StructInv, DisjointChains
<1>3. occupied' = [occupied EXCEPT ![dhte[t]] = FALSE]
  <2>1. [occupied EXCEPT ![phte[t]] = occupied[dhte[t]]] = occupied
    BY <1>1, <1>2 DEF TypeOK
  <2>2. QED BY <2>1 DEF DeleteCopy
<1>4. \A u \in Threads \ {t} : dhte[t] \notin Holding(u)
  BY <1>1, GrantedAlone
<1>5. phte[t] # dhte[t] BY <1>1 DEF NoLoop
<1> QED BY <1>1, <1>2, <1>3, <1>4, <1>5, MarkEmpty DEF DeleteCopy, Goto

\* A deletion further down the chain.
LEMMA StructDeleteChained ==
  ASSUME TypeInv, LockInv, StructInv, NoLoop, NEW t \in Threads, DeleteChained(t)
  PROVE  StructInv'
<1> USE NoneAssumption DEF TypeInv
<1>1. /\ pc[t] = "del_case" /\ phte[t] \in Entry /\ dhte[t] \in Entry
      /\ next[phte[t]] = dhte[t] /\ occupied[phte[t]] /\ occupied[dhte[t]] /\ ~Reads(t)
  BY DEF DeleteChained, Goto, TypeOK, PlaceOK, DeleteLabels, StructInv, Neighbours, Reads
<1>2. \A u \in Threads \ {t} : dhte[t] \notin Holding(u)
  <2>1. dhte[t] \in Holding(t) BY <1>1 DEF Holding
  <2> QED BY <1>1, <2>1, WriterAlone
<1>3. phte[t] # dhte[t] BY <1>1 DEF NoLoop
<1> QED BY <1>1, <1>2, <1>3, MarkEmpty DEF DeleteChained, Goto

\* The entry goes from its bucket's chain to the free chain.
LEMMA StructDeleteUnlink ==
  ASSUME TypeInv, LockInv, StructInv, NoLoop, NEW t \in Threads, DeleteUnlink(t)
  PROVE  StructInv'
<1> USE NoneAssumption
<1>0. PICK p \in Entry, d \in Entry : p = phte[t] /\ d = dhte[t]
  BY DEF DeleteUnlink, Goto, TypeInv, PlaceOK, DeleteLabels
<1>1. /\ pc[t] = "del_unlink" /\ p \in Entry /\ d \in Entry /\ p # d /\ next[p] = d
      /\ occupied[p] /\ ~occupied[d] /\ ~Reads(t) /\ p \in Holding(t) /\ d \in Holding(t)
  BY <1>0 DEF DeleteUnlink, Goto, PlaceOK, DeleteLabels, StructInv, Neighbours, Reads, NoLoop,
      Holding, TypeInv
<1>2. /\ next' \in [Entry -> Entry \cup {None}]
      /\ next'[p] = next[d] /\ next'[d] = freechain
      /\ \A e \in Entry \ {p, d} : next'[e] = next[e]
      /\ freechain' = d /\ occupied' = occupied /\ slabs' = slabs
      /\ \A u \in Threads : phte'[u] = phte[u] /\ dhte'[u] = dhte[u]
           /\ pphte'[u] = pphte[u] /\ ohte'[u] = ohte[u]
      /\ pc'[t] = "del_unlock" /\ \A u \in Threads \ {t} : pc'[u] = pc[u]
  BY <1>0, <1>1 DEF DeleteUnlink, Goto, TypeInv, TypeOK, locals
<1>3. /\ d \notin Table /\ freechain # d /\ next[d] # d
      /\ \A e \in Entry : next[e] = d => e = p
      /\ \A u \in Threads : pc[u] \in {"ins_fill", "ins_link"} => ohte[u] # d
  BY <1>1 DEF StructInv, DisjointChains, NoLoop
<1>4. \A u \in Threads \ {t} : p \notin Holding(u) /\ d \notin Holding(u)
  BY <1>1, WriterAlone
<1>5. DisjointChains'
  <2>1. \A x, y \in Entry : next'[x] = next'[y] /\ next'[x] # None => x = y
    BY <1>1, <1>2, <1>3 DEF StructInv, DisjointChains
  <2>2. \A e \in Entry : next'[e] \notin Table \cup ({d} \ {None})
    BY <1>1, <1>2, <1>3 DEF StructInv, DisjointChains
  <2>3. ASSUME NEW u \in Threads, pc'[u] \in {"ins_fill", "ins_link"}
        PROVE  /\ ohte[u] \notin Table \cup {None, d}
               /\ \A e \in Entry : next'[e] # ohte[u]
               /\ \A v \in Threads \ {u} : pc'[v] \in {"ins_fill", "ins_link"} => ohte[v] # ohte[u]
    <3>1. pc[u] \in {"ins_fill", "ins_link"} BY <1>2, <2>3
    <3> QED BY <1>1, <1>2, <1>3, <3>1 DEF StructInv, DisjointChains
  <2> QED BY <1>2, <1>3, <2>1, <2>2, <2>3 DEF DisjointChains
<1>6. EmptyEntries'
  BY <1>1, <1>2, <1>3, TableInEntry DEF StructInv, EmptyEntries
<1>7. ChainsPure'
  <2>1. \A u \in Threads : pc[u] # "fault" BY <1>1 DEF TypeInv, PlaceOK
  <2>2. \A e \in Entry \ {d} : Live(e)' <=> Live(e)
    <3>1. \A e \in Entry \ {d} : Unlinking(e)' <=> Unlinking(e) BY <1>0, <1>1, <1>2 DEF Unlinking
    <3> QED BY <3>1, <1>2 DEF Live
  <2>3. ~Live(d)'
    <3>1. \A u \in Threads \ {t} : pc[u] \in {"del_lockfree", "del_unlink"} => dhte[u] # d
      BY <1>4 DEF Holding
    <3> QED BY <1>1, <1>2, <1>3, <3>1 DEF Live, Unlinking
  <2>4. Live(p) /\ Live(d) BY <1>0, <1>1 DEF Live, Unlinking
  <2>5. /\ \A e \in Entry : next[e] # None => (Live(e) <=> Live(next[e]))
        /\ freechain # None => ~Live(freechain)
    BY <1>1, <2>1 DEF StructInv, ChainsPure
  <2>6. ASSUME NEW e \in Entry, next'[e] # None PROVE Live(e)' <=> Live(next[e])'
    <3>1. CASE e = p BY <1>1, <1>2, <1>3, <2>2, <2>4, <2>5, <2>6, <3>1
    <3>2. CASE e = d BY <1>1, <1>2, <1>3, <2>2, <2>3, <2>5, <2>6, <3>2 DEF TypeInv, TypeOK
    <3>3. CASE e \notin {p, d} BY <1>2, <1>3, <2>2, <2>5, <2>6, <3>3
    <3> QED BY <3>1, <3>2, <3>3
  <2> QED BY <1>2, <2>3, <2>6 DEF ChainsPure
<1>8. Allocated'
  <2>1. d[1] \in 1 .. slabs BY <1>1 DEF StructInv, Allocated
  <2>2. p[1] \in Int /\ d[1] \in Int /\ slabs \in Int /\ ~(p[1] > slabs)
    BY <1>1, EntryPair DEF StructInv, Allocated, TypeInv, TypeOK
  <2>3. ASSUME NEW e \in Entry, next'[e] # None PROVE next'[e][1] \in 1 .. slabs
    <3>1. CASE e = p BY <1>1, <1>2, <2>3, <3>1 DEF StructInv, Allocated
    <3>2. CASE e = d BY <1>2, <2>3, <3>2 DEF StructInv, Allocated
    <3>3. CASE e \notin {p, d} BY <1>2, <2>3, <3>3 DEF StructInv, Allocated
    <3> QED BY <3>1, <3>2, <3>3
  <2>4. \A e \in Entry : e[1] > slabs => ~occupied[e] /\ next'[e] = None
    BY <1>2, <2>1, <2>2 DEF StructInv, Allocated
  <2>5. \A u \in Threads : pc'[u] \in {"ins_fill", "ins_link"} => ohte[u][1] \in 1 .. slabs
    BY <1>2 DEF StructInv, Allocated
  <2> QED BY <1>2, <2>1, <2>3, <2>4, <2>5 DEF Allocated
<1>9. Neighbours'
  <2>1. ASSUME NEW u \in Threads, u # t PROVE Neighbours!(u)'
    <3>1. phte[u] \in Holding(u) => phte[u] # p /\ phte[u] # d BY <1>4, <2>1
    <3> QED BY <2>1, <1>2, <3>1 DEF StructInv, Neighbours, Holding, TypeInv, TypeOK, PlaceOK
  <2>2. Neighbours!(t)'
    BY <1>2 DEF StructInv, Neighbours
  <2> QED BY <2>1, <2>2 DEF Neighbours
<1>10. Inserting'
  BY <1>1, <1>2, <1>3 DEF StructInv, Inserting, InsertLabels, DisjointChains, TypeInv, PlaceOK
<1> QED BY <1>5, <1>6, <1>7, <1>8, <1>9, <1>10 DEF StructInv

\* An entry leaves the free chain and is on no chain until it is linked.
LEMMA StructInsertTake ==
  ASSUME TypeInv, LockInv, StructInv, NoLoop, NEW t \in Threads, InsertTake(t)
  PROVE  StructInv'
<1> USE NoneAssumption
<1>0. PICK f \in Entry : f = freechain
  BY DEF InsertTake, TypeInv, TypeOK
<1>1. /\ pc[t] = "ins_take" /\ dhte[t] \in Entry
      /\ \A e \in Entry : next[e] # f
      /\ f \notin Table /\ ~occupied[f] /\ next[f] # f /\ ~Live(f)
  BY <1>0 DEF InsertTake, Goto, TypeInv, PlaceOK, InsertLabels, StructInv, DisjointChains,
      EmptyEntries, NoLoop, ChainsPure
<1>2. /\ next' \in [Entry -> Entry \cup {None}]
      /\ next'[f] = None
      /\ \A e \in Entry \ {f} : next'[e] = next[e]
      /\ freechain' = next[f] /\ occupied' = occupied /\ slabs' = slabs
      /\ \A u \in Threads : phte'[u] = phte[u] /\ dhte'[u] = dhte[u]
           /\ pphte'[u] = pphte[u]
      /\ ohte'[t] = f /\ \A u \in Threads \ {t} : ohte'[u] = ohte[u]
      /\ pc'[t] = "ins_fill" /\ \A u \in Threads \ {t} : pc'[u] = pc[u]
  BY <1>0 DEF InsertTake, Goto, TypeInv, TypeOK
<1>3. \A e \in Entry : Live(e)' <=> Live(e)
  <2>1. \A e \in Entry : Unlinking(e)' <=> Unlinking(e) BY <1>1, <1>2 DEF Unlinking
  <2> QED BY <1>2, <2>1 DEF Live
<1>4. ASSUME NEW u \in Threads,
             pc[u] \in {"find_cmp", "find_next", "del_case", "del_copy", "del_lockfree",
                 "del_unlink"}
      PROVE  phte[u] # f
  BY <1>1, <1>4 DEF StructInv, Neighbours
<1>5. DisjointChains'
  <2>1. \A x, y \in Entry : next'[x] = next'[y] /\ next'[x] # None => x = y
    BY <1>2 DEF StructInv, DisjointChains
  <2>2. \A e \in Entry : next'[e] \notin Table \cup ({next[f]} \ {None})
    BY <1>1, <1>2, TableInEntry DEF StructInv, DisjointChains
  <2>3. next[f] \notin Table BY DEF StructInv, DisjointChains
  <2>4. ASSUME NEW u \in Threads, u # t, pc[u] \in {"ins_fill", "ins_link"}
        PROVE  /\ ohte[u] \notin Table \cup {None, next[f], f}
               /\ \A e \in Entry : next'[e] # ohte[u]
    BY <1>0, <1>2, <2>4 DEF StructInv, DisjointChains
  <2>5. /\ f \notin Table \cup {None, next[f]}
        /\ \A e \in Entry : next'[e] # f
    BY <1>1, <1>2
  <2>6. \A u, v \in Threads \ {t} : u # v /\ pc[u] \in {"ins_fill",
      "ins_link"} /\ pc[v] \in {"ins_fill", "ins_link"}
          => ohte[u] # ohte[v]
    BY DEF StructInv, DisjointChains
  <2> QED BY <1>2, <2>1, <2>2, <2>3, <2>4, <2>5, <2>6 DEF DisjointChains
<1>6. EmptyEntries'
  <2>1. next[f] # None => ~Live(next[f]) BY <1>1 DEF StructInv, ChainsPure
  <2> QED BY <1>1, <1>2, <2>1, TableInEntry DEF StructInv, EmptyEntries, Live
<1>7. ChainsPure'
  <2>1. next[f] # None => ~Live(next[f]) BY <1>1 DEF StructInv, ChainsPure
  <2>2. \A u \in Threads : pc[u] # "fault" BY <1>1 DEF TypeInv, PlaceOK
  <2>3. next[f] \in Entry \cup {None} BY DEF TypeInv, TypeOK
  <2>4. ASSUME NEW e \in Entry, next'[e] # None PROVE Live(e)' <=> Live(next[e])'
    BY <1>2, <1>3, <2>4, <2>2 DEF StructInv, ChainsPure
  <2> QED BY <1>2, <1>3, <2>1, <2>3, <2>4 DEF ChainsPure
<1>8. Allocated'
  BY <1>0, <1>2 DEF StructInv, Allocated
<1>9. Neighbours'
  <2>1. ASSUME NEW u \in Threads, u # t PROVE Neighbours!(u)'
    BY <1>2, <1>4, <2>1 DEF StructInv, Neighbours, TypeInv, TypeOK, PlaceOK
  <2>2. Neighbours!(t)'
    BY <1>2 DEF Neighbours
  <2> QED BY <2>1, <2>2 DEF Neighbours
<1>10. Inserting'
  <2>2. ASSUME NEW u \in Threads, u # t PROVE Inserting!(u)'
    BY <1>1, <1>2, <2>2 DEF StructInv, Inserting, InsertLabels, TypeInv, PlaceOK
  <2>3. Inserting!(t)'
    BY <1>1, <1>2, <1>4 DEF StructInv, Inserting, InsertLabels
  <2> QED BY <2>2, <2>3 DEF Inserting
<1> QED BY <1>5, <1>6, <1>7, <1>8, <1>9, <1>10 DEF StructInv

\* The new entry becomes the second of its bucket's chain.
LEMMA StructInsertLink ==
  ASSUME TypeInv, LockInv, StructInv, NoLoop, NEW t \in Threads, InsertLink(t)
  PROVE  StructInv'
<1> USE NoneAssumption
<1>0. PICK d \in Entry, o \in Entry : d = dhte[t] /\ o = ohte[t]
  BY DEF InsertLink, TypeInv, PlaceOK, InsertLabels
<1>1. /\ pc[t] = "ins_link" /\ d \in Table /\ o \notin Table /\ d # o /\ o # freechain
      /\ next[o] = None /\ occupied[d] /\ ~Reads(t) /\ d \in Holding(t)
      /\ \A e \in Entry : next[e] # o
  BY <1>0 DEF InsertLink, TypeInv, PlaceOK, InsertLabels, StructInv, DisjointChains, Inserting,
      Reads, Holding
<1>2. /\ next' \in [Entry -> Entry \cup {None}]
      /\ next'[o] = next[d] /\ next'[d] = o
      /\ \A e \in Entry \ {d, o} : next'[e] = next[e]
      /\ freechain' = freechain /\ occupied' = occupied /\ slabs' = slabs
      /\ \A u \in Threads : phte'[u] = phte[u] /\ dhte'[u] = dhte[u]
           /\ pphte'[u] = pphte[u] /\ ohte'[u] = ohte[u]
      /\ pc'[t] = "idle" /\ \A u \in Threads \ {t} : pc'[u] = pc[u]
  BY <1>0, <1>1 DEF InsertLink, Return, TypeInv, TypeOK, locals
<1>3. \A e \in Entry : Live(e)' <=> Live(e)
  <2>1. \A e \in Entry : Unlinking(e)' <=> Unlinking(e) BY <1>1, <1>2 DEF Unlinking
  <2> QED BY <1>2, <2>1 DEF Live
<1>4. \A u \in Threads \ {t} : d \notin Holding(u)
  BY <1>1, WriterAlone
<1>5. DisjointChains'
  <2>1. \A x, y \in Entry : next'[x] = next'[y] /\ next'[x] # None => x = y
    BY <1>1, <1>2 DEF StructInv, DisjointChains
  <2>2. \A e \in Entry : next'[e] \notin Table \cup ({freechain} \ {None})
    BY <1>1, <1>2 DEF StructInv, DisjointChains
  <2>3. ASSUME NEW u \in Threads, pc'[u] \in {"ins_fill", "ins_link"}
        PROVE  /\ ohte[u] \notin Table \cup {None, freechain}
               /\ \A e \in Entry : next'[e] # ohte[u]
               /\ \A v \in Threads \ {u} : pc'[v] \in {"ins_fill", "ins_link"} => ohte[v] # ohte[u]
    <3>1. pc[u] \in {"ins_fill", "ins_link"} /\ u # t BY <1>2, <2>3
    <3>2. ohte[u] # o BY <1>0, <1>1, <3>1 DEF StructInv, DisjointChains
    <3> QED BY <1>1, <1>2, <3>1, <3>2 DEF StructInv, DisjointChains
  <2> QED BY <1>2, <2>1, <2>2, <2>3 DEF StructInv, DisjointChains
<1>6. EmptyEntries'
  BY <1>1, <1>2, TableInEntry DEF StructInv, EmptyEntries
<1>7. ChainsPure'
  <2>1. \A u \in Threads : pc[u] # "fault" BY <1>1 DEF TypeInv, PlaceOK
  <2>2. /\ \A e \in Entry : next[e] # None => (Live(e) <=> Live(next[e]))
        /\ freechain # None => ~Live(freechain)
    BY <1>1, <2>1 DEF StructInv, ChainsPure
  <2>3. Live(d) /\ Live(o)
    BY <1>0, <1>1 DEF Live, StructInv, Inserting
  <2>4. ASSUME NEW e \in Entry, next'[e] # None PROVE Live(e)' <=> Live(next[e])'
    <3>1. CASE e = o BY <1>2, <1>3, <2>2, <2>3, <2>4, <3>1 DEF TypeInv, TypeOK
    <3>2. CASE e = d BY <1>2, <1>3, <2>3, <3>2
    <3>3. CASE e \notin {o, d} BY <1>2, <1>3, <2>2, <2>4, <3>3 DEF TypeInv, TypeOK
    <3> QED BY <3>1, <3>2, <3>3
  <2> QED BY <1>2, <1>3, <2>2, <2>4 DEF ChainsPure, TypeInv, TypeOK
<1>8. Allocated'
  <2>1. o[1] \in 1 .. slabs BY <1>0, <1>1 DEF StructInv, Allocated
  <2>2. o[1] \in Int /\ d[1] \in Int /\ slabs \in Int /\ ~(d[1] > slabs)
    BY <1>1, EntryPair DEF StructInv, Allocated, TypeInv, TypeOK
  <2>3. ASSUME NEW e \in Entry, next'[e] # None PROVE next'[e][1] \in 1 .. slabs
    <3>1. CASE e = o BY <1>1, <1>2, <2>3, <3>1 DEF StructInv, Allocated
    <3>2. CASE e = d BY <1>2, <2>1, <3>2 DEF StructInv, Allocated
    <3>3. CASE e \notin {o, d} BY <1>2, <2>3, <3>3 DEF StructInv, Allocated
    <3> QED BY <3>1, <3>2, <3>3
  <2>4. \A e \in Entry : e[1] > slabs => ~occupied[e] /\ next'[e] = None
    BY <1>2, <2>1, <2>2 DEF StructInv, Allocated
  <2>5. \A u \in Threads : pc'[u] \in {"ins_fill", "ins_link"} => ohte[u][1] \in 1 .. slabs
    BY <1>2 DEF StructInv, Allocated
  <2>6. freechain # None => freechain[1] \in 1 .. slabs BY DEF StructInv, Allocated
  <2> QED BY <1>2, <2>6, <2>3, <2>4, <2>5 DEF Allocated
<1>9. Neighbours'
  <2>1. ASSUME NEW u \in Threads, u # t PROVE Neighbours!(u)'
    <3>1. phte[u] \in Holding(u) => phte[u] # d BY <1>4, <2>1
    <3>2. pc[u] \in {"find_cmp", "find_next", "del_case", "del_copy", "del_lockfree",
        "del_unlink"} => phte[u] # o
      BY <1>0, <1>1 DEF StructInv, Inserting
    <3> QED BY <2>1, <1>2, <3>1, <3>2 DEF StructInv, Neighbours, Holding, TypeInv, TypeOK, PlaceOK
  <2>2. Neighbours!(t)'
    BY <1>2 DEF StructInv, Neighbours
  <2> QED BY <2>1, <2>2 DEF Neighbours
<1>10. Inserting'
  <2>1. ASSUME NEW u \in Threads, u # t PROVE Inserting!(u)'
    <3>1. pc[u] \in {"ins_fill", "ins_link"} => ohte[u] # o /\ ohte[u] # d
      BY <1>0, <1>1, <2>1 DEF StructInv, DisjointChains
    <3> QED BY <1>1, <1>2, <2>1, <3>1 DEF StructInv, Inserting, InsertLabels, TypeInv, PlaceOK
  <2>2. Inserting!(t)'
    BY <1>2 DEF Inserting, InsertLabels
  <2> QED BY <2>1, <2>2 DEF Inserting
<1> QED BY <1>5, <1>6, <1>7, <1>8, <1>9, <1>10 DEF StructInv

\* A new slab becomes the free chain.
LEMMA StructInsertRefill ==
  ASSUME TypeInv, LockInv, StructInv, NoLoop, NEW t \in Threads, InsertRefill(t)
  PROVE  StructInv'
<1> USE NoneAssumption
<1>0. PICK s \in 1 .. MaxSlabs : s = slabs + 1
  BY SizeAssumption DEF InsertRefill, TypeInv, TypeOK
<1>1. /\ pc[t] = "ins_take" /\ freechain = None /\ slabs \in Nat
      /\ \A e \in Entry : e[1] = s => ~occupied[e] /\ next[e] = None
      /\ \A e \in Entry : next[e] # None => next[e][1] # s
  BY <1>0, EntryPair DEF InsertRefill, TypeInv, TypeOK, StructInv, Allocated
<1>2. /\ \A e \in Entry : e[1] # s => next'[e] = next[e]
      /\ \A e \in Entry : e[1] = s /\ e[2] < NumEnts - 1 => next'[e] = <<s,
          e[2] + 1>> /\ next'[e] \in Entry
      /\ \A e \in Entry : e[1] = s /\ ~(e[2] < NumEnts - 1) => next'[e] = None
      /\ freechain' = <<s, 0>> /\ occupied' = occupied /\ slabs' = s
      /\ pc' = pc /\ phte' = phte /\ pphte' = pphte /\ dhte' = dhte /\ ohte' = ohte
  BY <1>0, <1>1, EntryPair, SizeAssumption DEF InsertRefill, locals, Entry
<1>3. /\ \A e \in Entry : Live(e)' <=> Live(e)
      /\ \A e \in Entry : e[1] = s => ~Live(e)
  <2>1. \A e \in Entry : Unlinking(e)' <=> Unlinking(e) BY <1>2 DEF Unlinking
  <2>2. \A e \in Entry : e[1] = s => ~Unlinking(e)
    BY <1>1 DEF Unlinking, StructInv, Neighbours, TypeInv, PlaceOK
  <2> QED BY <1>0, <1>1, <1>2, <2>1, <2>2, EntryPair DEF Live
<1>4. /\ \A e \in Entry : next'[e] # None => next'[e] \in Entry /\ (next'[e][1] = s <=> e[1] = s)
      /\ <<s, 0>> \in Entry /\ <<s, 0>>[1] = s
  <2>1. \A e \in Entry : next[e] # None => next[e] \in Entry BY DEF TypeInv, TypeOK
  <2> QED BY <1>0, <1>1, <1>2, <2>1, SizeAssumption DEF Entry
<1>5. DisjointChains'
  <2>1. ASSUME NEW x \in Entry, NEW y \in Entry, next'[x] = next'[y], next'[x] # None PROVE x = y
    <3>1. CASE x[1] = s
      <4>1. y[1] = s BY <1>4, <2>1, <3>1
      <4>2. <<s, x[2] + 1>> = <<s, y[2] + 1>> BY <1>2, <2>1, <3>1, <4>1
      <4> QED BY <3>1, <4>1, <4>2, EntryPair
    <3>2. CASE x[1] # s
      <4>1. y[1] # s BY <1>4, <2>1, <3>2
      <4> QED BY <1>2, <2>1, <3>2, <4>1 DEF StructInv, DisjointChains
    <3> QED BY <3>1, <3>2
  <2>2. ASSUME NEW e \in Entry PROVE next'[e] \notin Table \cup {<<s, 0>>}
    <3>1. CASE e[1] = s /\ e[2] < NumEnts - 1
      <4>1. next'[e] = <<s, e[2] + 1>> /\ e[2] \in Nat /\ next'[e] \in Entry BY <1>2, <3>1,
          EntryPair
      <4>2. next'[e][1] # 0 /\ next'[e][2] # 0 BY <1>0, <4>1
      <4> QED BY <4>1, <4>2, EntryPair
    <3>3. CASE e[1] = s /\ ~(e[2] < NumEnts - 1) BY <1>2, <1>4, <3>3, TableInEntry
    <3>2. CASE e[1] # s BY <1>1, <1>2, <1>4, <3>2 DEF StructInv, DisjointChains
    <3> QED BY <3>1, <3>2, <3>3
  <2>3. <<s, 0>> \notin Table BY <1>0, <1>4, EntryPair
  <2>4. ASSUME NEW u \in Threads, pc[u] \in {"ins_fill", "ins_link"}
        PROVE  /\ ohte[u] # <<s, 0>>
               /\ \A e \in Entry : next'[e] # ohte[u]
    <3>1. ohte[u][1] # s /\ ohte[u] # None BY <1>0, <1>1, <2>4 DEF StructInv, Allocated,
        DisjointChains
    <3> QED BY <1>2, <1>4, <2>4, <3>1 DEF StructInv, DisjointChains
  <2> QED BY <1>2, <2>1, <2>2, <2>3, <2>4 DEF StructInv, DisjointChains
<1>6. EmptyEntries'
  <2>1. \A e \in Table : e[1] # s BY <1>0, TableInEntry, EntryPair
  <2> QED BY <1>1, <1>2, <1>4, <2>1, TableInEntry DEF StructInv, EmptyEntries
<1>7. ChainsPure'
  <2>1. \A u \in Threads : pc[u] # "fault" BY <1>1 DEF TypeInv, PlaceOK
  <2>2. \A e \in Entry : next[e] # None => (Live(e) <=> Live(next[e]))
    BY <1>1, <2>1 DEF StructInv, ChainsPure
  <2>3. ASSUME NEW e \in Entry, next'[e] # None PROVE Live(e)' <=> Live(next[e])'
    <3>1. CASE e[1] = s BY <1>3, <1>4, <2>3, <3>1
    <3>2. CASE e[1] # s BY <1>2, <1>3, <1>4, <2>2, <2>3, <3>2
    <3> QED BY <3>1, <3>2
  <2> QED BY <1>2, <1>3, <1>4, <2>3 DEF ChainsPure
<1>8. Allocated'
  <2>1. ASSUME NEW e \in Entry, next'[e] # None PROVE next'[e][1] \in 1 .. s
    <3>1. CASE e[1] = s BY <1>0, <1>4, <2>1, <3>1
    <3>2. CASE e[1] # s BY <1>0, <1>1, <1>2, <2>1, <3>2 DEF StructInv, Allocated
    <3> QED BY <3>1, <3>2
  <2>2. \A e \in Entry : e[1] > s => ~occupied[e] /\ next'[e] = None
    BY <1>0, <1>1, <1>2, EntryPair DEF StructInv, Allocated
  <2>3. \A u \in Threads : pc[u] \in {"ins_fill", "ins_link"} => ohte[u][1] \in 1 .. s
    BY <1>0, <1>1 DEF StructInv, Allocated
  <2> QED BY <1>0, <1>2, <1>4, <2>1, <2>2, <2>3 DEF Allocated
<1>9. Neighbours'
  <2>1. \A e \in Entry : next[e] # None => next'[e] = next[e] BY <1>1, <1>2
  <2> QED BY <1>2, <2>1 DEF StructInv, Neighbours, TypeInv, TypeOK, PlaceOK, DeleteLabels,
      FindLabels
<1>10. Inserting'
  <2>1. \A u \in Threads : pc[u] \in {"ins_fill", "ins_link"} => ohte[u] \in Entry /\ ohte[u][1] # s
    BY <1>0, <1>1 DEF StructInv, Allocated, TypeInv, PlaceOK
  <2> QED BY <1>2, <2>1 DEF StructInv, Inserting
<1> QED BY <1>5, <1>6, <1>7, <1>8, <1>9, <1>10 DEF StructInv

\* A search preserves the shape of the chains.
LEMMA StructFind ==
  ASSUME TypeInv, LockInv, StructInv, NoLoop, NEW t \in Threads, Find(t) \/ LocateRead(t)
  PROVE  StructInv'
<1> USE NoneAssumption DEF TypeInv, TypeOK, PlaceOK, FindLabels, InsertLabels, DeleteLabels,
    StructInv, DisjointChains, EmptyEntries, ChainsPure, Allocated, Neighbours, Inserting,
    Goto, Return, heap, locks, args, locals
<1>1. CASE FindBase(t)
  <2>1. \A e \in Entry : Live(e)' <=> Live(e)
    BY <1>1 DEF Live, Unlinking, FindBase, LockEntry
  <2> QED BY <1>1, <2>1 DEF Live, FindBase, LockEntry
<1>2. CASE FindRefused(t)
  <2>1. \A e \in Entry : Live(e)' <=> Live(e)
    BY <1>2 DEF Live, Unlinking, FindRefused, FindFails, UnlockEntries, UnlockTable
  <2> QED BY <1>2, <2>1 DEF Live, FindRefused, FindFails, UnlockEntries, UnlockTable
<1>3. CASE FindEmpty(t)
  <2>1. \A e \in Entry : Live(e)' <=> Live(e)
    BY <1>3 DEF Live, Unlinking, FindEmpty, FindFails, UnlockEntries, UnlockTable
  <2> QED BY <1>3, <2>1 DEF Live, FindEmpty, FindFails, UnlockEntries, UnlockTable
<1>4. CASE FindEnd(t)
  <2>1. \A e \in Entry : Live(e)' <=> Live(e)
    BY <1>4 DEF Live, Unlinking, FindEnd, Probing, FindFails, UnlockEntries, UnlockTable
  <2> QED BY <1>4, <2>1 DEF Live, FindEnd, Probing, FindFails, UnlockEntries, UnlockTable
<1>5. CASE FindAdvance(t)
  <2>1. \A e \in Entry : Live(e)' <=> Live(e)
    BY <1>5 DEF Live, Unlinking, FindAdvance, Probing
  <2>2. Neighbours'
    BY <1>5 DEF FindAdvance, Probing, NoLoop
  <2>3. Inserting'
    <3>1. \A u \in Threads : pc[u] \in {"ins_fill", "ins_link"} => ohte[u] # dhte[t]
      BY <1>5 DEF FindAdvance, Probing
    <3> QED BY <1>5, <3>1 DEF FindAdvance, Probing
  <2> QED BY <1>5, <2>1, <2>2, <2>3 DEF FindAdvance, Probing
<1>6. CASE FindNext(t)
  <2>1. \A e \in Entry : Live(e)' <=> Live(e)
    BY <1>6 DEF Live, Unlinking, FindNext
  <2>2. occupied[dhte[t]]
    <3>1. Live(phte[t]) BY <1>6 DEF Live, FindNext
    <3>2. Live(dhte[t]) BY <1>6, <3>1 DEF FindNext
    <3> QED BY <1>6, <3>2, GrantedLinked DEF Live, FindNext
  <2>3. Neighbours'
    BY <1>6, <2>2 DEF FindNext
  <2> QED BY <1>6, <2>1, <2>3 DEF FindNext
<1>7. CASE FindMatch(t)
  <2>1. \A e \in Entry : Live(e)' <=> Live(e)
    BY <1>7 DEF Live, Unlinking, FindMatch, Probing, UnlockEntries, UnlockTable
  <2> QED BY <1>7, <2>1 DEF Live, FindMatch, Probing, UnlockEntries, UnlockTable
<1>8. CASE LocateRead(t)
  <2>1. \A e \in Entry : Live(e)' <=> Live(e)
    BY <1>8 DEF Live, Unlinking, LocateRead, UnlockEntries
  <2> QED BY <1>8, <2>1 DEF Live, LocateRead, UnlockEntries
<1> QED BY <1>1, <1>2, <1>3, <1>4, <1>5, <1>6, <1>7, <1>8 DEF Find

\* So does an insertion.
LEMMA StructInsert ==
  ASSUME TypeInv, LockInv, StructInv, NoLoop, NEW t \in Threads, Insert(t)
  PROVE  StructInv'
<1> USE NoneAssumption DEF TypeInv, TypeOK, PlaceOK, FindLabels, InsertLabels, DeleteLabels,
    StructInv, DisjointChains, EmptyEntries, ChainsPure, Allocated, Neighbours, Inserting,
    Goto, Return, heap, locks, args, locals
<1>1. CASE InsertBase(t)
  <2>1. \A e \in Entry : Live(e)' <=> Live(e)
    BY <1>1 DEF Live, Unlinking, InsertBase, LockEntry, UnlockTable
  <2> QED BY <1>1, <2>1, BucketInTable DEF InsertBase, LockEntry, UnlockTable
<1>2. CASE InsertRefused(t)
  <2>1. \A e \in Entry : Live(e)' <=> Live(e)
    BY <1>2 DEF Live, Unlinking, InsertRefused, UnlockTable
  <2> QED BY <1>2, <2>1 DEF Live, InsertRefused, UnlockTable
<1>3. CASE InsertInTable(t)
  <2>1. \A e \in Entry : Live(e)' <=> Live(e)
    BY <1>3 DEF Live, Unlinking, InsertInTable, UnlockEntries
  <2>2. dhte[t] \in Table /\ dhte[t] \in Entry /\ ~(dhte[t][1] > slabs)
    BY <1>3, EntryPair DEF InsertInTable
  <2>3. \A e \in Entry : occupied'[e] <=> occupied[e] \/ e = dhte[t]
    BY <1>3, <2>2 DEF InsertInTable
  <2>4. EmptyEntries'
    BY <1>3, <2>2, <2>3, TableInEntry DEF InsertInTable
  <2>5. Allocated'
    BY <1>3, <2>2, <2>3 DEF InsertInTable
  <2>6. Neighbours'
    <3>1. \A u \in Threads : pc[u] \in {"del_lockfree", "del_unlink"} => dhte[u] # dhte[t]
      BY <2>2
    <3> QED BY <1>3, <2>3, <3>1 DEF InsertInTable
  <2>7. DisjointChains' /\ ChainsPure' /\ Inserting'
    BY <1>3, <2>1, <2>2, <2>3 DEF InsertInTable
  <2> QED BY <2>4, <2>5, <2>6, <2>7
<1>4. CASE InsertOccupied(t)
  <2>1. \A e \in Entry : Live(e)' <=> Live(e)
    BY <1>4 DEF Live, Unlinking, InsertOccupied
  <2> QED BY <1>4, <2>1 DEF Live, InsertOccupied
<1>5. CASE InsertDuplicate(t)
  <2>1. \A e \in Entry : Live(e)' <=> Live(e)
    BY <1>5 DEF Live, Unlinking, InsertDuplicate, UnlockEntries
  <2> QED BY <1>5, <2>1 DEF Live, InsertDuplicate, UnlockEntries
<1>6. CASE InsertDiffers(t)
  <2>1. \A e \in Entry : Live(e)' <=> Live(e)
    BY <1>6 DEF Live, Unlinking, InsertDiffers
  <2> QED BY <1>6, <2>1 DEF Live, InsertDiffers
<1>7. CASE InsertFault(t)
  BY <1>7 DEF InsertFault
<1>8. CASE InsertNext(t)
  <2>1. \A e \in Entry : Live(e)' <=> Live(e)
    BY <1>8 DEF Live, Unlinking, InsertNext
  <2> QED BY <1>8, <2>1 DEF Live, InsertNext
<1>9. CASE InsertLockFree(t)
  <2>1. \A e \in Entry : Live(e)' <=> Live(e)
    BY <1>9 DEF Live, Unlinking, InsertLockFree, LockFree
  <2> QED BY <1>9, <2>1 DEF Live, InsertLockFree, LockFree
<1>10. CASE InsertRefill(t)
  BY <1>10, StructInsertRefill
<1>11. CASE InsertNoMemory(t)
  <2>1. \A e \in Entry : Live(e)' <=> Live(e)
    BY <1>11 DEF Live, Unlinking, InsertNoMemory, UnlockEntries
  <2> QED BY <1>11, <2>1 DEF Live, InsertNoMemory, UnlockEntries
<1>12. CASE InsertTake(t)
  BY <1>12, StructInsertTake
<1>13. CASE InsertFill(t)
  <2>0. PICK o \in Entry : o = ohte[t] BY <1>13 DEF InsertFill
  <2>1. \A e \in Entry : occupied'[e] <=> occupied[e] \/ e = o
    BY <1>13, <2>0 DEF InsertFill
  <2>2. /\ o \notin Table /\ o # freechain /\ next[o] = None
        /\ \A e \in Entry : next[e] # o
        /\ \A u \in Threads \ {t} : pc[u] \in {"ins_fill", "ins_link"} => ohte[u] # o
        /\ o[1] \in 1 .. slabs /\ slabs \in Nat
    BY <1>13, <2>0 DEF InsertFill
  <2>3. DisjointChains'
    BY <1>13 DEF InsertFill
  <2>4. EmptyEntries'
    BY <1>13, <2>1, <2>2, TableInEntry DEF InsertFill
  <2>5. \A e \in Entry \ {o} : Live(e)' <=> Live(e)
    BY <1>13, <2>1 DEF Live, Unlinking, InsertFill
  <2>6. ChainsPure'
    BY <1>13, <2>2, <2>5 DEF InsertFill
  <2>7. Allocated'
    BY <1>13, <2>1, <2>2 DEF InsertFill
  <2>8. Neighbours'
    BY <1>13, <2>1, <2>2 DEF InsertFill
  <2>9. Inserting'
    BY <1>13, <2>0, <2>1, <2>2 DEF InsertFill
  <2> QED BY <2>3, <2>4, <2>6, <2>7, <2>8, <2>9
<1>14. CASE InsertLink(t)
  BY <1>14, StructInsertLink
<1> QED BY <1>1, <1>2, <1>3, <1>4, <1>5, <1>6, <1>7, <1>8, <1>9, <1>10, <1>11, <1>12, <1>13,
    <1>14 DEF Insert

\* So does a deletion.
LEMMA StructDelete ==
  ASSUME TypeInv, LockInv, StructInv, NoLoop, NEW t \in Threads, Delete(t)
  PROVE  StructInv'
<1> USE NoneAssumption DEF TypeInv, TypeOK, PlaceOK, FindLabels, InsertLabels, DeleteLabels,
    StructInv, DisjointChains, EmptyEntries, ChainsPure, Allocated, Neighbours, Inserting,
    Goto, Return, heap, locks, args, locals
<1>1. CASE DeleteLone(t)
  <2>1. \A e \in Entry : Live(e)' <=> Live(e)
    BY <1>1 DEF Live, Unlinking, DeleteLone
  <2>2. dhte[t] \in Table /\ next[dhte[t]] = None /\ dhte[t] \in Entry
    BY <1>1 DEF DeleteLone
  <2>3. \A e \in Entry : occupied'[e] <=> occupied[e] /\ e # dhte[t]
    BY <1>1, <2>2 DEF DeleteLone
  <2>4. \A u \in Threads \ {t} : dhte[t] \notin Holding(u)
    <3>1. dhte[t] \in Holding(t) /\ ~Reads(t) BY <1>1 DEF DeleteLone, Holding, Reads
    <3> QED BY <2>2, <3>1, WriterAlone
  <2>5. DisjointChains' /\ ChainsPure'
    BY <1>1, <2>1 DEF DeleteLone
  <2>6. EmptyEntries' /\ Allocated'
    BY <1>1, <2>2, <2>3, TableInEntry DEF DeleteLone
  <2>7. Neighbours'
    <3>1. ASSUME NEW u \in Threads, u # t PROVE Neighbours!(u)'
      <4>1. \A x \in {phte[u], dhte[u]} : x \in Holding(u) => x # dhte[t] BY <2>4, <3>1
      <4> QED BY <1>1, <2>3, <3>1, <4>1 DEF DeleteLone, Holding
    <3> QED BY <1>1, <3>1 DEF DeleteLone
  <2>8. Inserting'
    <3>1. ASSUME NEW u \in Threads, u # t PROVE Inserting!(u)'
      <4>1. dhte[u] \in Holding(u) => dhte[u] # dhte[t] BY <2>4, <3>1
      <4>2. pc[u] \in {"ins_fill", "ins_link"} => ohte[u] # dhte[t] BY <2>2
      <4> QED BY <1>1, <2>3, <3>1, <4>1, <4>2 DEF DeleteLone, Holding
    <3> QED BY <1>1, <3>1 DEF DeleteLone
  <2> QED BY <2>5, <2>6, <2>7, <2>8
<1>2. CASE DeleteHead(t)
  <2>1. \A e \in Entry : Live(e)' <=> Live(e)
    BY <1>2 DEF Live, Unlinking, DeleteHead
  <2> QED BY <1>2, <2>1 DEF Live, DeleteHead
<1>3. CASE DeleteCopy(t)
  BY <1>3, StructDeleteCopy
<1>4. CASE DeleteChained(t)
  BY <1>4, StructDeleteChained
<1>5. CASE DeleteLockFree(t)
  <2>1. \A e \in Entry : Live(e)' <=> Live(e)
    BY <1>5 DEF Live, Unlinking, DeleteLockFree, LockFree
  <2> QED BY <1>5, <2>1 DEF Live, DeleteLockFree, LockFree
<1>6. CASE DeleteUnlink(t)
  BY <1>6, StructDeleteUnlink
<1>7. CASE DeleteUnlock(t)
  <2>1. \A e \in Entry : Live(e)' <=> Live(e)
    BY <1>7 DEF Live, Unlinking, DeleteUnlock, UnlockEntries
  <2> QED BY <1>7, <2>1 DEF Live, DeleteUnlock, UnlockEntries
<1>8. CASE DeleteReturn(t)
  <2>1. \A e \in Entry : Live(e)' <=> Live(e)
    BY <1>8 DEF Live, Unlinking, DeleteReturn
  <2> QED BY <1>8, <2>1 DEF Live, DeleteReturn
<1> QED BY <1>1, <1>2, <1>3, <1>4, <1>5, <1>6, <1>7, <1>8 DEF Delete

-----------------------------------------------------------------------------
(* Chains end.                                                             *)

\* Linking an entry behind its bucket's head makes no loop.
LEMMA AcyclicLink ==
  ASSUME TypeInv, StructInv, Acyclic, NEW t \in Threads, InsertLink(t)
  PROVE  Acyclic'
<1> USE NoneAssumption
<1>0. PICK d \in Entry, o \in Entry : d = dhte[t] /\ o = ohte[t]
  BY DEF InsertLink, TypeInv, PlaceOK, InsertLabels
<1>1. d # o /\ \A e \in Entry : next[e] # o /\ next[e] # d
  BY <1>0 DEF InsertLink, TypeInv, PlaceOK, InsertLabels, StructInv, DisjointChains, Inserting
<1>2. next'[o] = next[d] /\ next'[d] = o /\ \A e \in Entry \ {d, o} : next'[e] = next[e]
  BY <1>0, <1>1 DEF InsertLink, TypeInv, TypeOK
<1>3. PICK rank \in [Entry -> Nat] : \A x \in Entry : next[x] # None => rank[next[x]] < rank[x]
  BY DEF Acyclic
<1> DEFINE r == [rank EXCEPT ![o] = rank[d], ![d] = rank[d] + 1]
<1>4. r \in [Entry -> Nat] BY <1>3
<1>5. ASSUME NEW e \in Entry, next'[e] # None PROVE r[next'[e]] < r[e]
  <2>0. next[e] \in Entry \cup {None} /\ next[d] \in Entry \cup {None} BY DEF TypeInv, TypeOK
  <2>1. CASE e = o BY <1>1, <1>2, <1>3, <1>5, <2>0, <2>1
  <2>2. CASE e = d BY <1>1, <1>2, <1>3, <1>5, <2>2
  <2>3. CASE e \notin {d, o} BY <1>1, <1>2, <1>3, <1>5, <2>0, <2>3
  <2> QED BY <2>1, <2>2, <2>3
<1> QED BY <1>4, <1>5 DEF Acyclic

\* Moving an entry to the free chain makes no loop.
LEMMA AcyclicUnlink ==
  ASSUME TypeInv, LockInv, StructInv, Acyclic, NEW t \in Threads, DeleteUnlink(t)
  PROVE  Acyclic'
<1> USE NoneAssumption
<1>0. PICK p \in Entry, d \in Entry : p = phte[t] /\ d = dhte[t]
  BY DEF DeleteUnlink, Goto, TypeInv, PlaceOK, DeleteLabels
<1>1. /\ p # d /\ next[p] = d /\ freechain # d
      /\ \A e \in Entry : next[e] = d => e = p
  BY <1>0, AcyclicNoLoop DEF DeleteUnlink, Goto, StructInv, DisjointChains, Neighbours, NoLoop
<1>2. next'[p] = next[d] /\ next'[d] = freechain /\ \A e \in Entry \ {p, d} : next'[e] = next[e]
  BY <1>0, <1>1 DEF DeleteUnlink, TypeInv, TypeOK
<1>3. PICK rank \in [Entry -> Nat] : \A x \in Entry : next[x] # None => rank[next[x]] < rank[x]
  BY DEF Acyclic
<1>4. next[d] # None => next[d] \in Entry /\ next[d] # d /\ rank[next[d]] < rank[d] /\ rank[d] < rank[p]
  BY <1>1, <1>3, AcyclicNoLoop DEF TypeInv, TypeOK, NoLoop
<1> DEFINE r == [rank EXCEPT ![d] = IF freechain = None THEN 0 ELSE rank[freechain] + 1]
<1>5. freechain \in Entry \cup {None} BY DEF TypeInv, TypeOK
<1>6. r \in [Entry -> Nat] BY <1>3, <1>5
<1>7. ASSUME NEW e \in Entry, next'[e] # None PROVE r[next'[e]] < r[e]
  <2>0. next[e] \in Entry \cup {None} BY DEF TypeInv, TypeOK
  <2>1. CASE e = p BY <1>1, <1>2, <1>3, <1>4, <1>7, <2>1
  <2>2. CASE e = d BY <1>1, <1>2, <1>3, <1>5, <1>7, <2>2
  <2>3. CASE e \notin {p, d} BY <1>1, <1>2, <1>3, <1>7, <2>0, <2>3
  <2> QED BY <2>1, <2>2, <2>3
<1> QED BY <1>6, <1>7 DEF Acyclic

\* Nor does a new slab.
LEMMA AcyclicRefill ==
  ASSUME TypeInv, StructInv, Acyclic, NEW t \in Threads, InsertRefill(t)
  PROVE  Acyclic'
<1> USE NoneAssumption
<1>0. PICK s \in 1 .. MaxSlabs : s = slabs + 1
  BY SizeAssumption DEF InsertRefill, TypeInv, TypeOK
<1>1. freechain = None /\ \A e \in Entry : next[e] # None => next[e][1] # s
  BY <1>0 DEF InsertRefill, TypeInv, TypeOK, StructInv, Allocated
<1>2. /\ \A e \in Entry : e[1] # s => next'[e] = next[e]
      /\ \A e \in Entry : e[1] = s /\ e[2] < NumEnts - 1 => next'[e] = <<s,
          e[2] + 1>> /\ next'[e] \in Entry
      /\ \A e \in Entry : e[1] = s /\ ~(e[2] < NumEnts - 1) => next'[e] = None
  BY <1>0, <1>1, EntryPair, SizeAssumption DEF InsertRefill, Entry
<1>3. PICK rank \in [Entry -> Nat] : \A x \in Entry : next[x] # None => rank[next[x]] < rank[x]
  BY DEF Acyclic
<1> DEFINE r == [e \in Entry |-> IF e[1] = s THEN NumEnts - e[2] ELSE rank[e]]
<1>4. r \in [Entry -> Nat]
  <2>1. \A e \in Entry : NumEnts - e[2] \in Nat BY EntryPair, SizeAssumption
  <2> QED BY <1>3, <2>1
<1>5. ASSUME NEW e \in Entry, next'[e] # None PROVE r[next'[e]] < r[e]
  <2>1. CASE e[1] = s
    <3>1. next'[e] = <<s, e[2] + 1>> /\ next'[e] \in Entry BY <1>2, <1>5, <2>1
    <3>2. r[next'[e]] = NumEnts - (e[2] + 1) BY <3>1
    <3> QED BY <2>1, <3>2, EntryPair, SizeAssumption
  <2>2. CASE e[1] # s
    <3>1. next[e] \in Entry /\ next[e][1] # s BY <1>1, <1>2, <1>5, <2>2 DEF TypeInv, TypeOK
    <3> QED BY <1>2, <1>3, <1>5, <2>2, <3>1
  <2> QED BY <2>1, <2>2
<1> QED BY <1>4, <1>5 DEF Acyclic

\* Nor does taking an entry from the free chain.
LEMMA AcyclicTake ==
  ASSUME TypeInv, Acyclic, NEW t \in Threads, InsertTake(t)
  PROVE  Acyclic'
<1>1. \A e \in Entry : next'[e] \in {next[e], None}
  BY NoneAssumption DEF InsertTake, TypeInv, TypeOK
<1>2. PICK rank \in [Entry -> Nat] : \A x \in Entry : next[x] # None => rank[next[x]] < rank[x]
  BY DEF Acyclic
<1>3. \A e \in Entry : next'[e] # None => rank[next'[e]] < rank[e]
  BY <1>1, <1>2
<1> QED BY <1>2, <1>3 DEF Acyclic

\* No step makes a loop.
LEMMA AcyclicNext ==
  ASSUME IInv, Acyclic, [Next]_vars
  PROVE  Acyclic'
<1>1. CASE next' = next BY <1>1 DEF Acyclic
<1>2. ASSUME NEW t \in Threads, Call(t) \/ LockTable(t) \/ Find(t) \/ LocateRead(t)
      PROVE  next' = next
  BY <1>2 DEF Call, LockTable, Find, FindBase, FindRefused, FindEmpty, FindEnd, FindAdvance,
     FindNext, FindMatch, FindFails, LocateRead, heap
<1>3. ASSUME NEW t \in Threads, Insert(t) PROVE Acyclic'
  <2>1. \/ next' = next
        \/ InsertRefill(t) \/ InsertTake(t) \/ InsertLink(t)
    BY <1>3 DEF Insert, InsertBase, InsertRefused, InsertInTable, InsertOccupied, InsertDuplicate,
       InsertDiffers, InsertFault, InsertNext, InsertLockFree, LockFree, InsertNoMemory,
           InsertFill, heap
  <2> QED BY <1>1, <2>1, AcyclicRefill, AcyclicTake, AcyclicLink DEF IInv
<1>4. ASSUME NEW t \in Threads, Delete(t) PROVE Acyclic'
  <2>1. next' = next \/ DeleteUnlink(t)
    BY <1>4 DEF Delete, DeleteLone, DeleteHead, DeleteCopy, DeleteChained, DeleteLockFree, LockFree,
       DeleteUnlock, DeleteReturn, heap
  <2> QED BY <1>1, <2>1, AcyclicUnlink DEF IInv
<1> QED BY <1>1, <1>2, <1>3, <1>4 DEF Next, Step, vars, heap

-----------------------------------------------------------------------------
(* The invariant, and what follows from it.                                *)

\* The invariant holds of a new table.
LEMMA IInvInit == Init => IInv /\ Acyclic
<1> SUFFICES ASSUME Init PROVE IInv /\ Acyclic
  OBVIOUS
<1> USE NoneAssumption DEF Init
<1>1. LockInv
  BY DEF LockInv, LocksHeld, LocksExplained, Holding
<1>2. StructInv
  BY TableInEntry DEF StructInv, DisjointChains, EmptyEntries, ChainsPure, Allocated, Neighbours,
      Inserting, InsertLabels
<1>3. Acyclic
  <2>1. [e \in Entry |-> 0] \in [Entry -> Nat] OBVIOUS
  <2> QED BY <2>1 DEF Acyclic
<1> QED BY <1>1, <1>2, <1>3, TypeInit DEF IInv

\* Every step preserves the invariant.
LEMMA IInvNext == IInv /\ Acyclic /\ [Next]_vars => (IInv /\ Acyclic)'
<1> SUFFICES ASSUME IInv, Acyclic, [Next]_vars PROVE (IInv /\ Acyclic)'
  OBVIOUS
<1> USE DEF IInv
<1>1. NoLoop BY AcyclicNoLoop
<1>2. TypeInv' /\ Acyclic' BY TypeNext, AcyclicNext
<1>3. CASE UNCHANGED vars
  BY <1>2, <1>3 DEF vars, heap, locks, args, locals, LockInv, LocksHeld, LocksExplained, Holding,
      Reads,
     StructInv, DisjointChains, EmptyEntries, ChainsPure, Live, Unlinking, Allocated, Neighbours,
         Inserting
<1>4. ASSUME NEW t \in Threads, Call(t) \/ LockTable(t) PROVE LockInv' /\ StructInv'
  <2> USE <1>4, NoneAssumption DEF Call, LockTable, Goto, TypeInv, TypeOK, PlaceOK, Reads, heap,
      locks, args, locals
  <2>0. pc[t] \in {"idle", "lock_table"} /\ pc'[t] \in {"lock_table", "ins_base", "find_base"}
    OBVIOUS
  <2>1. LockInv'
    <3>1. \A u \in Threads : Holding(u)' = Holding(u)
      <4>1. Holding(t) = {} /\ Holding(t)' = {} BY <2>0 DEF Holding
      <4>2. /\ \A u \in Threads \ {t} : pc'[u] = pc[u]
            /\ phte' = phte /\ dhte' = dhte /\ pphte' = pphte
        OBVIOUS
      <4>3. ASSUME NEW u \in Threads \ {t} PROVE Holding(u)' = Holding(u)
        BY <4>2, <4>3 DEF Holding
      <4> QED BY <4>1, <4>3
    <3>2. \A u \in Threads : Holding(u) # {} => Reads(u)' = Reads(u) BY <2>0 DEF Holding
    <3>3. LocksHeld'
      BY <3>1, <3>2 DEF LockInv, LocksHeld
    <3>4. LocksExplained'
      BY <2>0, <3>1, <3>2 DEF LockInv, LocksExplained, FindLabels
    <3> QED BY <3>3, <3>4 DEF LockInv
  <2>2. \A e \in Entry : Live(e)' <=> Live(e)
    BY DEF Live, Unlinking
  <2>3. StructInv'
    BY <2>2 DEF StructInv, DisjointChains, EmptyEntries, ChainsPure, Allocated, Neighbours,
        Inserting, InsertLabels
  <2> QED BY <2>1, <2>3
<1> QED BY <1>1, <1>2, <1>3, <1>4, LockFind, LockInsert, LockDelete, StructFind, StructInsert,
    StructDelete
    DEF Next, Step

\* IInv is an invariant of the table under any mix of calls.
THEOREM Invariance == Spec => []IInv
BY IInvInit, IInvNext, PTL DEF Spec

\* Write locks exclude, and every thread holds the locks of the entries it
\* works on, so that the releases in ht_locate_entry_, ht_insert_key and
\* ht_delete_key never fail.
THEOREM LocksCorrect == Spec => []LocksHeld
<1>1. IInv => LocksHeld BY DEF IInv, LockInv
<1> QED BY <1>1, Invariance, PTL

\* The buckets' chains and the free chain never share an entry, whatever
\* insertions and deletions overlap.
THEOREM ChainsCorrect == Spec => []DisjointChains
<1>1. IInv => DisjointChains BY DEF IInv, StructInv
<1> QED BY <1>1, Invariance, PTL

\* An empty entry of the table has no chain, so that a search that stops at
\* it has missed nothing; the free chain starts at an empty entry.
THEOREM EmptyCorrect == Spec => []EmptyEntries
<1>1. IInv => EmptyEntries BY DEF IInv, StructInv
<1> QED BY <1>1, Invariance, PTL

\* Without ht_delete_key no call returns with a lock.
THEOREM ReturnUnlocked ==
  ASSUME "delete" \notin Ops
  PROVE  Spec => []NoLocksAtReturn
<1>1. IInv => NoLocksAtReturn
  <2> SUFFICES ASSUME IInv, NEW t \in Threads, pc[t] = "idle"
               PROVE  /\ t \notin tableR /\ tableW # t /\ freeW # t
                      /\ \A e \in Entry : ~Holds(t, e)
    BY DEF NoLocksAtReturn
  <2>1. Holding(t) = {} BY DEF Holding
  <2> QED BY <2>1 DEF IInv, LockInv, LocksExplained, FindLabels, Holds
<1> QED BY <1>1, Invariance, PTL
=============================================================================
