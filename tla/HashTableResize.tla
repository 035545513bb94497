--------------------------- MODULE HashTableResize ---------------------------
(***************************************************************************)
(* ht_resize, ht_sweep and ht_destroy (libhashtable.c) beside threads that *)
(* look up and insert keys.  ht_resize fills a second table from the first *)
(* while searches go on, makes the head of the hash table point to it, and *)
(* destroys the old one after a sweep that locks each of its entries once. *)
(*                                                                         *)
(* A table is an array of chains and its slabs, which are exchanged with   *)
(* it; `table' is ht->table, and `old' lists the tables on the chain of    *)
(* ht->old.  How entries are found and linked under their locks is in      *)
(* module HashTable; here an insertion links its entry in one step.        *)
(* Deletions and the statistics are left out.  What C leaves undefined,    *)
(* a use of freed memory or of an index beyond the table, ends the program.*)
(***************************************************************************)
EXTENDS Integers, Sequences, FiniteSets

CONSTANTS
  Threads, None,
  Keys,       \* positive numbers: what ht_hash_bytes makes of a key's bytes
  Sizes,      \* the sizes that tables are created with
  MaxTables,  \* bound: tables created in all
  MaxCalls    \* bound: calls that the threads make together

\* Tables and entries.
TablesOf(n) == [size : {n}, chain : [0 .. n - 1 -> Seq(Keys \cup {None})]]
Entries == (1 .. MaxTables) \X Nat \X (Keys \cup {0})

ASSUME ResizeAssumption ==
  /\ Keys \subseteq Nat \ {0} /\ IsFiniteSet(Keys)
  /\ Sizes \subseteq Nat \ {0}
  /\ MaxTables \in Nat \ {0} /\ MaxCalls \in Nat
  /\ None \notin Keys \cup Threads \cup Nat \cup Entries
  /\ \A n \in Sizes : None \notin TablesOf(n)

VARIABLES
  tables,   \* what malloc gave: [size, chain] by number, None before and after
  made,     \* tables created so far
  table,    \* ht->table, None when the hash table is destroyed
  old,      \* the chain of ht->old, newest first
  tableR,   \* the readers of ht->tablelock
  tableW,   \* its writer, or None
  mutex,    \* the holder of ht->resizemutex, or None
  rd, wr,   \* the pairs <<thread, entry>> that hold an entry's lock
  th,       \* the local state of each thread
  calls,    \* calls made so far
  alive,    \* the program has not met undefined behaviour
  kept      \* history: the keys in the table when the latest resize locked it

locks == <<tableR, tableW, mutex, rd, wr>>
memory == <<tables, made, table, old>>
vars == <<tables, made, table, old, tableR, tableW, mutex, rd, wr, th, calls, alive, kept>>

Live == {a \in 1 .. MaxTables : tables[a] # None}
Elements(s) == {s[i] : i \in DOMAIN s}

\* ht_hash_bytes takes the value modulo the size of a table.
Hash(k, size) == k % size

\* Entry <<a, i, 0>> is entry[i] of table a, and <<a, i, k>> one chained to it
\* that holds k; a chain lists the keys, that of entry[i] first.
Base(a, i) == <<a, i, 0>>
Chain(e) == tables[e[1]].chain[e[2]]
PlaceOf(k, c) == CHOOSE p \in 2 .. Len(c) : c[p] = k
Place(e) == IF e[3] = 0 THEN 1 ELSE PlaceOf(e[3], Chain(e))
KeyOf(e) == Chain(e)[Place(e)]
IsLast(e) == Place(e) >= Len(Chain(e))
NextOf(e) == <<e[1], e[2], Chain(e)[Place(e) + 1]>>

KeysIn(a) == (UNION {Elements(tables[a].chain[i]) : i \in DOMAIN tables[a].chain}) \ {None}

CanRead(e) == \A u \in Threads : <<u, e>> \notin wr
CanWrite(e) == CanRead(e) /\ \A u \in Threads : <<u, e>> \notin rd
NotOf(t, pairs) == {p \in pairs : p[1] # t}

\* ht_create, which may run out of memory elsewhere.
NewTable(size) == [size |-> size, chain |-> [i \in 0 .. size - 1 |-> <<>>]]

\* Linking a key: into the entry itself, or right behind it.
Linked(T, k) ==
  [T EXCEPT !.chain[Hash(k, T.size)] = IF @ = <<>> THEN <<k>> ELSE <<@[1], k>> \o Tail(@)]

Idle == [pc |-> "idle", key |-> None, size |-> 0, index |-> 0, at |-> None, nht |-> None]

\* The chains that linking some keys in some order can make: those keys, each
\* once, in any order.
Orders ==
  {s \in UNION {[1 .. n -> Keys] : n \in 0 .. Cardinality(Keys)} : \A p, q \in DOMAIN s : s[p] = s[q] => p = q}

\* The program has put some keys into a table, and then starts its threads.
Init ==
  /\ \E size \in Sizes : \E chain \in [0 .. size - 1 -> Orders] :
       /\ \A i \in 0 .. size - 1 : \A p \in DOMAIN chain[i] : Hash(chain[i][p], size) = i
       /\ tables = [a \in 1 .. MaxTables |-> IF a > 1 THEN None ELSE [size |-> size, chain |-> chain]]
  /\ made = 1
  /\ table = 1
  /\ old = <<>>
  /\ tableR = {}
  /\ tableW = None
  /\ mutex = None
  /\ rd = {}
  /\ wr = {}
  /\ th = [t \in Threads |-> Idle]
  /\ calls = 0
  /\ alive = TRUE
  /\ kept = {}

---------------------------------------------------------------------------
At(t, pc) == alive /\ th[t].pc = pc
Goto(t, pc) == th' = [th EXCEPT ![t].pc = pc]
Return(t) == th' = [th EXCEPT ![t] = Idle]

Fault ==
  /\ alive' = FALSE
  /\ UNCHANGED <<memory, locks, th, calls, kept>>

Call(t) ==
  /\ At(t, "idle")
  /\ table # None
  /\ calls < MaxCalls
  /\ calls' = calls + 1
  /\ \/ \E k \in Keys, o \in {"locate", "insert"} :
          th' = [th EXCEPT ![t] = [Idle EXCEPT !.pc = o, !.key = k]]
     \/ \E n \in Sizes :
          th' = [th EXCEPT ![t] = [Idle EXCEPT !.pc = "resize", !.size = n]]
  /\ UNCHANGED <<memory, locks, alive, kept>>

\* A thread touches an entry of a table that has been freed meanwhile.
UseFreed(t) ==
  /\ alive
  /\ th[t].pc \in {"base", "walk", "read", "link", "fill"}
  /\ tables[th[t].at[1]] = None
  /\ Fault

Using(t, pc) == At(t, pc) /\ tables[th[t].at[1]] # None

---------------------------------------------------------------------------
(* ht_locate_key: the lock of the hash table is held for reading, as       *)
(* ht_resize holds it, so that ht->table may change between two reads.     *)

\* rw_rdlock, which lets a writer go first that waits already: a thread at
\* `insert' may wait or have yet to ask (Overtakes).  The index is computed for
\* the size of the table in use now...
LocateLock(t) ==
  /\ At(t, "locate")
  /\ tableW = None
  /\ tableR' = tableR \cup {t}
  /\ th' = [th EXCEPT ![t].pc = "index", ![t].index = Hash(th[t].key, tables[table].size)]
  /\ UNCHANGED <<memory, tableW, mutex, rd, wr, calls, alive, kept>>

\* ...and used with the table in use then.
LocateIndex(t) ==
  /\ At(t, "index")
  /\ th[t].index < tables[table].size
  /\ th' = [th EXCEPT ![t].pc = "base", ![t].at = Base(table, th[t].index)]
  /\ UNCHANGED <<memory, locks, calls, alive, kept>>

LocateBeyond(t) ==
  /\ At(t, "index")
  /\ th[t].index >= tables[table].size
  /\ Fault

LocateBase(t) ==
  /\ Using(t, "base")
  /\ CanRead(th[t].at)
  /\ rd' = rd \cup {<<t, th[t].at>>}
  /\ Goto(t, "walk")
  /\ UNCHANGED <<memory, tableR, tableW, mutex, wr, calls, alive, kept>>

LocateNone(t) ==
  /\ Using(t, "walk")
  /\ Chain(th[t].at) # <<>> => KeyOf(th[t].at) # th[t].key /\ IsLast(th[t].at)
  /\ rd' = NotOf(t, rd)
  /\ tableR' = tableR \ {t}
  /\ Return(t)
  /\ UNCHANGED <<memory, tableW, mutex, wr, calls, alive, kept>>

\* Two entries of the chain stay locked.
LocateNext(t) ==
  LET e == th[t].at IN
  /\ Using(t, "walk")
  /\ Chain(e) # <<>>
  /\ KeyOf(e) # th[t].key
  /\ ~IsLast(e)
  /\ CanRead(NextOf(e))
  /\ rd' = NotOf(t, rd) \cup {<<t, e>>, <<t, NextOf(e)>>}
  /\ th' = [th EXCEPT ![t].at = NextOf(e)]
  /\ UNCHANGED <<memory, tableR, tableW, mutex, wr, calls, alive, kept>>

\* The lock of the hash table goes first, that of the entry after its use.
LocateFound(t) ==
  LET e == th[t].at IN
  /\ Using(t, "walk")
  /\ Chain(e) # <<>>
  /\ KeyOf(e) = th[t].key
  /\ rd' = NotOf(t, rd) \cup {<<t, e>>}
  /\ tableR' = tableR \ {t}
  /\ Goto(t, "read")
  /\ UNCHANGED <<memory, tableW, mutex, wr, calls, alive, kept>>

LocateRead(t) ==
  /\ Using(t, "read")
  /\ rd' = NotOf(t, rd)
  /\ Return(t)
  /\ UNCHANGED <<memory, tableR, tableW, mutex, wr, calls, alive, kept>>

Locate(t) ==
  \/ LocateLock(t) \/ LocateIndex(t) \/ LocateBeyond(t) \/ LocateBase(t)
  \/ LocateNone(t) \/ LocateNext(t) \/ LocateFound(t) \/ LocateRead(t)

---------------------------------------------------------------------------
(* ht_insert_key: the hash table is locked for writing until the entry is. *)

InsertLock(t) ==
  /\ At(t, "insert")
  /\ tableW = None /\ tableR = {}
  /\ tableW' = t
  /\ th' = [th EXCEPT ![t].pc = "entry", ![t].at = Base(table, Hash(th[t].key, tables[table].size))]
  /\ UNCHANGED <<memory, tableR, mutex, rd, wr, calls, alive, kept>>

InsertBase(t) ==
  /\ At(t, "entry")
  /\ CanWrite(th[t].at)
  /\ wr' = wr \cup {<<t, th[t].at>>}
  /\ tableW' = None
  /\ Goto(t, "link")
  /\ UNCHANGED <<memory, tableR, mutex, rd, calls, alive, kept>>

\* An empty entry is marked as occupied before it has its key.
InsertMark(t) ==
  LET e == th[t].at IN
  /\ Using(t, "link")
  /\ Chain(e) = <<>>
  /\ tables' = [tables EXCEPT ![e[1]].chain[e[2]] = <<None>>]
  /\ Goto(t, "fill")
  /\ UNCHANGED <<made, table, old, locks, calls, alive, kept>>

Unlock(t) ==
  /\ wr' = wr \ {<<t, th[t].at>>}
  /\ Return(t)
  /\ UNCHANGED <<tableR, tableW, mutex, rd, made, table, old, calls, alive, kept>>

InsertFill(t) ==
  LET e == th[t].at IN
  /\ Using(t, "fill")
  /\ tables' = [tables EXCEPT ![e[1]].chain[e[2]][1] = th[t].key]
  /\ Unlock(t)

InsertExists(t) ==
  /\ Using(t, "link")
  /\ th[t].key \in Elements(Chain(th[t].at))
  /\ UNCHANGED tables
  /\ Unlock(t)

\* Behind an occupied entry, if there is memory for another one.
InsertChained(t) ==
  LET e == th[t].at IN
  /\ Using(t, "link")
  /\ Chain(e) # <<>>
  /\ th[t].key \notin Elements(Chain(e))
  /\ \/ tables' = [tables EXCEPT ![e[1]] = Linked(@, th[t].key)] /\ Unlock(t)
     \/ UNCHANGED tables /\ Unlock(t)

Insert(t) ==
  InsertLock(t) \/ InsertBase(t) \/ InsertMark(t) \/ InsertFill(t) \/ InsertExists(t) \/ InsertChained(t)

---------------------------------------------------------------------------
(* ht_resize.                                                              *)

ResizeMutex(t) ==
  /\ At(t, "resize")
  /\ mutex = None
  /\ mutex' = t
  /\ Goto(t, "lock")
  /\ UNCHANGED <<memory, tableR, tableW, rd, wr, calls, alive, kept>>

\* Read-locked, as by a search.
ResizeLock(t) ==
  /\ At(t, "lock")
  /\ tableW = None
  /\ tableR' = tableR \cup {t}
  /\ kept' = KeysIn(table)
  /\ Goto(t, "create")
  /\ UNCHANGED <<memory, tableW, mutex, rd, wr, calls, alive>>

\* The resize is over before it has changed anything.
GiveUp(t) ==
  /\ tableR' = tableR \ {t}
  /\ mutex' = None
  /\ Return(t)
  /\ UNCHANGED <<tableW, rd, wr, kept>>

\* The new table goes on the chain of old ones, where a failure will find it.
\* The copy starts at the last entry.
ResizeCreate(t) ==
  /\ At(t, "create")
  /\ made < MaxTables
  /\ made' = made + 1
  /\ tables' = [tables EXCEPT ![made + 1] = NewTable(th[t].size)]
  /\ old' = <<made + 1>> \o old
  /\ th' = [th EXCEPT ![t].pc = "copy", ![t].nht = made + 1, ![t].at = Base(table, tables[table].size - 1)]
  /\ UNCHANGED <<table, locks, calls, alive, kept>>

ResizeNoMemory(t) ==
  /\ At(t, "create")
  /\ GiveUp(t)
  /\ UNCHANGED <<memory, calls, alive>>

CopyNext_SkipsChain(e) ==
  IF e[2] > 0 THEN Base(e[1], e[2] - 1) ELSE None

CopyNext_StaysAtEmpty(e) ==
  CASE Chain(e) = <<>> -> e
    [] Chain(e) # <<>> /\ ~IsLast(e) -> NextOf(e)
    [] Chain(e) # <<>> /\ IsLast(e) /\ e[2] > 0 -> Base(e[1], e[2] - 1)
    [] OTHER -> None

\* The entry to copy next: along the chain, then down the table.
CopyNext(e) ==
  CASE ~IsLast(e) -> NextOf(e)
    [] IsLast(e) /\ e[2] > 0 -> Base(e[1], e[2] - 1)
    [] OTHER -> None

\* One entry of the old table, which is not locked, goes into the new one.
ResizeCopy(t) ==
  LET e == th[t].at
      c == th[t].nht
  IN  /\ At(t, "copy")
      /\ e # None
      /\ Chain(e) # <<>> => KeyOf(e) # None
      /\ tables' = IF Chain(e) = <<>> THEN tables
                   ELSE [tables EXCEPT ![c] = Linked(@, KeyOf(e))]
      /\ th' = [th EXCEPT ![t].at = CopyNext(e)]
      /\ UNCHANGED <<made, table, old, locks, calls, alive, kept>>

\* An insertion has marked the entry and not yet given it a key.
ResizeCopyUnfilled(t) ==
  /\ At(t, "copy")
  /\ th[t].at # None
  /\ Chain(th[t].at) # <<>>
  /\ KeyOf(th[t].at) = None
  /\ Fault

\* ht_destroy of a table destroys the older ones on its chain first.
Freed(S) == tables' = [a \in 1 .. MaxTables |-> IF a \in S THEN None ELSE tables[a]]

\* There is no memory for a chained entry of the new table; or, when all are
\* copied, the lock of the free chain is refused.
CannotCopy(t) ==
  LET e == th[t].at
      c == tables[th[t].nht]
  IN  /\ At(t, "copy")
      /\ e # None =>
           /\ Chain(e) # <<>> /\ KeyOf(e) # None
           /\ c.chain[Hash(KeyOf(e), c.size)] # <<>>

ResizeCopyFails(t) ==
  /\ CannotCopy(t)
  /\ Freed(Elements(old))
  /\ old' = <<>>
  /\ GiveUp(t)
  /\ UNCHANGED <<made, table, calls, alive>>

ResizeSwap_SweepsNew(t) ==
  /\ At(t, "copy")
  /\ th[t].at = None
  /\ table' = th[t].nht
  /\ old' = <<table>> \o Tail(old)
  /\ tableR' = tableR \ {t}
  /\ th' = [th EXCEPT ![t].pc = "sweep", ![t].at = Base(th[t].nht, 0)]
  /\ UNCHANGED <<tables, made, tableW, mutex, rd, wr, calls, alive, kept>>

ResizeSwap_KeepsOld(t) ==
  /\ At(t, "copy")
  /\ th[t].at = None
  /\ table' = th[t].nht
  /\ tableR' = tableR \ {t}
  /\ th' = [th EXCEPT ![t].pc = "sweep", ![t].at = Base(table, 0)]
  /\ UNCHANGED <<tables, made, old, tableW, mutex, rd, wr, calls, alive, kept>>

\* The heads exchange their tables: the old one is then first on the chain.
\* Whoever holds the lock of the free chain gives it back in the same step.
ResizeSwap(t) ==
  /\ At(t, "copy")
  /\ th[t].at = None
  /\ table' = th[t].nht
  /\ old' = <<table>> \o Tail(old)
  /\ tableR' = tableR \ {t}
  /\ th' = [th EXCEPT ![t].pc = "sweep", ![t].at = Base(table, 0)]
  /\ UNCHANGED <<tables, made, tableW, mutex, rd, wr, calls, alive, kept>>

\* ht_sweep: the lock of the new head, which no one else knows, then that of
\* every entry, for a moment.
SweepBase(t) ==
  LET e == th[t].at IN
  /\ At(t, "sweep")
  /\ CanWrite(e)
  /\ th' = [th EXCEPT ![t].pc = IF ~IsLast(e) THEN "chain"
                                ELSE IF e[2] + 1 < tables[e[1]].size THEN "sweep" ELSE "destroy",
                      ![t].at = IF ~IsLast(e) THEN NextOf(e) ELSE Base(e[1], e[2] + 1)]
  /\ UNCHANGED <<memory, locks, calls, alive, kept>>

\* A chained entry is locked, but the base entry is unlocked instead: refused,
\* the sweep ends, and the old table stays on the chain.
SweepChained(t) ==
  /\ At(t, "chain")
  /\ CanWrite(th[t].at)
  /\ wr' = wr \cup {<<t, th[t].at>>}
  /\ mutex' = None
  /\ Return(t)
  /\ UNCHANGED <<memory, tableR, tableW, rd, calls, alive, kept>>

\* Swept: the chain of old tables goes.
ResizeDestroy(t) ==
  /\ At(t, "destroy")
  /\ Freed(Elements(old))
  /\ old' = <<>>
  /\ mutex' = None
  /\ Return(t)
  /\ UNCHANGED <<made, table, tableR, tableW, rd, wr, calls, alive, kept>>

Resize(t) ==
  \/ ResizeMutex(t) \/ ResizeLock(t) \/ ResizeCreate(t) \/ ResizeNoMemory(t) \/ ResizeCopy(t)
  \/ ResizeCopyUnfilled(t) \/ ResizeCopyFails(t) \/ ResizeSwap(t) \/ SweepBase(t) \/ SweepChained(t)
  \/ ResizeDestroy(t)

\* The program destroys the table once no thread is in a call.
AllIdle == alive /\ table # None /\ \A t \in Threads : At(t, "idle")

Destroy ==
  /\ AllIdle
  /\ Freed({table} \cup Elements(old))
  /\ table' = None
  /\ old' = <<>>
  /\ UNCHANGED <<made, locks, th, calls, alive, kept>>

\* ht_create sets neither ht->old nor the link of its first slab, and every
\* ht_destroy follows both to their end: what malloc left there may be no NULL.
DestroyWild ==
  /\ AllIdle \/ \E t \in Threads : At(t, "destroy") \/ CannotCopy(t)
  /\ Fault

Step(t) == Locate(t) \/ Insert(t) \/ Resize(t) \/ UseFreed(t)

Next == Destroy \/ DestroyWild \/ \E t \in Threads : Call(t) \/ Step(t)

Spec == Init /\ [][Next]_vars

\* A reader may get a lock although a writer is about to ask for it, but not
\* once the writer waits.
Wanted(e) == \E u \in Threads : th[u].pc \in {"entry", "sweep", "chain"} /\ th[u].at = e
Overtakes(t) ==
  \/ th[t].pc \in {"locate", "lock"} /\ \E u \in Threads : th[u].pc = "insert"
  \/ th[t].pc = "base" /\ Wanted(th[t].at)
  \/ Using(t, "walk") /\ ~IsLast(th[t].at) /\ Wanted(NextOf(th[t].at))

\* The operating system runs every thread that can run, whoever comes first.
FairSpec == Spec /\ \A t \in Threads : WF_vars(Step(t) /\ ~Overtakes(t))

---------------------------------------------------------------------------
Positions ==
  {"idle", "locate", "index", "base", "walk", "read", "insert", "entry", "link", "fill",
   "resize", "lock", "create", "copy", "sweep", "chain", "destroy"}
Locals ==
  [pc : Positions, key : Keys \cup {None}, size : Sizes \cup {0}, index : Nat, at : Entries \cup {None},
   nht : 1 .. MaxTables \cup {None}]

TypeOK ==
  /\ DOMAIN tables = 1 .. MaxTables
  /\ \A a \in 1 .. MaxTables : tables[a] = None \/ \E n \in Sizes : tables[a] \in TablesOf(n)
  /\ made \in 1 .. MaxTables
  /\ table \in 1 .. MaxTables \cup {None}
  /\ old \in Seq(1 .. MaxTables)
  /\ tableR \subseteq Threads /\ tableW \in Threads \cup {None} /\ mutex \in Threads \cup {None}
  /\ rd \subseteq Threads \X Entries /\ wr \subseteq Threads \X Entries
  /\ th \in [Threads -> Locals]
  /\ calls \in 0 .. MaxCalls
  /\ alive \in BOOLEAN
  /\ kept \subseteq Keys

\* Every key that was in the table when ht_resize locked it is in the table in
\* use during the resize and afterwards, exactly once: the copy of unlocked
\* chains, which searches and insertions work on meanwhile, misses none of them
\* and repeats none, and a resize that fails takes none away.
KeysSurvive ==
  table # None =>
    /\ kept \subseteq KeysIn(table)
    /\ \A i \in DOMAIN tables[table].chain :
         LET c == tables[table].chain[i] IN \A p, q \in DOMAIN c : c[p] = c[q] => p = q

\* The tables that malloc gave out and that are not freed are those the head
\* points to: the one in use and the chain of old ones, each once.  Nothing is
\* leaked on a path of ht_resize, nothing freed twice, and ht_destroy frees all.
\* And the entry that a copy or a sweep has come to is inside one of them.
LiveIsReachable ==
  /\ Live = Elements(old) \cup ({table} \ {None})
  /\ Len(old) = Cardinality(Elements(old))
  /\ table \notin Elements(old)
  /\ \A t \in Threads : th[t].pc \in {"copy", "sweep"} /\ th[t].at # None =>
       th[t].at[1] \in Live /\ th[t].at[2] \in 0 .. tables[th[t].at[1]].size - 1

\* A call that has returned holds no lock of the head nor of the table in use,
\* although a sweep that was refused keeps one of the old table.
NoLockLeft == alive => \A t \in Threads : th[t].pc = "idle" =>
  /\ t \notin tableR /\ tableW # t /\ mutex # t
  /\ \A p \in rd \cup wr : p[1] = t => p[2][1] # table

\* A search waits for an entry that a refused sweep has left locked.
LeftLocked(e) == \E p \in wr : p[2] = e /\ th[p[1]].pc \notin {"link", "fill"}
Stuck(t) == Using(t, "walk") /\ ~IsLast(th[t].at) /\ LeftLocked(NextOf(th[t].at))

\* ht_resize returns, unless a search in a table that an earlier ht_resize has
\* replaced waits for ever at the entry which that one's sweep left locked: the
\* search has the lock of the hash table, for which an insertion can then wait
\* ahead of this ht_resize.
Resizing(t) == th[t].pc \in {"resize", "lock", "create", "copy", "sweep", "chain", "destroy"}
ResizeEnds == \A t \in Threads : Resizing(t) ~> (~Resizing(t) \/ ~alive \/ \E u \in Threads : Stuck(u))

\* libhashtable.c, ht_sweep: "This will sweep any remaining stale pointers of
\* the old table, because to have gotten each lock means no other thread has ANY
\* locks on entries. There will be no more stale pointers into the old table."
NoStalePointers == \A t, u \in Threads :
  th[t].pc = "destroy" /\ th[u].pc \in {"base", "walk", "read", "link", "fill"} =>
    th[u].at[1] # old[1]
=============================================================================
