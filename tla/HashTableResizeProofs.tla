------------------------ MODULE HashTableResizeProofs ------------------------
(***************************************************************************)
(* The safety properties of HashTableResize, for any number of threads,    *)
(* keys, tables and sizes of tables.                                       *)
(*                                                                         *)
(* The thread that holds the resize mutex is the only one that changes the *)
(* list of tables; the table that it fills is known to it alone.  The copy *)
(* goes down the old table: keys that it has passed are in the new table,  *)
(* and only such keys are.  Insertions that were under way when the resize *)
(* began add keys to the old table meanwhile, right behind the first entry *)
(* of a chain.                                                             *)
(***************************************************************************)
EXTENDS HashTableResize, FiniteSetTheorems, TLAPS

\* The locks of the head are held where the positions say so.
Holding == {"lock", "create", "copy", "sweep", "chain", "destroy"}
HeadInv ==
  /\ \A t \in Threads :
       /\ mutex = t <=> th[t].pc \in Holding
       /\ t \in tableR <=> th[t].pc \in {"index", "base", "walk", "create", "copy"}
       /\ tableW = t <=> th[t].pc = "entry"
  /\ tableW # None => tableR = {}
  /\ table = None => \A t \in Threads : th[t].pc = "idle"

\* So are the locks of entries, but for those that a sweep has kept, of tables
\* that are out of use for good.
OutOfUse(a) == a # table /\ \A u \in Threads : th[u].pc = "copy" => a # th[u].nht
EntryInv ==
  /\ \A p \in rd : th[p[1]].pc \in {"walk", "read"}
  /\ \A p \in wr :
       /\ p[2][1] <= made
       /\ (th[p[1]].pc \in {"link", "fill"} /\ p[2] = th[p[1]].at) \/ OutOfUse(p[2][1])
  /\ \A t \in Threads : th[t].pc \in {"link", "fill"} => <<t, th[t].at>> \in wr
  /\ \A t, u \in Threads : t # u /\ th[t].pc \in {"link", "fill"} /\ th[u].pc \in {"link", "fill"} =>
       th[t].at # th[u].at

\* The tables.
MemoryInv ==
  /\ \A a \in 1 .. MaxTables : tables[a] # None <=> a \in Elements(old) \/ a = table
  /\ \A i, j \in DOMAIN old : old[i] = old[j] => i = j
  /\ table \notin Elements(old)
  /\ Elements(old) \cup ({table} \ {None}) \subseteq 1 .. made
  /\ \A t \in Threads : th[t].pc \in {"copy", "sweep", "chain"} => old # <<>>
  /\ \A t \in Threads : th[t].pc = "copy" => th[t].nht = old[1]

\* The entries that threads are at, in a table that is still there.
Inside(e) ==
  tables[e[1]] # None =>
    /\ e[2] < tables[e[1]].size
    /\ e[3] # 0 => \E p \in 2 .. Len(Chain(e)) : Chain(e)[p] = e[3]
Outside == {"base", "walk", "read", "entry", "link", "fill"}
PlaceOK(t) ==
  /\ th[t].pc \in Outside \cup {"sweep", "chain"} => th[t].at # None
  /\ th[t].pc \in Outside \cup {"copy", "sweep", "chain"} /\ th[t].at # None =>
       th[t].at[1] <= made /\ Inside(th[t].at)
  /\ th[t].pc \in Outside => \A u \in Threads : th[u].pc = "copy" => th[t].at[1] # th[u].nht
  /\ th[t].pc \in {"base", "entry", "link", "fill", "sweep"} => th[t].at[3] = 0
  /\ th[t].pc \in {"entry", "copy"} /\ th[t].at # None => th[t].at[1] = table
  /\ th[t].pc \in {"sweep", "chain"} => th[t].at[1] = old[1]
  /\ th[t].pc \in {"locate", "index", "insert", "entry", "link", "fill"} => th[t].key \in Keys
  /\ th[t].pc \in {"resize", "lock", "create"} => th[t].size \in Sizes
  /\ th[t].pc \in {"entry", "link", "fill"} /\ tables[th[t].at[1]] # None =>
       th[t].at[2] = Hash(th[t].key, tables[th[t].at[1]].size)
  /\ th[t].pc = "fill" /\ tables[th[t].at[1]] # None => Chain(th[t].at) = <<None>>
PlaceInv == \A t \in Threads : PlaceOK(t)

\* A chain has the keys of its hash, each once; or its entry is being filled.
ChainOK(a, i) ==
  LET c == tables[a].chain[i] IN
  /\ \A p, q \in DOMAIN c : c[p] = c[q] => p = q
  /\ \A p \in DOMAIN c : c[p] # None => Hash(c[p], tables[a].size) = i
  /\ \A p \in DOMAIN c : c[p] = None =>
       c = <<None>> /\ \E t \in Threads : th[t].pc = "fill" /\ th[t].at = Base(a, i)
ChainInv == \A a \in 1 .. MaxTables : tables[a] # None => \A i \in 0 .. tables[a].size - 1 : ChainOK(a, i)

\* How far the copy is: k is still to be copied, or has been passed.
Ahead(k, e) ==
  LET h == Hash(k, tables[e[1]].size) IN
  h < e[2] \/ (h = e[2] /\ \E p \in DOMAIN Chain(e) : p >= Place(e) /\ Chain(e)[p] = k)
Passed(k, e) ==
  LET h == Hash(k, tables[e[1]].size) IN
  h > e[2] \/ (h = e[2] /\ \E p \in DOMAIN Chain(e) : p < Place(e) /\ Chain(e)[p] = k)
KeptInv ==
  /\ table # None => kept \subseteq KeysIn(table)
  /\ \A t \in Threads : th[t].pc = "copy" =>
       /\ th[t].at = None => kept \subseteq KeysIn(th[t].nht)
       /\ th[t].at # None => \A k \in kept : k \in KeysIn(th[t].nht) \/ Ahead(k, th[t].at)
       /\ th[t].at # None => \A k \in KeysIn(th[t].nht) : Passed(k, th[t].at)

Inv == TypeOK /\ HeadInv /\ EntryInv /\ MemoryInv /\ PlaceInv /\ ChainInv /\ KeptInv
-----------------------------------------------------------------------------
(* Facts about tables and chains.                                          *)

\* What a table is.
LEMMA TableType ==
  ASSUME TypeOK, NEW a \in 1 .. MaxTables, tables[a] # None
  PROVE  /\ tables[a].size \in Sizes /\ tables[a].size \in Nat \ {0}
         /\ tables[a] \in TablesOf(tables[a].size)
         /\ tables[a].chain \in [0 .. tables[a].size - 1 -> Seq(Keys \cup {None})]
         /\ \A i \in 0 .. tables[a].size - 1 : tables[a].chain[i] \in Seq(Keys \cup {None})
<1>1. PICK n \in Sizes : tables[a] \in TablesOf(n) BY DEF TypeOK
<1>2. tables[a].size = n /\ tables[a].chain \in [0 .. n - 1 -> Seq(Keys \cup {None})] BY <1>1 DEF TablesOf
<1>3. n \in Nat \ {0} BY ResizeAssumption
<1>4. QED BY <1>1, <1>2, <1>3

\* A table is something.
LEMMA NotNone ==
  /\ \A n \in Sizes : \A T \in TablesOf(n) : T # None
  /\ \A e \in Entries : e # None
  /\ \A k \in Keys : k # None /\ k # 0
  /\ \A t \in Threads : t # None
  /\ \A a \in Nat : a # None
BY ResizeAssumption

\* The index of a key's entry is inside the table.
LEMMA HashInside ==
  ASSUME NEW k \in Keys, NEW n \in Nat \ {0}
  PROVE  Hash(k, n) \in 0 .. n - 1
BY ResizeAssumption DEF Hash

\* A new table is empty.
LEMMA NewTableType ==
  ASSUME NEW n \in Sizes
  PROVE  NewTable(n) \in TablesOf(n) /\ NewTable(n).size = n /\ \A i \in 0 .. n - 1 : NewTable(n).chain[i] = <<>>
BY DEF NewTable, TablesOf

\* Two pieces of a chain together.
LEMMA Joined ==
  ASSUME NEW s \in Seq(Keys \cup {None}), NEW t \in Seq(Keys \cup {None})
  PROVE  /\ s \o t \in Seq(Keys \cup {None}) /\ Len(s \o t) = Len(s) + Len(t)
         /\ \A i \in 1 .. Len(s) : (s \o t)[i] = s[i]
         /\ \A i \in 1 .. Len(t) : (s \o t)[Len(s) + i] = t[i]
OBVIOUS

\* A key is linked right behind the first.
LEMMA Behind ==
  ASSUME NEW c \in Seq(Keys \cup {None}), c # <<>>, NEW k \in Keys \cup {None}
  PROVE  LET d == <<c[1], k>> \o Tail(c) IN
         /\ d \in Seq(Keys \cup {None}) /\ Len(d) = Len(c) + 1 /\ d[1] = c[1] /\ d[2] = k
         /\ \A p \in 2 .. Len(c) : d[p + 1] = c[p]
         /\ \A p \in 3 .. Len(d) : p - 1 \in 2 .. Len(c) /\ d[p] = c[p - 1]
<1> DEFINE h == <<c[1], k>>
           r == Tail(c)
           d == h \o r
           n == Len(c)
<1>1. n \in Nat \ {0} /\ r \in Seq(Keys \cup {None}) /\ Len(r) = n - 1 /\ \A q \in 1 .. n - 1 : r[q] = c[q + 1]
  OBVIOUS
<1>2. c[1] \in Keys \cup {None} OBVIOUS
<1>3. h \in Seq(Keys \cup {None}) /\ Len(h) = 2 /\ h[1] = c[1] /\ h[2] = k BY <1>2
<1> HIDE DEF h, r, n
<1>13. /\ h \o r \in Seq(Keys \cup {None}) /\ Len(h \o r) = Len(h) + Len(r)
       /\ \A i \in 1 .. Len(h) : (h \o r)[i] = h[i]
       /\ \A i \in 1 .. Len(r) : (h \o r)[Len(h) + i] = r[i]
  BY <1>1, <1>3, Joined
<1>4. d \in Seq(Keys \cup {None}) /\ Len(d) = 2 + (n - 1) BY <1>1, <1>3, <1>13
<1>5. \A q \in 1 .. 2 : d[q] = h[q] BY <1>1, <1>3, <1>13
<1>6. \A q \in 1 .. n - 1 : d[2 + q] = r[q] BY <1>1, <1>3, <1>13
<1> HIDE DEF d
<1>7. 2 + (n - 1) = n + 1 BY <1>1
<1>8. ASSUME NEW p \in 2 .. n PROVE d[p + 1] = c[p]
  <2>1. p - 1 \in 1 .. n - 1 /\ 2 + (p - 1) = p + 1 /\ (p - 1) + 1 = p BY <1>1
  <2>2. d[2 + (p - 1)] = r[p - 1] /\ r[p - 1] = c[(p - 1) + 1] BY <1>1, <1>6, <2>1
  <2>3. QED BY <2>1, <2>2
<1>9. \A p \in 3 .. n + 1 : p - 1 \in 2 .. n /\ (p - 1) + 1 = p BY <1>1
<1>10. \A p \in 3 .. n + 1 : p - 1 \in 2 .. n /\ d[p] = c[p - 1] BY <1>8, <1>9
<1>11. d[1] = c[1] /\ d[2] = k BY <1>3, <1>5
<1>12. QED BY <1>4, <1>7, <1>8, <1>10, <1>11 DEF d, n, h, r

\* The chain of an entry once a key is linked into it.
LinkedChain(c, k) == IF c = <<>> THEN <<k>> ELSE <<c[1], k>> \o Tail(c)

\* What linking a key does to a table.
LEMMA LinkedDoes ==
  ASSUME NEW n \in Sizes, NEW T \in TablesOf(n), NEW k \in Keys
  PROVE  /\ Linked(T, k) \in TablesOf(n) /\ Linked(T, k).size = n
         /\ \A i \in 0 .. n - 1 : i # Hash(k, n) => Linked(T, k).chain[i] = T.chain[i]
         /\ Linked(T, k).chain[Hash(k, n)] = LinkedChain(T.chain[Hash(k, n)], k)
         /\ Hash(k, n) \in 0 .. n - 1
<1> DEFINE h == Hash(k, n)
           d == LinkedChain(T.chain[h], k)
<1>1. T.size = n /\ T.chain \in [0 .. n - 1 -> Seq(Keys \cup {None})] /\ T = [size |-> n, chain |-> T.chain]
  BY DEF TablesOf
<1>2. n \in Nat \ {0} BY ResizeAssumption
<1>3. h \in 0 .. n - 1 BY <1>2, HashInside
<1>4. d \in Seq(Keys \cup {None})
  <2>1. T.chain[h] \in Seq(Keys \cup {None}) BY <1>1, <1>3
  <2>2. CASE T.chain[h] = <<>> BY <2>2 DEF LinkedChain
  <2>3. CASE T.chain[h] # <<>> BY <2>1, <2>3, Behind DEF LinkedChain
  <2>4. QED BY <2>2, <2>3
<1>5. Linked(T, k) = [T EXCEPT !.chain = [T.chain EXCEPT ![h] = d]] BY <1>1 DEF Linked, LinkedChain
<1> HIDE DEF h, d
<1>6. Linked(T, k) = [size |-> n, chain |-> [T.chain EXCEPT ![h] = d]] BY <1>1, <1>5 DEF TablesOf
<1>7. [T.chain EXCEPT ![h] = d] \in [0 .. n - 1 -> Seq(Keys \cup {None})] BY <1>1, <1>3, <1>4
<1>8. Linked(T, k).chain[h] = d /\ \A i \in 0 .. n - 1 : i # h => Linked(T, k).chain[i] = T.chain[i]
  <2> DEFINE c == [T.chain EXCEPT ![h] = d]
  <2>1. c[h] = d /\ \A i \in 0 .. n - 1 : i # h => c[i] = T.chain[i] BY <1>1, <1>3
  <2> HIDE DEF c
  <2>2. Linked(T, k).chain = c BY <1>6 DEF c
  <2>3. QED BY <2>1, <2>2
<1>9. QED BY <1>3, <1>6, <1>7, <1>8 DEF TablesOf, h, d

\* The place of an entry in its chain.
LEMMA PlaceIs ==
  ASSUME NEW e \in Entries, tables[e[1]] # None, Inside(e)
  PROVE  /\ e[3] = 0 => Place(e) = 1
         /\ e[3] # 0 => Place(e) \in 2 .. Len(Chain(e)) /\ Chain(e)[Place(e)] = e[3]
<1>1. CASE e[3] = 0 BY <1>1 DEF Place
<1>2. CASE e[3] # 0
  <2>1. \E p \in 2 .. Len(Chain(e)) : Chain(e)[p] = e[3] BY <1>2 DEF Inside
  <2>2. Place(e) = CHOOSE p \in 2 .. Len(Chain(e)) : Chain(e)[p] = e[3] BY <1>2 DEF Place, PlaceOf
  <2> DEFINE c == CHOOSE p \in 2 .. Len(Chain(e)) : Chain(e)[p] = e[3]
  <2>3. c \in 2 .. Len(Chain(e)) /\ Chain(e)[c] = e[3] BY <2>1, Zenon
  <2>4. Place(e) = c BY <2>2
  <2> HIDE DEF c
  <2>5. QED BY <1>2, <2>3, <2>4
<1>3. QED BY <1>1, <1>2, Zenon

\* The keys of a table.
Content(T) == (UNION {Elements(T.chain[i]) : i \in DOMAIN T.chain}) \ {None}

\* They are those of its chains; an entry that is being filled has none yet.
LEMMA ContentIs ==
  ASSUME NEW n \in Sizes, NEW T \in TablesOf(n)
  PROVE  \A k : k \in Content(T) <=>
           k # None /\ \E i \in 0 .. T.size - 1 : \E p \in DOMAIN T.chain[i] : T.chain[i][p] = k
<1>1. DOMAIN T.chain = 0 .. n - 1 /\ T.size = n BY DEF TablesOf
<1>2. QED BY <1>1 DEF Content, Elements

\* The same for the tables of the state.
LEMMA KeysAre ==
  ASSUME TypeOK, NEW a \in 1 .. MaxTables, tables[a] # None
  PROVE  \A k : k \in KeysIn(a) <=>
           k # None /\ \E i \in 0 .. tables[a].size - 1 : \E p \in DOMAIN tables[a].chain[i] : tables[a].chain[i][p] = k
<1>1. DOMAIN tables[a].chain = 0 .. tables[a].size - 1 BY TableType
<1>2. QED BY <1>1 DEF KeysIn, Elements
-----------------------------------------------------------------------------
(* Steps that leave the tables alone.                                      *)

\* The other threads stay where they are.
Others(t) == \A u \in Threads \ {t} : th'[u] = th[u]

\* What is said of entries depends on the tables only.
LEMMA SameTables ==
  ASSUME UNCHANGED tables
  PROVE  /\ \A e : Inside(e)' <=> Inside(e)
         /\ \A e : Chain(e)' = Chain(e)
         /\ \A e : Place(e)' = Place(e)
         /\ \A k, e : Ahead(k, e)' <=> Ahead(k, e)
         /\ \A k, e : Passed(k, e)' <=> Passed(k, e)
         /\ \A a : KeysIn(a)' = KeysIn(a)
<1>1. \A e : Chain(e)' = Chain(e) BY DEF Chain
<1>2. \A e : Inside(e)' <=> Inside(e) BY <1>1 DEF Inside
<1>3. \A e : Place(e)' = Place(e) BY <1>1 DEF Place
<1>4. \A k, e : Ahead(k, e)' <=> Ahead(k, e) BY <1>1, <1>3 DEF Ahead
<1>5. \A k, e : Passed(k, e)' <=> Passed(k, e) BY <1>1, <1>3 DEF Passed
<1>6. \A a : KeysIn(a)' = KeysIn(a) BY DEF KeysIn
<1>7. QED BY <1>1, <1>2, <1>3, <1>4, <1>5, <1>6

\* A thread that neither fills an entry nor copies moves.
LEMMA QuietStep ==
  ASSUME Inv, NEW t \in Threads, Others(t), UNCHANGED <<tables, made, table, old>>,
         UNCHANGED kept \/ (kept' = KeysIn(table) /\ \A u \in Threads : th[u].pc # "copy"),
         th[t].pc \notin {"fill", "copy"}, th'[t].pc \notin {"fill", "copy"}, PlaceOK(t)',
         th'[t].pc \in {"sweep", "chain"} => old # <<>>
  PROVE  MemoryInv' /\ PlaceInv' /\ ChainInv' /\ KeptInv'
<1>1. \A u \in Threads : u # t => th'[u] = th[u] BY DEF Others
<1>2. MemoryInv' BY <1>1 DEF Inv, MemoryInv
<1>3. \A u \in Threads : th'[u].pc = "copy" <=> th[u].pc = "copy" BY <1>1
<1>4. \A u \in Threads : th'[u].pc = "copy" => th'[u] = th[u] BY <1>1
<1>5. PlaceInv'
  <2> SUFFICES ASSUME NEW u \in Threads, u # t PROVE PlaceOK(u)' BY DEF PlaceInv
  <2>1. th'[u] = th[u] BY <1>1
  <2>2. PICK e : e = th[u].at OBVIOUS
  <2>3. (Inside(e)' <=> Inside(e)) /\ Chain(e)' = Chain(e) BY SameTables
  <2>4. PlaceOK(u) BY DEF Inv, PlaceInv
  <2>5. QED BY <1>3, <1>4, <2>1, <2>2, <2>3, <2>4 DEF PlaceOK
<1>6. ChainInv'
  <2> SUFFICES ASSUME NEW a \in 1 .. MaxTables, tables[a] # None, NEW i \in 0 .. tables[a].size - 1
               PROVE  ChainOK(a, i)'
    BY DEF ChainInv
  <2>1. ChainOK(a, i) BY DEF Inv, ChainInv
  <2>2. \A u \in Threads : th[u].pc = "fill" => th'[u] = th[u] BY <1>1
  <2>3. QED BY <2>1, <2>2 DEF ChainOK, Base
<1>7. KeptInv'
  <2>1. CASE UNCHANGED kept BY <1>3, <1>4, <2>1, SameTables DEF Inv, KeptInv
  <2>2. CASE kept' = KeysIn(table) /\ \A u \in Threads : th[u].pc # "copy"
    <3>1. KeysIn(table)' = KeysIn(table) BY SameTables DEF KeysIn
    <3>2. QED BY <1>3, <2>2, <3>1 DEF KeptInv
  <2>3. QED BY <2>1, <2>2
<1>8. QED BY <1>2, <1>5, <1>6, <1>7

\* The same of the locks of entries, when the thread neither has nor gets one.
LEMMA NoEntryStep ==
  ASSUME Inv, NEW t \in Threads, Others(t), UNCHANGED <<made, table, rd, wr>>,
         th[t].pc \notin {"walk", "read", "link", "fill"}, th'[t].pc \notin {"link", "fill", "copy"}
  PROVE  EntryInv'
<1>1. \A u \in Threads : u # t => th'[u] = th[u] BY DEF Others
<1>2. rd \subseteq Threads \X Entries /\ wr \subseteq Threads \X Entries BY DEF Inv, TypeOK
<1>3. \A p \in rd \cup wr : p[1] \in Threads BY <1>2
<1>4. \A a : OutOfUse(a) => OutOfUse(a)' BY <1>1 DEF OutOfUse
<1>5. QED BY <1>1, <1>3, <1>4 DEF Inv, EntryInv

\* A thread gets other local variables.
LEMMA Moved ==
  ASSUME TypeOK, NEW t \in Threads, NEW l \in Locals, th' = [th EXCEPT ![t] = l]
  PROVE  th' \in [Threads -> Locals] /\ th'[t] = l /\ Others(t) /\ \A u \in Threads : u # t => th'[u] = th[u]
BY DEF TypeOK, Others

\* The local variables of a thread, field by field.
LEMMA LocalType ==
  ASSUME TypeOK, NEW t \in Threads
  PROVE  /\ th[t] \in Locals /\ th[t].pc \in Positions /\ th[t].key \in Keys \cup {None}
         /\ th[t].size \in Sizes \cup {0} /\ th[t].index \in Nat /\ th[t].at \in Entries \cup {None}
         /\ th[t].nht \in 1 .. MaxTables \cup {None}
<1>1. th[t] \in Locals BY DEF TypeOK
<1>2. QED BY <1>1 DEF Locals

\* The local variables of a thread outside a call.
LEMMA IdleType ==
  /\ Idle \in Locals /\ Idle.pc = "idle" /\ Idle.at = None /\ Idle.nht = None /\ Idle.size = 0 /\ Idle.key = None
BY DEF Idle, Locals, Positions

\* The fields of an entry.
LEMMA EntryType ==
  ASSUME NEW e \in Entries
  PROVE  e[1] \in 1 .. MaxTables /\ e[2] \in Nat /\ e[3] \in Keys \cup {0} /\ e = <<e[1], e[2], e[3]>>
BY DEF Entries

\* An entry of the table proper.
LEMMA BaseType ==
  ASSUME NEW a \in 1 .. MaxTables, NEW i \in Nat
  PROVE  Base(a, i) \in Entries /\ Base(a, i)[1] = a /\ Base(a, i)[2] = i /\ Base(a, i)[3] = 0
BY DEF Base, Entries

\* While a thread is in a call there is a table.
LEMMA TableInUse ==
  ASSUME Inv, NEW t \in Threads, th[t].pc # "idle"
  PROVE  /\ table \in 1 .. MaxTables /\ tables[table] # None /\ table <= made
         /\ tables[table].size \in Nat \ {0} /\ tables[table].size \in Sizes
<1>1. table # None BY DEF Inv, HeadInv
<1>2. table \in 1 .. MaxTables BY <1>1 DEF Inv, TypeOK
<1>3. tables[table] # None BY <1>2 DEF Inv, MemoryInv
<1>4. table <= made
  <2>1. table \in 1 .. made BY <1>1 DEF Inv, MemoryInv
  <2>2. QED BY <2>1 DEF Inv, TypeOK
<1>5. QED BY <1>2, <1>3, <1>4, TableType DEF Inv

\* The table being filled is not the one in use.
LEMMA InUseIsNotCopy ==
  ASSUME Inv
  PROVE  \A u \in Threads : th[u].pc = "copy" => th[u].nht # table /\ th[u].nht \in 1 .. made
<1> SUFFICES ASSUME NEW u \in Threads, th[u].pc = "copy" PROVE th[u].nht # table /\ th[u].nht \in 1 .. made
  OBVIOUS
<1>1. old # <<>> /\ th[u].nht = old[1] /\ old \in Seq(1 .. MaxTables) BY DEF Inv, MemoryInv, TypeOK
<1>2. 1 \in DOMAIN old BY <1>1
<1>3. th[u].nht \in Elements(old) BY <1>1, <1>2 DEF Elements
<1>4. QED BY <1>3 DEF Inv, MemoryInv

\* The chain of an entry and the entry's place in it.
LEMMA EntryIn ==
  ASSUME Inv, NEW e \in Entries, tables[e[1]] # None, Inside(e)
  PROVE  /\ e[1] \in 1 .. MaxTables /\ e[2] \in 0 .. tables[e[1]].size - 1 /\ tables[e[1]].size \in Nat \ {0}
         /\ Chain(e) \in Seq(Keys \cup {None}) /\ ChainOK(e[1], e[2])
         /\ Place(e) \in Nat \ {0}
         /\ Chain(e) # <<>> => Place(e) \in 1 .. Len(Chain(e))
         /\ Chain(e) = <<>> => Place(e) = 1
<1>1. e[1] \in 1 .. MaxTables /\ e[2] \in Nat BY EntryType
<1>2. /\ tables[e[1]].size \in Nat \ {0}
      /\ \A i \in 0 .. tables[e[1]].size - 1 : tables[e[1]].chain[i] \in Seq(Keys \cup {None})
  BY <1>1, TableType DEF Inv
<1>3. e[2] \in 0 .. tables[e[1]].size - 1 BY <1>1, <1>2 DEF Inside
<1>4. Chain(e) \in Seq(Keys \cup {None}) BY <1>2, <1>3 DEF Chain
<1>5. ChainOK(e[1], e[2]) BY <1>1, <1>3 DEF Inv, ChainInv
<1>6. /\ e[3] = 0 => Place(e) = 1
      /\ e[3] # 0 => Place(e) \in 2 .. Len(Chain(e))
  BY PlaceIs
<1>7. Len(Chain(e)) \in Nat /\ (Chain(e) # <<>> => Len(Chain(e)) >= 1) /\ (Chain(e) = <<>> => Len(Chain(e)) = 0) BY <1>4
<1>8. QED BY <1>1, <1>2, <1>3, <1>4, <1>5, <1>6, <1>7

\* The next entry of a chain.
LEMMA NextIs ==
  ASSUME Inv, NEW e \in Entries, tables[e[1]] # None, Inside(e), ~IsLast(e)
  PROVE  /\ NextOf(e) \in Entries /\ NextOf(e)[1] = e[1] /\ NextOf(e)[2] = e[2] /\ NextOf(e)[3] \in Keys
         /\ Inside(NextOf(e)) /\ Place(NextOf(e)) = Place(e) + 1 /\ Place(e) + 1 \in 2 .. Len(Chain(e))
         /\ Chain(NextOf(e)) = Chain(e)
<1> DEFINE c == Chain(e)
           q == Place(e) + 1
           k == c[q]
           n == NextOf(e)
<1>1. /\ e[1] \in 1 .. MaxTables /\ e[2] \in 0 .. tables[e[1]].size - 1 /\ tables[e[1]].size \in Nat \ {0}
      /\ c \in Seq(Keys \cup {None}) /\ ChainOK(e[1], e[2]) /\ Place(e) \in Nat \ {0}
  BY EntryIn
<1>2. Len(c) \in Nat /\ DOMAIN c = 1 .. Len(c) BY <1>1
<1>3. ~(Place(e) >= Len(c)) BY DEF IsLast
<1>4. q \in 2 .. Len(c) /\ q \in DOMAIN c BY <1>1, <1>2, <1>3
<1>5. c = tables[e[1]].chain[e[2]] BY DEF Chain
<1>6. /\ \A p, r \in DOMAIN c : c[p] = c[r] => p = r
      /\ \A p \in DOMAIN c : c[p] = None => c = <<None>>
  BY <1>1, <1>5 DEF ChainOK
<1>7. k \in Keys
  <2>1. k \in Keys \cup {None} BY <1>1, <1>4
  <2>2. SUFFICES ASSUME k = None PROVE FALSE BY <2>1
  <2>3. c = <<None>> BY <1>4, <1>6, <2>2
  <2>4. Len(c) = 1 BY <2>3
  <2>5. QED BY <1>4, <2>4
<1>8. n = <<e[1], e[2], k>> BY DEF NextOf
<1> HIDE DEF n
<1>9. n \in Entries /\ n[1] = e[1] /\ n[2] = e[2] /\ n[3] = k BY <1>1, <1>7, <1>8 DEF Entries
<1>10. Chain(n) = c BY <1>9 DEF Chain
<1> HIDE DEF c, q, k
<1>11. c[q] = k BY DEF k
<1>12. Inside(n) BY <1>1, <1>4, <1>9, <1>10, <1>11 DEF Inside
<1>13. n[3] # 0 BY <1>7, <1>9, NotNone
<1>14. Place(n) \in 2 .. Len(c) /\ c[Place(n)] = k BY <1>9, <1>10, <1>12, <1>13, PlaceIs
<1>15. Place(n) \in DOMAIN c BY <1>2, <1>14
<1>16. Place(n) = q BY <1>4, <1>6, <1>11, <1>14, <1>15
<1>17. QED BY <1>4, <1>7, <1>9, <1>10, <1>12, <1>16 DEF c, q, n

\* The locks of entries when a thread gets or gives up locks for reading.
LEMMA ReadStep ==
  ASSUME Inv, NEW t \in Threads, Others(t), UNCHANGED <<made, table, wr>>,
         th[t].pc \notin {"link", "fill", "copy"}, th'[t].pc \notin {"link", "fill", "copy"},
         \A p \in rd' : (p \in rd /\ p[1] # t) \/ (p[1] = t /\ th'[t].pc \in {"walk", "read"})
  PROVE  EntryInv'
<1>1. \A u \in Threads : u # t => th'[u] = th[u] BY DEF Others
<1>2. rd \subseteq Threads \X Entries /\ wr \subseteq Threads \X Entries BY DEF Inv, TypeOK
<1>3. \A p \in rd \cup wr : p[1] \in Threads BY <1>2
<1>4. \A a : OutOfUse(a) => OutOfUse(a)' BY <1>1 DEF OutOfUse
<1>5. (\A p \in rd : th[p[1]].pc \in {"walk", "read"})' BY <1>1, <1>3 DEF Inv, EntryInv
<1>6. QED BY <1>1, <1>3, <1>4, <1>5 DEF Inv, EntryInv

\* A fault changes nothing else.
LEMMA FaultStep ==
  ASSUME Inv, Fault
  PROVE  Inv'
<1>1. /\ alive' = FALSE /\ UNCHANGED <<tables, made, table, old, tableR, tableW, mutex, rd, wr, th, calls, kept>>
  BY DEF Fault, memory, locks
<1>2. TypeOK' BY <1>1 DEF Inv, TypeOK
<1>3. HeadInv' BY <1>1 DEF Inv, HeadInv
<1>4. EntryInv' BY <1>1 DEF Inv, EntryInv, OutOfUse
<1>5. MemoryInv' BY <1>1 DEF Inv, MemoryInv
<1>6. PlaceInv' BY <1>1 DEF Inv, PlaceInv, PlaceOK, Inside, Chain
<1>7. ChainInv' BY <1>1 DEF Inv, ChainInv, ChainOK
<1>8. KeptInv' BY <1>1, SameTables DEF Inv, KeptInv
<1>9. QED BY <1>2, <1>3, <1>4, <1>5, <1>6, <1>7, <1>8 DEF Inv

\* A call begins.
LEMMA CallStep ==
  ASSUME Inv, NEW t \in Threads, Call(t)
  PROVE  Inv'
<1>1. /\ th[t].pc = "idle" /\ table # None /\ UNCHANGED <<memory, locks, kept, alive>>
      /\ calls < MaxCalls /\ calls' = calls + 1
  BY DEF Call, At
<1>2. PICK l \in Locals : /\ th' = [th EXCEPT ![t] = l] /\ l.at = None
                          /\ \/ l.pc \in {"locate", "insert"} /\ l.key \in Keys
                             \/ l.pc = "resize" /\ l.size \in Sizes
  <2>1. ASSUME NEW k \in Keys, NEW o \in {"locate", "insert"}
        PROVE  LET l == [Idle EXCEPT !.pc = o, !.key = k] IN
               l \in Locals /\ l.at = None /\ l.pc \in {"locate", "insert"} /\ l.key \in Keys
    BY ResizeAssumption DEF Idle, Locals, Positions
  <2>2. ASSUME NEW n \in Sizes
        PROVE  LET l == [Idle EXCEPT !.pc = "resize", !.size = n] IN
               l \in Locals /\ l.at = None /\ l.pc = "resize" /\ l.size \in Sizes
    BY ResizeAssumption DEF Idle, Locals, Positions
  <2>3. \/ \E k \in Keys, o \in {"locate", "insert"} : th' = [th EXCEPT ![t] = [Idle EXCEPT !.pc = o, !.key = k]]
        \/ \E n \in Sizes : th' = [th EXCEPT ![t] = [Idle EXCEPT !.pc = "resize", !.size = n]]
    BY DEF Call
  <2>4. CASE \E k \in Keys, o \in {"locate", "insert"} : th' = [th EXCEPT ![t] = [Idle EXCEPT !.pc = o, !.key = k]]
    <3>1. PICK k \in Keys, o \in {"locate", "insert"} : th' = [th EXCEPT ![t] = [Idle EXCEPT !.pc = o, !.key = k]]
      BY <2>4
    <3>2. PICK l : l = [Idle EXCEPT !.pc = o, !.key = k] OBVIOUS
    <3>3. l \in Locals /\ l.at = None /\ l.pc \in {"locate", "insert"} /\ l.key \in Keys BY <2>1, <3>2, Zenon
    <3>4. th' = [th EXCEPT ![t] = l] BY <3>1, <3>2, Zenon
    <3>5. QED BY <3>3, <3>4, Zenon
  <2>5. CASE \E n \in Sizes : th' = [th EXCEPT ![t] = [Idle EXCEPT !.pc = "resize", !.size = n]]
    <3>1. PICK n \in Sizes : th' = [th EXCEPT ![t] = [Idle EXCEPT !.pc = "resize", !.size = n]] BY <2>5
    <3>2. PICK l : l = [Idle EXCEPT !.pc = "resize", !.size = n] OBVIOUS
    <3>3. l \in Locals /\ l.at = None /\ l.pc = "resize" /\ l.size \in Sizes BY <2>2, <3>2, Zenon
    <3>4. th' = [th EXCEPT ![t] = l] BY <3>1, <3>2, Zenon
    <3>5. QED BY <3>3, <3>4, Zenon
  <2>6. QED BY <2>3, <2>4, <2>5, Zenon
<1>3. th' \in [Threads -> Locals] /\ th'[t] = l /\ Others(t) /\ \A u \in Threads : u # t => th'[u] = th[u]
  BY <1>2, Moved DEF Inv
<1>4. UNCHANGED <<tables, made, table, old, tableR, tableW, mutex, rd, wr>> BY <1>1 DEF memory, locks
<1>5. TypeOK'
  <2>1. calls' \in 0 .. MaxCalls BY <1>1, ResizeAssumption DEF Inv, TypeOK
  <2>2. QED BY <1>1, <1>3, <1>4, <2>1 DEF Inv, TypeOK
<1>6. HeadInv' BY <1>1, <1>2, <1>3, <1>4 DEF Inv, HeadInv, Holding
<1>7. EntryInv' BY <1>1, <1>2, <1>3, <1>4, NoEntryStep
<1>8. PlaceOK(t)' BY <1>2, <1>3 DEF PlaceOK, Outside
<1>9. QED BY <1>1, <1>2, <1>3, <1>4, <1>5, <1>6, <1>7, <1>8, QuietStep DEF Inv

\* A search locks the head.
LEMMA LocateLockStep ==
  ASSUME Inv, NEW t \in Threads, LocateLock(t)
  PROVE  Inv'
<1> DEFINE h == Hash(th[t].key, tables[table].size)
           l == [th[t] EXCEPT !.pc = "index", !.index = h]
<1>1. /\ th[t].pc = "locate" /\ tableW = None /\ tableR' = tableR \cup {t}
      /\ UNCHANGED <<tables, made, table, old>> /\ UNCHANGED <<tableW, mutex, rd, wr, calls, alive, kept>>
      /\ th' = [th EXCEPT ![t] = l]
  BY LocalType DEF LocateLock, At, memory, Inv, TypeOK
<1>2. th[t].key \in Keys BY <1>1 DEF Inv, PlaceInv, PlaceOK
<1>3. h \in Nat
  <2>1. tables[table].size \in Nat \ {0} BY <1>1, TableInUse
  <2>2. h \in 0 .. tables[table].size - 1 BY <1>2, <2>1, HashInside
  <2>3. QED BY <2>1, <2>2
<1> HIDE DEF h
<1>4. l \in Locals /\ l.pc = "index" /\ l.key \in Keys BY <1>2, <1>3, LocalType DEF Locals, Positions, Inv
<1> HIDE DEF l
<1>5. th' \in [Threads -> Locals] /\ th'[t] = l /\ Others(t) /\ \A u \in Threads : u # t => th'[u] = th[u]
  BY <1>1, <1>4, Moved DEF Inv
<1>6. TypeOK' BY <1>1, <1>5 DEF Inv, TypeOK
<1>7. HeadInv' BY <1>1, <1>4, <1>5 DEF Inv, HeadInv, Holding
<1>8. EntryInv' BY <1>1, <1>4, <1>5, NoEntryStep
<1>9. PlaceOK(t)' BY <1>4, <1>5 DEF PlaceOK, Outside
<1>10. QED BY <1>1, <1>4, <1>5, <1>6, <1>7, <1>8, <1>9, QuietStep DEF Inv

\* A search takes the index to the table in use.
LEMMA LocateIndexStep ==
  ASSUME Inv, NEW t \in Threads, LocateIndex(t)
  PROVE  Inv'
<1>0. PICK e : e = Base(table, th[t].index) OBVIOUS
<1> DEFINE l == [th[t] EXCEPT !.pc = "base", !.at = e]
<1>1. /\ th[t].pc = "index" /\ th[t].index < tables[table].size
      /\ UNCHANGED <<tables, made, table, old>> /\ UNCHANGED <<tableR, tableW, mutex, rd, wr, calls, alive, kept>>
      /\ th' = [th EXCEPT ![t] = l]
  BY <1>0, LocalType DEF LocateIndex, At, memory, locks, Inv, TypeOK
<1>2. table \in 1 .. MaxTables /\ table <= made BY <1>1, TableInUse
<1>3. th[t].index \in Nat BY LocalType DEF Inv
<1>4. e \in Entries /\ e[1] = table /\ e[2] = th[t].index /\ e[3] = 0 BY <1>0, <1>2, <1>3, BaseType
<1>5. Inside(e) BY <1>1, <1>4 DEF Inside
<1>6. l \in Locals /\ l.pc = "base" /\ l.at = e BY <1>4, LocalType DEF Locals, Positions, Inv
<1> HIDE DEF l
<1>7. th' \in [Threads -> Locals] /\ th'[t] = l /\ Others(t) /\ \A u \in Threads : u # t => th'[u] = th[u]
  BY <1>1, <1>6, Moved DEF Inv
<1>8. TypeOK' BY <1>1, <1>7 DEF Inv, TypeOK
<1>9. HeadInv' BY <1>1, <1>6, <1>7 DEF Inv, HeadInv, Holding
<1>10. EntryInv' BY <1>1, <1>6, <1>7, NoEntryStep
<1>11. PlaceOK(t)'
  <2>1. Inside(e)' BY <1>1, <1>5, SameTables
  <2>2. \A u \in Threads : th'[u].pc = "copy" => e[1] # th'[u].nht BY <1>4, <1>6, <1>7, InUseIsNotCopy
  <2>3. QED BY <1>1, <1>2, <1>4, <1>6, <1>7, <2>1, <2>2, NotNone DEF PlaceOK, Outside
<1>12. QED BY <1>1, <1>6, <1>7, <1>8, <1>9, <1>10, <1>11, QuietStep DEF Inv

\* A search locks the first entry of a chain.
LEMMA LocateBaseStep ==
  ASSUME Inv, NEW t \in Threads, LocateBase(t)
  PROVE  Inv'
<1>0. PICK e : e = th[t].at OBVIOUS
<1> DEFINE l == [th[t] EXCEPT !.pc = "walk"]
<1>1. /\ th[t].pc = "base" /\ rd' = rd \cup {<<t, e>>}
      /\ UNCHANGED <<tables, made, table, old>> /\ UNCHANGED <<tableR, tableW, mutex, wr, calls, alive, kept>>
      /\ th' = [th EXCEPT ![t] = l]
  BY <1>0, LocalType DEF LocateBase, Using, At, Goto, memory, Inv, TypeOK
<1>2. PlaceOK(t) BY DEF Inv, PlaceInv
<1>3. e \in Entries BY <1>0, <1>1, <1>2, LocalType DEF PlaceOK, Outside, Inv
<1>4. l \in Locals /\ l.pc = "walk" /\ l.at = e BY <1>0, LocalType DEF Locals, Positions, Inv
<1> HIDE DEF l
<1>5. th' \in [Threads -> Locals] /\ th'[t] = l /\ Others(t) /\ \A u \in Threads : u # t => th'[u] = th[u]
  BY <1>1, <1>4, Moved DEF Inv
<1>6. TypeOK' BY <1>1, <1>3, <1>5 DEF Inv, TypeOK
<1>7. HeadInv' BY <1>1, <1>4, <1>5 DEF Inv, HeadInv, Holding
<1>8. EntryInv'
  <2>1. \A p \in rd : p[1] # t BY <1>1 DEF Inv, EntryInv
  <2>2. <<t, e>>[1] = t OBVIOUS
  <2>3. \A p \in rd' : (p \in rd /\ p[1] # t) \/ (p[1] = t /\ th'[t].pc \in {"walk", "read"})
    BY <1>1, <1>4, <1>5, <2>1, <2>2
  <2>4. QED BY <1>1, <1>4, <1>5, <2>3, ReadStep
<1>9. PlaceOK(t)'
  <2>1. Inside(e)' <=> Inside(e) BY <1>1, SameTables
  <2>2. \A u \in Threads : th'[u].pc = "copy" => th[u].pc = "copy" /\ th'[u].nht = th[u].nht BY <1>4, <1>5
  <2>3. QED BY <1>0, <1>1, <1>2, <1>4, <1>5, <2>1, <2>2 DEF PlaceOK, Outside
<1>10. QED BY <1>1, <1>4, <1>5, <1>6, <1>7, <1>8, <1>9, QuietStep DEF Inv

\* A thread returns without holding any lock.
LEMMA IdleOK ==
  ASSUME NEW t \in Threads, th'[t] = Idle
  PROVE  PlaceOK(t)'
BY IdleType DEF PlaceOK, Outside

\* A search gives up its locks.
LEMMA LocateNoneStep ==
  ASSUME Inv, NEW t \in Threads, LocateNone(t)
  PROVE  Inv'
<1>1. /\ th[t].pc = "walk" /\ rd' = NotOf(t, rd) /\ tableR' = tableR \ {t}
      /\ UNCHANGED <<tables, made, table, old>> /\ UNCHANGED <<tableW, mutex, wr, calls, alive, kept>>
      /\ th' = [th EXCEPT ![t] = Idle]
  BY DEF LocateNone, Using, At, Return, memory
<1>2. th' \in [Threads -> Locals] /\ th'[t] = Idle /\ Others(t) /\ \A u \in Threads : u # t => th'[u] = th[u]
  BY <1>1, IdleType, Moved DEF Inv
<1>3. TypeOK' BY <1>1, <1>2 DEF Inv, TypeOK, NotOf
<1>4. HeadInv' BY <1>1, <1>2, IdleType DEF Inv, HeadInv, Holding
<1>5. EntryInv'
  <2>1. \A p \in rd' : p \in rd /\ p[1] # t BY <1>1 DEF NotOf
  <2>2. QED BY <1>1, <1>2, <2>1, IdleType, ReadStep
<1>6. PlaceOK(t)' BY <1>2, IdleOK
<1>7. QED BY <1>1, <1>2, <1>3, <1>4, <1>5, <1>6, IdleType, QuietStep DEF Inv

\* A search goes on along the chain.
LEMMA LocateNextStep ==
  ASSUME Inv, NEW t \in Threads, LocateNext(t)
  PROVE  Inv'
<1>0. PICK e : e = th[t].at OBVIOUS
<1>13. PICK n : n = NextOf(e) OBVIOUS
<1> DEFINE l == [th[t] EXCEPT !.at = n]
<1>1. /\ th[t].pc = "walk" /\ tables[e[1]] # None /\ rd' = NotOf(t, rd) \cup {<<t, e>>, <<t, n>>}
      /\ UNCHANGED <<tables, made, table, old>> /\ UNCHANGED <<tableR, tableW, mutex, wr, calls, alive, kept>>
      /\ th' = [th EXCEPT ![t] = l] /\ ~IsLast(e)
  BY <1>0, <1>13, LocalType DEF LocateNext, Using, At, memory, Inv, TypeOK
<1>2. PlaceOK(t) BY DEF Inv, PlaceInv
<1>3. e \in Entries /\ Inside(e) /\ e[1] <= made BY <1>0, <1>1, <1>2, LocalType DEF PlaceOK, Outside, Inv
<1>4. n \in Entries /\ n[1] = e[1] /\ Inside(n) BY <1>1, <1>3, <1>13, NextIs
<1>5. l \in Locals /\ l.pc = "walk" /\ l.at = n BY <1>1, <1>4, LocalType DEF Locals, Positions, Inv
<1> HIDE DEF l
<1>6. th' \in [Threads -> Locals] /\ th'[t] = l /\ Others(t) /\ \A u \in Threads : u # t => th'[u] = th[u]
  BY <1>1, <1>5, Moved DEF Inv
<1>7. TypeOK'
  <2>1. rd' \subseteq Threads \X Entries BY <1>1, <1>3, <1>4 DEF Inv, TypeOK, NotOf
  <2>2. QED BY <1>1, <1>6, <2>1 DEF Inv, TypeOK
<1>8. HeadInv' BY <1>1, <1>5, <1>6 DEF Inv, HeadInv, Holding
<1>9. EntryInv'
  <2>1. <<t, e>>[1] = t /\ <<t, n>>[1] = t OBVIOUS
  <2>2. \A p \in rd' : (p \in rd /\ p[1] # t) \/ (p[1] = t /\ th'[t].pc \in {"walk", "read"})
    BY <1>1, <1>5, <1>6, <2>1 DEF NotOf
  <2>3. QED BY <1>1, <1>5, <1>6, <2>2, ReadStep
<1>10. PlaceOK(t)'
  <2>1. Inside(n)' BY <1>1, <1>4, SameTables
  <2>2. \A u \in Threads : th'[u].pc = "copy" => th[u].pc = "copy" /\ th'[u].nht = th[u].nht BY <1>5, <1>6
  <2>3. n # None BY <1>4, NotNone
  <2>4. QED BY <1>0, <1>1, <1>2, <1>3, <1>4, <1>5, <1>6, <2>1, <2>2, <2>3 DEF PlaceOK, Outside
<1>11. QED BY <1>1, <1>5, <1>6, <1>7, <1>8, <1>9, <1>10, QuietStep DEF Inv

\* A search has found its key.
LEMMA LocateFoundStep ==
  ASSUME Inv, NEW t \in Threads, LocateFound(t)
  PROVE  Inv'
<1>0. PICK e : e = th[t].at OBVIOUS
<1> DEFINE l == [th[t] EXCEPT !.pc = "read"]
<1>1. /\ th[t].pc = "walk" /\ rd' = NotOf(t, rd) \cup {<<t, e>>} /\ tableR' = tableR \ {t}
      /\ UNCHANGED <<tables, made, table, old>> /\ UNCHANGED <<tableW, mutex, wr, calls, alive, kept>>
      /\ th' = [th EXCEPT ![t] = l]
  BY <1>0, LocalType DEF LocateFound, Using, At, Goto, memory, Inv, TypeOK
<1>2. PlaceOK(t) BY DEF Inv, PlaceInv
<1>3. e \in Entries BY <1>0, <1>1, <1>2, LocalType DEF PlaceOK, Outside, Inv
<1>4. l \in Locals /\ l.pc = "read" /\ l.at = e BY <1>0, LocalType DEF Locals, Positions, Inv
<1> HIDE DEF l
<1>5. th' \in [Threads -> Locals] /\ th'[t] = l /\ Others(t) /\ \A u \in Threads : u # t => th'[u] = th[u]
  BY <1>1, <1>4, Moved DEF Inv
<1>6. TypeOK'
  <2>1. rd' \subseteq Threads \X Entries BY <1>1, <1>3 DEF Inv, TypeOK, NotOf
  <2>2. QED BY <1>1, <1>5, <2>1 DEF Inv, TypeOK
<1>7. HeadInv' BY <1>1, <1>4, <1>5 DEF Inv, HeadInv, Holding
<1>8. EntryInv'
  <2>1. <<t, e>>[1] = t OBVIOUS
  <2>2. \A p \in rd' : (p \in rd /\ p[1] # t) \/ (p[1] = t /\ th'[t].pc \in {"walk", "read"})
    BY <1>1, <1>4, <1>5, <2>1 DEF NotOf
  <2>3. QED BY <1>1, <1>4, <1>5, <2>2, ReadStep
<1>9. PlaceOK(t)'
  <2>1. Inside(e)' <=> Inside(e) BY <1>1, SameTables
  <2>2. \A u \in Threads : th'[u].pc = "copy" => th[u].pc = "copy" /\ th'[u].nht = th[u].nht BY <1>4, <1>5
  <2>3. QED BY <1>0, <1>1, <1>2, <1>4, <1>5, <2>1, <2>2 DEF PlaceOK, Outside
<1>10. QED BY <1>1, <1>4, <1>5, <1>6, <1>7, <1>8, <1>9, QuietStep DEF Inv

\* A search returns what it has found.
LEMMA LocateReadStep ==
  ASSUME Inv, NEW t \in Threads, LocateRead(t)
  PROVE  Inv'
<1>1. /\ th[t].pc = "read" /\ rd' = NotOf(t, rd)
      /\ UNCHANGED <<tables, made, table, old>> /\ UNCHANGED <<tableR, tableW, mutex, wr, calls, alive, kept>>
      /\ th' = [th EXCEPT ![t] = Idle]
  BY DEF LocateRead, Using, At, Return, memory
<1>2. th' \in [Threads -> Locals] /\ th'[t] = Idle /\ Others(t) /\ \A u \in Threads : u # t => th'[u] = th[u]
  BY <1>1, IdleType, Moved DEF Inv
<1>3. TypeOK' BY <1>1, <1>2 DEF Inv, TypeOK, NotOf
<1>4. HeadInv' BY <1>1, <1>2, IdleType DEF Inv, HeadInv, Holding
<1>5. EntryInv'
  <2>1. \A p \in rd' : p \in rd /\ p[1] # t BY <1>1 DEF NotOf
  <2>2. QED BY <1>1, <1>2, <2>1, IdleType, ReadStep
<1>6. PlaceOK(t)' BY <1>2, IdleOK
<1>7. QED BY <1>1, <1>2, <1>3, <1>4, <1>5, <1>6, IdleType, QuietStep DEF Inv

\* An insertion locks the head.
LEMMA InsertLockStep ==
  ASSUME Inv, NEW t \in Threads, InsertLock(t)
  PROVE  Inv'
<1>0. PICK h : h = Hash(th[t].key, tables[table].size) OBVIOUS
<1>15. PICK e : e = Base(table, h) OBVIOUS
<1> DEFINE l == [th[t] EXCEPT !.pc = "entry", !.at = e]
<1>1. /\ th[t].pc = "insert" /\ tableW = None /\ tableR = {} /\ tableW' = t
      /\ UNCHANGED <<tables, made, table, old>> /\ UNCHANGED <<tableR, mutex, rd, wr, calls, alive, kept>>
      /\ th' = [th EXCEPT ![t] = l]
  BY <1>0, <1>15, LocalType DEF InsertLock, At, memory, Inv, TypeOK
<1>2. table \in 1 .. MaxTables /\ table <= made /\ tables[table].size \in Nat \ {0} BY <1>1, TableInUse
<1>3. th[t].key \in Keys BY <1>1 DEF Inv, PlaceInv, PlaceOK
<1>4. h \in Nat /\ h < tables[table].size
  <2>1. h \in 0 .. tables[table].size - 1 BY <1>0, <1>2, <1>3, HashInside
  <2>2. QED BY <1>2, <2>1
<1>5. e \in Entries /\ e[1] = table /\ e[2] = h /\ e[3] = 0 BY <1>15, <1>2, <1>4, BaseType
<1>6. Inside(e) BY <1>4, <1>5 DEF Inside
<1>7. h = Hash(th[t].key, tables[e[1]].size) BY <1>0, <1>5
<1>8. l \in Locals /\ l.pc = "entry" /\ l.at = e /\ l.key = th[t].key BY <1>5, LocalType DEF Locals, Positions, Inv
<1> HIDE DEF l
<1>9. th' \in [Threads -> Locals] /\ th'[t] = l /\ Others(t) /\ \A u \in Threads : u # t => th'[u] = th[u]
  BY <1>1, <1>8, Moved DEF Inv
<1>10. TypeOK' BY <1>1, <1>9 DEF Inv, TypeOK
<1>11. HeadInv' BY <1>1, <1>8, <1>9, NotNone DEF Inv, HeadInv, Holding
<1>12. EntryInv' BY <1>1, <1>8, <1>9, NoEntryStep
<1>13. PlaceOK(t)'
  <2>1. Inside(e)' BY <1>1, <1>6, SameTables
  <2>2. \A u \in Threads : th'[u].pc = "copy" => e[1] # th'[u].nht BY <1>5, <1>8, <1>9, InUseIsNotCopy
  <2>3. e # None BY <1>5, NotNone
  <2>4. QED BY <1>1, <1>2, <1>3, <1>5, <1>7, <1>8, <1>9, <2>1, <2>2, <2>3 DEF PlaceOK, Outside
<1>14. QED BY <1>1, <1>8, <1>9, <1>10, <1>11, <1>12, <1>13, QuietStep DEF Inv

\* An insertion locks its entry.
LEMMA InsertBaseStep ==
  ASSUME Inv, NEW t \in Threads, InsertBase(t)
  PROVE  Inv'
<1>0. PICK e : e = th[t].at OBVIOUS
<1> DEFINE l == [th[t] EXCEPT !.pc = "link"]
<1>1. /\ th[t].pc = "entry" /\ tableW' = None /\ wr' = wr \cup {<<t, e>>} /\ CanWrite(e)
      /\ UNCHANGED <<tables, made, table, old>> /\ UNCHANGED <<tableR, mutex, rd, calls, alive, kept>>
      /\ th' = [th EXCEPT ![t] = l]
  BY <1>0, LocalType DEF InsertBase, At, Goto, memory, Inv, TypeOK
<1>2. PlaceOK(t) BY DEF Inv, PlaceInv
<1>3. e \in Entries /\ e[1] <= made BY <1>0, <1>1, <1>2, LocalType DEF PlaceOK, Outside, Inv
<1>4. l \in Locals /\ l.pc = "link" /\ l.at = e /\ l.key = th[t].key BY <1>0, LocalType DEF Locals, Positions, Inv
<1> HIDE DEF l
<1>5. th' \in [Threads -> Locals] /\ th'[t] = l /\ Others(t) /\ \A u \in Threads : u # t => th'[u] = th[u]
  BY <1>1, <1>4, Moved DEF Inv
<1>6. TypeOK'
  <2>1. wr' \subseteq Threads \X Entries BY <1>1, <1>3 DEF Inv, TypeOK
  <2>2. QED BY <1>1, <1>5, <2>1 DEF Inv, TypeOK
<1>7. HeadInv' BY <1>1, <1>4, <1>5, NotNone DEF Inv, HeadInv, Holding
<1>8. EntryInv'
  <2>1. rd \subseteq Threads \X Entries /\ wr \subseteq Threads \X Entries BY DEF Inv, TypeOK
  <2>2. \A p \in rd \cup wr : p[1] \in Threads BY <2>1
  <2>3. \A a : OutOfUse(a) => OutOfUse(a)' BY <1>1, <1>4, <1>5 DEF OutOfUse
  <2>4. <<t, e>>[1] = t /\ <<t, e>>[2] = e OBVIOUS
  <2>5. (\A p \in rd : th[p[1]].pc \in {"walk", "read"})' BY <1>1, <1>5, <2>2 DEF Inv, EntryInv
  <2>6. ASSUME NEW p \in wr'
        PROVE  p[2][1] <= made' /\ ((th'[p[1]].pc \in {"link", "fill"} /\ p[2] = th'[p[1]].at) \/ OutOfUse(p[2][1])')
    <3>1. CASE p = <<t, e>> BY <1>1, <1>3, <1>4, <1>5, <2>4, <3>1
    <3>2. CASE p \in wr
      <4>1. /\ p[2][1] <= made
            /\ (th[p[1]].pc \in {"link", "fill"} /\ p[2] = th[p[1]].at) \/ OutOfUse(p[2][1])
        BY <3>2 DEF Inv, EntryInv
      <4>2. p[1] # t => th'[p[1]] = th[p[1]] BY <1>5, <2>2, <3>2
      <4>3. QED BY <1>1, <2>3, <4>1, <4>2
    <3>3. QED BY <1>1, <3>1, <3>2
  <2>7. (\A u \in Threads : th[u].pc \in {"link", "fill"} => <<u, th[u].at>> \in wr)'
    BY <1>1, <1>4, <1>5 DEF Inv, EntryInv
  <2>8. \A u \in Threads : u # t /\ th[u].pc \in {"link", "fill"} => th[u].at # e
    BY <1>1 DEF Inv, EntryInv, CanWrite, CanRead
  <2>9. (\A v, u \in Threads : v # u /\ th[v].pc \in {"link", "fill"} /\ th[u].pc \in {"link", "fill"} =>
           th[v].at # th[u].at)'
    BY <1>4, <1>5, <2>8 DEF Inv, EntryInv
  <2>10. QED BY <2>5, <2>6, <2>7, <2>9 DEF EntryInv
<1>9. PlaceOK(t)'
  <2>1. Inside(e)' <=> Inside(e) BY <1>1, SameTables
  <2>2. \A u \in Threads : th'[u].pc = "copy" => th[u].pc = "copy" /\ th'[u].nht = th[u].nht BY <1>4, <1>5
  <2>3. QED BY <1>0, <1>1, <1>2, <1>4, <1>5, <2>1, <2>2 DEF PlaceOK, Outside
<1>10. QED BY <1>1, <1>4, <1>5, <1>6, <1>7, <1>8, <1>9, QuietStep DEF Inv

\* The locks when an insertion is over.
LEMMA UnlockStep ==
  ASSUME Inv, NEW t \in Threads, th[t].pc \in {"link", "fill"}, UNCHANGED tableW, UNCHANGED <<made, table>>,
         UNCHANGED <<tableR, mutex, rd>>, wr' = wr \ {<<t, th[t].at>>}, th' = [th EXCEPT ![t] = Idle]
  PROVE  /\ HeadInv' /\ EntryInv' /\ th' \in [Threads -> Locals] /\ wr' \subseteq Threads \X Entries
         /\ th'[t] = Idle /\ Others(t) /\ \A u \in Threads : u # t => th'[u] = th[u]
<1>1. th' \in [Threads -> Locals] /\ th'[t] = Idle /\ Others(t) /\ \A u \in Threads : u # t => th'[u] = th[u]
  BY IdleType, Moved DEF Inv
<1>2. HeadInv' BY <1>1, IdleType DEF Inv, HeadInv, Holding
<1>3. rd \subseteq Threads \X Entries /\ wr \subseteq Threads \X Entries BY DEF Inv, TypeOK
<1>4. EntryInv'
  <2>1. \A p \in rd \cup wr : p[1] \in Threads /\ p = <<p[1], p[2]>> BY <1>3
  <2>2. \A a : OutOfUse(a) => OutOfUse(a)' BY <1>1, IdleType DEF OutOfUse
  <2>3. (\A p \in rd : th[p[1]].pc \in {"walk", "read"})' BY <1>1, <2>1 DEF Inv, EntryInv
  <2>4. ASSUME NEW p \in wr'
        PROVE  p[2][1] <= made' /\ ((th'[p[1]].pc \in {"link", "fill"} /\ p[2] = th'[p[1]].at) \/ OutOfUse(p[2][1])')
    <3>1. p \in wr /\ p # <<t, th[t].at>> OBVIOUS
    <3>2. /\ p[2][1] <= made
          /\ (th[p[1]].pc \in {"link", "fill"} /\ p[2] = th[p[1]].at) \/ OutOfUse(p[2][1])
      BY <3>1 DEF Inv, EntryInv
    <3>3. CASE p[1] = t
      <4>1. p[2] # th[t].at BY <2>1, <3>1, <3>3
      <4>2. QED BY <2>2, <3>2, <3>3, <4>1
    <3>4. CASE p[1] # t
      <4>1. th'[p[1]] = th[p[1]] BY <1>1, <2>1, <3>1, <3>4
      <4>2. QED BY <2>2, <3>2, <4>1
    <3>5. QED BY <3>3, <3>4
  <2>5. (\A u \in Threads : th[u].pc \in {"link", "fill"} => <<u, th[u].at>> \in wr)'
    <3>1. SUFFICES ASSUME NEW u \in Threads, th'[u].pc \in {"link", "fill"} PROVE <<u, th'[u].at>> \in wr' OBVIOUS
    <3>2. u # t BY <1>1, <3>1, IdleType
    <3>3. <<u, th[u].at>> \in wr /\ th'[u] = th[u] BY <1>1, <3>1, <3>2 DEF Inv, EntryInv
    <3>4. QED BY <3>2, <3>3
  <2>6. (\A v, u \in Threads : v # u /\ th[v].pc \in {"link", "fill"} /\ th[u].pc \in {"link", "fill"} =>
           th[v].at # th[u].at)'
    BY <1>1, IdleType DEF Inv, EntryInv
  <2>7. QED BY <2>3, <2>4, <2>5, <2>6 DEF EntryInv
<1>5. QED BY <1>1, <1>2, <1>3, <1>4

\* An insertion ends without changing the table.
LEMMA NothingLinkedStep ==
  ASSUME Inv, NEW t \in Threads, th[t].pc = "link", UNCHANGED tables, Unlock(t)
  PROVE  Inv'
<1>1. /\ wr' = wr \ {<<t, th[t].at>>} /\ th' = [th EXCEPT ![t] = Idle]
      /\ UNCHANGED <<tables, made, table, old>> /\ UNCHANGED <<tableR, tableW, mutex, rd, calls, alive, kept>>
  BY DEF Unlock, Return
<1>2. /\ HeadInv' /\ EntryInv' /\ th' \in [Threads -> Locals] /\ wr' \subseteq Threads \X Entries
      /\ th'[t] = Idle /\ Others(t)
  BY <1>1, UnlockStep
<1>3. TypeOK' BY <1>1, <1>2 DEF Inv, TypeOK
<1>4. PlaceOK(t)' BY <1>2, IdleOK
<1>5. QED BY <1>1, <1>2, <1>3, <1>4, IdleType, QuietStep DEF Inv

\* One thread resizes.
LEMMA OneHolder ==
  ASSUME Inv, NEW t \in Threads, th[t].pc \in Holding
  PROVE  mutex = t /\ \A u \in Threads : u # t => th[u].pc \notin Holding
BY DEF Inv, HeadInv

\* ht_resize waits for the mutex, then for the lock of the head.
LEMMA ResizeMutexStep ==
  ASSUME Inv, NEW t \in Threads, ResizeMutex(t)
  PROVE  Inv'
<1> DEFINE l == [th[t] EXCEPT !.pc = "lock"]
<1>1. /\ th[t].pc = "resize" /\ mutex = None /\ mutex' = t /\ th' = [th EXCEPT ![t] = l]
      /\ UNCHANGED <<tables, made, table, old>> /\ UNCHANGED <<tableR, tableW, rd, wr, calls, alive, kept>>
  BY LocalType DEF ResizeMutex, At, Goto, memory, Inv, TypeOK
<1>2. PlaceOK(t) BY DEF Inv, PlaceInv
<1>3. l \in Locals /\ l.pc = "lock" /\ l.size = th[t].size BY LocalType DEF Locals, Positions, Inv
<1> HIDE DEF l
<1>4. th' \in [Threads -> Locals] /\ th'[t] = l /\ Others(t) /\ \A u \in Threads : u # t => th'[u] = th[u]
  BY <1>1, <1>3, Moved DEF Inv
<1>5. TypeOK' BY <1>1, <1>4 DEF Inv, TypeOK
<1>6. HeadInv' BY <1>1, <1>3, <1>4, NotNone DEF Inv, HeadInv, Holding
<1>7. EntryInv' BY <1>1, <1>3, <1>4, NoEntryStep
<1>8. PlaceOK(t)' BY <1>1, <1>2, <1>3, <1>4 DEF PlaceOK, Outside
<1>9. QED BY <1>1, <1>3, <1>4, <1>5, <1>6, <1>7, <1>8, QuietStep DEF Inv

\* ht_resize locks the table for reading: what it must keep is what is there now.
LEMMA ResizeLockStep ==
  ASSUME Inv, NEW t \in Threads, ResizeLock(t)
  PROVE  Inv'
<1> DEFINE l == [th[t] EXCEPT !.pc = "create"]
<1>1. /\ th[t].pc = "lock" /\ tableW = None /\ tableR' = tableR \cup {t} /\ kept' = KeysIn(table)
      /\ th' = [th EXCEPT ![t] = l]
      /\ UNCHANGED <<tables, made, table, old>> /\ UNCHANGED <<tableW, mutex, rd, wr, calls, alive>>
  BY LocalType DEF ResizeLock, At, Goto, memory, Inv, TypeOK
<1>2. PlaceOK(t) BY DEF Inv, PlaceInv
<1>3. l \in Locals /\ l.pc = "create" /\ l.size = th[t].size BY LocalType DEF Locals, Positions, Inv
<1> HIDE DEF l
<1>4. th' \in [Threads -> Locals] /\ th'[t] = l /\ Others(t) /\ \A u \in Threads : u # t => th'[u] = th[u]
  BY <1>1, <1>3, Moved DEF Inv
<1>5. TypeOK'
  <2>1. table \in 1 .. MaxTables /\ tables[table] # None BY <1>1, TableInUse
  <2>2. \A i \in 0 .. tables[table].size - 1 : tables[table].chain[i] \in Seq(Keys \cup {None})
    BY <2>1, TableType DEF Inv
  <2>3. \A i \in 0 .. tables[table].size - 1 : \A p \in DOMAIN tables[table].chain[i] :
          tables[table].chain[i][p] \in Keys \cup {None}
    BY <2>2
  <2>4. KeysIn(table) \subseteq Keys BY <2>1, <2>3, KeysAre DEF Inv
  <2>5. QED BY <1>1, <1>4, <2>4 DEF Inv, TypeOK
<1>6. HeadInv' BY <1>1, <1>3, <1>4, NotNone DEF Inv, HeadInv, Holding
<1>7. EntryInv' BY <1>1, <1>3, <1>4, NoEntryStep
<1>8. PlaceOK(t)' BY <1>1, <1>2, <1>3, <1>4 DEF PlaceOK, Outside
<1>9. \A u \in Threads : th[u].pc # "copy" BY <1>1, OneHolder DEF Holding
<1>10. QED BY <1>1, <1>3, <1>4, <1>5, <1>6, <1>7, <1>8, <1>9, QuietStep DEF Inv

\* There is no memory for another table.
LEMMA ResizeNoMemoryStep ==
  ASSUME Inv, NEW t \in Threads, ResizeNoMemory(t)
  PROVE  Inv'
<1>1. /\ th[t].pc = "create" /\ tableR' = tableR \ {t} /\ mutex' = None /\ th' = [th EXCEPT ![t] = Idle]
      /\ UNCHANGED <<tables, made, table, old>> /\ UNCHANGED <<tableW, rd, wr, calls, alive, kept>>
  BY DEF ResizeNoMemory, GiveUp, At, Return, memory
<1>2. th' \in [Threads -> Locals] /\ th'[t] = Idle /\ Others(t) /\ \A u \in Threads : u # t => th'[u] = th[u]
  BY <1>1, IdleType, Moved DEF Inv
<1>3. TypeOK' BY <1>1, <1>2 DEF Inv, TypeOK
<1>4. HeadInv' BY <1>1, <1>2, IdleType, NotNone DEF Inv, HeadInv, Holding
<1>5. EntryInv' BY <1>1, <1>2, IdleType, NoEntryStep
<1>6. PlaceOK(t)' BY <1>2, IdleOK
<1>7. QED BY <1>1, <1>2, <1>3, <1>4, <1>5, <1>6, IdleType, QuietStep DEF Inv

\* An item of a sequence.
LEMMA ItemOf ==
  ASSUME NEW S, NEW s \in Seq(S)
  PROVE  \A i \in DOMAIN s : s[i] \in S
OBVIOUS

\* The table on the chain of old ones that went there last.
LEMMA OldFirst ==
  ASSUME Inv, old # <<>>
  PROVE  /\ old[1] \in 1 .. MaxTables /\ tables[old[1]] # None /\ old[1] # table /\ old[1] <= made
         /\ old[1] \in Elements(old)
<1>1. old \in Seq(1 .. MaxTables) /\ made \in 1 .. MaxTables BY DEF Inv, TypeOK
<1>2. 1 \in DOMAIN old BY <1>1
<1>6. old[1] \in 1 .. MaxTables BY <1>1, <1>2, ItemOf
<1>3. old[1] \in Elements(old) BY <1>2 DEF Elements
<1>4. old[1] \in 1 .. made BY <1>3 DEF Inv, MemoryInv
<1>5. QED BY <1>1, <1>3, <1>4, <1>6 DEF Inv, MemoryInv

\* The sweep passes an entry of the table proper.
LEMMA SweepBaseStep ==
  ASSUME Inv, NEW t \in Threads, SweepBase(t)
  PROVE  Inv'
<1>0. PICK e : e = th[t].at OBVIOUS
<1>1. PICK n : n = IF ~IsLast(e) THEN NextOf(e) ELSE Base(e[1], e[2] + 1) OBVIOUS
<1>2. PICK q : q = IF ~IsLast(e) THEN "chain" ELSE IF e[2] + 1 < tables[e[1]].size THEN "sweep" ELSE "destroy" OBVIOUS
<1> DEFINE l == [th[t] EXCEPT !.pc = q, !.at = n]
<1>3. /\ th[t].pc = "sweep" /\ th' = [th EXCEPT ![t] = l]
      /\ UNCHANGED <<tables, made, table, old>> /\ UNCHANGED <<tableR, tableW, mutex, rd, wr, calls, alive, kept>>
  BY <1>0, <1>1, <1>2, LocalType DEF SweepBase, At, memory, locks, Inv, TypeOK
<1>4. PlaceOK(t) BY DEF Inv, PlaceInv
<1>5. e \in Entries /\ Inside(e) /\ e[1] <= made /\ e[1] = old[1] /\ e[3] = 0
  BY <1>0, <1>3, <1>4, LocalType DEF PlaceOK, Outside, Inv
<1>6. old # <<>> BY <1>3 DEF Inv, MemoryInv
<1>7. tables[e[1]] # None BY <1>5, <1>6, OldFirst
<1>8. /\ n \in Entries /\ n[1] = e[1]
      /\ \/ q = "chain" /\ Inside(n)
         \/ q = "sweep" /\ Inside(n) /\ n[3] = 0
         \/ q = "destroy"
  <2>1. CASE ~IsLast(e)
    <3>1. NextOf(e) \in Entries /\ NextOf(e)[1] = e[1] /\ Inside(NextOf(e)) BY <1>5, <1>7, <2>1, NextIs
    <3>2. QED BY <1>1, <1>2, <2>1, <3>1
  <2>2. CASE IsLast(e)
    <3>1. e[1] \in 1 .. MaxTables /\ e[2] \in Nat BY <1>5, EntryType
    <3>2. n = Base(e[1], e[2] + 1) BY <1>1, <2>2
    <3>3. n \in Entries /\ n[1] = e[1] /\ n[2] = e[2] + 1 /\ n[3] = 0 BY <3>1, <3>2, BaseType
    <3>4. q = IF e[2] + 1 < tables[e[1]].size THEN "sweep" ELSE "destroy" BY <1>2, <2>2
    <3>5. e[2] + 1 < tables[e[1]].size => Inside(n) BY <3>3 DEF Inside
    <3>6. QED BY <3>3, <3>4, <3>5
  <2>3. QED BY <2>1, <2>2
<1>9. l \in Locals /\ l.pc = q /\ l.at = n
  <2>1. q \in Positions /\ n \in Entries \cup {None} BY <1>8 DEF Positions
  <2>2. QED BY <2>1, LocalType DEF Locals, Inv
<1> HIDE DEF l
<1>10. th' \in [Threads -> Locals] /\ th'[t] = l /\ Others(t) /\ \A u \in Threads : u # t => th'[u] = th[u]
  BY <1>3, <1>9, Moved DEF Inv
<1>11. TypeOK' BY <1>3, <1>10 DEF Inv, TypeOK
<1>12. HeadInv' BY <1>3, <1>8, <1>9, <1>10 DEF Inv, HeadInv, Holding
<1>13. EntryInv' BY <1>3, <1>8, <1>9, <1>10, NoEntryStep
<1>14. PlaceOK(t)'
  <2>1. Inside(n)' <=> Inside(n) BY <1>3, SameTables
  <2>2. n # None BY <1>8, NotNone
  <2>3. QED BY <1>3, <1>5, <1>8, <1>9, <1>10, <2>1, <2>2 DEF PlaceOK, Outside
<1>15. QED BY <1>3, <1>6, <1>8, <1>9, <1>10, <1>11, <1>12, <1>13, <1>14, QuietStep DEF Inv

\* The sweep ends at a chained entry, and keeps its lock.
LEMMA SweepChainedStep ==
  ASSUME Inv, NEW t \in Threads, SweepChained(t)
  PROVE  Inv'
<1>0. PICK e : e = th[t].at OBVIOUS
<1>1. /\ th[t].pc = "chain" /\ wr' = wr \cup {<<t, e>>} /\ mutex' = None /\ th' = [th EXCEPT ![t] = Idle]
      /\ UNCHANGED <<tables, made, table, old>> /\ UNCHANGED <<tableR, tableW, rd, calls, alive, kept>>
  BY <1>0 DEF SweepChained, At, Return, memory
<1>2. PlaceOK(t) BY DEF Inv, PlaceInv
<1>3. e \in Entries /\ e[1] <= made /\ e[1] = old[1] BY <1>0, <1>1, <1>2, LocalType DEF PlaceOK, Outside, Inv
<1>4. old # <<>> BY <1>1 DEF Inv, MemoryInv
<1>5. th' \in [Threads -> Locals] /\ th'[t] = Idle /\ Others(t) /\ \A u \in Threads : u # t => th'[u] = th[u]
  BY <1>1, IdleType, Moved DEF Inv
<1>6. TypeOK'
  <2>1. wr' \subseteq Threads \X Entries BY <1>1, <1>3 DEF Inv, TypeOK
  <2>2. QED BY <1>1, <1>5, <2>1 DEF Inv, TypeOK
<1>7. HeadInv' BY <1>1, <1>5, IdleType, NotNone DEF Inv, HeadInv, Holding
<1>8. EntryInv'
  <2>1. rd \subseteq Threads \X Entries /\ wr \subseteq Threads \X Entries BY DEF Inv, TypeOK
  <2>2. \A p \in rd \cup wr : p[1] \in Threads BY <2>1
  <2>3. \A a : OutOfUse(a) => OutOfUse(a)' BY <1>1, <1>5, IdleType DEF OutOfUse
  <2>4. \A u \in Threads : th[u].pc # "copy" BY <1>1, OneHolder DEF Holding
  <2>5. OutOfUse(e[1]) BY <1>3, <1>4, <2>4, OldFirst DEF OutOfUse
  <2>6. <<t, e>>[1] = t /\ <<t, e>>[2] = e OBVIOUS
  <2>7. (\A p \in rd : th[p[1]].pc \in {"walk", "read"})' BY <1>1, <1>5, <2>2 DEF Inv, EntryInv
  <2>8. ASSUME NEW p \in wr'
        PROVE  p[2][1] <= made' /\ ((th'[p[1]].pc \in {"link", "fill"} /\ p[2] = th'[p[1]].at) \/ OutOfUse(p[2][1])')
    <3>1. CASE p = <<t, e>> BY <1>1, <1>3, <2>3, <2>5, <2>6, <3>1
    <3>2. CASE p \in wr
      <4>1. /\ p[2][1] <= made
            /\ (th[p[1]].pc \in {"link", "fill"} /\ p[2] = th[p[1]].at) \/ OutOfUse(p[2][1])
        BY <3>2 DEF Inv, EntryInv
      <4>2. p[1] # t => th'[p[1]] = th[p[1]] BY <1>5, <2>2, <3>2
      <4>3. QED BY <1>1, <2>3, <4>1, <4>2
    <3>3. QED BY <1>1, <3>1, <3>2
  <2>9. (\A u \in Threads : th[u].pc \in {"link", "fill"} => <<u, th[u].at>> \in wr)'
    BY <1>1, <1>5, IdleType DEF Inv, EntryInv
  <2>10. (\A v, u \in Threads : v # u /\ th[v].pc \in {"link", "fill"} /\ th[u].pc \in {"link", "fill"} =>
            th[v].at # th[u].at)'
    BY <1>5, IdleType DEF Inv, EntryInv
  <2>11. QED BY <2>7, <2>8, <2>9, <2>10 DEF EntryInv
<1>9. PlaceOK(t)' BY <1>5, IdleOK
<1>10. QED BY <1>1, <1>5, <1>6, <1>7, <1>8, <1>9, IdleType, QuietStep DEF Inv
-----------------------------------------------------------------------------
(* Insertions write to a chain while a copy is going along it.             *)

\* A chain gets a first entry, its first entry gets a key, or it gets a second
\* entry: those behind the first, if there are any, move on by one.
Grows(c, d) ==
  /\ \A p \in 2 .. Len(c) : p + 1 \in 2 .. Len(d) /\ d[p + 1] = c[p]
  /\ c # <<>> /\ c[1] # None => d # <<>> /\ d[1] = c[1]
Distinct(c) == \A p, q \in DOMAIN c : c[p] = c[q] => p = q

\* So does the place of an entry.
LEMMA GrowsPlace ==
  ASSUME NEW c \in Seq(Keys \cup {None}), NEW d \in Seq(Keys \cup {None}), Grows(c, d), Distinct(d),
         NEW k, \E p \in 2 .. Len(c) : c[p] = k
  PROVE  PlaceOf(k, c) \in 2 .. Len(c) /\ c[PlaceOf(k, c)] = k /\ PlaceOf(k, d) = PlaceOf(k, c) + 1
<1> DEFINE x == CHOOSE p \in 2 .. Len(c) : c[p] = k
           y == CHOOSE p \in 2 .. Len(d) : d[p] = k
<1>1. x \in 2 .. Len(c) /\ c[x] = k BY Zenon
<1>2. \E p \in 2 .. Len(d) : d[p] = k
  <2>1. PICK p \in 2 .. Len(c) : c[p] = k OBVIOUS
  <2>2. p + 1 \in 2 .. Len(d) /\ d[p + 1] = k BY <2>1 DEF Grows
  <2>3. QED BY <2>2
<1>3. y \in 2 .. Len(d) /\ d[y] = k BY <1>2, Zenon
<1>4. PlaceOf(k, c) = x /\ PlaceOf(k, d) = y BY DEF PlaceOf
<1> HIDE DEF x, y
<1>5. x + 1 \in 2 .. Len(d) /\ d[x + 1] = k BY <1>1 DEF Grows
<1>6. x + 1 \in DOMAIN d /\ y \in DOMAIN d BY <1>3, <1>5
<1>7. y = x + 1 BY <1>3, <1>5, <1>6 DEF Distinct
<1>8. QED BY <1>1, <1>4, <1>7

\* A thread writes to the chain of the entry that it holds.
LEMMA WriteStep ==
  ASSUME Inv, TypeOK', NEW t \in Threads, Others(t), NEW e \in Entries, th[t].at = e,
         th[t].pc \in {"link", "fill"}, th'[t].pc \in {"idle", "fill"}, tables[e[1]] # None,
         NEW d \in Seq(Keys \cup {None}), Grows(Chain(e), d), Distinct(d),
         \A b \in 1 .. MaxTables : b # e[1] => tables'[b] = tables[b],
         tables'[e[1]] # None, tables'[e[1]].size = tables[e[1]].size,
         tables'[e[1]].chain[e[2]] = d,
         \A j \in 0 .. tables[e[1]].size - 1 : j # e[2] => tables'[e[1]].chain[j] = tables[e[1]].chain[j],
         UNCHANGED <<made, table, old, kept>>, PlaceOK(t)', ChainOK(e[1], e[2])'
  PROVE  MemoryInv' /\ PlaceInv' /\ ChainInv' /\ KeptInv'
<1>0. PICK a, i, c, n : a = e[1] /\ i = e[2] /\ c = Chain(e) /\ n = tables[a].size OBVIOUS
<1>1. \A u \in Threads : u # t => th'[u] = th[u] BY DEF Others
<1>2. PlaceOK(t) BY DEF Inv, PlaceInv
<1>3. Inside(e) /\ e[3] = 0 BY <1>2, NotNone DEF PlaceOK, Outside
<1>4. /\ a \in 1 .. MaxTables /\ n \in Nat \ {0} /\ i \in 0 .. n - 1 /\ c \in Seq(Keys \cup {None})
      /\ ChainOK(a, i) /\ c = tables[a].chain[i]
  BY <1>0, <1>3, EntryIn DEF Chain
<1>5. /\ \A b \in 1 .. MaxTables : tables'[b] # None <=> tables[b] # None
      /\ \A b \in 1 .. MaxTables : tables'[b].size = tables[b].size
  BY <1>0, <1>4
<1>6. ASSUME NEW f \in Entries, tables[f[1]] # None, f[2] < tables[f[1]].size
      PROVE  /\ f[1] # a \/ f[2] # i => Chain(f)' = Chain(f)
             /\ f[1] = a /\ f[2] = i => Chain(f) = c /\ Chain(f)' = d
  <2>1. f[1] \in 1 .. MaxTables /\ f[2] \in Nat BY EntryType
  <2>2. CASE f[1] # a BY <1>0, <2>1, <2>2 DEF Chain
  <2>3. CASE f[1] = a /\ f[2] # i
    <3>1. f[2] \in 0 .. n - 1 BY <1>0, <1>4, <1>6, <2>1, <2>3
    <3>2. QED BY <1>0, <2>3, <3>1 DEF Chain
  <2>4. CASE f[1] = a /\ f[2] = i BY <1>0, <2>4 DEF Chain
  <2>5. QED BY <2>2, <2>3, <2>4
<1>7. Grows(c, d) /\ Distinct(c)
  <2>1. Distinct(c) BY <1>4 DEF ChainOK, Distinct
  <2>2. QED BY <1>0, <2>1
<1>8. \A u \in Threads : u # t => ~(th[u].pc \in {"link", "fill"} /\ th[u].at = e) BY DEF Inv, EntryInv
<1>9. \A u \in Threads : th'[u].pc = "copy" => th[u].pc = "copy" /\ th'[u] = th[u] /\ a # th[u].nht
  BY <1>0, <1>1, <1>2 DEF PlaceOK, Outside
<1>10. MemoryInv' BY <1>1, <1>5 DEF Inv, MemoryInv
<1>11. PlaceInv'
  <2> SUFFICES ASSUME NEW u \in Threads, u # t PROVE PlaceOK(u)' BY DEF PlaceInv
  <2>1. th'[u] = th[u] BY <1>1
  <2>2. PICK f : f = th[u].at OBVIOUS
  <2>3. PlaceOK(u) BY DEF Inv, PlaceInv
  <2>4. f = None \/ f \in Entries BY <2>2, LocalType DEF Inv
  <2>5. ASSUME f \in Entries, Inside(f) PROVE Inside(f)'
    <3>1. SUFFICES ASSUME tables[f[1]] # None PROVE Inside(f)'
      <4>1. f[1] \in 1 .. MaxTables BY <2>5, EntryType
      <4>2. QED BY <1>5, <4>1 DEF Inside
    <3>2. f[1] \in 1 .. MaxTables BY <2>5, EntryType
    <3>3. f[2] < tables[f[1]].size BY <2>5, <3>1 DEF Inside
    <3>4. f[2] < tables'[f[1]].size BY <1>5, <3>2, <3>3
    <3>5. f[3] # 0 => \E p \in 2 .. Len(Chain(f)) : Chain(f)[p] = f[3] BY <2>5, <3>1 DEF Inside
    <3>6. CASE f[1] # a \/ f[2] # i
      <4>1. Chain(f)' = Chain(f) BY <1>6, <2>5, <3>1, <3>3, <3>6
      <4>2. QED BY <3>4, <3>5, <4>1 DEF Inside
    <3>7. CASE f[1] = a /\ f[2] = i
      <4>1. Chain(f) = c /\ Chain(f)' = d BY <1>6, <2>5, <3>1, <3>3, <3>7
      <4>2. f[3] # 0 => \E p \in 2 .. Len(d) : d[p] = f[3] BY <1>7, <3>5, <4>1 DEF Grows
      <4>3. QED BY <3>4, <4>1, <4>2 DEF Inside
    <3>8. QED BY <3>6, <3>7
  <2>6. th[u].pc = "fill" /\ tables[f[1]] # None => Chain(f)' = Chain(f)
    <3>1. SUFFICES ASSUME th[u].pc = "fill", tables[f[1]] # None PROVE Chain(f)' = Chain(f) OBVIOUS
    <3>2. f \in Entries /\ f[3] = 0 /\ Inside(f) /\ f # e
      BY <1>8, <2>2, <2>3, <2>4, <3>1 DEF PlaceOK, Outside
    <3>3. f[1] # a \/ f[2] # i
      <4>1. f = <<f[1], f[2], f[3]>> /\ e = <<e[1], e[2], e[3]>> BY <3>2, EntryType
      <4>2. QED BY <1>0, <1>3, <3>2, <4>1
    <3>4. f[2] < tables[f[1]].size BY <3>1, <3>2 DEF Inside
    <3>5. QED BY <1>6, <3>1, <3>2, <3>3, <3>4
  <2>7. f \in Entries => /\ tables'[f[1]] # None <=> tables[f[1]] # None
                         /\ tables'[f[1]].size = tables[f[1]].size
    BY <1>5, EntryType
  <2>8. th[u].pc \in Outside => f \in Entries BY <2>2, <2>3, <2>4 DEF PlaceOK
  <2>9. \A v \in Threads : th'[v].pc = "copy" => th[v].pc = "copy" /\ th'[v].nht = th[v].nht BY <1>9
  <2>10. f # None => (Inside(f) => Inside(f)') BY <2>4, <2>5
  <2>11. QED BY <2>1, <2>2, <2>3, <2>6, <2>7, <2>8, <2>9, <2>10 DEF PlaceOK, Outside
<1>12. ChainInv'
  <2> SUFFICES ASSUME NEW b \in 1 .. MaxTables, tables'[b] # None, NEW j \in 0 .. tables'[b].size - 1
               PROVE  ChainOK(b, j)'
    BY DEF ChainInv
  <2>1. CASE b = a /\ j = i BY <1>0, <2>1
  <2>2. CASE b # a \/ j # i
    <3>1. tables[b] # None /\ tables'[b].size = tables[b].size /\ j \in 0 .. tables[b].size - 1 BY <1>5
    <3>2. tables'[b].chain[j] = tables[b].chain[j] BY <1>0, <2>2, <3>1
    <3>3. ChainOK(b, j) BY <3>1 DEF Inv, ChainInv
    <3>4. Base(b, j) # e BY <1>0, <2>2 DEF Base
    <3>5. \A u \in Threads : th[u].pc = "fill" /\ th[u].at = Base(b, j) => th'[u] = th[u] BY <1>1, <3>4
    <3>6. QED BY <3>1, <3>2, <3>3, <3>5 DEF ChainOK, Base
  <2>3. QED BY <2>1, <2>2
<1>13. ASSUME NEW b \in 1 .. MaxTables, tables[b] # None
       PROVE  KeysIn(b) \subseteq KeysIn(b)' /\ (b # a => KeysIn(b)' = KeysIn(b))
  <2>1. b # a => KeysIn(b)' = KeysIn(b) BY <1>0 DEF KeysIn
  <2>2. CASE b = a
    <3>1. SUFFICES ASSUME NEW k \in KeysIn(a) PROVE k \in KeysIn(a)' BY <2>1, <2>2
    <3>2. k # None /\ \E j \in 0 .. n - 1 : \E p \in DOMAIN tables[a].chain[j] : tables[a].chain[j][p] = k
      BY <1>0, <1>13, <2>2, <3>1, KeysAre DEF Inv
    <3>3. PICK j \in 0 .. n - 1 : \E p \in DOMAIN tables[a].chain[j] : tables[a].chain[j][p] = k BY <3>2
    <3>4. \E p \in DOMAIN tables'[a].chain[j] : tables'[a].chain[j][p] = k
      <4>1. CASE j # i BY <1>0, <3>3, <4>1
      <4>2. CASE j = i
        <5>1. PICK p \in DOMAIN c : c[p] = k BY <1>4, <3>3, <4>2
        <5>2. CASE p = 1
          <6>1. c # <<>> /\ c[1] # None BY <3>2, <5>1, <5>2
          <6>2. d # <<>> /\ d[1] = k BY <1>7, <5>1, <5>2, <6>1 DEF Grows
          <6>3. 1 \in DOMAIN d BY <6>2
          <6>4. QED BY <1>0, <4>2, <6>2, <6>3
        <5>3. CASE p # 1
          <6>1. p \in 2 .. Len(c) BY <1>4, <5>1, <5>3
          <6>2. p + 1 \in 2 .. Len(d) /\ d[p + 1] = k BY <1>7, <5>1, <6>1 DEF Grows
          <6>3. p + 1 \in DOMAIN d BY <6>2
          <6>4. QED BY <1>0, <4>2, <6>2, <6>3
        <5>4. QED BY <5>2, <5>3
      <4>3. QED BY <4>1, <4>2
    <3>5. TypeOK' /\ tables'[a] # None /\ tables'[a].size = n BY <1>0
    <3>6. PICK T : T = tables'[a] OBVIOUS
    <3>7. \E m \in Sizes : T \in TablesOf(m) BY <1>4, <3>5, <3>6 DEF TypeOK
    <3>8. k \in Content(T) BY <3>2, <3>3, <3>4, <3>5, <3>6, <3>7, ContentIs
    <3>9. QED BY <3>6, <3>8 DEF KeysIn, Content
  <2>3. QED BY <2>1, <2>2
<1>14. ASSUME NEW f \in Entries, tables[f[1]] # None, Inside(f), NEW k, k # None
       PROVE  (Ahead(k, f) => Ahead(k, f)') /\ (Passed(k, f) => Passed(k, f)')
  <2>1. f[1] \in 1 .. MaxTables /\ f[2] < tables[f[1]].size /\ tables'[f[1]].size = tables[f[1]].size
    BY <1>5, <1>14, EntryType DEF Inside
  <2>2. CASE f[1] # a \/ f[2] # i
    <3>1. Chain(f)' = Chain(f) BY <1>6, <1>14, <2>1, <2>2
    <3>2. Place(f)' = Place(f) BY <3>1 DEF Place
    <3>3. QED BY <2>1, <3>1, <3>2 DEF Ahead, Passed
  <2>3. CASE f[1] = a /\ f[2] = i
    <3>1. Chain(f) = c /\ Chain(f)' = d BY <1>6, <1>14, <2>1, <2>3
    <3>2. DOMAIN c = 1 .. Len(c) /\ DOMAIN d = 1 .. Len(d) /\ Len(c) \in Nat /\ Len(d) \in Nat BY <1>4
    <3>3. \A p \in DOMAIN c : p = 1 /\ c[p] = k => 1 \in DOMAIN d /\ d[1] = k BY <1>7, <1>14, <3>2 DEF Grows
    <3>4. \A p \in DOMAIN c : p # 1 /\ c[p] = k => p + 1 \in DOMAIN d /\ d[p + 1] = k BY <1>7, <3>2 DEF Grows
    <3>5. CASE f[3] = 0
      <4>1. Place(f) = 1 /\ Place(f)' = 1 BY <3>5 DEF Place
      <4>2. \A p \in DOMAIN c : p >= 1 /\ c[p] = k => \E q \in DOMAIN d : q >= 1 /\ d[q] = k BY <3>2, <3>3, <3>4
      <4>3. \A p \in DOMAIN c : ~(p < 1) BY <3>2
      <4>4. QED BY <2>1, <3>1, <4>1, <4>2, <4>3 DEF Ahead, Passed
    <3>6. CASE f[3] # 0
      <4>1. \E p \in 2 .. Len(c) : c[p] = f[3] BY <1>14, <3>1, <3>6 DEF Inside
      <4>2. PICK x : x = PlaceOf(f[3], c) OBVIOUS
      <4>3. x \in 2 .. Len(c) /\ PlaceOf(f[3], d) = x + 1 BY <1>4, <1>7, <4>1, <4>2, GrowsPlace
      <4>4. Place(f) = x /\ Place(f)' = x + 1 BY <3>1, <3>6, <4>2, <4>3 DEF Place
      <4>5. \A p \in DOMAIN c : p >= x /\ c[p] = k => p # 1 /\ p + 1 >= x + 1 BY <3>2, <4>3
      <4>6. \A p \in DOMAIN c : p < x /\ c[p] = k => 1 < x + 1 /\ p + 1 < x + 1 BY <3>2, <4>3
      <4>7. (\E p \in DOMAIN c : p >= x /\ c[p] = k) => \E p \in DOMAIN d : p >= x + 1 /\ d[p] = k BY <3>4, <4>5
      <4>8. (\E p \in DOMAIN c : p < x /\ c[p] = k) => \E p \in DOMAIN d : p < x + 1 /\ d[p] = k BY <3>3, <3>4, <4>6
      <4>9. QED BY <2>1, <3>1, <4>4, <4>7, <4>8 DEF Ahead, Passed
    <3>7. QED BY <3>5, <3>6
  <2>4. QED BY <2>2, <2>3
<1>15. KeptInv'
  <2>1. table # None => table \in 1 .. MaxTables /\ tables[table] # None BY DEF Inv, MemoryInv, TypeOK
  <2>2. (table # None => kept \subseteq KeysIn(table))'
    <3>1. SUFFICES ASSUME table # None PROVE kept \subseteq KeysIn(table)' OBVIOUS
    <3>2. PICK b : b = table OBVIOUS
    <3>3. KeysIn(b) \subseteq KeysIn(b)' BY <1>13, <2>1, <3>1, <3>2
    <3>4. KeysIn(b)' = KeysIn(table)' /\ KeysIn(b) = KeysIn(table) BY <3>2 DEF KeysIn
    <3>5. QED BY <3>1, <3>3, <3>4 DEF Inv, KeptInv
  <2>3. ASSUME NEW u \in Threads, th'[u].pc = "copy"
        PROVE  /\ th'[u].at = None => kept' \subseteq KeysIn(th[u].nht)'
               /\ th'[u].at # None => \A k \in kept' : k \in KeysIn(th[u].nht)' \/ Ahead(k, th[u].at)'
               /\ th'[u].at # None => \A k \in KeysIn(th[u].nht)' : Passed(k, th[u].at)'
    <3>1. th[u].pc = "copy" /\ th'[u] = th[u] /\ a # th[u].nht BY <1>9, <2>3
    <3>2. PICK f, b : f = th[u].at /\ b = th[u].nht OBVIOUS
    <3>3. b \in 1 .. MaxTables /\ tables[b] # None
      <4>1. old # <<>> /\ b = old[1] BY <3>1, <3>2 DEF Inv, MemoryInv
      <4>2. QED BY <4>1, OldFirst
    <3>4. KeysIn(b)' = KeysIn(b) BY <1>13, <3>1, <3>2, <3>3
    <3>5. ASSUME f # None, NEW k, k # None
          PROVE  (Ahead(k, f) => Ahead(k, f)') /\ (Passed(k, f) => Passed(k, f)')
      <4>1. PlaceOK(u) BY DEF Inv, PlaceInv
      <4>2. f \in Entries BY <3>2, <3>5, LocalType DEF Inv
      <4>3. Inside(f) /\ f[1] = table BY <3>1, <3>2, <3>5, <4>1 DEF PlaceOK, Outside
      <4>4. tables[f[1]] # None BY <3>1, <4>3, TableInUse
      <4>5. QED BY <1>14, <3>5, <4>2, <4>3, <4>4
    <3>6. kept \subseteq Keys BY DEF Inv, TypeOK
    <3>7. \A k \in KeysIn(b) : k # None BY DEF KeysIn
    <3>8. /\ f = None => kept \subseteq KeysIn(b)
          /\ f # None => \A k \in kept : k \in KeysIn(b) \/ Ahead(k, f)
          /\ f # None => \A k \in KeysIn(b) : Passed(k, f)
      BY <3>1, <3>2 DEF Inv, KeptInv
    <3>9. /\ f = None => kept' \subseteq KeysIn(b)'
          /\ f # None => \A k \in kept' : k \in KeysIn(b)' \/ Ahead(k, f)'
          /\ f # None => \A k \in KeysIn(b)' : Passed(k, f)'
      BY <3>4, <3>5, <3>6, <3>7, <3>8, NotNone
    <3>10. th'[u].at = f /\ th'[u].nht = b BY <3>1, <3>2
    <3>11. QED BY <3>9, <3>10
  <2>4. QED BY <2>2, <2>3 DEF KeptInv
<1>16. QED BY <1>10, <1>11, <1>12, <1>15

\* A table is replaced by another of its size.
LEMMA Replaced ==
  ASSUME TypeOK, NEW a \in 1 .. MaxTables, NEW n \in Sizes, NEW U \in TablesOf(n), tables' = [tables EXCEPT ![a] = U]
  PROVE  /\ DOMAIN tables' = 1 .. MaxTables
         /\ \A b \in 1 .. MaxTables : tables'[b] = None \/ \E m \in Sizes : tables'[b] \in TablesOf(m)
         /\ \A b \in 1 .. MaxTables : b # a => tables'[b] = tables[b]
         /\ tables'[a] = U /\ U # None /\ U.size = n
<1>1. U # None BY NotNone
<1>2. U.size = n BY DEF TablesOf
<1>3. DOMAIN tables' = 1 .. MaxTables /\ tables'[a] = U /\ \A b \in 1 .. MaxTables : b # a => tables'[b] = tables[b]
  BY DEF TypeOK
<1>4. \A b \in 1 .. MaxTables : tables'[b] = None \/ \E m \in Sizes : tables'[b] \in TablesOf(m) BY <1>3 DEF TypeOK
<1>5. QED BY <1>1, <1>2, <1>3, <1>4

\* What an insertion that holds its entry knows.
LEMMA Inserting ==
  ASSUME Inv, NEW t \in Threads, th[t].pc \in {"link", "fill"}, tables[th[t].at[1]] # None
  PROVE  LET e == th[t].at  T == tables[e[1]] IN
         /\ e \in Entries /\ e = Base(e[1], e[2]) /\ e[1] \in 1 .. MaxTables /\ e[2] \in 0 .. T.size - 1
         /\ e[1] <= made /\ th[t].key \in Keys /\ e[2] = Hash(th[t].key, T.size)
         /\ T.size \in Sizes /\ T.size \in Nat \ {0} /\ T \in TablesOf(T.size)
         /\ T.chain \in [0 .. T.size - 1 -> Seq(Keys \cup {None})]
         /\ T.chain[e[2]] \in Seq(Keys \cup {None}) /\ ChainOK(e[1], e[2])
         /\ \A u \in Threads : u # t => ~(th[u].pc = "fill" /\ th[u].at = e)
<1>1. PlaceOK(t) BY DEF Inv, PlaceInv
<1>2. th[t].at \in Entries /\ Inside(th[t].at) /\ th[t].at[3] = 0 BY <1>1, LocalType DEF PlaceOK, Outside, Inv
<1>3. PICK e, T : e = th[t].at /\ T = tables[e[1]] OBVIOUS
<1>4. e \in Entries /\ e[1] \in 1 .. MaxTables /\ e = Base(e[1], e[2]) BY <1>2, <1>3, EntryType DEF Base
<1>5. /\ e[2] \in 0 .. T.size - 1 /\ ChainOK(e[1], e[2]) BY <1>2, <1>3, EntryIn
<1>6. /\ T.size \in Sizes /\ T.size \in Nat \ {0} /\ T \in TablesOf(T.size)
      /\ T.chain \in [0 .. T.size - 1 -> Seq(Keys \cup {None})]
  BY <1>3, <1>4, TableType DEF Inv
<1>7. e[1] <= made /\ th[t].key \in Keys /\ e[2] = Hash(th[t].key, T.size) BY <1>1, <1>2, <1>3, NotNone DEF PlaceOK, Outside
<1>8. \A u \in Threads : u # t => ~(th[u].pc = "fill" /\ th[u].at = e) BY <1>3 DEF Inv, EntryInv
<1>9. T.chain[e[2]] \in Seq(Keys \cup {None}) BY <1>5, <1>6
<1>10. QED BY <1>3, <1>4, <1>5, <1>6, <1>7, <1>8, <1>9

\* An insertion marks an empty entry.
LEMMA InsertMarkStep ==
  ASSUME Inv, NEW t \in Threads, InsertMark(t)
  PROVE  Inv'
<1>0. PICK e, T, n, d : e = th[t].at /\ T = tables[e[1]] /\ n = T.size /\ d = <<None>> OBVIOUS
<1>21. PICK a, i : a = e[1] /\ i = e[2] OBVIOUS
<1> DEFINE l == [th[t] EXCEPT !.pc = "fill"]
<1>22. PICK f : f = [T.chain EXCEPT ![i] = d] OBVIOUS
<1>20. PICK U : U = [size |-> n, chain |-> f] OBVIOUS
<1>1. /\ th[t].pc = "link" /\ T # None /\ Chain(e) = <<>> /\ th' = [th EXCEPT ![t] = l]
      /\ UNCHANGED <<made, table, old, kept>> /\ UNCHANGED <<tableR, tableW, mutex, rd, wr, calls, alive>>
      /\ tables' = [tables EXCEPT ![e[1]].chain[e[2]] = d]
  BY <1>0, LocalType DEF InsertMark, Using, At, Goto, locks, Inv, TypeOK
<1>2. /\ e \in Entries /\ e = Base(e[1], e[2]) /\ e[1] \in 1 .. MaxTables /\ e[2] \in 0 .. n - 1
      /\ n \in Sizes /\ T \in TablesOf(n) /\ T.chain \in [0 .. n - 1 -> Seq(Keys \cup {None})]
  BY <1>0, <1>1, Inserting
<1>3. d \in Seq(Keys \cup {None}) /\ Len(d) = 1 /\ d[1] = None BY <1>0
<1>4. tables' = [tables EXCEPT ![e[1]] = U]
  <2>1. [T EXCEPT !.chain[i] = d] = [T EXCEPT !.chain = f] BY <1>2, <1>21, <1>22 DEF TablesOf
  <2>2. U = [T EXCEPT !.chain = f] BY <1>2, <1>20 DEF TablesOf
  <2>3. QED BY <1>0, <1>1, <1>2, <1>21, <2>1, <2>2 DEF Inv, TypeOK
<1>5. U \in TablesOf(n) /\ U.chain[e[2]] = d /\ \A j \in 0 .. n - 1 : j # e[2] => U.chain[j] = T.chain[j]
  <2>1. n \in Sizes /\ i \in 0 .. n - 1 /\ T.chain \in [0 .. n - 1 -> Seq(Keys \cup {None})] BY <1>2, <1>21
  <2>2. f \in [0 .. n - 1 -> Seq(Keys \cup {None})] /\ f[i] = d /\ \A j \in 0 .. n - 1 : j # i => f[j] = T.chain[j]
    BY <1>3, <1>22, <2>1
  <2>3. U \in TablesOf(n) /\ U.chain = f BY <1>20, <2>1, <2>2 DEF TablesOf
  <2>4. QED BY <1>21, <2>2, <2>3
<1>19. TypeOK BY DEF Inv
<1>6. /\ DOMAIN tables' = 1 .. MaxTables
      /\ \A b \in 1 .. MaxTables : tables'[b] = None \/ \E m \in Sizes : tables'[b] \in TablesOf(m)
      /\ \A b \in 1 .. MaxTables : b # e[1] => tables'[b] = tables[b]
      /\ tables'[e[1]] = U /\ U # None /\ U.size = n
  <2>1. a \in 1 .. MaxTables /\ n \in Sizes /\ U \in TablesOf(n) BY <1>2, <1>5, <1>21
  <2>2. tables' = [tables EXCEPT ![a] = U] BY <1>4, <1>21
  <2>3. /\ DOMAIN tables' = 1 .. MaxTables
        /\ \A b \in 1 .. MaxTables : tables'[b] = None \/ \E m \in Sizes : tables'[b] \in TablesOf(m)
        /\ \A b \in 1 .. MaxTables : b # a => tables'[b] = tables[b]
        /\ tables'[a] = U /\ U # None /\ U.size = n
    BY <1>19, <2>1, <2>2, Replaced
  <2>4. QED BY <1>21, <2>3
<1>7. l \in Locals /\ l.pc = "fill" /\ l.at = e /\ l.key = th[t].key BY <1>0, LocalType DEF Locals, Positions, Inv
<1> HIDE DEF l
<1>8. th' \in [Threads -> Locals] /\ th'[t] = l /\ Others(t) /\ \A u \in Threads : u # t => th'[u] = th[u]
  BY <1>1, <1>7, Moved DEF Inv
<1>9. TypeOK'
  <2>1. made' \in 1 .. MaxTables /\ table' \in 1 .. MaxTables \cup {None} /\ old' \in Seq(1 .. MaxTables) BY <1>1 DEF Inv, TypeOK
  <2>2. QED BY <1>1, <1>6, <1>8, <2>1 DEF Inv, TypeOK
<1>10. HeadInv' BY <1>1, <1>7, <1>8 DEF Inv, HeadInv, Holding
<1>11. EntryInv'
  <2>1. rd \subseteq Threads \X Entries /\ wr \subseteq Threads \X Entries BY DEF Inv, TypeOK
  <2>2. \A p \in rd \cup wr : p[1] \in Threads BY <2>1
  <2>3. \A x : OutOfUse(x) => OutOfUse(x)' BY <1>1, <1>7, <1>8 DEF OutOfUse
  <2>4. \A u \in Threads : /\ th'[u].at = th[u].at
                           /\ th'[u].pc \in {"link", "fill"} <=> th[u].pc \in {"link", "fill"}
                           /\ th'[u].pc \in {"walk", "read"} <=> th[u].pc \in {"walk", "read"}
    BY <1>0, <1>1, <1>7, <1>8
  <2>5. QED BY <1>1, <2>2, <2>3, <2>4 DEF Inv, EntryInv
<1>12. Chain(e)' = d BY <1>5, <1>6 DEF Chain
<1>13. PlaceOK(t)'
  <2>1. PlaceOK(t) BY DEF Inv, PlaceInv
  <2>2. th[t].key \in Keys /\ e[2] = Hash(th[t].key, n) /\ e[1] <= made BY <1>0, <1>1, Inserting
  <2>3. \A u \in Threads : th'[u].pc = "copy" => th[u].pc = "copy" /\ th'[u].nht = th[u].nht BY <1>7, <1>8
  <2>4. e # None /\ e[3] = 0 BY <1>2, NotNone, BaseType
  <2>5. Inside(e)'
    <3>1. e[2] < n BY <1>2, TableType, ResizeAssumption
    <3>2. QED BY <1>6, <2>4, <3>1 DEF Inside
  <2>6. \A u \in Threads : th'[u].pc = "copy" => e[1] # th'[u].nht BY <1>0, <1>1, <2>1, <2>3 DEF PlaceOK, Outside
  <2>7. QED BY <1>0, <1>1, <1>6, <1>7, <1>8, <1>12, <2>2, <2>4, <2>5, <2>6 DEF PlaceOK, Outside
<1>14. ChainOK(e[1], e[2])'
  <2>1. tables'[e[1]].chain[e[2]] = d BY <1>5, <1>6
  <2>2. DOMAIN d = {1} BY <1>0
  <2>3. th'[t].pc = "fill" /\ th'[t].at = Base(e[1], e[2]) BY <1>2, <1>7, <1>8
  <2>4. QED BY <1>0, <2>1, <2>2, <2>3, <1>3 DEF ChainOK, Base
<1>15. Grows(Chain(e), d) /\ Distinct(d)
  <2>1. Len(Chain(e)) = 0 BY <1>1
  <2>2. QED BY <1>0, <1>1, <2>1 DEF Grows, Distinct
<1>16. /\ th[t].at = e /\ tables[e[1]] # None /\ tables'[e[1]] # None /\ tables'[e[1]].size = tables[e[1]].size
       /\ tables'[e[1]].chain[e[2]] = d
       /\ \A j \in 0 .. tables[e[1]].size - 1 : j # e[2] => tables'[e[1]].chain[j] = tables[e[1]].chain[j]
  BY <1>0, <1>1, <1>5, <1>6
<1>17. MemoryInv' /\ PlaceInv' /\ ChainInv' /\ KeptInv'
  BY <1>1, <1>2, <1>3, <1>6, <1>7, <1>8, <1>9, <1>13, <1>14, <1>15, <1>16, WriteStep
<1>18. QED BY <1>9, <1>10, <1>11, <1>17 DEF Inv

\* The chain of an entry becomes d.
Written(e, d) ==
  /\ DOMAIN tables' = 1 .. MaxTables
  /\ \A b \in 1 .. MaxTables : b # e[1] => tables'[b] = tables[b]
  /\ tables'[e[1]] \in TablesOf(tables[e[1]].size)
  /\ tables'[e[1]].chain[e[2]] = d
  /\ \A j \in 0 .. tables[e[1]].size - 1 : j # e[2] => tables'[e[1]].chain[j] = tables[e[1]].chain[j]

\* The keys of a chain all hash to its entry.
Hashed(d, n, i) == \A p \in DOMAIN d : d[p] # None /\ Hash(d[p], n) = i

\* An insertion puts its key into the table and returns.
LEMMA LinkStep ==
  ASSUME Inv, NEW t \in Threads, th[t].pc \in {"link", "fill"}, NEW e, e = th[t].at, tables[e[1]] # None, Unlock(t),
         NEW d \in Seq(Keys \cup {None}), Written(e, d), Grows(Chain(e), d), Distinct(d),
         Hashed(d, tables[e[1]].size, e[2])
  PROVE  Inv'
<1>1. /\ wr' = wr \ {<<t, th[t].at>>} /\ th' = [th EXCEPT ![t] = Idle]
      /\ UNCHANGED <<made, table, old, kept>> /\ UNCHANGED <<tableR, tableW, mutex, rd, calls, alive>>
  BY DEF Unlock, Return
<1>2. /\ HeadInv' /\ EntryInv' /\ th' \in [Threads -> Locals] /\ wr' \subseteq Threads \X Entries
      /\ th'[t] = Idle /\ Others(t)
  BY <1>1, UnlockStep
<1>3. e \in Entries /\ e[1] \in 1 .. MaxTables /\ e[2] \in 0 .. tables[e[1]].size - 1 /\ tables[e[1]].size \in Sizes
  BY Inserting
<1>4. PICK U : U = tables'[e[1]] OBVIOUS
<1>5. /\ DOMAIN tables' = 1 .. MaxTables
      /\ \A b \in 1 .. MaxTables : tables'[b] = None \/ \E m \in Sizes : tables'[b] \in TablesOf(m)
      /\ \A b \in 1 .. MaxTables : b # e[1] => tables'[b] = tables[b]
      /\ tables'[e[1]] # None /\ tables'[e[1]].size = tables[e[1]].size /\ tables'[e[1]].chain[e[2]] = d
  <2>1. /\ DOMAIN tables' = 1 .. MaxTables /\ \A b \in 1 .. MaxTables : b # e[1] => tables'[b] = tables[b]
        /\ U \in TablesOf(tables[e[1]].size) /\ tables'[e[1]].chain[e[2]] = d
    BY <1>4 DEF Written
  <2>2. U # None BY <1>3, <2>1, NotNone
  <2>3. U.size = tables[e[1]].size BY <2>1 DEF TablesOf
  <2>4. \A b \in 1 .. MaxTables : tables'[b] = None \/ \E m \in Sizes : tables'[b] \in TablesOf(m)
    BY <1>3, <1>4, <2>1 DEF Inv, TypeOK
  <2>5. QED BY <1>4, <2>1, <2>2, <2>3, <2>4
<1>6. TypeOK'
  <2>1. made' \in 1 .. MaxTables /\ table' \in 1 .. MaxTables \cup {None} /\ old' \in Seq(1 .. MaxTables) BY <1>1 DEF Inv, TypeOK
  <2>2. QED BY <1>1, <1>2, <1>5, <2>1 DEF Inv, TypeOK
<1>7. PlaceOK(t)' BY <1>2, IdleOK
<1>11. tables'[e[1]].chain[e[2]] = d /\ tables'[e[1]].size = tables[e[1]].size BY <1>5
<1>8. ChainOK(e[1], e[2])'
  <2>1. PICK a, i : a = e[1] /\ i = e[2] OBVIOUS
  <2>2. \A p, q \in DOMAIN d : d[p] = d[q] => p = q BY DEF Distinct
  <2>3. \A p \in DOMAIN d : d[p] # None /\ Hash(d[p], tables'[a].size) = i BY <1>11, <2>1 DEF Hashed
  <2>4. tables'[a].chain[i] = d BY <1>11, <2>1
  <2>5. ChainOK(a, i)' BY <2>2, <2>3, <2>4 DEF ChainOK
  <2>6. QED BY <2>1, <2>5
<1>12. th[t].at = e /\ tables'[e[1]] # None /\ th'[t].pc \in {"idle", "fill"} BY <1>2, <1>5, IdleType
<1>13. \A j \in 0 .. tables[e[1]].size - 1 : j # e[2] => tables'[e[1]].chain[j] = tables[e[1]].chain[j] BY DEF Written
<1>9. MemoryInv' /\ PlaceInv' /\ ChainInv' /\ KeptInv'
  BY <1>1, <1>2, <1>3, <1>5, <1>6, <1>7, <1>8, <1>11, <1>12, <1>13, WriteStep
<1>10. QED BY <1>2, <1>6, <1>9 DEF Inv

\* An insertion gives the entry that it marked its key.
LEMMA InsertFillStep ==
  ASSUME Inv, NEW t \in Threads, InsertFill(t)
  PROVE  Inv'
<1>0. PICK e, T, n, k : e = th[t].at /\ T = tables[e[1]] /\ n = T.size /\ k = th[t].key OBVIOUS
<1>1. PICK a, i : a = e[1] /\ i = e[2] OBVIOUS
<1>2. PICK d : d = <<k>> OBVIOUS
<1>3. PICK f : f = [T.chain EXCEPT ![i] = d] OBVIOUS
<1>4. PICK U : U = [size |-> n, chain |-> f] OBVIOUS
<1>5. th[t].pc = "fill" /\ T # None /\ Unlock(t) /\ tables' = [tables EXCEPT ![a].chain[i][1] = k]
  BY <1>0, <1>1 DEF InsertFill, Using, At
<1>6. /\ e \in Entries /\ a \in 1 .. MaxTables /\ i \in 0 .. n - 1 /\ k \in Keys /\ i = Hash(k, n)
      /\ n \in Sizes /\ T \in TablesOf(n) /\ T.chain \in [0 .. n - 1 -> Seq(Keys \cup {None})]
  BY <1>0, <1>1, <1>5, Inserting
<1>7. T.chain[i] = <<None>> /\ Chain(e) = <<None>>
  <2>1. PlaceOK(t) BY DEF Inv, PlaceInv
  <2>2. QED BY <1>0, <1>1, <1>5, <2>1 DEF PlaceOK, Chain
<1>8. d \in Seq(Keys \cup {None}) /\ DOMAIN d = {1} /\ d[1] = k BY <1>2, <1>6
<1>9. tables' = [tables EXCEPT ![a] = U]
  <2>1. [T.chain[i] EXCEPT ![1] = k] = d BY <1>2, <1>7
  <2>2. [T EXCEPT !.chain[i][1] = k] = [T EXCEPT !.chain = f] BY <1>3, <1>6, <2>1 DEF TablesOf
  <2>3. U = [T EXCEPT !.chain = f] BY <1>4, <1>6 DEF TablesOf
  <2>4. QED BY <1>0, <1>1, <1>5, <1>6, <2>2, <2>3 DEF Inv, TypeOK
<1>10. f \in [0 .. n - 1 -> Seq(Keys \cup {None})] /\ f[i] = d /\ \A j \in 0 .. n - 1 : j # i => f[j] = T.chain[j]
  BY <1>3, <1>6, <1>8
<1>11. U \in TablesOf(n) /\ U.chain = f BY <1>4, <1>6, <1>10 DEF TablesOf
<1>12. Grows(Chain(e), d) /\ Distinct(d)
  <2>1. Len(Chain(e)) = 1 /\ Chain(e)[1] = None BY <1>7
  <2>2. QED BY <1>8, <2>1 DEF Grows, Distinct
<1>13. \A p \in DOMAIN d : d[p] # None /\ Hash(d[p], n) = i BY <1>6, <1>8, NotNone
<1>14. tables[e[1]] # None /\ Hashed(d, tables[e[1]].size, e[2]) BY <1>0, <1>1, <1>5, <1>13 DEF Hashed
<1>15. Written(e, d)
  <2>1. /\ DOMAIN tables' = 1 .. MaxTables /\ tables'[a] = U
        /\ \A b \in 1 .. MaxTables : b # a => tables'[b] = tables[b]
    BY <1>6, <1>9 DEF Inv, TypeOK
  <2>2. QED BY <1>0, <1>1, <1>10, <1>11, <2>1 DEF Written
<1>16. QED BY <1>0, <1>5, <1>8, <1>12, <1>14, <1>15, LinkStep

\* A key that is not in a chain is linked into it.
LEMMA LinkedGood ==
  ASSUME NEW c \in Seq(Keys \cup {None}), NEW k \in Keys, k \notin Elements(c), NEW n, NEW i, Hash(k, n) = i,
         Distinct(c), Hashed(c, n, i), NEW d, d = LinkedChain(c, k)
  PROVE  /\ d \in Seq(Keys \cup {None}) /\ Distinct(d) /\ Hashed(d, n, i) /\ Grows(c, d)
         /\ Elements(d) = {k} \cup Elements(c)
<1>0. \A p \in DOMAIN c : c[p] # k BY DEF Elements
<1>1. k # None BY NotNone
<1>2. CASE c = <<>>
  <2>1. d = <<k>> BY <1>2 DEF LinkedChain
  <2>2. d \in Seq(Keys \cup {None}) /\ DOMAIN d = {1} /\ d[1] = k BY <2>1
  <2>3. DOMAIN c = {} /\ Len(c) = 0 BY <1>2
  <2>4. Distinct(d) /\ Hashed(d, n, i) BY <1>1, <2>2 DEF Distinct, Hashed
  <2>5. Grows(c, d) BY <1>2, <2>3 DEF Grows
  <2>6. Elements(d) = {k} \cup Elements(c) BY <2>2, <2>3 DEF Elements
  <2>7. QED BY <2>2, <2>4, <2>5, <2>6
<1>3. CASE c # <<>>
  <2>1. d = <<c[1], k>> \o Tail(c) BY <1>3 DEF LinkedChain
  <2>2. /\ d \in Seq(Keys \cup {None}) /\ Len(d) = Len(c) + 1 /\ d[1] = c[1] /\ d[2] = k
        /\ \A p \in 2 .. Len(c) : d[p + 1] = c[p]
        /\ \A p \in 3 .. Len(d) : p - 1 \in 2 .. Len(c) /\ d[p] = c[p - 1]
    BY <1>3, <2>1, Behind
  <2>3. Len(c) \in Nat \ {0} /\ DOMAIN c = 1 .. Len(c) /\ DOMAIN d = 1 .. Len(c) + 1 BY <1>3, <2>2
  <2>4. ASSUME NEW p \in DOMAIN d
        PROVE  \/ p = 1 /\ d[p] = c[1]
               \/ p = 2 /\ d[p] = k
               \/ p >= 3 /\ p - 1 \in 2 .. Len(c) /\ p - 1 \in DOMAIN c /\ d[p] = c[p - 1]
    <3>1. p \in 1 .. Len(c) + 1 BY <2>3
    <3>2. p = 1 \/ p = 2 \/ p \in 3 .. Len(d) BY <2>2, <2>3, <3>1
    <3>3. QED BY <2>2, <2>3, <3>2
  <2>5. 1 \in DOMAIN c BY <2>3
  <2>6. Distinct(d)
    <3>1. SUFFICES ASSUME NEW p \in DOMAIN d, NEW q \in DOMAIN d, d[p] = d[q], p < q PROVE FALSE
      BY <2>3 DEF Distinct
    <3>2. p \in Nat /\ q \in Nat BY <2>3
    <3>3. q = 2 \/ (q >= 3 /\ q - 1 \in 2 .. Len(c) /\ q - 1 \in DOMAIN c /\ d[q] = c[q - 1]) BY <2>3, <2>4, <3>1
    <3>4. CASE q = 2
      <4>1. p = 1 BY <2>3, <3>1, <3>4
      <4>2. QED BY <1>0, <2>2, <2>5, <3>1, <3>4, <4>1
    <3>5. CASE q >= 3 /\ q - 1 \in 2 .. Len(c) /\ q - 1 \in DOMAIN c /\ d[q] = c[q - 1]
      <4>1. CASE p = 1
        <5>1. c[1] = c[q - 1] /\ q - 1 # 1 BY <2>2, <3>1, <3>2, <3>5, <4>1
        <5>2. QED BY <2>5, <3>5, <5>1 DEF Distinct
      <4>2. CASE p = 2 BY <1>0, <2>2, <3>1, <3>5, <4>2
      <4>3. CASE p >= 3 /\ p - 1 \in DOMAIN c /\ d[p] = c[p - 1]
        <5>1. c[p - 1] = c[q - 1] /\ p - 1 # q - 1 BY <3>1, <3>2, <3>5, <4>3
        <5>2. QED BY <3>5, <4>3, <5>1 DEF Distinct
      <4>4. QED BY <2>4, <4>1, <4>2, <4>3
    <3>6. QED BY <3>3, <3>4, <3>5
  <2>7. Hashed(d, n, i) BY <1>1, <2>4, <2>5 DEF Hashed
  <2>8. Grows(c, d)
    <3>1. \A p \in 2 .. Len(c) : p + 1 \in 2 .. Len(d) BY <2>2, <2>3
    <3>2. d # <<>> BY <2>2, <2>3
    <3>3. QED BY <2>2, <3>1, <3>2 DEF Grows
  <2>9. \A p \in DOMAIN d : d[p] = k \/ \E q \in DOMAIN c : c[q] = d[p] BY <2>4, <2>5
  <2>10. \E p \in DOMAIN d : d[p] = k BY <2>2, <2>3
  <2>11. ASSUME NEW p \in DOMAIN c PROVE \E q \in DOMAIN d : d[q] = c[p]
    <3>1. CASE p = 1 BY <2>2, <2>3, <3>1
    <3>2. CASE p # 1
      <4>1. p \in 2 .. Len(c) /\ p + 1 \in DOMAIN d BY <2>3, <3>2
      <4>2. QED BY <2>2, <4>1
    <3>3. QED BY <3>1, <3>2
  <2>12. Elements(d) = {k} \cup Elements(c)
    <3>1. \A x : x \in Elements(d) => x \in {k} \cup Elements(c) BY <2>9 DEF Elements
    <3>2. \A x : x \in {k} \cup Elements(c) => x \in Elements(d) BY <2>10, <2>11 DEF Elements
    <3>3. QED BY <3>1, <3>2
  <2>13. QED BY <2>2, <2>6, <2>7, <2>8, <2>12
<1>4. QED BY <1>2, <1>3

\* An insertion links its key behind the first one.
LEMMA InsertLinkStep ==
  ASSUME Inv, NEW t \in Threads, NEW e, e = th[t].at, Using(t, "link"), Chain(e) # <<>>,
         th[t].key \notin Elements(Chain(e)), tables' = [tables EXCEPT ![e[1]] = Linked(@, th[t].key)], Unlock(t)
  PROVE  Inv'
<1>0. PICK T, n, k, a, i : T = tables[e[1]] /\ n = T.size /\ k = th[t].key /\ a = e[1] /\ i = e[2] OBVIOUS
<1>1. PICK U : U = Linked(T, k) OBVIOUS
<1>2. PICK c : c = T.chain[i] OBVIOUS
<1>3. PICK d : d = <<c[1], k>> \o Tail(c) OBVIOUS
<1>4. th[t].pc = "link" /\ T # None BY <1>0 DEF Using, At
<1>5. /\ e \in Entries /\ e = Base(a, i) /\ a \in 1 .. MaxTables /\ i \in 0 .. n - 1 /\ k \in Keys /\ i = Hash(k, n)
      /\ n \in Sizes /\ T \in TablesOf(n) /\ c \in Seq(Keys \cup {None}) /\ ChainOK(a, i)
      /\ \A u \in Threads : u # t => ~(th[u].pc = "fill" /\ th[u].at = e)
  BY <1>0, <1>2, <1>4, Inserting
<1>6. Chain(e) = c /\ c # <<>> BY <1>0, <1>2 DEF Chain
<1>7. /\ U \in TablesOf(n) /\ \A j \in 0 .. n - 1 : j # i => U.chain[j] = T.chain[j]
      /\ U.chain[i] = LinkedChain(c, k)
  BY <1>1, <1>2, <1>5, LinkedDoes
<1>8. U.chain[i] = d BY <1>3, <1>6, <1>7 DEF LinkedChain
<1>9. k \notin Elements(c) BY <1>0, <1>6
<1>10. Distinct(c) /\ Hashed(c, n, i)
  <2>1. /\ \A p, q \in DOMAIN c : c[p] = c[q] => p = q
        /\ \A p \in DOMAIN c : c[p] # None => Hash(c[p], n) = i
        /\ \A p \in DOMAIN c : c[p] = None => \E u \in Threads : th[u].pc = "fill" /\ th[u].at = Base(a, i)
    BY <1>0, <1>2, <1>5 DEF ChainOK
  <2>2. \A u \in Threads : ~(th[u].pc = "fill" /\ th[u].at = Base(a, i)) BY <1>4, <1>5
  <2>3. QED BY <2>1, <2>2 DEF Distinct, Hashed
<1>11. d \in Seq(Keys \cup {None}) /\ Distinct(d) /\ Hashed(d, n, i) /\ Grows(c, d)
  <2>1. d = LinkedChain(c, k) /\ Hash(k, n) = i BY <1>5, <1>7, <1>8
  <2>2. QED BY <1>5, <1>9, <1>10, <2>1, LinkedGood, Zenon
<1>18. Written(e, d)
  <2>1. tables' = [tables EXCEPT ![a] = U] BY <1>0, <1>1
  <2>2. /\ DOMAIN tables' = 1 .. MaxTables /\ tables'[a] = U
        /\ \A b \in 1 .. MaxTables : b # a => tables'[b] = tables[b]
    BY <1>5, <2>1 DEF Inv, TypeOK
  <2>3. QED BY <1>0, <1>7, <1>8, <2>2 DEF Written
<1>19. tables[e[1]] # None /\ Hashed(d, tables[e[1]].size, e[2]) /\ Grows(Chain(e), d)
  BY <1>0, <1>4, <1>6, <1>11
<1>20. QED BY <1>4, <1>11, <1>18, <1>19, LinkStep

\* The ends of an insertion.
LEMMA InsertEndStep ==
  ASSUME Inv, NEW t \in Threads, InsertExists(t) \/ InsertChained(t)
  PROVE  Inv'
<1>1. CASE InsertExists(t)
  <2>1. th[t].pc = "link" /\ UNCHANGED tables /\ Unlock(t) BY <1>1 DEF InsertExists, Using, At
  <2>2. QED BY <2>1, NothingLinkedStep
<1>2. CASE InsertChained(t)
  <2>1. PICK e : e = th[t].at OBVIOUS
  <2>2. CASE UNCHANGED tables /\ Unlock(t)
    <3>1. th[t].pc = "link" BY <1>2 DEF InsertChained, Using, At
    <3>2. QED BY <2>2, <3>1, NothingLinkedStep
  <2>3. CASE tables' = [tables EXCEPT ![e[1]] = Linked(@, th[t].key)] /\ Unlock(t)
    <3>1. Using(t, "link") /\ Chain(e) # <<>> /\ th[t].key \notin Elements(Chain(e)) BY <1>2, <2>1 DEF InsertChained
    <3>2. QED BY <2>1, <2>3, <3>1, InsertLinkStep
  <2>4. QED BY <1>2, <2>1, <2>2, <2>3 DEF InsertChained
<1>3. QED BY <1>1, <1>2
-----------------------------------------------------------------------------
(* ht_resize changes the list of tables.                                   *)

\* A table goes on the chain of old ones.
LEMMA Pushed ==
  ASSUME NEW s \in Seq(1 .. MaxTables), NEW x \in 1 .. MaxTables, NEW r, r = <<x>> \o s
  PROVE  /\ r \in Seq(1 .. MaxTables) /\ r # <<>> /\ r[1] = x /\ Elements(r) = {x} \cup Elements(s)
         /\ x \notin Elements(s) /\ Distinct(s) => Distinct(r)
<1>1. r \in Seq(1 .. MaxTables) /\ Len(r) = Len(s) + 1 /\ r[1] = x /\ \A j \in 1 .. Len(s) : r[j + 1] = s[j] OBVIOUS
<1>2. DOMAIN s = 1 .. Len(s) /\ DOMAIN r = 1 .. Len(s) + 1 /\ Len(s) \in Nat BY <1>1
<1>3. r # <<>> BY <1>1, <1>2
<1>4. ASSUME NEW p \in DOMAIN r PROVE p = 1 \/ (p - 1 \in DOMAIN s /\ r[p] = s[p - 1] /\ p \in Nat)
  <2>1. p \in Nat /\ (p = 1 \/ p - 1 \in 1 .. Len(s)) /\ (p - 1) + 1 = p BY <1>2
  <2>2. p - 1 \in 1 .. Len(s) => r[(p - 1) + 1] = s[p - 1] BY <1>1
  <2>3. QED BY <1>2, <2>1, <2>2
<1>5. \A p \in DOMAIN s : p + 1 \in DOMAIN r /\ r[p + 1] = s[p] BY <1>1, <1>2
<1>6. 1 \in DOMAIN r BY <1>2
<1>7. Elements(r) = {x} \cup Elements(s)
  <2>1. \A y : y \in Elements(r) => y \in {x} \cup Elements(s) BY <1>1, <1>4 DEF Elements
  <2>2. \A y : y \in {x} \cup Elements(s) => y \in Elements(r) BY <1>1, <1>5, <1>6 DEF Elements
  <2>3. QED BY <2>1, <2>2
<1>8. ASSUME x \notin Elements(s), Distinct(s) PROVE Distinct(r)
  <2>1. \A p \in DOMAIN s : s[p] # x BY <1>8 DEF Elements
  <2>2. SUFFICES ASSUME NEW p \in DOMAIN r, NEW q \in DOMAIN r, r[p] = r[q] PROVE p = q BY DEF Distinct
  <2>3. p = 1 \/ (p - 1 \in DOMAIN s /\ r[p] = s[p - 1] /\ p \in Nat) BY <1>4
  <2>4. q = 1 \/ (q - 1 \in DOMAIN s /\ r[q] = s[q - 1] /\ q \in Nat) BY <1>4
  <2>5. p # 1 /\ q # 1 => p - 1 = q - 1 BY <1>8, <2>2, <2>3, <2>4 DEF Distinct
  <2>6. QED BY <1>1, <2>1, <2>2, <2>3, <2>4, <2>5
<1>9. QED BY <1>1, <1>3, <1>7, <1>8

\* The first one is taken off.
LEMMA Popped ==
  ASSUME NEW S, NEW s \in Seq(S), s # <<>>, Distinct(s)
  PROVE  /\ Tail(s) \in Seq(S) /\ Elements(s) = {s[1]} \cup Elements(Tail(s)) /\ s[1] \notin Elements(Tail(s))
         /\ Distinct(Tail(s))
<1>1. PICK r : r = Tail(s) OBVIOUS
<1>2. Len(s) \in Nat \ {0} /\ DOMAIN s = 1 .. Len(s) OBVIOUS
<1>3. r \in Seq(S) /\ Len(r) = Len(s) - 1 /\ DOMAIN r = 1 .. Len(s) - 1 /\ \A j \in 1 .. Len(s) - 1 : r[j] = s[j + 1]
  BY <1>1, <1>2
<1>4. \A p \in DOMAIN r : p \in Nat /\ p # 0 /\ p + 1 \in DOMAIN s /\ r[p] = s[p + 1] BY <1>2, <1>3
<1>5. ASSUME NEW p \in DOMAIN s, p # 1 PROVE p - 1 \in DOMAIN r /\ r[p - 1] = s[p]
  <2>1. p - 1 \in 1 .. Len(s) - 1 /\ (p - 1) + 1 = p BY <1>2, <1>5
  <2>2. r[p - 1] = s[(p - 1) + 1] BY <1>3, <2>1
  <2>3. QED BY <1>3, <2>1, <2>2
<1>6. 1 \in DOMAIN s BY <1>2
<1>7. Elements(s) = {s[1]} \cup Elements(r)
  <2>1. \A y : y \in Elements(s) => y \in {s[1]} \cup Elements(r) BY <1>5 DEF Elements
  <2>2. \A y : y \in {s[1]} \cup Elements(r) => y \in Elements(s) BY <1>4, <1>6 DEF Elements
  <2>3. QED BY <2>1, <2>2
<1>8. s[1] \notin Elements(r)
  <2>1. SUFFICES ASSUME NEW p \in DOMAIN r, s[1] = r[p] PROVE FALSE BY DEF Elements
  <2>2. p + 1 = 1 BY <1>4, <1>6, <2>1 DEF Distinct
  <2>3. QED BY <1>4, <2>2
<1>9. Distinct(r)
  <2>1. SUFFICES ASSUME NEW p \in DOMAIN r, NEW q \in DOMAIN r, r[p] = r[q] PROVE p = q BY DEF Distinct
  <2>2. p + 1 = q + 1 BY <1>4, <2>1 DEF Distinct
  <2>3. QED BY <1>4, <2>2
<1>10. QED BY <1>1, <1>3, <1>7, <1>8, <1>9

\* The old tables are freed.
LEMMA FreeStep ==
  ASSUME Inv, NEW t \in Threads, Others(t), th[t].pc \in Holding, th'[t] = Idle, Freed(Elements(old)), old' = <<>>,
         UNCHANGED <<made, table, kept>>
  PROVE  /\ DOMAIN tables' = 1 .. MaxTables
         /\ \A a \in 1 .. MaxTables : tables'[a] = None \/ \E n \in Sizes : tables'[a] \in TablesOf(n)
         /\ old' \in Seq(1 .. MaxTables)
         /\ MemoryInv' /\ PlaceInv' /\ ChainInv' /\ KeptInv'
<1>1. \A u \in Threads : u # t => th'[u] = th[u] BY DEF Others
<1>2. tables' = [a \in 1 .. MaxTables |-> IF a \in Elements(old) THEN None ELSE tables[a]] BY DEF Freed
<1>3. /\ DOMAIN tables' = 1 .. MaxTables
      /\ \A a \in 1 .. MaxTables : a \in Elements(old) => tables'[a] = None
      /\ \A a \in 1 .. MaxTables : a \notin Elements(old) => tables'[a] = tables[a]
  BY <1>2
<1>4. \A a \in 1 .. MaxTables : tables'[a] = None \/ \E n \in Sizes : tables'[a] \in TablesOf(n) BY <1>3 DEF Inv, TypeOK
<1>5. \A a \in 1 .. MaxTables : tables'[a] # None => a = table /\ tables'[a] = tables[a] BY <1>3 DEF Inv, MemoryInv
<1>6. \A u \in Threads : th'[u].pc \notin Holding BY <1>1, OneHolder, IdleType DEF Holding
<1>7. table # None BY DEF Inv, HeadInv, Holding
<1>8. table \in 1 .. MaxTables /\ tables'[table] = tables[table] /\ tables[table] # None
  <2>1. table \in 1 .. MaxTables /\ tables[table] # None BY TableInUse DEF Holding
  <2>2. table \notin Elements(old) BY DEF Inv, MemoryInv
  <2>3. QED BY <1>3, <2>1, <2>2
<1>9. old' \in Seq(1 .. MaxTables) /\ DOMAIN old' = {} /\ Elements(old)' = {} BY DEF Elements
<1>10. MemoryInv'
  <2>1. (\A a \in 1 .. MaxTables : tables[a] # None <=> a \in Elements(old) \/ a = table)' BY <1>5, <1>8, <1>9
  <2>2. (Elements(old) \cup ({table} \ {None}) \subseteq 1 .. made)' BY <1>9 DEF Inv, MemoryInv
  <2>3. (\A u \in Threads : th[u].pc \in {"copy", "sweep", "chain"} => old # <<>>)' BY <1>6 DEF Holding
  <2>4. (\A u \in Threads : th[u].pc = "copy" => th[u].nht = old[1])' BY <1>6 DEF Holding
  <2>5. QED BY <1>9, <2>1, <2>2, <2>3, <2>4 DEF MemoryInv
<1>11. PlaceInv'
  <2> SUFFICES ASSUME NEW u \in Threads PROVE PlaceOK(u)' BY DEF PlaceInv
  <2>1. CASE u = t BY <2>1, IdleOK
  <2>2. CASE u # t
    <3>1. th'[u] = th[u] /\ PlaceOK(u) BY <1>1, <2>2 DEF Inv, PlaceInv
    <3>2. PICK f : f = th[u].at OBVIOUS
    <3>3. f = None \/ f \in Entries BY <3>2, LocalType DEF Inv
    <3>4. f \in Entries => (tables'[f[1]] # None => tables'[f[1]] = tables[f[1]]) BY <1>5, EntryType
    <3>5. f \in Entries /\ tables'[f[1]] # None => Chain(f)' = Chain(f) BY <3>4 DEF Chain
    <3>6. f \in Entries => (Inside(f) => Inside(f)') BY <3>4, <3>5 DEF Inside
    <3>7. th[u].pc \notin Holding /\ \A v \in Threads : th'[v].pc # "copy" BY <1>6, <3>1 DEF Holding
    <3>8. th[u].pc \in Outside => f \in Entries BY <3>1, <3>2, <3>3 DEF PlaceOK
    <3>9. QED BY <3>1, <3>2, <3>3, <3>4, <3>5, <3>6, <3>7, <3>8 DEF PlaceOK, Outside, Holding
  <2>3. QED BY <2>1, <2>2
<1>12. ChainInv'
  <2> SUFFICES ASSUME NEW a \in 1 .. MaxTables, tables'[a] # None, NEW i \in 0 .. tables'[a].size - 1
               PROVE  ChainOK(a, i)'
    BY DEF ChainInv
  <2>1. tables'[a] = tables[a] BY <1>5
  <2>2. ChainOK(a, i) BY <2>1 DEF Inv, ChainInv
  <2>3. \A u \in Threads : th[u].pc = "fill" => th'[u] = th[u] BY <1>1 DEF Holding
  <2>4. QED BY <2>1, <2>2, <2>3 DEF ChainOK, Base
<1>13. KeptInv'
  <2>1. KeysIn(table)' = KeysIn(table) BY <1>8 DEF KeysIn
  <2>2. kept \subseteq KeysIn(table) BY <1>7 DEF Inv, KeptInv
  <2>3. QED BY <1>6, <2>1, <2>2 DEF KeptInv, Holding
<1>14. QED BY <1>3, <1>4, <1>9, <1>10, <1>11, <1>12, <1>13

\* The copy fails, or the resize is done.
LEMMA ResizeEndStep ==
  ASSUME Inv, NEW t \in Threads, ResizeCopyFails(t) \/ ResizeDestroy(t)
  PROVE  Inv'
<1>1. /\ th[t].pc \in {"copy", "destroy"} /\ Freed(Elements(old)) /\ old' = <<>> /\ mutex' = None
      /\ th' = [th EXCEPT ![t] = Idle] /\ UNCHANGED <<made, table, kept>> /\ UNCHANGED <<tableW, rd, wr, calls, alive>>
      /\ \/ th[t].pc = "copy" /\ tableR' = tableR \ {t}
         \/ th[t].pc = "destroy" /\ tableR' = tableR
  BY DEF ResizeCopyFails, CannotCopy, ResizeDestroy, GiveUp, At, Return
<1>2. th' \in [Threads -> Locals] /\ th'[t] = Idle /\ Others(t) /\ \A u \in Threads : u # t => th'[u] = th[u]
  BY <1>1, IdleType, Moved DEF Inv
<1>3. th[t].pc \in Holding BY <1>1 DEF Holding
<1>4. /\ DOMAIN tables' = 1 .. MaxTables
      /\ \A a \in 1 .. MaxTables : tables'[a] = None \/ \E n \in Sizes : tables'[a] \in TablesOf(n)
      /\ old' \in Seq(1 .. MaxTables)
      /\ MemoryInv' /\ PlaceInv' /\ ChainInv' /\ KeptInv'
  BY <1>1, <1>2, <1>3, FreeStep
<1>5. TypeOK'
  <2>1. tableR' \subseteq Threads BY <1>1 DEF Inv, TypeOK
  <2>2. QED BY <1>1, <1>2, <1>4, <2>1 DEF Inv, TypeOK
<1>6. HeadInv' BY <1>1, <1>2, IdleType, NotNone DEF Inv, HeadInv, Holding
<1>7. EntryInv' BY <1>1, <1>2, IdleType, NoEntryStep
<1>8. QED BY <1>4, <1>5, <1>6, <1>7 DEF Inv

\* The head gets the new table.
LEMMA ResizeSwapStep ==
  ASSUME Inv, NEW t \in Threads, ResizeSwap(t)
  PROVE  Inv'
<1>0. PICK a, b, e : a = table /\ b = th[t].nht /\ e = Base(a, 0) OBVIOUS
<1> DEFINE l == [th[t] EXCEPT !.pc = "sweep", !.at = e]
<1>1. /\ th[t].pc = "copy" /\ th[t].at = None /\ table' = b /\ old' = <<a>> \o Tail(old) /\ tableR' = tableR \ {t}
      /\ th' = [th EXCEPT ![t] = l] /\ UNCHANGED <<tables, made, kept>> /\ UNCHANGED <<tableW, mutex, rd, wr, calls, alive>>
  BY <1>0, LocalType DEF ResizeSwap, At, Inv, TypeOK
<1>2. a \in 1 .. MaxTables /\ tables[a] # None /\ a <= made /\ tables[a].size \in Nat \ {0}
  BY <1>0, <1>1, TableInUse
<1>3. old # <<>> /\ b = old[1] /\ old \in Seq(1 .. MaxTables) /\ Distinct(old) /\ a \notin Elements(old)
  BY <1>0, <1>1 DEF Inv, MemoryInv, TypeOK, Distinct
<1>4. b \in 1 .. MaxTables /\ tables[b] # None BY <1>3, OldFirst
<1>5. e \in Entries /\ e[1] = a /\ e[2] = 0 /\ e[3] = 0 BY <1>0, <1>2, BaseType
<1>6. l \in Locals /\ l.pc = "sweep" /\ l.at = e BY <1>5, LocalType DEF Locals, Positions, Inv
<1> HIDE DEF l
<1>7. th' \in [Threads -> Locals] /\ th'[t] = l /\ Others(t) /\ \A u \in Threads : u # t => th'[u] = th[u]
  BY <1>1, <1>6, Moved DEF Inv
<1>8. PICK s : s = Tail(old) OBVIOUS
<1>9. s \in Seq(1 .. MaxTables) /\ Elements(old) = {b} \cup Elements(s) /\ b \notin Elements(s) /\ Distinct(s)
  BY <1>3, <1>8, Popped
<1>10. /\ old' \in Seq(1 .. MaxTables) /\ old' # <<>> /\ old'[1] = a /\ Elements(old') = {a} \cup Elements(s)
       /\ Distinct(old')
  <2>1. PICK r : r = old' OBVIOUS
  <2>2. r = <<a>> \o s /\ a \notin Elements(s) BY <1>1, <1>3, <1>8, <1>9, <2>1
  <2>3. r \in Seq(1 .. MaxTables) /\ r # <<>> /\ r[1] = a /\ Elements(r) = {a} \cup Elements(s) /\ Distinct(r)
    <3>1. a \in 1 .. MaxTables /\ s \in Seq(1 .. MaxTables) /\ Distinct(s) BY <1>2, <1>9
    <3>2. QED BY <2>2, <3>1, Pushed
  <2>4. QED BY <2>1, <2>3
<1>11. /\ \A u \in Threads : u # t => th[u].pc \notin Holding
       /\ \A u \in Threads : th[u].pc # "entry"
       /\ \A u \in Threads : th'[u].pc # "copy"
  <2>1. \A u \in Threads : u # t => th[u].pc \notin Holding BY <1>1, OneHolder DEF Holding
  <2>2. tableR # {} BY <1>1 DEF Inv, HeadInv
  <2>3. \A u \in Threads : th[u].pc # "entry" BY <2>2, NotNone DEF Inv, HeadInv
  <2>4. QED BY <1>6, <1>7, <2>1, <2>3 DEF Holding
<1>12. TypeOK' BY <1>1, <1>4, <1>7, <1>10 DEF Inv, TypeOK
<1>13. HeadInv'
  <2>1. b # None BY <1>4, NotNone
  <2>2. QED BY <1>1, <1>6, <1>7, <2>1 DEF Inv, HeadInv, Holding
<1>14. EntryInv'
  <2>1. rd \subseteq Threads \X Entries /\ wr \subseteq Threads \X Entries BY DEF Inv, TypeOK
  <2>2. \A p \in rd \cup wr : p[1] \in Threads BY <2>1
  <2>3. \A x : OutOfUse(x) => OutOfUse(x)' BY <1>0, <1>1, <1>11 DEF OutOfUse
  <2>4. \A u \in Threads : th[u].pc \in {"link", "fill", "walk", "read"} => th'[u] = th[u] BY <1>1, <1>7
  <2>5. \A u \in Threads : th'[u].pc \in {"link", "fill"} => th'[u] = th[u] BY <1>6, <1>7
  <2>6. QED BY <1>1, <2>2, <2>3, <2>4, <2>5 DEF Inv, EntryInv
<1>15. MemoryInv'
  <2>1. (\A x \in 1 .. MaxTables : tables[x] # None <=> x \in Elements(old) \/ x = table)'
    <3>1. \A x \in 1 .. MaxTables : tables[x] # None <=> x \in Elements(old) \/ x = a BY <1>0 DEF Inv, MemoryInv
    <3>2. Elements(old)' = {a} \cup Elements(s) BY <1>10 DEF Elements
    <3>3. QED BY <1>1, <1>9, <3>1, <3>2
  <2>2. Elements(old)' = {a} \cup Elements(s) BY <1>10 DEF Elements
  <2>3. (\A i, j \in DOMAIN old : old[i] = old[j] => i = j)' BY <1>10 DEF Distinct
  <2>4. b # a BY <1>3, <1>9
  <2>5. (table \notin Elements(old))' BY <1>1, <1>9, <2>2, <2>4
  <2>6. (Elements(old) \cup ({table} \ {None}) \subseteq 1 .. made)'
    <3>1. Elements(old) \cup ({a} \ {None}) \subseteq 1 .. made BY <1>0 DEF Inv, MemoryInv
    <3>2. a # None BY <1>2, NotNone
    <3>3. QED BY <1>1, <1>9, <2>2, <3>1, <3>2
  <2>7. QED BY <1>10, <1>11, <2>1, <2>3, <2>5, <2>6 DEF MemoryInv
<1>16. PlaceInv'
  <2> SUFFICES ASSUME NEW u \in Threads PROVE PlaceOK(u)' BY DEF PlaceInv
  <2>1. CASE u = t
    <3>1. Inside(e) BY <1>2, <1>5 DEF Inside
    <3>2. Inside(e)' BY <1>1, <3>1, SameTables
    <3>3. e # None BY <1>5, NotNone
    <3>4. QED BY <1>1, <1>2, <1>5, <1>6, <1>7, <1>10, <2>1, <3>2, <3>3 DEF PlaceOK, Outside
  <2>2. CASE u # t
    <3>1. th'[u] = th[u] /\ PlaceOK(u) BY <1>7, <2>2 DEF Inv, PlaceInv
    <3>2. PICK f : f = th[u].at OBVIOUS
    <3>3. (Inside(f)' <=> Inside(f)) /\ Chain(f)' = Chain(f) BY <1>1, SameTables
    <3>4. th[u].pc \notin {"entry", "copy", "sweep", "chain"} BY <1>11, <2>2 DEF Holding
    <3>5. QED BY <1>1, <1>11, <3>1, <3>2, <3>3, <3>4 DEF PlaceOK, Outside
  <2>3. QED BY <2>1, <2>2
<1>17. ChainInv'
  <2> SUFFICES ASSUME NEW x \in 1 .. MaxTables, tables[x] # None, NEW i \in 0 .. tables[x].size - 1
               PROVE  ChainOK(x, i)'
    BY <1>1 DEF ChainInv
  <2>1. ChainOK(x, i) BY DEF Inv, ChainInv
  <2>2. \A u \in Threads : th[u].pc = "fill" => th'[u] = th[u] BY <1>1, <1>7
  <2>3. QED BY <1>1, <2>1, <2>2 DEF ChainOK, Base
<1>18. KeptInv'
  <2>1. kept \subseteq KeysIn(b) BY <1>0, <1>1 DEF Inv, KeptInv
  <2>2. KeysIn(table)' = KeysIn(b) BY <1>1 DEF KeysIn
  <2>3. QED BY <1>1, <1>11, <2>1, <2>2 DEF KeptInv
<1>19. QED BY <1>12, <1>13, <1>14, <1>15, <1>16, <1>17, <1>18 DEF Inv

\* The program destroys the hash table.
LEMMA DestroyStep ==
  ASSUME Inv, Destroy
  PROVE  Inv'
<1>1. /\ \A t \in Threads : th[t].pc = "idle"
      /\ table # None /\ Freed({table} \cup Elements(old)) /\ table' = None /\ old' = <<>>
      /\ UNCHANGED <<made, tableR, tableW, mutex, rd, wr, th, calls, alive, kept>>
  BY DEF Destroy, AllIdle, At, locks
<1>2. /\ DOMAIN tables' = 1 .. MaxTables /\ \A a \in 1 .. MaxTables : tables'[a] = None
  <2>1. tables' = [a \in 1 .. MaxTables |-> IF a \in {table} \cup Elements(old) THEN None ELSE tables[a]]
    BY <1>1 DEF Freed
  <2>2. \A a \in 1 .. MaxTables : a \notin {table} \cup Elements(old) => tables[a] = None BY DEF Inv, MemoryInv
  <2>3. QED BY <2>1, <2>2
<1>3. old' \in Seq(1 .. MaxTables) /\ DOMAIN old' = {} /\ Elements(old)' = {} BY <1>1 DEF Elements
<1>4. TypeOK' BY <1>1, <1>2, <1>3 DEF Inv, TypeOK
<1>5. HeadInv' BY <1>1 DEF Inv, HeadInv
<1>6. EntryInv'
  <2>1. wr \subseteq Threads \X Entries /\ rd \subseteq Threads \X Entries BY DEF Inv, TypeOK
  <2>2. \A p \in wr : p[1] \in Threads /\ p[2][1] \in 1 .. MaxTables BY <2>1, EntryType
  <2>3. \A a \in 1 .. MaxTables : a # None BY NotNone
  <2>4. \A p \in wr : OutOfUse(p[2][1])' BY <1>1, <2>2, <2>3 DEF OutOfUse
  <2>5. QED BY <1>1, <2>4 DEF Inv, EntryInv
<1>7. MemoryInv'
  <2>1. \A a \in 1 .. MaxTables : a # None BY NotNone
  <2>2. (\A a \in 1 .. MaxTables : tables[a] # None <=> a \in Elements(old) \/ a = table)' BY <1>1, <1>2, <1>3, <2>1
  <2>3. QED BY <1>1, <1>3, <2>2 DEF MemoryInv
<1>8. PlaceInv' BY <1>1 DEF PlaceInv, PlaceOK, Outside
<1>9. ChainInv' BY <1>2 DEF ChainInv
<1>10. KeptInv' BY <1>1 DEF KeptInv
<1>11. QED BY <1>4, <1>5, <1>6, <1>7, <1>8, <1>9, <1>10 DEF Inv

\* Where a key of the table in use is.
LEMMA KeyIsAt ==
  ASSUME Inv, NEW a \in 1 .. MaxTables, tables[a] # None, NEW k \in KeysIn(a)
  PROVE  LET h == Hash(k, tables[a].size) IN
         /\ k \in Keys /\ h \in 0 .. tables[a].size - 1
         /\ \E p \in DOMAIN tables[a].chain[h] : tables[a].chain[h][p] = k
<1>1. k # None /\ \E i \in 0 .. tables[a].size - 1 : \E p \in DOMAIN tables[a].chain[i] : tables[a].chain[i][p] = k
  BY KeysAre DEF Inv
<1>2. PICK i \in 0 .. tables[a].size - 1 : \E p \in DOMAIN tables[a].chain[i] : tables[a].chain[i][p] = k BY <1>1
<1>3. PICK c : c = tables[a].chain[i] OBVIOUS
<1>4. PICK p \in DOMAIN c : c[p] = k BY <1>2, <1>3
<1>5. c \in Seq(Keys \cup {None}) BY <1>3, TableType DEF Inv
<1>6. k \in Keys BY <1>1, <1>4, <1>5, ItemOf
<1>7. ChainOK(a, i) BY DEF Inv, ChainInv
<1>8. Hash(k, tables[a].size) = i BY <1>1, <1>3, <1>4, <1>7 DEF ChainOK
<1>9. QED BY <1>2, <1>6, <1>8

\* The copy begins with an empty table.
LEMMA ResizeCreateStep ==
  ASSUME Inv, NEW t \in Threads, ResizeCreate(t)
  PROVE  Inv'
<1>0. PICK a, m, z, n : a = table /\ m = made + 1 /\ z = th[t].size /\ n = tables[a].size OBVIOUS
<1>1. PICK e, U : e = Base(a, n - 1) /\ U = NewTable(z) OBVIOUS
<1> DEFINE l == [th[t] EXCEPT !.pc = "copy", !.nht = m, !.at = e]
<1>2. /\ th[t].pc = "create" /\ made < MaxTables /\ made' = m /\ tables' = [tables EXCEPT ![m] = U] /\ old' = <<m>> \o old
      /\ th' = [th EXCEPT ![t] = l] /\ UNCHANGED <<table, kept>> /\ UNCHANGED <<tableR, tableW, mutex, rd, wr, calls, alive>>
  BY <1>0, <1>1, LocalType DEF ResizeCreate, At, locks, Inv, TypeOK
<1>3. a \in 1 .. MaxTables /\ tables[a] # None /\ a <= made /\ n \in Nat \ {0} BY <1>0, <1>2, TableInUse
<1>4. made \in 1 .. MaxTables /\ MaxTables \in Nat /\ m \in 1 .. MaxTables /\ m > made /\ m # a
  <2>1. made \in 1 .. MaxTables /\ MaxTables \in Nat BY ResizeAssumption DEF Inv, TypeOK
  <2>2. QED BY <1>0, <1>2, <1>3, <2>1
<1>5. z \in Sizes
  <2>1. PlaceOK(t) BY DEF Inv, PlaceInv
  <2>2. QED BY <1>0, <1>2, <2>1 DEF PlaceOK
<1>6. U \in TablesOf(z) /\ \A i \in 0 .. z - 1 : U.chain[i] = <<>> BY <1>1, <1>5, NewTableType
<1>7. /\ DOMAIN tables' = 1 .. MaxTables
      /\ \A b \in 1 .. MaxTables : tables'[b] = None \/ \E k \in Sizes : tables'[b] \in TablesOf(k)
      /\ \A b \in 1 .. MaxTables : b # m => tables'[b] = tables[b]
      /\ tables'[m] = U /\ U # None /\ U.size = z
  BY <1>2, <1>4, <1>5, <1>6, Replaced DEF Inv
<1>8. e \in Entries /\ e[1] = a /\ e[2] = n - 1 /\ e[3] = 0
  <2>1. n - 1 \in Nat BY <1>3
  <2>2. QED BY <1>1, <1>3, <2>1, BaseType
<1>9. l \in Locals /\ l.pc = "copy" /\ l.at = e /\ l.nht = m BY <1>4, <1>8, LocalType DEF Locals, Positions, Inv
<1> HIDE DEF l
<1>10. th' \in [Threads -> Locals] /\ th'[t] = l /\ Others(t) /\ \A u \in Threads : u # t => th'[u] = th[u]
  BY <1>2, <1>9, Moved DEF Inv
<1>11. m \notin Elements(old) /\ old \in Seq(1 .. MaxTables) /\ Distinct(old)
  <2>1. m \notin 1 .. made BY <1>4
  <2>2. QED BY <2>1 DEF Inv, MemoryInv, TypeOK, Distinct
<1>12. /\ old' \in Seq(1 .. MaxTables) /\ old' # <<>> /\ old'[1] = m /\ Elements(old') = {m} \cup Elements(old)
       /\ Distinct(old')
  <2>1. PICK r, s : r = old' /\ s = old OBVIOUS
  <2>2. r = <<m>> \o s /\ m \notin Elements(s) /\ s \in Seq(1 .. MaxTables) /\ Distinct(s) BY <1>2, <1>11, <2>1
  <2>3. r \in Seq(1 .. MaxTables) /\ r # <<>> /\ r[1] = m /\ Elements(r) = {m} \cup Elements(s) /\ Distinct(r)
    BY <1>4, <2>2, Pushed
  <2>4. QED BY <2>1, <2>3
<1>13. \A u \in Threads : u # t => th[u].pc \notin Holding BY <1>2, OneHolder DEF Holding
<1>14. TypeOK' BY <1>2, <1>4, <1>7, <1>10, <1>12 DEF Inv, TypeOK
<1>15. HeadInv' BY <1>2, <1>9, <1>10 DEF Inv, HeadInv, Holding
<1>16. EntryInv'
  <2>1. rd \subseteq Threads \X Entries /\ wr \subseteq Threads \X Entries BY DEF Inv, TypeOK
  <2>2. \A p \in rd \cup wr : p[1] \in Threads /\ p[2][1] \in 1 .. MaxTables BY <2>1, EntryType
  <2>3. ASSUME NEW x \in 1 .. MaxTables, x <= made, OutOfUse(x) PROVE OutOfUse(x)' /\ x <= made'
    <3>1. x # m /\ x <= m BY <1>0, <1>4, <2>3
    <3>2. \A u \in Threads : th'[u].pc = "copy" => u = t BY <1>10, <1>13 DEF Holding
    <3>3. QED BY <1>2, <1>9, <1>10, <2>3, <3>1, <3>2 DEF OutOfUse
  <2>4. \A u \in Threads : th[u].pc \in {"link", "fill", "walk", "read"} => th'[u] = th[u] BY <1>2, <1>10
  <2>5. \A u \in Threads : th'[u].pc \in {"link", "fill"} => th'[u] = th[u] BY <1>9, <1>10
  <2>6. ASSUME NEW p \in wr
        PROVE  p[2][1] <= made' /\ ((th'[p[1]].pc \in {"link", "fill"} /\ p[2] = th'[p[1]].at) \/ OutOfUse(p[2][1])')
    <3>1. p[2][1] <= made BY DEF Inv, EntryInv
    <3>2. p[2][1] <= made' BY <1>0, <1>2, <1>4, <2>2, <3>1
    <3>3. (th[p[1]].pc \in {"link", "fill"} /\ p[2] = th[p[1]].at) \/ OutOfUse(p[2][1]) BY DEF Inv, EntryInv
    <3>4. QED BY <2>2, <2>3, <2>4, <3>1, <3>2, <3>3
  <2>7. QED BY <1>2, <2>2, <2>4, <2>5, <2>6 DEF Inv, EntryInv
<1>17. MemoryInv'
  <2>1. Elements(old)' = {m} \cup Elements(old) BY <1>12 DEF Elements
  <2>2. (\A x \in 1 .. MaxTables : tables[x] # None <=> x \in Elements(old) \/ x = table)'
    <3>1. \A x \in 1 .. MaxTables : tables[x] # None <=> x \in Elements(old) \/ x = table BY DEF Inv, MemoryInv
    <3>2. QED BY <1>2, <1>7, <2>1, <3>1
  <2>3. (\A i, j \in DOMAIN old : old[i] = old[j] => i = j)' BY <1>12 DEF Distinct
  <2>4. (table \notin Elements(old))' BY <1>0, <1>2, <1>4, <2>1 DEF Inv, MemoryInv
  <2>5. (Elements(old) \cup ({table} \ {None}) \subseteq 1 .. made)'
    <3>1. Elements(old) \cup ({table} \ {None}) \subseteq 1 .. made BY DEF Inv, MemoryInv
    <3>2. 1 .. made \subseteq 1 .. m /\ m \in 1 .. m BY <1>0, <1>4
    <3>3. QED BY <1>2, <2>1, <3>1, <3>2
  <2>6. \A u \in Threads : th'[u].pc \in {"copy", "sweep", "chain"} => u = t BY <1>10, <1>13 DEF Holding
  <2>7. QED BY <1>9, <1>10, <1>12, <2>2, <2>3, <2>4, <2>5, <2>6 DEF MemoryInv
<1>18. PlaceInv'
  <2> SUFFICES ASSUME NEW u \in Threads PROVE PlaceOK(u)' BY DEF PlaceInv
  <2>1. CASE u = t
    <3>1. e[2] < n BY <1>3, <1>8
    <3>2. tables'[e[1]] = tables[a] BY <1>3, <1>4, <1>7, <1>8
    <3>3. Inside(e)' BY <1>0, <1>8, <3>1, <3>2 DEF Inside
    <3>4. e # None /\ e[1] <= m BY <1>0, <1>3, <1>4, <1>8, NotNone
    <3>5. QED BY <1>0, <1>2, <1>8, <1>9, <1>10, <2>1, <3>3, <3>4 DEF PlaceOK, Outside
  <2>2. CASE u # t
    <3>1. th'[u] = th[u] /\ PlaceOK(u) BY <1>10, <2>2 DEF Inv, PlaceInv
    <3>2. PICK f : f = th[u].at OBVIOUS
    <3>3. th[u].pc \notin {"lock", "create", "copy", "sweep", "chain"} BY <1>13, <2>2 DEF Holding
    <3>4. th[u].pc \in Outside => f \in Entries /\ f[1] <= made /\ Inside(f)
      BY <3>1, <3>2, LocalType DEF PlaceOK, Inv
    <3>5. f \in Entries /\ f[1] <= made => f[1] # m /\ tables'[f[1]] = tables[f[1]] /\ f[1] <= m
      BY <1>0, <1>4, <1>7, EntryType
    <3>6. tables'[f[1]] = tables[f[1]] => Chain(f)' = Chain(f) BY DEF Chain
    <3>7. tables'[f[1]] = tables[f[1]] => (Inside(f)' <=> Inside(f)) BY <3>6 DEF Inside
    <3>8. \A v \in Threads : th'[v].pc = "copy" => th'[v].nht = m BY <1>9, <1>10, <1>13 DEF Holding
    <3>9. QED BY <1>2, <3>1, <3>2, <3>3, <3>4, <3>5, <3>6, <3>7, <3>8 DEF PlaceOK, Outside
  <2>3. QED BY <2>1, <2>2
<1>19. ChainInv'
  <2> SUFFICES ASSUME NEW x \in 1 .. MaxTables, tables'[x] # None, NEW i \in 0 .. tables'[x].size - 1
               PROVE  ChainOK(x, i)'
    BY DEF ChainInv
  <2>1. CASE x = m
    <3>1. tables'[x].chain[i] = <<>> BY <1>6, <1>7, <2>1
    <3>2. QED BY <3>1 DEF ChainOK
  <2>2. CASE x # m
    <3>1. tables'[x] = tables[x] BY <1>7, <2>2
    <3>2. ChainOK(x, i) BY <3>1 DEF Inv, ChainInv
    <3>3. \A u \in Threads : th[u].pc = "fill" => th'[u] = th[u] BY <1>2, <1>10
    <3>4. QED BY <3>1, <3>2, <3>3 DEF ChainOK, Base
  <2>3. QED BY <2>1, <2>2
<1>20. KeptInv'
  <2>1. kept \subseteq KeysIn(a) BY <1>0, <1>3, NotNone DEF Inv, KeptInv
  <2>2. KeysIn(table)' = KeysIn(a) BY <1>0, <1>2, <1>3, <1>4, <1>7 DEF KeysIn
  <2>3. KeysIn(m)' = {}
    <3>1. KeysIn(m)' = Content(U) BY <1>7 DEF KeysIn, Content
    <3>2. \A k : k \in Content(U) => \E i \in 0 .. z - 1 : \E p \in DOMAIN U.chain[i] : U.chain[i][p] = k
      BY <1>5, <1>6, <1>7, ContentIs
    <3>3. QED BY <1>6, <3>1, <3>2
  <2>4. ASSUME NEW k \in kept PROVE Ahead(k, e)'
    <3>1. PICK h : h = Hash(k, n) OBVIOUS
    <3>2. h \in 0 .. n - 1 /\ \E p \in DOMAIN tables[a].chain[h] : tables[a].chain[h][p] = k
      BY <1>0, <1>3, <2>1, <3>1, KeyIsAt
    <3>3. Chain(e)' = tables[a].chain[n - 1] BY <1>3, <1>4, <1>7, <1>8 DEF Chain
    <3>4. tables'[e[1]].size = n BY <1>0, <1>3, <1>4, <1>7, <1>8
    <3>5. Place(e)' = 1 BY <1>8 DEF Place
    <3>6. CASE h < n - 1 BY <1>8, <3>1, <3>4, <3>6 DEF Ahead
    <3>7. CASE h = n - 1
      <4>1. PICK c : c = tables[a].chain[n - 1] OBVIOUS
      <4>2. c \in Seq(Keys \cup {None})
        <5>1. n - 1 \in 0 .. n - 1 BY <1>3
        <5>2. QED BY <1>0, <1>3, <4>1, <5>1, TableType DEF Inv
      <4>3. \E p \in DOMAIN c : p >= 1 /\ c[p] = k BY <3>2, <3>7, <4>1, <4>2
      <4>4. QED BY <1>8, <3>1, <3>3, <3>4, <3>5, <3>7, <4>1, <4>3 DEF Ahead
    <3>8. QED BY <1>3, <3>2, <3>6, <3>7
  <2>5. \A u \in Threads : th'[u].pc = "copy" => th'[u].at = e /\ th'[u].nht = m BY <1>9, <1>10, <1>13 DEF Holding
  <2>6. e # None BY <1>8, NotNone
  <2>7. QED BY <1>2, <2>1, <2>2, <2>3, <2>4, <2>5, <2>6 DEF KeptInv
<1>21. QED BY <1>14, <1>15, <1>16, <1>17, <1>18, <1>19, <1>20 DEF Inv

\* The copy goes on to the next entry: the one it leaves was the only one that
\* was ahead and is not any more.
LEMMA CopyMoves ==
  ASSUME Inv, NEW e \in Entries, tables[e[1]] # None, Inside(e), Chain(e) # <<>> => KeyOf(e) # None,
         NEW f, f = CopyNext(e)
  PROVE  /\ f = None \/ (f \in Entries /\ f[1] = e[1] /\ Inside(f))
         /\ \A k \in KeysIn(e[1]) : Ahead(k, e) => (Chain(e) # <<>> /\ k = KeyOf(e)) \/ (f # None /\ Ahead(k, f))
         /\ f # None => \A k \in Keys : Passed(k, e) => Passed(k, f)
         /\ f # None /\ Chain(e) # <<>> => Passed(KeyOf(e), f)
<1>0. PICK a, i, c, n, q : a = e[1] /\ i = e[2] /\ c = Chain(e) /\ n = tables[a].size /\ q = Place(e) OBVIOUS
<1>1. /\ a \in 1 .. MaxTables /\ i \in 0 .. n - 1 /\ n \in Nat \ {0} /\ c \in Seq(Keys \cup {None}) /\ ChainOK(a, i)
      /\ q \in Nat \ {0} /\ (c # <<>> => q \in 1 .. Len(c)) /\ (c = <<>> => q = 1)
  BY <1>0, EntryIn
<1>2. Len(c) \in Nat /\ DOMAIN c = 1 .. Len(c) /\ c = tables[a].chain[i]
  <2>1. Len(c) \in Nat /\ DOMAIN c = 1 .. Len(c) BY <1>1
  <2>2. QED BY <1>0, <2>1 DEF Chain
<1>3. \A k \in Keys : Hash(k, n) \in 0 .. n - 1 BY <1>1, HashInside
<1>4. c # <<>> => KeyOf(e) = c[q] /\ c[q] \in Keys /\ Hash(c[q], n) = i
  <2>1. SUFFICES ASSUME c # <<>> PROVE KeyOf(e) = c[q] /\ c[q] \in Keys /\ Hash(c[q], n) = i OBVIOUS
  <2>2. KeyOf(e) = c[q] /\ q \in DOMAIN c BY <1>0, <1>1, <1>2, <2>1 DEF KeyOf
  <2>3. c[q] # None /\ c[q] \in Keys \cup {None} BY <1>0, <1>1, <2>1, <2>2
  <2>4. Hash(c[q], n) = i BY <1>0, <1>1, <1>2, <2>2, <2>3 DEF ChainOK
  <2>5. QED BY <2>2, <2>3, <2>4
<1>5. IsLast(e) <=> q >= Len(c) BY <1>0 DEF IsLast
<1>6. ASSUME NEW k PROVE /\ Ahead(k, e) <=> Hash(k, n) < i \/ (Hash(k, n) = i /\ \E p \in DOMAIN c : p >= q /\ c[p] = k)
                         /\ Passed(k, e) <=> Hash(k, n) > i \/ (Hash(k, n) = i /\ \E p \in DOMAIN c : p < q /\ c[p] = k)
  BY <1>0 DEF Ahead, Passed
<1>7. ASSUME NEW k \in KeysIn(a)
      PROVE  /\ k \in Keys /\ Hash(k, n) \in 0 .. n - 1
             /\ \E p \in DOMAIN tables[a].chain[Hash(k, n)] : tables[a].chain[Hash(k, n)][p] = k
  BY <1>0, <1>1, KeyIsAt
<1>8. CASE ~IsLast(e)
  <2>1. f = NextOf(e) BY <1>8 DEF CopyNext
  <2>2. /\ f \in Entries /\ f[1] = a /\ f[2] = i /\ Inside(f) /\ Place(f) = q + 1 /\ Chain(f) = c
    BY <1>0, <1>8, <2>1, NextIs
  <2>3. ASSUME NEW k
        PROVE /\ Ahead(k, f) <=> Hash(k, n) < i \/ (Hash(k, n) = i /\ \E p \in DOMAIN c : p >= q + 1 /\ c[p] = k)
              /\ Passed(k, f) <=> Hash(k, n) > i \/ (Hash(k, n) = i /\ \E p \in DOMAIN c : p < q + 1 /\ c[p] = k)
    BY <1>0, <2>2 DEF Ahead, Passed
  <2>4. c # <<>>
    <3>1. Len(c) # 0 BY <1>1, <1>2, <1>5, <1>8
    <3>2. QED BY <3>1
  <2>5. \A p \in DOMAIN c : (p >= q => p = q \/ p >= q + 1) /\ (p < q => p < q + 1) BY <1>1, <1>2
  <2>6. \A k : Ahead(k, e) => k = c[q] \/ Ahead(k, f) BY <1>6, <2>3, <2>5
  <2>7. \A k : Passed(k, e) => Passed(k, f) BY <1>6, <2>3, <2>5
  <2>8. Passed(c[q], f)
    <3>1. q \in DOMAIN c /\ q < q + 1 BY <1>1, <1>2, <2>4
    <3>2. QED BY <1>4, <2>3, <2>4, <3>1
  <2>9. f # None BY <2>2, NotNone
  <2>10. QED BY <1>0, <1>4, <2>2, <2>4, <2>6, <2>7, <2>8, <2>9
<1>9. \A p \in DOMAIN c : IsLast(e) /\ p >= q => c # <<>> /\ p = q
  <2>1. SUFFICES ASSUME NEW p \in DOMAIN c, IsLast(e), p >= q PROVE c # <<>> /\ p = q OBVIOUS
  <2>2. p \in 1 .. Len(c) BY <1>2
  <2>3. Len(c) # 0 BY <1>2, <2>2
  <2>4. c # <<>> BY <2>3
  <2>5. QED BY <1>1, <1>2, <1>5, <2>1, <2>2, <2>4
<1>10. CASE IsLast(e) /\ i > 0
  <2>1. f = Base(a, i - 1) BY <1>0, <1>10 DEF CopyNext
  <2>2. i - 1 \in Nat /\ i - 1 \in 0 .. n - 1 /\ i - 1 < n BY <1>1, <1>10
  <2>3. f \in Entries /\ f[1] = a /\ f[2] = i - 1 /\ f[3] = 0 BY <1>1, <2>1, <2>2, BaseType
  <2>4. Inside(f) BY <1>0, <2>2, <2>3 DEF Inside
  <2>5. PICK d : d = tables[a].chain[i - 1] OBVIOUS
  <2>6. Chain(f) = d /\ Place(f) = 1 BY <2>3, <2>5 DEF Chain, Place
  <2>7. d \in Seq(Keys \cup {None}) BY <1>0, <1>1, <2>2, <2>5, TableType DEF Inv
  <2>8. ASSUME NEW k
        PROVE /\ Ahead(k, f) <=> Hash(k, n) < i - 1 \/ (Hash(k, n) = i - 1 /\ \E p \in DOMAIN d : p >= 1 /\ d[p] = k)
              /\ Hash(k, n) > i - 1 => Passed(k, f)
    BY <1>0, <2>3, <2>6 DEF Ahead, Passed
  <2>9. ASSUME NEW k \in KeysIn(a), Ahead(k, e) PROVE (c # <<>> /\ k = c[q]) \/ Ahead(k, f)
    <3>1. CASE Hash(k, n) < i - 1 BY <2>8, <3>1
    <3>2. CASE Hash(k, n) = i - 1
      <4>1. \E p \in DOMAIN d : d[p] = k BY <1>7, <2>5, <3>2
      <4>2. \E p \in DOMAIN d : p >= 1 /\ d[p] = k BY <2>7, <4>1
      <4>3. QED BY <2>8, <3>2, <4>2
    <3>3. CASE ~(Hash(k, n) < i)
      <4>1. \E p \in DOMAIN c : p >= q /\ c[p] = k BY <1>6, <2>9, <3>3
      <4>2. QED BY <1>9, <1>10, <4>1
    <3>4. Hash(k, n) \in Nat BY <1>1, <1>7
    <3>5. QED BY <1>1, <3>1, <3>2, <3>3, <3>4
  <2>10. ASSUME NEW k \in Keys, Passed(k, e) PROVE Passed(k, f)
    <3>1. Hash(k, n) >= i BY <1>1, <1>3, <1>6, <2>10
    <3>2. Hash(k, n) > i - 1 BY <1>1, <1>3, <3>1
    <3>3. QED BY <2>8, <3>2
  <2>11. c # <<>> => Passed(c[q], f)
    <3>1. i > i - 1 BY <1>1
    <3>2. QED BY <1>4, <2>8, <3>1
  <2>12. f # None BY <2>3, NotNone
  <2>13. QED BY <1>0, <1>4, <2>3, <2>4, <2>9, <2>10, <2>11, <2>12
<1>11. CASE IsLast(e) /\ ~(i > 0)
  <2>1. f = None BY <1>0, <1>11 DEF CopyNext
  <2>2. i = 0 BY <1>1, <1>11
  <2>3. ASSUME NEW k \in KeysIn(a), Ahead(k, e) PROVE c # <<>> /\ k = c[q]
    <3>1. ~(Hash(k, n) < i) BY <1>1, <1>7, <2>2
    <3>2. \E p \in DOMAIN c : p >= q /\ c[p] = k BY <1>6, <2>3, <3>1
    <3>3. QED BY <1>9, <1>11, <3>2
  <2>4. QED BY <1>0, <1>4, <2>1, <2>3
<1>12. QED BY <1>8, <1>10, <1>11

\* What the copy of an entry does to the new table, which only holds keys that
\* the copy has passed.
LEMMA CopyWrites ==
  ASSUME Inv, NEW t \in Threads, ResizeCopy(t), NEW e, e = th[t].at, NEW b, b = th[t].nht
  PROVE  /\ e \in Entries /\ e[1] = table /\ tables[e[1]] # None /\ Inside(e) /\ (Chain(e) # <<>> => KeyOf(e) # None)
         /\ b \in 1 .. MaxTables /\ b # table /\ tables[b] # None
         /\ DOMAIN tables' = 1 .. MaxTables /\ \A x \in 1 .. MaxTables : x # b => tables'[x] = tables[x]
         /\ tables[b].size \in Sizes /\ tables'[b] \in TablesOf(tables[b].size)
         /\ \A j \in 0 .. tables[b].size - 1 :
              Distinct(tables'[b].chain[j]) /\ Hashed(tables'[b].chain[j], tables[b].size, j)
         /\ \A x : x \in KeysIn(b)' <=> x \in KeysIn(b) \/ (Chain(e) # <<>> /\ x = KeyOf(e))
<1>1. /\ th[t].pc = "copy" /\ e # None /\ (Chain(e) # <<>> => KeyOf(e) # None)
      /\ tables' = IF Chain(e) = <<>> THEN tables ELSE [tables EXCEPT ![b] = Linked(tables[b], KeyOf(e))]
  <2>1. b \in DOMAIN tables
    <3>1. th[t].pc = "copy" BY DEF ResizeCopy, At
    <3>2. old # <<>> /\ b = old[1] BY <3>1 DEF Inv, MemoryInv
    <3>3. QED BY <3>2, OldFirst DEF Inv, TypeOK
  <2>2. QED BY <2>1 DEF ResizeCopy, At
<1>2. b \in 1 .. MaxTables /\ b # table /\ tables[b] # None
  <2>1. old # <<>> /\ b = old[1] BY <1>1 DEF Inv, MemoryInv
  <2>2. QED BY <2>1, OldFirst
<1>3. e \in Entries /\ e[1] = table /\ Inside(e)
  <2>1. PlaceOK(t) BY DEF Inv, PlaceInv
  <2>2. QED BY <1>1, <2>1, LocalType DEF PlaceOK, Inv
<1>4. tables[e[1]] # None BY <1>1, <1>3, TableInUse
<1>5. PICK B, n : B = tables[b] /\ n = B.size OBVIOUS
<1>6. n \in Sizes /\ n \in Nat \ {0} /\ B \in TablesOf(n) BY <1>2, <1>5, TableType DEF Inv
<1>7. ASSUME NEW j \in 0 .. n - 1 PROVE B.chain[j] \in Seq(Keys \cup {None}) /\ Distinct(B.chain[j]) /\ Hashed(B.chain[j], n, j)
  <2>1. B.chain[j] \in Seq(Keys \cup {None}) BY <1>2, <1>5, TableType DEF Inv
  <2>2. ChainOK(b, j) BY <1>2, <1>5 DEF Inv, ChainInv
  <2>3. PICK c : c = B.chain[j] OBVIOUS
  <2>4. /\ \A p, q \in DOMAIN c : c[p] = c[q] => p = q
        /\ \A p \in DOMAIN c : c[p] # None => Hash(c[p], n) = j
        /\ \A p \in DOMAIN c : c[p] = None => \E u \in Threads : th[u].pc = "fill" /\ th[u].at = Base(b, j)
    BY <1>5, <2>2, <2>3 DEF ChainOK
  <2>5. \A u \in Threads : th[u].pc = "fill" => th[u].at # Base(b, j)
    <3>1. SUFFICES ASSUME NEW u \in Threads, th[u].pc = "fill" PROVE th[u].at # Base(b, j) OBVIOUS
    <3>2. PlaceOK(u) BY DEF Inv, PlaceInv
    <3>3. th[u].at[1] # b BY <1>1, <3>1, <3>2 DEF PlaceOK, Outside
    <3>4. QED BY <3>3 DEF Base
  <2>6. QED BY <2>1, <2>3, <2>4, <2>5 DEF Distinct, Hashed
<1>8. \A x : x \in KeysIn(b) <=> x # None /\ \E j \in 0 .. n - 1 : \E p \in DOMAIN B.chain[j] : B.chain[j][p] = x
  BY <1>2, <1>5, KeysAre DEF Inv
<1>9. CASE Chain(e) = <<>>
  <2>1. tables' = tables BY <1>1, <1>9
  <2>2. KeysIn(b)' = KeysIn(b) BY <2>1 DEF KeysIn
  <2>3. DOMAIN tables' = 1 .. MaxTables /\ tables'[b] = B BY <1>5, <2>1 DEF Inv, TypeOK
  <2>4. QED BY <1>1, <1>2, <1>3, <1>4, <1>5, <1>6, <1>7, <1>9, <2>1, <2>2, <2>3
<1>10. CASE Chain(e) # <<>>
  <2>1. PICK k, U, h : k = KeyOf(e) /\ U = Linked(B, k) /\ h = Hash(k, n) OBVIOUS
  <2>2. PICK c, q : c = Chain(e) /\ q = Place(e) OBVIOUS
  <2>3. c \in Seq(Keys \cup {None}) /\ q \in 1 .. Len(c) /\ ChainOK(e[1], e[2]) /\ c = tables[e[1]].chain[e[2]]
    BY <1>3, <1>4, <1>10, <2>2, EntryIn DEF Chain
  <2>4. k = c[q] /\ k # None /\ q \in DOMAIN c
    <3>1. q \in DOMAIN c BY <2>3
    <3>2. QED BY <1>1, <1>10, <2>1, <2>2, <3>1 DEF KeyOf
  <2>5. k \in Keys
    <3>1. c[q] \in Keys \cup {None} BY <2>3, <2>4, ItemOf
    <3>2. QED BY <2>4, <3>1
  <2>6. Hash(k, tables[e[1]].size) = e[2] /\ \A p \in DOMAIN c : c[p] = k => p = q
    BY <2>3, <2>4 DEF ChainOK
  <2>7. k \notin KeysIn(b)
    <3>1. SUFFICES ASSUME Passed(k, e) PROVE FALSE BY <1>1 DEF Inv, KeptInv
    <3>2. e[2] \in Nat BY <1>3, EntryType
    <3>3. ~(Hash(k, tables[e[1]].size) > e[2]) BY <2>6, <3>2
    <3>4. PICK p \in DOMAIN c : p < q /\ c[p] = k BY <2>2, <3>1, <3>3 DEF Passed
    <3>5. p = q BY <2>6, <3>4
    <3>6. QED BY <2>3, <3>4, <3>5
  <2>8. h \in 0 .. n - 1 BY <1>6, <2>1, <2>5, HashInside
  <2>9. /\ U \in TablesOf(n) /\ U.size = n /\ \A j \in 0 .. n - 1 : j # h => U.chain[j] = B.chain[j]
        /\ U.chain[h] = LinkedChain(B.chain[h], k)
    BY <1>6, <2>1, <2>5, LinkedDoes
  <2>10. PICK g, d : g = B.chain[h] /\ d = U.chain[h] OBVIOUS
  <2>11. k \notin Elements(g) BY <1>8, <2>4, <2>7, <2>8, <2>10 DEF Elements
  <2>12. g \in Seq(Keys \cup {None}) /\ Distinct(g) /\ Hashed(g, n, h) BY <1>7, <2>8, <2>10
  <2>13. d = LinkedChain(g, k) BY <2>9, <2>10
  <2>14. /\ Distinct(d) /\ Hashed(d, n, h)
         /\ \A x : (\E p \in DOMAIN d : d[p] = x) <=> x = k \/ \E p \in DOMAIN g : g[p] = x
    <3>1. Hash(k, n) = h BY <2>1
    <3>2. /\ d \in Seq(Keys \cup {None}) /\ Distinct(d) /\ Hashed(d, n, h) /\ Grows(g, d)
          /\ Elements(d) = {k} \cup Elements(g)
      BY <2>5, <2>11, <2>12, <2>13, <3>1, LinkedGood
    <3>3. \A x : (\E p \in DOMAIN d : d[p] = x) <=> x \in Elements(d) BY DEF Elements
    <3>4. \A x : (\E p \in DOMAIN g : g[p] = x) <=> x \in Elements(g) BY DEF Elements
    <3>5. QED BY <3>2, <3>3, <3>4
  <2>15. tables' = [tables EXCEPT ![b] = U] BY <1>1, <1>5, <1>10, <2>1
  <2>16. /\ DOMAIN tables' = 1 .. MaxTables /\ \A x \in 1 .. MaxTables : x # b => tables'[x] = tables[x]
         /\ tables'[b] = U
    BY <1>2, <2>15 DEF Inv, TypeOK
  <2>17. \A j \in 0 .. n - 1 : Distinct(U.chain[j]) /\ Hashed(U.chain[j], n, j) BY <1>7, <2>9, <2>10, <2>14
  <2>18. ASSUME NEW x PROVE x \in KeysIn(b)' <=> x \in KeysIn(b) \/ x = k
    <3>1. KeysIn(b)' = Content(U) BY <2>16 DEF KeysIn, Content
    <3>2. x \in Content(U) <=> x # None /\ \E j \in 0 .. n - 1 : \E p \in DOMAIN U.chain[j] : U.chain[j][p] = x
      BY <1>6, <2>9, ContentIs
    <3>3. \A j \in 0 .. n - 1 : (\E p \in DOMAIN U.chain[j] : U.chain[j][p] = x) <=>
            (\E p \in DOMAIN B.chain[j] : B.chain[j][p] = x) \/ (j = h /\ x = k)
      BY <2>9, <2>10, <2>14
    <3>4. (\E j \in 0 .. n - 1 : \E p \in DOMAIN U.chain[j] : U.chain[j][p] = x) <=>
            (\E j \in 0 .. n - 1 : \E p \in DOMAIN B.chain[j] : B.chain[j][p] = x) \/ x = k
      BY <2>8, <3>3, Zenon
    <3>5. QED BY <1>8, <2>4, <3>1, <3>2, <3>4
  <2>19. \A j \in 0 .. tables[b].size - 1 :
           Distinct(tables'[b].chain[j]) /\ Hashed(tables'[b].chain[j], tables[b].size, j)
    BY <1>5, <2>16, <2>17
  <2>20. tables[b].size \in Sizes /\ tables'[b] \in TablesOf(tables[b].size) BY <1>5, <1>6, <2>9, <2>16
  <2>21. \A x : x \in KeysIn(b)' <=> x \in KeysIn(b) \/ (Chain(e) # <<>> /\ x = KeyOf(e)) BY <1>10, <2>1, <2>18
  <2>22. QED BY <1>1, <1>2, <1>3, <1>4, <2>16, <2>19, <2>20, <2>21
<1>11. QED BY <1>9, <1>10

\* An entry is copied.
LEMMA ResizeCopyStep ==
  ASSUME Inv, NEW t \in Threads, ResizeCopy(t)
  PROVE  Inv'
<1>0. PICK e, b, a, f : e = th[t].at /\ b = th[t].nht /\ a = table /\ f = CopyNext(e) OBVIOUS
<1> DEFINE l == [th[t] EXCEPT !.at = f]
<1>1. /\ th[t].pc = "copy" /\ th' = [th EXCEPT ![t] = l]
      /\ UNCHANGED <<made, table, old, kept>> /\ UNCHANGED <<tableR, tableW, mutex, rd, wr, calls, alive>>
  BY <1>0, LocalType DEF ResizeCopy, At, locks, Inv, TypeOK
<1>2. /\ e \in Entries /\ e[1] = a /\ tables[e[1]] # None /\ Inside(e) /\ (Chain(e) # <<>> => KeyOf(e) # None)
      /\ b \in 1 .. MaxTables /\ b # a /\ tables[b] # None
      /\ DOMAIN tables' = 1 .. MaxTables /\ \A x \in 1 .. MaxTables : x # b => tables'[x] = tables[x]
      /\ tables[b].size \in Sizes /\ tables'[b] \in TablesOf(tables[b].size)
      /\ \A j \in 0 .. tables[b].size - 1 :
           Distinct(tables'[b].chain[j]) /\ Hashed(tables'[b].chain[j], tables[b].size, j)
      /\ \A x : x \in KeysIn(b)' <=> x \in KeysIn(b) \/ (Chain(e) # <<>> /\ x = KeyOf(e))
  BY <1>0, CopyWrites
<1>3. /\ f = None \/ (f \in Entries /\ f[1] = a /\ Inside(f))
      /\ \A k \in KeysIn(a) : Ahead(k, e) => (Chain(e) # <<>> /\ k = KeyOf(e)) \/ (f # None /\ Ahead(k, f))
      /\ f # None => \A k \in Keys : Passed(k, e) => Passed(k, f)
      /\ f # None /\ Chain(e) # <<>> => Passed(KeyOf(e), f)
  BY <1>0, <1>2, CopyMoves
<1>4. tables'[b] # None /\ tables'[b].size = tables[b].size
  <2>1. PICK U, n : U = tables'[b] /\ n = tables[b].size OBVIOUS
  <2>2. U \in TablesOf(n) /\ n \in Sizes BY <1>2, <2>1
  <2>3. U.size = n BY <2>2 DEF TablesOf
  <2>4. QED BY <2>1, <2>2, <2>3, NotNone
<1>5. a \in 1 .. MaxTables /\ tables'[a] = tables[a] /\ a <= made BY <1>0, <1>1, <1>2, TableInUse
<1>6. l \in Locals /\ l.pc = "copy" /\ l.at = f /\ l.nht = b BY <1>0, <1>1, <1>3, LocalType DEF Locals, Positions, Inv
<1> HIDE DEF l
<1>7. th' \in [Threads -> Locals] /\ th'[t] = l /\ Others(t) /\ \A u \in Threads : u # t => th'[u] = th[u]
  BY <1>1, <1>6, Moved DEF Inv
<1>8. \A u \in Threads : u # t => th[u].pc \notin Holding BY <1>1, OneHolder DEF Holding
<1>9. \A u \in Threads : th'[u].pc = th[u].pc /\ th'[u].nht = th[u].nht BY <1>0, <1>1, <1>6, <1>7
<1>10. TypeOK'
  <2>1. \A x \in 1 .. MaxTables : tables'[x] = None \/ \E n \in Sizes : tables'[x] \in TablesOf(n)
    BY <1>2 DEF Inv, TypeOK
  <2>2. made' \in 1 .. MaxTables /\ table' \in 1 .. MaxTables \cup {None} /\ old' \in Seq(1 .. MaxTables)
    BY <1>1 DEF Inv, TypeOK
  <2>3. QED BY <1>1, <1>2, <1>7, <2>1, <2>2 DEF Inv, TypeOK
<1>11. HeadInv' BY <1>1, <1>9 DEF Inv, HeadInv
<1>12. EntryInv'
  <2>1. rd \subseteq Threads \X Entries /\ wr \subseteq Threads \X Entries BY DEF Inv, TypeOK
  <2>2. \A p \in rd \cup wr : p[1] \in Threads BY <2>1
  <2>3. \A x : OutOfUse(x) => OutOfUse(x)' BY <1>1, <1>9 DEF OutOfUse
  <2>4. \A u \in Threads : th[u].pc \in {"link", "fill"} => th'[u].at = th[u].at BY <1>1, <1>7
  <2>5. QED BY <1>1, <1>9, <2>2, <2>3, <2>4 DEF Inv, EntryInv
<1>13. MemoryInv'
  <2>1. \A x \in 1 .. MaxTables : tables'[x] # None <=> tables[x] # None BY <1>2, <1>4
  <2>2. QED BY <1>1, <1>9, <2>1 DEF Inv, MemoryInv
<1>14. PlaceInv'
  <2> SUFFICES ASSUME NEW u \in Threads PROVE PlaceOK(u)' BY DEF PlaceInv
  <2>1. CASE u = t
    <3>1. f # None => Chain(f)' = Chain(f) BY <1>3, <1>5 DEF Chain
    <3>2. f # None => f[1] <= made /\ f[1] = a /\ Inside(f)' BY <1>3, <1>5, <3>1 DEF Inside
    <3>3. QED BY <1>0, <1>1, <1>6, <1>7, <2>1, <3>2 DEF PlaceOK, Outside
  <2>2. CASE u # t
    <3>1. th'[u] = th[u] /\ PlaceOK(u) BY <1>7, <2>2 DEF Inv, PlaceInv
    <3>2. PICK g : g = th[u].at OBVIOUS
    <3>3. th[u].pc \notin {"lock", "create", "copy", "sweep", "chain"} BY <1>8, <2>2 DEF Holding
    <3>4. th[u].pc \in Outside => g \in Entries /\ g[1] # b
      BY <1>0, <1>1, <3>1, <3>2, LocalType DEF PlaceOK, Inv
    <3>5. g \in Entries /\ g[1] # b => tables'[g[1]] = tables[g[1]] BY <1>2, EntryType
    <3>6. tables'[g[1]] = tables[g[1]] => Chain(g)' = Chain(g) BY DEF Chain
    <3>7. tables'[g[1]] = tables[g[1]] => (Inside(g)' <=> Inside(g)) BY <3>6 DEF Inside
    <3>8. QED BY <1>1, <1>9, <3>1, <3>2, <3>3, <3>4, <3>5, <3>6, <3>7 DEF PlaceOK, Outside
  <2>3. QED BY <2>1, <2>2
<1>15. ChainInv'
  <2> SUFFICES ASSUME NEW x \in 1 .. MaxTables, tables'[x] # None, NEW i \in 0 .. tables'[x].size - 1
               PROVE  ChainOK(x, i)'
    BY DEF ChainInv
  <2>1. CASE x = b
    <3>1. Distinct(tables'[x].chain[i]) /\ Hashed(tables'[x].chain[i], tables'[x].size, i) BY <1>2, <1>4, <2>1
    <3>2. PICK c, n : c = tables'[x].chain[i] /\ n = tables'[x].size OBVIOUS
    <3>3. /\ \A p, q \in DOMAIN c : c[p] = c[q] => p = q
          /\ \A p \in DOMAIN c : c[p] # None /\ Hash(c[p], n) = i
      BY <3>1, <3>2 DEF Distinct, Hashed
    <3>4. QED BY <3>2, <3>3 DEF ChainOK
  <2>2. CASE x # b
    <3>1. tables'[x] = tables[x] BY <1>2, <2>2
    <3>2. ChainOK(x, i) BY <3>1 DEF Inv, ChainInv
    <3>3. \A u \in Threads : th[u].pc = "fill" => th'[u] = th[u] BY <1>1, <1>7
    <3>4. QED BY <3>1, <3>2, <3>3 DEF ChainOK, Base
  <2>3. QED BY <2>1, <2>2
<1>16. KeptInv'
  <2>1. KeysIn(table)' = KeysIn(a) BY <1>0, <1>1, <1>5 DEF KeysIn
  <2>2. a # None BY <1>5, NotNone
  <2>3. kept \subseteq KeysIn(a) /\ kept \subseteq Keys BY <1>0, <2>2 DEF Inv, KeptInv, TypeOK
  <2>4. ASSUME f # None, NEW k PROVE (Ahead(k, f)' <=> Ahead(k, f)) /\ (Passed(k, f)' <=> Passed(k, f))
    <3>1. tables'[f[1]] = tables[f[1]] BY <1>3, <1>5, <2>4
    <3>2. Chain(f)' = Chain(f) BY <3>1 DEF Chain
    <3>3. Place(f)' = Place(f) BY <3>2 DEF Place
    <3>4. QED BY <3>1, <3>2, <3>3 DEF Ahead, Passed
  <2>5. e # None BY <1>2, NotNone
  <2>6. /\ \A k \in kept : k \in KeysIn(b) \/ Ahead(k, e)
        /\ \A k \in KeysIn(b) : Passed(k, e)
    BY <1>0, <1>1, <2>5 DEF Inv, KeptInv
  <2>7. ASSUME NEW k \in kept PROVE k \in KeysIn(b)' \/ (f # None /\ Ahead(k, f)')
    BY <1>2, <1>3, <2>3, <2>4, <2>6
  <2>8. ASSUME f # None, NEW k \in KeysIn(b)' PROVE Passed(k, f)'
    <3>1. CASE k \in KeysIn(b)
      <4>1. k \in Keys BY <1>2, <3>1, KeyIsAt
      <4>2. QED BY <1>3, <2>4, <2>6, <2>8, <3>1, <4>1
    <3>2. CASE Chain(e) # <<>> /\ k = KeyOf(e) BY <1>3, <2>4, <2>8, <3>2
    <3>3. QED BY <1>2, <2>8, <3>1, <3>2
  <2>9. \A u \in Threads : th'[u].pc = "copy" => th'[u].at = f /\ th'[u].nht = b BY <1>6, <1>7, <1>8 DEF Holding
  <2>10. QED BY <1>1, <2>1, <2>3, <2>7, <2>8, <2>9 DEF KeptInv
<1>17. QED BY <1>10, <1>11, <1>12, <1>13, <1>14, <1>15, <1>16 DEF Inv
-----------------------------------------------------------------------------
(* The invariant holds, and what it says.                                  *)

\* One table, in use, that nobody is at.
LEMMA Initially ==
  ASSUME Init
  PROVE  Inv
<1>20. PICK size \in Sizes : \E chain \in [0 .. size - 1 -> Orders] :
         /\ \A i \in 0 .. size - 1 : \A p \in DOMAIN chain[i] : Hash(chain[i][p], size) = i
         /\ tables = [a \in 1 .. MaxTables |-> IF a > 1 THEN None ELSE [size |-> size, chain |-> chain]]
  BY DEF Init
<1>1. PICK chain \in [0 .. size - 1 -> Orders] :
        /\ \A i \in 0 .. size - 1 : \A p \in DOMAIN chain[i] : Hash(chain[i][p], size) = i
        /\ tables = [a \in 1 .. MaxTables |-> IF a > 1 THEN None ELSE [size |-> size, chain |-> chain]]
  BY <1>20
<1>2. PICK T : T = [size |-> size, chain |-> chain] OBVIOUS
<1>3. \A s \in Orders : s \in Seq(Keys \cup {None}) /\ Distinct(s) /\ \A p \in DOMAIN s : s[p] \in Keys
  <2>1. SUFFICES ASSUME NEW s \in Orders
                 PROVE  s \in Seq(Keys \cup {None}) /\ Distinct(s) /\ \A p \in DOMAIN s : s[p] \in Keys
    OBVIOUS
  <2>2. s \in UNION {[1 .. n -> Keys] : n \in 0 .. Cardinality(Keys)} /\ Distinct(s) BY DEF Orders, Distinct
  <2>3. PICK n \in 0 .. Cardinality(Keys) : s \in [1 .. n -> Keys] BY <2>2
  <2>4. n \in Nat BY FS_CardinalityType, ResizeAssumption
  <2>5. s \in Seq(Keys \cup {None}) BY <2>3, <2>4
  <2>6. QED BY <2>2, <2>3, <2>5
<1>4. \A i \in 0 .. size - 1 : chain[i] \in Seq(Keys \cup {None}) /\ Distinct(chain[i]) /\ \A p \in DOMAIN chain[i] : chain[i][p] \in Keys
  BY <1>3
<1>5. chain \in [0 .. size - 1 -> Seq(Keys \cup {None})] BY <1>4
<1>6. T \in TablesOf(size) /\ T.size = size /\ T.chain = chain BY <1>2, <1>5 DEF TablesOf
<1>7. T # None BY <1>6, NotNone
<1>8. MaxTables \in Nat \ {0} /\ MaxCalls \in Nat BY ResizeAssumption
<1>9. /\ DOMAIN tables = 1 .. MaxTables /\ tables[1] = T /\ 1 \in 1 .. MaxTables
      /\ \A a \in 1 .. MaxTables : a # 1 => tables[a] = None
  BY <1>1, <1>2, <1>8
<1>10. /\ made = 1 /\ table = 1 /\ old = <<>> /\ tableR = {} /\ tableW = None /\ mutex = None /\ rd = {} /\ wr = {}
       /\ th = [t \in Threads |-> Idle] /\ calls = 0 /\ alive = TRUE /\ kept = {}
  BY DEF Init
<1>11. \A t \in Threads : th[t] = Idle /\ th[t].pc = "idle" BY <1>10, IdleType
<1>12. TypeOK
  <2>1. \A a \in 1 .. MaxTables : tables[a] = None \/ \E n \in Sizes : tables[a] \in TablesOf(n) BY <1>6, <1>9
  <2>2. th \in [Threads -> Locals] BY <1>10, IdleType
  <2>3. old \in Seq(1 .. MaxTables) BY <1>10
  <2>4. made \in 1 .. MaxTables /\ table \in 1 .. MaxTables /\ calls \in 0 .. MaxCalls BY <1>8, <1>10
  <2>5. QED BY <1>9, <1>10, <2>1, <2>2, <2>3, <2>4 DEF TypeOK
<1>13. HeadInv
  <2>1. table # None BY <1>10, NotNone
  <2>2. QED BY <1>10, <1>11, <2>1, NotNone DEF HeadInv, Holding
<1>14. EntryInv BY <1>10, <1>11 DEF EntryInv
<1>15. MemoryInv
  <2>1. Elements(old) = {} /\ DOMAIN old = {} BY <1>10 DEF Elements
  <2>2. 1 \in 1 .. made BY <1>10
  <2>3. QED BY <1>7, <1>9, <1>10, <1>11, <2>1, <2>2 DEF MemoryInv
<1>16. PlaceInv BY <1>11 DEF PlaceInv, PlaceOK, Outside
<1>17. ChainInv
  <2> SUFFICES ASSUME NEW a \in 1 .. MaxTables, tables[a] # None, NEW i \in 0 .. tables[a].size - 1
               PROVE  ChainOK(a, i)
    BY DEF ChainInv
  <2>1. tables[a].size = size /\ tables[a].chain[i] = chain[i] /\ i \in 0 .. size - 1 BY <1>6, <1>9
  <2>2. PICK c : c = chain[i] OBVIOUS
  <2>3. /\ \A p, q \in DOMAIN c : c[p] = c[q] => p = q
        /\ \A p \in DOMAIN c : Hash(c[p], size) = i /\ c[p] # None
    BY <1>1, <1>4, <2>1, <2>2, NotNone DEF Distinct
  <2>4. QED BY <2>1, <2>2, <2>3 DEF ChainOK
<1>18. KeptInv BY <1>10, <1>11 DEF KeptInv
<1>19. QED BY <1>12, <1>13, <1>14, <1>15, <1>16, <1>17, <1>18 DEF Inv

\* Nothing happens.
LEMMA Stuttering ==
  ASSUME Inv, UNCHANGED vars
  PROVE  Inv'
<1>1. UNCHANGED <<tables, made, table, old, tableR, tableW, mutex, rd, wr, th, calls, alive, kept>> BY DEF vars
<1>2. TypeOK' BY <1>1 DEF Inv, TypeOK
<1>3. HeadInv' BY <1>1 DEF Inv, HeadInv
<1>4. EntryInv' BY <1>1 DEF Inv, EntryInv, OutOfUse
<1>5. MemoryInv' BY <1>1 DEF Inv, MemoryInv
<1>6. PlaceInv' BY <1>1 DEF Inv, PlaceInv, PlaceOK, Inside, Chain
<1>7. ChainInv' BY <1>1 DEF Inv, ChainInv, ChainOK
<1>8. KeptInv' BY <1>1, SameTables DEF Inv, KeptInv
<1>9. QED BY <1>2, <1>3, <1>4, <1>5, <1>6, <1>7, <1>8 DEF Inv

\* Every step of every thread.
LEMMA StepInv ==
  ASSUME Inv, Next
  PROVE  Inv'
<1>1. CASE Destroy BY <1>1, DestroyStep
<1>2. ASSUME NEW t \in Threads, Call(t) \/ Step(t) PROVE Inv'
  <2>1. CASE Call(t) BY <2>1, CallStep
  <2>2. CASE UseFreed(t)
    <3>1. Fault BY <2>2 DEF UseFreed
    <3>2. QED BY <3>1, FaultStep
  <2>3. CASE Locate(t)
    <3>1. CASE LocateBeyond(t)
      <4>1. Fault BY <3>1 DEF LocateBeyond
      <4>2. QED BY <4>1, FaultStep
    <3>2. QED BY <2>3, <3>1, LocateLockStep, LocateIndexStep, LocateBaseStep, LocateNoneStep, LocateNextStep,
                 LocateFoundStep, LocateReadStep DEF Locate
  <2>4. CASE Insert(t)
    BY <2>4, InsertLockStep, InsertBaseStep, InsertMarkStep, InsertFillStep, InsertEndStep DEF Insert
  <2>5. CASE Resize(t)
    <3>1. CASE ResizeCopyUnfilled(t)
      <4>1. Fault BY <3>1 DEF ResizeCopyUnfilled
      <4>2. QED BY <4>1, FaultStep
    <3>2. QED BY <2>5, <3>1, ResizeMutexStep, ResizeLockStep, ResizeCreateStep, ResizeNoMemoryStep, ResizeCopyStep,
                 ResizeEndStep, ResizeSwapStep, SweepBaseStep, SweepChainedStep DEF Resize
  <2>6. QED BY <1>2, <2>1, <2>2, <2>3, <2>4, <2>5 DEF Step
<1>3. CASE DestroyWild
  <2>1. Fault BY <1>3 DEF DestroyWild
  <2>2. QED BY <2>1, FaultStep
<1>4. QED BY <1>1, <1>2, <1>3 DEF Next

\* The invariant of ht_resize beside searches and insertions.
THEOREM Invariance == Spec => []Inv
<1>1. Init => Inv BY Initially
<1>2. Inv /\ [Next]_vars => Inv' BY StepInv, Stuttering
<1>3. QED BY <1>1, <1>2, PTL DEF Spec

\* Every variable of ht_resize, its callers and its tables has its type.
THEOREM TypeCorrect == Spec => []TypeOK
<1>1. Inv => TypeOK BY DEF Inv
<1>2. QED BY <1>1, Invariance, PTL

\* ht_resize loses none of the keys that were in the table when it locked it,
\* and repeats none, whatever insertions and searches do meanwhile and wherever
\* it fails.
THEOREM ResizeKeepsKeys == Spec => []KeysSurvive
<1>1. ASSUME Inv PROVE KeysSurvive
  <2>1. SUFFICES ASSUME table # None
                 PROVE  /\ kept \subseteq KeysIn(table)
                        /\ \A i \in DOMAIN tables[table].chain : Distinct(tables[table].chain[i])
    BY DEF KeysSurvive, Distinct
  <2>2. table \in 1 .. MaxTables /\ tables[table] # None BY <1>1, <2>1 DEF Inv, TypeOK, MemoryInv
  <2>3. DOMAIN tables[table].chain = 0 .. tables[table].size - 1 BY <1>1, <2>2, TableType DEF Inv
  <2>4. \A i \in 0 .. tables[table].size - 1 : ChainOK(table, i) BY <1>1, <2>2 DEF Inv, ChainInv
  <2>5. \A i \in 0 .. tables[table].size - 1 : Distinct(tables[table].chain[i]) BY <2>4 DEF ChainOK, Distinct
  <2>6. QED BY <1>1, <2>1, <2>3, <2>5 DEF Inv, KeptInv
<1>2. QED BY <1>1, Invariance, PTL

\* A sequence without repetition is as long as the set of its items is large.
LEMMA CountDistinct ==
  ASSUME NEW s \in Seq(1 .. MaxTables), Distinct(s)
  PROVE  Len(s) = Cardinality(Elements(s))
<1>1. PICK n, T : n = Len(s) /\ T = Elements(s) OBVIOUS
<1>2. n \in Nat /\ DOMAIN s = 1 .. n BY <1>1
<1>3. s \in [1 .. n -> T]
  <2>1. \A i \in 1 .. n : s[i] \in T BY <1>1, <1>2 DEF Elements
  <2>2. s = [i \in 1 .. n |-> s[i]] BY <1>1, <1>2
  <2>3. QED BY <2>1, <2>2
<1>4. s \in Surjection(1 .. n, T) BY <1>1, <1>2, <1>3 DEF Surjection, Elements
<1>5. s \in Injection(1 .. n, T) BY <1>2, <1>3 DEF Injection, IsInjective, Distinct
<1>6. IsFiniteSet(1 .. n) /\ Cardinality(1 .. n) = n
  <2>1. 1 \in Int /\ n \in Int /\ 1 <= n + 1 BY <1>2
  <2>2. QED BY <1>2, FS_Interval
<1>7. Cardinality(T) = Cardinality(1 .. n) BY <1>4, <1>5, <1>6, FS_Surjection
<1>8. QED BY <1>1, <1>6, <1>7

\* On every path of ht_resize, and after ht_destroy, the tables that are not
\* freed are those the head leads to, each once; and a copy or a sweep is inside
\* one of them.
THEOREM NoTableLost == Spec => []LiveIsReachable
<1>1. ASSUME Inv PROVE LiveIsReachable
  <2>1. made \in 1 .. MaxTables /\ MaxTables \in Nat /\ table \in 1 .. MaxTables \cup {None} /\ old \in Seq(1 .. MaxTables)
    BY <1>1, ResizeAssumption DEF Inv, TypeOK
  <2>2. Live = Elements(old) \cup ({table} \ {None})
    <3>1. \A a \in 1 .. MaxTables : tables[a] # None <=> a \in Elements(old) \/ a = table BY <1>1 DEF Inv, MemoryInv
    <3>2. Elements(old) \subseteq 1 .. made BY <1>1 DEF Inv, MemoryInv
    <3>3. Elements(old) \subseteq 1 .. MaxTables BY <2>1, <3>2
    <3>4. \A a \in 1 .. MaxTables : a # None BY NotNone
    <3>5. QED BY <2>1, <3>1, <3>3, <3>4 DEF Live
  <2>3. Len(old) = Cardinality(Elements(old))
    <3>1. Distinct(old) BY <1>1 DEF Inv, MemoryInv, Distinct
    <3>2. QED BY <2>1, <3>1, CountDistinct
  <2>4. table \notin Elements(old) BY <1>1 DEF Inv, MemoryInv
  <2>5. ASSUME NEW t \in Threads, th[t].pc \in {"copy", "sweep"}, th[t].at # None
        PROVE  th[t].at[1] \in Live /\ th[t].at[2] \in 0 .. tables[th[t].at[1]].size - 1
    <3>1. PICK e : e = th[t].at OBVIOUS
    <3>2. PlaceOK(t) BY <1>1 DEF Inv, PlaceInv
    <3>3. e \in Entries BY <1>1, <2>5, <3>1, LocalType DEF Inv
    <3>4. Inside(e) BY <2>5, <3>1, <3>2 DEF PlaceOK
    <3>5. tables[e[1]] # None
      <4>1. CASE th[t].pc = "copy"
        <5>1. e[1] = table BY <2>5, <3>1, <3>2, <4>1 DEF PlaceOK
        <5>2. QED BY <1>1, <4>1, <5>1, TableInUse
      <4>2. CASE th[t].pc = "sweep"
        <5>1. e[1] = old[1] BY <3>1, <3>2, <4>2 DEF PlaceOK
        <5>2. old # <<>> BY <1>1, <4>2 DEF Inv, MemoryInv
        <5>3. QED BY <1>1, <5>1, <5>2, OldFirst
      <4>3. QED BY <2>5, <4>1, <4>2
    <3>6. e[1] \in 1 .. MaxTables /\ e[2] \in 0 .. tables[e[1]].size - 1 BY <1>1, <3>3, <3>4, <3>5, EntryIn
    <3>7. QED BY <3>1, <3>5, <3>6 DEF Live
  <2>6. QED BY <2>2, <2>3, <2>4, <2>5 DEF LiveIsReachable
<1>2. QED BY <1>1, Invariance, PTL

\* A call that has returned holds no lock of the head and none of the table in
\* use: the lock that a refused sweep keeps is of a table that is never used again.
THEOREM CallsUnlock == Spec => []NoLockLeft
<1>1. ASSUME Inv PROVE NoLockLeft
  <2>1. SUFFICES ASSUME NEW t \in Threads, th[t].pc = "idle"
                 PROVE  /\ t \notin tableR /\ tableW # t /\ mutex # t
                        /\ \A p \in rd \cup wr : p[1] = t => p[2][1] # table
    BY DEF NoLockLeft
  <2>2. t \notin tableR /\ tableW # t /\ mutex # t BY <1>1, <2>1 DEF Inv, HeadInv, Holding
  <2>3. \A p \in rd : p[1] # t BY <1>1, <2>1 DEF Inv, EntryInv
  <2>4. \A p \in wr : p[1] = t => OutOfUse(p[2][1]) BY <1>1, <2>1 DEF Inv, EntryInv
  <2>5. QED BY <2>2, <2>3, <2>4 DEF OutOfUse
<1>2. QED BY <1>1, Invariance, PTL
=============================================================================
