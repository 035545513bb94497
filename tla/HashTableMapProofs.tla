-------------------------- MODULE HashTableMapProofs --------------------------
(***************************************************************************)
(* What holds of whole chains of HashTable, however long they are, when    *)
(* nobody deletes: the chain of a bucket holds the keys of that bucket,    *)
(* each once, the free chain is as long as it is counted, and the table as *)
(* a whole implements SharedMap.                                           *)
(*                                                                         *)
(* A chain is what a walk along `next' visits.  An invariant speaks of it  *)
(* through the sets that are closed under `next': an entry is on the chain *)
(* that starts at b if it is in every closed set that holds b.             *)
(***************************************************************************)
EXTENDS HashTableProofs, HashTableRefinement, FiniteSetTheorems, WellFoundedInduction

(* Numbers and walks.                                                      *)

\* A set of numbers has a least one.
LEMMA Least ==
  ASSUME NEW T, T \subseteq Nat, T # {}
  PROVE  \E x \in T : \A y \in T : x <= y
<1>1. PICK R : R = OpToRel(<, Nat) OBVIOUS
<1>2. \A x, y \in Nat : <<y, x>> \in R <=> y < x BY <1>1 DEF OpToRel
<1>3. IsWellFoundedOn(R, Nat) BY <1>1, NatLessThanWellFounded
<1>4. PICK x \in T : \A y \in T : ~ (<<y, x>> \in R) BY <1>3, WFMin
<1>5. \A y \in T : ~(y < x) BY <1>2, <1>4
<1>6. \A y \in T : x <= y BY <1>5
<1>7. QED BY <1>6

\* A set of numbers that starts at 0 and goes on up to n has all up to n.
LEMMA UpTo ==
  ASSUME NEW n \in Nat, NEW T, 0 \in T, \A i \in 1 .. n : i - 1 \in T => i \in T
  PROVE  0 .. n \subseteq T
<1>1. SUFFICES ASSUME (0 .. n) \ T # {} PROVE FALSE OBVIOUS
<1>2. (0 .. n) \ T \subseteq Nat OBVIOUS
<1>3. PICK x \in (0 .. n) \ T : \A y \in (0 .. n) \ T : x <= y BY <1>1, <1>2, Least
<1>4. x \in 1 .. n /\ x - 1 \in 0 .. n /\ ~(x <= x - 1) BY <1>3
<1>5. x - 1 \in T BY <1>3, <1>4
<1>6. QED BY <1>3, <1>4, <1>5

\* The number of entries of a slab, and of all together.
LEMMA SlabSize == IsFiniteSet(0 .. NumEnts - 1) /\ Cardinality(0 .. NumEnts - 1) = NumEnts
<1>1. NumEnts \in Nat \ {0} BY SizeAssumption
<1>2. 0 \in Int /\ NumEnts - 1 \in Int /\ 0 <= (NumEnts - 1) + 1 BY <1>1
<1>3. QED BY <1>1, <1>2, FS_Interval
Size == (MaxSlabs + 1) * NumEnts

\* There are as many entries as that.
LEMMA SizeIs ==
  /\ Size \in Nat \ {0}
  /\ IsFiniteSet(Entry) /\ Cardinality(Entry) = Size
<1>1. MaxSlabs \in Nat /\ NumEnts \in Nat \ {0} BY SizeAssumption
<1>2. MaxSlabs + 1 \in Nat \ {0} BY <1>1
<1>3. Size \in Nat \ {0} BY <1>1, <1>2 DEF Size
<1>4. IsFiniteSet(0 .. MaxSlabs) /\ Cardinality(0 .. MaxSlabs) = MaxSlabs + 1
  <2>1. 0 \in Int /\ MaxSlabs \in Int /\ 0 <= MaxSlabs + 1 BY <1>1
  <2>2. QED BY <1>1, <2>1, FS_Interval
<1>5. IsFiniteSet(0 .. NumEnts - 1) /\ Cardinality(0 .. NumEnts - 1) = NumEnts BY SlabSize
<1>6. IsFiniteSet(Entry) /\ Cardinality(Entry) = (MaxSlabs + 1) * NumEnts
  BY <1>4, <1>5, FS_Product DEF Entry
<1>7. QED BY <1>3, <1>6 DEF Size

\* f is a walk from e: each step follows next, and it stays where it ends.
After(x) == IF x = None THEN None ELSE next[x]
IsWalk(f, e, n) ==
  /\ f \in [0 .. n -> Entry \cup {None}]
  /\ f[0] = e
  /\ \A i \in 1 .. n : f[i] = After(f[i - 1])

\* There is one of any length.
LEMMA WalkExists ==
  ASSUME TypeInv, NEW e \in Entry, NEW m \in Nat
  PROVE  \E f : IsWalk(f, e, m)
<1> DEFINE T == {n \in Nat : \E f : IsWalk(f, e, n)}
<1>1. 0 \in T
  <2> DEFINE f == [i \in 0 .. 0 |-> e]
  <2>1. IsWalk(f, e, 0) BY DEF IsWalk
  <2>2. QED BY <2>1
<1>2. ASSUME NEW n \in 1 .. m, n - 1 \in T PROVE n \in T
  <2>1. PICK f : IsWalk(f, e, n - 1) BY <1>2
  <2> DEFINE g == [i \in 0 .. n |-> IF i = n THEN After(f[n - 1]) ELSE f[i]]
  <2>2. n \in Nat \ {0} /\ n - 1 \in 0 .. n - 1 BY <1>2
  <2>3. f[n - 1] \in Entry \cup {None} BY <2>1, <2>2 DEF IsWalk
  <2>4. After(f[n - 1]) \in Entry \cup {None} BY <2>3 DEF After, TypeInv, TypeOK
  <2>5. \A i \in 0 .. n : i # n => i \in 0 .. n - 1 BY <2>2
  <2>6. g \in [0 .. n -> Entry \cup {None}] BY <2>1, <2>4, <2>5 DEF IsWalk
  <2>7. g[0] = e BY <2>1, <2>2 DEF IsWalk
  <2>8. ASSUME NEW i \in 1 .. n PROVE g[i] = After(g[i - 1])
    <3>1. i - 1 \in 0 .. n /\ i - 1 # n /\ i \in 0 .. n /\ (i # n => i \in 1 .. n - 1) BY <2>2
    <3>2. g[i - 1] = f[i - 1] BY <3>1
    <3>3. CASE i = n BY <3>1, <3>2, <3>3
    <3>4. CASE i # n
      <4>1. g[i] = f[i] BY <3>1, <3>4
      <4>2. f[i] = After(f[i - 1]) BY <2>1, <3>1, <3>4 DEF IsWalk
      <4>3. QED BY <3>2, <4>1, <4>2
    <3>5. QED BY <3>3, <3>4
  <2> HIDE DEF g
  <2>9. IsWalk(g, e, n) BY <2>6, <2>7, <2>8 DEF IsWalk
  <2>10. QED BY <2>2, <2>9
<1> HIDE DEF T
<1>3. 0 .. m \subseteq T BY <1>1, <1>2, UpTo
<1>4. m \in T BY <1>3
<1>5. QED BY <1>4 DEF T

\* ChainFrom(e) is what a walk of as many steps as there are entries visits.
LEMMA ChainIsWalk ==
  ASSUME TypeInv, NEW e \in Entry
  PROVE  \E f : IsWalk(f, e, Size) /\ ChainFrom(e) = {f[n] : n \in 0 .. Size} \ {None}
<1> DEFINE D(f) == f = [n \in 0 .. Size |-> IF n = 0 THEN e
                                          ELSE IF f[n - 1] = None THEN None ELSE next[f[n - 1]]]
<1>1. PICK w : IsWalk(w, e, Size) BY WalkExists, SizeIs
<1>2. \A n \in 0 .. Size : n # 0 => n \in 1 .. Size BY SizeIs
<1>3. D(w)
  <2>1. \A n \in 0 .. Size : w[n] = IF n = 0 THEN e ELSE IF w[n - 1] = None THEN None ELSE next[w[n - 1]]
    BY <1>1, <1>2 DEF IsWalk, After
  <2>2. w = [n \in 0 .. Size |-> w[n]] BY <1>1 DEF IsWalk
  <2>3. QED BY <2>1, <2>2
<1>4. PICK g : g = CHOOSE f : D(f) OBVIOUS
<1>5. D(g) BY <1>3, <1>4
<1>6. ChainFrom(e) = {g[n] : n \in DOMAIN g} \ {None} BY <1>4 DEF ChainFrom, Size
<1>7. DOMAIN g = 0 .. Size BY <1>5
<1>8. \A n \in 0 .. Size : g[n] = IF n = 0 THEN e ELSE IF g[n - 1] = None THEN None ELSE next[g[n - 1]] BY <1>5
<1> HIDE DEF D
<1> DEFINE T == {n \in 0 .. Size : g[n] \in Entry \cup {None}}
<1>9. 0 \in T BY <1>8, SizeIs
<1>10. ASSUME NEW n \in 1 .. Size, n - 1 \in T PROVE n \in T
  <2>1. n \in 0 .. Size /\ n # 0 BY <1>10, SizeIs
  <2>2. g[n - 1] \in Entry \cup {None} BY <1>10
  <2>3. QED BY <1>8, <2>1, <2>2 DEF TypeInv, TypeOK
<1> HIDE DEF T
<1>11. 0 .. Size \subseteq T BY <1>9, <1>10, UpTo, SizeIs
<1>12. \A n \in 0 .. Size : g[n] \in Entry \cup {None} BY <1>11 DEF T
<1>13. g \in [0 .. Size -> Entry \cup {None}]
  <2>1. g = [n \in 0 .. Size |-> g[n]] BY <1>5 DEF D
  <2>2. QED BY <1>12, <2>1
<1>14. \A n \in 1 .. Size : n \in 0 .. Size /\ n # 0 BY SizeIs
<1>15. IsWalk(g, e, Size) BY <1>8, <1>13, <1>14, SizeIs DEF IsWalk, After
<1>16. QED BY <1>6, <1>7, <1>15

\* Following next from an entry of S never leaves S.
Closed(S) == \A x \in S : next[x] # None => next[x] \in S

\* What the chain from e visits is in every closed set that e is in.
LEMMA ChainInside ==
  ASSUME TypeInv, NEW e \in Entry, NEW S \in SUBSET Entry, e \in S, Closed(S)
  PROVE  ChainFrom(e) \subseteq S
<1>1. PICK f : IsWalk(f, e, Size) /\ ChainFrom(e) = {f[n] : n \in 0 .. Size} \ {None} BY ChainIsWalk
<1> DEFINE T == {n \in 0 .. Size : f[n] \in S \cup {None}}
<1>2. 0 \in T BY <1>1, SizeIs DEF IsWalk
<1>3. ASSUME NEW n \in 1 .. Size, n - 1 \in T PROVE n \in T
  <2>1. n \in 0 .. Size BY <1>3, SizeIs
  <2>2. f[n - 1] \in S \cup {None} /\ f[n] = After(f[n - 1]) BY <1>1, <1>3 DEF IsWalk
  <2>3. QED BY <2>1, <2>2, NoneAssumption DEF After, Closed
<1> HIDE DEF T
<1>4. 0 .. Size \subseteq T BY <1>2, <1>3, UpTo, SizeIs
<1>5. QED BY <1>1, <1>4 DEF T

\* The chain from e is itself such a set: a walk that met no end in as many
\* steps as there are entries would have come to one of them twice.
LEMMA ChainClosed ==
  ASSUME TypeInv, Acyclic, NEW e \in Entry
  PROVE  e \in ChainFrom(e) /\ ChainFrom(e) \subseteq Entry /\ Closed(ChainFrom(e))
<1>1. PICK f : IsWalk(f, e, Size) /\ ChainFrom(e) = {f[n] : n \in 0 .. Size} \ {None} BY ChainIsWalk
<1>2. Size \in Nat \ {0} BY SizeIs
<1>3. \A n \in 0 .. Size : f[n] \in Entry \cup {None} BY <1>1 DEF IsWalk
<1>4. e \in ChainFrom(e)
  <2>1. f[0] = e /\ 0 \in 0 .. Size BY <1>1, <1>2 DEF IsWalk
  <2>2. QED BY <1>1, <2>1, NoneAssumption
<1>5. ChainFrom(e) \subseteq Entry BY <1>1, <1>3
<1>6. PICK rank \in [Entry -> Nat] : \A x \in Entry : next[x] # None => rank[next[x]] < rank[x] BY DEF Acyclic
<1>7. f[Size] = None
  <2>1. SUFFICES ASSUME f[Size] # None PROVE FALSE OBVIOUS
  <2> DEFINE T == {n \in 0 .. Size : f[Size - n] # None}
  <2>2. 0 \in T BY <1>2, <2>1
  <2>3. ASSUME NEW n \in 1 .. Size, n - 1 \in T PROVE n \in T
    <3>1. Size - (n - 1) \in 1 .. Size /\ (Size - (n - 1)) - 1 = Size - n /\ n \in 0 .. Size BY <1>2, <2>3
    <3>2. f[Size - (n - 1)] = After(f[Size - n]) BY <1>1, <3>1 DEF IsWalk
    <3>3. QED BY <2>3, <3>1, <3>2 DEF After
  <2> HIDE DEF T
  <2>4. 0 .. Size \subseteq T BY <1>2, <2>2, <2>3, UpTo
  <2>5. ASSUME NEW n \in 0 .. Size PROVE f[n] \in Entry
    <3>1. Size - n \in 0 .. Size /\ Size - (Size - n) = n BY <1>2
    <3>2. f[Size - (Size - n)] # None BY <2>4, <3>1 DEF T
    <3>3. QED BY <1>3, <3>1, <3>2
  <2>6. \A n \in 1 .. Size : n - 1 \in 0 .. Size /\ n \in 0 .. Size BY <1>2
  <2>7. \A n \in 1 .. Size : rank[f[n]] < rank[f[n - 1]]
    BY <1>1, <1>6, <2>5, <2>6, NoneAssumption DEF IsWalk, After
  <2>8. ASSUME NEW i \in 0 .. Size PROVE \A j \in i + 1 .. Size : rank[f[j]] < rank[f[i]]
    <3> DEFINE U == {n \in 0 .. Size - i : n = 0 \/ rank[f[i + n]] < rank[f[i]]}
    <3>1. Size - i \in Nat /\ 0 \in U BY <1>2
    <3>2. ASSUME NEW n \in 1 .. Size - i, n - 1 \in U PROVE n \in U
      <4>1. i + n \in 1 .. Size /\ (i + n) - 1 = i + (n - 1) /\ n \in 0 .. Size - i BY <1>2
      <4>2. rank[f[i + n]] < rank[f[i + (n - 1)]] BY <2>7, <4>1
      <4>3. i + (n - 1) \in 0 .. Size /\ i + n \in 0 .. Size BY <1>2
      <4>4. rank[f[i + n]] \in Nat /\ rank[f[i + (n - 1)]] \in Nat /\ rank[f[i]] \in Nat BY <1>6, <2>5, <4>3
      <4>5. CASE n - 1 = 0 BY <4>1, <4>2, <4>5
      <4>6. CASE n - 1 # 0 BY <3>2, <4>1, <4>2, <4>4, <4>6
      <4>7. QED BY <4>5, <4>6
    <3> HIDE DEF U
    <3>3. 0 .. Size - i \subseteq U BY <3>1, <3>2, UpTo
    <3>4. ASSUME NEW j \in i + 1 .. Size PROVE rank[f[j]] < rank[f[i]]
      <4>1. j - i \in 0 .. Size - i /\ j - i # 0 /\ i + (j - i) = j BY <1>2
      <4>2. j - i \in U BY <3>3, <4>1
      <4>3. QED BY <4>1, <4>2 DEF U
    <3>5. QED BY <3>4
  <2>9. ASSUME NEW i \in 0 .. Size, NEW j \in 0 .. Size, f[i] = f[j] PROVE i = j
    <3>1. rank[f[i]] \in Nat BY <1>6, <2>5
    <3>2. ~(i < j)
      <4>1. i < j => j \in i + 1 .. Size BY <1>2
      <4>2. QED BY <2>8, <2>9, <3>1, <4>1
    <3>3. ~(j < i)
      <4>1. j < i => i \in j + 1 .. Size BY <1>2
      <4>2. QED BY <2>8, <2>9, <3>1, <4>1
    <3>4. QED BY <3>2, <3>3
  <2>10. IsFiniteSet(0 .. Size) /\ Cardinality(0 .. Size) = Size + 1
    <3>1. 0 \in Int /\ Size \in Int /\ 0 <= Size + 1 BY <1>2
    <3>2. QED BY <1>2, <3>1, FS_Interval
  <2>11. f \in [0 .. Size -> Entry]
    <3>1. f = [n \in 0 .. Size |-> f[n]] BY <1>1 DEF IsWalk
    <3>2. QED BY <2>5, <3>1
  <2>12. Cardinality(0 .. Size) > Cardinality(Entry) BY <1>2, <2>10, SizeIs
  <2>13. \E x, y \in 0 .. Size : x # y /\ f[x] = f[y] BY <2>10, <2>11, <2>12, SizeIs, FS_PigeonHole
  <2>14. QED BY <2>9, <2>13
<1>8. ASSUME NEW x \in ChainFrom(e), next[x] # None PROVE next[x] \in ChainFrom(e)
  <2>1. PICK n \in 0 .. Size : x = f[n] /\ x # None BY <1>1
  <2>2. n # Size BY <1>7, <2>1
  <2>3. n + 1 \in 1 .. Size /\ (n + 1) - 1 = n /\ n + 1 \in 0 .. Size BY <1>2, <2>2
  <2>4. f[n + 1] = After(f[(n + 1) - 1]) BY <1>1, <2>3 DEF IsWalk
  <2>5. f[n + 1] = next[x] BY <2>1, <2>3, <2>4 DEF After
  <2>6. QED BY <1>1, <1>8, <2>3, <2>5
<1>9. QED BY <1>4, <1>5, <1>8 DEF Closed
-----------------------------------------------------------------------------
(* Keys.                                                                   *)

\* The entries with keys of bucket b.
Members(b) == {e \in Entry : occupied[e] /\ Bucket(key[e]) = b}

\* An entry that has its key already and is not on the chain yet.
Linking(e) == \E t \in Threads : pc[t] = "ins_link" /\ ohte[t] = e

\* Entry e is on the chain of its key's bucket.
Rooted(e) == \A S \in SUBSET Entry : Bucket(key[e]) \in S /\ Closed(S) => e \in S

\* An occupied entry has a key, and the entries behind it have keys of the same
\* bucket.
KeyedInv ==
  \A e \in Entry : occupied[e] =>
    /\ key[e] \in Keys
    /\ e \in Table => Bucket(key[e]) = e
    /\ next[e] # None => occupied[next[e]] /\ Bucket(key[next[e]]) = Bucket(key[e])
    /\ ~Linking(e) => Rooted(e)

\* No key is held twice, entries that are not linked yet included.
UniqueInv == \A d, e \in Entry : occupied[d] /\ occupied[e] /\ key[d] = key[e] => d = e

\* Where an insertion is at an entry.
Busy == InsertLabels \ {"ins_base"}

\* S is what an insertion has compared on its way along the chain.
Compared(t, S) == S \subseteq Members(dhte[t]) /\ \A x \in S : key[x] # argKey[t]

\* An insertion is at its key's bucket, and its key is not among the entries
\* that it has passed; at the end these are the whole chain.
InsertOK(t) ==
  /\ pc[t] # "fault"
  /\ pc[t] \in Busy => dhte[t] = Bucket(argKey[t])
  /\ pc[t] \in {"ins_cmp", "ins_next"} =>
       /\ ohte[t] \in Members(dhte[t])
       /\ \E S \in SUBSET Entry :
            /\ Compared(t, S) /\ dhte[t] \in S \cup {ohte[t]}
            /\ \A x \in S : next[x] \in S \cup {ohte[t], None}
  /\ pc[t] = "ins_next" => key[ohte[t]] # argKey[t]
  /\ pc[t] \in {"ins_lockfree", "ins_take", "ins_fill"} =>
       \E S \in SUBSET Entry : Compared(t, S) /\ dhte[t] \in S /\ Closed(S)
  /\ pc[t] = "ins_link" => key[ohte[t]] = argKey[t]

MapInv == KeyedInv /\ UniqueInv /\ \A t \in Threads : InsertOK(t)

\* No thread is inside ht_delete_key, or in a search for it.
LEMMA NoDelete ==
  ASSUME "delete" \notin Ops, TypeInv
  PROVE  \A t \in Threads : pc[t] \notin DeleteLabels /\ (pc[t] \in FindLabels => op[t] = "locate")
BY DEF TypeInv, PlaceOK, FindLabels, DeleteLabels

\* There are no steps of ht_delete_key.
LEMMA NotDelete ==
  ASSUME "delete" \notin Ops, IInv, NEW t \in Threads
  PROVE  ~Delete(t)
BY NoDelete DEF IInv, Delete, DeleteLone, DeleteHead, DeleteCopy, DeleteChained, DeleteLockFree, LockFree, DeleteUnlink,
   DeleteUnlock, DeleteReturn, Goto, DeleteLabels

\* Two insertions are not at the same bucket: it is locked for writing.
LEMMA OneInsertion ==
  ASSUME IInv, NEW t \in Threads, NEW u \in Threads, u # t,
         pc[t] \in Busy, pc[u] \in Busy
  PROVE  dhte[t] # dhte[u]
<1>1. dhte[t] \in Entry /\ ~Reads(t) BY DEF IInv, TypeInv, PlaceOK, InsertLabels, Busy, Reads
<1>2. dhte[t] \in Holding(t) /\ dhte[u] \in Holding(u) BY DEF Holding, InsertLabels, Busy
<1>3. QED BY <1>1, <1>2, WriterAlone DEF IInv

\* A step that moves t only.
Alone(t) == \A u \in Threads \ {t} :
  pc'[u] = pc[u] /\ dhte'[u] = dhte[u] /\ ohte'[u] = ohte[u] /\ argKey'[u] = argKey[u]

\* The chain that u is at is left alone.
Spared(u) == \A x \in Members(dhte[u]) : occupied'[x] /\ key'[x] = key[x] /\ next'[x] = next[x]

\* What an insertion knows lasts as long as its chain is left alone.
LEMMA OthersKeep ==
  ASSUME NEW t \in Threads, NEW u \in Threads \ {t}, Alone(t), InsertOK(u),
         pc[u] \in Busy => Spared(u),
         pc[u] = "ins_link" => key'[ohte[u]] = key[ohte[u]]
  PROVE  InsertOK(u)'
<1>1. pc'[u] = pc[u] /\ dhte'[u] = dhte[u] /\ ohte'[u] = ohte[u] /\ argKey'[u] = argKey[u] BY DEF Alone
<1>2. pc[u] \in Busy => \A x \in Members(dhte[u]) : x \in Members(dhte[u])' /\ key'[x] = key[x] /\ next'[x] = next[x]
  BY <1>1 DEF Spared, Members
<1>3. pc[u] \in Busy => \A S \in SUBSET Entry : Compared(u, S) => Compared(u, S)'
  BY <1>1, <1>2 DEF Compared
<1>4. ASSUME pc[u] \in {"ins_cmp", "ins_next"}
      PROVE  /\ ohte'[u] \in Members(dhte[u])'
             /\ \E S \in SUBSET Entry :
                  /\ Compared(u, S)' /\ dhte'[u] \in S \cup {ohte'[u]}
                  /\ \A x \in S : next'[x] \in S \cup {ohte'[u], None}
             /\ pc[u] = "ins_next" => key'[ohte'[u]] # argKey'[u]
  <2>1. PICK S \in SUBSET Entry :
          /\ Compared(u, S) /\ dhte[u] \in S \cup {ohte[u]}
          /\ \A x \in S : next[x] \in S \cup {ohte[u], None}
    BY <1>4 DEF InsertOK
  <2>2. pc[u] \in Busy BY <1>4 DEF Busy, InsertLabels
  <2>3. \A x \in S : next'[x] = next[x] BY <1>2, <2>1, <2>2 DEF Compared
  <2>4. ohte[u] \in Members(dhte[u]) BY <1>4 DEF InsertOK
  <2>5. QED BY <1>1, <1>2, <1>3, <1>4, <2>1, <2>2, <2>3, <2>4 DEF InsertOK
<1>5. ASSUME pc[u] \in {"ins_lockfree", "ins_take", "ins_fill"}
      PROVE  \E S \in SUBSET Entry : Compared(u, S)' /\ dhte'[u] \in S /\ Closed(S)'
  <2>1. PICK S \in SUBSET Entry : Compared(u, S) /\ dhte[u] \in S /\ Closed(S) BY <1>5 DEF InsertOK
  <2>2. pc[u] \in Busy BY <1>5 DEF Busy, InsertLabels
  <2>3. Closed(S)' BY <1>2, <2>1, <2>2 DEF Compared, Closed
  <2>4. QED BY <1>1, <1>3, <2>1, <2>2, <2>3
<1>6. QED BY <1>1, <1>4, <1>5 DEF InsertOK

\* A step that leaves the entries alone.
LEMMA SameEntries ==
  ASSUME MapInv, NEW t \in Threads, Alone(t), UNCHANGED <<occupied, key, next>>,
         pc[t] # "ins_link", pc'[t] # "ins_link", InsertOK(t)'
  PROVE  MapInv'
<1>1. \A e \in Entry : Linking(e) => Linking(e)' BY DEF Linking, Alone
<1>2. \A e : Rooted(e) => Rooted(e)' BY DEF Rooted, Closed, Bucket
<1>3. KeyedInv' BY <1>1, <1>2 DEF MapInv, KeyedInv, Bucket
<1>4. UniqueInv' BY DEF MapInv, UniqueInv
<1>5. \A u \in Threads \ {t} : InsertOK(u)' BY OthersKeep DEF MapInv, Spared, Members
<1>6. QED BY <1>3, <1>4, <1>5 DEF MapInv

\* The steps outside ht_insert_key.
LEMMA MapOutside ==
  ASSUME "delete" \notin Ops, IInv, MapInv, NEW t \in Threads, Call(t) \/ LockTable(t) \/ Find(t) \/ LocateRead(t)
  PROVE  MapInv'
<1> USE DEF IInv
<1>1. /\ UNCHANGED <<occupied, key, next, ohte>>
      /\ pc[t] \notin {"ins_link", "fault"} /\ pc'[t] \notin Busy \cup {"fault"}
      /\ \A u \in Threads \ {t} : pc'[u] = pc[u] /\ dhte'[u] = dhte[u] /\ argKey'[u] = argKey[u]
  <2> USE DEF TypeInv, TypeOK, Goto, Return, heap, locks, args, locals, InsertLabels, Busy
  <2>1. CASE Call(t) BY <2>1 DEF Call
  <2>2. CASE LockTable(t) BY <2>2 DEF LockTable
  <2>3. CASE LocateRead(t) BY <2>3 DEF LocateRead
  <2>4. CASE Find(t)
    BY <2>4 DEF Find, FindBase, FindRefused, FindEmpty, FindEnd, FindAdvance, FindNext, FindMatch, FindFails, Probing
  <2>5. QED BY <2>1, <2>2, <2>3, <2>4
<1>2. Alone(t) BY <1>1 DEF Alone
<1>3. InsertOK(t)' BY <1>1 DEF InsertOK, InsertLabels, Busy
<1>4. QED BY <1>1, <1>2, <1>3, SameEntries DEF InsertLabels, Busy

\* Nobody calls bcmp() with a key that was never set.
LEMMA NoFault ==
  ASSUME ~DupsAllowed, IInv, MapInv, NEW t \in Threads
  PROVE  ~InsertFault(t)
<1>1. SUFFICES ASSUME pc[t] = "ins_cmp", key[ohte[t]] = None PROVE FALSE BY DEF InsertFault
<1>2. ohte[t] \in Entry /\ occupied[ohte[t]] BY <1>1 DEF MapInv, InsertOK, Members
<1>3. QED BY <1>1, <1>2, NoneAssumption DEF MapInv, KeyedInv

\* The steps of ht_insert_key that write no entry.
LEMMA MapInsertQuiet ==
  ASSUME ~DupsAllowed, IInv, MapInv, NEW t \in Threads,
         \/ InsertBase(t) \/ InsertRefused(t) \/ InsertOccupied(t) \/ InsertDuplicate(t)
         \/ InsertDiffers(t) \/ InsertFault(t) \/ InsertNext(t) \/ InsertLockFree(t) \/ InsertNoMemory(t)
  PROVE  MapInv'
<1>1. InsertOK(t) /\ TypeOK BY DEF MapInv, IInv, TypeInv
<1>2. /\ UNCHANGED <<occupied, key, next, argKey>>
      /\ \A u \in Threads \ {t} : dhte'[u] = dhte[u] /\ ohte'[u] = ohte[u]
      /\ pc[t] # "ins_link"
  BY <1>1 DEF InsertBase, InsertRefused, InsertOccupied, InsertDuplicate, InsertDiffers, InsertFault, InsertNext,
     InsertLockFree, LockFree, InsertNoMemory, TypeOK, Goto, Return, heap, locks, args, locals
<1>3. ~InsertFault(t) BY NoFault
<1>4. \A u \in Threads \ {t} : pc'[u] = pc[u]
  BY <1>1, <1>3 DEF InsertBase, InsertRefused, InsertOccupied, InsertDuplicate, InsertDiffers, InsertNext,
     InsertLockFree, LockFree, InsertNoMemory, TypeOK, Goto, Return
<1>5. Alone(t) BY <1>2, <1>4 DEF Alone
<1>6. \A e, b : e \in Members(b)' <=> e \in Members(b) BY <1>2 DEF Members
<1>7. pc'[t] # "ins_link" /\ InsertOK(t)'
  <2>1. CASE InsertBase(t)
    <3>1. pc'[t] = "ins_check" /\ dhte'[t] = Bucket(argKey'[t]) BY <1>1, <1>2, <2>1 DEF InsertBase, Goto, TypeOK
    <3>2. QED BY <3>1 DEF InsertOK
  <2>2. CASE InsertRefused(t) \/ InsertDuplicate(t) \/ InsertNoMemory(t)
    <3>1. pc'[t] = "idle" BY <1>1, <2>2 DEF InsertRefused, InsertDuplicate, InsertNoMemory, Return, TypeOK
    <3>2. QED BY <3>1 DEF InsertOK, InsertLabels, Busy
  <2>3. CASE InsertOccupied(t)
    <3>1. /\ pc[t] = "ins_check" /\ pc'[t] = "ins_cmp" /\ dhte'[t] = dhte[t] /\ ohte'[t] = dhte[t] /\ argKey'[t] = argKey[t]
          /\ occupied[dhte[t]]
      BY <1>1, <2>3 DEF InsertOccupied, Goto, TypeOK, args
    <3>2. dhte[t] = Bucket(argKey[t]) /\ dhte[t] \in Table /\ dhte[t] \in Entry
      BY <1>1, <3>1, TableInEntry DEF InsertOK, InsertLabels, Busy, IInv, StructInv, Inserting
    <3>3. dhte[t] \in Members(dhte[t]) BY <3>1, <3>2 DEF Members, MapInv, KeyedInv
    <3>4. Compared(t, {})' BY DEF Compared
    <3>5. \E S \in SUBSET Entry :
            /\ Compared(t, S)' /\ dhte'[t] \in S \cup {ohte'[t]}
            /\ \A x \in S : next'[x] \in S \cup {ohte'[t], None}
      BY <3>1, <3>4
    <3>6. QED BY <1>2, <1>6, <3>1, <3>2, <3>3, <3>5 DEF InsertOK
  <2>4. CASE InsertDiffers(t)
    <3>1. /\ pc[t] = "ins_cmp" /\ pc'[t] = "ins_next" /\ dhte'[t] = dhte[t] /\ ohte'[t] = ohte[t] /\ argKey'[t] = argKey[t]
          /\ key[ohte[t]] # argKey[t]
      BY <1>1, <2>4 DEF InsertDiffers, Goto, TypeOK, args, locals
    <3>2. \A S : Compared(t, S) => Compared(t, S)' BY <1>2, <1>6, <3>1 DEF Compared
    <3>3. PICK S \in SUBSET Entry :
            /\ Compared(t, S) /\ dhte[t] \in S \cup {ohte[t]}
            /\ \A x \in S : next[x] \in S \cup {ohte[t], None}
      BY <1>1, <3>1 DEF InsertOK
    <3>4. \E Q \in SUBSET Entry :
            /\ Compared(t, Q)' /\ dhte'[t] \in Q \cup {ohte'[t]}
            /\ \A x \in Q : next'[x] \in Q \cup {ohte'[t], None}
      BY <1>2, <3>1, <3>2, <3>3
    <3>5. dhte[t] = Bucket(argKey[t]) /\ ohte[t] \in Members(dhte[t]) BY <1>1, <3>1 DEF InsertOK, InsertLabels, Busy
    <3>6. QED BY <1>2, <1>6, <3>1, <3>4, <3>5 DEF InsertOK
  <2>5. CASE InsertNext(t)
    <3>1. /\ pc[t] = "ins_next" /\ dhte'[t] = dhte[t] /\ ohte'[t] = next[ohte[t]] /\ argKey'[t] = argKey[t]
          /\ pc'[t] = IF next[ohte[t]] = None THEN "ins_lockfree" ELSE "ins_cmp"
      BY <1>1, <2>5 DEF InsertNext, Goto, TypeOK, args
    <3>2. PICK o : o = ohte[t] OBVIOUS
    <3>3. dhte[t] = Bucket(argKey[t]) /\ o \in Members(dhte[t]) /\ key[o] # argKey[t] /\ o \in Entry
      BY <1>1, <3>1, <3>2 DEF InsertOK, InsertLabels, Busy, Members
    <3>4. PICK S \in SUBSET Entry :
            /\ Compared(t, S) /\ dhte[t] \in S \cup {o}
            /\ \A x \in S : next[x] \in S \cup {o, None}
      BY <1>1, <3>1, <3>2 DEF InsertOK
    <3>5. PICK Q : Q = S \cup {o} OBVIOUS
    <3>6. Q \in SUBSET Entry /\ Compared(t, Q)' /\ dhte'[t] \in Q
      BY <1>2, <1>6, <3>1, <3>3, <3>4, <3>5 DEF Compared
    <3>7. CASE next[o] = None
      <4>1. Closed(Q)' BY <1>2, <3>4, <3>5, <3>7 DEF Closed
      <4>2. pc'[t] = "ins_lockfree" BY <3>1, <3>2, <3>7
      <4>3. QED BY <3>1, <3>3, <3>6, <4>1, <4>2 DEF InsertOK
    <3>8. CASE next[o] # None
      <4>1. pc'[t] = "ins_cmp" /\ ohte'[t] = next[o] /\ next[o] \in Entry BY <1>1, <3>1, <3>2, <3>3, <3>8 DEF TypeOK
      <4>2. next[o] \in Members(dhte[t]) BY <3>3, <3>8, <4>1 DEF Members, MapInv, KeyedInv
      <4>3. \A x \in Q : next'[x] \in Q \cup {ohte'[t], None} BY <1>2, <3>4, <3>5, <4>1
      <4>4. QED BY <1>6, <3>1, <3>3, <3>6, <4>1, <4>2, <4>3 DEF InsertOK
    <3>9. QED BY <3>7, <3>8
  <2>6. CASE InsertLockFree(t)
    <3>1. /\ pc[t] = "ins_lockfree" /\ pc'[t] = "ins_take" /\ dhte'[t] = dhte[t] /\ argKey'[t] = argKey[t]
      BY <1>1, <2>6 DEF InsertLockFree, LockFree, Goto, TypeOK, args, locals
    <3>2. PICK S \in SUBSET Entry : Compared(t, S) /\ dhte[t] \in S /\ Closed(S) BY <1>1, <3>1 DEF InsertOK
    <3>3. Compared(t, S)' /\ Closed(S)' BY <1>2, <1>6, <3>1, <3>2 DEF Compared, Closed
    <3>4. dhte[t] = Bucket(argKey[t]) BY <1>1, <3>1 DEF InsertOK, InsertLabels, Busy
    <3>5. QED BY <3>1, <3>2, <3>3, <3>4 DEF InsertOK
  <2>7. QED BY <1>3, <2>1, <2>2, <2>3, <2>4, <2>5, <2>6
<1>8. QED BY <1>2, <1>5, <1>7, SameEntries

\* A chain is not cut by writing to entries that are on none.
LEMMA RootedKept ==
  ASSUME IInv, KeyedInv, NEW e \in Entry, occupied[e], Rooted(e), key'[e] = key[e],
         \A x \in Entry : x \in Table \/ occupied[x] => next'[x] = next[x]
  PROVE  Rooted(e)'
<1>1. SUFFICES ASSUME NEW S \in SUBSET Entry, Bucket(key[e]) \in S, Closed(S)' PROVE e \in S
  BY DEF Rooted, Bucket
<1>2. PICK Q : Q = {x \in S : x \in Table \/ occupied[x]} OBVIOUS
<1>3. Q \in SUBSET Entry /\ Bucket(key[e]) \in Q
  <2>1. key[e] \in Keys BY DEF KeyedInv
  <2>2. QED BY <1>1, <1>2, <2>1, BucketInTable
<1>4. ASSUME NEW x \in Q, next[x] # None PROVE next[x] \in Q
  <2>1. x \in Entry /\ x \in S /\ next'[x] = next[x] BY <1>2, <1>3
  <2>2. occupied[x] BY <1>2, <1>4 DEF IInv, StructInv, EmptyEntries
  <2>3. occupied[next[x]] BY <1>4, <2>1, <2>2 DEF KeyedInv
  <2>4. next[x] \in S BY <1>1, <1>4, <2>1 DEF Closed
  <2>5. QED BY <1>2, <2>3, <2>4
<1>5. Closed(Q) BY <1>4 DEF Closed
<1>6. e \in Q BY <1>3, <1>5 DEF Rooted
<1>7. QED BY <1>2, <1>6

\* A key that an insertion is about to enter is in no entry.
LEMMA KeyIsNew ==
  ASSUME IInv, MapInv, NEW t \in Threads, pc[t] \in Busy \ {"ins_link"}, argKey[t] \in Keys,
         NEW S \in SUBSET Entry, dhte[t] \in S, Closed(S), \A x \in S : occupied[x] => key[x] # argKey[t],
         NEW e \in Entry, occupied[e]
  PROVE  key[e] # argKey[t]
<1>1. SUFFICES ASSUME key[e] = argKey[t] PROVE FALSE OBVIOUS
<1>2. dhte[t] = Bucket(argKey[t]) BY DEF MapInv, InsertOK
<1>3. ~Linking(e)
  <2>1. SUFFICES ASSUME NEW u \in Threads, pc[u] = "ins_link", ohte[u] = e PROVE FALSE BY DEF Linking
  <2>2. u # t /\ pc[u] \in Busy BY <2>1 DEF Busy, InsertLabels
  <2>3. key[e] = argKey[u] /\ dhte[u] = Bucket(argKey[u]) BY <2>1, <2>2 DEF MapInv, InsertOK
  <2>4. dhte[u] = dhte[t] BY <1>1, <1>2, <2>3
  <2>5. QED BY <2>2, <2>4, OneInsertion DEF Busy
<1>4. e \in S BY <1>1, <1>2, <1>3 DEF MapInv, KeyedInv, Rooted
<1>5. QED BY <1>1, <1>4

\* ht_insert_key fills an empty entry of the table.
LEMMA MapInsertInTable ==
  ASSUME IInv, MapInv, NEW t \in Threads, InsertInTable(t)
  PROVE  MapInv'
<1>1. PICK d : d = dhte[t] OBVIOUS
<1>2. /\ pc[t] = "ins_check" /\ ~occupied[d] /\ d \in Table /\ d \in Entry /\ argKey[t] \in Keys
      /\ d = Bucket(argKey[t]) /\ next[d] = None
  BY <1>1, TableInEntry DEF InsertInTable, IInv, TypeInv, PlaceOK, StructInv, Inserting, EmptyEntries, MapInv, InsertOK,
     Busy, InsertLabels
<1>3. /\ occupied' = [occupied EXCEPT ![d] = TRUE] /\ key' = [key EXCEPT ![d] = argKey[t]] /\ next' = next
      /\ pc' = [pc EXCEPT ![t] = "idle"] /\ UNCHANGED <<dhte, ohte, argKey>>
  BY <1>1 DEF InsertInTable, Return, args, locals
<1>4. /\ occupied'[d] /\ key'[d] = argKey[t] /\ \A e \in Entry \ {d} : occupied'[e] = occupied[e] /\ key'[e] = key[e]
      /\ pc'[t] = "idle" /\ \A u \in Threads \ {t} : pc'[u] = pc[u]
  BY <1>2, <1>3 DEF IInv, TypeInv, TypeOK
<1>5. Alone(t) BY <1>3, <1>4 DEF Alone
<1>6. \A e : Linking(e)' <=> Linking(e) BY <1>2, <1>3, <1>4 DEF Linking
<1>7. ASSUME NEW e \in Entry, occupied[e] PROVE key[e] # argKey[t]
  <2>1. Closed({d}) /\ pc[t] \in Busy \ {"ins_link"} BY <1>2 DEF Closed, Busy, InsertLabels
  <2>2. QED BY <1>1, <1>2, <1>7, <2>1, KeyIsNew
<1>8. KeyedInv'
  <2>1. SUFFICES ASSUME NEW e \in Entry, occupied'[e]
                 PROVE  /\ key'[e] \in Keys
                        /\ e \in Table => Bucket(key'[e]) = e
                        /\ next[e] # None => occupied'[next[e]] /\ Bucket(key'[next[e]]) = Bucket(key'[e])
                        /\ ~Linking(e) => Rooted(e)'
    BY <1>3, <1>6 DEF KeyedInv, Bucket
  <2>2. CASE e = d BY <1>2, <1>4, <2>2 DEF Rooted, Bucket
  <2>3. CASE e # d
    <3>1. occupied[e] /\ key'[e] = key[e] /\ e \in Entry BY <1>4, <2>1, <2>3
    <3>2. next[e] # None => next[e] \in Entry \ {d}
      BY <1>2 DEF IInv, TypeInv, TypeOK, StructInv, DisjointChains
    <3>3. ~Linking(e) => Rooted(e)' BY <1>3, <3>1, RootedKept DEF MapInv, KeyedInv
    <3>4. QED BY <1>4, <3>1, <3>2, <3>3 DEF MapInv, KeyedInv
  <2>4. QED BY <2>2, <2>3
<1>9. UniqueInv' BY <1>4, <1>7 DEF MapInv, UniqueInv
<1>10. InsertOK(t)' BY <1>4 DEF InsertOK, Busy, InsertLabels
<1>11. ASSUME NEW u \in Threads \ {t} PROVE InsertOK(u)'
  <2>1. Spared(u) BY <1>2, <1>3, <1>4 DEF Spared, Members
  <2>2. pc[u] = "ins_link" => ohte[u] \in Entry /\ ohte[u] # d
    BY <1>2 DEF IInv, TypeInv, PlaceOK, StructInv, Inserting
  <2>3. QED BY <1>4, <1>5, <2>1, <2>2, OthersKeep DEF MapInv
<1>12. QED BY <1>8, <1>9, <1>10, <1>11 DEF MapInv

\* Steps that write the links of entries outside the chains only.
LEMMA FreeLinks ==
  ASSUME IInv, MapInv, NEW t \in Threads, Alone(t), UNCHANGED <<occupied, key>>,
         \A x \in Entry : x \in Table \/ occupied[x] => next'[x] = next[x],
         pc[t] = "ins_take", pc'[t] \in {"ins_take", "ins_fill"}, dhte'[t] = dhte[t], argKey'[t] = argKey[t]
  PROVE  MapInv'
<1>1. \A e : Linking(e)' <=> Linking(e) BY DEF Linking, Alone
<1>2. KeyedInv'
  <2>1. SUFFICES ASSUME NEW e \in Entry, occupied[e]
                 PROVE  /\ key[e] \in Keys
                        /\ e \in Table => Bucket(key[e]) = e
                        /\ next[e] # None => occupied[next[e]] /\ Bucket(key[next[e]]) = Bucket(key[e])
                        /\ ~Linking(e) => Rooted(e)'
    BY <1>1 DEF KeyedInv, Bucket
  <2>2. ~Linking(e) => Rooted(e)' BY <2>1, RootedKept DEF MapInv, KeyedInv
  <2>3. QED BY <2>1, <2>2 DEF MapInv, KeyedInv
<1>3. UniqueInv' BY DEF MapInv, UniqueInv
<1>4. InsertOK(t)'
  <2>1. dhte[t] = Bucket(argKey[t]) BY DEF MapInv, InsertOK, Busy, InsertLabels
  <2>2. PICK S \in SUBSET Entry : Compared(t, S) /\ dhte[t] \in S /\ Closed(S) BY DEF MapInv, InsertOK
  <2>3. \A x \in S : occupied[x] BY <2>2 DEF Compared, Members
  <2>4. Closed(S)' BY <2>2, <2>3 DEF Closed
  <2>5. Compared(t, S)' BY <2>2 DEF Compared, Members, Bucket
  <2>6. QED BY <2>1, <2>2, <2>4, <2>5 DEF InsertOK, Bucket
<1>5. ASSUME NEW u \in Threads \ {t} PROVE InsertOK(u)'
  <2>1. Spared(u) BY DEF Spared, Members
  <2>2. QED BY <2>1, OthersKeep DEF MapInv
<1>6. QED BY <1>2, <1>3, <1>4, <1>5 DEF MapInv

\* ht_insert_key refills the free chain, or takes its first entry.
LEMMA MapInsertTake ==
  ASSUME IInv, MapInv, NEW t \in Threads, InsertRefill(t) \/ InsertTake(t)
  PROVE  MapInv'
<1>1. CASE InsertRefill(t)
  <2>1. /\ pc[t] = "ins_take" /\ UNCHANGED <<occupied, key, pc, dhte, ohte, argKey>>
        /\ \A e \in Entry : e[1] # slabs + 1 => next'[e] = next[e]
    BY <1>1 DEF InsertRefill, locks, args, locals
  <2>2. \A e \in Entry : e[1] = slabs + 1 => ~occupied[e] /\ e \notin Table
    <3>1. slabs \in Nat BY DEF IInv, TypeInv, TypeOK
    <3>2. \A e \in Entry : e[1] > slabs => ~occupied[e] BY DEF IInv, StructInv, Allocated
    <3>3. slabs + 1 > slabs /\ slabs + 1 # 0 BY <3>1
    <3>4. QED BY <3>2, <3>3, EntryPair
  <2>3. Alone(t) BY <2>1 DEF Alone
  <2>4. QED BY <2>1, <2>2, <2>3, FreeLinks
<1>2. CASE InsertTake(t)
  <2>1. /\ pc[t] = "ins_take" /\ pc'[t] = "ins_fill" /\ UNCHANGED <<occupied, key, dhte, argKey>>
        /\ \A u \in Threads \ {t} : pc'[u] = pc[u] /\ ohte'[u] = ohte[u]
        /\ \A e \in Entry : e # freechain => next'[e] = next[e]
        /\ freechain # None
    BY <1>2 DEF InsertTake, Goto, args, IInv, TypeInv, TypeOK
  <2>2. ~occupied[freechain] /\ freechain \notin Table
    BY <2>1 DEF IInv, StructInv, EmptyEntries, DisjointChains
  <2>3. Alone(t) BY <2>1 DEF Alone
  <2>4. QED BY <2>1, <2>2, <2>3, FreeLinks
<1>3. QED BY <1>1, <1>2

\* ht_insert_key writes the key into the entry that it has taken.
LEMMA MapInsertFill ==
  ASSUME IInv, MapInv, NEW t \in Threads, InsertFill(t)
  PROVE  MapInv'
<1>1. PICK o : o = ohte[t] OBVIOUS
<1>2. /\ pc[t] = "ins_fill" /\ o \in Entry /\ ~occupied[o] /\ next[o] = None /\ o \notin Table /\ argKey[t] \in Keys
      /\ dhte[t] = Bucket(argKey[t]) /\ \A e \in Entry : next[e] # o
  BY <1>1 DEF InsertFill, Goto, IInv, TypeInv, PlaceOK, StructInv, Inserting, DisjointChains, MapInv, InsertOK,
     Busy, InsertLabels
<1>3. /\ occupied' = [occupied EXCEPT ![o] = TRUE] /\ key' = [key EXCEPT ![o] = argKey[t]] /\ next' = next
      /\ pc' = [pc EXCEPT ![t] = "ins_link"] /\ UNCHANGED <<dhte, ohte, argKey>>
  BY <1>1 DEF InsertFill, Goto, args, locals
<1>4. /\ occupied'[o] /\ key'[o] = argKey[t] /\ \A e \in Entry \ {o} : occupied'[e] = occupied[e] /\ key'[e] = key[e]
      /\ pc'[t] = "ins_link" /\ \A u \in Threads \ {t} : pc'[u] = pc[u]
  BY <1>2, <1>3 DEF IInv, TypeInv, TypeOK
<1>5. Alone(t) BY <1>3, <1>4 DEF Alone
<1>6. Linking(o)' /\ \A e : Linking(e) => Linking(e)' BY <1>1, <1>2, <1>3, <1>4 DEF Linking
<1>7. ASSUME NEW e \in Entry, occupied[e] PROVE key[e] # argKey[t]
  <2>1. PICK S \in SUBSET Entry : Compared(t, S) /\ dhte[t] \in S /\ Closed(S) BY <1>2 DEF MapInv, InsertOK
  <2>2. \A x \in S : key[x] # argKey[t] BY <2>1 DEF Compared
  <2>3. pc[t] \in Busy \ {"ins_link"} BY <1>2 DEF Busy, InsertLabels
  <2>4. QED BY <1>2, <1>7, <2>1, <2>2, <2>3, KeyIsNew
<1>8. KeyedInv'
  <2>1. SUFFICES ASSUME NEW e \in Entry, occupied'[e]
                 PROVE  /\ key'[e] \in Keys
                        /\ e \in Table => Bucket(key'[e]) = e
                        /\ next[e] # None => occupied'[next[e]] /\ Bucket(key'[next[e]]) = Bucket(key'[e])
                        /\ ~Linking(e)' => Rooted(e)'
    BY <1>3 DEF KeyedInv, Bucket
  <2>2. CASE e = o BY <1>2, <1>4, <1>6, <2>2
  <2>3. CASE e # o
    <3>1. occupied[e] /\ key'[e] = key[e] /\ e \in Entry BY <1>4, <2>1, <2>3
    <3>2. next[e] # None => next[e] \in Entry \ {o} BY <1>2 DEF IInv, TypeInv, TypeOK
    <3>3. ~Linking(e)' => Rooted(e)' BY <1>3, <1>6, <3>1, RootedKept DEF MapInv, KeyedInv
    <3>4. QED BY <1>4, <3>1, <3>2, <3>3 DEF MapInv, KeyedInv
  <2>4. QED BY <2>2, <2>3
<1>9. UniqueInv' BY <1>4, <1>7 DEF MapInv, UniqueInv
<1>10. InsertOK(t)' BY <1>1, <1>2, <1>3, <1>4 DEF InsertOK, Bucket
<1>11. ASSUME NEW u \in Threads \ {t} PROVE InsertOK(u)'
  <2>1. Spared(u) BY <1>2, <1>3, <1>4 DEF Spared, Members
  <2>2. pc[u] = "ins_link" => ohte[u] \in Entry /\ ohte[u] # o
    BY <1>2 DEF IInv, TypeInv, PlaceOK, StructInv, Inserting
  <2>3. QED BY <1>4, <1>5, <2>1, <2>2, OthersKeep DEF MapInv
<1>12. QED BY <1>8, <1>9, <1>10, <1>11 DEF MapInv

\* ht_insert_key links its entry behind the first one.
LEMMA MapInsertLink ==
  ASSUME IInv, MapInv, NEW t \in Threads, InsertLink(t)
  PROVE  MapInv'
<1>1. PICK d, o : d = dhte[t] /\ o = ohte[t] OBVIOUS
<1>2. /\ pc[t] = "ins_link" /\ d \in Entry /\ o \in Entry /\ d # o /\ d \in Table /\ occupied[d] /\ occupied[o]
      /\ next[o] = None /\ o \notin Table /\ argKey[t] \in Keys
      /\ d = Bucket(argKey[t]) /\ key[o] = argKey[t]
  BY <1>1 DEF InsertLink, IInv, TypeInv, PlaceOK, StructInv, Inserting, DisjointChains, MapInv, InsertOK,
     Busy, InsertLabels
<1>3. /\ next' = [next EXCEPT ![o] = next[d], ![d] = o] /\ UNCHANGED <<occupied, key, dhte, ohte, argKey>>
      /\ pc' = [pc EXCEPT ![t] = "idle"]
  BY <1>1 DEF InsertLink, Return, args, locals
<1>4. /\ next'[o] = next[d] /\ next'[d] = o /\ \A e \in Entry \ {d, o} : next'[e] = next[e]
      /\ pc'[t] = "idle" /\ \A u \in Threads \ {t} : pc'[u] = pc[u]
  BY <1>2, <1>3 DEF IInv, TypeInv, TypeOK
<1>5. Alone(t) BY <1>3, <1>4 DEF Alone
<1>6. \A e : Linking(e) /\ e # o => Linking(e)' BY <1>1, <1>3, <1>4 DEF Linking
<1>7. Bucket(key[d]) = d BY <1>2 DEF MapInv, KeyedInv
<1>8. \A S \in SUBSET Entry : Closed(S)' => Closed(S)
  <2>1. SUFFICES ASSUME NEW S \in SUBSET Entry, Closed(S)', NEW x \in S, next[x] # None PROVE next[x] \in S BY DEF Closed
  <2>2. CASE x = d
    <3>1. o \in S BY <1>2, <1>4, <2>1, <2>2, NoneAssumption DEF Closed
    <3>2. QED BY <1>4, <2>1, <2>2, <3>1 DEF Closed
  <2>3. CASE x # d BY <1>2, <1>4, <2>1, <2>3 DEF Closed
  <2>4. QED BY <2>2, <2>3
<1>9. KeyedInv'
  <2>1. SUFFICES ASSUME NEW e \in Entry, occupied[e]
                 PROVE  /\ key[e] \in Keys
                        /\ e \in Table => Bucket(key[e]) = e
                        /\ next'[e] # None => occupied[next'[e]] /\ Bucket(key[next'[e]]) = Bucket(key[e])
                        /\ ~Linking(e)' => Rooted(e)'
    BY <1>3 DEF KeyedInv, Bucket
  <2>2. ~Linking(e)' => Rooted(e)'
    <3>1. CASE e = o
      <4>1. ASSUME NEW S \in SUBSET Entry, d \in S, Closed(S)' PROVE o \in S
        BY <1>2, <1>4, <4>1, NoneAssumption DEF Closed
      <4>2. QED BY <1>2, <1>3, <3>1, <4>1 DEF Rooted, Bucket
    <3>2. CASE e # o
      <4>1. ~Linking(e)' => Rooted(e) BY <1>6, <2>1, <3>2 DEF MapInv, KeyedInv
      <4>2. QED BY <1>3, <1>8, <4>1 DEF Rooted, Bucket
    <3>3. QED BY <3>1, <3>2
  <2>3. next'[e] # None => occupied[next'[e]] /\ Bucket(key[next'[e]]) = Bucket(key[e])
    <3>1. CASE e = d BY <1>2, <1>4, <1>7, <3>1
    <3>2. CASE e = o BY <1>2, <1>4, <1>7, <3>2 DEF MapInv, KeyedInv
    <3>3. CASE e \notin {d, o} BY <1>4, <2>1, <3>3 DEF MapInv, KeyedInv
    <3>4. QED BY <3>1, <3>2, <3>3
  <2>4. QED BY <2>1, <2>2, <2>3 DEF MapInv, KeyedInv
<1>10. UniqueInv' BY <1>3 DEF MapInv, UniqueInv
<1>11. InsertOK(t)' BY <1>4 DEF InsertOK, Busy, InsertLabels
<1>12. ASSUME NEW u \in Threads \ {t} PROVE InsertOK(u)'
  <2>1. ASSUME pc[u] \in Busy PROVE Spared(u)
    <3>1. dhte[u] # d BY <1>1, <1>2, <2>1, OneInsertion DEF Busy, InsertLabels
    <3>2. \A x \in Members(dhte[u]) : x \notin {d, o} BY <1>2, <1>7, <3>1 DEF Members
    <3>3. QED BY <1>3, <1>4, <3>2 DEF Spared, Members
  <2>2. QED BY <1>3, <1>5, <2>1, OthersKeep DEF MapInv
<1>13. QED BY <1>9, <1>10, <1>11, <1>12 DEF MapInv

\* Nobody has called yet.
LEMMA MapInit == Init => MapInv
BY DEF Init, MapInv, KeyedInv, UniqueInv, InsertOK, Busy, InsertLabels

\* Every step.
LEMMA MapNext ==
  ASSUME "delete" \notin Ops, ~DupsAllowed, IInv, MapInv, [Next]_vars
  PROVE  MapInv'
<1>1. CASE UNCHANGED vars
  BY <1>1 DEF vars, heap, args, locals, MapInv, KeyedInv, UniqueInv, InsertOK, Linking, Rooted, Closed, Compared, Members,
     Bucket
<1>2. ASSUME NEW t \in Threads, Call(t) \/ Step(t) PROVE MapInv'
  <2>1. ~Delete(t) BY NotDelete
  <2>2. CASE Insert(t)
    BY <2>2, MapInsertQuiet, MapInsertInTable, MapInsertTake, MapInsertFill, MapInsertLink DEF Insert
  <2>3. QED BY <1>2, <2>1, <2>2, MapOutside DEF Step
<1>3. QED BY <1>1, <1>2 DEF Next

\* The chains' keys are an invariant as long as nobody deletes.
LEMMA MapInvariance ==
  ASSUME "delete" \notin Ops, ~DupsAllowed
  PROVE  Spec => [](IInv /\ Acyclic /\ MapInv)
<1>1. Init => IInv /\ Acyclic /\ MapInv BY IInvInit, MapInit
<1>2. IInv /\ Acyclic /\ MapInv /\ [Next]_vars => (IInv /\ Acyclic /\ MapInv)' BY IInvNext, MapNext
<1>3. QED BY <1>1, <1>2, PTL DEF Spec

\* However many threads insert at once, a key is in the table once, on the chain
\* of its bucket (ht_insert_key without hto_dups_allowed): the walk for
\* duplicates, which locks none of the entries it reads, misses none.
THEOREM KeysAreUnique ==
  ASSUME "delete" \notin Ops
  PROVE  Spec => []KeysUnique
<1>1. CASE DupsAllowed
  <2>1. KeysUnique BY <1>1 DEF KeysUnique
  <2>2. QED BY <2>1, PTL
<1>2. CASE ~DupsAllowed
  <2>1. ASSUME IInv, MapInv PROVE KeysUnique
    <3>1. SUFFICES ASSUME NEW b \in Table, occupied[b]
                   PROVE  \A e \in ChainFrom(b) : occupied[e] =>
                            /\ b = Bucket(key[e])
                            /\ \A d \in ChainFrom(b) : occupied[d] /\ key[d] = key[e] => d = e
      BY DEF KeysUnique
    <3>2. b \in Entry /\ b \in Members(b) BY <2>1, <3>1, TableInEntry DEF Members, MapInv, KeyedInv
    <3>3. Members(b) \in SUBSET Entry BY DEF Members
    <3>4. Closed(Members(b)) BY <2>1 DEF Closed, Members, MapInv, KeyedInv, IInv, TypeInv, TypeOK
    <3>5. ChainFrom(b) \subseteq Members(b) BY <2>1, <3>2, <3>3, <3>4, ChainInside DEF IInv
    <3>6. QED BY <2>1, <3>5 DEF Members, MapInv, UniqueInv
  <2>2. QED BY <1>2, <2>1, MapInvariance, PTL
<1>3. QED BY <1>1, <1>2
-----------------------------------------------------------------------------
(* The free chain.                                                         *)

\* An entry that ht_insert_key has taken and not filled yet.
Taken(e) == \E t \in Threads : pc[t] = "ins_fill" /\ ohte[t] = e

\* The entries of the slabs that are not in use.
Free == {e \in Entry : e[1] \in 1 .. slabs /\ ~occupied[e] /\ ~Taken(e)}

\* They are counted, and all of them are on the free chain, which somebody has made.
FreeInv ==
  /\ freechain # None => Threads # {}
  /\ Cardinality(Free) = freeCount
  /\ freechain = None => Free = {}
  /\ \A e \in Free : \A S \in SUBSET Entry : freechain \in S /\ Closed(S) => e \in S

\* They are finitely many.
LEMMA FreeFinite == IsFiniteSet(Free)
<1>1. Free \subseteq Entry BY DEF Free
<1>2. QED BY <1>1, SizeIs, FS_Subset

\* Nothing else is on the free chain.
LEMMA FreeChain ==
  ASSUME "delete" \notin Ops, IInv, \A t \in Threads : pc[t] # "fault", Threads # {}
  PROVE  /\ freechain # None => freechain \in Free
         /\ Closed(Free)
<1>1. \A e \in Entry : Live(e) <=> e \in Table \/ occupied[e]
  BY NoDelete DEF IInv, Live, Unlinking, DeleteLabels
<1>2. /\ \A e \in Entry : next[e] # None => (Live(e) <=> Live(next[e]))
      /\ freechain # None => ~Live(freechain)
  BY DEF IInv, StructInv, ChainsPure
<1>3. \A e \in Entry : e[1] \in 1 .. slabs => e \notin Table
  <2>1. slabs \in Nat BY DEF IInv, TypeInv, TypeOK
  <2>2. QED BY <2>1, EntryPair
<1>4. freechain # None => freechain \in Free
  <2>1. SUFFICES ASSUME freechain # None PROVE freechain \in Free OBVIOUS
  <2>2. freechain \in Entry /\ freechain[1] \in 1 .. slabs
    BY <2>1 DEF IInv, TypeInv, TypeOK, StructInv, Allocated
  <2>3. ~Taken(freechain) BY <2>1 DEF Taken, IInv, StructInv, DisjointChains
  <2>4. QED BY <1>1, <1>2, <2>1, <2>2, <2>3 DEF Free
<1>5. ASSUME NEW e \in Free, next[e] # None PROVE next[e] \in Free
  <2>1. next[e] \in Entry /\ next[e][1] \in 1 .. slabs
    BY <1>5 DEF Free, IInv, TypeInv, TypeOK, StructInv, Allocated
  <2>2. ~Taken(next[e]) BY <1>5 DEF Free, Taken, IInv, StructInv, DisjointChains
  <2>3. ~Live(e) BY <1>1, <1>3, <1>5 DEF Free
  <2>4. QED BY <1>1, <1>2, <1>5, <2>1, <2>2, <2>3 DEF Free
<1>6. QED BY <1>4, <1>5 DEF Closed

\* ht_insert_key takes the first entry.
LEMMA FreeTake ==
  ASSUME "delete" \notin Ops, IInv, Acyclic, FreeInv, NEW t \in Threads, InsertTake(t)
  PROVE  FreeInv'
<1>1. PICK f : f = freechain OBVIOUS
<1>2. /\ pc[t] = "ins_take" /\ f # None /\ f \in Entry /\ next[f] \in Entry \cup {None}
      /\ pc' = [pc EXCEPT ![t] = "ins_fill"] /\ ohte' = [ohte EXCEPT ![t] = f] /\ freechain' = next[f]
      /\ next' = [next EXCEPT ![f] = None] /\ freeCount' = (freeCount - 1) % Modulus
      /\ UNCHANGED <<occupied, slabs>>
  BY <1>1 DEF InsertTake, Goto, IInv, TypeInv, TypeOK
<1>3. /\ pc'[t] = "ins_fill" /\ ohte'[t] = f /\ next'[f] = None /\ \A e \in Entry \ {f} : next'[e] = next[e]
      /\ \A u \in Threads \ {t} : pc'[u] = pc[u] /\ ohte'[u] = ohte[u]
  BY <1>2 DEF IInv, TypeInv, TypeOK
<1>4. f \in Free
  <2>1. \A u \in Threads : pc[u] # "fault" BY <1>2 DEF IInv, TypeInv, PlaceOK
  <2>2. QED BY <1>1, <1>2, <2>1, FreeChain
<1>5. Free' = Free \ {f}
  <2>1. \A e : Taken(e)' <=> Taken(e) \/ e = f BY <1>2, <1>3 DEF Taken
  <2>2. QED BY <1>2, <2>1 DEF Free
<1>6. Cardinality(Free)' = freeCount'
  <2>1. Cardinality(Free \ {f}) = Cardinality(Free) - 1 BY <1>4, FreeFinite, FS_RemoveElement
  <2>2. Cardinality(Free) = freeCount /\ freeCount \in 0 .. Modulus - 1 /\ Modulus \in Nat \ {0}
    BY SizeAssumption DEF FreeInv, IInv, TypeInv, TypeOK
  <2>3. freeCount # 0 BY <1>4, <2>2, FreeFinite, FS_EmptySet
  <2>4. (freeCount - 1) % Modulus = freeCount - 1 BY <2>2, <2>3
  <2>5. QED BY <1>2, <1>5, <2>1, <2>2, <2>4
<1>7. ASSUME next[f] = None PROVE Free \ {f} = {}
  <2>1. Closed({f}) BY <1>7 DEF Closed
  <2>2. QED BY <1>1, <1>2, <2>1 DEF FreeInv
<1>8. ASSUME NEW e \in Free \ {f}, NEW S \in SUBSET Entry, next[f] \in S, Closed(S)' PROVE e \in S
  <2>1. Closed(S \cup {f}) BY <1>3, <1>8 DEF Closed
  <2>2. e \in S \cup {f} BY <1>1, <1>2, <1>8, <2>1 DEF FreeInv
  <2>3. QED BY <1>8, <2>2
<1>9. QED BY <1>2, <1>5, <1>6, <1>7, <1>8 DEF FreeInv

\* It allocates a slab when there is none.
LEMMA FreeRefill ==
  ASSUME IInv, FreeInv, NumEnts < Modulus, NEW t \in Threads, InsertRefill(t)
  PROVE  FreeInv'
<1>1. PICK s : s = slabs + 1 OBVIOUS
<1>2. /\ freechain = None /\ slabs' = s /\ freechain' = <<s, 0>> /\ freeCount' = (freeCount + NumEnts) % Modulus
      /\ UNCHANGED <<occupied, pc, ohte>> /\ slabs \in Nat /\ s \in 1 .. MaxSlabs /\ NumEnts \in Nat \ {0}
      /\ Modulus \in Nat
  BY <1>1, SizeAssumption DEF InsertRefill, locals, IInv, TypeInv, TypeOK
<1>3. \A e \in Entry : e[1] = s /\ e[2] < NumEnts - 1 => next'[e] = <<s, e[2] + 1>>
  BY <1>1 DEF InsertRefill
<1>4. \A e \in Entry : e[1] = s => ~occupied[e] /\ ~Taken(e)
  <2>1. \A e \in Entry : e[1] > slabs => ~occupied[e] BY DEF IInv, StructInv, Allocated
  <2>2. \A u \in Threads : pc[u] = "ins_fill" => ohte[u][1] \in 1 .. slabs BY DEF IInv, StructInv, Allocated
  <2>3. s > slabs /\ s \notin 1 .. slabs BY <1>1, <1>2
  <2>4. QED BY <2>1, <2>2, <2>3 DEF Taken
<1>5. Free' = {s} \X (0 .. NumEnts - 1)
  <2>1. \A e : Taken(e)' <=> Taken(e) BY <1>2 DEF Taken
  <2>2. \A n : n \in 1 .. s <=> n \in 1 .. slabs \/ n = s BY <1>1, <1>2
  <2>3. \A e \in Entry : e \in Free' <=> e \in Free \/ e[1] = s BY <1>2, <1>4, <2>1, <2>2 DEF Free
  <2>4. Free = {} BY <1>2 DEF FreeInv
  <2>5. \A e : e \in Entry /\ e[1] = s <=> e \in {s} \X (0 .. NumEnts - 1)
    BY <1>2, SizeAssumption DEF Entry
  <2>6. Free' \subseteq Entry BY DEF Free
  <2>7. QED BY <2>3, <2>4, <2>5, <2>6
<1>6. Cardinality(Free)' = freeCount'
  <2>1. IsFiniteSet(0 .. NumEnts - 1) /\ Cardinality(0 .. NumEnts - 1) = NumEnts BY SlabSize
  <2>2. IsFiniteSet({s}) /\ Cardinality({s}) = 1 BY FS_Singleton
  <2>3. Cardinality({s} \X (0 .. NumEnts - 1)) = 1 * NumEnts BY <2>1, <2>2, FS_Product
  <2>4. freeCount = 0 BY <1>2, FS_EmptySet DEF FreeInv
  <2>5. (0 + NumEnts) % Modulus = NumEnts /\ 1 * NumEnts = NumEnts BY <1>2
  <2>6. QED BY <1>2, <1>5, <2>3, <2>4, <2>5
<1>7. ASSUME NEW e \in {s} \X (0 .. NumEnts - 1), NEW S \in SUBSET Entry, <<s, 0>> \in S, Closed(S)' PROVE e \in S
  <2> DEFINE T == {i \in Nat : <<s, i>> \in S}
  <2>1. 0 \in T BY <1>7
  <2>2. ASSUME NEW i \in 1 .. NumEnts - 1, i - 1 \in T PROVE i \in T
    <3>1. <<s, i - 1>> \in S /\ <<s, i - 1>> \in Entry /\ i - 1 < NumEnts - 1 /\ (i - 1) + 1 = i /\ i \in Nat BY <1>2, <2>2
    <3>2. next'[<<s, i - 1>>] = <<s, i>> BY <1>3, <3>1
    <3>3. <<s, i>> # None BY <1>2, <2>2, NoneAssumption, SizeAssumption DEF Entry
    <3>4. QED BY <1>7, <3>1, <3>2, <3>3 DEF Closed
  <2> HIDE DEF T
  <2>3. 0 .. NumEnts - 1 \subseteq T BY <1>2, <2>1, <2>2, UpTo
  <2>4. e = <<s, e[2]>> /\ e[2] \in 0 .. NumEnts - 1 BY <1>7
  <2>5. QED BY <2>3, <2>4 DEF T
<1>8. freechain' # None BY <1>2, NoneAssumption, SizeAssumption DEF Entry
<1>9. QED BY <1>2, <1>5, <1>6, <1>7, <1>8 DEF FreeInv

\* Every step, as long as the process does not die.
LEMMA FreeNext ==
  ASSUME "delete" \notin Ops, NumEnts < Modulus, IInv, Acyclic, FreeInv, [Next]_vars, \A t \in Threads : ~InsertFault(t)
  PROVE  FreeInv'
<1>1. ASSUME UNCHANGED <<freechain, next, slabs, freeCount>>, Free' = Free PROVE FreeInv' BY <1>1 DEF FreeInv, Closed
<1>2. CASE UNCHANGED vars
  <2>1. Free' = Free BY <1>2 DEF Free, Taken, vars, heap, locals
  <2>2. QED BY <1>1, <1>2, <2>1 DEF vars, heap
<1>3. ASSUME NEW t \in Threads, Call(t) \/ Step(t) PROVE FreeInv'
  <2>1. ~Delete(t) BY NotDelete
  <2>2. CASE Call(t) \/ LockTable(t) \/ Find(t) \/ LocateRead(t)
    <3>1. /\ UNCHANGED heap /\ UNCHANGED ohte /\ pc[t] # "ins_fill" /\ pc'[t] # "ins_fill"
          /\ \A u \in Threads \ {t} : pc'[u] = pc[u]
      <4> USE DEF IInv, TypeInv, TypeOK, Goto, Return, locks, args, locals
      <4>1. CASE Call(t) BY <4>1 DEF Call
      <4>2. CASE LockTable(t) BY <4>2 DEF LockTable
      <4>3. CASE LocateRead(t) BY <4>3 DEF LocateRead
      <4>4. CASE Find(t)
        BY <4>4 DEF Find, FindBase, FindRefused, FindEmpty, FindEnd, FindAdvance, FindNext, FindMatch, FindFails, Probing
      <4>5. QED BY <2>2, <4>1, <4>2, <4>3, <4>4
    <3>2. \A e : Taken(e)' <=> Taken(e) BY <3>1 DEF Taken
    <3>3. Free' = Free BY <3>1, <3>2 DEF Free, heap
    <3>4. QED BY <1>1, <3>1, <3>3 DEF heap
  <2>3. CASE \/ InsertBase(t) \/ InsertRefused(t) \/ InsertOccupied(t) \/ InsertDuplicate(t)
             \/ InsertDiffers(t) \/ InsertNext(t) \/ InsertLockFree(t) \/ InsertNoMemory(t)
    <3>1. /\ UNCHANGED heap /\ pc[t] # "ins_fill" /\ pc'[t] # "ins_fill"
          /\ \A u \in Threads \ {t} : pc'[u] = pc[u] /\ ohte'[u] = ohte[u]
      BY <2>3 DEF InsertBase, InsertRefused, InsertOccupied, InsertDuplicate, InsertDiffers, InsertNext, InsertLockFree,
         LockFree, InsertNoMemory, Goto, Return, IInv, TypeInv, TypeOK, locals, locks, args
    <3>2. \A e : Taken(e)' <=> Taken(e) BY <3>1 DEF Taken
    <3>3. Free' = Free BY <3>1, <3>2 DEF Free, heap
    <3>4. QED BY <1>1, <3>1, <3>3 DEF heap
  <2>4. CASE InsertInTable(t)
    <3>1. /\ UNCHANGED <<next, freechain, slabs, freeCount, ohte>> /\ pc[t] # "ins_fill" /\ pc'[t] # "ins_fill"
          /\ \A u \in Threads \ {t} : pc'[u] = pc[u]
          /\ \A e \in Entry \ {dhte[t]} : occupied'[e] = occupied[e]
      BY <2>4 DEF InsertInTable, Return, IInv, TypeInv, TypeOK, locals
    <3>2. dhte[t] \in Table BY <2>4 DEF InsertInTable, IInv, StructInv, Inserting, InsertLabels
    <3>3. \A e : Taken(e)' <=> Taken(e) BY <3>1 DEF Taken
    <3>4. slabs \in Nat BY DEF IInv, TypeInv, TypeOK
    <3>5. \A e \in Entry : e[1] \in 1 .. slabs => e # dhte[t] BY <3>2, <3>4, EntryPair
    <3>6. Free' = Free BY <3>1, <3>3, <3>5 DEF Free
    <3>7. QED BY <1>1, <3>1, <3>6
  <2>5. CASE InsertFill(t)
    <3>1. /\ UNCHANGED <<next, freechain, slabs, freeCount, ohte>> /\ pc[t] = "ins_fill" /\ pc'[t] # "ins_fill"
          /\ \A u \in Threads \ {t} : pc'[u] = pc[u]
          /\ \A e \in Entry : occupied'[e] = (occupied[e] \/ e = ohte[t])
      BY <2>5 DEF InsertFill, Goto, IInv, TypeInv, TypeOK, locals
    <3>2. \A e : Taken(e) <=> Taken(e)' \/ e = ohte[t] BY <3>1 DEF Taken
    <3>3. Free' = Free BY <3>1, <3>2 DEF Free
    <3>4. QED BY <1>1, <3>1, <3>3
  <2>6. CASE InsertLink(t)
    <3>1. PICK d, o : d = dhte[t] /\ o = ohte[t] OBVIOUS
    <3>2. /\ next' = [next EXCEPT ![o] = next[d], ![d] = o] /\ UNCHANGED <<occupied, ohte, freechain, slabs, freeCount>>
          /\ pc[t] = "ins_link" /\ pc'[t] # "ins_fill" /\ \A u \in Threads \ {t} : pc'[u] = pc[u]
      BY <2>6, <3>1 DEF InsertLink, Return, IInv, TypeInv, TypeOK, locals
    <3>3. \A e : Taken(e)' <=> Taken(e) BY <3>2 DEF Taken
    <3>4. Free' = Free BY <3>2, <3>3 DEF Free
    <3>5. d \in Entry /\ o \in Entry /\ d # o /\ next[o] = None
      BY <3>1, <3>2 DEF IInv, TypeInv, PlaceOK, InsertLabels, StructInv, Inserting, DisjointChains
    <3>6. \A S \in SUBSET Entry : Closed(S)' => Closed(S)
      <4>1. next'[o] = next[d] /\ next'[d] = o /\ \A e \in Entry \ {d, o} : next'[e] = next[e]
        BY <3>2, <3>5 DEF IInv, TypeInv, TypeOK
      <4>2. SUFFICES ASSUME NEW S \in SUBSET Entry, Closed(S)', NEW x \in S, next[x] # None PROVE next[x] \in S
        BY DEF Closed
      <4>3. CASE x = d
        <5>1. o \in S BY <3>5, <4>1, <4>2, <4>3, NoneAssumption DEF Closed
        <5>2. QED BY <4>1, <4>2, <4>3, <5>1 DEF Closed
      <4>4. CASE x # d BY <3>5, <4>1, <4>2, <4>4 DEF Closed
      <4>5. QED BY <4>3, <4>4
    <3>7. QED BY <3>2, <3>4, <3>6 DEF FreeInv
  <2>7. QED BY <1>3, <2>1, <2>2, <2>3, <2>4, <2>5, <2>6, FreeTake, FreeRefill DEF Step, Insert
<1>4. QED BY <1>2, <1>3 DEF Next

\* stats.freechain.current, which ht_insert_key computes from its own last value,
\* is the length of the free chain as long as nobody deletes; a slab has fewer
\* entries than the counter can count.
THEOREM FreeCountIsRight ==
  ASSUME "delete" \notin Ops, NumEnts < Modulus
  PROVE  Spec => []FreeCountIsLength
<1> DEFINE Running == \A t \in Threads : pc[t] # "fault"
           Known == IInv /\ Acyclic /\ FreeInv /\ Running /\ (~DupsAllowed => MapInv)
<1>1. Init => Known
  <2>1. SUFFICES ASSUME Init PROVE FreeInv /\ Running BY IInvInit, MapInit
  <2>2. Running BY <2>1 DEF Init
  <2>3. Free = {} BY <2>1 DEF Init, Free
  <2>4. QED BY <2>1, <2>2, <2>3, FS_EmptySet DEF Init, FreeInv
<1>2. Known /\ [Next]_vars => Known'
  <2>1. SUFFICES ASSUME Known, [Next]_vars PROVE Known' OBVIOUS
  <2>2. \A t \in Threads : ~InsertFault(t) BY <2>1, NoFault DEF InsertFault
  <2>3. (IInv /\ Acyclic)' BY <2>1, IInvNext
  <2>4. FreeInv' BY <2>1, <2>2, FreeNext
  <2>5. ~DupsAllowed => MapInv' BY <2>1, MapNext
  <2>6. Running'
    <3>1. CASE UNCHANGED vars BY <2>1, <3>1 DEF vars
    <3>2. ASSUME NEW t \in Threads, Call(t) \/ Step(t) PROVE Running'
      <4>1. PICK l \in Labels \ {"fault"} : pc' = [pc EXCEPT ![t] = l] \/ pc' = pc
        <5> USE <2>1 DEF Labels, Goto, Return
        <5>1. CASE Call(t) \/ LockTable(t) \/ LocateRead(t) BY <5>1 DEF Call, LockTable, LocateRead
        <5>2. CASE Find(t)
          BY <5>2 DEF Find, FindBase, FindRefused, FindEmpty, FindEnd, FindAdvance, FindNext, FindMatch, FindFails
        <5>3. CASE Insert(t)
          BY <2>2, <5>3 DEF Insert, InsertBase, InsertRefused, InsertInTable, InsertOccupied, InsertDuplicate, InsertDiffers,
             InsertNext, InsertLockFree, LockFree, InsertRefill, InsertNoMemory, InsertTake, InsertFill, InsertLink
        <5>4. CASE Delete(t)
          BY <5>4 DEF Delete, DeleteLone, DeleteHead, DeleteCopy, DeleteChained, DeleteLockFree, LockFree, DeleteUnlink,
             DeleteUnlock, DeleteReturn
        <5>5. QED BY <3>2, <5>1, <5>2, <5>3, <5>4 DEF Step
      <4>2. QED BY <2>1, <4>1 DEF IInv, TypeInv, TypeOK
    <3>3. QED BY <2>1, <3>1, <3>2 DEF Next
  <2>7. QED BY <2>3, <2>4, <2>5, <2>6
<1>3. Known => FreeCountIsLength
  <2>1. SUFFICES ASSUME Known PROVE FreeCountIsLength OBVIOUS
  <2>2. CASE freechain = None
    <3>1. freeCount = 0 BY <2>1, <2>2, FS_EmptySet DEF FreeInv
    <3>2. QED BY <2>2, <3>1, FS_EmptySet DEF FreeCountIsLength
  <2>3. CASE freechain # None
    <3>1. freechain \in Free /\ Closed(Free) /\ Free \in SUBSET Entry BY <2>1, <2>3, FreeChain DEF FreeInv, Free
    <3>2. freechain \in Entry BY <3>1
    <3>3. ChainFrom(freechain) \subseteq Free BY <2>1, <3>1, <3>2, ChainInside DEF IInv
    <3>4. Free \subseteq ChainFrom(freechain) BY <2>1, <3>2, ChainClosed DEF IInv, FreeInv
    <3>5. ChainFrom(freechain) = Free BY <3>3, <3>4
    <3>6. QED BY <2>1, <2>3, <3>5 DEF FreeCountIsLength, FreeInv
  <2>4. QED BY <2>2, <2>3
<1> HIDE DEF Known
<1>4. QED BY <1>1, <1>2, <1>3, PTL DEF Spec
-----------------------------------------------------------------------------
(* The table implements SharedMap.                                         *)

\* The data are those of the insertion that wrote the key.
DataInv ==
  /\ \A e \in Entry : occupied[e] => data[e] \in Data
  /\ \A t \in Threads :
       /\ pc[t] # "idle" /\ op[t] = "insert" => argData[t] \in Data
       /\ pc[t] = "ins_link" => data[ohte[t]] = argData[t]

\* A search is at an entry of a chain, and ends at the one with its key.
SearchInv ==
  \A t \in Threads :
    /\ Searching(t) /\ dhte[t] \notin Table => occupied[dhte[t]] /\ ~Linking(dhte[t])
    /\ pc[t] = "loc_read" => occupied[dhte[t]] /\ key[dhte[t]] = argKey[t]

\* The same of the state after a step.
LEMMA ChainNext ==
  (TypeInv /\ Acyclic => \A e \in Entry :
     /\ e \in ChainFrom(e) /\ ChainFrom(e) \subseteq Entry /\ Closed(ChainFrom(e))
     /\ \A S \in SUBSET Entry : e \in S /\ Closed(S) => ChainFrom(e) \subseteq S)'
<1>1. TypeInv /\ Acyclic => \A e \in Entry :
        /\ e \in ChainFrom(e) /\ ChainFrom(e) \subseteq Entry /\ Closed(ChainFrom(e))
        /\ \A S \in SUBSET Entry : e \in S /\ Closed(S) => ChainFrom(e) \subseteq S
  BY ChainClosed, ChainInside
<1>2. QED BY <1>1, PTL

\* Two states, one chain.
LEMMA SameChain ==
  ASSUME TypeInv, TypeInv', Acyclic, Acyclic', NEW e \in Entry, \A x \in ChainFrom(e) : next'[x] = next[x]
  PROVE  ChainFrom(e)' = ChainFrom(e)
<1>1. e \in ChainFrom(e) /\ ChainFrom(e) \in SUBSET Entry /\ Closed(ChainFrom(e)) BY ChainClosed
<1>2. \A S : Closed(S)' <=> \A x \in S : next'[x] # None => next'[x] \in S BY DEF Closed
<1>3. Closed(ChainFrom(e))' <=> \A x \in ChainFrom(e)' : next'[x] # None => next'[x] \in ChainFrom(e)' BY DEF Closed
<1>4. PICK C, D : C = ChainFrom(e) /\ D = ChainFrom(e)' OBVIOUS
<1>5. /\ e \in D /\ D \in SUBSET Entry /\ \A x \in D : next'[x] # None => next'[x] \in D
      /\ \A S \in SUBSET Entry : e \in S /\ Closed(S)' => D \subseteq S
  BY <1>3, <1>4, ChainNext
<1>6. e \in C /\ C \in SUBSET Entry /\ Closed(C) /\ \A x \in C : next'[x] = next[x] BY <1>1, <1>4
<1>7. D \subseteq C
  <2>1. Closed(C)' BY <1>2, <1>6 DEF Closed
  <2>2. QED BY <1>5, <1>6, <2>1
<1>8. C \subseteq D
  <2>1. Closed(D) BY <1>5, <1>6, <1>7 DEF Closed
  <2>2. QED BY <1>4, <1>5, <2>1, ChainInside
<1>9. QED BY <1>4, <1>7, <1>8

\* What a step of the refinement knows.
Whole == IInv /\ Acyclic /\ MapInv /\ DataInv /\ SearchInv

\* A chain that starts in the table, or at an entry that is linked, has only such
\* entries.
LEMMA ChainLive ==
  ASSUME IInv, Acyclic, MapInv, NEW e \in Entry, e \in Table \/ (occupied[e] /\ ~Linking(e))
  PROVE  \A x \in ChainFrom(e) : x \in Entry /\ (x \in Table \/ occupied[x]) /\ ~Linking(x)
<1> DEFINE Q == {x \in Entry : (x \in Table \/ occupied[x]) /\ ~Linking(x)}
<1>1. \A x \in Table : ~Linking(x) BY DEF Linking, IInv, StructInv, DisjointChains
<1>2. e \in Q BY <1>1
<1>3. ASSUME NEW x \in Q, next[x] # None PROVE next[x] \in Q
  <2>1. occupied[x] BY <1>3 DEF IInv, StructInv, EmptyEntries
  <2>2. next[x] \in Entry BY <1>3 DEF IInv, TypeInv, TypeOK
  <2>3. occupied[next[x]] BY <1>3, <2>1 DEF MapInv, KeyedInv
  <2>4. ~Linking(next[x]) BY <1>3 DEF Linking, IInv, StructInv, DisjointChains
  <2>5. QED BY <2>2, <2>3, <2>4
<1>4. Closed(Q) BY <1>3 DEF Closed
<1>5. Q \in SUBSET Entry OBVIOUS
<1>6. ChainFrom(e) \subseteq Q BY <1>2, <1>4, <1>5, ChainInside DEF IInv
<1>7. QED BY <1>6

\* Entry e holds key k for everyone to find.
Holder(e, k) == e \in Entry /\ occupied[e] /\ key[e] = k /\ ~Linking(e)

\* Such an entry is on the chain of its key's bucket.
LEMMA OnChain ==
  ASSUME IInv, Acyclic, MapInv, NEW k \in Keys, NEW e, Holder(e, k)
  PROVE  Bucket(k) \in Table /\ occupied[Bucket(k)] /\ e \in ChainFrom(Bucket(k))
<1>1. Bucket(k) \in Table /\ Bucket(k) \in Entry BY BucketInTable
<1>2. Rooted(e) /\ Bucket(key[e]) = Bucket(k) BY DEF Holder, MapInv, KeyedInv
<1>3. occupied[Bucket(k)]
  <2>1. SUFFICES ASSUME ~occupied[Bucket(k)] PROVE FALSE OBVIOUS
  <2>2. Closed({Bucket(k)}) BY <1>1, <2>1 DEF Closed, IInv, StructInv, EmptyEntries
  <2>3. e \in {Bucket(k)} BY <1>1, <1>2, <2>2 DEF Rooted
  <2>4. QED BY <2>1, <2>3 DEF Holder
<1>4. e \in ChainFrom(Bucket(k))
  <2>1. Bucket(k) \in ChainFrom(Bucket(k)) /\ ChainFrom(Bucket(k)) \in SUBSET Entry /\ Closed(ChainFrom(Bucket(k)))
    BY <1>1, ChainClosed DEF IInv
  <2>2. QED BY <1>2, <2>1 DEF Rooted
<1>5. QED BY <1>1, <1>3, <1>4

\* Lookup(k) is the data of the entry that holds k.
LEMMA LookupIs ==
  IInv /\ Acyclic /\ MapInv => \A k \in Keys :
    /\ \A e : Holder(e, k) => Lookup(k) = data[e]
    /\ (\A e \in Entry : ~Holder(e, k)) => Lookup(k) = None
<1>1. SUFFICES ASSUME IInv, Acyclic, MapInv, NEW k \in Keys
               PROVE  /\ \A e : Holder(e, k) => Lookup(k) = data[e]
                      /\ (\A e \in Entry : ~Holder(e, k)) => Lookup(k) = None
  OBVIOUS
<1> DEFINE H == {e \in InUse : occupied[e] /\ key[e] = k}
<1>2. \A e : e \in H <=> Holder(e, k)
  <2>1. ASSUME NEW e, e \in H PROVE Holder(e, k)
    <3>1. PICK b \in Table : occupied[b] /\ e \in ChainFrom(b) BY <2>1 DEF InUse
    <3>2. e \in Entry /\ ~Linking(e) BY <1>1, <3>1, ChainLive, TableInEntry
    <3>3. QED BY <2>1, <3>2 DEF Holder
  <2>2. ASSUME NEW e, Holder(e, k) PROVE e \in H
    <3>1. Bucket(k) \in Table /\ occupied[Bucket(k)] /\ e \in ChainFrom(Bucket(k)) BY <1>1, <2>2, OnChain
    <3>2. QED BY <2>2, <3>1 DEF InUse, Holder
  <2>3. QED BY <2>1, <2>2
<1>3. Lookup(k) = IF H = {} THEN None ELSE data[CHOOSE e \in H : TRUE] BY DEF Lookup
<1> HIDE DEF H
<1>4. ASSUME NEW e, Holder(e, k) PROVE Lookup(k) = data[e]
  <2>1. \A d \in H : d = e BY <1>1, <1>2, <1>4 DEF Holder, MapInv, UniqueInv
  <2>2. e \in H BY <1>2, <1>4
  <2>3. (CHOOSE d \in H : TRUE) \in H BY <2>2
  <2>4. (CHOOSE d \in H : TRUE) = e BY <2>1, <2>3
  <2>5. QED BY <1>3, <2>2, <2>4
<1>5. (\A e \in Entry : ~Holder(e, k)) => H = {} BY <1>2 DEF Holder
<1>6. QED BY <1>3, <1>4, <1>5

\* A search that is at e finds its key on the rest of the chain or nowhere.
LEMMA AnswerIs ==
  IInv /\ Acyclic /\ MapInv => \A e \in Entry, k \in Keys :
    /\ \A d \in ChainFrom(e) : occupied[d] /\ key[d] = k => AnswerFrom(e, k) = [val |-> data[d], errno |-> "0"]
    /\ (\A d \in ChainFrom(e) : ~(occupied[d] /\ key[d] = k)) => AnswerFrom(e, k) = [val |-> None, errno |-> "ENOENT"]
<1>1. SUFFICES ASSUME IInv, Acyclic, MapInv, NEW e \in Entry, NEW k \in Keys
               PROVE  /\ \A d \in ChainFrom(e) : occupied[d] /\ key[d] = k =>
                           AnswerFrom(e, k) = [val |-> data[d], errno |-> "0"]
                      /\ (\A d \in ChainFrom(e) : ~(occupied[d] /\ key[d] = k)) =>
                           AnswerFrom(e, k) = [val |-> None, errno |-> "ENOENT"]
  OBVIOUS
<1> DEFINE H == {d \in ChainFrom(e) : occupied[d] /\ key[d] = k}
<1>2. AnswerFrom(e, k) = IF H = {} THEN [val |-> None, errno |-> "ENOENT"]
                         ELSE [val |-> data[CHOOSE d \in H : TRUE], errno |-> "0"]
  BY DEF AnswerFrom
<1>3. ChainFrom(e) \subseteq Entry BY <1>1, ChainClosed DEF IInv
<1>4. \A c, d \in H : c = d BY <1>1, <1>3 DEF MapInv, UniqueInv
<1>5. \A d : d \in H <=> d \in ChainFrom(e) /\ occupied[d] /\ key[d] = k OBVIOUS
<1> HIDE DEF H
<1>6. ASSUME NEW d \in H PROVE AnswerFrom(e, k) = [val |-> data[d], errno |-> "0"]
  <2>1. (CHOOSE c \in H : TRUE) \in H BY <1>6
  <2>2. (CHOOSE c \in H : TRUE) = d BY <1>4, <1>6, <2>1
  <2>3. QED BY <1>2, <1>6, <2>2
<1>7. (\A d \in ChainFrom(e) : ~(occupied[d] /\ key[d] = k)) => H = {} BY <1>5
<1>8. QED BY <1>2, <1>5, <1>6, <1>7

\* The one of the state after a step.
LEMMA LookupNext ==
  (IInv /\ Acyclic /\ MapInv => \A k \in Keys :
    /\ \A e : Holder(e, k) => Lookup(k) = data[e]
    /\ (\A e \in Entry : ~Holder(e, k)) => Lookup(k) = None)'
BY LookupIs, PTL

\* And the other.
LEMMA AnswerNext ==
  (IInv /\ Acyclic /\ MapInv => \A e \in Entry, k \in Keys :
    /\ \A d \in ChainFrom(e) : occupied[d] /\ key[d] = k => AnswerFrom(e, k) = [val |-> data[d], errno |-> "0"]
    /\ (\A d \in ChainFrom(e) : ~(occupied[d] /\ key[d] = k)) => AnswerFrom(e, k) = [val |-> None, errno |-> "ENOENT"])'
BY AnswerIs, PTL

\* ht_insert_key overwrites no entry in use.
LEMMA InsertKeeps ==
  ASSUME ~DupsAllowed, IInv, MapInv, NEW t \in Threads, Insert(t)
  PROVE  /\ \A e \in Entry : occupied[e] =>
              occupied'[e] /\ key'[e] = key[e] /\ data'[e] = data[e] /\ (Linking(e)' => Linking(e))
         /\ Alone(t) /\ UNCHANGED <<op, argKey, argData>>
         /\ ~Searching(t) /\ ~Searching(t)'
         /\ \A u \in Threads \ {t} : result'[u] = result[u]
<1> USE DEF IInv, TypeInv, TypeOK, Goto, Return, args, locals, locks, heap
<1>1. ~InsertFault(t) BY NoFault
<1>2. CASE InsertInTable(t)
  <2>1. /\ pc[t] = "ins_check" /\ pc'[t] = "idle" /\ ~occupied[dhte[t]] /\ dhte[t] \in Entry
    BY <1>2 DEF InsertInTable, PlaceOK, InsertLabels
  <2>2. Alone(t) /\ \A e : Linking(e)' => Linking(e) BY <1>2, <2>1 DEF InsertInTable, Alone, Linking
  <2>3. QED BY <1>2, <2>1, <2>2 DEF InsertInTable, Searching
<1>3. CASE InsertFill(t)
  <2>1. /\ pc[t] = "ins_fill" /\ pc'[t] = "ins_link" /\ ~occupied[ohte[t]] /\ ohte[t] \in Entry
    BY <1>3 DEF InsertFill, PlaceOK, StructInv, Inserting
  <2>2. Alone(t) /\ \A e : Linking(e)' => Linking(e) \/ e = ohte[t] BY <1>3, <2>1 DEF InsertFill, Alone, Linking
  <2>3. QED BY <1>3, <2>1, <2>2 DEF InsertFill, Searching
<1>4. CASE InsertRefill(t) \/ InsertTake(t) \/ InsertLink(t)
  <2>1. /\ pc[t] \in {"ins_take", "ins_link"} /\ pc'[t] \in {"ins_take", "ins_fill", "idle"}
        /\ UNCHANGED <<occupied, key, data>> /\ Alone(t)
    BY <1>4 DEF InsertRefill, InsertTake, InsertLink, Alone
  <2>2. \A e : Linking(e)' => Linking(e) BY <2>1 DEF Alone, Linking
  <2>3. QED BY <1>4, <2>1, <2>2 DEF InsertRefill, InsertTake, InsertLink, Searching
<1>5. CASE \/ InsertBase(t) \/ InsertRefused(t) \/ InsertOccupied(t) \/ InsertDuplicate(t)
           \/ InsertDiffers(t) \/ InsertNext(t) \/ InsertLockFree(t) \/ InsertNoMemory(t)
  <2>1. /\ pc[t] \in InsertLabels \ {"ins_link"} /\ pc'[t] \in {"ins_check", "ins_cmp", "ins_next", "ins_lockfree", "ins_take", "idle"}
        /\ UNCHANGED <<occupied, key, data>> /\ Alone(t)
    BY <1>5 DEF InsertBase, InsertRefused, InsertOccupied, InsertDuplicate, InsertDiffers, InsertNext, InsertLockFree,
       LockFree, InsertNoMemory, Alone, InsertLabels
  <2>2. \A e : Linking(e)' => Linking(e) BY <2>1 DEF Alone, Linking
  <2>3. UNCHANGED <<op, argKey, argData>> /\ \A u \in Threads \ {t} : result'[u] = result[u]
    BY <1>5 DEF InsertBase, InsertRefused, InsertOccupied, InsertDuplicate, InsertDiffers, InsertNext, InsertLockFree,
       LockFree, InsertNoMemory
  <2>4. QED BY <2>1, <2>2, <2>3 DEF Searching, InsertLabels
<1>6. QED BY <1>1, <1>2, <1>3, <1>4, <1>5 DEF Insert

\* The other steps write no entry.
LEMMA OutsideKeeps ==
  ASSUME IInv, NEW t \in Threads, Call(t) \/ LockTable(t) \/ Find(t) \/ LocateRead(t)
  PROVE  /\ UNCHANGED heap /\ Alone(t) /\ \A e : Linking(e)' <=> Linking(e)
         /\ \A u \in Threads \ {t} : result'[u] = result[u] /\ op'[u] = op[u] /\ argData'[u] = argData[u]
         /\ pc'[t] \notin {"ins_link", "fault"}
<1>1. /\ UNCHANGED heap /\ UNCHANGED ohte
      /\ pc[t] \notin {"ins_link", "fault"} /\ pc'[t] \notin {"ins_link", "fault"}
      /\ \A u \in Threads \ {t} : pc'[u] = pc[u] /\ dhte'[u] = dhte[u] /\ argKey'[u] = argKey[u]
      /\ \A u \in Threads \ {t} : result'[u] = result[u] /\ op'[u] = op[u] /\ argData'[u] = argData[u]
  <2> USE DEF IInv, TypeInv, TypeOK, Goto, Return, locks, args, locals
  <2>1. CASE Call(t) BY <2>1 DEF Call
  <2>2. CASE LockTable(t) BY <2>2 DEF LockTable
  <2>3. CASE LocateRead(t) BY <2>3 DEF LocateRead
  <2>4. CASE Find(t)
    BY <2>4 DEF Find, FindBase, FindRefused, FindEmpty, FindEnd, FindAdvance, FindNext, FindMatch, FindFails, Probing
  <2>5. QED BY <2>1, <2>2, <2>3, <2>4
<1>2. Alone(t) BY <1>1 DEF Alone
<1>3. \A e : Linking(e)' <=> Linking(e) BY <1>1 DEF Linking
<1>4. QED BY <1>1, <1>2, <1>3

\* The data stay those of the insertion.
LEMMA DataNext ==
  ASSUME "delete" \notin Ops, ~DupsAllowed, IInv, IInv', MapInv, DataInv, NEW t \in Threads, Call(t) \/ Step(t), ~Delete(t)
  PROVE  DataInv'
<1>1. CASE Call(t) \/ LockTable(t) \/ Find(t) \/ LocateRead(t)
  <2>1. pc'[t] # "idle" /\ op'[t] = "insert" => argData'[t] \in Data
    BY <1>1 DEF Call, LockTable, Find, FindBase, FindRefused, FindEmpty, FindEnd, FindAdvance, FindNext, FindMatch, FindFails,
       LocateRead, Probing, Goto, Return, args, DataInv, IInv, TypeInv, TypeOK
  <2>2. QED BY <1>1, <2>1, OutsideKeeps DEF DataInv, heap, Alone
<1>2. CASE Insert(t)
  <2>1. /\ \A e \in Entry : occupied[e] => occupied'[e] /\ data'[e] = data[e]
        /\ Alone(t) /\ UNCHANGED <<op, argKey, argData>>
    BY <1>2, InsertKeeps
  <2>2. \A e \in Entry : occupied'[e] /\ ~occupied[e] => data'[e] = argData[t]
    BY <1>2 DEF Insert, InsertBase, InsertRefused, InsertInTable, InsertOccupied, InsertDuplicate, InsertDiffers, InsertFault,
       InsertNext, InsertLockFree, LockFree, InsertRefill, InsertNoMemory, InsertTake, InsertFill, InsertLink, heap,
       IInv, TypeInv, TypeOK
  <2>3. op[t] = "insert" /\ pc[t] # "idle"
    BY <1>2 DEF Insert, InsertBase, InsertRefused, InsertInTable, InsertOccupied, InsertDuplicate,
       InsertDiffers, InsertFault, InsertNext, InsertLockFree, LockFree, InsertRefill, InsertNoMemory, InsertTake, InsertFill,
       InsertLink, Goto, IInv, TypeInv, PlaceOK, InsertLabels
  <2>4. \A e \in Entry : occupied'[e] => data'[e] \in Data BY <2>1, <2>2, <2>3 DEF DataInv
  <2>5. ASSUME NEW u \in Threads, pc'[u] = "ins_link" PROVE data'[ohte'[u]] = argData'[u]
    <3>1. CASE u = t
      <4>1. InsertFill(t)
        BY <1>2, <2>5, <3>1, NoFault DEF Insert, InsertBase, InsertRefused, InsertInTable, InsertOccupied, InsertDuplicate,
           InsertDiffers, InsertNext, InsertLockFree, LockFree, InsertRefill, InsertNoMemory, InsertTake,
           InsertLink, Goto, Return, IInv, TypeInv, TypeOK
      <4>2. ohte[t] \in Entry BY <4>1 DEF InsertFill, Goto, IInv, TypeInv, PlaceOK
      <4>3. QED BY <2>1, <3>1, <4>1, <4>2 DEF InsertFill, locals, IInv, TypeInv, TypeOK
    <3>2. CASE u # t
      <4>1. pc[u] = "ins_link" /\ ohte'[u] = ohte[u] BY <2>1, <2>5, <3>2 DEF Alone
      <4>2. ohte[u] \in Entry /\ occupied[ohte[u]] BY <4>1 DEF IInv, TypeInv, PlaceOK, StructInv, Inserting
      <4>3. QED BY <2>1, <4>1, <4>2 DEF DataInv
    <3>3. QED BY <3>1, <3>2
  <2>6. QED BY <2>1, <2>3, <2>4, <2>5 DEF DataInv, Alone
<1>3. QED BY <1>1, <1>2 DEF Step

\* A search stays on its chain.
LEMMA SearchNext ==
  ASSUME "delete" \notin Ops, ~DupsAllowed, IInv, MapInv, SearchInv, NEW t \in Threads, Call(t) \/ Step(t), ~Delete(t)
  PROVE  SearchInv'
<1>1. CASE Insert(t)
  <2>1. /\ \A e \in Entry : occupied[e] => occupied'[e] /\ key'[e] = key[e] /\ (Linking(e)' => Linking(e))
        /\ Alone(t) /\ ~Searching(t)'
    BY <1>1, InsertKeeps
  <2>2. ASSUME NEW u \in Threads \ {t}
        PROVE  /\ Searching(u)' /\ dhte'[u] \notin Table => occupied'[dhte'[u]] /\ ~Linking(dhte[u])'
               /\ pc'[u] = "loc_read" => occupied'[dhte'[u]] /\ key'[dhte'[u]] = argKey'[u]
    <3>1. pc'[u] = pc[u] /\ dhte'[u] = dhte[u] /\ argKey'[u] = argKey[u] BY <2>1 DEF Alone
    <3>2. Searching(u) => dhte[u] \in Entry BY DEF Searching, IInv, TypeInv, PlaceOK
    <3>3. Searching(u)' <=> Searching(u) BY <3>1 DEF Searching
    <3>4. Linking(dhte[u])' <=> \E v \in Threads : pc'[v] = "ins_link" /\ ohte'[v] = dhte[u] BY <3>1 DEF Linking
    <3>5. \A e \in Entry : occupied[e] /\ ~Linking(e) => ~ \E v \in Threads : pc'[v] = "ins_link" /\ ohte'[v] = e
      BY <2>1 DEF Linking
    <3>6. QED BY <2>1, <3>1, <3>2, <3>3, <3>4, <3>5 DEF SearchInv, Searching
  <2>3. QED BY <2>1, <2>2 DEF SearchInv, Searching
<1>2. CASE Call(t) \/ LockTable(t) \/ Find(t) \/ LocateRead(t)
  <2>1. UNCHANGED <<occupied, key, next>> /\ Alone(t) /\ \A e : Linking(e)' <=> Linking(e)
    BY <1>2, OutsideKeeps DEF heap
  <2>2. \A u \in Threads : Linking(dhte[u])' <=> \E v \in Threads : pc'[v] = "ins_link" /\ ohte'[v] = dhte'[u] BY DEF Linking
  <2>3. \A e : (\E v \in Threads : pc'[v] = "ins_link" /\ ohte'[v] = e) <=> Linking(e) BY <2>1 DEF Linking
  <2>4. \A u \in Threads : Linking(dhte[u])' <=> Linking(dhte'[u]) BY <2>2, <2>3
  <2>5. ASSUME NEW u \in Threads \ {t}
        PROVE  /\ Searching(u)' /\ dhte'[u] \notin Table => occupied[dhte'[u]] /\ ~Linking(dhte'[u])
               /\ pc'[u] = "loc_read" => occupied[dhte'[u]] /\ key[dhte'[u]] = argKey'[u]
    <3>1. pc'[u] = pc[u] /\ dhte'[u] = dhte[u] /\ argKey'[u] = argKey[u] BY <2>1 DEF Alone
    <3>2. QED BY <3>1 DEF SearchInv, Searching
  <2>6. /\ Searching(t)' /\ dhte'[t] \notin Table => occupied[dhte'[t]] /\ ~Linking(dhte'[t])
        /\ pc'[t] = "loc_read" => occupied[dhte'[t]] /\ key[dhte'[t]] = argKey'[t]
    <3> USE DEF Searching, IInv, TypeInv, TypeOK, Goto, Return, args, locals
    <3>1. CASE Call(t) \/ LockTable(t) \/ LocateRead(t) BY <3>1 DEF Call, LockTable, LocateRead
    <3>2. CASE FindBase(t)
      <4>1. argKey[t] \in Keys BY <3>2 DEF FindBase, PlaceOK
      <4>2. QED BY <3>2, <4>1, BucketInTable DEF FindBase
    <3>3. CASE FindRefused(t) \/ FindEmpty(t) \/ FindEnd(t)
      BY <3>3 DEF FindRefused, FindEmpty, FindEnd, FindFails, Probing
    <3>4. CASE FindAdvance(t)
      <4>1. /\ pc'[t] = "find_next" /\ dhte'[t] = next[dhte[t]] /\ next[dhte[t]] # None /\ dhte[t] \in Entry
            /\ occupied[dhte[t]]
        BY <3>4 DEF FindAdvance, Probing, PlaceOK, StructInv, Neighbours
      <4>2. occupied[next[dhte[t]]] BY <4>1 DEF MapInv, KeyedInv
      <4>3. ~Linking(next[dhte[t]]) BY <4>1 DEF Linking, StructInv, DisjointChains
      <4>4. QED BY <4>1, <4>2, <4>3
    <3>5. CASE FindNext(t)
      <4>1. pc[t] = "find_next" /\ pc'[t] = "find_cmp" /\ dhte'[t] = dhte[t] BY <3>5 DEF FindNext
      <4>2. QED BY <4>1 DEF SearchInv
    <3>6. CASE FindMatch(t)
      <4>1. /\ pc[t] = "find_cmp" /\ dhte'[t] = dhte[t] /\ argKey'[t] = argKey[t] /\ key[dhte[t]] = argKey[t]
            /\ occupied[dhte[t]]
        BY <3>6 DEF FindMatch, Probing, StructInv, Neighbours
      <4>2. QED BY <4>1 DEF SearchInv
    <3>7. QED BY <1>2, <3>1, <3>2, <3>3, <3>4, <3>5, <3>6 DEF Find
  <2>7. QED BY <2>1, <2>4, <2>5, <2>6 DEF SearchInv
<1>3. QED BY <1>1, <1>2 DEF Step

\* The answer due in the state after a step.
LEMMA DueThen ==
  ASSUME NEW t \in Threads, NEW e, NEW k, dhte'[t] = e, argKey'[t] = k
  PROVE  AnswerFrom(dhte[t], argKey[t])' = AnswerFrom(e, k)'
BY DEF AnswerFrom, ChainFrom

\* All of it holds at first.
LEMMA WholeInit == Init => Whole
<1>1. Init => DataInv BY DEF Init, DataInv
<1>2. Init => SearchInv BY DEF Init, SearchInv, Searching
<1>3. QED BY <1>1, <1>2, IInvInit, MapInit DEF Whole

\* And lasts.
LEMMA WholeNext ==
  ASSUME "delete" \notin Ops, ~DupsAllowed, Whole, [Next]_vars
  PROVE  Whole'
<1>1. (IInv /\ Acyclic /\ MapInv)' BY IInvNext, MapNext DEF Whole
<1>2. CASE UNCHANGED vars
  <2>1. DataInv' BY <1>2 DEF Whole, DataInv, vars, heap, args, locals
  <2>2. SearchInv' BY <1>2 DEF Whole, SearchInv, Searching, Linking, vars, heap, args, locals
  <2>3. QED BY <1>1, <2>1, <2>2 DEF Whole
<1>3. ASSUME NEW t \in Threads, Call(t) \/ Step(t) PROVE Whole'
  <2>1. ~Delete(t) BY NotDelete DEF Whole
  <2>2. DataInv' /\ SearchInv' BY <1>1, <1>3, <2>1, DataNext, SearchNext DEF Whole
  <2>3. QED BY <1>1, <2>2 DEF Whole
<1>4. QED BY <1>2, <1>3 DEF Next

\* A search that is at e sees what it saw before.
LEMMA AnswerSame ==
  ASSUME Whole, Whole', NEW e \in Entry, NEW k \in Keys,
         \A x \in ChainFrom(e) : next'[x] = next[x] /\ occupied'[x] = occupied[x] /\ key'[x] = key[x] /\ data'[x] = data[x]
  PROVE  AnswerFrom(e, k)' = AnswerFrom(e, k)
<1>1. ChainFrom(e)' = ChainFrom(e) BY SameChain DEF Whole, IInv
<1>2. /\ \A d \in ChainFrom(e)' : occupied'[d] /\ key'[d] = k => AnswerFrom(e, k)' = [val |-> data'[d], errno |-> "0"]
      /\ (\A d \in ChainFrom(e)' : ~(occupied'[d] /\ key'[d] = k)) => AnswerFrom(e, k)' = [val |-> None, errno |-> "ENOENT"]
  BY AnswerNext DEF Whole
<1>3. /\ \A d \in ChainFrom(e) : occupied[d] /\ key[d] = k => AnswerFrom(e, k) = [val |-> data[d], errno |-> "0"]
      /\ (\A d \in ChainFrom(e) : ~(occupied[d] /\ key[d] = k)) => AnswerFrom(e, k) = [val |-> None, errno |-> "ENOENT"]
  BY AnswerIs DEF Whole
<1>4. QED BY <1>1, <1>2, <1>3

\* The table answers for k as it did before.
LEMMA LookupSame ==
  ASSUME Whole, Whole', NEW k \in Keys,
         \A e \in Entry : (Holder(e, k)' <=> Holder(e, k)) /\ (Holder(e, k) => data'[e] = data[e])
  PROVE  Lookup(k)' = Lookup(k)
<1>1. /\ \A e : Holder(e, k)' => Lookup(k)' = data'[e]
      /\ (\A e \in Entry : ~Holder(e, k)') => Lookup(k)' = None
  BY LookupNext DEF Whole
<1>2. /\ \A e : Holder(e, k) => Lookup(k) = data[e]
      /\ (\A e \in Entry : ~Holder(e, k)) => Lookup(k) = None
  BY LookupIs DEF Whole
<1>3. QED BY <1>1, <1>2

\* The rest of a chain.
LEMMA ChainRest ==
  ASSUME TypeInv, Acyclic, NEW e \in Entry
  PROVE  /\ next[e] = None => ChainFrom(e) = {e}
         /\ next[e] # None => next[e] \in Entry /\ ChainFrom(e) = {e} \cup ChainFrom(next[e])
<1>1. e \in ChainFrom(e) /\ ChainFrom(e) \in SUBSET Entry /\ Closed(ChainFrom(e)) BY ChainClosed
<1>2. ASSUME next[e] = None PROVE ChainFrom(e) = {e}
  <2>1. Closed({e}) BY <1>2 DEF Closed
  <2>2. ChainFrom(e) \subseteq {e} BY <2>1, ChainInside
  <2>3. QED BY <1>1, <2>2
<1>3. ASSUME next[e] # None PROVE next[e] \in Entry /\ ChainFrom(e) = {e} \cup ChainFrom(next[e])
  <2>1. PICK n \in Entry : n = next[e] BY <1>3 DEF TypeInv, TypeOK
  <2>2. n \in ChainFrom(n) /\ ChainFrom(n) \in SUBSET Entry /\ Closed(ChainFrom(n)) BY ChainClosed
  <2>3. ChainFrom(n) \subseteq ChainFrom(e)
    <3>1. n \in ChainFrom(e) BY <1>1, <1>3, <2>1 DEF Closed
    <3>2. QED BY <1>1, <3>1, ChainInside
  <2>4. ChainFrom(e) \subseteq {e} \cup ChainFrom(n)
    <3>1. Closed({e} \cup ChainFrom(n)) BY <2>1, <2>2 DEF Closed
    <3>2. {e} \cup ChainFrom(n) \in SUBSET Entry BY <2>2
    <3>3. QED BY <3>1, <3>2, ChainInside
  <2>5. QED BY <1>1, <2>1, <2>3, <2>4
<1>4. QED BY <1>2, <1>3

\* A search that starts finds what the table answers.
LEMMA BucketAnswer ==
  ASSUME Whole, NEW k \in Keys
  PROVE  AnswerFrom(Bucket(k), k) = [val |-> Lookup(k), errno |-> IF Lookup(k) = None THEN "ENOENT" ELSE "0"]
<1>1. Bucket(k) \in Table /\ Bucket(k) \in Entry BY BucketInTable
<1>2. CASE \E e \in Entry : Holder(e, k)
  <2>1. PICK e \in Entry : Holder(e, k) BY <1>2
  <2>2. e \in ChainFrom(Bucket(k)) /\ occupied[e] /\ key[e] = k BY <2>1, OnChain DEF Whole, Holder
  <2>3. Lookup(k) = data[e] BY <2>1, LookupIs DEF Whole
  <2>4. AnswerFrom(Bucket(k), k) = [val |-> data[e], errno |-> "0"] BY <1>1, <2>2, AnswerIs DEF Whole
  <2>5. data[e] # None BY <2>2, <2>1, NoneAssumption DEF Whole, DataInv
  <2>6. QED BY <2>3, <2>4, <2>5
<1>3. CASE \A e \in Entry : ~Holder(e, k)
  <2>1. Lookup(k) = None BY <1>3, LookupIs DEF Whole
  <2>2. \A x \in ChainFrom(Bucket(k)) : x \in Entry /\ ~Linking(x) BY <1>1, ChainLive DEF Whole
  <2>3. \A d \in ChainFrom(Bucket(k)) : ~(occupied[d] /\ key[d] = k) BY <1>3, <2>2 DEF Holder
  <2>4. AnswerFrom(Bucket(k), k) = [val |-> None, errno |-> "ENOENT"] BY <1>1, <2>3, AnswerIs DEF Whole
  <2>5. QED BY <2>1, <2>4
<1>4. QED BY <1>2, <1>3

\* The entry of the table where an insertion is at work is on the way of no search.
LEMMA NotOnChain ==
  ASSUME IInv, NEW t \in Threads, NEW u \in Threads, u # t, pc[t] \in Busy, Searching(u)
  PROVE  dhte[t] \notin ChainFrom(dhte[u])
<1>1. PICK d : d = dhte[t] OBVIOUS
<1>2. d \in Entry /\ d \in Table /\ ~Reads(t)
  BY <1>1 DEF IInv, TypeInv, PlaceOK, StructInv, Inserting, InsertLabels, Busy, Reads
<1>3. d \in Holding(t) BY <1>1 DEF Holding, InsertLabels, Busy
<1>4. d \notin Holding(u) BY <1>2, <1>3, WriterAlone DEF IInv
<1>5. dhte[u] \in Entry BY DEF Searching, IInv, TypeInv, PlaceOK
<1>6. dhte[u] # d
  <2>1. CASE pc[u] = "find_cmp" BY <1>4, <1>5, <2>1, NoneAssumption DEF Holding
  <2>2. CASE pc[u] = "loc_read" BY <1>4, <2>2 DEF Holding
  <2>3. CASE pc[u] = "find_next"
    <3>1. phte[u] \in Entry /\ next[phte[u]] = dhte[u] BY <2>3 DEF IInv, TypeInv, PlaceOK, StructInv, Neighbours
    <3>2. QED BY <1>2, <3>1 DEF IInv, StructInv, DisjointChains
  <2>4. QED BY <2>1, <2>2, <2>3 DEF Searching
<1>7. Closed(Entry \ {d}) BY <1>2 DEF Closed, IInv, TypeInv, TypeOK, StructInv, DisjointChains
<1>8. ChainFrom(dhte[u]) \subseteq Entry \ {d} BY <1>5, <1>6, <1>7, ChainInside DEF IInv
<1>9. QED BY <1>1, <1>8

\* What SharedMap sees of the threads other than t.
OthersSame(t) == \A u \in Threads \ {t} :
  /\ Phase(u)' = Phase(u) /\ Due(u)' = Due(u)
  /\ op'[u] = op[u] /\ argKey'[u] = argKey[u] /\ argData'[u] = argData[u] /\ result'[u] = result[u]

\* The map as SharedMap sees it.
MapSame == \A k \in Keys : Lookup(k)' = Lookup(k)

\* A step of t that SharedMap does not see.
Hidden(t) ==
  /\ MapSame /\ OthersSame(t)
  /\ Phase(t)' = Phase(t) /\ Due(t)' = Due(t)
  /\ op'[t] = op[t] /\ argKey'[t] = argKey[t] /\ argData'[t] = argData[t] /\ result'[t] = result[t]

\* It is a stuttering step of SharedMap.
LEMMA Stutter ==
  ASSUME TypeOK, TypeOK', NEW t \in Threads, Hidden(t)
  PROVE  UNCHANGED Promise!mapVars
<1>1. [k \in Keys |-> Lookup(k)]' = [k \in Keys |-> Lookup(k)] BY DEF Hidden, MapSame
<1>2. [u \in Threads |-> Phase(u)]' = [u \in Threads |-> Phase(u)] BY DEF Hidden, OthersSame
<1>3. [u \in Threads |-> Due(u)]' = [u \in Threads |-> Due(u)] BY DEF Hidden, OthersSame
<1>4. [u \in Threads |-> [op |-> op[u], key |-> argKey[u], data |-> argData[u]]]' =
      [u \in Threads |-> [op |-> op[u], key |-> argKey[u], data |-> argData[u]]]
  BY DEF Hidden, OthersSame
<1>5. result' = result BY DEF TypeOK, Hidden, OthersSame
<1>6. QED BY <1>1, <1>2, <1>3, <1>4, <1>5 DEF Promise!mapVars

\* What the others see of a step of t is what it leaves of their chains.
LEMMA OthersStay ==
  ASSUME Whole, Whole', NEW t \in Threads, Alone(t),
         \A u \in Threads \ {t} : result'[u] = result[u] /\ op'[u] = op[u] /\ argData'[u] = argData[u],
         \A u \in Threads \ {t} : Searching(u) => \A x \in ChainFrom(dhte[u]) :
           next'[x] = next[x] /\ occupied'[x] = occupied[x] /\ key'[x] = key[x] /\ data'[x] = data[x]
  PROVE  OthersSame(t)
<1>1. SUFFICES ASSUME NEW u \in Threads \ {t} PROVE Phase(u)' = Phase(u) /\ Due(u)' = Due(u) BY DEF OthersSame, Alone
<1>2. pc'[u] = pc[u] /\ dhte'[u] = dhte[u] /\ argKey'[u] = argKey[u] BY DEF Alone
<1>3. Searching(u)' <=> Searching(u) BY <1>2 DEF Searching
<1>4. Phase(u)' = Phase(u) BY <1>2, <1>3 DEF Phase
<1>5. CASE ~Searching(u) BY <1>3, <1>4, <1>5 DEF Due
<1>6. CASE Searching(u)
  <2>1. PICK e, k : e = dhte[u] /\ k = argKey[u] OBVIOUS
  <2>2. e \in Entry /\ k \in Keys BY <1>6, <2>1 DEF Searching, Whole, IInv, TypeInv, PlaceOK
  <2>3. AnswerFrom(e, k)' = AnswerFrom(e, k) BY <1>6, <2>1, <2>2, AnswerSame
  <2>4. AnswerFrom(dhte[u], argKey[u])' = AnswerFrom(e, k)' BY <1>2, <2>1, DueThen
  <2>5. Due(u)' = AnswerFrom(dhte[u], argKey[u])' BY <1>3, <1>6 DEF Due
  <2>6. Due(u) = AnswerFrom(e, k) BY <1>6, <2>1 DEF Due
  <2>7. QED BY <1>4, <2>3, <2>4, <2>5, <2>6
<1>7. QED BY <1>5, <1>6

\* The answer due to a search that is at e, before a step and after it.
LEMMA DueIs ==
  ASSUME Whole, Whole', NEW t \in Threads, UNCHANGED heap, NEW e \in Entry, NEW k \in Keys
  PROVE  /\ Searching(t) /\ dhte[t] = e /\ argKey[t] = k => Due(t) = AnswerFrom(e, k)
         /\ Searching(t)' /\ dhte'[t] = e /\ argKey'[t] = k => Due(t)' = AnswerFrom(e, k)
<1>1. AnswerFrom(e, k)' = AnswerFrom(e, k) BY AnswerSame DEF heap
<1>2. ASSUME Searching(t)', dhte'[t] = e, argKey'[t] = k PROVE Due(t)' = AnswerFrom(e, k)
  <2>1. Due(t)' = AnswerFrom(dhte[t], argKey[t])' BY <1>2 DEF Due
  <2>2. QED BY <1>1, <1>2, <2>1, DueThen
<1>3. QED BY <1>2 DEF Due

\* Outside ht_insert_key, and before it writes, the map stays what it is.
LEMMA QuietSame ==
  ASSUME Whole, Whole', NEW t \in Threads, UNCHANGED heap, Alone(t), \A e : Linking(e)' <=> Linking(e),
         \A u \in Threads \ {t} : result'[u] = result[u] /\ op'[u] = op[u] /\ argData'[u] = argData[u]
  PROVE  MapSame /\ OthersSame(t)
<1>1. OthersSame(t) BY OthersStay DEF heap
<1>2. \A e, k : Holder(e, k)' <=> Holder(e, k) BY DEF Holder, heap
<1>3. \A k \in Keys : Lookup(k)' = Lookup(k) BY <1>2, LookupSame DEF heap
<1>4. QED BY <1>1, <1>3 DEF MapSame

\* SharedMap's variables after a step of t.
LEMMA Arrays ==
  ASSUME TypeOK, TypeOK', NEW t \in Threads, OthersSame(t)
  PROVE  /\ [u \in Threads |-> Phase(u)]' = [[u \in Threads |-> Phase(u)] EXCEPT ![t] = Phase(t)']
         /\ [u \in Threads |-> Due(u)]' = [[u \in Threads |-> Due(u)] EXCEPT ![t] = Due(t)']
         /\ result' = [result EXCEPT ![t] = result'[t]]
         /\ [u \in Threads |-> [op |-> op[u], key |-> argKey[u], data |-> argData[u]]]' =
            [[u \in Threads |-> [op |-> op[u], key |-> argKey[u], data |-> argData[u]]]
               EXCEPT ![t] = [op |-> op'[t], key |-> argKey'[t], data |-> argData'[t]]]
<1>1. [u \in Threads |-> Phase(u)]' = [[u \in Threads |-> Phase(u)] EXCEPT ![t] = Phase(t)'] BY DEF OthersSame
<1>2. [u \in Threads |-> Due(u)]' = [[u \in Threads |-> Due(u)] EXCEPT ![t] = Due(t)'] BY DEF OthersSame
<1>3. result' = [result EXCEPT ![t] = result'[t]] BY DEF OthersSame, TypeOK
<1>4. [u \in Threads |-> [op |-> op[u], key |-> argKey[u], data |-> argData[u]]]' =
      [[u \in Threads |-> [op |-> op[u], key |-> argKey[u], data |-> argData[u]]]
         EXCEPT ![t] = [op |-> op'[t], key |-> argKey'[t], data |-> argData'[t]]]
  BY DEF OthersSame
<1>5. QED BY <1>1, <1>2, <1>3, <1>4

\* The parameters of the call stay.
CallSame(t) == op'[t] = op[t] /\ argKey'[t] = argKey[t] /\ argData'[t] = argData[t]

\* A call begins.
LEMMA MapsInvoke ==
  ASSUME TypeOK, TypeOK', NEW t \in Threads, MapSame, OthersSame(t), Phase(t) = "idle", Phase(t)' = "called",
         Due(t)' = Due(t), result'[t] = result[t], NEW k \in Keys, NEW d \in Data, argKey'[t] = k,
         \/ op'[t] = "locate" /\ argData'[t] = None
         \/ op'[t] = "insert" /\ argData'[t] = d
  PROVE  Promise!Invoke(t)
<1>1. [j \in Keys |-> Lookup(j)]' = [j \in Keys |-> Lookup(j)] BY DEF MapSame
<1>2. [u \in Threads |-> Phase(u)][t] = "idle" OBVIOUS
<1>3. [u \in Threads |-> Phase(u)]' = [[u \in Threads |-> Phase(u)] EXCEPT ![t] = "called"] BY Arrays
<1>4. [u \in Threads |-> Due(u)]' = [u \in Threads |-> Due(u)] BY DEF OthersSame
<1>5. result' = result BY DEF OthersSame, TypeOK
<1>6. \E c \in {[op |-> "locate", key |-> k, data |-> None], [op |-> "insert", key |-> k, data |-> d]} :
        [u \in Threads |-> [op |-> op[u], key |-> argKey[u], data |-> argData[u]]]' =
        [[u \in Threads |-> [op |-> op[u], key |-> argKey[u], data |-> argData[u]]] EXCEPT ![t] = c]
  <2>1. [op |-> op'[t], key |-> argKey'[t], data |-> argData'[t]] \in
          {[op |-> "locate", key |-> k, data |-> None], [op |-> "insert", key |-> k, data |-> d]}
    OBVIOUS
  <2>2. QED BY <2>1, Arrays
<1>7. \E j \in Keys, x \in Data :
        \E c \in {[op |-> "locate", key |-> j, data |-> None], [op |-> "insert", key |-> j, data |-> x]} :
          [u \in Threads |-> [op |-> op[u], key |-> argKey[u], data |-> argData[u]]]' =
          [[u \in Threads |-> [op |-> op[u], key |-> argKey[u], data |-> argData[u]]] EXCEPT ![t] = c]
  BY <1>6
<1>8. QED BY <1>1, <1>2, <1>3, <1>4, <1>5, <1>7 DEF Promise!Invoke

\* A search has found its bucket.
LEMMA MapsLocate ==
  ASSUME TypeOK, TypeOK', NEW t \in Threads, MapSame, OthersSame(t), CallSame(t), Phase(t) = "called", Phase(t)' = "decided",
         op[t] = "locate", argKey[t] \in Keys, result'[t] = result[t],
         Due(t)' = [val |-> Lookup(argKey[t]), errno |-> IF Lookup(argKey[t]) = None THEN "ENOENT" ELSE "0"]
  PROVE  Promise!Locate(t)
<1>1. [j \in Keys |-> Lookup(j)]' = [j \in Keys |-> Lookup(j)] BY DEF MapSame
<1>2. [u \in Threads |-> Phase(u)][t] = "called" OBVIOUS
<1>3. [u \in Threads |-> Phase(u)]' = [[u \in Threads |-> Phase(u)] EXCEPT ![t] = "decided"] BY Arrays
<1>4. result' = result BY DEF OthersSame, TypeOK
<1>5. [u \in Threads |-> [op |-> op[u], key |-> argKey[u], data |-> argData[u]]]' =
      [u \in Threads |-> [op |-> op[u], key |-> argKey[u], data |-> argData[u]]]
  BY DEF OthersSame, CallSame
<1>6. [u \in Threads |-> [op |-> op[u], key |-> argKey[u], data |-> argData[u]]][t] =
        [op |-> op[t], key |-> argKey[t], data |-> argData[t]]
  OBVIOUS
<1>7. [j \in Keys |-> Lookup(j)][argKey[t]] = Lookup(argKey[t]) OBVIOUS
<1>8. [u \in Threads |-> Due(u)]' = [[u \in Threads |-> Due(u)] EXCEPT ![t] =
        [val |-> Lookup(argKey[t]), errno |-> IF Lookup(argKey[t]) = None THEN "ENOENT" ELSE "0"]]
  BY Arrays
<1>9. QED BY <1>1, <1>2, <1>3, <1>4, <1>5, <1>6, <1>7, <1>8 DEF Promise!Locate, Promise!Decide, Promise!Answer

\* A search has its answer.
LEMMA MapsGive ==
  ASSUME TypeOK, TypeOK', NEW t \in Threads, MapSame, OthersSame(t), CallSame(t), Phase(t) = "decided", Phase(t)' = "idle",
         result'[t] = Due(t), Due(t)' = [val |-> None, errno |-> "0"]
  PROVE  Promise!GiveAnswer(t)
<1>1. [j \in Keys |-> Lookup(j)]' = [j \in Keys |-> Lookup(j)] BY DEF MapSame
<1>2. [u \in Threads |-> Phase(u)][t] = "decided" /\ [u \in Threads |-> Due(u)][t] = Due(t) OBVIOUS
<1>3. [u \in Threads |-> Phase(u)]' = [[u \in Threads |-> Phase(u)] EXCEPT ![t] = "idle"] BY Arrays
<1>4. [u \in Threads |-> Due(u)]' = [[u \in Threads |-> Due(u)] EXCEPT ![t] = [val |-> None, errno |-> "0"]] BY Arrays
<1>5. [u \in Threads |-> [op |-> op[u], key |-> argKey[u], data |-> argData[u]]]' =
      [u \in Threads |-> [op |-> op[u], key |-> argKey[u], data |-> argData[u]]]
  BY DEF OthersSame, CallSame
<1>6. result' = [result EXCEPT ![t] = Due(t)] BY Arrays
<1>7. QED BY <1>1, <1>2, <1>3, <1>4, <1>5, <1>6 DEF Promise!GiveAnswer, Promise!Nothing, Promise!Answer

\* An insertion returns.
LEMMA MapsDecide ==
  ASSUME TypeOK, TypeOK', NEW t \in Threads, OthersSame(t), CallSame(t), Phase(t) = "called", Phase(t)' = "idle",
         Due(t)' = Due(t), NEW a, result'[t] = a
  PROVE  Promise!Decide(t, a)
<1>1. [u \in Threads |-> Phase(u)][t] = "called" OBVIOUS
<1>2. [u \in Threads |-> Phase(u)]' = [[u \in Threads |-> Phase(u)] EXCEPT ![t] = "idle"] BY Arrays
<1>3. [u \in Threads |-> Due(u)]' = [u \in Threads |-> Due(u)] BY DEF OthersSame
<1>4. [u \in Threads |-> [op |-> op[u], key |-> argKey[u], data |-> argData[u]]]' =
      [u \in Threads |-> [op |-> op[u], key |-> argKey[u], data |-> argData[u]]]
  BY DEF OthersSame, CallSame
<1>5. result' = [result EXCEPT ![t] = a] BY Arrays
<1>6. QED BY <1>1, <1>2, <1>3, <1>4, <1>5 DEF Promise!Decide

\* No lock that a search or an insertion asks for is refused.
LEMMA NotRefused ==
  ASSUME "delete" \notin Ops, IInv, NEW t \in Threads
  PROVE  ~FindRefused(t) /\ ~InsertRefused(t)
<1>1. SUFFICES ASSUME pc[t] \in {"find_base", "ins_base"}, Refused(t, Bucket(argKey[t])) PROVE FALSE
  BY DEF FindRefused, InsertRefused
<1>2. argKey[t] \in Keys BY <1>1 DEF IInv, TypeInv, PlaceOK
<1>3. Bucket(argKey[t]) \in Entry BY <1>2, BucketInTable
<1>4. Holding(t) = {} BY <1>1 DEF Holding
<1>5. QED BY <1>1, <1>3, <1>4 DEF Refused, IInv, LockInv, LocksExplained

\* A call begins, or locks the table.
LEMMA CallMaps ==
  ASSUME "delete" \notin Ops, Whole, Whole', NEW t \in Threads, Call(t) \/ LockTable(t)
  PROVE  Promise!Invoke(t) \/ Hidden(t)
<1>1. TypeOK /\ TypeOK' BY DEF Whole, IInv, TypeInv
<1>2. MapSame /\ OthersSame(t) BY OutsideKeeps, QuietSame DEF Whole
<1>3. CASE Call(t)
  <2>1. pc[t] = "idle" /\ pc'[t] = "lock_table" /\ result' = result BY <1>1, <1>3 DEF Call, Goto, TypeOK
  <2>2. Phase(t) = "idle" /\ Phase(t)' = "called" /\ Due(t)' = Due(t) BY <2>1 DEF Phase, Due, Searching
  <2>3. PICK o \in Ops, k \in Keys, d \in Data :
          op' = [op EXCEPT ![t] = o] /\ argKey' = [argKey EXCEPT ![t] = k]
          /\ argData' = [argData EXCEPT ![t] = IF o = "insert" THEN d ELSE None]
    BY <1>3 DEF Call
  <2>4. o \in {"locate", "insert"} BY OpsAssumption
  <2>5. /\ argKey'[t] = k
        /\ \/ op'[t] = "locate" /\ argData'[t] = None
           \/ op'[t] = "insert" /\ argData'[t] = d
    BY <1>1, <2>3, <2>4 DEF TypeOK
  <2>6. QED BY <1>1, <1>2, <2>1, <2>2, <2>5, MapsInvoke
<1>4. CASE LockTable(t)
  <2>1. /\ pc[t] = "lock_table" /\ pc'[t] \in {"ins_base", "find_base"}
        /\ UNCHANGED <<op, argKey, argData, result>>
    BY <1>1, <1>4 DEF LockTable, TypeOK, args
  <2>2. Phase(t)' = Phase(t) /\ Due(t)' = Due(t) BY <2>1 DEF Phase, Due, Searching
  <2>3. QED BY <1>2, <2>1, <2>2 DEF Hidden
<1>5. QED BY <1>3, <1>4

\* A search takes effect where it locks its bucket, and returns what it found
\* then.
LEMMA SearchMaps ==
  ASSUME "delete" \notin Ops, Whole, Whole', NEW t \in Threads, Find(t) \/ LocateRead(t)
  PROVE  Promise!Locate(t) \/ Promise!GiveAnswer(t) \/ Hidden(t)
<1>1. TypeOK /\ TypeOK' /\ PlaceOK BY DEF Whole, IInv, TypeInv
<1>2. MapSame /\ OthersSame(t) /\ UNCHANGED heap BY OutsideKeeps, QuietSame DEF Whole
<1>3. UNCHANGED args
  BY DEF Find, FindBase, FindRefused, FindEmpty, FindEnd, FindAdvance, FindNext, FindMatch, FindFails, LocateRead
<1>4. CallSame(t) BY <1>3 DEF CallSame, args
<1>5. PICK e, k : e = dhte[t] /\ k = argKey[t] OBVIOUS
<1>6. argKey'[t] = k BY <1>3, <1>5 DEF args
<1>7. CASE FindBase(t)
  <2>1. /\ pc[t] = "find_base" /\ pc'[t] = "find_cmp" /\ result' = result /\ dhte'[t] = Bucket(k)
    BY <1>1, <1>5, <1>7 DEF FindBase, Goto, TypeOK
  <2>2. k \in Keys /\ Bucket(k) \in Entry BY <1>1, <1>5, <2>1, BucketInTable DEF PlaceOK
  <2>3. op[t] = "locate" BY <2>1, NoDelete DEF Whole, IInv, FindLabels
  <2>4. Searching(t)' /\ Phase(t) = "called" /\ Phase(t)' = "decided" BY <2>1 DEF Searching, Phase
  <2>5. Due(t)' = AnswerFrom(Bucket(k), k) BY <1>2, <1>6, <2>1, <2>2, <2>4, DueIs
  <2>6. QED BY <1>1, <1>2, <1>4, <1>5, <2>1, <2>2, <2>3, <2>4, <2>5, BucketAnswer, MapsLocate
<1>8. CASE FindEmpty(t) \/ FindEnd(t)
  <2>1. /\ pc[t] = "find_cmp" /\ pc'[t] = "idle" /\ result'[t] = [val |-> None, errno |-> "ENOENT"]
        /\ (phte[t] = None /\ ~occupied[e]) \/ (key[e] # k /\ next[e] = None)
    BY <1>1, <1>5, <1>8 DEF FindEmpty, FindEnd, FindFails, Return, Probing, TypeOK
  <2>2. e \in Entry /\ k \in Keys BY <1>1, <1>5, <2>1 DEF PlaceOK
  <2>3. next[e] = None /\ ~(occupied[e] /\ key[e] = k)
    BY <1>1, <1>5, <2>1 DEF PlaceOK, Whole, IInv, StructInv, EmptyEntries
  <2>4. ChainFrom(e) = {e} BY <2>2, <2>3, ChainRest DEF Whole, IInv
  <2>5. AnswerFrom(e, k) = [val |-> None, errno |-> "ENOENT"] BY <2>2, <2>3, <2>4, AnswerIs DEF Whole
  <2>6. Due(t) = AnswerFrom(e, k) BY <1>5, <2>1 DEF Due, Searching
  <2>7. Phase(t) = "decided" /\ Phase(t)' = "idle" /\ Due(t)' = [val |-> None, errno |-> "0"]
    BY <2>1 DEF Phase, Due, Searching
  <2>8. QED BY <1>1, <1>2, <1>4, <2>1, <2>5, <2>6, <2>7, MapsGive
<1>9. CASE LocateRead(t)
  <2>1. pc[t] = "loc_read" /\ pc'[t] = "idle" /\ result'[t] = [val |-> data[e], errno |-> "0"]
    BY <1>1, <1>5, <1>9 DEF LocateRead, Return, TypeOK
  <2>2. e \in Entry /\ k \in Keys /\ occupied[e] /\ key[e] = k BY <1>1, <1>5, <2>1 DEF PlaceOK, Whole, SearchInv
  <2>3. e \in ChainFrom(e) BY <2>2, ChainClosed DEF Whole, IInv
  <2>4. AnswerFrom(e, k) = [val |-> data[e], errno |-> "0"] BY <2>2, <2>3, AnswerIs DEF Whole
  <2>5. Due(t) = AnswerFrom(e, k) BY <1>5, <2>1 DEF Due, Searching
  <2>6. Phase(t) = "decided" /\ Phase(t)' = "idle" /\ Due(t)' = [val |-> None, errno |-> "0"]
    BY <2>1 DEF Phase, Due, Searching
  <2>7. QED BY <1>1, <1>2, <1>4, <2>1, <2>4, <2>5, <2>6, MapsGive
<1>10. CASE FindNext(t) \/ FindMatch(t)
  <2>1. pc[t] \in {"find_next", "find_cmp"} /\ pc'[t] \in {"find_cmp", "loc_read"} /\ dhte'[t] = e /\ result' = result
    <3>1. CASE FindNext(t) BY <1>1, <1>5, <3>1 DEF FindNext, Goto, TypeOK, locals
    <3>2. CASE FindMatch(t)
      <4>1. pc[t] = "find_cmp" BY <3>2 DEF FindMatch, Goto
      <4>2. Reads(t) BY <4>1, NoDelete DEF Whole, IInv, FindLabels, Reads
      <4>3. QED BY <1>1, <1>5, <3>2, <4>1, <4>2 DEF FindMatch, Goto, TypeOK, locals
    <3>3. QED BY <1>10, <3>1, <3>2
  <2>2. e \in Entry /\ k \in Keys BY <1>1, <1>5, <2>1 DEF PlaceOK
  <2>3. Searching(t) /\ Searching(t)' /\ Phase(t)' = Phase(t) BY <2>1 DEF Searching, Phase
  <2>4. Due(t)' = Due(t) BY <1>2, <1>5, <1>6, <2>1, <2>2, <2>3, DueIs
  <2>5. QED BY <1>2, <1>4, <2>1, <2>3, <2>4 DEF Hidden, CallSame
<1>11. CASE FindAdvance(t)
  <2>1. /\ pc[t] = "find_cmp" /\ pc'[t] = "find_next" /\ dhte'[t] = next[e] /\ result' = result
        /\ key[e] # k /\ next[e] # None
    BY <1>1, <1>5, <1>11 DEF FindAdvance, Goto, TypeOK
  <2>2. e \in Entry /\ k \in Keys BY <1>1, <1>5, <2>1 DEF PlaceOK
  <2>3. PICK n \in Entry : n = next[e] /\ ChainFrom(e) = {e} \cup ChainFrom(n)
    BY <2>1, <2>2, ChainRest DEF Whole, IInv
  <2>4. AnswerFrom(n, k) = AnswerFrom(e, k)
    <3>1. CASE \E d \in ChainFrom(n) : occupied[d] /\ key[d] = k
      <4>1. PICK d \in ChainFrom(n) : occupied[d] /\ key[d] = k BY <3>1
      <4>2. QED BY <2>2, <2>3, <4>1, AnswerIs DEF Whole
    <3>2. CASE \A d \in ChainFrom(n) : ~(occupied[d] /\ key[d] = k)
      <4>1. \A d \in ChainFrom(e) : ~(occupied[d] /\ key[d] = k) BY <2>1, <2>3, <3>2
      <4>2. QED BY <2>2, <2>3, <3>2, <4>1, AnswerIs DEF Whole
    <3>3. QED BY <3>1, <3>2
  <2>5. Searching(t) /\ Searching(t)' /\ Phase(t)' = Phase(t) BY <2>1 DEF Searching, Phase
  <2>6. Due(t) = AnswerFrom(e, k) BY <1>5, <2>5 DEF Due
  <2>7. Due(t)' = AnswerFrom(n, k) BY <1>2, <1>6, <2>1, <2>2, <2>3, <2>5, DueIs
  <2>8. QED BY <1>2, <1>4, <2>1, <2>4, <2>5, <2>6, <2>7 DEF Hidden, CallSame
<1>12. ~FindRefused(t) BY NotRefused DEF Whole
<1>13. QED BY <1>7, <1>8, <1>9, <1>10, <1>11, <1>12 DEF Find

\* An insertion changes nothing on the way of a search.
LEMMA InsertSpares ==
  ASSUME ~DupsAllowed, Whole, NEW t \in Threads, Insert(t), NEW u \in Threads \ {t}, Searching(u), NEW x \in ChainFrom(dhte[u])
  PROVE  next'[x] = next[x] /\ occupied'[x] = occupied[x] /\ key'[x] = key[x] /\ data'[x] = data[x]
<1>1. TypeOK /\ PlaceOK BY DEF Whole, IInv, TypeInv
<1>2. PICK e : e = dhte[u] OBVIOUS
<1>3. e \in Entry BY <1>1, <1>2 DEF Searching, PlaceOK
<1>4. e \in Table \/ (occupied[e] /\ ~Linking(e)) BY <1>2 DEF Whole, SearchInv
<1>5. x \in Entry /\ (x \in Table \/ occupied[x]) /\ ~Linking(x) BY <1>2, <1>3, <1>4, ChainLive DEF Whole
<1>6. pc[t] \in Busy => x # dhte[t] BY NotOnChain DEF Whole
<1> USE DEF TypeOK, Goto, Return, heap, locks, args, locals
<1>7. CASE InsertInTable(t)
  <2>1. x # dhte[t] BY <1>6, <1>7 DEF InsertInTable, Busy, InsertLabels
  <2>2. QED BY <1>1, <1>5, <1>7, <2>1 DEF InsertInTable
<1>8. CASE InsertFill(t)
  <2>1. ~occupied[ohte[t]] /\ ohte[t] \notin Table
    BY <1>8 DEF InsertFill, Whole, IInv, StructInv, Inserting, DisjointChains
  <2>2. x # ohte[t] BY <1>5, <2>1
  <2>3. QED BY <1>1, <1>5, <1>8, <2>2 DEF InsertFill
<1>9. CASE InsertLink(t)
  <2>1. Linking(ohte[t]) /\ x # dhte[t] BY <1>6, <1>9 DEF InsertLink, Linking, Busy, InsertLabels
  <2>2. x # ohte[t] BY <1>5, <2>1
  <2>3. QED BY <1>1, <1>5, <1>9, <2>1, <2>2 DEF InsertLink
<1>10. CASE InsertTake(t)
  <2>1. ~occupied[freechain] /\ freechain \notin Table
    BY <1>10 DEF InsertTake, Whole, IInv, StructInv, EmptyEntries, DisjointChains
  <2>2. x # freechain BY <1>5, <2>1
  <2>3. QED BY <1>1, <1>5, <1>10, <2>2 DEF InsertTake
<1>11. CASE InsertRefill(t)
  <2>1. slabs \in Nat /\ slabs + 1 > slabs /\ slabs + 1 # 0 BY <1>1
  <2>2. \A y \in Entry : y[1] > slabs => ~occupied[y] BY DEF Whole, IInv, StructInv, Allocated
  <2>3. x[1] # slabs + 1 BY <1>5, <2>1, <2>2, EntryPair
  <2>4. QED BY <1>5, <1>11, <2>3 DEF InsertRefill
<1>12. CASE \/ InsertBase(t) \/ InsertRefused(t) \/ InsertOccupied(t) \/ InsertDuplicate(t) \/ InsertFault(t)
            \/ InsertDiffers(t) \/ InsertNext(t) \/ InsertLockFree(t) \/ InsertNoMemory(t)
  BY <1>12 DEF InsertBase, InsertRefused, InsertOccupied, InsertDuplicate, InsertFault, InsertDiffers, InsertNext,
     InsertLockFree, LockFree, InsertNoMemory
<1>13. QED BY <1>7, <1>8, <1>9, <1>10, <1>11, <1>12 DEF Insert

\* The others do not notice an insertion's steps.
LEMMA InsertOthers ==
  ASSUME ~DupsAllowed, Whole, Whole', NEW t \in Threads, Insert(t)
  PROVE  OthersSame(t) /\ CallSame(t) /\ op[t] = "insert" /\ argKey[t] \in Keys /\ Phase(t) = "called" /\ Due(t)' = Due(t)
<1>1. /\ Alone(t) /\ UNCHANGED <<op, argKey, argData>> /\ ~Searching(t) /\ ~Searching(t)'
      /\ \A u \in Threads \ {t} : result'[u] = result[u]
  BY InsertKeeps DEF Whole
<1>2. OthersSame(t) BY <1>1, InsertSpares, OthersStay
<1>3. pc[t] \in InsertLabels
  BY DEF Insert, InsertBase, InsertRefused, InsertInTable, InsertOccupied, InsertDuplicate,
     InsertDiffers, InsertFault, InsertNext, InsertLockFree, LockFree, InsertRefill, InsertNoMemory, InsertTake, InsertFill,
     InsertLink, Goto, InsertLabels
<1>4. op[t] = "insert" /\ argKey[t] \in Keys BY <1>3 DEF Whole, IInv, TypeInv, PlaceOK, InsertLabels
<1>5. Phase(t) = "called" BY <1>1, <1>3 DEF Phase, InsertLabels
<1>6. QED BY <1>1, <1>2, <1>4, <1>5 DEF Due, CallSame

\* Before it enters its key the map stays what it is.
LEMMA InsertHidden ==
  ASSUME ~DupsAllowed, Whole, Whole', NEW t \in Threads, Insert(t), ~InsertInTable(t), ~InsertLink(t)
  PROVE  MapSame
<1>1. \A e \in Entry : occupied[e] =>
        occupied'[e] /\ key'[e] = key[e] /\ data'[e] = data[e] /\ (Linking(e)' => Linking(e))
  BY InsertKeeps DEF Whole
<1>2. \A e \in Entry : (Linking(e) => Linking(e)') /\ (occupied'[e] /\ ~occupied[e] => Linking(e)')
  <2> USE DEF Whole, IInv, TypeInv, TypeOK, Goto, Return, args, locals, locks, heap
  <2>1. CASE InsertFill(t) BY <2>1 DEF InsertFill, Linking
  <2>2. CASE InsertRefill(t) \/ InsertTake(t) BY <2>2 DEF InsertRefill, InsertTake, Linking
  <2>3. CASE \/ InsertBase(t) \/ InsertRefused(t) \/ InsertOccupied(t) \/ InsertDuplicate(t)
             \/ InsertDiffers(t) \/ InsertNext(t) \/ InsertLockFree(t) \/ InsertNoMemory(t)
    BY <2>3 DEF InsertBase, InsertRefused, InsertOccupied, InsertDuplicate, InsertDiffers, InsertNext, InsertLockFree,
       LockFree, InsertNoMemory, Linking
  <2>4. ~InsertFault(t) BY NoFault
  <2>5. QED BY <2>1, <2>2, <2>3, <2>4 DEF Insert
<1>3. \A k : \A e \in Entry : Holder(e, k)' <=> Holder(e, k) BY <1>1, <1>2 DEF Holder
<1>4. \A k : \A e \in Entry : Holder(e, k) => data'[e] = data[e] BY <1>1 DEF Holder
<1>5. QED BY <1>3, <1>4, LookupSame DEF MapSame

\* An insertion enters its key where nobody held it.
LEMMA EnterMaps ==
  ASSUME ~DupsAllowed, Whole, Whole', NEW t \in Threads, Insert(t), pc'[t] = "idle", NEW o \in Entry, NEW k \in Keys,
         k = argKey[t], \A e \in Entry : ~Holder(e, k), Holder(o, k)', data'[o] = argData[t],
         \A e \in Entry : \A j \in Keys \ {k} : (Holder(e, j)' <=> Holder(e, j)) /\ (Holder(e, j) => data'[e] = data[e]),
         result'[t] = [val |-> 0, errno |-> "0"]
  PROVE  Promise!Insert(t)
<1>1. TypeOK /\ TypeOK' BY DEF Whole, IInv, TypeInv
<1>2. /\ OthersSame(t) /\ CallSame(t) /\ op[t] = "insert" /\ Phase(t) = "called" /\ Due(t)' = Due(t)
  BY InsertOthers
<1>3. Phase(t)' = "idle" BY DEF Phase, Searching
<1>4. Promise!Decide(t, [val |-> 0, errno |-> "0"]) BY <1>1, <1>2, <1>3, MapsDecide
<1>5. Lookup(k) = None BY LookupIs DEF Whole
<1>6. Lookup(k)' = argData[t] BY LookupNext DEF Whole
<1>7. \A j \in Keys \ {k} : Lookup(j)' = Lookup(j) BY LookupSame
<1>8. [j \in Keys |-> Lookup(j)]' = [[j \in Keys |-> Lookup(j)] EXCEPT ![k] = argData[t]] BY <1>6, <1>7
<1>9. [j \in Keys |-> Lookup(j)][k] = None BY <1>5
<1>10. [u \in Threads |-> [op |-> op[u], key |-> argKey[u], data |-> argData[u]]][t] =
         [op |-> "insert", key |-> k, data |-> argData[t]]
  BY <1>2
<1>11. QED BY <1>4, <1>8, <1>9, <1>10 DEF Promise!Insert, Promise!Answer

\* In the table, or on the chain.
LEMMA InsertMaps ==
  ASSUME ~DupsAllowed, Whole, Whole', NEW t \in Threads, InsertInTable(t) \/ InsertLink(t)
  PROVE  Promise!Insert(t)
<1>1. TypeOK /\ PlaceOK /\ Insert(t) BY DEF Whole, IInv, TypeInv, Insert
<1>2. PICK k : k = argKey[t] OBVIOUS
<1>3. k \in Keys BY <1>1, <1>2, InsertOthers
<1>4. CASE InsertInTable(t)
  <2>1. PICK d : d = dhte[t] OBVIOUS
  <2>2. /\ pc[t] = "ins_check" /\ ~occupied[d] /\ d \in Table /\ d \in Entry /\ d = Bucket(k) /\ next[d] = None
    BY <1>2, <1>4, <2>1, TableInEntry DEF InsertInTable, Whole, IInv, StructInv, Inserting, EmptyEntries, MapInv,
       InsertOK, Busy, InsertLabels
  <2>3. /\ occupied'[d] /\ key'[d] = k /\ data'[d] = argData[t] /\ pc'[t] = "idle"
        /\ result'[t] = [val |-> 0, errno |-> "0"]
        /\ \A e \in Entry \ {d} : occupied'[e] = occupied[e] /\ key'[e] = key[e] /\ data'[e] = data[e]
        /\ ohte' = ohte /\ \A u \in Threads \ {t} : pc'[u] = pc[u]
    BY <1>1, <1>2, <1>4, <2>1, <2>2 DEF InsertInTable, Return, TypeOK, locals
  <2>4. \A e : Linking(e)' <=> Linking(e) BY <2>2, <2>3 DEF Linking
  <2>5. ~Linking(d) BY <2>2 DEF Linking, Whole, IInv, StructInv, DisjointChains
  <2>6. Holder(d, k)' BY <2>2, <2>3, <2>4, <2>5 DEF Holder
  <2>7. ASSUME NEW e \in Entry, occupied[e] PROVE key[e] # k
    <3>1. Closed({d}) /\ pc[t] \in Busy \ {"ins_link"} BY <2>2 DEF Closed, Busy, InsertLabels
    <3>2. QED BY <1>2, <1>3, <2>1, <2>2, <2>7, <3>1, KeyIsNew DEF Whole
  <2>8. \A e \in Entry : ~Holder(e, k) BY <2>7 DEF Holder
  <2>9. \A e \in Entry : \A j \in Keys \ {k} : (Holder(e, j)' <=> Holder(e, j)) /\ (Holder(e, j) => data'[e] = data[e])
    BY <2>2, <2>3, <2>4 DEF Holder
  <2>10. QED BY <1>1, <1>2, <1>3, <2>2, <2>3, <2>6, <2>8, <2>9, EnterMaps
<1>5. CASE InsertLink(t)
  <2>1. PICK o : o = ohte[t] OBVIOUS
  <2>2. /\ pc[t] = "ins_link" /\ o \in Entry /\ occupied[o] /\ key[o] = k /\ data[o] = argData[t]
    BY <1>2, <1>5, <2>1 DEF InsertLink, Whole, IInv, TypeInv, PlaceOK, StructInv, Inserting, MapInv, InsertOK, DataInv
  <2>3. /\ UNCHANGED <<occupied, key, data, ohte>> /\ pc'[t] = "idle" /\ result'[t] = [val |-> 0, errno |-> "0"]
        /\ \A u \in Threads \ {t} : pc'[u] = pc[u]
    BY <1>1, <1>5 DEF InsertLink, Return, TypeOK, locals
  <2>4. ~Linking(o)' /\ \A e \in Entry \ {o} : Linking(e)' <=> Linking(e)
    <3>1. \A u \in Threads \ {t} : pc[u] = "ins_link" => ohte[u] # o
      BY <2>1, <2>2 DEF Whole, IInv, StructInv, DisjointChains
    <3>2. QED BY <2>1, <2>2, <2>3, <3>1 DEF Linking
  <2>5. Linking(o) BY <2>1, <2>2 DEF Linking
  <2>6. Holder(o, k)' BY <2>2, <2>3, <2>4 DEF Holder
  <2>7. \A e \in Entry : ~Holder(e, k) BY <2>2, <2>5 DEF Holder, Whole, MapInv, UniqueInv
  <2>8. \A e \in Entry : \A j \in Keys \ {k} : (Holder(e, j)' <=> Holder(e, j)) /\ (Holder(e, j) => data'[e] = data[e])
    BY <2>2, <2>3, <2>4 DEF Holder
  <2>9. data'[o] = argData[t] BY <2>2, <2>3
  <2>10. QED BY <1>1, <1>2, <1>3, <2>2, <2>3, <2>6, <2>7, <2>8, <2>9, EnterMaps
<1>6. QED BY <1>4, <1>5

\* The key is there already.
LEMMA DuplicateMaps ==
  ASSUME ~DupsAllowed, Whole, Whole', NEW t \in Threads, InsertDuplicate(t)
  PROVE  Promise!InsertExisting(t)
<1>1. TypeOK /\ TypeOK' /\ PlaceOK /\ Insert(t) BY DEF Whole, IInv, TypeInv, Insert
<1>2. PICK k, o : k = argKey[t] /\ o = ohte[t] OBVIOUS
<1>3. /\ OthersSame(t) /\ CallSame(t) /\ op[t] = "insert" /\ k \in Keys /\ Phase(t) = "called" /\ Due(t)' = Due(t)
  BY <1>1, <1>2, InsertOthers
<1>4. pc[t] = "ins_cmp" /\ pc'[t] = "idle" /\ key[o] = k /\ result'[t] = [val |-> -1, errno |-> "EEXIST"]
  BY <1>1, <1>2 DEF InsertDuplicate, Return, TypeOK
<1>5. MapSame
  <2>1. ~InsertInTable(t) /\ ~InsertLink(t) BY <1>4 DEF InsertInTable, InsertLink
  <2>2. QED BY <1>1, <2>1, InsertHidden
<1>6. Holder(o, k)
  <2>1. o \in Entry /\ occupied[o] /\ dhte[t] = Bucket(k)
    BY <1>2, <1>4 DEF Whole, MapInv, InsertOK, Members, Busy, InsertLabels
  <2>2. ASSUME NEW u \in Threads, pc[u] = "ins_link", ohte[u] = o PROVE FALSE
    <3>1. u # t /\ pc[u] \in Busy /\ pc[t] \in Busy BY <1>4, <2>2 DEF Busy, InsertLabels
    <3>2. dhte[u] = Bucket(argKey[u]) /\ key[o] = argKey[u] BY <2>2, <3>1 DEF Whole, MapInv, InsertOK
    <3>3. QED BY <1>4, <2>1, <3>1, <3>2, OneInsertion DEF Whole
  <2>3. QED BY <1>4, <2>1, <2>2 DEF Holder, Linking
<1>7. Lookup(k) # None
  <2>1. Lookup(k) = data[o] BY <1>3, <1>6, LookupIs DEF Whole
  <2>2. QED BY <1>6, <2>1, NoneAssumption DEF Holder, Whole, DataInv
<1>8. Phase(t)' = "idle" BY <1>4 DEF Phase, Searching
<1>9. Promise!Decide(t, [val |-> -1, errno |-> "EEXIST"]) BY <1>1, <1>3, <1>4, <1>8, MapsDecide
<1>10. [j \in Keys |-> Lookup(j)]' = [j \in Keys |-> Lookup(j)] /\ [j \in Keys |-> Lookup(j)][k] # None
  BY <1>3, <1>5, <1>7 DEF MapSame
<1>11. [u \in Threads |-> [op |-> op[u], key |-> argKey[u], data |-> argData[u]]][t] =
         [op |-> "insert", key |-> k, data |-> argData[t]]
  BY <1>2, <1>3
<1>12. QED BY <1>9, <1>10, <1>11 DEF Promise!InsertExisting, Promise!Answer

\* There is no memory for it.
LEMMA NoMemoryMaps ==
  ASSUME ~DupsAllowed, Whole, Whole', NEW t \in Threads, InsertNoMemory(t)
  PROVE  Promise!InsertNoMemory(t)
<1>1. TypeOK /\ TypeOK' /\ PlaceOK /\ Insert(t) BY DEF Whole, IInv, TypeInv, Insert
<1>2. PICK k : k = argKey[t] OBVIOUS
<1>3. /\ OthersSame(t) /\ CallSame(t) /\ op[t] = "insert" /\ k \in Keys /\ Phase(t) = "called" /\ Due(t)' = Due(t)
  BY <1>1, <1>2, InsertOthers
<1>4. pc[t] = "ins_take" /\ pc'[t] = "idle" /\ result'[t] = [val |-> -1, errno |-> "0"]
  BY <1>1, <1>2 DEF InsertNoMemory, Return, TypeOK
<1>5. MapSame
  <2>1. ~InsertInTable(t) /\ ~InsertLink(t) BY <1>4 DEF InsertInTable, InsertLink
  <2>2. QED BY <1>1, <2>1, InsertHidden
<1>6. Lookup(k) = None
  <2>1. PICK S \in SUBSET Entry : Compared(t, S) /\ dhte[t] \in S /\ Closed(S) BY <1>4 DEF Whole, MapInv, InsertOK
  <2>2. \A x \in S : key[x] # k BY <1>2, <2>1 DEF Compared
  <2>3. pc[t] \in Busy \ {"ins_link"} BY <1>4 DEF Busy, InsertLabels
  <2>4. \A e \in Entry : occupied[e] => key[e] # k BY <1>2, <1>3, <2>1, <2>2, <2>3, KeyIsNew DEF Whole
  <2>5. \A e \in Entry : ~Holder(e, k) BY <2>4 DEF Holder
  <2>6. QED BY <1>3, <2>5, LookupIs DEF Whole
<1>7. Phase(t)' = "idle" BY <1>4 DEF Phase, Searching
<1>8. Promise!Decide(t, [val |-> -1, errno |-> "0"]) BY <1>1, <1>3, <1>4, <1>7, MapsDecide
<1>9. [j \in Keys |-> Lookup(j)]' = [j \in Keys |-> Lookup(j)] /\ [j \in Keys |-> Lookup(j)][k] = None
  BY <1>3, <1>5, <1>6 DEF MapSame
<1>10. [u \in Threads |-> [op |-> op[u], key |-> argKey[u], data |-> argData[u]]][t] =
         [op |-> "insert", key |-> k, data |-> argData[t]]
  BY <1>2, <1>3
<1>11. QED BY <1>8, <1>9, <1>10 DEF Promise!InsertNoMemory, Promise!Answer

\* The other steps of an insertion.
LEMMA InsertStays ==
  ASSUME ~DupsAllowed, Whole, Whole', NEW t \in Threads,
         \/ InsertBase(t) \/ InsertOccupied(t) \/ InsertDiffers(t) \/ InsertNext(t) \/ InsertLockFree(t)
         \/ InsertRefill(t) \/ InsertTake(t) \/ InsertFill(t)
  PROVE  Hidden(t)
<1>1. TypeOK /\ Insert(t) BY DEF Whole, IInv, TypeInv, Insert
<1>2. /\ pc[t] \in InsertLabels \ {"ins_link"} /\ pc'[t] \in InsertLabels /\ result' = result
      /\ (pc[t] = "ins_check" => occupied[dhte[t]])
  BY <1>1 DEF InsertBase, InsertOccupied, InsertDiffers, InsertNext, InsertLockFree, LockFree, InsertRefill, InsertTake,
     InsertFill, Goto, TypeOK, InsertLabels
<1>3. ~InsertInTable(t) /\ ~InsertLink(t) BY <1>2 DEF InsertInTable, InsertLink
<1>4. MapSame BY <1>1, <1>3, InsertHidden
<1>5. OthersSame(t) /\ CallSame(t) /\ Phase(t) = "called" /\ Due(t)' = Due(t) BY <1>1, InsertOthers
<1>6. Phase(t)' = "called" BY <1>2 DEF Phase, Searching, InsertLabels
<1>7. QED BY <1>2, <1>4, <1>5, <1>6 DEF Hidden, CallSame

\* Every step of the table is one of SharedMap, or none.
LEMMA StepMaps ==
  ASSUME "delete" \notin Ops, ~DupsAllowed, Whole, [Next]_vars
  PROVE  [Promise!Next]_Promise!mapVars
<1>1. Whole' BY WholeNext
<1>2. TypeOK /\ TypeOK' BY <1>1 DEF Whole, IInv, TypeInv
<1>3. CASE UNCHANGED vars
  <2>1. /\ [k \in Keys |-> Lookup(k)]' = [k \in Keys |-> Lookup(k)]
    BY <1>3 DEF vars, heap, Lookup, InUse, ChainFrom
  <2>2. \A u \in Threads : Phase(u)' = Phase(u) BY <1>3 DEF vars, Phase, Searching
  <2>3. \A u \in Threads : Due(u)' = Due(u)
    BY <1>3 DEF vars, heap, args, locals, Due, AnswerFrom, Searching, ChainFrom
  <2>4. QED BY <1>3, <2>1, <2>2, <2>3 DEF Promise!mapVars, vars, args
<1>4. ASSUME NEW t \in Threads, Call(t) \/ Step(t) PROVE Promise!Next \/ UNCHANGED Promise!mapVars
  <2>1. ~Delete(t) /\ ~FindRefused(t) /\ ~InsertRefused(t) /\ ~InsertFault(t)
    BY NotDelete, NotRefused, NoFault DEF Whole
  <2>2. \/ Promise!Invoke(t) \/ Promise!Locate(t) \/ Promise!GiveAnswer(t) \/ Promise!Insert(t)
        \/ Promise!InsertExisting(t) \/ Promise!InsertNoMemory(t) \/ Hidden(t)
    BY <1>1, <1>4, <2>1, CallMaps, SearchMaps, InsertMaps, DuplicateMaps, NoMemoryMaps, InsertStays DEF Step, Insert
  <2>3. Hidden(t) => UNCHANGED Promise!mapVars BY <1>2, Stutter
  <2>4. QED BY <2>2, <2>3 DEF Promise!Next
<1>5. QED BY <1>3, <1>4 DEF Next

\* Used without ht_delete_key and without hto_dups_allowed, the table is one map
\* on which every ht_locate_key and ht_insert_key happens at one moment, however
\* the locks interleave the calls, for any number of threads, keys and slabs: a
\* search returns the data of the insertion that succeeded, and an insertion
\* succeeds once per key.
THEOREM TableIsLinearizable ==
  ASSUME "delete" \notin Ops, ~DupsAllowed
  PROVE  Spec => Linearizable
<1>1. Init => Promise!Init
  <2>1. SUFFICES ASSUME Init PROVE Promise!Init OBVIOUS
  <2>2. \A k \in Keys : Lookup(k) = None
    <3>1. \A k, e \in Entry : ~Holder(e, k) BY <2>1 DEF Init, Holder
    <3>2. QED BY <2>1, <3>1, WholeInit, LookupIs DEF Whole, Init, Holder
  <2>3. \A t \in Threads : Phase(t) = "idle" /\ Due(t) = [val |-> None, errno |-> "0"]
    BY <2>1 DEF Init, Phase, Due, Searching
  <2>4. QED BY <2>1, <2>2, <2>3 DEF Init, Promise!Init, Promise!Nothing, Promise!Answer
<1>2. Spec => []Whole
  <2>1. Whole /\ [Next]_vars => Whole' BY WholeNext
  <2>2. QED BY <2>1, WholeInit, PTL DEF Spec
<1>3. Whole /\ [Next]_vars => [Promise!Next]_Promise!mapVars BY StepMaps
<1>4. QED BY <1>1, <1>2, <1>3, PTL DEF Spec, Linearizable, Promise!Spec
=============================================================================
