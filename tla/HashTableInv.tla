----------------------------- MODULE HashTableInv -----------------------------
(***************************************************************************)
(* The inductive invariant of HashTable, as a conjunction of named parts.  *)
(* HashTableProofs shows that every step preserves it; it implies          *)
(* LocksHeld, DisjointChains and EmptyEntries.                             *)
(***************************************************************************)
EXTENDS HashTable

FindLabels   == {"find_base", "find_cmp", "find_next"}
InsertLabels == {"ins_base", "ins_check", "ins_cmp", "ins_next", "ins_lockfree",
                 "ins_take", "ins_fill", "ins_link"}
DeleteLabels == {"del_case", "del_copy", "del_lockfree", "del_unlink",
                 "del_unlock", "del_return"}

\* A thread is where its call can take it, with the parameters of that call
\* and with its pointers set where the code follows them.
PlaceOK ==
  \A t \in Threads :
    /\ pc[t] \in FindLabels => op[t] \in {"locate", "delete"}
    /\ pc[t] = "loc_read" => op[t] = "locate"
    /\ pc[t] \in InsertLabels => op[t] = "insert"
    /\ pc[t] \in DeleteLabels => op[t] = "delete"
    /\ pc[t] \notin {"idle", "fault"} => op[t] \in Ops /\ argKey[t] \in Keys
    /\ pc[t] \in {"find_cmp", "find_next", "loc_read"} \cup DeleteLabels
                   \cup (InsertLabels \ {"ins_base"}) => dhte[t] \in Entry
    /\ pc[t] \in {"find_next", "del_copy", "del_lockfree", "del_unlink", "del_unlock"}
         => phte[t] \in Entry
    /\ pc[t] \in {"ins_cmp", "ins_next", "ins_fill", "ins_link"} => ohte[t] \in Entry
    /\ pc[t] \in {"find_cmp", "del_case"} /\ phte[t] = None => dhte[t] \in Table
    /\ pc[t] = "fault" => \A u \in Threads : pc[u] = "fault"

TypeInv == TypeOK /\ PlaceOK

\* The locks held are those of Holding and the table and free chain locks of
\* the calls in progress, and those that DeleteLone left behind.
LocksExplained ==
  \A t \in Threads :
    /\ t \in tableR => pc[t] \in FindLabels \cup {"fault"}
    /\ tableW = t => pc[t] \in FindLabels \cup {"ins_base", "fault"}
    /\ freeW = t => pc[t] \in {"ins_take", "del_unlink", "fault"}
    /\ pc[t] \in {"ins_take", "del_unlink"} => freeW = t
    /\ \A e \in Entry :
         /\ t \in entryR[e] => pc[t] = "fault" \/ (Reads(t) /\ e \in Holding(t))
         /\ entryW[e] = t =>
              \/ pc[t] = "fault"
              \/ ~Reads(t) /\ e \in Holding(t)
              \/ "delete" \in Ops /\ e \in Table

LockInv == LocksHeld /\ LocksExplained

\* Entry e is marked empty and still on its chain.
Unlinking(e) ==
  \E t \in Threads : pc[t] \in {"del_lockfree", "del_unlink"} /\ dhte[t] = e

\* e is in the table or on a bucket's chain, not on the free chain.
Live(e) == e \in Table \/ occupied[e] \/ Unlinking(e)

\* No chain leads from the free entries to the live ones, nor back.  (When
\* the process has died nobody is left to finish an unlinking.)
ChainsPure ==
  \A t \in Threads : pc[t] # "fault" =>
  /\ \A e \in Entry : next[e] # None => (Live(e) <=> Live(next[e]))
  /\ freechain # None => ~Live(freechain)

\* Entries of slabs not yet allocated are untouched.
Allocated ==
  /\ \A e \in Entry : next[e] # None => next[e][1] \in 1 .. slabs
  /\ freechain # None => freechain[1] \in 1 .. slabs
  /\ \A e \in Entry : e[1] > slabs => ~occupied[e] /\ next[e] = None
  /\ \A t \in Threads : pc[t] \in {"ins_fill", "ins_link"} => ohte[t][1] \in 1 .. slabs

\* A search or a deletion in progress points at two neighbours of one chain
\* or, when it has no previous entry, at an entry of the table.
Neighbours ==
  \A t \in Threads :
    /\ pc[t] = "del_case" => occupied[dhte[t]]
    /\ pc[t] = "find_cmp" /\ phte[t] # None => occupied[dhte[t]]
    /\ \/ pc[t] \in {"find_next", "del_copy", "del_lockfree", "del_unlink"}
       \/ pc[t] \in {"find_cmp", "del_case"} /\ phte[t] # None
       => next[phte[t]] = dhte[t] /\ occupied[phte[t]]
    /\ pc[t] = "find_next" => pphte[t] # phte[t]
    /\ pc[t] = "del_copy" => phte[t] \in Table
    /\ pc[t] \in {"del_lockfree", "del_unlink"} => ~occupied[dhte[t]]

\* An insertion in progress works at an entry of the table; the entry it has
\* taken from the free chain is on no chain and no search is at it.
Inserting ==
  \A t \in Threads :
    /\ pc[t] \in InsertLabels \ {"ins_base"} => dhte[t] \in Table
    /\ pc[t] \in InsertLabels \ {"ins_base", "ins_check"} => occupied[dhte[t]]
    /\ pc[t] = "ins_fill" => ~occupied[ohte[t]]
    /\ pc[t] = "ins_link" => occupied[ohte[t]]
    /\ pc[t] \in {"ins_fill", "ins_link"} =>
         /\ next[ohte[t]] = None
         /\ \A u \in Threads :
              pc[u] \in {"find_cmp", "find_next", "del_case", "del_copy", "del_lockfree",
                         "del_unlink"} => phte[u] # ohte[t]

StructInv ==
  /\ DisjointChains
  /\ EmptyEntries
  /\ ChainsPure
  /\ Allocated
  /\ Neighbours
  /\ Inserting

\* Everything a step needs to know about the state before it.
IInv == TypeInv /\ LockInv /\ StructInv
=============================================================================
