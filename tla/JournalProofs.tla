---------------------------- MODULE JournalProofs ----------------------------
(***************************************************************************)
(* Proofs about Journal: each thread finds its own group of buffers in the *)
(* table, or none, whatever the other threads do; so groups are neither    *)
(* shared nor lost, and the parts of a diagnostic are the caller's.  The   *)
(* searches of the tables of levels end, whatever INT_MAX is, and so the   *)
(* messages of a call that meets no error are whole.                       *)
(***************************************************************************)
EXTENDS Journal, TLAPS

-----------------------------------------------------------------------------
(* The invariant.                                                          *)

\* The local state of a thread.
Local ==
  [pc : {"idle", "part", "located", "check", "inserted", "format", "log"},
   op : {None, "log", "diagnostic", "result"}, n : 0 .. MaxCalls, level : (-IntMax - 1) .. IntMax,
   bad : BOOLEAN, ret : Int, error : BOOLEAN, parts : [Index -> Groups \cup {None, "todo"}],
   i : Index \cup {0}, jnl : Groups \cup {None}]

TypeInv ==
  /\ toc \in [Threads -> Groups \cup {None}]
  /\ phase \in [Threads -> {"idle", "called", "decided"}]
  /\ \A f \in {call, due, answer, sent} : DOMAIN f = Threads
  /\ heap \subseteq Groups \X (Index \cup {0})
  /\ text \in [Groups -> [Index -> 0 .. MaxCalls]]
  /\ calls \in 0 .. MaxCalls
  /\ th \in [Threads -> Local]

\* What the table has told t, or will tell it, is the state of t's own id.
CallInv(t) ==
  /\ th[t].pc \notin {"located", "inserted"} => phase[t] = "idle"
  /\ th[t].pc = "located" =>
       /\ phase[t] # "idle" => call[t].op = "locate" /\ call[t].key = t
       /\ phase[t] = "decided" => due[t].val = toc[t]
       /\ phase[t] = "idle" => answer[t].val = toc[t]
  /\ th[t].pc = "inserted" =>
       /\ phase[t] # "idle" => call[t].op = "insert" /\ call[t].key = t /\ call[t].data = th[t].jnl
       /\ phase[t] = "called" => toc[t] = None
       /\ phase[t] = "decided" => toc[t] = IF due[t].val = 0 THEN th[t].jnl ELSE None
       /\ phase[t] = "idle" => toc[t] = IF answer[t].val = 0 THEN th[t].jnl ELSE None

\* The group a thread works on: a new one, or the one in the table.
GroupInv(t) ==
  /\ th[t].pc \in {"idle", "part", "located", "log"} => th[t].jnl = None
  /\ th[t].pc \in {"check", "inserted", "format"} => th[t].jnl # None
  /\ th[t].pc = "check" => toc[t] = None
  /\ th[t].pc = "format" => toc[t] = th[t].jnl
  /\ th[t].pc \in {"located", "check", "inserted", "format"} => th[t].i \in Index
  /\ th[t].pc = "log" => th[t].parts = NoParts \/ \A i \in Index : th[t].parts[i] # "todo"

\* Groups have one owner, and the blocks of the heap belong to groups.
Mine(t) == {toc[t], th[t].jnl} \ {None}
Disjoint == \A t, u \in Threads : t # u => Mine(t) \cap Mine(u) = {}
HeapInv ==
  /\ \A b \in heap : \E t \in Threads : b[1] \in Mine(t)
  /\ \A t \in Threads :
       /\ toc[t] # None => \A i \in Index \cup {0} : <<toc[t], i>> \in heap
       /\ th[t].jnl # None => <<th[t].jnl, 0>> \in heap
       /\ th[t].pc = "inserted" => \A i \in Index : <<th[t].jnl, i>> \in heap

\* A part that is ready was written in this call into the thread's own group.
PartInv(t) ==
  \A i \in Index :
    /\ th[t].parts[i] \in Groups => toc[t] = th[t].parts[i] /\ text[toc[t]][i] = th[t].n
    /\ th[t].parts[i] = None => th[t].error

\* The lines of the latest call.
Lines(t) ==
  {Part(i, th[t].n) : i \in Index} \cup {Blank, Text(th[t].n)}
  \cup {Header(dl_description_fetch(l), exact) : l \in (-IntMax - 1) .. IntMax, exact \in BOOLEAN}
  \cup {NullPart(i) : i \in {j \in Index : th[t].error}}
SentInv(t) == sent[t] \in Seq(Lines(t))

Inv ==
  /\ TypeInv /\ Disjoint /\ HeapInv
  /\ \A t \in Threads : CallInv(t) /\ GroupInv(t) /\ PartInv(t) /\ SentInv(t)
-----------------------------------------------------------------------------
(* Facts about the steps.                                                  *)

\* The end of a part, and what it leaves alone.
LEMMA PartDoneDoes ==
  ASSUME TypeInv, NEW t \in Threads, NEW ptr \in Groups \cup {None}, PartDone(t, ptr), th[t].i \in Index
  PROVE  /\ th' \in [Threads -> Local]
         /\ \A u \in Threads \ {t} : th'[u] = th[u]
         /\ th'[t].parts = [th[t].parts EXCEPT ![th[t].i] = ptr]
         /\ th'[t].jnl = None /\ th'[t].n = th[t].n
         /\ th'[t].op = th[t].op /\ th'[t].bad = th[t].bad /\ th'[t].level = th[t].level
         /\ th'[t].error = (th[t].error \/ ptr = None)
         /\ \/ th'[t].pc = "part"
            \/ th'[t].pc = "log" /\ \A j \in Index \ {th[t].i} : th[t].parts[j] # "todo"
         /\ UNCHANGED sent
<1> DEFINE ps == [th[t].parts EXCEPT ![th[t].i] = ptr]
           err == th[t].error \/ ptr = None
           go == IF \A j \in Index \ {th[t].i} : th[t].parts[j] # "todo" THEN "log" ELSE "part"
           c == [th[t] EXCEPT !.parts = ps, !.i = 0, !.jnl = None, !.error = err, !.pc = go]
<1>1. th[t] \in Local BY DEF TypeInv
<1>2. th' = [th EXCEPT ![t] = c]
  BY <1>1 DEF PartDone, TypeInv, Local
<1>3. ps \in [Index -> Groups \cup {None, "todo"}] BY <1>1 DEF Local
<1>4. err \in BOOLEAN BY Zenon
<1>5. go \in {"log", "part"} /\ (go = "log" => \A j \in Index \ {th[t].i} : th[t].parts[j] # "todo")
  OBVIOUS
<1> HIDE DEF ps, err, go
<1>6. /\ c \in Local /\ c.parts = ps /\ c.jnl = None /\ c.n = th[t].n /\ c.error = err /\ c.pc = go
      /\ c.op = th[t].op /\ c.bad = th[t].bad /\ c.level = th[t].level
  BY <1>1, <1>3, <1>4, <1>5 DEF Local
<1> HIDE DEF c
<1>7. th' \in [Threads -> Local] /\ th'[t] = c /\ \A u \in Threads \ {t} : th'[u] = th[u]
  BY <1>2, <1>6 DEF TypeInv
<1>8. UNCHANGED sent BY DEF PartDone
<1> QED BY <1>5, <1>6, <1>7, <1>8 DEF ps, err

\* What a step of t leaves alone: the other threads, and their buffers.
Others(t) == \A u \in Threads \ {t} :
  /\ toc'[u] = toc[u] /\ phase'[u] = phase[u] /\ call'[u] = call[u]
  /\ due'[u] = due[u] /\ answer'[u] = answer[u]
  /\ th'[u] = th[u] /\ sent'[u] = sent[u]
  /\ toc[u] \in Groups => text'[toc[u]] = text[toc[u]]

\* Then what holds of the other threads still does.
LEMMA OthersKept ==
  ASSUME Inv, NEW t \in Threads, Others(t), NEW u \in Threads \ {t}
  PROVE  CallInv(u)' /\ GroupInv(u)' /\ PartInv(u)' /\ SentInv(u)' /\ Mine(u)' = Mine(u)
<1>1. CallInv(u)' BY DEF Inv, Others, CallInv
<1>2. GroupInv(u)' BY DEF Inv, Others, GroupInv
<1>3. PartInv(u)' BY DEF Inv, Others, PartInv
<1>4. SentInv(u)' BY DEF Inv, Others, SentInv, Lines
<1>5. Mine(u)' = Mine(u) BY DEF Others, Mine
<1> QED BY <1>1, <1>2, <1>3, <1>4, <1>5

\* A step of t keeps the invariant if it keeps t's part of it and gives t no
\* group of another thread.
LEMMA StepKeepsInv ==
  ASSUME Inv, NEW t \in Threads, Others(t), TypeInv', HeapInv',
         CallInv(t)', GroupInv(t)', PartInv(t)', SentInv(t)',
         \A g \in Mine(t)' : g \in Mine(t) \/ \A u \in Threads : g \notin Mine(u)
  PROVE  Inv'
<1>1. Disjoint' BY OthersKept DEF Inv, Disjoint
<1> QED BY <1>1, OthersKept DEF Inv

\* The heap when a step of t neither allocates nor frees.
LEMMA HeapKept ==
  ASSUME Inv, NEW t \in Threads, Others(t), UNCHANGED heap, Mine(t)' = Mine(t),
         th'[t].pc = "inserted" => \A i \in Index : <<th'[t].jnl, i>> \in heap,
         toc'[t] \notin {None, toc[t]} => \A i \in Index \cup {0} : <<toc'[t], i>> \in heap
  PROVE  HeapInv'
<1>1. \A u \in Threads : Mine(u)' = Mine(u) BY OthersKept
<1>2. \A b \in heap' : \E u \in Threads : b[1] \in Mine(u)'
  BY <1>1 DEF Inv, HeapInv
<1>3. ASSUME NEW u \in Threads \ {t}
      PROVE  /\ toc'[u] # None => \A i \in Index \cup {0} : <<toc'[u], i>> \in heap'
             /\ th'[u].jnl # None => <<th'[u].jnl, 0>> \in heap'
             /\ th'[u].pc = "inserted" => \A i \in Index : <<th'[u].jnl, i>> \in heap'
  BY DEF Inv, HeapInv, Others
<1>4. toc'[t] # None => \A i \in Index \cup {0} : <<toc'[t], i>> \in heap'
  BY DEF Inv, HeapInv
<1>5. th'[t].jnl # None => <<th'[t].jnl, 0>> \in heap'
  <2>1. th'[t].jnl # None => th'[t].jnl \in {toc[t], th[t].jnl} \ {None} BY DEF Mine
  <2> QED BY <2>1 DEF Inv, HeapInv
<1> QED BY <1>2, <1>3, <1>4, <1>5 DEF HeapInv

\* The lines of a call stay true while no other call begins.
LEMMA SentKept ==
  ASSUME Inv, NEW t \in Threads, sent'[t] = sent[t], th'[t].n = th[t].n, th[t].error => th'[t].error
  PROVE  SentInv(t)'
<1>1. Lines(t) \subseteq Lines(t)' BY DEF Lines
<1>2. sent[t] \in Seq(Lines(t)) BY DEF Inv, SentInv
<1> QED BY <1>1, <1>2 DEF SentInv
-----------------------------------------------------------------------------
(* The steps.                                                              *)

\* A call begins.
LEMMA InvCall ==
  ASSUME Inv, NEW t \in Threads, NEW c \in Local, Call(t, c),
         c.pc \in {"log", "part"}, c.jnl = None, c.parts = NoParts
  PROVE  Inv'
<1> DEFINE d == [c EXCEPT !.n = calls + 1]
<1> USE JournalAssumption
<1>1. /\ th[t].pc = "idle" /\ calls < MaxCalls /\ calls' = calls + 1
      /\ th' = [th EXCEPT ![t] = d] /\ sent' = [sent EXCEPT ![t] = <<>>]
      /\ UNCHANGED <<toc, phase, call, due, answer, heap, text>>
  BY DEF Call, At, tocVars
<1>2. calls + 1 \in 0 .. MaxCalls BY <1>1 DEF Inv, TypeInv
<1>3. d \in Local /\ d.pc = c.pc /\ d.jnl = None /\ d.parts = NoParts BY <1>2 DEF Local
<1> HIDE DEF d
<1>4. th'[t] = d /\ (\A u \in Threads \ {t} : th'[u] = th[u]) /\ th' \in [Threads -> Local]
  BY <1>1, <1>3 DEF Inv, TypeInv
<1>5. TypeInv' BY <1>1, <1>2, <1>4 DEF Inv, TypeInv
<1>6. Others(t) BY <1>1, <1>4 DEF Inv, Others
<1>7. Mine(t)' = Mine(t) BY <1>1, <1>3, <1>4 DEF Mine, Inv, GroupInv
<1>8. HeapInv' BY <1>1, <1>3, <1>4, <1>6, <1>7, HeapKept
<1>9. CallInv(t)' BY <1>1, <1>3, <1>4 DEF Inv, CallInv
<1>10. GroupInv(t)' BY <1>3, <1>4 DEF GroupInv
<1>11. PartInv(t)' BY <1>3, <1>4 DEF PartInv, NoParts
<1>12. SentInv(t)'
  <2>1. sent'[t] = <<>> BY <1>1 DEF Inv, TypeInv
  <2> QED BY <2>1 DEF SentInv
<1> QED BY <1>5, <1>6, <1>7, <1>8, <1>9, <1>10, <1>11, <1>12, StepKeepsInv

\* The three kinds of calls.
LEMMA InvCalls ==
  ASSUME Inv, NEW t \in Threads, Log(t) \/ Diagnostic(t) \/ Result(t)
  PROVE  Inv'
<1> USE JournalAssumption
<1> DEFINE Fresh(c) == c \in Local /\ c.pc \in {"log", "part"} /\ c.jnl = None /\ c.parts = NoParts
<1>1. {DIAGNOSTIC, RESULT} \cup Levels \subseteq (-IntMax - 1) .. IntMax
  BY DEF DIAGNOSTIC, RESULT, ASSERTION
<1>2. Idle \in Local /\ Idle.jnl = None /\ Idle.parts = NoParts BY DEF Idle, Local, NoParts
<1>3. CASE Log(t)
  <2>1. PICK l \in Levels : Call(t, [Idle EXCEPT !.op = "log", !.pc = "log", !.level = l])
    BY <1>3 DEF Log
  <2>2. Fresh([Idle EXCEPT !.op = "log", !.pc = "log", !.level = l])
    BY <1>1, <1>2 DEF Local
  <2> QED BY <2>1, <2>2, InvCall
<1>4. CASE Diagnostic(t)
  <2>1. Call(t, [Idle EXCEPT !.op = "diagnostic", !.pc = "part", !.level = DIAGNOSTIC])
    BY <1>4 DEF Diagnostic
  <2>2. Fresh([Idle EXCEPT !.op = "diagnostic", !.pc = "part", !.level = DIAGNOSTIC])
    BY <1>1, <1>2 DEF Local
  <2> QED BY <2>1, <2>2, InvCall
<1>5. CASE Result(t)
  <2>1. PICK bad \in BOOLEAN :
          Call(t, [Idle EXCEPT !.op = "result", !.bad = bad, !.pc = IF bad THEN "part" ELSE "log",
                               !.level = IF bad THEN DIAGNOSTIC ELSE RESULT])
    BY <1>5 DEF Result
  <2>2. Fresh([Idle EXCEPT !.op = "result", !.bad = bad, !.pc = IF bad THEN "part" ELSE "log",
                           !.level = IF bad THEN DIAGNOSTIC ELSE RESULT])
    BY <1>1, <1>2 DEF Local
  <2> QED BY <2>1, <2>2, InvCall
<1> QED BY <1>3, <1>4, <1>5

\* A thread asks the table for its buffers.
LEMMA InvFetchLocate ==
  ASSUME Inv, NEW t \in Threads, FetchLocate(t)
  PROVE  Inv'
<1> USE JournalAssumption
<1>1. PICK i \in Index : th' = [th EXCEPT ![t].pc = "located", ![t].i = i]
  BY DEF FetchLocate
<1>2. /\ th[t].pc = "part" /\ phase[t] = "idle" /\ phase' = [phase EXCEPT ![t] = "called"]
      /\ \E c : call' = [call EXCEPT ![t] = c]
      /\ call'[t] = [op |-> "locate", key |-> t, data |-> None]
      /\ UNCHANGED <<toc, due, answer, heap, text, calls, sent>>
  BY DEF FetchLocate, At, Toc!Invoke
<1> DEFINE d == [th[t] EXCEPT !.pc = "located", !.i = i]
<1>3. th' = [th EXCEPT ![t] = d] BY <1>1 DEF Inv, TypeInv, Local
<1>4. th[t] \in Local BY DEF Inv, TypeInv
<1>5. /\ d \in Local /\ d.pc = "located" /\ d.i = i /\ d.jnl = th[t].jnl /\ d.n = th[t].n
      /\ d.parts = th[t].parts /\ d.error = th[t].error
  BY <1>4 DEF Local
<1> HIDE DEF d
<1>6. th'[t] = d /\ (\A u \in Threads \ {t} : th'[u] = th[u]) /\ th' \in [Threads -> Local]
  BY <1>3, <1>5 DEF Inv, TypeInv
<1>7. TypeInv' BY <1>2, <1>6 DEF Inv, TypeInv
<1>8. Others(t) BY <1>2, <1>6 DEF Inv, TypeInv, Others
<1>9. Mine(t)' = Mine(t) BY <1>2, <1>5, <1>6 DEF Mine
<1>10. HeapInv' BY <1>2, <1>5, <1>6, <1>8, <1>9, HeapKept
<1>11. CallInv(t)' BY <1>2, <1>5, <1>6 DEF Inv, TypeInv, CallInv
<1>12. GroupInv(t)' BY <1>2, <1>5, <1>6 DEF Inv, GroupInv
<1>13. PartInv(t)' BY <1>2, <1>5, <1>6 DEF Inv, PartInv
<1>14. SentInv(t)' BY <1>2, <1>5, <1>6, SentKept
<1> QED BY <1>7, <1>8, <1>9, <1>10, <1>11, <1>12, <1>13, <1>14, StepKeepsInv

\* The table decides a call of t's own id, or gives the answer.
LEMMA InvTable ==
  ASSUME Inv, NEW t \in Threads, Table(t)
  PROVE  Inv'
<1> USE JournalAssumption
<1>1. UNCHANGED <<heap, text, calls, th, sent, call>>
  BY DEF Table, TableLocates, TableInserts, TableAnswers, Toc!Locate, Toc!Insert, Toc!InsertNoMemory,
         Toc!Decide, Toc!GiveAnswer
<1>2. CASE Toc!Locate(t) \/ Toc!InsertNoMemory(t) \/ Toc!GiveAnswer(t)
  <2>1. UNCHANGED toc BY <1>2 DEF Toc!Locate, Toc!InsertNoMemory, Toc!GiveAnswer
  <2>2. /\ phase' \in [Threads -> {"idle", "called", "decided"}]
        /\ \A u \in Threads \ {t} : phase'[u] = phase[u] /\ due'[u] = due[u] /\ answer'[u] = answer[u]
        /\ DOMAIN due' = Threads /\ DOMAIN answer' = Threads
    BY <1>2 DEF Toc!Locate, Toc!InsertNoMemory, Toc!GiveAnswer, Toc!Decide, Inv, TypeInv
  <2>3. TypeInv' BY <1>1, <2>1, <2>2 DEF Inv, TypeInv
  <2>4. Others(t) BY <1>1, <2>1, <2>2 DEF Others
  <2>5. CallInv(t)'
    <3>1. CASE Toc!Locate(t)
      <4>1. th[t].pc = "located" /\ call[t].key = t
        BY <3>1 DEF Toc!Locate, Toc!Decide, Inv, CallInv
      <4>2. \/ phase'[t] = "decided" /\ due'[t].val = toc[t]
            \/ phase'[t] = "idle" /\ answer'[t].val = toc[t]
        BY <3>1, <4>1 DEF Toc!Locate, Toc!Decide, Toc!Answer, Inv, TypeInv
      <4> QED BY <1>1, <2>1, <4>1, <4>2, <3>1 DEF Toc!Locate, CallInv
    <3>2. CASE Toc!InsertNoMemory(t)
      <4>1. /\ th[t].pc = "inserted" /\ call[t].op = "insert" /\ call[t].key = t
            /\ call[t].data = th[t].jnl /\ toc[t] = None
        BY <3>2 DEF Toc!InsertNoMemory, Toc!Decide, Inv, CallInv
      <4>2. \/ phase'[t] = "decided" /\ due'[t].val # 0
            \/ phase'[t] = "idle" /\ answer'[t].val # 0
        BY <3>2 DEF Toc!InsertNoMemory, Toc!Decide, Toc!Answer, Inv, TypeInv
      <4> QED BY <1>1, <2>1, <4>1, <4>2 DEF CallInv
    <3>3. CASE Toc!GiveAnswer(t)
      <4>1. phase[t] = "decided" /\ phase'[t] = "idle" /\ answer'[t] = due[t]
        BY <3>3 DEF Toc!GiveAnswer, Inv, TypeInv
      <4> QED BY <1>1, <2>1, <4>1 DEF CallInv, Inv
    <3> QED BY <1>2, <3>1, <3>2, <3>3
  <2>6. GroupInv(t)' /\ PartInv(t)' /\ SentInv(t)' /\ Mine(t)' = Mine(t)
    <3>1. GroupInv(t)' BY <1>1, <2>1 DEF Inv, GroupInv
    <3>2. PartInv(t)' BY <1>1, <2>1 DEF Inv, PartInv
    <3>3. SentInv(t)' BY <1>1, SentKept
    <3>4. Mine(t)' = Mine(t) BY <1>1, <2>1 DEF Mine
    <3> QED BY <3>1, <3>2, <3>3, <3>4
  <2>7. HeapInv' BY <1>1, <2>1, <2>4, <2>6, HeapKept DEF Inv, HeapInv
  <2> QED BY <2>3, <2>4, <2>5, <2>6, <2>7, StepKeepsInv
<1>3. CASE Toc!Insert(t)
  <2>1. /\ phase[t] = "called" /\ call[t].op = "insert"
        /\ toc' = [toc EXCEPT ![call[t].key] = call[t].data]
    BY <1>3 DEF Toc!Insert, Toc!Decide
  <2>2. /\ th[t].pc = "inserted" /\ call[t].key = t /\ call[t].data = th[t].jnl /\ toc[t] = None
        /\ th[t].jnl \in Groups
    BY <2>1 DEF Inv, TypeInv, Local, CallInv, GroupInv
  <2>3. /\ toc'[t] = th[t].jnl /\ (\A u \in Threads \ {t} : toc'[u] = toc[u])
        /\ toc' \in [Threads -> Groups \cup {None}]
    BY <2>1, <2>2 DEF Inv, TypeInv
  <2>4. /\ phase' \in [Threads -> {"idle", "called", "decided"}]
        /\ \A u \in Threads \ {t} : phase'[u] = phase[u] /\ due'[u] = due[u] /\ answer'[u] = answer[u]
        /\ DOMAIN due' = Threads /\ DOMAIN answer' = Threads
        /\ \/ phase'[t] = "decided" /\ due'[t].val = 0
           \/ phase'[t] = "idle" /\ answer'[t].val = 0
    BY <1>3 DEF Toc!Insert, Toc!Decide, Toc!Answer, Inv, TypeInv
  <2>5. TypeInv' BY <1>1, <2>3, <2>4 DEF Inv, TypeInv
  <2>6. Others(t) BY <1>1, <2>3, <2>4 DEF Others
  <2>7. CallInv(t)' BY <1>1, <2>1, <2>2, <2>3, <2>4 DEF CallInv
  <2>8. GroupInv(t)' BY <1>1, <2>2 DEF Inv, GroupInv
  <2>9. PartInv(t)' BY <1>1, <2>2 DEF Inv, PartInv
  <2>10. SentInv(t)' BY <1>1, SentKept
  <2>11. Mine(t)' = Mine(t) BY <1>1, <2>2, <2>3 DEF Mine
  <2>12. HeapInv'
    BY <1>1, <2>2, <2>3, <2>6, <2>11, HeapKept DEF Inv, HeapInv
  <2> QED BY <2>5, <2>6, <2>7, <2>8, <2>9, <2>10, <2>11, <2>12, StepKeepsInv
<1> QED BY <1>2, <1>3 DEF Table, TableLocates, TableInserts, TableAnswers

\* The search has found the thread's buffers.
LEMMA InvFetchFound ==
  ASSUME Inv, NEW t \in Threads, FetchFound(t)
  PROVE  Inv'
<1> USE JournalAssumption
<1>1. /\ th[t].pc = "located" /\ phase[t] = "idle" /\ answer[t].val # None
      /\ th' = [th EXCEPT ![t].pc = "format", ![t].jnl = answer[t].val]
      /\ UNCHANGED <<toc, phase, call, due, answer, heap, text, calls, sent>>
  BY DEF FetchFound, Answered, At, tocVars
<1>2. answer[t].val = toc[t] /\ toc[t] \in Groups BY <1>1 DEF Inv, TypeInv, CallInv
<1> DEFINE d == [th[t] EXCEPT !.pc = "format", !.jnl = toc[t]]
<1>3. th' = [th EXCEPT ![t] = d] BY <1>1, <1>2 DEF Inv, TypeInv, Local
<1>4. th[t] \in Local BY DEF Inv, TypeInv
<1>5. /\ d \in Local /\ d.pc = "format" /\ d.i = th[t].i /\ d.jnl = toc[t] /\ d.n = th[t].n
      /\ d.parts = th[t].parts /\ d.error = th[t].error
  BY <1>2, <1>4 DEF Local
<1> HIDE DEF d
<1>6. th'[t] = d /\ (\A u \in Threads \ {t} : th'[u] = th[u]) /\ th' \in [Threads -> Local]
  BY <1>3, <1>5 DEF Inv, TypeInv
<1>7. TypeInv' BY <1>1, <1>6 DEF Inv, TypeInv
<1>8. Others(t) BY <1>1, <1>6 DEF Others
<1>9. Mine(t)' = Mine(t) BY <1>1, <1>2, <1>5, <1>6 DEF Mine, Inv, GroupInv
<1>10. HeapInv' BY <1>1, <1>5, <1>6, <1>8, <1>9, HeapKept
<1>11. CallInv(t)' BY <1>1, <1>5, <1>6 DEF CallInv
<1>12. GroupInv(t)' BY <1>1, <1>2, <1>5, <1>6 DEF Inv, GroupInv
<1>13. PartInv(t)' BY <1>1, <1>5, <1>6 DEF Inv, PartInv
<1>14. SentInv(t)' BY <1>1, <1>5, <1>6, SentKept
<1> QED BY <1>7, <1>8, <1>9, <1>10, <1>11, <1>12, <1>13, <1>14, StepKeepsInv

\* A part has been written, or could not be.
LEMMA InvPartDone ==
  ASSUME Inv, NEW t \in Threads, NEW ptr \in Groups \cup {None}, PartDone(t, ptr),
         th[t].pc \in {"located", "check", "inserted", "format"}, phase[t] = "idle",
         UNCHANGED <<toc, phase, call, due, answer, calls>>,
         text' \in [Groups -> [Index -> 0 .. MaxCalls]],
         \A g \in Groups \ {toc[t]} : text'[g] = text[g],
         \A i \in Index \ {th[t].i} : toc[t] \in Groups => text'[toc[t]][i] = text[toc[t]][i],
         ptr # None => ptr = toc[t] /\ text'[toc[t]][th[t].i] = th[t].n,
         heap' \subseteq Groups \X (Index \cup {0}),
         \/ UNCHANGED heap /\ th[t].jnl \in {None, toc[t]}
         \/ FreeGroup(th[t].jnl) /\ th[t].jnl # None /\ toc[t] = None
  PROVE  Inv'
<1> USE JournalAssumption
<1>1. th[t].i \in Index BY DEF Inv, GroupInv
<1>2. /\ th' \in [Threads -> Local]
      /\ \A u \in Threads \ {t} : th'[u] = th[u]
      /\ th'[t].parts = [th[t].parts EXCEPT ![th[t].i] = ptr]
      /\ th'[t].jnl = None /\ th'[t].n = th[t].n
      /\ th'[t].error = (th[t].error \/ ptr = None)
      /\ \/ th'[t].pc = "part"
         \/ th'[t].pc = "log" /\ \A j \in Index \ {th[t].i} : th[t].parts[j] # "todo"
      /\ UNCHANGED sent
  BY <1>1, PartDoneDoes DEF Inv
<1>12. th[t].error => th'[t].error BY <1>2, Zenon
<1>3. TypeInv' BY <1>2 DEF Inv, TypeInv
<1>4. Others(t)
  <2>1. ASSUME NEW u \in Threads \ {t}, toc[u] \in Groups PROVE toc[u] # toc[t]
    <3>1. toc[u] \in Mine(u) BY <2>1 DEF Mine
    <3>2. toc[u] \notin Mine(t) BY <3>1 DEF Inv, Disjoint
    <3> QED BY <2>1, <3>2 DEF Mine
  <2> QED BY <1>2, <2>1 DEF Others
<1>5. CallInv(t)' BY <1>2 DEF CallInv
<1>6. th[t].parts \in [Index -> Groups \cup {None, "todo"}] BY DEF Inv, TypeInv, Local
<1>7. GroupInv(t)' BY <1>1, <1>2, <1>6 DEF GroupInv
<1>8. PartInv(t)'
  <2> SUFFICES ASSUME NEW i \in Index
               PROVE  /\ th'[t].parts[i] \in Groups => toc'[t] = th'[t].parts[i] /\ text'[toc'[t]][i] = th'[t].n
                      /\ th'[t].parts[i] = None => th'[t].error
    BY DEF PartInv
  <2>1. CASE i = th[t].i BY <1>1, <1>2, <1>6, <2>1
  <2>2. CASE i # th[t].i
    <3>1. th'[t].parts[i] = th[t].parts[i] BY <1>1, <1>2, <1>6, <2>2
    <3>2. th[t].parts[i] = None => th[t].error BY DEF Inv, PartInv
    <3>3. th[t].parts[i] \in Groups => toc[t] = th[t].parts[i] /\ text[toc[t]][i] = th[t].n
      BY DEF Inv, PartInv
    <3> QED BY <1>2, <1>12, <2>2, <3>1, <3>2, <3>3
  <2> QED BY <2>1, <2>2
<1>9. SentInv(t)' BY <1>2, <1>12, SentKept
<1>10. Mine(t)' \subseteq Mine(t) BY <1>2 DEF Mine
<1>11. HeapInv'
  <2>1. CASE UNCHANGED heap /\ th[t].jnl \in {None, toc[t]}
    <3>1. Mine(t)' = Mine(t) BY <1>2, <2>1 DEF Mine
    <3> QED BY <1>2, <1>4, <2>1, <3>1, HeapKept
  <2>2. CASE FreeGroup(th[t].jnl) /\ th[t].jnl # None /\ toc[t] = None
    <3>1. heap' = {b \in heap : b[1] # th[t].jnl} BY <2>2 DEF FreeGroup
    <3>2. Mine(t) = {th[t].jnl} /\ Mine(t)' = {} BY <1>2, <2>2 DEF Mine
    <3>3. \A u \in Threads \ {t} : Mine(u)' = Mine(u) /\ th[t].jnl \notin Mine(u)
      BY <1>4, <3>2, OthersKept DEF Inv, Disjoint
    <3>4. \A b \in heap' : \E u \in Threads : b[1] \in Mine(u)'
      BY <3>1, <3>2, <3>3 DEF Inv, HeapInv
    <3>5. ASSUME NEW u \in Threads \ {t}
          PROVE  /\ toc'[u] # None => \A i \in Index \cup {0} : <<toc'[u], i>> \in heap'
                 /\ th'[u].jnl # None => <<th'[u].jnl, 0>> \in heap'
                 /\ th'[u].pc = "inserted" => \A i \in Index : <<th'[u].jnl, i>> \in heap'
      <4>1. toc[u] # th[t].jnl /\ th[u].jnl # th[t].jnl BY <2>2, <3>3 DEF Mine
      <4> QED BY <1>2, <3>1, <4>1 DEF Inv, HeapInv
    <3> QED BY <1>2, <2>2, <3>4, <3>5 DEF HeapInv
  <2> QED BY <2>1, <2>2
<1> QED BY <1>3, <1>4, <1>5, <1>7, <1>8, <1>9, <1>10, <1>11, StepKeepsInv

\* The search has found nothing: a group is allocated, as far as there is memory.
LEMMA InvFetchAllocate ==
  ASSUME Inv, NEW t \in Threads, FetchAllocate(t)
  PROVE  Inv'
<1> USE JournalAssumption
<1>1. /\ th[t].pc = "located" /\ phase[t] = "idle" /\ answer[t].val = None
      /\ UNCHANGED <<toc, phase, call, due, answer, text, calls>>
  BY DEF FetchAllocate, Answered, At, tocVars
<1>2. toc[t] = None /\ th[t].jnl = None BY <1>1 DEF Inv, CallInv, GroupInv
<1>3. ASSUME NEW g \in Groups, NEW some \in SUBSET Index, \A b \in heap : b[1] # g,
             heap' = heap \cup ({g} \X ({0} \cup some)),
             th' = [th EXCEPT ![t].pc = "check", ![t].jnl = g], UNCHANGED sent
      PROVE  Inv'
  <2> DEFINE d == [th[t] EXCEPT !.pc = "check", !.jnl = g]
  <2>1. th' = [th EXCEPT ![t] = d] BY <1>3 DEF Inv, TypeInv, Local
  <2>2. th[t] \in Local BY DEF Inv, TypeInv
  <2>3. /\ d \in Local /\ d.pc = "check" /\ d.i = th[t].i /\ d.jnl = g /\ d.n = th[t].n
        /\ d.parts = th[t].parts /\ d.error = th[t].error
    BY <2>2 DEF Local
  <2> HIDE DEF d
  <2>4. th'[t] = d /\ (\A u \in Threads \ {t} : th'[u] = th[u]) /\ th' \in [Threads -> Local]
    BY <2>1, <2>3 DEF Inv, TypeInv
  <2>5. TypeInv' BY <1>1, <1>3, <2>4 DEF Inv, TypeInv
  <2>6. Others(t) BY <1>1, <1>3, <2>4 DEF Others
  <2>7. Mine(t)' = {g} BY <1>1, <1>2, <2>3, <2>4 DEF Mine
  <2>8. ASSUME NEW u \in Threads, g \in Mine(u) PROVE FALSE
    <3>1. <<g, 0>> \in heap BY <2>8 DEF Inv, HeapInv, Mine
    <3> QED BY <1>3, <3>1
  <2>9. HeapInv'
    <3>1. \A b \in heap' : \E u \in Threads : b[1] \in Mine(u)'
      <4>1. \A u \in Threads \ {t} : Mine(u)' = Mine(u) BY <2>6, OthersKept
      <4>2. Mine(t) = {} BY <1>2 DEF Mine
      <4>3. ASSUME NEW b \in heap PROVE \E u \in Threads : b[1] \in Mine(u)'
        BY <4>1, <4>2 DEF Inv, HeapInv
      <4>4. \A b \in {g} \X ({0} \cup some) : b[1] \in Mine(t)' BY <2>7
      <4> QED BY <1>3, <4>3, <4>4
    <3>2. heap \subseteq heap' /\ <<g, 0>> \in heap' BY <1>3
    <3> QED BY <1>1, <1>2, <2>3, <2>4, <3>1, <3>2 DEF Inv, HeapInv
  <2>10. CallInv(t)' BY <1>1, <2>3, <2>4 DEF CallInv
  <2>11. GroupInv(t)' BY <1>1, <1>2, <2>3, <2>4 DEF Inv, GroupInv
  <2>12. PartInv(t)' BY <1>1, <2>3, <2>4 DEF Inv, PartInv
  <2>13. SentInv(t)' BY <1>3, <2>3, <2>4, SentKept
  <2> QED BY <2>5, <2>6, <2>7, <2>8, <2>9, <2>10, <2>11, <2>12, <2>13, StepKeepsInv
<1> QED BY <1>3 DEF FetchAllocate

\* No group can be had.
LEMMA InvFetchFails ==
  ASSUME Inv, NEW t \in Threads, FetchFails(t)
  PROVE  Inv'
<1>1. /\ th[t].pc = "located" /\ phase[t] = "idle" /\ PartDone(t, None)
      /\ UNCHANGED <<toc, phase, call, due, answer, heap, text, calls>>
  BY DEF FetchFails, Answered, At, tocVars
<1>2. th[t].jnl = None BY <1>1 DEF Inv, GroupInv
<1> QED BY <1>1, <1>2, JournalAssumption, InvPartDone DEF Inv, TypeInv

\* The group is inserted if it is complete, and else freed.
LEMMA InvFetchInsert ==
  ASSUME Inv, NEW t \in Threads, FetchInsert(t)
  PROVE  Inv'
<1> USE JournalAssumption
<1> DEFINE g == th[t].jnl
<1>1. th[t].pc = "check" /\ UNCHANGED <<text, calls>> BY DEF FetchInsert, At
<1>2. toc[t] = None /\ g \in Groups /\ phase[t] = "idle"
  BY <1>1 DEF Inv, TypeInv, Local, GroupInv, CallInv
<1>3. CASE /\ {g} \X Index \subseteq heap
           /\ th' = [th EXCEPT ![t].pc = "inserted"]
           /\ Toc!Invoke(t)
           /\ call'[t] = [op |-> "insert", key |-> t, data |-> g]
           /\ UNCHANGED <<heap, sent>>
  <2>1. /\ phase' = [phase EXCEPT ![t] = "called"]
        /\ \E c : call' = [call EXCEPT ![t] = c]
        /\ UNCHANGED <<toc, due, answer>>
    BY <1>3 DEF Toc!Invoke
  <2> DEFINE d == [th[t] EXCEPT !.pc = "inserted"]
  <2>2. th[t] \in Local BY DEF Inv, TypeInv
  <2>3. /\ d \in Local /\ d.pc = "inserted" /\ d.i = th[t].i /\ d.jnl = g /\ d.n = th[t].n
        /\ d.parts = th[t].parts /\ d.error = th[t].error
    BY <2>2 DEF Local
  <2>4. th' = [th EXCEPT ![t] = d] BY <1>3 DEF Inv, TypeInv, Local
  <2> HIDE DEF d
  <2>5. th'[t] = d /\ (\A u \in Threads \ {t} : th'[u] = th[u]) /\ th' \in [Threads -> Local]
    BY <2>3, <2>4 DEF Inv, TypeInv
  <2>6. TypeInv' BY <1>1, <1>3, <2>1, <2>5 DEF Inv, TypeInv
  <2>7. Others(t) BY <1>1, <1>3, <2>1, <2>5 DEF Inv, TypeInv, Others
  <2>8. Mine(t)' = Mine(t) BY <2>1, <2>3, <2>5 DEF Mine
  <2>9. HeapInv'
    <3>1. \A i \in Index : <<g, i>> \in heap BY <1>3
    <3> QED BY <1>3, <2>1, <2>3, <2>5, <2>7, <2>8, <3>1, HeapKept
  <2>10. CallInv(t)' BY <1>2, <1>3, <2>1, <2>3, <2>5 DEF Inv, TypeInv, CallInv
  <2>11. GroupInv(t)' BY <1>1, <1>2, <2>3, <2>5 DEF Inv, GroupInv
  <2>12. PartInv(t)' BY <1>1, <2>1, <2>3, <2>5 DEF Inv, PartInv
  <2>13. SentInv(t)' BY <1>3, <2>3, <2>5, SentKept
  <2> QED BY <2>6, <2>7, <2>8, <2>9, <2>10, <2>11, <2>12, <2>13, StepKeepsInv
<1>4. CASE FreeGroup(g) /\ PartDone(t, None) /\ UNCHANGED tocVars
  <2>1. heap' \subseteq Groups \X (Index \cup {0}) BY <1>4 DEF FreeGroup, Inv, TypeInv
  <2>2. UNCHANGED <<toc, phase, call, due, answer>> BY <1>4 DEF tocVars
  <2> QED BY <1>1, <1>2, <1>4, <2>1, <2>2, InvPartDone DEF Inv, TypeInv
<1> QED BY <1>3, <1>4 DEF FetchInsert

\* The table has taken the group, or has not, and then it is freed.
LEMMA InvFetchInserted ==
  ASSUME Inv, NEW t \in Threads, FetchInserted(t)
  PROVE  Inv'
<1> USE JournalAssumption
<1>1. /\ th[t].pc = "inserted" /\ phase[t] = "idle"
      /\ UNCHANGED <<toc, phase, call, due, answer, text, calls>>
  BY DEF FetchInserted, Answered, At, tocVars
<1>2. th[t].jnl \in Groups /\ toc[t] = IF answer[t].val = 0 THEN th[t].jnl ELSE None
  BY <1>1 DEF Inv, TypeInv, Local, GroupInv, CallInv
<1>3. CASE /\ answer[t].val = 0
           /\ th' = [th EXCEPT ![t].pc = "format"]
           /\ UNCHANGED <<heap, sent>>
  <2> DEFINE d == [th[t] EXCEPT !.pc = "format"]
  <2>1. th[t] \in Local BY DEF Inv, TypeInv
  <2>2. /\ d \in Local /\ d.pc = "format" /\ d.i = th[t].i /\ d.jnl = th[t].jnl /\ d.n = th[t].n
        /\ d.parts = th[t].parts /\ d.error = th[t].error
    BY <2>1 DEF Local
  <2>3. th' = [th EXCEPT ![t] = d] BY <1>3 DEF Inv, TypeInv, Local
  <2> HIDE DEF d
  <2>4. th'[t] = d /\ (\A u \in Threads \ {t} : th'[u] = th[u]) /\ th' \in [Threads -> Local]
    BY <2>2, <2>3 DEF Inv, TypeInv
  <2>5. TypeInv' BY <1>1, <1>3, <2>4 DEF Inv, TypeInv
  <2>6. Others(t) BY <1>1, <1>3, <2>4 DEF Others
  <2>7. Mine(t)' = Mine(t) BY <1>1, <2>2, <2>4 DEF Mine
  <2>8. HeapInv' BY <1>1, <1>3, <2>2, <2>4, <2>6, <2>7, HeapKept
  <2>9. CallInv(t)' BY <1>1, <2>2, <2>4 DEF CallInv
  <2>10. GroupInv(t)' BY <1>1, <1>2, <1>3, <2>2, <2>4 DEF Inv, GroupInv
  <2>11. PartInv(t)' BY <1>1, <2>2, <2>4 DEF Inv, PartInv
  <2>12. SentInv(t)' BY <1>3, <2>2, <2>4, SentKept
  <2> QED BY <2>5, <2>6, <2>7, <2>8, <2>9, <2>10, <2>11, <2>12, StepKeepsInv
<1>4. CASE answer[t].val # 0 /\ PartDone(t, None) /\ FreeGroup(th[t].jnl)
  <2>1. heap' \subseteq Groups \X (Index \cup {0}) BY <1>4 DEF FreeGroup, Inv, TypeInv
  <2> QED BY <1>1, <1>2, <1>4, <2>1, InvPartDone DEF Inv, TypeInv
<1> QED BY <1>3, <1>4 DEF FetchInserted

\* The part is written into its buffer, or the format is refused.
LEMMA InvFormatMessage ==
  ASSUME Inv, NEW t \in Threads, FormatMessage(t)
  PROVE  Inv'
<1> USE JournalAssumption
<1> DEFINE g == th[t].jnl
           i == th[t].i
<1>1. /\ th[t].pc = "format"
      /\ UNCHANGED <<toc, phase, call, due, answer, heap, calls>>
  BY DEF FormatMessage, At, tocVars
<1>2. /\ g \in Groups /\ toc[t] = g /\ i \in Index /\ phase[t] = "idle" /\ th[t].n \in 0 .. MaxCalls
      /\ heap \subseteq Groups \X (Index \cup {0})
      /\ text \in [Groups -> [Index -> 0 .. MaxCalls]]
  BY <1>1 DEF Inv, TypeInv, Local, GroupInv, CallInv
<1> HIDE DEF g, i
<1>3. CASE text' = [text EXCEPT ![g][i] = th[t].n] /\ PartDone(t, g)
  <2>1. /\ text' \in [Groups -> [Index -> 0 .. MaxCalls]]
        /\ \A h \in Groups \ {toc[t]} : text'[h] = text[h]
        /\ \A j \in Index \ {i} : text'[toc[t]][j] = text[toc[t]][j]
        /\ text'[toc[t]][i] = th[t].n
    BY <1>2, <1>3
  <2> QED BY <1>1, <1>2, <1>3, <2>1, InvPartDone DEF g, i
<1>4. CASE UNCHANGED text /\ PartDone(t, None)
  BY <1>1, <1>2, <1>4, InvPartDone DEF g, i
<1> QED BY <1>3, <1>4 DEF FormatMessage, g, i

\* A message has been logged, or not.
LEMMA InvReturn ==
  ASSUME Inv, NEW t \in Threads, NEW r \in {0, -1}, NEW lines \in Seq(Lines(t)), Return(t, r, lines),
         th[t].pc = "log", UNCHANGED <<toc, phase, call, due, answer, heap, text, calls>>
  PROVE  Inv'
<1> USE JournalAssumption
<1> DEFINE c == th[t]
           err == c.error \/ r # 0
           d == [c EXCEPT !.parts = NoParts, !.error = err]
           e1 == [d EXCEPT !.level = RESULT]
           back == IF c.bad THEN -1 ELSE r
           e2 == [d EXCEPT !.pc = "idle", !.ret = back]
<1>1. c \in Local BY DEF Inv, TypeInv
<1>2. /\ th' = [th EXCEPT ![t] = IF c.bad /\ c.level = DIAGNOSTIC THEN e1 ELSE e2]
      /\ sent' = [sent EXCEPT ![t] = @ \o lines]
  BY DEF Return
<1>3. err \in BOOLEAN /\ (c.error => err) BY Zenon
<1>4. RESULT \in (-IntMax - 1) .. IntMax /\ back \in Int BY DEF RESULT, ASSERTION
<1>5. NoParts \in [Index -> Groups \cup {None, "todo"}] BY DEF NoParts
<1> HIDE DEF c, err, back
<1>6. /\ d \in Local /\ d.pc = c.pc /\ d.jnl = c.jnl /\ d.n = c.n /\ d.parts = NoParts /\ d.error = err
  BY <1>1, <1>3, <1>5 DEF Local
<1> HIDE DEF d
<1>7. /\ e1 \in Local /\ e1.pc = c.pc /\ e1.jnl = c.jnl /\ e1.n = c.n /\ e1.parts = NoParts
      /\ e1.error = err
  BY <1>4, <1>6 DEF Local
<1>8. /\ e2 \in Local /\ e2.pc = "idle" /\ e2.jnl = c.jnl /\ e2.n = c.n /\ e2.parts = NoParts
      /\ e2.error = err
  BY <1>4, <1>6 DEF Local
<1> HIDE DEF e1, e2
<1>9. /\ th'[t] \in {e1, e2} /\ (\A u \in Threads \ {t} : th'[u] = th[u])
      /\ th' \in [Threads -> Local]
  BY <1>2, <1>7, <1>8 DEF Inv, TypeInv
<1>10. /\ th'[t].pc \in {"log", "idle"} /\ th'[t].jnl = th[t].jnl /\ th'[t].n = th[t].n
       /\ th'[t].parts = NoParts /\ (th[t].error => th'[t].error)
  BY <1>3, <1>7, <1>8, <1>9 DEF c
<1>11. TypeInv' BY <1>2, <1>9 DEF Inv, TypeInv
<1>12. Others(t) BY <1>2, <1>9 DEF Inv, TypeInv, Others
<1>13. Mine(t)' = Mine(t) BY <1>10 DEF Mine
<1>14. HeapInv' BY <1>10, <1>12, <1>13, HeapKept
<1>15. CallInv(t)' BY <1>10 DEF Inv, CallInv
<1>16. GroupInv(t)' BY <1>10 DEF Inv, GroupInv
<1>17. PartInv(t)' BY <1>10 DEF PartInv, NoParts
<1>18. SentInv(t)'
  <2>1. Lines(t) \subseteq Lines(t)' BY <1>10 DEF Lines
  <2>2. sent[t] \in Seq(Lines(t)) BY DEF Inv, SentInv
  <2>3. sent'[t] = sent[t] \o lines BY <1>2 DEF Inv, TypeInv
  <2>4. sent[t] \o lines \in Seq(Lines(t)) BY <2>2
  <2> QED BY <2>1, <2>3, <2>4 DEF SentInv
<1> QED BY <1>11, <1>12, <1>13, <1>14, <1>15, <1>16, <1>17, <1>18, StepKeepsInv

\* The text of a message: its parts are the caller's, or NULL.
LEMMA BodyLines ==
  ASSUME Inv, NEW t \in Threads, th[t].pc = "log"
  PROVE  Body(t) \in Seq(Lines(t))
<1> USE JournalAssumption
<1>1. CASE th[t].parts = NoParts
  <2>1. Text(th[t].n) \in Lines(t) BY DEF Lines
  <2> QED BY <1>1, <2>1 DEF Body
<1>2. CASE th[t].parts # NoParts
  <2>1. Body(t) = [i \in Index |-> IF th[t].parts[i] = None THEN NullPart(i)
                                   ELSE Part(i, text[th[t].parts[i]][i])]
    BY <1>2 DEF Body
  <2>2. ASSUME NEW i \in Index
        PROVE  (IF th[t].parts[i] = None THEN NullPart(i) ELSE Part(i, text[th[t].parts[i]][i]))
                 \in Lines(t)
    <3>1. th[t].parts[i] \in Groups \cup {None}
      BY <1>2 DEF Inv, TypeInv, Local, GroupInv
    <3>2. CASE th[t].parts[i] = None
      <4>1. th[t].error BY <3>2 DEF Inv, PartInv
      <4> QED BY <3>2, <4>1 DEF Lines
    <3>3. CASE th[t].parts[i] \in Groups
      <4>1. text[th[t].parts[i]][i] = th[t].n BY <3>3 DEF Inv, PartInv
      <4> QED BY <3>3, <4>1 DEF Lines
    <3> QED BY <3>1, <3>2, <3>3
  <2> QED BY <2>1, <2>2 DEF Index
<1> QED BY <1>1, <1>2

\* The message is committed, is of too high a level, or is refused.
LEMMA InvLog ==
  ASSUME Inv, NEW t \in Threads, LogTooHigh(t) \/ LogCommit(t) \/ LogFails(t)
  PROVE  Inv'
<1>1. th[t].pc = "log" /\ UNCHANGED <<toc, phase, call, due, answer, heap, text, calls>>
  BY DEF LogTooHigh, LogCommit, LogFails, At, tocVars
<1>2. CASE LogTooHigh(t) \/ LogFails(t)
  <2>1. PICK r \in {0, -1} : Return(t, r, <<>>) BY <1>2 DEF LogTooHigh, LogFails
  <2>2. <<>> \in Seq(Lines(t)) OBVIOUS
  <2> QED BY <1>1, <2>1, <2>2, InvReturn
<1>3. CASE LogCommit(t)
  <2> DEFINE l == dl_description_fetch(th[t].level)
             exact == l = th[t].level
             lines == <<Header(l, exact)>> \o Body(t) \o <<Blank>>
  <2>1. Return(t, 0, lines) BY <1>3 DEF LogCommit
  <2>2. exact \in BOOLEAN BY Zenon
  <2>3. th[t].level \in (-IntMax - 1) .. IntMax BY DEF Inv, TypeInv, Local
  <2> HIDE DEF exact
  <2>4. Header(l, exact) \in Lines(t) /\ Blank \in Lines(t) BY <2>2, <2>3 DEF Lines
  <2>5. Body(t) \in Seq(Lines(t)) BY <1>1, BodyLines
  <2> HIDE DEF l
  <2>6. lines \in Seq(Lines(t)) BY <2>4, <2>5
  <2> QED BY <1>1, <2>1, <2>6, InvReturn
<1> QED BY <1>2, <1>3
-----------------------------------------------------------------------------
(* The theorems.                                                           *)

\* Before main nothing is allocated and no thread is in a call.
LEMMA InvInit ==
  ASSUME Init
  PROVE  Inv
<1> USE JournalAssumption
<1>1. /\ toc = [t \in Threads |-> None] /\ phase = [t \in Threads |-> "idle"]
      /\ DOMAIN call = Threads /\ DOMAIN due = Threads /\ DOMAIN answer = Threads
      /\ heap = {} /\ text = [g \in Groups |-> [i \in Index |-> 0]] /\ calls = 0
      /\ th = [t \in Threads |-> Idle] /\ sent = [t \in Threads |-> <<>>]
  BY DEF Init, Toc!Init
<1>2. /\ Idle \in Local /\ Idle.pc = "idle" /\ Idle.jnl = None /\ Idle.parts = NoParts
  BY DEF Idle, Local, NoParts
<1>3. TypeInv BY <1>1, <1>2 DEF TypeInv
<1>4. \A t \in Threads : Mine(t) = {} BY <1>1, <1>2 DEF Mine
<1>5. Disjoint BY <1>4 DEF Disjoint
<1>6. HeapInv BY <1>1, <1>2 DEF HeapInv
<1>7. ASSUME NEW t \in Threads PROVE CallInv(t) /\ GroupInv(t) /\ PartInv(t) /\ SentInv(t)
  <2>1. CallInv(t) BY <1>1, <1>2 DEF CallInv
  <2>2. GroupInv(t) BY <1>1, <1>2 DEF GroupInv
  <2>3. PartInv(t) BY <1>1, <1>2 DEF PartInv, NoParts
  <2>4. SentInv(t) BY <1>1 DEF SentInv
  <2> QED BY <2>1, <2>2, <2>3, <2>4
<1> QED BY <1>3, <1>5, <1>6, <1>7 DEF Inv

\* A step that only concerns the process.
LEMMA InvProcess ==
  ASSUME Inv, UNCHANGED threadVars
  PROVE  Inv'
<1>1. UNCHANGED <<toc, phase, call, due, answer, heap, text, calls, th, sent>> BY DEF threadVars
<1>2. TypeInv' BY <1>1 DEF Inv, TypeInv
<1>3. Disjoint' BY <1>1 DEF Inv, Disjoint, Mine
<1>4. HeapInv' BY <1>1 DEF Inv, HeapInv, Mine
<1>5. ASSUME NEW t \in Threads PROVE CallInv(t)' /\ GroupInv(t)' /\ PartInv(t)' /\ SentInv(t)'
  <2>1. CallInv(t)' BY <1>1 DEF Inv, CallInv
  <2>2. GroupInv(t)' BY <1>1 DEF Inv, GroupInv
  <2>3. PartInv(t)' BY <1>1 DEF Inv, PartInv
  <2>4. SentInv(t)' BY <1>1, SentKept
  <2> QED BY <2>1, <2>2, <2>3, <2>4
<1> QED BY <1>2, <1>3, <1>4, <1>5 DEF Inv

\* Every step keeps the invariant.
LEMMA InvNext ==
  ASSUME Inv, [Next]_vars
  PROVE  Inv'
<1>1. CASE jnl_init BY <1>1, InvProcess DEF jnl_init
<1>2. ASSUME NEW t \in Threads, Log(t) \/ Diagnostic(t) \/ Result(t) PROVE Inv' BY <1>2, InvCalls
<1>3. ASSUME NEW t \in Threads, Step(t) PROVE Inv'
  <2>1. CASE LogNull(t) BY <2>1, InvProcess DEF LogNull, threadVars, tocVars
  <2> QED BY <1>3, <2>1, InvTable, InvFetchLocate, InvFetchAllocate, InvFetchFails, InvFetchInsert, InvFetchInserted,
             InvFetchFound, InvFormatMessage, InvLog DEF Step
<1>4. CASE UNCHANGED vars BY <1>4, InvProcess DEF vars, threadVars
<1> QED BY <1>1, <1>2, <1>3, <1>4 DEF Next

\* The invariant holds in every behaviour.
THEOREM Invariance == Spec => []Inv
BY InvInit, InvNext, PTL DEF Spec

\* A thread that inserts its buffers does so under an id that is not in the
\* table, although its search and its insertion are two calls.
THEOREM InsertionsAreNew == Spec => []InsertsAreNew
<1>1. ASSUME Inv PROVE InsertsAreNew
  <2> SUFFICES ASSUME NEW t \in Threads, phase[t] = "called", call[t].op = "insert"
               PROVE  toc[call[t].key] = None
    BY DEF InsertsAreNew
  <2> QED BY <1>1 DEF Inv, CallInv
<1> QED BY <1>1, Invariance, PTL

\* _jnl_buffer_fetch leaks no block, on whichever path it fails, and gives no
\* two threads the same buffers.
THEOREM NothingIsLeaked == Spec => []NothingLeaked
<1>1. ASSUME Inv PROVE NothingLeaked
  <2> DEFINE InTable == {toc[t] : t \in Threads} \ {None}
             Held == {th[t].jnl : t \in Threads} \ {None}
  <2>1. \A b \in heap : b[1] \in InTable \cup Held BY <1>1 DEF Inv, HeapInv, Mine
  <2>2. InTable \X (Index \cup {0}) \subseteq heap
    <3> SUFFICES ASSUME NEW g \in InTable, NEW i \in Index \cup {0} PROVE <<g, i>> \in heap
      OBVIOUS
    <3> QED BY <1>1 DEF Inv, HeapInv
  <2>3. \A t, u \in Threads : t # u => toc[t] # toc[u] \/ toc[t] = None
    BY <1>1 DEF Inv, Disjoint, Mine
  <2> QED BY <2>1, <2>2, <2>3 DEF NothingLeaked
<1> QED BY <1>1, Invariance, PTL

\* The parts of a diagnostic in the journal are those its caller wrote, whatever
\* the other threads write meanwhile and in whatever order C evaluates them.
THEOREM PartsAreTheCallers == Spec => []PartsAreOwn
<1>1. ASSUME Inv PROVE PartsAreOwn
  <2> SUFFICES ASSUME NEW t \in Threads, NEW k \in DOMAIN sent[t], sent[t][k][1] = "part"
               PROVE  /\ sent[t][k][3] \in {th[t].n, None}
                      /\ sent[t][k][3] = None => th[t].error
    BY DEF PartsAreOwn
  <2>1. sent[t][k] \in Lines(t) BY <1>1 DEF Inv, SentInv
  <2>2. th[t].n # None BY <1>1, JournalAssumption DEF Inv, TypeInv, Local
  <2>3. \/ \E i \in Index : sent[t][k] = Part(i, th[t].n)
        \/ \E i \in Index : sent[t][k] = NullPart(i) /\ th[t].error
    BY <2>1 DEF Lines, Header, Text, Blank
  <2> QED BY <2>2, <2>3 DEF Part, NullPart
<1> QED BY <1>1, Invariance, PTL

-----------------------------------------------------------------------------
(* The searches of the two tables of detail levels.                        *)

\* One turn of each loop, or none once the entry is found.
DescriptionGoes(s, l) == IF s.found THEN s ELSE DescriptionTurn(s, l)
LevelGoes(s, w) == IF s.found THEN s ELSE LevelTurn(s, w)

\* jnl_dl_description_fetch returns what it finds within four turns.
LEMMA DescriptionEnds ==
  ASSUME NEW l, NEW a, NEW b, NEW c, NEW d,
         DescriptionGoes(Middle, l) = a, DescriptionGoes(a, l) = b,
         DescriptionGoes(b, l) = c, DescriptionGoes(c, l) = d,
         d.found
  PROVE  Search(DescriptionTurn, l) = d
<1> DEFINE D(f) == f = [k \in 0 .. Turns |-> IF k = 0 THEN {Middle}
                          ELSE {IF s.found THEN s ELSE DescriptionTurn(s, l) : s \in f[k - 1]}]
           E(f) == f = [k \in 0 .. 14 |-> IF k = 0 THEN {Middle} ELSE {DescriptionGoes(s, l) : s \in f[k - 1]}]
           g == [k \in 0 .. 14 |-> IF k = 0 THEN {Middle} ELSE IF k = 1 THEN {a} ELSE IF k = 2 THEN {b}
                                   ELSE IF k = 3 THEN {c} ELSE {d}]
<1>1. \A f : D(f) <=> E(f) BY DEF DescriptionGoes, Turns, TableSize
<1>2. DescriptionGoes(d, l) = d BY DEF DescriptionGoes
<1>3. E(g)
  <2>1. ASSUME NEW k \in 0 .. 14, k # 0 PROVE g[k] = {DescriptionGoes(s, l) : s \in g[k - 1]}
    <3>1. k - 1 \in 0 .. 14 BY <2>1
    <3>2. CASE k = 1 BY <3>2
    <3>3. CASE k = 2 BY <3>3
    <3>4. CASE k = 3 BY <3>4
    <3>5. CASE k = 4 BY <3>5
    <3>6. CASE k > 4
      <4>1. g[k - 1] = {d} /\ g[k] = {d} BY <3>1, <3>6
      <4>2. QED BY <1>2, <4>1
    <3>7. QED BY <2>1, <3>2, <3>3, <3>4, <3>5, <3>6
  <2>2. g[0] = {Middle} OBVIOUS
  <2> HIDE DEF g
  <2>3. g = [k \in 0 .. 14 |-> g[k]] BY DEF g
  <2>4. QED BY <2>1, <2>2, <2>3
<1>4. PICK h : h = CHOOSE f : D(f) OBVIOUS
<1>5. E(h)
  <2>1. D(g) BY <1>1, <1>3
  <2> HIDE DEF E, g
  <2>2. D(h) BY <1>4, <2>1
  <2> HIDE DEF D
  <2>3. QED BY <1>1, <2>2
<1>6. Search(DescriptionTurn, l) = CHOOSE s \in h[Turns] : TRUE BY <1>4 DEF Search
<1>7. h[0] = {Middle} /\ \A k \in 1 .. 14 : h[k] = {DescriptionGoes(s, l) : s \in h[k - 1]}
  <2>1. \A k \in 1 .. 14 : k \in 0 .. 14 /\ k # 0 OBVIOUS
  <2>2. QED BY <1>5, <2>1
<1> HIDE DEF D, E, g
<1>8. h[1] = {a} BY <1>7
<1>9. h[2] = {b} BY <1>7, <1>8
<1>10. h[3] = {c} BY <1>7, <1>9
<1>11. h[4] = {d} BY <1>7, <1>10
<1>12. \A k \in 5 .. 14 : h[k - 1] = {d} => h[k] = {d}
  <2>1. \A k \in 5 .. 14 : h[k] = {DescriptionGoes(s, l) : s \in h[k - 1]} BY <1>7
  <2>2. QED BY <1>2, <2>1
<1>13. h[5] = {d} /\ h[6] = {d} /\ h[7] = {d} /\ h[8] = {d} /\ h[9] = {d} BY <1>11, <1>12
<1>14. h[10] = {d} /\ h[11] = {d} /\ h[12] = {d} /\ h[13] = {d} /\ h[14] = {d} BY <1>12, <1>13
<1>15. QED BY <1>6, <1>14 DEF Turns, TableSize

\* So does jnl_dl_level_fetch.
LEMMA LevelEnds ==
  ASSUME NEW w, NEW a, NEW b, NEW c, NEW d,
         LevelGoes(Middle, w) = a, LevelGoes(a, w) = b, LevelGoes(b, w) = c, LevelGoes(c, w) = d,
         d.found
  PROVE  Search(LevelTurn, w) = d
<1> DEFINE D(f) == f = [k \in 0 .. Turns |-> IF k = 0 THEN {Middle}
                          ELSE {IF s.found THEN s ELSE LevelTurn(s, w) : s \in f[k - 1]}]
           E(f) == f = [k \in 0 .. 14 |-> IF k = 0 THEN {Middle} ELSE {LevelGoes(s, w) : s \in f[k - 1]}]
           g == [k \in 0 .. 14 |-> IF k = 0 THEN {Middle} ELSE IF k = 1 THEN {a} ELSE IF k = 2 THEN {b}
                                   ELSE IF k = 3 THEN {c} ELSE {d}]
<1>1. \A f : D(f) <=> E(f) BY DEF LevelGoes, Turns, TableSize
<1>2. LevelGoes(d, w) = d BY DEF LevelGoes
<1>3. E(g)
  <2>1. ASSUME NEW k \in 0 .. 14, k # 0 PROVE g[k] = {LevelGoes(s, w) : s \in g[k - 1]}
    <3>1. k - 1 \in 0 .. 14 BY <2>1
    <3>2. CASE k = 1 BY <3>2
    <3>3. CASE k = 2 BY <3>3
    <3>4. CASE k = 3 BY <3>4
    <3>5. CASE k = 4 BY <3>5
    <3>6. CASE k > 4
      <4>1. g[k - 1] = {d} /\ g[k] = {d} BY <3>1, <3>6
      <4>2. QED BY <1>2, <4>1
    <3>7. QED BY <2>1, <3>2, <3>3, <3>4, <3>5, <3>6
  <2>2. g[0] = {Middle} OBVIOUS
  <2> HIDE DEF g
  <2>3. g = [k \in 0 .. 14 |-> g[k]] BY DEF g
  <2>4. QED BY <2>1, <2>2, <2>3
<1>4. PICK h : h = CHOOSE f : D(f) OBVIOUS
<1>5. E(h)
  <2>1. D(g) BY <1>1, <1>3
  <2> HIDE DEF E, g
  <2>2. D(h) BY <1>4, <2>1
  <2> HIDE DEF D
  <2>3. QED BY <1>1, <2>2
<1>6. Search(LevelTurn, w) = CHOOSE s \in h[Turns] : TRUE BY <1>4 DEF Search
<1>7. h[0] = {Middle} /\ \A k \in 1 .. 14 : h[k] = {LevelGoes(s, w) : s \in h[k - 1]}
  <2>1. \A k \in 1 .. 14 : k \in 0 .. 14 /\ k # 0 OBVIOUS
  <2>2. QED BY <1>5, <2>1
<1> HIDE DEF D, E, g
<1>8. h[1] = {a} BY <1>7
<1>9. h[2] = {b} BY <1>7, <1>8
<1>10. h[3] = {c} BY <1>7, <1>9
<1>11. h[4] = {d} BY <1>7, <1>10
<1>12. \A k \in 5 .. 14 : h[k - 1] = {d} => h[k] = {d}
  <2>1. \A k \in 5 .. 14 : h[k] = {LevelGoes(s, w) : s \in h[k - 1]} BY <1>7
  <2>2. QED BY <1>2, <2>1
<1>13. h[5] = {d} /\ h[6] = {d} /\ h[7] = {d} /\ h[8] = {d} /\ h[9] = {d} BY <1>11, <1>12
<1>14. h[10] = {d} /\ h[11] = {d} /\ h[12] = {d} /\ h[13] = {d} /\ h[14] = {d} BY <1>12, <1>13
<1>15. QED BY <1>6, <1>14 DEF Turns, TableSize

\* Where a search is.
Place(i, q) == [at |-> i, distance |-> q, found |-> FALSE]
Found(i, q) == [at |-> i, distance |-> q, found |-> TRUE]
Down(i, q, j, d) == Move(Place(i, q), TRUE) = Place(j, d)
Up(i, q, j, d) == Move(Place(i, q), FALSE) = Place(j, d)

\* The moves that the searches make.
LEMMA Moves ==
  /\ Middle = Place(3, 3)
  /\ Down(3, 3, 1, 2) /\ Up(3, 3, 5, 2)
  /\ Down(1, 2, 1, 1) /\ Up(1, 2, 2, 1)
  /\ Down(5, 2, 4, 1) /\ Up(5, 2, 6, 1)
  /\ Down(2, 1, 1, 1) /\ Up(2, 1, 3, 1)
  /\ Down(3, 1, 2, 1) /\ Up(3, 1, 4, 1)
  /\ Down(4, 1, 3, 1) /\ Up(4, 1, 5, 1)
  /\ Down(6, 1, 5, 1) /\ Up(6, 1, 7, 1)
  /\ Down(7, 1, 6, 1) /\ Up(7, 1, 7, 1)
BY DEF Down, Up, Move, Middle, Place, TableSize

\* A search starts at the middle of its table.
LEMMA MiddleIs == Middle = Place(3, 3)
BY Moves

\* Its fields.
LEMMA Fields ==
  ASSUME NEW i \in Int, NEW q \in Int
  PROVE  /\ Place(i, q).at = i /\ Place(i, q).distance = q /\ ~Place(i, q).found
         /\ Found(i, q).at = i /\ Found(i, q).found
         /\ [Place(i, q) EXCEPT !.found = TRUE] = Found(i, q)
<1>1. Place(i, q).at = i /\ Place(i, q).distance = q /\ Found(i, q).at = i BY DEF Place, Found
<1>2. ~Place(i, q).found /\ Found(i, q).found BY DEF Place, Found
<1>3. [Place(i, q) EXCEPT !.found = TRUE] = Found(i, q)
  <2>1. PICK r \in [at : Int, distance : Int, found : BOOLEAN] : r = Place(i, q) BY DEF Place
  <2>2. PICK e : e = [r EXCEPT !.found = TRUE] OBVIOUS
  <2>3. e \in [at : Int, distance : Int, found : BOOLEAN] BY <2>2
  <2>4. e.at = i /\ e.distance = q /\ e.found = TRUE BY <1>1, <2>1, <2>2
  <2>5. e = [at |-> i, distance |-> q, found |-> TRUE] BY <2>3, <2>4
  <2>6. QED BY <2>1, <2>2, <2>5 DEF Found
<1>4. QED BY <1>1, <1>2, <1>3

\* A turn of jnl_dl_description_fetch goes down from an entry above l, if the one below is no neighbour under l.
LEMMA DescriptionDown ==
  ASSUME NEW l \in Int, NEW i \in Int, NEW q \in Int, NEW j \in Int, NEW d \in Int, Down(i, q, j, d),
         Level_Descriptions[i] \in Int, Level_Descriptions[j] \in Int, j # i,
         l < Level_Descriptions[i], ~(d = 1 /\ Level_Descriptions[j] < l)
  PROVE  DescriptionGoes(Place(i, q), l) = Place(j, d)
<1>1. /\ Place(i, q).at = i /\ Place(j, d).at = j /\ Place(j, d).distance = d /\ ~Place(i, q).found
      /\ [Place(i, q) EXCEPT !.found = TRUE] = Found(i, q)
  BY Fields
<1>2. (Level_Descriptions[i] > l) = TRUE OBVIOUS
<1>3. Move(Place(i, q), Level_Descriptions[i] > l) = Place(j, d) BY <1>2 DEF Down
<1>4. QED BY <1>1, <1>3 DEF DescriptionGoes, DescriptionTurn

\* It goes up from an entry below l.
LEMMA DescriptionUp ==
  ASSUME NEW l \in Int, NEW i \in Int, NEW q \in Int, NEW j \in Int, NEW d \in Int, Up(i, q, j, d),
         Level_Descriptions[i] \in Int, Level_Descriptions[j] \in Int, Level_Descriptions[i] < l, j # i
  PROVE  DescriptionGoes(Place(i, q), l) = Place(j, d)
<1>1. /\ Place(i, q).at = i /\ Place(j, d).at = j /\ Place(j, d).distance = d /\ ~Place(i, q).found
      /\ [Place(i, q) EXCEPT !.found = TRUE] = Found(i, q)
  BY Fields
<1>2. (Level_Descriptions[i] > l) = FALSE OBVIOUS
<1>3. Move(Place(i, q), Level_Descriptions[i] > l) = Place(j, d) BY <1>2 DEF Up
<1>4. QED BY <1>1, <1>3 DEF DescriptionGoes, DescriptionTurn

\* It stops at an entry equal to l.
LEMMA DescriptionHits ==
  ASSUME NEW l \in Int, NEW i \in Int, NEW q \in Int, NEW j \in Int, NEW d \in Int, Up(i, q, j, d),
         Level_Descriptions[i] \in Int, Level_Descriptions[j] \in Int, Level_Descriptions[i] = l
  PROVE  DescriptionGoes(Place(i, q), l) = Found(i, q)
<1>1. /\ Place(i, q).at = i /\ Place(j, d).at = j /\ Place(j, d).distance = d /\ ~Place(i, q).found
      /\ [Place(i, q) EXCEPT !.found = TRUE] = Found(i, q)
  BY Fields
<1>2. (Level_Descriptions[i] > l) = FALSE OBVIOUS
<1>3. Move(Place(i, q), Level_Descriptions[i] > l) = Place(j, d) BY <1>2 DEF Up
<1>4. QED BY <1>1, <1>3 DEF DescriptionGoes, DescriptionTurn

\* It stops at an entry above l whose lower neighbour is below l.
LEMMA DescriptionStops ==
  ASSUME NEW l \in Int, NEW i \in Int, NEW q \in Int, NEW j \in Int, Down(i, q, j, 1),
         Level_Descriptions[i] \in Int, Level_Descriptions[j] \in Int,
         l < Level_Descriptions[i], Level_Descriptions[j] < l
  PROVE  DescriptionGoes(Place(i, q), l) = Found(i, q)
<1>1. /\ Place(i, q).at = i /\ Place(j, 1).at = j /\ Place(j, 1).distance = 1 /\ ~Place(i, q).found
      /\ [Place(i, q) EXCEPT !.found = TRUE] = Found(i, q)
  BY Fields
<1>2. (Level_Descriptions[i] > l) = TRUE OBVIOUS
<1>3. Move(Place(i, q), Level_Descriptions[i] > l) = Place(j, 1) BY <1>2 DEF Down
<1>4. QED BY <1>1, <1>3 DEF DescriptionGoes, DescriptionTurn

\* The search may end within two turns.
LEMMA DescriptionEndsSoon ==
  ASSUME NEW l, NEW a, NEW b, DescriptionGoes(Middle, l) = a, DescriptionGoes(a, l) = b, b.found
  PROVE  Search(DescriptionTurn, l) = b
<1>1. DescriptionGoes(b, l) = b BY DEF DescriptionGoes
<1>2. PICK c, d : c = b /\ d = b OBVIOUS
<1>3. DescriptionGoes(b, l) = c /\ DescriptionGoes(c, l) = d /\ d.found BY <1>1, <1>2
<1>4. Search(DescriptionTurn, l) = d BY <1>3, DescriptionEnds
<1>5. QED BY <1>2, <1>4

\* What is found stays.
LEMMA DescriptionKeeps ==
  ASSUME NEW l \in Int, NEW i \in Int, NEW q \in Int
  PROVE  DescriptionGoes(Found(i, q), l) = Found(i, q)
BY Fields DEF DescriptionGoes

\* A turn of jnl_dl_level_fetch goes down from a word after w.
LEMMA LevelDown ==
  ASSUME NEW w \in Int, NEW i \in Int, NEW q \in Int, NEW j \in Int, NEW d \in Int, Down(i, q, j, d),
         Word(i) \in Int, Word(j) \in Int, w < Word(i), j # i
  PROVE  LevelGoes(Place(i, q), w) = Place(j, d)
<1>1. /\ Place(i, q).at = i /\ Place(j, d).at = j /\ Place(j, d).distance = d /\ ~Place(i, q).found
      /\ [Place(i, q) EXCEPT !.found = TRUE] = Found(i, q)
  BY Fields
<1>2. (w < Word(i)) = TRUE OBVIOUS
<1>3. Move(Place(i, q), w < Word(i)) = Place(j, d) BY <1>2 DEF Down
<1>4. QED BY <1>1, <1>3 DEF LevelGoes, LevelTurn

\* It goes up from a word before w, if the next one is no neighbour after w.
LEMMA LevelUp ==
  ASSUME NEW w \in Int, NEW i \in Int, NEW q \in Int, NEW j \in Int, NEW d \in Int, Up(i, q, j, d),
         Word(i) \in Int, Word(j) \in Int, Word(i) < w, ~(d = 1 /\ w < Word(j)), j # i
  PROVE  LevelGoes(Place(i, q), w) = Place(j, d)
<1>1. /\ Place(i, q).at = i /\ Place(j, d).at = j /\ Place(j, d).distance = d /\ ~Place(i, q).found
      /\ [Place(i, q) EXCEPT !.found = TRUE] = Found(i, q)
  BY Fields
<1>2. (w < Word(i)) = FALSE OBVIOUS
<1>3. Move(Place(i, q), w < Word(i)) = Place(j, d) BY <1>2 DEF Up
<1>4. QED BY <1>1, <1>3 DEF LevelGoes, LevelTurn

\* It stops at w.
LEMMA LevelHits ==
  ASSUME NEW w \in Int, NEW i \in Int, NEW q \in Int, NEW j \in Int, NEW d \in Int, Up(i, q, j, d),
         Word(i) \in Int, Word(j) \in Int, Word(i) = w
  PROVE  LevelGoes(Place(i, q), w) = Found(i, q)
<1>1. /\ Place(i, q).at = i /\ Place(j, d).at = j /\ Place(j, d).distance = d /\ ~Place(i, q).found
      /\ [Place(i, q) EXCEPT !.found = TRUE] = Found(i, q)
  BY Fields
<1>2. (w < Word(i)) = FALSE OBVIOUS
<1>3. Move(Place(i, q), w < Word(i)) = Place(j, d) BY <1>2 DEF Up
<1>4. QED BY <1>1, <1>3 DEF LevelGoes, LevelTurn

\* It stops at a word before w whose neighbour is after w.
LEMMA LevelStops ==
  ASSUME NEW w \in Int, NEW i \in Int, NEW q \in Int, NEW j \in Int, Up(i, q, j, 1),
         Word(i) \in Int, Word(j) \in Int, Word(i) < w, w < Word(j)
  PROVE  LevelGoes(Place(i, q), w) = Found(i, q)
<1>1. /\ Place(i, q).at = i /\ Place(j, 1).at = j /\ Place(j, 1).distance = 1 /\ ~Place(i, q).found
      /\ [Place(i, q) EXCEPT !.found = TRUE] = Found(i, q)
  BY Fields
<1>2. (w < Word(i)) = FALSE OBVIOUS
<1>3. Move(Place(i, q), w < Word(i)) = Place(j, 1) BY <1>2 DEF Up
<1>4. QED BY <1>1, <1>3 DEF LevelGoes, LevelTurn

\* It stops at the first word.
LEMMA LevelFirst ==
  ASSUME NEW w \in Int, NEW i \in Int, NEW q \in Int, NEW d \in Int, Down(i, q, i, d),
         Word(i) \in Int, w < Word(i)
  PROVE  LevelGoes(Place(i, q), w) = Found(i, q)
<1>1. /\ Place(i, q).at = i /\ Place(i, d).at = i /\ Place(i, d).distance = d /\ ~Place(i, q).found
      /\ [Place(i, q) EXCEPT !.found = TRUE] = Found(i, q)
  BY Fields
<1>2. (w < Word(i)) = TRUE OBVIOUS
<1>3. Move(Place(i, q), w < Word(i)) = Place(i, d) BY <1>2 DEF Down
<1>4. QED BY <1>1, <1>3 DEF LevelGoes, LevelTurn

\* It stops at the last word.
LEMMA LevelLast ==
  ASSUME NEW w \in Int, NEW i \in Int, NEW q \in Int, NEW d \in Int, Up(i, q, i, d),
         Word(i) \in Int, Word(i) < w
  PROVE  LevelGoes(Place(i, q), w) = Found(i, q)
<1>1. /\ Place(i, q).at = i /\ Place(i, d).at = i /\ Place(i, d).distance = d /\ ~Place(i, q).found
      /\ [Place(i, q) EXCEPT !.found = TRUE] = Found(i, q)
  BY Fields
<1>2. (w < Word(i)) = FALSE OBVIOUS
<1>3. Move(Place(i, q), w < Word(i)) = Place(i, d) BY <1>2 DEF Up
<1>4. QED BY <1>1, <1>3 DEF LevelGoes, LevelTurn

\* The search may end within two turns.
LEMMA LevelEndsSoon ==
  ASSUME NEW w, NEW a, NEW b, LevelGoes(Middle, w) = a, LevelGoes(a, w) = b, b.found
  PROVE  Search(LevelTurn, w) = b
<1>1. LevelGoes(b, w) = b BY DEF LevelGoes
<1>2. PICK c, d : c = b /\ d = b OBVIOUS
<1>3. LevelGoes(b, w) = c /\ LevelGoes(c, w) = d /\ d.found BY <1>1, <1>2
<1>4. Search(LevelTurn, w) = d BY <1>3, LevelEnds
<1>5. QED BY <1>2, <1>4

\* What is found stays.
LEMMA LevelKeeps ==
  ASSUME NEW w \in Int, NEW i \in Int, NEW q \in Int
  PROVE  LevelGoes(Found(i, q), w) = Found(i, q)
BY Fields DEF LevelGoes

\* The first table is sorted.
LEMMA LevelsSorted ==
  /\ \A i \in 1 .. 7 : Level_Descriptions[i] \in Int
  /\ Level_Descriptions[1] = -IntMax - 1 /\ Level_Descriptions[7] = IntMax
  /\ Level_Descriptions[1] < Level_Descriptions[2] /\ Level_Descriptions[2] < Level_Descriptions[3]
  /\ Level_Descriptions[3] < Level_Descriptions[4] /\ Level_Descriptions[4] < Level_Descriptions[5]
  /\ Level_Descriptions[5] < Level_Descriptions[6] /\ Level_Descriptions[6] < Level_Descriptions[7]
<1>1. IntMax \in Nat /\ IntMax > 6 BY JournalAssumption
<1>2. PICK h, q : h = IntMax \div 2 /\ q = h \div 2 OBVIOUS
<1>3. h \in Int /\ q \in Int /\ h < IntMax /\ q < h /\ 0 < q BY <1>1, <1>2
<1>4. Level_Descriptions = <<-IntMax - 1, -IntMax - 1 + 1, -IntMax - 1 + 1 + 1, 0, q, h, IntMax>>
  BY <1>2 DEF Level_Descriptions, ASSERTION, RESULT, DIAGNOSTIC, PROGRESS, VERBOSE, STACK, ENCYCLOPEDIC
<1>5. QED BY <1>1, <1>3, <1>4

\* The entry whose level is the least not below l.
LEMMA NearestIs ==
  ASSUME NEW l \in Int, NEW i \in 1 .. 7, l <= Level_Descriptions[i], i # 1 => Level_Descriptions[i - 1] < l
  PROVE  NearestAbove(l) = Level_Descriptions[i]
<1> DEFINE L(j) == Level_Descriptions[j]
           P(d) == d \in {L(j) : j \in 1 .. TableSize} /\ d >= l /\ \A j \in 1 .. TableSize : L(j) >= l => d <= L(j)
<1>1. \A j \in 1 .. 7 : L(j) \in Int /\ (j < i => L(j) < l) /\ (j >= i => L(j) >= L(i))
  <2>1. \A j \in 1 .. 7 : j \in {1, 2, 3, 4, 5, 6, 7} OBVIOUS
  <2>2. QED BY <2>1, LevelsSorted
<1>2. P(L(i)) BY <1>1 DEF TableSize
<1>3. \A d : P(d) => d = L(i)
  <2>1. SUFFICES ASSUME NEW j \in 1 .. 7, L(j) >= l, \A x \in 1 .. 7 : L(x) >= l => L(j) <= L(x) PROVE L(j) = L(i)
    BY DEF TableSize
  <2>2. QED BY <1>1, <2>1
<1>4. NearestAbove(l) = CHOOSE d : P(d) BY DEF NearestAbove
<1> HIDE DEF P
<1>5. QED BY <1>2, <1>3, <1>4

\* What jnl_dl_description_fetch finds.
LEMMA DescriptionFound ==
  ASSUME NEW l \in (-IntMax - 1) .. IntMax
  PROVE  /\ Search(DescriptionTurn, l).found
         /\ LET i == Search(DescriptionTurn, l).at IN
            i \in 1 .. 7 /\ l <= Level_Descriptions[i] /\ (i # 1 => Level_Descriptions[i - 1] < l)
<1>1. /\ l \in Int /\ Level_Descriptions[1] <= l /\ l <= Level_Descriptions[7]
      /\ Level_Descriptions[1] \in Int /\ Level_Descriptions[2] \in Int
      /\ Level_Descriptions[3] \in Int /\ Level_Descriptions[4] \in Int
      /\ Level_Descriptions[5] \in Int /\ Level_Descriptions[6] \in Int /\ Level_Descriptions[7] \in Int
      /\ Level_Descriptions[1] < Level_Descriptions[2] /\ Level_Descriptions[2] < Level_Descriptions[3]
      /\ Level_Descriptions[3] < Level_Descriptions[4] /\ Level_Descriptions[4] < Level_Descriptions[5]
      /\ Level_Descriptions[5] < Level_Descriptions[6] /\ Level_Descriptions[6] < Level_Descriptions[7]
  BY JournalAssumption, LevelsSorted
<1>2. CASE l = Level_Descriptions[1]
  <2>1. DescriptionGoes(Place(3, 3), l) = Place(1, 2)
    <3>1. Down(3, 3, 1, 2) BY Moves
    <3>2. /\ l < Level_Descriptions[3]
          /\ l \in Int /\ Level_Descriptions[3] \in Int /\ Level_Descriptions[1] \in Int
      BY <1>1, <1>2
    <3>3. QED BY <3>1, <3>2, DescriptionDown
  <2>2. DescriptionGoes(Place(1, 2), l) = Found(1, 2)
    <3>1. Up(1, 2, 2, 1) BY Moves
    <3>2. /\ Level_Descriptions[1] = l
          /\ l \in Int /\ Level_Descriptions[1] \in Int /\ Level_Descriptions[2] \in Int
      BY <1>1, <1>2
    <3>3. QED BY <3>1, <3>2, DescriptionHits
  <2>3. DescriptionGoes(Found(1, 2), l) = Found(1, 2) BY <1>1, DescriptionKeeps
  <2>4. Found(1, 2).found /\ Found(1, 2).at = 1 BY DEF Found
  <2>5. Search(DescriptionTurn, l) = Found(1, 2) BY <2>1, <2>2, <2>3, <2>4, MiddleIs, DescriptionEndsSoon
  <2>6. QED BY <1>1, <1>2, <2>4, <2>5
<1>3. CASE Level_Descriptions[1] < l /\ l < Level_Descriptions[2]
  <2>1. DescriptionGoes(Place(3, 3), l) = Place(1, 2)
    <3>1. Down(3, 3, 1, 2) BY Moves
    <3>2. /\ l < Level_Descriptions[3]
          /\ l \in Int /\ Level_Descriptions[3] \in Int /\ Level_Descriptions[1] \in Int
      BY <1>1, <1>3
    <3>3. QED BY <3>1, <3>2, DescriptionDown
  <2>2. DescriptionGoes(Place(1, 2), l) = Place(2, 1)
    <3>1. Up(1, 2, 2, 1) BY Moves
    <3>2. /\ Level_Descriptions[1] < l
          /\ l \in Int /\ Level_Descriptions[1] \in Int /\ Level_Descriptions[2] \in Int
      BY <1>1, <1>3
    <3>3. QED BY <3>1, <3>2, DescriptionUp
  <2>3. DescriptionGoes(Place(2, 1), l) = Found(2, 1)
    <3>1. Down(2, 1, 1, 1) BY Moves
    <3>2. /\ l < Level_Descriptions[2] /\ Level_Descriptions[1] < l
          /\ l \in Int /\ Level_Descriptions[2] \in Int /\ Level_Descriptions[1] \in Int
      BY <1>1, <1>3
    <3>3. QED BY <3>1, <3>2, DescriptionStops
  <2>4. DescriptionGoes(Found(2, 1), l) = Found(2, 1) BY <1>1, DescriptionKeeps
  <2>5. Found(2, 1).found /\ Found(2, 1).at = 2 BY DEF Found
  <2>6. Search(DescriptionTurn, l) = Found(2, 1) BY <2>1, <2>2, <2>3, <2>4, <2>5, MiddleIs, DescriptionEnds
  <2>7. QED BY <1>1, <1>3, <2>5, <2>6
<1>4. CASE l = Level_Descriptions[2]
  <2>1. DescriptionGoes(Place(3, 3), l) = Place(1, 2)
    <3>1. Down(3, 3, 1, 2) BY Moves
    <3>2. /\ l < Level_Descriptions[3]
          /\ l \in Int /\ Level_Descriptions[3] \in Int /\ Level_Descriptions[1] \in Int
      BY <1>1, <1>4
    <3>3. QED BY <3>1, <3>2, DescriptionDown
  <2>2. DescriptionGoes(Place(1, 2), l) = Place(2, 1)
    <3>1. Up(1, 2, 2, 1) BY Moves
    <3>2. /\ Level_Descriptions[1] < l
          /\ l \in Int /\ Level_Descriptions[1] \in Int /\ Level_Descriptions[2] \in Int
      BY <1>1, <1>4
    <3>3. QED BY <3>1, <3>2, DescriptionUp
  <2>3. DescriptionGoes(Place(2, 1), l) = Found(2, 1)
    <3>1. Up(2, 1, 3, 1) BY Moves
    <3>2. /\ Level_Descriptions[2] = l
          /\ l \in Int /\ Level_Descriptions[2] \in Int /\ Level_Descriptions[3] \in Int
      BY <1>1, <1>4
    <3>3. QED BY <3>1, <3>2, DescriptionHits
  <2>4. DescriptionGoes(Found(2, 1), l) = Found(2, 1) BY <1>1, DescriptionKeeps
  <2>5. Found(2, 1).found /\ Found(2, 1).at = 2 BY DEF Found
  <2>6. Search(DescriptionTurn, l) = Found(2, 1) BY <2>1, <2>2, <2>3, <2>4, <2>5, MiddleIs, DescriptionEnds
  <2>7. QED BY <1>1, <1>4, <2>5, <2>6
<1>5. CASE Level_Descriptions[2] < l /\ l < Level_Descriptions[3]
  <2>1. DescriptionGoes(Place(3, 3), l) = Place(1, 2)
    <3>1. Down(3, 3, 1, 2) BY Moves
    <3>2. /\ l < Level_Descriptions[3]
          /\ l \in Int /\ Level_Descriptions[3] \in Int /\ Level_Descriptions[1] \in Int
      BY <1>1, <1>5
    <3>3. QED BY <3>1, <3>2, DescriptionDown
  <2>2. DescriptionGoes(Place(1, 2), l) = Place(2, 1)
    <3>1. Up(1, 2, 2, 1) BY Moves
    <3>2. /\ Level_Descriptions[1] < l
          /\ l \in Int /\ Level_Descriptions[1] \in Int /\ Level_Descriptions[2] \in Int
      BY <1>1, <1>5
    <3>3. QED BY <3>1, <3>2, DescriptionUp
  <2>3. DescriptionGoes(Place(2, 1), l) = Place(3, 1)
    <3>1. Up(2, 1, 3, 1) BY Moves
    <3>2. /\ Level_Descriptions[2] < l
          /\ l \in Int /\ Level_Descriptions[2] \in Int /\ Level_Descriptions[3] \in Int
      BY <1>1, <1>5
    <3>3. QED BY <3>1, <3>2, DescriptionUp
  <2>4. DescriptionGoes(Place(3, 1), l) = Found(3, 1)
    <3>1. Down(3, 1, 2, 1) BY Moves
    <3>2. /\ l < Level_Descriptions[3] /\ Level_Descriptions[2] < l
          /\ l \in Int /\ Level_Descriptions[3] \in Int /\ Level_Descriptions[2] \in Int
      BY <1>1, <1>5
    <3>3. QED BY <3>1, <3>2, DescriptionStops
  <2>5. DescriptionGoes(Found(3, 1), l) = Found(3, 1) BY <1>1, DescriptionKeeps
  <2>6. Found(3, 1).found /\ Found(3, 1).at = 3 BY DEF Found
  <2>7. Search(DescriptionTurn, l) = Found(3, 1) BY <2>1, <2>2, <2>3, <2>4, <2>5, <2>6, MiddleIs, DescriptionEnds
  <2>8. QED BY <1>1, <1>5, <2>6, <2>7
<1>6. CASE l = Level_Descriptions[3]
  <2>1. DescriptionGoes(Place(3, 3), l) = Found(3, 3)
    <3>1. Up(3, 3, 5, 2) BY Moves
    <3>2. /\ Level_Descriptions[3] = l
          /\ l \in Int /\ Level_Descriptions[3] \in Int /\ Level_Descriptions[5] \in Int
      BY <1>1, <1>6
    <3>3. QED BY <3>1, <3>2, DescriptionHits
  <2>2. DescriptionGoes(Found(3, 3), l) = Found(3, 3) BY <1>1, DescriptionKeeps
  <2>3. Found(3, 3).found /\ Found(3, 3).at = 3 BY DEF Found
  <2>4. Search(DescriptionTurn, l) = Found(3, 3) BY <2>1, <2>2, <2>3, MiddleIs, DescriptionEndsSoon
  <2>5. QED BY <1>1, <1>6, <2>3, <2>4
<1>7. CASE Level_Descriptions[3] < l /\ l < Level_Descriptions[4]
  <2>1. DescriptionGoes(Place(3, 3), l) = Place(5, 2)
    <3>1. Up(3, 3, 5, 2) BY Moves
    <3>2. /\ Level_Descriptions[3] < l
          /\ l \in Int /\ Level_Descriptions[3] \in Int /\ Level_Descriptions[5] \in Int
      BY <1>1, <1>7
    <3>3. QED BY <3>1, <3>2, DescriptionUp
  <2>2. DescriptionGoes(Place(5, 2), l) = Place(4, 1)
    <3>1. Down(5, 2, 4, 1) BY Moves
    <3>2. /\ l < Level_Descriptions[5] /\ ~(Level_Descriptions[4] < l)
          /\ l \in Int /\ Level_Descriptions[5] \in Int /\ Level_Descriptions[4] \in Int
      BY <1>1, <1>7
    <3>3. QED BY <3>1, <3>2, DescriptionDown
  <2>3. DescriptionGoes(Place(4, 1), l) = Found(4, 1)
    <3>1. Down(4, 1, 3, 1) BY Moves
    <3>2. /\ l < Level_Descriptions[4] /\ Level_Descriptions[3] < l
          /\ l \in Int /\ Level_Descriptions[4] \in Int /\ Level_Descriptions[3] \in Int
      BY <1>1, <1>7
    <3>3. QED BY <3>1, <3>2, DescriptionStops
  <2>4. DescriptionGoes(Found(4, 1), l) = Found(4, 1) BY <1>1, DescriptionKeeps
  <2>5. Found(4, 1).found /\ Found(4, 1).at = 4 BY DEF Found
  <2>6. Search(DescriptionTurn, l) = Found(4, 1) BY <2>1, <2>2, <2>3, <2>4, <2>5, MiddleIs, DescriptionEnds
  <2>7. QED BY <1>1, <1>7, <2>5, <2>6
<1>8. CASE l = Level_Descriptions[4]
  <2>1. DescriptionGoes(Place(3, 3), l) = Place(5, 2)
    <3>1. Up(3, 3, 5, 2) BY Moves
    <3>2. /\ Level_Descriptions[3] < l
          /\ l \in Int /\ Level_Descriptions[3] \in Int /\ Level_Descriptions[5] \in Int
      BY <1>1, <1>8
    <3>3. QED BY <3>1, <3>2, DescriptionUp
  <2>2. DescriptionGoes(Place(5, 2), l) = Place(4, 1)
    <3>1. Down(5, 2, 4, 1) BY Moves
    <3>2. /\ l < Level_Descriptions[5] /\ ~(Level_Descriptions[4] < l)
          /\ l \in Int /\ Level_Descriptions[5] \in Int /\ Level_Descriptions[4] \in Int
      BY <1>1, <1>8
    <3>3. QED BY <3>1, <3>2, DescriptionDown
  <2>3. DescriptionGoes(Place(4, 1), l) = Found(4, 1)
    <3>1. Up(4, 1, 5, 1) BY Moves
    <3>2. /\ Level_Descriptions[4] = l
          /\ l \in Int /\ Level_Descriptions[4] \in Int /\ Level_Descriptions[5] \in Int
      BY <1>1, <1>8
    <3>3. QED BY <3>1, <3>2, DescriptionHits
  <2>4. DescriptionGoes(Found(4, 1), l) = Found(4, 1) BY <1>1, DescriptionKeeps
  <2>5. Found(4, 1).found /\ Found(4, 1).at = 4 BY DEF Found
  <2>6. Search(DescriptionTurn, l) = Found(4, 1) BY <2>1, <2>2, <2>3, <2>4, <2>5, MiddleIs, DescriptionEnds
  <2>7. QED BY <1>1, <1>8, <2>5, <2>6
<1>9. CASE Level_Descriptions[4] < l /\ l < Level_Descriptions[5]
  <2>1. DescriptionGoes(Place(3, 3), l) = Place(5, 2)
    <3>1. Up(3, 3, 5, 2) BY Moves
    <3>2. /\ Level_Descriptions[3] < l
          /\ l \in Int /\ Level_Descriptions[3] \in Int /\ Level_Descriptions[5] \in Int
      BY <1>1, <1>9
    <3>3. QED BY <3>1, <3>2, DescriptionUp
  <2>2. DescriptionGoes(Place(5, 2), l) = Found(5, 2)
    <3>1. Down(5, 2, 4, 1) BY Moves
    <3>2. /\ l < Level_Descriptions[5] /\ Level_Descriptions[4] < l
          /\ l \in Int /\ Level_Descriptions[5] \in Int /\ Level_Descriptions[4] \in Int
      BY <1>1, <1>9
    <3>3. QED BY <3>1, <3>2, DescriptionStops
  <2>3. DescriptionGoes(Found(5, 2), l) = Found(5, 2) BY <1>1, DescriptionKeeps
  <2>4. Found(5, 2).found /\ Found(5, 2).at = 5 BY DEF Found
  <2>5. Search(DescriptionTurn, l) = Found(5, 2) BY <2>1, <2>2, <2>3, <2>4, MiddleIs, DescriptionEndsSoon
  <2>6. QED BY <1>1, <1>9, <2>4, <2>5
<1>10. CASE l = Level_Descriptions[5]
  <2>1. DescriptionGoes(Place(3, 3), l) = Place(5, 2)
    <3>1. Up(3, 3, 5, 2) BY Moves
    <3>2. /\ Level_Descriptions[3] < l
          /\ l \in Int /\ Level_Descriptions[3] \in Int /\ Level_Descriptions[5] \in Int
      BY <1>1, <1>10
    <3>3. QED BY <3>1, <3>2, DescriptionUp
  <2>2. DescriptionGoes(Place(5, 2), l) = Found(5, 2)
    <3>1. Up(5, 2, 6, 1) BY Moves
    <3>2. /\ Level_Descriptions[5] = l
          /\ l \in Int /\ Level_Descriptions[5] \in Int /\ Level_Descriptions[6] \in Int
      BY <1>1, <1>10
    <3>3. QED BY <3>1, <3>2, DescriptionHits
  <2>3. DescriptionGoes(Found(5, 2), l) = Found(5, 2) BY <1>1, DescriptionKeeps
  <2>4. Found(5, 2).found /\ Found(5, 2).at = 5 BY DEF Found
  <2>5. Search(DescriptionTurn, l) = Found(5, 2) BY <2>1, <2>2, <2>3, <2>4, MiddleIs, DescriptionEndsSoon
  <2>6. QED BY <1>1, <1>10, <2>4, <2>5
<1>11. CASE Level_Descriptions[5] < l /\ l < Level_Descriptions[6]
  <2>1. DescriptionGoes(Place(3, 3), l) = Place(5, 2)
    <3>1. Up(3, 3, 5, 2) BY Moves
    <3>2. /\ Level_Descriptions[3] < l
          /\ l \in Int /\ Level_Descriptions[3] \in Int /\ Level_Descriptions[5] \in Int
      BY <1>1, <1>11
    <3>3. QED BY <3>1, <3>2, DescriptionUp
  <2>2. DescriptionGoes(Place(5, 2), l) = Place(6, 1)
    <3>1. Up(5, 2, 6, 1) BY Moves
    <3>2. /\ Level_Descriptions[5] < l
          /\ l \in Int /\ Level_Descriptions[5] \in Int /\ Level_Descriptions[6] \in Int
      BY <1>1, <1>11
    <3>3. QED BY <3>1, <3>2, DescriptionUp
  <2>3. DescriptionGoes(Place(6, 1), l) = Found(6, 1)
    <3>1. Down(6, 1, 5, 1) BY Moves
    <3>2. /\ l < Level_Descriptions[6] /\ Level_Descriptions[5] < l
          /\ l \in Int /\ Level_Descriptions[6] \in Int /\ Level_Descriptions[5] \in Int
      BY <1>1, <1>11
    <3>3. QED BY <3>1, <3>2, DescriptionStops
  <2>4. DescriptionGoes(Found(6, 1), l) = Found(6, 1) BY <1>1, DescriptionKeeps
  <2>5. Found(6, 1).found /\ Found(6, 1).at = 6 BY DEF Found
  <2>6. Search(DescriptionTurn, l) = Found(6, 1) BY <2>1, <2>2, <2>3, <2>4, <2>5, MiddleIs, DescriptionEnds
  <2>7. QED BY <1>1, <1>11, <2>5, <2>6
<1>12. CASE l = Level_Descriptions[6]
  <2>1. DescriptionGoes(Place(3, 3), l) = Place(5, 2)
    <3>1. Up(3, 3, 5, 2) BY Moves
    <3>2. /\ Level_Descriptions[3] < l
          /\ l \in Int /\ Level_Descriptions[3] \in Int /\ Level_Descriptions[5] \in Int
      BY <1>1, <1>12
    <3>3. QED BY <3>1, <3>2, DescriptionUp
  <2>2. DescriptionGoes(Place(5, 2), l) = Place(6, 1)
    <3>1. Up(5, 2, 6, 1) BY Moves
    <3>2. /\ Level_Descriptions[5] < l
          /\ l \in Int /\ Level_Descriptions[5] \in Int /\ Level_Descriptions[6] \in Int
      BY <1>1, <1>12
    <3>3. QED BY <3>1, <3>2, DescriptionUp
  <2>3. DescriptionGoes(Place(6, 1), l) = Found(6, 1)
    <3>1. Up(6, 1, 7, 1) BY Moves
    <3>2. /\ Level_Descriptions[6] = l
          /\ l \in Int /\ Level_Descriptions[6] \in Int /\ Level_Descriptions[7] \in Int
      BY <1>1, <1>12
    <3>3. QED BY <3>1, <3>2, DescriptionHits
  <2>4. DescriptionGoes(Found(6, 1), l) = Found(6, 1) BY <1>1, DescriptionKeeps
  <2>5. Found(6, 1).found /\ Found(6, 1).at = 6 BY DEF Found
  <2>6. Search(DescriptionTurn, l) = Found(6, 1) BY <2>1, <2>2, <2>3, <2>4, <2>5, MiddleIs, DescriptionEnds
  <2>7. QED BY <1>1, <1>12, <2>5, <2>6
<1>13. CASE Level_Descriptions[6] < l /\ l < Level_Descriptions[7]
  <2>1. DescriptionGoes(Place(3, 3), l) = Place(5, 2)
    <3>1. Up(3, 3, 5, 2) BY Moves
    <3>2. /\ Level_Descriptions[3] < l
          /\ l \in Int /\ Level_Descriptions[3] \in Int /\ Level_Descriptions[5] \in Int
      BY <1>1, <1>13
    <3>3. QED BY <3>1, <3>2, DescriptionUp
  <2>2. DescriptionGoes(Place(5, 2), l) = Place(6, 1)
    <3>1. Up(5, 2, 6, 1) BY Moves
    <3>2. /\ Level_Descriptions[5] < l
          /\ l \in Int /\ Level_Descriptions[5] \in Int /\ Level_Descriptions[6] \in Int
      BY <1>1, <1>13
    <3>3. QED BY <3>1, <3>2, DescriptionUp
  <2>3. DescriptionGoes(Place(6, 1), l) = Place(7, 1)
    <3>1. Up(6, 1, 7, 1) BY Moves
    <3>2. /\ Level_Descriptions[6] < l
          /\ l \in Int /\ Level_Descriptions[6] \in Int /\ Level_Descriptions[7] \in Int
      BY <1>1, <1>13
    <3>3. QED BY <3>1, <3>2, DescriptionUp
  <2>4. DescriptionGoes(Place(7, 1), l) = Found(7, 1)
    <3>1. Down(7, 1, 6, 1) BY Moves
    <3>2. /\ l < Level_Descriptions[7] /\ Level_Descriptions[6] < l
          /\ l \in Int /\ Level_Descriptions[7] \in Int /\ Level_Descriptions[6] \in Int
      BY <1>1, <1>13
    <3>3. QED BY <3>1, <3>2, DescriptionStops
  <2>5. DescriptionGoes(Found(7, 1), l) = Found(7, 1) BY <1>1, DescriptionKeeps
  <2>6. Found(7, 1).found /\ Found(7, 1).at = 7 BY DEF Found
  <2>7. Search(DescriptionTurn, l) = Found(7, 1) BY <2>1, <2>2, <2>3, <2>4, <2>5, <2>6, MiddleIs, DescriptionEnds
  <2>8. QED BY <1>1, <1>13, <2>6, <2>7
<1>14. CASE l = Level_Descriptions[7]
  <2>1. DescriptionGoes(Place(3, 3), l) = Place(5, 2)
    <3>1. Up(3, 3, 5, 2) BY Moves
    <3>2. /\ Level_Descriptions[3] < l
          /\ l \in Int /\ Level_Descriptions[3] \in Int /\ Level_Descriptions[5] \in Int
      BY <1>1, <1>14
    <3>3. QED BY <3>1, <3>2, DescriptionUp
  <2>2. DescriptionGoes(Place(5, 2), l) = Place(6, 1)
    <3>1. Up(5, 2, 6, 1) BY Moves
    <3>2. /\ Level_Descriptions[5] < l
          /\ l \in Int /\ Level_Descriptions[5] \in Int /\ Level_Descriptions[6] \in Int
      BY <1>1, <1>14
    <3>3. QED BY <3>1, <3>2, DescriptionUp
  <2>3. DescriptionGoes(Place(6, 1), l) = Place(7, 1)
    <3>1. Up(6, 1, 7, 1) BY Moves
    <3>2. /\ Level_Descriptions[6] < l
          /\ l \in Int /\ Level_Descriptions[6] \in Int /\ Level_Descriptions[7] \in Int
      BY <1>1, <1>14
    <3>3. QED BY <3>1, <3>2, DescriptionUp
  <2>4. DescriptionGoes(Place(7, 1), l) = Found(7, 1)
    <3>1. Up(7, 1, 7, 1) BY Moves
    <3>2. Level_Descriptions[7] = l /\ l \in Int /\ Level_Descriptions[7] \in Int BY <1>1, <1>14
    <3>3. QED BY <3>1, <3>2, DescriptionHits
  <2>5. DescriptionGoes(Found(7, 1), l) = Found(7, 1) BY <1>1, DescriptionKeeps
  <2>6. Found(7, 1).found /\ Found(7, 1).at = 7 BY DEF Found
  <2>7. Search(DescriptionTurn, l) = Found(7, 1) BY <2>1, <2>2, <2>3, <2>4, <2>5, <2>6, MiddleIs, DescriptionEnds
  <2>8. QED BY <1>1, <1>14, <2>6, <2>7
<1>15. QED BY <1>1, <1>2, <1>3, <1>4, <1>5, <1>6, <1>7, <1>8, <1>9, <1>10, <1>11, <1>12, <1>13, <1>14

\* jnl_dl_description_fetch returns the least level that is not below its argument.
LEMMA FetchIsNearest ==
  ASSUME NEW l \in (-IntMax - 1) .. IntMax
  PROVE  Search(DescriptionTurn, l).found /\ dl_description_fetch(l) = NearestAbove(l)
<1>1. l \in Int BY JournalAssumption
<1>2. PICK i : i = Search(DescriptionTurn, l).at OBVIOUS
<1>3. /\ i \in 1 .. 7 /\ l <= Level_Descriptions[i] /\ (i # 1 => Level_Descriptions[i - 1] < l)
      /\ Search(DescriptionTurn, l).found
  BY <1>2, DescriptionFound
<1>4. NearestAbove(l) = Level_Descriptions[i] BY <1>1, <1>3, NearestIs
<1>5. QED BY <1>2, <1>3, <1>4 DEF dl_description_fetch

\* What jnl_dl_level_fetch finds: an even word is in the table.
LEMMA LevelFound ==
  ASSUME NEW w \in Words
  PROVE  /\ Search(LevelTurn, w).found
         /\ LET i == Search(LevelTurn, w).at IN
            i \in 1 .. 7 /\ (w % 2 = 0 => Word(i) = w /\ i = w \div 2) /\ (w % 2 # 0 => Word(i) # w)
<1>1. /\ w \in 1 .. 15 /\ w \in Int
      /\ Word(1) = 2 /\ Word(2) = 4 /\ Word(3) = 6 /\ Word(4) = 8 /\ Word(5) = 10 /\ Word(6) = 12 /\ Word(7) = 14
  BY DEF Words, TableSize, Word
<1>2. CASE w = 1
  <2>1. LevelGoes(Place(3, 3), w) = Place(1, 2)
    <3>1. Down(3, 3, 1, 2) BY Moves
    <3>2. w < Word(3) /\ w \in Int /\ Word(3) \in Int /\ Word(1) \in Int BY <1>1, <1>2
    <3>3. QED BY <3>1, <3>2, LevelDown
  <2>2. LevelGoes(Place(1, 2), w) = Found(1, 2)
    <3>1. Down(1, 2, 1, 1) BY Moves
    <3>2. w < Word(1) /\ w \in Int /\ Word(1) \in Int BY <1>1, <1>2
    <3>3. QED BY <3>1, <3>2, LevelFirst
  <2>3. LevelGoes(Found(1, 2), w) = Found(1, 2) BY <1>1, LevelKeeps
  <2>4. Found(1, 2).found /\ Found(1, 2).at = 1 BY DEF Found
  <2>5. Search(LevelTurn, w) = Found(1, 2) BY <2>1, <2>2, <2>3, <2>4, MiddleIs, LevelEndsSoon
  <2>6. QED BY <1>1, <1>2, <2>4, <2>5
<1>3. CASE w = 2
  <2>1. LevelGoes(Place(3, 3), w) = Place(1, 2)
    <3>1. Down(3, 3, 1, 2) BY Moves
    <3>2. w < Word(3) /\ w \in Int /\ Word(3) \in Int /\ Word(1) \in Int BY <1>1, <1>3
    <3>3. QED BY <3>1, <3>2, LevelDown
  <2>2. LevelGoes(Place(1, 2), w) = Found(1, 2)
    <3>1. Up(1, 2, 2, 1) BY Moves
    <3>2. Word(1) = w /\ w \in Int /\ Word(1) \in Int /\ Word(2) \in Int BY <1>1, <1>3
    <3>3. QED BY <3>1, <3>2, LevelHits
  <2>3. LevelGoes(Found(1, 2), w) = Found(1, 2) BY <1>1, LevelKeeps
  <2>4. Found(1, 2).found /\ Found(1, 2).at = 1 BY DEF Found
  <2>5. Search(LevelTurn, w) = Found(1, 2) BY <2>1, <2>2, <2>3, <2>4, MiddleIs, LevelEndsSoon
  <2>6. QED BY <1>1, <1>3, <2>4, <2>5
<1>4. CASE w = 3
  <2>1. LevelGoes(Place(3, 3), w) = Place(1, 2)
    <3>1. Down(3, 3, 1, 2) BY Moves
    <3>2. w < Word(3) /\ w \in Int /\ Word(3) \in Int /\ Word(1) \in Int BY <1>1, <1>4
    <3>3. QED BY <3>1, <3>2, LevelDown
  <2>2. LevelGoes(Place(1, 2), w) = Found(1, 2)
    <3>1. Up(1, 2, 2, 1) BY Moves
    <3>2. Word(1) < w /\ w < Word(2) /\ w \in Int /\ Word(1) \in Int /\ Word(2) \in Int BY <1>1, <1>4
    <3>3. QED BY <3>1, <3>2, LevelStops
  <2>3. LevelGoes(Found(1, 2), w) = Found(1, 2) BY <1>1, LevelKeeps
  <2>4. Found(1, 2).found /\ Found(1, 2).at = 1 BY DEF Found
  <2>5. Search(LevelTurn, w) = Found(1, 2) BY <2>1, <2>2, <2>3, <2>4, MiddleIs, LevelEndsSoon
  <2>6. QED BY <1>1, <1>4, <2>4, <2>5
<1>5. CASE w = 4
  <2>1. LevelGoes(Place(3, 3), w) = Place(1, 2)
    <3>1. Down(3, 3, 1, 2) BY Moves
    <3>2. w < Word(3) /\ w \in Int /\ Word(3) \in Int /\ Word(1) \in Int BY <1>1, <1>5
    <3>3. QED BY <3>1, <3>2, LevelDown
  <2>2. LevelGoes(Place(1, 2), w) = Place(2, 1)
    <3>1. Up(1, 2, 2, 1) BY Moves
    <3>2. Word(1) < w /\ ~(w < Word(2)) /\ w \in Int /\ Word(1) \in Int /\ Word(2) \in Int BY <1>1, <1>5
    <3>3. QED BY <3>1, <3>2, LevelUp
  <2>3. LevelGoes(Place(2, 1), w) = Found(2, 1)
    <3>1. Up(2, 1, 3, 1) BY Moves
    <3>2. Word(2) = w /\ w \in Int /\ Word(2) \in Int /\ Word(3) \in Int BY <1>1, <1>5
    <3>3. QED BY <3>1, <3>2, LevelHits
  <2>4. LevelGoes(Found(2, 1), w) = Found(2, 1) BY <1>1, LevelKeeps
  <2>5. Found(2, 1).found /\ Found(2, 1).at = 2 BY DEF Found
  <2>6. Search(LevelTurn, w) = Found(2, 1) BY <2>1, <2>2, <2>3, <2>4, <2>5, MiddleIs, LevelEnds
  <2>7. QED BY <1>1, <1>5, <2>5, <2>6
<1>6. CASE w = 5
  <2>1. LevelGoes(Place(3, 3), w) = Place(1, 2)
    <3>1. Down(3, 3, 1, 2) BY Moves
    <3>2. w < Word(3) /\ w \in Int /\ Word(3) \in Int /\ Word(1) \in Int BY <1>1, <1>6
    <3>3. QED BY <3>1, <3>2, LevelDown
  <2>2. LevelGoes(Place(1, 2), w) = Place(2, 1)
    <3>1. Up(1, 2, 2, 1) BY Moves
    <3>2. Word(1) < w /\ ~(w < Word(2)) /\ w \in Int /\ Word(1) \in Int /\ Word(2) \in Int BY <1>1, <1>6
    <3>3. QED BY <3>1, <3>2, LevelUp
  <2>3. LevelGoes(Place(2, 1), w) = Found(2, 1)
    <3>1. Up(2, 1, 3, 1) BY Moves
    <3>2. Word(2) < w /\ w < Word(3) /\ w \in Int /\ Word(2) \in Int /\ Word(3) \in Int BY <1>1, <1>6
    <3>3. QED BY <3>1, <3>2, LevelStops
  <2>4. LevelGoes(Found(2, 1), w) = Found(2, 1) BY <1>1, LevelKeeps
  <2>5. Found(2, 1).found /\ Found(2, 1).at = 2 BY DEF Found
  <2>6. Search(LevelTurn, w) = Found(2, 1) BY <2>1, <2>2, <2>3, <2>4, <2>5, MiddleIs, LevelEnds
  <2>7. QED BY <1>1, <1>6, <2>5, <2>6
<1>7. CASE w = 6
  <2>1. LevelGoes(Place(3, 3), w) = Found(3, 3)
    <3>1. Up(3, 3, 5, 2) BY Moves
    <3>2. Word(3) = w /\ w \in Int /\ Word(3) \in Int /\ Word(5) \in Int BY <1>1, <1>7
    <3>3. QED BY <3>1, <3>2, LevelHits
  <2>2. LevelGoes(Found(3, 3), w) = Found(3, 3) BY <1>1, LevelKeeps
  <2>3. Found(3, 3).found /\ Found(3, 3).at = 3 BY DEF Found
  <2>4. Search(LevelTurn, w) = Found(3, 3) BY <2>1, <2>2, <2>3, MiddleIs, LevelEndsSoon
  <2>5. QED BY <1>1, <1>7, <2>3, <2>4
<1>8. CASE w = 7
  <2>1. LevelGoes(Place(3, 3), w) = Place(5, 2)
    <3>1. Up(3, 3, 5, 2) BY Moves
    <3>2. Word(3) < w /\ w \in Int /\ Word(3) \in Int /\ Word(5) \in Int BY <1>1, <1>8
    <3>3. QED BY <3>1, <3>2, LevelUp
  <2>2. LevelGoes(Place(5, 2), w) = Place(4, 1)
    <3>1. Down(5, 2, 4, 1) BY Moves
    <3>2. w < Word(5) /\ w \in Int /\ Word(5) \in Int /\ Word(4) \in Int BY <1>1, <1>8
    <3>3. QED BY <3>1, <3>2, LevelDown
  <2>3. LevelGoes(Place(4, 1), w) = Place(3, 1)
    <3>1. Down(4, 1, 3, 1) BY Moves
    <3>2. w < Word(4) /\ w \in Int /\ Word(4) \in Int /\ Word(3) \in Int BY <1>1, <1>8
    <3>3. QED BY <3>1, <3>2, LevelDown
  <2>4. LevelGoes(Place(3, 1), w) = Found(3, 1)
    <3>1. Up(3, 1, 4, 1) BY Moves
    <3>2. Word(3) < w /\ w < Word(4) /\ w \in Int /\ Word(3) \in Int /\ Word(4) \in Int BY <1>1, <1>8
    <3>3. QED BY <3>1, <3>2, LevelStops
  <2>5. LevelGoes(Found(3, 1), w) = Found(3, 1) BY <1>1, LevelKeeps
  <2>6. Found(3, 1).found /\ Found(3, 1).at = 3 BY DEF Found
  <2>7. Search(LevelTurn, w) = Found(3, 1) BY <2>1, <2>2, <2>3, <2>4, <2>5, <2>6, MiddleIs, LevelEnds
  <2>8. QED BY <1>1, <1>8, <2>6, <2>7
<1>9. CASE w = 8
  <2>1. LevelGoes(Place(3, 3), w) = Place(5, 2)
    <3>1. Up(3, 3, 5, 2) BY Moves
    <3>2. Word(3) < w /\ w \in Int /\ Word(3) \in Int /\ Word(5) \in Int BY <1>1, <1>9
    <3>3. QED BY <3>1, <3>2, LevelUp
  <2>2. LevelGoes(Place(5, 2), w) = Place(4, 1)
    <3>1. Down(5, 2, 4, 1) BY Moves
    <3>2. w < Word(5) /\ w \in Int /\ Word(5) \in Int /\ Word(4) \in Int BY <1>1, <1>9
    <3>3. QED BY <3>1, <3>2, LevelDown
  <2>3. LevelGoes(Place(4, 1), w) = Found(4, 1)
    <3>1. Up(4, 1, 5, 1) BY Moves
    <3>2. Word(4) = w /\ w \in Int /\ Word(4) \in Int /\ Word(5) \in Int BY <1>1, <1>9
    <3>3. QED BY <3>1, <3>2, LevelHits
  <2>4. LevelGoes(Found(4, 1), w) = Found(4, 1) BY <1>1, LevelKeeps
  <2>5. Found(4, 1).found /\ Found(4, 1).at = 4 BY DEF Found
  <2>6. Search(LevelTurn, w) = Found(4, 1) BY <2>1, <2>2, <2>3, <2>4, <2>5, MiddleIs, LevelEnds
  <2>7. QED BY <1>1, <1>9, <2>5, <2>6
<1>10. CASE w = 9
  <2>1. LevelGoes(Place(3, 3), w) = Place(5, 2)
    <3>1. Up(3, 3, 5, 2) BY Moves
    <3>2. Word(3) < w /\ w \in Int /\ Word(3) \in Int /\ Word(5) \in Int BY <1>1, <1>10
    <3>3. QED BY <3>1, <3>2, LevelUp
  <2>2. LevelGoes(Place(5, 2), w) = Place(4, 1)
    <3>1. Down(5, 2, 4, 1) BY Moves
    <3>2. w < Word(5) /\ w \in Int /\ Word(5) \in Int /\ Word(4) \in Int BY <1>1, <1>10
    <3>3. QED BY <3>1, <3>2, LevelDown
  <2>3. LevelGoes(Place(4, 1), w) = Found(4, 1)
    <3>1. Up(4, 1, 5, 1) BY Moves
    <3>2. Word(4) < w /\ w < Word(5) /\ w \in Int /\ Word(4) \in Int /\ Word(5) \in Int BY <1>1, <1>10
    <3>3. QED BY <3>1, <3>2, LevelStops
  <2>4. LevelGoes(Found(4, 1), w) = Found(4, 1) BY <1>1, LevelKeeps
  <2>5. Found(4, 1).found /\ Found(4, 1).at = 4 BY DEF Found
  <2>6. Search(LevelTurn, w) = Found(4, 1) BY <2>1, <2>2, <2>3, <2>4, <2>5, MiddleIs, LevelEnds
  <2>7. QED BY <1>1, <1>10, <2>5, <2>6
<1>11. CASE w = 10
  <2>1. LevelGoes(Place(3, 3), w) = Place(5, 2)
    <3>1. Up(3, 3, 5, 2) BY Moves
    <3>2. Word(3) < w /\ w \in Int /\ Word(3) \in Int /\ Word(5) \in Int BY <1>1, <1>11
    <3>3. QED BY <3>1, <3>2, LevelUp
  <2>2. LevelGoes(Place(5, 2), w) = Found(5, 2)
    <3>1. Up(5, 2, 6, 1) BY Moves
    <3>2. Word(5) = w /\ w \in Int /\ Word(5) \in Int /\ Word(6) \in Int BY <1>1, <1>11
    <3>3. QED BY <3>1, <3>2, LevelHits
  <2>3. LevelGoes(Found(5, 2), w) = Found(5, 2) BY <1>1, LevelKeeps
  <2>4. Found(5, 2).found /\ Found(5, 2).at = 5 BY DEF Found
  <2>5. Search(LevelTurn, w) = Found(5, 2) BY <2>1, <2>2, <2>3, <2>4, MiddleIs, LevelEndsSoon
  <2>6. QED BY <1>1, <1>11, <2>4, <2>5
<1>12. CASE w = 11
  <2>1. LevelGoes(Place(3, 3), w) = Place(5, 2)
    <3>1. Up(3, 3, 5, 2) BY Moves
    <3>2. Word(3) < w /\ w \in Int /\ Word(3) \in Int /\ Word(5) \in Int BY <1>1, <1>12
    <3>3. QED BY <3>1, <3>2, LevelUp
  <2>2. LevelGoes(Place(5, 2), w) = Found(5, 2)
    <3>1. Up(5, 2, 6, 1) BY Moves
    <3>2. Word(5) < w /\ w < Word(6) /\ w \in Int /\ Word(5) \in Int /\ Word(6) \in Int BY <1>1, <1>12
    <3>3. QED BY <3>1, <3>2, LevelStops
  <2>3. LevelGoes(Found(5, 2), w) = Found(5, 2) BY <1>1, LevelKeeps
  <2>4. Found(5, 2).found /\ Found(5, 2).at = 5 BY DEF Found
  <2>5. Search(LevelTurn, w) = Found(5, 2) BY <2>1, <2>2, <2>3, <2>4, MiddleIs, LevelEndsSoon
  <2>6. QED BY <1>1, <1>12, <2>4, <2>5
<1>13. CASE w = 12
  <2>1. LevelGoes(Place(3, 3), w) = Place(5, 2)
    <3>1. Up(3, 3, 5, 2) BY Moves
    <3>2. Word(3) < w /\ w \in Int /\ Word(3) \in Int /\ Word(5) \in Int BY <1>1, <1>13
    <3>3. QED BY <3>1, <3>2, LevelUp
  <2>2. LevelGoes(Place(5, 2), w) = Place(6, 1)
    <3>1. Up(5, 2, 6, 1) BY Moves
    <3>2. Word(5) < w /\ ~(w < Word(6)) /\ w \in Int /\ Word(5) \in Int /\ Word(6) \in Int BY <1>1, <1>13
    <3>3. QED BY <3>1, <3>2, LevelUp
  <2>3. LevelGoes(Place(6, 1), w) = Found(6, 1)
    <3>1. Up(6, 1, 7, 1) BY Moves
    <3>2. Word(6) = w /\ w \in Int /\ Word(6) \in Int /\ Word(7) \in Int BY <1>1, <1>13
    <3>3. QED BY <3>1, <3>2, LevelHits
  <2>4. LevelGoes(Found(6, 1), w) = Found(6, 1) BY <1>1, LevelKeeps
  <2>5. Found(6, 1).found /\ Found(6, 1).at = 6 BY DEF Found
  <2>6. Search(LevelTurn, w) = Found(6, 1) BY <2>1, <2>2, <2>3, <2>4, <2>5, MiddleIs, LevelEnds
  <2>7. QED BY <1>1, <1>13, <2>5, <2>6
<1>14. CASE w = 13
  <2>1. LevelGoes(Place(3, 3), w) = Place(5, 2)
    <3>1. Up(3, 3, 5, 2) BY Moves
    <3>2. Word(3) < w /\ w \in Int /\ Word(3) \in Int /\ Word(5) \in Int BY <1>1, <1>14
    <3>3. QED BY <3>1, <3>2, LevelUp
  <2>2. LevelGoes(Place(5, 2), w) = Place(6, 1)
    <3>1. Up(5, 2, 6, 1) BY Moves
    <3>2. Word(5) < w /\ ~(w < Word(6)) /\ w \in Int /\ Word(5) \in Int /\ Word(6) \in Int BY <1>1, <1>14
    <3>3. QED BY <3>1, <3>2, LevelUp
  <2>3. LevelGoes(Place(6, 1), w) = Found(6, 1)
    <3>1. Up(6, 1, 7, 1) BY Moves
    <3>2. Word(6) < w /\ w < Word(7) /\ w \in Int /\ Word(6) \in Int /\ Word(7) \in Int BY <1>1, <1>14
    <3>3. QED BY <3>1, <3>2, LevelStops
  <2>4. LevelGoes(Found(6, 1), w) = Found(6, 1) BY <1>1, LevelKeeps
  <2>5. Found(6, 1).found /\ Found(6, 1).at = 6 BY DEF Found
  <2>6. Search(LevelTurn, w) = Found(6, 1) BY <2>1, <2>2, <2>3, <2>4, <2>5, MiddleIs, LevelEnds
  <2>7. QED BY <1>1, <1>14, <2>5, <2>6
<1>15. CASE w = 14
  <2>1. LevelGoes(Place(3, 3), w) = Place(5, 2)
    <3>1. Up(3, 3, 5, 2) BY Moves
    <3>2. Word(3) < w /\ w \in Int /\ Word(3) \in Int /\ Word(5) \in Int BY <1>1, <1>15
    <3>3. QED BY <3>1, <3>2, LevelUp
  <2>2. LevelGoes(Place(5, 2), w) = Place(6, 1)
    <3>1. Up(5, 2, 6, 1) BY Moves
    <3>2. Word(5) < w /\ ~(w < Word(6)) /\ w \in Int /\ Word(5) \in Int /\ Word(6) \in Int BY <1>1, <1>15
    <3>3. QED BY <3>1, <3>2, LevelUp
  <2>3. LevelGoes(Place(6, 1), w) = Place(7, 1)
    <3>1. Up(6, 1, 7, 1) BY Moves
    <3>2. Word(6) < w /\ ~(w < Word(7)) /\ w \in Int /\ Word(6) \in Int /\ Word(7) \in Int BY <1>1, <1>15
    <3>3. QED BY <3>1, <3>2, LevelUp
  <2>4. LevelGoes(Place(7, 1), w) = Found(7, 1)
    <3>1. Up(7, 1, 7, 1) BY Moves
    <3>2. Word(7) = w /\ w \in Int /\ Word(7) \in Int BY <1>1, <1>15
    <3>3. QED BY <3>1, <3>2, LevelHits
  <2>5. LevelGoes(Found(7, 1), w) = Found(7, 1) BY <1>1, LevelKeeps
  <2>6. Found(7, 1).found /\ Found(7, 1).at = 7 BY DEF Found
  <2>7. Search(LevelTurn, w) = Found(7, 1) BY <2>1, <2>2, <2>3, <2>4, <2>5, <2>6, MiddleIs, LevelEnds
  <2>8. QED BY <1>1, <1>15, <2>6, <2>7
<1>16. CASE w = 15
  <2>1. LevelGoes(Place(3, 3), w) = Place(5, 2)
    <3>1. Up(3, 3, 5, 2) BY Moves
    <3>2. Word(3) < w /\ w \in Int /\ Word(3) \in Int /\ Word(5) \in Int BY <1>1, <1>16
    <3>3. QED BY <3>1, <3>2, LevelUp
  <2>2. LevelGoes(Place(5, 2), w) = Place(6, 1)
    <3>1. Up(5, 2, 6, 1) BY Moves
    <3>2. Word(5) < w /\ ~(w < Word(6)) /\ w \in Int /\ Word(5) \in Int /\ Word(6) \in Int BY <1>1, <1>16
    <3>3. QED BY <3>1, <3>2, LevelUp
  <2>3. LevelGoes(Place(6, 1), w) = Place(7, 1)
    <3>1. Up(6, 1, 7, 1) BY Moves
    <3>2. Word(6) < w /\ ~(w < Word(7)) /\ w \in Int /\ Word(6) \in Int /\ Word(7) \in Int BY <1>1, <1>16
    <3>3. QED BY <3>1, <3>2, LevelUp
  <2>4. LevelGoes(Place(7, 1), w) = Found(7, 1)
    <3>1. Up(7, 1, 7, 1) BY Moves
    <3>2. Word(7) < w /\ w \in Int /\ Word(7) \in Int BY <1>1, <1>16
    <3>3. QED BY <3>1, <3>2, LevelLast
  <2>5. LevelGoes(Found(7, 1), w) = Found(7, 1) BY <1>1, LevelKeeps
  <2>6. Found(7, 1).found /\ Found(7, 1).at = 7 BY DEF Found
  <2>7. Search(LevelTurn, w) = Found(7, 1) BY <2>1, <2>2, <2>3, <2>4, <2>5, <2>6, MiddleIs, LevelEnds
  <2>8. QED BY <1>1, <1>16, <2>6, <2>7
<1>17. QED BY <1>1, <1>2, <1>3, <1>4, <1>5, <1>6, <1>7, <1>8, <1>9, <1>10, <1>11, <1>12, <1>13, <1>14, <1>15, <1>16

\* The searches of jnl_dl_description_fetch and jnl_dl_level_fetch end and find
\* their entry, whatever INT_MAX is: the levels in between are computed from it.
THEOREM SearchesAreFinite == Spec => []SearchesEnd
<1>1. \A l \in (-IntMax - 1) .. IntMax : Search(DescriptionTurn, l).found /\ dl_description_fetch(l) = NearestAbove(l)
  BY FetchIsNearest
<1>2. ASSUME NEW w \in Words
      PROVE  /\ Search(LevelTurn, w).found
             /\ DetailOf([kind |-> "word", value |-> w]) =
                  IF w % 2 = 0 THEN Description_Levels[w \div 2] ELSE PROGRESS
  <2>1. PICK i : i = dl_level_fetch(w) OBVIOUS
  <2>2. Search(LevelTurn, w).found /\ (w % 2 = 0 => Word(i) = w /\ i = w \div 2) /\ (w % 2 # 0 => Word(i) # w)
    BY <2>1, LevelFound DEF dl_level_fetch
  <2>3. DetailOf([kind |-> "word", value |-> w]) = IF Word(i) = w THEN Description_Levels[i] ELSE PROGRESS
    BY <2>1 DEF DetailOf
  <2>4. QED BY <2>2, <2>3
<1>3. SearchesEnd BY <1>1, <1>2 DEF SearchesEnd
<1>4. QED BY <1>3, PTL

-----------------------------------------------------------------------------
(* What a call has sent.                                                   *)

\* What jnl_DIAGNOSTIC and jnl_RESULT send for the call n.
DiagnosticOf(n) == Message(DIAGNOSTIC, [i \in Index |-> Part(i, n)])
ResultOf(n) == Message(RESULT, <<Text(n)>>)

\* A call with parts is on its first message; a bad result goes on to a second
\* one without parts.  Until the last message nothing, or the diagnostic, is sent.
OpenInv(t) ==
  LET c == th[t] IN
  /\ \/ c.op = "log" /\ ~c.bad /\ c.pc = "log" /\ c.parts = NoParts
     \/ c.op = "diagnostic" /\ ~c.bad /\ c.level = DIAGNOSTIC /\ (c.pc = "log" => c.parts # NoParts)
     \/ c.op = "result" /\ ~c.bad /\ c.level = RESULT /\ c.pc = "log" /\ c.parts = NoParts
     \/ c.op = "result" /\ c.bad /\ c.level = DIAGNOSTIC /\ (c.pc = "log" => c.parts # NoParts)
     \/ c.op = "result" /\ c.bad /\ c.level = RESULT /\ c.pc = "log" /\ c.parts = NoParts
  /\ ~c.error => sent[t] = IF c.op = "result" /\ c.bad /\ c.level = RESULT THEN DiagnosticOf(c.n) ELSE <<>>

\* What the call has sent and returned when it is over.
DoneInv(t) ==
  LET c == th[t] IN
  ~c.error =>
    /\ c.ret = IF c.bad THEN -1 ELSE 0
    /\ c.op \in {"log", "diagnostic", "result"}
    /\ c.op = "log" => sent[t] = Message(c.level, <<Text(c.n)>>)
    /\ c.op = "diagnostic" => sent[t] = DiagnosticOf(c.n)
    /\ c.op = "result" => sent[t] = IF c.bad THEN DiagnosticOf(c.n) \o ResultOf(c.n) ELSE ResultOf(c.n)

MessageInv(t) ==
  /\ stage = "init" => th[t].n = 0
  /\ th[t].n = 0 => th[t].pc = "idle"
  /\ th[t].pc # "idle" => OpenInv(t)
  /\ th[t].pc = "idle" /\ th[t].n # 0 => DoneInv(t)

\* The detail level is a level, whatever TJNL_DETAIL is.
DetailInv == detail \in (-IntMax - 1) .. IntMax
SayInv == DetailInv /\ \A t \in Threads : MessageInv(t)

\* A thread that does nothing keeps its message.
LEMMA MessageKept ==
  ASSUME NEW u \in Threads, MessageInv(u), th'[u] = th[u], sent'[u] = sent[u], UNCHANGED detail,
         stage' = "init" => stage = "init"
  PROVE  MessageInv(u)'
<1>1. DiagnosticOf(th[u].n)' = DiagnosticOf(th[u].n) /\ ResultOf(th[u].n)' = ResultOf(th[u].n)
  BY DEF DiagnosticOf, ResultOf, Message
<1>2. OpenInv(u) => OpenInv(u)' BY <1>1 DEF OpenInv, DiagnosticOf, Message
<1>3. DoneInv(u) => DoneInv(u)' BY <1>1 DEF DoneInv, DiagnosticOf, ResultOf, Message
<1>4. QED BY <1>2, <1>3 DEF MessageInv

\* A step of t that is about a part of its first message.
Filling(t) ==
  /\ stage = "main" /\ UNCHANGED <<stage, detail, sent>>
  /\ th[t].pc \notin {"idle", "log"} /\ th'[t].pc # "idle"
  /\ \A u \in Threads \ {t} : th'[u] = th[u]
  /\ th'[t].n = th[t].n /\ th'[t].op = th[t].op /\ th'[t].bad = th[t].bad /\ th'[t].level = th[t].level
  /\ th[t].error => th'[t].error
  /\ th'[t].pc = "log" => th'[t].parts # NoParts

\* It leaves the message as it is.
LEMMA FillingKeeps ==
  ASSUME SayInv, NEW t \in Threads, Filling(t)
  PROVE  SayInv'
<1>1. /\ stage = "main" /\ UNCHANGED <<stage, detail, sent>>
      /\ \A u \in Threads \ {t} : th'[u] = th[u]
  BY DEF Filling
<1>2. ASSUME NEW u \in Threads \ {t} PROVE MessageInv(u)' BY <1>1, MessageKept DEF SayInv
<1>3. OpenInv(t) /\ th[t].n # 0 BY DEF Filling, SayInv, MessageInv
<1>4. DiagnosticOf(th[t].n)' = DiagnosticOf(th[t].n) BY <1>1 DEF DiagnosticOf, Message, Filling
<1>5. OpenInv(t)' BY <1>1, <1>3, <1>4 DEF OpenInv, Filling
<1>6. MessageInv(t)' BY <1>1, <1>3, <1>5 DEF MessageInv, Filling
<1>7. DetailInv' BY <1>1 DEF DetailInv, SayInv
<1>8. QED BY <1>2, <1>6, <1>7 DEF SayInv

\* The end of a part is such a step.
LEMMA PartDoneFills ==
  ASSUME Inv, NEW t \in Threads, NEW ptr \in Groups \cup {None}, PartDone(t, ptr), stage = "main",
         UNCHANGED <<stage, detail>>, th[t].pc \in {"located", "check", "inserted", "format"}
  PROVE  Filling(t)
<1>1. th[t].i \in Index BY DEF Inv, GroupInv
<1>2. /\ \A u \in Threads \ {t} : th'[u] = th[u]
      /\ th'[t].parts = [th[t].parts EXCEPT ![th[t].i] = ptr]
      /\ th'[t].n = th[t].n
      /\ th'[t].op = th[t].op /\ th'[t].bad = th[t].bad /\ th'[t].level = th[t].level
      /\ th'[t].error = (th[t].error \/ ptr = None)
      /\ th'[t].pc \in {"part", "log"}
      /\ UNCHANGED sent
  BY <1>1, PartDoneDoes DEF Inv
<1>3. th[t].error => th'[t].error BY <1>2, Zenon
<1>4. th'[t].parts # NoParts
  <2>1. th[t].parts \in [Index -> Groups \cup {None, "todo"}] BY DEF Inv, TypeInv, Local
  <2>2. th'[t].parts[th[t].i] = ptr BY <1>1, <1>2, <2>1
  <2>3. NoParts[th[t].i] = "todo" /\ ptr # "todo" BY <1>1, JournalAssumption DEF NoParts
  <2>4. QED BY <2>2, <2>3
<1>5. QED BY <1>2, <1>3, <1>4 DEF Filling

\* So is every step of _jnl_buffer_fetch and of jnl_vformat_message_.
LEMMA FetchFills ==
  ASSUME Inv, NEW t \in Threads,
         \/ FetchLocate(t) \/ FetchAllocate(t) \/ FetchFails(t) \/ FetchInsert(t) \/ FetchInserted(t) \/ FetchFound(t)
         \/ FormatMessage(t)
  PROVE  Filling(t)
<1>1. /\ stage = "main" /\ UNCHANGED <<stage, detail>>
      /\ th[t].pc \in {"part", "located", "check", "inserted", "format"}
  BY DEF FetchLocate, FetchAllocate, FetchFails, FetchInsert, FetchInserted, FetchFound, FormatMessage, At, Answered, procVars
<1>2. th \in [Threads -> Local] BY DEF Inv, TypeInv
<1> DEFINE Goes(p, i, j) == th' = [th EXCEPT ![t] = [th[t] EXCEPT !.pc = p, !.i = i, !.jnl = j]]
<1>3. ASSUME NEW p \in {"located", "check", "inserted", "format"}, NEW i, NEW j, Goes(p, i, j), UNCHANGED sent
      PROVE  Filling(t)
  <2> DEFINE c == th[t]
             d == [c EXCEPT !.pc = p, !.i = i, !.jnl = j]
  <2>1. c \in Local BY <1>2
  <2>2. /\ d.n = c.n /\ d.op = c.op /\ d.bad = c.bad /\ d.level = c.level /\ d.error = c.error /\ d.pc = p
    BY <2>1 DEF Local
  <2>3. th'[t] = d /\ \A u \in Threads \ {t} : th'[u] = th[u] BY <1>2, <1>3
  <2> HIDE DEF c, d
  <2>4. QED BY <1>1, <1>3, <2>2, <2>3 DEF Filling, c
<1>4. ASSUME NEW ptr \in Groups \cup {None}, PartDone(t, ptr), th[t].pc # "part" PROVE Filling(t)
  BY <1>1, <1>4, PartDoneFills
<1>5. CASE FetchLocate(t)
  <2>1. PICK i \in Index : th' = [th EXCEPT ![t].pc = "located", ![t].i = i] BY <1>5 DEF FetchLocate
  <2>2. Goes("located", i, th[t].jnl) BY <1>2, <2>1 DEF Local
  <2> HIDE DEF Goes
  <2>3. QED BY <1>3, <1>5, <2>2 DEF FetchLocate
<1>6. CASE FetchAllocate(t)
  <2>1. PICK g \in Groups : th' = [th EXCEPT ![t].pc = "check", ![t].jnl = g] BY <1>6 DEF FetchAllocate
  <2>2. Goes("check", th[t].i, g) BY <1>2, <2>1 DEF Local
  <2> HIDE DEF Goes
  <2>3. QED BY <1>3, <1>6, <2>2 DEF FetchAllocate
<1>7. CASE FetchInsert(t)
  <2>1. CASE th' = [th EXCEPT ![t].pc = "inserted"] /\ UNCHANGED sent
    <3>1. Goes("inserted", th[t].i, th[t].jnl) BY <1>2, <2>1 DEF Local
    <3> HIDE DEF Goes
    <3>2. QED BY <1>3, <2>1, <3>1
  <2>2. CASE PartDone(t, None) BY <1>4, <1>7, <2>2 DEF FetchInsert, At, Answered
  <2>3. QED BY <1>7, <2>1, <2>2 DEF FetchInsert
<1>8. CASE FetchInserted(t)
  <2>1. CASE th' = [th EXCEPT ![t].pc = "format"] /\ UNCHANGED sent
    <3>1. Goes("format", th[t].i, th[t].jnl) BY <1>2, <2>1 DEF Local
    <3> HIDE DEF Goes
    <3>2. QED BY <1>3, <2>1, <3>1
  <2>2. CASE PartDone(t, None) BY <1>4, <1>8, <2>2 DEF FetchInserted, At, Answered
  <2>3. QED BY <1>8, <2>1, <2>2 DEF FetchInserted
<1>9. CASE FetchFound(t)
  <2>1. th' = [th EXCEPT ![t].pc = "format", ![t].jnl = answer[t].val] /\ UNCHANGED sent BY <1>9 DEF FetchFound
  <2>2. Goes("format", th[t].i, answer[t].val) BY <1>2, <2>1 DEF Local
  <2> HIDE DEF Goes
  <2>3. QED BY <1>3, <2>1, <2>2
<1>10. CASE FormatMessage(t)
  <2>1. th[t].jnl \in Groups BY <1>10 DEF FormatMessage, At, Inv, TypeInv, Local, GroupInv
  <2>2. QED BY <1>4, <1>10, <2>1 DEF FormatMessage, At
<1>11. CASE FetchFails(t) BY <1>4, <1>11 DEF FetchFails, At, Answered
<1>12. QED BY <1>5, <1>6, <1>7, <1>8, <1>9, <1>10, <1>11

\* The end of a message, field by field.
LEMMA ReturnDoes ==
  ASSUME Inv, NEW t \in Threads, NEW r \in {0, -1}, NEW lines, Return(t, r, lines)
  PROVE  /\ \A u \in Threads \ {t} : th'[u] = th[u] /\ sent'[u] = sent[u]
         /\ sent'[t] = sent[t] \o lines
         /\ th'[t].n = th[t].n /\ th'[t].op = th[t].op /\ th'[t].bad = th[t].bad /\ th'[t].parts = NoParts
         /\ ~th'[t].error => ~th[t].error /\ r = 0
         /\ IF th[t].bad /\ th[t].level = DIAGNOSTIC
            THEN th'[t].level = RESULT /\ th'[t].pc = th[t].pc
            ELSE /\ th'[t].level = th[t].level /\ th'[t].pc = "idle"
                 /\ th'[t].ret = IF th[t].bad THEN -1 ELSE r
<1> DEFINE c == th[t]
           err == c.error \/ r # 0
           d == [c EXCEPT !.parts = NoParts, !.error = err]
           e1 == [d EXCEPT !.level = RESULT]
           back == IF c.bad THEN -1 ELSE r
           e2 == [d EXCEPT !.pc = "idle", !.ret = back]
           more == c.bad /\ c.level = DIAGNOSTIC
<1>1. c \in Local BY DEF Inv, TypeInv
<1>2. /\ th' = [th EXCEPT ![t] = IF more THEN e1 ELSE e2]
      /\ sent' = [sent EXCEPT ![t] = @ \o lines]
  BY DEF Return
<1>3. err \in BOOLEAN /\ (c.error => err) /\ (r # 0 => err) BY Zenon
<1> HIDE DEF c, err, back, more
<1>4. d.pc = c.pc /\ d.n = c.n /\ d.op = c.op /\ d.bad = c.bad /\ d.parts = NoParts /\ d.error = err
      /\ d.level = c.level /\ d = [c EXCEPT !.parts = NoParts, !.error = err]
  BY <1>1 DEF Local
<1>5. /\ e1.pc = c.pc /\ e1.n = c.n /\ e1.op = c.op /\ e1.bad = c.bad /\ e1.parts = NoParts /\ e1.error = err
      /\ e1.level = RESULT
  BY <1>1 DEF Local
<1>6. /\ e2.pc = "idle" /\ e2.n = c.n /\ e2.op = c.op /\ e2.bad = c.bad /\ e2.parts = NoParts /\ e2.error = err
      /\ e2.level = c.level /\ e2.ret = back
  BY <1>1 DEF Local
<1> HIDE DEF d, e1, e2
<1>7. /\ th'[t] = (IF more THEN e1 ELSE e2) /\ sent'[t] = sent[t] \o lines
      /\ \A u \in Threads \ {t} : th'[u] = th[u] /\ sent'[u] = sent[u]
  BY <1>2 DEF Inv, TypeInv
<1>8. th'[t].error = err BY <1>5, <1>6, <1>7
<1>9. ~th'[t].error => ~th[t].error /\ r = 0
  <2>1. ~err => ~c.error /\ r = 0 BY DEF err
  <2>2. QED BY <1>8, <2>1, Zenon DEF c
<1>10. CASE more
  <2>1. th'[t] = e1 BY <1>7, <1>10
  <2>2. QED BY <1>5, <1>7, <1>9, <1>10, <2>1 DEF c, more
<1>11. CASE ~more
  <2>1. th'[t] = e2 BY <1>7, <1>11
  <2>2. QED BY <1>6, <1>7, <1>9, <1>11, <2>1 DEF c, more, back
<1>12. QED BY <1>10, <1>11

\* The message t is on.
Due(t) == Message(th[t].level, IF th[t].parts = NoParts THEN <<Text(th[t].n)>>
                               ELSE [i \in Index |-> Part(i, th[t].n)])

\* A message that is sent as it is due ends the call, or its first half.
LEMMA ReturnKeeps ==
  ASSUME Inv, SayInv, NEW t \in Threads, NEW r \in {0, -1}, NEW lines \in Seq(Lines(t)), Return(t, r, lines),
         stage = "main", UNCHANGED <<stage, detail>>, th[t].pc = "log",
         ~th[t].error /\ r = 0 => lines = Due(t)
  PROVE  SayInv'
<1>1. /\ \A u \in Threads \ {t} : th'[u] = th[u] /\ sent'[u] = sent[u]
      /\ sent'[t] = sent[t] \o lines
      /\ th'[t].n = th[t].n /\ th'[t].op = th[t].op /\ th'[t].bad = th[t].bad /\ th'[t].parts = NoParts
      /\ ~th'[t].error => ~th[t].error /\ r = 0
      /\ IF th[t].bad /\ th[t].level = DIAGNOSTIC
         THEN th'[t].level = RESULT /\ th'[t].pc = "log"
         ELSE /\ th'[t].level = th[t].level /\ th'[t].pc = "idle"
              /\ th'[t].ret = IF th[t].bad THEN -1 ELSE r
  BY ReturnDoes
<1>2. ASSUME NEW u \in Threads \ {t} PROVE MessageInv(u)' BY <1>1, MessageKept DEF SayInv
<1>3. OpenInv(t) /\ th[t].n # 0 BY DEF SayInv, MessageInv
<1>4. /\ \A n : DiagnosticOf(n)' = DiagnosticOf(n) /\ ResultOf(n)' = ResultOf(n)
      /\ \A l, body : Message(l, body)' = Message(l, body)
  BY DEF DiagnosticOf, ResultOf, Message
<1>5. DIAGNOSTIC # RESULT BY JournalAssumption DEF DIAGNOSTIC, RESULT, ASSERTION
<1>6. <<>> \o lines = lines OBVIOUS
<1>7. MessageInv(t)'
  <2>1. CASE th[t].bad /\ th[t].level = DIAGNOSTIC
    <3>1. th[t].op = "result" /\ th[t].parts # NoParts /\ (~th[t].error => sent[t] = <<>>)
      BY <1>3, <1>5, <2>1 DEF OpenInv
    <3>2. ~th'[t].error => sent'[t] = DiagnosticOf(th[t].n)
      BY <1>1, <1>6, <2>1, <3>1 DEF Due, DiagnosticOf
    <3>3. OpenInv(t)' BY <1>1, <1>4, <2>1, <3>1, <3>2 DEF OpenInv
    <3>4. QED BY <1>1, <1>3, <2>1, <3>3 DEF MessageInv
  <2>2. CASE th[t].bad /\ th[t].level # DIAGNOSTIC
    <3>1. /\ th[t].op = "result" /\ th[t].parts = NoParts /\ th[t].level = RESULT
          /\ ~th[t].error => sent[t] = DiagnosticOf(th[t].n)
      BY <1>3, <1>5, <2>2 DEF OpenInv
    <3>2. ~th'[t].error => sent'[t] = DiagnosticOf(th[t].n) \o ResultOf(th[t].n)
      BY <1>1, <3>1 DEF Due, ResultOf
    <3>3. DoneInv(t)' BY <1>1, <1>4, <2>2, <3>1, <3>2 DEF DoneInv
    <3>4. QED BY <1>1, <1>3, <2>2, <3>3 DEF MessageInv
  <2>3. CASE ~th[t].bad
    <3>1. ~th'[t].error => sent'[t] = Due(t) BY <1>1, <1>3, <1>6, <2>3 DEF OpenInv
    <3>2. \/ th[t].op = "log" /\ th[t].parts = NoParts
          \/ th[t].op = "diagnostic" /\ th[t].level = DIAGNOSTIC /\ th[t].parts # NoParts
          \/ th[t].op = "result" /\ th[t].level = RESULT /\ th[t].parts = NoParts
      BY <1>3, <2>3 DEF OpenInv
    <3>3. DoneInv(t)'
      <4>1. CASE th[t].op = "log" /\ th[t].parts = NoParts
        BY <1>1, <1>4, <2>3, <3>1, <4>1 DEF DoneInv, Due
      <4>2. CASE th[t].op = "diagnostic" /\ th[t].level = DIAGNOSTIC /\ th[t].parts # NoParts
        BY <1>1, <1>4, <2>3, <3>1, <4>2 DEF DoneInv, Due, DiagnosticOf
      <4>3. CASE th[t].op = "result" /\ th[t].level = RESULT /\ th[t].parts = NoParts
        BY <1>1, <1>4, <2>3, <3>1, <4>3 DEF DoneInv, Due, ResultOf
      <4>4. QED BY <3>2, <4>1, <4>2, <4>3
    <3>4. QED BY <1>1, <1>3, <2>3, <3>3 DEF MessageInv
  <2>4. QED BY <2>1, <2>2, <2>3
<1>8. DetailInv' BY DEF DetailInv, SayInv
<1>9. QED BY <1>2, <1>7, <1>8 DEF SayInv

\* What jnl_vlog_ writes is what is due, unless something has failed.
LEMMA LogKeeps ==
  ASSUME Inv, SayInv, NEW t \in Threads, LogTooHigh(t) \/ LogCommit(t) \/ LogFails(t)
  PROVE  SayInv'
<1>1. stage = "main" /\ th[t].pc = "log" /\ UNCHANGED <<stage, detail>>
  BY DEF LogTooHigh, LogCommit, LogFails, At, procVars
<1>2. th[t].level \in (-IntMax - 1) .. IntMax BY DEF Inv, TypeInv, Local
<1>3. detail \in Int /\ th[t].level \in Int BY <1>2, JournalAssumption DEF SayInv, DetailInv
<1>4. CASE LogTooHigh(t)
  <2>1. Return(t, 0, <<>>) /\ th[t].level > detail BY <1>4 DEF LogTooHigh
  <2>2. Due(t) = <<>> BY <2>1 DEF Due, Message
  <2>3. <<>> \in Seq(Lines(t)) OBVIOUS
  <2>4. QED BY <1>1, <2>1, <2>2, <2>3, ReturnKeeps
<1>5. CASE LogFails(t)
  <2>1. PICK r \in {0, -1} : r # 0 /\ Return(t, r, <<>>) BY <1>5 DEF LogFails
  <2>2. <<>> \in Seq(Lines(t)) OBVIOUS
  <2>3. QED BY <1>1, <2>1, <2>2, ReturnKeeps
<1>6. CASE LogCommit(t)
  <2> DEFINE l == dl_description_fetch(th[t].level)
             exact == l = th[t].level
             lines == <<Header(l, exact)>> \o Body(t) \o <<Blank>>
  <2>1. Return(t, 0, lines) /\ th[t].level <= detail BY <1>6 DEF LogCommit
  <2>2. lines \in Seq(Lines(t))
    <3>1. exact \in BOOLEAN BY Zenon
    <3> HIDE DEF exact
    <3>2. Header(l, exact) \in Lines(t) /\ Blank \in Lines(t) BY <1>2, <3>1 DEF Lines
    <3>3. Body(t) \in Seq(Lines(t)) BY <1>1, BodyLines
    <3> HIDE DEF l
    <3>4. QED BY <3>2, <3>3
  <2>3. ASSUME ~th[t].error PROVE lines = Due(t)
    <3> DEFINE body == IF th[t].parts = NoParts THEN <<Text(th[t].n)>> ELSE [i \in Index |-> Part(i, th[t].n)]
    <3>1. Body(t) = body
      <4>1. CASE th[t].parts = NoParts BY <4>1 DEF Body
      <4>2. CASE th[t].parts # NoParts
        <5>1. ASSUME NEW i \in Index
              PROVE  th[t].parts[i] # None /\ text[th[t].parts[i]][i] = th[t].n
          <6>1. th[t].parts[i] \in Groups \cup {None} BY <1>1, <4>2 DEF Inv, TypeInv, Local, GroupInv
          <6>2. th[t].parts[i] # None BY <2>3 DEF Inv, PartInv
          <6>3. QED BY <6>1, <6>2 DEF Inv, PartInv
        <5>2. QED BY <4>2, <5>1 DEF Body
      <4>3. QED BY <4>1, <4>2
    <3>2. l = NearestAbove(th[t].level) BY <1>2, FetchIsNearest
    <3>3. ~(th[t].level > detail) BY <1>3, <2>1
    <3> HIDE DEF body, l
    <3>4. Due(t) = <<Header(l, exact)>> \o body \o <<Blank>> BY <3>2, <3>3 DEF Due, Message, body
    <3>5. QED BY <3>1, <3>4
  <2> HIDE DEF lines
  <2>4. QED BY <1>1, <2>1, <2>2, <2>3, ReturnKeeps
<1>7. QED BY <1>4, <1>5, <1>6

\* A call begins with nothing sent.
LEMMA CallSays ==
  ASSUME Inv, SayInv, NEW t \in Threads, Log(t) \/ Diagnostic(t) \/ Result(t)
  PROVE  SayInv'
<1> USE JournalAssumption
<1> DEFINE Opens(c) ==
      \/ c.op = "log" /\ ~c.bad /\ c.pc = "log"
      \/ c.op = "diagnostic" /\ ~c.bad /\ c.level = DIAGNOSTIC /\ c.pc = "part"
      \/ c.op = "result" /\ ~c.bad /\ c.level = RESULT /\ c.pc = "log"
      \/ c.op = "result" /\ c.bad /\ c.level = DIAGNOSTIC /\ c.pc = "part"
<1>1. PICK c \in Local : Call(t, c) /\ c.parts = NoParts /\ Opens(c)
  <2>1. Idle \in Local /\ Idle.parts = NoParts /\ ~Idle.bad BY DEF Idle, Local, NoParts
  <2>2. {DIAGNOSTIC, RESULT} \cup Levels \subseteq (-IntMax - 1) .. IntMax
    BY DEF DIAGNOSTIC, RESULT, ASSERTION
  <2>3. CASE Log(t)
    <3>1. PICK l \in Levels : Call(t, [Idle EXCEPT !.op = "log", !.pc = "log", !.level = l])
      BY <2>3 DEF Log
    <3> DEFINE c == [Idle EXCEPT !.op = "log", !.pc = "log", !.level = l]
    <3>2. c \in Local /\ c.parts = NoParts /\ c.op = "log" /\ c.pc = "log" /\ ~c.bad
      BY <2>1, <2>2 DEF Local
    <3>3. QED BY <3>1, <3>2
  <2>4. CASE Diagnostic(t)
    <3> DEFINE c == [Idle EXCEPT !.op = "diagnostic", !.pc = "part", !.level = DIAGNOSTIC]
    <3>1. Call(t, c) BY <2>4 DEF Diagnostic
    <3>2. c \in Local /\ c.parts = NoParts /\ c.op = "diagnostic" /\ c.pc = "part" /\ ~c.bad /\ c.level = DIAGNOSTIC
      BY <2>1, <2>2 DEF Local
    <3>3. QED BY <3>1, <3>2
  <2>5. CASE Result(t)
    <3>1. PICK bad \in BOOLEAN :
            Call(t, [Idle EXCEPT !.op = "result", !.bad = bad, !.pc = IF bad THEN "part" ELSE "log",
                                 !.level = IF bad THEN DIAGNOSTIC ELSE RESULT])
      BY <2>5 DEF Result
    <3> DEFINE p == IF bad THEN "part" ELSE "log"
               l == IF bad THEN DIAGNOSTIC ELSE RESULT
               c == [Idle EXCEPT !.op = "result", !.bad = bad, !.pc = p, !.level = l]
    <3>2. p \in {"part", "log"} /\ l \in (-IntMax - 1) .. IntMax BY <2>2
    <3>3. (bad /\ p = "part" /\ l = DIAGNOSTIC) \/ (~bad /\ p = "log" /\ l = RESULT) OBVIOUS
    <3>4. Call(t, c) BY <3>1
    <3> HIDE DEF p, l
    <3>5. c \in Local /\ c.parts = NoParts /\ c.op = "result" /\ c.pc = p /\ c.bad = bad /\ c.level = l
      BY <2>1, <3>2 DEF Local
    <3> HIDE DEF c
    <3>6. QED BY <3>3, <3>4, <3>5
  <2>6. QED BY <2>3, <2>4, <2>5
<1> HIDE DEF Opens
<1>2. /\ stage = "main" /\ UNCHANGED <<stage, detail>> /\ calls \in Nat
      /\ th' = [th EXCEPT ![t] = [c EXCEPT !.n = calls + 1]] /\ sent' = [sent EXCEPT ![t] = <<>>]
  BY <1>1 DEF Call, At, procVars, Inv, TypeInv
<1> DEFINE d == [c EXCEPT !.n = calls + 1]
<1>3. /\ d.op = c.op /\ d.bad = c.bad /\ d.level = c.level /\ d.pc = c.pc /\ d.parts = c.parts /\ d.n = calls + 1
  BY DEF Local
<1> HIDE DEF d
<1>4. /\ th'[t] = d /\ sent'[t] = <<>>
      /\ \A u \in Threads \ {t} : th'[u] = th[u] /\ sent'[u] = sent[u]
  BY <1>2 DEF d, Inv, TypeInv
<1>5. ASSUME NEW u \in Threads \ {t} PROVE MessageInv(u)' BY <1>2, <1>4, MessageKept DEF SayInv
<1>6. DIAGNOSTIC # RESULT BY DEF DIAGNOSTIC, RESULT, ASSERTION
<1>7. MessageInv(t)'
  <2>1. d.n # 0 /\ d.pc # "idle" BY <1>1, <1>2, <1>3 DEF Opens
  <2>2. OpenInv(t)' BY <1>1, <1>3, <1>4, <1>6 DEF OpenInv, Opens
  <2>3. QED BY <1>2, <1>4, <2>1, <2>2 DEF MessageInv
<1>8. DetailInv' BY <1>2 DEF DetailInv, SayInv
<1>9. QED BY <1>5, <1>7, <1>8 DEF SayInv

\* _jnl_init_ takes a level of the table, or the number given.
LEMMA DetailIsLevel ==
  ASSUME NEW e \in Environment
  PROVE  DetailOf(e) \in (-IntMax - 1) .. IntMax
<1> USE JournalAssumption
<1>1. \A i \in 1 .. 7 : Description_Levels[i] \in (-IntMax - 1) .. IntMax
  <2>1. PICK h, q : h = IntMax \div 2 /\ q = h \div 2 OBVIOUS
  <2>2. h \in 0 .. IntMax /\ q \in 0 .. IntMax BY <2>1
  <2>3. Description_Levels = <<-IntMax - 1, -IntMax - 1 + 1 + 1, IntMax, 0, -IntMax - 1 + 1, h, q>>
    BY <2>1 DEF Description_Levels, ASSERTION, RESULT, DIAGNOSTIC, PROGRESS, VERBOSE, STACK, ENCYCLOPEDIC
  <2>4. QED BY <2>2, <2>3
<1>2. PROGRESS \in (-IntMax - 1) .. IntMax BY DEF PROGRESS
<1>3. CASE e.kind = "unset" BY <1>2, <1>3 DEF DetailOf
<1>4. CASE e.kind = "number" /\ e.value \in (-IntMax - 1) .. IntMax BY <1>4 DEF DetailOf
<1>5. CASE e.kind = "word" /\ e.value \in Words
  <2>1. PICK i : i = dl_level_fetch(e.value) OBVIOUS
  <2>2. i \in 1 .. 7 BY <1>5, <2>1, LevelFound DEF dl_level_fetch
  <2>3. DetailOf(e) = IF Word(i) = e.value THEN Description_Levels[i] ELSE PROGRESS
    BY <1>5, <2>1 DEF DetailOf
  <2>4. QED BY <1>1, <1>2, <2>2, <2>3
<1>6. QED BY <1>3, <1>4, <1>5, EnvironmentAssumption

\* Every step keeps what is said of the messages.
LEMMA SayNext ==
  ASSUME Inv, SayInv, [Next]_vars
  PROVE  SayInv'
<1>1. CASE jnl_init
  <2>1. stage = "init" /\ stage' # "init" /\ UNCHANGED <<th, sent>> /\ (\E e \in Environment : detail' = DetailOf(e))
    BY <1>1 DEF jnl_init, threadVars
  <2>2. DetailInv' BY <2>1, DetailIsLevel DEF DetailInv
  <2>3. ASSUME NEW t \in Threads PROVE MessageInv(t)'
    <3>1. th[t].n = 0 /\ th[t].pc = "idle" BY <2>1 DEF SayInv, MessageInv
    <3>2. QED BY <2>1, <3>1 DEF MessageInv
  <2>4. QED BY <2>2, <2>3 DEF SayInv
<1>2. ASSUME NEW t \in Threads, Log(t) \/ Diagnostic(t) \/ Result(t) PROVE SayInv' BY <1>2, CallSays
<1>3. ASSUME UNCHANGED <<th, sent, detail>>, stage' = "init" => stage = "init" PROVE SayInv'
  <2>1. \A t \in Threads : MessageInv(t)' BY <1>3, MessageKept DEF SayInv
  <2>2. QED BY <1>3, <2>1 DEF SayInv, DetailInv
<1>4. ASSUME NEW t \in Threads, Step(t) PROVE SayInv'
  <2>1. CASE Table(t) \/ LogNull(t)
    <3>1. UNCHANGED <<th, sent, detail>> /\ (stage' = "init" => stage = "init")
      BY <2>1 DEF Table, TableLocates, TableInserts, TableAnswers, LogNull, procVars
    <3>2. QED BY <1>3, <3>1
  <2>2. CASE \/ FetchLocate(t) \/ FetchAllocate(t) \/ FetchFails(t) \/ FetchInsert(t) \/ FetchInserted(t) \/ FetchFound(t)
             \/ FormatMessage(t)
    BY <2>2, FetchFills, FillingKeeps
  <2>3. CASE LogTooHigh(t) \/ LogCommit(t) \/ LogFails(t) BY <2>3, LogKeeps
  <2>4. QED BY <1>4, <2>1, <2>2, <2>3 DEF Step
<1>5. CASE UNCHANGED vars BY <1>3, <1>5 DEF vars
<1>6. QED BY <1>1, <1>2, <1>4, <1>5 DEF Next

\* A call that met no error has given whole messages to stf_jnl_msg and no other:
\* the header of the right level, the caller's text or parts, a blank line;
\* nothing when the detail level excludes them, be it a result; and a bad result its diagnostic first, after
\* which jnl_result_ returns -1.  Whatever the other threads do meanwhile.
THEOREM MessagesAreWhole == Spec => []WholeMessage
<1>1. Init => SayInv
  <2> SUFFICES ASSUME Init PROVE SayInv OBVIOUS
  <2>1. detail = 0 /\ stage = "init" /\ th = [t \in Threads |-> Idle] BY DEF Init, PROGRESS
  <2>2. Idle.n = 0 /\ Idle.pc = "idle" BY DEF Idle
  <2>3. DetailInv BY <2>1, JournalAssumption DEF DetailInv
  <2>4. \A t \in Threads : MessageInv(t) BY <2>1, <2>2 DEF MessageInv
  <2>5. QED BY <2>3, <2>4 DEF SayInv
<1>2. Inv /\ SayInv /\ [Next]_vars => SayInv' BY SayNext
<1>3. ASSUME Inv, SayInv PROVE WholeMessage
  <2> SUFFICES ASSUME NEW t \in Threads, th[t].pc = "idle", th[t].n > 0, ~th[t].error
               PROVE  /\ th[t].ret = IF th[t].bad THEN -1 ELSE 0
                      /\ sent[t] = CASE th[t].op = "log" -> Message(th[t].level, <<Text(th[t].n)>>)
                                     [] th[t].op = "diagnostic" -> DiagnosticOf(th[t].n)
                                     [] th[t].op = "result" -> IF th[t].bad THEN DiagnosticOf(th[t].n) \o ResultOf(th[t].n)
                                                               ELSE ResultOf(th[t].n)
    BY DEF WholeMessage, DiagnosticOf, ResultOf
  <2>1. th[t].n # 0 BY <1>3 DEF Inv, TypeInv, Local
  <2>2. DoneInv(t) BY <1>3, <2>1 DEF SayInv, MessageInv
  <2>3. QED BY <2>2 DEF DoneInv
<1>4. QED BY <1>1, <1>2, <1>3, Invariance, PTL DEF Spec

=============================================================================
