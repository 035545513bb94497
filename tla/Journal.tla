------------------------------- MODULE Journal -------------------------------
(***************************************************************************)
(* The journal library of contrib/jnl (libjnl.c), used by every thread of  *)
(* a test program.  A message has a detail level and is committed when     *)
(* that level is within the level of the environment (TJNL_DETAIL).  A     *)
(* diagnostic is put together from four parts, each written into a buffer  *)
(* that belongs to the calling thread; the buffers of a thread are found   *)
(* in a hash table, `jnl_toc', with the thread's id as the key.            *)
(*                                                                         *)
(* The table is the abstract SharedMap that module HashTable implements    *)
(* for searches and insertions: its calls are steps of their own, so the   *)
(* calls of other threads come between.  Texts are abstracted to the call  *)
(* that wrote them.                                                        *)
(***************************************************************************)
EXTENDS Integers, Sequences, FiniteSets

CONSTANTS
  Threads,    \* the ids of the program's threads
  Groups,     \* addresses malloc gives to a group of buffers
  None,
  IntMax,     \* INT_MAX, which the detail levels are computed from
  Levels,     \* the levels of the messages that the program logs
  Environment,  \* what TJNL_DETAIL may be: [kind |-> "unset" | "number" | "word", value]
  jnlBI_MAX,  \* the parts of a diagnostic: four in the code (jnlBI_OPERATION ... jnlBI_ACTION)
  MaxCalls    \* bound: the calls the threads make together

ASSUME JournalAssumption ==
  /\ IntMax \in Nat /\ IntMax > 6
  /\ Levels \subseteq (-IntMax - 1) .. IntMax
  /\ MaxCalls \in Nat /\ jnlBI_MAX \in Nat \ {0}
  /\ None \notin Threads \cup Groups /\ None \notin 0 .. MaxCalls
  /\ "todo" \notin Groups \cup {None}

VARIABLES
  \* jnl_toc, as SharedMap describes it: data by thread id, and the calls.
  toc, phase, call, due, answer,
  stage,     \* of the process: "init", "main" or "exit"
  detail,    \* _jnlDL_
  heap,      \* the blocks allocated: <<group, index>>, or <<group, 0>> for its head
  text,      \* what each buffer holds: the call that wrote it
  calls,     \* calls made so far
  th,        \* the local state of each thread
  sent       \* the lines that the latest call of each thread has given to stf_jnl_msg

tocVars == <<toc, phase, call, due, answer>>
vars == <<toc, phase, call, due, answer, stage, detail, heap, text, calls, th, sent>>

Toc == INSTANCE SharedMap WITH Keys <- Threads, Data <- Groups, map <- toc

---------------------------------------------------------------------------
(* The tables of detail levels, and the search they share.                 *)

ASSERTION    == -IntMax - 1
RESULT       == ASSERTION + 1
DIAGNOSTIC   == RESULT + 1
PROGRESS     == 0
ENCYCLOPEDIC == IntMax
STACK        == ENCYCLOPEDIC \div 2
VERBOSE      == STACK \div 2

\* Sorted by level.
Level_Descriptions == <<ASSERTION, RESULT, DIAGNOSTIC, PROGRESS, VERBOSE, STACK, ENCYCLOPEDIC>>

\* The levels sorted by their words: the word of the i-th is 2*i, and an odd
\* number is a word that strcasecmp puts between two of them.
Description_Levels == <<ASSERTION, DIAGNOSTIC, ENCYCLOPEDIC, PROGRESS, RESULT, STACK, VERBOSE>>
TableSize == 7
Word(i) == 2 * i
Words == 1 .. 2 * TableSize + 1

\* TJNL_DETAIL is not set, or is the number of a level, or is a word.
ASSUME EnvironmentAssumption == \A e \in Environment :
  \/ e.kind = "unset"
  \/ e.kind = "number" /\ e.value \in (-IntMax - 1) .. IntMax
  \/ e.kind = "word" /\ e.value \in Words

\* A search stands at an entry and knows how far it moves next; it has found
\* the entry to return once `found' is set.
Middle == [at |-> TableSize \div 2, distance |-> TableSize \div 2, found |-> FALSE]

Move_HalvesDown(s, down) ==
  LET d == s.distance \div 2
      a == IF down THEN s.at - d ELSE s.at + d
  IN  [at |-> IF a > TableSize THEN TableSize ELSE IF a < 1 THEN 1 ELSE a,
       distance |-> d, found |-> FALSE]

Move(s, down) ==
  LET d == (s.distance + 1) \div 2
      a == IF down THEN s.at - d ELSE s.at + d
  IN  [at |-> IF a > TableSize THEN TableSize ELSE IF a < 1 THEN 1 ELSE a,
       distance |-> d, found |-> FALSE]

\* One turn of the loop of jnl_dl_description_fetch: between two levels the
\* higher one is returned.
DescriptionTurn(s, level) ==
  LET L(i) == Level_Descriptions[i]
      m == Move(s, L(s.at) > level)
  IN  IF L(s.at) = level \/ m.at = s.at \/ (m.distance = 1 /\ L(m.at) < level /\ level < L(s.at))
      THEN [s EXCEPT !.found = TRUE]
      ELSE m

\* One turn of the loop of jnl_dl_level_fetch: between two words the lower one.
LevelTurn(s, word) ==
  LET m == Move(s, word < Word(s.at))
  IN  IF Word(s.at) = word \/ m.at = s.at \/ (m.distance = 1 /\ word < Word(m.at) /\ Word(s.at) < word)
      THEN [s EXCEPT !.found = TRUE]
      ELSE m

\* Where the search is after k turns (one place); SearchesEnd says that Turns
\* are enough.
Turns == 2 * TableSize
Search(Turn(_, _), x) ==
  LET after[k \in 0 .. Turns] ==
        IF k = 0 THEN {Middle} ELSE {IF s.found THEN s ELSE Turn(s, x) : s \in after[k - 1]}
  IN  CHOOSE s \in after[Turns] : TRUE

dl_description_fetch(level) == Level_Descriptions[Search(DescriptionTurn, level).at]
dl_level_fetch(word) == Search(LevelTurn, word).at

---------------------------------------------------------------------------
Index == 1 .. jnlBI_MAX
NoParts == [i \in Index |-> "todo"]

\* What a thread does between two calls: `n' numbers its latest call, and
\* `error' says that jnl_internal_error has put a note into the journal.
Idle == [pc |-> "idle", op |-> None, n |-> 0, level |-> 0, bad |-> FALSE, ret |-> 0,
         error |-> FALSE, parts |-> NoParts, i |-> 0, jnl |-> None]

\* Lines of the journal.
Header(l, exact) == <<"header", l, exact>>
Part(i, n) == <<"part", i, n>>
NullPart(i) == <<"part", i, None>>
Text(n) == <<"text", n>>
Blank == <<"blank">>

Init ==
  /\ Toc!Init
  /\ stage = "init"
  /\ detail = PROGRESS
  /\ heap = {}
  /\ text = [g \in Groups |-> [i \in Index |-> 0]]
  /\ calls = 0
  /\ th = [t \in Threads |-> Idle]
  /\ sent = [t \in Threads |-> <<>>]

---------------------------------------------------------------------------
(* _jnl_init_, before main: the detail level, then the table.              *)

threadVars == <<toc, phase, call, due, answer, heap, text, calls, th, sent>>

\* A word that is not in the table leaves the default.
DetailOf(e) ==
  CASE e.kind = "unset" -> PROGRESS
    [] e.kind = "number" -> e.value
    [] e.kind = "word" -> LET i == dl_level_fetch(e.value)
                          IN  IF Word(i) = e.value THEN Description_Levels[i] ELSE PROGRESS

\* ht_create fails when there is no memory, and then the program ends.
jnl_init ==
  /\ stage = "init"
  /\ \E e \in Environment : detail' = DetailOf(e)
  /\ stage' \in {"main", "exit"}
  /\ UNCHANGED threadVars

---------------------------------------------------------------------------
(* The threads.  Every call makes one or two messages.                     *)

procVars == <<stage, detail>>

At(t, pc) == stage = "main" /\ th[t].pc = pc

Call(t, c) ==
  /\ At(t, "idle")
  /\ calls < MaxCalls
  /\ calls' = calls + 1
  /\ th' = [th EXCEPT ![t] = [c EXCEPT !.n = calls + 1]]
  /\ sent' = [sent EXCEPT ![t] = <<>>]
  /\ UNCHANGED <<tocVars, procVars, heap, text>>

\* jnl_LOG, and the macros jnl_PROGRESS, jnl_VERBOSE, jnl_DIAG, jnl_ASSERT...
Log(t) == \E l \in Levels :
  Call(t, [Idle EXCEPT !.op = "log", !.pc = "log", !.level = l])

\* jnl_DIAGNOSTIC(jnl_OPERATION(...), jnl_EXPECTED(...), jnl_ERROR(...), jnl_ACTION(...))
Diagnostic(t) == Call(t, [Idle EXCEPT !.op = "diagnostic", !.pc = "part", !.level = DIAGNOSTIC])

\* jnl_RESULT: a code below STF_PASS is reported by a diagnostic first.
Result(t) == \E bad \in BOOLEAN :
  Call(t, [Idle EXCEPT !.op = "result", !.bad = bad, !.pc = IF bad THEN "part" ELSE "log",
                       !.level = IF bad THEN DIAGNOSTIC ELSE RESULT])

\* jnl_format_message_ of the next part: C leaves the order of the four open.
\* _jnl_buffer_fetch looks the thread up.
FetchLocate(t) ==
  /\ At(t, "part")
  /\ \E i \in Index :
       /\ th[t].parts[i] = "todo"
       /\ th' = [th EXCEPT ![t].pc = "located", ![t].i = i]
  /\ Toc!Invoke(t)
  /\ call'[t] = [op |-> "locate", key |-> t, data |-> None]
  /\ UNCHANGED <<procVars, heap, text, calls, sent>>

\* The table works on the call.  A thread inserts only its own id, and only
\* after not finding it (InsertsAreNew), so Toc!InsertExisting is never possible.
TableLocates(t) ==
  /\ stage = "main"
  /\ Toc!Locate(t)
  /\ UNCHANGED <<procVars, heap, text, calls, th, sent>>

TableInserts(t) ==
  /\ stage = "main"
  /\ Toc!Insert(t) \/ Toc!InsertNoMemory(t)
  /\ UNCHANGED <<procVars, heap, text, calls, th, sent>>

TableAnswers(t) ==
  /\ stage = "main"
  /\ Toc!GiveAnswer(t)
  /\ UNCHANGED <<procVars, heap, text, calls, th, sent>>

Answered(t, pc) == At(t, pc) /\ phase[t] = "idle"

\* The part is ready, or is NULL when no buffer could be had or filled in,
\* which is noted in the journal.
PartDone(t, ptr) ==
  /\ th' = [th EXCEPT ![t].parts[th[t].i] = ptr, ![t].i = 0, ![t].jnl = None,
                      ![t].error = @ \/ ptr = None,
                      ![t].pc = IF \A j \in Index \ {th[t].i} : th[t].parts[j] # "todo"
                                THEN "log" ELSE "part"]
  /\ UNCHANGED sent

\* Mutant: whatever the search has found.
FetchAllocate_Always(t) ==
  /\ Answered(t, "located")
  /\ \E g \in Groups, some \in SUBSET Index :
       /\ \A b \in heap : b[1] # g
       /\ heap' = heap \cup ({g} \X ({0} \cup some))
       /\ th' = [th EXCEPT ![t].pc = "check", ![t].jnl = g]
  /\ UNCHANGED <<tocVars, procVars, text, calls, sent>>

\* Not in the table (errno is ENOENT): the head of a group and its buffers are
\* allocated, as far as there is memory.
FetchAllocate(t) ==
  /\ Answered(t, "located")
  /\ answer[t].val = None
  /\ \E g \in Groups, some \in SUBSET Index :
       /\ \A b \in heap : b[1] # g
       /\ heap' = heap \cup ({g} \X ({0} \cup some))
       /\ th' = [th EXCEPT ![t].pc = "check", ![t].jnl = g]
  /\ UNCHANGED <<tocVars, procVars, text, calls, sent>>

\* There is no memory for the head; or the table was refused a lock (errno is
\* not ENOENT), whether or not the thread is in it.
FetchFails(t) ==
  /\ Answered(t, "located")
  /\ PartDone(t, None)
  /\ UNCHANGED <<tocVars, procVars, heap, text, calls>>

FreeGroup_KeepsHead(g) == heap' = {b \in heap : b[1] # g \/ b[2] = 0}

FreeGroup(g) == heap' = {b \in heap : b[1] # g}

\* With a buffer missing everything is freed, else the group is inserted.
FetchInsert(t) ==
  LET g == th[t].jnl IN
  /\ At(t, "check")
  /\ \/ /\ {g} \X Index \subseteq heap
        /\ th' = [th EXCEPT ![t].pc = "inserted"]
        /\ Toc!Invoke(t)
        /\ call'[t] = [op |-> "insert", key |-> t, data |-> g]
        /\ UNCHANGED <<heap, sent>>
     \/ /\ ~({g} \X Index \subseteq heap)
        /\ FreeGroup(g)
        /\ PartDone(t, None)
        /\ UNCHANGED tocVars
  /\ UNCHANGED <<procVars, text, calls>>

\* ht_insert_key has returned: on failure everything is freed.
FetchInserted(t) ==
  /\ Answered(t, "inserted")
  /\ IF answer[t].val = 0
     THEN /\ th' = [th EXCEPT ![t].pc = "format"]
          /\ UNCHANGED <<heap, sent>>
     ELSE /\ PartDone(t, None)
          /\ FreeGroup(th[t].jnl)
  /\ UNCHANGED <<tocVars, procVars, text, calls>>

FetchFound(t) ==
  /\ Answered(t, "located")
  /\ answer[t].val # None
  /\ th' = [th EXCEPT ![t].pc = "format", ![t].jnl = answer[t].val]
  /\ UNCHANGED <<tocVars, procVars, heap, text, calls, sent>>

FormatMessage_OneBuffer(t) ==
  LET g == th[t].jnl
      i == th[t].i
  IN  /\ At(t, "format")
      /\ \/ text' = [text EXCEPT ![g][1] = th[t].n] /\ PartDone(t, g)
         \/ UNCHANGED text /\ PartDone(t, None)
      /\ UNCHANGED <<tocVars, procVars, heap, calls>>

\* jnl_vformat_message_ writes the part into the buffer fetched.
FormatMessage(t) ==
  LET g == th[t].jnl
      i == th[t].i
  IN  /\ At(t, "format")
      /\ \/ text' = [text EXCEPT ![g][i] = th[t].n] /\ PartDone(t, g)
         \/ UNCHANGED text /\ PartDone(t, None)     \* a format refused
      /\ UNCHANGED <<tocVars, procVars, heap, calls>>

---------------------------------------------------------------------------
(* jnl_vlog_.                                                              *)

\* The message has been logged with result r.  A bad result code is reported
\* in two messages, and jnl_result_ then returns -1; what failed is noted.
Return(t, r, lines) ==
  LET c == th[t]
      d == [c EXCEPT !.parts = NoParts, !.error = @ \/ r # 0]
  IN  /\ th' = [th EXCEPT ![t] = IF c.bad /\ c.level = DIAGNOSTIC
                                 THEN [d EXCEPT !.level = RESULT]
                                 ELSE [d EXCEPT !.pc = "idle", !.ret = IF c.bad THEN -1 ELSE r]]
      /\ sent' = [sent EXCEPT ![t] = @ \o lines]

\* The text of the message, read out of the buffers now.
Body(t) ==
  IF th[t].parts = NoParts THEN <<Text(th[t].n)>>
  ELSE [i \in Index |-> IF th[t].parts[i] = None THEN NullPart(i)
                        ELSE Part(i, text[th[t].parts[i]][i])]

\* A message of too high a level is not committed, and that is no error.
LogTooHigh(t) ==
  /\ At(t, "log")
  /\ th[t].level > detail
  /\ Return(t, 0, <<>>)
  /\ UNCHANGED <<tocVars, procVars, heap, text, calls>>

LogCommit_NoLevel(t) ==
  LET l == dl_description_fetch(th[t].level) IN
  /\ At(t, "log")
  /\ Return(t, 0, <<Header(l, l = th[t].level)>> \o Body(t) \o <<Blank>>)
  /\ UNCHANGED <<tocVars, procVars, heap, text, calls>>

\* The header, the text, line by line, and a blank line go to stf_jnl_msg.
\* What other threads write may come between the lines.  Nobody looks at what
\* stf_jnl_msg returns: the call goes on, and returns 0, when it fails.
LogCommit(t) ==
  LET l == dl_description_fetch(th[t].level) IN
  /\ At(t, "log")
  /\ th[t].level <= detail
  /\ Return(t, 0, <<Header(l, l = th[t].level)>> \o Body(t) \o <<Blank>>)
  /\ UNCHANGED <<tocVars, procVars, heap, text, calls>>

\* vsnprintf refuses the message.
LogFails(t) ==
  /\ At(t, "log")
  /\ th[t].level <= detail
  /\ Return(t, -1, <<>>)
  /\ UNCHANGED <<tocVars, procVars, heap, text, calls>>

\* A part that is NULL prints as such (LogCommit), or ends the program, as the
\* C library in use has it.
LogNull(t) ==
  /\ At(t, "log")
  /\ th[t].level <= detail
  /\ \E i \in Index : th[t].parts[i] = None
  /\ stage' = "exit"
  /\ UNCHANGED <<tocVars, detail, heap, text, calls, th, sent>>

Table(t) == TableLocates(t) \/ TableInserts(t) \/ TableAnswers(t)

Step(t) ==
  \/ Table(t) \/ FetchLocate(t) \/ FetchAllocate(t) \/ FetchFails(t) \/ FetchInsert(t) \/ FetchInserted(t) \/ FetchFound(t)
  \/ FormatMessage(t) \/ LogTooHigh(t) \/ LogCommit(t) \/ LogFails(t) \/ LogNull(t)

Next ==
  \/ jnl_init
  \/ \E t \in Threads : Log(t) \/ Diagnostic(t) \/ Result(t) \/ Step(t)

Spec == Init /\ [][Next]_vars

---------------------------------------------------------------------------
TypeOK ==
  /\ stage \in {"init", "main", "exit"}
  /\ detail \in (-IntMax - 1) .. IntMax
  /\ heap \subseteq Groups \X (Index \cup {0})
  /\ text \in [Groups -> [Index -> 0 .. MaxCalls]]
  /\ calls \in 0 .. MaxCalls
  /\ \A t \in Threads :
       /\ th[t].pc \in {"idle", "part", "located", "check", "inserted", "format", "log"}
       /\ th[t].n \in 0 .. MaxCalls
       /\ th[t].level \in (-IntMax - 1) .. IntMax
       /\ th[t].jnl \in Groups \cup {None}
       /\ \A i \in Index : th[t].parts[i] \in Groups \cup {None, "todo"}

\* A thread that puts buffers into the table puts them under an id that is
\* not there, so it never learns that someone else was first and never loses
\* a group that a part points into (_jnl_buffer_fetch looks up, then inserts).
InsertsAreNew == \A t \in Threads :
  phase[t] = "called" /\ call[t].op = "insert" => toc[call[t].key] = None

\* Every block that _jnl_buffer_fetch allocates belongs to a group in the
\* table or to one a thread is working on: the failure paths leak nothing.  And
\* the groups in the table are complete and shared by no two threads.
NothingLeaked ==
  LET InTable == {toc[t] : t \in Threads} \ {None}
      Held == {th[t].jnl : t \in Threads} \ {None}
  IN  /\ \A b \in heap : b[1] \in InTable \cup Held
      /\ InTable \X (Index \cup {0}) \subseteq heap
      /\ \A t, u \in Threads : t # u => toc[t] # toc[u] \/ toc[t] = None

\* The buffers are `static' for each thread: whatever the other threads write
\* meanwhile, and in whatever order C evaluates the parts, each line of a
\* diagnostic is the part the caller wrote in this call, or stands for NULL.
PartsAreOwn == \A t \in Threads : \A k \in DOMAIN sent[t] :
  LET line == sent[t][k] IN
    line[1] = "part" => line[3] \in {th[t].n, None} /\ (line[3] = None => th[t].error)

\* What a call has done when no internal error was noted: every line of the
\* message was given to stf_jnl_msg, in order and with the description of the
\* least level that is not below its own, and not one line when the level is
\* above TJNL_DETAIL.  jnl_vlog_ makes no exception for results and diagnostics,
\* of which jnl_detail.h says that they are always logged.
NearestAbove(l) == CHOOSE d \in {Level_Descriptions[i] : i \in 1 .. TableSize} :
                     /\ d >= l
                     /\ \A i \in 1 .. TableSize : Level_Descriptions[i] >= l => d <= Level_Descriptions[i]
Message(l, body) ==
  IF l > detail THEN <<>>
  ELSE <<Header(NearestAbove(l), NearestAbove(l) = l)>> \o body \o <<Blank>>

WholeMessage == \A t \in Threads :
  LET c == th[t]
      diagnostic == Message(DIAGNOSTIC, [i \in Index |-> Part(i, c.n)])
      result == Message(RESULT, <<Text(c.n)>>)
  IN  c.pc = "idle" /\ c.n > 0 /\ ~th[t].error =>
        /\ c.ret = IF c.bad THEN -1 ELSE 0
        /\ sent[t] = CASE c.op = "log" -> Message(c.level, <<Text(c.n)>>)
                       [] c.op = "diagnostic" -> diagnostic
                       [] c.op = "result" -> IF c.bad THEN diagnostic \o result ELSE result

\* The searches of the two tables end, although their steps may go back and
\* forth between two entries, and find the entry: for every level the least
\* that is not below it, and for every word of the table its own level, while
\* any other word leaves the default (jnl_dl_description_fetch, jnl_dl_level_fetch,
\* _jnl_init_).  It is about no state, and looked at in the first ones only.
SearchesEnd == stage = "init" =>
  /\ \A l \in (-IntMax - 1) .. IntMax :
       Search(DescriptionTurn, l).found /\ dl_description_fetch(l) = NearestAbove(l)
  /\ \A w \in Words :
       /\ Search(LevelTurn, w).found
       /\ DetailOf([kind |-> "word", value |-> w]) =
            IF w % 2 = 0 THEN Description_Levels[w \div 2] ELSE PROGRESS
=============================================================================
