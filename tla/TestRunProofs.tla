---------------------------- MODULE TestRunProofs ----------------------------
(***************************************************************************)
(* The safety properties of TestRun, for every number of test cases,       *)
(* processes that ignore SIGHUP, and contents of an uninitialized status.  *)
(*                                                                         *)
(* The properties speak of what is left when stf_timeout has ended, of the *)
(* entry written last and of the program's status; Inv says how each of    *)
(* them comes about: how far stf_timeout, stf_jnl_context and the program  *)
(* are with respect to each other (StageInv, GroupInv), which processes    *)
(* are gone after which signal (QuietInv) and where the status in          *)
(* stf_timeout comes from (DeadInv, StatusInv).                            *)
(***************************************************************************)
EXTENDS TestRun, TLAPS

\* stf_jnl_context has no program yet, and has one.
Early == {"off", "start", "locked", "exec"}
Late  == {"run", "drain", "wait"}

\* stf_timeout runs, and nobody has interrupted it.
Undisturbed == wpc # "off" /\ cur \notin interrupted

\* How far stf_timeout and stf_jnl_context are.
StageInv ==
  /\ wpc = "off" => ctx \in {"off", "dead"}
  /\ wpc # "off" => ctx # "off"
  /\ driver \in {"start", "env"} => cur = 1 /\ wpc = "off"
  /\ wpc \in {"end", "locked"} => ctx = "dead"
  /\ hup => ctx \in Late
  /\ \A c \in interrupted : c <= cur
  /\ cur \in interrupted => wpc \in {"hup", "kill"}
  /\ Undisturbed /\ wpc \in {"hup", "kill"} => timed_out
  /\ Undisturbed /\ timed_out => ctx \notin Early
  /\ Undisturbed /\ reaped => timed_out
  /\ wpc = "poll" => ~hup /\ ~caught

\* The processes of the current test case, and of the ones to come.
GroupInv ==
  /\ \A p \in Processes : proc[p] # "none" => p[2] <= cur
  /\ \A p \in Processes :
       p[2] = cur /\ proc[p] # "none" => wpc # "off" /\ ctx \notin Early /\ jasrt = cur
  /\ ctx = "exec" => jasrt = cur
  /\ ctx \in Early => pstat = None
  /\ cur \in Cases /\ proc[prog] # "none" => pstat = None
  /\ ctx \in Late /\ proc[prog] = "none" => pstat \in Statuses
  /\ Undisturbed /\ timed_out => proc[prog] # "start"

\* No process of the current test case is left that obeys SIGHUP.
Quiet == \A p \in Processes : p[2] = cur /\ Obeys(p) => proc[p] = "none"

\* After the signal of clean_kill, and when stf_jnl_context has ended.
QuietInv ==
  /\ Undisturbed /\ wpc = "hup" /\ ~hup => Quiet
  /\ Undisturbed /\ wpc = "kill" => Quiet
  /\ Undisturbed /\ ctx = "dead" => Quiet

\* What stf_jnl_context leaves when it ends by itself.
DeadInv ==
  Undisturbed /\ ~timed_out /\ ctx = "dead" =>
    /\ proc[prog] = "none"
    /\ pstat \in Statuses
    /\ cstat = Exit(IF pstat.sig = 0 THEN pstat.code ELSE pstat.sig)

\* The status from which stf_timeout makes the verdict.
StatusInv ==
  wpc \in {"end", "locked"} =>
    IF timed_out THEN child_status.code = STF_TIMED_OUT ELSE child_status = cstat

\* A verdict is in the journal when its test case is over.
EntryInv == entry.kind = "Test_Case_End" => entry.case \in Cases /\ entry.case < cur

Control == TypeOK /\ StageInv /\ GroupInv
Inv ==
  /\ Control
  /\ QuietInv
  /\ DeadInv
  /\ StatusInv
  /\ CleanupOnce
  /\ EntryInv
  /\ VerdictTrue
  /\ NoOrphans
  /\ AssertionsBelong
-----------------------------------------------------------------------------
(* Every step keeps Inv.                                                   *)

\* The run begins without processes.
LEMMA Initially == Init => Inv
<1> SUFFICES ASSUME Init PROVE Inv
  OBVIOUS
<1>1. suspend \in BOOLEAN /\ timed_out \in BOOLEAN /\ reaped \in BOOLEAN /\ hup \in BOOLEAN
      /\ caught \in BOOLEAN /\ cleanup_function \in BOOLEAN
  BY Zenon DEF Init
<1>2. child_status \in Statuses /\ cstat \in Statuses
  BY DEF Init, Exit, Statuses
<1>3. entry \in Entries
  BY DEF Init, Entries
<1>4. TypeOK
  BY <1>1, <1>2, <1>3, CasesAssumption, BoundAssumption DEF Init, TypeOK, Cases
<1>5. StageInv /\ GroupInv
  BY CasesAssumption
  DEF Init, StageInv, GroupInv, Undisturbed, Early, Late, Processes, Roles, Cases, prog
<1>6. QuietInv /\ DeadInv /\ StatusInv /\ CleanupOnce
  BY DEF Init, QuietInv, DeadInv, StatusInv, CleanupOnce, Undisturbed
<1>7. EntryInv /\ VerdictTrue /\ NoOrphans /\ AssertionsBelong
  BY DEF Init, EntryInv, VerdictTrue, NoOrphans, AssertionsBelong, Assertions
<1>8. QED
  BY <1>4, <1>5, <1>6, <1>7 DEF Inv, Control

\* stf_execute begins, goes on to the next test case and ends; somebody
\* interrupts stf_timeout.
LEMMA DriverStep ==
  ASSUME Inv, JnlStart \/ JnlEnv \/ JnlEnd \/ Fork \/ Interrupt
  PROVE  Inv'
<1> USE DEF Inv, Control, driverVars, fileVars, watchVars, ctxVars, logVars, progVars
<1>1. CASE JnlStart
  <2>1. TypeOK'
    BY <1>1, CasesAssumption
    DEF Cases, Roles, Processes, Owners, STF_OTHER, Assertions, Entries, TypeOK, Unlock,
        JnlStart
  <2>2. GroupInv'
    BY <1>1
    DEF Statuses, Cases, Roles, Processes, Unlock, JnlStart, prog, Early, Late, Undisturbed,
        StageInv, GroupInv
  <2>3. StageInv' /\ EntryInv' /\ VerdictTrue' /\ AssertionsBelong'
    BY <1>1
    DEF Assertions, Unlock, JnlStart, VerdictTrue, AssertionsBelong, Undisturbed, StageInv,
        EntryInv
  <2>4. QuietInv' /\ DeadInv' /\ StatusInv' /\ CleanupOnce' /\ NoOrphans'
    BY <1>1
    DEF Unlock, JnlStart, prog, NoOrphans, Undisturbed, Quiet, QuietInv, DeadInv, StatusInv,
        CleanupOnce
  <2>5. QED BY <2>1, <2>2, <2>3, <2>4
<1>2. CASE JnlEnv
  <2>1. TypeOK'
    BY <1>2, CasesAssumption
    DEF Cases, Roles, Processes, STF_OTHER, Assertions, Entries, TypeOK, JnlEnv, prog, Early,
        Late, Undisturbed, StageInv, GroupInv
  <2>2. StageInv' /\ EntryInv' /\ VerdictTrue' /\ AssertionsBelong'
    BY <1>2
    DEF Assertions, JnlEnv, VerdictTrue, AssertionsBelong, Undisturbed, StageInv, EntryInv
  <2>3. GroupInv' /\ QuietInv' /\ DeadInv' /\ StatusInv' /\ CleanupOnce' /\ NoOrphans'
    BY <1>2
    DEF JnlEnv, prog, NoOrphans, Undisturbed, GroupInv, Quiet, QuietInv, DeadInv, StatusInv,
        CleanupOnce
  <2>4. QED BY <2>1, <2>2, <2>3
<1>3. CASE JnlEnd
  <2>1. TypeOK'
    BY <1>3, CasesAssumption
    DEF Cases, Roles, Processes, STF_OTHER, Assertions, Entries, TypeOK, JnlEnd
  <2>2. StageInv' /\ EntryInv' /\ VerdictTrue' /\ AssertionsBelong'
    BY <1>3
    DEF Assertions, JnlEnd, VerdictTrue, AssertionsBelong, Undisturbed, StageInv, EntryInv
  <2>3. GroupInv' /\ QuietInv' /\ DeadInv' /\ StatusInv' /\ CleanupOnce' /\ NoOrphans'
    BY <1>3
    DEF JnlEnd, prog, NoOrphans, Undisturbed, GroupInv, Quiet, QuietInv, DeadInv, StatusInv,
        CleanupOnce
  <2>4. QED BY <2>1, <2>2, <2>3
<1>4. CASE Fork
  <2>1. TypeOK'
    <3>1. suspend' \in BOOLEAN /\ timed_out' \in BOOLEAN /\ reaped' \in BOOLEAN /\ hup' \in BOOLEAN /\ caught' \in BOOLEAN /\ cleanup_function' \in BOOLEAN
      BY <1>4, ProcessAssumption, Zenon
      DEF TypeOK, Fork
    <3>2. child_status' \in Statuses /\ cstat' \in Statuses
      BY <1>4, StatusAssumption, NoneAssumption
      DEF TypeOK, StageInv, GroupInv, Statuses, Exit, prog, Fork, Early, Late
    <3>3. QED BY <1>4, <3>1, <3>2, BoundAssumption, StatusAssumption, NoneAssumption,
           ProcessAssumption DEF TypeOK, StageInv, Statuses, Cases, Exit, Fork
  <2>2. GroupInv'
    BY <1>4, StatusAssumption, NoneAssumption
    DEF Statuses, Cases, Roles, Processes, Exit, prog, Fork, Early, Late, Undisturbed, StageInv,
        GroupInv
  <2>3. StageInv' /\ QuietInv' /\ DeadInv' /\ StatusInv' /\ CleanupOnce' /\ VerdictTrue' /\ AssertionsBelong'
    BY <1>4
    DEF Assertions, Exit, prog, Fork, VerdictTrue, AssertionsBelong, Undisturbed, StageInv,
        Quiet, QuietInv, DeadInv, StatusInv, CleanupOnce
  <2>4. EntryInv' /\ NoOrphans' BY <1>4 DEF Fork, NoOrphans, EntryInv
  <2>5. QED BY <2>1, <2>2, <2>3, <2>4
<1>5. CASE Interrupt
  <2>1. TypeOK'
    <3>1. hup' \in BOOLEAN /\ caught' \in BOOLEAN BY <1>5, ProcessAssumption, Zenon DEF TypeOK, SendHup, Interrupt
    <3>2. cstat' \in Statuses
      BY <1>5, StatusAssumption, NoneAssumption
      DEF TypeOK, StageInv, GroupInv, Statuses, SIGHUP, Exit, Killed, prog, SendHup,
          Interrupt, Early, Late
    <3>3. ctx' \in {"start", "locked", "exec", "run", "drain", "wait", "dead"}
      BY <1>5 DEF SendHup, Interrupt
    <3>4. interrupted' \in SUBSET Cases BY <1>5 DEF TypeOK, Interrupt
    <3>5. QED BY <1>5, <3>1, <3>2, <3>3, <3>4 DEF TypeOK, Interrupt
  <2>2. StageInv'
    BY <1>5, CasesAssumption, StatusAssumption, NoneAssumption
    DEF Statuses, Cases, Roles, Processes, STF_OTHER, SIGHUP, Assertions, TypeOK, Exit, Killed,
        SendHup, Interrupt, Early, Late, Undisturbed, StageInv
  <2>3. GroupInv'
    BY <1>5, StatusAssumption, NoneAssumption
    DEF Statuses, Cases, Roles, Processes, SIGHUP, Exit, Killed, prog, SendHup, Interrupt,
        Early, Late, Undisturbed, StageInv, GroupInv
  <2>4. QuietInv' /\ DeadInv' /\ StatusInv' /\ VerdictTrue' /\ NoOrphans' /\ AssertionsBelong'
    BY <1>5
    DEF SIGHUP, Assertions, Exit, Killed, prog, SendHup, Interrupt, VerdictTrue, NoOrphans,
        AssertionsBelong, Undisturbed, Quiet, QuietInv, DeadInv, StatusInv
  <2>5. CleanupOnce' /\ EntryInv' BY <1>5 DEF SendHup, Interrupt, CleanupOnce, EntryInv
  <2>6. QED BY <2>1, <2>2, <2>3, <2>4, <2>5
<1>6. QED BY <1>1, <1>2, <1>3, <1>4, <1>5

\* A program or a process in its background writes to the journal.
LEMMA WritesStep ==
  ASSUME Inv,
         \E p \in Processes :
            AssertLock(p) \/ AssertUnlock(p) \/ AssertStart(p) \/ AssertEnd(p) \/ Totals(p) \/ Msg(p)
  PROVE  Inv'
<1> USE DEF Inv, Control, driverVars, fileVars, watchVars, ctxVars, logVars, progVars
<1>1. ASSUME NEW p \in Processes, AssertLock(p) PROVE Inv'
  <2>1. TypeOK'
    BY <1>1, CasesAssumption, BoundAssumption
    DEF Cases, Roles, Processes, Owners, TypeOK, Lock, Writes, AssertLock
  <2>2. GroupInv' /\ QuietInv' /\ DeadInv' /\ NoOrphans'
    BY <1>1
    DEF Lock, Writes, AssertLock, prog, NoOrphans, Undisturbed, GroupInv, Quiet, QuietInv,
        DeadInv
  <2>3. StageInv' /\ StatusInv' /\ CleanupOnce' /\ EntryInv' /\ VerdictTrue' /\ AssertionsBelong'
    BY <1>1
    DEF Lock, Writes, AssertLock, VerdictTrue, AssertionsBelong, Undisturbed, StageInv,
        StatusInv, CleanupOnce, EntryInv
  <2>4. QED BY <2>1, <2>2, <2>3
<1>2. ASSUME NEW p \in Processes, AssertUnlock(p) PROVE Inv'
  <2>1. TypeOK'
    BY <1>2, CasesAssumption
    DEF Cases, Roles, Processes, Owners, TypeOK, Unlock, AssertUnlock
  <2>2. GroupInv' /\ QuietInv' /\ DeadInv' /\ NoOrphans'
    BY <1>2
    DEF Unlock, AssertUnlock, prog, NoOrphans, Undisturbed, GroupInv, Quiet, QuietInv, DeadInv
  <2>3. StageInv' /\ StatusInv' /\ CleanupOnce' /\ EntryInv' /\ VerdictTrue' /\ AssertionsBelong'
    BY <1>2
    DEF Unlock, AssertUnlock, VerdictTrue, AssertionsBelong, Undisturbed, StageInv, StatusInv,
        CleanupOnce, EntryInv
  <2>4. QED BY <2>1, <2>2, <2>3
<1>3. ASSUME NEW p \in Processes, AssertStart(p) PROVE Inv'
  <2>1. TypeOK'
    BY <1>3, CasesAssumption
    DEF Cases, Roles, Processes, STF_OTHER, Assertions, Entries, TypeOK, AssertionEntry,
        AssertStart
  <2>2. AssertionsBelong'
    BY <1>3, CasesAssumption
    DEF Statuses, Cases, Roles, Processes, STF_OTHER, Assertions, TypeOK, AssertionEntry,
        AssertStart, prog, Obeys, NoOrphans, AssertionsBelong, Early, Late, Undisturbed,
        StageInv, GroupInv
  <2>3. GroupInv' /\ QuietInv' /\ DeadInv' /\ EntryInv' /\ VerdictTrue' /\ NoOrphans'
    BY <1>3
    DEF Exit, AssertionEntry, AssertStart, prog, VerdictTrue, NoOrphans, Undisturbed, GroupInv,
        Quiet, QuietInv, DeadInv, EntryInv
  <2>4. StageInv' /\ StatusInv' /\ CleanupOnce'
    BY <1>3
    DEF AssertStart, Undisturbed, StageInv, StatusInv, CleanupOnce
  <2>5. QED BY <2>1, <2>2, <2>3, <2>4
<1>4. ASSUME NEW p \in Processes, AssertEnd(p) PROVE Inv'
  <2>1. TypeOK'
    BY <1>4, CasesAssumption, BoundAssumption
    DEF Cases, Roles, Processes, STF_OTHER, Assertions, Entries, TypeOK, Writes, AssertionEntry,
        AssertEnd
  <2>2. AssertionsBelong'
    BY <1>4, CasesAssumption, BoundAssumption
    DEF Statuses, Cases, Roles, Processes, STF_OTHER, Assertions, TypeOK, Writes,
        AssertionEntry, AssertEnd, prog, Obeys, NoOrphans, AssertionsBelong, Early, Late,
        Undisturbed, StageInv, GroupInv
  <2>3. EntryInv' /\ VerdictTrue'
    BY <1>4
    DEF Writes, AssertionEntry, AssertEnd, VerdictTrue, EntryInv
  <2>4. StageInv' /\ GroupInv' /\ QuietInv' /\ DeadInv' /\ StatusInv' /\ CleanupOnce' /\ NoOrphans'
    BY <1>4
    DEF Writes, AssertEnd, prog, NoOrphans, Undisturbed, StageInv, GroupInv, Quiet, QuietInv,
        DeadInv, StatusInv, CleanupOnce
  <2>5. QED BY <2>1, <2>2, <2>3, <2>4
<1>5. ASSUME NEW p \in Processes, Totals(p) PROVE Inv'
  <2>1. TypeOK'
    BY <1>5, CasesAssumption, BoundAssumption
    DEF Cases, Roles, Processes, STF_OTHER, Assertions, Entries, TypeOK, Writes, AssertionEntry,
        Totals
  <2>2. AssertionsBelong'
    BY <1>5, CasesAssumption, BoundAssumption
    DEF Statuses, Cases, Roles, Processes, STF_OTHER, Assertions, TypeOK, Writes,
        AssertionEntry, Totals, prog, Obeys, NoOrphans, AssertionsBelong, Early, Late,
        Undisturbed, StageInv, GroupInv
  <2>3. EntryInv' /\ VerdictTrue' BY <1>5 DEF Writes, AssertionEntry, Totals, VerdictTrue, EntryInv
  <2>4. StageInv' /\ GroupInv' /\ QuietInv' /\ DeadInv' /\ StatusInv' /\ CleanupOnce' /\ NoOrphans'
    BY <1>5
    DEF Writes, Totals, prog, NoOrphans, Undisturbed, StageInv, GroupInv, Quiet, QuietInv,
        DeadInv, StatusInv, CleanupOnce
  <2>5. QED BY <2>1, <2>2, <2>3, <2>4
<1>6. ASSUME NEW p \in Processes, Msg(p) PROVE Inv'
  <2>1. TypeOK'
    BY <1>6, CasesAssumption, BoundAssumption
    DEF Cases, Roles, Processes, STF_OTHER, Assertions, Entries, TypeOK, Writes, Msg
  <2>2. EntryInv' /\ VerdictTrue' /\ AssertionsBelong'
    BY <1>6
    DEF Assertions, Writes, Msg, VerdictTrue, AssertionsBelong, EntryInv
  <2>3. StageInv' /\ GroupInv' /\ QuietInv' /\ DeadInv' /\ StatusInv' /\ CleanupOnce' /\ NoOrphans'
    BY <1>6
    DEF Writes, Msg, prog, NoOrphans, Undisturbed, StageInv, GroupInv, Quiet, QuietInv, DeadInv,
        StatusInv, CleanupOnce
  <2>4. QED BY <2>1, <2>2, <2>3
<1>7. QED BY <1>1, <1>2, <1>3, <1>4, <1>5, <1>6

\* The program starts, calls liblogapi, leaves a process behind or dies.
LEMMA ProgramStep ==
  ASSUME Inv,
         \/ \E rc \in Codes : EndLog(rc)
         \/ CleanupReturns \/ OnExit \/ Spawn
         \/ \E p \in Processes : BackgroundEnds(p) \/ (p[1] = "prog" /\ ProgramStarts(p[2]))
         \/ \E sig \in Deaths : Crash(sig)
  PROVE  Inv'
<1> USE DEF Inv, Control, driverVars, fileVars, watchVars, ctxVars, logVars, progVars
<1>1. ASSUME NEW rc \in Codes, EndLog(rc) PROVE Inv'
  <2>1. TypeOK'
    <3>1. cleanup_function' \in BOOLEAN
      BY <1>1, ProcessAssumption, Zenon
      DEF TypeOK, ExitWith, EndLog
    <3>2. QED
      BY <1>1, <3>1, BoundAssumption, StatusAssumption, NoneAssumption, SMTT(30)
      DEF TypeOK, StageInv, Statuses, Cases, Exit, prog, Runs, ExitWith, EndLog
  <2>2. GroupInv'
    BY <1>1, BoundAssumption, StatusAssumption, NoneAssumption, SMTT(30)
    DEF Statuses, Cases, Roles, Processes, STF_OTHER, Assertions, TypeOK, Exit, prog, Runs,
        ExitWith, EndLog, Early, Late, Undisturbed, StageInv, GroupInv
  <2>3. QuietInv'
    BY <1>1, StatusAssumption, NoneAssumption
    DEF Statuses, Cases, Roles, Processes, Exit, prog, Runs, ExitWith, EndLog, Obeys, Early,
        Late, Undisturbed, StageInv, GroupInv, Quiet, QuietInv
  <2>4. DeadInv'
    BY <1>1, StatusAssumption, NoneAssumption
    DEF Cases, Exit, prog, Runs, ExitWith, EndLog, Undisturbed, DeadInv
  <2>5. CleanupOnce'
    BY <1>1, BoundAssumption, StatusAssumption, NoneAssumption
    DEF Statuses, Cases, Roles, Processes, STF_OTHER, Assertions, TypeOK, Exit, prog, Runs,
        ExitWith, EndLog, Early, Late, Undisturbed, GroupInv, CleanupOnce
  <2>6. VerdictTrue'
    BY <1>1, StatusAssumption, NoneAssumption
    DEF Statuses, Cases, Roles, Processes, STF_TIMED_OUT, STF_OTHER, Exit, get_status_name,
        prog, Runs, ExitWith, EndLog, VerdictTrue, Early, Late, Undisturbed, StageInv, GroupInv
  <2>7. NoOrphans'
    BY <1>1, BoundAssumption, StatusAssumption, NoneAssumption
    DEF Statuses, Cases, Roles, Processes, STF_OTHER, Assertions, TypeOK, Exit, prog, Runs,
        ExitWith, EndLog, Obeys, NoOrphans, Early, Late, Undisturbed, StageInv, GroupInv, Quiet,
        QuietInv
  <2>8. StageInv' /\ StatusInv' /\ EntryInv' /\ AssertionsBelong'
    BY <1>1
    DEF ExitWith, EndLog, AssertionsBelong, Undisturbed, StageInv, StatusInv, EntryInv
  <2>9. QED BY <2>1, <2>2, <2>3, <2>4, <2>5, <2>6, <2>7, <2>8
<1>2. CASE CleanupReturns
  <2>1. TypeOK'
    BY <1>2, StatusAssumption, NoneAssumption
    DEF Statuses, Cases, Roles, Processes, TypeOK, Exit, prog, Runs, ExitWith, CleanupReturns
  <2>2. GroupInv'
    BY <1>2, StatusAssumption, NoneAssumption
    DEF Statuses, Cases, Roles, Processes, STF_OTHER, Assertions, TypeOK, Exit, prog, Runs,
        ExitWith, CleanupReturns, Early, Late, Undisturbed, StageInv, GroupInv
  <2>3. VerdictTrue'
    BY <1>2, StatusAssumption, NoneAssumption
    DEF Statuses, Cases, Roles, Processes, STF_TIMED_OUT, STF_OTHER, Exit, get_status_name,
        prog, Runs, ExitWith, CleanupReturns, VerdictTrue, Early, Late, Undisturbed, StageInv,
        GroupInv
  <2>4. QuietInv' /\ DeadInv' /\ CleanupOnce' /\ NoOrphans'
    BY <1>2
    DEF Cases, Exit, prog, Runs, ExitWith, CleanupReturns, NoOrphans, Undisturbed, Quiet,
        QuietInv, DeadInv, CleanupOnce
  <2>5. StageInv' /\ StatusInv' /\ EntryInv' /\ AssertionsBelong'
    BY <1>2
    DEF ExitWith, CleanupReturns, AssertionsBelong, Undisturbed, StageInv, StatusInv, EntryInv
  <2>6. QED BY <2>1, <2>2, <2>3, <2>4, <2>5
<1>3. CASE OnExit
  <2>1. TypeOK'
    <3>1. cleanup_function' \in BOOLEAN BY <1>3, Zenon DEF TypeOK, OnExit
    <3>2. onexits' \in 0 .. MaxOnExit /\ replaced' \in Nat
      BY <1>3, BoundAssumption DEF TypeOK, OnExit
    <3>3. QED BY <1>3, <3>1, <3>2 DEF Cases, Roles, Processes, TypeOK, prog, Runs, OnExit
  <2>2. CleanupOnce'
    BY <1>3, BoundAssumption
    DEF Statuses, Cases, Roles, Processes, STF_OTHER, Assertions, TypeOK, prog, Runs, OnExit,
        Early, Late, Undisturbed, GroupInv, CleanupOnce
  <2>3. StageInv' /\ GroupInv' /\ QuietInv' /\ DeadInv' /\ StatusInv' /\ EntryInv' /\ VerdictTrue' /\ NoOrphans' /\ AssertionsBelong'
    BY <1>3
    DEF prog, OnExit, VerdictTrue, NoOrphans, AssertionsBelong, Undisturbed, StageInv, GroupInv,
        Quiet, QuietInv, DeadInv, StatusInv, EntryInv
  <2>4. QED BY <2>1, <2>2, <2>3
<1>4. CASE Spawn
  <2>1. TypeOK' BY <1>4 DEF Cases, Roles, Processes, TypeOK, prog, bg, Runs, Spawn
  <2>2. GroupInv'
    BY <1>4
    DEF Statuses, Cases, Roles, Processes, prog, bg, Runs, Spawn, Early, Late, Undisturbed,
        StageInv, GroupInv
  <2>3. QuietInv'
    BY <1>4
    DEF Statuses, Cases, Roles, Processes, prog, bg, Runs, Spawn, Obeys, Early, Late,
        Undisturbed, StageInv, GroupInv, Quiet, QuietInv
  <2>4. DeadInv' /\ NoOrphans'
    BY <1>4
    DEF Cases, prog, bg, Runs, Spawn, NoOrphans, Undisturbed, DeadInv
  <2>5. StageInv' /\ StatusInv' /\ CleanupOnce' /\ EntryInv' /\ VerdictTrue' /\ AssertionsBelong'
    BY <1>4
    DEF Spawn, VerdictTrue, AssertionsBelong, Undisturbed, StageInv, StatusInv, CleanupOnce, EntryInv
  <2>6. QED BY <2>1, <2>2, <2>3, <2>4, <2>5
<1>5. ASSUME NEW p \in Processes, BackgroundEnds(p) PROVE Inv'
  <2>1. TypeOK' BY <1>5 DEF Cases, Roles, Processes, TypeOK, BackgroundEnds
  <2>2. GroupInv'
    BY <1>5
    DEF Statuses, Cases, Roles, Processes, prog, BackgroundEnds, Early, Late, Undisturbed,
        StageInv, GroupInv
  <2>3. QuietInv' /\ DeadInv' /\ NoOrphans'
    BY <1>5
    DEF prog, BackgroundEnds, NoOrphans, Undisturbed, Quiet, QuietInv, DeadInv
  <2>4. StageInv' /\ StatusInv' /\ CleanupOnce' /\ EntryInv' /\ VerdictTrue' /\ AssertionsBelong'
    BY <1>5
    DEF BackgroundEnds, VerdictTrue, AssertionsBelong, Undisturbed, StageInv, StatusInv, CleanupOnce,
        EntryInv
  <2>5. QED BY <2>1, <2>2, <2>3, <2>4
<1>6. ASSUME NEW sig \in Deaths, Crash(sig) PROVE Inv'
  <2>1. TypeOK'
    BY <1>6, StatusAssumption, NoneAssumption
    DEF Statuses, Cases, Roles, Processes, TypeOK, Killed, prog, KillGroup, Crash
  <2>2. GroupInv'
    BY <1>6, StatusAssumption, NoneAssumption
    DEF Statuses, Cases, Roles, Processes, Killed, prog, KillGroup, Crash, Early, Late,
        Undisturbed, StageInv, GroupInv
  <2>3. CleanupOnce'
    BY <1>6, StatusAssumption, NoneAssumption
    DEF Statuses, Cases, Roles, Processes, Killed, prog, KillGroup, Crash, Early, Late,
        Undisturbed, GroupInv, CleanupOnce
  <2>4. VerdictTrue'
    BY <1>6, StatusAssumption, NoneAssumption
    DEF Cases, STF_TIMED_OUT, STF_OTHER, Killed, get_status_name, prog, KillGroup, Crash,
        VerdictTrue, Early, Late, Undisturbed, StageInv
  <2>5. QuietInv' /\ DeadInv' /\ NoOrphans'
    BY <1>6
    DEF Cases, Killed, prog, KillGroup, Crash, NoOrphans, Undisturbed, Quiet, QuietInv, DeadInv
  <2>6. StageInv' /\ StatusInv' /\ EntryInv' /\ AssertionsBelong'
    BY <1>6
    DEF KillGroup, Crash, AssertionsBelong, Undisturbed, StageInv, StatusInv, EntryInv
  <2>7. QED BY <2>1, <2>2, <2>3, <2>4, <2>5, <2>6
<1>7. ASSUME NEW p \in Processes, p[1] = "prog", ProgramStarts(p[2]) PROVE Inv'
  <2>1. TypeOK' BY <1>7 DEF Cases, Roles, Processes, TypeOK, ProgramStarts
  <2>2. GroupInv' /\ QuietInv' /\ DeadInv' /\ NoOrphans'
    BY <1>7
    DEF prog, ProgramStarts, NoOrphans, Undisturbed, GroupInv, Quiet, QuietInv, DeadInv
  <2>3. StageInv' /\ StatusInv' /\ CleanupOnce' /\ EntryInv' /\ VerdictTrue' /\ AssertionsBelong'
    BY <1>7
    DEF ProgramStarts, VerdictTrue, AssertionsBelong, Undisturbed, StageInv, StatusInv, CleanupOnce,
        EntryInv
  <2>4. QED BY <2>1, <2>2, <2>3
<1>8. QED BY <1>1, <1>2, <1>3, <1>4, <1>5, <1>6, <1>7

\* stf_jnl_context, from the start entry to its end.
LEMMA ContextStep ==
  ASSUME Inv, Context
  PROVE  Inv'
<1> USE DEF Inv, Control, driverVars, fileVars, watchVars, ctxVars, logVars, progVars
<1>1. CASE TestcaseLock
  <2>1. TypeOK'
    BY <1>1, CasesAssumption
    DEF Cases, Roles, Processes, Owners, TypeOK, Lock, TestcaseLock, Early, Late, Undisturbed,
        StageInv
  <2>2. StageInv'
    BY <1>1, CasesAssumption
    DEF Statuses, Cases, Roles, Processes, STF_OTHER, Assertions, TypeOK, Lock, TestcaseLock,
        Early, Late, Undisturbed, StageInv
  <2>3. GroupInv'
    BY <1>1
    DEF Statuses, Cases, Roles, Processes, Lock, TestcaseLock, prog, Early, Late, Undisturbed,
        StageInv, GroupInv
  <2>4. QuietInv' /\ DeadInv'
    BY <1>1
    DEF Lock, TestcaseLock, prog, Undisturbed, Quiet, QuietInv, DeadInv
  <2>5. StatusInv' /\ CleanupOnce' /\ EntryInv' /\ VerdictTrue' /\ NoOrphans' /\ AssertionsBelong'
    BY <1>1
    DEF Lock, TestcaseLock, VerdictTrue, NoOrphans, AssertionsBelong, StatusInv, CleanupOnce,
        EntryInv
  <2>6. QED BY <2>1, <2>2, <2>3, <2>4, <2>5
<1>2. CASE TestcaseStart
  <2>1. TypeOK'
    BY <1>2, CasesAssumption
    DEF Cases, Roles, Processes, Owners, STF_OTHER, Assertions, Entries, TypeOK, Unlock,
        TestcaseStart, Early, Late, Undisturbed, StageInv
  <2>2. StageInv'
    BY <1>2, CasesAssumption
    DEF Statuses, Cases, Roles, Processes, STF_OTHER, Assertions, TypeOK, Unlock, TestcaseStart,
        Early, Late, Undisturbed, StageInv
  <2>3. GroupInv'
    BY <1>2
    DEF Statuses, Cases, Roles, Processes, Unlock, TestcaseStart, prog, Early, Late,
        Undisturbed, StageInv, GroupInv
  <2>4. QuietInv' /\ DeadInv' /\ EntryInv' /\ VerdictTrue' /\ AssertionsBelong'
    BY <1>2
    DEF Assertions, Exit, Unlock, TestcaseStart, prog, VerdictTrue, AssertionsBelong,
        Undisturbed, Quiet, QuietInv, DeadInv, EntryInv
  <2>5. StatusInv' /\ CleanupOnce' /\ NoOrphans'
    BY <1>2
    DEF Unlock, TestcaseStart, NoOrphans, StatusInv, CleanupOnce
  <2>6. QED BY <2>1, <2>2, <2>3, <2>4, <2>5
<1>3. CASE ContextForks
  <2>1. TypeOK'
    BY <1>3
    DEF Cases, Roles, Processes, TypeOK, prog, ContextForks, Early, Late, Undisturbed, StageInv
  <2>2. StageInv'
    BY <1>3
    DEF Statuses, Cases, Roles, Processes, STF_OTHER, Assertions, TypeOK, prog, ContextForks,
        Early, Late, Undisturbed, StageInv
  <2>3. GroupInv'
    BY <1>3
    DEF Statuses, Cases, Roles, Processes, STF_OTHER, Assertions, TypeOK, prog, ContextForks,
        Early, Late, Undisturbed, StageInv, GroupInv
  <2>4. QuietInv'
    BY <1>3
    DEF prog, ContextForks, Obeys, Early, Late, Undisturbed, StageInv, Quiet, QuietInv
  <2>5. DeadInv' BY <1>3 DEF prog, ContextForks, Undisturbed, DeadInv
  <2>6. NoOrphans'
    BY <1>3
    DEF Cases, Roles, Processes, prog, ContextForks, Obeys, NoOrphans, Early, Late, Undisturbed,
        StageInv
  <2>7. StatusInv' /\ CleanupOnce' /\ EntryInv' /\ VerdictTrue' /\ AssertionsBelong'
    BY <1>3
    DEF ContextForks, VerdictTrue, AssertionsBelong, StatusInv, CleanupOnce, EntryInv
  <2>8. QED BY <2>1, <2>2, <2>3, <2>4, <2>5, <2>6, <2>7
<1>4. CASE ReadPipeEnds
  <2>1. TypeOK' BY <1>4 DEF Cases, Roles, Processes, TypeOK, prog, ReadPipeEnds
  <2>2. StageInv'
    BY <1>4
    DEF Statuses, Cases, Roles, Processes, STF_OTHER, Assertions, TypeOK, prog, ReadPipeEnds,
        Early, Late, Undisturbed, StageInv
  <2>3. GroupInv'
    BY <1>4
    DEF Statuses, Cases, Roles, Processes, prog, ReadPipeEnds, Early, Late, Undisturbed,
        StageInv, GroupInv
  <2>4. QuietInv' /\ DeadInv' BY <1>4 DEF prog, ReadPipeEnds, Undisturbed, Quiet, QuietInv, DeadInv
  <2>5. StatusInv' /\ CleanupOnce' /\ EntryInv' /\ VerdictTrue' /\ NoOrphans' /\ AssertionsBelong'
    BY <1>4
    DEF ReadPipeEnds, VerdictTrue, NoOrphans, AssertionsBelong, StatusInv, CleanupOnce, EntryInv
  <2>6. QED BY <2>1, <2>2, <2>3, <2>4, <2>5
<1>5. CASE Drained
  <2>1. TypeOK' BY <1>5 DEF Cases, Roles, Processes, TypeOK, prog, bg, Drained
  <2>2. StageInv'
    BY <1>5
    DEF Statuses, Cases, Roles, Processes, STF_OTHER, Assertions, TypeOK, prog, bg, Drained,
        Early, Late, Undisturbed, StageInv
  <2>3. GroupInv'
    BY <1>5
    DEF Statuses, Cases, Roles, Processes, prog, bg, Drained, Early, Late, Undisturbed,
        StageInv, GroupInv
  <2>4. QuietInv' /\ DeadInv' BY <1>5 DEF prog, bg, Drained, Undisturbed, Quiet, QuietInv, DeadInv
  <2>5. StatusInv' /\ CleanupOnce' /\ EntryInv' /\ VerdictTrue' /\ NoOrphans' /\ AssertionsBelong'
    BY <1>5
    DEF Drained, VerdictTrue, NoOrphans, AssertionsBelong, StatusInv, CleanupOnce, EntryInv
  <2>6. QED BY <2>1, <2>2, <2>3, <2>4, <2>5
<1>6. CASE ContextEnds
  <2>1. TypeOK'
    <3>1. hup' \in BOOLEAN /\ caught' \in BOOLEAN BY <1>6, ProcessAssumption, Zenon DEF TypeOK, ContextEnds
    <3>2. cstat' \in Statuses
      BY <1>6, StatusAssumption, NoneAssumption
      DEF TypeOK, StageInv, GroupInv, Statuses, Roles, SIGKILL, Exit, Killed, prog, KillGroup,
          ContextEnds, Early, Late
    <3>3. QED BY <1>6, <3>1, <3>2, StatusAssumption, NoneAssumption DEF TypeOK, StageInv, Statuses,
           Cases, Roles, SIGKILL, Exit, Killed, prog, KillGroup, ContextEnds
  <2>2. StageInv'
    BY <1>6, StatusAssumption, NoneAssumption
    DEF Statuses, Cases, Roles, Processes, STF_OTHER, SIGKILL, Assertions, TypeOK, Exit, Killed,
        prog, KillGroup, ContextEnds, Early, Late, Undisturbed, StageInv
  <2>3. GroupInv'
    BY <1>6, StatusAssumption, NoneAssumption
    DEF Statuses, Cases, Roles, Processes, STF_OTHER, SIGKILL, Assertions, TypeOK, Exit, Killed,
        prog, KillGroup, ContextEnds, Early, Late, Undisturbed, StageInv, GroupInv
  <2>4. QuietInv'
    BY <1>6, StatusAssumption, NoneAssumption
    DEF Statuses, Cases, Roles, Processes, SIGKILL, Exit, Killed, prog, KillGroup, ContextEnds,
        Obeys, Early, Late, Undisturbed, StageInv, GroupInv, Quiet, QuietInv
  <2>5. DeadInv'
    BY <1>6, StatusAssumption, NoneAssumption
    DEF Statuses, Cases, Roles, Processes, STF_OTHER, SIGKILL, Assertions, TypeOK, Exit, Killed,
        prog, KillGroup, ContextEnds, Early, Late, Undisturbed, StageInv, GroupInv, DeadInv
  <2>6. StatusInv'
    BY <1>6, StatusAssumption, NoneAssumption
    DEF Roles, STF_TIMED_OUT, SIGKILL, Exit, Killed, prog, KillGroup, ContextEnds, Early, Late,
        Undisturbed, StageInv, StatusInv
  <2>7. CleanupOnce' /\ VerdictTrue' /\ NoOrphans'
    BY <1>6
    DEF Roles, SIGKILL, Exit, Killed, prog, KillGroup, ContextEnds, VerdictTrue, NoOrphans,
        CleanupOnce
  <2>8. EntryInv' /\ AssertionsBelong'
    BY <1>6
    DEF KillGroup, ContextEnds, AssertionsBelong, EntryInv
  <2>9. QED BY <2>1, <2>2, <2>3, <2>4, <2>5, <2>6, <2>7, <2>8
<1>7. CASE Goodbye
  <2>1. TypeOK'
    <3>1. hup' \in BOOLEAN /\ caught' \in BOOLEAN BY <1>7, ProcessAssumption, Zenon DEF TypeOK, Goodbye
    <3>2. QED BY <1>7, <3>1, StatusAssumption, NoneAssumption DEF TypeOK, StageInv, Statuses, Cases,
           Roles, SIGHUP, Killed, prog, KillGroup, Goodbye
  <2>2. StageInv'
    BY <1>7, StatusAssumption, NoneAssumption
    DEF Statuses, Cases, Roles, Processes, STF_OTHER, SIGHUP, Assertions, TypeOK, Killed, prog,
        KillGroup, Goodbye, Early, Late, Undisturbed, StageInv
  <2>3. GroupInv'
    BY <1>7, StatusAssumption, NoneAssumption
    DEF Statuses, Cases, Roles, Processes, STF_OTHER, SIGHUP, Assertions, TypeOK, Killed, prog,
        KillGroup, Goodbye, Early, Late, Undisturbed, StageInv, GroupInv
  <2>4. QuietInv'
    BY <1>7, StatusAssumption, NoneAssumption
    DEF Statuses, Cases, Roles, Processes, SIGHUP, Killed, prog, KillGroup, Goodbye, Obeys,
        Early, Late, Undisturbed, StageInv, GroupInv, Quiet, QuietInv
  <2>5. DeadInv' /\ CleanupOnce' /\ VerdictTrue' /\ NoOrphans'
    BY <1>7
    DEF Roles, SIGHUP, Killed, prog, KillGroup, Goodbye, VerdictTrue, NoOrphans, Undisturbed,
        DeadInv, CleanupOnce
  <2>6. StatusInv' /\ EntryInv' /\ AssertionsBelong'
    BY <1>7
    DEF KillGroup, Goodbye, AssertionsBelong, StatusInv, EntryInv
  <2>7. QED BY <2>1, <2>2, <2>3, <2>4, <2>5, <2>6
<1>8. QED BY <1>1, <1>2, <1>3, <1>4, <1>5, <1>6, <1>7 DEF Context

\* stf_timeout, from the poll to the verdict.
LEMMA WatchStep ==
  ASSUME Inv, Watch \/ PollOther
  PROVE  Inv'
<1> USE DEF Inv, Control, driverVars, fileVars, watchVars, ctxVars, logVars, progVars
<1>1. CASE PollHup
  <2>1. TypeOK' BY <1>1 DEF Cases, Roles, Processes, TypeOK, PollHup
  <2>2. StageInv' /\ GroupInv' /\ QuietInv' /\ DeadInv' /\ StatusInv' /\ VerdictTrue' /\ AssertionsBelong'
    BY <1>1
    DEF prog, PollHup, VerdictTrue, AssertionsBelong, Undisturbed, StageInv, GroupInv, Quiet,
        QuietInv, DeadInv, StatusInv
  <2>3. CleanupOnce' /\ EntryInv' /\ NoOrphans' BY <1>1 DEF PollHup, NoOrphans, CleanupOnce, EntryInv
  <2>4. QED BY <2>1, <2>2, <2>3
<1>2. CASE WakeUp
  <2>1. TypeOK'
    <3>1. timed_out' \in BOOLEAN /\ hup' \in BOOLEAN /\ caught' \in BOOLEAN
      BY <1>2, ProcessAssumption, Zenon
      DEF TypeOK, SendHup, WakeUp
    <3>2. cstat' \in Statuses
      BY <1>2, StatusAssumption, NoneAssumption
      DEF TypeOK, StageInv, GroupInv, Statuses, SIGHUP, Exit, Killed, prog, SendHup, TimeIsUp,
          WakeUp, Early, Late
    <3>3. QED BY <1>2, <3>1, <3>2, StatusAssumption, NoneAssumption DEF TypeOK, StageInv, Cases,
           SIGHUP, Exit, Killed, prog, SendHup, TimeIsUp, WakeUp
  <2>2. StageInv'
    BY <1>2, StatusAssumption, NoneAssumption
    DEF Statuses, Cases, Roles, Processes, STF_OTHER, SIGHUP, Assertions, TypeOK, Exit, Killed,
        prog, SendHup, TimeIsUp, WakeUp, Early, Late, Undisturbed, StageInv
  <2>3. GroupInv' /\ QuietInv' /\ DeadInv' /\ StatusInv' /\ VerdictTrue' /\ AssertionsBelong'
    BY <1>2
    DEF SIGHUP, Assertions, Exit, Killed, prog, SendHup, TimeIsUp, WakeUp, VerdictTrue,
        AssertionsBelong, Undisturbed, StageInv, GroupInv, Quiet, QuietInv, DeadInv, StatusInv
  <2>4. CleanupOnce' /\ EntryInv' /\ NoOrphans' BY <1>2 DEF SendHup, WakeUp, NoOrphans, CleanupOnce, EntryInv
  <2>5. QED BY <2>1, <2>2, <2>3, <2>4
<1>3. CASE Suspended \/ PollOther
  <2>0. wpc = "poll" /\ wpc' = "wait" /\ UNCHANGED <<suspend, driverVars, fileVars, timed_out,
          interrupted, reaped, child_status, ctxVars, progVars>>
    BY <1>3 DEF TimeIsUp, Suspended, PollOther
  <2>1. TypeOK' BY <2>0 DEF TypeOK
  <2>2. StageInv' /\ GroupInv' /\ QuietInv' /\ DeadInv' /\ StatusInv' /\ VerdictTrue' /\ AssertionsBelong'
    BY <2>0
    DEF prog, VerdictTrue, AssertionsBelong, Undisturbed, StageInv,
        GroupInv, Quiet, QuietInv, DeadInv, StatusInv
  <2>3. CleanupOnce' /\ EntryInv' /\ NoOrphans' BY <2>0 DEF NoOrphans, CleanupOnce, EntryInv
  <2>4. QED BY <2>1, <2>2, <2>3
<1>4. CASE HupWait
  <2>1. TypeOK'
    <3>1. reaped' \in BOOLEAN BY <1>4, ProcessAssumption, Zenon DEF TypeOK, HupWait
    <3>2. QED BY <1>4, <3>1 DEF TypeOK, StageInv, Cases, HupWait
  <2>2. StageInv' /\ GroupInv' /\ QuietInv' /\ DeadInv' /\ StatusInv' /\ VerdictTrue' /\ AssertionsBelong'
    BY <1>4
    DEF prog, HupWait, VerdictTrue, AssertionsBelong, Undisturbed, StageInv, GroupInv, Quiet,
        QuietInv, DeadInv, StatusInv
  <2>3. CleanupOnce' /\ EntryInv' /\ NoOrphans' BY <1>4 DEF HupWait, NoOrphans, CleanupOnce, EntryInv
  <2>4. QED BY <2>1, <2>2, <2>3
<1>5. CASE HupKill
  <2>1. TypeOK'
    <3>1. hup' \in BOOLEAN /\ caught' \in BOOLEAN BY <1>5, ProcessAssumption, Zenon DEF TypeOK, HupKill
    <3>2. cstat' \in Statuses
      BY <1>5, StatusAssumption, NoneAssumption
      DEF TypeOK, StageInv, GroupInv, Statuses, SIGKILL, Killed, prog, NextCase, HupKill,
          Early, Late
    <3>3. QED BY <1>5, <3>1, <3>2, CasesAssumption, StatusAssumption, NoneAssumption DEF TypeOK,
           StageInv, Cases, SIGKILL, Killed, NextCase, HupKill
  <2>2. StageInv'
    BY <1>5, CasesAssumption, StatusAssumption, NoneAssumption
    DEF Statuses, Cases, Roles, Processes, STF_OTHER, SIGKILL, Assertions, TypeOK, Killed,
        NextCase, HupKill, Early, Late, Undisturbed, StageInv
  <2>3. GroupInv'
    BY <1>5, CasesAssumption, StatusAssumption, NoneAssumption
    DEF Statuses, Cases, Roles, Processes, STF_OTHER, SIGKILL, Assertions, TypeOK, Killed, prog,
        NextCase, HupKill, Early, Late, Undisturbed, StageInv, GroupInv
  <2>4. DeadInv'
    BY <1>5, StatusAssumption, NoneAssumption
    DEF Statuses, SIGKILL, Exit, Killed, prog, NextCase, HupKill, Early, Late, Undisturbed,
        StageInv, DeadInv
  <2>5. EntryInv'
    BY <1>5, CasesAssumption
    DEF Statuses, Cases, Roles, Processes, STF_OTHER, SIGKILL, Assertions, TypeOK, Killed,
        NextCase, HupKill, Early, Late, Undisturbed, StageInv, EntryInv
  <2>6. VerdictTrue'
    BY <1>5, CasesAssumption, StatusAssumption, NoneAssumption
    DEF Statuses, Cases, Roles, Processes, STF_TIMED_OUT, STF_OTHER, SIGKILL, Assertions,
        TypeOK, Exit, Killed, get_status_name, prog, NextCase, HupKill, VerdictTrue, Early,
        Late, Undisturbed, StageInv, GroupInv, DeadInv, StatusInv, EntryInv
  <2>7. NoOrphans'
    BY <1>5, CasesAssumption, StatusAssumption, NoneAssumption
    DEF Statuses, Cases, Roles, Processes, STF_OTHER, SIGKILL, Assertions, TypeOK, Killed, prog,
        NextCase, HupKill, Obeys, NoOrphans, Early, Late, Undisturbed, StageInv, GroupInv,
        Quiet, QuietInv
  <2>8. QuietInv' /\ StatusInv' /\ AssertionsBelong'
    BY <1>5
    DEF SIGKILL, Assertions, Killed, NextCase, HupKill, AssertionsBelong, Undisturbed, Quiet,
        QuietInv, StatusInv
  <2>9. CleanupOnce' BY <1>5 DEF NextCase, HupKill, CleanupOnce
  <2>10. QED BY <2>1, <2>2, <2>3, <2>4, <2>5, <2>6, <2>7, <2>8, <2>9
<1>6. CASE WaitChild
  <2>1. TypeOK'
    BY <1>6, StatusAssumption, NoneAssumption
    DEF Statuses, Cases, Roles, Processes, STF_TIMED_OUT, TypeOK, WaitChild
  <2>2. StatusInv'
    BY <1>6, StatusAssumption, NoneAssumption
    DEF STF_TIMED_OUT, WaitChild, Early, Late, Undisturbed, StageInv, StatusInv
  <2>3. StageInv' /\ GroupInv' /\ QuietInv' /\ DeadInv' /\ VerdictTrue' /\ AssertionsBelong'
    BY <1>6
    DEF STF_TIMED_OUT, prog, WaitChild, VerdictTrue, AssertionsBelong, Undisturbed, StageInv,
        GroupInv, Quiet, QuietInv, DeadInv
  <2>4. CleanupOnce' /\ EntryInv' /\ NoOrphans' BY <1>6 DEF WaitChild, NoOrphans, CleanupOnce, EntryInv
  <2>5. QED BY <2>1, <2>2, <2>3, <2>4
<1>7. CASE EndLock
  <2>1. TypeOK' BY <1>7, CasesAssumption DEF Cases, Roles, Processes, Owners, TypeOK, Lock, EndLock
  <2>2. StageInv' /\ GroupInv' /\ QuietInv' /\ DeadInv' /\ StatusInv' /\ VerdictTrue' /\ AssertionsBelong'
    BY <1>7
    DEF Lock, prog, EndLock, VerdictTrue, AssertionsBelong, Undisturbed, StageInv, GroupInv,
        Quiet, QuietInv, DeadInv, StatusInv
  <2>3. CleanupOnce' /\ EntryInv' /\ NoOrphans' BY <1>7 DEF Lock, EndLock, NoOrphans, CleanupOnce, EntryInv
  <2>4. QED BY <2>1, <2>2, <2>3
<1>8. CASE TestcaseEnd
  <2>1. TypeOK'
    <3>1. entry' \in Entries
      BY <1>8, CasesAssumption
      DEF TypeOK, StageInv, Statuses, Cases, STF_NORESULT, STF_TIMED_OUT, STF_OTHER,
          Assertions, Entries, Unlock, get_status_name, TestcaseEndEntry, NextCase,
          TestcaseEnd
    <3>2. QED BY <1>8, <3>1, CasesAssumption DEF TypeOK, StageInv, Cases, Owners, STF_NORESULT,
           STF_TIMED_OUT, STF_OTHER, Unlock, NextCase, TestcaseEnd
  <2>2. StageInv'
    BY <1>8, CasesAssumption
    DEF Statuses, Cases, Roles, Processes, STF_NORESULT, STF_TIMED_OUT, STF_OTHER, Assertions,
        TypeOK, Unlock, get_status_name, TestcaseEndEntry, NextCase, TestcaseEnd, Early, Late,
        Undisturbed, StageInv
  <2>3. GroupInv'
    BY <1>8, CasesAssumption
    DEF Statuses, Cases, Roles, Processes, STF_NORESULT, STF_TIMED_OUT, STF_OTHER, Assertions,
        TypeOK, Unlock, get_status_name, TestcaseEndEntry, prog, NextCase, TestcaseEnd, Early,
        Late, Undisturbed, StageInv, GroupInv
  <2>4. EntryInv'
    BY <1>8, CasesAssumption
    DEF Statuses, Cases, Roles, Processes, STF_NORESULT, STF_TIMED_OUT, STF_OTHER, Assertions,
        TypeOK, Unlock, get_status_name, TestcaseEndEntry, NextCase, TestcaseEnd, Early, Late,
        Undisturbed, StageInv, EntryInv
  <2>5. VerdictTrue'
    BY <1>8
    DEF Statuses, Cases, Roles, Processes, STF_NORESULT, STF_TIMED_OUT, STF_OTHER, Exit, Unlock,
        get_status_name, TestcaseEndEntry, prog, NextCase, TestcaseEnd, VerdictTrue, Early,
        Late, Undisturbed, StageInv, GroupInv, DeadInv, StatusInv, EntryInv
  <2>6. NoOrphans'
    BY <1>8, CasesAssumption
    DEF Statuses, Cases, Roles, Processes, STF_NORESULT, STF_TIMED_OUT, STF_OTHER, Assertions,
        TypeOK, Unlock, get_status_name, TestcaseEndEntry, prog, NextCase, TestcaseEnd, Obeys,
        NoOrphans, Early, Late, Undisturbed, StageInv, GroupInv, Quiet, QuietInv
  <2>7. QuietInv' /\ DeadInv' /\ StatusInv' /\ AssertionsBelong'
    BY <1>8
    DEF STF_NORESULT, STF_TIMED_OUT, STF_OTHER, Assertions, Exit, Unlock, get_status_name,
        TestcaseEndEntry, prog, NextCase, TestcaseEnd, AssertionsBelong, Undisturbed, Quiet,
        QuietInv, DeadInv, StatusInv
  <2>8. CleanupOnce' BY <1>8 DEF Unlock, NextCase, TestcaseEnd, CleanupOnce
  <2>9. QED BY <2>1, <2>2, <2>3, <2>4, <2>5, <2>6, <2>7, <2>8
<1>9. QED BY <1>1, <1>2, <1>3, <1>4, <1>5, <1>6, <1>7, <1>8 DEF Watch

-----------------------------------------------------------------------------
\* Inv is an invariant of the run.
THEOREM Invariance == Spec => []Inv
<1>1. ASSUME Inv, [Next]_vars PROVE Inv'
  <2>1. CASE UNCHANGED vars
    BY <1>1, <2>1
    DEF vars, driverVars, fileVars, watchVars, ctxVars, logVars, progVars, Inv, Control, TypeOK,
        StageInv, GroupInv, QuietInv, DeadInv, StatusInv, CleanupOnce, EntryInv, VerdictTrue, NoOrphans,
        AssertionsBelong, Undisturbed, Quiet, prog
  <2>2. CASE Next
    BY <1>1, <2>2, DriverStep, WritesStep, ProgramStep, ContextStep, WatchStep
    DEF Next, Program, Continues
  <2>3. QED BY <1>1, <2>1, <2>2
<1>2. QED BY Initially, <1>1, PTL DEF Spec

\* TypeOK, with the driver, stf_timeout and the current test case in step.
THEOREM TypeCorrect == Spec => []TypeOK
<1>1. Inv => TypeOK BY DEF Inv, Control
<1>2. QED BY Invariance, <1>1, PTL

\* The verdict of a test case that nobody interrupted is TIMED_OUT if its limit
\* passed, whatever the uninitialized child_status of stf_timeout held, and the
\* program's own result otherwise; the same in the journal and on stdout.
THEOREM VerdictsAreTrue == Spec => []VerdictTrue
<1>1. Inv => VerdictTrue BY DEF Inv
<1>2. QED BY Invariance, <1>1, PTL

\* clean_kill and the two goodbye functions leave no process behind that obeys
\* SIGHUP, unless somebody interrupts stf_timeout.
THEOREM NobodyIsLeft == Spec => []NoOrphans
<1>1. Inv => NoOrphans BY DEF Inv
<1>2. QED BY Invariance, <1>1, PTL

\* An assertion has the name of the test case of its program and comes before
\* the end of it, although libstf reads the name without the mutex.
THEOREM AssertionsHaveTheirCase == Spec => []AssertionsBelong
<1>1. Inv => AssertionsBelong BY DEF Inv
<1>2. QED BY Invariance, <1>1, PTL

\* A function given to log_onexit() runs at most once, and it runs when the
\* program ends by itself unless a later call has replaced it or the cleanup
\* function, in whose place it would run, has registered it (endlog).
THEOREM CleanupRunsOnce == Spec => []CleanupOnce
<1>1. Inv => CleanupOnce BY DEF Inv
<1>2. QED BY Invariance, <1>1, PTL
=============================================================================
