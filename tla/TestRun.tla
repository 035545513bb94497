------------------------------- MODULE TestRun -------------------------------
(***************************************************************************)
(* A sequence of test cases under stf_execute.  For each one stf_timeout   *)
(* (W) forks a child that writes the start entry and becomes               *)
(* stf_jnl_context (C); C runs the test program ("prog") in a process      *)
(* group of its own, where the program may leave a process in the          *)
(* background ("bg").  Both write assertions through libstf, which keeps   *)
(* the name of the test case and a mutex in a file that all of them map.   *)
(* The program ends through liblogapi.                                     *)
(*                                                                         *)
(* The variables of W and C are those of the current test case; the        *)
(* processes of earlier ones that were left behind go on in proc.          *)
(*                                                                         *)
(* Signals, process groups, wait() and the process-shared mutex are the    *)
(* system's: a mutex whose owner is killed is never released.              *)
(***************************************************************************)
EXTENDS Integers

CONSTANTS
  NumCases,     \* test cases of the run
  Codes,        \* result codes with which a program calls liblogapi
  Deaths,       \* how else it may die: the low byte of wait()'s status
  Garbage,      \* what the uninitialized child_status may hold
  Stubborn,     \* which of "prog" and "bg" ignore SIGHUP
  SuspendFlags, \* may stf_timeout have -s, or STF_SUSPEND be set?
  MaxEntries,   \* bound: entries that programs write
  MaxOnExit,    \* bound: calls of log_onexit() by one program
  None

Statuses == [code : 0 .. 255, sig : 0 .. 255]

ASSUME CasesAssumption   == NumCases \in Nat \ {0}
ASSUME StatusAssumption  == Codes \subseteq 0 .. 127 /\ Deaths \subseteq 1 .. 255 /\ Garbage \subseteq Statuses
ASSUME ProcessAssumption == Stubborn \subseteq {"prog", "bg"} /\ SuspendFlags \subseteq BOOLEAN
ASSUME BoundAssumption   == MaxEntries \in Nat /\ MaxOnExit \in Nat
ASSUME NoneAssumption    == None \notin 0 .. 255 /\ None \notin Statuses

Cases     == 1 .. NumCases
Roles     == {"prog", "bg"}
Processes == Roles \X Cases
Owners    == {"watch", "ctx", "prog", "bg"} \X Cases

STF_NORESULT  == 7
STF_TIMED_OUT == 9
STF_OTHER     == 10
SIGHUP        == 1
SIGKILL       == 9

VARIABLES
  driver,       \* stf_execute: "start", "env", "run", "end", "done"
  cur,          \* the test case it has come to
  entry,        \* the latest entry of the journal
  jasrt,        \* the variable file: the test case that runs (0: "?")
  jvar_mlock,   \* and its mutex: None, or the process that holds it
  suspend,      \* W: is a hung process left alone?
  wpc,          \* its place: "off", "poll", "hup", "kill", "wait", "end", "locked"
  timed_out,
  interrupted,  \* test cases whose W runs goodbye()
  reaped,       \* has clean_kill() waited for the child already?
  child_status,
  ctx,          \* C: "off", "start", "locked", "exec", "run", "drain", "wait", "dead"
  cstat,        \* its status for wait()
  hup,          \* has C a SIGHUP pending?
  caught,       \* has it caught one?  The next one has its default action
  proc,         \* programs and their background processes
  pstat,        \* the status of the program for wait()
  written,      \* entries written by programs
  cleanup_function, \* is a function registered?
  rcode,        \* what the endlog() that called the function will exit with
  onexits,      \* functions registered so far
  cleanups,     \* functions called so far
  replaced      \* and functions that another one, or NULL, took the place of

driverVars == <<driver, cur>>
fileVars   == <<entry, jasrt, jvar_mlock>>
watchVars  == <<suspend, wpc, timed_out, interrupted, reaped, child_status>>
ctxVars    == <<ctx, cstat, hup, caught>>
logVars    == <<cleanup_function, rcode, onexits, cleanups, replaced>>
progVars   == <<proc, pstat, written, logVars>>
vars       == <<driverVars, fileVars, watchVars, ctxVars, progVars>>

Assertions == {"Assertion_Start", "Assertion_End", "Totals"}

Entries ==
  [kind : {"none", "Start", "STF_ENV", "End", "Msg"}] \cup
  [kind : {"Test_Case_Start"}, case : Cases] \cup
  [kind : {"Test_Case_End"}, case : Cases, name : 0 .. STF_OTHER, said : 0 .. STF_OTHER] \cup
  [kind : Assertions, asrt : 0 .. NumCases, by : Processes]

TypeOK ==
  /\ driver \in {"start", "env", "run", "end", "done"}
  /\ cur \in 1 .. NumCases + 1
  /\ driver = "run" => cur \in Cases
  /\ wpc # "off" => driver = "run"
  /\ entry \in Entries
  /\ jasrt \in 0 .. NumCases
  /\ jvar_mlock \in Owners \cup {None}
  /\ wpc \in {"off", "poll", "hup", "kill", "wait", "end", "locked"}
  /\ suspend \in BOOLEAN
  /\ timed_out \in BOOLEAN
  /\ interrupted \in SUBSET Cases
  /\ reaped \in BOOLEAN
  /\ child_status \in Statuses
  /\ ctx \in {"off", "start", "locked", "exec", "run", "drain", "wait", "dead"}
  /\ cstat \in Statuses
  /\ hup \in BOOLEAN
  /\ caught \in BOOLEAN
  /\ proc \in [Processes -> {"none", "start", "run", "locked", "print"}]
  /\ pstat \in Statuses \cup {None}
  /\ written \in 0 .. MaxEntries
  /\ cleanup_function \in BOOLEAN
  /\ rcode \in 0 .. 127 \cup {None}
  /\ onexits \in 0 .. MaxOnExit
  /\ cleanups \in Nat
  /\ replaced \in Nat

Exit(n)   == [code |-> n, sig |-> 0]
Killed(n) == [code |-> 0, sig |-> n]

Init ==
  /\ driver = "start"
  /\ cur = 1
  /\ entry = [kind |-> "none"]
  /\ jasrt = 0
  /\ jvar_mlock = None
  /\ wpc = "off"
  /\ suspend = FALSE
  /\ timed_out = FALSE
  /\ interrupted = {}
  /\ reaped = FALSE
  /\ child_status = Exit(0)
  /\ ctx = "off"
  /\ cstat = Exit(0)
  /\ hup = FALSE
  /\ caught = FALSE
  /\ proc = [p \in Processes |-> "none"]
  /\ pstat = None
  /\ written = 0
  /\ cleanup_function = FALSE
  /\ rcode = None
  /\ onexits = 0
  /\ cleanups = 0
  /\ replaced = 0
-----------------------------------------------------------------------------
(* The journal and the variable file: libstf.c.                            *)

Lock(o) == jvar_mlock = None /\ jvar_mlock' = o
Unlock  == jvar_mlock' = None

\* The names of stf.h are numbered; any other code is OTHER.
get_status_name(code) == IF code < STF_OTHER THEN code ELSE STF_OTHER

\* stf_jnl_start: the variable file is made anew.
JnlStart ==
  /\ driver = "start"
  /\ driver' = "env"
  /\ entry' = [kind |-> "Start"]
  /\ jasrt' = 0
  /\ Unlock
  /\ UNCHANGED <<cur, watchVars, ctxVars, progVars>>

JnlEnv ==
  /\ driver = "env"
  /\ driver' = "run"
  /\ entry' = [kind |-> "STF_ENV"]
  /\ UNCHANGED <<cur, jasrt, jvar_mlock, watchVars, ctxVars, progVars>>

\* stf_jnl_end.  What processes that were left behind do later is not modelled.
JnlEnd ==
  /\ driver = "end"
  /\ driver' = "done"
  /\ entry' = [kind |-> "End"]
  /\ UNCHANGED <<cur, jasrt, jvar_mlock, watchVars, ctxVars, progVars>>

\* stf_jnl_testcase_start, in the child of stf_timeout: the mutex,
TestcaseLock ==
  /\ ctx = "start"
  /\ Lock(<<"ctx", cur>>)
  /\ ctx' = "locked"
  /\ UNCHANGED <<driverVars, entry, jasrt, watchVars, cstat, hup, caught, progVars>>

\* Mutant: the name is left out.
TestcaseStart_NoName ==
  /\ ctx = "locked"
  /\ Unlock
  /\ entry' = [kind |-> "Test_Case_Start", case |-> cur]
  /\ ctx' = "exec"
  /\ UNCHANGED <<driverVars, jasrt, watchVars, cstat, hup, caught, progVars>>

\* the name, and the entry.
TestcaseStart ==
  /\ ctx = "locked"
  /\ jasrt' = cur
  /\ Unlock
  /\ entry' = [kind |-> "Test_Case_Start", case |-> cur]
  /\ ctx' = "exec"
  /\ UNCHANGED <<driverVars, watchVars, cstat, hup, caught, progVars>>

\* stf_jnl_testcase_end: after a signal the result in the journal and the one
\* on stdout differ.
TestcaseEndEntry(s) ==
  [kind |-> "Test_Case_End", case |-> cur,
   name |-> IF s.sig # 0 /\ s.code < STF_OTHER /\ s.code # STF_TIMED_OUT
            THEN STF_NORESULT ELSE get_status_name(s.code),
   said |-> get_status_name(s.code)]

Writes(p) ==
  /\ proc[p] = "run"
  /\ driver = "run"
  /\ written < MaxEntries
  /\ written' = written + 1

\* An assertion's entry takes the test case's name from the variable file.
AssertionEntry(p, kind) == [kind |-> kind, asrt |-> jasrt, by |-> p]

\* stf_jnl_assert_start: the mutex,
AssertLock(p) ==
  /\ Writes(p)
  /\ Lock(p)
  /\ proc' = [proc EXCEPT ![p] = "locked"]
  /\ UNCHANGED <<driverVars, entry, jasrt, watchVars, ctxVars, pstat, logVars>>

\* the variable file given back,
AssertUnlock(p) ==
  /\ proc[p] = "locked"
  /\ Unlock
  /\ proc' = [proc EXCEPT ![p] = "print"]
  /\ UNCHANGED <<driverVars, entry, jasrt, watchVars, ctxVars, pstat, written, logVars>>

\* and the entry, with the name that is there by now.
AssertStart(p) ==
  /\ proc[p] = "print"
  /\ driver = "run"
  /\ entry' = AssertionEntry(p, "Assertion_Start")
  /\ proc' = [proc EXCEPT ![p] = "run"]
  /\ UNCHANGED <<driverVars, jasrt, jvar_mlock, watchVars, ctxVars, pstat, written, logVars>>

\* stf_jnl_assert_end: the name is read without the mutex.
AssertEnd(p) ==
  /\ Writes(p)
  /\ entry' = AssertionEntry(p, "Assertion_End")
  /\ UNCHANGED <<driverVars, jasrt, jvar_mlock, watchVars, ctxVars, proc, pstat, logVars>>
Totals(p) ==
  /\ Writes(p)
  /\ entry' = AssertionEntry(p, "Totals")
  /\ UNCHANGED <<driverVars, jasrt, jvar_mlock, watchVars, ctxVars, proc, pstat, logVars>>

Msg(p) ==
  /\ Writes(p)
  /\ entry' = [kind |-> "Msg"]
  /\ UNCHANGED <<driverVars, jasrt, jvar_mlock, watchVars, ctxVars, proc, pstat, logVars>>
-----------------------------------------------------------------------------
(* The test program: liblogapi.c, and what may happen to it.               *)

prog == <<"prog", cur>>
bg   == <<"bg", cur>>
Runs == cur \in Cases /\ proc[prog] = "run"

ExitWith(rc) ==
  /\ proc' = [proc EXCEPT ![prog] = "none"]
  /\ pstat' = Exit(rc)
  /\ UNCHANGED <<written, logVars>>

\* Mutant: the function stays registered while it runs.
EndLog_KeepsFunction(rc) ==
  /\ Runs
  /\ \/ /\ cleanup_function
        /\ cleanups' = cleanups + 1
        /\ rcode' = rc
        /\ UNCHANGED <<cleanup_function, proc, pstat, onexits, replaced, written>>
     \/ ~cleanup_function /\ ExitWith(rc)
  /\ UNCHANGED <<driverVars, fileVars, watchVars, ctxVars>>

\* endlog: log_pass ... log_other, and log_must and log_mustnot, which may
\* call log_fail.  The cleanup function may call them too.
EndLog(rc) ==
  /\ Runs
  /\ \/ /\ cleanup_function
        /\ cleanup_function' = FALSE
        /\ cleanups' = cleanups + 1
        /\ rcode' = rc
        /\ UNCHANGED <<proc, pstat, onexits, replaced, written>>
     \/ ~cleanup_function /\ ExitWith(rc)
  /\ UNCHANGED <<driverVars, fileVars, watchVars, ctxVars>>

\* The cleanup function returns, and endlog() exits.
CleanupReturns ==
  /\ Runs
  /\ rcode # None
  /\ ExitWith(rcode)
  /\ UNCHANGED <<driverVars, fileVars, watchVars, ctxVars>>

\* log_onexit: with a function, or with NULL.  What was registered is lost.
OnExit ==
  /\ Runs
  /\ \/ onexits < MaxOnExit /\ onexits' = onexits + 1 /\ cleanup_function' = TRUE
     \/ cleanup_function /\ cleanup_function' = FALSE /\ UNCHANGED onexits
  /\ replaced' = replaced + (IF cleanup_function THEN 1 ELSE 0)
  /\ UNCHANGED <<driverVars, fileVars, watchVars, ctxVars, proc, pstat, written, rcode, cleanups>>

Spawn ==
  /\ Runs
  /\ proc[bg] = "none"
  /\ proc' = [proc EXCEPT ![bg] = "run"]
  /\ UNCHANGED <<driverVars, fileVars, watchVars, ctxVars, pstat, written, logVars>>

\* A process in the background ends, or one that was left behind.
BackgroundEnds(p) ==
  /\ proc[p] = "run"
  /\ p[1] = "bg" \/ p[2] < cur
  /\ proc' = [proc EXCEPT ![p] = "none"]
  /\ UNCHANGED <<driverVars, fileVars, watchVars, ctxVars, pstat, written, logVars>>

\* sig kills the processes of the current group with these roles.
KillGroup(roles, sig) ==
  /\ proc' = [p \in Processes |-> IF p[1] \in roles /\ p[2] = cur THEN "none" ELSE proc[p]]
  /\ pstat' = IF "prog" \in roles /\ proc[prog] # "none" THEN Killed(sig) ELSE pstat
  /\ UNCHANGED <<written, logVars>>

\* The program aborts, or somebody kills it.
Crash(sig) ==
  /\ cur \in Cases
  /\ proc[prog] # "none"
  /\ KillGroup({"prog"}, sig)
  /\ UNCHANGED <<driverVars, fileVars, watchVars, ctxVars>>
-----------------------------------------------------------------------------
(* stf_jnl_context                                                         *)

ContextForks ==
  /\ ctx = "exec"
  /\ ctx' = "run"
  /\ proc' = [proc EXCEPT ![prog] = "start"]
  /\ UNCHANGED <<driverVars, fileVars, watchVars, cstat, hup, caught, pstat, written, logVars>>

\* The program becomes the leader of a process group of its own.
ProgramStarts(c) ==
  /\ proc[<<"prog", c>>] = "start"
  /\ proc' = [proc EXCEPT ![<<"prog", c>>] = "run"]
  /\ UNCHANGED <<driverVars, fileVars, watchVars, ctxVars, pstat, written, logVars>>

\* read_pipe sees the end of a pipe, which a program that runs on may have
\* closed, or of the program; or an error.
ReadPipeEnds ==
  /\ ctx = "run"
  /\ proc[prog] # "start"
  /\ ctx' = "drain"
  /\ UNCHANGED <<driverVars, fileVars, watchVars, cstat, hup, caught, progVars>>

\* The final reads end when nobody holds the pipes any more: the processes
\* are gone, or have closed them.
Drained ==
  /\ ctx = "drain"
  /\ proc[prog] # "start"
  /\ ctx' = "wait"
  /\ UNCHANGED <<driverVars, fileVars, watchVars, cstat, hup, caught, progVars>>

\* waitpid() returns: the rest of the group is killed, and a status that is
\* no exit code is returned as it is.
ContextEnds ==
  /\ ctx = "wait"
  /\ proc[prog] = "none"
  /\ KillGroup(Roles, SIGKILL)
  /\ cstat' = Exit(IF pstat.sig = 0 THEN pstat.code ELSE pstat.sig)
  /\ ctx' = "dead"
  /\ hup' = FALSE
  /\ UNCHANGED <<driverVars, fileVars, watchVars, caught>>

\* Mutant: the signal is not passed on.
Goodbye_NotForwarded ==
  /\ hup
  /\ hup' = FALSE
  /\ caught' = TRUE
  /\ ctx \in {"run", "drain"}
  /\ ctx' = "drain"
  /\ UNCHANGED <<driverVars, fileVars, watchVars, cstat, progVars>>

\* goodbye: the signal goes on to the program's group, if there is one by
\* now; poll() or read() is interrupted.  signal() sets a handler for one time.
Goodbye ==
  /\ hup
  /\ hup' = FALSE
  /\ caught' = TRUE
  /\ KillGroup(IF proc[prog] = "start" THEN {} ELSE Roles \ Stubborn, SIGHUP)
  /\ \/ ctx \in {"run", "drain"} /\ ctx' = "drain"
     \/ ctx \in {"drain", "wait"} /\ ctx' = "wait"
  /\ UNCHANGED <<driverVars, fileVars, watchVars, cstat>>
-----------------------------------------------------------------------------
(* stf_timeout                                                             *)

NextCase == cur' = cur + 1 /\ driver' = IF cur = NumCases THEN "end" ELSE "run"

\* runprogram, testcaseExtract: the next test case.
Fork ==
  /\ driver = "run"
  /\ wpc = "off"
  /\ wpc' = "poll"
  /\ suspend' \in SuspendFlags
  /\ timed_out' = FALSE
  /\ reaped' = FALSE
  /\ child_status' = Exit(0)
  /\ ctx' = "start"
  /\ cstat' = Exit(0)
  /\ hup' = FALSE
  /\ caught' = FALSE
  /\ pstat' = None
  /\ cleanup_function' = FALSE
  /\ rcode' = None
  /\ onexits' = 0
  /\ cleanups' = 0
  /\ replaced' = 0
  /\ UNCHANGED <<driverVars, fileVars, interrupted, proc, written>>

\* kill(-test_pid, SIGHUP): before the child has called setpgid() nobody
\* gets it; before C has set its handlers, and when C has caught a signal
\* before, it ends the child.
SendHup ==
  \/ /\ ctx \in {"start", "dead"}
     /\ UNCHANGED ctxVars
  \/ /\ ctx \in {"start", "locked", "exec"}
     /\ ctx' = "dead"
     /\ cstat' \in {Exit(1)} \cup (IF ctx = "exec" THEN {Killed(SIGHUP)} ELSE {})
     /\ UNCHANGED <<hup, caught>>
  \/ /\ ctx \in {"run", "drain", "wait"}
     /\ ~caught
     /\ hup' = TRUE
     /\ UNCHANGED <<ctx, cstat, caught>>
  \/ /\ ctx \in {"run", "drain", "wait"}
     /\ caught
     /\ ctx' = "dead"
     /\ cstat' = Killed(SIGHUP)
     /\ hup' = FALSE
     /\ UNCHANGED caught

\* poll_process: the child has ended.  Its group holds nobody else.
PollHup ==
  /\ wpc = "poll"
  /\ ctx = "dead"
  /\ wpc' = "wait"
  /\ UNCHANGED <<suspend, driverVars, fileVars, timed_out, interrupted, reaped, child_status, ctxVars, progVars>>

\* poll_process returns at another event: the child goes on without a limit.
PollOther ==
  /\ wpc = "poll"
  /\ wpc' = "wait"
  /\ UNCHANGED <<suspend, driverVars, fileVars, timed_out, interrupted, reaped, child_status, ctxVars, progVars>>

\* Time assumption: the program is running by the time its limit has passed.
TimeIsUp == wpc = "poll" /\ ctx \in {"run", "drain", "wait", "dead"} /\ proc[prog] # "start"

\* wake_up: timed_out, and clean_kill begins.
WakeUp ==
  /\ TimeIsUp
  /\ ~suspend
  /\ timed_out' = TRUE
  /\ SendHup
  /\ wpc' = "hup"
  /\ UNCHANGED <<suspend, driverVars, fileVars, interrupted, reaped, child_status, progVars>>

Suspended ==
  /\ TimeIsUp
  /\ suspend
  /\ wpc' = "wait"
  /\ UNCHANGED <<suspend, driverVars, fileVars, timed_out, interrupted, reaped, child_status, ctxVars, progVars>>

\* goodbye: somebody interrupts stf_timeout, wherever it is.
Interrupt ==
  /\ wpc # "off"
  /\ cur \notin interrupted
  /\ interrupted' = interrupted \cup {cur}
  /\ SendHup
  /\ wpc' = "hup"
  /\ UNCHANGED <<suspend, driverVars, fileVars, timed_out, reaped, child_status, progVars>>

\* clean_kill waits up to ten seconds.  Time assumption: C handles its signal
\* within that time.
HupWait ==
  /\ wpc = "hup"
  /\ wpc' = "kill"
  /\ \/ ctx = "dead" /\ reaped' = TRUE
     \/ ctx # "dead" /\ ~hup /\ UNCHANGED reaped
  /\ UNCHANGED <<suspend, driverVars, fileVars, timed_out, interrupted, child_status, ctxVars, progVars>>

\* Mutant: wake_up sends SIGHUP and no more.
HupKill_Nobody ==
  /\ wpc = "kill"
  /\ IF cur \in interrupted
     THEN wpc' = "off" /\ NextCase /\ ctx' = "dead"
     ELSE wpc' = "wait" /\ UNCHANGED <<driverVars, ctx>>
  /\ UNCHANGED <<suspend, fileVars, timed_out, interrupted, reaped, child_status, cstat, hup, caught, progVars>>

\* kill(-test_pid, SIGKILL), which reaches C only; goodbye exits.
HupKill ==
  /\ wpc = "kill"
  /\ ctx' = "dead"
  /\ cstat' = IF ctx = "dead" THEN cstat ELSE Killed(SIGKILL)
  /\ hup' = FALSE
  /\ IF cur \in interrupted
     THEN wpc' = "off" /\ NextCase
     ELSE wpc' = "wait" /\ UNCHANGED driverVars
  /\ UNCHANGED <<suspend, fileVars, timed_out, interrupted, reaped, child_status, caught, progVars>>

\* Mutant: the time-out is not put into the status.
WaitChild_NoTimeOut ==
  /\ wpc = "wait"
  /\ ctx = "dead"
  /\ child_status' \in (IF reaped THEN Garbage ELSE {cstat})
  /\ wpc' = "end"
  /\ UNCHANGED <<suspend, driverVars, fileVars, timed_out, interrupted, reaped, ctxVars, progVars>>

\* waitpid(): when clean_kill has been there before, it fails and
\* child_status is not assigned.
WaitChild ==
  /\ wpc = "wait"
  /\ ctx = "dead"
  /\ \E s \in (IF reaped THEN Garbage ELSE {cstat}) :
       child_status' = IF timed_out THEN [s EXCEPT !.code = STF_TIMED_OUT] ELSE s
  /\ wpc' = "end"
  /\ UNCHANGED <<suspend, driverVars, fileVars, timed_out, interrupted, reaped, ctxVars, progVars>>

\* stf_jnl_testcase_end
EndLock ==
  /\ wpc = "end"
  /\ Lock(<<"watch", cur>>)
  /\ wpc' = "locked"
  /\ UNCHANGED <<suspend, driverVars, entry, jasrt, timed_out, interrupted, reaped, child_status, ctxVars, progVars>>

TestcaseEnd ==
  /\ wpc = "locked"
  /\ Unlock
  /\ entry' = TestcaseEndEntry(child_status)
  /\ wpc' = "off"
  /\ NextCase
  /\ UNCHANGED <<suspend, jasrt, timed_out, interrupted, reaped, child_status, ctxVars, progVars>>
-----------------------------------------------------------------------------
Program ==
  \/ \E p \in Processes : AssertLock(p) \/ AssertEnd(p) \/ Totals(p) \/ Msg(p) \/ BackgroundEnds(p)
  \/ \E rc \in Codes : EndLog(rc)
  \/ CleanupReturns
  \/ OnExit
  \/ Spawn
  \/ \E sig \in Deaths : Crash(sig)

Context ==
  \/ TestcaseLock \/ TestcaseStart \/ ContextForks
  \/ ReadPipeEnds \/ Drained \/ ContextEnds \/ Goodbye

\* What a process does once it has begun.
Continues(p) == AssertUnlock(p) \/ AssertStart(p) \/ (p[1] = "prog" /\ ProgramStarts(p[2]))

Watch == PollHup \/ WakeUp \/ Suspended \/ HupWait \/ HupKill \/ WaitChild \/ EndLock \/ TestcaseEnd

Next ==
  \/ JnlStart
  \/ JnlEnv
  \/ Fork
  \/ Interrupt
  \/ Watch
  \/ PollOther
  \/ Context
  \/ Program
  \/ \E p \in Processes : Continues(p)
  \/ JnlEnd

Spec == Init /\ [][Next]_vars

\* What stf_jnl_context has to do: no program has to close its pipes.
ContextDue ==
  \/ TestcaseLock \/ TestcaseStart \/ ContextForks
  \/ ReadPipeEnds /\ proc[prog] = "none"
  \/ Drained /\ proc[prog] = "none" /\ proc[bg] = "none"
  \/ ContextEnds \/ Goodbye

\* Running processes are scheduled, time passes and stf_execute goes on.  No
\* program has to end, and none has to write.
Fairness ==
  /\ WF_vars(JnlStart \/ JnlEnv \/ Fork \/ JnlEnd)
  /\ WF_vars(Watch)
  /\ WF_vars(ContextDue)
  /\ \A p \in Processes : WF_vars(Continues(p))

FairSpec == Spec /\ Fairness
-----------------------------------------------------------------------------
\* The verdict of a test case that nobody interrupted: TIMED_OUT if its limit
\* passed, whatever the uninitialized child_status held, and otherwise the
\* result with which the program ended itself; in the journal and on stdout
\* alike (main of stf_timeout.c and stf_jnl_context.c, stf_jnl_testcase_end).
VerdictTrue ==
  entry.kind = "Test_Case_End" /\ entry.case = cur - 1 /\ wpc = "off" =>
    /\ entry.said = entry.name
    /\ timed_out => entry.name = STF_TIMED_OUT
    /\ ~timed_out /\ pstat.sig = 0 => entry.name = get_status_name(pstat.code)

\* A process that SIGHUP ends, of a program that SIGHUP ends: one that ignores
\* the signal may start other processes after it.
Obeys(p) == p[1] \notin Stubborn /\ "prog" \notin Stubborn

\* When stf_timeout has ended without an interrupt, no process of its test
\* case is left that obeys SIGHUP (clean_kill, the two goodbye functions and
\* the end of stf_jnl_context together).
NoOrphans ==
  \A p \in Processes :
    p[2] < cur /\ p[2] \notin interrupted /\ Obeys(p) => proc[p] = "none"

\* An assertion is journalled under the name of the test case whose program
\* wrote it, before the end of that test case, although the name is in a file
\* that every test case overwrites and that is read without the mutex.
AssertionsBelong ==
  /\ entry.kind \in Assertions
  /\ Obeys(entry.by)
  /\ entry.by[2] \notin interrupted
  => entry.asrt = entry.by[2] /\ entry.by[2] = cur /\ wpc # "off"

\* Of the functions given to log_onexit() each runs once, or is replaced by a
\* later call and never runs, or is still registered; a program that ends
\* itself leaves none registered, unless the cleanup function did it (endlog).
CleanupOnce ==
  /\ onexits = cleanups + replaced + (IF cleanup_function THEN 1 ELSE 0)
  /\ pstat # None /\ pstat.sig = 0 /\ cleanup_function => rcode # None

\* The mutex of the variable file has died with its owner.
LockLost ==
  /\ jvar_mlock # None
  /\ LET role == jvar_mlock[1] c == jvar_mlock[2] IN
     CASE role = "watch" -> c # cur \/ wpc # "locked"
       [] role = "ctx"   -> c # cur \/ ctx # "locked"
       [] OTHER          -> proc[jvar_mlock] # "locked"

\* stf_timeout waits for a child that it no longer watches.
Unwatched == wpc = "wait" /\ ~timed_out /\ ctx # "dead"

\* stf_timeout comes to an end, unless it stops watching a child that runs (-s,
\* or an event at which poll_process returns), or a process was killed in the
\* middle of a journal entry (clean_kill, stf_jnl_testcase_end).
WatchEnds == \A c \in Cases : (cur = c /\ wpc # "off") ~> (cur # c \/ LockLost \/ Unwatched)

=============================================================================
