------------------------------- MODULE Execute -------------------------------
(***************************************************************************)
(* stf_execute (bin/stf_execute.ksh) and stf_executeindir of               *)
(* include/stf_common.kshlib: for each execution mode, the setups of the   *)
(* directories above the one it was started in, then, in that one and in   *)
(* its subdirectories, setups, test cases and cleanups, and the cleanups   *)
(* of the directories above in reverse order.  Any program it runs may     *)
(* fail.                                                                   *)
(*                                                                         *)
(* A directory's programs are run under stf_timeout and stf_jnl_context    *)
(* (module TestRun); here each ends well or not.  The result of a test     *)
(* case goes to the journal only, never into the exit status.              *)
(*                                                                         *)
(* A subdirectory is executed in a subshell of its own, the start          *)
(* directory and those above it in the mode's shell, which ends with       *)
(* everything that is left to do when one of them calls exit.              *)
(***************************************************************************)
EXTENDS Integers, Sequences, SequencesExt

CONSTANTS
  Dirs,      \* the directories of the test suite
  Subdirs,   \* STF_EXECUTE_SUBDIRS of each, as a sequence
  Above,     \* of each, the directories on the path to it from the suite's root
  Parents,   \* the directories above the start directory, from the suite's root on
  Start,     \* the directory where stf_execute was started
  Modes      \* bound: the number of STF_SUITE_EXECUTE_MODES

ASSUME ExecuteAssumption ==
  /\ Subdirs \in [Dirs -> Seq(Dirs)]
  /\ Parents \in Seq(Dirs) /\ Start \in Dirs
  /\ Modes \in Nat \ {0}

\* The directories are a tree, STF_EXECUTE_SUBDIRS lists subdirectories, each
\* once, and the directories above the start directory are in their order.
ASSUME TreeAssumption ==
  /\ Above \in [Dirs -> SUBSET Dirs]
  /\ \A d \in Dirs : d \notin Above[d] /\ \A a \in Above[d] : Above[a] \subseteq Above[d]
  /\ \A d \in Dirs : \A a, b \in Above[d] : a = b \/ a \in Above[b] \/ b \in Above[a]
  /\ \A d \in Dirs : \A i \in DOMAIN Subdirs[d] : Above[Subdirs[d][i]] = Above[d] \cup {d}
  /\ \A d \in Dirs : \A i, k \in DOMAIN Subdirs[d] : Subdirs[d][i] = Subdirs[d][k] => i = k
  /\ Above[Start] = ToSet(Parents)
  /\ \A i, k \in DOMAIN Parents : i < k => Parents[i] \in Above[Parents[k]]

VARIABLES
  kind,     \* of each directory: "runs", "skipped" (no description, not for this mode,
            \* or none of the test cases asked for), "refused" (its configuration failed),
            \* or "unknown" before the first call of the mode
  flags,    \* execute_flag: what is done between setup and cleanup
  mode,     \* number of the mode at work
  step,     \* of the mode's subshell: "parents", "start", "cleanup", "end"; "exit" at last
  todo,     \* parent directories still to be visited in this step
  passed,   \* stf_reverse_parentdirs
  stack,    \* calls of stf_executeindir that are not finished, innermost last
  status,   \* exit status of the last call: "ok", "failed" (1), "other"; or "none"
  modeFail,     \* exec_mode_fail
  overallFail,  \* overall_fail
  \* History of this mode.
  setup,    \* of each directory: "none", "failed" or "done"
  tested,   \* the directories whose test cases were run
  cleaned,  \* the directories whose cleanups were run
  bad,      \* the directories whose variables or environment were refused
  exited,     \* the mode's shell has ended in a call of stf_executeindir
  uncleaned,  \* the directories above whose cleanups were refused
  trouble,    \* something failed, in any of the modes
  dropped     \* a shell has called exit with a status other than 1, in any of the modes

history == <<setup, tested, cleaned, bad, trouble>>
ends == <<exited, uncleaned, dropped>>
driver == <<flags, mode, step, todo, passed, modeFail, overallFail, ends>>
vars == <<kind, flags, mode, step, todo, passed, stack, status, modeFail, overallFail, history, ends>>

Fresh ==
  /\ kind' = [d \in Dirs |-> "unknown"]
  /\ exited' = FALSE /\ uncleaned' = {}
  /\ setup' = [d \in Dirs |-> "none"]
  /\ tested' = {} /\ cleaned' = {} /\ bad' = {}

\* The first mode begins, or ends at once as NextMode says of the others.
Init ==
  /\ kind = [d \in Dirs |-> "unknown"]
  /\ flags \in {<<"e", "r">>, <<"e">>, <<"i">>}
  /\ mode = 1
  /\ step \in {"parents", "end"}
  /\ todo = Parents
  /\ passed = <<>>
  /\ stack = <<>>
  /\ status = "none"
  /\ modeFail = FALSE
  /\ overallFail = (step = "end")
  /\ setup = [d \in Dirs |-> "none"]
  /\ tested = {} /\ cleaned = {} /\ bad = {}
  /\ trouble = (step = "end")
  /\ exited = FALSE /\ uncleaned = {} /\ dropped = FALSE

---------------------------------------------------------------------------
(* stf_executeindir.                                                       *)

Frame(d, options) ==
  [dir |-> d, opts |-> options, all |-> options, failed |-> FALSE, noexec |-> FALSE, norecurse |-> FALSE,
   subs |-> Subdirs[d]]

\* The call, up to the options: a directory may not take part, and the results
\* directory, which every call makes and removes, may not be made.
CallIn(s, d, options) ==
  \E k \in (IF kind[d] = "unknown" THEN {"runs", "skipped", "refused"} ELSE {kind[d]}) :
    /\ kind' = [kind EXCEPT ![d] = k]
    /\ \/ k = "runs" /\ stack' = Append(s, Frame(d, options)) /\ status' = "none" /\ UNCHANGED trouble
       \/ k = "skipped" /\ stack' = s /\ status' = "ok" /\ UNCHANGED trouble
       \/ k \in {"runs", "refused"} /\ stack' = s /\ status' = "failed" /\ trouble' = TRUE

top == Last(stack)
dir == top.dir
Working(opt) == stack # <<>> /\ status = "none" /\ top.opts # <<>> /\ Head(top.opts) = opt
SetTop(f) == stack' = [stack EXCEPT ![Len(stack)] = f] /\ UNCHANGED status
Done(f) == [f EXCEPT !.opts = Tail(@)]

\* -v sources the directory's variables and -k checks its environment: when that
\* fails the loop over the options is left, and with it the directory.
Vars ==
  /\ Working("v") \/ Working("k")
  /\ \/ SetTop(Done(top)) /\ UNCHANGED <<bad, trouble>>
     \/ /\ SetTop([top EXCEPT !.failed = TRUE, !.opts = <<>>])
        /\ bad' = bad \cup {dir}
        /\ trouble' = TRUE
  /\ UNCHANGED <<kind, driver, setup, tested, cleaned>>

\* The tool checkenv is not there, or a file that is sourced calls exit: the
\* shell ends, a subdirectory's or the mode's.
ShellExits ==
  /\ stack # <<>>
  /\ status = "none"
  /\ top.opts = top.all
  /\ trouble' = TRUE
  /\ \E s \in {"failed", "other"} :
       /\ dropped' = (dropped \/ s = "other")
       /\ IF Len(stack) > 1
          THEN stack' = Front(stack) /\ status' = s /\ UNCHANGED <<step, overallFail, exited>>
          ELSE /\ stack' = <<>> /\ status' = "none" /\ step' = "end"
               /\ overallFail' = (overallFail \/ s = "failed")
               /\ exited' = TRUE
  /\ UNCHANGED <<kind, flags, mode, todo, passed, modeFail, uncleaned, setup, tested, cleaned, bad>>

\* Mutant: the test cases run although the setup failed.
Setup_StillExecutes ==
  /\ Working("s")
  /\ \/ SetTop(Done(top)) /\ setup' = [setup EXCEPT ![dir] = "done"] /\ UNCHANGED trouble
     \/ /\ SetTop([Done(top) EXCEPT !.failed = TRUE, !.norecurse = TRUE])
        /\ setup' = [setup EXCEPT ![dir] = "failed"]
        /\ trouble' = TRUE
  /\ UNCHANGED <<kind, driver, tested, cleaned, bad>>

\* Mutant: a failed setup leaves the directory, its cleanup included.
Setup_Leaves ==
  /\ Working("s")
  /\ \/ SetTop(Done(top)) /\ setup' = [setup EXCEPT ![dir] = "done"] /\ UNCHANGED trouble
     \/ /\ SetTop([top EXCEPT !.failed = TRUE, !.opts = <<>>])
        /\ setup' = [setup EXCEPT ![dir] = "failed"]
        /\ trouble' = TRUE
  /\ UNCHANGED <<kind, driver, tested, cleaned, bad>>

\* -s: root setups, then user setups, up to the first that fails.
Setup ==
  /\ Working("s")
  /\ \/ SetTop(Done(top)) /\ setup' = [setup EXCEPT ![dir] = "done"] /\ UNCHANGED trouble
     \/ /\ SetTop([Done(top) EXCEPT !.failed = TRUE, !.noexec = TRUE, !.norecurse = TRUE])
        /\ setup' = [setup EXCEPT ![dir] = "failed"]
        /\ trouble' = TRUE
  /\ UNCHANGED <<kind, driver, tested, cleaned, bad>>

\* -e: the test cases, unless they were not configured.
Execute ==
  /\ Working("e")
  /\ \/ top.noexec /\ SetTop(Done(top)) /\ UNCHANGED <<tested, trouble>>
     \/ ~top.noexec /\ SetTop(Done(top)) /\ tested' = tested \cup {dir} /\ UNCHANGED trouble
     \/ ~top.noexec /\ SetTop([Done(top) EXCEPT !.failed = TRUE]) /\ UNCHANGED tested /\ trouble' = TRUE
  /\ UNCHANGED <<kind, driver, setup, cleaned, bad>>

\* -i: an interactive shell.
Interactive ==
  /\ Working("i")
  /\ SetTop(Done(top))
  /\ UNCHANGED <<kind, driver, history>>

\* -r: each subdirectory, in a subshell, with the same options.
Recurse ==
  /\ Working("r")
  /\ ~top.norecurse
  /\ top.subs # <<>>
  /\ CallIn([stack EXCEPT ![Len(stack)].subs = Tail(@)], Head(top.subs), top.all)
  /\ UNCHANGED <<driver, setup, tested, cleaned, bad>>

RecurseEnd ==
  /\ Working("r")
  /\ top.norecurse \/ top.subs = <<>>
  /\ SetTop(Done(top))
  /\ UNCHANGED <<kind, driver, history>>

\* -c: all cleanups, whether or not one of them fails.
Cleanup ==
  /\ Working("c")
  /\ cleaned' = cleaned \cup {dir}
  /\ \/ SetTop(Done(top)) /\ UNCHANGED trouble
     \/ SetTop([Done(top) EXCEPT !.failed = TRUE]) /\ trouble' = TRUE
  /\ UNCHANGED <<kind, driver, setup, tested, bad>>

Leave ==
  /\ stack # <<>>
  /\ status = "none"
  /\ top.opts = <<>>
  /\ stack' = Front(stack)
  /\ status' = IF top.failed THEN "failed" ELSE "ok"
  /\ UNCHANGED <<kind, driver, history>>

\* Mutant: the status of a subdirectory's subshell is lost.
Returned_Ignored ==
  /\ stack # <<>>
  /\ status # "none"
  /\ status' = "none"
  /\ UNCHANGED <<stack, kind, driver, history>>

\* The caller notes the status of a subdirectory's subshell, if it is 1.
Returned ==
  /\ stack # <<>>
  /\ status # "none"
  /\ stack' = [stack EXCEPT ![Len(stack)].failed = @ \/ status = "failed"]
  /\ status' = "none"
  /\ UNCHANGED <<kind, driver, history>>

InDir ==
  ShellExits \/ Vars \/ Setup \/ Execute \/ Interactive \/ Recurse \/ RecurseEnd \/ Cleanup \/ Leave \/ Returned

---------------------------------------------------------------------------
(* stf_execute: one mode.                                                  *)

Free == stack = <<>> /\ status = "none"

\* Mutant: the cleanups go from the root down.
Parent_NotReversed ==
  /\ Free
  /\ step = "parents"
  /\ todo # <<>>
  /\ CallIn(<<>>, Head(todo), <<"v", "k", "s">>)
  /\ passed' = Append(passed, Head(todo))
  /\ todo' = Tail(todo)
  /\ UNCHANGED <<flags, mode, step, modeFail, overallFail, ends, setup, tested, cleaned, bad>>

\* The setups of the next directory above.
Parent ==
  /\ Free
  /\ step = "parents"
  /\ todo # <<>>
  /\ CallIn(<<>>, Head(todo), <<"v", "k", "s">>)
  /\ passed' = <<Head(todo)>> \o passed
  /\ todo' = Tail(todo)
  /\ UNCHANGED <<flags, mode, step, modeFail, overallFail, ends, setup, tested, cleaned, bad>>

\* The first that fails ends it: straight to the cleanups.
ParentDone ==
  /\ step = "parents"
  /\ stack = <<>>
  /\ status # "none"
  /\ status' = "none"
  /\ IF status = "failed" THEN modeFail' = TRUE /\ step' = "cleanup" /\ todo' = passed
                   ELSE UNCHANGED <<modeFail, step, todo>>
  /\ UNCHANGED <<kind, flags, mode, passed, stack, overallFail, history, ends>>

StartHere ==
  /\ Free
  /\ step = "parents"
  /\ todo = <<>>
  /\ step' = "start"
  /\ CallIn(<<>>, Start, <<"v", "k", "s">> \o flags \o <<"c">>)
  /\ UNCHANGED <<flags, mode, todo, passed, modeFail, overallFail, ends, setup, tested, cleaned, bad>>

StartDone ==
  /\ step = "start"
  /\ stack = <<>>
  /\ status # "none"
  /\ status' = "none"
  /\ modeFail' = (modeFail \/ status = "failed")
  /\ step' = "cleanup"
  /\ todo' = passed
  /\ UNCHANGED <<kind, flags, mode, passed, stack, overallFail, history, ends>>

\* The cleanups of every directory above that was entered.
ParentCleanup ==
  /\ Free
  /\ step = "cleanup"
  /\ todo # <<>>
  /\ CallIn(<<>>, Head(todo), <<"c">>)
  /\ todo' = Tail(todo)
  /\ uncleaned' = IF status' = "failed" THEN uncleaned \cup {Head(todo)} ELSE uncleaned
  /\ UNCHANGED <<flags, mode, step, passed, modeFail, overallFail, exited, dropped, setup, tested, cleaned, bad>>

ParentCleaned ==
  /\ step = "cleanup"
  /\ stack = <<>>
  /\ status # "none"
  /\ status' = "none"
  /\ modeFail' = (modeFail \/ status = "failed")
  /\ UNCHANGED <<kind, flags, mode, step, todo, passed, stack, overallFail, history, ends>>

ModeEnd ==
  /\ Free
  /\ step = "cleanup"
  /\ todo = <<>>
  /\ step' = "end"
  /\ overallFail' = (overallFail \/ modeFail)
  /\ UNCHANGED <<kind, flags, mode, todo, passed, stack, status, modeFail, history, ends>>

\* The next mode runs in a subshell of its own.  It may end at once: no name for
\* its journal or results, no directory for them, or a journal that is there.
NextMode ==
  /\ step = "end"
  /\ mode < Modes
  /\ mode' = mode + 1
  /\ \/ /\ step' = "parents" /\ UNCHANGED <<overallFail, trouble>>
     \/ /\ step' = "end" /\ overallFail' = TRUE /\ trouble' = TRUE
  /\ todo' = Parents
  /\ passed' = <<>>
  /\ modeFail' = FALSE
  /\ Fresh
  /\ UNCHANGED <<flags, stack, status, dropped>>

Exit ==
  /\ step = "end"
  /\ mode = Modes
  /\ step' = "exit"
  /\ UNCHANGED <<kind, flags, mode, todo, passed, stack, status, modeFail, overallFail, history, ends>>

Driver ==
  \/ Parent \/ ParentDone \/ StartHere \/ StartDone \/ ParentCleanup \/ ParentCleaned
  \/ ModeEnd \/ NextMode \/ Exit

Next == InDir \/ Driver

Spec == Init /\ [][Next]_vars

---------------------------------------------------------------------------
Options == {"v", "k", "s", "e", "i", "r", "c"}
Frames ==
  [dir : Dirs, opts : Seq(Options), all : Seq(Options), failed : BOOLEAN, noexec : BOOLEAN,
   norecurse : BOOLEAN, subs : Seq(Dirs)]

TypeOK ==
  /\ kind \in [Dirs -> {"unknown", "runs", "skipped", "refused"}]
  /\ flags \in {<<"e", "r">>, <<"e">>, <<"i">>}
  /\ mode \in 1 .. Modes
  /\ step \in {"parents", "start", "cleanup", "end", "exit"}
  /\ todo \in Seq(Dirs)
  /\ passed \in Seq(Dirs)
  /\ stack \in Seq(Frames)
  /\ status \in {"none", "ok", "failed", "other"}
  /\ modeFail \in BOOLEAN /\ overallFail \in BOOLEAN /\ trouble \in BOOLEAN
  /\ setup \in [Dirs -> {"none", "failed", "done"}]
  /\ tested \subseteq Dirs /\ cleaned \subseteq Dirs /\ bad \subseteq Dirs
  /\ exited \in BOOLEAN /\ uncleaned \subseteq Dirs /\ dropped \in BOOLEAN

\* No test case runs in or below a directory whose setup failed, or that was
\* refused before its setup, in this mode (stf_executeindir's noexec and norecurse,
\* stf_execute's abortexec).
NoTestAfterFailure == \A d \in tested : \A a \in Dirs :
  a = d \/ a \in Above[d] =>
    /\ a \notin bad
    /\ kind[a] = "skipped" \/ (kind[a] = "runs" /\ setup[a] = "done")

\* A directory is cleaned up only after everything that was set up below it,
\* but for directories whose own cleanups were refused.
CleanedInside == \A d \in cleaned, b \in Dirs :
  d \in Above[b] /\ setup[b] # "none" => b \in cleaned \/ b \in uncleaned

\* At the end of a mode whatever a setup touched in the start directory and below
\* has been cleaned up, the directories whose setup failed included.  So have the
\* directories above, unless the call for their cleanups was refused, or the mode's
\* shell ended before it came to them: stf_executeindir runs in that shell, and
\* set_checkenvdir calls exit.
AllCleaned == step = "end" => \A d \in Dirs : setup[d] # "none" =>
  d \in cleaned \/ (d \in Above[Start] /\ (exited \/ d \in uncleaned))

\* The exit status says that something failed, however deep and in whichever
\* mode, and says it of nothing else; only a shell that calls exit with a status
\* other than 1 may hide a failure.
StatusTells == step = "exit" =>
  /\ overallFail => trouble
  /\ trouble => overallFail \/ dropped
=============================================================================
