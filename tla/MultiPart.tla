------------------------------ MODULE MultiPart ------------------------------
(***************************************************************************)
(* A multi-system test: mstf_launch starts the parts of the test on their  *)
(* systems and collects their results, mstf_syncserv lets the parts wait   *)
(* for each other (mstf_sync) and share variables (mstf_setvar,            *)
(* mstf_getvar).                                                           *)
(*                                                                         *)
(* Every request opens a connection of its own.  The server accepts the    *)
(* connections in the order in which they were made and runs one handler   *)
(* at a time: a handler is one step, and queue holds the connections it    *)
(* has not come to.  A connection can be made as long as the server's      *)
(* process exists; a handler that sets rval ends vwait, and the process    *)
(* exits (two steps: others can connect in between).                       *)
(*                                                                         *)
(* A part is any script: it calls the library in any order, may ignore     *)
(* what the calls return, and may be killed.                               *)
(***************************************************************************)
EXTENDS Integers, Sequences, FiniteSets, FiniteSetsExt

CONSTANTS
  Parts,        \* the parts of the test
  CParts,       \* those that use libmstf.c; the others use mstf.tcllib
  SyncLabels,   \* labels of synchronization points
  Vars,         \* shared variables
  Values,       \* and their values
  BeforeEq,     \* BeforeEq[x]: the value x up to its first "="
  Codes,        \* result codes that the scripts return
  MaxCalls,     \* bound: library calls made by one part
  ExitOnError,  \* is MSTF_EXIT_ON_ERROR set to 1?
  None          \* no value, no reply, no part

ASSUME PartsAssumption ==
  /\ IsFiniteSet(Parts)
  /\ CParts \subseteq Parts
  /\ None \notin Parts \cup SyncLabels \cup Values \cup Vars \cup {"go", "failed", "eof", "reset"}
  /\ {"go", "failed", "eof", "reset"} \cap Values = {}
ASSUME ValueAssumption ==
  /\ BeforeEq \in [Values -> Values]
  /\ \A x \in Values : BeforeEq[BeforeEq[x]] = BeforeEq[x]
ASSUME BoundAssumption == MaxCalls \in Nat /\ ExitOnError \in BOOLEAN

\* result_prec: the result with the highest precedence, the last one, wins.
result_prec ==
  <<"PASS", "WARNING", "FAIL", "TIMED_OUT", "NORESULT", "UNRESOLVED",
    "UNTESTED", "UNINITIATED", "UNSUPPORTED", "NOTINUSE", "OTHER">>

ASSUME CodesAssumption == Codes \subseteq STRING

VARIABLES
  server,      \* mstf_syncserv: "listening", "exiting", "gone"
  num_parts,   \* its variables: parts that have not finished
  target_label,
  open_list,   \* parts that wait to be released
  shared_vars,
  waiting,     \* shared_vars(var,wait): parts that wait for the variable
  rval,        \* its exit status
  queue,       \* connections not handled yet
  reply,       \* what a waiting part will read from its connection
  pc,          \* each part: "unlaunched", "running", "sync", "getv", "returned"
  at,          \* the label of its latest mstf_sync
  status,      \* what its latest library call returned
  result,      \* the exit status of its script
  calls,       \* library calls it has made
  eintr,       \* parts of CParts whose errno is EINTR
  launcher,    \* mstf_launch: "launch", "collect", "done"
  syncserv_running,
  collected,   \* parts whose result it has read
  final        \* its own exit status

serverVars == <<server, num_parts, target_label, open_list, shared_vars, waiting, rval>>
partVars   == <<pc, at, status, result, calls, eintr>>
launchVars == <<launcher, syncserv_running, collected, final>>
vars       == <<serverVars, queue, reply, partVars, launchVars>>

Commands == {"sync", "getv", "setv", "sfin", "stop", ""}
Requests == [cmd : Commands, from : Parts \cup {None},
             arg : SyncLabels \cup Vars \cup {None}, val : Values \cup {None}]

StfCodes == {result_prec[i] : i \in DOMAIN result_prec}
AllCodes == Codes \cup StfCodes \cup {"killed"}

ASSUME NoResultAssumption == None \notin AllCodes /\ "killed" \notin Codes

TypeOK ==
  /\ server \in {"listening", "exiting", "gone"}
  /\ num_parts \in 0 .. Cardinality(Parts)
  /\ target_label \in SyncLabels \cup {None}
  /\ open_list \in SUBSET Parts
  /\ shared_vars \in [Vars -> Values \cup {None}]
  /\ waiting \in [Vars -> SUBSET Parts]
  /\ rval \in {"PASS", "UNRESOLVED"}
  /\ queue \in Seq(Requests)
  /\ reply \in [Parts -> {None, "go", "failed", "eof", "reset"} \cup Values]
  /\ pc \in [Parts -> {"unlaunched", "running", "sync", "getv", "returned"}]
  /\ at \in [Parts -> SyncLabels \cup {None}]
  /\ status \in [Parts -> {"PASS", "UNRESOLVED"}]
  /\ result \in [Parts -> AllCodes \cup {None}]
  /\ calls \in [Parts -> 0 .. MaxCalls]
  /\ eintr \in SUBSET CParts
  /\ launcher \in {"launch", "collect", "done"}
  /\ syncserv_running \in BOOLEAN
  /\ collected \in SUBSET Parts
  /\ final \in StfCodes \cup {None}

\* The sync server has printed READY.
Init ==
  /\ server = "listening"
  /\ num_parts = Cardinality(Parts)
  /\ target_label = None
  /\ open_list = {}
  /\ shared_vars = [v \in Vars |-> None]
  /\ waiting = [v \in Vars |-> {}]
  /\ rval = "UNRESOLVED"
  /\ queue = <<>>
  /\ reply = [p \in Parts |-> None]
  /\ pc = [p \in Parts |-> "unlaunched"]
  /\ at = [p \in Parts |-> None]
  /\ status = [p \in Parts |-> "PASS"]
  /\ result = [p \in Parts |-> None]
  /\ calls = [p \in Parts |-> 0]
  /\ eintr = {}
  /\ launcher = "launch"
  /\ syncserv_running = TRUE
  /\ collected = {}
  /\ final = None
-----------------------------------------------------------------------------
(* The library: libmstf.c and mstf.tcllib.                                 *)

Request(c, p, a, v) == [cmd |-> c, from |-> p, arg |-> a, val |-> v]

\* mstf_find_server, mstf_connect_syncserv
Connects == server # "gone"
Send(r) == Connects /\ queue' = Append(queue, r)

Begin(p) ==
  /\ pc[p] = "running"
  /\ calls[p] < MaxCalls
  /\ calls' = [calls EXCEPT ![p] = @ + 1]

\* mstf_error: the script ends, or the call returns STF_UNRESOLVED.
Error(p) ==
  /\ status' = [status EXCEPT ![p] = "UNRESOLVED"]
  /\ pc' = [pc EXCEPT ![p] = IF ExitOnError THEN "returned" ELSE "running"]
  /\ result' = [result EXCEPT ![p] = IF ExitOnError THEN "UNRESOLVED" ELSE None]

Succeed(p) ==
  /\ status' = [status EXCEPT ![p] = "PASS"]
  /\ pc' = [pc EXCEPT ![p] = "running"]
  /\ UNCHANGED result

Wait(p, where) ==
  /\ pc' = [pc EXCEPT ![p] = where]
  /\ UNCHANGED <<status, result>>

\* Any of the three calls, when no connection can be made.
CallFails(p) ==
  /\ Begin(p)
  /\ ~Connects
  /\ Error(p)
  /\ UNCHANGED <<serverVars, queue, reply, at, eintr, launchVars>>

Sync(p, l) ==
  /\ Begin(p)
  /\ Send(Request("sync", p, l, None))
  /\ at' = [at EXCEPT ![p] = l]
  /\ Wait(p, "sync")
  /\ UNCHANGED <<serverVars, reply, eintr, launchVars>>

\* Nobody confirms that the variable has been set.
SetVar(p, v, x) ==
  /\ Begin(p)
  /\ Send(Request("setv", p, v, x))
  /\ Succeed(p)
  /\ UNCHANGED <<serverVars, reply, at, eintr, launchVars>>

GetVar(p, v) ==
  /\ Begin(p)
  /\ Send(Request("getv", p, v, None))
  /\ Wait(p, "getv")
  /\ UNCHANGED <<serverVars, reply, at, eintr, launchVars>>

\* A signal that the program handles interrupts fgets().  The library reads on
\* while errno is EINTR, and only another error gives errno another value.
Interrupted(p) ==
  /\ p \in CParts \ eintr
  /\ pc[p] \in {"sync", "getv"}
  /\ reply[p] = None
  /\ eintr' = eintr \cup {p}
  /\ UNCHANGED <<serverVars, queue, reply, pc, at, status, result, calls, launchVars>>

\* The loop around fgets() ends, and with it the call.
ReadEnds(p) ==
  /\ reply[p] # None
  /\ p \in eintr => reply[p] = "reset"
  /\ eintr' = eintr \ {p}
  /\ reply' = [reply EXCEPT ![p] = None]

\* The reply to "sync".  At end of file fgets() leaves errno at zero and the
\* buffer, which is on the stack, as an earlier call may have left it.
SyncReturns(p) ==
  /\ pc[p] = "sync"
  /\ ReadEnds(p)
  /\ \/ reply[p] = "go" /\ Succeed(p)
     \/ reply[p] \in {"failed", "eof", "reset"} /\ Error(p)
     \/ reply[p] = "eof" /\ p \in CParts /\ Succeed(p)
  /\ UNCHANGED <<serverVars, queue, at, calls, launchVars>>

\* The reply to "getv".  At end of file libmstf.c returns STF_PASS and the
\* caller's buffer as it was; mstf.tcllib returns the empty string, its mark
\* of a failure, and does not call mstf_error.
GetReturns(p) ==
  /\ pc[p] = "getv"
  /\ ReadEnds(p)
  /\ \/ (reply[p] \in Values \/ (reply[p] = "eof" /\ p \in CParts)) /\ Succeed(p)
     \/ reply[p] = "reset" /\ Error(p)
     \/ /\ reply[p] = "eof"
        /\ p \notin CParts
        /\ status' = [status EXCEPT ![p] = "UNRESOLVED"]
        /\ pc' = [pc EXCEPT ![p] = "running"]
        /\ UNCHANGED result
  /\ UNCHANGED <<serverVars, queue, at, calls, launchVars>>

\* The script ends, whatever its calls returned.
Return(p) ==
  /\ pc[p] = "running"
  /\ pc' = [pc EXCEPT ![p] = "returned"]
  /\ \E c \in Codes : result' = [result EXCEPT ![p] = c]
  /\ UNCHANGED <<serverVars, queue, reply, at, status, calls, eintr, launchVars>>

\* The script is killed, perhaps when it has connected and sent nothing.
Kill(p) ==
  /\ pc[p] \in {"running", "sync", "getv"}
  /\ pc' = [pc EXCEPT ![p] = "returned"]
  /\ result' = [result EXCEPT ![p] = "killed"]
  /\ \/ UNCHANGED queue
     \/ pc[p] = "running" /\ Send(Request("", p, None, None))
  /\ eintr' = eintr \ {p}
  /\ UNCHANGED <<serverVars, reply, at, status, calls, launchVars>>
-----------------------------------------------------------------------------
(* mstf_syncserv: handle_connect, one step for each command.               *)

Handles(c) ==
  /\ server = "listening"
  /\ queue # <<>>
  /\ Head(queue).cmd = c
  /\ queue' = Tail(queue)
  /\ UNCHANGED <<partVars, launchVars>>

Tell(P, what) == reply' = [p \in Parts |-> IF p \in P THEN what ELSE reply[p]]

\* rval is set: vwait returns when the handler does.
Exit(r) == rval' = r /\ server' = "exiting"

\* Mutant: the connection is not closed, so the buffered answer stays behind.
GetV_NotFlushed ==
  LET r == Head(queue) IN
  /\ Handles("getv")
  /\ waiting' = IF shared_vars[r.arg] # None THEN waiting
                ELSE [waiting EXCEPT ![r.arg] = @ \cup {r.from}]
  /\ UNCHANGED <<server, num_parts, target_label, open_list, shared_vars, rval, reply>>

GetV ==
  LET r == Head(queue) IN
  /\ Handles("getv")
  /\ IF shared_vars[r.arg] # None
     THEN Tell({r.from}, shared_vars[r.arg]) /\ UNCHANGED waiting
     ELSE waiting' = [waiting EXCEPT ![r.arg] = @ \cup {r.from}] /\ UNCHANGED reply
  /\ UNCHANGED <<server, num_parts, target_label, open_list, shared_vars, rval>>

\* Mutant: the parts that wait for the variable are not told.
SetV_ForgetsWaiters ==
  LET r == Head(queue) IN
  /\ Handles("setv")
  /\ shared_vars' = [shared_vars EXCEPT ![r.arg] = BeforeEq[r.val]]
  /\ UNCHANGED <<server, num_parts, target_label, open_list, waiting, rval, reply>>

\* The request is split at every "=", and its second field is the value.
SetV ==
  LET r     == Head(queue)
      value == BeforeEq[r.val]
  IN
  /\ Handles("setv")
  /\ shared_vars' = [shared_vars EXCEPT ![r.arg] = value]
  /\ Tell(waiting[r.arg], value)
  /\ waiting' = [waiting EXCEPT ![r.arg] = {}]
  /\ UNCHANGED <<server, num_parts, target_label, open_list, rval>>

\* P waits and n parts have not finished: if that is all, P may go on.
ReleaseIfAll(P, n, label) ==
  /\ num_parts' = n
  /\ IF Cardinality(P) = n
     THEN Tell(P, "go") /\ open_list' = {} /\ target_label' = None
     ELSE open_list' = P /\ target_label' = label /\ UNCHANGED reply

\* Mutant: the label is not compared with the one the others wait at.
SyncInStep_AnyLabel ==
  LET r == Head(queue) IN
  /\ Handles("sync")
  /\ ReleaseIfAll(open_list \cup {r.from}, num_parts, r.arg)
  /\ UNCHANGED <<server, shared_vars, waiting, rval>>

\* Mutant: connections are served as their data arrives, in any order.
SyncInStep_AnyOrder ==
  \E i \in DOMAIN queue :
    /\ server = "listening"
    /\ queue[i].cmd = "sync"
    /\ target_label \in {queue[i].arg, None}
    /\ queue' = SubSeq(queue, 1, i - 1) \o SubSeq(queue, i + 1, Len(queue))
    /\ ReleaseIfAll(open_list \cup {queue[i].from}, num_parts, queue[i].arg)
    /\ UNCHANGED <<server, shared_vars, waiting, rval, partVars, launchVars>>

SyncInStep ==
  LET r == Head(queue) IN
  /\ Handles("sync")
  /\ target_label \in {r.arg, None}
  /\ ReleaseIfAll(open_list \cup {r.from}, num_parts, r.arg)
  /\ UNCHANGED <<server, shared_vars, waiting, rval>>

\* Mutant: only the part that is out of step is told, not those that wait.
SyncOutOfStep_TellsOne ==
  LET r == Head(queue) IN
  /\ Handles("sync")
  /\ target_label \notin {r.arg, None}
  /\ Tell({r.from}, "failed")
  /\ Exit("UNRESOLVED")
  /\ UNCHANGED <<num_parts, target_label, open_list, shared_vars, waiting>>

SyncOutOfStep ==
  LET r == Head(queue) IN
  /\ Handles("sync")
  /\ target_label \notin {r.arg, None}
  /\ Tell(open_list \cup {r.from}, "failed")
  /\ Exit("UNRESOLVED")
  /\ UNCHANGED <<num_parts, target_label, open_list, shared_vars, waiting>>

\* Mutant: the parts that wait are not looked at when one finishes.
Sfin_OnlyCounts ==
  /\ Handles("sfin")
  /\ num_parts' = num_parts - 1
  /\ UNCHANGED <<server, target_label, open_list, shared_vars, waiting, rval, reply>>

Sfin ==
  /\ Handles("sfin")
  /\ ReleaseIfAll(open_list, num_parts - 1, target_label)
  /\ UNCHANGED <<server, shared_vars, waiting, rval>>

Stop ==
  /\ Handles("stop")
  /\ Exit(IF open_list # {} \/ \E v \in Vars : waiting[v] # {} THEN "UNRESOLVED" ELSE "PASS")
  /\ UNCHANGED <<num_parts, target_label, open_list, shared_vars, waiting, reply>>

InvalidCommand ==
  /\ Handles("")
  /\ Tell(open_list, "failed")
  /\ Exit("UNRESOLVED")
  /\ UNCHANGED <<num_parts, target_label, open_list, shared_vars, waiting>>

\* The process exits: a part whose request was handled reads end of file,
\* one whose connection was never accepted has it reset.
ServerExits ==
  LET unaccepted == {queue[i].from : i \in DOMAIN queue} IN
  /\ server = "exiting"
  /\ server' = "gone"
  /\ reply' = [p \in Parts |->
       IF reply[p] # None \/ pc[p] \notin {"sync", "getv"} THEN reply[p]
       ELSE IF p \in unaccepted THEN "reset" ELSE "eof"]
  /\ queue' = <<>>
  /\ UNCHANGED <<num_parts, target_label, open_list, shared_vars, waiting, rval, partVars, launchVars>>
-----------------------------------------------------------------------------
(* mstf_launch.                                                            *)

Launch(p) ==
  /\ launcher = "launch"
  /\ pc[p] = "unlaunched"
  /\ pc' = [pc EXCEPT ![p] = "running"]
  /\ launcher' = IF \A q \in Parts \ {p} : pc[q] # "unlaunched" THEN "collect" ELSE "launch"
  /\ UNCHANGED <<serverVars, queue, reply, at, status, result, calls, eintr,
                 syncserv_running, collected, final>>

\* No build mode fits the part's system.
LaunchFails ==
  /\ launcher = "launch"
  /\ launcher' = "done"
  /\ final' = "UNINITIATED"
  /\ UNCHANGED <<serverVars, queue, reply, partVars, syncserv_running, collected>>

\* A result that is not in the table counts as STF_OTHER.
final_result(results) ==
  LET known == {IF r \in StfCodes THEN r ELSE "OTHER" : r \in results} \cup {"PASS"}
  IN  result_prec[Max({i \in DOMAIN result_prec : result_prec[i] \in known})]

\* stop_syncserv and remove_script_from_syncserv: when the server cannot be
\* reached, mstf_launch itself exits.
Tells(c, p, after) ==
  \/ /\ ~syncserv_running
     /\ UNCHANGED <<queue, syncserv_running>>
     /\ after
  \/ /\ syncserv_running
     /\ Send(Request(c, p, None, None))
     /\ syncserv_running' = (c # "stop")
     /\ after
  \/ /\ syncserv_running
     /\ ~Connects
     /\ launcher' = "done"
     /\ final' = "UNRESOLVED"
     /\ UNCHANGED <<queue, syncserv_running>>

\* Mutant: the part's spawn id stays in spawn_list.
Collect_Again(p) ==
  /\ launcher = "collect"
  /\ pc[p] = "returned"
  /\ collected' = collected \cup {p}
  /\ Tells(IF result[p] = "PASS" THEN "sfin" ELSE "stop", p, UNCHANGED <<launcher, final>>)
  /\ UNCHANGED <<serverVars, reply, partVars>>

\* The loop reads a part's _MSTF-RETURN.
Collect(p) ==
  /\ launcher = "collect"
  /\ pc[p] = "returned"
  /\ p \notin collected
  /\ collected' = collected \cup {p}
  /\ Tells(IF result[p] = "PASS" THEN "sfin" ELSE "stop", p, UNCHANGED <<launcher, final>>)
  /\ UNCHANGED <<serverVars, reply, partVars>>

\* Mutant: the loop ends one part early.
Finish_OneEarly ==
  /\ launcher = "collect"
  /\ \E p \in Parts : Parts \ {p} \subseteq collected
  /\ Tells("stop", None, launcher' = "done" /\ final' = final_result({result[p] : p \in collected}))
  /\ UNCHANGED <<serverVars, reply, partVars, collected>>

\* All parts have returned.
Finish ==
  /\ launcher = "collect"
  /\ collected = Parts
  /\ Tells("stop", None, launcher' = "done" /\ final' = final_result({result[p] : p \in collected}))
  /\ UNCHANGED <<serverVars, reply, partVars, collected>>

\* The connection to a part's system is lost.
LaunchEof(p) ==
  /\ launcher = "collect"
  /\ p \notin collected
  /\ launcher' = "done"
  /\ final' = "UNRESOLVED"
  /\ UNCHANGED <<serverVars, queue, reply, partVars, syncserv_running, collected>>
-----------------------------------------------------------------------------
Part(p) ==
  \/ \E l \in SyncLabels : Sync(p, l)
  \/ \E v \in Vars : GetVar(p, v)
  \/ \E v \in Vars, x \in Values : SetVar(p, v, x)
  \/ CallFails(p) \/ SyncReturns(p) \/ GetReturns(p) \/ Return(p)

Server ==
  \/ GetV \/ SetV \/ SyncInStep \/ SyncOutOfStep \/ Sfin \/ Stop \/ InvalidCommand
  \/ ServerExits

Launcher == Finish \/ \E p \in Parts : Launch(p) \/ Collect(p)

Mishap == LaunchFails \/ \E p \in Parts : Kill(p) \/ LaunchEof(p) \/ Interrupted(p)

Next == Server \/ Launcher \/ Mishap \/ \E p \in Parts : Part(p)

Spec == Init /\ [][Next]_vars

\* The three programs are scheduled, and a script comes to its end once it
\* is not blocked in the library.  Nothing has to go wrong.
FairSpec ==
  /\ Spec
  /\ WF_vars(Server)
  /\ WF_vars(Launcher)
  /\ \A p \in Parts : WF_vars(SyncReturns(p) \/ GetReturns(p) \/ Return(p))
-----------------------------------------------------------------------------
(* Properties.                                                             *)

\* mstf_sync is a barrier: when the server answers "go" to one part, it
\* answers all parts, waiting at the same label, except those whose scripts
\* have returned STF_PASS (sync and sfin of handle_connect).
BarrierStep ==
  [][\A p \in Parts : reply'[p] = "go" /\ reply[p] # "go" =>
       \A q \in Parts : \/ reply'[q] = "go" /\ at[q] = at[p]
                        \/ result[q] = "PASS"]_vars

\* What a part has set before a synchronization point is set when another
\* part passes it, although nobody confirms a "setv": the server has handled
\* every setv of a part by the time it handles the part's sync.  (A server that
\* has given up keeps its open_list while the parts on it go on.)
SetBeforeSync ==
  \A p \in Parts :
    (server = "listening" /\ p \in open_list) \/ (pc[p] = "sync" /\ reply[p] = "go") =>
      \A i \in DOMAIN queue : ~(queue[i].cmd = "setv" /\ queue[i].from = p)

\* No lost wakeup: a part that waits for a variable in mstf_getvar waits no
\* longer once the server has a value for it (getv and setv).
SetIsAnswered == \A v \in Vars : shared_vars[v] # None => waiting[v] = {}

\* A part that asks in mstf_getvar for a variable that has a value, or whose
\* "setv" is on its way, leaves mstf_getvar, whether its own request is still on
\* its way or the server has put it on the list of those that wait (getv and
\* setv).  Only a C part whose read was interrupted may stay.
GetAnswered ==
  \A p \in Parts, v \in Vars :
    (/\ pc[p] = "getv"
     /\ p \in waiting[v] \/ \E i \in DOMAIN queue : queue[i] = Request("getv", p, v, None)
     /\ shared_vars[v] # None \/ \E i \in DOMAIN queue : queue[i].cmd = "setv" /\ queue[i].arg = v)
      ~> (pc[p] # "getv" \/ p \in eintr)

\* mstf_launch's verdict: unless it gives up (STF_UNRESOLVED, or
\* STF_UNINITIATED before all parts run), every part has returned and none
\* with a result of higher precedence.
VerdictCoversAll ==
  final \notin {None, "UNRESOLVED", "UNINITIATED"} =>
    \A p \in Parts : result[p] # None /\ final_result({result[p], final}) = final

\* Nobody waits forever at a synchronization point: mstf_launch ends, whatever
\* labels the parts wait at, whatever they return, and when one is killed while
\* it holds the others up.  Two things keep it from ending: a part that asks the
\* server for a variable that nobody sets (mstf_getvar has no time limit), and a
\* C part that reads on forever because errno stays EINTR.
LaunchEnds ==
  \/ <>(launcher = "done")
  \/ <>[](/\ server = "listening"
          /\ \E p \in Parts, v \in Vars : pc[p] = "getv" /\ p \in waiting[v] /\ shared_vars[v] = None)
  \/ <>[](\E p \in eintr : pc[p] \in {"sync", "getv"})

\* At a synchronization point end of file, which libmstf.c takes for no error
\* and so perhaps for "go", comes only when mstf_launch has read a result other
\* than STF_PASS of some part: the part that goes on alone does so in a test
\* whose verdict is not STF_PASS any more (Collect, Stop, VerdictCoversAll).
EofMeansFailure ==
  \A p \in Parts : pc[p] = "sync" /\ reply[p] = "eof" =>
    \E q \in collected : result[q] # "PASS"
=============================================================================
