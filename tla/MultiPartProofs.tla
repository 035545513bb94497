--------------------------- MODULE MultiPartProofs ---------------------------
(***************************************************************************)
(* Proofs about MultiPart: the server's count of unfinished parts, what a  *)
(* request on its way says about the part that sent it, and from these the *)
(* barrier, the order of setv and sync, and the launcher's verdict.        *)
(***************************************************************************)
EXTENDS MultiPart, FiniteSetTheorems, TLAPS

-----------------------------------------------------------------------------
(* The invariant.                                                          *)

\* p waits in a call, unanswered, or has been killed in it.
Waits(p, where) ==
  \/ pc[p] = where /\ reply[p] = None /\ result[p] = None
  \/ pc[p] = "returned" /\ result[p] = "killed"

\* Nothing of p is on its way to the server, but for the launcher's "stop".
Quiet(p) == \A i \in DOMAIN queue : queue[i].from = p => queue[i].cmd = "stop"

\* A part has a result when, and only when, its script has ended; the launcher
\* has read results of such parts only; an answer is for a part in a call.
PartInv ==
  \A p \in Parts :
    /\ pc[p] = "returned" <=> result[p] # None
    /\ p \in collected => pc[p] = "returned"
    /\ pc[p] \in {"unlaunched", "running"} => reply[p] = None

\* What a request says about its sender.
RequestOK(r) ==
  /\ r.cmd \in {"sync", "getv", "setv", ""} => r.from \in Parts
  /\ r.cmd = "sync" => r.arg \in SyncLabels /\ at[r.from] = r.arg /\ Waits(r.from, "sync")
  /\ r.cmd = "getv" => r.arg \in Vars /\ Waits(r.from, "getv")
  /\ r.cmd = "setv" => r.arg \in Vars /\ r.val \in Values
  /\ r.cmd = "sfin" => r.from \in collected /\ result[r.from] = "PASS"

QueueInv == \A i \in DOMAIN queue : RequestOK(queue[i])

\* A part sends nothing after a question, and the launcher reports it once.
QueueOrder ==
  \A i, j \in DOMAIN queue :
    /\ i < j
    /\ queue[i].from = queue[j].from
    => /\ queue[i].cmd \in {"sync", "getv"} => queue[j].cmd = "stop"
       /\ queue[i].cmd # "sfin"

\* The parts on the lists of a server that listens.
ListInv ==
  server = "listening" =>
    /\ \A p \in open_list : Waits(p, "sync") /\ at[p] = target_label /\ Quiet(p)
    /\ \A v \in Vars : \A p \in waiting[v] : Waits(p, "getv") /\ Quiet(p)
    /\ \A v, w \in Vars : v # w => waiting[v] \cap waiting[w] = {}
    /\ target_label = None => open_list = {}

GoInv == \A p \in Parts : pc[p] = "sync" /\ reply[p] = "go" => Quiet(p)

\* num_parts counts the parts but for those whose sfin has been handled.
Finished(F) ==
  /\ F \subseteq collected
  /\ num_parts = Cardinality(Parts \ F)
  /\ \A p \in F : result[p] = "PASS"
  /\ \A i \in DOMAIN queue : queue[i].cmd = "sfin" => queue[i].from \notin F

CountInv == \E F \in SUBSET Parts : Finished(F)

EofInv == \A p \in Parts : reply[p] \in {"eof", "reset"} => server = "gone"

Inv == TypeOK /\ PartInv /\ QueueInv /\ QueueOrder /\ ListInv /\ GoInv /\ CountInv /\ EofInv
-----------------------------------------------------------------------------
(* The queue.                                                              *)

\* A request in the queue has the fields of a request.
LEMMA QueueElement ==
  ASSUME TypeOK
  PROVE  /\ Len(queue) \in Nat /\ DOMAIN queue = 1 .. Len(queue)
         /\ \A i \in DOMAIN queue :
              /\ queue[i] \in Requests
              /\ queue[i].cmd \in Commands
              /\ queue[i].from \in Parts \cup {None}
<1>1. \A r \in Requests : r.cmd \in Commands /\ r.from \in Parts \cup {None} BY DEF Requests
<1> QED BY <1>1 DEF TypeOK

\* The queue after a request has been appended.
LEMMA QueueAppend ==
  ASSUME TypeOK, NEW r \in Requests, queue' = Append(queue, r)
  PROVE  /\ queue' \in Seq(Requests)
         /\ Len(queue) \in Nat /\ DOMAIN queue = 1 .. Len(queue)
         /\ \A i \in DOMAIN queue' :
              \/ i \in DOMAIN queue /\ queue'[i] = queue[i]
              \/ i = Len(queue) + 1 /\ queue'[i] = r
BY DEF TypeOK

\* The queue after its first request has been taken.
LEMMA QueueTail ==
  ASSUME TypeOK, queue # <<>>, queue' = Tail(queue)
  PROVE  /\ queue' \in Seq(Requests)
         /\ Head(queue) \in Requests
         /\ 1 \in DOMAIN queue /\ queue[1] = Head(queue)
         /\ \A i \in DOMAIN queue' :
              /\ i + 1 \in DOMAIN queue /\ queue'[i] = queue[i + 1]
              /\ i \in Int /\ 1 < i + 1
BY DEF TypeOK
\* The server's lists and the launcher's hold parts; None is no answer and no
\* result.
LEMMA ListTypes ==
  ASSUME TypeOK
  PROVE  /\ open_list \subseteq Parts /\ collected \subseteq Parts
         /\ \A v \in Vars : waiting[v] \subseteq Parts
         /\ None \notin Parts \cup Values \cup {"go", "failed", "eof", "reset", "killed", "PASS", "UNRESOLVED"}
<1>1. "UNRESOLVED" = result_prec[6] /\ "PASS" = result_prec[1] /\ {1, 6} \subseteq DOMAIN result_prec
  BY DEF result_prec
<1>2. {"killed", "PASS", "UNRESOLVED"} \subseteq AllCodes
  BY <1>1 DEF AllCodes, StfCodes
<1> QED BY <1>2, PartsAssumption, NoResultAssumption DEF TypeOK
-----------------------------------------------------------------------------
(* The steps of a part.                                                    *)

\* What the steps of p that send the request r have in common.
Sends(p, r) ==
  /\ pc[p] = "running"
  /\ queue' = Append(queue, r)
  /\ r.from = p
  /\ r.cmd \in {"sync", "getv", "setv", ""}
  /\ UNCHANGED <<serverVars, reply, launchVars>>
  /\ \A q \in Parts \ {p} : pc'[q] = pc[q] /\ at'[q] = at[q] /\ result'[q] = result[q]

\* A part that runs sends a request that is true of it.
LEMMA SendKeepsInv ==
  ASSUME Inv, NEW p \in Parts, NEW r \in Requests, Sends(p, r), TypeOK', PartInv', RequestOK(r)'
  PROVE  Inv'
<1> USE PartsAssumption, NoResultAssumption DEF Inv
<1>0. /\ pc[p] = "running"
      /\ r.from = p
      /\ r.cmd \in {"sync", "getv", "setv", ""}
      /\ UNCHANGED <<serverVars, reply, launchVars>>
      /\ \A q \in Parts \ {p} : pc'[q] = pc[q] /\ at'[q] = at[q] /\ result'[q] = result[q]
  BY DEF Sends
<1>1. /\ Len(queue) \in Nat /\ DOMAIN queue = 1 .. Len(queue)
      /\ \A i \in DOMAIN queue' :
           \/ i \in DOMAIN queue /\ queue'[i] = queue[i]
           \/ i = Len(queue) + 1 /\ queue'[i] = r
  BY QueueAppend DEF Sends
<1>2. \A i \in DOMAIN queue : queue[i].from = p => queue[i].cmd \in {"setv", "stop", ""}
  BY <1>0, QueueElement DEF TypeOK, PartInv, QueueInv, RequestOK, Waits, Commands
<1>10. \A q \in Parts, where \in {"sync", "getv"} : Waits(q, where) => q # p /\ Waits(q, where)'
  BY <1>0 DEF Waits, PartInv
<1>3. QueueInv'
  <2> SUFFICES ASSUME NEW i \in DOMAIN queue' PROVE RequestOK(queue[i])' BY DEF QueueInv
  <2>1. CASE i \in DOMAIN queue /\ queue'[i] = queue[i]
    <3>1. RequestOK(queue[i]) BY <2>1 DEF QueueInv
    <3>2. CASE queue[i].from = p
      BY <1>0, <1>2, <2>1, <3>1, <3>2 DEF RequestOK, launchVars
    <3>3. CASE queue[i].from # p
      BY <1>0, <1>10, <2>1, <3>1, <3>3, ListTypes DEF RequestOK, launchVars
    <3> QED BY <3>2, <3>3
  <2>2. CASE queue'[i] = r BY <2>2
  <2> QED BY <1>1, <2>1, <2>2
<1>4. QueueOrder'
  <2> SUFFICES ASSUME NEW i \in DOMAIN queue', NEW j \in DOMAIN queue', i < j,
                      queue'[i].from = queue'[j].from
               PROVE  /\ queue'[i].cmd \in {"sync", "getv"} => queue'[j].cmd = "stop"
                      /\ queue'[i].cmd # "sfin"
    BY DEF QueueOrder
  <2>1. i \in DOMAIN queue /\ queue'[i] = queue[i] BY <1>1
  <2> QED BY <1>0, <1>1, <1>2, <2>1 DEF QueueOrder
<1>5. ASSUME NEW q \in Parts \ {p}, Quiet(q) PROVE Quiet(q)'
  <2> SUFFICES ASSUME NEW i \in DOMAIN queue', queue'[i].from = q PROVE queue'[i].cmd = "stop"
    BY DEF Quiet
  <2> QED BY <1>0, <1>1, <1>5 DEF Quiet
<1>6. ListInv'
  <2>1. UNCHANGED <<server, open_list, target_label, waiting>> BY <1>0 DEF serverVars
  <2>2. ASSUME server = "listening", NEW q \in open_list
        PROVE  Waits(q, "sync")' /\ at'[q] = target_label /\ Quiet(q)'
    BY <1>0, <1>5, <1>10, <2>2, ListTypes DEF ListInv
  <2>3. ASSUME server = "listening", NEW v \in Vars, NEW q \in waiting[v]
        PROVE  Waits(q, "getv")' /\ Quiet(q)'
    BY <1>0, <1>5, <1>10, <2>3, ListTypes DEF ListInv
  <2> QED BY <2>1, <2>2, <2>3 DEF ListInv
<1>7. GoInv'
  BY <1>0, <1>5, ListTypes DEF PartInv, GoInv
<1>8. CountInv'
  <2>1. PICK F \in SUBSET Parts : Finished(F) BY DEF CountInv
  <2>2. p \notin F BY <1>0, <2>1 DEF Finished, PartInv
  <2>3. Finished(F)' BY <1>0, <1>1, <2>1, <2>2 DEF Finished, serverVars, launchVars
  <2> QED BY <2>3 DEF CountInv
<1>9. EofInv'
  BY <1>0 DEF EofInv, serverVars
<1> QED BY <1>3, <1>4, <1>6, <1>7, <1>8, <1>9

\* mstf_sync asks the server.
LEMMA InvSync ==
  ASSUME Inv, NEW p \in Parts, NEW l \in SyncLabels, Sync(p, l)
  PROVE  Inv'
<1> DEFINE r == Request("sync", p, l, None)
<1> USE PartsAssumption, NoResultAssumption DEF Inv
<1>1. /\ pc[p] = "running" /\ pc' = [pc EXCEPT ![p] = "sync"] /\ at' = [at EXCEPT ![p] = l]
      /\ calls[p] < MaxCalls /\ calls' = [calls EXCEPT ![p] = @ + 1]
      /\ queue' = Append(queue, r)
      /\ UNCHANGED <<serverVars, reply, launchVars, status, result, eintr>>
  BY DEF Sync, Begin, Send, Wait
<1>2. r \in Requests /\ r.cmd = "sync" /\ r.from = p /\ r.arg = l
  BY DEF Request, Requests, Commands
<1> HIDE DEF r
<1>3. TypeOK'
  BY <1>1, <1>2, BoundAssumption DEF TypeOK, serverVars, launchVars
<1>4. PartInv'
  BY <1>1 DEF TypeOK, PartInv, launchVars
<1>5. RequestOK(r)'
  BY <1>1, <1>2 DEF TypeOK, PartInv, RequestOK, Waits
<1>6. Sends(p, r)
  BY <1>1, <1>2 DEF TypeOK, Sends
<1> QED BY <1>2, <1>3, <1>4, <1>5, <1>6, SendKeepsInv

\* mstf_getvar asks the server.
LEMMA InvGetVar ==
  ASSUME Inv, NEW p \in Parts, NEW v \in Vars, GetVar(p, v)
  PROVE  Inv'
<1> DEFINE r == Request("getv", p, v, None)
<1> USE PartsAssumption, NoResultAssumption DEF Inv
<1>1. /\ pc[p] = "running" /\ pc' = [pc EXCEPT ![p] = "getv"]
      /\ calls[p] < MaxCalls /\ calls' = [calls EXCEPT ![p] = @ + 1]
      /\ queue' = Append(queue, r)
      /\ UNCHANGED <<serverVars, reply, launchVars, at, status, result, eintr>>
  BY DEF GetVar, Begin, Send, Wait
<1>2. r \in Requests /\ r.cmd = "getv" /\ r.from = p /\ r.arg = v
  BY DEF Request, Requests, Commands
<1> HIDE DEF r
<1>3. TypeOK'
  BY <1>1, <1>2, BoundAssumption DEF TypeOK, serverVars, launchVars
<1>4. PartInv'
  BY <1>1 DEF TypeOK, PartInv, launchVars
<1>5. RequestOK(r)'
  BY <1>1, <1>2 DEF TypeOK, PartInv, RequestOK, Waits
<1>6. Sends(p, r)
  BY <1>1, <1>2 DEF TypeOK, Sends
<1> QED BY <1>2, <1>3, <1>4, <1>5, <1>6, SendKeepsInv

\* mstf_setvar tells the server, and goes on.
LEMMA InvSetVar ==
  ASSUME Inv, NEW p \in Parts, NEW v \in Vars, NEW x \in Values, SetVar(p, v, x)
  PROVE  Inv'
<1> DEFINE r == Request("setv", p, v, x)
<1> USE PartsAssumption, NoResultAssumption DEF Inv
<1>1. /\ pc[p] = "running" /\ pc' = [pc EXCEPT ![p] = "running"]
      /\ status' = [status EXCEPT ![p] = "PASS"]
      /\ calls[p] < MaxCalls /\ calls' = [calls EXCEPT ![p] = @ + 1]
      /\ queue' = Append(queue, r)
      /\ UNCHANGED <<serverVars, reply, launchVars, at, result, eintr>>
  BY DEF SetVar, Begin, Send, Succeed
<1>2. r \in Requests /\ r.cmd = "setv" /\ r.from = p /\ r.arg = v /\ r.val = x
  BY DEF Request, Requests, Commands
<1> HIDE DEF r
<1>3. TypeOK'
  BY <1>1, <1>2, BoundAssumption DEF TypeOK, serverVars, launchVars
<1>4. PartInv'
  BY <1>1 DEF TypeOK, PartInv, launchVars
<1>5. RequestOK(r)'
  BY <1>2 DEF RequestOK
<1>6. Sends(p, r)
  BY <1>1, <1>2 DEF TypeOK, Sends
<1> QED BY <1>2, <1>3, <1>4, <1>5, <1>6, SendKeepsInv

\* What the steps of p that send nothing have in common: p goes on or ends, and
\* it is not on a list of the server unless it is killed.
Leaves(p) ==
  /\ UNCHANGED <<serverVars, queue, at, launchVars>>
  /\ \A q \in Parts \ {p} : pc'[q] = pc[q] /\ reply'[q] = reply[q] /\ result'[q] = result[q]
  /\ pc[p] # "returned" /\ pc'[p] \in {"running", "returned"}
  /\ reply'[p] \in {None, reply[p]}
  /\ pc[p] = "running" \/ reply[p] # None \/ result'[p] = "killed"

\* A part goes on or ends.
LEMMA LeaveKeepsInv ==
  ASSUME Inv, NEW p \in Parts, Leaves(p), TypeOK', PartInv'
  PROVE  Inv'
<1> USE PartsAssumption, NoResultAssumption DEF Inv
<1>1. pc[p] # "returned" /\ (result'[p] = "killed" => pc'[p] = "returned")
  BY ListTypes DEF PartInv, Leaves
<1>2. \A q \in Parts, where \in {"sync", "getv"} : Waits(q, where) => Waits(q, where)'
  BY <1>1 DEF Leaves, Waits, TypeOK, PartInv
<1>3. QueueInv'
  <2> SUFFICES ASSUME NEW i \in DOMAIN queue' PROVE RequestOK(queue[i])' BY DEF QueueInv
  <2>1. RequestOK(queue[i]) BY DEF QueueInv, Leaves
  <2>2. queue[i].cmd = "sfin" => queue[i].from \in Parts \ {p}
    BY <1>1, <2>1 DEF RequestOK, PartInv, TypeOK
  <2> QED BY <1>2, <2>1, <2>2 DEF Leaves, RequestOK, launchVars
<1>4. QueueOrder' BY DEF Leaves, QueueOrder
<1>5. ListInv'
  <2>1. UNCHANGED <<server, open_list, target_label, waiting, at>> BY DEF serverVars, Leaves
  <2>2. \A q \in Parts : Quiet(q) => Quiet(q)' BY DEF Quiet, Leaves
  <2> QED BY <1>2, <2>1, <2>2, ListTypes DEF ListInv
<1>6. GoInv'
  <2>1. \A q \in Parts : Quiet(q) => Quiet(q)' BY DEF Quiet, Leaves
  <2> QED BY <2>1 DEF Leaves, GoInv
<1>7. CountInv'
  <2>1. PICK F \in SUBSET Parts : Finished(F) BY DEF CountInv
  <2>2. p \notin F BY <1>1, <2>1 DEF Finished, PartInv
  <2>3. Finished(F)' BY <2>1, <2>2 DEF Leaves, Finished, serverVars, launchVars
  <2> QED BY <2>3 DEF CountInv
<1>8. EofInv' BY DEF Leaves, EofInv, serverVars, TypeOK
<1> QED BY <1>3, <1>4, <1>5, <1>6, <1>7, <1>8

\* The result codes that the model names are codes.
LEMMA CodeTypes ==
  /\ {"UNRESOLVED", "killed", "PASS", "UNINITIATED"} \subseteq AllCodes
  /\ {"UNRESOLVED", "PASS", "UNINITIATED"} \subseteq StfCodes
  /\ Codes \subseteq AllCodes
<1>1. /\ "PASS" = result_prec[1] /\ "UNRESOLVED" = result_prec[6] /\ "UNINITIATED" = result_prec[8]
      /\ {1, 6, 8} \subseteq DOMAIN result_prec
  BY DEF result_prec
<1> QED BY <1>1 DEF AllCodes, StfCodes

\* A library call finds no server.
LEMMA InvCallFails ==
  ASSUME Inv, NEW p \in Parts, CallFails(p)
  PROVE  Inv'
<1> USE DEF Inv
<1>1. /\ pc[p] = "running" /\ calls[p] < MaxCalls /\ calls' = [calls EXCEPT ![p] = @ + 1]
      /\ Error(p) /\ UNCHANGED <<serverVars, queue, reply, at, eintr, launchVars>>
  BY DEF CallFails, Begin
<1>2. TypeOK'
  BY <1>1, BoundAssumption, CodeTypes DEF Error, TypeOK, serverVars, launchVars
<1>3. PartInv'
  BY <1>1, ListTypes DEF Error, TypeOK, PartInv, launchVars
<1>4. Leaves(p)
  BY <1>1 DEF Error, TypeOK, Leaves
<1> QED BY <1>2, <1>3, <1>4, LeaveKeepsInv

\* mstf_sync reads the answer.
LEMMA InvSyncReturns ==
  ASSUME Inv, NEW p \in Parts, SyncReturns(p)
  PROVE  Inv'
<1> USE DEF Inv
<1>1. /\ pc[p] = "sync" /\ reply[p] # None
      /\ Succeed(p) \/ Error(p)
      /\ reply' = [reply EXCEPT ![p] = None]
      /\ eintr' = eintr \ {p}
      /\ UNCHANGED <<serverVars, queue, at, calls, launchVars>>
  BY DEF SyncReturns, ReadEnds
<1>2. TypeOK'
  <2>1. /\ pc' \in [Parts -> {"unlaunched", "running", "sync", "getv", "returned"}]
        /\ status' \in [Parts -> {"PASS", "UNRESOLVED"}]
        /\ result' \in [Parts -> AllCodes \cup {None}]
    <3>1. CASE Succeed(p) BY <3>1 DEF Succeed, TypeOK
    <3>2. CASE Error(p) BY <3>2, CodeTypes, BoundAssumption DEF Error, TypeOK
    <3> QED BY <1>1, <3>1, <3>2
  <2>2. reply' \in [Parts -> {None, "go", "failed", "eof", "reset"} \cup Values]
    BY <1>1 DEF TypeOK
  <2> QED BY <1>1, <2>1, <2>2 DEF TypeOK, serverVars, launchVars
<1>3. PartInv'
  BY <1>1, ListTypes DEF Succeed, Error, TypeOK, PartInv, launchVars
<1>4. Leaves(p)
  BY <1>1 DEF Succeed, Error, TypeOK, Leaves
<1> QED BY <1>2, <1>3, <1>4, LeaveKeepsInv

\* mstf_getvar reads the answer.
LEMMA InvGetReturns ==
  ASSUME Inv, NEW p \in Parts, GetReturns(p)
  PROVE  Inv'
<1> USE DEF Inv
<1>1. /\ pc[p] = "getv" /\ reply[p] # None
      /\ \/ Error(p)
         \/ /\ \E s \in {"PASS", "UNRESOLVED"} : status' = [status EXCEPT ![p] = s]
            /\ pc' = [pc EXCEPT ![p] = "running"]
            /\ UNCHANGED result
      /\ reply' = [reply EXCEPT ![p] = None]
      /\ eintr' = eintr \ {p}
      /\ UNCHANGED <<serverVars, queue, at, calls, launchVars>>
  BY DEF GetReturns, Succeed, ReadEnds
<1>2. TypeOK'
  <2>1. /\ pc' \in [Parts -> {"unlaunched", "running", "sync", "getv", "returned"}]
        /\ status' \in [Parts -> {"PASS", "UNRESOLVED"}]
        /\ result' \in [Parts -> AllCodes \cup {None}]
    <3>1. CASE Error(p) BY <3>1, CodeTypes, BoundAssumption DEF Error, TypeOK
    <3>2. ASSUME NEW s \in {"PASS", "UNRESOLVED"}, status' = [status EXCEPT ![p] = s],
                 pc' = [pc EXCEPT ![p] = "running"], UNCHANGED result
          PROVE  /\ pc' \in [Parts -> {"unlaunched", "running", "sync", "getv", "returned"}]
                 /\ status' \in [Parts -> {"PASS", "UNRESOLVED"}]
                 /\ result' \in [Parts -> AllCodes \cup {None}]
      BY <3>2 DEF TypeOK
    <3> QED BY <1>1, <3>1, <3>2
  <2>2. reply' \in [Parts -> {None, "go", "failed", "eof", "reset"} \cup Values]
    BY <1>1 DEF TypeOK
  <2> QED BY <1>1, <2>1, <2>2 DEF TypeOK, serverVars, launchVars
<1>3. PartInv'
  BY <1>1, ListTypes DEF Error, TypeOK, PartInv, launchVars
<1>4. Leaves(p)
  BY <1>1 DEF Error, TypeOK, Leaves
<1> QED BY <1>2, <1>3, <1>4, LeaveKeepsInv

\* A script ends.
LEMMA InvReturn ==
  ASSUME Inv, NEW p \in Parts, Return(p)
  PROVE  Inv'
<1> USE DEF Inv
<1>1. PICK c \in Codes : result' = [result EXCEPT ![p] = c]
  BY DEF Return
<1>2. /\ pc[p] = "running" /\ pc' = [pc EXCEPT ![p] = "returned"] /\ c # None
      /\ UNCHANGED <<serverVars, queue, reply, at, status, calls, eintr, launchVars>>
  BY NoResultAssumption, CodeTypes DEF Return
<1>3. TypeOK'
  BY <1>1, <1>2, CodeTypes DEF TypeOK, serverVars, launchVars
<1>4. PartInv'
  BY <1>1, <1>2 DEF TypeOK, PartInv, launchVars
<1>5. Leaves(p)
  BY <1>1, <1>2 DEF TypeOK, Leaves
<1> QED BY <1>3, <1>4, <1>5, LeaveKeepsInv

\* A script is killed, perhaps just after it has connected.
LEMMA InvKill ==
  ASSUME Inv, NEW p \in Parts, Kill(p)
  PROVE  Inv'
<1> DEFINE r == Request("", p, None, None)
<1> USE DEF Inv
<1>1. /\ pc[p] \in {"running", "sync", "getv"} /\ pc' = [pc EXCEPT ![p] = "returned"]
      /\ result' = [result EXCEPT ![p] = "killed"]
      /\ UNCHANGED <<serverVars, reply, at, status, calls, launchVars>>
      /\ eintr' = eintr \ {p}
      /\ UNCHANGED queue \/ (pc[p] = "running" /\ queue' = Append(queue, r))
  BY DEF Kill, Send
<1>2. r \in Requests /\ r.cmd = "" /\ r.from = p
  BY DEF Request, Requests, Commands
<1> HIDE DEF r
<1>3. TypeOK'
  <2>1. queue' \in Seq(Requests)
    <3>1. CASE UNCHANGED queue BY <3>1 DEF TypeOK
    <3>2. CASE queue' = Append(queue, r) BY <1>2, <3>2, QueueAppend
    <3> QED BY <1>1, <3>1, <3>2
  <2> QED BY <1>1, <2>1, CodeTypes DEF TypeOK, serverVars, launchVars
<1>4. PartInv'
  BY <1>1, ListTypes DEF TypeOK, PartInv, launchVars
<1>5. CASE UNCHANGED queue
  <2>1. Leaves(p) BY <1>1, <1>5 DEF TypeOK, Leaves
  <2> QED BY <1>3, <1>4, <2>1, LeaveKeepsInv
<1>6. CASE pc[p] = "running" /\ queue' = Append(queue, r)
  <2>1. Sends(p, r) BY <1>1, <1>2, <1>6 DEF TypeOK, Sends
  <2>2. RequestOK(r)' BY <1>2 DEF RequestOK
  <2> QED BY <1>2, <1>3, <1>4, <2>1, <2>2, SendKeepsInv
<1> QED BY <1>1, <1>5, <1>6
-----------------------------------------------------------------------------
(* The steps of the server.                                                *)

\* What all handlers have in common: the server takes the first request, and
\* the parts in P, at most, are answered.
Handled(P) ==
  /\ server = "listening"
  /\ queue # <<>>
  /\ queue' = Tail(queue)
  /\ UNCHANGED <<partVars, launchVars>>
  /\ \A q \in Parts \ P : reply'[q] = reply[q]
  /\ \A q \in P : reply'[q] \notin {"eof", "reset"}

\* The first request is true of its sender, who has asked nothing else.
LEMMA HeadOK ==
  ASSUME Inv, queue # <<>>, queue' = Tail(queue)
  PROVE  LET r == Head(queue) IN
         /\ r \in Requests
         /\ RequestOK(r)
         /\ r.cmd \in {"sync", "getv", "setv", "sfin", ""} => ~Quiet(r.from)
         /\ r.cmd \in {"sync", "getv"} => \A q \in {r.from} : Quiet(q)'
         /\ r.cmd = "sfin" => \A i \in DOMAIN queue' : queue'[i].from # r.from
         /\ \A q \in Parts : Quiet(q) => Quiet(q)'
<1> USE DEF Inv
<1> DEFINE r == Head(queue)
<1>1. /\ r \in Requests /\ 1 \in DOMAIN queue /\ queue[1] = r
      /\ \A i \in DOMAIN queue' : i + 1 \in DOMAIN queue /\ queue'[i] = queue[i + 1] /\ i \in Int /\ 1 < i + 1
  BY QueueTail
<1> HIDE DEF r
<1>2. RequestOK(r) BY <1>1 DEF QueueInv
<1>3. r.cmd \in {"sync", "getv", "setv", "sfin", ""} => ~Quiet(r.from) BY <1>1 DEF Quiet
<1>4. r.cmd \in {"sync", "getv"} => \A q \in {r.from} : Quiet(q)'
  BY <1>1 DEF Quiet, QueueOrder
<1>5. r.cmd = "sfin" => \A i \in DOMAIN queue' : queue'[i].from # r.from
  BY <1>1 DEF QueueOrder
<1>6. \A q \in Parts : Quiet(q) => Quiet(q)'
  BY <1>1 DEF Quiet
<1> QED BY <1>1, <1>2, <1>3, <1>4, <1>5, <1>6 DEF r

\* What a handler keeps when it answers parts that wait and have asked nothing
\* else.
LEMMA HandledKeeps ==
  ASSUME Inv, NEW P \in SUBSET Parts, Handled(P),
         \A q \in P : (Waits(q, "sync") \/ Waits(q, "getv")) /\ Quiet(q)'
  PROVE  /\ PartInv' /\ QueueInv' /\ QueueOrder' /\ GoInv' /\ EofInv'
         /\ UNCHANGED num_parts => CountInv'
         /\ \A q \in Parts, where \in {"sync", "getv"} :
              Waits(q, where) /\ q \notin P => Waits(q, where)'
         /\ \A q \in Parts : Waits(q, "sync") /\ Waits(q, "getv")
              => Waits(q, "sync")' /\ Waits(q, "getv")'
<1> USE DEF Inv
<1>1. /\ server = "listening" /\ UNCHANGED <<partVars, launchVars>>
      /\ \A q \in Parts \ P : reply'[q] = reply[q]
      /\ \A q \in P : reply'[q] \notin {"eof", "reset"}
  BY DEF Handled
<1>2. /\ \A i \in DOMAIN queue' : i + 1 \in DOMAIN queue /\ queue'[i] = queue[i + 1] /\ i \in Int
  BY QueueTail DEF Handled
<1>3. PartInv'
  BY <1>1 DEF PartInv, Waits, partVars, launchVars
<1>4. \A q \in Parts, where \in {"sync", "getv"} :
        Waits(q, where) /\ q \notin P => Waits(q, where)'
  BY <1>1 DEF Waits, partVars
<1>5. \A q \in Parts : Waits(q, "sync") /\ Waits(q, "getv")
        => Waits(q, "sync")' /\ Waits(q, "getv")'
  BY <1>1 DEF Waits, partVars
<1>6. QueueInv'
  <2> SUFFICES ASSUME NEW i \in DOMAIN queue' PROVE RequestOK(queue[i])' BY DEF QueueInv
  <2>1. RequestOK(queue'[i]) BY <1>2 DEF QueueInv
  <2>2. queue'[i].cmd \in {"sync", "getv"} => queue'[i].from \notin P
    BY DEF Quiet
  <2> QED BY <1>1, <1>4, <2>1, <2>2 DEF RequestOK, partVars, launchVars
<1>7. QueueOrder'
  <2> SUFFICES ASSUME NEW i \in DOMAIN queue', NEW j \in DOMAIN queue', i < j,
                      queue'[i].from = queue'[j].from
               PROVE  /\ queue'[i].cmd \in {"sync", "getv"} => queue'[j].cmd = "stop"
                      /\ queue'[i].cmd # "sfin"
    BY DEF QueueOrder
  <2>1. i + 1 < j + 1 BY <1>2
  <2> QED BY <1>2, <2>1 DEF QueueOrder
<1>8. GoInv'
  <2>1. \A q \in Parts : Quiet(q) => Quiet(q)' BY HeadOK DEF Handled
  <2> QED BY <1>1, <2>1 DEF GoInv, partVars
<1>9. EofInv' BY <1>1 DEF EofInv
<1>10. ASSUME UNCHANGED num_parts PROVE CountInv'
  <2>1. PICK F \in SUBSET Parts : Finished(F) BY DEF CountInv
  <2>2. Finished(F)' BY <1>1, <1>2, <1>10, <2>1 DEF Finished, partVars, launchVars
  <2> QED BY <2>2 DEF CountInv
<1> QED BY <1>3, <1>4, <1>5, <1>6, <1>7, <1>8, <1>9, <1>10

\* The lists when no request has changed them.
LEMMA ListsKept ==
  ASSUME Inv, NEW P \in SUBSET Parts, Handled(P),
         \A q \in P : (Waits(q, "sync") \/ Waits(q, "getv")) /\ Quiet(q)',
         UNCHANGED <<open_list, target_label, waiting>>,
         P \cap open_list = {}, \A v \in Vars : P \cap waiting[v] = {}
  PROVE  ListInv'
<1> USE DEF Inv
<1>1. \A q \in Parts, where \in {"sync", "getv"} : Waits(q, where) /\ q \notin P => Waits(q, where)'
  BY HandledKeeps
<1>2. \A q \in Parts : Quiet(q) => Quiet(q)' BY HeadOK DEF Handled
<1>3. server = "listening" /\ UNCHANGED at BY DEF Handled, partVars
<1> QED BY <1>1, <1>2, <1>3, ListTypes DEF ListInv

\* mstf_getvar is answered, or the part waits for the variable.
LEMMA InvGetV ==
  ASSUME Inv, GetV
  PROVE  Inv'
<1> USE DEF Inv
<1> DEFINE r == Head(queue)
<1>1. /\ server = "listening" /\ queue # <<>> /\ r.cmd = "getv" /\ queue' = Tail(queue)
      /\ UNCHANGED <<partVars, launchVars, server, num_parts, target_label, open_list, shared_vars, rval>>
      /\ \/ /\ shared_vars[r.arg] # None
            /\ Tell({r.from}, shared_vars[r.arg]) /\ UNCHANGED waiting
         \/ /\ waiting' = [waiting EXCEPT ![r.arg] = @ \cup {r.from}] /\ UNCHANGED reply
  BY DEF GetV, Handles
<1>2. /\ r.from \in Parts /\ r.arg \in Vars /\ Waits(r.from, "getv") /\ ~Quiet(r.from)
      /\ \A q \in {r.from} : Quiet(q)'
      /\ \A q \in Parts : Quiet(q) => Quiet(q)'
      /\ queue' \in Seq(Requests)
  BY <1>1, HeadOK, QueueTail DEF RequestOK
<1> HIDE DEF r
<1>3. CASE shared_vars[r.arg] # None /\ Tell({r.from}, shared_vars[r.arg]) /\ UNCHANGED waiting
  <2>1. shared_vars[r.arg] \in Values BY <1>2, <1>3 DEF TypeOK
  <2>2. TypeOK'
    BY <1>1, <1>2, <1>3, <2>1 DEF Tell, TypeOK, partVars, launchVars
  <2>3. Handled({r.from})
    BY <1>1, <1>2, <1>3, <2>1, PartsAssumption DEF Handled, Tell
  <2>4. r.from \notin open_list /\ \A v \in Vars : r.from \notin waiting[v]
    BY <1>1, <1>2 DEF ListInv
  <2>5. ListInv' BY <1>1, <1>2, <1>3, <2>3, <2>4, ListsKept
  <2> QED BY <1>1, <1>2, <2>2, <2>3, <2>5, HandledKeeps
<1>4. CASE waiting' = [waiting EXCEPT ![r.arg] = @ \cup {r.from}] /\ UNCHANGED reply
  <2>1. TypeOK'
    BY <1>1, <1>2, <1>4 DEF TypeOK, partVars, launchVars
  <2>2. Handled({})
    BY <1>1, <1>4 DEF Handled
  <2>3. /\ \A q \in Parts, where \in {"sync", "getv"} : Waits(q, where) => Waits(q, where)'
        /\ PartInv' /\ QueueInv' /\ QueueOrder' /\ GoInv' /\ EofInv' /\ CountInv'
    BY <1>1, <2>2, HandledKeeps
  <2>4. r.from \notin open_list /\ \A v \in Vars : r.from \notin waiting[v]
    BY <1>1, <1>2 DEF ListInv
  <2>5. /\ waiting'[r.arg] = waiting[r.arg] \cup {r.from}
        /\ \A v \in Vars \ {r.arg} : waiting'[v] = waiting[v]
    BY <1>2, <1>4 DEF TypeOK
  <2>6. ListInv'
    <3>1. \A q \in open_list' : Waits(q, "sync")' /\ at'[q] = target_label' /\ Quiet(q)'
      BY <1>1, <1>2, <2>3, ListTypes DEF ListInv, partVars
    <3>2. \A v \in Vars : \A q \in waiting'[v] : Waits(q, "getv")' /\ Quiet(q)'
      BY <1>1, <1>2, <2>3, <2>5, ListTypes DEF ListInv
    <3>3. \A v, w \in Vars : v # w => waiting'[v] \cap waiting'[w] = {}
      BY <1>1, <1>2, <2>4, <2>5 DEF ListInv
    <3> QED BY <1>1, <3>1, <3>2, <3>3 DEF ListInv
  <2> QED BY <2>1, <2>3, <2>6
<1> QED BY <1>1, <1>3, <1>4

\* A variable is set and the parts that wait for it are told.
LEMMA InvSetV ==
  ASSUME Inv, SetV
  PROVE  Inv'
<1> USE DEF Inv
<1> DEFINE r == Head(queue)
           W == waiting[r.arg]
           value == BeforeEq[r.val]
<1>1. /\ server = "listening" /\ queue # <<>> /\ r.cmd = "setv" /\ queue' = Tail(queue)
      /\ UNCHANGED <<partVars, launchVars, server, num_parts, target_label, open_list, rval>>
      /\ shared_vars' = [shared_vars EXCEPT ![r.arg] = value]
      /\ waiting' = [waiting EXCEPT ![r.arg] = {}]
      /\ Tell(W, value)
  BY DEF SetV, Handles
<1>2. /\ r.arg \in Vars /\ r.val \in Values
      /\ \A q \in Parts : Quiet(q) => Quiet(q)'
      /\ queue' \in Seq(Requests)
  BY <1>1, HeadOK, QueueTail DEF RequestOK
<1>3. value \in Values BY <1>2, ValueAssumption
<1>4. W \subseteq Parts /\ \A q \in W : Waits(q, "getv") /\ Quiet(q)
  BY <1>1, <1>2, ListTypes DEF ListInv
<1>5. /\ waiting'[r.arg] = {}
      /\ \A v \in Vars \ {r.arg} : waiting'[v] = waiting[v]
  BY <1>1, <1>2 DEF TypeOK
<1>6. \A v \in Vars \ {r.arg} : waiting[v] \cap W = {}
  BY <1>1, <1>2 DEF ListInv
<1> HIDE DEF r, W, value
<1>7. TypeOK'
  BY <1>1, <1>2, <1>3 DEF Tell, TypeOK, partVars, launchVars
<1>8. Handled(W)
  BY <1>1, <1>3, <1>4, PartsAssumption DEF Handled, Tell
<1>9. /\ \A q \in Parts, where \in {"sync", "getv"} : Waits(q, where) /\ q \notin W => Waits(q, where)'
      /\ \A q \in Parts : Waits(q, "sync") /\ Waits(q, "getv") => Waits(q, "sync")' /\ Waits(q, "getv")'
      /\ PartInv' /\ QueueInv' /\ QueueOrder' /\ GoInv' /\ EofInv' /\ CountInv'
  BY <1>1, <1>2, <1>4, <1>8, HandledKeeps
<1>10. ListInv'
  <2>1. \A q \in open_list' : Waits(q, "sync")' /\ at'[q] = target_label' /\ Quiet(q)'
    BY <1>1, <1>2, <1>4, <1>9, ListTypes DEF ListInv, partVars
  <2>2. \A v \in Vars : \A q \in waiting'[v] : Waits(q, "getv")' /\ Quiet(q)'
    BY <1>1, <1>2, <1>5, <1>6, <1>9, ListTypes DEF ListInv
  <2>3. \A v, w \in Vars : v # w => waiting'[v] \cap waiting'[w] = {}
    BY <1>1, <1>5 DEF ListInv
  <2> QED BY <1>1, <2>1, <2>2, <2>3 DEF ListInv
<1> QED BY <1>7, <1>9, <1>10

\* The end of a sync and of an sfin: P is released or goes on waiting.
LEMMA ReleaseKeepsInv ==
  ASSUME Inv, server = "listening", queue # <<>>, queue' = Tail(queue),
         UNCHANGED <<partVars, launchVars, server, shared_vars, waiting, rval>>,
         NEW P \in SUBSET Parts, NEW n, NEW label \in SyncLabels \cup {None}, ReleaseIfAll(P, n, label),
         \A q \in P : Waits(q, "sync") /\ at[q] = label /\ Quiet(q)',
         label = None => P = {},
         n \in 0 .. Cardinality(Parts), CountInv'
  PROVE  Inv'
<1> USE DEF Inv
<1>1. /\ queue' \in Seq(Requests)
      /\ \A q \in Parts : Quiet(q) => Quiet(q)'
  BY HeadOK, QueueTail
<1>2. \A q \in Parts : \A v \in Vars : q \in waiting[v] => Waits(q, "getv") /\ Quiet(q)'
  BY <1>1, ListTypes DEF ListInv
<1>3. CASE Tell(P, "go") /\ open_list' = {} /\ target_label' = None
  <2>1. num_parts' = n BY DEF ReleaseIfAll
  <2>2. TypeOK' BY <1>1, <1>3, <2>1 DEF TypeOK, Tell, partVars, launchVars
  <2>3. Handled(P) BY <1>3 DEF Handled, Tell
  <2>4. /\ \A q \in Parts, where \in {"sync", "getv"} : Waits(q, where) /\ q \notin P => Waits(q, where)'
        /\ \A q \in Parts : Waits(q, "sync") /\ Waits(q, "getv") => Waits(q, "sync")' /\ Waits(q, "getv")'
        /\ PartInv' /\ QueueInv' /\ QueueOrder' /\ GoInv' /\ EofInv'
    BY <2>3, HandledKeeps
  <2>5. ListInv'
    BY <1>2, <1>3, <2>4, ListTypes DEF ListInv
  <2> QED BY <2>2, <2>4, <2>5
<1>4. CASE open_list' = P /\ target_label' = label /\ UNCHANGED reply
  <2>1. num_parts' = n BY DEF ReleaseIfAll
  <2>2. TypeOK' BY <1>1, <1>4, <2>1 DEF TypeOK, partVars, launchVars
  <2>3. Handled({}) BY <1>4 DEF Handled
  <2>4. /\ \A q \in Parts, where \in {"sync", "getv"} : Waits(q, where) => Waits(q, where)'
        /\ PartInv' /\ QueueInv' /\ QueueOrder' /\ GoInv' /\ EofInv'
    BY <2>3, HandledKeeps
  <2>5. ListInv'
    BY <1>2, <1>4, <2>4, ListTypes DEF ListInv, partVars
  <2> QED BY <2>2, <2>4, <2>5
<1> QED BY <1>3, <1>4 DEF ReleaseIfAll

\* A sync at the label the others wait at.
LEMMA InvSyncInStep ==
  ASSUME Inv, SyncInStep
  PROVE  Inv'
<1> USE DEF Inv
<1> DEFINE r == Head(queue)
           P == open_list \cup {r.from}
<1>1. /\ server = "listening" /\ queue # <<>> /\ r.cmd = "sync" /\ queue' = Tail(queue)
      /\ target_label \in {r.arg, None}
      /\ UNCHANGED <<partVars, launchVars, server, shared_vars, waiting, rval>>
      /\ ReleaseIfAll(P, num_parts, r.arg)
  BY DEF SyncInStep, Handles
<1>2. /\ r.from \in Parts /\ r.arg \in SyncLabels /\ at[r.from] = r.arg /\ Waits(r.from, "sync")
      /\ \A q \in {r.from} : Quiet(q)'
      /\ \A q \in Parts : Quiet(q) => Quiet(q)'
  BY <1>1, HeadOK DEF RequestOK
<1>3. P \in SUBSET Parts BY <1>2, ListTypes
<1>4. \A q \in P : Waits(q, "sync") /\ at[q] = r.arg /\ Quiet(q)'
  BY <1>1, <1>2, ListTypes DEF ListInv
<1>5. r.arg # None BY <1>2, PartsAssumption
<1>6. num_parts' = num_parts /\ num_parts \in 0 .. Cardinality(Parts)
  BY <1>1 DEF ReleaseIfAll, TypeOK
<1>7. CountInv'
  <2>1. PICK F \in SUBSET Parts : Finished(F) BY DEF CountInv
  <2>2. \A i \in DOMAIN queue' : i + 1 \in DOMAIN queue /\ queue'[i] = queue[i + 1]
    BY <1>1, QueueTail
  <2>3. Finished(F)' BY <1>1, <1>6, <2>1, <2>2 DEF Finished, partVars, launchVars
  <2> QED BY <2>3 DEF CountInv
<1> HIDE DEF r, P
<1> QED BY <1>1, <1>2, <1>3, <1>4, <1>5, <1>6, <1>7, ReleaseKeepsInv

\* A part has finished: the others need not wait for it any more.
LEMMA InvSfin ==
  ASSUME Inv, Sfin
  PROVE  Inv'
<1> USE DEF Inv
<1> DEFINE r == Head(queue)
           n == num_parts - 1
<1>1. /\ server = "listening" /\ queue # <<>> /\ r.cmd = "sfin" /\ queue' = Tail(queue)
      /\ UNCHANGED <<partVars, launchVars, server, shared_vars, waiting, rval>>
      /\ ReleaseIfAll(open_list, n, target_label)
  BY DEF Sfin, Handles
<1>2. /\ r.from \in collected /\ result[r.from] = "PASS"
      /\ \A i \in DOMAIN queue' : queue'[i].from # r.from
      /\ \A q \in Parts : Quiet(q) => Quiet(q)'
  BY <1>1, HeadOK DEF RequestOK
<1>3. \A q \in open_list : Waits(q, "sync") /\ at[q] = target_label /\ Quiet(q)'
  BY <1>1, <1>2, ListTypes DEF ListInv
<1>4. /\ open_list \in SUBSET Parts /\ target_label \in SyncLabels \cup {None}
      /\ target_label = None => open_list = {}
  BY <1>1 DEF ListInv, TypeOK
<1>5. PICK F \in SUBSET Parts : Finished(F) BY DEF CountInv
<1>6. /\ 1 \in DOMAIN queue /\ queue[1] = r
      /\ \A i \in DOMAIN queue' : i + 1 \in DOMAIN queue /\ queue'[i] = queue[i + 1]
  BY <1>1, QueueTail
<1>7. PICK p \in Parts \ F : p = r.from BY <1>1, <1>2, <1>5, <1>6, ListTypes DEF Finished
<1> DEFINE G == F \cup {p}
<1>8. /\ Cardinality(Parts \ G) = n /\ n \in 0 .. Cardinality(Parts)
  <2>1. IsFiniteSet(Parts \ F) /\ Cardinality(Parts \ F) <= Cardinality(Parts)
    BY PartsAssumption, FS_Subset
  <2>2. Parts \ G = (Parts \ F) \ {p} OBVIOUS
  <2>3. Cardinality(Parts \ G) = Cardinality(Parts \ F) - 1 /\ IsFiniteSet(Parts \ G)
    BY <1>7, <2>1, <2>2, FS_RemoveElement
  <2>4. /\ Cardinality(Parts \ G) \in Nat /\ Cardinality(Parts) \in Nat
        /\ Cardinality(Parts \ F) \in Nat
    BY <2>1, <2>3, PartsAssumption, FS_CardinalityType
  <2> QED BY <1>5, <2>1, <2>3, <2>4 DEF Finished
<1>9. num_parts' = n BY <1>1 DEF ReleaseIfAll
<1>10. CountInv'
  <2>1. G \in SUBSET Parts BY <1>7
  <2>2. Finished(G)'
    BY <1>1, <1>2, <1>5, <1>6, <1>7, <1>8, <1>9 DEF Finished, partVars, launchVars
  <2> QED BY <2>1, <2>2 DEF CountInv
<1> HIDE DEF n
<1> QED BY <1>1, <1>3, <1>4, <1>8, <1>10, ReleaseKeepsInv

\* A handler that ends the server answers the parts that wait with "failed" or
\* not at all.
LEMMA ExitKeepsInv ==
  ASSUME Inv, NEW P \in SUBSET Parts, NEW x \in {"PASS", "UNRESOLVED"},
         server = "listening", queue # <<>>, queue' = Tail(queue),
         UNCHANGED <<partVars, launchVars, num_parts, target_label, open_list, shared_vars, waiting>>,
         Exit(x), Tell(P, "failed"),
         \A q \in P : (Waits(q, "sync") \/ Waits(q, "getv")) /\ Quiet(q)'
  PROVE  Inv'
<1> USE DEF Inv
<1>1. queue' \in Seq(Requests) BY QueueTail
<1>2. TypeOK' BY <1>1 DEF TypeOK, Tell, Exit, partVars, launchVars
<1>3. Handled(P) BY DEF Handled, Tell
<1>4. ListInv' BY DEF ListInv, Exit
<1> QED BY <1>2, <1>3, <1>4, HandledKeeps

\* A sync at another label.
LEMMA InvSyncOutOfStep ==
  ASSUME Inv, SyncOutOfStep
  PROVE  Inv'
<1> USE DEF Inv
<1> DEFINE r == Head(queue)
           P == open_list \cup {r.from}
<1>1. /\ server = "listening" /\ queue # <<>> /\ r.cmd = "sync" /\ queue' = Tail(queue)
      /\ UNCHANGED <<partVars, launchVars, num_parts, target_label, open_list, shared_vars, waiting>>
      /\ Tell(P, "failed") /\ Exit("UNRESOLVED")
  BY DEF SyncOutOfStep, Handles
<1>2. /\ r.from \in Parts /\ Waits(r.from, "sync")
      /\ \A q \in {r.from} : Quiet(q)'
      /\ \A q \in Parts : Quiet(q) => Quiet(q)'
  BY <1>1, HeadOK DEF RequestOK
<1>3. P \in SUBSET Parts /\ \A q \in P : Waits(q, "sync") /\ Quiet(q)'
  BY <1>1, <1>2, ListTypes DEF ListInv
<1> HIDE DEF P, r
<1> QED BY <1>1, <1>3, ExitKeepsInv

\* A connection that was closed without a request.
LEMMA InvInvalidCommand ==
  ASSUME Inv, InvalidCommand
  PROVE  Inv'
<1> USE DEF Inv
<1>1. /\ server = "listening" /\ queue # <<>> /\ queue' = Tail(queue)
      /\ UNCHANGED <<partVars, launchVars, num_parts, target_label, open_list, shared_vars, waiting>>
      /\ Tell(open_list, "failed") /\ Exit("UNRESOLVED")
  BY DEF InvalidCommand, Handles
<1>2. open_list \in SUBSET Parts /\ \A q \in open_list : Waits(q, "sync") /\ Quiet(q)'
  BY <1>1, HeadOK, ListTypes DEF ListInv
<1> QED BY <1>1, <1>2, ExitKeepsInv

\* The launcher stops the server.
LEMMA InvStop ==
  ASSUME Inv, Stop
  PROVE  Inv'
<1> USE DEF Inv
<1>1. /\ server = "listening" /\ queue # <<>> /\ queue' = Tail(queue)
      /\ UNCHANGED <<partVars, launchVars, num_parts, target_label, open_list, shared_vars, waiting, reply>>
  BY DEF Stop, Handles
<1>2. PICK x \in {"PASS", "UNRESOLVED"} : Exit(x) BY DEF Stop
<1>3. Tell({}, "failed") BY <1>1 DEF Tell, TypeOK
<1> QED BY <1>1, <1>2, <1>3, ExitKeepsInv

\* The server's process exits.
LEMMA InvServerExits ==
  ASSUME Inv, ServerExits
  PROVE  Inv'
<1> USE DEF Inv
<1>1. /\ server = "exiting" /\ server' = "gone" /\ queue' = <<>>
      /\ UNCHANGED <<num_parts, target_label, open_list, shared_vars, waiting, rval, partVars, launchVars>>
      /\ \A q \in Parts : reply'[q] \in {reply[q], "eof", "reset"}
      /\ \A q \in Parts : pc[q] \notin {"sync", "getv"} => reply'[q] = reply[q]
      /\ \A q \in Parts : reply'[q] = "go" => reply[q] = "go"
      /\ reply' = [q \in Parts |-> reply'[q]]
  BY DEF ServerExits
<1>2. TypeOK' 
  <2>1. reply' \in [Parts -> {None, "go", "failed", "eof", "reset"} \cup Values]
    BY <1>1 DEF TypeOK
  <2> QED BY <1>1, <2>1 DEF TypeOK, partVars, launchVars
<1>3. PartInv' BY <1>1 DEF PartInv, partVars, launchVars
<1>4. DOMAIN queue' = {} BY <1>1
<1>5. QueueInv' /\ QueueOrder' BY <1>4 DEF QueueInv, QueueOrder
<1>6. ListInv' /\ EofInv' BY <1>1 DEF ListInv, EofInv
<1>7. GoInv' BY <1>4 DEF GoInv, Quiet
<1>8. CountInv'
  <2>1. PICK F \in SUBSET Parts : Finished(F) BY DEF CountInv
  <2>2. Finished(F)' BY <1>1, <1>4, <2>1 DEF Finished, partVars, launchVars
  <2> QED BY <2>2 DEF CountInv
<1> QED BY <1>2, <1>3, <1>5, <1>6, <1>7, <1>8
-----------------------------------------------------------------------------
(* The steps of the launcher.                                              *)

\* The verdict is the result, a code of its own or STF_OTHER, of the highest
\* precedence.
LEMMA FinalResult ==
  ASSUME NEW R
  PROVE  \E k \in DOMAIN result_prec :
           /\ final_result(R) = result_prec[k]
           /\ \/ k = 1
              \/ \E x \in R : result_prec[k] = IF x \in StfCodes THEN x ELSE "OTHER"
           /\ \A x \in R, i \in DOMAIN result_prec :
                result_prec[i] = (IF x \in StfCodes THEN x ELSE "OTHER") => i <= k
<1> DEFINE known == {IF r \in StfCodes THEN r ELSE "OTHER" : r \in R} \cup {"PASS"}
           I == {i \in DOMAIN result_prec : result_prec[i] \in known}
<1>1. DOMAIN result_prec = 1 .. 11 /\ result_prec[1] = "PASS"
  BY DEF result_prec
<1>2. 1 \in I /\ I \subseteq 1 .. 11 BY <1>1
<1> HIDE DEF I
<1>3. \E k \in I : \A i \in I : k >= i
  <2>1. \A n \in 1 .. 11 : n \in {1,2,3,4,5,6,7,8,9,10,11} OBVIOUS
  <2> QED BY <1>2, <2>1
<1>4. Max(I) \in I /\ \A i \in I : Max(I) >= i
  BY <1>3 DEF Max
<1>5. final_result(R) = result_prec[Max(I)] BY DEF final_result, I
<1> HIDE DEF known
<1>6. \A x : x \in known <=> x = "PASS" \/ \E y \in R : x = IF y \in StfCodes THEN y ELSE "OTHER"
  BY DEF known
<1>7. \A i : i \in I <=> i \in DOMAIN result_prec /\ result_prec[i] \in known BY DEF I
<1>8. Max(I) = 1 \/ \E x \in R : result_prec[Max(I)] = IF x \in StfCodes THEN x ELSE "OTHER"
  <2>1. \A i \in 1 .. 11 : result_prec[i] = "PASS" => i = 1 BY DEF result_prec
  <2> QED BY <1>1, <1>4, <1>6, <1>7, <2>1
<1>9. ASSUME NEW x \in R, NEW i \in DOMAIN result_prec,
             result_prec[i] = IF x \in StfCodes THEN x ELSE "OTHER"
      PROVE  i <= Max(I)
  <2>1. i \in I BY <1>6, <1>7, <1>9
  <2> QED BY <1>2, <1>4, <2>1
<1> QED BY <1>4, <1>5, <1>7, <1>8, <1>9

\* What the steps of the launcher that tell the server nothing keep.
LEMMA LauncherKeepsInv ==
  ASSUME Inv, UNCHANGED <<serverVars, queue, reply, at, result>>, collected \subseteq collected',
         \A q \in Parts : pc[q] # "unlaunched" => pc'[q] = pc[q],
         \A q \in Parts : pc'[q] \in {"running", pc[q]},
         TypeOK', PartInv'
  PROVE  Inv'
<1> USE DEF Inv
<1>1. \A q \in Parts, where \in {"sync", "getv"} : Waits(q, where) => Waits(q, where)'
  BY DEF Waits
<1>2. \A q \in Parts : Quiet(q) => Quiet(q)' BY DEF Quiet
<1>3. QueueInv'
  <2> SUFFICES ASSUME NEW i \in DOMAIN queue' PROVE RequestOK(queue[i])' BY DEF QueueInv
  <2>1. RequestOK(queue[i]) BY DEF QueueInv
  <2> QED BY <1>1, <2>1 DEF RequestOK
<1>4. QueueOrder' BY DEF QueueOrder
<1>5. ListInv'
  <2>1. UNCHANGED <<server, open_list, target_label, waiting, at>> BY DEF serverVars
  <2> QED BY <1>1, <1>2, <2>1, ListTypes DEF ListInv
<1>6. GoInv' BY <1>2 DEF GoInv
<1>7. CountInv'
  <2>1. PICK F \in SUBSET Parts : Finished(F) BY DEF CountInv
  <2>2. Finished(F)' BY <2>1 DEF Finished, serverVars
  <2> QED BY <2>2 DEF CountInv
<1>8. EofInv' BY DEF EofInv, serverVars
<1> QED BY <1>3, <1>4, <1>5, <1>6, <1>7, <1>8

\* A part is started.
LEMMA InvLaunch ==
  ASSUME Inv, NEW p \in Parts, Launch(p)
  PROVE  Inv'
<1> USE DEF Inv
<1>1. /\ pc[p] = "unlaunched" /\ pc' = [pc EXCEPT ![p] = "running"]
      /\ launcher' \in {"launch", "collect"}
      /\ UNCHANGED <<serverVars, queue, reply, at, status, result, calls, eintr, syncserv_running, collected, final>>
  BY DEF Launch
<1>2. TypeOK' BY <1>1 DEF TypeOK, serverVars
<1>3. PartInv' BY <1>1 DEF PartInv, TypeOK
<1> QED BY <1>1, <1>2, <1>3, LauncherKeepsInv DEF TypeOK

\* The launcher gives up, before or while it collects results.
LEMMA InvGivesUp ==
  ASSUME Inv, LaunchFails \/ \E p \in Parts : LaunchEof(p)
  PROVE  Inv'
<1> USE DEF Inv
<1>1. /\ launcher' = "done" /\ final' \in {"UNINITIATED", "UNRESOLVED"}
      /\ UNCHANGED <<serverVars, queue, reply, partVars, syncserv_running, collected>>
  BY DEF LaunchFails, LaunchEof
<1>2. TypeOK' BY <1>1, CodeTypes DEF TypeOK, serverVars, partVars
<1>3. PartInv' BY <1>1 DEF PartInv, partVars
<1> QED BY <1>1, <1>2, <1>3, LauncherKeepsInv DEF partVars

\* A part's read is interrupted.
LEMMA InvInterrupted ==
  ASSUME Inv, NEW p \in Parts, Interrupted(p)
  PROVE  Inv'
<1> USE DEF Inv
<1>1. /\ eintr' \in SUBSET CParts
      /\ UNCHANGED <<serverVars, queue, reply, pc, at, status, result, calls, launchVars>>
  BY DEF Interrupted, TypeOK
<1>2. TypeOK' BY <1>1 DEF TypeOK, serverVars, launchVars
<1>3. PartInv' BY <1>1 DEF PartInv, launchVars
<1> QED BY <1>1, <1>2, <1>3, LauncherKeepsInv DEF launchVars

\* What the launcher's requests have in common: the part has not been reported
\* before, and the server is told that it has finished only if it has passed.
Reports(r) ==
  /\ queue' = Append(queue, r)
  /\ r.from \notin collected
  /\ \/ r.cmd = "stop"
     \/ /\ r.cmd = "sfin" /\ r.from \in collected'
        /\ pc[r.from] = "returned" /\ result[r.from] = "PASS"
  /\ UNCHANGED <<serverVars, reply, partVars>>
  /\ collected \subseteq collected'

\* The launcher tells the server.
LEMMA ReportKeepsInv ==
  ASSUME Inv, NEW r \in Requests, Reports(r), TypeOK', PartInv'
  PROVE  Inv'
<1> USE DEF Inv
<1>1. /\ r.from \notin collected
      /\ \/ r.cmd = "stop"
         \/ /\ r.cmd = "sfin" /\ r.from \in collected'
            /\ pc[r.from] = "returned" /\ result[r.from] = "PASS"
      /\ UNCHANGED <<serverVars, reply, partVars>>
      /\ collected \subseteq collected'
  BY DEF Reports
<1>2. /\ Len(queue) \in Nat /\ DOMAIN queue = 1 .. Len(queue)
      /\ \A i \in DOMAIN queue' :
           \/ i \in DOMAIN queue /\ queue'[i] = queue[i]
           \/ i = Len(queue) + 1 /\ queue'[i] = r
  BY QueueAppend DEF Reports
<1>3. \A q \in Parts, where \in {"sync", "getv"} :
        Waits(q, where) => Waits(q, where)' /\ (r.cmd = "sfin" => q # r.from)
  BY <1>1 DEF Waits, partVars
<1>4. QueueInv'
  <2> SUFFICES ASSUME NEW i \in DOMAIN queue' PROVE RequestOK(queue[i])' BY DEF QueueInv
  <2>1. CASE i \in DOMAIN queue /\ queue'[i] = queue[i]
    <3>1. RequestOK(queue[i]) BY <2>1 DEF QueueInv
    <3> QED BY <1>1, <1>3, <2>1, <3>1 DEF RequestOK, partVars
  <2>2. CASE queue'[i] = r BY <1>1, <2>2 DEF RequestOK, partVars
  <2> QED BY <1>2, <2>1, <2>2
<1>5. QueueOrder'
  <2> SUFFICES ASSUME NEW i \in DOMAIN queue', NEW j \in DOMAIN queue', i < j,
                      queue'[i].from = queue'[j].from
               PROVE  /\ queue'[i].cmd \in {"sync", "getv"} => queue'[j].cmd = "stop"
                      /\ queue'[i].cmd # "sfin"
    BY DEF QueueOrder
  <2>1. i \in DOMAIN queue /\ queue'[i] = queue[i] BY <1>2
  <2>2. RequestOK(queue[i]) BY <2>1 DEF QueueInv
  <2>3. CASE j \in DOMAIN queue /\ queue'[j] = queue[j] BY <2>1, <2>3 DEF QueueOrder
  <2>4. CASE queue'[j] = r BY <1>1, <1>3, <2>1, <2>2, <2>4 DEF RequestOK
  <2> QED BY <1>2, <2>3, <2>4
<1>6. ASSUME NEW q \in Parts, Quiet(q), r.cmd = "sfin" => q # r.from PROVE Quiet(q)'
  <2> SUFFICES ASSUME NEW i \in DOMAIN queue', queue'[i].from = q PROVE queue'[i].cmd = "stop"
    BY DEF Quiet
  <2> QED BY <1>1, <1>2, <1>6 DEF Quiet
<1>7. ListInv'
  <2>1. UNCHANGED <<server, open_list, target_label, waiting, at>> BY <1>1 DEF serverVars, partVars
  <2> QED BY <1>3, <1>6, <2>1, ListTypes DEF ListInv
<1>8. GoInv' BY <1>1, <1>6 DEF GoInv, partVars
<1>9. CountInv'
  <2>1. PICK F \in SUBSET Parts : Finished(F) BY DEF CountInv
  <2>2. Finished(F)' BY <1>1, <1>2, <2>1 DEF Finished, serverVars, partVars
  <2> QED BY <2>2 DEF CountInv
<1>10. EofInv' BY <1>1 DEF EofInv, serverVars
<1> QED BY <1>4, <1>5, <1>7, <1>8, <1>9, <1>10

\* The launcher reads a part's result and tells the server.
LEMMA InvCollect ==
  ASSUME Inv, NEW p \in Parts, Collect(p)
  PROVE  Inv'
<1> USE DEF Inv
<1> DEFINE c == IF result[p] = "PASS" THEN "sfin" ELSE "stop"
           r == Request(c, p, None, None)
<1>1. /\ pc[p] = "returned" /\ p \notin collected /\ collected' = collected \cup {p}
      /\ UNCHANGED <<serverVars, reply, partVars>>
      /\ launcher = "collect" /\ Tells(c, p, UNCHANGED <<launcher, final>>)
  BY DEF Collect
<1>2. /\ launcher' \in {launcher, "done"} /\ final' \in {final, "UNRESOLVED"}
      /\ syncserv_running' \in BOOLEAN
      /\ UNCHANGED queue \/ queue' = Append(queue, r)
  BY <1>1 DEF Tells, Send, TypeOK
<1>3. r \in Requests /\ r.cmd = c /\ r.from = p
  BY DEF Request, Requests, Commands
<1> HIDE DEF r
<1>4. queue' \in Seq(Requests)
  <2>1. CASE UNCHANGED queue BY <2>1 DEF TypeOK
  <2>2. CASE queue' = Append(queue, r) BY <1>3, <2>2, QueueAppend
  <2> QED BY <1>2, <2>1, <2>2
<1>5. TypeOK' BY <1>1, <1>2, <1>4, CodeTypes DEF TypeOK, serverVars, partVars
<1>6. PartInv' BY <1>1 DEF PartInv, partVars
<1>7. CASE UNCHANGED queue BY <1>1, <1>5, <1>6, <1>7, LauncherKeepsInv DEF partVars
<1>8. CASE queue' = Append(queue, r)
  <2>1. Reports(r) BY <1>1, <1>3, <1>8 DEF Reports
  <2> QED BY <1>3, <1>5, <1>6, <2>1, ReportKeepsInv
<1> QED BY <1>2, <1>7, <1>8

\* All results are in: the launcher stops the server.
LEMMA InvFinish ==
  ASSUME Inv, Finish
  PROVE  Inv'
<1> USE DEF Inv
<1> DEFINE r == Request("stop", None, None, None)
           res == final_result({result[p] : p \in collected})
<1>1. /\ UNCHANGED <<serverVars, reply, partVars, collected>>
      /\ Tells("stop", None, launcher' = "done" /\ final' = res)
  BY DEF Finish
<1>2. res \in StfCodes BY FinalResult DEF StfCodes
<1>3. /\ launcher' = "done" /\ final' \in {res, "UNRESOLVED"}
      /\ syncserv_running' \in BOOLEAN
      /\ UNCHANGED queue \/ queue' = Append(queue, r)
  BY <1>1 DEF Tells, Send, TypeOK
<1>4. r \in Requests /\ r.cmd = "stop" /\ r.from = None
  BY DEF Request, Requests, Commands
<1> HIDE DEF r, res
<1>5. queue' \in Seq(Requests)
  <2>1. CASE UNCHANGED queue BY <2>1 DEF TypeOK
  <2>2. CASE queue' = Append(queue, r) BY <1>4, <2>2, QueueAppend
  <2> QED BY <1>3, <2>1, <2>2
<1>6. TypeOK' BY <1>1, <1>2, <1>3, <1>5, CodeTypes DEF TypeOK, serverVars, partVars
<1>7. PartInv' BY <1>1 DEF PartInv, partVars
<1>8. CASE UNCHANGED queue BY <1>1, <1>6, <1>7, <1>8, LauncherKeepsInv DEF partVars
<1>9. CASE queue' = Append(queue, r)
  <2>1. Reports(r) BY <1>1, <1>4, <1>9, ListTypes DEF Reports
  <2> QED BY <1>4, <1>6, <1>7, <2>1, ReportKeepsInv
<1> QED BY <1>3, <1>8, <1>9
-----------------------------------------------------------------------------
(* The theorems.                                                           *)

\* The invariant holds when the server has printed READY.
LEMMA InvInit ==
  ASSUME Init
  PROVE  Inv
<1> USE PartsAssumption, BoundAssumption DEF Init
<1>1. Cardinality(Parts) \in Nat BY FS_CardinalityType
<1>2. DOMAIN queue = {} BY DEF Init
<1>3. TypeOK BY <1>1 DEF TypeOK
<1>4. PartInv BY DEF PartInv
<1>5. QueueInv /\ QueueOrder BY <1>2 DEF QueueInv, QueueOrder
<1>6. ListInv BY DEF ListInv
<1>7. GoInv /\ EofInv BY DEF GoInv, EofInv
<1>8. CountInv
  <2>1. Parts \ {} = Parts OBVIOUS
  <2>2. Finished({}) BY <1>2, <2>1 DEF Finished
  <2> QED BY <2>2 DEF CountInv
<1> QED BY <1>3, <1>4, <1>5, <1>6, <1>7, <1>8 DEF Inv

\* Every step keeps the invariant.
LEMMA InvNext ==
  ASSUME Inv, [Next]_vars
  PROVE  Inv'
<1>1. CASE Server
  BY <1>1, InvGetV, InvSetV, InvSyncInStep, InvSyncOutOfStep, InvSfin, InvStop, InvInvalidCommand,
     InvServerExits DEF Server
<1>2. CASE Launcher
  BY <1>2, InvFinish, InvLaunch, InvCollect DEF Launcher
<1>3. CASE Mishap
  BY <1>3, InvGivesUp, InvKill, InvInterrupted DEF Mishap
<1>4. ASSUME NEW p \in Parts, Part(p) PROVE Inv'
  BY <1>4, InvSync, InvGetVar, InvSetVar, InvCallFails, InvSyncReturns, InvGetReturns, InvReturn DEF Part
<1>5. CASE UNCHANGED vars
  <2>1. /\ UNCHANGED <<serverVars, queue, reply, at, result, pc, collected>>
        /\ UNCHANGED <<partVars, launchVars>>
    BY <1>5 DEF vars, partVars, launchVars
  <2>2. TypeOK' BY <2>1 DEF Inv, TypeOK, serverVars, partVars, launchVars
  <2>3. PartInv' BY <2>1 DEF Inv, PartInv
  <2> QED BY <2>1, <2>2, <2>3, LauncherKeepsInv
<1> QED BY <1>1, <1>2, <1>3, <1>4, <1>5 DEF Next

\* The invariant holds in every behaviour.
THEOREM Invariance == Spec => []Inv
BY InvInit, InvNext, PTL DEF Spec

\* The types of the three programs' variables (mstf_syncserv, the library, and
\* mstf_launch); above all, the count of unfinished parts stays within bounds.
THEOREM TypeCorrect == Spec => []TypeOK
<1>1. Inv => TypeOK BY DEF Inv
<1> QED BY <1>1, Invariance, PTL

\* When the server handles a part's sync, it has handled the part's setv
\* requests, and nothing of the part is on its way until it is released.
THEOREM SetsBeforeSync == Spec => []SetBeforeSync
<1>1. Inv => SetBeforeSync
  BY DEF Inv, ListInv, GoInv, Quiet, SetBeforeSync
<1> QED BY <1>1, Invariance, PTL

\* Only getv and setv change what is known of a variable and who waits for it.
LEMMA WaitingChanges ==
  ASSUME [Next]_vars
  PROVE  GetV \/ SetV \/ UNCHANGED <<shared_vars, waiting>>
<1>1. CASE Server
  BY <1>1 DEF Server, SyncInStep, SyncOutOfStep, Sfin, Stop, InvalidCommand, ServerExits
<1>2. CASE Launcher
  BY <1>2 DEF Launcher, Finish, Launch, Collect, serverVars
<1>3. CASE Mishap
  BY <1>3 DEF Mishap, LaunchFails, Kill, LaunchEof, Interrupted, serverVars
<1>4. CASE \E p \in Parts : Part(p)
  BY <1>4 DEF Part, Sync, GetVar, SetVar, CallFails, SyncReturns, GetReturns, Return, serverVars
<1>5. CASE UNCHANGED vars
  BY <1>5 DEF vars, serverVars
<1> QED BY <1>1, <1>2, <1>3, <1>4, <1>5 DEF Next

\* mstf_getvar loses no wakeup: when the server has a value for a variable, it
\* has answered every part that waited for it.
THEOREM SetsAreAnswered == Spec => []SetIsAnswered
<1>1. Init => SetIsAnswered BY DEF Init, SetIsAnswered
<1>2. ASSUME Inv, SetIsAnswered, [Next]_vars PROVE SetIsAnswered'
  <2>1. CASE GetV
    <3>1. Head(queue).arg \in Vars
      BY <2>1, HeadOK, <1>2 DEF GetV, Handles, RequestOK
    <3> QED BY <1>2, <2>1, <3>1 DEF GetV, SetIsAnswered, Inv, TypeOK
  <2>2. CASE SetV
    <3>1. Head(queue).arg \in Vars
      BY <2>2, HeadOK, <1>2 DEF SetV, Handles, RequestOK
    <3> QED BY <1>2, <2>2, <3>1 DEF SetV, SetIsAnswered, Inv, TypeOK
  <2>3. CASE UNCHANGED <<shared_vars, waiting>>
    BY <1>2, <2>3 DEF SetIsAnswered
  <2> QED BY <1>2, <2>1, <2>2, <2>3, WaitingChanges
<1> QED BY <1>1, <1>2, Invariance, PTL DEF Spec

\* P is released only if it holds all parts but those that have passed.
LEMMA ReleaseIsBarrier ==
  ASSUME Inv, CountInv', UNCHANGED partVars,
         NEW P \in SUBSET Parts, NEW n, NEW label, ReleaseIfAll(P, n, label),
         \A q \in P : Waits(q, "sync") /\ at[q] = label,
         NEW p \in Parts, reply'[p] = "go", reply[p] # "go"
  PROVE  \A q \in Parts : (reply'[q] = "go" /\ at[q] = at[p]) \/ result[q] = "PASS"
<1>1. /\ Cardinality(P) = n /\ num_parts' = n /\ p \in P
      /\ \A q \in P : reply'[q] = "go"
  BY DEF ReleaseIfAll, Tell
<1>2. PICK F \in SUBSET Parts : Finished(F)' BY DEF CountInv
<1>3. \A q \in F : result[q] = "PASS" BY <1>2 DEF Finished, partVars
<1>4. P \subseteq Parts \ F BY <1>3, ListTypes DEF Inv, Waits
<1>5. Cardinality(P) = Cardinality(Parts \ F) BY <1>1, <1>2 DEF Finished
<1>6. IsFiniteSet(Parts \ F) BY PartsAssumption, FS_Subset
<1>7. P = Parts \ F BY <1>4, <1>5, <1>6, FS_Subset
<1> QED BY <1>1, <1>3, <1>7

\* "go" is said in sync and sfin only.
LEMMA WhoSaysGo ==
  ASSUME Inv, [Next]_vars, NEW p \in Parts, reply'[p] = "go", reply[p] # "go"
  PROVE  SyncInStep \/ Sfin
<1> USE DEF Inv
<1>1. ASSUME NEW P, NEW x, Tell(P, x), x # "go" PROVE FALSE
  BY <1>1 DEF Tell
<1>2. CASE GetV
  <2>1. Head(queue).arg \in Vars BY <1>2, HeadOK DEF GetV, Handles, RequestOK
  <2>2. shared_vars[Head(queue).arg] # "go" BY <2>1, PartsAssumption DEF TypeOK
  <2> QED BY <1>1, <1>2, <2>2 DEF GetV
<1>3. CASE SetV
  <2>1. Head(queue).val \in Values BY <1>3, HeadOK DEF SetV, Handles, RequestOK
  <2>2. BeforeEq[Head(queue).val] # "go" BY <2>1, ValueAssumption, PartsAssumption
  <2> QED BY <1>1, <1>3, <2>2 DEF SetV
<1>4. CASE SyncOutOfStep \/ InvalidCommand
  BY <1>1, <1>4 DEF SyncOutOfStep, InvalidCommand
<1>5. CASE Stop \/ ServerExits
  BY <1>5 DEF Stop, ServerExits
<1>6. CASE Launcher
  BY <1>6 DEF Launcher, Finish, Launch, Collect
<1>7. CASE Mishap
  BY <1>7 DEF Mishap, LaunchFails, Kill, LaunchEof, Interrupted
<1>8. ASSUME NEW q \in Parts, Part(q) PROVE FALSE
  <2>1. reply' = [reply EXCEPT ![q] = None] \/ UNCHANGED reply
    BY <1>8 DEF Part, Sync, GetVar, SetVar, CallFails, SyncReturns, GetReturns, ReadEnds, Return
  <2> QED BY <2>1, ListTypes DEF TypeOK
<1>9. CASE UNCHANGED vars
  BY <1>9 DEF vars
<1> QED BY <1>2, <1>3, <1>4, <1>5, <1>6, <1>7, <1>8, <1>9 DEF Next, Server

\* mstf_sync is a barrier: "go" is said to all parts at once, at one label,
\* except to those whose scripts have returned STF_PASS.
THEOREM SyncIsBarrier == Spec => BarrierStep
<1>1. ASSUME Inv, [Next]_vars, NEW p \in Parts, reply'[p] = "go", reply[p] # "go"
      PROVE  \A q \in Parts : (reply'[q] = "go" /\ at[q] = at[p]) \/ result[q] = "PASS"
  <2> USE <1>1
  <2>1. CountInv' BY InvNext DEF Inv
  <2>2. CASE SyncInStep
    <3> DEFINE r == Head(queue)
    <3>1. /\ server = "listening" /\ queue # <<>> /\ r.cmd = "sync" /\ queue' = Tail(queue)
          /\ target_label \in {r.arg, None} /\ UNCHANGED partVars
          /\ ReleaseIfAll(open_list \cup {r.from}, num_parts, r.arg)
      BY <2>2 DEF SyncInStep, Handles
    <3>2. r.from \in Parts /\ at[r.from] = r.arg /\ Waits(r.from, "sync")
      BY <3>1, HeadOK DEF RequestOK
    <3>3. /\ open_list \cup {r.from} \in SUBSET Parts
          /\ \A q \in open_list \cup {r.from} : Waits(q, "sync") /\ at[q] = r.arg
      BY <3>1, <3>2, ListTypes DEF Inv, ListInv
    <3> HIDE DEF r
    <3> QED BY <2>1, <3>1, <3>3, ReleaseIsBarrier
  <2>3. CASE Sfin
    <3>1. /\ server = "listening" /\ UNCHANGED partVars
          /\ ReleaseIfAll(open_list, num_parts - 1, target_label)
      BY <2>3 DEF Sfin, Handles
    <3>2. open_list \in SUBSET Parts /\ \A q \in open_list : Waits(q, "sync") /\ at[q] = target_label
      BY <3>1, ListTypes DEF Inv, ListInv
    <3> QED BY <2>1, <3>1, <3>2, ReleaseIsBarrier
  <2> QED BY <2>2, <2>3, WhoSaysGo
<1>2. Inv /\ [Next]_vars =>
        [\A p \in Parts : reply'[p] = "go" /\ reply[p] # "go" =>
           \A q \in Parts : \/ reply'[q] = "go" /\ at[q] = at[p]
                            \/ result[q] = "PASS"]_vars
  BY <1>1
<1> QED BY <1>2, Invariance, PTL DEF Spec, BarrierStep

\* The launcher's verdict, once it is one, is that of all parts.
VerdictInv ==
  final \notin {None, "UNRESOLVED", "UNINITIATED"} =>
    collected = Parts /\ final = final_result({result[p] : p \in Parts})

\* A part that has been collected keeps its result.
LEMMA CollectedKeep ==
  ASSUME Inv, [Next]_vars
  PROVE  \A p \in collected : p \in collected' /\ result'[p] = result[p]
<1> USE DEF Inv
<1>1. CASE Server
  BY <1>1 DEF Server, GetV, SetV, SyncInStep, SyncOutOfStep, Sfin, Stop, InvalidCommand, ServerExits,
              Handles, partVars, launchVars
<1>2. CASE Launcher
  BY <1>2 DEF Launcher, Finish, Launch, Collect, partVars
<1>3. CASE Mishap
  BY <1>3, ListTypes DEF Mishap, LaunchFails, Kill, LaunchEof, Interrupted, partVars, launchVars, PartInv, TypeOK
<1>4. ASSUME NEW q \in Parts, Part(q) PROVE \A p \in collected : p \in collected' /\ result'[p] = result[p]
  <2>1. UNCHANGED launchVars /\ pc[q] # "returned"
        /\ (UNCHANGED result \/ \E x : result' = [result EXCEPT ![q] = x])
    BY <1>4 DEF Part, Sync, GetVar, SetVar, CallFails, SyncReturns, GetReturns, Return, Begin, Wait,
                Succeed, Error
  <2> QED BY <2>1, ListTypes DEF PartInv, TypeOK, launchVars
<1>5. CASE UNCHANGED vars
  BY <1>5 DEF vars, partVars, launchVars
<1> QED BY <1>1, <1>2, <1>3, <1>4, <1>5 DEF Next

\* The final result changes when the launcher gives up or finishes.
LEMMA FinalChanges ==
  ASSUME Inv, [Next]_vars
  PROVE  \/ final' \in {final, "UNRESOLVED", "UNINITIATED"}
         \/ collected' = Parts /\ final' = final_result({result'[p] : p \in Parts})
<1>1. CASE Server
  BY <1>1 DEF Server, GetV, SetV, SyncInStep, SyncOutOfStep, Sfin, Stop, InvalidCommand, ServerExits,
              Handles, launchVars
<1>2. CASE Finish
  BY <1>2 DEF Finish, Tells, partVars
<1>3. CASE \E p \in Parts : Launch(p) \/ Collect(p)
  BY <1>3 DEF Launch, Collect, Tells
<1>4. CASE Mishap
  BY <1>4 DEF Mishap, LaunchFails, Kill, LaunchEof, Interrupted, launchVars
<1>5. CASE \E p \in Parts : Part(p)
  BY <1>5 DEF Part, Sync, GetVar, SetVar, CallFails, SyncReturns, GetReturns, Return, launchVars
<1>6. CASE UNCHANGED vars
  BY <1>6 DEF vars, launchVars
<1> QED BY <1>1, <1>2, <1>3, <1>4, <1>5, <1>6 DEF Next, Launcher

\* mstf_launch's verdict: when it has not given up, every part has returned, and
\* none with a result of higher precedence.
THEOREM VerdictHolds == Spec => []VerdictCoversAll
<1>1. Init => VerdictInv BY DEF Init, VerdictInv
<1>2. ASSUME Inv, VerdictInv, [Next]_vars PROVE VerdictInv'
  <2>1. CASE final' \in {final, "UNRESOLVED", "UNINITIATED"}
    <3> SUFFICES ASSUME final' \notin {None, "UNRESOLVED", "UNINITIATED"}
                 PROVE  collected' = Parts /\ final' = final_result({result'[p] : p \in Parts})
      BY DEF VerdictInv
    <3>1. final' = final /\ collected = Parts /\ final = final_result({result[p] : p \in Parts})
      BY <1>2, <2>1 DEF VerdictInv
    <3>2. TypeOK' BY <1>2, InvNext DEF Inv
    <3>3. collected' = Parts /\ \A p \in Parts : result'[p] = result[p]
      BY <1>2, <3>1, <3>2, CollectedKeep DEF TypeOK
    <3>4. {result'[p] : p \in Parts} = {result[p] : p \in Parts} BY <3>3
    <3> QED BY <3>1, <3>3, <3>4
  <2>2. CASE collected' = Parts /\ final' = final_result({result'[p] : p \in Parts})
    BY <2>2 DEF VerdictInv
  <2> QED BY <1>2, <2>1, <2>2, FinalChanges
<1>3. ASSUME Inv, VerdictInv PROVE VerdictCoversAll
  <2> SUFFICES ASSUME final \notin {None, "UNRESOLVED", "UNINITIATED"}, NEW p \in Parts
               PROVE  result[p] # None /\ final_result({result[p], final}) = final
    BY DEF VerdictCoversAll
  <2> DEFINE code(x) == IF x \in StfCodes THEN x ELSE "OTHER"
  <2>1. collected = Parts /\ final = final_result({result[q] : q \in Parts})
    BY <1>3 DEF VerdictInv
  <2>2. result[p] # None BY <1>3, <2>1 DEF Inv, PartInv
  <2>3. PICK k \in DOMAIN result_prec :
          /\ final = result_prec[k]
          /\ \A i \in DOMAIN result_prec : result_prec[i] = code(result[p]) => i <= k
    BY <2>1, FinalResult
  <2>4. PICK m \in DOMAIN result_prec :
          /\ final_result({result[p], final}) = result_prec[m]
          /\ m = 1 \/ result_prec[m] = code(result[p]) \/ result_prec[m] = code(final)
          /\ \A i \in DOMAIN result_prec : result_prec[i] = code(final) => i <= m
    BY FinalResult
  <2>5. code(final) = result_prec[k] BY <2>3 DEF StfCodes
  <2>6. DOMAIN result_prec = 1 .. 11 BY DEF result_prec
  <2>7. k <= m BY <2>4, <2>5
  <2>8. m <= k \/ result_prec[m] = result_prec[k]
    BY <2>3, <2>4, <2>5, <2>6
  <2> QED BY <2>2, <2>3, <2>4, <2>6, <2>7, <2>8
<1> QED BY <1>1, <1>2, <1>3, Invariance, PTL DEF Spec
-----------------------------------------------------------------------------
(* End of file at a synchronization point.                                 *)

\* No result tells of a failure, and some result is still to be read.
Unfailed == collected # Parts /\ \A q \in collected : result[q] = "PASS"

\* p's sync is on its way to the server.
SyncSent(p) == \E i \in DOMAIN queue : queue[i].cmd = "sync" /\ queue[i].from = p

\* Until a failure is known nobody stops the server, so that a part at a
\* synchronization point is answered by the server or has its request reset.
HeldInv ==
  Unfailed =>
    /\ \A i \in DOMAIN queue : queue[i].cmd # "stop"
    /\ \A p \in Parts : pc[p] = "sync" =>
         /\ reply[p] # "eof"
         /\ reply[p] = None => SyncSent(p) \/ (server = "listening" /\ p \in open_list)

\* A request behind the first one stays in the queue.
LEMMA TailKeeps ==
  ASSUME TypeOK, queue # <<>>, queue' = Tail(queue), NEW i \in DOMAIN queue, i # 1
  PROVE  i - 1 \in DOMAIN queue' /\ queue'[i - 1] = queue[i]
BY DEF TypeOK

\* A failure, once known, remains so.
LEMMA UnfailedBefore ==
  ASSUME Inv, [Next]_vars, Unfailed'
  PROVE  Unfailed
<1>1. TypeOK' BY InvNext DEF Inv
<1> QED BY <1>1, CollectedKeep DEF Unfailed, TypeOK

\* A step of another program than the server: requests are only added, and
\* a part that comes to wait in mstf_sync has sent its request.
LEMMA HeldOutside ==
  ASSUME Inv, HeldInv, Unfailed, NEW r \in Requests, r.cmd # "stop",
         queue' = queue \/ queue' = Append(queue, r),
         UNCHANGED <<server, open_list>>,
         \A p \in Parts : pc'[p] = "sync" =>
           \/ pc[p] = "sync" /\ reply'[p] = reply[p]
           \/ queue' = Append(queue, r) /\ r.cmd = "sync" /\ r.from = p /\ reply'[p] = None
  PROVE  HeldInv'
<1>0. TypeOK BY DEF Inv
<1>1. \A i \in DOMAIN queue : i \in DOMAIN queue' /\ queue'[i] = queue[i]
  <2>1. CASE queue' = queue BY <2>1
  <2>2. CASE queue' = Append(queue, r) BY <1>0, <2>2 DEF TypeOK
  <2> QED BY <2>1, <2>2
<1>2. queue' = Append(queue, r) =>
        Len(queue) + 1 \in DOMAIN queue' /\ queue'[Len(queue) + 1] = r
  BY <1>0 DEF TypeOK
<1>3. \A i \in DOMAIN queue' : queue'[i].cmd # "stop"
  BY <1>0, QueueAppend DEF HeldInv
<1>4. ASSUME NEW p \in Parts, pc'[p] = "sync"
      PROVE  /\ reply'[p] # "eof"
             /\ reply'[p] = None => SyncSent(p)' \/ (server' = "listening" /\ p \in open_list')
  <2>1. CASE pc[p] = "sync" /\ reply'[p] = reply[p]
    <3>1. SyncSent(p) => SyncSent(p)' BY <1>1 DEF SyncSent
    <3> QED BY <2>1, <3>1 DEF HeldInv
  <2>2. CASE queue' = Append(queue, r) /\ r.cmd = "sync" /\ r.from = p /\ reply'[p] = None
    <3>1. SyncSent(p)' BY <1>2, <2>2 DEF SyncSent
    <3>2. reply'[p] # "eof" BY <2>2, PartsAssumption
    <3> QED BY <3>1, <3>2
  <2> QED BY <1>4, <2>1, <2>2
<1> QED BY <1>3, <1>4 DEF HeldInv

\* A handler's step: the first request has been taken; whoever it answers gets
\* an answer, and a part stays on the list, comes to it, or is answered.
LEMMA HeldHandler ==
  ASSUME Inv, HeldInv, Unfailed, NEW c, Handles(c),
         \A p \in Parts : reply'[p] = reply[p] \/ reply'[p] \notin {"eof", None},
         \A p \in Parts :
           /\ pc[p] = "sync" /\ reply'[p] = None
           /\ p \in open_list \/ (c = "sync" /\ p = Head(queue).from)
           => server' = "listening" /\ p \in open_list'
  PROVE  HeldInv'
<1>0. TypeOK /\ queue # <<>> /\ queue' = Tail(queue) /\ Head(queue).cmd = c /\ pc' = pc
  BY DEF Inv, Handles, partVars
<1>1. \A i \in DOMAIN queue' : queue'[i].cmd # "stop"
  BY <1>0, QueueTail DEF HeldInv
<1>2. ASSUME NEW p \in Parts, pc'[p] = "sync", reply'[p] = None
      PROVE  SyncSent(p)' \/ (server' = "listening" /\ p \in open_list')
  <2>1. pc[p] = "sync" /\ reply[p] = None BY <1>0, <1>2
  <2>2. CASE server = "listening" /\ p \in open_list
    BY <1>2, <2>1, <2>2
  <2>3. ASSUME NEW i \in DOMAIN queue, queue[i].cmd = "sync", queue[i].from = p
        PROVE  SyncSent(p)' \/ (server' = "listening" /\ p \in open_list')
    <3>1. CASE i = 1
      <4>1. c = "sync" /\ p = Head(queue).from BY <1>0, <2>3, <3>1, QueueTail
      <4> QED BY <1>2, <2>1, <4>1
    <3>2. CASE i # 1
      <4>1. i - 1 \in DOMAIN queue' /\ queue'[i - 1] = queue[i] BY <1>0, <3>2, TailKeeps
      <4> QED BY <2>3, <4>1 DEF SyncSent
    <3> QED BY <3>1, <3>2
  <2> QED BY <2>1, <2>2, <2>3 DEF HeldInv, SyncSent
<1>3. ASSUME NEW p \in Parts, pc'[p] = "sync" PROVE reply'[p] # "eof"
  BY <1>0, <1>3 DEF HeldInv
<1> QED BY <1>1, <1>2, <1>3 DEF HeldInv

\* What the handlers do to the parts in mstf_sync.
LEMMA HeldServer ==
  ASSUME Inv, HeldInv, Unfailed, Server
  PROVE  HeldInv'
<1> USE DEF Inv
<1>0. /\ \A p \in Parts : reply[p] # None => reply[p] \in {"go", "failed", "eof", "reset"} \cup Values
      /\ None \notin {"go", "failed"} \cup Values /\ "eof" \notin {"go", "failed"} \cup Values
  BY PartsAssumption DEF TypeOK
<1>1. ASSUME NEW P, NEW x, Tell(P, x), x \notin {"eof", None}
      PROVE  \A p \in Parts : /\ reply'[p] = reply[p] \/ reply'[p] \notin {"eof", None}
                              /\ p \in P => reply'[p] # None
  BY <1>1 DEF Tell
<1>2. CASE GetV
  <2>1. Head(queue).arg \in Vars BY <1>2, HeadOK DEF GetV, Handles, RequestOK
  <2>2. shared_vars[Head(queue).arg] # "eof" BY <2>1, PartsAssumption DEF TypeOK
  <2>3. \A p \in Parts : reply'[p] = reply[p] \/ reply'[p] \notin {"eof", None}
    BY <1>1, <1>2, <2>2 DEF GetV
  <2> QED BY <1>2, <2>3, HeldHandler DEF GetV, Handles
<1>3. CASE SetV
  <2>1. Head(queue).val \in Values BY <1>3, HeadOK DEF SetV, Handles, RequestOK
  <2>2. BeforeEq[Head(queue).val] \notin {"eof", None} BY <1>0, <2>1, ValueAssumption
  <2>3. \A p \in Parts : reply'[p] = reply[p] \/ reply'[p] \notin {"eof", None}
    BY <1>1, <1>3, <2>2 DEF SetV
  <2> QED BY <1>3, <2>3, HeldHandler DEF SetV, Handles
<1>4. CASE SyncInStep
  <2> DEFINE P == open_list \cup {Head(queue).from}
  <2>1. Handles("sync") /\ UNCHANGED server /\ server = "listening" BY <1>4 DEF SyncInStep, Handles
  <2>2. (Tell(P, "go") \/ (open_list' = P /\ UNCHANGED reply)) BY <1>4 DEF SyncInStep, ReleaseIfAll
  <2>3. \A p \in Parts : reply'[p] = reply[p] \/ reply'[p] \notin {"eof", None} BY <1>0, <1>1, <2>2
  <2>4. \A p \in Parts : p \in P => reply'[p] # None \/ p \in open_list' BY <1>0, <1>1, <2>2
  <2> QED BY <2>1, <2>3, <2>4, HeldHandler
<1>5. CASE SyncOutOfStep
  <2> DEFINE P == open_list \cup {Head(queue).from}
  <2>1. Handles("sync") /\ Tell(P, "failed") BY <1>5 DEF SyncOutOfStep
  <2>2. \A p \in Parts : /\ reply'[p] = reply[p] \/ reply'[p] \notin {"eof", None}
                         /\ p \in P => reply'[p] # None
    BY <1>0, <1>1, <2>1
  <2> QED BY <2>1, <2>2, HeldHandler
<1>6. CASE Sfin
  <2>1. Handles("sfin") /\ UNCHANGED server /\ server = "listening" BY <1>6 DEF Sfin, Handles
  <2>2. Tell(open_list, "go") \/ UNCHANGED <<open_list, reply>> BY <1>6 DEF Sfin, ReleaseIfAll
  <2>3. \A p \in Parts : /\ reply'[p] = reply[p] \/ reply'[p] \notin {"eof", None}
                         /\ p \in open_list => reply'[p] # None \/ p \in open_list'
    BY <1>0, <1>1, <2>2
  <2> QED BY <2>1, <2>3, HeldHandler
<1>7. CASE Stop
  <2>1. 1 \in DOMAIN queue /\ queue[1].cmd = "stop" BY <1>7, QueueTail DEF Stop, Handles
  <2> QED BY <2>1 DEF HeldInv
<1>8. CASE InvalidCommand
  <2>1. Handles("") /\ Tell(open_list, "failed") BY <1>8 DEF InvalidCommand
  <2>2. \A p \in Parts : /\ reply'[p] = reply[p] \/ reply'[p] \notin {"eof", None}
                         /\ p \in open_list => reply'[p] # None
    BY <1>0, <1>1, <2>1
  <2> QED BY <2>1, <2>2, HeldHandler
<1>9. CASE ServerExits
  <2>1. queue' = <<>> /\ server = "exiting" /\ pc' = pc BY <1>9 DEF ServerExits, partVars
  <2>2. ASSUME NEW p \in Parts, pc'[p] = "sync" PROVE reply'[p] \notin {"eof", None}
    <3>1. CASE reply[p] # None BY <1>9, <2>1, <2>2, <3>1 DEF ServerExits, HeldInv
    <3>2. CASE reply[p] = None
      <4>1. p \in {queue[i].from : i \in DOMAIN queue} BY <2>1, <2>2, <3>2 DEF HeldInv, SyncSent
      <4>2. reply'[p] = "reset" BY <1>9, <2>1, <2>2, <3>2, <4>1 DEF ServerExits
      <4> QED BY <4>2, PartsAssumption
    <3> QED BY <3>1, <3>2
  <2> QED BY <2>1, <2>2 DEF HeldInv
<1> QED BY <1>2, <1>3, <1>4, <1>5, <1>6, <1>7, <1>8, <1>9 DEF Server

\* What the parts, the launcher and mishaps do to the parts in mstf_sync.
LEMMA HeldElsewhere ==
  ASSUME Inv, HeldInv, Unfailed, Unfailed', Launcher \/ Mishap \/ \E p \in Parts : Part(p)
  PROVE  HeldInv'
<1> USE DEF Inv
<1> DEFINE none == Request("", None, None, None)
<1>0. none \in Requests /\ none.cmd = ""
  BY DEF Request, Requests, Commands
<1> HIDE DEF none
<1>1. ASSUME UNCHANGED <<queue, server, open_list>>, NEW q \in Parts,
             \A p \in Parts \ {q} : pc'[p] = pc[p] /\ reply'[p] = reply[p],
             pc'[q] # "sync" \/ (pc'[q] = pc[q] /\ reply'[q] = reply[q])
      PROVE  HeldInv'
  <2>1. \A p \in Parts : pc'[p] = "sync" => pc[p] = "sync" /\ reply'[p] = reply[p]
    BY <1>1
  <2> QED BY <1>0, <1>1, <2>1, HeldOutside
<1>2. ASSUME NEW q \in Parts, NEW l \in SyncLabels, Sync(q, l) PROVE HeldInv'
  <2> DEFINE r == Request("sync", q, l, None)
  <2>1. r \in Requests /\ r.cmd = "sync" /\ r.from = q BY DEF Request, Requests, Commands
  <2>2. /\ pc[q] = "running" /\ pc' = [pc EXCEPT ![q] = "sync"] /\ queue' = Append(queue, r)
        /\ UNCHANGED <<server, open_list, reply>>
    BY <1>2 DEF Sync, Begin, Send, Wait, serverVars
  <2> HIDE DEF r
  <2>3. reply'[q] = None BY <2>2 DEF PartInv
  <2> QED BY <2>1, <2>2, <2>3, HeldOutside DEF TypeOK
<1>3. ASSUME NEW q \in Parts, NEW v \in Vars, GetVar(q, v) PROVE HeldInv'
  <2> DEFINE r == Request("getv", q, v, None)
  <2>1. r \in Requests /\ r.cmd = "getv" BY DEF Request, Requests, Commands
  <2>2. /\ pc' = [pc EXCEPT ![q] = "getv"] /\ queue' = Append(queue, r)
        /\ UNCHANGED <<server, open_list, reply>>
    BY <1>3 DEF GetVar, Begin, Send, Wait, serverVars
  <2> HIDE DEF r
  <2> QED BY <2>1, <2>2, HeldOutside DEF TypeOK
<1>4. ASSUME NEW q \in Parts, NEW v \in Vars, NEW x \in Values, SetVar(q, v, x) PROVE HeldInv'
  <2> DEFINE r == Request("setv", q, v, x)
  <2>1. r \in Requests /\ r.cmd = "setv" BY DEF Request, Requests, Commands
  <2>2. /\ pc' = [pc EXCEPT ![q] = "running"] /\ queue' = Append(queue, r)
        /\ UNCHANGED <<server, open_list, reply>>
    BY <1>4 DEF SetVar, Begin, Send, Succeed, serverVars
  <2> HIDE DEF r
  <2> QED BY <2>1, <2>2, HeldOutside DEF TypeOK
<1>5. ASSUME NEW q \in Parts, CallFails(q) \/ SyncReturns(q) \/ GetReturns(q) \/ Return(q) PROVE HeldInv'
  <2>1. /\ UNCHANGED <<queue, server, open_list>>
        /\ reply' = [reply EXCEPT ![q] = None] \/ UNCHANGED reply
        /\ pc' = [pc EXCEPT ![q] = "running"] \/ pc' = [pc EXCEPT ![q] = "returned"]
    BY <1>5 DEF CallFails, SyncReturns, GetReturns, Return, ReadEnds, Error, Succeed, serverVars
  <2> QED BY <1>1, <2>1 DEF TypeOK
<1>6. ASSUME NEW q \in Parts, Kill(q) PROVE HeldInv'
  <2> DEFINE r == Request("", q, None, None)
  <2>1. r \in Requests /\ r.cmd = "" BY DEF Request, Requests, Commands
  <2>2. /\ pc' = [pc EXCEPT ![q] = "returned"] /\ (queue' = queue \/ queue' = Append(queue, r))
        /\ UNCHANGED <<server, open_list, reply>>
    BY <1>6 DEF Kill, Send, serverVars
  <2> HIDE DEF r
  <2> QED BY <2>1, <2>2, HeldOutside DEF TypeOK
<1>7. CASE LaunchFails \/ \E p \in Parts : LaunchEof(p) \/ Interrupted(p)
  <2>1. UNCHANGED <<queue, server, open_list, pc, reply>>
    BY <1>7 DEF LaunchFails, LaunchEof, Interrupted, serverVars, partVars
  <2> QED BY <1>0, <2>1, HeldOutside
<1>8. ASSUME NEW q \in Parts, Launch(q) PROVE HeldInv'
  <2>1. pc' = [pc EXCEPT ![q] = "running"] /\ UNCHANGED <<queue, server, open_list, reply>>
    BY <1>8 DEF Launch, serverVars
  <2> QED BY <1>1, <2>1 DEF TypeOK
<1>9. ASSUME NEW q \in Parts, Collect(q) PROVE HeldInv'
  <2> DEFINE r == Request("sfin", q, None, None)
  <2>1. r \in Requests /\ r.cmd = "sfin" BY DEF Request, Requests, Commands
  <2>2. UNCHANGED <<server, open_list, pc, reply, result>> /\ q \in collected'
    BY <1>9 DEF Collect, serverVars, partVars
  <2>3. result[q] = "PASS" BY <2>2 DEF Unfailed
  <2>4. queue' = queue \/ queue' = Append(queue, r) BY <1>9, <2>3 DEF Collect, Tells, Send
  <2> HIDE DEF r
  <2> QED BY <2>1, <2>2, <2>4, HeldOutside
<1>10. CASE Finish BY <1>10 DEF Finish, Unfailed
<1> QED BY <1>2, <1>3, <1>4, <1>5, <1>6, <1>7, <1>8, <1>9, <1>10 DEF Launcher, Mishap, Part

\* A part reads end of file at a synchronization point, where libmstf.c may take
\* it for "go", only in a test that has failed already: mstf_launch has read a
\* result other than STF_PASS.
THEOREM EofAfterFailure == Spec => []EofMeansFailure
<1>1. Init => HeldInv BY DEF Init, HeldInv
<1>2. ASSUME Inv, HeldInv, [Next]_vars PROVE HeldInv'
  <2>1. CASE ~Unfailed' BY <2>1 DEF HeldInv
  <2>2. CASE Unfailed'
    <3>1. Unfailed BY <1>2, <2>2, UnfailedBefore
    <3>2. CASE UNCHANGED vars
      BY <1>2, <3>2 DEF vars, serverVars, partVars, launchVars, HeldInv, Unfailed, SyncSent
    <3> QED BY <1>2, <2>2, <3>1, <3>2, HeldServer, HeldElsewhere DEF Next
  <2> QED BY <2>1, <2>2
<1>3. ASSUME Inv, HeldInv PROVE EofMeansFailure
  BY <1>3 DEF Inv, PartInv, HeldInv, Unfailed, EofMeansFailure
<1> QED BY <1>1, <1>2, <1>3, Invariance, PTL DEF Spec
=============================================================================
