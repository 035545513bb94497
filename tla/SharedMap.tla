------------------------------ MODULE SharedMap ------------------------------
(***************************************************************************)
(* What the hash table promises to threads that look up and insert keys:   *)
(* one map, on which every call takes effect at a single moment between    *)
(* its beginning and its return.  The answer is given at that moment or    *)
(* later.                                                                  *)
(***************************************************************************)
EXTENDS Integers

CONSTANTS Threads, Keys, Data, None

VARIABLES
  map,      \* the data of each key, or None
  phase,    \* "idle", "called", or "decided": has had its effect
  call,     \* the latest call of each thread
  due,      \* the answer it will get, once decided
  answer    \* the answer to its latest finished call

mapVars == <<map, phase, call, due, answer>>

Answer(v, err) == [val |-> v, errno |-> err]
Nothing == Answer(None, "0")

Init ==
  /\ map = [k \in Keys |-> None]
  /\ phase = [t \in Threads |-> "idle"]
  /\ call = [t \in Threads |-> [op |-> None, key |-> None, data |-> None]]
  /\ due = [t \in Threads |-> Nothing]
  /\ answer = [t \in Threads |-> Nothing]

Invoke(t) ==
  /\ phase[t] = "idle"
  /\ phase' = [phase EXCEPT ![t] = "called"]
  /\ \E k \in Keys, d \in Data : \E c \in {[op |-> "locate", key |-> k, data |-> None],
                                          [op |-> "insert", key |-> k, data |-> d]} :
       call' = [call EXCEPT ![t] = c]
  /\ UNCHANGED <<map, due, answer>>

\* The call is decided with answer a, which is given now or later.
Decide(t, a) ==
  /\ phase[t] = "called"
  /\ \/ phase' = [phase EXCEPT ![t] = "decided"]
        /\ due' = [due EXCEPT ![t] = a]
        /\ UNCHANGED answer
     \/ phase' = [phase EXCEPT ![t] = "idle"]
        /\ answer' = [answer EXCEPT ![t] = a]
        /\ UNCHANGED due
  /\ UNCHANGED call

Locate(t) ==
  LET v == map[call[t].key] IN
  /\ call[t].op = "locate"
  /\ Decide(t, Answer(v, IF v = None THEN "ENOENT" ELSE "0"))
  /\ UNCHANGED map

Insert(t) ==
  /\ call[t].op = "insert"
  /\ map[call[t].key] = None
  /\ map' = [map EXCEPT ![call[t].key] = call[t].data]
  /\ Decide(t, Answer(0, "0"))

InsertExisting(t) ==
  /\ call[t].op = "insert"
  /\ map[call[t].key] # None
  /\ Decide(t, Answer(-1, "EEXIST"))
  /\ UNCHANGED map

\* No memory for another entry: errno does not say so.
InsertNoMemory(t) ==
  /\ call[t].op = "insert"
  /\ map[call[t].key] = None
  /\ Decide(t, Answer(-1, "0"))
  /\ UNCHANGED map

GiveAnswer(t) ==
  /\ phase[t] = "decided"
  /\ phase' = [phase EXCEPT ![t] = "idle"]
  /\ answer' = [answer EXCEPT ![t] = due[t]]
  /\ due' = [due EXCEPT ![t] = Nothing]
  /\ UNCHANGED <<map, call>>

Next == \E t \in Threads :
  Invoke(t) \/ Locate(t) \/ Insert(t) \/ InsertExisting(t) \/ InsertNoMemory(t) \/ GiveAnswer(t)

Spec == Init /\ [][Next]_mapVars
=============================================================================
