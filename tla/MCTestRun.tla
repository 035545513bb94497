------------------------------ MODULE MCTestRun ------------------------------
(* TestRun on instances that TLC can enumerate.                            *)
EXTENDS TestRun

\* An exit code and a signal that the uninitialized status may seem to hold.
SomeGarbage == {[code |-> 0, sig |-> 0], [code |-> 0, sig |-> 11], [code |-> 200, sig |-> 0]}
=============================================================================
