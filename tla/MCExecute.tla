----------------------------- MODULE MCExecute -----------------------------
(* An instance of Execute for model checking: a suite with two directories *)
(* above the start directory, which has two subdirectories, and one of     *)
(* these has one.                                                          *)
EXTENDS Execute

SomeDirs == {"suite", "tests", "start", "one", "two", "deep"}
SomeSubdirs ==
  [d \in SomeDirs |-> CASE d = "suite" -> <<"tests">>
                        [] d = "tests" -> <<"start">>
                        [] d = "start" -> <<"one", "two">>
                        [] d = "one" -> <<"deep">>
                        [] OTHER -> <<>>]
SomeAbove ==
  [d \in SomeDirs |-> CASE d = "suite" -> {}
                        [] d = "tests" -> {"suite"}
                        [] d = "start" -> {"suite", "tests"}
                        [] d \in {"one", "two"} -> {"suite", "tests", "start"}
                        [] d = "deep" -> {"suite", "tests", "start", "one"}]
SomeParents == <<"suite", "tests">>
=============================================================================
