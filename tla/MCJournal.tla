----------------------------- MODULE MCJournal -----------------------------
(* An instance of Journal for model checking.                              *)
EXTENDS Journal

\* A level between two entries of the table.  Results and diagnostics have
\* levels of the table.
SomeLevels == {STACK + 1}

\* TJNL_DETAIL a number that takes in all of these messages, and the word
\* `Assertion', with which not even results are committed.
SomeEnvironment ==
  {[kind |-> "number", value |-> STACK + 1], [kind |-> "word", value |-> Word(1)]}
=============================================================================
