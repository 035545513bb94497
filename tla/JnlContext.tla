----------------------------- MODULE JnlContext -----------------------------
(***************************************************************************)
(* stf_jnl_context reads what a test program writes to stdout (pipe 0) and *)
(* stderr (pipe 1) and merges it into the journal.  A line of stdout is    *)
(* kept in a buffer until it is complete; stderr is written at once, and   *)
(* so is a journal entry, which a NUL on pipe 0 begins and a newline ends. *)
(*                                                                         *)
(* A character is its pipe and its position there; what kind it is, text   *)
(* says.  The journal also holds tags and the newlines that are added.     *)
(***************************************************************************)
EXTENDS Integers, Sequences, SequencesExt

CONSTANTS
  MAXCHAR,     \* characters in a line of stdout, and in one read()
  TagLen,      \* length of "stdout| "
  Slack,       \* outbuf has room for MAXCHAR + Slack characters
  MaxChars     \* bound: characters that the program writes

ASSUME SizeAssumption  == MAXCHAR \in Nat \ {0} /\ TagLen \in Nat /\ Slack \in Nat /\ TagLen < Slack
ASSUME BoundAssumption == MaxChars \in Nat

Pipes == {0, 1}
Kinds == {"char", "nl", "nul"}
Chars == [pipe : Pipes, pos : Nat \ {0}]
Extra == [extra : {"stdout", "stderr", "newline", "overflow"}]

Add(x) == <<[extra |-> x]>>

VARIABLES
  text,        \* what the program has written to each pipe
  open,        \* does anybody hold the pipe?
  alive,       \* does the program run?
  count,       \* characters that have been read from each pipe
  interrupted, \* pipes on which a signal ended the final reads
  pc,          \* "poll", "proc", "pipe", "final", "flush", "wait", "done"
  j,           \* the pipe that is looked at
  revents,     \* of each pipe: "in", "hup"
  buf,         \* characters read and not looked at yet
  journal,
  outbuf,      \* characters of stdout kept; if there are any, the tag is before them
  err_tagged,
  jnl_entry,
  cr_needed

progVars == <<text, open, alive>>
loopVars == <<count, interrupted, pc, j, revents, buf>>
outVars  == <<journal, outbuf, err_tagged, jnl_entry, cr_needed>>
vars     == <<progVars, loopVars, outVars>>

TypeOK ==
  /\ text \in [Pipes -> Seq(Kinds)]
  /\ open \in [Pipes -> BOOLEAN]
  /\ alive \in BOOLEAN
  /\ count \in [Pipes -> Nat]
  /\ \A p \in Pipes : count[p] <= Len(text[p])
  /\ interrupted \subseteq Pipes
  /\ pc \in {"poll", "proc", "pipe", "final", "flush", "wait", "done"}
  /\ j \in Pipes
  /\ revents \in [Pipes -> SUBSET {"in", "hup"}]
  /\ buf \in Seq(Chars)
  /\ Len(buf) <= MAXCHAR
  /\ journal \in Seq(Chars \cup Extra)
  /\ outbuf \in Seq(Chars)
  /\ Len(outbuf) < MAXCHAR
  /\ err_tagged \in BOOLEAN /\ jnl_entry \in BOOLEAN /\ cr_needed \in BOOLEAN

Init ==
  /\ text = [p \in Pipes |-> <<>>]
  /\ open = [p \in Pipes |-> TRUE]
  /\ alive = TRUE
  /\ count = [p \in Pipes |-> 0]
  /\ interrupted = {}
  /\ pc = "poll"
  /\ j = 0
  /\ revents = [p \in Pipes |-> {}]
  /\ buf = <<>>
  /\ journal = <<>>
  /\ outbuf = <<>>
  /\ err_tagged = FALSE
  /\ jnl_entry = FALSE
  /\ cr_needed = FALSE
-----------------------------------------------------------------------------
(* The program, and whoever else holds its pipes.                          *)

Write(p, k) ==
  /\ open[p]
  /\ Len(text[0]) + Len(text[1]) < MaxChars
  /\ text' = [text EXCEPT ![p] = Append(@, k)]
  /\ UNCHANGED <<open, alive, loopVars, outVars>>

Close(p) ==
  /\ open[p]
  /\ open' = [open EXCEPT ![p] = FALSE]
  /\ UNCHANGED <<text, alive, loopVars, outVars>>

Exits ==
  /\ alive
  /\ alive' = FALSE
  /\ UNCHANGED <<text, open, loopVars, outVars>>
-----------------------------------------------------------------------------
(* read_pipe, and the final reads in main.                                 *)

Unread(p) == Len(text[p]) - count[p]
Events(p) == (IF Unread(p) > 0 THEN {"in"} ELSE {}) \cup (IF open[p] THEN {} ELSE {"hup"})

\* poll() on the pipes.
PollPipes ==
  /\ pc = "poll"
  /\ \E p \in Pipes : Events(p) # {}
  /\ revents' = [p \in Pipes |-> Events(p)]
  /\ pc' = "pipe"
  /\ j' = 0
  /\ UNCHANGED <<progVars, count, interrupted, buf, outVars>>

\* The pipes are silent.
PollSilent ==
  /\ pc = "poll"
  /\ \A p \in Pipes : Events(p) = {}
  /\ pc' = "proc"
  /\ revents' = [p \in Pipes |-> {}]
  /\ UNCHANGED <<progVars, count, interrupted, j, buf, outVars>>

\* poll() on the program, some time later.
PollProc ==
  /\ pc = "proc"
  /\ pc' = IF alive THEN "poll" ELSE "final"
  /\ j' = 0
  /\ UNCHANGED <<progVars, count, interrupted, revents, buf, outVars>>

\* A poll() fails, as when a signal is caught, or reports an error.
PollError ==
  /\ pc \in {"poll", "proc"}
  /\ pc' = "final"
  /\ j' = 0
  /\ UNCHANGED <<progVars, count, interrupted, revents, buf, outVars>>

\* read() returns some of the characters that are there.
Read(p) ==
  \E n \in 1 .. MAXCHAR :
    /\ n <= Unread(p)
    /\ buf' = [i \in 1 .. n |-> [pipe |-> p, pos |-> count[p] + i]]
    /\ count' = [count EXCEPT ![p] = @ + n]

\* The events of pipe j, which poll() saw some time ago.
PipeIn ==
  /\ pc = "pipe"
  /\ buf = <<>>
  /\ "in" \in revents[j]
  /\ Read(j)
  /\ revents' = [revents EXCEPT ![j] = @ \ {"in"}]
  /\ UNCHANGED <<progVars, interrupted, pc, j, outVars>>

\* Mutant: the end of one pipe is not enough.
PipeHup_Both ==
  /\ pc = "pipe"
  /\ buf = <<>>
  /\ \A p \in Pipes : revents[p] = {"hup"}
  /\ pc' = "final"
  /\ j' = 0
  /\ UNCHANGED <<progVars, count, interrupted, revents, buf, outVars>>

PipeHup ==
  /\ pc = "pipe"
  /\ buf = <<>>
  /\ revents[j] = {"hup"}
  /\ pc' = "final"
  /\ j' = 0
  /\ UNCHANGED <<progVars, count, interrupted, revents, buf, outVars>>

PipeDone ==
  /\ pc = "pipe"
  /\ buf = <<>>
  /\ revents[j] = {}
  /\ IF j = 0 THEN j' = 1 /\ pc' = "pipe" ELSE j' = 0 /\ pc' = "poll"
  /\ UNCHANGED <<progVars, count, interrupted, revents, buf, outVars>>

FinalRead ==
  /\ pc = "final"
  /\ buf = <<>>
  /\ Read(j)
  /\ UNCHANGED <<progVars, interrupted, pc, j, revents, outVars>>

\* End of file.
FinalEnd ==
  /\ pc = "final"
  /\ buf = <<>>
  /\ Unread(j) = 0
  /\ ~open[j]
  /\ IF j = 0 THEN j' = 1 /\ pc' = "final" ELSE j' = 0 /\ pc' = "flush"
  /\ UNCHANGED <<progVars, count, interrupted, revents, buf, outVars>>

\* A read() that waits for characters catches a signal, and fails.
FinalInterrupted ==
  /\ pc = "final"
  /\ buf = <<>>
  /\ Unread(j) = 0
  /\ open[j]
  /\ interrupted' = interrupted \cup {j}
  /\ IF j = 0 THEN j' = 1 /\ pc' = "final" ELSE j' = 0 /\ pc' = "flush"
  /\ UNCHANGED <<progVars, count, revents, buf, outVars>>
-----------------------------------------------------------------------------
(* write_pipe: one character.                                              *)

Kind(c) == text[c.pipe][c.pos]

Takes(c) ==
  /\ buf # <<>>
  /\ c = Head(buf)
  /\ buf' = Tail(buf)
  /\ UNCHANGED <<progVars, count, interrupted, pc, j, revents>>

AddNewline == IF cr_needed THEN Add("newline") ELSE <<>>
StderrTag  == IF err_tagged THEN <<>> ELSE Add("stderr")

\* snprintf() stops at the end of outbuf, which also has room for the NUL.
InBuffer(s) == SubSeq(s, 1, Min({Len(s), MAXCHAR + Slack - TagLen - 1}))

\* case '\0'
JnlEntryBegins(c) ==
  /\ Takes(c)
  /\ Kind(c) = "nul"
  /\ c.pipe = 0
  /\ jnl_entry' = TRUE
  /\ journal' = journal \o AddNewline
  /\ cr_needed' = FALSE
  /\ UNCHANGED <<outbuf, err_tagged>>

StderrNul(c) ==
  /\ Takes(c)
  /\ Kind(c) = "nul"
  /\ c.pipe = 1
  /\ journal' = Append(journal, c)
  /\ cr_needed' = TRUE
  /\ UNCHANGED <<outbuf, err_tagged, jnl_entry>>

\* Any other character of either pipe, while an entry is written.
JnlChar(c) ==
  /\ Takes(c)
  /\ jnl_entry
  /\ Kind(c) # "nul"
  /\ journal' = Append(journal, c)
  /\ jnl_entry' = (Kind(c) # "nl")
  /\ cr_needed' = (cr_needed /\ Kind(c) # "nl")
  /\ UNCHANGED <<outbuf, err_tagged>>

StderrChar(c) ==
  /\ Takes(c)
  /\ ~jnl_entry
  /\ c.pipe = 1
  /\ Kind(c) # "nul"
  /\ journal' = journal \o StderrTag \o <<c>>
  /\ err_tagged' = (Kind(c) # "nl")
  /\ cr_needed' = (Kind(c) # "nl")
  /\ UNCHANGED <<outbuf, jnl_entry>>

StdoutLine(c) ==
  /\ Takes(c)
  /\ ~jnl_entry
  /\ c.pipe = 0
  /\ Kind(c) = "nl"
  /\ journal' = journal \o Add("stdout") \o InBuffer(Append(outbuf, c))
  /\ outbuf' = <<>>
  /\ cr_needed' = FALSE
  /\ UNCHANGED <<err_tagged, jnl_entry>>

\* Mutant: the limit is one too high.
StdoutKept_OffByOne(c) ==
  /\ Takes(c)
  /\ ~jnl_entry
  /\ c.pipe = 0
  /\ Kind(c) = "char"
  /\ Len(outbuf) + 1 <= MAXCHAR
  /\ outbuf' = Append(outbuf, c)
  /\ UNCHANGED <<journal, err_tagged, jnl_entry, cr_needed>>

StdoutKept(c) ==
  /\ Takes(c)
  /\ ~jnl_entry
  /\ c.pipe = 0
  /\ Kind(c) = "char"
  /\ Len(outbuf) + 1 <= MAXCHAR - 1
  /\ outbuf' = Append(outbuf, c)
  /\ UNCHANGED <<journal, err_tagged, jnl_entry, cr_needed>>

\* Mutant: the character that no longer fits goes ahead.
StdoutOverflow_CharFirst(c) ==
  /\ Takes(c)
  /\ ~jnl_entry
  /\ c.pipe = 0
  /\ Kind(c) = "char"
  /\ Len(outbuf) + 1 > MAXCHAR - 1
  /\ journal' = journal \o <<c>> \o Add("overflow")
  /\ UNCHANGED <<outbuf, err_tagged, jnl_entry, cr_needed>>

StdoutOverflow(c) ==
  /\ Takes(c)
  /\ ~jnl_entry
  /\ c.pipe = 0
  /\ Kind(c) = "char"
  /\ Len(outbuf) + 1 > MAXCHAR - 1
  /\ journal' = journal \o Add("stdout") \o InBuffer(Append(outbuf, c)) \o Add("overflow")
  /\ outbuf' = <<>>
  /\ cr_needed' = FALSE
  /\ UNCHANGED <<err_tagged, jnl_entry>>

\* Mutant: the line that the program did not end is left in the buffer.
Flush_KeepsBuffer ==
  /\ pc = "flush"
  /\ pc' = "wait"
  /\ journal' = journal \o AddNewline
  /\ cr_needed' = FALSE
  /\ UNCHANGED <<progVars, count, interrupted, j, revents, buf, outbuf, err_tagged, jnl_entry>>

\* Mutant: nobody thinks of stderr.
Flush_NoNewline ==
  /\ pc = "flush"
  /\ pc' = "wait"
  /\ journal' = journal \o
       IF outbuf # <<>> THEN Add("stdout") \o outbuf \o Add("newline") ELSE <<>>
  /\ outbuf' = <<>>
  /\ cr_needed' = FALSE
  /\ UNCHANGED <<progVars, count, interrupted, j, revents, buf, err_tagged, jnl_entry>>

\* The end of main.
Flush ==
  /\ pc = "flush"
  /\ pc' = "wait"
  /\ journal' = journal \o AddNewline \o
       IF outbuf # <<>> THEN Add("stdout") \o outbuf \o Add("newline") ELSE <<>>
  /\ outbuf' = <<>>
  /\ cr_needed' = FALSE
  /\ UNCHANGED <<progVars, count, interrupted, j, revents, buf, err_tagged, jnl_entry>>

WaitProgram ==
  /\ pc = "wait"
  /\ ~alive
  /\ pc' = "done"
  /\ UNCHANGED <<progVars, count, interrupted, j, revents, buf, outVars>>
-----------------------------------------------------------------------------
Program == Exits \/ \E p \in Pipes : Close(p) \/ \E k \in Kinds : Write(p, k)

write_pipe(c) ==
  \/ JnlEntryBegins(c) \/ StderrNul(c) \/ JnlChar(c) \/ StderrChar(c)
  \/ StdoutLine(c) \/ StdoutKept(c) \/ StdoutOverflow(c)

Context ==
  \/ PollPipes \/ PollSilent \/ PollProc \/ PipeIn \/ PipeHup \/ PipeDone \/ FinalRead \/ FinalEnd
  \/ \E p \in Pipes, i \in 1 .. MaxChars : write_pipe([pipe |-> p, pos |-> i])
  \/ Flush \/ WaitProgram

\* A signal comes, or a poll() reports an error.
Signal == PollError \/ FinalInterrupted

Next == Program \/ Context \/ Signal
Spec == Init /\ [][Next]_vars

\* stf_jnl_context is scheduled; the program need not end.
FairSpec == Spec /\ WF_vars(Context)
-----------------------------------------------------------------------------
\* What write_pipe has put into the journal and into the buffer.
Placed == journal \o outbuf

Handled(p) == {i \in 1 .. count[p] : ~Contains(buf, [pipe |-> p, pos |-> i])}

\* Nothing that a program writes is lost or doubled, however the two pipes
\* interleave, read() divides it and the buffer overflows: every character
\* that was handled, but for the NULs of pipe 0, is in the journal or in the
\* buffer once, and at the end in the journal.  At the end all has been handled,
\* but for what came later on a pipe on which a signal had ended the final
\* reads (write_pipe, main).
NothingLost ==
  /\ pc \in {"wait", "done"} =>
       outbuf = <<>> /\ buf = <<>> /\ \A p \in Pipes \ interrupted : count[p] = Len(text[p])
  /\ \A k, l \in DOMAIN Placed : Placed[k] = Placed[l] /\ Placed[k] \notin Extra => k = l
  /\ ToSet(Placed) \ Extra = {c \in [pipe : Pipes, pos : 1 .. MaxChars] :
       c.pos \in Handled(c.pipe) /\ ~(c.pipe = 0 /\ Kind(c) = "nul")}

\* Two characters are in the order in which the program wrote them, or a journal
\* entry begins between them.
Before(x, y) ==
  x.pipe = y.pipe /\ x.pos > y.pos => x.pipe = 0 /\ \E i \in y.pos .. x.pos : text[0][i] = "nul"

\* Characters of one pipe are journalled in the order in which they were
\* written, unless a journal entry begins between them (write_pipe).
InOrder ==
  \A k, l \in DOMAIN Placed :
    k < l /\ Placed[k] \notin Extra /\ Placed[l] \notin Extra => Before(Placed[k], Placed[l])

\* The last line of the journal is ended, unless it is an entry the program
\* did not end: what another process appends begins on a line of its own
\* (cr_needed in write_pipe and main).
LineEnded ==
  LET last == journal[Len(journal)] IN
  pc = "done" /\ ~jnl_entry /\ journal # <<>> =>
    IF last \in Extra THEN last.extra \in {"newline", "overflow"} ELSE Kind(last) = "nl"

\* stf_jnl_context ends once the program has ended and nobody holds its
\* pipes (read_pipe, the final reads).
ContextEnds == (~alive /\ ~open[0] /\ ~open[1]) ~> pc = "done"
=============================================================================
