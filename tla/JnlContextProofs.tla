-------------------------- MODULE JnlContextProofs --------------------------
(***************************************************************************)
(* The safety properties of JnlContext, for every length of a line and of  *)
(* a read(), and every program.                                            *)
(*                                                                         *)
(* The properties are about the journal followed by the buffer.  An action *)
(* adds to the end of one of them, which for the two together may be the   *)
(* middle: the parts of Inv speak of the journal, of the buffer, and of    *)
(* what relates them.                                                      *)
(***************************************************************************)
EXTENDS JnlContext, TLAPS

\* The characters of a part of the journal; none is there twice; each pipe's
\* are in their order.
CharsOf(s) == {s[k] : k \in DOMAIN s} \ Extra
Once(s)    == \A k, l \in DOMAIN s : s[k] = s[l] /\ s[k] \notin Extra => k = l
Ordered(s) == \A k, l \in DOMAIN s : k < l /\ s[k] \notin Extra /\ s[l] \notin Extra => Before(s[k], s[l])

\* write_pipe has been given so many characters of pipe p.
Seen(p) == count[p] - (IF p = j THEN Len(buf) ELSE 0)
Given   == {c \in [pipe : Pipes, pos : 1 .. MaxChars] :
              c.pos <= Seen(c.pipe) /\ ~(c.pipe = 0 /\ Kind(c) = "nul")}

\* A read() is looked at to its end before anything else happens.
BufInv ==
  /\ Len(text[0]) + Len(text[1]) <= MaxChars
  /\ Len(buf) <= count[j]
  /\ \A i \in 1 .. Len(buf) : buf[i] = [pipe |-> j, pos |-> count[j] - Len(buf) + i]
  /\ pc \notin {"pipe", "final"} => buf = <<>>

\* The end of a pipe is final, and so is a final read that failed.
AtEnd(p) == p \in interrupted \/ (~open[p] /\ count[p] = Len(text[p]))
EndInv ==
  /\ pc = "final" /\ j = 1 => AtEnd(0)
  /\ pc \in {"flush", "wait", "done"} => AtEnd(0) /\ AtEnd(1)
  /\ pc \in {"wait", "done"} => outbuf = <<>> /\ ~cr_needed

\* Every character given is in one place.
PlaceInv ==
  /\ CharsOf(journal) \cup CharsOf(outbuf) = Given
  /\ CharsOf(journal) \cap CharsOf(outbuf) = {}
  /\ Once(journal)
  /\ Once(outbuf)

\* The buffer is behind the journal, except for entries.
OrderInv ==
  /\ Ordered(journal)
  /\ Ordered(outbuf)
  /\ \A x \in CharsOf(journal), y \in CharsOf(outbuf) : Before(x, y)
  /\ \A y \in CharsOf(outbuf) : y.pipe = 0
  /\ jnl_entry => \A y \in CharsOf(outbuf) : \E i \in y.pos .. Seen(0) : text[0][i] = "nul"

\* cr_needed tells whether the last line is ended.
Ends(x) == IF x \in Extra THEN x.extra \in {"newline", "overflow"} ELSE Kind(x) = "nl"
LineInv == ~jnl_entry /\ ~cr_needed /\ journal # <<>> => Ends(journal[Len(journal)])

Inv == TypeOK /\ BufInv /\ EndInv /\ PlaceInv /\ OrderInv /\ LineInv
-----------------------------------------------------------------------------
(* Facts about sequences of characters and tags.                           *)

Items == Chars \cup Extra

\* A character is no tag.
LEMMA CharIsNoExtra == \A c \in Chars : c \notin Extra
<1> SUFFICES ASSUME NEW c \in Chars, NEW x \in Extra, c = x PROVE FALSE
  OBVIOUS
<1>1. DOMAIN c = {"pipe", "pos"} BY DEF Chars
<1>2. DOMAIN x = {"extra"} BY DEF Extra
<1>3. QED BY <1>1, <1>2

\* Two parts that share no character.
LEMMA ConcatChars ==
  ASSUME NEW s \in Seq(Items), NEW t \in Seq(Items)
  PROVE  /\ CharsOf(s \o t) = CharsOf(s) \cup CharsOf(t)
         /\ Once(s) /\ Once(t) /\ CharsOf(s) \cap CharsOf(t) = {} => Once(s \o t)
         /\ Ordered(s) /\ Ordered(t) /\ (\A x \in CharsOf(s), y \in CharsOf(t) : Before(x, y))
            => Ordered(s \o t)
         /\ s \o t \in Seq(Items)
<1> DEFINE n == Len(s)
           m == Len(t)
           st == s \o t
<1>1. n \in Nat /\ m \in Nat /\ st \in Seq(Items) /\ DOMAIN s = 1 .. n /\ DOMAIN t = 1 .. m
      /\ DOMAIN st = 1 .. n + m
  OBVIOUS
<1>2. \A k \in 1 .. n : st[k] = s[k]
  OBVIOUS
<1>3. \A k \in n + 1 .. n + m : k - n \in 1 .. m /\ st[k] = t[k - n]
  OBVIOUS
<1>4. \A k \in 1 .. m : k + n \in n + 1 .. n + m /\ st[k + n] = t[k]
  BY <1>1, <1>3
<1> HIDE DEF n, m, st
<1>5. CharsOf(st) = CharsOf(s) \cup CharsOf(t)
  <2>1. ASSUME NEW x \in CharsOf(st) PROVE x \in CharsOf(s) \cup CharsOf(t)
    <3>1. PICK k \in 1 .. n + m : x = st[k] /\ x \notin Extra BY <1>1, <2>1 DEF CharsOf
    <3>2. CASE k \in 1 .. n BY <3>1, <3>2, <1>1, <1>2 DEF CharsOf
    <3>3. CASE k \in n + 1 .. n + m BY <3>1, <3>3, <1>1, <1>3 DEF CharsOf
    <3>4. QED BY <3>1, <3>2, <3>3, <1>1
  <2>2. ASSUME NEW x \in CharsOf(s) PROVE x \in CharsOf(st)
    BY <2>2, <1>1, <1>2 DEF CharsOf
  <2>3. ASSUME NEW x \in CharsOf(t) PROVE x \in CharsOf(st)
    <3>1. PICK k \in 1 .. m : x = t[k] /\ x \notin Extra BY <1>1, <2>3 DEF CharsOf
    <3>2. QED BY <3>1, <1>1, <1>4 DEF CharsOf
  <2>4. QED BY <2>1, <2>2, <2>3
<1>6. ASSUME Once(s), Once(t), CharsOf(s) \cap CharsOf(t) = {} PROVE Once(st)
  <2> SUFFICES ASSUME NEW k \in 1 .. n + m, NEW l \in 1 .. n + m, st[k] = st[l], st[k] \notin Extra
               PROVE  k = l
    BY <1>1 DEF Once
  <2>1. CASE k \in 1 .. n /\ l \in 1 .. n BY <2>1, <1>1, <1>2, <1>6 DEF Once
  <2>2. CASE k \in n + 1 .. n + m /\ l \in n + 1 .. n + m
    <3>1. k - n \in DOMAIN t /\ l - n \in DOMAIN t /\ st[k] = t[k - n] /\ st[l] = t[l - n]
      BY <2>2, <1>1, <1>3
    <3>2. k - n = l - n BY <3>1, <1>6 DEF Once
    <3>3. QED BY <3>2, <1>1
  <2>3. CASE k \in 1 .. n /\ l \in n + 1 .. n + m BY <2>3, <1>1, <1>2, <1>3, <1>6 DEF CharsOf
  <2>4. CASE l \in 1 .. n /\ k \in n + 1 .. n + m BY <2>4, <1>1, <1>2, <1>3, <1>6 DEF CharsOf
  <2>5. QED BY <2>1, <2>2, <2>3, <2>4, <1>1
<1>7. ASSUME Ordered(s), Ordered(t), \A x \in CharsOf(s), y \in CharsOf(t) : Before(x, y)
      PROVE  Ordered(st)
  <2> SUFFICES ASSUME NEW k \in 1 .. n + m, NEW l \in 1 .. n + m, k < l,
                      st[k] \notin Extra, st[l] \notin Extra
               PROVE  Before(st[k], st[l])
    BY <1>1 DEF Ordered
  <2>1. CASE k \in 1 .. n /\ l \in 1 .. n BY <2>1, <1>1, <1>2, <1>7 DEF Ordered
  <2>2. CASE k \in n + 1 .. n + m /\ l \in n + 1 .. n + m
    <3>1. k - n \in DOMAIN t /\ l - n \in DOMAIN t /\ st[k] = t[k - n] /\ st[l] = t[l - n]
      BY <2>2, <1>1, <1>3
    <3>2. k - n < l - n BY <1>1
    <3>3. QED BY <3>1, <3>2, <1>7 DEF Ordered
  <2>3. CASE k \in 1 .. n /\ l \in n + 1 .. n + m
    <3>1. st[k] \in CharsOf(s) /\ st[l] \in CharsOf(t) BY <2>3, <1>1, <1>2, <1>3 DEF CharsOf
    <3>2. QED BY <3>1, <1>7
  <2>4. QED BY <2>1, <2>2, <2>3, <1>1
<1>8. QED BY <1>1, <1>5, <1>6, <1>7 DEF st

\* A part with one item.
LEMMA OneItem ==
  ASSUME NEW x \in Items
  PROVE  /\ <<x>> \in Seq(Items)
         /\ CharsOf(<<x>>) = {x} \ Extra
         /\ Once(<<x>>) /\ Ordered(<<x>>)
BY DEF CharsOf, Once, Ordered

\* The empty part.
LEMMA NoItem == <<>> \in Seq(Items) /\ CharsOf(<<>>) = {} /\ Once(<<>>) /\ Ordered(<<>>)
BY DEF CharsOf, Once, Ordered

\* A part that holds no character.
Plain(s) == s \in Seq(Items) /\ CharsOf(s) = {} /\ Once(s) /\ Ordered(s)

\* A tag, a newline and the note of an overflow are no characters.
LEMMA TagIsPlain == \A x \in {"stdout", "stderr", "newline", "overflow"} : Plain(Add(x))
<1> SUFFICES ASSUME NEW x \in {"stdout", "stderr", "newline", "overflow"} PROVE Plain(Add(x))
  OBVIOUS
<1>1. [extra |-> x] \in Extra BY DEF Extra
<1>2. QED BY <1>1, OneItem DEF Plain, Add, Items

\* The same for what write_pipe may put in front of a character.
LEMMA AddedIsPlain == Plain(AddNewline) /\ Plain(StderrTag)
BY TagIsPlain, NoItem DEF Plain, AddNewline, StderrTag

\* Parts may be put together in any grouping.
LEMMA ConcatAssoc ==
  ASSUME NEW s \in Seq(Items), NEW t \in Seq(Items), NEW u \in Seq(Items)
  PROVE  s \o t \in Seq(Items) /\ (s \o t) \o u = s \o (t \o u)
OBVIOUS

\* What a part ends with.
LEMMA LastOfConcat ==
  ASSUME NEW s \in Seq(Items), NEW t \in Seq(Items), t # <<>>
  PROVE  s \o t # <<>> /\ (s \o t)[Len(s \o t)] = t[Len(t)]
OBVIOUS

\* snprintf() does not cut a line that is kept.
LEMMA LineFits ==
  ASSUME TypeOK, NEW c \in Chars
  PROVE  InBuffer(Append(outbuf, c)) = outbuf \o <<c>>
<1>1. outbuf \in Seq(Chars) /\ Len(outbuf) < MAXCHAR BY DEF TypeOK
<1> DEFINE s == Append(outbuf, c)
           n == MAXCHAR + Slack - TagLen - 1
<1>2. s \in Seq(Chars) /\ Len(s) = Len(outbuf) + 1 /\ s = outbuf \o <<c>> BY <1>1
<1>3. Len(s) <= n /\ n \in Int /\ Len(s) \in Nat BY <1>1, <1>2, SizeAssumption
<1> HIDE DEF s, n
<1>4. Min({Len(s), n}) = Len(s)
  BY <1>3 DEF Min
<1>5. SubSeq(s, 1, Len(s)) = s BY <1>2
<1>6. QED BY <1>2, <1>4, <1>5 DEF InBuffer, s, n
-----------------------------------------------------------------------------
(* write_pipe: the character that is taken, and where it is put.           *)

\* The character is new, and behind all others of its pipe.
LEMMA TakenChar ==
  ASSUME Inv, NEW c, Takes(c)
  PROVE  /\ c \in Chars /\ c \in Items /\ c \notin Extra /\ c \in [pipe : Pipes, pos : 1 .. MaxChars]
         /\ c.pipe = j /\ c.pos = Seen(j) + 1 /\ c.pos <= Len(text[j])
         /\ \A p \in Pipes : Seen(p)' = IF p = j THEN Seen(p) + 1 ELSE Seen(p)
         /\ \A p \in Pipes : Seen(p) \in Nat
         /\ c \notin Given /\ \A x \in Given : Before(x, c)
         /\ Given' = Given \cup (IF c.pipe = 0 /\ Kind(c) = "nul" THEN {} ELSE {c})
         /\ BufInv'
<1>1. /\ buf \in Seq(Chars) /\ buf # <<>> /\ c = Head(buf) /\ buf' = Tail(buf) /\ j \in Pipes
      /\ count \in [Pipes -> Nat] /\ text \in [Pipes -> Seq(Kinds)]
      /\ \A p \in Pipes : count[p] <= Len(text[p])
      /\ UNCHANGED <<text, open, alive, count, interrupted, pc, j, revents>>
  BY DEF Inv, TypeOK, Takes, progVars
<1>2. c = buf[1] /\ Len(buf) \in Nat \ {0} /\ Len(buf') = Len(buf) - 1
      /\ \A i \in 1 .. Len(buf') : buf'[i] = buf[i + 1]
  BY <1>1
<1>3. c = [pipe |-> j, pos |-> count[j] - Len(buf) + 1] /\ Len(buf) <= count[j]
  BY <1>2 DEF Inv, BufInv
<1>4. /\ c \in Chars /\ c.pipe = j /\ c.pos = Seen(j) + 1 /\ c.pos <= Len(text[j])
      /\ \A p \in Pipes : Seen(p) \in Nat
  BY <1>1, <1>2, <1>3 DEF Seen, Chars, Pipes
<1>5. \A p \in Pipes : Seen(p)' = IF p = j THEN Seen(p) + 1 ELSE Seen(p)
  BY <1>1, <1>2 DEF Seen
<1>6. c \in Items /\ c \notin Extra
  BY <1>4, CharIsNoExtra DEF Items
<1>7. c.pos \in 1 .. MaxChars /\ c \in [pipe : Pipes, pos : 1 .. MaxChars]
  <2>1. Len(text[0]) + Len(text[1]) <= MaxChars /\ Len(text[0]) \in Nat /\ Len(text[1]) \in Nat
    BY <1>1 DEF Inv, BufInv, Pipes
  <2>2. c.pos \in 1 .. MaxChars
    BY <1>1, <1>3, <1>4, <2>1, BoundAssumption DEF Pipes
  <2>3. QED BY <2>2, <1>1, <1>3
<1>8. c \notin Given /\ \A x \in Given : Before(x, c)
  <2>1. \A x \in Given : x.pipe \in Pipes /\ x.pos \in Nat /\ x.pos <= Seen(x.pipe)
    BY BoundAssumption DEF Given
  <2>2. c \notin Given BY <1>4, <1>1, <2>1
  <2>3. ASSUME NEW x \in Given PROVE Before(x, c) BY <2>1, <1>1, <1>4 DEF Before
  <2>4. QED BY <2>2, <2>3
<1>9. Given' = Given \cup (IF c.pipe = 0 /\ Kind(c) = "nul" THEN {} ELSE {c})
  <2>1. \A x \in [pipe : Pipes, pos : 1 .. MaxChars] :
          x.pos <= Seen(x.pipe)' <=> x.pos <= Seen(x.pipe) \/ x = c
    <3> SUFFICES ASSUME NEW x \in [pipe : Pipes, pos : 1 .. MaxChars]
                 PROVE  x.pos <= Seen(x.pipe)' <=> x.pos <= Seen(x.pipe) \/ x = c
      OBVIOUS
    <3>1. x.pipe \in Pipes /\ x.pos \in Nat /\ x = [pipe |-> x.pipe, pos |-> x.pos] BY BoundAssumption
    <3>2. c = [pipe |-> j, pos |-> Seen(j) + 1] BY <1>3, <1>4
    <3>3. x = c <=> x.pipe = j /\ x.pos = Seen(j) + 1 BY <3>1, <3>2
    <3>4. CASE x.pipe = j BY <3>1, <3>3, <3>4, <1>1, <1>4, <1>5
    <3>5. CASE x.pipe # j BY <3>1, <3>3, <3>5, <1>1, <1>4, <1>5
    <3>6. QED BY <3>4, <3>5
  <2>2. \A x : Kind(x)' = Kind(x) BY <1>1 DEF Kind
  <2>3. QED BY <2>1, <2>2, <1>7 DEF Given
<1>10. BufInv'
  <2>1. ASSUME NEW i \in 1 .. Len(buf') PROVE buf'[i] = [pipe |-> j', pos |-> count'[j'] - Len(buf') + i]
    <3>1. i + 1 \in 1 .. Len(buf) /\ count[j] \in Nat BY <1>1, <1>2
    <3>2. buf'[i] = [pipe |-> j, pos |-> count[j] - Len(buf) + (i + 1)]
      BY <3>1, <1>2 DEF Inv, BufInv
    <3>3. \A n, m \in Nat : n - m + (i + 1) = n - (m - 1) + i OBVIOUS
    <3>4. count[j] - Len(buf) + (i + 1) = count[j] - Len(buf') + i BY <3>1, <3>3, <1>2
    <3>5. QED BY <3>2, <3>4, <1>1
  <2>2. Len(buf') <= count'[j'] BY <1>1, <1>2, <1>3
  <2>3. pc \in {"pipe", "final"} BY <1>1 DEF Inv, BufInv
  <2>4. Len(text'[0]) + Len(text'[1]) <= MaxChars BY <1>1 DEF Inv, BufInv
  <2>5. QED BY <2>1, <2>2, <2>3, <2>4, <1>1 DEF BufInv
<1>11. QED BY <1>4, <1>5, <1>6, <1>7, <1>8, <1>9, <1>10

\* The order of two characters depends on the text alone.
LEMMA SameOrder ==
  ASSUME UNCHANGED text
  PROVE  /\ \A x, y : Before(x, y)' <=> Before(x, y)
         /\ \A s : Ordered(s)' <=> Ordered(s)
BY DEF Before, Ordered

\* JnlEntryBegins, StderrNul, JnlChar, StderrChar: the journal grows by X, which
\* holds at most the new character.
LEMMA JournalGrows ==
  ASSUME Inv, NEW c, Takes(c), NEW X \in Seq(Items), Once(X), Ordered(X),
         CharsOf(X) = IF c.pipe = 0 /\ Kind(c) = "nul" THEN {} ELSE {c},
         CharsOf(X) # {} /\ c.pipe = 0 => jnl_entry,
         journal' = journal \o X, outbuf' = outbuf,
         jnl_entry' => jnl_entry \/ (c.pipe = 0 /\ Kind(c) = "nul")
  PROVE  PlaceInv' /\ OrderInv'
<1>1. /\ journal \in Seq(Items) /\ outbuf \in Seq(Items) /\ text' = text /\ j \in Pipes
      /\ \A p \in Pipes : Seen(p) \in Nat
  BY TakenChar DEF Inv, TypeOK, Takes, progVars, Items
<1>2. /\ CharsOf(journal) \cup CharsOf(outbuf) = Given
      /\ CharsOf(journal) \cap CharsOf(outbuf) = {} /\ Once(journal) /\ Once(outbuf)
  BY DEF Inv, PlaceInv
<1>3. CharsOf(X) \cap Given = {} /\ \A x \in Given, y \in CharsOf(X) : Before(x, y)
  BY TakenChar
<1>4. CharsOf(journal \o X) = CharsOf(journal) \cup CharsOf(X) /\ Once(journal \o X)
  BY <1>1, <1>2, <1>3, ConcatChars
<1>5. PlaceInv'
  <2>1. Given' = Given \cup CharsOf(X) BY TakenChar
  <2>2. CharsOf(journal)' = CharsOf(journal \o X) /\ CharsOf(outbuf)' = CharsOf(outbuf)
        /\ (Once(journal)' <=> Once(journal \o X)) /\ (Once(outbuf)' <=> Once(outbuf))
    BY DEF CharsOf, Once
  <2>3. QED BY <1>2, <1>3, <1>4, <2>1, <2>2 DEF PlaceInv
<1>6. Ordered(journal \o X)
  BY <1>1, <1>2, <1>3, ConcatChars DEF Inv, OrderInv
<1>7. ASSUME NEW x \in CharsOf(X), NEW y \in CharsOf(outbuf) PROVE Before(x, y)
  <2>1. x = c /\ y.pipe = 0 /\ y \in Given BY <1>2 DEF Inv, OrderInv
  <2>2. CASE c.pipe # 0 BY <2>1, <2>2 DEF Before
  <2>3. CASE c.pipe = 0
    <3>1. PICK i \in y.pos .. Seen(0) : text[0][i] = "nul" BY <2>3 DEF Inv, OrderInv
    <3>2. y.pos \in Nat /\ c.pos = Seen(0) + 1 BY <2>1, <2>3, TakenChar, BoundAssumption DEF Given
    <3>3. i \in y.pos .. c.pos BY <3>1, <3>2, <1>1 DEF Pipes
    <3>4. QED BY <2>1, <2>3, <3>1, <3>3 DEF Before
  <2>4. QED BY <2>2, <2>3
<1>8. ASSUME jnl_entry', NEW y \in CharsOf(outbuf) PROVE \E i \in y.pos .. Seen(0)' : text[0][i] = "nul"
  <2>1. y.pipe = 0 /\ y \in Given BY <1>2 DEF Inv, OrderInv
  <2>2. y.pos \in Nat /\ y.pos <= Seen(0) BY <2>1, BoundAssumption DEF Given
  <2>3. Seen(0) \in Nat /\ Seen(0)' \in Nat /\ Seen(0) <= Seen(0)' BY <1>1, TakenChar DEF Pipes
  <2>4. CASE jnl_entry
    <3>1. PICK i \in y.pos .. Seen(0) : text[0][i] = "nul" BY <2>4 DEF Inv, OrderInv
    <3>2. QED BY <3>1, <2>2, <2>3
  <2>5. CASE c.pipe = 0 /\ Kind(c) = "nul"
    <3>1. c.pos = Seen(0)' /\ text[0][c.pos] = "nul" BY <2>5, TakenChar DEF Kind
    <3>2. QED BY <3>1, <2>2, <2>3
  <2>6. QED BY <1>8, <2>4, <2>5
<1>9. OrderInv'
  <2>1. Ordered(journal)' /\ Ordered(outbuf)'
    BY <1>1, <1>6, SameOrder DEF Inv, OrderInv
  <2>2. \A x \in CharsOf(journal)', y \in CharsOf(outbuf)' : Before(x, y)'
    BY <1>1, <1>4, <1>7, SameOrder, SMTT(30) DEF Inv, OrderInv, CharsOf
  <2>3. \A y \in CharsOf(outbuf)' : y.pipe = 0
    BY DEF Inv, OrderInv, CharsOf
  <2>4. jnl_entry' => \A y \in CharsOf(outbuf)' : \E i \in y.pos .. Seen(0)' : text'[0][i] = "nul"
    BY <1>1, <1>8 DEF CharsOf
  <2>5. QED BY <2>1, <2>2, <2>3, <2>4 DEF OrderInv
<1>10. QED BY <1>5, <1>9

\* StdoutLine, StdoutOverflow, Flush: the buffer goes to the end of the journal.
LEMMA BufferWritten ==
  ASSUME Inv, NEW A \in Seq(Items), Plain(A), NEW B \in Seq(Items), Once(B), Ordered(B),
         CharsOf(B) \cap Given = {}, \A x \in Given, y \in CharsOf(B) : Before(x, y)
  PROVE  LET s == (journal \o A) \o (outbuf \o B) IN
         s \in Seq(Items) /\ CharsOf(s) = Given \cup CharsOf(B) /\ Once(s) /\ Ordered(s)
<1>1. /\ journal \in Seq(Items) /\ outbuf \in Seq(Items)
      /\ Once(journal) /\ Once(outbuf) /\ Ordered(journal) /\ Ordered(outbuf)
      /\ CharsOf(journal) \cup CharsOf(outbuf) = Given /\ CharsOf(journal) \cap CharsOf(outbuf) = {}
      /\ \A x \in CharsOf(journal), y \in CharsOf(outbuf) : Before(x, y)
  BY DEF Inv, TypeOK, PlaceInv, OrderInv, Items
<1> DEFINE s == journal \o A
           t == outbuf \o B
<1>2. s \in Seq(Items) /\ CharsOf(s) = CharsOf(journal) /\ Once(s) /\ Ordered(s)
  <2>1. CharsOf(A) = {} /\ Once(A) /\ Ordered(A) BY DEF Plain
  <2>2. CharsOf(journal) \cap CharsOf(A) = {} /\ \A x \in CharsOf(journal), y \in CharsOf(A) : Before(x, y)
    BY <2>1
  <2>3. s \in Seq(Items) /\ CharsOf(s) = CharsOf(journal) \cup CharsOf(A) BY <1>1, ConcatChars
  <2>4. Once(s) BY <1>1, <2>1, <2>2, ConcatChars
  <2>5. Ordered(s) BY <1>1, <2>1, <2>2, ConcatChars
  <2>6. QED BY <2>1, <2>3, <2>4, <2>5
<1>3. t \in Seq(Items) /\ CharsOf(t) = CharsOf(outbuf) \cup CharsOf(B) /\ Once(t) /\ Ordered(t)
  BY <1>1, ConcatChars
<1> HIDE DEF s, t
<1>4. CharsOf(s) \cap CharsOf(t) = {} /\ \A x \in CharsOf(s), y \in CharsOf(t) : Before(x, y)
  BY <1>1, <1>2, <1>3
<1>5. s \o t \in Seq(Items) /\ CharsOf(s \o t) = CharsOf(s) \cup CharsOf(t) /\ Once(s \o t) /\ Ordered(s \o t)
  BY <1>2, <1>3, <1>4, ConcatChars
<1>6. QED BY <1>1, <1>2, <1>3, <1>5 DEF s, t

\* The journal then holds all that was given.
LEMMA BufferEmptied ==
  ASSUME UNCHANGED text, NEW s \in Seq(Items), CharsOf(s) = Given', Once(s), Ordered(s),
         journal' = s, outbuf' = <<>>
  PROVE  PlaceInv' /\ OrderInv'
<1>1. CharsOf(journal)' = Given' /\ CharsOf(outbuf)' = {} /\ Once(journal)' /\ Once(outbuf)'
  BY NoItem DEF CharsOf, Once
<1>2. Ordered(journal)' /\ Ordered(outbuf)'
  BY SameOrder, NoItem
<1>3. QED BY <1>1, <1>2 DEF PlaceInv, OrderInv

\* StdoutKept: the buffer grows.
LEMMA BufferGrows ==
  ASSUME Inv, NEW c, Takes(c), c.pipe = 0, Kind(c) # "nul", ~jnl_entry, jnl_entry' = jnl_entry,
         journal' = journal, outbuf' = Append(outbuf, c)
  PROVE  PlaceInv' /\ OrderInv'
<1>1. /\ journal \in Seq(Items) /\ outbuf \in Seq(Items) /\ <<c>> \in Seq(Items) /\ text' = text
      /\ CharsOf(<<c>>) = {c} /\ Once(<<c>>) /\ Ordered(<<c>>) /\ outbuf' = outbuf \o <<c>>
  BY TakenChar, OneItem DEF Inv, TypeOK, Takes, progVars, Items
<1>2. /\ CharsOf(journal) \cup CharsOf(outbuf) = Given
      /\ CharsOf(journal) \cap CharsOf(outbuf) = {} /\ Once(journal) /\ Once(outbuf)
      /\ Ordered(journal) /\ Ordered(outbuf)
      /\ \A x \in CharsOf(journal), y \in CharsOf(outbuf) : Before(x, y)
      /\ \A y \in CharsOf(outbuf) : y.pipe = 0
  BY DEF Inv, PlaceInv, OrderInv
<1>3. c \notin Given /\ (\A x \in Given : Before(x, c)) /\ Given' = Given \cup {c}
  BY TakenChar
<1>4. /\ CharsOf(outbuf \o <<c>>) = CharsOf(outbuf) \cup {c}
      /\ Once(outbuf \o <<c>>) /\ Ordered(outbuf \o <<c>>)
  <2>1. /\ CharsOf(outbuf) \cap CharsOf(<<c>>) = {}
        /\ \A x \in CharsOf(outbuf), y \in CharsOf(<<c>>) : Before(x, y)
    BY <1>1, <1>2, <1>3
  <2>2. QED BY <1>1, <1>2, <2>1, ConcatChars
<1>5. /\ CharsOf(journal)' = CharsOf(journal) /\ CharsOf(outbuf)' = CharsOf(outbuf \o <<c>>)
      /\ (Once(journal)' <=> Once(journal)) /\ (Once(outbuf)' <=> Once(outbuf \o <<c>>))
  BY <1>1 DEF CharsOf, Once
<1>6. Ordered(journal)' /\ Ordered(outbuf)'
  <2>1. Ordered(journal)' <=> Ordered(journal)
    BY <1>1, SameOrder
  <2>2. Ordered(outbuf)' <=> Ordered(outbuf \o <<c>>)
    BY <1>1, SameOrder
  <2>3. QED BY <2>1, <2>2, <1>2, <1>4
<1>7. \A x \in CharsOf(journal)', y \in CharsOf(outbuf)' : Before(x, y)'
  BY <1>1, <1>2, <1>3, <1>4, <1>5, SameOrder
<1>8. QED BY <1>2, <1>3, <1>4, <1>5, <1>6, <1>7 DEF PlaceInv, OrderInv

\* What all cases of write_pipe have in common.
LEMMA CharCommon ==
  ASSUME Inv, NEW c, Takes(c), journal' \in Seq(Items), outbuf' \in Seq(Chars), Len(outbuf') < MAXCHAR,
         err_tagged' \in BOOLEAN /\ jnl_entry' \in BOOLEAN /\ cr_needed' \in BOOLEAN
  PROVE  TypeOK' /\ BufInv' /\ EndInv'
<1>1. buf \in Seq(Chars) /\ Len(buf) <= MAXCHAR /\ buf # <<>> BY DEF Inv, TypeOK, Takes
<1>2. buf' \in Seq(Chars) /\ Len(buf') <= MAXCHAR BY <1>1, SizeAssumption DEF Takes
<1>3. UNCHANGED <<text, open, alive, count, interrupted, pc, j, revents>> BY DEF Takes, progVars
<1>4. TypeOK' BY <1>2, <1>3 DEF Inv, TypeOK, Items
<1>5. pc \in {"pipe", "final"} BY <1>1 DEF Inv, TypeOK, BufInv
<1>6. EndInv' BY <1>3, <1>5 DEF Inv, EndInv, AtEnd
<1>7. QED BY <1>4, <1>6, TakenChar

\* The last line, when the journal has grown.
LEMMA LineEnds ==
  ASSUME UNCHANGED text, NEW s \in Seq(Items), NEW t \in Seq(Items), t # <<>>, journal' = s \o t,
         ~jnl_entry' /\ ~cr_needed' => Ends(t[Len(t)])
  PROVE  LineInv'
<1>1. \A x : Ends(x)' <=> Ends(x) BY DEF Ends, Kind
<1>2. journal'[Len(journal')] = t[Len(t)] BY LastOfConcat
<1>3. QED BY <1>1, <1>2 DEF LineInv

\* The added newline and the note of an overflow end a line.
LEMMA EndingTag ==
  /\ \A x \in {"newline", "overflow"} : Add(x) # <<>> /\ Ends(Add(x)[Len(Add(x))])
  /\ \A x \in Chars : <<x>> # <<>> /\ (Ends(<<x>>[Len(<<x>>)]) <=> Kind(x) = "nl")
<1>1. ASSUME NEW x \in {"newline", "overflow"} PROVE Add(x) # <<>> /\ Ends(Add(x)[Len(Add(x))])
  <2>1. [extra |-> x] \in Extra BY DEF Extra
  <2>2. QED BY <2>1 DEF Add, Ends
<1>2. ASSUME NEW x \in Chars PROVE <<x>> # <<>> /\ (Ends(<<x>>[Len(<<x>>)]) <=> Kind(x) = "nl")
  BY CharIsNoExtra DEF Ends
<1>3. QED BY <1>1, <1>2

\* write_pipe
LEMMA CharStep ==
  ASSUME Inv, NEW c, write_pipe(c)
  PROVE  Inv'
<1>1. Takes(c)
  BY DEF write_pipe, JnlEntryBegins, StderrNul, JnlChar, StderrChar, StdoutLine, StdoutKept, StdoutOverflow
<1>2. /\ journal \in Seq(Items) /\ outbuf \in Seq(Chars) /\ outbuf \in Seq(Items) /\ Len(outbuf) < MAXCHAR
      /\ text' = text
  BY <1>1 DEF Inv, TypeOK, Items, Takes, progVars
<1>3. err_tagged \in BOOLEAN /\ jnl_entry \in BOOLEAN /\ cr_needed \in BOOLEAN
  BY DEF Inv, TypeOK
<1>4. c \in Chars /\ c \in Items /\ c \notin Extra
  BY <1>1, TakenChar
<1>5. <<c>> \in Seq(Items) /\ CharsOf(<<c>>) = {c} /\ Once(<<c>>) /\ Ordered(<<c>>)
  BY <1>4, OneItem
<1>6. Plain(AddNewline) /\ Plain(StderrTag) /\ Plain(Add("stdout")) /\ Plain(Add("overflow"))
  BY AddedIsPlain, TagIsPlain
<1>7. <<>> \in Seq(Chars) /\ Len(<<>>) < MAXCHAR
  BY SizeAssumption
<1>20. CharsOf(<<c>>) \cap Given = {} /\ \A x \in Given, y \in CharsOf(<<c>>) : Before(x, y)
  BY <1>1, <1>5, TakenChar
<1>8. CASE JnlEntryBegins(c)
  <2>1. /\ Kind(c) = "nul" /\ c.pipe = 0 /\ journal' = journal \o AddNewline /\ outbuf' = outbuf
        /\ jnl_entry' = TRUE /\ cr_needed' = FALSE /\ err_tagged' = err_tagged
    BY <1>8 DEF JnlEntryBegins
  <2>2. PlaceInv' /\ OrderInv'
    BY <1>1, <1>6, <2>1, JournalGrows DEF Plain
  <2>3. journal' \in Seq(Items) BY <1>2, <1>6, <2>1, ConcatChars DEF Plain
  <2>4. TypeOK' /\ BufInv' /\ EndInv' BY <1>1, <1>2, <1>3, <2>1, <2>3, CharCommon
  <2>5. LineInv' BY <2>1 DEF LineInv
  <2>6. QED BY <2>2, <2>4, <2>5 DEF Inv
<1>9. CASE StderrNul(c)
  <2>1. /\ Kind(c) = "nul" /\ c.pipe = 1 /\ journal' = journal \o <<c>> /\ outbuf' = outbuf
        /\ jnl_entry' = jnl_entry /\ cr_needed' = TRUE /\ err_tagged' = err_tagged
    BY <1>9, <1>2, <1>4 DEF StderrNul
  <2>2. CharsOf(<<c>>) = (IF c.pipe = 0 /\ Kind(c) = "nul" THEN {} ELSE {c}) /\ c.pipe # 0
    BY <1>5, <2>1
  <2>3. jnl_entry' => jnl_entry BY <2>1, Zenon
  <2>4. PlaceInv' /\ OrderInv'
    BY <1>1, <1>5, <2>1, <2>2, <2>3, JournalGrows
  <2>5. journal' \in Seq(Items) BY <1>2, <1>5, <2>1, ConcatChars
  <2>6. TypeOK' /\ BufInv' /\ EndInv' BY <1>1, <1>2, <1>3, <2>1, <2>5, CharCommon
  <2>7. LineInv' BY <2>1 DEF LineInv
  <2>8. QED BY <2>4, <2>6, <2>7 DEF Inv
<1>10. CASE JnlChar(c)
  <2>1. /\ Kind(c) # "nul" /\ jnl_entry /\ journal' = journal \o <<c>> /\ outbuf' = outbuf
        /\ jnl_entry' = (Kind(c) # "nl") /\ cr_needed' = (cr_needed /\ Kind(c) # "nl")
        /\ err_tagged' = err_tagged
    BY <1>10, <1>2, <1>4 DEF JnlChar
  <2>2. jnl_entry' \in BOOLEAN /\ cr_needed' \in BOOLEAN
    BY <2>1, Zenon
  <2>3. PlaceInv' /\ OrderInv'
    BY <1>1, <1>5, <2>1, JournalGrows
  <2>4. journal' \in Seq(Items) BY <1>2, <1>5, <2>1, ConcatChars
  <2>5. TypeOK' /\ BufInv' /\ EndInv' BY <1>1, <1>2, <1>3, <2>1, <2>2, <2>4, CharCommon
  <2>6. LineInv' BY <1>2, <1>4, <1>5, <2>1, LineEnds, EndingTag
  <2>7. QED BY <2>3, <2>5, <2>6 DEF Inv
<1>11. CASE StderrChar(c)
  <2>1. /\ Kind(c) # "nul" /\ c.pipe = 1 /\ ~jnl_entry /\ journal' = (journal \o StderrTag) \o <<c>>
        /\ outbuf' = outbuf /\ jnl_entry' = jnl_entry
        /\ err_tagged' = (Kind(c) # "nl") /\ cr_needed' = (Kind(c) # "nl")
    BY <1>11 DEF StderrChar
  <2>2. err_tagged' \in BOOLEAN /\ cr_needed' \in BOOLEAN
    BY <2>1, Zenon
  <2>3. /\ journal \o StderrTag \in Seq(Items) /\ StderrTag \o <<c>> \in Seq(Items)
        /\ (journal \o StderrTag) \o <<c>> \in Seq(Items)
        /\ (journal \o StderrTag) \o <<c>> = journal \o (StderrTag \o <<c>>)
    BY <1>2, <1>5, <1>6 DEF Plain
  <2>4. /\ CharsOf(StderrTag \o <<c>>) = {c} /\ Once(StderrTag \o <<c>>) /\ Ordered(StderrTag \o <<c>>)
    <3>1. StderrTag \in Seq(Items) /\ CharsOf(StderrTag) = {} /\ Once(StderrTag) /\ Ordered(StderrTag)
      BY <1>6 DEF Plain
    <3>2. CharsOf(StderrTag \o <<c>>) = CharsOf(StderrTag) \cup CharsOf(<<c>>)
      BY <1>5, <3>1, ConcatChars
    <3>3. Once(StderrTag \o <<c>>) /\ Ordered(StderrTag \o <<c>>)
      BY <1>5, <3>1, ConcatChars
    <3>4. QED BY <1>5, <3>1, <3>2, <3>3
  <2>5. PlaceInv' /\ OrderInv'
    <3>1. CharsOf(StderrTag \o <<c>>) = (IF c.pipe = 0 /\ Kind(c) = "nul" THEN {} ELSE {c}) /\ c.pipe # 0
      BY <2>1, <2>4
    <3>2. jnl_entry' => jnl_entry BY <2>1, Zenon
    <3>3. QED BY <1>1, <2>1, <2>3, <2>4, <3>1, <3>2, JournalGrows
  <2>6. TypeOK' /\ BufInv' /\ EndInv' BY <1>1, <1>2, <1>3, <2>1, <2>2, <2>3, CharCommon
  <2>7. LineInv' BY <1>2, <1>4, <1>5, <2>1, <2>3, LineEnds, EndingTag
  <2>8. QED BY <2>5, <2>6, <2>7 DEF Inv
<1>12. CASE StdoutKept(c)
  <2>1. /\ Kind(c) # "nul" /\ c.pipe = 0 /\ ~jnl_entry /\ journal' = journal /\ outbuf' = Append(outbuf, c)
        /\ jnl_entry' = jnl_entry /\ err_tagged' = err_tagged /\ cr_needed' = cr_needed
        /\ Len(outbuf) + 1 <= MAXCHAR - 1
    BY <1>12 DEF StdoutKept
  <2>2. PlaceInv' /\ OrderInv' BY <1>1, <2>1, BufferGrows
  <2>3. outbuf' \in Seq(Chars) /\ Len(outbuf') < MAXCHAR BY <1>2, <1>4, <2>1, SizeAssumption
  <2>4. TypeOK' /\ BufInv' /\ EndInv' BY <1>1, <1>2, <1>3, <2>1, <2>3, CharCommon
  <2>5. LineInv' BY <1>2, <2>1 DEF Inv, LineInv, Ends, Kind
  <2>6. QED BY <2>2, <2>4, <2>5 DEF Inv
<1>13. CASE StdoutLine(c)
  <2>1. /\ Kind(c) = "nl" /\ c.pipe = 0 /\ journal' = (journal \o Add("stdout")) \o (outbuf \o <<c>>)
        /\ outbuf' = <<>> /\ jnl_entry' = jnl_entry /\ err_tagged' = err_tagged /\ cr_needed' = FALSE
    BY <1>13, <1>4, LineFits DEF StdoutLine, Inv
  <2>2. /\ journal' \in Seq(Items) /\ CharsOf(journal') = Given \cup {c}
        /\ Once(journal') /\ Ordered(journal')
    BY <1>20, <1>5, <1>6, <2>1, BufferWritten DEF Plain
  <2>3. PlaceInv' /\ OrderInv'
    BY <1>1, <1>2, <2>1, <2>2, TakenChar, BufferEmptied
  <2>4. TypeOK' /\ BufInv' /\ EndInv' BY <1>1, <1>2, <1>3, <1>7, <2>1, <2>2, CharCommon
  <2>5. (journal \o Add("stdout")) \o (outbuf \o <<c>>) = ((journal \o Add("stdout")) \o outbuf) \o <<c>>
        /\ (journal \o Add("stdout")) \o outbuf \in Seq(Items)
    BY <1>2, <1>5, <1>6 DEF Plain
  <2>6. LineInv' BY <1>2, <1>4, <1>5, <2>1, <2>5, LineEnds, EndingTag
  <2>7. QED BY <2>3, <2>4, <2>6 DEF Inv
<1>14. CASE StdoutOverflow(c)
  <2> DEFINE s == (journal \o Add("stdout")) \o (outbuf \o <<c>>)
  <2>1. /\ Kind(c) # "nul" /\ c.pipe = 0 /\ journal' = s \o Add("overflow")
        /\ outbuf' = <<>> /\ jnl_entry' = jnl_entry /\ err_tagged' = err_tagged /\ cr_needed' = FALSE
    BY <1>14, <1>4, LineFits DEF StdoutOverflow, Inv
  <2>2. s \in Seq(Items) /\ CharsOf(s) = Given \cup {c} /\ Once(s) /\ Ordered(s)
    BY <1>20, <1>5, <1>6, BufferWritten DEF Plain
  <2> HIDE DEF s
  <2>3. /\ journal' \in Seq(Items) /\ CharsOf(journal') = Given \cup {c}
        /\ Once(journal') /\ Ordered(journal')
    BY <1>6, <2>1, <2>2, ConcatChars DEF Plain
  <2>4. PlaceInv' /\ OrderInv'
    BY <1>1, <1>2, <2>1, <2>3, TakenChar, BufferEmptied
  <2>5. TypeOK' /\ BufInv' /\ EndInv' BY <1>1, <1>2, <1>3, <1>7, <2>1, <2>3, CharCommon
  <2>6. LineInv' BY <1>2, <1>6, <2>1, <2>2, LineEnds, EndingTag DEF Plain
  <2>7. QED BY <2>4, <2>5, <2>6 DEF Inv
<1>15. QED BY <1>8, <1>9, <1>10, <1>11, <1>12, <1>13, <1>14 DEF write_pipe
-----------------------------------------------------------------------------
(* The program, the reads, and the end of main.                            *)

\* Nothing is taken, and the program writes at the end of a pipe.
LEMMA StillPlaced ==
  ASSUME Inv, UNCHANGED outVars, \A p \in Pipes : Seen(p)' = Seen(p),
         \A p \in Pipes : \A i \in 1 .. Len(text[p]) : text'[p][i] = text[p][i]
  PROVE  PlaceInv' /\ OrderInv' /\ LineInv'
<1>1. UNCHANGED <<journal, outbuf, err_tagged, jnl_entry, cr_needed>> BY DEF outVars
<1>2. /\ count \in [Pipes -> Nat] /\ text \in [Pipes -> Seq(Kinds)] /\ Len(buf) \in Nat
      /\ \A p \in Pipes : count[p] <= Len(text[p])
  BY DEF Inv, TypeOK
<1>3. \A p \in Pipes : Seen(p) \in Int /\ Seen(p) <= Len(text[p]) /\ Len(text[p]) \in Nat
  BY <1>2 DEF Seen
<1>4. ASSUME NEW x \in [pipe : Pipes, pos : 1 .. MaxChars], x.pos <= Seen(x.pipe)
      PROVE  Kind(x)' = Kind(x)
  <2>1. x.pipe \in Pipes /\ x.pos \in 1 .. Len(text[x.pipe]) BY <1>3, <1>4, BoundAssumption
  <2>2. QED BY <2>1 DEF Kind
<1>5. Given' = Given
  BY <1>4 DEF Given
<1>6. CharsOf(journal)' = CharsOf(journal) /\ CharsOf(outbuf)' = CharsOf(outbuf)
      /\ (Once(journal)' <=> Once(journal)) /\ (Once(outbuf)' <=> Once(outbuf))
  BY <1>1 DEF CharsOf, Once
<1>7. PlaceInv' BY <1>5, <1>6 DEF Inv, PlaceInv
<1>8. CharsOf(journal) \cup CharsOf(outbuf) = Given BY DEF Inv, PlaceInv
<1>9. \A x \in Given : x \in [pipe : Pipes, pos : 1 .. MaxChars] /\ x.pipe \in Pipes
                      /\ x.pos \in Nat \ {0} /\ x.pos <= Seen(x.pipe)
  BY BoundAssumption DEF Given
<1>10. ASSUME NEW x \in Given, NEW y \in Given, Before(x, y) PROVE Before(x, y)'
  <2>1. CASE x.pipe = 0 /\ x.pos > y.pos /\ \E i \in y.pos .. x.pos : text[0][i] = "nul"
    <3>1. PICK i \in y.pos .. x.pos : text[0][i] = "nul" BY <2>1
    <3>2. i \in 1 .. Len(text[0]) BY <2>1, <1>3, <1>9 DEF Pipes
    <3>3. text'[0][i] = "nul" BY <3>1, <3>2 DEF Pipes
    <3>4. QED BY <3>3, <2>1 DEF Before
  <2>2. CASE ~(x.pipe = y.pipe /\ x.pos > y.pos) BY <2>2 DEF Before
  <2>3. QED BY <1>10, <2>1, <2>2 DEF Before
<1>11. Ordered(journal)' /\ Ordered(outbuf)'
  <2>1. \A k \in DOMAIN journal : journal[k] \notin Extra => journal[k] \in Given BY <1>8 DEF CharsOf
  <2>2. \A k \in DOMAIN outbuf : outbuf[k] \notin Extra => outbuf[k] \in Given BY <1>8 DEF CharsOf
  <2>3. Ordered(journal) /\ Ordered(outbuf) BY DEF Inv, OrderInv
  <2>4. Ordered(journal)' BY <1>1, <1>10, <2>1, <2>3 DEF Ordered
  <2>5. Ordered(outbuf)' BY <1>1, <1>10, <2>2, <2>3 DEF Ordered
  <2>6. QED BY <2>4, <2>5
<1>12. ASSUME jnl_entry', NEW y \in CharsOf(outbuf) PROVE \E i \in y.pos .. Seen(0)' : text'[0][i] = "nul"
  <2>1. PICK i \in y.pos .. Seen(0) : text[0][i] = "nul" BY <1>1, <1>12 DEF Inv, OrderInv
  <2>2. i \in 1 .. Len(text[0]) BY <1>3, <1>8, <1>9 DEF Pipes
  <2>3. QED BY <2>1, <2>2 DEF Pipes
<1>13. OrderInv'
  <2>1. \A x \in CharsOf(journal)', y \in CharsOf(outbuf)' : Before(x, y)'
    BY <1>6, <1>8, <1>10 DEF Inv, OrderInv
  <2>2. QED BY <1>6, <1>11, <1>12, <2>1 DEF Inv, OrderInv
<1>14. LineInv'
  <2> SUFFICES ASSUME ~jnl_entry, ~cr_needed, journal # <<>>
               PROVE  Ends(journal[Len(journal)])'
    BY <1>1 DEF LineInv
  <2> DEFINE x == journal[Len(journal)]
  <2>1. Ends(x) /\ x' = x BY <1>1 DEF Inv, LineInv
  <2>2. CASE x \in Extra BY <2>1, <2>2 DEF Ends
  <2>3. CASE x \notin Extra
    <3>1. Len(journal) \in DOMAIN journal BY DEF Inv, TypeOK
    <3>2. x \in Given BY <2>3, <3>1, <1>8 DEF CharsOf
    <3>3. text'[x.pipe][x.pos] = text[x.pipe][x.pos]
      BY <3>2, <1>3, <1>9
    <3>4. QED BY <2>1, <2>3, <3>3 DEF Ends, Kind
  <2>4. QED BY <2>2, <2>3
<1>15. QED BY <1>7, <1>13, <1>14

\* The program writes, closes a pipe, ends.
LEMMA ProgramStep ==
  ASSUME Inv, Program
  PROVE  Inv'
<1>1. ASSUME NEW p \in Pipes, NEW k \in Kinds, Write(p, k) PROVE Inv'
  <2>1. /\ text \in [Pipes -> Seq(Kinds)] /\ open[p] /\ text' = [text EXCEPT ![p] = Append(@, k)]
        /\ count \in [Pipes -> Nat] /\ \A q \in Pipes : count[q] <= Len(text[q])
        /\ Len(text[0]) + Len(text[1]) < MaxChars
        /\ UNCHANGED <<open, alive, count, interrupted, pc, j, revents, buf>> /\ UNCHANGED outVars
    BY <1>1 DEF Inv, TypeOK, Write, loopVars
  <2>2. text' \in [Pipes -> Seq(Kinds)]
    BY <2>1
  <2>3. \A q \in Pipes : Len(text'[q]) = IF q = p THEN Len(text[q]) + 1 ELSE Len(text[q])
    BY <2>1
  <2>4. \A q \in Pipes : \A i \in 1 .. Len(text[q]) : text'[q][i] = text[q][i]
    BY <2>1
  <2>5. TypeOK'
    BY <2>1, <2>2, <2>3 DEF Inv, TypeOK, outVars
  <2>6. Len(text'[0]) + Len(text'[1]) <= MaxChars
    <3>1. Len(text[0]) \in Nat /\ Len(text[1]) \in Nat BY <2>1 DEF Pipes
    <3>2. Len(text[0]) + Len(text[1]) < MaxChars BY <2>1
    <3>6. \A m, n \in Nat : m + n < MaxChars => m + 1 + n <= MaxChars /\ m + (n + 1) <= MaxChars
      BY BoundAssumption
    <3>3. CASE p = 0
      <4>1. Len(text'[0]) = Len(text[0]) + 1 /\ Len(text'[1]) = Len(text[1]) BY <2>3, <3>3 DEF Pipes
      <4>2. QED BY <3>1, <3>2, <3>6, <4>1
    <3>4. CASE p = 1
      <4>1. Len(text'[0]) = Len(text[0]) /\ Len(text'[1]) = Len(text[1]) + 1 BY <2>3, <3>4 DEF Pipes
      <4>2. QED BY <3>1, <3>2, <3>6, <4>1
    <3>5. QED BY <3>3, <3>4 DEF Pipes
  <2>7. BufInv'
    BY <2>1, <2>6 DEF Inv, BufInv
  <2>8. EndInv'
    BY <2>1 DEF Inv, EndInv, AtEnd, outVars, Pipes
  <2>9. PlaceInv' /\ OrderInv' /\ LineInv'
    BY <2>1, <2>4, StillPlaced DEF Seen
  <2>10. QED BY <2>5, <2>7, <2>8, <2>9 DEF Inv
<1>2. ASSUME NEW p \in Pipes, Close(p) PROVE Inv'
  <2>1. /\ open \in [Pipes -> BOOLEAN] /\ open' = [open EXCEPT ![p] = FALSE]
        /\ UNCHANGED <<text, alive, count, interrupted, pc, j, revents, buf>> /\ UNCHANGED outVars
    BY <1>2 DEF Inv, TypeOK, Close, loopVars
  <2>2. open' \in [Pipes -> BOOLEAN] BY <2>1
  <2>3. TypeOK' BY <2>1, <2>2 DEF Inv, TypeOK, outVars
  <2>4. BufInv' BY <2>1 DEF Inv, BufInv
  <2>5. \A q \in Pipes : ~open[q] => ~open'[q] BY <2>1
  <2>6. EndInv' BY <2>1, <2>5 DEF Inv, EndInv, AtEnd, outVars, Pipes
  <2>7. PlaceInv' /\ OrderInv' /\ LineInv'
    BY <2>1, StillPlaced DEF Seen
  <2>8. QED BY <2>3, <2>4, <2>6, <2>7 DEF Inv
<1>3. CASE Exits
  <2>1. /\ alive' = FALSE /\ UNCHANGED <<text, open, count, interrupted, pc, j, revents, buf>> /\ UNCHANGED outVars
    BY <1>3 DEF Exits, loopVars
  <2>2. TypeOK' BY <2>1 DEF Inv, TypeOK, outVars
  <2>3. BufInv' /\ EndInv' BY <2>1 DEF Inv, BufInv, EndInv, AtEnd, outVars
  <2>4. PlaceInv' /\ OrderInv' /\ LineInv' BY <2>1, StillPlaced DEF Seen
  <2>5. QED BY <2>2, <2>3, <2>4 DEF Inv
<1>4. QED BY <1>1, <1>2, <1>3 DEF Program

\* read() gives the characters that follow.
LEMMA ReadStep ==
  ASSUME Inv, Read(j), buf = <<>>, pc \in {"pipe", "final"}, revents' \in [Pipes -> SUBSET {"in", "hup"}],
         UNCHANGED <<progVars, interrupted, pc, j, outVars>>
  PROVE  Inv'
<1>1. PICK n \in 1 .. MAXCHAR :
        /\ n <= Unread(j)
        /\ buf' = [i \in 1 .. n |-> [pipe |-> j, pos |-> count[j] + i]]
        /\ count' = [count EXCEPT ![j] = @ + n]
  BY DEF Read
<1>2. /\ count \in [Pipes -> Nat] /\ text \in [Pipes -> Seq(Kinds)] /\ j \in Pipes
      /\ \A p \in Pipes : count[p] <= Len(text[p])
      /\ UNCHANGED <<text, open, alive, interrupted, pc, j>>
  BY DEF Inv, TypeOK, progVars
<1>3. n \in Nat /\ n <= MAXCHAR /\ count[j] + n <= Len(text[j])
  BY <1>1, <1>2, SizeAssumption DEF Unread
<1>4. buf' \in Seq(Chars) /\ Len(buf') = n
  <2>1. \A i \in 1 .. n : [pipe |-> j, pos |-> count[j] + i] \in Chars
    BY <1>2, <1>3 DEF Chars
  <2>2. QED BY <1>1, <1>3, <2>1
<1>5. count' \in [Pipes -> Nat] /\ count'[j] = count[j] + n /\ \A p \in Pipes : p # j => count'[p] = count[p]
  BY <1>1, <1>2, <1>3
<1>6. TypeOK'
  <2>1. \A p \in Pipes : count'[p] <= Len(text[p]) BY <1>2, <1>3, <1>5
  <2>2. QED BY <2>1, <1>2, <1>3, <1>4, <1>5 DEF Inv, TypeOK, outVars
<1>7. BufInv'
  <2>1. \A i \in 1 .. n : buf'[i] = [pipe |-> j, pos |-> count'[j] - n + i]
    BY <1>1, <1>2, <1>3, <1>5
  <2>2. n <= count'[j] BY <1>2, <1>3, <1>5
  <2>3. Len(text[0]) + Len(text[1]) <= MaxChars BY DEF Inv, BufInv
  <2>4. QED BY <2>1, <2>2, <2>3, <1>2, <1>4 DEF BufInv
<1>8. EndInv'
  <2>1. j = 1 => count'[0] = count[0] BY <1>5 DEF Pipes
  <2>2. QED BY <2>1, <1>2 DEF Inv, EndInv, AtEnd
<1>9. \A p \in Pipes : Seen(p)' = Seen(p)
  BY <1>2, <1>3, <1>4, <1>5 DEF Seen
<1>10. PlaceInv' /\ OrderInv' /\ LineInv'
  BY <1>2, <1>9, StillPlaced
<1>11. QED BY <1>6, <1>7, <1>8, <1>10 DEF Inv

\* read_pipe and the final reads go on to the next pipe, poll() or stage.
LEMMA LoopStep ==
  ASSUME Inv, buf = <<>>, UNCHANGED <<progVars, count, buf, outVars>>,
         j' \in Pipes, pc' \in {"poll", "proc", "pipe", "final", "flush", "done"},
         interrupted' \subseteq Pipes,
         revents' \in [Pipes -> SUBSET {"in", "hup"}],
         pc' = "final" /\ j' = 1 => AtEnd(0)',
         pc' \in {"flush", "done"} => AtEnd(0)' /\ AtEnd(1)',
         pc' = "done" => pc = "wait"
  PROVE  Inv'
<1>1. UNCHANGED <<text, open, alive, count, buf>> BY DEF progVars
<1>2. TypeOK' BY <1>1 DEF Inv, TypeOK, outVars
<1>3. BufInv'
  <2>1. buf' = <<>> /\ Len(buf') = 0 BY <1>1
  <2>2. count'[j'] \in Nat BY <1>2 DEF TypeOK
  <2>3. Len(text'[0]) + Len(text'[1]) <= MaxChars BY <1>1 DEF Inv, BufInv
  <2>4. 0 <= count'[j'] /\ 1 .. 0 = {} BY <2>2
  <2>5. QED BY <2>1, <2>3, <2>4 DEF BufInv
<1>4. EndInv'
  BY <1>1 DEF Inv, EndInv, outVars
<1>5. \A p \in Pipes : Seen(p)' = Seen(p)
  BY <1>1 DEF Inv, TypeOK, Seen
<1>6. PlaceInv' /\ OrderInv' /\ LineInv'
  BY <1>1, <1>5, StillPlaced
<1>7. QED BY <1>2, <1>3, <1>4, <1>6 DEF Inv

\* The final reads of a pipe are over.
LEMMA NextPipe ==
  ASSUME Inv, buf = <<>>, UNCHANGED <<progVars, count, revents, buf, outVars>>, pc = "final",
         IF j = 0 THEN j' = 1 /\ pc' = "final" ELSE j' = 0 /\ pc' = "flush",
         interrupted \subseteq interrupted', interrupted' \subseteq Pipes,
         AtEnd(j) \/ j \in interrupted'
  PROVE  Inv'
<1>1. j \in Pipes /\ revents \in [Pipes -> SUBSET {"in", "hup"}] BY DEF Inv, TypeOK
<1>2. UNCHANGED <<text, open, count>> BY DEF progVars
<1>3. CASE j = 0
  <2>1. AtEnd(0)' BY <1>2, <1>3 DEF AtEnd
  <2>2. QED BY <1>1, <1>3, <2>1, LoopStep DEF Pipes
<1>4. CASE j = 1
  <2>1. AtEnd(0)' /\ AtEnd(1)' BY <1>2, <1>4 DEF Inv, EndInv, AtEnd
  <2>2. QED BY <1>1, <1>4, <2>1, LoopStep DEF Pipes
<1>5. QED BY <1>1, <1>3, <1>4 DEF Pipes

\* The end of main: what is left in the buffer is written.
LEMMA FlushStep ==
  ASSUME Inv, Flush
  PROVE  Inv'
<1>1. /\ pc = "flush" /\ pc' = "wait" /\ outbuf' = <<>> /\ cr_needed' = FALSE
      /\ UNCHANGED <<text, open, alive, count, interrupted, j, revents, buf, err_tagged, jnl_entry>>
      /\ journal' = (journal \o AddNewline) \o
                     (IF outbuf # <<>> THEN (Add("stdout") \o outbuf) \o Add("newline") ELSE <<>>)
  BY DEF Flush, progVars
<1>2. journal \in Seq(Items) /\ outbuf \in Seq(Items) /\ buf = <<>>
  BY <1>1 DEF Inv, TypeOK, BufInv, Items
<1>3. /\ Plain(AddNewline) /\ Plain(Add("stdout")) /\ Plain(Add("newline")) /\ Plain(<<>>)
      /\ AddNewline \in Seq(Items) /\ Add("stdout") \in Seq(Items) /\ Add("newline") \in Seq(Items)
  BY AddedIsPlain, TagIsPlain, NoItem DEF Plain
<1>4. /\ AddNewline \o Add("stdout") \in Seq(Items)
      /\ Plain(AddNewline \o Add("stdout"))
  <2>1. CharsOf(AddNewline) = {} /\ CharsOf(Add("stdout")) = {} BY <1>3 DEF Plain
  <2>2. QED BY <1>3, <2>1, ConcatChars DEF Plain
<1>5. Given' = Given
  <2>1. \A p \in Pipes : Seen(p)' = Seen(p) BY <1>1 DEF Seen
  <2>2. \A x : Kind(x)' = Kind(x) BY <1>1 DEF Kind
  <2>3. QED BY <2>1, <2>2 DEF Given
<1>6. /\ journal' \in Seq(Items) /\ CharsOf(journal') = Given /\ Once(journal') /\ Ordered(journal')
  <2>1. CASE outbuf # <<>>
    <3>1. journal' = (journal \o (AddNewline \o Add("stdout"))) \o (outbuf \o Add("newline"))
      <4>1. journal' = (journal \o AddNewline) \o ((Add("stdout") \o outbuf) \o Add("newline")) BY <1>1, <2>1
      <4>2. (Add("stdout") \o outbuf) \o Add("newline") = Add("stdout") \o (outbuf \o Add("newline"))
        BY <1>2, <1>3, ConcatAssoc, SMTT(30)
      <4>3. outbuf \o Add("newline") \in Seq(Items) /\ journal \o AddNewline \in Seq(Items)
        BY <1>2, <1>3, ConcatAssoc
      <4>4. (journal \o AddNewline) \o (Add("stdout") \o (outbuf \o Add("newline")))
              = ((journal \o AddNewline) \o Add("stdout")) \o (outbuf \o Add("newline"))
        <5> DEFINE s == journal \o AddNewline
                   t == Add("stdout")
                   u == outbuf \o Add("newline")
        <5>1. s \in Seq(Items) /\ t \in Seq(Items) /\ u \in Seq(Items) BY <1>3, <4>3
        <5> HIDE DEF s, t, u
        <5>2. (s \o t) \o u = s \o (t \o u) BY <5>1, ConcatAssoc
        <5>3. QED BY <5>2 DEF s, t, u
      <4>5. (journal \o AddNewline) \o Add("stdout") = journal \o (AddNewline \o Add("stdout"))
        BY <1>2, <1>3, ConcatAssoc
      <4>6. QED BY <4>1, <4>2, <4>4, <4>5
    <3>2. CharsOf(Add("newline")) = {} /\ Once(Add("newline")) /\ Ordered(Add("newline")) BY <1>3 DEF Plain
    <3>3. CharsOf(Add("newline")) \cap Given = {}
          /\ \A x \in Given, y \in CharsOf(Add("newline")) : Before(x, y)
      BY <3>2
    <3>4. QED BY <1>3, <1>4, <3>1, <3>2, <3>3, BufferWritten, ZenonT(40)
  <2>2. CASE outbuf = <<>>
    <3>1. journal' = (journal \o AddNewline) \o (outbuf \o <<>>)
      BY <1>1, <1>2, <1>3, <2>2
    <3>2. <<>> \in Seq(Items) /\ CharsOf(<<>>) = {} /\ Once(<<>>) /\ Ordered(<<>>) BY NoItem
    <3>3. CharsOf(<<>>) \cap Given = {} /\ \A x \in Given, y \in CharsOf(<<>>) : Before(x, y)
      BY <3>2
    <3>4. QED BY <1>3, <3>1, <3>2, <3>3, BufferWritten
  <2>3. QED BY <2>1, <2>2
<1>7. PlaceInv' /\ OrderInv'
  BY <1>1, <1>5, <1>6, BufferEmptied
<1>8. TypeOK'
  <2>1. cr_needed' \in BOOLEAN BY <1>1, Zenon
  <2>2. outbuf' \in Seq(Chars) /\ Len(outbuf') < MAXCHAR BY <1>1, SizeAssumption
  <2>3. QED BY <1>1, <1>6, <2>1, <2>2 DEF Inv, TypeOK, Items
<1>9. BufInv' /\ EndInv'
  BY <1>1, <1>2 DEF Inv, BufInv, EndInv, AtEnd
<1>10. LineInv'
  <2>1. CASE outbuf # <<>>
    <3>1. journal' = ((journal \o AddNewline) \o (Add("stdout") \o outbuf)) \o Add("newline")
          /\ (journal \o AddNewline) \o (Add("stdout") \o outbuf) \in Seq(Items)
      BY <1>1, <1>2, <1>3, <2>1
    <3>2. QED BY <1>1, <1>3, <3>1, LineEnds, EndingTag
  <2>2. CASE outbuf = <<>> /\ cr_needed
    <3>1. journal' = journal \o Add("newline")
      BY <1>1, <1>2, <1>3, <2>2 DEF AddNewline
    <3>2. QED BY <1>1, <1>2, <1>3, <3>1, LineEnds, EndingTag
  <2>3. CASE outbuf = <<>> /\ ~cr_needed
    <3>1. journal' = journal
      BY <1>1, <1>2, <1>3, <2>3 DEF AddNewline
    <3>2. \A x : Ends(x)' <=> Ends(x) BY <1>1 DEF Ends, Kind
    <3>3. QED BY <1>1, <2>3, <3>1, <3>2 DEF Inv, LineInv
  <2>4. QED BY <2>1, <2>2, <2>3
<1>11. QED BY <1>7, <1>8, <1>9, <1>10 DEF Inv

\* stf_jnl_context
LEMMA ContextStep ==
  ASSUME Inv, Context
  PROVE  Inv'
<1>1. j \in Pipes /\ revents \in [Pipes -> SUBSET {"in", "hup"}] /\ 0 \in Pipes /\ 1 \in Pipes
      /\ interrupted \subseteq Pipes
  BY DEF Inv, TypeOK, Pipes
<1>2. CASE PollPipes
  <2>1. revents' \in [Pipes -> SUBSET {"in", "hup"}] BY <1>2 DEF PollPipes, Events
  <2>2. buf = <<>> BY <1>2 DEF PollPipes, Inv, BufInv
  <2>3. QED BY <1>1, <1>2, <2>1, <2>2, LoopStep DEF PollPipes
<1>3. CASE PollSilent
  <2>1. revents' \in [Pipes -> SUBSET {"in", "hup"}] BY <1>3 DEF PollSilent
  <2>2. buf = <<>> BY <1>3 DEF PollSilent, Inv, BufInv
  <2>3. QED BY <1>1, <1>3, <2>1, <2>2, LoopStep DEF PollSilent
<1>4. CASE PollProc
  <2>1. buf = <<>> BY <1>4 DEF PollProc, Inv, BufInv
  <2>2. QED BY <1>1, <1>4, <2>1, LoopStep DEF PollProc
<1>5. CASE PipeIn
  <2>1. revents' \in [Pipes -> SUBSET {"in", "hup"}] BY <1>1, <1>5 DEF PipeIn
  <2>2. QED BY <1>1, <1>5, <2>1, ReadStep DEF PipeIn
<1>6. CASE PipeHup
  BY <1>1, <1>6, LoopStep DEF PipeHup
<1>7. CASE PipeDone
  BY <1>1, <1>7, LoopStep DEF PipeDone
<1>8. CASE FinalRead
  BY <1>1, <1>8, ReadStep DEF FinalRead
<1>9. CASE FinalEnd
  <2>1. AtEnd(j)
    <3>1. count[j] \in Nat /\ Len(text[j]) \in Nat BY <1>1 DEF Inv, TypeOK
    <3>2. QED BY <1>9, <3>1 DEF FinalEnd, Unread, AtEnd
  <2>2. QED BY <1>1, <1>9, <2>1, NextPipe DEF FinalEnd
<1>10. ASSUME NEW p \in Pipes, NEW i \in 1 .. MaxChars, write_pipe([pipe |-> p, pos |-> i]) PROVE Inv'
  BY <1>10, CharStep
<1>11. CASE Flush BY <1>11, FlushStep
<1>12. CASE WaitProgram
  <2>1. buf = <<>> /\ AtEnd(0)' /\ AtEnd(1)'
    BY <1>12 DEF WaitProgram, Inv, BufInv, EndInv, AtEnd, progVars
  <2>2. QED BY <1>1, <1>12, <2>1, LoopStep DEF WaitProgram
<1>13. QED
  BY <1>2, <1>3, <1>4, <1>5, <1>6, <1>7, <1>8, <1>9, <1>10, <1>11, <1>12 DEF Context

\* A signal, or an error of poll().
LEMMA SignalStep ==
  ASSUME Inv, Signal
  PROVE  Inv'
<1>1. j \in Pipes /\ revents \in [Pipes -> SUBSET {"in", "hup"}] /\ interrupted \subseteq Pipes
  BY DEF Inv, TypeOK
<1>2. CASE PollError
  <2>1. buf = <<>> BY <1>2 DEF PollError, Inv, BufInv
  <2>2. QED BY <1>1, <1>2, <2>1, LoopStep DEF PollError, Pipes
<1>3. CASE FinalInterrupted
  <2>1. interrupted' \subseteq Pipes /\ j \in interrupted' BY <1>1, <1>3 DEF FinalInterrupted
  <2>2. QED BY <1>1, <1>3, <2>1, NextPipe DEF FinalInterrupted
<1>4. QED BY <1>2, <1>3 DEF Signal
-----------------------------------------------------------------------------
\* At first there is nothing.
LEMMA Initially == Init => Inv
<1> SUFFICES ASSUME Init PROVE Inv
  OBVIOUS
<1>1. TypeOK BY SizeAssumption, SMTT(30) DEF Init, TypeOK, Pipes
<1>2. BufInv /\ EndInv BY BoundAssumption DEF Init, BufInv, EndInv, Pipes
<1>3. Seen(0) = 0 /\ Seen(1) = 0 BY DEF Init, Seen, Pipes
<1>4. Given = {} BY <1>3, BoundAssumption DEF Given, Pipes
<1>5. PlaceInv /\ OrderInv BY <1>4, NoItem DEF Init, PlaceInv, OrderInv
<1>6. LineInv BY DEF Init, LineInv
<1>7. QED BY <1>1, <1>2, <1>5, <1>6 DEF Inv

\* Inv is an invariant of stf_jnl_context and its program.
THEOREM Invariance == Spec => []Inv
<1>1. ASSUME Inv, [Next]_vars PROVE Inv'
  <2>1. CASE UNCHANGED vars
    <3>1. UNCHANGED <<text, open, alive, count, interrupted, pc, j, revents, buf, journal, outbuf, err_tagged, jnl_entry, cr_needed>>
      BY <2>1 DEF vars, progVars, loopVars, outVars
    <3>2. TypeOK' /\ BufInv' /\ EndInv' BY <1>1, <3>1 DEF Inv, TypeOK, BufInv, EndInv, AtEnd
    <3>3. PlaceInv' /\ OrderInv' /\ LineInv' BY <1>1, <3>1, StillPlaced DEF outVars, Seen
    <3>4. QED BY <3>2, <3>3 DEF Inv
  <2>2. CASE Program BY <1>1, <2>2, ProgramStep
  <2>3. CASE Context BY <1>1, <2>3, ContextStep
  <2>4. CASE Signal BY <1>1, <2>4, SignalStep
  <2>5. QED BY <1>1, <2>1, <2>2, <2>3, <2>4 DEF Next
<1>2. QED BY Initially, <1>1, PTL DEF Spec

\* The line buffer never holds as much as a line of stdout may have, and a read
\* no more than asked for.
THEOREM TypeCorrect == Spec => []TypeOK
<1>1. Inv => TypeOK BY DEF Inv
<1>2. QED BY Invariance, <1>1, PTL

\* Every character that a program writes, but for the NULs of stdout, gets into
\* the journal, and once; unless a signal ended the final reads of its pipe
\* before it was written.
THEOREM EverythingIsJournalled == Spec => []NothingLost
<1>1. Inv => NothingLost
  <2> SUFFICES ASSUME Inv PROVE NothingLost
    OBVIOUS
  <2>1. journal \in Seq(Items) /\ outbuf \in Seq(Items) BY DEF Inv, TypeOK, Items
  <2>2. CharsOf(Placed) = Given /\ Once(Placed)
    BY <2>1, ConcatChars DEF Inv, PlaceInv, Placed
  <2>3. ToSet(Placed) \ Extra = Given
    BY <2>2 DEF CharsOf, ToSet
  <2>4. ASSUME NEW p \in Pipes, NEW i \in 1 .. MaxChars
        PROVE  i \in Handled(p) <=> i <= Seen(p)
    <3>1. /\ buf \in Seq(Chars) /\ j \in Pipes /\ count[p] \in Nat /\ Len(buf) \in Nat
          /\ Len(buf) <= count[j]
          /\ \A k \in 1 .. Len(buf) : buf[k] = [pipe |-> j, pos |-> count[j] - Len(buf) + k]
      BY DEF Inv, TypeOK, BufInv
    <3>2. CASE p # j
      <4>1. \A k \in 1 .. Len(buf) : buf[k].pipe = j
        <5>1. \A x : [pipe |-> j, pos |-> x].pipe = j OBVIOUS
        <5>2. QED BY <3>1, <5>1, Zenon
      <4>2. [pipe |-> p, pos |-> i].pipe = p OBVIOUS
      <4>3. ~Contains(buf, [pipe |-> p, pos |-> i]) BY <3>2, <4>1, <4>2 DEF Contains
      <4>4. QED BY <3>1, <3>2, <4>3, BoundAssumption DEF Handled, Seen
    <3>3. CASE p = j
      <4>1. ASSUME i \in 1 .. count[j]
            PROVE  Contains(buf, [pipe |-> p, pos |-> i]) <=> i > count[j] - Len(buf)
        <5>1. ASSUME i > count[j] - Len(buf) PROVE Contains(buf, [pipe |-> p, pos |-> i])
          <6>1. i - (count[j] - Len(buf)) \in 1 .. Len(buf) BY <3>1, <3>3, <4>1, <5>1
          <6>2. buf[i - (count[j] - Len(buf))] = [pipe |-> p, pos |-> i]
            BY <3>1, <3>3, <4>1, <6>1
          <6>3. QED BY <6>1, <6>2 DEF Contains
        <5>2. ASSUME Contains(buf, [pipe |-> p, pos |-> i]) PROVE i > count[j] - Len(buf)
          <6>1. PICK k \in 1 .. Len(buf) : buf[k] = [pipe |-> p, pos |-> i] BY <5>2 DEF Contains
          <6>2. [pipe |-> p, pos |-> i].pos = i
                /\ [pipe |-> j, pos |-> count[j] - Len(buf) + k].pos = count[j] - Len(buf) + k
            OBVIOUS
          <6>3. [pipe |-> p, pos |-> i] = [pipe |-> j, pos |-> count[j] - Len(buf) + k] BY <3>1, <6>1
          <6>4. i = count[j] - Len(buf) + k BY <6>2, <6>3
          <6>5. count[j] \in Nat /\ Len(buf) \in Nat /\ k \in Nat /\ k >= 1 BY <3>1, <3>3
          <6>6. QED BY <6>4, <6>5
        <5>3. QED BY <5>1, <5>2
      <4>2. QED BY <3>1, <3>3, <4>1, BoundAssumption DEF Handled, Seen
    <3>4. QED BY <3>2, <3>3
  <2>5. Given = {c \in [pipe : Pipes, pos : 1 .. MaxChars] :
                  c.pos \in Handled(c.pipe) /\ ~(c.pipe = 0 /\ Kind(c) = "nul")}
    BY <2>4 DEF Given
  <2>6. pc \in {"wait", "done"} => outbuf = <<>> /\ buf = <<>>
          /\ \A p \in Pipes \ interrupted : count[p] = Len(text[p])
    BY DEF Inv, BufInv, EndInv, AtEnd, Pipes
  <2>7. \A k, l \in DOMAIN Placed : Placed[k] = Placed[l] /\ Placed[k] \notin Extra => k = l
    BY <2>2 DEF Once
  <2>8. QED BY <2>3, <2>5, <2>6, <2>7 DEF NothingLost
<1>2. QED BY Invariance, <1>1, PTL

\* Characters of a pipe keep their order, but for journal entries, which may
\* overtake the line of stdout that is in the buffer.
THEOREM OrderIsKept == Spec => []InOrder
<1>1. Inv => InOrder
  <2> SUFFICES ASSUME Inv PROVE InOrder
    OBVIOUS
  <2>1. journal \in Seq(Items) /\ outbuf \in Seq(Items) BY DEF Inv, TypeOK, Items
  <2>2. Ordered(Placed) BY <2>1, ConcatChars DEF Inv, OrderInv, Placed
  <2>3. QED BY <2>2 DEF Ordered, InOrder
<1>2. QED BY Invariance, <1>1, PTL

\* What others append to the journal begins on a line of its own.
THEOREM LinesAreEnded == Spec => []LineEnded
<1>1. Inv => LineEnded
  <2> SUFFICES ASSUME Inv PROVE LineEnded
    OBVIOUS
  <2>1. pc = "done" => ~cr_needed BY DEF Inv, EndInv
  <2>2. QED BY <2>1 DEF Inv, LineInv, LineEnded, Ends
<1>2. QED BY Invariance, <1>1, PTL
=============================================================================
