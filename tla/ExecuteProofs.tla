---------------------------- MODULE ExecuteProofs ----------------------------
(***************************************************************************)
(* The safety properties of Execute, for every tree of directories and any *)
(* number of modes.                                                        *)
(*                                                                         *)
(* Every directory is entered once: what lies ahead of the run, in the     *)
(* lists of subdirectories of the calls on the stack, is untouched.  A     *)
(* directory whose cleanup is still to come is on the stack or in the list *)
(* of the directories above, and those below it are behind the run.        *)
(***************************************************************************)
EXTENDS Execute, TLAPS

\* The options of a call, which do not change within a step, and how far a call
\* has come with them.
StepOptions ==
  CASE step = "parents" -> <<"v", "k", "s">>
    [] step = "start" -> <<"v", "k", "s">> \o flags \o <<"c">>
    [] OTHER -> <<"c">>
OptionsLeft(f) ==
  /\ f.all = StepOptions
  /\ Len(f.opts) <= Len(f.all)
  /\ \A i \in 1 .. Len(f.opts) : f.opts[i] = f.all[Len(f.all) - Len(f.opts) + i]
Before(f) == Len(f.opts) + 2 >= Len(f.all)   \* the setup is still to come

\* Nothing has happened in or below d.
Within(x, d) == x = d \/ d \in Above[x]
Clear(x) == setup[x] = "none" /\ x \notin tested /\ x \notin cleaned /\ x \notin bad
Untouched(d) == \A x \in Dirs : Within(x, d) => Clear(x)

\* Test cases may run below a directory above the start directory.
Ready(d) == d \notin bad /\ (kind[d] = "skipped" \/ (kind[d] = "runs" /\ setup[d] = "done"))

\* Which calls there can be.
StackInv ==
  /\ \A i \in DOMAIN stack : OptionsLeft(stack[i]) /\ kind[stack[i].dir] = "runs"
  /\ step # "start" => Len(stack) <= 1 /\ (stack # <<>> => status = "none")
  /\ step \in {"end", "exit"} => stack = <<>> /\ status = "none"
  /\ \A d \in Dirs : kind[d] # "runs" => setup[d] = "none"
  /\ exited => step \in {"end", "exit"}

\* The exit status: what has failed is noted in one of the places that lead to it.
Noted == overallFail \/ modeFail \/ status = "failed" \/ \E i \in DOMAIN stack : stack[i].failed
FailInv ==
  /\ Noted => trouble
  /\ trouble => Noted \/ dropped
  /\ step \in {"end", "exit"} /\ modeFail => overallFail \/ dropped

\* The setups of the directories above.
ParentsInv ==
  step = "parents" =>
    /\ tested = {} /\ cleaned = {}
    /\ \A d \in Dirs : setup[d] # "none" \/ d \in bad => d \in ToSet(passed)
    /\ stack # <<>> => passed # <<>> /\ stack[1].dir = passed[1]
    /\ stack # <<>> /\ ~stack[1].failed =>
         passed[1] \notin bad /\ (stack[1].opts = <<>> => setup[passed[1]] = "done")
    /\ \A i \in DOMAIN passed : i > 1 \/ (stack = <<>> /\ status # "failed") => Ready(passed[i])
    /\ ToSet(passed) \cup ToSet(todo) = ToSet(Parents)
    /\ \A i \in DOMAIN passed, k \in DOMAIN todo : passed[i] \in Above[todo[k]]
    /\ \A i, k \in DOMAIN todo : i < k => todo[i] \in Above[todo[k]]

\* stf_reverse_parentdirs goes up.
PassedInv ==
  step \in {"parents", "start"} => \A i, k \in DOMAIN passed : i < k => passed[k] \in Above[passed[i]]

\* A call of stf_executeindir in the start directory or below.
CallInv(f) ==
  /\ Within(f.dir, Start)
  /\ f.opts # <<>> /\ Before(f) => Untouched(f.dir)
  /\ f.opts # <<>> /\ ~Before(f) =>
       /\ setup[f.dir] # "none" /\ f.dir \notin bad
       /\ setup[f.dir] = "failed" => f.noexec /\ f.norecurse
  /\ f.opts # <<>> => f.dir \notin cleaned
  /\ f.opts = <<>> /\ setup[f.dir] # "none" => f.dir \in cleaned

\* Its subdirectories that are still to be entered.
SubsInv(f) ==
  /\ \A m \in DOMAIN f.subs : Above[f.subs[m]] = Above[f.dir] \cup {f.dir} /\ Untouched(f.subs[m])
  /\ \A m, n \in DOMAIN f.subs : f.subs[m] = f.subs[n] => m = n

\* The stack is a path.
PathInv ==
  /\ \A i, k \in DOMAIN stack : i < k =>
       /\ stack[i].dir \in Above[stack[k].dir]
       /\ \A m \in DOMAIN stack[i].subs : ~Within(stack[k].dir, stack[i].subs[m])
  /\ \A k \in DOMAIN stack : \A a \in Above[stack[k].dir] :
       a \in Above[Start] \/ \E i \in DOMAIN stack : i < k /\ stack[i].dir = a
  /\ \A i \in DOMAIN stack : i < Len(stack) \/ status # "none" =>
       stack[i].opts # <<>> /\ stack[i].opts[1] = "r" /\ ~stack[i].norecurse

StartInv ==
  step = "start" =>
    /\ \A i \in DOMAIN stack : CallInv(stack[i]) /\ SubsInv(stack[i])
    /\ PathInv
    /\ ToSet(passed) = Above[Start]
    /\ \A p \in Above[Start] : Ready(p) /\ p \notin cleaned

\* The cleanups of the directories above.
CleanupInv ==
  step = "cleanup" =>
    /\ ToSet(todo) \subseteq Above[Start]
    /\ \A i, k \in DOMAIN todo : i < k => todo[k] \in Above[todo[i]]
    /\ stack # <<>> => stack[1].dir \in Above[Start] /\ \A k \in DOMAIN todo : todo[k] \in Above[stack[1].dir]
    /\ stack # <<>> /\ stack[1].opts = <<>> => stack[1].dir \in cleaned

\* Whose cleanup is still to come, or will not come.
Lost(d) == d \in Above[Start] /\ (exited \/ d \in uncleaned)
CoverInv == \A d \in Dirs : setup[d] # "none" =>
  \/ d \in cleaned
  \/ \E i \in DOMAIN stack : stack[i].dir = d
  \/ (step \in {"parents", "start"} /\ d \in ToSet(passed))
  \/ (step = "cleanup" /\ d \in ToSet(todo))
  \/ Lost(d)

Inv ==
  /\ TypeOK /\ StackInv /\ FailInv /\ ParentsInv /\ PassedInv /\ StartInv /\ CleanupInv /\ CoverInv
  /\ NoTestAfterFailure /\ CleanedInside
-----------------------------------------------------------------------------
(* Facts about the options of a call and about the tree.                   *)

\* Two lists of options together.
LEMMA Concatenated ==
  ASSUME NEW s \in Seq(Options), NEW t \in Seq(Options)
  PROVE  /\ s \o t \in Seq(Options) /\ Len(s \o t) = Len(s) + Len(t)
         /\ \A i \in 1 .. Len(s) : (s \o t)[i] = s[i]
         /\ \A i \in 1 .. Len(t) : (s \o t)[Len(s) + i] = t[i]
OBVIOUS

\* The options of a call in the start directory or below.
LEMMA StartOptions ==
  ASSUME TypeOK, step = "start"
  PROVE  /\ StepOptions \in Seq(Options) /\ Len(StepOptions) \in {5, 6}
         /\ StepOptions[1] = "v" /\ StepOptions[2] = "k" /\ StepOptions[3] = "s"
         /\ \A i \in 4 .. Len(StepOptions) - 1 : StepOptions[i] \in {"e", "i", "r"}
         /\ StepOptions[Len(StepOptions)] = "c"
<1> DEFINE s == <<"v", "k", "s">>
           u == <<"c">>
           n == Len(flags)
<1>1. StepOptions = (s \o flags) \o u BY DEF StepOptions
<1>2. /\ s \in Seq(Options) /\ Len(s) = 3 /\ s[1] = "v" /\ s[2] = "k" /\ s[3] = "s"
      /\ u \in Seq(Options) /\ Len(u) = 1 /\ u[1] = "c"
  BY DEF Options
<1>3. flags \in Seq(Options) /\ n \in {1, 2} /\ \A i \in 1 .. n : flags[i] \in {"e", "i", "r"}
  <2>1. CASE flags = <<"e", "r">>
    <3>1. flags \in Seq(Options) /\ Len(flags) = 2 /\ flags[1] = "e" /\ flags[2] = "r" BY <2>1 DEF Options
    <3>2. QED BY <3>1
  <2>2. CASE flags = <<"e">>
    <3>1. flags \in Seq(Options) /\ Len(flags) = 1 /\ flags[1] = "e" BY <2>2 DEF Options
    <3>2. QED BY <3>1
  <2>3. CASE flags = <<"i">>
    <3>1. flags \in Seq(Options) /\ Len(flags) = 1 /\ flags[1] = "i" BY <2>3 DEF Options
    <3>2. QED BY <3>1
  <2>4. QED BY <2>1, <2>2, <2>3 DEF TypeOK
<1> HIDE DEF s, u
<1>4. /\ s \o flags \in Seq(Options) /\ Len(s \o flags) = 3 + n
      /\ \A i \in 1 .. 3 : (s \o flags)[i] = s[i]
      /\ \A i \in 1 .. n : (s \o flags)[3 + i] = flags[i]
  <2>1. /\ s \o flags \in Seq(Options) /\ Len(s \o flags) = Len(s) + Len(flags)
        /\ \A i \in 1 .. Len(s) : (s \o flags)[i] = s[i]
        /\ \A i \in 1 .. Len(flags) : (s \o flags)[Len(s) + i] = flags[i]
    BY <1>2, <1>3, Concatenated
  <2>2. QED BY <1>2, <2>1
<1> HIDE DEF n
<1> DEFINE t == s \o flags
<1> HIDE DEF t
<1>5. /\ t \o u \in Seq(Options) /\ Len(t \o u) = 4 + n
      /\ \A i \in 1 .. 3 + n : (t \o u)[i] = t[i]
      /\ (t \o u)[4 + n] = u[1]
  <2>1. t \in Seq(Options) /\ Len(t) = 3 + n BY <1>4 DEF t
  <2>2. /\ t \o u \in Seq(Options) /\ Len(t \o u) = Len(t) + Len(u)
        /\ \A i \in 1 .. Len(t) : (t \o u)[i] = t[i]
        /\ \A i \in 1 .. Len(u) : (t \o u)[Len(t) + i] = u[i]
    BY <1>2, <2>1, Concatenated
  <2>3. (3 + n) + 1 = 4 + n /\ 1 \in 1 .. 1 BY <1>3
  <2>4. (t \o u)[(3 + n) + 1] = u[1] BY <1>2, <2>1, <2>2, <2>3
  <2>5. Len(t \o u) = (3 + n) + 1 BY <1>2, <2>1, <2>2
  <2>6. QED BY <2>1, <2>2, <2>3, <2>4, <2>5
<1>6. \A i \in 4 .. 3 + n : i - 3 \in 1 .. n /\ 3 + (i - 3) = i BY <1>3
<1>7. 4 + n \in {5, 6} /\ (4 + n) - 1 = 3 + n /\ 1 .. 3 \subseteq 1 .. 3 + n /\ 4 .. 3 + n \subseteq 1 .. 3 + n
  BY <1>3
<1>8. ASSUME NEW i \in 4 .. 3 + n PROVE (t \o u)[i] \in {"e", "i", "r"}
  <2>1. (t \o u)[i] = t[i] BY <1>5, <1>7
  <2>2. i - 3 \in 1 .. n /\ 3 + (i - 3) = i BY <1>6
  <2>3. t[3 + (i - 3)] = flags[i - 3] BY <1>4, <2>2 DEF t
  <2>4. QED BY <1>3, <2>1, <2>2, <2>3
<1>9. \A i \in 1 .. 3 : (t \o u)[i] = s[i] BY <1>4, <1>5, <1>7 DEF t
<1>10. StepOptions = t \o u BY <1>1 DEF t
<1>11. (t \o u)[1] = "v" /\ (t \o u)[2] = "k" /\ (t \o u)[3] = "s"
  <2>1. 1 \in 1 .. 3 /\ 2 \in 1 .. 3 /\ 3 \in 1 .. 3 OBVIOUS
  <2>2. QED BY <1>2, <1>9, <2>1
<1>12. Len(t \o u) \in {5, 6} /\ \A i \in 4 .. Len(t \o u) - 1 : (t \o u)[i] \in {"e", "i", "r"}
  BY <1>5, <1>7, <1>8
<1>13. QED BY <1>2, <1>5, <1>10, <1>11, <1>12

\* Those of a call in a directory above.
LEMMA ParentOptions ==
  /\ step = "parents" => StepOptions = <<"v", "k", "s">> /\ Len(StepOptions) = 3
  /\ step \notin {"parents", "start"} => StepOptions = <<"c">> /\ Len(StepOptions) = 1
  /\ <<"v", "k", "s">> \in Seq(Options) /\ <<"c">> \in Seq(Options)
BY DEF StepOptions, Options

\* Where a call is, by the option it comes to next.
LEMMA WhereItIs ==
  ASSUME TypeOK, NEW f \in Frames, OptionsLeft(f), f.opts # <<>>
  PROVE  /\ f.opts \in Seq(Options) /\ Len(f.opts) \in Nat \ {0} /\ f.opts[1] \in Options
         /\ step = "start" /\ f.opts[1] \in {"v", "k"} => Len(f.opts) + 1 >= Len(f.all)
         /\ step = "start" /\ f.opts[1] = "s" => Len(f.opts) + 2 = Len(f.all)
         /\ step = "start" /\ f.opts[1] \in {"e", "i", "r"} => ~Before(f) /\ Len(f.opts) >= 2
         /\ step = "start" /\ f.opts[1] = "c" => ~Before(f) /\ Len(f.opts) = 1
         /\ step = "start" => Len(f.all) \in {5, 6}
         /\ step = "parents" => /\ f.opts[1] \in {"v", "k", "s"}
                                /\ f.opts[1] \in {"v", "k"} => Len(f.opts) >= 2
                                /\ f.opts[1] = "s" => Len(f.opts) = 1
         /\ step \notin {"parents", "start"} => f.opts[1] = "c" /\ Len(f.opts) = 1
<1> DEFINE n == Len(f.all)
           m == Len(f.opts)
           p == n - m + 1
<1>1. f.opts \in Seq(Options) /\ f.all \in Seq(Options) BY DEF Frames
<1>2. m \in Nat \ {0} /\ n \in Nat /\ m <= n BY <1>1 DEF OptionsLeft
<1>3. 1 \in 1 .. m BY <1>2
<1>4. f.opts[1] \in Options BY <1>1, <1>3
<1>5. f.opts[1] = f.all[n - m + 1] /\ f.all = StepOptions BY <1>3 DEF OptionsLeft
<1>6. Before(f) <=> m + 2 >= n BY DEF Before
<1> HIDE DEF n, m
<1>7. p = n - m + 1 /\ p \in 1 .. n /\ StepOptions[p] = f.opts[1] BY <1>2, <1>5
<1> HIDE DEF p
<1>8. n = Len(StepOptions) BY <1>5 DEF n
<1>9. ASSUME step = "start"
      PROVE  /\ f.opts[1] \in {"v", "k"} => m + 1 >= n
             /\ f.opts[1] = "s" => m + 2 = n
             /\ f.opts[1] \in {"e", "i", "r"} => ~Before(f) /\ m >= 2
             /\ f.opts[1] = "c" => ~Before(f) /\ m = 1
             /\ n \in {5, 6}
  <2>1. n \in {5, 6} BY <1>8, <1>9, StartOptions
  <2>2. CASE p = 1
    <3>1. f.opts[1] = "v" BY <2>2, <1>7, <1>9, StartOptions
    <3>2. m + 0 = n BY <2>2, <1>2, <1>7
    <3>3. QED BY <2>1, <3>1, <3>2, <1>2
  <2>3. CASE p = 2
    <3>1. f.opts[1] = "k" BY <2>3, <1>7, <1>9, StartOptions
    <3>2. m + 1 = n BY <2>3, <1>2, <1>7
    <3>3. QED BY <2>1, <3>1, <3>2, <1>2
  <2>4. CASE p = 3
    <3>1. f.opts[1] = "s" BY <2>4, <1>7, <1>9, StartOptions
    <3>2. m + 2 = n BY <2>4, <1>2, <1>7
    <3>3. QED BY <2>1, <3>1, <3>2, <1>2
  <2>5. CASE p \in 4 .. n - 1
    <3>1. f.opts[1] \in {"e", "i", "r"} BY <2>5, <1>7, <1>8, <1>9, StartOptions
    <3>2. m >= 2 /\ ~(m + 2 >= n) BY <2>1, <2>5, <1>2, <1>7
    <3>3. QED BY <2>1, <3>1, <3>2, <1>6
  <2>6. CASE p = n
    <3>1. f.opts[1] = "c" BY <2>6, <1>7, <1>8, <1>9, StartOptions
    <3>2. m = 1 /\ ~(m + 2 >= n) BY <2>1, <2>6, <1>2, <1>7
    <3>3. QED BY <2>1, <3>1, <3>2, <1>6
  <2>7. QED BY <2>1, <2>2, <2>3, <2>4, <2>5, <2>6, <1>7
<1>10. ASSUME step = "parents"
       PROVE  /\ f.opts[1] \in {"v", "k", "s"}
              /\ f.opts[1] \in {"v", "k"} => m >= 2
              /\ f.opts[1] = "s" => m = 1
  <2>1. n = 3 /\ StepOptions = <<"v", "k", "s">> BY <1>8, <1>10, ParentOptions
  <2>2. p \in {1, 2, 3} BY <2>1, <1>7
  <2>3. QED BY <2>1, <2>2, <1>2, <1>7
<1>11. ASSUME step \notin {"parents", "start"} PROVE f.opts[1] = "c" /\ m = 1
  <2>1. n = 1 /\ StepOptions = <<"c">> BY <1>8, <1>11, ParentOptions
  <2>2. QED BY <2>1, <1>2, <1>7
<1>12. QED BY <1>1, <1>2, <1>4, <1>9, <1>10, <1>11 DEF n, m

\* One option is done, or all are given up.
LEMMA OptionDone ==
  ASSUME NEW f \in Frames, NEW g \in Frames, OptionsLeft(f), f.opts # <<>>, g.all = f.all,
         g.opts \in {f.opts, Tail(f.opts), <<>>}
  PROVE  OptionsLeft(g)
<1>1. f.opts \in Seq(Options) /\ f.all \in Seq(Options) BY DEF Frames
<1>2. CASE g.opts = f.opts BY <1>2 DEF OptionsLeft
<1>3. CASE g.opts = <<>>
  <2>1. Len(g.opts) = 0 /\ Len(g.all) \in Nat BY <1>1, <1>3
  <2>2. 0 <= Len(g.all) /\ 1 .. 0 = {} BY <2>1
  <2>3. QED BY <2>1, <2>2 DEF OptionsLeft
<1>4. CASE g.opts = Tail(f.opts)
  <2> DEFINE n == Len(f.all)
             m == Len(f.opts)
  <2>1. m \in Nat \ {0} /\ n \in Nat /\ m <= n BY <1>1 DEF OptionsLeft
  <2>2. Len(g.opts) = m - 1 /\ \A i \in 1 .. m - 1 : g.opts[i] = f.opts[i + 1] BY <1>1, <1>4
  <2>3. \A i \in 1 .. m : f.opts[i] = f.all[n - m + i] BY DEF OptionsLeft
  <2> HIDE DEF n, m
  <2>4. \A i \in 1 .. m - 1 : i + 1 \in 1 .. m /\ n - m + (i + 1) = n - (m - 1) + i BY <2>1
  <2>5. \A i \in 1 .. m - 1 : g.opts[i] = f.all[n - (m - 1) + i] BY <2>2, <2>3, <2>4
  <2>6. m - 1 <= n BY <2>1
  <2>7. QED BY <2>2, <2>5, <2>6 DEF OptionsLeft, n, m
<1>5. QED BY <1>2, <1>3, <1>4

\* No directory is below itself.
LEMMA Tree ==
  /\ \A d \in Dirs : Above[d] \subseteq Dirs /\ d \notin Above[d]
  /\ \A a, b, c \in Dirs : a \in Above[b] /\ b \in Above[c] => a \in Above[c]
BY TreeAssumption

\* The options of a call depend on the step.
LEMMA SameOptions ==
  ASSUME UNCHANGED <<step, flags>>
  PROVE  StepOptions' = StepOptions /\ \A f : OptionsLeft(f)' <=> OptionsLeft(f)
<1>1. StepOptions' = StepOptions BY DEF StepOptions
<1>2. QED BY <1>1 DEF OptionsLeft
-----------------------------------------------------------------------------
(* stf_executeindir.                                                       *)

\* What happens in one directory stays there.
Only(d) ==
  /\ \A x \in Dirs : x # d =>
       /\ setup'[x] = setup[x]
       /\ (x \in tested') = (x \in tested) /\ (x \in cleaned') = (x \in cleaned) /\ (x \in bad') = (x \in bad)
  /\ setup' \in [Dirs -> {"none", "failed", "done"}]
  /\ tested' \subseteq Dirs /\ cleaned' \subseteq Dirs /\ bad' \subseteq Dirs

\* It does not touch what is not above it.
LEMMA StillUntouched ==
  ASSUME NEW d \in Dirs, NEW y \in Dirs, Only(d), ~Within(d, y), Untouched(y)
  PROVE  Untouched(y)'
BY DEF Only, Untouched, Within, Clear

\* The last frame of the stack is replaced.
LEMMA TopChanged ==
  ASSUME NEW s \in Seq(Frames), s # <<>>, NEW g \in Frames
  PROVE  LET t == [s EXCEPT ![Len(s)] = g] IN
         /\ t \in Seq(Frames) /\ Len(t) = Len(s) /\ DOMAIN t = 1 .. Len(s)
         /\ t[Len(s)] = g /\ \A i \in 1 .. Len(s) : i # Len(s) => t[i] = s[i]
<1> DEFINE n == Len(s)
           t == [s EXCEPT ![Len(s)] = g]
<1>1. n \in Nat \ {0} /\ DOMAIN s = 1 .. n /\ n \in 1 .. n /\ \A i \in 1 .. n : s[i] \in Frames OBVIOUS
<1> HIDE DEF n, t
<1>2. t = [s EXCEPT ![n] = g] BY DEF n, t
<1>3. DOMAIN t = 1 .. n /\ t[n] = g /\ \A i \in 1 .. n : i # n => t[i] = s[i] BY <1>1, <1>2
<1>4. t = [i \in 1 .. n |-> t[i]] BY <1>1, <1>2
<1>5. \A i \in 1 .. n : t[i] \in Frames BY <1>1, <1>3
<1>6. t \in Seq(Frames) /\ Len(t) = n BY <1>1, <1>4, <1>5
<1>7. QED BY <1>3, <1>6, Zenon DEF n, t

\* The innermost call goes on.
LEMMA TopStep ==
  ASSUME Inv, stack # <<>>, NEW g \in Frames, OptionsLeft(g),
         stack' = [stack EXCEPT ![Len(stack)] = g], status' = "none",
         g.dir = dir, g.all = top.all, g.subs = top.subs,
         UNCHANGED <<kind, driver>>, Only(dir),
         NEW E \in BOOLEAN, trouble' = (trouble \/ E), g.failed = (top.failed \/ status = "failed" \/ E),
         step = "parents" =>
           /\ UNCHANGED <<tested, cleaned>>
           /\ ~g.failed => dir \notin bad' /\ (g.opts = <<>> => setup'[dir] = "done"),
         step = "start" => CallInv(g)' /\ (\A p \in Above[Start] : p \notin cleaned => p \notin cleaned'),
         step = "cleanup" /\ g.opts = <<>> => dir \in cleaned',
         NoTestAfterFailure', CleanedInside'
  PROVE  Inv'
<1> DEFINE n == Len(stack)
           f == stack[n]
           d == f.dir
<1>1. n \in Nat \ {0} /\ stack \in Seq(Frames) /\ f \in Frames /\ DOMAIN stack = 1 .. n
  BY DEF Inv, TypeOK
<1>2. top = f /\ dir = d /\ d \in Dirs BY <1>1 DEF top, dir, Last, Frames
<1>3. /\ stack' \in Seq(Frames) /\ Len(stack') = n /\ DOMAIN stack' = 1 .. n
      /\ stack'[n] = g /\ \A i \in 1 .. n : i # n => stack'[i] = stack[i]
  BY <1>1, TopChanged, Zenon
<1>4. UNCHANGED <<kind, flags, mode, step, todo, passed, modeFail, overallFail, exited, uncleaned, dropped>>
  BY DEF driver, ends
<1>5. g.dir = d /\ g.all = f.all /\ g.subs = f.subs /\ Only(d) BY <1>2
<1> HIDE DEF n, f, d
<1>6. f = stack[n] /\ d = f.dir /\ n = Len(stack) BY DEF f, d, n
<1>20. \A i \in 1 .. n : stack[i] \in Frames /\ stack[i].dir \in Dirs /\ stack[i].subs \in Seq(Dirs)
  <2>1. \A i \in 1 .. n : stack[i] \in Frames BY <1>1
  <2>2. QED BY <2>1 DEF Frames
<1>7. \A i \in 1 .. n : stack'[i].dir = stack[i].dir /\ stack'[i].all = stack[i].all /\ stack'[i].subs = stack[i].subs
  BY <1>3, <1>5, <1>6, Zenon
<1>8. n \in 1 .. n /\ 1 \in 1 .. n BY <1>1
<1>9. stack' # <<>> BY <1>1, <1>3
<1>10. TypeOK'
  BY <1>3, <1>4, <1>5 DEF Inv, TypeOK, Only
<1>11. kind[d] = "runs" BY <1>1, <1>6, <1>8 DEF Inv, StackInv
<1>12. StackInv'
  <2>1. ASSUME NEW i \in 1 .. n PROVE OptionsLeft(stack[i])'
    <3>1. PICK h : h = stack'[i] OBVIOUS
    <3>2. OptionsLeft(h) BY <1>1, <1>3, <3>1 DEF Inv, StackInv
    <3>3. OptionsLeft(h)' BY <3>2, <1>4, SameOptions
    <3>4. QED BY <3>1, <3>3
  <2>2. \A i \in 1 .. n : kind'[stack'[i].dir] = "runs" BY <1>1, <1>4, <1>7 DEF Inv, StackInv
  <2>3. \A x \in Dirs : kind'[x] # "runs" => setup'[x] = "none"
    BY <1>4, <1>5, <1>11 DEF Inv, StackInv, Only
  <2>4. step \notin {"end", "exit"} /\ ~exited BY DEF Inv, StackInv
  <2>5. step # "start" => n <= 1 BY DEF Inv, StackInv, n
  <2>6. QED BY <1>3, <1>4, <2>1, <2>2, <2>3, <2>4, <2>5 DEF StackInv
<1>13. FailInv'
  <2>1. Noted <=> overallFail \/ modeFail \/ status = "failed" \/ \E i \in 1 .. n : stack[i].failed
    BY <1>1 DEF Noted
  <2>2. g.failed = (f.failed \/ status = "failed" \/ E) BY <1>2
  <2>3. (\E i \in 1 .. n : stack'[i].failed) <=> (\E i \in 1 .. n : stack[i].failed) \/ status = "failed" \/ E
    BY <1>3, <1>6, <1>8, <2>2, Zenon
  <2>4. step \notin {"end", "exit"} BY DEF Inv, StackInv
  <2>5. Noted' <=> Noted \/ E BY <1>3, <1>4, <2>1, <2>3 DEF Noted
  <2>6. (Noted => trouble) /\ (trouble => Noted \/ dropped) BY DEF Inv, FailInv
  <2>7. QED BY <1>4, <2>4, <2>5, <2>6 DEF FailInv
<1>14. ParentsInv'
  <2> SUFFICES ASSUME step = "parents" PROVE ParentsInv'
    BY <1>4 DEF ParentsInv
  <2>1. n = 1 BY <1>1 DEF Inv, StackInv, n
  <2>2. ParentsInv BY DEF Inv
  <2>3. tested' = {} /\ cleaned' = {} BY <2>2 DEF ParentsInv
  <2>4. passed # <<>> /\ d = passed[1] /\ passed \in Seq(Dirs)
    BY <2>1, <2>2, <1>6 DEF ParentsInv, Inv, TypeOK
  <2>5. 1 \in DOMAIN passed BY <2>4
  <2>6. \A x \in Dirs : setup'[x] # "none" \/ x \in bad' => x \in ToSet(passed)
    BY <2>2, <2>4, <2>5, <1>5 DEF ParentsInv, ToSet, Only
  <2>7. ASSUME NEW i \in DOMAIN passed, i > 1 PROVE Ready(passed[i])'
    <3>1. Ready(passed[i]) BY <2>2, <2>7 DEF ParentsInv
    <3>2. passed[i] \in Above[passed[1]] BY <2>5, <2>7 DEF Inv, PassedInv
    <3>3. passed[i] \in Dirs /\ passed[i] # d BY <2>4, <3>2, Tree, <1>2
    <3>4. QED BY <3>1, <3>3, <1>4, <1>5 DEF Ready, Only
  <2>8. ~g.failed => d \notin bad' /\ (g.opts = <<>> => setup'[d] = "done") BY <1>2
  <2>9. stack'[1] = g /\ g.dir = passed[1] BY <1>3, <1>5, <2>1, <2>4
  <2>10. QED BY <1>4, <1>9, <2>2, <2>3, <2>4, <2>6, <2>7, <2>8, <2>9 DEF ParentsInv
<1>15. PassedInv'
  BY <1>4 DEF Inv, PassedInv
<1>16. StartInv'
  <2> SUFFICES ASSUME step = "start" PROVE StartInv'
    BY <1>4 DEF StartInv
  <2>1. /\ \A i \in 1 .. n : CallInv(stack[i]) /\ SubsInv(stack[i])
        /\ PathInv /\ ToSet(passed) = Above[Start] /\ \A p \in Above[Start] : Ready(p) /\ p \notin cleaned
    BY <1>1 DEF Inv, StartInv
  <2>2. Within(d, Start) BY <2>1, <1>6, <1>8 DEF CallInv
  <2>3. ASSUME NEW i \in 1 .. n, i # n, NEW h, h = stack[i] PROVE CallInv(h)'
    <3>1. i < n BY <2>3, <1>1
    <3>2. stack[i] \in Frames /\ stack[i].dir \in Dirs /\ OptionsLeft(stack[i])
      BY <1>1, <1>20 DEF Inv, StackInv
    <3>3. stack[i].opts # <<>> /\ stack[i].opts[1] = "r"
      BY <1>1, <2>1, <3>1 DEF PathInv, n
    <3>4. ~Before(stack[i]) BY <3>2, <3>3, WhereItIs DEF Inv
    <3>5. stack[i].dir \in Above[d] BY <1>1, <1>6, <1>8, <2>1, <3>1 DEF PathInv
    <3>6. stack[i].dir # d BY <3>5, <1>2, Tree
    <3>7. CallInv(stack[i]) BY <2>1
    <3>8. h.dir # d /\ h.dir \in Dirs /\ CallInv(h) /\ h.opts # <<>> /\ ~Before(h)
      BY <2>3, <3>2, <3>3, <3>4, <3>6, <3>7
    <3>9. Before(h)' = Before(h) BY DEF Before
    <3>10. QED BY <3>8, <3>9, <1>5 DEF CallInv, Only
  <2>4. ASSUME NEW i \in 1 .. n, NEW h, h.dir = stack[i].dir, h.subs = stack[i].subs PROVE SubsInv(h)'
    <3>1. h.dir \in Dirs /\ h.subs \in Seq(Dirs) BY <1>20, <2>4
    <3>2. SubsInv(h)
      <4>1. SubsInv(stack[i]) BY <2>1
      <4>2. QED BY <2>4, <4>1, Zenon DEF SubsInv
    <3>3. ASSUME NEW m \in DOMAIN h.subs PROVE Untouched(h.subs[m])'
      <4>1. h.subs[m] \in Dirs /\ Untouched(h.subs[m]) /\ h.dir \in Above[h.subs[m]]
        <5>1. h.subs[m] \in Dirs BY <3>1, <3>3
        <5>2. Above[h.subs[m]] = Above[h.dir] \cup {h.dir} /\ Untouched(h.subs[m]) BY <3>2, <3>3 DEF SubsInv
        <5>3. QED BY <5>1, <5>2
      <4>2. CASE i = n
        <5>1. h.dir = d BY <4>2, <2>4, <1>6
        <5>2. ~Within(d, h.subs[m]) BY <4>1, <5>1, <1>2, Tree DEF Within
        <5>3. QED BY <4>1, <5>2, <1>2, <1>5, StillUntouched
      <4>3. CASE i # n
        <5>1. i < n BY <4>3, <1>1
        <5>2. ~Within(d, h.subs[m]) BY <1>1, <1>6, <1>8, <2>1, <2>4, <5>1 DEF PathInv
        <5>3. QED BY <4>1, <5>2, <1>2, <1>5, StillUntouched
      <4>4. QED BY <4>2, <4>3
    <3>4. QED BY <3>2, <3>3 DEF SubsInv
  <2>5. ASSUME NEW i \in 1 .. n PROVE CallInv(stack[i])' /\ SubsInv(stack[i])'
    <3>1. PICK h : h = stack'[i] OBVIOUS
    <3>2. h.dir = stack[i].dir /\ h.subs = stack[i].subs BY <3>1, <1>7
    <3>3. SubsInv(h)' BY <2>4, <3>2
    <3>4. CallInv(h)'
      <4>1. CASE i = n BY <4>1, <3>1, <1>3
      <4>2. CASE i # n BY <4>2, <3>1, <2>3, <1>3
      <4>3. QED BY <4>1, <4>2
    <3>5. QED BY <3>1, <3>3, <3>4
  <2>6. PathInv'
    <3>1. \A i, k \in 1 .. n : i < k =>
            /\ stack'[i].dir \in Above[stack'[k].dir]
            /\ \A m \in DOMAIN stack'[i].subs : ~Within(stack'[k].dir, stack'[i].subs[m])
      BY <1>1, <1>7, <2>1 DEF PathInv
    <3>2. \A k \in 1 .. n : \A a \in Above[stack'[k].dir] :
            a \in Above[Start] \/ \E i \in 1 .. n : i < k /\ stack'[i].dir = a
      BY <1>1, <1>7, <2>1 DEF PathInv
    <3>3. \A i \in 1 .. n : i < n =>
            stack'[i].opts # <<>> /\ stack'[i].opts[1] = "r" /\ ~stack'[i].norecurse
      BY <1>1, <1>3, <1>6, <2>1 DEF PathInv
    <3>4. QED BY <1>3, <3>1, <3>2, <3>3 DEF PathInv, Within
  <2>7. ASSUME NEW p \in Above[Start] PROVE Ready(p)' /\ p \notin cleaned'
    <3>1. p \in Dirs /\ p # d
      BY <2>2, <1>2, Tree, ExecuteAssumption DEF Within
    <3>2. QED BY <2>1, <3>1, <1>4, <1>5 DEF Ready, Only
  <2>8. QED BY <1>3, <1>4, <2>1, <2>5, <2>6, <2>7 DEF StartInv
<1>17. CleanupInv'
  <2> SUFFICES ASSUME step = "cleanup" PROVE CleanupInv'
    BY <1>4 DEF CleanupInv
  <2>1. n = 1 BY <1>1 DEF Inv, StackInv, n
  <2>2. CleanupInv BY DEF Inv
  <2>3. stack'[1] = g /\ stack'[1].dir = stack[1].dir /\ g.dir = dir BY <1>3, <1>7, <2>1
  <2>4. QED BY <1>4, <2>2, <2>3 DEF CleanupInv
<1>18. CoverInv'
  <2> SUFFICES ASSUME NEW x \in Dirs, setup'[x] # "none"
               PROVE  \/ x \in cleaned'
                      \/ \E i \in DOMAIN stack' : stack'[i].dir = x
                      \/ (step \in {"parents", "start"} /\ x \in ToSet(passed))
                      \/ (step = "cleanup" /\ x \in ToSet(todo))
                      \/ Lost(x)
    BY <1>4 DEF CoverInv, Lost
  <2>1. CASE x = d BY <2>1, <1>3, <1>5, <1>8
  <2>2. CASE x # d
    <3>1. setup[x] # "none" /\ (x \in cleaned' <=> x \in cleaned) BY <2>2, <1>5 DEF Only
    <3>2. QED BY <3>1, <1>1, <1>3, <1>7 DEF Inv, CoverInv
  <2>3. QED BY <2>1, <2>2
<1>19. QED
  BY <1>10, <1>12, <1>13, <1>14, <1>15, <1>16, <1>17, <1>18 DEF Inv

\* The innermost call, and the directories above it, which are ready.
LEMMA AtTop ==
  ASSUME Inv, stack # <<>>
  PROVE  /\ top \in Frames /\ top.dir = dir /\ dir \in Dirs /\ OptionsLeft(top) /\ kind[dir] = "runs"
         /\ step \in {"parents", "start", "cleanup"}
         /\ step # "start" => top = stack[1] /\ Len(stack) = 1 /\ status = "none"
         /\ step = "start" =>
              /\ CallInv(top)
              /\ \A a \in Above[dir] :
                   /\ a \in Dirs /\ a # dir /\ a \notin cleaned /\ a \notin bad
                   /\ kind[a] = "skipped" \/ (kind[a] = "runs" /\ setup[a] = "done")
              /\ status # "none" => top.opts # <<>>
<1> DEFINE n == Len(stack)
<1>1. n \in Nat \ {0} /\ DOMAIN stack = 1 .. n /\ stack \in Seq(Frames) /\ top = stack[n]
  BY DEF Inv, TypeOK, top, Last
<1>2. n = Len(stack) OBVIOUS
<1> HIDE DEF n
<1>3. n \in 1 .. n BY <1>1
<1>4. \A i \in 1 .. n : stack[i] \in Frames BY <1>1
<1>5. \A i \in 1 .. n : stack[i].dir \in Dirs BY <1>4 DEF Frames
<1>6. top \in Frames /\ top.dir = dir /\ dir \in Dirs BY <1>1, <1>3, <1>4, <1>5 DEF dir
<1>7. OptionsLeft(top) /\ kind[dir] = "runs" BY <1>1, <1>3, <1>6 DEF Inv, StackInv
<1>8. step \in {"parents", "start", "cleanup"} BY DEF Inv, StackInv, TypeOK
<1>9. step # "start" => n = 1 /\ status = "none" BY <1>1, <1>2 DEF Inv, StackInv
<1>10. ASSUME step = "start"
       PROVE  /\ CallInv(top)
              /\ status # "none" => top.opts # <<>>
              /\ \A a \in Above[dir] :
                   /\ a \in Dirs /\ a # dir /\ a \notin cleaned /\ a \notin bad
                   /\ kind[a] = "skipped" \/ (kind[a] = "runs" /\ setup[a] = "done")
  <2>1. /\ \A i \in 1 .. n : CallInv(stack[i])
        /\ PathInv /\ \A p \in Above[Start] : Ready(p) /\ p \notin cleaned
    BY <1>1, <1>10 DEF Inv, StartInv
  <2>2. CallInv(top) /\ (status # "none" => top.opts # <<>>) BY <1>1, <1>2, <1>3, <2>1 DEF PathInv
  <2>3. ASSUME NEW a \in Above[dir]
        PROVE  /\ a \in Dirs /\ a # dir /\ a \notin cleaned /\ a \notin bad
               /\ kind[a] = "skipped" \/ (kind[a] = "runs" /\ setup[a] = "done")
    <3>1. a \in Dirs /\ a # dir BY <1>6, Tree
    <3>2. a \in Above[Start] \/ \E i \in 1 .. n : i < n /\ stack[i].dir = a
      BY <1>1, <1>3, <1>6, <2>1 DEF PathInv
    <3>3. CASE a \in Above[Start]
      <4>1. Ready(a) /\ a \notin cleaned BY <2>1, <3>3
      <4>2. QED BY <3>1, <4>1 DEF Ready
    <3>4. CASE \E i \in 1 .. n : i < n /\ stack[i].dir = a
      <4>1. PICK i \in 1 .. n : i < n /\ stack[i].dir = a BY <3>4
      <4>2. CallInv(stack[i]) /\ stack[i] \in Frames /\ OptionsLeft(stack[i])
        BY <1>1, <1>4, <2>1 DEF Inv, StackInv
      <4>3. stack[i].opts # <<>> /\ stack[i].opts[1] = "r" /\ ~stack[i].norecurse
        BY <1>1, <1>2, <2>1, <4>1 DEF PathInv
      <4>4. ~Before(stack[i]) BY <4>2, <4>3, <1>10, WhereItIs DEF Inv
      <4>5. setup[a] # "none" /\ setup[a] # "failed" /\ a \notin bad /\ a \notin cleaned
        BY <4>1, <4>2, <4>3, <4>4 DEF CallInv
      <4>6. setup[a] = "done" BY <3>1, <4>5 DEF Inv, TypeOK
      <4>7. kind[a] = "runs" BY <1>1, <4>1 DEF Inv, StackInv
      <4>8. QED BY <3>1, <4>5, <4>6, <4>7
    <3>5. QED BY <3>2, <3>3, <3>4
  <2>4. QED BY <2>2, <2>3
<1>11. QED BY <1>1, <1>2, <1>6, <1>7, <1>8, <1>9, <1>10

\* The innermost call goes on and nothing happens in its directory.
LEMMA QuietStep ==
  ASSUME Inv, stack # <<>>, NEW g \in Frames,
         stack' = [stack EXCEPT ![Len(stack)] = g], status' = "none",
         g.dir = dir, g.all = top.all, g.subs = top.subs, g.noexec = top.noexec, g.norecurse = top.norecurse,
         UNCHANGED <<kind, driver>>, UNCHANGED <<setup, tested, cleaned, bad>>,
         NEW E \in BOOLEAN, trouble' = (trouble \/ E), g.failed = (top.failed \/ status = "failed" \/ E),
         top.opts # <<>>,
         g.opts = top.opts \/ (g.opts = Tail(top.opts) /\ top.opts[1] \in {"v", "k", "e", "i", "r"})
  PROVE  Inv'
<1>1. /\ top \in Frames /\ dir \in Dirs /\ OptionsLeft(top) /\ step \in {"parents", "start", "cleanup"}
      /\ top.dir = dir /\ TypeOK
  BY AtTop DEF Inv
<1>2. OptionsLeft(g) BY <1>1, OptionDone
<1>3. Only(dir) BY <1>1 DEF Only, TypeOK
<1>4. NoTestAfterFailure' /\ CleanedInside'
  BY DEF Inv, NoTestAfterFailure, CleanedInside, driver, ends
<1>5. g.opts \in Seq(Options) /\ top.opts \in Seq(Options) BY <1>1 DEF Frames
<1>6. UNCHANGED step BY DEF driver
<1>7. g.opts # <<>>
  <2>1. CASE g.opts = top.opts BY <2>1
  <2>2. CASE g.opts = Tail(top.opts) /\ top.opts[1] \in {"v", "k", "e", "i", "r"}
    <3>1. Len(top.opts) >= 2
      <4>1. step = "start" => Len(top.all) \in {5, 6} BY <1>1, WhereItIs
      <4>2. CASE step = "start" /\ top.opts[1] \in {"v", "k"}
        <5>1. Len(top.opts) + 1 >= Len(top.all) /\ Len(top.opts) \in Nat BY <1>1, <4>2, WhereItIs
        <5>2. \A m \in Nat, n \in {5, 6} : m + 1 >= n => m >= 2 OBVIOUS
        <5>3. QED BY <4>1, <4>2, <5>1, <5>2
      <4>3. CASE step = "start" /\ top.opts[1] \in {"e", "i", "r"} BY <1>1, <4>3, WhereItIs
      <4>4. CASE step = "parents"
        <5>1. top.opts[1] \in {"v", "k"} BY <1>1, <2>2, <4>4, WhereItIs
        <5>2. QED BY <1>1, <4>4, <5>1, WhereItIs
      <4>5. CASE step = "cleanup"
        <5>1. top.opts[1] = "c" BY <1>1, <4>5, WhereItIs
        <5>2. QED BY <2>2, <5>1
      <4>6. top.opts[1] \in {"v", "k"} \/ top.opts[1] \in {"e", "i", "r"} BY <2>2
      <4>7. step = "parents" \/ step = "start" \/ step = "cleanup" BY <1>1
      <4>8. QED BY <4>2, <4>3, <4>4, <4>5, <4>6, <4>7
    <3>2. Len(top.opts) \in Nat /\ Len(g.opts) = Len(top.opts) - 1 BY <1>5, <2>2
    <3>3. \A m \in Nat : m >= 2 => m - 1 # 0 OBVIOUS
    <3>4. Len(g.opts) # 0 BY <3>1, <3>2, <3>3
    <3>5. QED BY <3>4
  <2>3. QED BY <2>1, <2>2
<1>8. ASSUME step = "parents", ~g.failed
      PROVE  dir \notin bad' /\ (g.opts = <<>> => setup'[dir] = "done")
  <2>1. ~top.failed /\ top = stack[1] BY <1>8, AtTop
  <2>2. dir = passed[1] /\ passed[1] \notin bad BY <1>8, <2>1, <1>1 DEF Inv, ParentsInv
  <2>3. QED BY <2>2, <1>7
<1>9. ASSUME step = "start"
      PROVE  CallInv(g)' /\ \A p \in Above[Start] : p \notin cleaned => p \notin cleaned'
  <2>1. CallInv(top) BY <1>9, AtTop
  <2>2. Before(g) <=> Before(top)
    <3>1. CASE g.opts = top.opts BY <3>1 DEF Before
    <3>2. CASE g.opts = Tail(top.opts) /\ top.opts[1] \in {"v", "k"}
      <4>1. Len(top.opts) + 1 >= Len(top.all) /\ Len(top.opts) \in Nat /\ Len(top.all) \in {5, 6}
        BY <1>1, <1>9, <3>2, WhereItIs
      <4>2. Len(g.opts) = Len(top.opts) - 1 BY <1>5, <3>2
      <4>3. QED BY <4>1, <4>2 DEF Before
    <3>3. CASE g.opts = Tail(top.opts) /\ top.opts[1] \in {"e", "i", "r"}
      <4>1. ~Before(top) /\ Len(top.opts) \in Nat /\ Len(top.all) \in {5, 6}
        BY <1>1, <1>9, <3>3, WhereItIs
      <4>2. Len(g.opts) = Len(top.opts) - 1 BY <1>5, <3>3
      <4>3. QED BY <4>1, <4>2 DEF Before
    <3>4. QED BY <3>1, <3>2, <3>3
  <2>3. Before(g)' = Before(g) BY DEF Before
  <2>4. \A x : Untouched(x)' <=> Untouched(x) BY DEF Untouched, Clear
  <2>5. CallInv(g)' BY <1>1, <1>7, <2>1, <2>2, <2>3, <2>4 DEF CallInv
  <2>6. QED BY <2>5
<1>10. QED BY <1>2, <1>3, <1>4, <1>7, <1>8, <1>9, TopStep

\* A frame after one option, and after the last.
LEMMA Frame_Done ==
  ASSUME NEW f \in Frames, f.opts # <<>>
  PROVE  /\ Done(f) \in Frames
         /\ Done(f).opts = Tail(f.opts) /\ Done(f).dir = f.dir /\ Done(f).all = f.all /\ Done(f).subs = f.subs
         /\ Done(f).failed = f.failed /\ Done(f).noexec = f.noexec /\ Done(f).norecurse = f.norecurse
<1>1. Tail(f.opts) \in Seq(Options) BY DEF Frames
<1>2. QED BY <1>1 DEF Frames, Done

\* The flags that a call sets when something fails.
LEMMA Frame_Flags ==
  ASSUME NEW f \in Frames
  PROVE  /\ LET h == [f EXCEPT !.failed = TRUE] IN
              /\ h \in Frames /\ h.failed /\ h.opts = f.opts /\ h.dir = f.dir /\ h.all = f.all
              /\ h.subs = f.subs /\ h.noexec = f.noexec /\ h.norecurse = f.norecurse
         /\ LET h == [f EXCEPT !.failed = TRUE, !.opts = <<>>] IN
              /\ h \in Frames /\ h.failed /\ h.opts = <<>> /\ h.dir = f.dir /\ h.all = f.all
              /\ h.subs = f.subs /\ h.noexec = f.noexec /\ h.norecurse = f.norecurse
         /\ LET h == [f EXCEPT !.failed = TRUE, !.noexec = TRUE, !.norecurse = TRUE] IN
              /\ h \in Frames /\ h.failed /\ h.opts = f.opts /\ h.dir = f.dir /\ h.all = f.all
              /\ h.subs = f.subs /\ h.noexec /\ h.norecurse
<1>1. <<>> \in Seq(Options) OBVIOUS
<1>2. QED BY <1>1 DEF Frames

\* The option that a call comes to next.
LEMMA AtOption ==
  ASSUME Inv, NEW o, Working(o)
  PROVE  /\ stack # <<>> /\ status = "none" /\ top.opts # <<>> /\ top.opts[1] = o
         /\ top.opts \in Seq(Options) /\ Len(top.opts) \in Nat \ {0}
<1>1. stack # <<>> /\ status = "none" /\ top.opts # <<>> /\ Head(top.opts) = o BY DEF Working
<1>2. top.opts \in Seq(Options) BY <1>1, AtTop DEF Frames
<1>3. QED BY <1>1, <1>2

\* -v and -k
LEMMA VarsStep ==
  ASSUME Inv, Vars
  PROVE  Inv'
<1>1. PICK o \in {"v", "k"} : Working(o) BY DEF Vars
<1>2. /\ stack # <<>> /\ status = "none" /\ top.opts # <<>> /\ top.opts[1] \in {"v", "k"}
      /\ top \in Frames /\ top.dir = dir /\ dir \in Dirs
  BY <1>1, AtOption, AtTop
<1>3. UNCHANGED <<kind, driver>> /\ UNCHANGED <<setup, tested, cleaned>> /\ status' = "none"
  BY <1>2 DEF Vars, SetTop
<1>4. CASE SetTop(Done(top)) /\ UNCHANGED <<bad, trouble>>
  <2>1. PICK g \in Frames : g = Done(top) BY <1>2, Frame_Done
  <2>2. stack' = [stack EXCEPT ![Len(stack)] = g] BY <1>4, <2>1 DEF SetTop
  <2>3. /\ g.opts = Tail(top.opts) /\ g.dir = dir /\ g.all = top.all /\ g.subs = top.subs
        /\ g.failed = top.failed /\ g.noexec = top.noexec /\ g.norecurse = top.norecurse
    BY <1>2, <2>1, Frame_Done
  <2>4. trouble' = (trouble \/ FALSE) /\ g.failed = (top.failed \/ status = "failed" \/ FALSE)
    BY <1>2, <1>4, <2>3 DEF Inv, TypeOK, Frames
  <2>5. QED BY <1>2, <1>3, <1>4, <2>2, <2>3, <2>4, QuietStep
<1>5. CASE /\ SetTop([top EXCEPT !.failed = TRUE, !.opts = <<>>])
           /\ bad' = bad \cup {dir} /\ trouble' = TRUE
  <2>1. PICK g \in Frames : g = [top EXCEPT !.failed = TRUE, !.opts = <<>>] BY <1>2, Frame_Flags
  <2>2. stack' = [stack EXCEPT ![Len(stack)] = g] BY <1>5, <2>1 DEF SetTop
  <2>3. /\ g.opts = <<>> /\ g.dir = dir /\ g.all = top.all /\ g.subs = top.subs /\ g.failed
    BY <1>2, <2>1, Frame_Flags
  <2>4. trouble' = (trouble \/ TRUE) /\ g.failed = (top.failed \/ status = "failed" \/ TRUE)
    BY <1>2, <1>5, <2>3 DEF Inv, TypeOK, Frames
  <2>5. OptionsLeft(g) BY <1>2, <2>3, AtTop, OptionDone
  <2>6. Only(dir) BY <1>2, <1>3, <1>5 DEF Only, Inv, TypeOK
  <2>7. step # "cleanup" BY <1>2, AtTop, WhereItIs DEF Inv
  <2>8. ASSUME step = "start" PROVE Untouched(dir)
    <3>1. Len(top.opts) + 1 >= Len(top.all) /\ Len(top.opts) \in Nat /\ Len(top.all) \in {5, 6}
      BY <1>2, <2>8, AtTop, WhereItIs DEF Inv
    <3>2. Before(top) BY <3>1 DEF Before
    <3>3. QED BY <1>2, <2>8, <3>2, AtTop DEF CallInv
  <2>9. NoTestAfterFailure'
    <3>1. CASE step = "parents" BY <1>3, <3>1 DEF Inv, ParentsInv, NoTestAfterFailure
    <3>2. CASE step = "start"
      <4>1. \A x \in Dirs : Within(x, dir) => x \notin tested BY <2>8, <3>2 DEF Untouched, Clear
      <4>2. QED BY <1>3, <1>5, <4>1 DEF Inv, TypeOK, NoTestAfterFailure, Within
    <3>3. QED BY <1>2, <2>7, <3>1, <3>2, AtTop
  <2>10. CleanedInside' BY <1>3 DEF Inv, CleanedInside, driver, ends
  <2>11. ASSUME step = "start" PROVE CallInv(g)'
    <3>1. setup[dir] = "none" BY <1>2, <2>8, <2>11 DEF Untouched, Within, Clear
    <3>2. Within(dir, Start) BY <1>2, <2>11, AtTop DEF CallInv
    <3>3. QED BY <1>3, <2>3, <3>1, <3>2 DEF CallInv
  <2>12. UNCHANGED <<tested, cleaned>> BY <1>3
  <2>13. QED
    BY <1>2, <1>3, <2>2, <2>3, <2>4, <2>5, <2>6, <2>7, <2>9, <2>10, <2>11, <2>12, TopStep
<1>6. QED BY <1>4, <1>5 DEF Vars

\* -s
LEMMA SetupStep ==
  ASSUME Inv, Setup
  PROVE  Inv'
<1>1. /\ stack # <<>> /\ status = "none" /\ top.opts # <<>> /\ top.opts[1] = "s"
      /\ top \in Frames /\ top.dir = dir /\ dir \in Dirs /\ Working("s")
  BY AtOption, AtTop DEF Setup
<1>2. /\ UNCHANGED <<kind, driver>> /\ UNCHANGED <<tested, cleaned, bad>> /\ status' = "none" /\ UNCHANGED step
      /\ UNCHANGED kind
  BY <1>1 DEF Setup, SetTop, driver
<1>3. step # "cleanup" /\ (step = "parents" => Len(top.opts) = 1) BY <1>1, AtTop, WhereItIs DEF Inv
<1>4. ASSUME step = "start"
      PROVE  Untouched(dir) /\ CallInv(top) /\ Len(top.opts) + 2 = Len(top.all)
             /\ Len(top.opts) \in Nat /\ Len(top.all) \in {5, 6}
  <2>1. Len(top.opts) + 2 = Len(top.all) /\ Len(top.opts) \in Nat /\ Len(top.all) \in {5, 6}
    BY <1>1, <1>4, AtTop, WhereItIs DEF Inv
  <2>2. Before(top) BY <2>1 DEF Before
  <2>3. CallInv(top) BY <1>1, <1>4, AtTop
  <2>4. QED BY <1>1, <2>1, <2>2, <2>3 DEF CallInv
<1>5. ASSUME NEW g \in Frames, NEW r \in {"done", "failed"}, setup' = [setup EXCEPT ![dir] = r],
             stack' = [stack EXCEPT ![Len(stack)] = g],
             g.opts = Tail(top.opts), g.dir = dir, g.all = top.all, g.subs = top.subs,
             g.failed = (top.failed \/ r = "failed"), r = "failed" => g.noexec /\ g.norecurse,
             trouble' = (trouble \/ r = "failed")
      PROVE  Inv'
  <2>1. OptionsLeft(g) BY <1>1, <1>5, AtTop, OptionDone
  <2>2. setup \in [Dirs -> {"none", "failed", "done"}] /\ setup'[dir] = r
        /\ setup' \in [Dirs -> {"none", "failed", "done"}]
    BY <1>1, <1>5 DEF Inv, TypeOK
  <2>3. Only(dir) BY <1>1, <1>2, <1>5, <2>2 DEF Only, Inv, TypeOK
  <2>4. NoTestAfterFailure'
    <3>1. CASE step = "parents" BY <1>2, <3>1 DEF Inv, ParentsInv, NoTestAfterFailure
    <3>2. CASE step = "start"
      <4>1. \A x \in Dirs : Within(x, dir) => x \notin tested BY <1>4, <3>2 DEF Untouched, Clear
      <4>2. \A a \in Dirs : a # dir => setup'[a] = setup[a] BY <2>3 DEF Only
      <4>3. QED BY <1>2, <4>1, <4>2 DEF Inv, TypeOK, NoTestAfterFailure, Within
    <3>3. QED BY <1>1, <1>3, <3>1, <3>2, AtTop
  <2>5. CleanedInside'
    <3>1. CASE step = "parents" BY <1>2, <3>1 DEF Inv, ParentsInv, CleanedInside
    <3>2. CASE step = "start"
      <4>1. \A a \in Above[dir] : a \notin cleaned BY <1>1, <3>2, AtTop
      <4>2. \A b \in Dirs : b # dir => setup'[b] = setup[b] BY <2>3 DEF Only
      <4>3. QED BY <1>2, <4>1, <4>2 DEF Inv, CleanedInside, driver, ends
    <3>3. QED BY <1>1, <1>3, <3>1, <3>2, AtTop
  <2>6. ASSUME step = "parents", ~g.failed PROVE dir \notin bad' /\ setup'[dir] = "done"
    <3>1. ~top.failed /\ r = "done" /\ top = stack[1] BY <1>1, <1>5, <2>6, AtTop
    <3>2. dir = passed[1] /\ passed[1] \notin bad BY <1>1, <2>6, <3>1 DEF Inv, ParentsInv
    <3>3. QED BY <1>2, <2>2, <3>1, <3>2
  <2>7. ASSUME step = "start" PROVE CallInv(g)'
    <3>1. Len(g.opts) = Len(top.opts) - 1 BY <1>1, <1>5, AtOption
    <3>2. \A m \in Nat, n \in {5, 6} : m + 2 = n => ~((m - 1) + 2 >= n) /\ m - 1 # 0 OBVIOUS
    <3>3. ~Before(g) /\ Len(g.opts) # 0 BY <1>4, <1>5, <2>7, <3>1, <3>2 DEF Before
    <3>4. g.opts # <<>> BY <3>3
    <3>5. Before(g)' = Before(g) BY DEF Before
    <3>6. dir \notin bad /\ dir \notin cleaned /\ Within(dir, Start)
      BY <1>1, <1>4, <2>7 DEF Untouched, Clear, Within, CallInv
    <3>7. QED BY <1>2, <1>5, <2>2, <3>3, <3>4, <3>5, <3>6 DEF CallInv
  <2>8. UNCHANGED <<tested, cleaned>> BY <1>2
  <2>9. PICK E \in BOOLEAN : E = (r = "failed") OBVIOUS
  <2>10. trouble' = (trouble \/ E) /\ g.failed = (top.failed \/ status = "failed" \/ E) BY <1>1, <1>5, <2>9
  <2>11. QED
    BY <1>1, <1>2, <1>3, <1>5, <2>1, <2>3, <2>4, <2>5, <2>6, <2>7, <2>8, <2>10, TopStep
<1>6. CASE SetTop(Done(top)) /\ setup' = [setup EXCEPT ![dir] = "done"] /\ UNCHANGED trouble
  <2>1. PICK g \in Frames : g = Done(top) BY <1>1, Frame_Done
  <2>2. stack' = [stack EXCEPT ![Len(stack)] = g] BY <1>6, <2>1 DEF SetTop
  <2>3. /\ g.opts = Tail(top.opts) /\ g.dir = dir /\ g.all = top.all /\ g.subs = top.subs
        /\ g.failed = top.failed
    BY <1>1, <2>1, Frame_Done
  <2>4. trouble' = (trouble \/ "done" = "failed") /\ g.failed = (top.failed \/ "done" = "failed")
    BY <1>1, <1>6, <2>3 DEF Inv, TypeOK, Frames
  <2>5. QED BY <1>5, <1>6, <2>2, <2>3, <2>4
<1>7. CASE /\ SetTop([Done(top) EXCEPT !.failed = TRUE, !.noexec = TRUE, !.norecurse = TRUE])
           /\ setup' = [setup EXCEPT ![dir] = "failed"] /\ trouble' = TRUE
  <2>1. Done(top) \in Frames BY <1>1, Frame_Done
  <2>2. PICK g \in Frames : g = [Done(top) EXCEPT !.failed = TRUE, !.noexec = TRUE, !.norecurse = TRUE]
    BY <2>1, Frame_Flags
  <2>3. stack' = [stack EXCEPT ![Len(stack)] = g] BY <1>7, <2>2 DEF SetTop
  <2>4. /\ g.opts = Done(top).opts /\ g.dir = Done(top).dir /\ g.all = Done(top).all /\ g.subs = Done(top).subs
        /\ g.failed /\ g.noexec /\ g.norecurse
    BY <2>1, <2>2, Frame_Flags
  <2>5. /\ g.opts = Tail(top.opts) /\ g.dir = dir /\ g.all = top.all /\ g.subs = top.subs
    BY <1>1, <2>4, Frame_Done
  <2>6. trouble' = (trouble \/ "failed" = "failed") /\ g.failed = (top.failed \/ "failed" = "failed")
    BY <1>1, <1>7, <2>2, <2>4 DEF Frames
  <2>7. QED BY <1>5, <1>7, <2>3, <2>4, <2>5, <2>6
<1>8. QED BY <1>6, <1>7 DEF Setup

\* -e
LEMMA ExecuteStep ==
  ASSUME Inv, Execute
  PROVE  Inv'
<1>1. /\ stack # <<>> /\ status = "none" /\ top.opts # <<>> /\ top.opts[1] = "e"
      /\ top \in Frames /\ top.dir = dir /\ dir \in Dirs /\ Working("e")
  BY AtOption, AtTop DEF Execute
<1>2. /\ UNCHANGED <<kind, driver>> /\ UNCHANGED <<setup, cleaned, bad>> /\ status' = "none"
      /\ UNCHANGED kind
  BY <1>1 DEF Execute, SetTop
<1>3. step = "start" /\ ~Before(top) /\ Len(top.opts) >= 2
  <2>1. step # "parents" /\ step # "cleanup" BY <1>1, AtTop, WhereItIs DEF Inv
  <2>2. step = "start" BY <1>1, <2>1, AtTop
  <2>3. QED BY <1>1, <2>2, AtTop, WhereItIs DEF Inv
<1>4. PICK h \in Frames : h = Done(top) BY <1>1, Frame_Done
<1>5. /\ h.opts = Tail(top.opts) /\ h.dir = dir /\ h.all = top.all /\ h.subs = top.subs
      /\ h.failed = top.failed /\ h.noexec = top.noexec /\ h.norecurse = top.norecurse
  BY <1>1, <1>4, Frame_Done, Zenon
<1>6. CASE SetTop(Done(top)) /\ UNCHANGED <<tested, trouble>>
  <2>1. stack' = [stack EXCEPT ![Len(stack)] = h] BY <1>4, <1>6 DEF SetTop
  <2>2. trouble' = (trouble \/ FALSE) /\ h.failed = (top.failed \/ status = "failed" \/ FALSE)
    BY <1>1, <1>5, <1>6 DEF Inv, TypeOK, Frames
  <2>3. QED BY <1>1, <1>2, <1>5, <1>6, <2>1, <2>2, QuietStep
<1>7. CASE SetTop([Done(top) EXCEPT !.failed = TRUE]) /\ UNCHANGED tested /\ trouble' = TRUE
  <2>1. PICK g \in Frames : g = [h EXCEPT !.failed = TRUE] BY Frame_Flags
  <2>2. stack' = [stack EXCEPT ![Len(stack)] = g] BY <1>4, <1>7, <2>1 DEF SetTop
  <2>3. /\ g.opts = Tail(top.opts) /\ g.dir = dir /\ g.all = top.all /\ g.subs = top.subs
        /\ g.failed /\ g.noexec = top.noexec /\ g.norecurse = top.norecurse
    BY <1>5, <2>1, Frame_Flags
  <2>4. trouble' = (trouble \/ TRUE) /\ g.failed = (top.failed \/ status = "failed" \/ TRUE)
    BY <1>7, <2>3 DEF Frames
  <2>5. QED BY <1>1, <1>2, <1>7, <2>2, <2>3, <2>4, QuietStep
<1>8. CASE ~top.noexec /\ SetTop(Done(top)) /\ tested' = tested \cup {dir} /\ UNCHANGED trouble
  <2>1. stack' = [stack EXCEPT ![Len(stack)] = h] BY <1>4, <1>8 DEF SetTop
  <2>2. trouble' = (trouble \/ FALSE) /\ h.failed = (top.failed \/ status = "failed" \/ FALSE)
    BY <1>1, <1>5, <1>8 DEF Inv, TypeOK, Frames
  <2>3. OptionsLeft(h) BY <1>1, <1>5, AtTop, OptionDone
  <2>4. Only(dir) BY <1>1, <1>2, <1>8 DEF Only, Inv, TypeOK
  <2>5. CallInv(top) BY <1>1, <1>3, AtTop
  <2>6. setup[dir] = "done" /\ dir \notin bad /\ dir \notin cleaned /\ Within(dir, Start)
    <3>1. setup[dir] \in {"none", "failed", "done"} BY <1>1 DEF Inv, TypeOK
    <3>2. QED BY <1>1, <1>3, <1>8, <2>5, <3>1 DEF CallInv
  <2>7. NoTestAfterFailure'
    <3>1. /\ kind[dir] = "runs"
          /\ \A a \in Above[dir] : a \notin bad /\ (kind[a] = "skipped" \/ (kind[a] = "runs" /\ setup[a] = "done"))
      BY <1>1, <1>3, AtTop
    <3>2. QED BY <1>1, <1>2, <1>8, <2>6, <3>1 DEF Inv, NoTestAfterFailure
  <2>8. CleanedInside' BY <1>2 DEF Inv, CleanedInside, driver, ends
  <2>9. CallInv(h)'
    <3>1. Len(h.opts) = Len(top.opts) - 1 /\ Len(top.opts) \in Nat /\ Len(top.all) \in {5, 6}
      BY <1>1, <1>3, <1>5, AtOption, AtTop, WhereItIs DEF Inv
    <3>2. \A m \in Nat, n \in {5, 6} : m >= 2 /\ ~(m + 2 >= n) => ~((m - 1) + 2 >= n) /\ m - 1 # 0 OBVIOUS
    <3>3. ~Before(h) /\ Len(h.opts) # 0 BY <1>3, <1>5, <3>1, <3>2 DEF Before
    <3>4. h.opts # <<>> BY <3>3
    <3>5. Before(h)' = Before(h) BY DEF Before
    <3>6. QED BY <1>2, <1>5, <2>6, <3>3, <3>4, <3>5 DEF CallInv
  <2>10. UNCHANGED cleaned BY <1>2
  <2>11. QED
    BY <1>1, <1>2, <1>3, <1>5, <2>1, <2>2, <2>3, <2>4, <2>7, <2>8, <2>9, <2>10, TopStep
<1>9. QED BY <1>6, <1>7, <1>8 DEF Execute

\* -i, and -r once there is no subdirectory left
LEMMA NextOption ==
  ASSUME Inv, Interactive \/ RecurseEnd
  PROVE  Inv'
<1>1. PICK o \in {"i", "r"} : Working(o) BY DEF Interactive, RecurseEnd
<1>2. /\ stack # <<>> /\ status = "none" /\ top.opts # <<>> /\ top.opts[1] \in {"i", "r"}
      /\ top \in Frames /\ top.dir = dir
  BY <1>1, AtOption, AtTop
<1>3. /\ UNCHANGED <<kind, driver>> /\ UNCHANGED <<setup, tested, cleaned, bad>> /\ UNCHANGED trouble
      /\ status' = "none" /\ SetTop(Done(top))
  BY <1>2 DEF Interactive, RecurseEnd, SetTop, history
<1>4. PICK g \in Frames : g = Done(top) BY <1>2, Frame_Done
<1>5. /\ g.opts = Tail(top.opts) /\ g.dir = dir /\ g.all = top.all /\ g.subs = top.subs
      /\ g.failed = top.failed /\ g.noexec = top.noexec /\ g.norecurse = top.norecurse
  BY <1>2, <1>4, Frame_Done, Zenon
<1>6. stack' = [stack EXCEPT ![Len(stack)] = g] BY <1>3, <1>4 DEF SetTop
<1>7. trouble' = (trouble \/ FALSE) /\ g.failed = (top.failed \/ status = "failed" \/ FALSE)
  BY <1>2, <1>3, <1>5 DEF Inv, TypeOK, Frames
<1>8. QED BY <1>2, <1>3, <1>5, <1>6, <1>7, QuietStep

\* A subdirectory's subshell has ended.
LEMMA ReturnedStep ==
  ASSUME Inv, Returned
  PROVE  Inv'
<1>1. /\ stack # <<>> /\ status # "none" /\ status' = "none" /\ UNCHANGED <<kind, driver>>
      /\ UNCHANGED <<setup, tested, cleaned, bad>> /\ UNCHANGED trouble
      /\ stack' = [stack EXCEPT ![Len(stack)].failed = @ \/ status = "failed"]
  BY DEF Returned, history
<1>2. top \in Frames /\ top.dir = dir /\ top.opts # <<>> BY <1>1, AtTop
<1>3. PICK g : g = [top EXCEPT !.failed = top.failed \/ status = "failed"] OBVIOUS
<1>4. g \in Frames BY <1>2, <1>3 DEF Frames
<1>5. /\ g.opts = top.opts /\ g.dir = dir /\ g.all = top.all /\ g.subs = top.subs
      /\ g.failed = (top.failed \/ status = "failed") /\ g.noexec = top.noexec /\ g.norecurse = top.norecurse
  BY <1>2, <1>3 DEF Frames
<1>6. stack' = [stack EXCEPT ![Len(stack)] = g]
  <2>1. stack \in Seq(Frames) /\ top = stack[Len(stack)] /\ Len(stack) \in DOMAIN stack
    BY <1>1 DEF Inv, TypeOK, top, Last
  <2>2. QED BY <1>1, <1>3, <2>1
<1>7. trouble' = (trouble \/ FALSE) /\ g.failed = (top.failed \/ status = "failed" \/ FALSE)
  BY <1>1, <1>5 DEF Inv, TypeOK
<1>8. QED BY <1>1, <1>2, <1>4, <1>5, <1>6, <1>7, QuietStep

\* -c
LEMMA CleanupStep ==
  ASSUME Inv, Cleanup
  PROVE  Inv'
<1>1. /\ stack # <<>> /\ status = "none" /\ top.opts # <<>> /\ top.opts[1] = "c"
      /\ top \in Frames /\ top.dir = dir /\ dir \in Dirs /\ Working("c")
  BY AtOption, AtTop DEF Cleanup
<1>2. /\ UNCHANGED <<kind, driver>> /\ UNCHANGED <<setup, tested, bad>> /\ status' = "none"
      /\ UNCHANGED kind /\ cleaned' = cleaned \cup {dir}
  BY <1>1 DEF Cleanup, SetTop
<1>3. step \in {"start", "cleanup"} /\ Len(top.opts) = 1
  <2>1. step # "parents" BY <1>1, AtTop, WhereItIs DEF Inv
  <2>2. step \in {"start", "cleanup"} BY <1>1, <2>1, AtTop
  <2>3. QED BY <1>1, <2>2, AtTop, WhereItIs DEF Inv
<1>4. Only(dir) BY <1>1, <1>2 DEF Only, Inv, TypeOK
<1>5. NoTestAfterFailure' BY <1>2 DEF Inv, NoTestAfterFailure
<1>6. CleanedInside'
  <2> SUFFICES ASSUME NEW b \in Dirs, dir \in Above[b], setup[b] # "none"
               PROVE  b \in cleaned \/ b \in uncleaned
    BY <1>2 DEF Inv, CleanedInside, driver, ends
  <2>0. ~exited BY <1>3 DEF Inv, StackInv
  <2>1. b # dir /\ b \notin Above[dir] BY <1>1, Tree
  <2>2. CASE step = "start"
    <3>1. ASSUME NEW i \in DOMAIN stack PROVE stack[i].dir # b
      <4>1. stack \in Seq(Frames) /\ top = stack[Len(stack)] /\ Len(stack) \in Nat /\ DOMAIN stack = 1 .. Len(stack)
        BY <1>1 DEF Inv, TypeOK, top, Last
      <4>2. CASE i = Len(stack) BY <1>1, <2>1, <4>1, <4>2
      <4>3. CASE i # Len(stack)
        <5>1. i < Len(stack) /\ Len(stack) \in DOMAIN stack BY <4>1, <4>3
        <5>2. stack[i].dir \in Above[dir] BY <1>1, <2>2, <4>1, <5>1 DEF Inv, StartInv, PathInv
        <5>3. QED BY <2>1, <5>2
      <4>4. QED BY <4>2, <4>3
    <3>2. b \notin ToSet(passed)
      <4>1. ToSet(passed) = Above[Start] BY <2>2 DEF Inv, StartInv
      <4>2. Within(dir, Start) BY <1>1, <2>2, AtTop DEF CallInv
      <4>3. Start \in Dirs BY ExecuteAssumption
      <4>4. b \in Above[Start] => b \in Above[dir] BY <1>1, <4>2, <4>3, Tree DEF Within
      <4>5. QED BY <2>1, <4>1, <4>4
    <3>3. QED BY <2>2, <2>0, <3>1, <3>2 DEF Inv, CoverInv, Lost
  <2>3. CASE step = "cleanup"
    <3>1. top = stack[1] /\ Len(stack) = 1 BY <1>1, <2>3, AtTop
    <3>2. \A i \in DOMAIN stack : i = 1 BY <3>1 DEF Inv, TypeOK
    <3>3. b \notin ToSet(todo) BY <1>1, <2>1, <2>3, <3>1 DEF Inv, CleanupInv, ToSet
    <3>4. QED BY <1>1, <2>1, <2>3, <2>0, <3>1, <3>2, <3>3 DEF Inv, CoverInv, Lost
  <2>4. QED BY <1>3, <2>2, <2>3
<1>7. ASSUME NEW g \in Frames, NEW E \in BOOLEAN, stack' = [stack EXCEPT ![Len(stack)] = g],
             g.opts = Tail(top.opts), g.dir = dir, g.all = top.all, g.subs = top.subs,
             trouble' = (trouble \/ E), g.failed = (top.failed \/ status = "failed" \/ E)
      PROVE  Inv'
  <2>1. OptionsLeft(g) BY <1>1, <1>7, AtTop, OptionDone
  <2>2. g.opts = <<>>
    <3>1. top.opts \in Seq(Options) /\ g.opts \in Seq(Options) BY <1>1, AtOption DEF Frames
    <3>2. Len(g.opts) = Len(top.opts) - 1 BY <1>1, <1>7, <3>1
    <3>3. Len(g.opts) = 0 BY <1>3, <3>2
    <3>4. QED BY <3>1, <3>3
  <2>3. ASSUME step = "start"
        PROVE  CallInv(g)' /\ \A p \in Above[Start] : p \notin cleaned => p \notin cleaned'
    <3>1. Within(dir, Start) BY <1>1, <2>3, AtTop DEF CallInv
    <3>2. CallInv(g)' BY <1>1, <1>2, <1>7, <2>2, <3>1 DEF CallInv
    <3>3. \A p \in Above[Start] : p # dir BY <1>1, <3>1, Tree, ExecuteAssumption DEF Within
    <3>4. QED BY <1>2, <3>2, <3>3
  <2>4. dir \in cleaned' BY <1>2
  <2>5. step # "parents" BY <1>3
  <2>6. QED
    BY <1>1, <1>2, <1>4, <1>5, <1>6, <1>7, <2>1, <2>3, <2>4, <2>5, TopStep
<1>8. PICK h \in Frames : h = Done(top) BY <1>1, Frame_Done
<1>9. /\ h.opts = Tail(top.opts) /\ h.dir = dir /\ h.all = top.all /\ h.subs = top.subs
      /\ h.failed = top.failed
  BY <1>1, <1>8, Frame_Done
<1>10. CASE SetTop(Done(top)) /\ UNCHANGED trouble
  <2>1. stack' = [stack EXCEPT ![Len(stack)] = h] BY <1>8, <1>10 DEF SetTop
  <2>2. trouble' = (trouble \/ FALSE) /\ h.failed = (top.failed \/ status = "failed" \/ FALSE)
    BY <1>1, <1>9, <1>10 DEF Inv, TypeOK, Frames
  <2>3. QED BY <1>7, <1>9, <2>1, <2>2
<1>11. CASE SetTop([Done(top) EXCEPT !.failed = TRUE]) /\ trouble' = TRUE
  <2>1. PICK g \in Frames : g = [h EXCEPT !.failed = TRUE] BY Frame_Flags
  <2>2. stack' = [stack EXCEPT ![Len(stack)] = g] BY <1>8, <1>11, <2>1 DEF SetTop
  <2>3. /\ g.opts = Tail(top.opts) /\ g.dir = dir /\ g.all = top.all /\ g.subs = top.subs /\ g.failed
    BY <1>9, <2>1, Frame_Flags
  <2>4. trouble' = (trouble \/ TRUE) /\ g.failed = (top.failed \/ status = "failed" \/ TRUE)
    BY <1>11, <2>3 DEF Frames
  <2>5. QED BY <1>7, <2>2, <2>3, <2>4
<1>12. QED BY <1>10, <1>11 DEF Cleanup

\* A call ends: what is left to show of it.
LEMMA Popped ==
  ASSUME Inv, stack # <<>>, status = "none", stack' = Front(stack), status' \in {"ok", "failed", "other"},
         UNCHANGED <<kind, flags, mode, step, todo, passed, modeFail, overallFail, exited, uncleaned>>,
         UNCHANGED <<setup, tested, cleaned, bad>>, trouble' \in BOOLEAN, dropped' \in BOOLEAN, FailInv',
         step = "parents" /\ status' # "failed" => Ready(passed[1]),
         setup[dir] # "none" => dir \in cleaned \/ (step = "parents" /\ dir \in ToSet(passed))
  PROVE  Inv'
<1> DEFINE n == Len(stack)
<1>1. /\ stack # <<>> /\ status = "none" /\ stack' = Front(stack) /\ status' \in {"ok", "failed", "other"}
      /\ UNCHANGED <<kind, flags, mode, step, todo, passed, modeFail, overallFail, exited, uncleaned>>
      /\ UNCHANGED <<setup, tested, cleaned, bad>>
  OBVIOUS
<1>2. n \in Nat \ {0} /\ stack \in Seq(Frames) /\ DOMAIN stack = 1 .. n /\ top = stack[n]
  BY <1>1 DEF Inv, TypeOK, top, Last
<1>3. /\ stack' \in Seq(Frames) /\ Len(stack') = n - 1 /\ DOMAIN stack' = 1 .. n - 1
      /\ \A i \in 1 .. n - 1 : stack'[i] = stack[i]
  BY <1>1, <1>2 DEF Front
<1>4. /\ top \in Frames /\ top.dir = dir /\ dir \in Dirs /\ kind[dir] = "runs"
      /\ step \in {"parents", "start", "cleanup"}
      /\ step # "start" => n = 1 /\ top = stack[1]
  BY <1>1, AtTop
<1>5. n = Len(stack) OBVIOUS
<1> HIDE DEF n
<1>6. \A i : i \in 1 .. n <=> i \in 1 .. n - 1 \/ i = n BY <1>2
<1>7. \A i \in 1 .. n - 1 : i \in 1 .. n /\ i < n BY <1>2
<1>8. step # "start" => stack' = <<>>
  <2>1. step # "start" => Len(stack') = 0 BY <1>2, <1>3, <1>4
  <2>2. QED BY <1>3, <2>1
<1>9. TypeOK' BY <1>1, <1>3 DEF Inv, TypeOK
<1>10. StackInv'
  <2>1. ASSUME NEW i \in 1 .. n - 1 PROVE OptionsLeft(stack[i])' /\ kind'[stack'[i].dir] = "runs"
    <3>1. PICK h : h = stack[i] OBVIOUS
    <3>2. OptionsLeft(h) /\ kind[h.dir] = "runs" BY <1>2, <1>7, <3>1 DEF Inv, StackInv
    <3>3. OptionsLeft(h)' BY <3>2, <1>1, SameOptions
    <3>4. QED BY <1>1, <1>3, <3>1, <3>2, <3>3
  <2>2. step # "start" => Len(stack') <= 1 BY <1>8
  <2>3. \A x \in Dirs : kind'[x] # "runs" => setup'[x] = "none" BY <1>1 DEF Inv, StackInv
  <2>4. step \notin {"end", "exit"} /\ ~exited BY <1>4 DEF Inv, StackInv
  <2>5. QED BY <1>1, <1>3, <1>8, <2>1, <2>2, <2>3, <2>4 DEF StackInv
<1>12. ParentsInv'
  <2> SUFFICES ASSUME step = "parents" PROVE ParentsInv'
    BY <1>1 DEF ParentsInv
  <2>1. stack' = <<>> /\ ParentsInv /\ top = stack[1] BY <1>4, <1>8 DEF Inv
  <2>2. passed # <<>> /\ dir = passed[1] /\ passed \in Seq(Dirs)
    BY <1>1, <1>4, <2>1 DEF ParentsInv, Inv, TypeOK
  <2>3. ASSUME status' # "failed" PROVE Ready(passed[1])' BY <1>1, <2>3 DEF Ready
  <2>4. ASSUME NEW i \in DOMAIN passed, i > 1 \/ status' # "failed" PROVE Ready(passed[i])'
    <3>1. CASE i > 1
      <4>1. Ready(passed[i]) BY <2>1, <3>1 DEF ParentsInv
      <4>2. QED BY <1>1, <4>1 DEF Ready
    <3>2. CASE ~(i > 1)
      <4>1. i = 1 BY <2>2, <3>2
      <4>2. QED BY <2>3, <2>4, <3>2, <4>1
    <3>3. QED BY <3>1, <3>2
  <2>5. QED BY <1>1, <2>1, <2>4 DEF ParentsInv
<1>13. PassedInv'
  BY <1>1 DEF Inv, PassedInv
<1>14. \A x : Untouched(x)' <=> Untouched(x) BY <1>1 DEF Untouched, Clear
<1>15. StartInv'
  <2> SUFFICES ASSUME step = "start" PROVE StartInv'
    BY <1>1 DEF StartInv
  <2>1. /\ \A i \in 1 .. n : CallInv(stack[i]) /\ SubsInv(stack[i])
        /\ PathInv /\ ToSet(passed) = Above[Start] /\ \A p \in Above[Start] : Ready(p) /\ p \notin cleaned
    BY <1>2 DEF Inv, StartInv
  <2>2. ASSUME NEW i \in 1 .. n - 1 PROVE CallInv(stack[i])' /\ SubsInv(stack[i])'
    <3>1. PICK h : h = stack[i] OBVIOUS
    <3>2. CallInv(h) /\ SubsInv(h) BY <1>7, <2>1, <3>1
    <3>3. CallInv(h)' /\ SubsInv(h)' BY <1>1, <1>14, <3>2 DEF CallInv, SubsInv, Before
    <3>4. QED BY <1>3, <3>1, <3>3
  <2>3. PathInv'
    <3>1. \A i, k \in 1 .. n - 1 : i < k =>
            /\ stack'[i].dir \in Above[stack'[k].dir]
            /\ \A m \in DOMAIN stack'[i].subs : ~Within(stack'[k].dir, stack'[i].subs[m])
      BY <1>2, <1>3, <1>7, <2>1 DEF PathInv
    <3>2. ASSUME NEW k \in 1 .. n - 1, NEW a \in Above[stack'[k].dir]
          PROVE  a \in Above[Start] \/ \E i \in 1 .. n - 1 : i < k /\ stack'[i].dir = a
      <4>1. a \in Above[Start] \/ \E i \in 1 .. n : i < k /\ stack[i].dir = a
        BY <1>2, <1>3, <1>7, <2>1 DEF PathInv
      <4>2. \A i \in 1 .. n : i < k => i \in 1 .. n - 1 BY <1>2
      <4>3. QED BY <1>3, <4>1, <4>2
    <3>3. ASSUME NEW i \in 1 .. n - 1
          PROVE  stack'[i].opts # <<>> /\ stack'[i].opts[1] = "r" /\ ~stack'[i].norecurse
      <4>1. i \in DOMAIN stack /\ i < Len(stack) BY <1>2, <1>5, <1>7
      <4>2. stack[i].opts # <<>> /\ stack[i].opts[1] = "r" /\ ~stack[i].norecurse
        BY <2>1, <4>1 DEF PathInv
      <4>3. QED BY <1>3, <4>2
    <3>4. QED BY <1>3, <3>1, <3>2, <3>3 DEF PathInv, Within
  <2>4. \A p \in Above[Start] : Ready(p)' /\ p \notin cleaned' BY <1>1, <2>1 DEF Ready
  <2>5. QED BY <1>1, <1>3, <2>1, <2>2, <2>3, <2>4 DEF StartInv
<1>16. CleanupInv'
  <2> SUFFICES ASSUME step = "cleanup" PROVE CleanupInv'
    BY <1>1 DEF CleanupInv
  <2>1. stack' = <<>> BY <1>8
  <2>2. QED BY <1>1, <2>1 DEF Inv, CleanupInv
<1>17. CoverInv'
  <2> SUFFICES ASSUME NEW x \in Dirs, setup[x] # "none"
               PROVE  \/ x \in cleaned
                      \/ \E i \in DOMAIN stack' : stack'[i].dir = x
                      \/ (step \in {"parents", "start"} /\ x \in ToSet(passed))
                      \/ (step = "cleanup" /\ x \in ToSet(todo))
                      \/ Lost(x)
    BY <1>1 DEF CoverInv, Lost
  <2>2. CASE x = dir BY <2>2
  <2>3. CASE x # dir
    <3>1. (\E i \in DOMAIN stack : stack[i].dir = x) => \E i \in DOMAIN stack' : stack'[i].dir = x
      BY <1>2, <1>3, <1>4, <1>6, <2>3
    <3>2. QED BY <3>1 DEF Inv, CoverInv
  <2>4. QED BY <2>2, <2>3
<1>18. NoTestAfterFailure' /\ CleanedInside'
  BY <1>1 DEF Inv, NoTestAfterFailure, CleanedInside
<1>19. QED
  BY <1>9, <1>10, <1>12, <1>13, <1>15, <1>16, <1>17, <1>18 DEF Inv

\* A call ends with its last option.
LEMMA LeaveStep ==
  ASSUME Inv, Leave
  PROVE  Inv'
<1>1. /\ stack # <<>> /\ status = "none" /\ top.opts = <<>> /\ stack' = Front(stack)
      /\ status' = (IF top.failed THEN "failed" ELSE "ok")
      /\ UNCHANGED <<kind, flags, mode, step, todo, passed, modeFail, overallFail, exited, uncleaned, dropped>>
      /\ UNCHANGED <<setup, tested, cleaned, bad, trouble>>
  BY DEF Leave, driver, ends, history
<1>2. /\ top \in Frames /\ top.dir = dir /\ dir \in Dirs /\ kind[dir] = "runs"
      /\ step \in {"parents", "start", "cleanup"} /\ (step # "start" => top = stack[1])
  BY <1>1, AtTop
<1>3. FailInv'
  <2> DEFINE n == Len(stack)
  <2>1. n \in Nat \ {0} /\ stack \in Seq(Frames) /\ DOMAIN stack = 1 .. n /\ top = stack[n]
    BY <1>1 DEF Inv, TypeOK, top, Last
  <2>2. DOMAIN stack' = 1 .. n - 1 /\ \A i \in 1 .. n - 1 : stack'[i] = stack[i] BY <1>1, <2>1 DEF Front
  <2> HIDE DEF n
  <2>3. \A i : i \in 1 .. n <=> i \in 1 .. n - 1 \/ i = n BY <2>1
  <2>4. (\E i \in 1 .. n : stack[i].failed) <=> (\E i \in 1 .. n - 1 : stack'[i].failed) \/ status' = "failed"
    BY <1>1, <2>1, <2>2, <2>3
  <2>5. Noted' <=> Noted BY <1>1, <2>1, <2>2, <2>4 DEF Noted
  <2>6. QED BY <1>1, <1>2, <2>5 DEF Inv, FailInv
<1>4. ASSUME step = "parents", status' # "failed" PROVE Ready(passed[1])
  <2>1. ~top.failed /\ top = stack[1] /\ ParentsInv BY <1>1, <1>2, <1>4 DEF Inv
  <2>2. passed[1] \notin bad /\ setup[passed[1]] = "done" /\ dir = passed[1]
    BY <1>1, <1>2, <1>4, <2>1 DEF ParentsInv
  <2>3. QED BY <1>2, <2>2 DEF Ready
<1>5. ASSUME setup[dir] # "none" PROVE dir \in cleaned \/ (step = "parents" /\ dir \in ToSet(passed))
  <2>1. CASE step = "start"
    <3>1. CallInv(top) BY <1>1, <2>1, AtTop
    <3>2. QED BY <1>1, <1>2, <1>5, <3>1 DEF CallInv
  <2>2. CASE step = "cleanup" BY <1>1, <1>2, <2>2 DEF Inv, CleanupInv
  <2>3. CASE step = "parents" BY <1>2, <1>5, <2>3 DEF Inv, ParentsInv
  <2>4. QED BY <1>2, <2>1, <2>2, <2>3
<1>6. trouble' \in BOOLEAN /\ dropped' \in BOOLEAN /\ status' \in {"ok", "failed", "other"}
  BY <1>1 DEF Inv, TypeOK
<1>7. QED BY <1>1, <1>3, <1>4, <1>5, <1>6, Popped

\* The shell ends in it, a subdirectory's or the mode's.
LEMMA ShellExitsStep ==
  ASSUME Inv, ShellExits
  PROVE  Inv'
<1>1. /\ stack # <<>> /\ status = "none" /\ top.opts = top.all /\ trouble' = TRUE
      /\ UNCHANGED <<kind, flags, mode, todo, passed, modeFail, uncleaned>>
      /\ UNCHANGED <<setup, tested, cleaned, bad>>
  BY DEF ShellExits
<1>2. PICK s \in {"failed", "other"} :
        /\ dropped' = (dropped \/ s = "other")
        /\ IF Len(stack) > 1
           THEN stack' = Front(stack) /\ status' = s /\ UNCHANGED <<step, overallFail, exited>>
           ELSE /\ stack' = <<>> /\ status' = "none" /\ step' = "end"
                /\ overallFail' = (overallFail \/ s = "failed")
                /\ exited' = TRUE
  BY DEF ShellExits
<1>3. /\ top \in Frames /\ top.dir = dir /\ dir \in Dirs /\ OptionsLeft(top)
      /\ step \in {"parents", "start", "cleanup"}
      /\ step # "start" => top = stack[1] /\ Len(stack) = 1
  BY <1>1, AtTop
<1>4. dropped' \in BOOLEAN /\ (s = "other" => dropped') /\ (dropped => dropped') BY <1>2 DEF Inv, TypeOK
\* In the start directory and below, nothing has been done there yet.
<1>5. ASSUME step = "start" PROVE setup[dir] = "none"
  <2>1. CallInv(top) /\ top.opts \in Seq(Options) BY <1>1, <1>3, <1>5, AtTop DEF Frames
  <2>2. \A m \in Nat : m + 2 >= m OBVIOUS
  <2>3. Before(top) BY <1>1, <2>1, <2>2 DEF Before
  <2>4. top.opts # <<>>
    <3>1. top.opts = StepOptions BY <1>1, <1>3 DEF OptionsLeft
    <3>2. Len(StepOptions) \in {5, 6} BY <1>5, StartOptions DEF Inv
    <3>3. QED BY <3>1, <3>2
  <2>5. QED BY <1>3, <2>1, <2>3, <2>4 DEF CallInv, Untouched, Within, Clear
<1>6. CASE Len(stack) > 1
  <2>1. stack' = Front(stack) /\ status' = s /\ UNCHANGED <<step, overallFail, exited>> BY <1>2, <1>6
  <2>2. step = "start"
    <3>1. step # "start" => Len(stack) = 1 BY <1>3
    <3>2. Len(stack) # 1
      <4>1. Len(stack) \in Nat BY DEF Inv, TypeOK
      <4>2. \A m \in Nat : m > 1 => m # 1 OBVIOUS
      <4>3. QED BY <1>6, <4>1, <4>2
    <3>3. QED BY <3>1, <3>2
  <2>3. FailInv'
    <3>1. status' = "failed" => Noted' BY DEF Noted
    <3>2. QED BY <1>1, <1>4, <2>1, <2>2, <3>1 DEF FailInv
  <2>4. trouble' \in BOOLEAN BY <1>1
  <2>5. QED BY <1>1, <1>4, <1>5, <2>1, <2>2, <2>3, <2>4, Popped
<1>7. CASE ~(Len(stack) > 1)
  <2>1. /\ stack' = <<>> /\ status' = "none" /\ step' = "end" /\ exited' = TRUE
        /\ overallFail' = (overallFail \/ s = "failed")
    BY <1>2, <1>7
  <2>2. DOMAIN stack' = {} /\ Len(stack') = 0 /\ stack' \in Seq(Frames) BY <2>1
  <2>3. TypeOK' BY <1>1, <1>4, <2>1, <2>2 DEF Inv, TypeOK
  <2>4. StackInv' BY <1>1, <2>1, <2>2 DEF Inv, StackInv
  <2>5. FailInv'
    <3>1. overallFail' => Noted' BY DEF Noted
    <3>2. overallFail' \/ dropped' BY <1>4, <2>1
    <3>3. QED BY <1>1, <3>1, <3>2 DEF FailInv
  <2>6. ParentsInv' /\ PassedInv' /\ StartInv' /\ CleanupInv'
    BY <2>1 DEF ParentsInv, PassedInv, StartInv, CleanupInv
  <2>7. CoverInv'
    <3> SUFFICES ASSUME NEW x \in Dirs, setup[x] # "none" PROVE x \in cleaned \/ x \in Above[Start]
      BY <1>1, <2>1 DEF CoverInv, Lost
    <3>1. stack \in Seq(Frames) /\ Len(stack) = 1 /\ DOMAIN stack = {1} /\ top = stack[1]
      <4>1. stack \in Seq(Frames) /\ Len(stack) \in Nat \ {0} /\ DOMAIN stack = 1 .. Len(stack)
            /\ top = stack[Len(stack)]
        BY <1>1 DEF Inv, TypeOK, top, Last
      <4>2. Len(stack) = 1 BY <1>7, <4>1
      <4>3. QED BY <4>1, <4>2
    <3>2. Above[Start] = ToSet(Parents) BY TreeAssumption
    <3>3. CASE step = "parents"
      <4>1. ToSet(passed) \subseteq Above[Start] /\ (x \in ToSet(passed)) BY <3>2, <3>3 DEF Inv, ParentsInv
      <4>2. QED BY <4>1
    <3>4. CASE step = "start"
      <4>1. x # dir BY <1>5, <3>4
      <4>2. ToSet(passed) = Above[Start] BY <3>4 DEF Inv, StartInv
      <4>3. QED BY <1>3, <3>1, <3>4, <4>1, <4>2 DEF Inv, CoverInv, Lost
    <3>5. CASE step = "cleanup"
      <4>1. ToSet(todo) \subseteq Above[Start] /\ stack[1].dir \in Above[Start]
        BY <1>1, <3>5 DEF Inv, CleanupInv
      <4>2. QED BY <3>1, <3>5, <4>1 DEF Inv, CoverInv, Lost
    <3>6. QED BY <1>3, <3>3, <3>4, <3>5
  <2>8. NoTestAfterFailure' /\ CleanedInside' BY <1>1 DEF Inv, NoTestAfterFailure, CleanedInside
  <2>9. QED BY <2>3, <2>4, <2>5, <2>6, <2>7, <2>8 DEF Inv
<1>8. QED BY <1>6, <1>7

\* More becomes known of the directories.
Learns ==
  /\ kind' \in [Dirs -> {"unknown", "runs", "skipped", "refused"}]
  /\ \A y \in Dirs : kind[y] # "unknown" => kind'[y] = kind[y]

\* A call begins: a frame, or the status at once.
LEMMA CallLearns ==
  ASSUME Inv, NEW s, NEW x \in Dirs, NEW o, CallIn(s, x, o)
  PROVE  /\ Learns
         /\ \/ stack' = Append(s, Frame(x, o)) /\ status' = "none" /\ trouble' = trouble /\ kind'[x] = "runs"
            \/ stack' = s /\ status' = "ok" /\ trouble' = trouble /\ kind'[x] = "skipped"
            \/ stack' = s /\ status' = "failed" /\ trouble' = TRUE
<1>1. kind \in [Dirs -> {"unknown", "runs", "skipped", "refused"}] BY DEF Inv, TypeOK
<1>2. PICK k \in (IF kind[x] = "unknown" THEN {"runs", "skipped", "refused"} ELSE {kind[x]}) :
        /\ kind' = [kind EXCEPT ![x] = k]
        /\ \/ k = "runs" /\ stack' = Append(s, Frame(x, o)) /\ status' = "none" /\ UNCHANGED trouble
           \/ k = "skipped" /\ stack' = s /\ status' = "ok" /\ UNCHANGED trouble
           \/ k \in {"runs", "refused"} /\ stack' = s /\ status' = "failed" /\ trouble' = TRUE
  BY DEF CallIn
<1>3. k \in {"unknown", "runs", "skipped", "refused"} /\ (kind[x] # "unknown" => k = kind[x]) BY <1>1, <1>2
<1>4. kind'[x] = k BY <1>1, <1>2
<1>5. Learns BY <1>1, <1>2, <1>3 DEF Learns
<1>6. QED BY <1>2, <1>4, <1>5

\* What is said of the directories' history still holds when more is known.
LEMMA LearnsHistory ==
  ASSUME Inv, Learns, UNCHANGED <<setup, tested, cleaned, bad>>, uncleaned \subseteq uncleaned'
  PROVE  /\ NoTestAfterFailure' /\ CleanedInside'
         /\ \A d \in Dirs : kind'[d] # "runs" => setup'[d] = "none"
         /\ \A d \in Dirs : Ready(d) => Ready(d)'
         /\ \A d : Untouched(d)' <=> Untouched(d)
<1>1. \A y \in Dirs : kind[y] # "unknown" => kind'[y] = kind[y] BY DEF Learns
<1>2. \A y \in Dirs : kind[y] \in {"runs", "skipped"} => kind'[y] = kind[y] BY <1>1
<1>3. NoTestAfterFailure' BY <1>2 DEF Inv, NoTestAfterFailure
<1>4. CleanedInside' BY DEF Inv, CleanedInside
<1>5. \A d \in Dirs : kind'[d] # "runs" => setup'[d] = "none" BY <1>2 DEF Inv, StackInv
<1>6. \A d \in Dirs : Ready(d) => Ready(d)' BY <1>2 DEF Ready
<1>7. \A d : Untouched(d)' <=> Untouched(d) BY DEF Untouched, Clear
<1>8. QED BY <1>3, <1>4, <1>5, <1>6, <1>7

\* The frame of a call.
LEMMA NewFrame ==
  ASSUME NEW x \in Dirs, NEW o \in Seq(Options)
  PROVE  LET h == Frame(x, o) IN
         /\ h \in Frames /\ h.dir = x /\ h.opts = o /\ h.all = o /\ h.subs = Subdirs[x] /\ ~h.failed
BY ExecuteAssumption DEF Frame, Frames

\* It has all subdirectories ahead of it.
LEMMA NewSubs ==
  ASSUME NEW x \in Dirs, Untouched(x), NEW h, h.dir = x, h.subs = Subdirs[x]
  PROVE  SubsInv(h)
<1>1. Subdirs[x] \in Seq(Dirs) BY ExecuteAssumption
<1>2. \A m, k \in DOMAIN Subdirs[x] : Subdirs[x][m] = Subdirs[x][k] => m = k
  BY TreeAssumption
<1>3. ASSUME NEW m \in DOMAIN Subdirs[x]
      PROVE  Above[Subdirs[x][m]] = Above[x] \cup {x} /\ Untouched(Subdirs[x][m])
  <2>1. Above[Subdirs[x][m]] = Above[x] \cup {x} BY TreeAssumption
  <2>2. Subdirs[x][m] \in Dirs BY <1>1
  <2>3. \A y \in Dirs : Within(y, Subdirs[x][m]) => Within(y, x) BY <2>1, <2>2, Tree DEF Within
  <2>4. QED BY <2>1, <2>3 DEF Untouched
<1>4. QED BY <1>2, <1>3 DEF SubsInv

\* -r: one subdirectory is entered, or does not take part.
LEMMA RecurseStep ==
  ASSUME Inv, Recurse
  PROVE  Inv'
<1> DEFINE n == Len(stack)
           f == stack[n]
           d == f.dir
           s == [stack EXCEPT ![Len(stack)].subs = Tail(@)]
           x == Head(f.subs)
<1>1. /\ stack # <<>> /\ status = "none" /\ top.opts # <<>> /\ top.opts[1] = "r"
      /\ top \in Frames /\ top.dir = dir /\ dir \in Dirs /\ Working("r")
  BY AtOption, AtTop DEF Recurse
<1>2. n \in Nat \ {0} /\ stack \in Seq(Frames) /\ DOMAIN stack = 1 .. n /\ top = f /\ f \in Frames
      /\ n = Len(stack) /\ dir = d
  BY <1>1 DEF Inv, TypeOK, top, Last
<1>3. /\ UNCHANGED <<flags, mode, step, todo, passed, modeFail, overallFail, exited, uncleaned, dropped>>
      /\ UNCHANGED <<setup, tested, cleaned, bad>>
      /\ f.subs # <<>> /\ ~f.norecurse /\ CallIn(s, x, f.all)
  BY <1>2 DEF Recurse, driver, ends
<1>4. step = "start" /\ ~Before(top)
  <2>1. step # "parents" /\ step # "cleanup" BY <1>1, AtTop, WhereItIs DEF Inv
  <2>2. step = "start" BY <1>1, <2>1, AtTop
  <2>3. QED BY <1>1, <2>2, AtTop, WhereItIs DEF Inv
<1>5. PICK g : g = [f EXCEPT !.subs = Tail(f.subs)] OBVIOUS
<1>6. f.subs \in Seq(Dirs) /\ f.opts \in Seq(Options) /\ f.all \in Seq(Options) /\ d \in Dirs BY <1>2 DEF Frames
<1>7. /\ g \in Frames /\ g.dir = d /\ g.opts = f.opts /\ g.all = f.all /\ g.subs = Tail(f.subs)
      /\ g.failed = f.failed /\ g.noexec = f.noexec /\ g.norecurse = f.norecurse
  <2>1. Tail(f.subs) \in Seq(Dirs) BY <1>3, <1>6
  <2>2. QED BY <1>2, <1>5, <2>1 DEF Frames
<1>8. s = [stack EXCEPT ![Len(stack)] = g]
  <2>1. Len(stack) \in DOMAIN stack BY <1>2
  <2>2. QED BY <1>2, <1>5, <2>1
<1>9. /\ s \in Seq(Frames) /\ Len(s) = n /\ DOMAIN s = 1 .. n
      /\ s[n] = g /\ \A i \in 1 .. n : i # n => s[i] = stack[i]
  <2>1. LET t == [stack EXCEPT ![Len(stack)] = g] IN
        /\ t \in Seq(Frames) /\ Len(t) = Len(stack) /\ DOMAIN t = 1 .. Len(stack)
        /\ t[Len(stack)] = g /\ \A i \in 1 .. Len(stack) : i # Len(stack) => t[i] = stack[i]
    BY <1>1, <1>2, <1>7, TopChanged
  <2> HIDE DEF s
  <2>2. QED BY <1>8, <2>1, Zenon
<1>10. x \in Dirs /\ x = f.subs[1] /\ 1 \in DOMAIN f.subs BY <1>3, <1>6
<1>11. /\ \A i \in 1 .. n : CallInv(stack[i]) /\ SubsInv(stack[i])
       /\ PathInv /\ ToSet(passed) = Above[Start] /\ \A p \in Above[Start] : Ready(p) /\ p \notin cleaned
  BY <1>2, <1>4 DEF Inv, StartInv
<1>12. f = stack[n] /\ d = f.dir OBVIOUS
<1> HIDE DEF n, f, d, s, x
<1>13. n \in 1 .. n /\ n \in Nat BY <1>2
<1>14. CallInv(f) /\ SubsInv(f) BY <1>11, <1>12, <1>13
<1>15. Above[x] = Above[d] \cup {d} /\ Untouched(x) BY <1>10, <1>12, <1>14 DEF SubsInv
<1>16. \A i \in 1 .. n : /\ s[i].dir = stack[i].dir /\ s[i].opts = stack[i].opts /\ s[i].failed = stack[i].failed
                         /\ s[i].norecurse = stack[i].norecurse /\ s[i].all = stack[i].all
  BY <1>7, <1>9, <1>12
\* The subdirectories of g are those of f but for the first.
<1>17. \A m \in DOMAIN g.subs : m + 1 \in DOMAIN f.subs /\ m + 1 # 1 /\ g.subs[m] = f.subs[m + 1]
  BY <1>3, <1>6, <1>7
<1>18. g.subs \in Seq(Dirs) /\ \A m \in DOMAIN g.subs : m \in Nat /\ g.subs[m] \in Dirs
  <2>1. g.subs \in Seq(Dirs) BY <1>7 DEF Frames
  <2>2. QED BY <2>1
<1>19. SubsInv(g)
  <2>1. \A m \in DOMAIN g.subs : Above[g.subs[m]] = Above[g.dir] \cup {g.dir} /\ Untouched(g.subs[m])
    BY <1>7, <1>12, <1>14, <1>17 DEF SubsInv
  <2>2. ASSUME NEW k \in DOMAIN g.subs, NEW m \in DOMAIN g.subs, g.subs[k] = g.subs[m] PROVE k = m
    <3>1. k + 1 = m + 1 BY <2>2, <1>14, <1>17 DEF SubsInv
    <3>2. QED BY <3>1, <1>18
  <2>3. QED BY <2>1, <2>2 DEF SubsInv
<1>20. \A m \in DOMAIN g.subs : ~Within(x, g.subs[m])
  <2> SUFFICES ASSUME NEW m \in DOMAIN g.subs PROVE ~Within(x, g.subs[m]) OBVIOUS
  <2>1. g.subs[m] # x BY <1>10, <1>14, <1>17 DEF SubsInv
  <2>2. d \in Above[g.subs[m]] BY <1>7, <1>19 DEF SubsInv
  <2>3. g.subs[m] \notin Above[d] /\ g.subs[m] # d BY <1>6, <1>18, <2>2, Tree
  <2>4. QED BY <1>15, <2>1, <2>3 DEF Within
<1>21. CallInv(g) BY <1>7, <1>12, <1>14 DEF CallInv, Before
<1>22. \A y : Untouched(y)' <=> Untouched(y) BY <1>3 DEF Untouched, Clear
<1>23. \A h : (CallInv(h)' <=> CallInv(h)) /\ (SubsInv(h)' <=> SubsInv(h))
  BY <1>3, <1>22 DEF CallInv, SubsInv, Before
<1>24. \A i \in 1 .. n : CallInv(s[i]) /\ SubsInv(s[i]) BY <1>9, <1>11, <1>19, <1>21
\* The path up to d.
<1>25. \A i, k \in 1 .. n : i < k =>
         /\ s[i].dir \in Above[s[k].dir]
         /\ \A m \in DOMAIN s[i].subs : ~Within(s[k].dir, s[i].subs[m])
  <2> SUFFICES ASSUME NEW i \in 1 .. n, NEW k \in 1 .. n, i < k
               PROVE  /\ s[i].dir \in Above[s[k].dir]
                      /\ \A m \in DOMAIN s[i].subs : ~Within(s[k].dir, s[i].subs[m])
    OBVIOUS
  <2>1. i # n BY <1>13
  <2>2. s[i] = stack[i] /\ s[k].dir = stack[k].dir BY <1>9, <1>16, <2>1
  <2>3. QED BY <1>2, <1>11, <2>2 DEF PathInv
<1>26. \A k \in 1 .. n : \A a \in Above[s[k].dir] : a \in Above[Start] \/ \E i \in 1 .. n : i < k /\ s[i].dir = a
  BY <1>2, <1>11, <1>16 DEF PathInv
<1>27. \A i \in 1 .. n : s[i].opts # <<>> /\ s[i].opts[1] = "r" /\ ~s[i].norecurse
  <2> SUFFICES ASSUME NEW i \in 1 .. n
               PROVE  stack[i].opts # <<>> /\ stack[i].opts[1] = "r" /\ ~stack[i].norecurse
    BY <1>16
  <2>1. CASE i = n BY <1>1, <1>2, <1>3, <1>12, <2>1
  <2>2. CASE i # n
    <3>1. i < n BY <1>13, <2>2
    <3>2. i \in DOMAIN stack /\ i < Len(stack) BY <1>2, <3>1
    <3>3. QED BY <1>11, <3>2 DEF PathInv
  <2>3. QED BY <2>1, <2>2
<1>28a. /\ Learns
       /\ \/ stack' = Append(s, Frame(x, f.all)) /\ status' = "none" /\ trouble' = trouble /\ kind'[x] = "runs"
          \/ stack' = s /\ status' = "ok" /\ trouble' = trouble /\ kind'[x] = "skipped"
          \/ stack' = s /\ status' = "failed" /\ trouble' = TRUE
  BY <1>3, <1>10, CallLearns
<1>28b. /\ NoTestAfterFailure' /\ CleanedInside'
       /\ \A y \in Dirs : kind'[y] # "runs" => setup'[y] = "none"
  BY <1>3, <1>28a, LearnsHistory
<1>28c. \A y \in Dirs : Ready(y) => Ready(y)' BY <1>3, <1>28a, LearnsHistory
<1>28. ASSUME NEW p \in Above[Start] PROVE Ready(p)' /\ p \notin cleaned'
  <2>1. p \in Dirs BY ExecuteAssumption, Tree
  <2>2. Ready(p) /\ p \notin cleaned BY <1>11
  <2>3. Ready(p)' BY <1>28c, <2>1, <2>2
  <2>4. QED BY <1>3, <2>2, <2>3
<1>29. /\ NoTestAfterFailure' /\ CleanedInside' /\ ParentsInv' /\ PassedInv' /\ CleanupInv'
  BY <1>3, <1>4, <1>28b DEF Inv, ParentsInv, PassedInv, CleanupInv
<1>30. LET noted == overallFail \/ modeFail \/ \E i \in 1 .. n : s[i].failed
       IN  (noted => trouble) /\ (trouble => noted \/ dropped)
  BY <1>1, <1>2, <1>16 DEF Inv, FailInv, Noted
<1>31. \A i \in 1 .. n : OptionsLeft(s[i]) /\ kind[s[i].dir] = "runs"
  <2>1. \A h, q : h.all = q.all /\ h.opts = q.opts => (OptionsLeft(h) <=> OptionsLeft(q)) BY DEF OptionsLeft
  <2>2. \A i \in 1 .. n : OptionsLeft(stack[i]) /\ kind[stack[i].dir] = "runs" BY <1>2 DEF Inv, StackInv
  <2>3. QED BY <1>16, <2>1, <2>2
<1>32. \A h : OptionsLeft(h)' <=> OptionsLeft(h) BY <1>3, SameOptions
<1>33. \A y \in Dirs : kind[y] = "runs" => kind'[y] = "runs" BY <1>28a DEF Learns
<1>34. \A y \in Dirs : setup'[y] # "none" =>
         y \in cleaned' \/ y \in ToSet(passed) \/ (\E i \in 1 .. n : s[i].dir = y) \/ Lost(y)'
  BY <1>2, <1>3, <1>4, <1>16 DEF Inv, CoverInv, Lost
<1>35. ~exited' /\ trouble \in BOOLEAN BY <1>3, <1>4 DEF Inv, StackInv, TypeOK
<1>35a. \A i \in 1 .. n : s[i].dir \in Dirs
  <2>1. \A i \in 1 .. n : s[i] \in Frames BY <1>9
  <2>2. QED BY <2>1 DEF Frames
<1>36. CASE stack' = s /\ status' \in {"ok", "failed"} /\ trouble' = (trouble \/ status' = "failed")
  <2>1. stack' = s /\ status' \in {"ok", "failed"} /\ trouble' = (trouble \/ status' = "failed") BY <1>36
  <2>2. TypeOK' BY <1>3, <1>9, <1>28a, <2>1 DEF Inv, TypeOK, Learns
  <2>3. StackInv'
    <3>1. ASSUME NEW i \in 1 .. n PROVE OptionsLeft(stack[i])' /\ kind'[stack'[i].dir] = "runs"
      <4>1. PICK h : h = s[i] OBVIOUS
      <4>2. OptionsLeft(h)' /\ kind'[h.dir] = "runs" BY <1>31, <1>32, <1>33, <1>35a, <4>1
      <4>3. QED BY <2>1, <4>1, <4>2
    <3>2. QED BY <1>3, <1>4, <1>9, <1>35, <1>28b, <2>1, <3>1 DEF StackInv
  <2>4. FailInv'
    <3>1. Noted' <=> overallFail \/ modeFail \/ status' = "failed" \/ \E i \in 1 .. n : s[i].failed
      BY <1>3, <1>9, <2>1 DEF Noted
    <3>2. QED BY <1>3, <1>4, <1>30, <2>1, <3>1 DEF FailInv
  <2>5. StartInv'
    <3>1. ASSUME NEW i \in 1 .. n PROVE CallInv(stack[i])' /\ SubsInv(stack[i])'
      <4>1. PICK h : h = s[i] OBVIOUS
      <4>2. CallInv(h)' /\ SubsInv(h)' BY <1>23, <1>24, <4>1
      <4>3. QED BY <2>1, <4>1, <4>2
    <3>2. PathInv' BY <1>9, <1>25, <1>26, <1>27, <2>1 DEF PathInv, Within
    <3>3. QED BY <1>3, <1>9, <1>11, <1>28, <2>1, <3>1, <3>2 DEF StartInv
  <2>6. CoverInv' BY <1>3, <1>4, <1>9, <1>34, <2>1 DEF CoverInv
  <2>7. QED BY <1>29, <2>2, <2>3, <2>4, <2>5, <2>6 DEF Inv
<1>37. CASE stack' = Append(s, Frame(x, f.all)) /\ status' = "none" /\ trouble' = trouble /\ kind'[x] = "runs"
  <2>1. PICK h : h = Frame(x, f.all) OBVIOUS
  <2>2. stack' = Append(s, h) /\ status' = "none" /\ trouble' = trouble BY <1>37, <2>1
  <2>3. h \in Frames /\ h.dir = x /\ h.opts = f.all /\ h.all = f.all /\ h.subs = Subdirs[x] /\ ~h.failed
    BY <1>6, <1>10, <2>1, NewFrame
  <2>4. /\ stack' \in Seq(Frames) /\ Len(stack') = n + 1 /\ DOMAIN stack' = 1 .. n + 1
        /\ stack'[n + 1] = h /\ \A i \in 1 .. n : stack'[i] = s[i]
    <3>1. s \in Seq(Frames) /\ Len(s) = n /\ h \in Frames BY <1>9, <2>3
    <3>2. /\ Append(s, h) \in Seq(Frames) /\ Len(Append(s, h)) = Len(s) + 1
          /\ DOMAIN Append(s, h) = 1 .. Len(s) + 1
          /\ Append(s, h)[Len(s) + 1] = h /\ \A i \in 1 .. Len(s) : Append(s, h)[i] = s[i]
      BY <3>1
    <3>3. QED BY <2>2, <3>1, <3>2
  <2>5. \A i : i \in 1 .. n + 1 <=> i \in 1 .. n \/ i = n + 1 BY <1>2
  <2>6. f.all = StepOptions /\ Len(f.all) \in {5, 6}
    BY <1>1, <1>2, <1>4, <1>12, <1>13, AtTop, WhereItIs DEF Inv, StackInv, OptionsLeft
  <2>7. OptionsLeft(h)
    <3>1. \A m \in Nat : m <= m /\ \A i \in 1 .. m : m - m + i = i OBVIOUS
    <3>2. Len(h.opts) \in Nat BY <2>3, <2>6
    <3>3. QED BY <2>3, <2>6, <3>1, <3>2 DEF OptionsLeft
  <2>8. CallInv(h)
    <3>1. Within(x, Start) BY <1>12, <1>14, <1>15 DEF CallInv, Within
    <3>2. f.all # <<>> BY <2>6
    <3>3. x \notin cleaned BY <1>10, <1>15 DEF Untouched, Within, Clear
    <3>4. Before(h) BY <2>3, <2>6 DEF Before
    <3>5. QED BY <1>15, <2>3, <3>1, <3>2, <3>3, <3>4 DEF CallInv
  <2>9. SubsInv(h) BY <1>10, <1>15, <2>3, NewSubs
  <2>10. TypeOK' BY <1>3, <1>28a, <2>2, <2>4 DEF Inv, TypeOK, Learns
  <2>11. StackInv'
    <3>1. ASSUME NEW i \in 1 .. n + 1 PROVE OptionsLeft(stack[i])' /\ kind'[stack'[i].dir] = "runs"
      <4>1. PICK q : q = stack'[i] OBVIOUS
      <4>2. OptionsLeft(q) /\ kind'[q.dir] = "runs"
        BY <1>31, <1>33, <1>37, <1>35a, <2>3, <2>4, <2>5, <2>7, <4>1
      <4>3. OptionsLeft(q)' BY <1>32, <4>2
      <4>4. QED BY <4>1, <4>2, <4>3
    <3>2. QED BY <1>3, <1>4, <1>35, <1>28b, <2>2, <2>4, <3>1 DEF StackInv
  <2>12. FailInv'
    <3>1. (\E i \in 1 .. n + 1 : stack'[i].failed) <=> (\E i \in 1 .. n : s[i].failed) BY <2>3, <2>4, <2>5
    <3>2. Noted' <=> overallFail \/ modeFail \/ \E i \in 1 .. n : s[i].failed
      BY <1>3, <2>2, <2>4, <3>1 DEF Noted
    <3>3. QED BY <1>3, <1>4, <1>30, <2>2, <3>2 DEF FailInv
  <2>13. PathInv'
    <3>1. ASSUME NEW i \in 1 .. n
          PROVE  /\ s[i].dir \in Above[x]
                 /\ \A m \in DOMAIN s[i].subs : ~Within(x, s[i].subs[m])
      <4>1. CASE i = n BY <1>7, <1>9, <1>15, <1>20, <4>1
      <4>2. CASE i # n
        <5>1. i < n /\ s[i] = stack[i] /\ s[n].dir = d
          <6>1. i < n BY <1>13, <4>2
          <6>2. QED BY <1>7, <1>9, <4>2, <6>1
        <5>2. s[i].dir \in Above[d] /\ \A m \in DOMAIN s[i].subs : ~Within(d, s[i].subs[m])
          BY <1>13, <1>25, <5>1
        <5>3. s[i].dir \in Dirs BY <1>6, <5>2, Tree
        <5>4. ASSUME NEW m \in DOMAIN s[i].subs PROVE ~Within(x, s[i].subs[m])
          <6>1. Above[s[i].subs[m]] = Above[s[i].dir] \cup {s[i].dir} BY <1>24, <5>4 DEF SubsInv
          <6>2. d \notin Above[s[i].subs[m]] BY <1>6, <5>2, <5>3, <6>1, Tree
          <6>3. s[i].subs[m] # x BY <1>15, <6>2
          <6>4. s[i].subs[m] \notin Above[x] BY <1>15, <5>2, <5>4 DEF Within
          <6>5. QED BY <6>3, <6>4 DEF Within
        <5>5. QED BY <1>15, <5>2, <5>4
      <4>3. QED BY <4>1, <4>2
    <3>2. \A i, k \in 1 .. n + 1 : i < k =>
            /\ stack'[i].dir \in Above[stack'[k].dir]
            /\ \A m \in DOMAIN stack'[i].subs : ~Within(stack'[k].dir, stack'[i].subs[m])
      <4> SUFFICES ASSUME NEW i \in 1 .. n + 1, NEW k \in 1 .. n + 1, i < k
                   PROVE  /\ stack'[i].dir \in Above[stack'[k].dir]
                          /\ \A m \in DOMAIN stack'[i].subs : ~Within(stack'[k].dir, stack'[i].subs[m])
        OBVIOUS
      <4>1. i \in 1 .. n BY <1>2
      <4>2. CASE k \in 1 .. n BY <1>25, <2>4, <4>1, <4>2
      <4>3. CASE k = n + 1 BY <2>3, <2>4, <3>1, <4>1, <4>3
      <4>4. QED BY <2>5, <4>2, <4>3
    <3>3. ASSUME NEW k \in 1 .. n + 1, NEW a \in Above[stack'[k].dir]
          PROVE  a \in Above[Start] \/ \E i \in 1 .. n + 1 : i < k /\ stack'[i].dir = a
      <4>1. CASE k \in 1 .. n BY <1>26, <2>4, <2>5, <3>3, <4>1
      <4>2. CASE k = n + 1
        <5>1. a \in Above[d] \/ a = d BY <1>15, <2>3, <2>4, <3>3, <4>2
        <5>2. s[n].dir = d /\ stack'[n].dir = d /\ n < n + 1
          <6>1. n < n + 1 BY <1>13
          <6>2. QED BY <1>7, <1>9, <1>13, <2>4, <6>1
        <5>3. a \in Above[d] => a \in Above[Start] \/ \E i \in 1 .. n : i < n /\ s[i].dir = a
          BY <1>13, <1>26, <5>2
        <5>4. \A i \in 1 .. n : i < n + 1 /\ i \in 1 .. n + 1 BY <1>2
        <5>5. QED BY <1>13, <2>4, <4>2, <5>1, <5>2, <5>3, <5>4
      <4>3. QED BY <2>5, <4>1, <4>2
    <3>4. \A i \in 1 .. n + 1 : i < n + 1 =>
            stack'[i].opts # <<>> /\ stack'[i].opts[1] = "r" /\ ~stack'[i].norecurse
      <4>1. \A i \in 1 .. n + 1 : i < n + 1 => i \in 1 .. n BY <1>2
      <4>2. QED BY <1>27, <2>4, <4>1
    <3>5. QED BY <2>2, <2>4, <3>2, <3>3, <3>4 DEF PathInv, Within
  <2>14. StartInv'
    <3>1. ASSUME NEW i \in 1 .. n + 1 PROVE CallInv(stack[i])' /\ SubsInv(stack[i])'
      <4>1. PICK q : q = stack'[i] OBVIOUS
      <4>2. CallInv(q) /\ SubsInv(q) BY <1>24, <2>4, <2>5, <2>8, <2>9, <4>1
      <4>3. CallInv(q)' /\ SubsInv(q)' BY <1>23, <4>2
      <4>4. QED BY <4>1, <4>3
    <3>2. QED BY <1>3, <1>11, <1>28, <2>4, <2>13, <3>1 DEF StartInv
  <2>15. CoverInv' BY <1>3, <1>4, <1>34, <2>4, <2>5 DEF CoverInv
  <2>16. QED BY <1>29, <2>10, <2>11, <2>12, <2>14, <2>15 DEF Inv
<1>38. QED BY <1>35, <1>36, <1>37, <1>28a
-----------------------------------------------------------------------------
(* stf_execute.                                                            *)

\* Nothing happens in a directory.
Quiet == Learns /\ UNCHANGED <<flags, setup, tested, cleaned, bad>> /\ uncleaned \subseteq uncleaned'

\* Then what is said of the directories' history still holds.
LEMMA QuietHistory ==
  ASSUME Inv, Quiet
  PROVE  /\ NoTestAfterFailure' /\ CleanedInside'
         /\ \A d \in Dirs : kind'[d] # "runs" => setup'[d] = "none"
         /\ \A d \in Dirs : Ready(d) => Ready(d)'
         /\ \A d : Untouched(d)' <=> Untouched(d)
BY LearnsHistory DEF Quiet

\* A call from stf_execute itself: a frame, or the status at once.
LEMMA Called ==
  ASSUME Inv, NEW x \in Dirs, NEW o \in Seq(Options), o # <<>>, CallIn(<<>>, x, o), UNCHANGED flags, stack = <<>>,
         o = StepOptions', status = "none", UNCHANGED <<modeFail, overallFail, dropped>>, step' \notin {"end", "exit"}
  PROVE  /\ stack' \in Seq(Frames) /\ status' \in {"none", "ok", "failed"} /\ trouble' \in BOOLEAN /\ Learns
         /\ \A i \in DOMAIN stack' : OptionsLeft(stack[i])' /\ kind'[stack'[i].dir] = "runs"
         /\ Len(stack') <= 1 /\ (stack' # <<>> => status' = "none")
         /\ FailInv'
         /\ stack' # <<>> => /\ DOMAIN stack' = {1} /\ stack'[1].dir = x
                             /\ stack'[1].opts = o /\ stack'[1].subs = Subdirs[x] /\ stack'[1].all = o
         /\ stack' = <<>> => status' \in {"ok", "failed"} /\ (status' # "failed" => kind'[x] = "skipped")
<1>1. /\ Learns
      /\ \/ stack' = Append(<<>>, Frame(x, o)) /\ status' = "none" /\ trouble' = trouble /\ kind'[x] = "runs"
         \/ stack' = <<>> /\ status' = "ok" /\ trouble' = trouble /\ kind'[x] = "skipped"
         \/ stack' = <<>> /\ status' = "failed" /\ trouble' = TRUE
  BY CallLearns
<1>2. /\ (overallFail \/ modeFail => trouble) /\ (trouble => overallFail \/ modeFail \/ dropped)
      /\ trouble \in BOOLEAN
  <2>1. ~\E i \in DOMAIN stack : stack[i].failed OBVIOUS
  <2>2. QED BY <2>1 DEF Inv, FailInv, Noted, TypeOK
<1>3. CASE stack' = <<>> /\ status' \in {"ok", "failed"} /\ trouble' = (trouble \/ status' = "failed")
           /\ (status' # "failed" => kind'[x] = "skipped")
  <2>1. DOMAIN stack' = {} /\ Len(stack') = 0 /\ stack' \in Seq(Frames) BY <1>3
  <2>2. Noted' <=> overallFail \/ modeFail \/ status' = "failed" BY <2>1 DEF Noted
  <2>3. FailInv' BY <1>2, <1>3, <2>2 DEF FailInv
  <2>4. QED BY <1>1, <1>2, <1>3, <2>1, <2>3
<1>4. CASE stack' = Append(<<>>, Frame(x, o)) /\ status' = "none" /\ trouble' = trouble /\ kind'[x] = "runs"
  <2>1. PICK h : h = Frame(x, o) OBVIOUS
  <2>2. h \in Frames /\ h.dir = x /\ h.opts = o /\ h.all = o /\ h.subs = Subdirs[x] /\ ~h.failed
    BY <2>1, NewFrame
  <2>3. stack' = <<h>> BY <1>4, <2>1
  <2>4. stack' \in Seq(Frames) /\ Len(stack') = 1 /\ DOMAIN stack' = {1} /\ stack'[1] = h BY <2>2, <2>3
  <2>5. FailInv'
    <3>1. Noted' <=> overallFail \/ modeFail BY <1>4, <2>2, <2>4 DEF Noted
    <3>2. QED BY <1>2, <1>4, <3>1 DEF FailInv
  <2>6. OptionsLeft(h)'
    <3>1. \A m \in Nat : m <= m /\ \A i \in 1 .. m : m - m + i = i OBVIOUS
    <3>2. Len(o) \in Nat OBVIOUS
    <3>3. QED BY <2>2, <3>1, <3>2 DEF OptionsLeft
  <2>7. QED BY <1>1, <1>2, <1>4, <2>2, <2>3, <2>4, <2>5, <2>6
<1>5. QED BY <1>1, <1>2, <1>3, <1>4

\* The setups of the next directory above.
LEMMA ParentStep ==
  ASSUME Inv, Parent
  PROVE  Inv'
<1> DEFINE x == Head(todo)
           o == <<"v", "k", "s">>
<1>1. /\ stack = <<>> /\ status = "none" /\ step = "parents" /\ todo # <<>> /\ CallIn(<<>>, x, o)
      /\ passed' = <<x>> \o passed /\ todo' = Tail(todo)
      /\ UNCHANGED <<flags, mode, step, modeFail, overallFail, exited, uncleaned, dropped>>
      /\ UNCHANGED <<setup, tested, cleaned, bad>>
  BY DEF Parent, Free, ends
<1>2. todo \in Seq(Dirs) /\ passed \in Seq(Dirs) BY DEF Inv, TypeOK
<1>3. x \in Dirs /\ x = todo[1] /\ 1 \in DOMAIN todo BY <1>1, <1>2
<1>4. /\ passed' \in Seq(Dirs) /\ todo' \in Seq(Dirs)
      /\ passed'[1] = x /\ 1 \in DOMAIN passed' /\ passed' # <<>>
      /\ \A i \in DOMAIN passed : i + 1 \in DOMAIN passed' /\ passed'[i + 1] = passed[i]
      /\ \A i \in DOMAIN passed' : i = 1 \/ (i > 1 /\ i - 1 \in DOMAIN passed /\ passed'[i] = passed[i - 1])
      /\ \A i \in DOMAIN todo' : i \in Nat /\ i + 1 \in DOMAIN todo /\ todo'[i] = todo[i + 1] /\ 1 < i + 1
      /\ \A i \in DOMAIN todo : i = 1 \/ (i - 1 \in DOMAIN todo' /\ todo'[i - 1] = todo[i])
  <2>1. passed' \in Seq(Dirs) /\ todo' \in Seq(Dirs) /\ Len(passed') = Len(passed) + 1 /\ Len(passed) \in Nat
        /\ DOMAIN passed' = 1 .. Len(passed) + 1 /\ DOMAIN passed = 1 .. Len(passed)
    BY <1>1, <1>2, <1>3
  <2>2. passed'[1] = x /\ \A i \in 1 .. Len(passed) + 1 : i > 1 => passed'[i] = passed[i - 1]
    BY <1>1, <1>2, <1>3
  <2>3. \A i \in 1 .. Len(passed) : i + 1 \in 1 .. Len(passed) + 1 /\ i + 1 > 1 /\ (i + 1) - 1 = i BY <2>1
  <2>4. \A i \in 1 .. Len(passed) + 1 : i = 1 \/ (i > 1 /\ i - 1 \in 1 .. Len(passed)) BY <2>1
  <2>5. 1 \in DOMAIN passed' /\ passed' # <<>> BY <2>1
  <2>6. Len(todo) \in Nat \ {0} /\ DOMAIN todo = 1 .. Len(todo) /\ DOMAIN todo' = 1 .. Len(todo) - 1
        /\ \A i \in 1 .. Len(todo) - 1 : todo'[i] = todo[i + 1]
    BY <1>1, <1>2
  <2>7. \A i \in DOMAIN todo' : i \in Nat /\ i + 1 \in DOMAIN todo /\ todo'[i] = todo[i + 1] /\ 1 < i + 1
    BY <2>6
  <2>8. \A i \in DOMAIN todo : i = 1 \/ (i - 1 \in DOMAIN todo' /\ todo'[i - 1] = todo[i])
    BY <2>6
  <2>9. QED BY <2>1, <2>2, <2>3, <2>4, <2>5, <2>7, <2>8
<1>5. o \in Seq(Options) /\ o # <<>> /\ o = StepOptions' BY <1>1, ParentOptions DEF StepOptions
<1> HIDE DEF x, o
<1>7. /\ stack' \in Seq(Frames) /\ status' \in {"none", "ok", "failed"} /\ trouble' \in BOOLEAN /\ Learns
      /\ \A i \in DOMAIN stack' : OptionsLeft(stack[i])' /\ kind'[stack'[i].dir] = "runs"
      /\ Len(stack') <= 1 /\ (stack' # <<>> => status' = "none")
      /\ FailInv'
      /\ stack' # <<>> => stack'[1].dir = x /\ stack'[1].opts = o
      /\ stack' = <<>> => (status' # "failed" => kind'[x] = "skipped")
  BY <1>1, <1>3, <1>5, Called
<1>6. Quiet /\ ParentsInv /\ ~exited BY <1>1, <1>7 DEF Quiet, Inv, StackInv
<1>8. TypeOK' BY <1>1, <1>4, <1>7 DEF Inv, TypeOK, Learns
<1>9. StackInv' BY <1>1, <1>6, <1>7, QuietHistory DEF StackInv
<1>10. \A i \in DOMAIN passed : passed[i] \in Above[x] BY <1>3, <1>6, <1>1 DEF ParentsInv
<1>11. x \notin ToSet(passed) BY <1>3, <1>10, Tree DEF ToSet
<1>12. ToSet(passed') = ToSet(passed) \cup {x} /\ ToSet(todo) = ToSet(todo') \cup {x}
  <2>1. ToSet(passed') = ToSet(passed) \cup {x} BY <1>4 DEF ToSet
  <2>2. ToSet(todo) = ToSet(todo') \cup {x} BY <1>3, <1>4 DEF ToSet
  <2>3. QED BY <2>1, <2>2
<1>13. ParentsInv'
  <2>1. tested' = {} /\ cleaned' = {} BY <1>1, <1>6 DEF ParentsInv
  <2>2. \A d \in Dirs : setup'[d] # "none" \/ d \in bad' => d \in ToSet(passed')
    BY <1>1, <1>6, <1>12 DEF ParentsInv
  <2>3. x \notin bad' BY <1>1, <1>3, <1>6, <1>11 DEF ParentsInv
  <2>4. ASSUME NEW i \in DOMAIN passed', i > 1 \/ (stack' = <<>> /\ status' # "failed"),
               NEW p \in Dirs, p = passed'[i]
        PROVE  Ready(p)'
    <3>1. CASE i = 1
      <4>1. p = x /\ kind'[x] = "skipped" BY <1>4, <1>7, <2>4, <3>1
      <4>2. QED BY <2>3, <4>1 DEF Ready
    <3>2. CASE i > 1 /\ i - 1 \in DOMAIN passed /\ passed'[i] = passed[i - 1]
      <4>1. Ready(p) BY <1>1, <1>6, <2>4, <3>2 DEF ParentsInv
      <4>2. QED BY <1>6, <4>1, QuietHistory
    <3>3. QED BY <1>4, <3>1, <3>2
  <2>5. ASSUME NEW i \in DOMAIN passed', i > 1 \/ (stack' = <<>> /\ status' # "failed") PROVE Ready(passed[i])'
    <3>1. PICK p \in Dirs : p = passed'[i] BY <1>4
    <3>2. Ready(p)' BY <2>4, <2>5, <3>1
    <3>3. QED BY <3>1, <3>2
  <2>6. ToSet(passed') \cup ToSet(todo') = ToSet(Parents) BY <1>1, <1>6, <1>12 DEF ParentsInv
  <2>7. \A i \in DOMAIN passed', k \in DOMAIN todo' : passed'[i] \in Above[todo'[k]]
    <3> SUFFICES ASSUME NEW i \in DOMAIN passed', NEW k \in DOMAIN todo' PROVE passed'[i] \in Above[todo'[k]]
      OBVIOUS
    <3>1. k + 1 \in DOMAIN todo /\ todo'[k] = todo[k + 1] /\ 1 < k + 1 BY <1>4
    <3>2. CASE i = 1 BY <1>1, <1>3, <1>4, <1>6, <3>1, <3>2 DEF ParentsInv
    <3>3. CASE i - 1 \in DOMAIN passed /\ passed'[i] = passed[i - 1] BY <1>1, <1>6, <3>1, <3>3 DEF ParentsInv
    <3>4. QED BY <1>4, <3>2, <3>3
  <2>8. \A i, k \in DOMAIN todo' : i < k => todo'[i] \in Above[todo'[k]]
    <3>1. \A i, k \in DOMAIN todo' : i < k => i + 1 < k + 1 BY <1>4
    <3>2. QED BY <1>1, <1>4, <1>6, <3>1 DEF ParentsInv
  <2>9. stack' # <<>> => stack'[1].opts # <<>> BY <1>5, <1>7
  <2>10. QED BY <1>4, <1>7, <2>1, <2>2, <2>3, <2>5, <2>6, <2>7, <2>8, <2>9 DEF ParentsInv
<1>14. PassedInv'
  <2>1. ASSUME NEW i \in DOMAIN passed', NEW k \in DOMAIN passed', i < k PROVE passed'[k] \in Above[passed'[i]]
    <3>1. i \in Nat /\ k \in Nat /\ 1 <= i BY <1>4
    <3>2. k > 1 /\ k - 1 \in DOMAIN passed /\ passed'[k] = passed[k - 1] BY <1>4, <2>1, <3>1
    <3>3. CASE i = 1 BY <1>4, <1>10, <3>2, <3>3
    <3>4. CASE i > 1 /\ i - 1 \in DOMAIN passed /\ passed'[i] = passed[i - 1]
      <4>1. i - 1 < k - 1 BY <2>1, <3>1
      <4>2. QED BY <1>1, <3>2, <3>4, <4>1 DEF Inv, PassedInv
    <3>5. QED BY <1>4, <3>3, <3>4
  <2>2. QED BY <2>1 DEF PassedInv
<1>15. StartInv' /\ CleanupInv' BY <1>1 DEF StartInv, CleanupInv
<1>16. CoverInv'
  <2>1. \A d \in Dirs : setup[d] # "none" => d \in cleaned \/ d \in ToSet(passed) \/ Lost(d)
    BY <1>1 DEF Inv, CoverInv
  <2>2. QED BY <1>1, <1>12, <2>1 DEF CoverInv, Lost
<1>17. QED
  BY <1>6, <1>7, <1>8, <1>9, <1>13, <1>14, <1>15, <1>16, QuietHistory DEF Inv

\* The stack is empty before and after: what is then left to show.
LEMMA NoCall ==
  ASSUME Inv, Quiet, stack = <<>>, stack' = <<>>, TypeOK',
         step' \in {"end", "exit"} => status' = "none",
         exited' => step' \in {"end", "exit"},
         overallFail' \/ modeFail' \/ status' = "failed" => trouble',
         trouble' => overallFail' \/ modeFail' \/ status' = "failed" \/ dropped',
         step' \in {"end", "exit"} /\ modeFail' => overallFail' \/ dropped'
  PROVE  StackInv' /\ FailInv' /\ NoTestAfterFailure' /\ CleanedInside'
<1>1. DOMAIN stack' = {} /\ Len(stack') = 0 OBVIOUS
<1>2. StackInv' BY <1>1, QuietHistory DEF StackInv
<1>3. FailInv' BY <1>1 DEF FailInv, Noted
<1>4. QED BY <1>2, <1>3, QuietHistory

\* With an empty stack.
LEMMA Idle ==
  ASSUME Inv, stack = <<>>
  PROVE  /\ overallFail \/ modeFail \/ status = "failed" => trouble
         /\ trouble => overallFail \/ modeFail \/ status = "failed" \/ dropped
         /\ exited => step \in {"end", "exit"}
         /\ \A d \in Dirs : setup[d] # "none" => \/ d \in cleaned
                                                 \/ (step \in {"parents", "start"} /\ d \in ToSet(passed))
                                                 \/ (step = "cleanup" /\ d \in ToSet(todo))
                                                 \/ Lost(d)
<1>1. DOMAIN stack = {} OBVIOUS
<1>2. QED BY <1>1 DEF Inv, StackInv, FailInv, Noted, CoverInv

\* The setups of a directory above are done; the first that fails ends it.
LEMMA ParentDoneStep ==
  ASSUME Inv, ParentDone
  PROVE  Inv'
<1>1. /\ stack = <<>> /\ stack' = <<>> /\ step = "parents" /\ status # "none" /\ status' = "none"
      /\ UNCHANGED <<kind, flags, mode, passed, overallFail, exited, uncleaned, dropped>>
      /\ UNCHANGED <<setup, tested, cleaned, bad, trouble>>
  BY DEF ParentDone, history, ends
<1>2. Quiet /\ ParentsInv /\ ~exited BY <1>1 DEF Quiet, Learns, Inv, TypeOK, StackInv
<1>3. CASE status = "failed"
  <2>1. modeFail' = TRUE /\ step' = "cleanup" /\ todo' = passed BY <1>3 DEF ParentDone
  <2>2. TypeOK' BY <1>1, <2>1 DEF Inv, TypeOK
  <2>3. trouble BY <1>1, <1>3, Idle
  <2>4. StackInv' /\ FailInv' /\ NoTestAfterFailure' /\ CleanedInside'
    BY <1>1, <1>2, <2>1, <2>2, <2>3, NoCall
  <2>5. ParentsInv' /\ PassedInv' /\ StartInv' BY <2>1 DEF ParentsInv, PassedInv, StartInv
  <2>6. CleanupInv'
    <3>1. ToSet(passed) \subseteq Above[Start] BY <1>1, <1>2, TreeAssumption DEF ParentsInv
    <3>2. QED BY <1>1, <2>1, <3>1 DEF Inv, PassedInv, CleanupInv
  <2>7. CoverInv' BY <1>1, <2>1, Idle DEF CoverInv, Lost
  <2>8. QED BY <2>2, <2>4, <2>5, <2>6, <2>7 DEF Inv
<1>4. CASE status # "failed"
  <2>1. UNCHANGED <<modeFail, step, todo>> BY <1>4 DEF ParentDone
  <2>2. TypeOK' BY <1>1, <2>1 DEF Inv, TypeOK
  <2>3. (overallFail \/ modeFail => trouble) /\ (trouble => overallFail \/ modeFail \/ dropped) BY <1>1, <1>4, Idle
  <2>4. StackInv' /\ FailInv' /\ NoTestAfterFailure' /\ CleanedInside'
    BY <1>1, <1>2, <2>1, <2>2, <2>3, NoCall
  <2>5. \A i \in DOMAIN passed : Ready(passed[i]) BY <1>1, <1>2, <1>4 DEF ParentsInv
  <2>6. ASSUME NEW i \in DOMAIN passed' PROVE Ready(passed[i])'
    <3>1. PICK p \in Dirs : p = passed[i] BY <1>1 DEF Inv, TypeOK
    <3>2. Ready(p)' BY <1>1, <1>2, <2>5, <3>1, QuietHistory
    <3>3. QED BY <1>1, <3>1, <3>2
  <2>7. ParentsInv' BY <1>1, <1>2, <2>1, <2>6 DEF ParentsInv
  <2>8. PassedInv' /\ StartInv' /\ CleanupInv'
    BY <1>1, <2>1 DEF Inv, PassedInv, StartInv, CleanupInv
  <2>9. CoverInv' BY <1>1, <2>1, Idle DEF CoverInv, Lost
  <2>10. QED BY <2>2, <2>4, <2>7, <2>8, <2>9 DEF Inv
<1>5. QED BY <1>3, <1>4

\* The start directory is entered.
LEMMA StartHereStep ==
  ASSUME Inv, StartHere
  PROVE  Inv'
<1> DEFINE o == <<"v", "k", "s">> \o flags \o <<"c">>
<1>1. /\ stack = <<>> /\ status = "none" /\ step = "parents" /\ step' = "start" /\ todo = <<>>
      /\ CallIn(<<>>, Start, o)
      /\ UNCHANGED <<flags, mode, todo, passed, modeFail, overallFail, exited, uncleaned, dropped>>
      /\ UNCHANGED <<setup, tested, cleaned, bad>>
  BY DEF StartHere, Free, ends
<1>0. Start \in Dirs BY ExecuteAssumption
<1>3. o = StepOptions' BY <1>1 DEF StepOptions
<1>4. o \in Seq(Options) /\ Len(o) \in {5, 6}
  <2>1. ASSUME NEW F, F \in {<<"e", "r">>, <<"e">>, <<"i">>}
        PROVE  <<"v", "k", "s">> \o F \o <<"c">> \in Seq(Options) /\ Len(<<"v", "k", "s">> \o F \o <<"c">>) \in {5, 6}
    <3>1. F \in Seq(Options) /\ Len(F) \in {1, 2}
      <4>1. CASE F = <<"e", "r">> BY <4>1 DEF Options
      <4>2. CASE F = <<"e">> BY <4>2 DEF Options
      <4>3. CASE F = <<"i">> BY <4>3 DEF Options
      <4>4. QED BY <2>1, <4>1, <4>2, <4>3
    <3>2. <<"v", "k", "s">> \in Seq(Options) /\ <<"c">> \in Seq(Options)
          /\ Len(<<"v", "k", "s">>) = 3 /\ Len(<<"c">>) = 1
      BY DEF Options
    <3>3. <<"v", "k", "s">> \o F \in Seq(Options) /\ Len(<<"v", "k", "s">> \o F) = Len(<<"v", "k", "s">>) + Len(F)
      BY <3>1, <3>2, Concatenated
    <3>4. /\ (<<"v", "k", "s">> \o F) \o <<"c">> \in Seq(Options)
          /\ Len((<<"v", "k", "s">> \o F) \o <<"c">>) = Len(<<"v", "k", "s">> \o F) + Len(<<"c">>)
      BY <3>2, <3>3, Concatenated
    <3>5. \A n \in {1, 2} : (3 + n) + 1 \in {5, 6} OBVIOUS
    <3>6. Len((<<"v", "k", "s">> \o F) \o <<"c">>) = (3 + Len(F)) + 1 BY <3>2, <3>3, <3>4
    <3>7. QED BY <3>1, <3>4, <3>5, <3>6
  <2>2. flags \in {<<"e", "r">>, <<"e">>, <<"i">>} BY DEF Inv, TypeOK
  <2>3. QED BY <2>1, <2>2, Zenon
<1> HIDE DEF o
<1>5. o # <<>>
  <2>1. \A m \in {5, 6} : m # 0 OBVIOUS
  <2>2. Len(o) # 0 BY <1>4, <2>1, Zenon
  <2>3. QED BY <2>2
<1>6. /\ stack' \in Seq(Frames) /\ status' \in {"none", "ok", "failed"} /\ trouble' \in BOOLEAN /\ Learns
      /\ \A i \in DOMAIN stack' : OptionsLeft(stack[i])' /\ kind'[stack'[i].dir] = "runs"
      /\ Len(stack') <= 1 /\ (stack' # <<>> => status' = "none")
      /\ FailInv'
      /\ stack' # <<>> => /\ DOMAIN stack' = {1} /\ stack'[1].dir = Start /\ stack'[1].opts = o
                          /\ stack'[1].subs = Subdirs[Start] /\ stack'[1].all = o
  BY <1>1, <1>0, <1>3, <1>4, <1>5, Called
<1>2. Quiet /\ ParentsInv /\ Start \in Dirs /\ ~exited BY <1>1, <1>0, <1>6 DEF Quiet, Inv, StackInv
<1>7. TypeOK' BY <1>1, <1>6 DEF Inv, TypeOK, Learns
<1>8. StackInv' BY <1>1, <1>2, <1>6, QuietHistory DEF StackInv
<1>9. ParentsInv' /\ CleanupInv' /\ PassedInv' BY <1>1 DEF ParentsInv, CleanupInv, PassedInv, Inv
<1>10. ToSet(passed) = Above[Start]
  <2>1. ToSet(todo) = {} BY <1>1 DEF ToSet
  <2>2. ToSet(passed) \cup ToSet(todo) = ToSet(Parents) BY <1>1, <1>2 DEF ParentsInv
  <2>3. Above[Start] = ToSet(Parents) BY TreeAssumption
  <2>4. QED BY <2>1, <2>2, <2>3
<1>11. ASSUME NEW p \in Above[Start] PROVE Ready(p)' /\ p \notin cleaned'
  <2>1. PICK i \in DOMAIN passed : p = passed[i] BY <1>10 DEF ToSet
  <2>2. Ready(p) BY <1>1, <1>2, <2>1 DEF ParentsInv
  <2>3. p \in Dirs BY <1>2, Tree
  <2>4. QED BY <1>1, <1>2, <2>2, <2>3, QuietHistory DEF ParentsInv
<1>12. Untouched(Start)
  <2>1. \A x \in Dirs : Within(x, Start) => x \notin Above[Start] BY <1>2, Tree DEF Within
  <2>2. QED BY <1>1, <1>2, <1>10, <2>1 DEF ParentsInv, Untouched, Clear
<1>13. StartInv'
  <2>1. ASSUME stack' # <<>>, NEW h, h = stack'[1] PROVE CallInv(h)' /\ SubsInv(h)'
    <3>1. h.dir = Start /\ h.opts = o /\ h.subs = Subdirs[Start] /\ h.all = o BY <1>6, <2>1
    <3>2. SubsInv(h) BY <1>2, <1>12, <3>1, NewSubs
    <3>3. SubsInv(h)' BY <1>2, <3>2, QuietHistory DEF SubsInv
    <3>4. Before(h)'
      <4>1. \A m \in {5, 6} : m + 2 >= m OBVIOUS
      <4>2. QED BY <1>4, <3>1, <4>1 DEF Before
    <3>5. Untouched(Start)' BY <1>2, <1>12, QuietHistory
    <3>6. Start \notin cleaned' BY <1>1, <1>2 DEF ParentsInv
    <3>7. CallInv(h)' BY <1>5, <3>1, <3>4, <3>5, <3>6 DEF CallInv, Within
    <3>8. QED BY <3>3, <3>7
  <2>2. ASSUME NEW i \in DOMAIN stack' PROVE i = 1 /\ stack' # <<>> BY <1>6
  <2>3. ASSUME NEW i \in DOMAIN stack' PROVE CallInv(stack[i])' /\ SubsInv(stack[i])'
    <3>1. PICK h : h = stack'[i] OBVIOUS
    <3>2. CallInv(h)' /\ SubsInv(h)' BY <2>1, <2>2, <3>1
    <3>3. QED BY <3>1, <3>2
  <2>4. PathInv'
    <3>1. \A i, k \in DOMAIN stack' : ~(i < k) BY <2>2
    <3>2. \A k \in DOMAIN stack' : stack'[k].dir = Start BY <1>6, <2>2
    <3>3. \A i \in DOMAIN stack' : ~(i < Len(stack')) /\ status' = "none"
      <4>1. ASSUME NEW i \in DOMAIN stack' PROVE ~(i < Len(stack')) /\ status' = "none"
        <5>1. i = 1 /\ Len(stack') <= 1 /\ Len(stack') \in Nat /\ status' = "none" BY <1>6, <2>2
        <5>2. QED BY <5>1
      <4>2. QED BY <4>1
    <3>4. QED BY <3>1, <3>2, <3>3 DEF PathInv
  <2>5. QED BY <1>1, <1>10, <1>11, <2>3, <2>4 DEF StartInv
<1>14. CoverInv' BY <1>1, Idle DEF CoverInv, Lost
<1>15. QED
  BY <1>2, <1>6, <1>7, <1>8, <1>9, <1>13, <1>14, QuietHistory DEF Inv

\* The start directory is done.
LEMMA StartDoneStep ==
  ASSUME Inv, StartDone
  PROVE  Inv'
<1>1. /\ stack = <<>> /\ stack' = <<>> /\ step = "start" /\ step' = "cleanup" /\ todo' = passed
      /\ status' = "none" /\ modeFail' = (modeFail \/ status = "failed")
      /\ UNCHANGED <<kind, flags, mode, passed, overallFail, exited, uncleaned, dropped>>
      /\ UNCHANGED <<setup, tested, cleaned, bad, trouble>>
  BY DEF StartDone, history, ends
<1>2. Quiet BY <1>1 DEF Quiet, Learns, Inv, TypeOK
<1>3. TypeOK' BY <1>1 DEF Inv, TypeOK
<1>4. /\ overallFail \/ modeFail \/ status = "failed" => trouble
      /\ trouble => overallFail \/ modeFail \/ status = "failed" \/ dropped
      /\ exited => step \in {"end", "exit"}
  BY <1>1, Idle
<1>5. StackInv' /\ FailInv' /\ NoTestAfterFailure' /\ CleanedInside'
  BY <1>1, <1>2, <1>3, <1>4, NoCall
<1>6. ParentsInv' /\ PassedInv' /\ StartInv' BY <1>1 DEF ParentsInv, PassedInv, StartInv
<1>7. CleanupInv' BY <1>1 DEF Inv, PassedInv, StartInv, CleanupInv
<1>8. CoverInv' BY <1>1, Idle DEF CoverInv, Lost
<1>9. QED BY <1>3, <1>5, <1>6, <1>7, <1>8 DEF Inv

\* The cleanups of the next directory above.
LEMMA ParentCleanupStep ==
  ASSUME Inv, ParentCleanup
  PROVE  Inv'
<1> DEFINE x == Head(todo)
           o == <<"c">>
<1>1. /\ stack = <<>> /\ status = "none" /\ step = "cleanup" /\ todo # <<>> /\ CallIn(<<>>, x, o)
      /\ todo' = Tail(todo) /\ uncleaned' = (IF status' = "failed" THEN uncleaned \cup {x} ELSE uncleaned)
      /\ UNCHANGED <<flags, mode, step, passed, modeFail, overallFail, exited, dropped>>
      /\ UNCHANGED <<setup, tested, cleaned, bad>>
  BY DEF ParentCleanup, Free
<1>2. todo \in Seq(Dirs) BY DEF Inv, TypeOK
<1>3. x \in Dirs /\ x = todo[1] /\ 1 \in DOMAIN todo BY <1>1, <1>2
<1>4. /\ todo' \in Seq(Dirs)
      /\ \A i \in DOMAIN todo' : i \in Nat /\ i + 1 \in DOMAIN todo /\ todo'[i] = todo[i + 1] /\ 1 < i + 1
      /\ \A i \in DOMAIN todo : i = 1 \/ (i - 1 \in DOMAIN todo' /\ todo'[i - 1] = todo[i])
  <2>1. /\ Len(todo) \in Nat \ {0} /\ DOMAIN todo = 1 .. Len(todo) /\ DOMAIN todo' = 1 .. Len(todo) - 1
        /\ \A i \in 1 .. Len(todo) - 1 : todo'[i] = todo[i + 1]
    BY <1>1, <1>2
  <2>2. \A i \in DOMAIN todo' : i \in Nat /\ i + 1 \in DOMAIN todo /\ todo'[i] = todo[i + 1] /\ 1 < i + 1
    BY <2>1
  <2>3. \A i \in DOMAIN todo : i = 1 \/ (i - 1 \in DOMAIN todo' /\ todo'[i - 1] = todo[i])
    BY <2>1
  <2>4. QED BY <1>1, <1>2, <2>2, <2>3
<1>5. o \in Seq(Options) /\ o # <<>> /\ o = StepOptions' BY <1>1, ParentOptions DEF StepOptions
<1> HIDE DEF x, o
<1>7. /\ stack' \in Seq(Frames) /\ status' \in {"none", "ok", "failed"} /\ trouble' \in BOOLEAN /\ Learns
      /\ \A i \in DOMAIN stack' : OptionsLeft(stack[i])' /\ kind'[stack'[i].dir] = "runs"
      /\ Len(stack') <= 1 /\ (stack' # <<>> => status' = "none")
      /\ FailInv'
      /\ stack' # <<>> => DOMAIN stack' = {1} /\ stack'[1].dir = x /\ stack'[1].opts = o
      /\ stack' = <<>> => (status' # "failed" => kind'[x] = "skipped")
  BY <1>1, <1>3, <1>5, Called
<1>6. Quiet /\ CleanupInv /\ ~exited BY <1>1, <1>7 DEF Quiet, Inv, StackInv
<1>8. TypeOK' BY <1>1, <1>3, <1>4, <1>7 DEF Inv, TypeOK, Learns
<1>9. StackInv' BY <1>1, <1>6, <1>7, QuietHistory DEF StackInv
<1>10. ParentsInv' /\ PassedInv' /\ StartInv' BY <1>1 DEF ParentsInv, PassedInv, StartInv
<1>11. CleanupInv'
  <2>1. \A i, k \in DOMAIN todo' : i < k => i + 1 < k + 1 BY <1>4
  <2>2. \A i, k \in DOMAIN todo' : i < k => todo'[k] \in Above[todo'[i]] BY <1>1, <1>4, <1>6, <2>1 DEF CleanupInv
  <2>3. \A k \in DOMAIN todo' : todo'[k] \in Above[x] BY <1>1, <1>3, <1>4, <1>6 DEF CleanupInv
  <2>4. x \in Above[Start] /\ ToSet(todo') \subseteq Above[Start]
    BY <1>1, <1>3, <1>4, <1>6 DEF CleanupInv, ToSet
  <2>5. QED BY <1>5, <1>7, <2>2, <2>3, <2>4 DEF CleanupInv
<1>12. CoverInv'
  <2>1. ToSet(todo) = ToSet(todo') \cup {x} BY <1>3, <1>4 DEF ToSet
  <2>2. \A d \in Dirs : setup[d] # "none" => d \in cleaned \/ d \in ToSet(todo) \/ Lost(d) BY <1>1, Idle
  <2>3. \A d : Lost(d) => Lost(d)' BY <1>1 DEF Lost
  <2>4. setup[x] # "none" => (\E i \in DOMAIN stack' : stack'[i].dir = x) \/ (x \in Above[Start] /\ x \in uncleaned')
    <3>1. setup[x] # "none" => kind'[x] = "runs" BY <1>1, <1>3, <1>6, QuietHistory
    <3>2. x \in Above[Start] BY <1>1, <1>3, <1>6 DEF CleanupInv, ToSet
    <3>3. stack' = <<>> /\ kind'[x] = "runs" => status' = "failed" BY <1>7
    <3>4. status' = "failed" => x \in uncleaned' BY <1>1
    <3>5. stack' # <<>> => \E i \in DOMAIN stack' : stack'[i].dir = x BY <1>7
    <3>6. QED BY <3>1, <3>2, <3>3, <3>4, <3>5
  <2>5. step' = "cleanup" BY <1>1
  <2> SUFFICES ASSUME NEW d \in Dirs, setup'[d] # "none"
               PROVE  \/ d \in cleaned' \/ (\E i \in DOMAIN stack' : stack'[i].dir = d)
                      \/ d \in ToSet(todo') \/ Lost(d)'
    BY <2>5 DEF CoverInv
  <2>6. setup[d] # "none" /\ cleaned' = cleaned BY <1>1
  <2>7. CASE d = x BY <2>4, <2>6, <2>7 DEF Lost
  <2>8. CASE d # x BY <2>1, <2>2, <2>3, <2>6, <2>8
  <2>9. QED BY <2>7, <2>8
<1>13. QED
  BY <1>6, <1>7, <1>8, <1>9, <1>10, <1>11, <1>12, QuietHistory DEF Inv

\* They are done.
LEMMA ParentCleanedStep ==
  ASSUME Inv, ParentCleaned
  PROVE  Inv'
<1>1. /\ stack = <<>> /\ stack' = <<>> /\ step = "cleanup"
      /\ status' = "none" /\ modeFail' = (modeFail \/ status = "failed")
      /\ UNCHANGED <<kind, flags, mode, step, todo, passed, overallFail, exited, uncleaned, dropped>>
      /\ UNCHANGED <<setup, tested, cleaned, bad, trouble>>
  BY DEF ParentCleaned, history, ends
<1>2. Quiet BY <1>1 DEF Quiet, Learns, Inv, TypeOK
<1>3. TypeOK' BY <1>1 DEF Inv, TypeOK
<1>4. /\ overallFail \/ modeFail \/ status = "failed" => trouble
      /\ trouble => overallFail \/ modeFail \/ status = "failed" \/ dropped
      /\ exited => step \in {"end", "exit"}
  BY <1>1, Idle
<1>5. StackInv' /\ FailInv' /\ NoTestAfterFailure' /\ CleanedInside'
  BY <1>1, <1>2, <1>3, <1>4, NoCall
<1>6. ParentsInv' /\ PassedInv' /\ StartInv' BY <1>1 DEF ParentsInv, PassedInv, StartInv
<1>7. CleanupInv' BY <1>1 DEF Inv, CleanupInv
<1>8. CoverInv' BY <1>1, Idle DEF CoverInv, Lost
<1>9. QED BY <1>3, <1>5, <1>6, <1>7, <1>8 DEF Inv

\* The mode ends: nothing is left to be cleaned.
LEMMA ModeEndStep ==
  ASSUME Inv, ModeEnd
  PROVE  Inv'
<1>1. /\ stack = <<>> /\ stack' = <<>> /\ step = "cleanup" /\ step' = "end" /\ todo = <<>>
      /\ status = "none" /\ overallFail' = (overallFail \/ modeFail)
      /\ UNCHANGED <<kind, flags, mode, todo, passed, status, modeFail, exited, uncleaned, dropped>>
      /\ UNCHANGED <<setup, tested, cleaned, bad, trouble>>
  BY DEF ModeEnd, Free, history, ends
<1>2. Quiet BY <1>1 DEF Quiet, Learns, Inv, TypeOK
<1>3. TypeOK' BY <1>1 DEF Inv, TypeOK
<1>4. /\ overallFail \/ modeFail \/ status = "failed" => trouble
      /\ trouble => overallFail \/ modeFail \/ status = "failed" \/ dropped
      /\ exited => step \in {"end", "exit"}
  BY <1>1, Idle
<1>5. StackInv' /\ FailInv' /\ NoTestAfterFailure' /\ CleanedInside'
  BY <1>1, <1>2, <1>3, <1>4, NoCall
<1>6. ParentsInv' /\ PassedInv' /\ StartInv' /\ CleanupInv'
  BY <1>1 DEF ParentsInv, PassedInv, StartInv, CleanupInv
<1>7. ToSet(todo) = {} BY <1>1 DEF ToSet
<1>8. CoverInv' BY <1>1, <1>7, Idle DEF CoverInv, Lost
<1>9. QED BY <1>3, <1>5, <1>6, <1>8 DEF Inv

\* All modes are done.
LEMMA ExitStep ==
  ASSUME Inv, Exit
  PROVE  Inv'
<1>1. /\ stack = <<>> /\ stack' = <<>> /\ step = "end" /\ step' = "exit"
      /\ UNCHANGED <<kind, flags, mode, todo, passed, status, modeFail, overallFail, exited, uncleaned, dropped>>
      /\ UNCHANGED <<setup, tested, cleaned, bad, trouble>>
      /\ status = "none"
  BY DEF Exit, history, ends, Inv, StackInv
<1>2. Quiet BY <1>1 DEF Quiet, Learns, Inv, TypeOK
<1>3. TypeOK' BY <1>1 DEF Inv, TypeOK
<1>4. /\ overallFail \/ modeFail \/ status = "failed" => trouble
      /\ trouble => overallFail \/ modeFail \/ status = "failed" \/ dropped
      /\ exited => step \in {"end", "exit"}
  BY <1>1, Idle
<1>5. modeFail => overallFail \/ dropped BY <1>1 DEF Inv, FailInv
<1>6. StackInv' /\ FailInv' /\ NoTestAfterFailure' /\ CleanedInside'
  BY <1>1, <1>2, <1>3, <1>4, <1>5, NoCall
<1>7. ParentsInv' /\ PassedInv' /\ StartInv' /\ CleanupInv'
  BY <1>1 DEF ParentsInv, PassedInv, StartInv, CleanupInv
<1>8. CoverInv' BY <1>1, Idle DEF CoverInv, Lost
<1>9. QED BY <1>3, <1>6, <1>7, <1>8 DEF Inv

\* The states a mode begins in, or ends in at once.
Begins ==
  /\ TypeOK /\ step \in {"parents", "end"} /\ todo = Parents /\ passed = <<>> /\ stack = <<>> /\ status = "none"
  /\ ~modeFail /\ (overallFail => trouble) /\ (trouble => overallFail \/ dropped) /\ ~exited
  /\ setup = [d \in Dirs |-> "none"] /\ tested = {} /\ cleaned = {} /\ bad = {}

\* They satisfy the invariant.
LEMMA BeginsWell == Begins => Inv
<1> SUFFICES ASSUME Begins PROVE Inv OBVIOUS
<1>1. DOMAIN stack = {} /\ DOMAIN passed = {} /\ Len(stack) = 0 /\ ToSet(passed) = {} BY DEF Begins, ToSet
<1>2. \A d \in Dirs : setup[d] = "none" BY DEF Begins
<1>3. StackInv /\ FailInv BY <1>1, <1>2 DEF Begins, StackInv, FailInv, Noted
<1>4. ParentsInv BY <1>1, <1>2, TreeAssumption DEF Begins, ParentsInv
<1>5. PassedInv /\ StartInv /\ CleanupInv BY <1>1 DEF Begins, PassedInv, StartInv, CleanupInv
<1>6. CoverInv /\ NoTestAfterFailure /\ CleanedInside
  BY <1>2 DEF Begins, CoverInv, NoTestAfterFailure, CleanedInside
<1>7. QED BY <1>3, <1>4, <1>5, <1>6 DEF Begins, Inv

\* The same of the next state.
LEMMA BeginsNext == Begins' => Inv'
BY BeginsWell, PTL

\* The next mode.
LEMMA NextModeStep ==
  ASSUME Inv, NextMode
  PROVE  Inv'
<1>1. stack = <<>> /\ status = "none" /\ step = "end" BY DEF Inv, StackInv, NextMode
<1>2. (overallFail => trouble) /\ (trouble => overallFail \/ dropped)
  <2>1. modeFail => overallFail \/ dropped BY <1>1 DEF Inv, FailInv
  <2>2. QED BY <1>1, <2>1, Idle
<1>3. mode \in 1 .. Modes /\ mode < Modes /\ mode' = mode + 1 /\ Modes \in Nat
  BY ExecuteAssumption DEF NextMode, Inv, TypeOK
<1>4. mode' \in 1 .. Modes BY <1>3
<1>5. /\ UNCHANGED <<flags, stack, status, dropped>> /\ kind' = [d \in Dirs |-> "unknown"] /\ ~exited'
      /\ exited' = FALSE /\ uncleaned' = {} /\ todo' = Parents /\ passed' = <<>> /\ modeFail' = FALSE
      /\ setup' = [d \in Dirs |-> "none"] /\ tested' = {} /\ cleaned' = {} /\ bad' = {}
      /\ step' \in {"parents", "end"}
      /\ \/ UNCHANGED <<overallFail, trouble>>
         \/ overallFail' = TRUE /\ trouble' = TRUE
  BY DEF NextMode, Fresh
<1>6. /\ flags \in {<<"e", "r">>, <<"e">>, <<"i">>} /\ dropped \in BOOLEAN
      /\ overallFail \in BOOLEAN /\ trouble \in BOOLEAN
  BY DEF Inv, TypeOK
<1>7. TypeOK'
  <2>1. /\ setup' \in [Dirs -> {"none", "failed", "done"}]
        /\ tested' \subseteq Dirs /\ cleaned' \subseteq Dirs /\ bad' \subseteq Dirs /\ uncleaned' \subseteq Dirs
        /\ kind' \in [Dirs -> {"unknown", "runs", "skipped", "refused"}] /\ exited' \in BOOLEAN
    BY <1>5
  <2>2. stack' \in Seq(Frames) /\ passed' \in Seq(Dirs) /\ todo' \in Seq(Dirs)
    BY <1>1, <1>5, ExecuteAssumption
  <2>3. overallFail' \in BOOLEAN /\ trouble' \in BOOLEAN /\ modeFail' \in BOOLEAN BY <1>5, <1>6
  <2>4. QED BY <1>1, <1>4, <1>5, <1>6, <2>1, <2>2, <2>3 DEF TypeOK
<1>8. Begins' BY <1>1, <1>2, <1>5, <1>7 DEF Begins
<1>9. QED BY <1>8, BeginsNext

\* The first mode.
LEMMA Initially == Init => Inv
<1> SUFFICES ASSUME Init PROVE Inv OBVIOUS
<1>1. 1 \in 1 .. Modes BY ExecuteAssumption
<1>2. TypeOK
  <2>1. /\ setup \in [Dirs -> {"none", "failed", "done"}]
        /\ tested \subseteq Dirs /\ cleaned \subseteq Dirs /\ bad \subseteq Dirs /\ uncleaned \subseteq Dirs
        /\ kind \in [Dirs -> {"unknown", "runs", "skipped", "refused"}]
    BY DEF Init
  <2>2. stack \in Seq(Frames) /\ passed \in Seq(Dirs) /\ todo \in Seq(Dirs) BY ExecuteAssumption DEF Init
  <2>3. overallFail \in BOOLEAN /\ trouble \in BOOLEAN /\ modeFail \in BOOLEAN BY DEF Init
  <2>4. QED BY <1>1, <2>1, <2>2, <2>3 DEF Init, TypeOK
<1>3. Begins BY <1>2 DEF Init, Begins
<1>4. QED BY <1>3, BeginsWell
-----------------------------------------------------------------------------
(* The theorems.                                                           *)

\* The inductive invariant holds throughout: every call of stf_executeindir and
\* every step of stf_execute keeps it.
THEOREM Invariance == Spec => []Inv
<1>1. Init => Inv BY Initially
<1>2. Inv /\ [Next]_vars => Inv'
  <2> SUFFICES ASSUME Inv, [Next]_vars PROVE Inv' OBVIOUS
  <2>1. CASE InDir
    BY <2>1, ShellExitsStep, VarsStep, SetupStep, ExecuteStep, NextOption, RecurseStep, CleanupStep, LeaveStep, ReturnedStep
    DEF InDir
  <2>2. CASE Driver
    BY <2>2, ParentStep, ParentDoneStep, StartHereStep, StartDoneStep, ParentCleanupStep, ParentCleanedStep,
       ModeEndStep, NextModeStep, ExitStep
    DEF Driver
  <2>3. CASE UNCHANGED vars
    <3>1. /\ UNCHANGED <<kind, flags, mode, step, todo, passed, stack, status, modeFail, overallFail>>
          /\ UNCHANGED <<setup, tested, cleaned, bad, trouble, exited, uncleaned, dropped>>
      BY <2>3 DEF vars, history, ends
    <3>2. UNCHANGED <<StepOptions>> BY <3>1 DEF StepOptions
    <3>3. TypeOK' /\ FailInv' /\ PassedInv' /\ CleanupInv' /\ CoverInv' /\ NoTestAfterFailure' /\ CleanedInside'
      BY <3>1 DEF Inv, TypeOK, FailInv, Noted, PassedInv, CleanupInv, CoverInv, Lost, NoTestAfterFailure, CleanedInside
    <3>4. StackInv' BY <3>1, <3>2 DEF Inv, StackInv, OptionsLeft
    <3>5. ParentsInv' BY <3>1 DEF Inv, ParentsInv, Ready
    <3>6. StartInv'
      BY <3>1 DEF Inv, StartInv, CallInv, SubsInv, PathInv, Ready, Untouched, Clear, Within, Before
    <3>7. QED BY <3>3, <3>4, <3>5, <3>6 DEF Inv
  <2>4. QED BY <2>1, <2>2, <2>3 DEF Next
<1>3. QED BY <1>1, <1>2, PTL DEF Spec

\* Every variable keeps its type: the options of a call are the ones that are
\* left of its list, and the mode's number stays within the modes.
THEOREM TypeCorrect == Spec => []TypeOK
<1>1. Inv => TypeOK BY DEF Inv
<1>2. QED BY <1>1, Invariance, PTL

\* No test case runs in or below a directory whose setup failed or that was
\* refused: noexec, norecurse and the way past the start directory see to it.
THEOREM NoTestsAfterFailure == Spec => []NoTestAfterFailure
<1>1. Inv => NoTestAfterFailure BY DEF Inv
<1>2. QED BY <1>1, Invariance, PTL

\* Cleanups go from the inside out: those of stf_executeindir after its
\* subdirectories, those of the directories above by stf_reverse_parentdirs; only
\* a directory above whose cleanups were refused is passed over.
THEOREM CleanupGoesOutwards == Spec => []CleanedInside
<1>1. Inv => CleanedInside BY DEF Inv
<1>2. QED BY <1>1, Invariance, PTL

\* When a mode is over, every directory that a setup touched has been cleaned, but
\* for directories above the start directory, and those only when the call for
\* their cleanups was refused or when set_checkenvdir, or a sourced file, ended the
\* mode's shell: a shell that ends further down leaves nothing behind.
THEOREM EverythingIsCleaned == Spec => []AllCleaned
<1>1. Inv => AllCleaned
  <2> SUFFICES ASSUME Inv, step = "end"
               PROVE  \A d \in Dirs : setup[d] # "none" => d \in cleaned \/ Lost(d)
    BY DEF AllCleaned, Lost
  <2>1. stack = <<>> BY DEF Inv, StackInv
  <2>2. QED BY <2>1, Idle
<1>2. QED BY <1>1, Invariance, PTL

\* The exit status is that of everything that happened in any mode, unless a shell
\* ended with a status other than the 1 that its callers look for.
THEOREM StatusIsTold == Spec => []StatusTells
<1>1. Inv => StatusTells
  <2> SUFFICES ASSUME Inv, step = "exit"
               PROVE  (overallFail => trouble) /\ (trouble => overallFail \/ dropped)
    BY DEF StatusTells
  <2>1. stack = <<>> /\ status = "none" /\ (modeFail => overallFail \/ dropped) BY DEF Inv, StackInv, FailInv
  <2>2. QED BY <2>1, Idle
<1>2. QED BY <1>1, Invariance, PTL
=============================================================================
