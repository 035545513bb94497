# Verification of the Solaris Test Framework

The repository holds the ZFS test suite and the framework that runs it, the
Solaris Test Framework (STF). Most of its lines are test cases in ksh; the logic
that can be right or wrong by itself is in the framework: libraries shared by
threads, programs that talk over sockets, watchdogs, and the scripts that run
trees of tests. This directory models that logic in TLA+, checks the models with
TLC on small instances and proves the most important properties with TLAPS.

Paths below are relative to `src/usr/src/`.

## 1. Inventory

| Component | State | Operations | Hard behaviour |
| --- | --- | --- | --- |
| `tools/stf/contrib/hashtable` | buckets, chains, slabs, free chain, one rwlock per entry, per table and per free chain, statistics | locate, insert, delete, resize, sweep, destroy | hand-over-hand locking, walks without locks, allocation in the middle of an insertion |
| `tools/stf/contrib/jnl` | a hash table of per-thread message buffers, a detail level | fetch a buffer, log, report a result | threads that create their buffers concurrently, errno as part of the protocol |
| `tools/stf/bin/mstf_*`, `lib/libmstf.c`, `include/mstf.tcllib` | sync server: count of parts, label, waiting connections, shared variables; launcher: results | sync, setvar, getvar; launch, collect | independent processes, early exits, blocked parts, lost answers |
| `tools/stf/lib/libstf.c`, `bin/stf_jnl_*` | a file mapped by all processes of a test run, the journal | start and end of journal, test case, assertion; totals | processes sharing memory, results from exit status and signals |
| `tools/stf/bin/stf_jnl_context.c` | two pipes, a line buffer, flags | merge stdout, stderr and journal entries of a child | interleaving of two streams, buffer limit |
| `tools/stf/bin/stf_timeout.c` | a child, a deadline | run, poll, kill, report | the deadline races the end of the child |
| `tools/stf/bin/stf_execute.ksh`, `include/stf_common.kshlib` | directory stack, variables of the configuration, results | configure, setup, execute, cleanup over a tree and over modes | failure of any step, what must still run after it |
| word lists of `stf_common.kshlib` | - | add, insert, delete, replace, filter | pure functions |
| `stf_filter.pl`, `stf_compare*.pl`, `build/`, packaging | - | text processing | none |
| `tools/checkenv`, `tools/runwattr`, other `contrib/` | - | one system command each | none |
| `suites/fs/zfs` | ZFS itself, outside the repository | test cases, C helpers, `libtest.kshlib` | not this repository's code |

How they interact: a test case writes messages through `libjnl` or `logapi`, which
keep per-thread buffers in the hash table; `stf_execute` runs each test case under
`stf_timeout` and `stf_jnl_context`, and `libstf` writes the journal entries; a
multi-system test case is `mstf_launch`, which starts `mstf_syncserv` and the parts
on other machines, and the parts call `libmstf` or `mstf.tcllib`.

What makes each component correct:

* hash table: threads see one map (linearizability), chains and free chain never
  mix, no lock is kept or missing, every call returns;
* multi-system tests: `mstf_sync` is a barrier, no wakeup is lost, the test ends
  whatever a part does, the verdict covers all parts;
* journal: a thread gets its own buffers, once; a level's message is committed
  according to the detail level; the searches of the level tables end;
* output: what a program writes is in the journal, once and in its order;
* journal entries: an assertion is entered under the test case that made it;
* timeout: the verdict is the program's own or TIMED_OUT, and no process is left behind;
* execution: cleanup runs wherever setup ran, inside out, test cases never run
  after a failed setup, and the exit status tells of every failure that a
  directory returns. The code makes exceptions to the first and the last of these;
  they are in the properties and in section 4.

`PROJECT.json` lists the hazards, each at its line, with the properties that would
catch it.

## 2. Modules

### HashTable: the hash table shared by threads

`HashTable.tla` models `ht_locate_key`, `ht_insert_key`, `ht_delete_key` and the
internal `ht_locate_entry_` of `libhashtable.c`. An entry is a pair (slab, index);
slab 0 is the table proper. The fields of an entry (`next`, `key`, `data`, the
occupied flag) are functions on entries, a lock is its set of readers and its
writer. Local variables keep their names (`dhte`, `phte`, `pphte`, `ohte`).

One action is what a thread does between two points at which another thread can
interfere: taking a lock, or an access that no lock protects. Releases belong to
the step they end. So the walk for duplicates in `ht_insert_key`, which takes no
locks, has a step for every comparison (`InsertDuplicate`, `InsertDiffers`,
`InsertFault`) and for every move (`InsertNext`), and `ht_delete_key` reads
`dhte->data` in a step of its own after the locks are gone (`DeleteReturn`).

| Code | Actions |
| --- | --- |
| table lock of all calls | `Call`, `LockTable` |
| `ht_locate_entry_` | `FindBase`, `FindRefused`, `FindEmpty`, `FindEnd`, `FindAdvance`, `FindNext`, `FindMatch` |
| end of `ht_locate_key` | `LocateRead` |
| `ht_insert_key` | `InsertBase`, `InsertRefused`, `InsertInTable`, `InsertOccupied`, `InsertDuplicate`, `InsertDiffers`, `InsertFault`, `InsertNext`, `InsertLockFree`, `InsertRefill`, `InsertNoMemory`, `InsertTake`, `InsertFill`, `InsertLink` |
| `ht_delete_key` | `DeleteLone`, `DeleteHead`, `DeleteCopy`, `DeleteChained`, `DeleteLockFree`, `DeleteUnlink`, `DeleteUnlock`, `DeleteReturn` |

Abstractions: a key is an element of a set and `Hash` gives its bucket; statistics
are left out except `stats.freechain.current`, which is computed from itself. The
locks are the system's: a lock is refused (EDEADLK) to the thread that holds it
already. Branches for a release that fails are not modelled; `LocksHeld` shows
that every release gives back a lock that is held. `hto_resize_implicit` is off.
`found` is a history variable: what the entry that a deletion matched held. A
comparison with a NULL key kills the process (`InsertFault`).

`SharedMap.tla` is the abstract specification: one map, each call takes effect at
one moment between its beginning and its return. `HashTableRefinement.tla` gives
the mapping. An insertion takes effect when it links its entry (or fails); a search
takes effect when it locks its bucket's first entry, because insertions go right
behind that entry, where the search has been already. Its answer is what the rest
of the chain holds. The promise is made for lookups and insertions, the calls that
`libjnl` uses; with deletions the code does not keep it (section 4).

`HashTableInv.tla` is the inductive invariant, `HashTableProofs.tla` proves it, and
`HashTableMapProofs.tla` proves what the table is as a map, the refinement included.
For the other components the module with
`Proofs` added to the name (`MultiPartProofs`, `HashTableResizeProofs`, `JournalProofs`,
`TestRunProofs`, `JnlContextProofs`, `ExecuteProofs`) has the invariant and the proofs.

### MultiPart: multi-system tests

`MultiPart.tla` models `mstf_launch.exp`, `mstf_syncserv.exp`, `libmstf.c` and
`mstf.tcllib` together: their behaviour is the protocol between them.

* The server's state has its own names (`num_parts`, `target_label`, `open_list`,
  `shared_vars`, `rval`); `waiting` is `shared_vars(var,wait)`. Every request is a
  connection of its own; the server accepts them in the order they were made and
  runs one handler at a time, so a handler is one step (`GetV`, `SetV`,
  `SyncInStep`, `SyncOutOfStep`, `Sfin`, `Stop`, `InvalidCommand`) on the head of
  `queue`. Setting `rval` ends `vwait`; the process exits a step later
  (`ServerExits`), and parts can connect in between. At the exit a part whose
  request was handled reads end of file, one whose connection was not accepted has
  it reset.
* A part is any script: it calls the library in any order (`Sync`, `SetVar`,
  `GetVar`, `CallFails`), may ignore what it returns, and ends with any result
  (`Return`) or is killed (`Kill`), perhaps when it has connected and sent nothing.
  `CParts` use the C library, which does not notice end of file: the comparison of
  an uninitialized buffer is a choice of outcomes (`SyncReturns`). It also reads on
  while errno is EINTR, and nothing in the loop resets errno: `eintr` has the parts
  to which that has happened (`Interrupted`), and they leave the loop only when the
  connection is reset, which gives errno another value.
* The launcher (`Launch`, `Collect`, `Finish`) tells the server of every part that
  ends, and exits when it cannot (`Tells`), when a part's connection is lost
  (`LaunchEof`) or when a part cannot be started (`LaunchFails`).
* `final_result` and `result_prec` are the code's. `BeforeEq` is what the server
  makes of a value that holds an equals sign.

Not modelled: the login dialogue, the environment of the parts, the exits of the
launcher before the sync server runs, tests without a sync server.

### HashTableResize: resize, sweep and destroy

`HashTableResize.tla` models `ht_resize`, `ht_sweep` and `ht_destroy` beside threads
that look up and insert. It is a second view of the hash table: there a chain is a
set of locked entries and the table never changes, here a table is an array of
chains (sequences of keys) that exists several times, and an insertion links its
entry in one step. A table is a number that malloc gave out (`tables`, `made`);
`table` is `ht->table`, `old` the chain of `ht->old`, `tableR`/`tableW` the head's
rwlock, `mutex` the resize mutex, `rd`/`wr` the locks of entries.

| Code | Actions |
| --- | --- |
| `ht_resize` | `ResizeMutex`, `ResizeLock` (for reading), `ResizeCreate`, `ResizeNoMemory`, `ResizeCopy`, `ResizeCopyUnfilled`, `ResizeCopyFails`, `ResizeSwap` |
| `ht_sweep`, destruction of the old table | `SweepBase`, `SweepChained`, `ResizeDestroy`, `DestroyWild` |
| `ht_destroy` | `Destroy` |
| `ht_locate_entry_`, `ht_insert_key` | `LocateLock` to `LocateRead`, `InsertLock` to `InsertChained` |

The locks of the head and of the entries let a writer that waits go first. A position
of the model does not tell a thread that waits from one about to ask, so a reader may
be granted a lock before such a writer, but fairness does not count on it
(`Overtakes`). The lock of the free chain is held for single steps only and is not a
variable; that it is refused is one of the reasons for `ResizeCopyFails`
(`CannotCopy`). Not modelled: the paths of `ht_destroy` that report an error.

What C leaves undefined (an index beyond the table, freed memory, the pointers that
`ht_create` leaves uninitialized and every `ht_destroy` follows: `LocateBeyond`,
`UseFreed`, `DestroyWild`) ends the program (`alive`), and the properties speak of
the states before. `kept` is a history variable: the keys at the latest resize.

### Journal: the journal library on top of the hash table

`Journal.tla` models `libjnl.c`: `_jnl_init_`, `_jnl_buffer_fetch`,
`jnl_vformat_message_`, `jnl_log_`, diagnostics and results. The hash table is
`INSTANCE SharedMap`, the specification that `HashTable` is shown to implement; its
calls are steps of their own, so those of other threads come between a lookup and
the insertion that follows it. C does not say in which order the four parts of a
diagnostic are evaluated, so the model takes any order. An allocation may fail at
any of the buffers (`FetchAllocate`), and then what was allocated is given back
(`FreeGroup`), or at the head of the group; there and when the table is refused a
lock (errno is not ENOENT) the part is NULL (`FetchFails`). `sent` has the lines that
were given to `stf_jnl_msg`, whose results the code ignores. An allocation may give any address that is free. A text is the number of the call that wrote it. The two searches
(`dl_description_fetch`, `dl_level_fetch`) are the code's halving steps as a
function with a counter for the steps, and `SearchesEnd` compares them
with a linear definition for all levels and words.

### TestRun: the life of a test case

`TestRun.tla` composes what runs when `stf_execute` runs a test program:
`stf_timeout` (`Watch`), `stf_jnl_context` as a process (`Context`), the program with
a process it may leave in the background (`Program`, `Continues`), the entries that
each of them writes through `libstf` and the end of the program through
`liblogapi`. The shared variable file is `jasrt`, the name of the running test case,
and `jvar_mlock`, its mutex; taking the mutex is a step, because a process may be
killed while it holds it. Process groups are explicit in who gets which signal:
`stf_timeout` signals the group of `stf_jnl_context`, whose handler (`Goodbye`)
signals that of the program. `timed_out`, `child_status` and the exit status of
`stf_jnl_context` are kept as the code computes them, with the uninitialized
`child_status` as a choice (`Garbage`). `signal()` sets a handler for one time:
`caught` says that `stf_jnl_context` has used it up, and then a second SIGHUP ends it
(`SendHup`). Its reads end also when a program that runs on has closed its pipes, or
with an error (`ReadPipeEnds`, `Drained`), and `poll_process` may return at another
event and leave the child without a limit (`PollOther`). `log_onexit` assigns whatever
it is given; `onexits`, `cleanups` and `replaced` count what became of the functions.

Two assumptions on time: a program that was started runs by the time its limit
passes (`TimeIsUp`), and `stf_jnl_context` handles a signal within the ten seconds
that `clean_kill` allows (`HupWait`). Both are seconds against milliseconds in the
code. Not modelled: `-q`, the parsing of the time limit, the exit of `stf_timeout`
when `poll()` itself fails (236-241), the exits of
`stf_jnl_start` when the journal cannot be made, wording and time stamps.

### JnlContext: the merge of two pipes

`JnlContext.tla` is the other half of `stf_jnl_context.c`: `read_pipe`, `write_pipe`
and the end of `main`. A character is its pipe and its position; only its kind
(ordinary, newline, NUL) is looked at. The program writes and closes in any order;
`poll` reports what is there, `read` returns any non-empty prefix up to `MAXCHAR`.
The pipes are polled first and the program some time later (`PollSilent`, `PollProc`);
either poll may fail or report an error (`PollError`), and a signal may end the final
reads of a pipe (`FinalInterrupted`, noted in `interrupted`).
`write_pipe` is one action per character with the code's cases as disjuncts
(`JnlEntryBegins`, `JnlChar`, `StderrNul`, `StderrChar`, `StdoutLine`,
`StdoutKept`, `StdoutOverflow`). `outbuf`, `err_tagged`, `jnl_entry` and
`cr_needed` are the code's variables. The tag is counted (`TagLen`) against the
room in the buffer, not spelled.

### Execute: a tree of tests

`Execute.tla` models `stf_execute.ksh` and `stf_executeindir` of
`stf_common.kshlib`. `stack` holds the calls of `stf_executeindir`, each with the
options that remain; an option is one action (`Vars`, `Setup`, `Execute`,
`Interactive`, `Recurse`, `Cleanup`, `Leave`), and a call that ends passes its
status on (`Returned`). The driver goes through the parents, the start directory
and the parents again, in reverse, for each mode. Every program may fail. The kind of
a directory is chosen at its first call in a mode: one that runs, one that is skipped
(no description, not for this mode, or none of the test cases asked for), one that is
refused (its configuration failed); the directory for its results may be refused at
any call. A status is ok, 1 (`"failed"`) or another one, and callers note only 1, as
the code does. A call may also end its shell (`ShellExits`: `set_checkenvdir` exits
without the tool checkenv, a sourced file may exit with any status): that of a
subdirectory, or that of the mode with all that is left to do. `Above` gives
the directories on the path to a directory, and `TreeAssumption` says what a file
system makes true of it: directories form a tree, `STF_EXECUTE_SUBDIRS` names direct
subdirectories, each once, and the parents are the path to the start directory. `setup`, `tested`, `cleaned`, `bad`,
`trouble`, `exited`, `uncleaned` and `dropped` are history.

Not modelled: `stf_configure`, `stf_unconfigure`, the choice of modes and tests on
the command line, interrupts (the script has no trap; an interrupt ends it without
cleanup), and failures of `stf_jnl_start` and `stf_jnl_end`, whose status the script
does not look at.

## 3. Runs that pass

| Run | Instance | Shows |
| --- | --- | --- |
| `ht_shared` | 2 threads, 2 calls each, 4 keys in 2 buckets of which one gets three, one extra slab | `TypeOK`, `KeysUnique`, `NoLocksAtReturn`, `FreeCountIsLength`; `CallsReturn` and `Linearizable` (the refinement of `SharedMap`) under fairness |
| `ht_delete` | 2 threads, 3 calls each, deletions included, 4 keys in one bucket | `IInv` (of which `EmptyEntries` is a part), `LocksHeld`, `DisjointChains` |
| `ht_resize` | 2 threads, 3 calls, 3 keys, tables of 1 and 2 entries, at most 3 tables | `KeysSurvive`, `LiveIsReachable`, `NoLockLeft`; `ResizeEnds` under fairness |
| `mp_barrier` | 3 parts, 2 labels, 2 calls each | `VerdictCoversAll`, `BarrierStep` |
| `mp_vars` | 2 parts, one of them in C, 2 labels, 1 variable, 2 values, `MSTF_EXIT_ON_ERROR` set | `TypeOK`, `SetBeforeSync`, `SetIsAnswered`, `EofMeansFailure`; `GetAnswered` and `LaunchEnds` under fairness |
| `test_run` | 2 test cases, result 1, death by a signal with core, 2 calls of `log_onexit` with a function, a background process that ignores SIGHUP | `VerdictTrue`, `NoOrphans`, `AssertionsBelong`, `CleanupOnce`; `WatchEnds` under fairness |
| `jnl_context` | 4 characters, a buffer of 2, a tag of 1 | `TypeOK`, `NothingLost`, `InOrder`, `LineEnded`; `ContextEnds` under fairness |
| `journal` | 2 threads, 2 groups of 2 buffers, 2 calls, INT_MAX 15 | `InsertsAreNew`, `NothingLeaked`, `PartsAreOwn`, `WholeMessage`, `SearchesEnd` |
| `execute` | 2 parents, the start directory, 2 subdirectories, one more below the first, 2 modes | `NoTestAfterFailure`, `CleanedInside`, `AllCleaned`, `StatusTells` |

The `TypeOK` of `HashTableResize`, `TestRun`, `Journal` and `Execute` describes the
variables; it holds on the same instances and is no property of a run.

Bounds. In `HashTable`, `MaxSlabs` = 1 and three or four keys in one bucket make a
chain of up to four entries, so that a search, an insertion and a deletion can be at
different places of it, and make the free chain run dry and be refilled; with one
slab the next refill finds no memory. Three calls per thread are enough for insert,
delete, insert again. `Modulus` stands for 2^64; what matters is that zero minus one
wraps. In `HashTableResize` three tables allow a resize after a resize, with one old
table that could not be swept; tables of one and two entries make it grow and
shrink, and three keys chain in both. In `MultiPart` two calls per part reach a
second synchronization point after a first one, and a getvar after a setvar; the
queue is bounded because calls are. In `TestRun` the second test case is what the
processes left behind by the first can disturb; `MaxEntries` and `MaxOnExit` bound
what programs do: one entry can cross the end of its test case, and two functions for
`log_onexit` are one that replaces another, or a cleanup function that registers the
second and ends the program again. One exit code is enough beside the death by a
signal, since a code is only passed on. In `JnlContext` four characters
over two pipes are an overlong line with an interruption, or an entry between two
halves of a line; `MAXCHAR` and `TagLen` are scaled with them, the code has 8192 and
8. In `Journal` the number of parts is 2 for the code's 4, which only multiplies
the orders; `IntMax` = 15 is small and keeps the levels, fractions of INT_MAX, distinct
with a gap between them. In `Execute` two directories above the start and two levels
below it show order and nesting at any place of the tree, and two modes that a mode
begins clean. For the safety properties that section 5 proves the bounds no longer
matter; there the runs show that the properties are not empty, since a mutant of the
code breaks each of them on the same instance.

What the properties leave out. `SetBeforeSync` speaks of a server that listens: one
that has given up keeps its `open_list` while the parts on it are released with an
error and go on. `NoOrphans` and `AssertionsBelong` speak of processes that obey
SIGHUP and whose program does (`Obeys`): a program that ignores the signal can start
another process after it, which the signal has then missed. Both restrictions
came out of the proofs, on states that the instances above do not reach.

Symmetry is used for the keys of one bucket, and for parts and labels, in runs
without liveness properties. Deadlock is not checked: when all calls have been made,
or the launcher, the test run or the script has ended, the system may stop.

Fairness. `HashTable!FairSpec` and `HashTableResize!FairSpec` have weak fairness of
every thread inside a call: the system schedules it, and a lock that stays free is
granted; in `HashTableResize` not to a reader while a writer may be waiting for it
(`Overtakes`). No fairness of `Call`. Strong fairness is not needed
because a thread makes finitely many calls. For `MultiPart!FairSpec` the server, the
launcher and each part that is not blocked are scheduled, and a script comes to its
end; nothing has to go wrong (`Kill`, `LaunchEof`, `LaunchFails` have no fairness).
Neither has an interrupted read (`Interrupted`) to happen.
`LaunchEnds` has two exceptions: a part that waits in `mstf_getvar` for a variable
that nobody sets, while the others return `STF_PASS` and the server listens, and a
part in C that reads on because errno stays EINTR. In `TestRun!FairSpec` the
driver, `stf_timeout` and `stf_jnl_context` are scheduled, and so is a process in the
middle of a library call; that a program ends is not assumed, since the watchdog is
there for those that do not, and its limit passing is a step of the watchdog. Nor is
it assumed that a program closes its pipes: `ContextDue` counts on the ends of
`read_pipe` and of the final reads only when the processes are gone. That `poll` reports
other events (`PollOther`) has no fairness. In `JnlContext!FairSpec` only
`stf_jnl_context` is fair, not the program, and signals and errors have no fairness.

The exception of `ResizeEnds` takes three threads, more than `ht_resize` has: a search
in the old table waits at the entry that a refused sweep left locked, an insertion
waits for the lock of the head that the search holds, and the next `ht_resize` waits
behind the insertion. An instance with three threads, two keys, tables of one entry and
four calls reaches it (628,361 states, close to five minutes, so it is not one of the
runs): there `ResizeEnds` holds, and without its exception it is violated by that
behaviour.

## 4. Runs that show a disagreement

| Run | What a comment says | What the code does |
| --- | --- | --- |
| `ht_delete_data` | `ht_delete_key` returns the address of the key's data | returns the data of the next key when the deleted one is the first of a chain |
| `ht_delete_lock` | a lookup that finds nothing sets errno to ENOENT | after a thread deleted the only key of a bucket the entry stays locked, and the thread's next lookup there fails with errno 0 |
| `ht_sweep` | after the sweep there are no stale pointers into the old table | the sweep locks the head of the new copy, so it misses a thread that has computed its entry and not locked it yet; the table is freed under it |

`PROJECT.json` quotes the lines. The models show more of this kind, each of them in
an action or an exception of a property, without a run of its own.

Hash table:

* an insertion that gets no memory fails with errno 0, although errno should say why
  (`libhashtable.c` 1805-1808): `ht_counter_add` clears it (91-104, 2035);
* the write lock on a bucket's entry is said to prevent corruption (1878-1879), but
  the walk for duplicates (1931-1984) follows the free chain after a deletion has
  unlinked the entry it is at (`InsertNext` after `DeleteUnlink`);
* a deletion does not count the entry it puts on the free chain, so
  `stats.freechain.current` falls behind and wraps around;
* a search may use the index of the old entry count on a table that has been
  exchanged (1492): it looks in the wrong chain or beyond the table
  (`LocateBeyond`); an insertion in flight during the copy is lost, which the comment
  at 1165-1168 admits; an entry is marked occupied before its key is stored;
* `ht_sweep` unlocks the head of a chain where it has locked a chained entry (895):
  the release is refused, the sweep ends, the chained entry stays locked and the old
  table stays on `ht->old`; a search that is still in it waits there for ever with the
  lock of the head, and with an insertion that waits in between a later `ht_resize`
  does too (the exception of `ResizeEnds`);
* every `ht_destroy`, by the program as in `ht_resize` (1220, 1247, 1270), follows `ht->old` and the first slab's
  `next`, which nothing has initialized (`DestroyWild`).

Multi-system tests:

* `mstf_sync` in C may return `STF_PASS` at end of file although nobody said "go"
  (`libmstf.c` 53-60 against 87-95). `EofMeansFailure` says how far that goes: only in
  a test of which a result other than `STF_PASS` has been read already;
* the loops `do ... while (errno == EINTR)` (`libmstf.c` 87-89, 164-166) never reset
  errno: after one interrupted read the call goes on reading, through the answer and
  end of file, and does not return (exceptions of `GetAnswered` and `LaunchEnds`);
* `mstf_launch` does not read the server's return value, which
  `mstf_syncserv.exp` 99-102 says it considers (`mstf_launch.exp` 303-353);
* `SetV` stores the part of a value before its first equals sign.

Journal library:

* `jnl_detail.h` 51-62 says that results "will always be sent to the journal" and
  diagnostics "must always be logged"; `jnl_vlog_` filters both by `TJNL_DETAIL` like
  any message (793-800), so that with `TJNL_DETAIL=Assertion` neither is (the instance
  has it, and `WholeMessage` states what the code does);
* `jnl_vlog_` ignores what `stf_jnl_msg` returns (871, 876, 895) and returns 0 although
  nothing was written;
* the comment of `jnl_log_` says messages "greater than or equal to" the detail are
  committed; the code commits those less than or equal;
* a part that could not be written is NULL and is printed as such or ends the program
  (`LogNull`); header and parts together exceed the buffer and are truncated; lines of
  several threads interleave; the buffers of threads that have ended are never freed.

Test cases:

* the mutex of the variable file is not robust: when its owner is killed, the end
  entry of `stf_timeout` waits forever (`LockLost`, the exception of `WatchEnds`);
* when the program dies by a signal, `stf_jnl_context` exits with the number of the
  signal as its code, so the case of `libstf.c` 441 for NORESULT does not arise and
  the entry has the name of that code (`VerdictTrue` speaks of programs that exit);
* a process that ignores SIGHUP outlives its test case (`stf_timeout.c` 295) and may
  write an assertion under the name of the next one, and so may the processes that
  it starts after the signal: the exceptions `Obeys` of `NoOrphans` and
  `AssertionsBelong`;
* a function given to `log_onexit` that a later call replaces, with another one or
  with NULL, never runs (`replaced` in `CleanupOnce`), and neither does one that the
  cleanup function itself registers and then ends without another end of the program;
* with `-s`, or after an event at which `poll_process` returns (267-283), `stf_timeout`
  waits for its child without a limit (`Unwatched`, an exception of `WatchEnds`);
* a final read that a signal interrupts ends like one at end of file
  (`stf_jnl_context.c` 166): what comes later on that pipe is lost (`interrupted`, the
  exception of `NothingLost`);
* in `stf_jnl_context` a NUL on stdout lets the entry pass the text that is buffered
  before it (the exception of `InOrder`); a newline on stderr ends an open entry; a
  line of stdout can follow an unfinished line of stderr, whose rest then has no tag.

Execution:

* `stf_execute.ksh` says of the tests of the start directory that they run "unless
  parent setup failed earlier, in which case we fall through to the cleanup section".
  When `set_checkenvdir` calls exit (`stf_common.kshlib` 663) for a parent or for the
  start directory, the shell of the mode ends: the parents that were set up are not
  cleaned up, and the journal has no end entry (`exited`, an exception of `AllCleaned`);
* a parent whose directory for results cannot be made again (1636-1641) is not cleaned
  up (`uncleaned`, in `AllCleaned` and `CleanedInside`);
* only the status 1 of a subshell is noted (`stf_common.kshlib` 1809, `stf_execute.ksh`
  333): a file that is sourced and exits with another status hides its failure
  (`dropped`, the exception of `StatusTells`);
* the cleanups of parents run also where the variables or the environment failed and
  no setup was run; the results of test cases never reach the exit status;
  after the setup as root has failed, that as a user is skipped.

## 5. Proofs

Every theorem has the form `Spec => []P` or `Spec => [][A]_vars` and holds for every
value of the constants that satisfies the named assumptions of its module. In each
module an inductive invariant is proved first (`Invariance`): it holds initially and
every action keeps it, one lemma per action or group of actions. The properties follow
from it. The invariants were found with TLC on the instances of the components' runs.

### HashTable

For any sets of threads, keys and data, any table size, any number of slabs and calls.
Assumed: sizes are natural numbers, `Hash` maps keys to indices of the table, `None` is
none of the other values.

* `TypeCorrect`: `Spec => []TypeOK`. It needs `PlaceOK`, what a thread's position
  says about its pointers: the code dereferences `dhte`, `phte` and `ohte` without
  a test where the position guarantees that they are set.
* `Invariance`: `Spec => []IInv`. No single property is inductive. That a thread
  holds the locks of the entries it stands on (`LocksHeld`) needs, when a lock is
  given back, that the entry given back and the entry kept differ, which is the
  shape of the chains; the shape (`DisjointChains`, `ChainsPure`, `Neighbours`,
  `Inserting`) needs, when a pointer is written, that nobody else is at the entry,
  which is lock ownership. So `IInv` has three layers: types and positions
  (`TypeInv`), locks (`LockInv`: those held are exactly those explained by the
  positions), and structure (`StructInv`), to which the proof adds that no entry is
  its own successor along any chain (`Acyclic`). The proof has one lemma per layer
  and call, and one for each of the steps that change pointers: taking from the free
  chain, linking, unlinking, refilling, and moving an entry into the table.
* `LocksCorrect`, `ChainsCorrect`, `EmptyCorrect` follow: locks are exclusive and
  held where needed, bucket chains and free chain are disjoint, an empty bucket has
  no chain, with deletions included.
* `ReturnUnlocked`: without deletions no lock is kept after a call. (With them
  `DeleteLone` keeps one, see section 4.)

The next three, in `HashTableMapProofs`, are for the use that `libjnl` makes of the table:
`"delete" \notin Ops`. With deletions they are false (section 4).

* `KeysAreUnique` (`KeysUnique`). The walk for duplicates locks none of the entries it
  reads, so what it has compared may have changed when it links.
  `MapInv` says why it has not: an inserting thread holds the write lock of its bucket's
  table entry from the walk on, so nobody else adds to the bucket; and the entries it has
  compared (`Compared`) are, with the one it is at, a set that the walk enters at the
  bucket and that is left only at the end. When the end is reached the set is closed under
  `next`, and every entry of the bucket is in every closed set that has the bucket's first
  entry (`Rooted`). This way of saying "on the chain" needs no induction over walks in the
  steps; where `ChainFrom`, which is defined by walks, has to be met, the least number
  at which a walk leaves a closed set gives the contradiction.
* `FreeCountIsRight` (`FreeCountIsLength`), if a slab has fewer entries than the counter
  can count (`NumEnts < Modulus`). `FreeInv` says that the free chain has exactly the
  entries of the slabs in use that are neither occupied nor taken by an insertion, so its
  length changes as this set does: by one, or by a slab when the chain has run empty.
* `TableIsLinearizable` (`Spec => Linearizable`), if duplicates are off: the table
  implements `SharedMap`. The map is what `Lookup` reads out of the chains, an entry
  counting from the step that links it (`Holder`). A search takes effect when it locks its
  bucket's first entry, and the answer it owes from then on (`Due`) is what the rest of its
  chain holds. The proof shows for every action which step of the promise it is, and for
  those that are none that neither the map nor anybody's answer changes. The step that
  matters is an insertion that links beside a search: it goes behind the first entry, so it
  changes nothing on the way that a search under way has left (`InsertSpares`), and
  `SearchInv` and `DataInv` say that a search is on the chain of its key and that an entry
  that is found has its data.

### MultiPart

For any finite set of parts, any of them in C, any labels, variables, values and number
of calls. Assumed: `None` and the server's words are no values, and the part of a value
before its first equals sign has no equals sign.

The server knows the parts only by what they send, so the invariant says what a request
in the queue tells of its sender (`QueueInv`: whoever sent sync or getv still waits in
that call, or was killed in it; an sfin is of a part that returned `STF_PASS`) and in
which order the requests of one part can be (`QueueOrder`: nothing but the launcher's
stop comes after a question). `ListInv` carries this over to the parts on `open_list` and
`waiting`, which have nothing on its way. `CountInv` says that `num_parts` is the number
of the parts whose sfin has not been handled. `SyncIsBarrier` (`BarrierStep`) follows by
counting: when `open_list` is as large as `num_parts`, it is all parts but the finished
ones. `SetsBeforeSync` is the order of the queue; `SetsAreAnswered`, `EofAfterFailure`
(`EofMeansFailure`, from what the launcher's stop and the server's exit tell of the
results collected) and `VerdictHolds` (`VerdictCoversAll`, with the order of precedence
that `result_prec` gives) are the others.

### HashTableResize

For any threads, keys, sizes of tables and number of resizes. The mutex of the head is
held by at most one thread, and only its holder changes the list of tables; the table
that it fills is known to it alone until the swap, since the pointers of all others
were read before (`HeadInv`, `MemoryInv`, `PlaceInv`). `NoTableLost` (`LiveIsReachable`)
is read off `MemoryInv`, and `CallsUnlock` (`NoLockLeft`) off `EntryInv`: the locks of
entries are those explained by the threads' positions, but for those of a table that is
out of use, which a refused sweep keeps.

`ResizeKeepsKeys` (`KeysSurvive`) is about the copy, which holds the table lock for
reading while insertions that had their entry already go on without it. `KeptInv` says of
each key that was there at the start that it is in the new table or ahead of the copy
(`Ahead`: of a smaller index, or further down the chain the copy is in), and that all keys
of the new table have been passed (`Passed`), so that none is copied twice. A chain only
grows, right behind its first entry, so an insertion shifts what the copy has passed and
what is ahead of it, but moves nothing from one to the other. `ChainInv` is what this needs
of the chains: each has the keys of its hash, each once, or its one entry is being filled.

### Journal

For any threads, addresses, number of buffers and of calls, any `IntMax` above 6 and any
levels. The table is `SharedMap`, so
the other threads' calls come between a lookup and its insertion. `CallInv` says that
what the table has decided, or will, is the state of the caller's own id, which nobody
else writes; so a lookup that found nothing is not stale when the insertion follows
(`InsertionsAreNew`), although no lock is held in between. `Disjoint` and `HeapInv` give
each group one owner and each block a group, at every point of an allocation that may
fail (`NothingIsLeaked`); `PartInv` and `SentInv` say of each part that is ready that it
was written in this call into a buffer of the thread (`PartsAreTheCallers`).

`SearchesAreFinite` (`SearchesEnd`): the tables have seven entries, but the levels in them
are computed from `INT_MAX`, so the comparisons are those of an ordered table of unknown
numbers. Each search is followed turn by turn (`DescriptionFound`, `LevelFound`): the steps
shrink to one and then go back and forth, and within four turns one of the conditions to
stop is met, at the nearest level (`NearestIs`) or at the word. `MessagesAreWhole`
(`WholeMessage`: what was handed to `stf_jnl_msg`) rests on it for the header, and on `PartInv` for the body. Its own
invariant, `MessageInv`, says which message a call is on and what it has sent so far
(`OpenInv`) and what it has sent and returned when it is over (`DoneInv`); the detail level
does not change once main runs, and before it no call is made. Assumed: `TJNL_DETAIL` is
not set, is a number that an int holds, or is a word (`EnvironmentAssumption`).

### TestRun

For any number of test cases, exit codes, signals and contents of the uninitialized
`child_status`, and whichever processes ignore SIGHUP. The properties are about what is
left when `stf_timeout` has ended; the invariant says how far the processes are with
respect to each other (`StageInv`, `GroupInv`), which are gone after which signal
(`QuietInv`), and where the status comes from (`DeadInv`, `StatusInv`, `EntryInv`).
`VerdictsAreTrue`, `NobodyIsLeft` (`NoOrphans`), `AssertionsHaveTheirCase`
(`AssertionsBelong`) and `CleanupRunsOnce` (`CleanupOnce`) are proved, and `TypeCorrect`.
`CleanupOnce` is inductive together with the types and is itself a part of the
invariant: each call of `log_onexit`, of `endlog` and each end of the program moves one
function from one count to another. The two
assumptions on time in section 2 are guards of the model and so are assumptions of
these theorems too.

### JnlContext

For every program, every `MAXCHAR`, tag length and division into reads. Assumed: the
tag fits into the room that the code leaves for it (`SizeAssumption`). `NothingLost` and
`InOrder` are about the journal followed by the line buffer, while an action adds to the
end of one of the two; the invariant speaks of the journal, of the buffer and of what
relates them (`PlaceInv`, `OrderInv`), and `BufInv` of what a read has still to give.
`OrderInv` needs to know that what waits in the buffer during an entry was written
before it. That all of a pipe has been read at the end holds because the final reads
leave a pipe only at its end, or put it into `interrupted`. `LineInv` says that `cr_needed` tells whether the last line is ended. Theorems:
`TypeCorrect` (the bound of the line buffer is part of `TypeOK`),
`EverythingIsJournalled`, `OrderIsKept`, `LinesAreEnded`.

### Execute

For any tree of directories (`TreeAssumption`), any kinds of them and any number of
modes. That a directory is entered once is not a guard of the code; it follows from the
tree, and the proof rests on it: what lies ahead of the run, in the lists of
subdirectories of the calls on the stack, is untouched (`SubsInv`), and the stack is a
path (`PathInv`). `CallInv` says what has happened in a directory by the option its call
has come to; `ParentsInv`, `PassedInv` and `CleanupInv` do the same for the directories
above, in their two orders; `CoverInv` says where the cleanup of a directory is still to
come from, or that the mode's shell is gone, and `FailInv` where a failure is kept until
it reaches the exit status, or that it was dropped.
Theorems: `TypeCorrect`, `NoTestsAfterFailure`, `CleanupGoesOutwards` (`CleanedInside`),
`EverythingIsCleaned` (`AllCleaned`), `StatusIsTold` (`StatusTells`).

### Checked by TLC only

* Liveness, which is out of the prover's reach: `CallsReturn`, `LaunchEnds`,
  `GetAnswered`, `ResizeEnds`, `WatchEnds`, `ContextEnds`. Every other property of the
  passing runs is a theorem.

## 6. Plan and what is not modelled

All modules of the plan are written, and all safety properties, action properties and the
refinement are proved. What could follow: the types of `Journal`, the
steps that liveness rests on (that a thread in a call can always go on, as invariants), and
the table with deletions once the code keeps its locks there.

Not modelled, with the reasons in `PROJECT.json`: text reports (parsing and layout),
build and packaging, `checkenv`, `runwattr`, the wrappers in `contrib` (one system
command each), the word lists of `stf_common` (shell substitutions), `stf_configure`
and `stf_unconfigure`, the login dialogue of `mstf_launch`, and the ZFS test cases,
which state what ZFS does; ZFS is not in this repository.
