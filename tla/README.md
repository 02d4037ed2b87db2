# Verification of eio: the libeio thread pool and its Ruby binding

TLA+ models of the repository's core, the TLC configurations that check them and
TLAPS proofs about them. Sources are named relative to the repository:
`ext/libeio/eio.c` (the C library), `ext/eio/eio_ext.c` (the Ruby extension),
`lib/eio/*.rb` (event loop and Rack glue).

## 1. The system

A client thread (the Ruby main thread, an event loop) submits requests for blocking
system calls. Worker threads execute them. Results come back over a second queue
and are finished, on the client's thread, by `eio_poll`. A pipe tells the event
loop when to poll.

    client -> req_queue -> worker -> res_queue -> eio_poll -> finish callback

Three locks: `wrklock` (pool size, worker list, request flags), `reqlock`
(`req_queue`, `nreqs`, `nready`, `idle`), `reslock` (`res_queue`, `npending`).
They are never nested except around `fork`. Several counters are also read
without any lock.

| Component | State | Operations | What makes it correct |
|---|---|---|---|
| Request queue `etp_reqq` (eio.c:320-372) | a linked list per priority, `size` | `reqq_push`, `reqq_shift` | highest priority first, FIFO within one, nothing lost or doubled, `size` exact |
| Thread pool `etp` (eio.c:205-660, 1558-1629) | `started`, `idle`, `wanted`, `max_idle`, counters, worker list | `etp_submit`, `etp_cancel`, `etp_poll`, setters, `etp_maybe_start_thread`, `etp_end_thread`, `etp_proc`, `etp_atfork_*` | each request in one place and finished once; counters true; pipe readable iff results wait; no request left with sleeping threads; the pool keeps its limits |
| Request groups (eio.c:664-734, 2013-2058) | per group: members, `size`, `int1` (delayed), `int2` (limit), feeder | `eio_grp`, `_add`, `_feed`, `_limit`, `_cancel`, `eio_finish`, `grp_dec`, `grp_try_feed` | finishes once, after its last member and its feeder; member list intact under every nesting |
| Wrappers (eio.c:1788-2008) | the request's paths, the client's pointer | `eio_nop` ... `eio_custom` | a refused request leaves nothing behind; the client's memory is never freed |
| Request execution (eio.c:690-708, 770-1063, 1430-1783) | worker's `dirp`, `dbuf`; `ptr2`, `offs`, `size` | `eio_execute`, `ALLOC`, `dBUF`, `eio_sendfile_sync`, the emulations, `eio_destroy` | what a fork or the end frees is allocated, and all of it is freed; short transfers lose and repeat nothing; system calls get whole pages of the client's area; loops end |
| Directory reading (eio.c:1230-1427) | `ptr1`, `ptr2` and their flags, `dirp`, the names and entries read so far | `eio__scandir` | every entry once, in the order asked for; writes stay in bounds; what a fork or the end of the request frees is allocated, and all of it is freed |
| Directory sort (eio.c:1065-1228) | the partitions waiting | radix and insertion sort | sorted permutation; the unguarded inner loop stops |
| Ruby wait and event loop (eio_ext.c:110-265, 370-379; eventmachine.rb) | pipe, `nreqs` | `EIO.wait`, `EIO.poll`, `want_poll`, `done_poll` | `EIO.wait` returns, and only when everything is done; `select` never sleeps on a result |
| Ruby requests (eio_ext.c:27-240, 562-1463) | `next_priority`, the `EIO::Request` wrapper, GC roots, `complete` | one method per system call, the finish callbacks, `cancel`, `complete?` | each call ends once and as its own system call did; the Proc outlives the request |

Interactions: the pool calls the client back (`want_poll`, `done_poll`, finish
callbacks, feeders); callbacks call the library again (submit, cancel, setters,
fork); workers and client share the queues, the counters and `req->flags`.

Hard behaviours: unlocked reads in `etp_maybe_start_thread` and
`eio_set_max_parallel`; condition-variable timeouts and spurious wake-ups; threads
that leave by timeout while others are ended by request; forks in the middle of a
callback; exceptions that leave `eio_poll` by `longjmp`; feeders that run inside
`eio_finish`. PROJECT.json lists them, each at its line, as hazards.

## 2. Modules

| Module | Models |
|---|---|
| `ReqQueue` | `etp_reqq` as a value: one sequence per priority plus `size`; the priority arithmetic of `etp_submit` with its signed char |
| `EioService` | abstract: what one request goes through (free, queued, running, done, finishing), cancellation, fork |
| `EtpPool` | the thread pool, for ordinary requests |
| `EioWait` | `EtpPool` plus `EIO.wait` and exceptions raised out of callbacks |
| `EioGroup` | request groups: membership, feeders, nesting, cancellation, delayed finish; over the abstract service |
| `DentSort` | `eio_dent_sort`, step by step: the radix pass over the bits of score and inode, the insertion sort without a bounds check |
| `EioScandir` | `eio__scandir`, the part of a worker that reads and sorts a directory, with `DentSort` |
| `PageAlign` | `eio_page_align`: the arithmetic of the rounding to pages |
| `EioExecute` | a request of any type from its wrapper to its end: `eio_execute`, its emulations, `EioScandir`, what `eio_destroy` frees; cancellation, failures, forks; `eio_sendfile_sync` |
| `EioRuby` | the asynchronous methods of `EIO`: validation, priority, the Proc and the wrapper, execution and `errno`, the finish callbacks; over the abstract service |
| `EioStat` | the buffer of an asynchronous `EIO.stat`, between `eio_destroy` and the `File::Stat` that refers to it |
| `MCEtpPool`, `MCEioWait`, `MCEioGroup`, `MCEioExecute`, `MCEioRuby`, `MCEioStat` | symmetry, instance assumptions and definitions for TLC |
| `EtpPool_proofs` | theorems: the queue's operations, the pool's invariants, the ledgers of `started` and `idle`, the bound on idle threads |
| `EtpPool_refines` | theorem: the pool implements `EioService` |
| `EioWait_proofs` | theorems: no request is stranded, `EIO.wait` sleeps on work and returns when there is none, the pool keeps its bound; the pool's invariants and refinement hold under `EIO.wait` |
| `EioGroup_proofs` | theorems: the lists of groups, the order in which groups finish, feeders; groups use `EioService` as promised |
| `EioExecute_proofs` | theorems: what a fork frees is allocated, nothing else stays behind, what is read of a directory fits its memory, a request implements `EioService` |
| `EioExecute_transfers` | theorems: what `sendfile` and `readahead` transfer, which pages `msync`, `mlock` and `mtouch` reach, that the pages of an area cover it and exceed it by less than a page at either end |
| `EioScandir_proofs` | theorems: the sorts stay in the array and sort, a directory is reported in full, types |
| `EioRuby_proofs` | theorems: Procs are kept, calls end as their own system calls did, Ruby calls implement `EioService` |

### How EtpPool corresponds to the code

* **One action per critical section**, or per unlocked access. `pc` is the client's
  place in the library, `wpc[w]` a worker's place in `etp_proc`; the names of the
  values are explained at `WorkerPc` and in the actions' comments.
* `etp_maybe_start_thread` is four steps (`MaybeStartWanted`, `MaybeStartCount`,
  `MaybeStartDecide`, `StartThread`), because workers change `started` and
  `npending` between its unlocked reads. `nreqs` is changed by the client only.
* `eio_set_max_parallel` is a loop of three steps: the unlocked comparison, the
  push of a type -1 request, `--started`.
* A worker's `wreq[w]` is `self->req`. `Take`, `Post` and `Quit` are the critical
  sections; `Expire` is the return of `pthread_cond_timedwait` with `ETIMEDOUT`
  before the thread has `reqlock` again, `HandleTimeout` what follows; `Leave` is
  the separate critical section of `--started`.
* Counters have the width `Word` and wrap as `unsigned int`; the decision of
  `etp_maybe_start_thread` casts them to signed, as the code does.
* `ForkChild` continues as the child process: both queues and all worker requests
  destroyed, counters cleared, threads gone, the client where it was (main program
  or callback), the pipe made anew (`eio_ext.c`'s atfork handler). The parent does
  nothing but take and release the locks, so it is no action.
* `pipe` counts bytes in the pipe; `done_poll`'s read would block on an empty one,
  so it is a guard of `PollShift`, and deadlock would show.
* Requests are memory: an identity in `Reqs` that was destroyed may be submitted
  again, as `calloc` may return freed memory. `Quits` are the type -1 requests;
  the code leaks them, and the model reuses an identity once no one refers to it.
* `EioWait` adds `EIO.wait`: `Wait`, `WaitSize`, `WaitSelect` are its steps,
  `WaitInterrupt` an exception that ends `select` (a `Timeout`, as in the repository's
  test of `EIO.busy`), `CallbackRaise` one that leaves a finish callback.

### How EioGroup corresponds to the code

All group code runs on the client's thread, so what interleaves is not threads but
calls: `eio_poll` calls `eio_finish`, which calls a finish callback, then through
`grp_dec` and `grp_try_feed` a feeder, then perhaps `eio_finish` of the group, and
callbacks and feeders call `eio_grp_add`, `eio_grp_limit`, `eio_grp_feed` and
`eio_cancel` again. `stack` is the client's call stack, innermost call first; each
library function is cut at the calls it makes. The pointers `grp`, `grp_prev`,
`grp_next`, `grp_first` are kept as they are, with the code's own linking and
unlinking, because the lists are what can go wrong. `res_queue` is a set: eio_poll
may take any of what is in it, which covers every order of priorities. The limits
that end `eio_poll` early are a choice here (`Polled`), exact in `EtpPool`.

The workers are those of `EioService`: `EtpPool` implements it (`Implements`), and
`MembersImplement` checks that `EioGroup` uses it as promised. Client obligations,
as guards: a request is in one group at most and not added once it is being
finished (eio.c:2044 asserts this of the group, but nothing arms the assertion), and
groups do not contain each other in a circle.

### How EioExecute and PageAlign correspond to the code

`EioExecute` follows one request, of a type TLC chooses. A wrapper of `eio.c` is a
value `Wrapper(paths, buf, runs)`: how many paths it copies, whether it stores a
pointer of the client's, and what `eio_execute` does for its type. The wrappers that
agree in all three are one value; each is mapped to its own lines. `Make` is the
wrapper and `eio_submit`, `Refuse` the wrapper when `calloc` or `strdup` fails.

* `heap` is the memory that is allocated, by purpose and size; `ptr1`, `ptr2`,
  `dbuf` and `reg` refer to it. `reg` is what `malloc` has returned and the code has
  not stored yet: `ALLOC` sets `EIO_FLAG_PTR2_FREE` under `wrklock`, calls `malloc`
  and stores the pointer (`AllocFlag`, `AllocMemory`, `AllocStore`), and a fork may
  come between any two. `dBUF` is one critical section (`DBuf`).
* `Sendfile` is the system call: it transfers some of the bytes, fails, or is not
  supported, and then the emulation runs: `DBuf`, then `SendRead` and `SendWrite` in
  turns, each of which may transfer less than it was asked to or fail. `Readahead`
  is a round of the loop of `eio__readahead`. `offset` and `count` are their locals.
  Buffers hold positions of the file instead of bytes, and `reached` collects those
  that were written, or asked for: that is all `Transfers` needs to tell.
* `CallOnArea` is `eio__msync` or `eio__mlock`, `Mtouch` the loop of `eio__mtouch`;
  both round to pages first (`PageAlign`), and `reached` gets the addresses.
* `SendfileSync` is `eio_sendfile_sync`: no request, no fork and no cancellation, and
  the buffer is freed when it returns.
* `Post` hands over and clears the worker, `Finish` and `Destroy` are `eio_finish`
  around its callback, `ForkChild` is the child of a fork. A request that is being
  called back is in no queue and with no worker, so the child does not destroy it.
* `Implements`: seen from outside, the request goes through the stages of `EioService`,
  which is also what `EtpPool` promises of the requests it carries. This links the
  two modules; neither needs the state of the other.

### How EioScandir and DentSort correspond to the code

`EioScandir` is the part of `EioExecute` that runs `eio__scandir`. `pc` is where the
worker is between two points at which something else may interfere: `Open` is the
critical section of `wrklock` at the start, `ReadEntry` one round of the loop over
`readdir`, `CheckCancelled` the unlocked look at the flag after it, `SplitDirs` a
round of the partition by type, `Sorting` a step of `DentSort`. `dents` is the array
behind `ptr1`; its entries keep type, score, inode and the offset of the name. A block
that `realloc` moved is another one in `heap`. `dir` is what readdir has returned so
far: an entry is chosen when it is read, so all directories are covered.

The child of a fork may come at any step, because every step is either outside
`wrklock` or one whole critical section of it. (In `ReadEntry` the two `realloc`s are
two critical sections of one step: between them `ptr2` is new and `ptr1` still
valid, as it is before and after.) It frees what the request points to and closes
the worker's directory. A failed `realloc` of the entries ends the
loop; one of the names leaves only the inner loop, and the `memcpy` that follows
writes to address 0: `pc` becomes "crashed".

`Cutoff` and `Fast` are 30 and 60 in the code, 3 and 3 in the run: five entries are
then enough for partitions on the stack, for the insertion sort to look for the
minimum among `Cutoff + 1` of them only, and for an equal inode with different
scores. Inodes are positive, as readdir's are: with none set the array of bits would
hold its sentinel only, and the radix sort would read below it. `Shifted[k]` is `1 << k`,
a recursive function so that it can be reasoned about.

### How EioRuby corresponds to the code

A `Handle` is an asynchronous call, in the order of the calls, and stands for its
Proc and its `EIO::Request`; their number is the only bound. `Reqs` is memory: the
fields of a destroyed request keep their contents until `calloc` gives the memory
out again, which is what an `EIO::Request` kept too long sees. `StaleUse` says
whether the program does so; `RubyCalls` assumes it does not. `fate` is what became
of the call: its Proc called, an exception out of `EIO.poll` with an errno, or
nothing because it was cancelled. A call that raises, or that runs synchronously
because it has no block, changes nothing the model keeps (`Reject`, `Synchronous`,
`WrongThread`): above all not the priority set for the next call. `Collect` is the
garbage collector: it frees a Proc that is not rooted and never frees a request.
Workers keep `errno` from one request to the next, as threads do.

An exception out of a finish callback leaves by `longjmp`, so its request is never
destroyed: stage "lost", which the abstract service sees as free.

`EioStat` adds to `EioExecute` what `rb_eio_stat_cb` does with the buffer of the
request: `StatCallback` wraps it in a `File::Stat`, which the program may keep after
`Destroy` and the garbage collector frees at some time (`CollectStat`).

### Bounds

`Reqs`, `Quits`, `Workers` are finite sets of identities. `Workers` includes
threads that are ending; when all are in use a thread start waits (its failure is
`CreateFails`). Counters are not otherwise bounded: they cannot outgrow the sets.
`EioExecute` bounds what a request is made for: `MaxEntries` entries of a directory,
`Ranges` of a file of `FileLen` bytes, `Areas` of memory; `BufSize` and `PageSize`
stand for 65536 and the system's page size.

## 3. Runs

| Run | Instance | What it shows |
|---|---|---|
| `PoolSafety` | 2 requests, 2 threads, 2 priorities (-1 and 0) and a `req->pri` that wraps, `Word` 6, idle timeouts, failing thread starts, forks, callbacks with and without a result, `max_idle` 0 or 1, limit 1 or 2 | types, places, counters, pipe, the ledgers of `started` and `idle`, the idle bound, refinement of `EioService` |
| `PoolAwake` | `EioWait`, 2 requests, 3 threads, 2 poison requests, poll limit 1, timed polls, exceptions out of callbacks and out of `EIO.wait` (Ruby's finish callbacks return 0) | no request left with sleeping threads; pool within its limit; `EIO.wait` returns only when all is done and sleeps only on work under way |
| `Live` | `EioWait` with an event loop, 2 requests of 2 priorities, 2 threads, 1 poison, a limit lowered from 2 to 1, no poll limit, no symmetry | under fairness every request ends that is not overtaken for ever, a lowered limit takes effect, and `EIO.wait` returns |
| `GroupSafety` | 2 requests, 2 groups, limit 2, calls from a depth of at most 2 | lists intact, groups finish once, after their members; none is forgotten; feeders served; members see the abstract service |
| `GroupLive` | 2 requests, 1 group, limit 1 or none, callbacks with and without a result | every group ends unless added to for ever |
| `Requests` | every wrapper; directories of up to 5 entries of 5 kinds, 5 sets of flags, inodes of 2 bits, cutoffs 3, first allocations 2 and 4; a file of 6 bytes and a buffer of 3, ranges inside it, over its end, behind it; pages of 4 bytes, areas at, off and over their boundaries; every failure | ownership under fork, release, what is transferred and in which order, whole pages, order, completeness and bounds of a directory and of its sort, `EioService` for one request, termination |
| `RubyCalls` | 2 calls, 2 pieces of memory, 1 worker, a method that cannot fail and one that can (`open`), 2 errnos, a priority beyond the range | each call ends as its own system call did, Procs are kept, the service is implemented, every call ends |
| `NthreadsDoc`, `WaitIdleTimeout`, `GroupFork`, `RubyStale`, `RubyStat` | small | findings, section 6 |

Two requests and two threads are what the hand-overs need: one request being
executed or finished while another is queued, one thread asleep, expired or leaving
while another takes its work. `PoolAwake` adds a third thread and a second poison
request because over-shrinking and restarting needs a surplus of both. Two
priorities suffice to have a poison request, and in `Live` an ordinary one, overtake.
`PoolSafety` submits with 127, which wraps to the lowest priority in `etp_submit`.
With two priorities `Live` is as large as a run may be, so it sets no poll limit: that
`eio_poll` stops early is in `PoolAwake` for safety and, as a choice, in `GroupLive` for
progress. Two groups and two requests
are the least for a group within a group with a sibling on either level, and for a
list from whose front, middle or end a member leaves while another is added.
A request of 5 bytes with a buffer of 3 needs two rounds of an emulation, more if
a transfer comes up short; a file of 6 lets one end in the middle of a buffer. Areas
of 0 to 9 bytes begin and end on, before and after a boundary of pages of 4 bytes,
at addresses below and above their length, which `eio__mtouch` compares.
Two calls and one worker are the least for one call's errno or memory to meet
another call. `MaxDepth` bounds only where callbacks and feeders may call functions that call
back: at depth 3 a feeder called by `eio_grp_limit` inside a callback is included.

Deadlock is checked except in the instances with idle timeouts. There `started` can
wrap (finding `NthreadsDoc`), the loop of `eio_set_max_parallel` then pushes more
requests than any bound on `Quits` provides, and `EIO.wait` can block for good.

### Fairness

* `WF(WorkerNext(w))`: the operating system runs each thread; waits on a condition
  variable end only by signal, so a sleeping thread has no fair step. Time-outs and
  spurious wake-ups are never fair.
* `WF(ClientStep)`: the client does not stop inside the library. `SF(Returns)`:
  finish callbacks return, though they may submit and cancel before.
* `SF(pipe > 0 /\ PollBegin)`: the event loop watches the read end
  (`lib/eio/eventmachine.rb` sets `notify_readable`). `FairRubySpec` does not
  assume it, because `EIO.wait` polls by itself; `Live` checks `FairLoopSpec`, with
  both, for what is submitted and not waited for.
* `EioGroup`: the library and the workers are weakly fair; callbacks and feeders
  return, at every depth of the stack separately, whatever they called; the event
  loop polls while `res_queue` holds something, and passes over no request for ever
  (FIFO within a priority, and groups have the highest).
* `EioExecute`: the worker is weakly fair (the caller, for `eio_sendfile_sync`), and
  so are the finish callback and the destruction of what it posted; the client's
  calls, forks, cancellations and failures are not.
* `EioRuby`: workers, polls and the end of callbacks are weakly fair; the program's
  calls, cancellations and the garbage collector are not.
* `WaitReturns` excepts clients that submit for ever: `EIO.wait` waits for those too.
* `EveryRequestEnds` excepts requests that are overtaken for ever. `reqq_shift` serves the
  highest priority first (eio_ext.c:554 says so) and nothing ages: a client that submits
  requests of a higher priority again and again, or changes the limit up and down so
  that requests which end threads keep coming, starves the others. Submissions of the
  same or a lower priority are not excepted: they cannot keep a request waiting.

### The live runs have no idle timeouts

With timeouts the code really strands requests (`WaitIdleTimeout`),
so `PoolAwake` and `Live` set `Timeouts` to FALSE: they show
that timeouts are the only cause. The timeout is 10 s in the code, so this is also
the usual regime of a busy pool.

## 4. Proofs

`EtpPool_proofs` proves, for all values of the constants allowed by
`PriAssumption`, `PoolAssumption` and `ReqsAssumption` (no more requests than an
`unsigned int` counts, and none of them null):

* `TypeCorrect`, `PlacedAlways`, `CountsAlways`, `PipeMirrors`: `Spec` implies the
  invariants `TypeOK`, `Placed`, `Counts`, `PipeMirrorsResults`.
* They follow from the inductive invariant `IInv` (`Invariance`): the types;
  `Control`, what a thread holds at each point of `etp_proc` and where `eio_poll`
  has a request in hand; `Ordered`, that `size` is what the lists hold; `Placed`;
  `Tally`, the counters. `Placed` alone is not inductive: that a worker pushes on
  `res_queue` something it holds needs `Control`; that a popped request is in no
  other list position needs `Ordered`; that `npending` does not wrap needs `Tally`
  and the bound on the number of requests.
* One lemma per action; lemmas `PushQueue` and `ShiftQueue` say what the queue
  operations do to the set of queued requests, their order and their number, and every
  action cites them.

`EtpPool_refines` proves `Refinement`, `Spec => Implements` (`Service!Spec`):

* `StageTable` says, one place at a time, what stage the mapping gives a request;
  it holds under `IInv`, by `Placed` the places exclude each other, and the CHOOSE of
  the worker in `StageOf` has one candidate.
* A request none of whose places changes keeps its stage (`UnmovedStage`), so a step
  that moves no request is a stutter (`QuietStill`) and one that moves one request is
  `Service!Move` (`OneMoves`). Then one lemma per action that moves a request.
  Hand-overs that only carry it on (`Take`, `Post`, `PollShift`) are stutters too.
* The fork needs `CancelledLive`, that a destroyed request has lost its cancelled
  flag: an invariant of its own, proved there.

`TopOf` is a CHOOSE: it exists by the least element of a set of naturals.

The second half of `EtpPool_proofs` proves, with `ThreadsAssumption` (no more
threads than an `unsigned int` counts), `StartedTrue`, `IdleTrue` and `IdleBoundKept` from `Invariance`:

* `IdleLedger` is inductive with `IInv`: `idle` changes only where a thread enters or
  leaves the set it counts, and is 0 only if that is empty, so `--idle` never wraps.
* `ThreadLedger` holds modulo `Word`, and only so: a thread that gives up idling and
  `etp_end_thread` may both subtract it. The proof counts what is due (`Due`: the
  running threads, less those to be ended, more one while `etp_end_thread` has pushed
  and not yet counted) and shows that each action changes both sides alike.
* `IdleBounded`: a thread waits without a timeout only if `idle`, which by
  `IdleLedger` counts it and all the others, is at most `max_idle`.

`EioRuby_proofs` proves, for any number of calls, pieces of memory, workers and
errnos, `TypesKept`, `ProcsKept`, `OwnEnds` and `RubyRefines`:

* `BaseInv` needs no assumption about the program. A piece of memory that eio_poll
  has not taken up belongs to one call, which has not ended (`Owning`); the fields of
  an executed request tell how its own system call ended (`Ran`), which needs that no
  two workers have the same request (`Working`); the number of the next call is fresh
  (`Numbered`). `ProcKept` follows from it, and that callbacks run one at a time, which
  `CallsImplement` needs.
* `OwnEnd` also needs that the flag `cancel` sets is that of its own call. This is
  `OwnInv`, which holds if `StaleUse` is FALSE: the pointer of an `EIO::Request` leads
  to its own request as long as the call has not ended. `RubyStale` shows what happens
  without that.

`EioExecute_proofs` and `EioExecute_transfers` prove, with `WrappersAssumption` (the
client makes requests with the wrappers of `eio.h`), `ExecuteAssumption` and
`PageAssumption`, `OwnedKept`, `ReleasedKept`, `RequestRefines`, `TransfersKept` and
`InAreaKept`: for every type of request, every directory, size of memory and buffer, and
every combination of failures.

* `Owned` and `Released` follow from an inductive invariant of one page, `IInv`.
  `Phases` says at which points there is a request and of what type; `Scanning` what
  `ptr1` and `ptr2` are while a directory is read; `Holding` what a worker holds besides;
  `Books` that every allocated block has an owner or is one the code forgets. `Owned`
  alone is not inductive: that `AllocStore` stores memory the request may free needs
  `Holding`, and that a `realloc` does not take the path away needs `Scanning`.
* Most actions only go from one point to another (`Passage`): one lemma covers them
  (`PassesInv`), the others have one each.
* `RequestRefines` maps those points to stages (`StageTable`); a request of
  `eio_sendfile_sync` is none, and all its steps are stutters.
* `TransfersKept` adds `Progress`: what is transferred so far is the start of the range,
  `offset` and `count` are what is left, the buffer holds what comes next. The lemmas
  about `Positions` say that runs of bytes that follow each other join.
* `InAreaKept` needs the aligned area in pages (`AreaPages`, from
  `PagesOfArea`), and for `eio__mtouch` that its loop ends (`LastTouched`).

* `CapacityKept` adds `Room`: the offsets `dentoffs` and `namesoffs` never pass the sizes
  of the two blocks. One round of doubling need not be enough for a name; `GrownEnough`
  shows that at most 9 are, because a name takes at most 256 bytes.

`EioGroup_proofs` proves, for any number of requests and groups and any depth of calls,
`TypeCorrect`, `LinkedAlways`, `FinishedLastAlways`, `FinishedOnceAlways`,
`NotForgottenAlways`, `FeederServedAlways` and `MembersRefine`. The inductive invariant:

* `Stacked` is the shape of the call stack: at most one `eio_finish` is under way, and
  those below it have finished their group and are only left to destroy their request.
  Without it the invariants about lists say nothing, since any call could come back.
* `Marked` says what each place in `eio_finish` tells about the request's stage; `Fresh`
  that memory given out again is as `calloc` leaves it; `Belong` that a group outlives
  the references to it, and is finished only when the requests that still refer to it
  are about to be destroyed; `Walking` that the request at which `eio_grp_cancel` stands
  is in the list of a live group.
* The lists are handled by two lemmas on pointers, `ListPrepend` and `ListRemove`; they
  hold of any list, and the actions only say which list is changed.
* `FeederServed` is inductive with the rest. `MembersRefine` also needs that one ordinary
  request at a time is in its callback (`AloneFinishing`), which follows from `Stacked`.

`EioWait_proofs` proves that everything proved of the pool holds under `EIO.wait` and an
event loop, with exceptions out of callbacks (`RubyInvariance`, `RubyRefinement`; such
an exception drops the request, which is the service's `Destroy`), and `WaitDrainsAlways`,
that `EIO.wait` returns by itself only when nothing is left. These have no hypotheses. In
addition:

* `PoolBoundedAlways` holds for `Timeouts = FALSE`. `PoolInv` says exactly what `started`
  counts (`Exact`, not modulo `Word`), which a thread that times out can break: finding 1.
* `NoneStrandedAlways` and `SleepsOnWorkAlways` hold for a pool that is `Assured`: no idle
  timeouts, `thread_create` succeeds, the limit on threads is never set to 0, and a signed
  int counts twice the requests. Each is needed: timeouts strand requests (finding 2), a
  pool that gets no thread has nobody to run them, and `etp_maybe_start_thread` compares
  as signed ints. The instance of `PoolAwake` satisfies all of them.
* The argument: `Signalled`, while a thread waits at the condition variable, no more
  requests are queued than threads are on their way to look; `Unmanned`, a pool with
  `started = 0` has no threads and an empty queue, unless the client is about to start
  one. If something is queued and no thread will look, every running thread has taken a
  request that ends it; then `started` is 0, and by `Unmanned` nothing is queued. `Busy`
  is the link to `EIO.wait`: it goes to `select` only with requests outstanding.

`EioScandir_proofs` proves, for every directory, width of inodes and scores, `Cutoff` and
`Fast` allowed by `ScandirAssumption`, and with the assumptions of `EioExecute`,
`InsertionStopsAlways`, `StatOrderKept`, `DirsFirstKept`, `EverythingKept` and
`TypeCorrect`:

* `LeastNat`, that a set of naturals has a least element, comes from the well-foundedness
  of strict inclusion between finite sets. It replaces induction over data: that `Shifted`
  and the sums of name lengths exist as functions, and that sums and bit patterns behave,
  are arguments about a least counterexample.
* The bits the radix pass tests decide the order (`BitOrder`, `KeyDecides`): they tell
  apart whatever the comparison of the insertion sort does (`Keyed`).
* `SortInv` describes the sort in progress. `Radixing`: the partitions on the stack cover
  the array from the top down, and entries in different ones are in order (`Stacked`);
  those in one agree in the bits already used (`AtHand`); the split in progress has
  separated what it has passed (`Halved`); a least entry is among the first `Cutoff`
  (`Settled`), which is what the insertion sort without a bounds check relies on.
  `Inserting`: the front is sorted and a least entry is first.
* Every step of the sort permutes the array (`Permuted`), so nothing is lost
  (`SortStep`); `RoundFacts` covers the split by a bit and the split by type.
* `DirInv` follows the directory through `eio__scandir`: what has been read is in the
  array (`Collected`), with bits and scores that tell its entries apart (`Scored`); which
  of the three ways through the sorts is taken (`ByScore`, `ByType`); what is then
  reported (`Arranged`). TLC checked it over all wrappers before it was proved.
* `TypeCorrect` is about all of `EioExecute`; it takes `Progress` (what is left of a
  transfer is not negative) and `Amounts` besides.

Only model-checked: the six liveness properties (`EveryRequestEnds`, `Shrinks`,
`WaitReturns`, `EveryGroupEnds`, `Ends`, `EveryCallEnds`), which need fairness and
ENABLED and are out of the prover's reach. Every other property of a passing run is a
theorem; `NoneStranded`, `SleepsOnWork`, `PoolBounded` and `OwnEnd` under the hypotheses
named above, as in the runs that check them.

## 5. Not modelled

* The emulations that `config.h` compiles out where the calls exist (`pread`, `pwrite`,
  `utimes`, `futimes`), and the one of `sync_file_range` beyond its being one call that
  may fail.
* The contents of buffers, names and paths; `size_t` overflow of lengths.
* In `EioRuby`: forks (`EtpPool` and `EioExecute` have them), and `DONT_GC` as it is without
  RUBY_VM (eio_ext.c:50), where it registers the address of a local variable.
* The Strings of `EIO.read` and `EIO.write` and their rooting; the synchronous forms
  beyond their having no effect on the state of the library.
* Calls of the library from several client threads (the library does not support
  them); two Ruby threads in `EIO.wait` or `EIO.poll`; `EIO.wait` and `EIO.poll` called
  from a finish callback.
* The linked lists of `etp_reqq` as pointers, and the worker list: sequences and sets.
* `xthread.h`: mutexes and condition variables have their POSIX meaning. The build, the
  demo, the benchmarks and the tests have no state of the system.

## 6. Findings

Each is a run TLC refutes; PROJECT.json quotes the line it contradicts.

1. `NthreadsDoc`: a thread that idles out and `eio_set_max_parallel` both subtract
   it from `started`, which wraps. If the thread's decrement comes last no thread is
   started from then on; if the setter's comes last its loop allocates requests
   until `started` has counted down from `UINT_MAX`.
2. `WaitIdleTimeout`: after `ETIMEDOUT` a thread sleeps again without looking at the
   queue; a request signalled in between is stranded.
3. `GroupFork`: the child of a fork keeps a group that `eio_poll` has put off, with
   links to members that are freed.
4. `RubyStale`: the TypeError that eio_ext.c:132 promises for a recycled request is
   never raised; `cancel` on the `EIO::Request` of a call that has ended cancels the
   call that was given its memory.
5. `RubyStat`: the `File::Stat` an asynchronous `EIO.stat` yields refers to the buffer
   of the request, which `eio_destroy` frees after the block (and the garbage
   collector once more): one that is kept is not like Ruby's own.

Observed while modelling, without a run of their own:

* With `max_idle` 0 a request is stranded in a second way: the thread that gives up
  idling is counted in `started` until it has `wrklock` (eio.c:1585-1588), so a
  request submitted in between starts no thread. `Live`'s instance with
  `Timeouts` TRUE and `MaxIdle0` 0 shows it.
* `nready` is decremented (eio.c:1600) also for the requests that end threads, which
  never incremented it: after the pool was shrunk `EIO.ready` is too low, or wraps.
* `eio_poll` returns -1 also when the last request was the one that reached
  `max_poll_reqs` (eio.c:571); eio.h:230 says "0 if all requests were handled".
* `etp_atfork_prepare` takes the three locks but does not wait for requests in
  execution, as eio.pod:52 says (`ForkChild` models what it does).
* `eio__scandir` forgets the copy of the path when it sets `ptr1` (eio.c:1255): one
  path is leaked per request. `Released` excepts exactly that.
* `eio__2path` (eio.c:1976) forgets the copy of the first path when the second cannot
  be copied: `eio_api_destroy` is `free`. `Released` excepts it.
* In the child of a fork, what `malloc` had just returned to `ALLOC` is leaked
  (eio.c:1549). `Released` excepts it.
* The loop of `eio__mtouch` (eio.c:1533) compares an address with the length of the
  area: in practice it touches the first page only. `InArea` says of it only that it
  touches nothing else.
* When a wrapper returns 0 because memory is out, the Ruby methods use the null
  pointer (eio_ext.c:185).
* `EIO.readahead` allocates an `etp_worker` on every call, asynchronous ones and refused
  ones too, and never frees it; the synchronous form also loses the buffer
  (`rb_eio_s_readahead`). Not in the model.
* When `fcntl` fails, the callback of `EIO.open` raises (eio_ext.c:287) before it calls the
  Proc: nobody learns the descriptor of the file, which stays open (`Outcomes`).
* `memcpy` to address 0 after a failed `realloc` of the names (eio.c:1321-1325).
* `complete?` and `errno` read the freed request, like `cancel` in finding 4.
* The doc comments offer a Proc as the last argument instead of a block (e.g.
  eio_ext.c:658); without a block the call is synchronous and never calls it.
* `EIO.read` at offset 0 reads at the file position if synchronous, and returns a
  string of the full length whatever was read (eio_ext.c:807-816); asynchronous, it reads
  at offset 0.

## 7. Plan

1. Done: `ReqQueue`, `EioService`, `EtpPool`, `EioWait`; proofs of the pool's
   safety invariants, ledgers and refinement of `EioService`.
2. Done: `EioGroup`, over the abstract service, so that its state space stays small.
3. Done: `DentSort` and `EioScandir`; `EioRuby`, over the abstract service, with proofs.
4. Done: `EioExecute`, every wrapper and the emulations in use; `EioStat`.
5. Next, `ReqqList`: the linked lists as pointers, refining `ReqQueue`, with proof.
6. Done: proofs of `EioExecute`: what it owns, frees, transfers and reads, and its
   refinement; of `EioGroup`; of `EioWait`; of `EioScandir` and `DentSort`. Every
   invariant, action property and refinement of a passing run is now a theorem.
