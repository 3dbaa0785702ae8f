# A TLA+ model of jmm

jmm (`src/`) is a pre-fork TCP server on libevent. A control process accepts
connections and hands each one, as a descriptor over a socketpair, to one of
`PROC_NUM` worker processes; a worker serves up to `PROC_SVR_NUM` connections
with a service the program supplies through a hook. The two kinds of process
share a System V memory segment with one record per worker: its process id, a
pthread mutex, and the descriptors of the connections it serves. Nothing else
synchronises them, and each of them may die at any point.

This directory holds the TLA+ modules that model the server, the TLC runs that
check them on small instances, and proofs, checked by TLAPS, of the main safety
properties for every number of workers, slots, connections and starts.

`tlc -config <run>.cfg <MC module>` repeats a run, `tlapm <module>.tla` a proof.

## 1. Inventory

Line numbers are those of the source. Status: M modelled, P partly, - not.

| part | files | state | operations | in |
|---|---|---|---|---|
| process pool | `jmm_proc.c`, `jmm_event.c`, `jmm_util.c` (descriptor passing) | shared records (`pid`, `mutex`, `sock_fd[]`), a pipe and a socketpair per worker, `event_wf.sock[]` of each worker, pending SIGCHLD | `jmm_listener_cb`, `jmm_find_free_wf`, `jmm_assign_wf`, `jmm_child_cb`; `jmm_cmm_read_wf_cb`, `jmm_sock_event_wf_cb`, `jmm_ctrl_c_wf_cb` | M `JmmPool`, `ConnDispatch` |
| stop of the pool at work | `jmm_event.c`, `jmm_proc.c` | the pending signals of the control process and its workers, the two loops that end the workers | `jmm_ctrl_c_cb`, `jmm_uninit_event`, `jmm_uninit_proc`, `jmm_ctrl_c_wf_cb` | M `JmmStop` |
| life of the pool | `jmm.c`, `jmm_proc.c`, `jmm_shm.c`, `jmm_event.c` | the key of the segment, `pid` of each record, the attachment of each worker, pending signals | `main`, `jmm_init/uninit_shm`, `jmm_init/uninit_proc`, `jmm_init_event`, `jmm_ctrl_c_cb`, `jmm_proc_wf`, `jmm_init_shm_wf` | M `JmmLife` |
| service of connections | `jmm_event.c` | input and output buffers of the bufferevents, the loop-break flag | `jmm_sock_read_wf_cb` and the hook `prog_service`, `jmm_sock_event_wf_cb`, `jmm_uninit_event_wf` | M `JmmService`, `ConnStream` |
| layout of the segment | `jmm_shm.c`, `jmm_shm.h` | none (offsets) | `jmm_shm_size`, `jmm_shm_wf_size`, `jmm_shm_get_wf`, `jmm_shm_get_sock` | M `ShmLayout` |
| ini files | `3rd/iniconfig.c` | a list of sections, each a list of items | load, insert, delete, search, save | M `IniConfig`, `JmmConf` |
| configuration | `jmm_conf.c` | `conf` | `jmm_init_conf`, `jmm_init_def_conf` | M `JmmConf` |
| log | `3rd/log.c`, `jmm_log.c` | `_context` and its list of callbacks, `_fp` and its stdio buffer, inherited by fork | register, start, log, finish, both appenders, from every place of `main` and `jmm_proc_wf` that logs | M `Clog` |
| linked list, queue | `3rd/list.c`, `queue.h` | head, tail, length, nodes with two pointers | add, find, remove, at the ends, at a node or sorted; destroy. A library that nothing calls | P `List`, `ListValues` |
| command line, environment, hook | `jmm.c`, `jmm.h`, `jmm_svr.h` | `conf.conf_path`, `hook_fn` | the options are in `JmmConf`, the order of `main` is in `JmmLife`; the hook is a table set once | P |
| process utilities | `jmm_util.c` | none | `jmm_send_fd`, `jmm_recv_fd` are in `JmmPool`; `jmm_daemonlize` and two one-line helpers are not | P |
| sample program, tests, empty files, Makefile | `sample_server.c`, `test.h`, `simple.c`, `ut.c`, `dict.c`, `misc.c` | | | - |

How the parts meet:

- `main` reads the configuration, opens the log, creates the segment, forks the
  workers, installs its events and enters the event loop; the way back is the
  same in reverse, also on every failure (`jmm.c` 96-148).
- The control process and a worker share the record of that worker. The control
  process takes the mutex with `pthread_mutex_trylock` to look for a free slot;
  if it finds one it *leaves the mutex locked*, sends the descriptor through
  the socketpair and the slot number through the pipe, and the worker unlocks
  the mutex once it has installed the connection. A worker locks its own mutex
  (with a blocking lock) to give a slot back.
- Processes end workers with SIGINT and learn of deaths through SIGCHLD.
- A worker inherits everything of its parent at fork: the segment (which it
  attaches a second time, by key), the configuration, the log's stream with
  what is in its buffer, and both ends of the channels of the workers before it,
  which it never closes (`jmm_proc.c` 94-116).

What is hard here: the two-process critical section; the two channels that carry
one assignment; a private table and a shared table of the same thing; deaths in
the middle of all that, behind signals that merge; channels that outlive those
they were made for; a pid the child writes itself,
whose zero means both "gone" and "not started"; a key shared with the next start;
buffers cut by hand; stdio buffers copied by fork. `PROJECT.json` lists every
such hazard at its line with the properties that cover it.

What makes each part correct:

- *Pool*: a slot in use is never given to another connection; the search, the
  message, the take and the close of one worker exclude each other; the two
  tables agree; a connection ends in the slot found for it or is closed; every
  connection that arrives settles; every death that is noticed leaves the pool.
- *Stop*: wherever a signal to stop finds the control process and the workers, the
  stop completes, and it leaves no connection open but in the channel of a dead
  worker, when a later worker that was passed over still has that channel.
- *Life*: one pool at a time has the segment; only a killed control process
  leaves it behind; the control process signals and waits for its own children
  only; workers stay in the memory of their pool while that pool's control process
  is there; a stop ends and leaves nobody but workers whose pid it did not see.
- *Service*: each byte is served once and in order, replies reach their own peer
  in order; after a failure of the service nothing is served but the rest of the
  data of the callback it happened in; as long as the event loop comes round again,
  all that arrived is served and all replies are sent.
- *Layout*: no record overlaps another one or leaves the segment.
- *Configuration*: an accepted configuration is what the lines say, and a saved
  file is loaded as what was saved.
- *Log*: a file has the lines of its own process, in order, none missing; nothing
  is logged before the log is open or after it is closed; a line that the file has
  without its arguments has them on the console.
- *List*: both chains are the same sequence of nodes and have every node that is
  allocated; each call does to the values what it says.

## 2. The plan

| order | module | extends / instance | what for |
|---|---|---|---|
| 1 | `JmmPool` | | the pool at work, one action per step between two points where processes can interleave |
| 2 | `ConnDispatch` | instanced by `JmmPool` | the abstract specification of the pool: one connection, one place |
| 3 | `JmmPoolProofs` | the module, TLAPS | inductive invariants, and that 1 implements 2 |
| 4 | `JmmLife`, `JmmLifeProofs` | | start, stop, restart |
| 5 | `JmmService`, `JmmServiceProofs` | | the data of the connections |
| 6 | `ShmLayout` | TLAPS | the assumption behind 1: records are variables of their own |
| 7 | `IniConfig`, `JmmConf`, `JmmConfProofs` | the second extends the first | command line, configuration, ini files |
| 8 | `Clog`, `ClogProofs` | | the log across fork, from start to end of each process |
| 9 | `JmmStop`, `JmmStopProofs` | extends `JmmPool`, its proofs those of the pool | the stop of a pool at work, and the liveness of both |
| 10 | `ConnStream` | instanced by `JmmService` | the abstract specification of a connection: bytes in, replies out |
| 11 | `List`, `ListValues`, `ListProofs` | the first instances the second | the list library and the sequence it stands for |

All of these are on disk. Every safety property of a run that passes is a theorem,
and so are the three refinements.

`JmmStop` composes the pool with its end. `JmmLife` and `JmmService` describe
the same processes at other scales and are kept apart: composed, their state
spaces multiply and no property relates their details. They meet in a few facts, each visible in both: a worker
reaches its event loop or not (`JmmPool` `Init` allows all the states in which
`JmmLife` can leave a worker when the control process enters its loop); a worker
may fail to come back to its loop (`selfwait` shows how; `JmmLife` has it as the
fault `stuck`); a service failure ends the worker (`ServiceFatal`, `Outcome`).

## 3. Modules and code

### JmmPool

One record of variables per worker, as in the segment: `pid`, `mutex`, `slot`;
`fdq` is the socketpair and `pipe` the pipe; `wpc`, `cur`, `bev` are private to
the worker (its program counter, `sock_id` or the index of a callback, and
`event_wf.sock[]`); `cpc`, `cconn`, `wi`, `sj` are the control process
(`jmm_find_free_wf`'s loop is `wi` and `cpc`).

| action | code |
|---|---|
| `Accept`, `CloseFd` | `jmm_listener_cb` (`jmm_event.c` 255-296) |
| `ScanDead`, `ScanBusy`, `ScanLock`, `SlotsFull`, `SlotFound`, `ScanFail` | `jmm_find_free_wf` (`jmm_proc.c` 32-69) |
| `SendFd`, `SendFdFails`, `WriteId` | `jmm_assign_wf`, `jmm_send_fd` |
| `ChildCb` | `jmm_child_cb` |
| `CmmRead`, `RecvFd`, `RecvFdFails`, `CmmUnlock` | `jmm_cmm_read_wf_cb`, `jmm_recv_fd`, `jmm_init_event_sock` |
| `SockEvent`, `Lock`, `LockWait`, `FutexRetry`, `SockClose` | `jmm_sock_event_wf_cb` |
| `ServiceFatal`, `CtrlCWf`, `WfExit` | the loop break and `jmm_uninit_event_wf` |
| `WfStart`, `WfReady`, `WfInitFails`, `WfKilled` | the child branch of `jmm_init_proc`, `jmm_proc_wf` |

A process is cut at every access to something shared: the trylock, the look at
the slots (under the mutex, one step), each send, the unlock. An event callback
is not interrupted by another one of its process; that is why `ChildCb` needs
`cpc = "loop"` and `SockEvent` needs `wpc = "loop"`. The mutex is a default
pthread mutex, so unlocking from another process works, but its futex is private:
a worker that found it locked is `asleep`, and no fairness is assumed for
`FutexRetry`.

### ConnDispatch

What the pool promises in terms of connections and (worker, slot) places:
arrive, take, bind to a place nobody has, or refuse; serve; release. `JmmPool`
implements it under `Stage` and `Place`, which read off where a connection is:
in the backlog, in the hands of the listener, in a channel or the search (`bound`
to the slot `Target` says), in a bufferevent, or nowhere.

### JmmStop

The variables of `JmmPool` and six more: `term` and `sigint` are the pending
signals, `spc`, `step` and `k` the loops of `jmm_ctrl_c_cb` ("stop") and
`jmm_uninit_proc` ("reap"), `shut` the workers whose channels the latter has closed. `AtWork` is a step of the pool, in which the control
process takes no part once it is in one of its loops; `Terminate` needs
`cpc = "loop"`, because `jmm_ctrl_c_cb` is a callback like the others. `EndWf`,
`PassWf`, `WaitWf`, `ClearWf` are the turns of both loops, `LeaveLoop` is
`jmm_uninit_event`. A worker that gets SIGINT dies of it while it has no handler
(`IntKills`), leaves its event loop (`IntBreaks`), or is woken from its mutex to try
it again (`IntWakes`).

Closing the channels of worker `k` (`ClearWf`) closes the control process's ends
and no more: workers are forked in the loop that makes the channels, so worker `w`
has both ends of those of workers `0..w`. `ChannelOpen(v)` says that somebody
has the channels of `v` still. A connection in a channel that nobody has is
`Lost`: the kernel resets it. One in the channel of a dead worker, with a
later worker alive after the stop, is `Stranded`: no one will read it and
the client sees an open connection, for as long as that worker lives. TLC reaches
both. (The listener is not inherited: it is made after the forks, `jmm.c` 117
and 126.)

### JmmLife

Several starts of the program (`Runs`), one after another or together, share one
key. `cpc`, `step` and `k` are the control process in `main`, in the fork loop
and in the two loops that end the workers (`jmm_ctrl_c_cb` and
`jmm_uninit_proc`: the same check, signal, wait and clear, `EndWf`, `PassWf`,
`WaitWf`, `ClearWf`); `pid`, `wpc`, `att` are the workers. `Remove` is
`jmm_uninit_shm`, also after a failed `jmm_init_proc` (`abort`), where nobody
tells the workers.

### JmmService

`ReadEvent` is libevent reading some of what has arrived and calling
`jmm_sock_read_wf_cb`; `GetLength`, `Serve`, `ReadDone` are its two loops;
`Outcome` is what `prog_service` may make of a chunk; `WriteEvent` is libevent
draining the output buffer; `EofEvent`, `ErrorEvent` are libevent calling
`jmm_sock_event_wf_cb` and `Free` what that does once it has the mutex;
`UninitEventWf` is the end of the worker. Bytes are counted, replies named by
the last byte they answer.

The callbacks share one loop, so what holds one of them up holds up all
connections. `mutex` and `asleep` are the lock of `jmm_event.c` 383: the control
process (`CtrlLocks`, `CtrlUnlocks`, `CtrlAssigns`) may have it whenever it is
free, and leaves it locked with an assignment that only the loop can take
(`CmmRead`); a worker that finds it locked sleeps (`LockWait`) until a signal
interrupts it (`IntWakes`), as in `wakeup`. `CmmReadBlocks` is the
`recvmsg` for a descriptor that was never sent. The connections so assigned are others
than `Conns`; their slots are the subject of `JmmPool`. `Sigpipe` is the end of
the worker by a write to a peer that reset its connection: the signal is
neither ignored nor handled.

`ConnStream` has a connection's bytes and replies and no chunks, buffers or
callbacks. `JmmService` implements it (`ImplementsStream`, also a theorem) with
`Status` for the state of the connection and everything in the output buffer as
the replies owed.

### IniConfig and JmmConf

`IniConfig` has what the lists do, as operators, with what goes wrong in them:
`InsertCrashes`, and the ones that lose the rest of a list. `JmmConf` has three
parts. A program that makes a list with the library and saves it (`Edit...`,
`Save`): jmm does not, but the files it reads may come from one. `main` up to the
configuration (`OptConf`, `OptionsEnd`, `InitDefConf`). And the load, one line at a
time: the line is the next of the saved file, or any at all; then the default
file, and then the keys of `COMMON` in order. `ConfAsGiven` says what the lines
mean without the lists: the last value after the last header of the section.

### Clog

`ctx` and `cb` are `_context.cb` (with whether it was freed) and the callbacks on
it, `fp` and `buf` are `_fp` and its stream buffer, `disk` the files, `console` the
lines the other appender has printed with their arguments. `CtrlLogs` and `WfLogs`
are the places of `main` and `jmm_proc_wf` that log, as edges from one stage to the
next; `LogAt` takes one and gives the message to the callbacks, which share a
`va_list`. `InitLog` is `clog_initialize_default`, `Finish` `clog_finish`, `Exit` the
flush of `exit`; `Fork` copies all of it.

### List and ListValues

`List` has the pointers of the nodes (`next`, `pre`), those of the list (`head`,
`tail`) and the allocated nodes (`live`). Each call is one action; one that follows
a pointer to freed memory is a `Break`, after which nothing is said of the list.
`ListValues` is the sequence of values with what each call does to it, its result
included (`call`), and where a `Break` is possible: in a list that has been emptied
at one end only. `Chain` is the walk along `next` from the head, `Linked(s)` says that
the pointers of both directions are those of the sequence `s`.

### ShmLayout

The offsets of `jmm_shm.c`, in bytes. No run: it has no states.

## 4. Runs

All "pass" runs have `CHECK_DEADLOCK FALSE`: clients, starts, bytes and lines are
finitely many and each is used once, so a server with nothing left to do stops
for good, as it should.

| run | instance | shows |
|---|---|---|
| `safety` | 2 workers, 2 slots, 3 connections, every fault | the safety properties of the pool; it implements `ConnDispatch` |
| `live` | `JmmStop`: 2 workers, 1 slot, 2 connections, service failures, a stop at any moment | every arrival settles, every noticed death leaves the pool, the stop completes and leaves no connection open but a stranded one, no worker waits for itself |
| `stop` | 1 start, 2 workers, every fault | a stop ends (unless a worker is stuck) and leaves only workers that had not written their pid |
| `restart` | 3 starts, 1 worker each, every fault | the segment has one owner, its workers stay in it while the owner is there |
| `serve` | 2 connections of 3 and 1 bytes, chunks of 2 | bytes and replies, in order, once, and all in the end if the loop comes round; `ConnStream` is implemented |
| `load` | 2 sections, 3 keys, 5 lines over both files; 3 calls before a save | an accepted configuration is what the lines say; a saved file is loaded as what was saved |
| `log` | 2 workers, from start to end, the faults as below; buffers of 1 to 3 lines | the files are in order, complete, and repeat only inherited lines; nothing is logged too early or too late |
| `list` | 4 nodes, 3 values, 5 nodes made | the chains agree; `List` implements `ListValues` |
| `selfwait`, `spin`, `wakeup`, `late` | see section 6 | four statements of comments that the code does not keep |

Why the bounds are enough for the cases that matter:

- 2 workers are the least with a first and a last one in the search, and one that
  dies while the other is searched. 2 slots are the least where a worker has a
  connection to close while it is given another one. 3 connections fill a worker
  and go on. Connections are symmetric in the safety runs.
- `live` has 1 slot because that is what `etc/jmm.conf` ships and because with 2
  the properties fail (`selfwait`). A worker that dies while its mutex is locked can
  make the search endless (`spin`): that state is called `Spins` and excepted from
  the three liveness properties by name; it is left to SIGINT, which the stop itself
  sends, while kills from outside are in `safety`.
- 3 starts let a late worker of a first start meet the memory of a second while a
  third is refused. With 2 workers a loop that ends them is at one while the
  other moves.
- 3 bytes in chunks of 2 give a full and a short chunk, and data that arrives
  between callbacks. The second connection is there to be confused with the first.
- 5 lines are two sections with a repetition each, or a broken file and a default
  one. `PlainFile` needs 3. The name "" is one of the sections and keys, "" one of
  the values that are saved: these are the parts that are not written. 3 calls make
  a section with two items, or lose them.
- A buffer of 1 line is flushed by every message, one of 3 is inherited by both
  workers with what `main` has logged, and flushed in the middle of what they log.
  `FaultsOf` gives the failures to the control process and one worker: the other is
  there to inherit. A callback that is not registered for want of memory (`malloc`)
  is a failure of the worker only, which has inherited a stream that it then
  keeps; in the control process it is left to the theorems.
- 4 nodes have a middle that is not next to an end; with 5 nodes made (`MaxLen`), a
  list that was emptied is filled again.
- `MaxLines`, `MaxEdits`, `MaxSent`, `MaxCb`, `MaxSize` and `MaxLen` are the only
  caps; `MaxRecv` is a parameter of the program (2048).

Fairness, for the liveness properties only:

- `JmmStop`: *each process runs*. Weak fairness of all the steps of the control
  process together, and of all those of each worker together: a process that has
  something to do does something, and nothing is said of what. That is the
  scheduler of the system and no more; that no event is left waiting for ever is
  then a result, as events are finitely many.
- `JmmPool` alone (the runs that refute): each loop of the control process and of a
  worker goes on, and serves each kind of event.
- `JmmLife`: the steps of the control process and of the workers, in the same way.
- `JmmService`: a callback runs on unless it is blocked (weak), and a loop that
  comes round again and again comes to each connection's reads and writes (strong:
  they share the loop, and libevent serves all active events of a round before the
  next). That the loop does come round is *not* assumed, because it need
  not: `selfwait` and `wakeup` show a worker with two connections in
  `pthread_mutex_lock` for ever, and a failed `sendmsg` leaves one in `recvmsg`.
  It is the hypothesis `ComesRound` of the two properties, which say that a loop
  that is not held up forgets nothing. Neither the control process nor
  any signal is fair here, so behaviours that are held up are in the model.
- Not fair: clients, faults, the outcome of the service, signals from outside, and
  the waking of a process that sleeps on a mutex another process unlocks.

Every property of a passing run has a mutant in `PROJECT.json`: a definition of the
model changed the way a slip in that code would change it (a lock that is not
checked, an index one too far, `if` for `while`, a missing reset, a swapped order),
for which the property fails. The mutated forms stand next to the originals in
the modules and are not used by any specification.

## 5. Proofs

| theorem | says | from |
|---|---|---|
| `PoolSafe` | `Spec => []PoolInv` | `PoolAssumption` |
| `TypeCorrect`, `HandOverExclusive`, `BranchNeverTaken`, `TablesAlwaysAgree`, `LastWorkerTried`, `SlotsNotOverwritten` | the properties of run `safety` | `PoolSafe` |
| `OneSlotNoSelfDeadlock` | with `SlotNum = 1` no worker waits for itself | `PoolSafe` |
| `DispatchImplemented` | `Spec => ImplementsDispatch`: `JmmPool` implements `ConnDispatch` | `HandInv` |
| `OneConnectionPerSlot` | `DispatchInv`, the invariant of `ConnDispatch`, of the pool: one connection per place | `DispatchImplemented` |
| `StopSafe` | `StopSpec => []StopInv` | `PoolAssumption`, the lemmas of the pool |
| `StopLeavesStranded`, `OneSlotStopNoSelfDeadlock`, `StopKeepsOrder` | the safety properties of `live`, and those of the pool during a stop | `StopSafe` |
| `LifeSafe` | `Spec => []LifeInv` | `LifeAssumption` |
| `LifeTypeCorrect`, `MemoryOwned`, `PidsAreChildren`, `MemoryOfOwnPool`, `StoppedPoolIsEmpty` | the safety properties of `stop` and `restart` | `LifeSafe` |
| `ServiceSafe` | `Spec => []ServiceInv` | `ServiceAssumption` |
| `ServiceTypeCorrect`, `StreamsServed`, `EndsServed`, `FailureEnds`, `RepliesKept` | the safety properties of `serve` | `ServiceSafe`, and `RepliesInv` for the last |
| `StreamsImplemented` | `Spec => ImplementsStream`: `JmmService` implements `ConnStream` | `ServiceSafe`, `RepliesInv` |
| `RecordsDisjoint` | the records lie apart and inside the segment | `Sizes` |
| `ConfSafe` | `Spec => []ConfInv` | `ConfAssumption` |
| `ConfTypeCorrect`, `NamesStayUnique`, `ConfFromLines`, `PlainAccepted` | the invariants of `load` but the next | `ConfSafe` |
| `SavedReloaded` | `Spec => []SavedIsLoaded` | `ConfSafe`, `SavedOK` |
| `ClogSafe` | `Spec => []ClogInv` | `ClogAssumption` |
| `LogTypeCorrect`, `FilesApart`, `LinesInOrder`, `AllWritten`, `CopiesBounded`, `ReadableLines`, `LoggedInTime` | the properties of `log` | `ClogSafe` |
| `ListSafe` | `Spec => []ListInv` | `ListAssumption` |
| `NodesLinked` | the two chains of pointers agree and have every allocated node | `ListSafe` |
| `ListIsValues` | `Spec => ImplementsValueList`: `List` implements `ListValues` | `ListSafe` |

The assumptions are types of the constants, and that the values that stand for
"none" are different from the others. Numbers of workers, slots and connections
are any naturals, also 0, and any set of faults may happen. `Workers` of `Clog` is finite,
because copies of a line are counted, as is `Nodes` of `List`, whose nodes are; `MustKeys` of `JmmConf` has a key, as the
table in `jmm_conf.c` has.

*The argument for the pool.* No safety property is inductive alone: that a
command finds its slot free (`NeverGoHere`) depends on nobody having touched the slot
since the search, so on the mutex, so on which of four activities - a search that
has the lock, a number in the pipe, a worker taking it, a worker closing - is under
way. `LockOK` says at most one of them is and then the mutex is locked; `SlotOK`
says what each may rely on; `CtrlOK` bounds what the control process is working
on; `TablesAgree` ties `bev` to `slot` (a worker at "lock" has a slot in use
because its bufferevent is); `ScanOK` is the history of the search. One lemma per
action shows that a step keeps the conjuncts it can disturb. A death sets `bev`
alone, which is why `TablesAgree` is about live workers and why the mutex of a
dead one may stay locked for ever - safe, not live.

*The refinement of the hand-over.* A connection travels in two halves: its
descriptor in `fdq`, the number of its slot in `pipe`. `ConnDispatch` has one
connection and one place, so the halves must be shown to belong together.
`HandInv` is `PoolInv` and two facts more. `QueueOK`: a socketpair has one
descriptor at most, and only from `SendFd` to the `recvmsg` of the worker, while the
mutex is locked - unless the worker died, and then the descriptor stays there and
no other follows it. `ConnOK`: a connection is with one party, its client, the
backlog, the listener, one socketpair, one bufferevent. Then `Place` cannot change
while `Stage` is `bound`, and each action is one of `ConnDispatch`, or a death
that releases some connections at once, or a stutter; the lemmas go action by
action. `OneConnectionPerSlot` is then a matter of `ConnDispatch` alone.

*The stop.* The lemmas of the pool hold for `AtWork`; the actions of the stop change
what the pool's invariant speaks of only by ending workers and clearing pids.
`StopAt` says where the loops are and that the channels of all workers before `k`
are shut. `LeftOK` is what is left at the end: a worker without a pid is gone or
has no connection and none on the way, and so is each one that `jmm_uninit_proc`
has passed. The reason is `CtrlOK`: with the control process in a loop of the stop,
no assignment starts. A connection that is still in a channel is therefore in
that of a worker that is gone, and is `Lost` or, if a later worker lives,
`Stranded`. Nothing in this empties a channel: no process but its worker
reads it.

*The life.* `LifeInv` adds to the properties the order in which a worker comes to
be (`WfStages`), where the loops may stop (`StepOK`) and that what `jmm_uninit_proc`
has got through is empty but for what it missed (`ReapOK`), from which
`StoppedPoolEmpty` follows at the end of the loop.

*The service.* `ServiceInv` says that a callback works on a connection that is
there and on bytes that are in its buffer, and that the end of file or the error
it was called for does not pass while it waits for the mutex; `RepliesInv` that a connection neither
reset nor freed has all its replies in `got \o out`.

*The refinement of the streams.* Each action of `JmmService` is mapped to one of
`ConnStream` or to a stutter; the lemmas `Stream_*` have one case each. `ServiceInv`
is what bounds a chunk by what the peer has sent, and tells that a connection whose
end is handled is not over yet.

*The log.* `ClogInv` has, for each process, where its stream may point at each stage
(`LifeAt`: to its own file, to that of the control process, or nowhere), and that a
file (`FileAt`), a buffer (`BufAt`) and the two together (`KeptAt`) have the lines of
one process, each behind its predecessors. `BufAt` is the point: a
buffer inherited at fork holds lines that belong to another process's file, and is
written there whenever the worker happens to be flushed; its lines go on from that
file at every moment, because whoever flushes first leaves what the others
repeat. For `RepeatedByHeirs` the copies of a line in the file and in the buffers
are counted together (`CopiesOK`): a flush moves a copy, a fork adds one and an heir.

*The configuration.* `ConfInv` compares the lists with the lines read so far, which
the code does not keep. It reads a list as the set of its nodes: as names are unique
(`NamesUnique`, by induction over the calls), inserting replaces the node of a name,
or adds one, or drops others, and all three are facts about sets. `CurOK`: the current
section is that of the last header. `GivenOK`: an item of `COMMON` has the value of the
last line that gives it after the last header of `COMMON`. `PlainOK`: while nothing has
been repeated, nothing was dropped either. `PhaseOK` is the rest: what is empty before
a load, and that values come from lines.

*The saved file.* A save puts behind each other what each node of a list makes
(`FlattenSeq`), so a list and any beginning of it make sequences of which one begins
the other (`FlatBegins`), and what follows is what the next node makes that
makes anything (`FlatNext`); both by a least counterexample, as for the list below.
`SavedOK` says that the lines read so far are what some part of the saved list makes,
its first sections and the first items of the last of these, and that the lists have
what is written of that part. The next line is then the next item that is written or
the header of the next section that has a name (`NextLine`). As names were unique
when the list was saved, no insert meets its own name (`LoadedNames`,
`WrittenNames`), so none of them drops anything, and the new lists are those of the
longer part.

*The list.* What is to be shown of the pointers is a fact about a walk of any
length, but the induction theorems take an operator and cannot be instantiated. Two
things replace them. A list in use has *one* sequence `s` with `Linked(s)`, and that sequence is
`Chain`: of the places where the two differ there would be a least one
(`LeastOf`), which is not the first, as both start at the head, and is behind one that
does not differ, from where both take the same `next`. And each call is said as what it makes of that
sequence - `InsertAt`, `RemoveAt` of it - so that the new `Chain` need not be walked.
`ListInv` is that with what else a call relies on: memory that is not allocated has
no pointers (`Blank`), a new node brings none along; and `len` is never less
than the number of nodes (`Counted`), from which `ListValues` knows that a `Break`
comes after a removal. For the refinement, values are taken
node by node, so `Items` changes as `Chain` does, and the first node found from the
second on is at the least place that `Behind` has.

Each of these invariants was an invariant of its run before it was proved.

Model-checked only:

- Liveness (`ArrivalsSettle`, `DeathsNoticed`, `StopCompletes`, `StopEnds`,
  `EveryByteServed`, `EveryReplySent`): the prover does not do fairness.
- The four statements of section 6, which are false.

No module declares a recursive operator. The one recursive function, the walk of
`List`, is reasoned about from its equation, which is proved by giving the function
that a linked sequence makes (`Chains`); so is the function that the library's
`FlattenSeq` chooses (`FlattenExists`).

## 6. What the runs refute

- `selfwait` (`ChildUnlocks`): `jmm_proc.c:56` leaves the mutex to the child to
  unlock. With two slots, a worker whose connection closes just when it is given
  another one blocks in `pthread_mutex_lock` (`jmm_event.c:383`) on the mutex that
  is locked for it, before it can read the command that would make it unlock. It
  never serves again, and cannot be ended by SIGINT either, so that the control
  process waits for it in `waitpid` for ever. `OneSlotNoSelfDeadlock` proves that
  `PROC_SVR_NUM=1`, the shipped value, excludes this.
- `spin` (`SearchEnds`): a worker that was killed while its mutex was locked keeps
  its `pid` until `jmm_child_cb` runs. If it is the last one and no other has a
  free slot, the search resets `i` and tries again (`jmm_proc.c:48`) and never
  returns to the loop in which `jmm_child_cb` would run.
- `wakeup` (`WaiterGetsMutex`): the mutex is zeroed memory without
  `PTHREAD_PROCESS_SHARED` (`jmm_shm.c:84`); a worker that sleeps on it while
  the control process has it need not be woken by the unlock.
- `late` (`ChildrenEnded`): a worker that was forked and has not written
  `wf->pid` yet (`jmm_proc.c:115`) is passed over when the pool stops and outlives it.

Also seen while reading, without a statement in the source to hold against it:

- With one worker, a busy mutex is a refusal: `i = 0` and the loop's `i++` leave the
  loop (`jmm_proc.c:48`); with more, worker 0 is left out of later rounds.
- A connection assigned to a worker that dies before it takes it is not served: the
  control process has closed its descriptor (`jmm_event.c:289`): nobody serves it, and it stays
  open in the channel while the control process or a later worker has that
  (`jmm_proc.c:94`), after a stop too if a worker was passed over. A slot that was
  given descriptor -1 is never freed (`jmm_event.c:316`). A worker that died before
  SIGCHLD had a handler stays in the pool until the next death.
- SIGPIPE keeps its default action: a worker that writes to a peer which reset its
  connection may be killed, with all its connections (`JmmService!Sigpipe`; in
  `JmmPool` it is one of the kills).
- If `jmm_init_proc` fails, the workers forked so far are not ended (`jmm.c:117`).
- A peer that half-closes its connection loses the replies not yet written
  (`jmm_event.c:384`), and the service is called for the rest of the data of
  a callback after it reported a fatal failure (`jmm_event.c:355`).
- `iniconfig.c`: repeating the first key of a section dereferences null, repeating
  a later one drops the others (132-137); repeating the first section drops the
  other sections (499-507); an integer key without a number is accepted as it was;
  a last line without newline is dropped, and a line that is too long ends the
  load with success. `jmm_conf.c`: the default file is loaded on top of what a
  broken file left (116); `jmm_init_def_conf` sets `log_file_lvl` twice and never
  `log_term_lvl` (159).
- `log.c`: one `va_list` serves both appenders (72), so that with the shipped
  levels the file gets garbage for arguments; lines in the buffer at fork are
  written once more by each worker, which `RepeatedByHeirs` bounds (286).
- `iniconfig.c`: deleting the first section or item drops all the others (195, 534);
  a save neither checks a write (102) nor cuts off a longer file that was there
  (457).
- `list.c`: the iterator skips the head (362), so that search, removal by value and
  sorted insertion pass over the first element, and deleting the head or tail updates
  neither the length nor the other end (253): a queue that was emptied by
  `queue_dequeue` writes into freed memory when it is used again. `list_del` returns
  null (251).

## 7. Not modelled

- Of `3rd/list.c`: what the alloc and free callbacks make of a value, and iterators
  kept across calls. `test.h`, `simple.c`, `ut.c`: a
  test harness and tests that always fail. `dict.c`, `misc.c`: empty.
- `jmm_daemonlize`, the hook, the version and usage texts: executed once, before
  anything is shared.
- Keys and values of ini files that do not fit their buffers or have a bracket, an
  equals sign, a comment mark or a newline in them.
- Text: messages, headers, addresses, the bytes of a request and of a reply.
- libevent and the kernel, except as the code uses them: a loop that runs one
  callback at a time, reliable pipes and socketpairs that are emptied before they
  are full (one assignment per worker is in flight, `LockOK`), SIGCHLD that merges,
  `waitpid`, `shmget` with `IPC_EXCL`, stdio buffers. Assumed of them: `recvmsg` on the
  blocking socketpair fails only by bringing the message without its descriptor
  (signals restart it), so a failure consumes the message; in `Clog`, writes
  and `fclose` of the log's stream succeed (the code checks none, `log.c`
  287, 304-305, 312) and what goes to the console is not lost, though it is a
  stdio buffer too. A full disk is modelled for the ini files (`JmmConf`) only.
- Reuse of a process id by the system for a stranger, except that `PidIsOwnChild`
  shows the control process never uses one it has waited for. Memory that cannot be
  attached, and `malloc` that fails elsewhere than in `clog_register_callback`.
- Overflow of `int shm_size` and alignment of the records (`ShmLayout`).
