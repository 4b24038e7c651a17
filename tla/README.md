# ekostd in TLA+

`ekostd` (the crate `eko`) wraps the operating system over `libc` for programs
that do not link Rust's `std`: threads, locks and channels, processes, signals,
daemons, files, sockets, paths. This directory holds a TLA+ model of the parts
of it where the order of steps decides whether it is right, the TLC
configurations that check the model on small instances, and TLAPS proofs for
every size.

Run the tools in this directory:

    tlc -config Channel_pass.cfg Channel          # one run; see PROJECT.json for all
    tlapm ChannelProofs.tla                       # one proof module

`PROJECT.json` lists the runs, ties each definition to the lines it models,
and lists for each property a mutation of the modelled code that breaks it
(the definitions marked *Mutant* in the modules).

## The system

| Part | State | Operations | What is hard | What makes it right |
|---|---|---|---|---|
| channel (`channel.rs`) | a queue, the count of senders, whether the receiver lives, under one mutex; two condition variables | `send`, `recv`, `try_recv`, clone and drop of `SyncSender`, drop of `Receiver` | every notify comes after the guard is dropped; senders and the receiver come and go | no lost wakeup, FIFO, exactly once, `RecvError` only when drained, every call returns |
| Mutex, Condvar (`thread.rs`) | the pthread mutex, the pthread condition, an atomic waiter count | `lock`, `try_lock`, guard drop, `wait`, `notify_one`, `notify_all` | the count is read outside any atomic step with the signal | the count is the waiters; `notify_one` never answers `false` over a sleeper |
| Once (`thread.rs`) | the pthread control block; one static `PENDING` for all | `call_once`, `run_pending` | the static is shared by every `Once` | each `Once` runs its own function, once |
| OnceLock, LazyLock (`thread.rs`) | an atomic EMPTY/BUSY/READY, a cell, the closure | `get`, `get_or_init`, `set`, `force` | the cell is written outside the atomic; initialisers unwind | whole values only, one answer for all, closure taken once |
| daemonize (`daemonize.rs`) | three processes, a readiness pipe, a locked pid file | `daemonize`, `Ready::signal`, `Ready`'s drop | any process dies, any call fails, two launches race | the exit code is true, the parent is released, the pid file names its owner |
| signals (`signal.rs`) | `WRITE_END`, the dispositions, the pipe | `install`, `note`, `recv` | handlers run between any two steps; the pipe is bounded | a stop is never lost |
| Command, descriptors (`command.rs`) | the descriptor table, the two `Pipe`s | `Pipe::new`, `close_write`, drop, the child's `above_stdio`, `dup2`, `exec` | 0, 1, 2 may be closed; other threads fork, open and close | the program's streams are its own pipes; nothing leaks |
| Command, running (`command.rs`) | `Child::status`, the bytes got, `done`, the process group | `output`, `read_ready`, `try_wait`, `wait`, `terminate`, `kill` | two pipes that fill; processes the program started; waitpid answers once | `output` is complete and returns; one exit code; `kill` empties the group |
| threads, scopes (`thread.rs`) | the boxed closure and the slot shared with the new thread, the scope's handles | `spawn_detached`, `Builder::spawn`, `join`, `scope`, `Scope::spawn` | who frees what when creation or join fails; handles move between threads; unwinding | freed once, and not too early; borrows live while a scoped thread runs |
| thread-locals, scoped keys (`thread.rs`) | one lazily made pthread key, a box per thread, the installed pointer | `ThreadLocal::with`, `LocalKey`, `ScopedKey::set`, `with` | the race to make the key; nesting and unwinding; destructors at exit | one key, none leaked; the innermost value is seen; every box freed |
| RwLock (`thread.rs`) | the pthread lock | `read`, `write`, the guards' drops | the answer of pthread is not looked at | a writer is alone |
| sockets (`socket.rs`) | descriptors, names in the file system, the buffer of `Lines` | `bind`, `accept`, `connect`, `duplicate`, `write_all`, `next_line` | constructors that fail half way; short reads and writes, EINTR, would-block | one owner per descriptor, the peer that was named; no byte lost or twice |
| byte streams (`file.rs`, `print.rs`) | `BufWriter`'s and `Stdin`'s buffers | `write_all`, `write_fd`, `flush`, `into_inner`, `read_line`, `read_to_end` | short and failing calls, readers that go | every byte is out, held, or told about; every line is whole |
| trees (`file.rs`, `fs.rs`) | the file system, the counter of `TempDir` | `create_dir_all`, `remove_dir_all`, `TempDir` | other walks and another process change the tree in between | what is asked for is there, or gone, and nothing else is |
| paths (`path.rs`) | a `PathBuf` | `parent`, `file_name`, `components`, `push`, `set_extension` and the rest | separators and dots in odd places | agree with `std`'s definition |
| a child's environment (`command.rs`, `env.rs`) | the entries of the process, the builder | `arg`, `env`, `set_var`, PATH candidates | names that are the front of others, names twice | the child is told what was asked |
| memory (`mmap.rs`, `heap.rs`) | mappings and their owners | `map`, `map_anon`, `make_read_only`, `Reservation`, `alloc`, `realloc` | the product in `page_ceil` wraps; ownership changes hands; `malloc` aligns small blocks less | each owner has a mapping as long as asked, and of its own |
| time, cpu, math, proc, lib | none | one libc call, formatting, or parsing each | | |

The parts meet as follows. The channel is built on `Mutex` and `Condvar` and
uses only what they promise. `Command` uses `Pipe` on both sides of a fork, and
`File` shares its descriptor table; its PATH candidates are paths, and its
environment comes from `env`. `BufWriter` sits on `File` or on a standard
stream, `TempDir` on the tree walks, and those join their names with `Path`. A
daemon built on this crate calls
`daemonize`, installs signals, and starts programs with `Command`; the
descriptors of the first two are inherited by those programs.

## The modules

| Module | Models | Proofs |
|---|---|---|
| `ChannelSpec` | what a bounded channel promises: a FIFO on which each call takes effect in one step | |
| `Channel` | `channel.rs`; implements `ChannelSpec` | `ChannelProofs` |
| `Condvar` | `Mutex` and `Condvar` of `thread.rs` over pthreads | `PartsProofs` |
| `Once`, `MCOnce` | `Once` of `thread.rs` over `pthread_once` | |
| `OnceLock` | `OnceLock` and `LazyLock` of `thread.rs` | `OnceLockProofs` |
| `Threads` | `spawn_detached`, `Builder`, `JoinHandle`, `scope` of `thread.rs` over pthreads | `ThreadsProofs` |
| `ThreadLocals` | `ThreadLocal`, `LocalKey`, `ScopedKey` of `thread.rs` | `ThreadLocalsProofs` |
| `Daemonize` | `daemonize.rs` | `DaemonizeProofs` |
| `Signals` | `signal.rs` | `BytesProofs` |
| `CommandFds`, `MCCommandFds` | the descriptors of `Command::spawn` and `Pipe` | `CommandProofs` |
| `Command` | `Command::output`, `Child` and `Pipe::take_ready` | `CommandProofs` |
| `Path` | `path.rs` | |
| `Environment` (on `Path`) | the builder of `Command` and the functions of `env.rs` it uses | `BytesProofs` |
| `Trees` | the tree walks of `fs.rs` and `file.rs`, and `TempDir` | `PartsProofs` |
| `Streams` | the write loops, `BufWriter` and the readers of `file.rs`, `print.rs` and `socket.rs` | `BytesProofs` |
| `Sockets` | `Listener`, `Stream` and `Fd` of `socket.rs` | `PartsProofs` |
| `Memory` | `mmap.rs` and the alignments of `heap.rs` | `PartsProofs` |
| `RwLock` | `RwLock` of `thread.rs` over pthreads | `PartsProofs` |
| `MCTrees` | no code: `Trees` with one call of `fs::remove_dir_all` | |
| `MCParts` | no code: extends `Condvar` and the modules from `Path` to `RwLock`, and runs one of them, its *scene*, per behaviour | |

**Channel.** A thread is in one call at a time and passes through the stages
`lock`, `crit`, `wait`, `notify`. What the code does with the guard held is one
action, because nothing else reads or writes `State`; dropping the guard and
notifying are two actions, as in the code. `SendRefused`, `SendQueued` and
`SendBlocks` are the three arms of `send`; `Take`, `RecvDisconnected` and
`RecvBlocks` those of `recv`. A wait releases the mutex and sleeps in one step,
as POSIX says, and may end by itself (`SpuriousWake`). A value is the pair of
its producer and the number of the call.

The refinement maps the abstract `pending` operation to the concrete one until
it takes effect: a `send` in its notify stage is already over for the abstract
channel. `ImplementsChannelSpec` is the abstract specification with its
fairness, so it also says that a call that can take effect does.

**Condvar.** The waiter count is incremented by the waiter before
`pthread_cond_wait` and decremented after, under the mutex; `notify_one` and
`notify_all` load it in a step of their own (`LoadCount`) before they signal,
with or without the mutex.

**Once.** `Park` writes `PENDING`, `Enter` is the thread `pthread_once` lets in,
`run_pending` reads the static and `CallPending` calls what it read. `PENDING`
is a plain `static mut` of one pointer, so a race over it gives one of the
pointers written.

**OnceLock.** The load, the compare-exchange, the beginning and the end of the
write to the cell, and the store of READY are separate actions; a cell being
written is `Torn`. `lazy` picks, at the start, whether the lock is a bare
`OnceLock` or the one inside a `LazyLock`, which is only reached by `force`.
`Unwind` is an initialiser that panics through `get_or_init`.

**Threads.** A child is started in three steps: the boxes are given up as raw
pointers, `pthread_create` starts the thread or fails, and the call keeps the
id or the handle; the child may be over before the third. A closure may do
anything a thread may do, so children start, join and scope as the first thread
does. A `JoinHandle` may be moved to any running thread. `pthread_join` is
modelled as in glibc: it answers `EDEADLK` to a thread that joins itself or one
that is joining it. `loose` remembers the children whose handle was dropped,
whose join was refused or whose scope unwound.

**ThreadLocals.** The static is a `ScopedKey`, which contains a `LocalKey`, and
that a `ThreadLocal`; every call goes through `ThreadLocal::key` (`Load`,
`pthread_key_create`, `CompareExchange`, `KeyDelete`) and `with`
(`GetSpecific`, `NewBox`, `SetSpecific`) before it does its work on the box.
`stack` holds the `Reset` guards of the calls of `set` a thread is in; leaving
one by returning or by unwinding drops its guard. At exit the system runs
`drop_box` while there are boxes, at most `ITERATIONS` times, and the drop of a
value may touch the static again. Other code holds some keys from the start.

**Daemonize.** Each launch has a parent, a middle process, a daemon and one
program the daemon starts. The model keeps which of them hold which end of the
readiness pipe and the locked descriptor, since that decides when `read`
returns and when the lock is free. Every libc call that the code checks may
fail and every process may be killed at any step. A daemon whose write finds no
reader dies of SIGPIPE unless the program ignores it (`SigpipeIgnored`).

**Signals.** The kernel delivers a raised signal between any two steps of
`install` and `recv`, to `note` or to the default disposition. `note` is two
steps, the load of `WRITE_END` and the write, and handlers of different signals
nest. A write to a full pipe is dropped, as the pipe is non-blocking.

**CommandFds.** A table maps descriptor numbers to what they refer to and to
the close-on-exec flag. The kernel gives out the lowest free number, which is
why the closed 0, 1 and 2 of a daemon matter. What the child does between fork
and exec works on its own copy of the table, so it is one function of the table
(`ChildSetup`), call by call. `pipe2` picks, at the start, a target that has
`pipe2` or one where the flag is set by two later `fcntl`s.

**Command.** `caller` picks, at the start, either `Command::output` or a caller
that may call any method of `Child` at any time. The program is any program:
it writes to either stream, closes it, starts another program that inherits its
streams and group, exits. It does not leave its process group. Bytes of a
stream are told apart by position only. Init is right after the fork, with
the write ends still open in the parent.

**Path.** The methods are operators on sequences of bytes, with the code's
positions: `trim_back` is the loop as a recursive function of the end,
`last_body_component` gives a range, and so on. The state is a `PathBuf` that a
program edits. `Std`, with which the results are compared, is written from what
a path means: its components, with `.` only at the front.

**Environment.** An entry is bytes with a `=`. The state is the process's
entries, which may hold a name twice, and the builder; `environment`,
`candidates` and `argv` are what `spawn` makes of them, `var_os` and `args` what
the child then sees.

**Trees.** A directory maps names to nothing, a file, a link or a directory.
Every libc call of a walk is a step and resolves its path anew, following links
on the way; `stack` has a frame per level of the recursion. `fs::remove_dir_all`
gives up at the first error, `file::remove_dir_all` ignores all of them and
takes a failing `readdir` for the end. Two walks run at once, and `Meddle` is
another process. The walkers of `TempDir` are processes with the same pid, as in
two containers over one directory or one after the other (`Restart`). `lost` and
`linked` only observe: a walk took something out of the directory outside, and
a link stands, or was put, in the place of a directory a removal is in at the
time.

**Streams.** A writer, the kernel's buffer and a reader. Bytes are their
positions, some of which are newlines. A write loop has `left` to write, and
`BufWriter` its `buf` in front of it; a call may take less, fail, be
interrupted or take nothing. `told` and `untold` are the bytes of calls that
ended in an error, by whether the program heard of it.

**Sockets.** A caller holds nothing, a constructor half way, a `Listener` or a
`Stream`; the descriptor table gives out the lowest free number, also to other
callers in the middle of a constructor. The kernel sees as much of a path as
`sun_path` holds.

**Memory.** A value has the length that was asked for, its `len` and its
mapping; the kernel has the mappings. `page_ceil` is computed modulo `Limit`, as
a build without overflow checks does; with them it panics instead, and nothing
is made. The allocator is told by the alignments its answers may have: `malloc`
aligns a block only for what fits into it, which is the reason for the second
condition in `alloc`.

**RwLock.** pthread's owner and count, and the guards of each thread, which
drop in any order. A thread that has the write lock and asks again gets
`EDEADLK`, and its guard all the same.

## What the runs check

Sizes are distinct states.

| Run | Instance | Shows |
|---|---|---|
| `channel` | 2 producers, 2 handles, 2 slots, 2 sends each (129,270) | `SendersAreWoken`: while a sender sleeps, every free slot has a thread or an owed notify on its way to it. `ReceiverIsWoken`: the same for the receiver, also when the last sender goes. `Delivery`: `Fifo` and `Conservation`, order and exactly once over delivered, queued and refused values, and `RecvErrorMeansDrained`. `EveryCallReturns`. `ImplementsChannelSpec`, by which also nothing is queued after a refused send and nothing delivered after a `RecvError` |
| `oncelock` | 3 threads, 2 calls each (40,291) | `OneAnswer`: whole values only, and the same for all. `InitRunsAtMostOnce` also when it unwinds, `EveryCallReturns` unless one unwound |
| `threads` | 2 children, 2 moves of a handle (105,488) | `ClosureIsUsedOnce`: run by the thread or dropped by the failed call, never both nor neither. `SlotOutlivesTheThread`: over joins by anybody, refused ones included; `join` answers with the result. `NobodyIsLeftBehind`: only dropped handles, refused joins and unwound scopes leak a thread (`SomeoneCollects`), and a scoped thread's borrows are live (`BorrowsAreLive`). `EveryWaitEnds`, unless threads wait in a circle |
| `thread_locals` | 2 threads, 2 keys, 2 calls of `set` each (1.2 million) | `KeyIsShared`: the race to the first use ends with one key and leaks none (`OneKey`, `NoKeyLeaks`), and a `Reset` finds it (`ResetFindsTheKey`). `SeesTheInnermost`: over nested calls that return or unwind. `BoxesAreFreed`, also when destructors make new ones |
| `daemonize` | 2 launches on one pid file (36,282) | `ExitCodeIsTrue`: the parent exits 0 exactly after a readiness byte. `PidFileNamesTheOwner`: over stale files and races, of the daemons past the lock there is one, and the file holds its pid. `ParentIsReleased` |
| `signals` | 3 signals, 5 raises, a pipe of 3 bytes, reads of 2 (29,370) | `StopIsNotLost`: after a handler ran there is a byte until `recv` answers, also with a full pipe. `StopIsReported`: after `install` no signal ends the process, and a handled one leads to an answer |
| `command_fds` | 2 spawners, a third thread with a file, 14 descriptors, with and without `pipe2` (1.4 million) | `StreamsAreItsOwn`. `EndsAreAccounted`: `NoEndLeaks` (with `pipe2`), `FieldsNameTheirOwn` (no close hits another thread's descriptor), `NothingIsLeft` |
| `command` | pipes of 2 bytes, 3 writes per stream, one grandchild (499,222) | `DoneIsComplete`, `AnswersAreTheCode`, `KillReachesTheGroup`, `OutputReturns` |
| `parts` | see below (370,219) | paths: `SplitsAtTheLast`, `EditsKeepTheRest`. Environment: `ChildIsToldAll`. Trees: `OutsideIsSafe`, `WalksFinish`, `TempDirIsOwn`. Streams: `LinesAreWhole`, `NoSilentLoss`, `EveryTransferEnds`. `FdsAreOwned`, `MemoryIsAsAsked`, `WritersAreAlone`. `CountIsTold`: `CountIsWaiters`, and `NeverUndercounts` for a notifier that holds the mutex |
| `once_own` | 2 threads, 2 Onces | **violated**: `RunsItsOwn` |
| `daemonize_error` | 1 launch, no assumption on the caller | **violated**: `ParentIsReleased` |
| `trees_swapped` | 1 removal by `fs` of no link, one change by another process at a time when all directories the removal is in are listed | **violated**: `LinksAreNotFollowed` |

### Bounds, and why they are enough

- Channel: two producers with two sends each over two slots fill the queue and
  then both sleep, so that one notify chooses among sleepers while another slot
  may be free; a first send can be overtaken by its own second. The proofs
  remove the bounds, for the order and the delivery of values too.
- `MaxSpurious` and `MaxEmpty` are 1: the invariants are about a single wake
  or a single empty answer at any place.
- Condvar, OnceLock: two threads race and a third observes. Condvar has no
  bound on the number of calls.
- Threads: with two children, one thread can run a scope or a join on another
  that itself holds a handle. Circles of three joins, which pthreads does not
  see, need more children and are what `EveryWaitEnds` leaves out.
- ThreadLocals: two threads race for the key with two, one or no key free; two
  calls of `set` nest. `pthread_setspecific` fails at most once per thread. The
  proofs remove the bounds.
- Daemonize: one launch may find the file of the past, of the other launch
  alive, or of the other launch dead.
- Signals: five raises over a pipe of three bytes fill it; reads of two bytes
  leave a rest behind. The code's 64-byte read and the kernel's 64 KiB pipe
  differ in size only.
- CommandFds: two spawners need at most eight pipe descriptors, one file and
  in the child two copies and `/dev/null`, so with 14 numbers only the failures
  the model makes on purpose happen.
- Command: three writes into a pipe of two bytes block a writer; one byte per
  read makes `take_ready` loop.
- Path: every path of up to six of the bytes `/`, `.` and `a`, with every edit
  by up to two bytes: enough for two names, a `..` and a doubled separator.
- Environment: a name, one that goes on where it ends, and another; values that
  are empty or hold `:` and `=`; a name that the process has twice.
- Trees: two walks in a tree of two levels with a file, a link or a directory
  at each name, one change by another process or one failing call; two names
  and two attempts for `TempDir`, one of them taken by a stale directory.
- Streams: four bytes through a kernel that holds two, chunks of two, a
  `BufWriter` that flushes at two, two faults, any of the bytes newlines for the
  readers; the writers differ by the text in length only.
- Sockets: three callers, three descriptors, a `sun_path` of three bytes and two
  paths that differ behind it.
- Memory: addresses of three bits and pages of two bytes make `page_ceil` wrap;
  alignments below, at and above `MIN_ALIGN`.
- RwLock: three threads with up to two guards each.

What a theorem states holds for every size, so for those properties the bounds
above only decide what TLC sees. They still carry the properties without a
theorem: the liveness ones, `OutputReturns` among them, and those of Once and
Path.

`CHECK_DEADLOCK FALSE` is used where the system may stop: when all processes
have exited (`daemonize`), when no signal is raised any more or the process was
ended (`signals`), when every spawn is over (`command_fds`), when every thread
has ended or some wait in a circle (`threads`), when the removal is over
(`trees_swapped`), and in `command` for the wait described
under *poll* below.

### Fairness

Weak fairness on the steps of a thread or process that runs code of this crate:
the scheduler runs it. Nothing is assumed of the environment except

- that a program started by `Command` that is not blocked gets on until it
  exits (`OutputReturns` says nothing of a program that runs for ever);
- that the closure of a thread returns (`threads`);
- that a started program of a daemon exits (`ChildExits`), since it inherits
  the readiness pipe;
- in `daemonize`, that a caller who gets an error from `daemonize` exits
  (`CallersExit`); `daemonize_error` is the same question without it;
- that the reader of the signal pipe calls `recv` when there is a byte;
- in `parts`, that a program which writes goes on until it has dropped its
  writer, one which reads until it sees an end, and that the kernel moves bytes
  it can move. Both may stop at any call before that.

Weak fairness of a producer or consumer of the channel is on its next step as a
whole, so an end is used or dropped in the end, and not kept for ever by a
caller that never comes back to it. No mutex or condition variable is assumed to be fair: a liveness
property that holds does so because all calls are bounded in number. No
spurious wake, failure, death or signal is ever assumed to happen.

## What is proved

Each theorem holds for every value of the constants that satisfies the
assumption its module names: threads and handles are any finite set or any set,
capacities, limits and lengths any natural numbers (not zero where the kernel's
are not), markers are told apart from values. `MemoryAssumption` takes the
address space for a whole number of pages, `CommandFdsAssumption` a table with
room for 0, 1 and 2, `TreeAssumption` names that are strings and a finite set
of walks.
`EnvironmentAssumption` says that what the builder and `set_var` are given is
made of bytes and that a name has no `=`, which setenv refuses and an entry
`KEY=VALUE` could not hold.

A property is seldom inductive, so each proof has an invariant that is, one
lemma per action, and one for the initial states.

- `ChannelProofs`: `TypeCorrect`, `CountIsExact`,
  `ReceiverNeverMissesAWakeup`, `SendersNeverMissAWakeup`. The inductive
  invariant is `Basics` = `TypeOK`, `LockInv` (the guard is held by the one
  thread in its critical section), `OpInv` (which stages an operation has) and
  the exact sender count; each wakeup property is inductive on top of it. The
  sender's is stated with a count: "some sender is awake if a slot is free" is
  not inductive, because two slots can be free and a woken sender fills one, so
  slots are matched against threads on their way back plus the notify still
  owed. The count steps rest on small lemmas on cardinality.
- `ChannelProofs`, `ValuesAreDelivered`. `DeliveryInv` adds `Numbered` (no
  value has a number its producer has not come to, so that the next send is
  behind all others in what was delivered followed by the queue) and
  `EndsInUse` (a producer keeps a handle through its calls, and the receiver is
  there through those of the consumer): without the latter a send could follow
  a `RecvError`.
- `ChannelProofs`, `ImplementsSafety`: the initial states of `Channel` are those
  of `ChannelSpec` under the mapping (`InitRefines`), and every step maps to a
  step or a stutter (`StepRefines`), on top of `DeliveryInv`.
- `PartsProofs`, Condvar: `ToldTheorem` from `CountTheorem` and `NotifyTheorem`, with `CountedUnderLock`
  (a thread that has just counted itself in or out holds the mutex).
- `OnceLockProofs`: `AnswersAgree`, `InitOnce`, `ReadyTheorem`. The invariant
  is `OneWinner` (one thread past the compare-exchange, and then the state is
  BUSY), `Published` (from READY on the cell is the one answer) and `NotYetRun`
  (the closure is there until the first initialiser starts).
- `ThreadLocalsProofs`: `SharedKeyTheorem` from `OneKeyForAll`,
  `KeysAreNotLeaked` and `ResetTheorem`; `KeyTheorem`. The invariant adds `RaceInv`: a key in the race belongs to one
  thread and is not the published one, which is why deleting it cannot hurt
  another thread, and a loser's `theirs` is the published key. All other steps
  of a thread are `QuietStep`s, which neither enter nor leave the race.
- `ThreadLocalsProofs`, `InnermostTheorem` and `BoxesTheorem`. `BoxInv` adds for
  each thread that a box is kept, freed or about to be kept (`Housed`), that a
  thread leaves outside of all sets and its destructors only look (`Leaving`),
  and that the kept box holds what the innermost set installed while each
  `Reset` holds what the one around it did (`Nested`). Only the published key
  leads to a box (`Spread`), so the race cannot lose one.
- `DaemonizeProofs`: `ExitCodeTheorem`, `PidFileTheorem`. `PipeInv` says of every
  stage of the three processes which ends of the readiness pipe they have, so
  that an end of file means that nobody is left to signal. `OwnerInv`: who may
  write the pid file, or has written it, holds the lock, and one launch at most
  does.
- `ThreadsProofs`: `SlotTheorem`, `ClosureTheorem`, `CollectedTheorem`, all on
  `Base`: a caller in the middle of a spawn or a join is after a child of the
  right kind and stage (`Aim`), no two are after the same (`Apart`), and what
  each child's stage says of its closure, slot and handle (`ChildInv`,
  `KeptInv`). `Apart` is what makes a handle that moves between threads safe.
- `CommandProofs`: `CompleteTheorem`, `AnswersTheorem`, `KillTheorem`. The
  invariant has the three properties, and that a program in a write has the
  stream open and is alive, that the group is alive, that the status is the
  code of a collected child, and that what a kill reached stays dead.
- `CommandProofs`, `StreamsTheorem` and `EndsTheorem`. `FdsInv`: which fields are
  set at each step of a spawn (`Stages`), that ends are close-on-exec where
  `pipe2` exists, and that the file of the third thread is no pipe end. The child
  is one lemma for any table (`ChildSetupTable`): after `above_stdio` the ends it
  needs are above 2, so the three `dup2`s close none of them. The lowest free
  descriptor exists by well-foundedness.
- `PartsProofs`, RwLock: `WriterTheorem`. `WritersAreAlone` says nothing of how many
  readers pthread counted, which decides when a writer gets in, so the invariant
  adds `Agree`: without a writer all guards are read guards and the count is
  their number; with one, its guard is the only one.
- `PartsProofs`, sockets: `OwnersTheorem`. `FdsAreOwned` alone is not inductive: a
  connection finds its listener by what the kernel kept of the path, so
  `ListenersFit` (a listener's path fits, and its name tells it from all others)
  is needed for the peer to be the one named; `KindsMatch` and `ClosedIsUnused`
  keep a descriptor in a constructor apart from a listener's, and a used one
  from a closed one. Every step is one of three: a caller takes a free
  descriptor, goes on with its own, or lets go.
- `PartsProofs`, memory: `MemoryTheorem`. The lemmas `PagesHold` and `PageCeil`
  say that for any page `page_ceil`, whose product can wrap, answers nothing or
  no less than was asked. `MapInv` is about
  the mappings; the blocks of the allocator need no invariant.
- `BytesProofs`, signals: `NotLostTheorem`, `HandledTheorem`. `SignalInv`: no
  handler is installed before its descriptor is published and none is taken
  away, so a handler that runs finds it.
- `BytesProofs`, streams: `NoLossTheorem`. `Kept`: what the kernel took is
  followed, in order, by what a write loop has left or else by what the buffer
  holds, and what is in neither is of a call that failed. `Quiet`: an error
  nobody was told of is of a call that tells nobody anything.
- `BytesProofs`, streams: `LinesTheorem`. `LineInv` says where a reader is in
  the text it was sent: the lines it returned, the part it has of the next one,
  and what it read ahead are, put together, all it was given. The reference
  `LinesOf` is a fold over the text and the reader takes the same lines from
  chunks, so the step is that a chunk behind a text extends the last of its lines
  and adds the others (`ExtendBehind`, `ChunkIsRead`, `LineIsTaken`). After a
  failed read of a socket only ends of lines are claimed (`EndOf`).
- `BytesProofs`, environment: `ChildTheorem`. The state needs no more than its
  types (`EnvInv`); what there is to prove is the fold of `environment`. An
  override takes away all entries of its name, though not those whose name goes
  on where it ends (`KeyPartIs`, `OneName`), and adds its own, so getenv finds
  that one, and finds of another name what it found before (`OneOverride`,
  `ChildSees`).
- The folds of `BytesProofs` are proved by one frame: `FoldsIn`, `FoldedIs` and
  `FoldedGrows` say for any step function that the fold of the community modules
  is the last of a chain of steps, and that an element more is a step more, by
  induction over a set of naturals (`SetInduction`) or of sequences
  (`SeqInduction`), both from well-foundedness.
- `PartsProofs`, trees: `TempDirTheorem`. `TempTree`: the directories are each
  under one name. `Owns`: who holds a directory is alone with its name, so no
  other removal is in it. It follows from `mkdir` alone, and needs neither the
  counter nor that the names differ.
- `PartsProofs`, trees: `OutsideTheorem`. `OtherInv`: no frame of a removal that
  is not over is on a link (`Clear`), unless `linked` says so. Paths are resolved name after name, so what
  the tree looks like to a walk is a property of each of its prefixes. The
  lemmas `StepsExist`, `NextStep`, `StaysInside`, `ChangesAreSafe` and
  `ElsewhereIsSafe` say how a path resolves, for paths of any length, and that
  removals, new directories and changes elsewhere put no link on it. They go by
  induction over a set of naturals (`SetInduction`, from well-foundedness). The
  trees themselves are those of the run; the walks, the names `TempDir` forms
  and the faults are any number.
- `PartsProofs`, trees: `FinishTheorem`. `FinishInv` speaks of the time before
  the other process steps in, for calls of one kind. `Creates`: what a call of
  `create_dir_all` has passed is there, and trees only grow (`CreatesGrows`).
  `Sound`: what is left in the directory of each frame is among the names it has
  still to look at, and trees only shrink (`SoundShrinks`), which is why a
  directory can be removed when its list is empty whoever emptied it. For a
  removal that is alone also the converse, that all it has listed is there, since
  it is what keeps `fs_remove` from an error.

Only model-checked: all liveness (`EveryCallReturns`, `EveryWaitEnds`,
`ParentIsReleased`, `StopIsReported`, `OutputReturns`, `EveryTransferEnds`) and
the fairness part of `ImplementsChannelSpec`, since the prover does not reason
about fairness or ENABLED; Once, whose property of interest is violated; and the two
properties of Path: its methods are loops over bytes, its components are taken
with `SelectSeq`, which is opaque to the prover. No theorem rests on those two properties.

## Where the code and its comments part

Checked by a run:

- **`Once` can run another `Once`'s function** (`thread.rs:235`, run
  `once_own`). Two threads enter `call_once` of two different Onces, both write
  `PENDING`, and the first routine to run takes the other's function; its own
  never runs. The comment at 213-214 argues for one `Once` only.
- **An error inside a child leaves the parent waiting** (`daemonize.rs:174`,
  run `daemonize_error`). After the first fork the write end is a bare
  descriptor until `Ready` is made, so `?` returns to the caller without
  closing it. The module comment says there is no such path. It is harmless if
  the caller exits, which `daemonize` shows.
- **`fs::remove_dir_all` follows a link that takes the place of a listed
  directory** (`fs.rs:138`, run `trees_swapped`). The comment at 126-128 says
  that links are not followed, and none takes the deletion out of the tree. The
  children of a directory are looked at and unlinked by
  full paths, which every call resolves anew. The removal lists `t`, which
  holds `b`, and looks at `t/b`; another process puts a link in the place of
  `t`; `unlink` of `t/b` takes away the `b` of the directory it leads to.

Seen while modelling, each a reachable behaviour of the model, and not stated
as a property because the weaker property that holds is:

- `scope` can return with a thread it started still there (`thread.rs:961-963`
  says every one is joined, with no way around it). Thread A, whose own
  `JoinHandle` was sent to the scoped thread B, closes the scope while B waits
  in `join` for A: glibc answers `EDEADLK` to A's `pthread_join`, `scope` does
  not look at the answer and returns. Fifteen states of `Threads`, through
  `ScopeJoinFails`; `BorrowsAreLive` leaves out a refused join.
- An unwind out of the closure of `scope` skips the joins (`thread.rs:970`). The
  comment says there is no unwinding; `ScopedKey::set`, in the same file
  (1033-1040), is written for it.
- `thread_local!` says that no destructor runs when a thread exits
  (`thread.rs:686-687`), but `ThreadLocal` registers `drop_box`, which does.
- `kill` may miss what the child started: the child makes its own group after
  the fork, a kill before that finds no group, and a program started between
  the two signals survives (`command.rs:450, 463`). `KillReachesTheGroup` is
  what holds.
- `notify_one` under the mutex may answer `true` with nobody to wake: a thread
  already signalled is counted until it has run (`thread.rs:384` calls the
  answer exact). `NeverUndercounts` is what holds.
- `Ready::signal` to a parent that was killed raises SIGPIPE, which ends the
  daemon unless the program ignores it (`daemonize.rs:58-64`).
- The pid file is opened without close-on-exec, so a program the daemon
  started keeps the lock when the daemon has gone (`daemonize.rs:204, 223`).
- `recv` answers with the first signal it read and drops the others it read
  with it (`signal.rs:250, 327`). `StopIsNotLost` is what holds.
- A program starts with 0 closed if 0 is free when the child opens `/dev/null`:
  `dup2(0, 0)` does nothing and the close that follows closes it
  (`command.rs:254`). `StreamsAreItsOwn` allows for it.
- Files opened by this crate are not close-on-exec and reach the program
  (`command.rs:265`, `file.rs:166`). `NoEndLeaks` is about pipe ends.
- Where `pipe2` is missing, a fork between `pipe` and `fcntl` leaks an end.
- `poll` failing for good makes `output` wait with the read ends open, for a
  program that may be blocked on a full pipe (`command.rs:382`).
- `Child::signal` does not look at `status`: after a wait the pid may be
  another process's (`command.rs:464`). Pid reuse is not modelled.
- `pthread_setspecific` is not checked: when it fails the value is used once and
  lost (`thread.rs:332`). The two properties leave out such a thread.
- `fs::remove_dir_all` also follows a link that is given as its argument
  (`fs.rs:131`), or that takes the place of a directory between the `lstat` and
  the `opendir` (`fs.rs:134-136`), and
  `file::remove_dir_all` follows links in all three cases (`file.rs:607,
  630-640`), while its comment at 631 says that a link is not descended into.
  `OutsideIsSafe` leaves out these three, and no other: a link is the argument,
  is put between the two calls, or is put in the place of a directory, or of one
  above it, that is already open and listed. What it says is that a link which
  `lstat` has called one is unlinked and not followed; once one of the three has
  happened it says nothing more.
- Two calls of `fs::remove_dir_all` on one tree can both answer with an error
  over what the other took, and leave the tree. `WalksFinish` is what holds.
- `create_dir_all` answers Ok when the last name is a file (`fs.rs:39`,
  `file.rs:490`).
- `set_extension` works on the last bytes and not on the file name: `a/` becomes
  `a/.x` and `a/..` becomes `a/..x` (`path.rs:561`); `file_name` and `extension`
  look past the separator.
- `starts_with` compares bytes: `a//b` does not start with `a/b`, and a relative
  path not with the empty one; `strip_prefix` of `a` leaves `/b` of `a//b`, an
  absolute path (`path.rs:186, 200`).
- `args` says it is what a `main` would have been handed, but drops empty
  arguments on Linux (`env.rs:137, 177`).
- The `Lines` of a socket lose the part of a line that was read when the next
  read fails, would-block included (`socket.rs:266`). `Stdin` does not.
- `BufWriter` clears its buffer after a flush that failed (`file.rs:856`), and
  `into_inner` does not say that it did (`file.rs:862`). The `write_all` and
  `flush` of `stdout()` and `stderr()` answer Ok whatever was written
  (`file.rs:731-738`). `NoSilentLoss` names these.
- `File::write_all` tries again for ever while `write` takes nothing
  (`file.rs:303`); the socket's answers `EPIPE`.
- A `bind` whose `listen` fails leaves its name behind (`socket.rs:130`).
- `RwLock` hands out a guard when pthread refused the lock: a thread that writes
  and asks again has two guards over one lock (`thread.rs:602, 608`).
  `WritersAreAlone` leaves this out.

## What is not modelled

- Memory order of atomics beyond the torn cell of `OnceLock`: the state
  of `OnceLock` is Acquire/Release, and the waiter count, which is Relaxed, is
  ordered by the mutex for a notifier that holds it, the only one the property
  is about. The models are sequentially consistent.
- In daemonize, `format_pid`, EINTR in the parent's read, and a short write of
  the pid, which the code takes for success (`daemonize.rs:216-219`); in
  signals, a second `install` and `errno` across a handler.
- A `waitpid` that fails other than by EINTR, as when the program ignores
  SIGCHLD: -1 is recorded as the exit code (`command.rs:431-433`).
- Timeouts of `read_ready`: a poll that times out changes nothing.
- The order in which `readdir` and the removals of `file::remove_dir_all`
  alternate: a directory is listed in one step.
- `O_NONBLOCK` as state: a read of a stream may fail at any time instead.
- `Protection` and `protect`; the null answers of the allocator.
- Opening, seeking, metadata, rename, links, copy, `canonicalize`, `current_dir`,
  `current_exe`, `temp_dir`: single calls without state of this crate.
- `time`, `cpu`, `math` and `proc`: single calls, formatting, floating point, or
  parsing of a platform file, without state.

## Plan

1. `SplitsAtTheLast` and `EditsKeepTheRest` by induction over a path, with the
   frame for folds. That a `Once` alone runs its own function.
2. A daemon composed of Daemonize, Signals and Command sharing descriptors.
3. Circles of three joins, with a third child in `Threads`.
