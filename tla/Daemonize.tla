------------------------------ MODULE Daemonize ------------------------------
(***************************************************************************)
(* src/daemonize.rs: several launches of a daemon, each with its three     *)
(* processes (the parent that waits, the session leader in the middle, the *)
(* daemon), its readiness pipe, and one pid file they all compete for.     *)
(* Any libc call may fail, any process may die at any point, and the       *)
(* daemon may start another program, which inherits its descriptors.       *)
(***************************************************************************)
EXTENDS Integers, FiniteSets

CONSTANTS Launches,
          Locking,         \* the launches that are given a pid file
          SigpipeIgnored,  \* whether the program has SIGPIPE ignored
          Empty, Stale     \* a pid file with no pid, with the pid of the past

ASSUME DaemonizeAssumption ==
  /\ Locking \subseteq Launches
  /\ SigpipeIgnored \in BOOLEAN
  /\ Empty \notin Launches /\ Stale \notin Launches

VARIABLES parent, middle, daemon, child,  \* where each process of a launch is
          writers, readers,  \* which of them hold an end of the readiness pipe
          byte,              \* whether the byte is in the pipe
          signalled,         \* history: the byte was written
          lock,              \* which of them hold the locked descriptor
          pidText            \* what the pid file says

vars == <<parent, middle, daemon, child, writers, readers, byte, signalled, lock, pidText>>
pipe == <<writers, readers, byte, signalled>>
file == <<lock, pidText>>

Init ==
  /\ parent = [l \in Launches |-> "pipe"]
  /\ middle = [l \in Launches |-> "unborn"]
  /\ daemon = [l \in Launches |-> "unborn"]
  /\ child = [l \in Launches |-> "unborn"]
  /\ writers = [l \in Launches |-> {}]
  /\ readers = [l \in Launches |-> {}]
  /\ byte = [l \in Launches |-> FALSE]
  /\ signalled = [l \in Launches |-> FALSE]
  /\ lock = [l \in Launches |-> {}]
  /\ pidText \in {Empty, Stale}

Move(proc, l, from, to) == proc[l] \in from /\ proc' = [proc EXCEPT ![l] = to]

\* A process ends, and the kernel closes what it held.
CloseAll(l, who) ==
  /\ writers' = [writers EXCEPT ![l] = @ \ {who}]
  /\ readers' = [readers EXCEPT ![l] = @ \ {who}]
  /\ lock' = [lock EXCEPT ![l] = @ \ {who}]
  /\ UNCHANGED <<byte, signalled, pidText>>

\* What a fork copies: the new process holds what the forking one holds.
Inherit(S, from, to) == IF from \in S THEN S \cup {to} ELSE S

(***************************************************************************)
(* The parent                                                              *)
(***************************************************************************)
OpenPipe(l) ==
  /\ \/ /\ Move(parent, l, {"pipe"}, "fork")
        /\ writers' = [writers EXCEPT ![l] = {"parent"}]
        /\ readers' = [readers EXCEPT ![l] = {"parent"}]
     \/ Move(parent, l, {"pipe"}, "err") /\ UNCHANGED <<writers, readers>>
  /\ UNCHANGED <<middle, daemon, child, byte, signalled, file>>

\* The middle process inherits both ends.
FirstFork(l) ==
  /\ \/ /\ Move(parent, l, {"fork"}, "close")
        /\ middle' = [middle EXCEPT ![l] = "close"]
        /\ writers' = [writers EXCEPT ![l] = Inherit(@, "parent", "middle")]
        /\ readers' = [readers EXCEPT ![l] = Inherit(@, "parent", "middle")]
     \/ Move(parent, l, {"fork"}, "err") /\ UNCHANGED <<middle, writers, readers>>
  /\ UNCHANGED <<daemon, child, byte, signalled, file>>

\* Mutant: the parent keeps its copy of the write end.
ParentKeepsWriteEnd(l) ==
  /\ Move(parent, l, {"close"}, "read")
  /\ UNCHANGED <<middle, daemon, child, pipe, file>>

ParentCloses(l) ==
  /\ Move(parent, l, {"close"}, "read")
  /\ writers' = [writers EXCEPT ![l] = @ \ {"parent"}]
  /\ UNCHANGED <<middle, daemon, child, readers, byte, signalled, file>>

\* The read returns when there is a byte, or when no write end is left; the
\* parent closes its read end and exits.
ParentReads(l) ==
  /\ \/ byte[l] /\ Move(parent, l, {"read"}, "exit0")
     \/ ~byte[l] /\ writers[l] = {} /\ Move(parent, l, {"read"}, "exit1")
  /\ CloseAll(l, "parent")
  /\ UNCHANGED <<middle, daemon, child>>

ParentKilled(l) ==
  /\ Move(parent, l, {"fork", "close", "read"}, "killed")
  /\ CloseAll(l, "parent")
  /\ UNCHANGED <<middle, daemon, child>>

(***************************************************************************)
(* The process in the middle                                               *)
(***************************************************************************)
MiddleCloses(l) ==
  /\ Move(middle, l, {"close"}, "setsid")
  /\ readers' = [readers EXCEPT ![l] = @ \ {"middle"}]
  /\ UNCHANGED <<parent, daemon, child, writers, byte, signalled, file>>

SetSid(l) ==
  /\ Move(middle, l, {"setsid"}, "fork") \/ Move(middle, l, {"setsid"}, "err")
  /\ UNCHANGED <<parent, daemon, child, pipe, file>>

SecondFork(l) ==
  /\ \/ /\ Move(middle, l, {"fork"}, "exit")
        /\ daemon' = [daemon EXCEPT ![l] = "chdir"]
        /\ writers' = [writers EXCEPT ![l] = Inherit(@, "middle", "daemon")]
        /\ readers' = [readers EXCEPT ![l] = Inherit(@, "middle", "daemon")]
     \/ Move(middle, l, {"fork"}, "err") /\ UNCHANGED <<daemon, writers, readers>>
  /\ UNCHANGED <<parent, child, byte, signalled, file>>

MiddleExits(l) ==
  /\ Move(middle, l, {"exit"}, "gone")
  /\ CloseAll(l, "middle")
  /\ UNCHANGED <<parent, daemon, child>>

MiddleDies(l) ==
  /\ Move(middle, l, {"close", "setsid", "fork"}, "gone")
  /\ CloseAll(l, "middle")
  /\ UNCHANGED <<parent, daemon, child>>

(***************************************************************************)
(* The daemon, up to the return of daemonize                               *)
(***************************************************************************)
Chdir(l) ==
  /\ \/ Move(daemon, l, {"chdir"}, IF l \in Locking THEN "open" ELSE "redirect")
     \/ Move(daemon, l, {"chdir"}, "err")
  /\ UNCHANGED <<parent, middle, child, pipe, file>>

\* Mutant: the pid file is opened with O_TRUNC.
OpenTruncates(l) ==
  /\ Move(daemon, l, {"open"}, "flock")
  /\ pidText' = Empty
  /\ UNCHANGED <<parent, middle, child, pipe, lock>>

\* O_CREAT without O_TRUNC leaves what an owner wrote.
OpenPidFile(l) ==
  /\ Move(daemon, l, {"open"}, "flock") \/ Move(daemon, l, {"open"}, "err")
  /\ UNCHANGED <<parent, middle, child, pipe, file>>

\* flock(LOCK_EX | LOCK_NB): held by the open descriptions of other launches,
\* or it fails for a reason of its own; either way the answer is PidFileLocked.
Flock(l) ==
  /\ \/ /\ \A m \in Launches : lock[m] = {}
        /\ Move(daemon, l, {"flock"}, "truncate")
        /\ lock' = [lock EXCEPT ![l] = {"daemon"}]
     \/ Move(daemon, l, {"flock"}, "err") /\ UNCHANGED lock
  /\ UNCHANGED <<parent, middle, child, pipe, pidText>>

Truncate(l) ==
  /\ \/ Move(daemon, l, {"truncate"}, "write") /\ pidText' = Empty
     \/ Move(daemon, l, {"truncate"}, "err") /\ UNCHANGED pidText
  /\ UNCHANGED <<parent, middle, child, pipe, lock>>

\* The descriptor stays open, and with it the lock.
WritePid(l) ==
  /\ \/ Move(daemon, l, {"write"}, "redirect") /\ pidText' = l
     \/ Move(daemon, l, {"write"}, "err") /\ UNCHANGED pidText
  /\ UNCHANGED <<parent, middle, child, pipe, lock>>

redirect_standard_streams(l) ==
  /\ Move(daemon, l, {"redirect"}, "ready") \/ Move(daemon, l, {"redirect"}, "err")
  /\ UNCHANGED <<parent, middle, child, pipe, file>>

(***************************************************************************)
(* The program: it starts up with the Ready in hand, perhaps running other *)
(* programs, and signals, drops the Ready, or dies.                        *)
(***************************************************************************)
\* A child inherits every descriptor that is not O_CLOEXEC: the write end and
\* the locked pid file are not.
SpawnChild(l) ==
  /\ daemon[l] \in {"ready", "serving"}
  /\ Move(child, l, {"unborn"}, "running")
  /\ writers' = [writers EXCEPT ![l] = Inherit(@, "daemon", "child")]
  /\ lock' = [lock EXCEPT ![l] = Inherit(@, "daemon", "child")]
  /\ UNCHANGED <<parent, middle, daemon, readers, byte, signalled, pidText>>

ChildExits(l) ==
  /\ Move(child, l, {"running"}, "gone")
  /\ CloseAll(l, "child")
  /\ UNCHANGED <<parent, middle, daemon>>

\* Mutant: the write end is closed before the write, which then fails.
SignalAfterClose(l) ==
  /\ Move(daemon, l, {"ready"}, "closing")
  /\ writers' = [writers EXCEPT ![l] = @ \ {"daemon"}]
  /\ signalled' = [signalled EXCEPT ![l] = TRUE]
  /\ UNCHANGED <<parent, middle, child, readers, byte, file>>

\* Ready::signal writes.  With no read end left the write raises SIGPIPE,
\* which ends the daemon unless the program has it ignored.
signal(l) ==
  /\ IF readers[l] # {} \/ SigpipeIgnored
       THEN /\ Move(daemon, l, {"ready"}, "closing")
            /\ byte' = [byte EXCEPT ![l] = readers[l] # {}]
            /\ signalled' = [signalled EXCEPT ![l] = TRUE]
            /\ UNCHANGED <<writers, readers, file>>
       ELSE /\ Move(daemon, l, {"ready"}, "sigpipe")
            /\ CloseAll(l, "daemon")
  /\ UNCHANGED <<parent, middle, child>>

SignalClosesPipe(l) ==
  /\ Move(daemon, l, {"closing"}, "serving")
  /\ writers' = [writers EXCEPT ![l] = @ \ {"daemon"}]
  /\ UNCHANGED <<parent, middle, child, readers, byte, signalled, file>>

\* Drop for Ready: start-up failed.
DropReady(l) ==
  /\ Move(daemon, l, {"ready"}, "failed")
  /\ writers' = [writers EXCEPT ![l] = @ \ {"daemon"}]
  /\ UNCHANGED <<parent, middle, child, readers, byte, signalled, file>>

Living == {"chdir", "open", "flock", "truncate", "write", "redirect", "ready", "closing",
           "serving", "failed"}

DaemonDies(l) ==
  /\ Move(daemon, l, Living, "gone")
  /\ CloseAll(l, "daemon")
  /\ UNCHANGED <<parent, middle, child>>

\* daemonize returned an error and its caller, which is not of this crate, exits.
ErrorExits(l) ==
  /\ \/ Move(middle, l, {"err"}, "gone") /\ CloseAll(l, "middle") /\ UNCHANGED daemon
     \/ Move(daemon, l, {"err"}, "gone") /\ CloseAll(l, "daemon") /\ UNCHANGED middle
  /\ UNCHANGED <<parent, child>>

-----------------------------------------------------------------------------
ParentNext(l) == OpenPipe(l) \/ FirstFork(l) \/ ParentCloses(l) \/ ParentReads(l)
MiddleNext(l) == MiddleCloses(l) \/ SetSid(l) \/ SecondFork(l) \/ MiddleExits(l)
DaemonNext(l) ==
  \/ Chdir(l) \/ OpenPidFile(l) \/ Flock(l) \/ Truncate(l) \/ WritePid(l)
  \/ redirect_standard_streams(l)
  \/ signal(l) \/ SignalClosesPipe(l) \/ DropReady(l)

Next == \E l \in Launches :
  \/ ParentNext(l) \/ ParentKilled(l) \/ MiddleNext(l) \/ MiddleDies(l) \/ DaemonNext(l)
  \/ DaemonDies(l)
  \/ SpawnChild(l) \/ ChildExits(l) \/ ErrorExits(l)

(***************************************************************************)
(* The kernel runs every process, and a program that is starting up comes  *)
(* to an end of it, as do the programs it runs.  CallersExit adds that a   *)
(* caller to which daemonize returns an error in a child exits.            *)
(***************************************************************************)
CodeFairness == \A l \in Launches :
  WF_vars(ParentNext(l)) /\ WF_vars(MiddleNext(l)) /\ WF_vars(DaemonNext(l)) /\ WF_vars(ChildExits(l))
CallersExit == \A l \in Launches : WF_vars(ErrorExits(l))

SpecCode == Init /\ [][Next]_vars /\ CodeFairness
Spec == SpecCode /\ CallersExit

-----------------------------------------------------------------------------
\* The parent's exit code tells the truth: 0 only if the daemon signalled that
\* it serves, nonzero only if it never did.
ExitCodeIsTrue == \A l \in Launches :
  /\ parent[l] = "exit0" => signalled[l]
  /\ parent[l] = "exit1" => ~signalled[l]

\* Past write_pid_file a daemon is the only one there, and the pid file names
\* it for as long as it lives, whatever other launches try.
Claimed(l) == l \in Locking /\ daemon[l] \in {"redirect", "ready", "closing", "serving", "failed"}
PidFileNamesTheOwner == \A l \in Launches :
  Claimed(l) => pidText = l /\ \A m \in Launches : Claimed(m) => m = l

\* A parent waiting on the pipe is released, whatever fails or dies.
ParentIsReleased == \A l \in Launches : (parent[l] = "read") ~> (parent[l] # "read")
=============================================================================
