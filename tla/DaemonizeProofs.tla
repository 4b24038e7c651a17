--------------------------- MODULE DaemonizeProofs ---------------------------
(***************************************************************************)
(* Proofs about Daemonize, for any number of launches, whichever of them   *)
(* are given the pid file, and whether or not SIGPIPE is ignored.          *)
(***************************************************************************)
EXTENDS Daemonize, TLAPS

Processes == {"parent", "middle", "daemon", "child"}

Places == Living \cup {"unborn", "pipe", "fork", "close", "read", "setsid", "exit", "running",
                       "err", "exit0", "exit1", "killed", "sigpipe", "gone"}

Typed ==
  /\ parent \in [Launches -> Places] /\ middle \in [Launches -> Places]
  /\ daemon \in [Launches -> Places] /\ child \in [Launches -> Places]
  /\ writers \in [Launches -> SUBSET Processes] /\ readers \in [Launches -> SUBSET Processes]
  /\ byte \in [Launches -> BOOLEAN] /\ signalled \in [Launches -> BOOLEAN]
  /\ lock \in [Launches -> SUBSET Processes]

-----------------------------------------------------------------------------
(***************************************************************************)
(* The readiness pipe.  An end that a process still needs is one it holds; *)
(* so the parent reads the end of the pipe only when nobody is left that   *)
(* could signal.                                                           *)
(***************************************************************************)
\* Where the process in the middle and the daemon may still come to a signal.
MiddleOnTheWay == {"close", "setsid", "fork"}
DaemonOnTheWay == {"chdir", "open", "flock", "truncate", "write", "redirect", "ready"}

PipeInvOf(l) ==
  /\ parent[l] \in {"pipe", "fork"} => middle[l] = "unborn" /\ daemon[l] = "unborn" /\ ~signalled[l]
  /\ parent[l] \in {"fork", "close"} => "parent" \in writers[l]
  /\ parent[l] \in {"fork", "close", "read"} => "parent" \in readers[l]
  /\ middle[l] \in MiddleOnTheWay => "middle" \in writers[l]
  /\ daemon[l] \in DaemonOnTheWay => "daemon" \in writers[l]
  /\ byte[l] => signalled[l]
  /\ signalled[l] => byte[l] \/ parent[l] \notin {"fork", "close", "read"}
  /\ parent[l] = "exit0" => signalled[l]
  /\ parent[l] = "exit1" => /\ ~signalled[l]
                            /\ middle[l] \notin MiddleOnTheWay
                            /\ daemon[l] \notin DaemonOnTheWay

PipeInv == \A l \in Launches : PipeInvOf(l)

-----------------------------------------------------------------------------
(***************************************************************************)
(* The pid file.  A daemon that may write it, or has written it, holds the *)
(* lock, and the processes of one launch at most do; so nobody else writes *)
(* what an owner wrote.                                                    *)
(***************************************************************************)
OwnerInv ==
  /\ \A l \in Launches :
       /\ daemon[l] \in {"open", "flock", "truncate", "write"} => l \in Locking
       /\ daemon[l] \in {"truncate", "write"} \/ Claimed(l) => "daemon" \in lock[l]
       /\ Claimed(l) => pidText = l
  /\ \A l, m \in Launches : lock[l] # {} /\ lock[m] # {} => l = m

Inv == Typed /\ PipeInv /\ OwnerInv

-----------------------------------------------------------------------------
\* What a step of one launch leaves to the others.
Elsewhere(l) == \A m \in Launches \ {l} :
  /\ parent'[m] = parent[m] /\ middle'[m] = middle[m] /\ daemon'[m] = daemon[m]
  /\ writers'[m] = writers[m] /\ readers'[m] = readers[m]
  /\ byte'[m] = byte[m] /\ signalled'[m] = signalled[m]

Step(l) ==
  \/ ParentNext(l) \/ ParentKilled(l) \/ MiddleNext(l) \/ MiddleDies(l) \/ DaemonNext(l)
  \/ DaemonDies(l) \/ SpawnChild(l) \/ ChildExits(l) \/ ErrorExits(l)

\* At first nothing is open, and nobody has the lock, ...
LEMMA InitInv == Init => Inv
BY DEF Init, Inv, Typed, Places, Processes, PipeInv, PipeInvOf, OwnerInv, Claimed, MiddleOnTheWay, DaemonOnTheWay

\* Ready::signal writes the byte, or the daemon dies of it.
LEMMA SignalWrites ==
  ASSUME Typed, NEW l \in Launches, signal(l)
  PROVE  \/ /\ daemon[l] = "ready" /\ daemon' = [daemon EXCEPT ![l] = "closing"]
            /\ byte' \in [Launches -> BOOLEAN] /\ (byte'[l] <=> readers[l] # {})
            /\ \A m \in Launches \ {l} : byte'[m] = byte[m]
            /\ signalled' = [signalled EXCEPT ![l] = TRUE]
            /\ UNCHANGED <<parent, middle, child, writers, readers, file>>
         \/ /\ daemon[l] = "ready" /\ daemon' = [daemon EXCEPT ![l] = "sigpipe"]
            /\ CloseAll(l, "daemon")
            /\ UNCHANGED <<parent, middle, child>>
<1>1. CASE readers[l] # {} \/ SigpipeIgnored
  <2>1. PICK b \in BOOLEAN : (b <=> readers[l] # {}) /\ byte' = [byte EXCEPT ![l] = b]
    <3>1. byte' = [byte EXCEPT ![l] = (readers[l] # {})]
      BY <1>1 DEF signal
    <3> QED
      BY <3>1
  <2>2. byte \in [Launches -> BOOLEAN]
    BY DEF Typed
  <2>3. /\ byte' \in [Launches -> BOOLEAN] /\ byte'[l] = b
        /\ \A m \in Launches \ {l} : byte'[m] = byte[m]
    BY <2>1, <2>2
  <2>4. /\ daemon[l] = "ready" /\ daemon' = [daemon EXCEPT ![l] = "closing"]
        /\ signalled' = [signalled EXCEPT ![l] = TRUE]
        /\ UNCHANGED <<parent, middle, child, writers, readers, file>>
    BY <1>1 DEF signal, Move
  <2> QED
    BY <2>1, <2>3, <2>4
<1>2. CASE ~(readers[l] # {} \/ SigpipeIgnored)
  BY <1>2 DEF signal, Move
<1> QED
  BY <1>1, <1>2

\* ... every step keeps to the processes and the pipe of its launch, ...
LEMMA StepsAreLocal ==
  ASSUME Typed, NEW l \in Launches, Step(l)
  PROVE  Typed' /\ Elsewhere(l)
<1> USE DEF Typed, Places, Living, Elsewhere, pipe, file, Processes
<1>1. CASE ParentNext(l) \/ ParentKilled(l)
  <2>1. CASE OpenPipe(l)
    BY <2>1 DEF OpenPipe, Move
  <2>2. CASE FirstFork(l)
    BY <2>2 DEF FirstFork, Move, Inherit
  <2>3. CASE ParentCloses(l) \/ ParentReads(l) \/ ParentKilled(l)
    BY <2>3 DEF ParentCloses, ParentReads, ParentKilled, Move, CloseAll
  <2> QED
    BY <1>1, <2>1, <2>2, <2>3 DEF ParentNext
<1>2. CASE MiddleNext(l) \/ MiddleDies(l)
  <2>1. CASE SecondFork(l)
    BY <2>1 DEF SecondFork, Move, Inherit
  <2>2. CASE MiddleCloses(l) \/ SetSid(l) \/ MiddleExits(l) \/ MiddleDies(l)
    BY <2>2 DEF MiddleCloses, SetSid, MiddleExits, MiddleDies, Move, CloseAll
  <2> QED
    BY <1>2, <2>1, <2>2 DEF MiddleNext
<1>3. CASE DaemonNext(l) \/ DaemonDies(l)
  <2>1. CASE Chdir(l) \/ OpenPidFile(l) \/ Truncate(l) \/ WritePid(l) \/ redirect_standard_streams(l)
    <3>1. \E place \in Places : daemon' = [daemon EXCEPT ![l] = place]
      BY <2>1 DEF Chdir, OpenPidFile, Truncate, WritePid, redirect_standard_streams, Move
    <3>2. UNCHANGED <<parent, middle, child, writers, readers, byte, signalled, lock>>
      BY <2>1 DEF Chdir, OpenPidFile, Truncate, WritePid, redirect_standard_streams
    <3> QED
      BY <3>1, <3>2
  <2>2. CASE Flock(l)
    BY <2>2 DEF Flock, Move
  <2>3. CASE signal(l)
    <3>1. CASE /\ daemon' = [daemon EXCEPT ![l] = "closing"]
               /\ byte' \in [Launches -> BOOLEAN]
               /\ \A m \in Launches \ {l} : byte'[m] = byte[m]
               /\ signalled' = [signalled EXCEPT ![l] = TRUE]
               /\ UNCHANGED <<parent, middle, child, writers, readers, file>>
      BY <3>1
    <3>2. CASE /\ daemon' = [daemon EXCEPT ![l] = "sigpipe"]
               /\ CloseAll(l, "daemon")
               /\ UNCHANGED <<parent, middle, child>>
      BY <3>2 DEF CloseAll
    <3> QED
      BY <2>3, <3>1, <3>2, SignalWrites
  <2>4. CASE SignalClosesPipe(l) \/ DropReady(l) \/ DaemonDies(l)
    BY <2>4 DEF SignalClosesPipe, DropReady, DaemonDies, Move, CloseAll
  <2> QED
    BY <1>3, <2>1, <2>2, <2>3, <2>4 DEF DaemonNext
<1>4. CASE SpawnChild(l)
  BY <1>4 DEF SpawnChild, Move, Inherit
<1>5. CASE ChildExits(l) \/ ErrorExits(l)
  BY <1>5 DEF ChildExits, ErrorExits, Move, CloseAll
<1> QED
  BY <1>1, <1>2, <1>3, <1>4, <1>5 DEF Step

\* ... opens, inherits and closes the ends in the order that the exit code needs, ...
LEMMA PipeKept ==
  ASSUME Typed, PipeInv, NEW l \in Launches, Step(l)
  PROVE  PipeInv'
<1>1. PipeInvOf(l) /\ Typed' /\ Elsewhere(l)
  BY StepsAreLocal DEF PipeInv
<1>2. PipeInvOf(l)'
  <2> USE <1>1 DEF Typed, PipeInvOf, pipe, file, Processes, MiddleOnTheWay, DaemonOnTheWay
  <2>1. CASE OpenPipe(l)
    BY <2>1 DEF OpenPipe, Move
  <2>2. CASE FirstFork(l)
    BY <2>2 DEF FirstFork, Move, Inherit
  <2>3. CASE ParentCloses(l)
    BY <2>3 DEF ParentCloses, Move
  <2>4. CASE ParentReads(l)
    BY <2>4 DEF ParentReads, Move, CloseAll
  <2>5. CASE ParentKilled(l)
    BY <2>5 DEF ParentKilled, Move, CloseAll
  <2>6. CASE MiddleCloses(l) \/ SetSid(l) \/ MiddleExits(l) \/ MiddleDies(l)
    BY <2>6 DEF MiddleCloses, SetSid, MiddleExits, MiddleDies, Move, CloseAll
  <2>7. CASE SecondFork(l)
    BY <2>7 DEF SecondFork, Move, Inherit
  <2>8. CASE Chdir(l) \/ OpenPidFile(l) \/ Flock(l) \/ Truncate(l) \/ WritePid(l)
             \/ redirect_standard_streams(l)
    BY <2>8 DEF Chdir, OpenPidFile, Flock, Truncate, WritePid, redirect_standard_streams, Move
  <2>9. CASE signal(l)
    <3>1. CASE /\ daemon[l] = "ready" /\ daemon' = [daemon EXCEPT ![l] = "closing"]
               /\ byte' \in [Launches -> BOOLEAN] /\ (byte'[l] <=> readers[l] # {})
               /\ signalled' = [signalled EXCEPT ![l] = TRUE]
               /\ UNCHANGED <<parent, middle, child, writers, readers, file>>
      BY <1>1, <3>1
    <3>2. CASE /\ daemon[l] = "ready" /\ daemon' = [daemon EXCEPT ![l] = "sigpipe"]
               /\ CloseAll(l, "daemon")
               /\ UNCHANGED <<parent, middle, child>>
      BY <3>2 DEF CloseAll
    <3> QED
      BY <2>9, <3>1, <3>2, SignalWrites
  <2>10. CASE SignalClosesPipe(l) \/ DropReady(l) \/ DaemonDies(l)
    <3>1. /\ daemon[l] # "unborn" /\ daemon'[l] \in {"serving", "failed", "gone"}
          /\ UNCHANGED <<parent, middle, byte, signalled>>
      BY <2>10 DEF Living, SignalClosesPipe, DropReady, DaemonDies, Move, CloseAll
    <3>2. /\ writers'[l] = writers[l] \ {"daemon"}
          /\ readers'[l] = readers[l] \/ readers'[l] = readers[l] \ {"daemon"}
      BY <2>10 DEF SignalClosesPipe, DropReady, DaemonDies, Move, CloseAll
    <3>3. /\ "parent" \in writers'[l] <=> "parent" \in writers[l]
          /\ "middle" \in writers'[l] <=> "middle" \in writers[l]
          /\ "parent" \in readers'[l] <=> "parent" \in readers[l]
      BY <3>2
    <3> QED
      BY <3>1, <3>3
  <2>11. CASE SpawnChild(l)
    BY <2>11 DEF SpawnChild, Move, Inherit
  <2>12. CASE ChildExits(l) \/ ErrorExits(l)
    BY <2>12 DEF ChildExits, ErrorExits, Move, CloseAll
  <2> QED
    BY <2>1, <2>2, <2>3, <2>4, <2>5, <2>6, <2>7, <2>8, <2>9, <2>10, <2>11, <2>12
       DEF Step, ParentNext, MiddleNext, DaemonNext
<1>3. ASSUME NEW m \in Launches, m # l PROVE PipeInvOf(m)'
  BY <1>1, <1>3 DEF PipeInv, PipeInvOf, Elsewhere
<1> QED
  BY <1>2, <1>3 DEF PipeInv

\* ... and locks the pid file before it writes there.
LEMMA OwnerKept ==
  ASSUME Typed, OwnerInv, NEW l \in Launches, Step(l)
  PROVE  OwnerInv'
<1>1. Typed' /\ Elsewhere(l)
  BY StepsAreLocal
<1> USE DEF Typed, OwnerInv, Claimed, pipe, file
<1>2. CASE ParentNext(l) \/ ParentKilled(l) \/ MiddleNext(l) \/ MiddleDies(l)
  <2>1. /\ daemon'[l] = daemon[l] \/ (daemon'[l] = "chdir" /\ daemon[l] = daemon[l])
        /\ pidText' = pidText
        /\ \A m \in Launches : lock'[m] \subseteq lock[m] /\ ("daemon" \in lock[m] => "daemon" \in lock'[m])
    BY <1>2 DEF ParentNext, OpenPipe, FirstFork, ParentCloses, ParentReads, ParentKilled,
       MiddleNext, MiddleCloses, SetSid, SecondFork, MiddleExits, MiddleDies, Move, CloseAll
  <2> QED
    BY <1>1, <2>1 DEF Elsewhere
<1>3. CASE Chdir(l) \/ OpenPidFile(l)
  BY <1>3 DEF Chdir, OpenPidFile, Move
<1>4. CASE Flock(l)
  BY <1>4 DEF Flock, Move
<1>5. CASE Truncate(l) \/ WritePid(l)
  BY <1>5 DEF Truncate, WritePid, Move
<1>6. CASE redirect_standard_streams(l)
  BY <1>6 DEF redirect_standard_streams, Move
<1>7. CASE signal(l)
  BY <1>7, SignalWrites DEF CloseAll
<1>8. CASE SignalClosesPipe(l) \/ DropReady(l) \/ DaemonDies(l)
  BY <1>8 DEF SignalClosesPipe, DropReady, DaemonDies, Move, CloseAll
<1>9. CASE SpawnChild(l)
  BY <1>9 DEF SpawnChild, Move, Inherit
<1>10. CASE ChildExits(l) \/ ErrorExits(l)
  BY <1>10 DEF ChildExits, ErrorExits, Move, CloseAll
<1> QED
  BY <1>2, <1>3, <1>4, <1>5, <1>6, <1>7, <1>8, <1>9, <1>10 DEF Step, DaemonNext

\* So every step keeps the invariant.
LEMMA NextInv == Inv /\ [Next]_vars => Inv'
<1> SUFFICES ASSUME Inv, [Next]_vars PROVE Inv'
  OBVIOUS
<1>1. ASSUME NEW l \in Launches, Step(l) PROVE Inv'
  BY <1>1, StepsAreLocal, PipeKept, OwnerKept DEF Inv
<1>2. CASE UNCHANGED vars
  BY <1>2 DEF vars, Inv, Typed, PipeInv, PipeInvOf, OwnerInv, Claimed
<1> QED
  BY <1>1, <1>2 DEF Next, Step

\* Whatever fails, whoever is killed and whoever inherits the pipe, the exit
\* code of the parent is the truth about the daemon.
THEOREM ExitCodeTheorem == SpecCode => []ExitCodeIsTrue
<1>1. Inv => ExitCodeIsTrue
  BY DEF Inv, PipeInv, PipeInvOf, ExitCodeIsTrue
<1> QED
  BY InitInv, NextInv, <1>1, PTL DEF SpecCode

\* However many launches compete for the pid file, it names the one daemon
\* that came past write_pid_file, for as long as that lives.
THEOREM PidFileTheorem == SpecCode => []PidFileNamesTheOwner
<1>1. Inv => PidFileNamesTheOwner
  BY DEF Inv, OwnerInv, PidFileNamesTheOwner
<1> QED
  BY InitInv, NextInv, <1>1, PTL DEF SpecCode
=============================================================================
