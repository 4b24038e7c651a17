------------------------------- MODULE Sockets ------------------------------
(***************************************************************************)
(* src/socket.rs: listening, connecting, accepting and duplicating.  Every *)
(* descriptor is in an Fd that closes it when dropped, on the error paths  *)
(* of the constructors too, while other threads are given the numbers just *)
(* closed.  A path is its bytes; the kernel sees what fits into sun_path.  *)
(***************************************************************************)
EXTENDS Integers, Sequences

CONSTANTS Callers,  \* threads, each in one call or holding one value
          PathBytes, \* the bytes they are made of
          Paths,    \* the paths programs use
          SunPath,  \* the length of sun_path, 104 or 108
          MaxFd     \* bound: the descriptors of the process

VARIABLES table, \* descriptor -> the open file it names, see Unused
          names, \* the names of sockets in the file system, stale ones too
          call   \* caller -> its value: the Fd, and what it is

socketVars == <<table, names, call>>

ASSUME SocketAssumption ==
  /\ Paths \subseteq Seq(PathBytes)
  /\ SunPath \in Nat /\ MaxFd \in Nat

SocketFds == 0..(MaxFd - 1)

\* An open file: a socket not yet used, one that listens, by its name or with
\* its name removed, one end of a connection; path is the one the Listener
\* was given, queued whether a connection waits to be accepted.
Unused == [kind |-> "closed", path |-> <<>>, queued |-> FALSE]
OpenAs(kind, path) == [kind |-> kind, path |-> path, queued |-> FALSE]

\* A value: what it is, its descriptor, and the path it was made with.
Nothing == [is |-> "nothing", fd |-> -1, path |-> <<>>]
Holds(is, fd, path) == [is |-> is, fd |-> fd, path |-> path]

KernelName(path) == IF Len(path) <= SunPath THEN path ELSE SubSeq(path, 1, SunPath)
KernelNames == {KernelName(path) : path \in Paths}

SocketInit ==
  /\ table = [f \in SocketFds |-> Unused]
  /\ names = {}
  /\ call = [c \in Callers |-> Nothing]

FreeFd(f) == f \in SocketFds /\ table[f] = Unused /\ \A g \in SocketFds : table[g] = Unused => f <= g

\* Whether a path fits, with its NUL.
address(path) == Len(path) < SunPath

\* The first half of bind and of connect.
socket_fd(c, is) ==
  /\ call[c] = Nothing
  /\ \E f \in SocketFds, path \in Paths :
       /\ FreeFd(f)
       /\ table' = [table EXCEPT ![f] = OpenAs("socket", path)]
       /\ call' = [call EXCEPT ![c] = Holds(is, f, path)]
  /\ UNCHANGED names

\* Leaving with the error drops the Fd.
DropFd(c) ==
  /\ table' = [table EXCEPT ![call[c].fd] = Unused]
  /\ call' = [call EXCEPT ![c] = Nothing]

\* bind fails over a name that is there, a stale one too.
bind(c) ==
  LET v == call[c] n == KernelName(v.path)
  IN  /\ v.is = "binding"
      /\ \/ /\ address(v.path) /\ n \notin names
            /\ names' = names \cup {n}
            /\ table' = [table EXCEPT ![v.fd] = OpenAs("listener", v.path)]
            /\ call' = [call EXCEPT ![c] = Holds("Listener", v.fd, v.path)]
         \/ /\ ~address(v.path) \/ n \in names
            /\ DropFd(c)
            /\ UNCHANGED names

Listening(n) == {f \in SocketFds : table[f].kind = "listener" /\ KernelName(table[f].path) = n}

\* connect finds the listener by the name, waiting while its backlog is full,
\* or is refused.
connect(c) ==
  LET v == call[c] there == Listening(KernelName(v.path))
  IN  /\ v.is = "connecting"
      /\ \/ \E l \in there :
              /\ address(v.path)
              /\ ~table[l].queued
              /\ table' = [table EXCEPT ![v.fd] = OpenAs("connection", table[l].path),
                                        ![l].queued = TRUE]
              /\ call' = [call EXCEPT ![c] = Holds("Stream", v.fd, v.path)]
         \/ /\ ~address(v.path) \/ there = {}
            /\ DropFd(c)
      /\ UNCHANGED names

\* Any call may fail for another reason: no room, no right, a reset.  When it
\* is listen, the name is there already and stays.
CallFails(c) ==
  LET v == call[c] n == KernelName(v.path)
  IN  /\ v.is \in {"binding", "connecting"}
      /\ DropFd(c)
      /\ \/ UNCHANGED names
         \/ /\ v.is = "binding" /\ address(v.path) /\ n \notin names
            /\ names' = names \cup {n}

accept(c) ==
  /\ call[c] = Nothing
  /\ \E f \in SocketFds, l \in Callers :
       /\ call[l].is = "Listener"
       /\ table[call[l].fd].queued
       /\ FreeFd(f)
       /\ table' = [table EXCEPT ![f] = OpenAs("connection", table[call[l].fd].path),
                                 ![call[l].fd].queued = FALSE]
       /\ call' = [call EXCEPT ![c] = Holds("Stream", f, call[l].path)]
  /\ UNCHANGED names

\* Mutant: the number is copied.
duplicate_number(c) ==
  /\ call[c] = Nothing
  /\ \E d \in Callers :
       /\ call[d].is = "Stream"
       /\ call' = [call EXCEPT ![c] = call[d]]
  /\ UNCHANGED <<table, names>>

duplicate(c) ==
  /\ call[c] = Nothing
  /\ \E f \in SocketFds, d \in Callers :
       /\ call[d].is = "Stream"
       /\ FreeFd(f)
       /\ table' = [table EXCEPT ![f] = table[call[d].fd]]
       /\ call' = [call EXCEPT ![c] = Holds("Stream", f, call[d].path)]
  /\ UNCHANGED names

\* Drop for Fd.  A Listener's name stays behind.
DropSocket(c) ==
  /\ call[c].is \in {"Listener", "Stream"}
  /\ DropFd(c)
  /\ UNCHANGED names

\* fs::unlink, which a server calls on the path it is about to bind.
UnlinkName(n) ==
  /\ n \in names
  /\ names' = names \ {n}
  /\ table' = [f \in SocketFds |-> IF f \in Listening(n) THEN [table[f] EXCEPT !.kind = "unnamed"]
                                   ELSE table[f]]
  /\ UNCHANGED call

SocketNext ==
  \/ \E c \in Callers :
       \/ socket_fd(c, "binding") \/ socket_fd(c, "connecting")
       \/ bind(c) \/ connect(c) \/ CallFails(c) \/ accept(c) \/ duplicate(c) \/ DropSocket(c)
  \/ \E n \in KernelNames : UnlinkName(n)

SocketSpec == SocketInit /\ [][SocketNext]_socketVars

-----------------------------------------------------------------------------
(***************************************************************************)
(* Properties                                                              *)
(***************************************************************************)
Connected(c) == call[c].is \in {"Stream", "Listener"}

\* Each open descriptor has exactly one owner, so none is leaked by a failing
\* bind or connect and none is closed under its other handle; and a Stream is
\* connected to the Listener that was given the very path it was given,
\* also when two paths differ only beyond what sun_path holds.
FdsAreOwned ==
  /\ \A f \in SocketFds : table[f] # Unused => \E c \in Callers : call[c].fd = f
  /\ \A c \in Callers : call[c] # Nothing => table[call[c].fd] # Unused
  /\ \A c, d \in Callers : c # d /\ call[c] # Nothing => call[c].fd # call[d].fd
  /\ \A c \in Callers : Connected(c) => table[call[c].fd].path = call[c].path
=============================================================================
