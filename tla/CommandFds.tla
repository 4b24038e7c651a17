----------------------------- MODULE CommandFds ------------------------------
(***************************************************************************)
(* src/command.rs, Command::spawn and Pipe: which descriptors the parent   *)
(* and the started programs end up with.  Several threads of one process   *)
(* spawn at the same time and share its descriptor table, in which any of  *)
(* 0, 1 and 2 may be closed at the start, as a daemon's are; another       *)
(* thread opens and closes a File (src/file.rs), without close-on-exec.    *)
(*                                                                         *)
(* A table maps a descriptor number to Closed or to what it refers to and  *)
(* whether it is close-on-exec.                                            *)
(***************************************************************************)
EXTENDS Integers, FiniteSets

CONSTANTS Spawners,  \* the threads that call spawn, once each
          MaxFd,     \* the highest descriptor number
          Closed, Std, Null, File, \* table entries that are no pipe end
          NotYet, Exit127          \* no program started yet, or none at all

Outputs == {"out", "err"}
Ends == {"read", "write"}
PipeEnds == Spawners \X Outputs \X Ends

ASSUME CommandFdsAssumption ==
  /\ MaxFd \in Nat /\ MaxFd > 2
  /\ {Std, Null, File} \cap PipeEnds = {}
  /\ Closed \notin [what : {Std, Null, File} \cup PipeEnds, cloexec : BOOLEAN]

VARIABLES pipe2,   \* whether the target has pipe2 (Linux) or not (macOS)
          table,   \* the descriptor table of the parent
          step,    \* the step each thread is at, and on which stream
          fd,      \* the fields of its two Pipes; -1 is closed
          program, \* the table of the started program, NotYet or Exit127
          file     \* the descriptor of the File, Unopened, or -1 once it is dropped

fdsVars == <<pipe2, table, step, fd, program, file>>

Fds == 0..MaxFd
Unopened == -2
Entry(what, cloexec) == [what |-> what, cloexec |-> cloexec]

\* The descriptor number the kernel picks: the lowest that is free.
FreeFds(t, from) == {f \in Fds : f >= from /\ t[f] = Closed}
Lowest(S) == CHOOSE f \in S : \A g \in S : f <= g
close(t, f) == [t EXCEPT ![f] = Closed]

FdsInit ==
  /\ pipe2 \in BOOLEAN
  /\ \E shut \in SUBSET {0, 1, 2} :
       table = [f \in Fds |-> IF f < 3 /\ f \notin shut THEN Entry(Std, FALSE) ELSE Closed]
  /\ step = [s \in Spawners |-> <<"new", "out">>]
  /\ fd = [s \in Spawners |-> [stream \in Outputs |-> [end \in Ends |-> -1]]]
  /\ program = [s \in Spawners |-> NotYet]
  /\ file = Unopened

Go(s, from, to) ==
  /\ step[s] = from
  /\ step' = [step EXCEPT ![s] = to]

(***************************************************************************)
(* Pipe::new                                                               *)
(***************************************************************************)
AfterPipe(stream) == IF stream = "out" THEN <<"new", "err">> ELSE <<"fork", "both">>

\* Where pipe2 is missing the flag is set on each end afterwards.
NewPipe(s, stream) ==
  /\ Go(s, <<"new", stream>>, IF pipe2 THEN AfterPipe(stream) ELSE <<"read", stream>>)
  /\ Cardinality(FreeFds(table, 0)) >= 2
  /\ LET r == Lowest(FreeFds(table, 0))
         w == Lowest(FreeFds(table, r + 1))
     IN  /\ table' = [table EXCEPT ![r] = Entry(<<s, stream, "read">>, pipe2),
                                   ![w] = Entry(<<s, stream, "write">>, pipe2)]
         /\ fd' = [fd EXCEPT ![s][stream] = [end \in Ends |-> IF end = "read" THEN r ELSE w]]
  /\ UNCHANGED <<pipe2, program, file>>

\* fcntl(F_SETFD) on one end.
SetCloexec(s, stream, end) ==
  /\ Go(s, <<end, stream>>, IF end = "read" THEN <<"write", stream>> ELSE AfterPipe(stream))
  /\ table' = [table EXCEPT ![fd[s][stream][end]].cloexec = TRUE]
  /\ UNCHANGED <<pipe2, fd, program, file>>

\* A pipe, the list of candidates or the fork fails: the Pipes made so far are
\* dropped, the last one first, and the answer is None.
Fail(s) ==
  /\ \E from \in {<<"new", "out">>, <<"new", "err">>, <<"fork", "both">>} :
       Go(s, from, <<"drop", "err">>)
  /\ UNCHANGED <<pipe2, table, fd, program, file>>

(***************************************************************************)
(* The child from fork to execve.  Its table is its own, so what it does   *)
(* is one function of the table it got.                                    *)
(***************************************************************************)
\* The table after, and the descriptor; F_DUPFD_CLOEXEC keeps clear of 0, 1, 2.
above_stdio(t, f) ==
  IF f > 2 THEN [table |-> t, fd |-> f]
  ELSE LET g == Lowest(FreeFds(t, 3))
       IN  [table |-> [t EXCEPT ![g] = Entry(t[f].what, TRUE)], fd |-> g]

\* dup2 of a descriptor onto itself does nothing; otherwise the copy has the
\* flag clear.
dup2(t, from, to) == IF from = to THEN t ELSE [t EXCEPT ![to] = Entry(t[from].what, FALSE)]

exec(t) == [f \in Fds |-> IF t[f] # Closed /\ t[f].cloexec THEN Closed ELSE t[f]]

\* Mutant: the pipe ends are dup2'd from where they are and then closed.
ShuffleInPlace(t, outWrite, errWrite) ==
  LET null == Lowest(FreeFds(t, 0))
      opened == [t EXCEPT ![null] = Entry(Null, FALSE)]
      stdin == close(dup2(opened, null, 0), null)
      streams == dup2(dup2(stdin, outWrite, 1), errWrite, 2)
  IN  exec(close(close(streams, outWrite), errWrite))

ChildSetup(t, outWrite, errWrite) ==
  LET o == above_stdio(t, outWrite)
      e == above_stdio(o.table, errWrite)
      null == Lowest(FreeFds(e.table, 0))
      opened == [e.table EXCEPT ![null] = Entry(Null, FALSE)]
      stdin == close(dup2(opened, null, 0), null)
  IN  exec(dup2(dup2(stdin, o.fd, 1), e.fd, 2))

\* Every call of the child but the execs is checked, and a failure, as when the
\* table is full, is an exit with 127; so is a program that is not found.
fork(s) ==
  /\ Go(s, <<"fork", "both">>, <<"close", "out">>)
  /\ \/ /\ Cardinality(FreeFds(table, 3)) >= 3
        /\ program' = [program EXCEPT ![s] =
                         ChildSetup(table, fd[s]["out"]["write"], fd[s]["err"]["write"])]
     \/ program' = [program EXCEPT ![s] = Exit127]
  /\ UNCHANGED <<pipe2, table, fd, file>>

(***************************************************************************)
(* The parent afterwards                                                   *)
(***************************************************************************)
\* Mutant: the field keeps the number of the descriptor that was closed.
CloseWriteAndKeep(s, stream) ==
  /\ Go(s, <<"close", stream>>, IF stream = "out" THEN <<"close", "err">> ELSE <<"child", "both">>)
  /\ table' = close(table, fd[s][stream]["write"])
  /\ UNCHANGED <<pipe2, fd, program, file>>

close_write(s, stream) ==
  /\ Go(s, <<"close", stream>>, IF stream = "out" THEN <<"close", "err">> ELSE <<"child", "both">>)
  /\ table' = close(table, fd[s][stream]["write"])
  /\ fd' = [fd EXCEPT ![s][stream]["write"] = -1]
  /\ UNCHANGED <<pipe2, program, file>>

\* The Child goes out of scope, and its Pipes with it, out first.
DropChild(s) ==
  /\ Go(s, <<"child", "both">>, <<"drop", "out">>)
  /\ UNCHANGED <<pipe2, table, fd, program, file>>

IsOpen(s, stream) == \E end \in Ends : fd[s][stream][end] >= 0

\* The next end to close when the Pipe in first is dropped before the other.
DropNext(s, first) ==
  LET stream == IF IsOpen(s, first) THEN first ELSE CHOOSE other \in Outputs : other # first
      end == IF fd[s][stream]["read"] >= 0 THEN "read" ELSE "write"
  IN  <<stream, end>>

\* Drop for Pipe: the ends that are open are closed, one after the other.
DropPipe(s, first) ==
  /\ step[s] = <<"drop", first>>
  /\ \E stream \in Outputs : IsOpen(s, stream)
  /\ LET n == DropNext(s, first)
     IN  /\ table' = close(table, fd[s][n[1]][n[2]])
         /\ fd' = [fd EXCEPT ![s][n[1]][n[2]] = -1]
  /\ UNCHANGED <<pipe2, step, program, file>>

(***************************************************************************)
(* Another thread: File::open and the drop of the File                     *)
(***************************************************************************)
OpenFile ==
  /\ file = Unopened
  /\ FreeFds(table, 0) # {}
  /\ file' = Lowest(FreeFds(table, 0))
  /\ table' = [table EXCEPT ![file'] = Entry(File, FALSE)]
  /\ UNCHANGED <<pipe2, step, fd, program>>

DropFile ==
  /\ file >= 0
  /\ table' = close(table, file)
  /\ file' = -1
  /\ UNCHANGED <<pipe2, step, fd, program>>

SpawnNext(s) ==
  \/ \E stream \in Outputs :
       NewPipe(s, stream) \/ close_write(s, stream) \/ DropPipe(s, stream)
       \/ \E end \in Ends : SetCloexec(s, stream, end)
  \/ Fail(s) \/ fork(s) \/ DropChild(s)

FdsNext == (\E s \in Spawners : SpawnNext(s)) \/ OpenFile \/ DropFile

FdsSpec == FdsInit /\ [][FdsNext]_fdsVars

-----------------------------------------------------------------------------
Started(s) == program[s] \notin {NotYet, Exit127}

\* Whatever the parent had closed and whoever else is spawning, a started
\* program writes its stdout and its stderr into its own two pipes, and has
\* nothing to read on 0.
StreamsAreItsOwn == \A s \in Spawners : Started(s) =>
  /\ program[s][1] = Entry(<<s, "out", "write">>, FALSE)
  /\ program[s][2] = Entry(<<s, "err", "write">>, FALSE)
  /\ program[s][0] \in {Closed, Entry(Null, FALSE)}

\* Pipe::new: where pipe2 exists, no end of a pipe reaches a program but as its
\* own 1 and 2, so no other spawner's reader waits for this program to exit.
NoEndLeaks == \A s \in Spawners : pipe2 /\ Started(s) =>
  \A f \in Fds \ {1, 2} : program[s][f] # Closed => program[s][f].what \notin PipeEnds

\* A Pipe's fields say what they say: an end with a number is that end in the
\* table, so no close ever hits a descriptor that another thread was given.
FieldsNameTheirOwn == \A s \in Spawners, stream \in Outputs, end \in Ends :
  LET f == fd[s][stream][end] IN f >= 0 => table[f] # Closed /\ table[f].what = <<s, stream, end>>

\* A failure part-way through leaks no descriptors, nor does a dropped Child:
\* an end that no Pipe field names is not open in the parent.
NothingIsLeft == \A f \in Fds :
  table[f] # Closed /\ table[f].what \in PipeEnds =>
    \E s \in Spawners, stream \in Outputs, end \in Ends :
      fd[s][stream][end] = f /\ table[f].what = <<s, stream, end>>

\* Every end of every pipe is accounted for: in the field that names it, in no
\* other program, and gone when its Pipe is.
EndsAreAccounted == NoEndLeaks /\ FieldsNameTheirOwn /\ NothingIsLeft
=============================================================================
