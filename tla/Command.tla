------------------------------- MODULE Command -------------------------------
(***************************************************************************)
(* src/command.rs: a Child and its caller.  The caller is either           *)
(* Command::output, which drains both pipes and then waits, or a caller    *)
(* with a policy of its own, which may call any method of Child at any     *)
(* time.  The program started is any program: it writes to both streams in *)
(* any order, closes them, starts one program of its own, which inherits   *)
(* its streams and its process group, and exits.                           *)
(*                                                                         *)
(* A stream is a pipe of PipeCap bytes; its content is told apart by       *)
(* position only, so it is the pair of what was written and what was got.  *)
(***************************************************************************)
EXTENDS Integers, FiniteSets

CONSTANTS PipeCap,     \* bytes a pipe holds
          Chunk,       \* bytes one read takes at most (8192 in the code)
          MaxWrites,   \* bound: bytes written to one stream
          PollMayFail, \* whether poll or read may fail for good
          SetpgidMayFail,
          None         \* Child::status before it is known

ASSUME CommandAssumption ==
  /\ PipeCap \in Nat \ {0} /\ Chunk \in Nat \ {0} /\ MaxWrites \in Nat
  /\ PollMayFail \in BOOLEAN /\ SetpgidMayFail \in BOOLEAN
  /\ None \notin Int

VARIABLES caller,     \* who calls: "output" or "any"
          child,      \* "forked", "grouped", "running", "zombie" or "reaped"
          grand,      \* what the program started: "none", "running", "dead"
          group,      \* the processes in the group that has the child's pid
          code,       \* the exit code the child left
          writing,    \* the stream each program is in a write to, or "none"
          holders,    \* per stream, the processes with its write end open
          written,    \* per stream, how much was written
          got, done,  \* Pipe::got (how much) and Pipe::done, per stream
          status,     \* Child::status
          at,         \* where the caller is
          ready,      \* the streams that poll reported
          answers,    \* history: what try_wait and wait have answered
          failed,     \* history: a poll or a read has failed for good
          targets     \* history: what was alive and in the group when the
                      \* last kill was called

vars == <<caller, child, grand, group, code, writing, holders, written, got, done, status, at, ready,
          answers, failed, targets>>
processes == <<caller, child, grand, group, code, writing>>
pipes == <<holders, written>>
fields == <<got, done, status>>
history == <<answers, failed, targets>>

Streams == {"out", "err"}
Programs == {"child", "grand"}
ExitOf(sig) == IF sig = "KILL" THEN 137 ELSE 143  \* exit_code: 128 + the signal
SIGPIPE == 141
drained == \A s \in Streams : done[s]

\* fork has returned in the parent, which still holds both write ends.
Init ==
  /\ caller \in {"output", "any"}
  /\ child = "forked" /\ grand = "none" /\ group = {} /\ code = 0
  /\ writing = [p \in Programs |-> "none"]
  /\ holders = [s \in Streams |-> {"caller", "child"}]
  /\ written = [s \in Streams |-> 0]
  /\ got = [s \in Streams |-> 0]
  /\ done = [s \in Streams |-> FALSE]
  /\ status = None
  /\ at = "close"
  /\ ready = {}
  /\ answers = {} /\ failed = FALSE /\ targets = {}

Alive(p) == IF p = "child" THEN child \in {"forked", "grouped", "running"} ELSE grand = "running"
Running == {p \in Programs : Alive(p)}

(***************************************************************************)
(* The processes on the other side.                                        *)
(***************************************************************************)
\* The kernel ends the processes in dead: it closes what they hold, takes them
\* out of the group, and keeps the child's exit code for its parent.
End(dead, exit) ==
  /\ child' = IF "child" \in dead THEN "zombie" ELSE child
  /\ code' = IF "child" \in dead THEN exit ELSE code
  /\ grand' = IF "grand" \in dead THEN "dead" ELSE grand
  /\ group' = group \ dead
  /\ writing' = [p \in Programs |-> IF p \in dead THEN "none" ELSE writing[p]]
  /\ holders' = [s \in Streams |-> holders[s] \ dead]

\* Between fork and exec: setpgid, whose failure is ignored.
SetPgid ==
  /\ child = "forked"
  /\ child' = "grouped"
  /\ \/ group' = {"child"}
     \/ SetpgidMayFail /\ UNCHANGED group
  /\ UNCHANGED <<caller, grand, code, writing, pipes, fields, at, ready, history>>

\* exec, or the exit with 127 when a call before it or every candidate fails.
Exec ==
  /\ child = "grouped"
  /\ \/ child' = "running" /\ UNCHANGED <<grand, group, code, writing, holders>>
     \/ End({"child"}, 127)
  /\ UNCHANGED <<caller, written, fields, at, ready, history>>

\* A program is between its system calls.
Free(p) == writing[p] = "none" /\ IF p = "child" THEN child = "running" ELSE grand = "running"

StartGrand ==
  /\ Free("child") /\ grand = "none"
  /\ grand' = "running"
  /\ group' = IF "child" \in group THEN group \cup {"grand"} ELSE group
  /\ holders' = [s \in Streams |-> IF "child" \in holders[s] THEN holders[s] \cup {"grand"}
                                                             ELSE holders[s]]
  /\ UNCHANGED <<caller, child, code, writing, written, fields, at, ready, history>>

BeginWrite(p, s) ==
  /\ Free(p) /\ p \in holders[s]
  /\ Cardinality({q \in Programs : writing[q] = s}) + written[s] < MaxWrites
  /\ writing' = [writing EXCEPT ![p] = s]
  /\ UNCHANGED <<caller, child, grand, group, code, pipes, fields, at, ready, history>>

\* A write blocks while the pipe is full, and ends the writer once the caller
\* has dropped the Child.
Write(p, s) ==
  /\ writing[p] = s
  /\ IF at = "gone"
       THEN End({p}, SIGPIPE) /\ UNCHANGED written
       ELSE /\ written[s] - got[s] < PipeCap
            /\ written' = [written EXCEPT ![s] = @ + 1]
            /\ writing' = [writing EXCEPT ![p] = "none"]
            /\ UNCHANGED <<child, grand, group, code, holders>>
  /\ UNCHANGED <<caller, fields, at, ready, history>>

CloseStream(p, s) ==
  /\ Free(p) /\ p \in holders[s]
  /\ holders' = [holders EXCEPT ![s] = @ \ {p}]
  /\ UNCHANGED <<processes, written, fields, at, ready, history>>

Exit(p) ==
  /\ Free(p)
  /\ \E exit \in {0, 1} : End({p}, exit)
  /\ UNCHANGED <<caller, written, fields, at, ready, history>>

(***************************************************************************)
(* The end of spawn: the parent closes its write ends.                     *)
(***************************************************************************)
CloseWriteEnds ==
  /\ at = "close"
  /\ at' = "idle"
  /\ holders' = [s \in Streams |-> holders[s] \ {"caller"}]
  /\ UNCHANGED <<processes, written, fields, ready, history>>

(***************************************************************************)
(* Child::read_ready.  Command::output calls it without a timeout until    *)
(* both streams are done.                                                  *)
(***************************************************************************)
Readable(s) == written[s] > got[s] \/ holders[s] = {}
Watched == {s \in Streams : ~done[s]}

\* Mutant: stderr is not looked at before stdout has come to its end.
PollOneByOne ==
  /\ at = "idle" /\ ~drained
  /\ ready' = {s \in Watched : Readable(s) /\ (s = "err" => done["out"])}
  /\ ready' # {}
  /\ at' = "take"
  /\ UNCHANGED <<processes, pipes, fields, history>>

\* poll reports every open stream with bytes or at its end.
Poll ==
  /\ at = "idle" /\ ~drained
  /\ ready' = {s \in Watched : Readable(s)}
  /\ ready' # {}
  /\ at' = "take"
  /\ UNCHANGED <<processes, pipes, fields, history>>

\* A poll that fails for good marks both streams as finished.  (One that is
\* interrupted or times out changes nothing.)
PollFails ==
  /\ PollMayFail
  /\ at = "idle" /\ ~drained
  /\ done' = [s \in Streams |-> TRUE]
  /\ failed' = TRUE
  /\ UNCHANGED <<processes, pipes, got, status, at, ready, answers, targets>>

\* The stream that take_ready is at: stdout before stderr.
Taking == IF "out" \in ready THEN "out" ELSE "err"
NextTake(left) == ready' = left /\ at' = IF left = {} THEN "idle" ELSE "take"
Smaller(m, n) == IF m < n THEN m ELSE n

\* Pipe::take_ready: a read that gives bytes is followed by another.
TakeBytes ==
  /\ at = "take"
  /\ written[Taking] > got[Taking]
  /\ got' = [got EXCEPT ![Taking] = @ + Smaller(Chunk, written[Taking] - got[Taking])]
  /\ UNCHANGED <<processes, pipes, done, status, at, ready, history>>

\* Mutant: a read that gives nothing is taken for the end of the file.
TakeNothingIsEnd ==
  /\ at = "take"
  /\ written[Taking] = got[Taking]
  /\ done' = [done EXCEPT ![Taking] = TRUE]
  /\ NextTake(ready \ {Taking})
  /\ UNCHANGED <<processes, pipes, got, status, history>>

\* 0 bytes is the end of the file; EAGAIN is not.
TakeNothing ==
  /\ at = "take"
  /\ written[Taking] = got[Taking]
  /\ done' = [done EXCEPT ![Taking] = holders[Taking] = {}]
  /\ NextTake(ready \ {Taking})
  /\ UNCHANGED <<processes, pipes, got, status, history>>

\* A read that fails for good.
TakeFails ==
  /\ PollMayFail
  /\ at = "take"
  /\ done' = [done EXCEPT ![Taking] = TRUE]
  /\ failed' = TRUE
  /\ NextTake(ready \ {Taking})
  /\ UNCHANGED <<processes, pipes, got, status, answers, targets>>

(***************************************************************************)
(* Child::collect, under try_wait and wait                                 *)
(***************************************************************************)
MayWait == at = "idle" /\ (caller = "output" => drained /\ status = None)

\* Mutant: the status is not kept, and a second waitpid fails with ECHILD.
ReapAgain ==
  /\ MayWait
  /\ child \in {"zombie", "reaped"}
  /\ child' = "reaped"
  /\ status' = IF child = "zombie" THEN code ELSE -1
  /\ answers' = answers \cup {status'}
  /\ UNCHANGED <<caller, grand, group, code, writing, pipes, got, done, at, ready, failed, targets>>

\* waitpid on a child that has exited.  (On one that runs, try_wait answers
\* None and wait blocks.)
Reap ==
  /\ MayWait
  /\ status = None
  /\ child = "zombie"
  /\ child' = "reaped"
  /\ status' = code
  /\ answers' = answers \cup {code}
  /\ UNCHANGED <<caller, grand, group, code, writing, pipes, got, done, at, ready, failed, targets>>

\* A later call answers from the field.
Recall ==
  /\ MayWait
  /\ status # None
  /\ answers' = answers \cup {status}
  /\ UNCHANGED <<processes, pipes, fields, at, ready, failed, targets>>

(***************************************************************************)
(* Child::signal: the group, then the child alone.  SIGTERM may be ignored *)
(***************************************************************************)
\* Mutant: the child is signalled and its group is not.
SignalChildOnly(sig) ==
  /\ caller = "any" /\ at = "idle"
  /\ at' = sig
  /\ targets' = IF sig = "KILL" THEN group ELSE {}
  /\ UNCHANGED <<processes, pipes, fields, ready, answers, failed>>

\* The processes that die of a signal sent to S.
DieOf(sig, S) == IF sig = "KILL" THEN {S} ELSE SUBSET S

SignalGroup(sig) ==
  /\ caller = "any" /\ at = "idle"
  /\ at' = sig
  /\ targets' = IF sig = "KILL" THEN group ELSE {}
  /\ \E dead \in DieOf(sig, group) : End(dead, ExitOf(sig))
  /\ UNCHANGED <<caller, written, fields, ready, answers, failed>>

SignalChild(sig) ==
  /\ at = sig
  /\ at' = "idle"
  /\ \E dead \in DieOf(sig, {"child"} \cap Running) : End(dead, ExitOf(sig))
  /\ UNCHANGED <<caller, written, fields, ready, history>>

\* into_output, or the drop of the Child: the read ends are closed.
into_output ==
  /\ at = "idle"
  /\ caller = "output" => status # None
  /\ at' = "gone"
  /\ UNCHANGED <<processes, pipes, fields, ready, history>>

-----------------------------------------------------------------------------
ProgramNext(p) ==
  \/ StartGrand /\ p = "child"
  \/ \E s \in Streams : BeginWrite(p, s) \/ Write(p, s) \/ CloseStream(p, s)
  \/ Exit(p)
  \/ (SetPgid \/ Exec) /\ p = "child"

CallerNext ==
  \/ CloseWriteEnds
  \/ Poll \/ TakeBytes \/ TakeNothing
  \/ Reap \/ Recall
  \/ \E sig \in {"TERM", "KILL"} : SignalGroup(sig) \/ SignalChild(sig)
  \/ into_output

Finished == at = "gone" /\ Running = {} /\ UNCHANGED vars

Next == CallerNext \/ PollFails \/ TakeFails \/ (\E p \in Programs : ProgramNext(p)) \/ Finished

Safety == Init /\ [][Next]_vars

\* The kernel runs the caller, and a program that is not blocked gets on with
\* what it does until it exits.  No poll or read has to fail.
Spec == Safety /\ WF_vars(CallerNext) /\ \A p \in Programs : WF_vars(ProgramNext(p))

-----------------------------------------------------------------------------
\* A stream is done only at its end, with everything that any process wrote to
\* it collected: so what output returns is complete, also when a program that
\* the child started outlives it and goes on writing.
DoneIsComplete == \A s \in Streams :
  done[s] /\ ~failed => holders[s] = {} /\ got[s] = written[s]

\* Child::collect: all the answers of try_wait and wait are the one code the
\* child exited with.
AnswersAreTheCode == answers \subseteq {code} /\ (answers # {} => child = "reaped")

\* Once kill has sent its signals, nothing that was in the child's group when
\* it was called is alive.
KillReachesTheGroup == at = "idle" => targets \cap Running = {}

\* Unless poll or read fails for good, output returns, however the program orders
\* its writes over the two streams: nobody is left with a full pipe that nobody
\* reads.
OutputReturns == (caller = "output") ~> (at = "gone" \/ failed)
=============================================================================
