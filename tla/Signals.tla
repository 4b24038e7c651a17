------------------------------- MODULE Signals -------------------------------
(***************************************************************************)
(* src/signal.rs: signals turned into bytes on a pipe.  One thread         *)
(* installs and then reads; the kernel delivers a raised signal between    *)
(* any two of its steps, to the handler `note` or to the default           *)
(* disposition, which ends the process.  A handler is two steps, the read  *)
(* of WRITE_END and the write(2), and handlers of different signals nest.  *)
(***************************************************************************)
EXTENDS Integers, Sequences

CONSTANTS Signal,     \* Signal::ALL
          PipeCap,    \* how many bytes the pipe holds
          BufLen,     \* how many bytes recv reads at most (64 in the code)
          MaxRaises   \* bound: signals raised

ASSUME SignalsAssumption == PipeCap \in Nat \ {0} /\ BufLen \in Nat \ {0} /\ MaxRaises \in Nat

VARIABLES stage,       \* where install is, and then whether it is "done"
          toInstall,   \* the signals whose sigaction is still to be made
          WRITE_END,   \* whether the static holds the write end
          disposition, \* of each signal
          pending,     \* signals raised and not delivered
          handler,     \* per signal: "idle", "read" or "write" in note
          saw,         \* whether that note read a descriptor from WRITE_END
          pipe,        \* the bytes in the pipe
          alive,       \* the process has not been ended by a signal
          raises,      \* signals raised so far
          noted        \* history: signals whose handler ran since recv last
                       \* answered with one

vars == <<stage, toInstall, WRITE_END, disposition, pending, handler, saw, pipe, alive, raises,
          noted>>
install_vars == <<stage, toInstall, WRITE_END, disposition>>
kernel_vars == <<pending, alive, raises>>
note_vars == <<handler, saw>>
read_vars == <<pipe, noted>>

Init ==
  /\ stage = "pipe"
  /\ toInstall = {}
  /\ WRITE_END = FALSE
  /\ disposition = [s \in Signal |-> "default"]
  /\ pending = {}
  /\ handler = [s \in Signal |-> "idle"]
  /\ saw = [s \in Signal |-> FALSE]
  /\ pipe = <<>>
  /\ alive = TRUE
  /\ raises = 0
  /\ noted = {}

(***************************************************************************)
(* Signals::install.  Every step may fail, and then the caller is told.    *)
(***************************************************************************)
Fail(from) ==
  /\ alive
  /\ stage = from
  /\ stage' = "err"
  /\ UNCHANGED <<toInstall, WRITE_END, disposition, kernel_vars, note_vars, read_vars>>

\* pipe and the two nonblocking calls
MakePipe ==
  /\ alive
  /\ stage = "pipe"
  /\ stage' = "publish"
  /\ UNCHANGED <<toInstall, WRITE_END, disposition, kernel_vars, note_vars, read_vars>>

\* Mutant: the handlers are installed and the static is written last.
PublishLate(signals) ==
  /\ alive
  /\ stage = "publish"
  /\ stage' = "sigaction"
  /\ toInstall' = signals
  /\ UNCHANGED <<WRITE_END, disposition, kernel_vars, note_vars, read_vars>>

Publish(signals) ==
  /\ alive
  /\ stage = "publish"
  /\ stage' = "sigaction"
  /\ WRITE_END' = TRUE
  /\ toInstall' = signals
  /\ UNCHANGED <<disposition, kernel_vars, note_vars, read_vars>>

\* Mutant: install returns after the first signal.
SigactionFirst ==
  /\ alive
  /\ stage = "sigaction"
  /\ \E s \in toInstall : disposition' = [disposition EXCEPT ![s] = "note"]
  /\ stage' = "done"
  /\ UNCHANGED <<toInstall, WRITE_END, kernel_vars, note_vars, read_vars>>

Sigaction ==
  /\ alive
  /\ stage = "sigaction"
  /\ \/ \E s \in toInstall :
          /\ disposition' = [disposition EXCEPT ![s] = "note"]
          /\ toInstall' = toInstall \ {s}
          /\ UNCHANGED stage
     \/ toInstall = {} /\ stage' = "done" /\ UNCHANGED <<toInstall, disposition>>
  /\ UNCHANGED <<WRITE_END, kernel_vars, note_vars, read_vars>>

(***************************************************************************)
(* The kernel: a signal raised while it is pending is merged with it.      *)
(***************************************************************************)
Raise(s) ==
  /\ alive
  /\ raises < MaxRaises
  /\ raises' = raises + 1
  /\ pending' = pending \cup {s}
  /\ UNCHANGED <<install_vars, note_vars, read_vars, alive>>

\* A signal is blocked while its own handler runs.
Deliver(s) ==
  /\ alive
  /\ s \in pending
  /\ handler[s] = "idle"
  /\ pending' = pending \ {s}
  /\ IF disposition[s] = "note"
       THEN handler' = [handler EXCEPT ![s] = "read"] /\ UNCHANGED alive
       ELSE alive' = FALSE /\ UNCHANGED handler
  /\ UNCHANGED <<install_vars, saw, read_vars, raises>>

(***************************************************************************)
(* note                                                                    *)
(***************************************************************************)
NoteReads(s) ==
  /\ alive
  /\ handler[s] = "read"
  /\ saw' = [saw EXCEPT ![s] = WRITE_END]
  /\ handler' = [handler EXCEPT ![s] = "write"]
  /\ UNCHANGED <<install_vars, kernel_vars, read_vars>>

\* A note that saw -1 returns without writing; a write that finds the pipe
\* full is dropped.
note(s) ==
  /\ alive
  /\ handler[s] = "write"
  /\ handler' = [handler EXCEPT ![s] = "idle"]
  /\ pipe' = IF saw[s] /\ Len(pipe) < PipeCap THEN Append(pipe, s) ELSE pipe
  /\ noted' = noted \cup {s}
  /\ UNCHANGED <<install_vars, kernel_vars, saw>>

(***************************************************************************)
(* Signals::recv: one read of at most BufLen bytes, of which the first     *)
(* that names a signal is the answer and the rest are dropped.             *)
(***************************************************************************)
recv ==
  /\ alive
  /\ stage = "done"
  /\ pipe # <<>>
  /\ pipe' = SubSeq(pipe, BufLen + 1, Len(pipe))
  /\ noted' = {}
  /\ UNCHANGED <<install_vars, kernel_vars, note_vars>>

InstallNext ==
  \/ MakePipe \/ Publish(Signal) \/ Sigaction
  \/ Fail("pipe") \/ Fail("sigaction")
HandlerNext(s) == Deliver(s) \/ NoteReads(s) \/ note(s)

Next ==
  \/ InstallNext
  \/ recv
  \/ \E s \in Signal : Raise(s) \/ HandlerNext(s)

\* The process runs, the kernel delivers, and the reader reads what its
\* poller reports.  Nobody has to raise a signal.
Spec ==
  /\ Init /\ [][Next]_vars
  /\ WF_vars(InstallNext) /\ WF_vars(recv)
  /\ \A s \in Signal : WF_vars(HandlerNext(s))

-----------------------------------------------------------------------------
\* "Losing a duplicate is not losing the signal": once a handler has run there
\* is a byte for the reader, until recv answers with some signal; also when the
\* write found the pipe full.
StopIsNotLost == noted # {} => pipe # <<>>

\* Once install has returned Ok no signal ends the process.
SignalsAreHandled == [][stage = "done" => alive']_vars

\* A signal that arrives once install has returned Ok is reported as a stop,
\* and does not end the process.
StopIsReported ==
  /\ SignalsAreHandled
  /\ (stage = "done" /\ noted # {}) ~> (noted = {})
=============================================================================
