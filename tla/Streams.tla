------------------------------ MODULE Streams ------------------------------
(***************************************************************************)
(* Bytes on their way through a descriptor: the three write loops          *)
(* (Stream::write_all of src/socket.rs, File::write_all of src/file.rs,    *)
(* write_fd of src/print.rs), BufWriter on top of two of them, and the     *)
(* three readers (Lines of a socket, Stdin, File::read_to_end).  The       *)
(* kernel takes and gives as many bytes as it likes, interrupts, fails,    *)
(* and has no bytes for a descriptor that does not block.  A byte is its   *)
(* position in what the program writes.                                    *)
(***************************************************************************)
EXTENDS Integers, Sequences, SequencesExt, FiniteSetsExt

CONSTANTS LastByte,  \* bound: how many bytes the program writes
          Cap,       \* bound: what the kernel holds between the two ends
          Chunk,     \* bound: the 8 or 64 KiB a reader asks for
          Threshold, \* bound: the 64 KiB at which BufWriter flushes
          MaxFaults  \* bound: calls that fail, are interrupted or write nothing

ASSUME StreamAssumption ==
  {LastByte, Cap, Chunk, Threshold, MaxFaults} \subseteq Nat

VARIABLES newlines, \* the bytes that are newlines
          out,      \* the writing program and its buffers: see WriterInit
          sent,     \* the bytes the kernel took, in order
          taken,    \* how many of them it has given out again
          in,       \* the reading program and its buffers: see ReaderInit
          faults

streamVars == <<newlines, out, sent, taken, in, faults>>

Buffered == {"file in BufWriter", "print in BufWriter"}
Writers == {"socket", "file", "print"} \cup Buffered
Silent == {"print", "print in BufWriter"}  \* the loop that answers nothing
Readers == {"socket lines", "stdin", "read_to_end"}

\* next: the first byte the program has not handed over; left: what a write
\* loop still has to write; buf: BufWriter's; told: bytes of calls that were
\* answered with an error; untold: those whose error nobody was given, as of a
\* flush that is quiet: its answer is not looked at.
WriterInit(kind) ==
  [kind |-> kind, pc |-> "idle", next |-> 1, left |-> <<>>, buf |-> <<>>,
   told |-> {}, untold |-> {}, quiet |-> FALSE, unwrapped |-> FALSE, dropped |-> FALSE]

\* text: the bytes taken from the kernel and not yet returned; got: what the
\* calls returned; errs: how many answered with an error.
ReaderInit(kind) ==
  [kind |-> kind, pc |-> "idle", text |-> <<>>, got |-> <<>>, eof |-> FALSE, errs |-> 0]

\* Every text for every reader, and every writer for one text or two.
StreamInit ==
  /\ \/ /\ newlines \in SUBSET (1..LastByte)
        /\ out = WriterInit("socket")
        /\ in \in {ReaderInit(k) : k \in Readers}
     \/ /\ newlines \in SUBSET {2}
        /\ out \in {WriterInit(k) : k \in Writers}
        /\ in = ReaderInit("stdin")
  /\ sent = <<>>
  /\ taken = 0
  /\ faults = 0

Held == Len(sent) - taken
WriterOpen == out.pc # "closed"
ReaderOpen == in.pc # "done"
Fault == faults < MaxFaults /\ faults' = faults + 1

(***************************************************************************)
(* Writing                                                                 *)
(***************************************************************************)
WriterStep == UNCHANGED <<newlines, taken, in>>

\* A loop with nothing left returns; BufWriter's drop closes after it.
Returned(left) ==
  IF left # <<>> THEN "writing" ELSE IF out.dropped THEN "closed" ELSE "idle"

\* The program writes one or two bytes more: into the loop, or into the
\* buffer, which is flushed when it is long enough.
write_str ==
  /\ out.pc = "idle"
  /\ \E n \in {out.next + 1, out.next + 2} :
       LET text == out.buf \o [i \in 1..(n - out.next) |-> out.next + i - 1]
       IN  /\ n <= LastByte + 1
           /\ out' = IF out.kind \in Buffered /\ Len(text) < Threshold
                     THEN [out EXCEPT !.buf = text, !.next = n]
                     ELSE [out EXCEPT !.buf = <<>>, !.left = text, !.next = n, !.pc = "writing",
                                      !.quiet = FALSE]
  /\ WriterStep /\ UNCHANGED <<sent, faults>>

\* The buffer is emptied whether or not the write succeeds.
flush ==
  /\ out.pc = "idle"
  /\ out.buf # <<>>
  /\ out' = [out EXCEPT !.buf = <<>>, !.left = out.buf, !.pc = "writing"]
  /\ WriterStep /\ UNCHANGED <<sent, faults>>

Took(n) == sent' = sent \o SubSeq(out.left, 1, n)
Room == Min({Len(out.left), Cap - Held})

\* Mutant: what write took is not looked at.
write_once ==
  /\ out.pc = "writing"
  /\ ReaderOpen
  /\ \E n \in 1..Room : Took(n)
  /\ out' = [out EXCEPT !.left = <<>>, !.pc = Returned(<<>>)]
  /\ WriterStep /\ UNCHANGED faults

write_all ==
  /\ out.pc = "writing"
  /\ ReaderOpen
  /\ \E n \in 1..Room :
       LET rest == SubSeq(out.left, n + 1, Len(out.left))
       IN  /\ Took(n)
           /\ out' = [out EXCEPT !.left = rest, !.pc = Returned(rest)]
  /\ WriterStep /\ UNCHANGED faults

\* The loop gives up: with an error, which write_fd and a quiet flush keep.
GivesUp ==
  out' = IF out.kind \in Silent \/ out.quiet
         THEN [out EXCEPT !.untold = @ \cup Range(out.left), !.left = <<>>, !.pc = Returned(<<>>)]
         ELSE [out EXCEPT !.told = @ \cup Range(out.left), !.left = <<>>, !.pc = Returned(<<>>)]

\* Mutant: every error is retried as EINTR is.
RetryWrite ==
  /\ out.pc = "writing"
  /\ \/ ~ReaderOpen /\ UNCHANGED faults
     \/ ReaderOpen /\ Fault
  /\ UNCHANGED out
  /\ WriterStep /\ UNCHANGED sent

\* EPIPE once the reader is gone, or any other error but EINTR.
WriteFails ==
  /\ out.pc = "writing"
  /\ \/ ~ReaderOpen /\ UNCHANGED faults
     \/ ReaderOpen /\ Fault
  /\ GivesUp
  /\ WriterStep /\ UNCHANGED sent

WriteInterrupted ==
  /\ out.pc = "writing"
  /\ ReaderOpen
  /\ Fault
  /\ UNCHANGED out
  /\ WriterStep /\ UNCHANGED sent

\* write returns 0: an error to a socket, silence to write_fd, and another
\* turn of the loop to a file.
WritesNothing ==
  /\ out.pc = "writing"
  /\ ReaderOpen
  /\ Fault
  /\ IF out.kind \in {"file", "file in BufWriter"} THEN UNCHANGED out ELSE GivesUp
  /\ WriterStep /\ UNCHANGED sent

\* BufWriter gives its writer back, flushing first.
into_inner ==
  /\ out.pc = "idle"
  /\ out.kind \in Buffered
  /\ out' = [out EXCEPT !.kind = IF @ \in Silent THEN "print" ELSE "file",
                        !.quiet = TRUE, !.unwrapped = TRUE, !.buf = <<>>, !.left = out.buf,
                        !.pc = IF out.buf = <<>> THEN "idle" ELSE "writing"]
  /\ WriterStep /\ UNCHANGED <<sent, faults>>

\* The program lets go of its writer: BufWriter flushes first.
DropWriter ==
  /\ out.pc = "idle"
  /\ out' = [out EXCEPT !.dropped = TRUE, !.quiet = TRUE, !.buf = <<>>, !.left = out.buf,
                        !.pc = IF out.buf = <<>> THEN "closed" ELSE "writing"]
  /\ WriterStep /\ UNCHANGED <<sent, faults>>

(***************************************************************************)
(* Reading                                                                 *)
(***************************************************************************)
ReaderStep == UNCHANGED <<newlines, out, sent>>

\* The call returns the line in front of the first newline, or reads on.
Scan(text) ==
  LET i == SelectInSeq(text, LAMBDA b : b \in newlines)
  IN  IF in.kind # "read_to_end" /\ i > 0
      THEN in' = [in EXCEPT !.got = Append(@, SubSeq(text, 1, i - 1)),
                            !.text = SubSeq(text, i + 1, Len(text)), !.pc = "idle"]
      ELSE in' = [in EXCEPT !.text = text, !.pc = "reading"]

\* The program asks for the next line, or for all the rest.
next_line ==
  /\ in.pc = "idle"
  /\ ~in.eof
  /\ Scan(in.text)
  /\ ReaderStep /\ UNCHANGED <<taken, faults>>

\* Mutant: the bytes behind the newline are left in the chunk.
ReadAndForget ==
  /\ in.pc = "reading"
  /\ \E n \in 1..Min({Chunk, Held}) :
       /\ taken' = taken + n
       /\ LET text == in.text \o SubSeq(sent, taken + 1, taken + n)
              i == SelectInSeq(text, LAMBDA b : b \in newlines)
          IN  Scan(IF i > 0 THEN SubSeq(text, 1, i) ELSE text)
  /\ ReaderStep /\ UNCHANGED faults

read ==
  /\ in.pc = "reading"
  /\ \E n \in 1..Min({Chunk, Held}) :
       /\ taken' = taken + n
       /\ Scan(in.text \o SubSeq(sent, taken + 1, taken + n))
  /\ ReaderStep /\ UNCHANGED faults

\* read answers 0.  What was gathered is the last line, or all there is.
EndOfStream ==
  /\ in.pc = "reading"
  /\ Held = 0 /\ ~WriterOpen
  /\ in' = IF in.kind = "read_to_end" THEN [in EXCEPT !.got = <<in.text>>, !.pc = "done"]
           ELSE IF in.text = <<>> THEN [in EXCEPT !.pc = "done"]
           ELSE [in EXCEPT !.got = Append(@, in.text), !.text = <<>>,
                           !.pc = "idle", !.eof = (in.kind = "stdin")]
  /\ ReaderStep /\ UNCHANGED <<taken, faults>>

\* Stdin knows that its input ended and does not read again.
AfterEnd ==
  /\ in.pc = "idle"
  /\ in.eof
  /\ in' = [in EXCEPT !.pc = "done"]
  /\ ReaderStep /\ UNCHANGED <<taken, faults>>

\* An error, as when nothing is there and the descriptor does not block.  The
\* line of a socket is a local of next_line and goes with it; Stdin keeps its
\* buffer, and read_to_end the caller's vector.
ReadFails ==
  /\ in.pc = "reading"
  /\ Fault
  /\ in' = [in EXCEPT !.pc = "idle", !.errs = @ + 1,
                      !.text = IF in.kind = "socket lines" THEN <<>> ELSE @]
  /\ ReaderStep /\ UNCHANGED taken

ReadInterrupted ==
  /\ in.pc = "reading"
  /\ Fault
  /\ ReaderStep /\ UNCHANGED <<taken, in>>

DropReader ==
  /\ in.pc = "idle"
  /\ Fault
  /\ in' = [in EXCEPT !.pc = "done", !.errs = @ + 1]
  /\ ReaderStep /\ UNCHANGED taken

WriterProgress == write_all \/ WriteFails \/ DropWriter
ReaderProgress == next_line \/ read \/ EndOfStream \/ AfterEnd

StreamNext ==
  \/ write_str \/ flush \/ into_inner \/ WriterProgress \/ WriteInterrupted \/ WritesNothing
  \/ ReaderProgress \/ ReadFails \/ ReadInterrupted \/ DropReader

StreamSpec == StreamInit /\ [][StreamNext]_streamVars

-----------------------------------------------------------------------------
(***************************************************************************)
(* Properties                                                              *)
(***************************************************************************)

\* The reference: the lines of a text, a last one without a newline included.
LinesOf(text) ==
  LET parts == FoldLeft(LAMBDA ls, b : IF b \in newlines THEN Append(ls, <<>>)
                                       ELSE [ls EXCEPT ![Len(ls)] = Append(@, b)],
                        << <<>> >>, text)
  IN  IF Last(parts) = <<>> THEN Front(parts) ELSE parts

\* The lines a reader returned are the lines of the stream, each once, in
\* order and whole, however the bytes arrive; for Stdin also when reads fail
\* in between.  The Lines of a socket lose the front of a line whose read
\* failed, would-block included, and return the rest of it as a line.
LinesAreWhole ==
  LET given == SubSeq(sent, 1, taken)
      exact == in.kind = "stdin" \/ in.errs = 0
  IN  /\ in.kind = "read_to_end" => in.text = given
      /\ in.kind # "read_to_end" /\ exact => in.got \o LinesOf(in.text) = LinesOf(given)
      /\ in.kind # "read_to_end" /\ ~exact =>
           \A line \in Range(in.got) : \E whole \in Range(LinesOf(given)) : IsSuffix(line, whole)

\* Bytes go out in order and once, and none is missing behind the program's
\* back: each byte it handed over is with the kernel, in a buffer, or of a
\* call that was answered with an error.  Only print, also through the
\* standard streams, whose write_all and flush answer Ok whatever it did, and
\* into_inner and the drop of a BufWriter lose bytes nobody hears of.
NoSilentLoss ==
  LET kept == Range(sent) \cup Range(out.left) \cup Range(out.buf)
  IN  /\ \A i, j \in DOMAIN sent : i < j => sent[i] < sent[j]
      /\ (1..(out.next - 1)) \ kept \subseteq out.told \cup out.untold
      /\ out.untold # {} => out.kind \in Silent \/ out.unwrapped \/ out.dropped

\* Both programs come to their end: a writer whose reader is gone is told and
\* does not go round for ever, a reader sees the end of its stream.
EveryTransferEnds == <>(~WriterOpen /\ ~ReaderOpen)
=============================================================================
