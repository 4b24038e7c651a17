--------------------------- MODULE OnceLockProofs ----------------------------
(***************************************************************************)
(* Proofs about OnceLock, for any set of threads and any number of calls,  *)
(* whether or not initialisers unwind.                                     *)
(***************************************************************************)
EXTENDS OnceLock, TLAPS

\* The compare_exchange lets one thread through, and while that thread is at
\* work the state is BUSY.
OneWinner ==
  /\ \A t, u \in Threads : Winner(t) /\ Winner(u) => t = u
  /\ \A t \in Threads : Winner(t) => state = "BUSY"

\* The cell is whole from the winner's last write on, and it is what every
\* answer so far has been.
Published ==
  /\ \A t \in Threads : at[t] = "store" => cell = Value(t)
  /\ state = "READY" => cell \in Values /\ answers \subseteq {cell}
  /\ state # "READY" => answers = {}
  /\ \A t \in Threads : at[t] = "read" => state = "READY"

\* No initialiser has started while the state is EMPTY or its winner has yet to
\* call it, and the closure is there until one starts.
NotYetRun ==
  /\ inits <= 1
  /\ state = "EMPTY" => inits = 0
  /\ \A t \in Threads : at[t] = "init" => inits = 0
  /\ inits = 0 => closure

IInv == TypeOK /\ OneWinner /\ Published /\ NotYetRun

LEMMA InitIInv == Init => IInv
<1> SUFFICES ASSUME Init PROVE IInv
  OBVIOUS
<1>1. lazy \in BOOLEAN /\ closure \in BOOLEAN /\ unwound \in BOOLEAN
  BY DEF Init
<1>2. TypeOK
  BY <1>1 DEF Init, TypeOK
<1> QED
  BY <1>2 DEF Init, IInv, OneWinner, Winner, Published, NotYetRun

LEMMA NextIInv == IInv /\ [Next]_vars => IInv'
<1> SUFFICES ASSUME IInv, [Next]_vars PROVE IInv'
  OBVIOUS
<1> USE OnceLockAssumption DEF IInv, TypeOK, OneWinner, Winner, Published, NotYetRun, Go, Value, Values, Ops
<1>1. ASSUME NEW t \in Threads, NEW o \in Ops, Call(t, o) PROVE IInv'
  BY <1>1 DEF Call
<1>2. ASSUME NEW t \in Threads, Load(t) PROVE IInv'
  BY <1>2 DEF Load
<1>10. ASSUME NEW t \in Threads, Read(t) PROVE IInv'
  <2>1. state = "READY" /\ state' = state /\ cell' = cell /\ answers' \subseteq {cell'}
    BY <1>10 DEF Read
  <2>2. TypeOK'
    BY <1>10 DEF Read
  <2>3. OneWinner' /\ NotYetRun'
    BY <1>10 DEF Read
  <2>4. Published'
    BY <1>10, <2>1 DEF Read
  <2> QED
    BY <2>2, <2>3, <2>4
<1>3. ASSUME NEW t \in Threads, Win(t) PROVE IInv'
  BY <1>3 DEF Win
<1>4. ASSUME NEW t \in Threads, LoseToReady(t) \/ LoseToBusy(t) PROVE IInv'
  BY <1>4 DEF LoseToReady, LoseToBusy
<1>5. ASSUME NEW t \in Threads, Go(t, "init", "write") \/ Go(t, "init", "out"), inits' = inits + 1,
             closure' = (IF op[t] = "force" THEN FALSE ELSE closure),
             UNCHANGED <<lazy, state, cell, op, calls, answers>>, unwound' \in BOOLEAN
      PROVE  IInv'
  <2>1. inits = 0 /\ inits' = 1 /\ state = "BUSY" /\ state' = "BUSY"
    BY <1>5
  <2>2. closure' \in BOOLEAN
    BY <1>5
  <2>3. TypeOK'
    BY <1>5, <2>1, <2>2
  <2>4. OneWinner' /\ Published'
    BY <1>5, <2>1
  <2>5. \A u \in Threads : at'[u] # "init"
    BY <1>5
  <2>6. NotYetRun'
    BY <2>1, <2>5
  <2> QED
    BY <2>3, <2>4, <2>6
<1>11. ASSUME NEW t \in Threads, RunInit(t) \/ Unwind(t) PROVE IInv'
  <2>1. unwound' \in BOOLEAN
    BY <1>11 DEF RunInit, Unwind
  <2> HIDE DEF Go, IInv
  <2> QED
    BY <1>5, <1>11, <2>1 DEF RunInit, Unwind
<1>6. ASSUME NEW t \in Threads, BeginWrite(t) PROVE IInv'
  BY <1>6 DEF BeginWrite
<1>7. ASSUME NEW t \in Threads, EndWrite(t) PROVE IInv'
  BY <1>7 DEF EndWrite
<1>8. ASSUME NEW t \in Threads, Publish(t) PROVE IInv'
  BY <1>8 DEF Publish
<1>9. CASE UNCHANGED vars
  BY <1>9 DEF vars
<1> QED
  BY <1>1, <1>2, <1>3, <1>4, <1>6, <1>7, <1>8, <1>9, <1>10, <1>11 DEF Next, Step, Finished

\* For any threads, a reader past the load reads a whole value and every answer
\* is the same value.
THEOREM AnswersAgree == Safety => [](ReadersSeeAWholeValue /\ OneAnswer)
<1>1. IInv => ReadersSeeAWholeValue /\ OneAnswer
  BY DEF IInv, Published, ReadersSeeAWholeValue, OneAnswer
<1> QED
  BY InitIInv, NextIInv, <1>1, PTL DEF Safety

\* For any threads, the initialiser runs at most once and the closure is there
\* for the one that takes it, also when initialisers unwind.
THEOREM InitOnce == Safety => []InitRunsAtMostOnce
<1>1. IInv => InitRunsAtMostOnce
  BY DEF IInv, NotYetRun, InitRunsAtMostOnce
<1> QED
  BY InitIInv, NextIInv, <1>1, PTL DEF Safety

\* For any threads, no step changes the cell or the state of a READY lock.
THEOREM ReadyTheorem == Safety => ReadyIsForEver
<1>1. IInv /\ [Next]_vars => [state = "READY" => state' = "READY" /\ cell' = cell]_vars
  BY DEF IInv, OneWinner, Winner, Next, Step, Finished, vars, Go, Call, Load, Read, Win, LoseToReady,
         LoseToBusy, RunInit, Unwind, BeginWrite, EndWrite, Publish
<1> QED
  BY InitIInv, NextIInv, <1>1, PTL DEF Safety, ReadyIsForEver
=============================================================================
