------------------------------ MODULE OnceLock -------------------------------
(***************************************************************************)
(* OnceLock and LazyLock of src/thread.rs: one atomic byte, EMPTY, BUSY or *)
(* READY, guards a cell that is written once and then shared.  A LazyLock  *)
(* is a OnceLock only reached through force, whose initialiser takes the   *)
(* closure out of a second, unguarded cell.                                *)
(*                                                                         *)
(* The write of the cell is not atomic: it is Torn while it lasts.         *)
(***************************************************************************)
EXTENDS Integers, FiniteSets

CONSTANTS Threads,
          MayUnwind,  \* whether an initialiser may unwind
          None,       \* the cell is Option::None
          Torn,       \* the cell is being written
          MaxCalls    \* bound: calls of one thread

ASSUME OnceLockAssumption ==
  /\ MayUnwind \in BOOLEAN
  /\ None # Torn
  /\ None \notin Threads \X Nat /\ Torn \notin Threads \X Nat
  /\ MaxCalls \in Nat

VARIABLES lazy,      \* whether the lock is inside a LazyLock
          state,     \* OnceLock::state
          cell,      \* OnceLock::value
          closure,   \* whether LazyLock::init still holds the closure
          at, op,    \* where each thread is, and in which call
          calls,     \* calls of each thread
          inits,     \* history: initialisers started
          unwound,   \* history: an initialiser has unwound
          answers    \* history: the values that calls have answered with

vars == <<lazy, state, cell, closure, at, op, calls, inits, unwound, answers>>

\* A LazyLock keeps its OnceLock to itself: it is only reached through force.
Ops == IF lazy THEN {"force"} ELSE {"get", "init", "set"}

Values == Threads \X Nat
Value(t) == <<t, calls[t]>>   \* what t's call stores, if it is the one to store

Init ==
  /\ lazy \in BOOLEAN
  /\ state = "EMPTY"
  /\ cell = None
  /\ closure = TRUE
  /\ at = [t \in Threads |-> "out"]
  /\ op = [t \in Threads |-> "none"]
  /\ calls = [t \in Threads |-> 0]
  /\ inits = 0
  /\ unwound = FALSE
  /\ answers = {}

Go(t, from, to) ==
  /\ at[t] = from
  /\ at' = [at EXCEPT ![t] = to]

Call(t, o) ==
  /\ calls[t] < MaxCalls
  /\ Go(t, "out", IF o = "get" THEN "load" ELSE "cas")
  /\ op' = [op EXCEPT ![t] = o]
  /\ calls' = [calls EXCEPT ![t] = @ + 1]
  /\ UNCHANGED <<lazy, state, cell, closure, inits, answers, unwound>>

(***************************************************************************)
(* get: load the state, then read the cell.  clone is a get followed by a  *)
(* set of a lock no other thread has seen yet.                             *)
(***************************************************************************)
Load(t) ==
  /\ Go(t, "load", IF state = "READY" THEN "read" ELSE "out")
  /\ UNCHANGED <<lazy, state, cell, closure, op, calls, inits, answers, unwound>>

Read(t) ==
  /\ Go(t, "read", "out")
  /\ answers' = answers \cup {cell}
  /\ UNCHANGED <<lazy, state, cell, closure, op, calls, inits, unwound>>

(***************************************************************************)
(* The compare_exchange of get_or_init and set.                            *)
(***************************************************************************)
\* Mutant: a load and a store where the code has a compare_exchange, so two
\* threads may both find the lock empty.
WinTwice(t) ==
  /\ state # "READY"
  /\ Go(t, "cas", IF op[t] = "set" THEN "write" ELSE "init")
  /\ state' = "BUSY"
  /\ UNCHANGED <<lazy, cell, closure, op, calls, inits, answers, unwound>>

Win(t) ==
  /\ state = "EMPTY"
  /\ Go(t, "cas", IF op[t] = "set" THEN "write" ELSE "init")
  /\ state' = "BUSY"
  /\ UNCHANGED <<lazy, cell, closure, op, calls, inits, answers, unwound>>

\* set answers Err; get_or_init goes on to get.
LoseToReady(t) ==
  /\ state = "READY"
  /\ Go(t, "cas", IF op[t] = "set" THEN "out" ELSE "load")
  /\ UNCHANGED <<lazy, state, cell, closure, op, calls, inits, answers, unwound>>

\* set answers Err; get_or_init yields and tries again.
LoseToBusy(t) ==
  /\ state = "BUSY"
  /\ Go(t, "cas", IF op[t] = "set" THEN "out" ELSE "cas")
  /\ UNCHANGED <<lazy, state, cell, closure, op, calls, inits, answers, unwound>>

(***************************************************************************)
(* The winner: run f, write the cell, publish.                             *)
(***************************************************************************)
RunInit(t) ==
  /\ Go(t, "init", "write")
  /\ inits' = inits + 1
  /\ closure' = IF op[t] = "force" THEN FALSE ELSE closure
  /\ UNCHANGED <<lazy, state, cell, op, calls, answers, unwound>>

\* f unwinds through get_or_init, which has nothing to undo the BUSY.
Unwind(t) ==
  /\ MayUnwind
  /\ Go(t, "init", "out")
  /\ inits' = inits + 1
  /\ closure' = IF op[t] = "force" THEN FALSE ELSE closure
  /\ unwound' = TRUE
  /\ UNCHANGED <<lazy, state, cell, op, calls, answers>>

BeginWrite(t) ==
  /\ Go(t, "write", "writing")
  /\ cell' = Torn
  /\ UNCHANGED <<lazy, state, closure, op, calls, inits, answers, unwound>>

EndWrite(t) ==
  /\ Go(t, "writing", "store")
  /\ cell' = Value(t)
  /\ UNCHANGED <<lazy, state, closure, op, calls, inits, answers, unwound>>

\* Mutant: the lock goes back to EMPTY.
PublishEmpty(t) ==
  /\ Go(t, "store", IF op[t] = "set" THEN "out" ELSE "load")
  /\ state' = "EMPTY"
  /\ answers' = IF op[t] = "set" THEN answers \cup {Value(t)} ELSE answers
  /\ UNCHANGED <<lazy, cell, closure, op, calls, inits, unwound>>

\* Mutant: the winner returns without storing READY.
PublishNothing(t) ==
  /\ Go(t, "store", IF op[t] = "set" THEN "out" ELSE "load")
  /\ answers' = IF op[t] = "set" THEN answers \cup {Value(t)} ELSE answers
  /\ UNCHANGED <<lazy, state, cell, closure, op, calls, inits, unwound>>

\* set answers Ok; get_or_init goes on to get.
Publish(t) ==
  /\ Go(t, "store", IF op[t] = "set" THEN "out" ELSE "load")
  /\ state' = "READY"
  /\ answers' = IF op[t] = "set" THEN answers \cup {Value(t)} ELSE answers
  /\ UNCHANGED <<lazy, cell, closure, op, calls, inits, unwound>>

Step(t) ==
  \/ \E o \in Ops : Call(t, o)
  \/ Load(t) \/ Read(t)
  \/ Win(t) \/ LoseToReady(t) \/ LoseToBusy(t)
  \/ RunInit(t) \/ Unwind(t) \/ BeginWrite(t) \/ EndWrite(t) \/ Publish(t)

Finished == (\A t \in Threads : at[t] = "out" /\ calls[t] = MaxCalls) /\ UNCHANGED vars

Next == (\E t \in Threads : Step(t)) \/ Finished

Safety == Init /\ [][Next]_vars
Spec == Safety /\ \A t \in Threads : WF_vars(Step(t))

-----------------------------------------------------------------------------
\* In particular no call answers with an empty or a half-written cell.
TypeOK ==
  /\ lazy \in BOOLEAN
  /\ state \in {"EMPTY", "BUSY", "READY"}
  /\ cell \in Values \cup {None, Torn}
  /\ closure \in BOOLEAN
  /\ at \in [Threads -> {"out", "load", "read", "cas", "init", "write", "writing", "store"}]
  /\ op \in [Threads -> Ops \cup {"none"}]
  /\ calls \in [Threads -> Nat]
  /\ inits \in Nat
  /\ unwound \in BOOLEAN
  /\ answers \subseteq Values

\* A thread in the part of get_or_init or set that only the winner of the
\* compare_exchange reaches.
Winner(t) == at[t] \in {"init", "write", "writing", "store"}

\* A reader that got past the Acquire load finds a whole value: it never reads
\* the cell while the winner writes it, and never finds it empty, which is what
\* the `expect` in get_or_init relies on.
ReadersSeeAWholeValue == \A t \in Threads : at[t] = "read" => cell \in Values

\* All the calls that answer with a value answer with the same one, for ever:
\* what get and get_or_init return is what the winning set or initialiser stored.
OneAnswer == \A v, w \in answers : v = w

\* f runs at most once, even under contention and even if it unwinds; so force
\* always finds the closure it takes, and its `expect` never fails.
InitRunsAtMostOnce ==
  /\ inits <= 1
  /\ \A t \in Threads : at[t] = "init" /\ op[t] = "force" => closure

\* Nothing writes after the state reaches READY.
ReadyIsForEver == [][state = "READY" => state' = "READY" /\ cell' = cell]_vars

\* Unless an initialiser unwinds, every call returns: the yield loop of a loser
\* ends because the winner gets to its store.
EveryCallReturns == \A t \in Threads : (at[t] # "out") ~> (at[t] = "out" \/ unwound)
=============================================================================
