-------------------------------- MODULE Once ---------------------------------
(***************************************************************************)
(* Once of src/thread.rs: pthread_once takes a routine with no argument,   *)
(* so call_once leaves its function in the static PENDING, one cell for    *)
(* every Once of the process, and the routine run_pending picks it up.     *)
(*                                                                         *)
(* PENDING is a plain `static mut` of one pointer; two threads that write  *)
(* it race, and a reader sees one of the pointers written.                 *)
(***************************************************************************)
EXTENDS Integers, Sequences

CONSTANTS Threads,
          Onces,      \* the Once values
          Fns,        \* the functions callers pass
          Passes,     \* the functions that callers pass to each Once
          Nobody,     \* PENDING is None
          MaxCalls    \* bound: calls of call_once by one thread

VARIABLES PENDING,
          control,    \* the pthread_once_t of each Once
          at,         \* where each thread is
          once, fn,   \* the arguments of its call
          local,      \* what run_pending read
          calls,      \* calls begun by each thread
          ran,        \* history: the functions each Once ran, in order
          returned    \* history: the Onces on which some call has returned

vars == <<PENDING, control, at, once, fn, local, calls, ran, returned>>
args == <<once, fn, calls>>

Init ==
  /\ PENDING = Nobody
  /\ control = [o \in Onces |-> "new"]
  /\ at = [t \in Threads |-> "out"]
  /\ once = [t \in Threads |-> CHOOSE o \in Onces : TRUE]
  /\ fn = [t \in Threads |-> Nobody]
  /\ local = [t \in Threads |-> Nobody]
  /\ calls = [t \in Threads |-> 0]
  /\ ran = [o \in Onces |-> <<>>]
  /\ returned = {}

Go(t, from, to) ==
  /\ at[t] = from
  /\ at' = [at EXCEPT ![t] = to]

call_once(t, o, f) ==
  /\ calls[t] < MaxCalls
  /\ Go(t, "out", "park")
  /\ once' = [once EXCEPT ![t] = o]
  /\ fn' = [fn EXCEPT ![t] = f]
  /\ calls' = [calls EXCEPT ![t] = @ + 1]
  /\ UNCHANGED <<PENDING, control, local, ran, returned>>

\* PENDING = Some(f)
Park(t) ==
  /\ Go(t, "park", "enter")
  /\ PENDING' = fn[t]
  /\ UNCHANGED <<control, args, local, ran, returned>>

(***************************************************************************)
(* pthread_once: the first thread runs the routine, the others wait for it *)
(* to return.                                                              *)
(***************************************************************************)
Enter(t) ==
  /\ control[once[t]] = "new"
  /\ Go(t, "enter", "run")
  /\ control' = [control EXCEPT ![once[t]] = "running"]
  /\ UNCHANGED <<PENDING, args, local, ran, returned>>

Pass(t) ==
  /\ control[once[t]] = "done"
  /\ Go(t, "enter", "out")
  /\ returned' = returned \cup {once[t]}
  /\ UNCHANGED <<PENDING, control, args, local, ran>>

Leave(t) ==
  /\ Go(t, "leave", "out")
  /\ control' = [control EXCEPT ![once[t]] = "done"]
  /\ returned' = returned \cup {once[t]}
  /\ UNCHANGED <<PENDING, args, local, ran>>

(***************************************************************************)
(* run_pending: read PENDING, then call what was read.                     *)
(***************************************************************************)
run_pending(t) ==
  /\ Go(t, "run", "call")
  /\ local' = [local EXCEPT ![t] = PENDING]
  /\ UNCHANGED <<PENDING, control, args, ran, returned>>

CallPending(t) ==
  /\ Go(t, "call", "leave")
  /\ ran' = IF local[t] = Nobody THEN ran ELSE [ran EXCEPT ![once[t]] = Append(@, local[t])]
  /\ UNCHANGED <<PENDING, control, args, local, returned>>

Step(t) ==
  \/ \E o \in Onces : \E f \in Passes[o] : call_once(t, o, f)
  \/ Park(t) \/ Enter(t) \/ Pass(t) \/ Leave(t) \/ run_pending(t) \/ CallPending(t)

Finished == (\A t \in Threads : at[t] = "out" /\ calls[t] = MaxCalls) /\ UNCHANGED vars

Next == (\E t \in Threads : Step(t)) \/ Finished

Spec == Init /\ [][Next]_vars

-----------------------------------------------------------------------------
\* Once::call_once: "Run `f` the first time this is called": what a Once runs
\* is a function that was passed to it.
RunsItsOwn == \A o \in Onces : \A i \in DOMAIN ran[o] : ran[o][i] \in Passes[o]
=============================================================================
