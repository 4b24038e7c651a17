------------------------------- MODULE Condvar -------------------------------
(***************************************************************************)
(* Mutex, Guard and Condvar of src/thread.rs, used by arbitrary threads.   *)
(* What is at stake is the waiter count: `notify_one` answers from it      *)
(* whether there was anyone to wake, because pthreads cannot say.          *)
(***************************************************************************)
EXTENDS Integers, FiniteSets

CONSTANTS Threads,
          Free       \* the mutex is nobody's

ASSUME CondvarAssumption == IsFiniteSet(Threads) /\ Free \notin Threads

VARIABLES owner,    \* the thread holding the Guard, or Free
          at,       \* where each thread is
          waiters,  \* Condvar::waiters
          seen      \* the count each thread last loaded in a notify

condvarVars == <<owner, at, waiters, seen>>

(***************************************************************************)
(* "out"      between operations, with or without the guard                *)
(* "locking"  in pthread_mutex_lock                                        *)
(* "counted"  in wait, counted, not yet in pthread_cond_wait               *)
(* "asleep"   blocked in pthread_cond_wait                                 *)
(* "woken"    unblocked, re-acquiring the mutex inside pthread_cond_wait   *)
(* "back"     pthread_cond_wait has returned, still counted                *)
(* "one"      in notify_one, the count loaded, nothing signalled yet       *)
(* "all"      in notify_all, likewise                                      *)
(***************************************************************************)
InWait == {"counted", "asleep", "woken", "back"}
Places == {"out", "locking", "one", "all"} \cup InWait

Asleep == {t \in Threads : at[t] = "asleep"}
Waiting == {t \in Threads : at[t] \in InWait}
Go(t, place) == at' = [at EXCEPT ![t] = place]

CondvarInit ==
  /\ owner = Free
  /\ at = [t \in Threads |-> "out"]
  /\ waiters = 0
  /\ seen = [t \in Threads |-> 0]

(***************************************************************************)
(* Mutex::lock, Mutex::try_lock and the drop of a Guard                    *)
(***************************************************************************)
lock(t) ==
  /\ at[t] = "out" /\ owner # t
  /\ Go(t, "locking")
  /\ UNCHANGED <<owner, waiters, seen>>

Locked(t) ==
  /\ at[t] = "locking" /\ owner = Free
  /\ owner' = t
  /\ Go(t, "out")
  /\ UNCHANGED <<waiters, seen>>

\* A try_lock of a mutex that is taken changes nothing.
try_lock(t) ==
  /\ at[t] = "out" /\ owner = Free
  /\ owner' = t
  /\ UNCHANGED <<at, waiters, seen>>

DropGuard(t) ==
  /\ at[t] = "out" /\ owner = t
  /\ owner' = Free
  /\ UNCHANGED <<at, waiters, seen>>

(***************************************************************************)
(* Condvar::wait                                                           *)
(***************************************************************************)
\* Mutant: a thread goes to sleep without being counted.
WaitUncounted(t) ==
  /\ at[t] = "out" /\ owner = t
  /\ Go(t, "counted")
  /\ UNCHANGED <<owner, waiters, seen>>

wait(t) ==
  /\ at[t] = "out" /\ owner = t
  /\ waiters' = waiters + 1
  /\ Go(t, "counted")
  /\ UNCHANGED <<owner, seen>>

\* pthread_cond_wait releases the mutex and blocks in one step.
Sleep(t) ==
  /\ at[t] = "counted"
  /\ owner' = Free
  /\ Go(t, "asleep")
  /\ UNCHANGED <<waiters, seen>>

SpuriousWake(t) ==
  /\ at[t] = "asleep"
  /\ Go(t, "woken")
  /\ UNCHANGED <<owner, waiters, seen>>

Reacquire(t) ==
  /\ at[t] = "woken" /\ owner = Free
  /\ owner' = t
  /\ Go(t, "back")
  /\ UNCHANGED <<waiters, seen>>

WaitReturns(t) ==
  /\ at[t] = "back"
  /\ waiters' = waiters - 1
  /\ Go(t, "out")
  /\ UNCHANGED <<owner, seen>>

(***************************************************************************)
(* Condvar::notify_one and notify_all: the count is loaded, then the       *)
(* sleepers are signalled.  A notifier may or may not hold the mutex.      *)
(***************************************************************************)
LoadCount(t, place) ==
  /\ at[t] = "out"
  /\ seen' = [seen EXCEPT ![t] = waiters]
  /\ Go(t, place)
  /\ UNCHANGED <<owner, waiters>>

Wake(t, woken) ==
  /\ at' = [u \in Threads |-> IF u = t THEN "out" ELSE IF u \in woken THEN "woken" ELSE at[u]]
  /\ UNCHANGED <<owner, waiters, seen>>

notify_one(t) ==
  /\ at[t] = "one"
  /\ \/ Asleep = {} /\ Wake(t, {})
     \/ \E u \in Asleep : Wake(t, {u})

notify_all(t) ==
  /\ at[t] = "all"
  /\ Wake(t, Asleep)

Step(t) ==
  \/ lock(t) \/ Locked(t) \/ try_lock(t) \/ DropGuard(t)
  \/ wait(t) \/ Sleep(t) \/ Reacquire(t) \/ WaitReturns(t)
  \/ LoadCount(t, "one") \/ LoadCount(t, "all") \/ notify_one(t) \/ notify_all(t)

CondvarNext == \E t \in Threads : Step(t) \/ SpuriousWake(t)

CondvarSpec == CondvarInit /\ [][CondvarNext]_condvarVars

-----------------------------------------------------------------------------
TypeOK ==
  /\ owner \in Threads \cup {Free}
  /\ at \in [Threads -> Places]
  /\ waiters \in Nat
  /\ seen \in [Threads -> Nat]

\* The count is the number of threads inside wait, so it returns to zero when
\* the last of them leaves and its fetch_sub never wraps.
CountIsWaiters == waiters = Cardinality(Waiting)

\* A notifier is between its load and its signal, and holds the mutex.
Notifying(t) == at[t] \in {"one", "all"} /\ owner = t

\* A notifier that holds the mutex never answers too little: every thread it
\* could wake is in the count it loaded, so a `false` from notify_one means
\* that nobody was asleep.
NeverUndercounts == \A t \in Threads : Notifying(t) => Cardinality(Asleep) <= seen[t]

\* What the callers of wait and notify rely on: the count is that of the
\* threads inside wait, and no notifier that holds the mutex is told too little.
CountIsTold == CountIsWaiters /\ NeverUndercounts
=============================================================================
