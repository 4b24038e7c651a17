------------------------------- MODULE RwLock -------------------------------
(***************************************************************************)
(* RwLock of src/thread.rs: read and write do not look at what pthread     *)
(* answers, and hand out a guard whether or not the lock was taken.  As in *)
(* glibc, a thread that has the write lock is refused another; a thread    *)
(* that has a read lock and asks for the write lock waits for itself.      *)
(***************************************************************************)
EXTENDS Integers, FiniteSets

CONSTANTS LockThreads, \* the threads that share the lock
          GuardIds     \* bound: the guards one thread has at a time

VARIABLES writer,  \* the thread pthread has down as the writer, or Nobody
          readers, \* how many read locks pthread has counted
          guards,  \* the guards that threads have: see Guards
          refused  \* a lock was refused and a guard given all the same

rwVars == <<writer, readers, guards, refused>>

Nobody == "nobody"

ASSUME RwAssumption ==
  /\ Nobody \notin LockThreads
  /\ IsFiniteSet(LockThreads) /\ IsFiniteSet(GuardIds)

Kinds == {"read", "write"}
Guards == [by : LockThreads, id : GuardIds, kind : Kinds]
ReadGuards == {g \in guards : g.kind = "read"}

RwInit ==
  /\ writer = Nobody
  /\ readers = 0
  /\ guards = {}
  /\ refused = FALSE

Given(t, kind) ==
  \E i \in GuardIds :
    /\ \A g \in guards : g.by = t => g.id # i
    /\ guards' = guards \cup {[by |-> t, id |-> i, kind |-> kind]}

\* EDEADLK: the lock stays as it is.
Refused(t) ==
  /\ writer = t
  /\ refused' = TRUE
  /\ UNCHANGED <<writer, readers>>

read_lock(t) ==
  /\ Given(t, "read")
  /\ \/ /\ writer = Nobody
        /\ readers' = readers + 1
        /\ UNCHANGED <<writer, refused>>
     \/ Refused(t)

\* Mutant: the shared lock is taken.
write_shared(t) ==
  /\ Given(t, "write")
  /\ writer = Nobody
  /\ readers' = readers + 1
  /\ UNCHANGED <<writer, refused>>

write_lock(t) ==
  /\ Given(t, "write")
  /\ \/ /\ writer = Nobody /\ readers = 0
        /\ writer' = t
        /\ UNCHANGED <<readers, refused>>
     \/ Refused(t)

\* pthread_rwlock_unlock, from either guard's drop: a write lock if one is
\* taken, else a read lock.  Guards go in any order.  One unlock too many, of
\* a lock that is free, is undefined and ends what is modelled.
DropRwGuard(g) ==
  /\ guards' = guards \ {g}
  /\ IF writer # Nobody THEN writer' = Nobody /\ UNCHANGED readers
     ELSE readers > 0 /\ readers' = readers - 1 /\ UNCHANGED writer
  /\ UNCHANGED refused

RwNext ==
  \/ \E t \in LockThreads : read_lock(t) \/ write_lock(t)
  \/ \E g \in guards : DropRwGuard(g)

RwSpec == RwInit /\ [][RwNext]_rwVars

-----------------------------------------------------------------------------
(***************************************************************************)
(* Properties                                                              *)
(***************************************************************************)

\* A WriteGuard is the only guard there is, whatever the order guards are
\* taken and dropped in, and no unlock is one too many.  Left out: a thread
\* that asked again while it had the write lock.  It is refused, has two
\* guards over one lock, and the drop of either lets the others in.
WritersAreAlone ==
  ~refused =>
    /\ \A g \in guards : g.kind = "write" => guards = {g}
    /\ guards # {} => writer # Nobody \/ readers > 0
=============================================================================
