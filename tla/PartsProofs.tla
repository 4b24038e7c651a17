----------------------------- MODULE PartsProofs -----------------------------
(***************************************************************************)
(* Proofs about the smaller parts: Condvar, RwLock, Sockets, Memory and    *)
(* Trees.  The parts share nothing, and neither do their proofs.           *)
(***************************************************************************)
EXTENDS Condvar, RwLock, Sockets, Memory, Trees, FiniteSetTheorems, SequenceTheorems,
        WellFoundedInduction, TLAPS

-----------------------------------------------------------------------------
(***************************************************************************)
(* Condvar: the count of waiters, src/thread.rs                            *)
(***************************************************************************)
\* A thread that has counted itself in, or is back from pthread_cond_wait,
\* holds the mutex: the count only changes under the lock.
CountedUnderLock == \A t \in Threads : at[t] \in {"counted", "back"} => owner = t

IInv == TypeOK /\ CountedUnderLock /\ CountIsWaiters /\ NeverUndercounts

LEMMA SubsetsAreCounted ==
  ASSUME NEW S, S \subseteq Threads
  PROVE  IsFiniteSet(S) /\ Cardinality(S) \in Nat
BY CondvarAssumption, FS_Subset, FS_CardinalityType

LEMMA SmallerIsFewer ==
  ASSUME NEW S, NEW T, S \subseteq T, T \subseteq Threads
  PROVE  Cardinality(S) <= Cardinality(T)
BY CondvarAssumption, FS_Subset

LEMMA InitIInv == CondvarInit => IInv
<1> SUFFICES ASSUME CondvarInit PROVE IInv
  OBVIOUS
<1>1. Waiting = {}
  BY DEF CondvarInit, Waiting, InWait
<1>2. CountIsWaiters
  BY <1>1, FS_EmptySet DEF CondvarInit, CountIsWaiters
<1> QED
  BY <1>2 DEF CondvarInit, IInv, TypeOK, CountedUnderLock, NeverUndercounts, Notifying, Places

\* A step that leaves the count and the loaded counts alone, wakes threads or
\* does nothing to them, and gives the mutex to no notifier.
LEMMA QuietStep ==
  ASSUME IInv, TypeOK', waiters' = waiters, seen' = seen, Waiting' = Waiting, Asleep' \subseteq Asleep,
         CountedUnderLock', \A t \in Threads : Notifying(t)' => Notifying(t)
  PROVE  IInv'
<1>1. CountIsWaiters'
  BY DEF IInv, CountIsWaiters
<1>2. Cardinality(Asleep') <= Cardinality(Asleep)
  BY SmallerIsFewer DEF Asleep
<1>3. Cardinality(Asleep) \in Nat /\ Cardinality(Asleep') \in Nat
  BY SubsetsAreCounted DEF Asleep
<1>4. NeverUndercounts'
  BY <1>2, <1>3 DEF IInv, NeverUndercounts, TypeOK
<1> QED
  BY <1>1, <1>4 DEF IInv

LEMMA NextIInv == IInv /\ [CondvarNext]_condvarVars => IInv'
<1> SUFFICES ASSUME IInv, [CondvarNext]_condvarVars PROVE IInv'
  OBVIOUS
<1> USE CondvarAssumption DEF TypeOK, CountedUnderLock, Places, InWait, Go
<1>i. TypeOK /\ CountedUnderLock /\ CountIsWaiters /\ NeverUndercounts
  BY DEF IInv
<1>1. ASSUME NEW t \in Threads, lock(t) \/ Locked(t) \/ try_lock(t) \/ DropGuard(t) PROVE IInv'
  <2>1. TypeOK' /\ waiters' = waiters /\ seen' = seen /\ CountedUnderLock'
    BY <1>i, <1>1 DEF lock, Locked, try_lock, DropGuard
  <2>2. Waiting' = Waiting /\ Asleep' = Asleep
    BY <1>i, <1>1 DEF lock, Locked, try_lock, DropGuard, Waiting, Asleep
  <2>3. \A u \in Threads : Notifying(u)' => Notifying(u)
    BY <1>i, <1>1 DEF lock, Locked, try_lock, DropGuard, Notifying
  <2> QED
    BY <2>1, <2>2, <2>3, QuietStep
<1>2. ASSUME NEW t \in Threads, wait(t) PROVE IInv'
  <2>1. Waiting' = Waiting \cup {t} /\ t \notin Waiting
    BY <1>i, <1>2 DEF wait, Waiting
  <2>2. Cardinality(Waiting') = Cardinality(Waiting) + 1
    BY <2>1, SubsetsAreCounted, FS_AddElement DEF Waiting
  <2>3. CountIsWaiters' /\ TypeOK' /\ CountedUnderLock'
    BY <1>i, <1>2, <2>2 DEF wait, CountIsWaiters
  <2>4. Asleep' = Asleep /\ seen' = seen /\ \A u \in Threads : Notifying(u)' => Notifying(u)
    BY <1>i, <1>2 DEF wait, Asleep, Notifying
  <2> QED
    BY <1>i, <2>3, <2>4 DEF IInv, NeverUndercounts
<1>3. ASSUME NEW t \in Threads, Sleep(t) PROVE IInv'
  <2>1. TypeOK' /\ CountedUnderLock' /\ seen' = seen
    BY <1>i, <1>3 DEF Sleep
  <2>2. Waiting' = Waiting /\ waiters' = waiters
    BY <1>i, <1>3 DEF Sleep, Waiting
  <2>3. \A u \in Threads : ~Notifying(u)'
    BY <1>i, <1>3 DEF Sleep, Notifying
  <2> QED
    BY <1>i, <2>1, <2>2, <2>3 DEF IInv, CountIsWaiters, NeverUndercounts
<1>4. ASSUME NEW t \in Threads, Reacquire(t) \/ SpuriousWake(t) PROVE IInv'
  <2>1. TypeOK' /\ waiters' = waiters /\ seen' = seen /\ CountedUnderLock'
    BY <1>i, <1>4 DEF Reacquire, SpuriousWake
  <2>2. Waiting' = Waiting /\ Asleep' \subseteq Asleep
    BY <1>i, <1>4 DEF Reacquire, SpuriousWake, Waiting, Asleep
  <2>3. \A u \in Threads : Notifying(u)' => Notifying(u)
    BY <1>i, <1>4 DEF Reacquire, SpuriousWake, Notifying
  <2> QED
    BY <2>1, <2>2, <2>3, QuietStep
<1>5. ASSUME NEW t \in Threads, WaitReturns(t) PROVE IInv'
  <2>1. Waiting' = Waiting \ {t} /\ t \in Waiting
    BY <1>i, <1>5 DEF WaitReturns, Waiting
  <2>2. Cardinality(Waiting') = Cardinality(Waiting) - 1 /\ Cardinality(Waiting') \in Nat
    BY <2>1, SubsetsAreCounted, FS_RemoveElement DEF Waiting
  <2>3. waiters' \in Nat /\ CountIsWaiters'
    BY <1>i, <1>5, <2>2 DEF WaitReturns, CountIsWaiters
  <2>4. TypeOK' /\ CountedUnderLock'
    BY <1>i, <1>5, <2>3 DEF WaitReturns
  <2>5. Asleep' = Asleep /\ seen' = seen /\ \A u \in Threads : Notifying(u)' => Notifying(u)
    BY <1>i, <1>5 DEF WaitReturns, Asleep, Notifying
  <2> QED
    BY <1>i, <2>3, <2>4, <2>5 DEF IInv, NeverUndercounts
<1>6. ASSUME NEW t \in Threads, LoadCount(t, "one") \/ LoadCount(t, "all") PROVE IInv'
  <2>1. Asleep' = Asleep /\ Waiting' = Waiting /\ Asleep \subseteq Waiting
    BY <1>i, <1>6 DEF LoadCount, Asleep, Waiting
  <2>2. Cardinality(Asleep) <= waiters
    BY <1>i, <2>1, SmallerIsFewer DEF Waiting, CountIsWaiters
  <2>3. TypeOK' /\ CountedUnderLock' /\ CountIsWaiters'
    BY <1>i, <1>6, <2>1 DEF LoadCount, CountIsWaiters
  <2>4. \A u \in Threads : u # t => (Notifying(u)' => Notifying(u)) /\ seen'[u] = seen[u]
    BY <1>i, <1>6 DEF LoadCount, Notifying
  <2>5. seen'[t] = waiters
    BY <1>i, <1>6 DEF LoadCount
  <2> QED
    BY <1>i, <2>1, <2>2, <2>3, <2>4, <2>5 DEF IInv, NeverUndercounts
<1>7. ASSUME NEW t \in Threads, NEW W \in SUBSET Asleep, at[t] \in {"one", "all"}, Wake(t, W)
      PROVE IInv'
  <2>1. TypeOK' /\ waiters' = waiters /\ seen' = seen /\ CountedUnderLock'
    BY <1>i, <1>7 DEF Wake, Asleep
  <2>2. Waiting' = Waiting /\ Asleep' \subseteq Asleep
    BY <1>i, <1>7 DEF Wake, Waiting, Asleep
  <2>3. \A u \in Threads : Notifying(u)' => Notifying(u)
    BY <1>i, <1>7 DEF Wake, Notifying
  <2> QED
    BY <2>1, <2>2, <2>3, QuietStep
<1>8. CASE UNCHANGED condvarVars
  BY <1>i, <1>8 DEF condvarVars, IInv, CountIsWaiters, NeverUndercounts, Notifying, Waiting, Asleep
<1>9. ASSUME NEW t \in Threads, notify_one(t) \/ notify_all(t) PROVE IInv'
  <2>1. \E W \in SUBSET Asleep : Wake(t, W)
    BY <1>9 DEF notify_one, notify_all
  <2> QED
    BY <1>7, <1>9, <2>1 DEF notify_one, notify_all
<1> QED
  BY <1>1, <1>2, <1>3, <1>4, <1>5, <1>6, <1>8, <1>9 DEF CondvarNext, Step

\* For any number of threads, the count Condvar keeps is the number of threads
\* inside wait.
THEOREM CountTheorem == CondvarSpec => []CountIsWaiters
<1>1. IInv => CountIsWaiters
  BY DEF IInv
<1> QED
  BY InitIInv, NextIInv, <1>1, PTL DEF CondvarSpec

\* For any number of threads, a notifier that holds the mutex is never told
\* that there are fewer sleepers than there are.
THEOREM NotifyTheorem == CondvarSpec => []NeverUndercounts
<1>1. IInv => NeverUndercounts
  BY DEF IInv
<1> QED
  BY InitIInv, NextIInv, <1>1, PTL DEF CondvarSpec

\* Both together, for any finite set of threads: what wait, notify_one and
\* notify_all answer from is never less than the threads asleep.
THEOREM ToldTheorem == CondvarSpec => []CountIsTold
<1>1. CountIsWaiters /\ NeverUndercounts => CountIsTold
  BY DEF CountIsTold
<1> QED
  BY CountTheorem, NotifyTheorem, <1>1, PTL

-----------------------------------------------------------------------------
(***************************************************************************)
(* RwLock: a writer is alone, src/thread.rs                                *)
(***************************************************************************)
\* What pthread has down is what the guards say: a writer is the owner of the
\* one guard there is, and without a writer there are readers only, as many as
\* were counted.
Agree ==
  IF writer = Nobody
  THEN guards = ReadGuards /\ readers = Cardinality(guards)
  ELSE readers = 0 /\ \E i \in GuardIds : guards = {[by |-> writer, id |-> i, kind |-> "write"]}

RwInv ==
  /\ guards \in SUBSET Guards /\ IsFiniteSet(guards)
  /\ refused \in BOOLEAN
  /\ writer \in LockThreads \cup {Nobody}
  /\ ~refused => Agree

\* The guards are a finite set, since threads and their guards are.
LEMMA GuardsAreFinite ==
  ASSUME NEW S, IsFiniteSet(S), NEW g
  PROVE  /\ IsFiniteSet(S \cup {g}) /\ IsFiniteSet(S \ {g})
         /\ Cardinality(S) \in Nat
         /\ g \notin S => Cardinality(S \cup {g}) = Cardinality(S) + 1
         /\ g \in S => Cardinality(S \ {g}) = Cardinality(S) - 1
  BY FS_AddElement, FS_RemoveElement, FS_CardinalityType

\* The lock is made without guards.
LEMMA RwInitInv == RwInit => RwInv
  BY RwAssumption, FS_EmptySet DEF RwInit, RwInv, Agree, ReadGuards

\* A guard that is given is new.
LEMMA GivenIsNew ==
  ASSUME NEW t \in LockThreads, NEW kind \in Kinds, Given(t, kind), guards \in SUBSET Guards
  PROVE  \E i \in GuardIds :
           LET g == [by |-> t, id |-> i, kind |-> kind]
           IN  g \notin guards /\ guards' = guards \cup {g} /\ g \in Guards
  BY DEF Given, Guards

\* No step of a lock that refused nobody makes pthread and the guards disagree.
LEMMA RwNextInv == RwInv /\ [RwNext]_rwVars => RwInv'
<1> SUFFICES ASSUME RwInv, [RwNext]_rwVars PROVE RwInv'
  OBVIOUS
<1> USE RwAssumption
<1>1. CASE UNCHANGED rwVars
  BY <1>1 DEF rwVars, RwInv, Agree, ReadGuards
<1>2. ASSUME NEW t \in LockThreads, read_lock(t) PROVE RwInv'
  <2>1. PICK i \in GuardIds :
          LET g == [by |-> t, id |-> i, kind |-> "read"]
          IN  g \notin guards /\ guards' = guards \cup {g} /\ g \in Guards
    BY <1>2, GivenIsNew DEF read_lock, RwInv, Kinds
  <2> DEFINE g == [by |-> t, id |-> i, kind |-> "read"]
  <2>2. g \notin guards /\ guards' = guards \cup {g} /\ g \in Guards /\ g.kind = "read"
    BY <2>1
  <2> HIDE DEF g
  <2>3. IsFiniteSet(guards') /\ guards' \in SUBSET Guards
    BY <2>2, GuardsAreFinite DEF RwInv
  <2>4. CASE writer = Nobody /\ readers' = readers + 1 /\ UNCHANGED <<writer, refused>>
    <3>1. Cardinality(guards') = Cardinality(guards) + 1
      BY <2>2, GuardsAreFinite DEF RwInv
    <3>2. ~refused => guards' = ReadGuards'
      BY <2>2, <2>4 DEF RwInv, Agree, ReadGuards
    <3> QED
      BY <2>3, <2>4, <3>1, <3>2 DEF RwInv, Agree
  <2>5. CASE Refused(t)
    BY <2>3, <2>5 DEF Refused, RwInv
  <2> QED
    BY <1>2, <2>4, <2>5 DEF read_lock
<1>3. ASSUME NEW t \in LockThreads, write_lock(t) PROVE RwInv'
  <2>1. PICK i \in GuardIds :
          LET g == [by |-> t, id |-> i, kind |-> "write"]
          IN  g \notin guards /\ guards' = guards \cup {g} /\ g \in Guards
    BY <1>3, GivenIsNew DEF write_lock, RwInv, Kinds
  <2> DEFINE g == [by |-> t, id |-> i, kind |-> "write"]
  <2>2. guards' = guards \cup {g} /\ g \in Guards
    BY <2>1
  <2>3. IsFiniteSet(guards') /\ guards' \in SUBSET Guards
    <3> HIDE DEF g
    <3> QED
      BY <2>2, GuardsAreFinite DEF RwInv
  <2>4. CASE writer = Nobody /\ readers = 0 /\ writer' = t /\ UNCHANGED <<readers, refused>>
    <3>1. ~refused => guards = {}
      BY <2>4, FS_EmptySet DEF RwInv, Agree
    <3>2. ~refused => guards' = {g}
      BY <2>2, <3>1
    <3> QED
      BY <2>3, <2>4, <3>2 DEF RwInv, Agree
  <2>5. CASE Refused(t)
    BY <2>3, <2>5 DEF Refused, RwInv
  <2> QED
    BY <1>3, <2>4, <2>5 DEF write_lock
<1>4. ASSUME NEW g \in guards, DropRwGuard(g) PROVE RwInv'
  <2>1. /\ guards' = guards \ {g} /\ IsFiniteSet(guards')
        /\ Cardinality(guards') = Cardinality(guards) - 1
    BY <1>4, GuardsAreFinite DEF DropRwGuard, RwInv
  <2>2. CASE writer # Nobody
    <3>1. ~refused => guards' = {}
      BY <2>1, <2>2 DEF RwInv, Agree
    <3> QED
      BY <1>4, <2>1, <2>2, <3>1, FS_EmptySet DEF DropRwGuard, RwInv, Agree, ReadGuards
  <2>3. CASE writer = Nobody
    <3>1. ~refused => guards' = ReadGuards'
      BY <2>1, <2>3 DEF RwInv, Agree, ReadGuards
    <3> QED
      BY <1>4, <2>1, <2>3, <3>1 DEF DropRwGuard, RwInv, Agree
  <2> QED
    BY <2>2, <2>3
<1> QED
  BY <1>1, <1>2, <1>3, <1>4 DEF RwNext

\* What pthread and the guards agree on makes a writer alone.
LEMMA AgreeingWritersAreAlone == RwInv => WritersAreAlone
<1> SUFFICES ASSUME RwInv, ~refused PROVE WritersAreAlone
  BY DEF WritersAreAlone
<1> USE RwAssumption
<1>1. CASE writer = Nobody
  <2>1. guards # {} => readers > 0
    <3> SUFFICES ASSUME NEW g \in guards PROVE readers > 0
      OBVIOUS
    <3>1. Cardinality(guards \ {g}) \in Nat /\ Cardinality(guards \ {g}) = Cardinality(guards) - 1
      BY GuardsAreFinite DEF RwInv
    <3>2. Cardinality(guards) \in Nat
      BY FS_CardinalityType DEF RwInv
    <3> QED
      BY <1>1, <3>1, <3>2 DEF RwInv, Agree
  <2> QED
    BY <1>1, <2>1 DEF RwInv, Agree, ReadGuards, WritersAreAlone
<1>2. CASE writer # Nobody
  BY <1>2 DEF RwInv, Agree, WritersAreAlone
<1> QED
  BY <1>1, <1>2

\* A WriteGuard is the only guard and no unlock is one too many, for any
\* threads and any number of guards, as long as read and write were refused to
\* nobody.
THEOREM WriterTheorem == RwSpec => []WritersAreAlone
<1>1. RwSpec => []RwInv
  BY RwInitInv, RwNextInv, PTL DEF RwSpec
<1> QED
  BY <1>1, AgreeingWritersAreAlone, PTL

-----------------------------------------------------------------------------
(***************************************************************************)
(* Sockets: every descriptor has one owner, src/socket.rs                  *)
(***************************************************************************)
Files ==
  [kind : {"closed", "socket", "listener", "unnamed", "connection"},
   path : Seq(PathBytes), queued : BOOLEAN]
Owned ==
  [is : {"binding", "connecting", "Listener", "Stream"}, fd : SocketFds, path : Seq(PathBytes)]

\* A Listener has the whole of its path, so its name tells which it is.
ListenersFit == \A f \in SocketFds : table[f].kind = "listener" => address(table[f].path)

ClosedIsUnused == \A f \in SocketFds : table[f].kind = "closed" => table[f] = Unused

\* What a caller has is the kind of file its value says.
KindsMatch ==
  \A c \in Callers :
    /\ call[c].is \in {"binding", "connecting"} => table[call[c].fd].kind = "socket"
    /\ call[c].is = "Stream" => table[call[c].fd].kind = "connection"

SocketInv ==
  /\ table \in [SocketFds -> Files]
  /\ call \in [Callers -> Owned \cup {Nothing}]
  /\ FdsAreOwned
  /\ ListenersFit /\ ClosedIsUnused /\ KindsMatch

\* Nobody has anything at first.
LEMMA SocketInitInv == SocketInit => SocketInv
  BY SocketAssumption DEF SocketInit, SocketInv, Files, Unused, FdsAreOwned, ListenersFit, ClosedIsUnused, KindsMatch, Connected, Nothing

\* rest is the table but for what waits at its listeners.
Alike(rest) ==
  /\ rest \in [SocketFds -> Files]
  /\ \A g \in SocketFds : /\ rest[g].kind = table[g].kind
                          /\ rest[g].path = table[g].path
                          /\ rest[g] = Unused <=> table[g] = Unused

\* The caller that has nothing takes v, whose free descriptor now names e.
Takes(c, v, e, rest) ==
  /\ c \in Callers /\ call[c] = Nothing
  /\ v \in Owned /\ e \in Files /\ table[v.fd] = Unused
  /\ \/ v.is \in {"binding", "connecting"} /\ e.kind = "socket"
     \/ v.is = "Stream" /\ e.kind = "connection" /\ e.path = v.path
  /\ Alike(rest) /\ table' = [rest EXCEPT ![v.fd] = e]
  /\ call' = [call EXCEPT ![c] = v]

\* The caller in bind or connect goes on with v, which has its descriptor.
GoesOn(c, v, e, rest) ==
  /\ c \in Callers /\ call[c] # Nothing /\ ~Connected(c)
  /\ v \in Owned /\ e \in Files /\ v.fd = call[c].fd /\ e.path = v.path
  /\ \/ v.is = "Listener" /\ e.kind = "listener" /\ address(e.path)
     \/ v.is = "Stream" /\ e.kind = "connection"
  /\ Alike(rest) /\ table' = [rest EXCEPT ![v.fd] = e]
  /\ call' = [call EXCEPT ![c] = v]

\* A caller that has nothing may take a free descriptor.
LEMMA TakesAFreeFd ==
  ASSUME SocketInv, NEW c, NEW v, NEW e, NEW rest, Takes(c, v, e, rest)
  PROVE  SocketInv'
<1> DEFINE f == v.fd
<1> USE DEF Takes, Alike
<1>0. f \in SocketFds
  BY DEF Owned
<1>1. table' \in [SocketFds -> Files] /\ call' \in [Callers -> Owned \cup {Nothing}]
  BY DEF SocketInv
<1>2. \A d \in Callers : call[d] # Nothing => call[d] \in Owned /\ call[d].fd # f /\ call[d].fd \in SocketFds
  BY DEF Owned, SocketInv, FdsAreOwned
<1>3. /\ v # Nothing /\ e # Unused
      /\ Nothing.fd \notin SocketFds /\ Nothing.is = "nothing"
  BY DEF Owned, Nothing, SocketFds, Unused
<1>4. \A d \in Callers : call'[d] = IF d = c THEN v ELSE call[d]
  BY DEF SocketInv
<1>5. \A g \in SocketFds : table'[g] = IF g = f THEN e ELSE rest[g]
  BY <1>0
<1>6. \A g \in SocketFds : table'[g] # Unused => \E d \in Callers : call'[d].fd = g
  BY <1>3, <1>4, <1>5 DEF SocketInv, FdsAreOwned
<1>7. \A d \in Callers : call'[d] # Nothing => table'[call'[d].fd] # Unused
  <2> SUFFICES ASSUME NEW d \in Callers, call'[d] # Nothing PROVE table'[call'[d].fd] # Unused
    OBVIOUS
  <2>1. CASE d = c
    BY <2>1, <1>0, <1>3, <1>4, <1>5
  <2>2. CASE d # c
    <3>1. call[d] # Nothing => table[call[d].fd] # Unused
      BY DEF SocketInv, FdsAreOwned
    <3> QED
      BY <2>2, <3>1, <1>2, <1>4, <1>5
  <2> QED
    BY <2>1, <2>2
<1>8. \A d, o \in Callers : d # o /\ call'[d] # Nothing => call'[d].fd # call'[o].fd
  BY <1>0, <1>2, <1>3, <1>4 DEF SocketInv, FdsAreOwned
<1>9. \A d \in Callers : call'[d].is \in {"Stream", "Listener"} => table'[call'[d].fd].path = call'[d].path
  BY <1>2, <1>3, <1>4, <1>5 DEF SocketInv, FdsAreOwned, Connected, Owned
<1>10. ListenersFit' /\ ClosedIsUnused'
  BY <1>0, <1>5 DEF SocketInv, ListenersFit, ClosedIsUnused
<1>11. KindsMatch'
  BY <1>0, <1>2, <1>3, <1>4, <1>5 DEF SocketInv, KindsMatch, Owned
<1> QED
  BY <1>1, <1>6, <1>7, <1>8, <1>9, <1>10, <1>11 DEF SocketInv, FdsAreOwned, Connected

\* A caller may go on with the descriptor it has.
LEMMA KeepsItsFd ==
  ASSUME SocketInv, NEW c, NEW v, NEW e, NEW rest, GoesOn(c, v, e, rest)
  PROVE  SocketInv'
<1> USE DEF GoesOn, Alike
<1> DEFINE f == call[c].fd
<1>1. f \in SocketFds /\ table' \in [SocketFds -> Files] /\ call' \in [Callers -> Owned \cup {Nothing}]
  BY DEF SocketInv, Owned
<1>2. \A d \in Callers : call[d] # Nothing /\ d # c => call[d] \in Owned /\ call[d].fd # f /\ call[d].fd \in SocketFds
  BY DEF Owned, SocketInv, FdsAreOwned
<1>3. /\ v # Nothing /\ e # Unused
      /\ Nothing.fd \notin SocketFds /\ Nothing.is = "nothing"
  BY DEF Owned, Nothing, SocketFds, Unused
<1>4. \A d \in Callers : call'[d] = IF d = c THEN v ELSE call[d]
  BY DEF SocketInv
<1>5. \A g \in SocketFds : table'[g] = IF g = f THEN e ELSE rest[g]
  BY <1>1
<1>6. \A g \in SocketFds : table'[g] # Unused => \E d \in Callers : call'[d].fd = g
  BY <1>4, <1>5 DEF SocketInv, FdsAreOwned
<1>7. \A d \in Callers : call'[d] # Nothing => table'[call'[d].fd] # Unused
  BY <1>1, <1>2, <1>3, <1>4, <1>5 DEF SocketInv, FdsAreOwned
<1>8. \A d, o \in Callers : d # o /\ call'[d] # Nothing => call'[d].fd # call'[o].fd
  BY <1>1, <1>2, <1>3, <1>4 DEF SocketInv, FdsAreOwned
<1>9. \A d \in Callers : call'[d].is \in {"Stream", "Listener"} => table'[call'[d].fd].path = call'[d].path
  BY <1>1, <1>2, <1>3, <1>4, <1>5 DEF SocketInv, FdsAreOwned, Connected, Owned
<1>10. ListenersFit' /\ ClosedIsUnused'
  BY <1>1, <1>5 DEF SocketInv, ListenersFit, ClosedIsUnused
<1>11. KindsMatch'
  BY <1>1, <1>2, <1>3, <1>4, <1>5 DEF SocketInv, KindsMatch, Owned
<1> QED
  BY <1>1, <1>6, <1>7, <1>8, <1>9, <1>10, <1>11 DEF SocketInv, FdsAreOwned, Connected

\* A caller may let go of the descriptor it has.
LEMMA DropKeeps ==
  ASSUME SocketInv, NEW c \in Callers, call[c] # Nothing, DropFd(c)
  PROVE  SocketInv'
<1> DEFINE f == call[c].fd
<1>1. f \in SocketFds /\ Unused \in Files
  BY SocketAssumption DEF SocketInv, Owned, Files, Unused
<1>2. \A d \in Callers : call[d] # Nothing /\ d # c => call[d] \in Owned /\ call[d].fd # f
  BY DEF SocketInv, FdsAreOwned
<1>3. Nothing.fd \notin SocketFds /\ Nothing.is = "nothing" /\ Unused.kind = "closed"
  BY DEF Nothing, SocketFds, Unused
<1>4. \A d \in Callers : call'[d] = IF d = c THEN Nothing ELSE call[d]
  BY DEF SocketInv, DropFd
<1>5. \A g \in SocketFds : table'[g] = IF g = f THEN Unused ELSE table[g]
  BY <1>1 DEF SocketInv, DropFd
<1>6. table' \in [SocketFds -> Files] /\ call' \in [Callers -> Owned \cup {Nothing}]
  BY <1>1 DEF SocketInv, DropFd
<1>7. \A g \in SocketFds : table'[g] # Unused => \E d \in Callers : call'[d].fd = g
  BY <1>4, <1>5 DEF SocketInv, FdsAreOwned
<1>8. \A d \in Callers : call'[d] # Nothing => table'[call'[d].fd] # Unused
  BY <1>2, <1>4, <1>5 DEF SocketInv, FdsAreOwned, Owned
<1>9. \A d, o \in Callers : d # o /\ call'[d] # Nothing => call'[d].fd # call'[o].fd
  BY <1>2, <1>3, <1>4 DEF SocketInv, FdsAreOwned, Owned
<1>10. \A d \in Callers : call'[d].is \in {"Stream", "Listener"} => table'[call'[d].fd].path = call'[d].path
  BY <1>2, <1>3, <1>4, <1>5 DEF SocketInv, FdsAreOwned, Connected, Owned
<1>11. ListenersFit' /\ ClosedIsUnused'
  BY <1>3, <1>5 DEF SocketInv, ListenersFit, ClosedIsUnused
<1>12. KindsMatch'
  BY <1>2, <1>3, <1>4, <1>5 DEF SocketInv, KindsMatch, Owned
<1> QED
  BY <1>6, <1>7, <1>8, <1>9, <1>10, <1>11, <1>12 DEF SocketInv, FdsAreOwned, Connected

\* A path that fits is the name the kernel has for it.
LEMMA NamesTell ==
  ASSUME NEW p, NEW q, address(p), address(q), KernelName(p) = KernelName(q),
         Len(p) \in Nat, Len(q) \in Nat
  PROVE  p = q
  BY SocketAssumption DEF address, KernelName

\* What connect, accept and unlink do to a listener leaves it a listener.
LEMMA QueueKeeps ==
  ASSUME SocketInv, NEW l \in SocketFds, table[l].kind # "closed", NEW b \in BOOLEAN
  PROVE  Alike([table EXCEPT ![l].queued = b])
<1> DEFINE x == [table[l] EXCEPT !.queued = b]
           rest == [table EXCEPT ![l] = x]
<1>1. x \in Files /\ x.kind = table[l].kind /\ x.path = table[l].path
  BY DEF SocketInv, Files
<1>2. x # Unused /\ table[l] # Unused
  BY <1>1 DEF Unused
<1>3. rest \in [SocketFds -> Files] /\ \A g \in SocketFds : rest[g] = IF g = l THEN x ELSE table[g]
  BY <1>1 DEF SocketInv
<1>4. rest = [table EXCEPT ![l].queued = b]
  OBVIOUS
<1> HIDE DEF x, rest
<1>5. Alike(rest)
  BY <1>1, <1>2, <1>3 DEF Alike
<1> QED
  BY <1>4, <1>5

\* So does what socket and dup do, which is nothing.
LEMMA TableIsAlike == SocketInv => Alike(table)
  BY DEF SocketInv, Alike

\* socket_fd takes the descriptor the kernel gives it.
LEMMA SocketFdInv ==
  ASSUME SocketInv, NEW c \in Callers, NEW is \in {"binding", "connecting"}, socket_fd(c, is)
  PROVE  SocketInv'
<1>1. PICK f \in SocketFds, path \in Paths :
        /\ table[f] = Unused
        /\ table' = [table EXCEPT ![f] = OpenAs("socket", path)]
        /\ call' = [call EXCEPT ![c] = Holds(is, f, path)]
  BY DEF socket_fd, FreeFd
<1> DEFINE v == Holds(is, f, path)
           e == OpenAs("socket", path)
<1>2. v \in Owned /\ v.is = is /\ v.fd = f /\ e \in Files /\ e.kind = "socket"
  BY SocketAssumption DEF OpenAs, Files, Holds, Owned
<1>3. call[c] = Nothing /\ Alike(table)
  BY TableIsAlike DEF socket_fd
<1>4. Takes(c, v, e, table)
  <2> HIDE DEF v, e
  <2>1. table' = [table EXCEPT ![f] = e] /\ call' = [call EXCEPT ![c] = v]
    BY <1>1 DEF v, e
  <2> QED
    BY <1>1, <1>2, <1>3, <2>1 DEF Takes
<1> QED
  BY <1>4, TakesAFreeFd

\* bind keeps its descriptor for the Listener, or closes it on either error.
LEMMA BindInv ==
  ASSUME SocketInv, NEW c \in Callers, bind(c)
  PROVE  SocketInv'
<1> DEFINE v == call[c]
<1>1. v # Nothing /\ ~Connected(c) /\ v \in Owned /\ table \in [SocketFds -> Files]
  BY DEF bind, Nothing, Connected, SocketInv
<1>2. CASE /\ address(v.path)
           /\ table' = [table EXCEPT ![v.fd] = OpenAs("listener", v.path)]
           /\ call' = [call EXCEPT ![c] = Holds("Listener", v.fd, v.path)]
  <2> DEFINE w == Holds("Listener", v.fd, v.path)
             e == OpenAs("listener", v.path)
  <2>1. /\ w \in Owned /\ w.is = "Listener" /\ w.fd = v.fd /\ w.path = v.path
        /\ e \in Files /\ e.kind = "listener" /\ e.path = v.path
    BY <1>1 DEF OpenAs, Files, Holds, Owned
  <2>2. table' = [table EXCEPT ![w.fd] = e] /\ call' = [call EXCEPT ![c] = w] /\ address(v.path)
    BY <1>2, <2>1
  <2> HIDE DEF w, e
  <2>3. GoesOn(c, w, e, table)
    BY <1>1, <2>1, <2>2, TableIsAlike DEF GoesOn
  <2> QED
    BY <2>3, KeepsItsFd
<1>3. CASE DropFd(c)
  BY <1>1, <1>3, DropKeeps
<1> QED
  BY <1>2, <1>3 DEF bind

\* connect finds the listener that has its whole path, or closes.
LEMMA ConnectInv ==
  ASSUME SocketInv, NEW c \in Callers, connect(c)
  PROVE  SocketInv'
<1> DEFINE v == call[c]
<1>1. v # Nothing /\ ~Connected(c) /\ v \in Owned /\ table[v.fd].kind = "socket"
  <2>1. v.is = "connecting"
    BY DEF connect
  <2>2. v # Nothing /\ ~Connected(c)
    BY <2>1 DEF Nothing, Connected
  <2>3. v \in Owned
    BY <2>2 DEF SocketInv
  <2>4. v.is \in {"binding", "connecting"} => table[v.fd].kind = "socket"
    BY DEF SocketInv, KindsMatch
  <2> QED
    BY <2>1, <2>2, <2>3, <2>4
<1>2. ASSUME NEW l \in Listening(KernelName(v.path)), address(v.path),
             table' = [table EXCEPT ![v.fd] = OpenAs("connection", table[l].path), ![l].queued = TRUE],
             call' = [call EXCEPT ![c] = Holds("Stream", v.fd, v.path)]
      PROVE  SocketInv'
  <2> DEFINE rest == [table EXCEPT ![l].queued = TRUE]
             e == OpenAs("connection", table[l].path)
             w == Holds("Stream", v.fd, v.path)
  <2>1. l \in SocketFds /\ table[l].kind = "listener" /\ KernelName(table[l].path) = KernelName(v.path)
    BY <1>2 DEF Listening
  <2>2. address(table[l].path) /\ table[l].path \in Seq(PathBytes) /\ v.path \in Seq(PathBytes)
    BY <1>1, <2>1 DEF SocketInv, ListenersFit, Files, Owned
  <2>3. table[l].path = v.path
    BY <1>2, <2>1, <2>2, NamesTell
  <2>4. /\ w \in Owned /\ w.is = "Stream" /\ w.fd = v.fd /\ w.path = v.path
        /\ e \in Files /\ e.kind = "connection" /\ e.path = v.path
    BY <1>1, <2>2, <2>3 DEF OpenAs, Files, Holds, Owned
  <2>5. Alike(rest)
    BY <2>1, QueueKeeps
  <2>6. table' = [rest EXCEPT ![v.fd] = e] /\ call' = [call EXCEPT ![c] = w]
    BY <1>1, <1>2, <2>1 DEF SocketInv, Owned
  <2> HIDE DEF rest, e, w
  <2>7. GoesOn(c, w, e, rest)
    BY <1>1, <2>4, <2>5, <2>6 DEF GoesOn
  <2> QED
    BY <2>7, KeepsItsFd
<1>3. CASE DropFd(c)
  BY <1>1, <1>3, DropKeeps
<1> QED
  BY <1>2, <1>3 DEF connect

\* accept takes a new descriptor for the path of its Listener.
LEMMA AcceptInv ==
  ASSUME SocketInv, NEW c \in Callers, accept(c)
  PROVE  SocketInv'
<1>1. PICK f \in SocketFds, o \in Callers :
        /\ call[o].is = "Listener"
        /\ table[f] = Unused
        /\ table' = [table EXCEPT ![f] = OpenAs("connection", table[call[o].fd].path),
                                  ![call[o].fd].queued = FALSE]
        /\ call' = [call EXCEPT ![c] = Holds("Stream", f, call[o].path)]
  BY DEF accept, FreeFd
<1> DEFINE l == call[o].fd
           rest == [table EXCEPT ![l].queued = FALSE]
           e == OpenAs("connection", table[l].path)
           v == Holds("Stream", f, call[o].path)
<1>2. call[o] \in Owned /\ call[o] # Nothing /\ l \in SocketFds /\ table[l] # Unused /\ table[l].path = call[o].path
  BY <1>1 DEF SocketInv, FdsAreOwned, Connected, Nothing, Owned
<1>3. /\ v \in Owned /\ v.is = "Stream" /\ v.fd = f /\ v.path = call[o].path
      /\ e \in Files /\ e.kind = "connection" /\ e.path = v.path
  BY <1>2 DEF Holds, Owned, OpenAs, Files
<1>4. Alike(rest)
  <2>1. table[l].kind # "closed"
    BY <1>2 DEF SocketInv, ClosedIsUnused
  <2> QED
    BY <1>2, <2>1, QueueKeeps
<1>5. table' = [rest EXCEPT ![f] = e]
  BY <1>1, <1>2 DEF SocketInv
<1>6. call[c] = Nothing /\ call' = [call EXCEPT ![c] = v]
  BY <1>1 DEF accept
<1> HIDE DEF rest, e, v
<1> QED
  <2>1. Takes(c, v, e, rest)
    BY <1>1, <1>3, <1>4, <1>5, <1>6 DEF Takes
  <2> QED
    BY <2>1, TakesAFreeFd

\* duplicate takes a new descriptor for the same connection.
LEMMA DuplicateInv ==
  ASSUME SocketInv, NEW c \in Callers, duplicate(c)
  PROVE  SocketInv'
<1>1. PICK f \in SocketFds, d \in Callers :
        /\ call[d].is = "Stream"
        /\ table[f] = Unused
        /\ table' = [table EXCEPT ![f] = table[call[d].fd]]
        /\ call' = [call EXCEPT ![c] = Holds("Stream", f, call[d].path)]
  BY DEF duplicate, FreeFd
<1> DEFINE e == table[call[d].fd]
           v == Holds("Stream", f, call[d].path)
<1>2. call[d] \in Owned /\ e \in Files /\ e.kind = "connection" /\ e.path = call[d].path
  <2>1. call[d] # Nothing /\ Connected(d)
    BY <1>1 DEF Nothing, Connected
  <2>2. call[d] \in Owned /\ call[d].fd \in SocketFds
    BY <2>1 DEF SocketInv, Owned
  <2>3. Connected(d) => table[call[d].fd].path = call[d].path
    BY DEF SocketInv, FdsAreOwned
  <2>4. call[d].is = "Stream" => table[call[d].fd].kind = "connection"
    BY DEF SocketInv, KindsMatch
  <2>5. e \in Files
    BY <2>2 DEF SocketInv
  <2> QED
    BY <1>1, <2>1, <2>2, <2>3, <2>4, <2>5
<1>3. v \in Owned /\ v.is = "Stream" /\ v.fd = f /\ v.path = call[d].path
  BY <1>2 DEF Holds, Owned
<1>4. call[c] = Nothing /\ Alike(table)
  BY TableIsAlike DEF duplicate
<1> HIDE DEF e, v
<1>5. table' = [table EXCEPT ![f] = e] /\ call' = [call EXCEPT ![c] = v]
  BY <1>1 DEF e, v
<1> QED
  <2>1. Takes(c, v, e, table)
    BY <1>1, <1>2, <1>3, <1>4, <1>5 DEF Takes
  <2> QED
    BY <2>1, TakesAFreeFd

\* Removing a name leaves the listener its descriptor.
LEMMA UnlinkInv ==
  ASSUME SocketInv, NEW n, UnlinkName(n)
  PROVE  SocketInv'
<1>1. \A f \in SocketFds :
        /\ table'[f] \in Files
        /\ table'[f].path = table[f].path
        /\ table'[f].kind \in {table[f].kind, "unnamed"}
        /\ table'[f].kind # table[f].kind => table[f].kind = "listener"
        /\ table'[f].kind = table[f].kind => table'[f] = table[f]
  BY DEF UnlinkName, SocketInv, Files, Listening
<1>2. table' \in [SocketFds -> Files] /\ call' = call
  BY <1>1 DEF UnlinkName
<1>3. \A f \in SocketFds : table'[f] = Unused <=> table[f] = Unused
  BY <1>1 DEF Unused
<1>4. \A c \in Callers : call[c] # Nothing => call[c].fd \in SocketFds
  BY DEF SocketInv, Owned
<1>5. FdsAreOwned'
  BY <1>1, <1>2, <1>3, <1>4 DEF SocketInv, FdsAreOwned, Connected, Nothing
<1>6. ListenersFit' /\ ClosedIsUnused'
  BY <1>1, <1>3 DEF SocketInv, ListenersFit, ClosedIsUnused
<1>7. KindsMatch'
  BY <1>1, <1>2, <1>4 DEF SocketInv, KindsMatch, Nothing
<1> QED
  BY <1>2, <1>5, <1>6, <1>7 DEF SocketInv

\* No step of any caller, failing ones included, takes a descriptor from its
\* owner or leaves one without.
LEMMA SocketNextInv == SocketInv /\ [SocketNext]_socketVars => SocketInv'
<1> SUFFICES ASSUME SocketInv, [SocketNext]_socketVars PROVE SocketInv'
  OBVIOUS
<1>1. CASE UNCHANGED socketVars
  BY <1>1 DEF socketVars, SocketInv, FdsAreOwned, Connected, ListenersFit, ClosedIsUnused, KindsMatch
<1>2. ASSUME NEW c \in Callers, CallFails(c) \/ DropSocket(c) PROVE SocketInv'
  <2>1. call[c] # Nothing /\ DropFd(c)
    BY <1>2 DEF CallFails, DropSocket, Nothing
  <2> QED
    BY <2>1, DropKeeps
<1> QED
  BY <1>1, <1>2, SocketFdInv, BindInv, ConnectInv, AcceptInv, DuplicateInv, UnlinkInv DEF SocketNext

\* Every open descriptor has one owner and every connection the path its
\* caller gave, for any number of callers and descriptors.
THEOREM OwnersTheorem == SocketSpec => []FdsAreOwned
<1>1. SocketSpec => []SocketInv
  BY SocketInitInv, SocketNextInv, PTL DEF SocketSpec
<1>2. SocketInv => FdsAreOwned
  BY DEF SocketInv
<1> QED
  BY <1>1, <1>2, PTL

-----------------------------------------------------------------------------
(***************************************************************************)
(* Memory: src/mmap.rs and src/heap.rs                                     *)
(***************************************************************************)
\* A value has no length and no mapping, or a mapping of its own that is as long
\* as it was asked to be.
Mapped(o) ==
  \/ value[o].len = 0 /\ value[o].asked = 0
  \/ /\ value[o].asked > 0 /\ value[o].len >= value[o].asked
     /\ value[o].region \in Regions /\ regions[value[o].region] >= value[o].len

MapInv ==
  /\ regions \in [Regions -> Nat]
  /\ \A o \in Owners : /\ value[o].asked \in Nat /\ value[o].len \in Nat
                       /\ Mapped(o)
  /\ DOMAIN value = Owners
  /\ \A o, p \in Owners : value[o].len > 0 /\ value[p].len > 0 /\ value[o].region = value[p].region => o = p
  /\ \A r \in Regions : regions[r] > 0 => \E o \in Owners : value[o].len > 0 /\ value[o].region = r

\* Whole pages hold what was asked for and are less than a page longer.
LEMMA PagesHold ==
  ASSUME NEW n \in Nat
  PROVE  /\ div_ceil(n, Page) \in Nat /\ div_ceil(n, Page) * Page \in Nat
         /\ div_ceil(n, Page) * Page >= n /\ div_ceil(n, Page) * Page < n + Page
<1>1. Page \in Nat /\ Page > 0
  BY MemoryAssumption
<1>2. PICK m \in Nat : m = n + Page - 1
  BY <1>1
<1>3. PICK q \in Nat : q = m \div Page
  BY <1>1
<1>4. Page * q <= m /\ m <= Page * q + Page - 1
  BY <1>1, <1>3, SMTT(20)
<1>5. Page * q = q * Page /\ q * Page \in Nat
  BY <1>1
<1> QED
  BY <1>1, <1>2, <1>3, <1>4, <1>5 DEF div_ceil

\* So page_ceil, unless it wraps around to nothing, is no less than what was asked.
LEMMA PageCeil ==
  ASSUME NEW n \in 1 .. Limit - 1
  PROVE  /\ page_ceil(n) \in Nat
         /\ page_ceil(n) # 0 => page_ceil(n) >= n
<1>1. /\ Page \in Nat /\ Page > 0 /\ Limit \in Nat /\ Limit > Page /\ n \in Nat
  BY MemoryAssumption
<1>2. PICK q \in Nat : q = div_ceil(n, Page)
  BY <1>1, PagesHold
<1>3. PICK l \in Nat : Limit = l * Page
  BY MemoryAssumption
<1>4. q * Page \in Nat /\ q * Page >= n /\ q * Page < n + Page
  BY <1>1, <1>2, PagesHold
<1>5. q <= l
  <2>1. SUFFICES ASSUME q >= l + 1 PROVE FALSE
    OBVIOUS
  <2>2. q * Page >= (l + 1) * Page /\ (l + 1) * Page = Limit + Page
    BY <1>1, <1>3, <2>1
  <2> QED
    BY <1>1, <1>4, <2>2
<1>6. q * Page <= Limit
  BY <1>1, <1>3, <1>5
<1>7. (q * Page) % Limit = IF q * Page = Limit THEN 0 ELSE q * Page
  BY <1>1, <1>4, <1>6
<1> QED
  BY <1>1, <1>2, <1>4, <1>7 DEF page_ceil

\* A new mapping goes to a value that had none, where there was none.
LEMMA MapsKeeps ==
  ASSUME MapInv, NEW o \in Owners, NEW type, NEW asked \in Nat, NEW len \in Nat, asked > 0,
         len # 0 => len >= asked, Maps(o, type, asked, len)
  PROVE  MapInv'
<1>1. CASE UNCHANGED <<regions, value>>
  BY <1>1 DEF MapInv, Mapped
<1>2. ASSUME len # 0, NEW r \in Regions, regions[r] = 0,
             regions' = [regions EXCEPT ![r] = div_ceil(len, Page) * Page],
             value' = [value EXCEPT ![o] = [type |-> type, asked |-> asked, len |-> len, region |-> r]]
      PROVE  MapInv'
  <2>1. PICK pages \in Nat : pages = div_ceil(len, Page) * Page /\ pages >= len
    BY PagesHold
  <2>2. /\ regions' \in [Regions -> Nat]
        /\ \A x \in Regions : regions'[x] = IF x = r THEN pages ELSE regions[x]
    BY <1>2, <2>1 DEF MapInv
  <2>3. /\ value'[o] = [type |-> type, asked |-> asked, len |-> len, region |-> r]
        /\ \A p \in Owners : p # o => value'[p] = value[p]
        /\ DOMAIN value' = Owners
    BY <1>2 DEF MapInv
  <2>4. \A p \in Owners : value[p].len > 0 => value[p].region # r /\ value[p].region \in Regions
    BY <1>2 DEF MapInv, Mapped
  <2>5. value[o].len = 0
    BY DEF Maps, NoValue
  <2> QED
    BY <1>2, <2>1, <2>2, <2>3, <2>4, <2>5 DEF MapInv, Mapped
<1> QED
  BY <1>1, <1>2 DEF Maps

\* A value of no length changes hands, or is made, without a mapping.
LEMMA NextMapInv == MapInv /\ [MemoryNext]_memoryVars => MapInv'
<1> SUFFICES ASSUME MapInv, [MemoryNext]_memoryVars PROVE MapInv'
  OBVIOUS
<1>1. ASSUME NEW o \in Owners, NEW type, MapsNothing(o, type) PROVE MapInv'
  BY <1>1 DEF MapsNothing, MapInv, Mapped, NoValue
<1>2. ASSUME NEW o \in Owners, NEW len \in 0 .. (Limit - 1), map(o, len) \/ map_anon(o, len) PROVE MapInv'
  BY <1>1, <1>2, MapsKeeps, MemoryAssumption DEF map, map_anon
<1>3. ASSUME NEW o \in Owners, NEW len \in 0 .. (Limit - 1), new(o, len) PROVE MapInv'
  BY <1>1, <1>3, MapsKeeps, PageCeil, MemoryAssumption DEF new
<1>4. ASSUME NEW o \in Owners, value[o] # NoValue, Unmap(o), value' = [value EXCEPT ![o] = NoValue]
      PROVE  MapInv'
  <2>1. /\ value'[o].len = 0 /\ value'[o].asked = 0
        /\ \A p \in Owners : p # o => value'[p] = value[p]
        /\ DOMAIN value' = Owners
    BY <1>4 DEF MapInv, NoValue
  <2>2. CASE value[o].len = 0
    BY <1>4, <2>1, <2>2 DEF Unmap, MapInv, Mapped
  <2>3. CASE value[o].len > 0
    <3>1. PICK r \in Regions : r = value[o].region /\ regions' = [regions EXCEPT ![r] = 0]
      <4>1. value[o].region \in Regions /\ value[o].len # 0
        BY <2>3 DEF MapInv, Mapped
      <4> QED
        BY <1>4, <4>1 DEF Unmap
    <3>2. /\ regions' \in [Regions -> Nat]
          /\ \A x \in Regions : regions'[x] = IF x = r THEN 0 ELSE regions[x]
      BY <3>1 DEF MapInv
    <3>3. \A p \in Owners : p # o /\ value[p].len > 0 => value[p].region # r /\ value[p].region \in Regions
      BY <2>3, <3>1 DEF MapInv, Mapped
    <3> QED
      BY <2>1, <2>3, <3>1, <3>2, <3>3 DEF MapInv, Mapped
  <2> QED
    BY <2>2, <2>3 DEF MapInv
<1>5. ASSUME NEW o \in Owners, DropMap(o) PROVE MapInv'
  BY <1>4, <1>5 DEF DropMap
<1>6. ASSUME NEW o \in Owners, make_read_only(o) PROVE MapInv'
  <2>1. value[o] # NoValue
    BY <1>6 DEF make_read_only, NoValue
  <2>2. CASE value' = [value EXCEPT ![o].type = "Mmap"] /\ UNCHANGED regions
    <3>1. /\ DOMAIN value' = Owners
          /\ \A p \in Owners : /\ value'[p].len = value[p].len /\ value'[p].asked = value[p].asked
                               /\ value'[p].region = value[p].region
      BY <2>2 DEF MapInv
    <3> QED
      BY <2>2, <3>1 DEF MapInv, Mapped
  <2> QED
    BY <1>4, <1>6, <2>1, <2>2 DEF make_read_only
<1>7. CASE UNCHANGED memoryVars
  BY <1>7 DEF memoryVars, MapInv, Mapped
<1> QED
  BY <1>2, <1>3, <1>5, <1>6, <1>7 DEF MemoryNext

\* Every value of the mmap module has a mapping of its own as long as what was
\* asked for, every mapping a value, and alloc and realloc align a block as its
\* Layout asks: for any page size, any usize, any values and any alignments.
THEOREM MemoryTheorem == MemorySpec => []MemoryIsAsAsked
<1>1. MemoryInit => MapInv
  BY DEF MemoryInit, MapInv, Mapped, NoValue
<1>2. MapInv => MapsAreWhole
  BY DEF MapInv, Mapped, MapsAreWhole
<1>3. BlocksAreAligned
  BY MemoryAssumption DEF BlocksAreAligned, alloc, realloc, malloc, posix_memalign
<1> QED
  BY <1>1, <1>2, <1>3, NextMapInv, PTL DEF MemorySpec, MemoryIsAsAsked

-----------------------------------------------------------------------------
(***************************************************************************)
(* Directory trees: what a removal takes away, src/fs.rs and src/file.rs   *)
(***************************************************************************)
\* Induction, over a set of naturals.
LEMMA SetInduction ==
  ASSUME NEW T \in SUBSET Nat, 0 \in T, \A n \in T : n + 1 \in T
  PROVE  T = Nat
<1> SUFFICES ASSUME T # Nat PROVE FALSE
  OBVIOUS
<1> DEFINE R == {ss \in Nat \X Nat : ss[1] < ss[2]}
           U == Nat \ T
<1>1. IsWellFoundedOn(R, Nat)
  BY NatLessThanWellFounded DEF OpToRel
<1>2. PICK x \in U : \A y \in U : <<y, x>> \notin R
  <2>1. U # {} /\ U \subseteq Nat
    OBVIOUS
  <2> HIDE DEF R, U
  <2> QED  BY <1>1, <2>1, WFMin
<1>3. x - 1 \in Nat /\ (x - 1) + 1 = x /\ x - 1 < x
  BY <1>2
<1>4. x - 1 \notin U
  BY <1>2, <1>3
<1> QED  BY <1>2, <1>3, <1>4

-----------------------------------------------------------------------------
\* What an entry leads to, and a path from one directory to the next.
Leads(e) == IF e.kind \in {"dir", "link"} THEN e.to ELSE Nowhere
Onward(tree, d, n) == IF d = Nowhere THEN Nowhere ELSE Leads(tree[d][n])

Steps(tree, f, path) ==
  [i \in 0..Len(path) |-> IF i = 0 THEN Root ELSE Onward(tree, f[i - 1], path[i])]

\* dir_at and lstat, in a given tree.
DirIn(tree, path) == (CHOOSE f : f = Steps(tree, f, path))[Len(path)]
LstatIn(tree, path) ==
  LET d == DirIn(tree, Front(path)) IN IF d = Nowhere THEN None ELSE tree[d][Last(path)]

LEMMA InThisTree ==
  ASSUME NEW path
  PROVE  /\ dir_at(path) = DirIn(ent, path)
         /\ lstat(path) = LstatIn(ent, path)
<1>1. ASSUME NEW q PROVE dir_at(q) = DirIn(ent, q)
  BY DEF dir_at, DirIn, Steps, Onward, Leads
<1> QED  BY <1>1 DEF lstat, LstatIn

\* A path is resolved from the front, one name after the other.
LEMMA StepsExist ==
  ASSUME NEW tree, NEW path, Len(path) \in Nat
  PROVE  \E f : f = Steps(tree, f, path)
<1> DEFINE Begun(k, f) == f[0] = Root /\ \A i \in 1..k : f[i] = Onward(tree, f[i - 1], path[i])
           T == {k \in Nat : \E f : Begun(k, f)}
<1>1. 0 \in T
  <2>1. Begun(0, [i \in {0} |-> Root])
    OBVIOUS
  <2> QED  BY <2>1
<1>2. ASSUME NEW k \in T PROVE k + 1 \in T
  <2>1. PICK f : Begun(k, f)
    OBVIOUS
  <2> DEFINE g == [i \in 0..(k + 1) |-> IF i = k + 1 THEN Onward(tree, f[k], path[k + 1]) ELSE f[i]]
  <2>2. k \in Nat /\ g[0] = Root /\ g[k + 1] = Onward(tree, f[k], path[k + 1]) /\ \A i \in 0..k : g[i] = f[i]
    BY <2>1
  <2> HIDE DEF g
  <2>3. ASSUME NEW i \in 1..(k + 1) PROVE g[i] = Onward(tree, g[i - 1], path[i])
    <3>1. CASE i = k + 1
      <4>1. i - 1 = k /\ k \in 0..k
        BY <2>2, <3>1
      <4>2. g[k] = f[k]
        BY <2>2, <4>1
      <4> QED  BY <2>2, <3>1, <4>1, <4>2
    <3>2. CASE i \in 1..k
      <4>1. i \in 0..k /\ i - 1 \in 0..k
        BY <2>2, <3>2
      <4> QED  BY <2>1, <2>2, <3>2, <4>1
    <3> QED  BY <2>2, <3>1, <3>2
  <2>4. Begun(k + 1, g)
    BY <2>2, <2>3
  <2> HIDE DEF Begun
  <2> QED  BY <2>2, <2>4
<1>3. Len(path) \in T
  <2> HIDE DEF T
  <2>1. T \subseteq Nat
    BY DEF T
  <2> QED  BY <1>1, <1>2, <2>1, SetInduction
<1>4. PICK f : Begun(Len(path), f)
  BY <1>3
<1> DEFINE g == [i \in 0..Len(path) |-> f[i]]
<1>5. ASSUME NEW i \in 0..Len(path)
      PROVE  g[i] = IF i = 0 THEN Root ELSE Onward(tree, g[i - 1], path[i])
  BY <1>4
<1>6. g = Steps(tree, g, path)
  <2>1. g = [i \in 0..Len(path) |-> g[i]]
    OBVIOUS
  <2> HIDE DEF g
  <2> QED  BY <1>5, <2>1 DEF Steps
<1> QED  BY <1>6

LEMMA DirInSteps ==
  ASSUME NEW tree, NEW path, Len(path) \in Nat
  PROVE  \E g : /\ DirIn(tree, path) = g[Len(path)] /\ g[0] = Root
                /\ \A i \in 1..Len(path) : g[i] = Onward(tree, g[i - 1], path[i])
<1> DEFINE g == CHOOSE f : f = Steps(tree, f, path)
<1>1. g = Steps(tree, g, path)
  BY StepsExist
<1> HIDE DEF g
<1>2. g = [i \in 0..Len(path) |-> IF i = 0 THEN Root ELSE Onward(tree, g[i - 1], path[i])]
  BY <1>1 DEF Steps
<1>3. g[0] = Root /\ \A i \in 1..Len(path) : g[i] = Onward(tree, g[i - 1], path[i])
  <2>1. \A i \in 0..Len(path) : g[i] = IF i = 0 THEN Root ELSE Onward(tree, g[i - 1], path[i])
    BY ONLY <1>2
  <2> QED  BY <2>1
<1> QED  BY <1>3 DEF DirIn, g

LEMMA StartsAtRoot ==
  ASSUME NEW tree
  PROVE  DirIn(tree, <<>>) = Root
<1>1. Len(<<>>) = 0
  OBVIOUS
<1> QED  BY <1>1, DirInSteps

\* One name more is one directory further.
LEMMA NextStep ==
  ASSUME NEW tree, NEW S, NEW path \in Seq(S), NEW n \in S
  PROVE  DirIn(tree, Append(path, n)) = Onward(tree, DirIn(tree, path), n)
<1> DEFINE more == Append(path, n)
           l == Len(path)
<1>1. /\ l \in Nat /\ Len(more) = l + 1 /\ more[l + 1] = n
      /\ \A i \in 1..l : more[i] = path[i]
  BY AppendProperties
<1> HIDE DEF more
<1>2. PICK g : /\ DirIn(tree, path) = g[l] /\ g[0] = Root
               /\ \A i \in 1..l : g[i] = Onward(tree, g[i - 1], path[i])
  BY <1>1, DirInSteps
<1>3. PICK h : /\ DirIn(tree, more) = h[l + 1] /\ h[0] = Root
               /\ \A i \in 1..(l + 1) : h[i] = Onward(tree, h[i - 1], more[i])
  <2>1. Len(more) \in Nat
    BY <1>1
  <2>2. \E f : /\ DirIn(tree, more) = f[Len(more)] /\ f[0] = Root
               /\ \A i \in 1..Len(more) : f[i] = Onward(tree, f[i - 1], more[i])
    BY ONLY <2>1, DirInSteps
  <2>3. Len(more) = l + 1
    BY <1>1
  <2> HIDE DEF l
  <2> QED  BY <2>2, <2>3
<1> HIDE DEF l
<1> DEFINE T == {k \in Nat : k <= l => g[k] = h[k]}
<1>4. 0 \in T
  BY <1>1, <1>2, <1>3
<1>5. ASSUME NEW k \in T PROVE k + 1 \in T
  <2>1. CASE k + 1 <= l
    <3>1. k \in Nat /\ k <= l /\ k + 1 \in 1..l /\ k + 1 \in 1..(l + 1) /\ (k + 1) - 1 = k
      BY <1>1, <2>1
    <3>2. g[k + 1] = Onward(tree, g[k], path[k + 1]) /\ h[k + 1] = Onward(tree, h[k], more[k + 1])
      BY <1>2, <1>3, <3>1
    <3>3. more[k + 1] = path[k + 1] /\ g[k] = h[k]
      BY <1>1, <3>1
    <3> QED  BY <3>1, <3>2, <3>3
  <2> QED  BY <2>1
<1>6. T = Nat
  <2>1. T \subseteq Nat
    OBVIOUS
  <2> HIDE DEF T
  <2> QED  BY <1>4, <1>5, <2>1, SetInduction
<1>7. g[l] = h[l]
  BY <1>1, <1>6
<1>8. h[l + 1] = Onward(tree, h[l], n)
  BY <1>1, <1>3
<1> QED  BY <1>2, <1>3, <1>7, <1>8 DEF more

\* The front and the last of a sequence.
LEMMA FrontFacts ==
  ASSUME NEW S, NEW s \in Seq(S), s # <<>>
  PROVE  /\ Len(s) \in Nat \ {0} /\ DOMAIN s = 1..Len(s)
         /\ Front(s) \in Seq(S) /\ Len(Front(s)) = Len(s) - 1
         /\ \A i \in 1..(Len(s) - 1) : Front(s)[i] = s[i]
         /\ Last(s) = s[Len(s)] /\ Last(s) \in S
<1>1. Len(s) \in Nat \ {0} /\ DOMAIN s = 1..Len(s) /\ \A i \in 1..Len(s) : s[i] \in S
  OBVIOUS
<1> DEFINE f == SubSeq(s, 1, Len(s) - 1)
<1>2. f \in Seq(S) /\ Len(f) = Len(s) - 1 /\ \A i \in 1..(Len(s) - 1) : f[i] = s[i]
  BY <1>1
<1> QED  BY <1>1, <1>2 DEF Front, Last

LEMMA AppendEnds ==
  ASSUME NEW S, NEW s \in Seq(S), NEW x \in S
  PROVE  Front(Append(s, x)) = s /\ Last(Append(s, x)) = x
<1> DEFINE t == Append(s, x)
<1>1. t \in Seq(S) /\ t # <<>> /\ Len(t) = Len(s) + 1 /\ t[Len(s) + 1] = x /\ Len(s) \in Nat
      /\ \A i \in 1..Len(s) : t[i] = s[i]
  BY AppendProperties
<1> HIDE DEF t
<1>2. /\ Front(t) \in Seq(S) /\ Len(Front(t)) = Len(s) /\ Last(t) = x
      /\ \A i \in 1..Len(s) : Front(t)[i] = s[i]
  BY <1>1, FrontFacts
<1>3. Front(t) = s
  BY <1>2
<1> QED  BY <1>2, <1>3 DEF t

\* What a name is, is asked in the directory in front of it.
LEMMA LastStep ==
  ASSUME NEW tree, NEW S, NEW path \in Seq(S), NEW n \in S
  PROVE  /\ LstatIn(tree, Append(path, n)) =
              IF DirIn(tree, path) = Nowhere THEN None ELSE tree[DirIn(tree, path)][n]
         /\ DirIn(tree, Append(path, n)) = Leads(LstatIn(tree, Append(path, n)))
<1>1. Leads(None) = Nowhere
  BY DEF Leads, None, Entry
<1> QED  BY <1>1, AppendEnds, NextStep DEF LstatIn, Onward

-----------------------------------------------------------------------------
Temps == {"t1", "t2", "t3"}
AllEntries == {None, File, Link} \cup {Entry("dir", d) : d \in Temps}
FullTree(tree) == tree \in [Dirs -> [Names -> AllEntries]]

Frames == [path : Seq(Names), todo : SUBSET Names, name : Names]

\* A walk is in one directory under the other.
Chain(s) ==
  \A i \in DOMAIN s : \E base \in Seq(Names), n \in Names :
    /\ s[i].path = Append(base, n)
    /\ IF i = 1 THEN base = <<>> ELSE base = s[i - 1].path

\* None of them is a link.
NoLinks(tree, s) == \A i \in DOMAIN s : LstatIn(tree, s[i].path) # Link

LEMMA AllEntryFacts ==
  /\ \A e \in AllEntries :
       \/ e = Link /\ e.kind = "link"
       \/ e \in {None, File} /\ e.kind \in {"none", "file"} /\ Leads(e) = Nowhere
       \/ e.kind = "dir" /\ e.to \in Temps /\ e = Entry("dir", e.to) /\ Leads(e) \in Temps
  /\ \A d : Entry("dir", d).kind = "dir" /\ Entry("dir", d).to = d /\ Leads(Entry("dir", d)) = d
            /\ Entry("dir", d) # Link
  /\ None # Link /\ File # Link /\ Leads(None) = Nowhere /\ Leads(File) = Nowhere
  /\ Temps \subseteq Dirs /\ Root \in Dirs /\ Nowhere \notin Dirs
  /\ Outside \notin Temps /\ Outside # Root /\ Outside # Nowhere /\ Root \notin Temps
BY DEF AllEntries, None, File, Link, Entry, Leads, Temps, Dirs, Root, Outside, Nowhere

\* Induction along a walk.
LEMMA ChainInduction ==
  ASSUME NEW s \in Seq(Frames), NEW U \in SUBSET Nat,
         \A i \in DOMAIN s : i = 1 => i \in U,
         \A i \in DOMAIN s : i + 1 \in DOMAIN s /\ i \in U => i + 1 \in U
  PROVE  \A i \in DOMAIN s : i \in U
<1> DEFINE T == {k \in Nat : k + 1 \in DOMAIN s => k + 1 \in U}
<1>1. DOMAIN s = 1..Len(s) /\ Len(s) \in Nat
  OBVIOUS
<1>2. 0 \in T
  BY <1>1
<1>3. ASSUME NEW k \in T PROVE k + 1 \in T
  <2>1. CASE (k + 1) + 1 \in DOMAIN s
    <3>1. k + 1 \in DOMAIN s /\ k + 1 \in U
      BY <1>1, <2>1
    <3> QED  BY <2>1, <3>1
  <2> QED  BY <2>1
<1>4. T = Nat
  <2>1. T \subseteq Nat
    OBVIOUS
  <2> HIDE DEF T
  <2> QED  BY <1>2, <1>3, <2>1, SetInduction
<1>5. ASSUME NEW i \in DOMAIN s PROVE i \in U
  <2>1. i - 1 \in Nat /\ (i - 1) + 1 = i
    BY <1>1
  <2>2. i - 1 \in T
    BY <1>4, <2>1
  <2> QED  BY <2>1, <2>2
<1> QED  BY <1>5

\* One directory of a walk.
LEMMA ChainStep ==
  ASSUME NEW tree, NEW s \in Seq(Frames), Chain(s), NEW i \in DOMAIN s
  PROVE  LET d == DirIn(tree, Front(s[i].path))
             last == Last(s[i].path)
         IN  /\ last \in Names
             /\ d = IF i = 1 THEN Root ELSE DirIn(tree, s[i - 1].path)
             /\ LstatIn(tree, s[i].path) = IF d = Nowhere THEN None ELSE tree[d][last]
             /\ DirIn(tree, s[i].path) = Leads(LstatIn(tree, s[i].path))
<1>1. PICK base \in Seq(Names), n \in Names :
        /\ s[i].path = Append(base, n)
        /\ IF i = 1 THEN base = <<>> ELSE base = s[i - 1].path
  BY DEF Chain
<1>2. DirIn(tree, base) = IF i = 1 THEN Root ELSE DirIn(tree, s[i - 1].path)
  BY <1>1, StartsAtRoot
<1>3. Last(s[i].path) = n /\ Front(s[i].path) = base
  BY <1>1, AppendEnds
<1>4. /\ LstatIn(tree, s[i].path) = IF DirIn(tree, base) = Nowhere THEN None ELSE tree[DirIn(tree, base)][n]
      /\ DirIn(tree, s[i].path) = Leads(LstatIn(tree, s[i].path))
  BY <1>1, LastStep
<1> QED  BY <1>2, <1>3, <1>4

\* A walk without a link stays inside.
LEMMA StaysInside ==
  ASSUME NEW tree, FullTree(tree), NEW s \in Seq(Frames), Chain(s), NoLinks(tree, s)
  PROVE  \A i \in DOMAIN s : /\ DirIn(tree, s[i].path) \in Temps \cup {Nowhere}
                             /\ DirIn(tree, Front(s[i].path)) \in Temps \cup {Nowhere, Root}
<1> DEFINE U == {i \in Nat : i \in DOMAIN s =>
                   /\ DirIn(tree, s[i].path) \in Temps \cup {Nowhere}
                   /\ DirIn(tree, Front(s[i].path)) \in Temps \cup {Nowhere, Root}}
<1>0. DOMAIN s = 1..Len(s) /\ Len(s) \in Nat
  OBVIOUS
<1>1. ASSUME NEW i \in DOMAIN s, i = 1 \/ i - 1 \in U
      PROVE  i \in U
  <2> DEFINE d == DirIn(tree, Front(s[i].path))
             last == Last(s[i].path)
  <2>1. /\ last \in Names
        /\ d = IF i = 1 THEN Root ELSE DirIn(tree, s[i - 1].path)
        /\ LstatIn(tree, s[i].path) = IF d = Nowhere THEN None ELSE tree[d][last]
        /\ DirIn(tree, s[i].path) = Leads(LstatIn(tree, s[i].path))
    BY ChainStep
  <2>2. d \in Temps \cup {Nowhere, Root}
    <3>1. CASE i = 1
      BY <2>1, <3>1
    <3>2. CASE i # 1
      <4>1. i - 1 \in DOMAIN s /\ i - 1 \in U
        BY <1>0, <1>1, <3>2
      <4> QED  BY <2>1, <3>2, <4>1
    <3> QED  BY <3>1, <3>2
  <2>3. LstatIn(tree, s[i].path) \in AllEntries /\ LstatIn(tree, s[i].path) # Link
    <3>1. d \in Dirs \cup {Nowhere} /\ None \in AllEntries
      BY <2>2, AllEntryFacts DEF AllEntries
    <3> QED  BY <2>1, <3>1 DEF FullTree, NoLinks
  <2>4. DirIn(tree, s[i].path) \in Temps \cup {Nowhere}
    BY <2>1, <2>3, AllEntryFacts
  <2> QED  BY <1>0, <2>1, <2>2, <2>4
<1>2. /\ \A i \in DOMAIN s : i = 1 => i \in U
      /\ \A i \in DOMAIN s : i + 1 \in DOMAIN s /\ i \in U => i + 1 \in U
  <2> HIDE DEF U
  <2>1. \A i \in DOMAIN s : (i + 1) - 1 = i
    BY <1>0
  <2> QED  BY <1>1, <2>1
<1>3. \A i \in DOMAIN s : i \in U
  <2>1. U \subseteq Nat
    OBVIOUS
  <2> HIDE DEF U
  <2> QED  BY <1>2, <2>1, ChainInduction
<1> QED  BY <1>0, <1>3

\* Where entries go, files come, or empty directories are entered, a walk
\* meets no link it did not meet before.
LEMMA ChangesAreSafe ==
  ASSUME NEW tree, FullTree(tree), NEW more, FullTree(more), NEW s \in Seq(Frames), Chain(s),
         NoLinks(tree, s),
         NEW Y \in SUBSET Temps, \A d \in Y : \A n \in Names : tree[d][n] = None,
         \A d \in Dirs, n \in Names :
           more[d][n] = tree[d][n] \/ more[d][n] \in {None, File} \cup {Entry("dir", y) : y \in Y}
  PROVE  NoLinks(more, s)
<1> DEFINE Same(path) == DirIn(more, path) = DirIn(tree, path) \/ DirIn(more, path) \in Y \cup {Nowhere}
           U == {i \in Nat : i \in DOMAIN s => Same(s[i].path) /\ LstatIn(more, s[i].path) # Link}
<1>0. DOMAIN s = 1..Len(s) /\ Len(s) \in Nat
  OBVIOUS
<1>1. ASSUME NEW i \in DOMAIN s, i = 1 \/ i - 1 \in U
      PROVE  i \in U
  <2> DEFINE d == DirIn(tree, Front(s[i].path))
             e == DirIn(more, Front(s[i].path))
             last == Last(s[i].path)
  <2>1. /\ last \in Names
        /\ d = IF i = 1 THEN Root ELSE DirIn(tree, s[i - 1].path)
        /\ LstatIn(tree, s[i].path) = IF d = Nowhere THEN None ELSE tree[d][last]
        /\ DirIn(tree, s[i].path) = Leads(LstatIn(tree, s[i].path))
    BY ChainStep
  <2>2. /\ e = IF i = 1 THEN Root ELSE DirIn(more, s[i - 1].path)
        /\ LstatIn(more, s[i].path) = IF e = Nowhere THEN None ELSE more[e][last]
        /\ DirIn(more, s[i].path) = Leads(LstatIn(more, s[i].path))
    BY ChainStep
  <2>3. d \in Temps \cup {Nowhere, Root}
    BY StaysInside
  <2>4. e = d \/ e \in Y \cup {Nowhere}
    <3>1. CASE i = 1
      BY <2>1, <2>2, <3>1
    <3>2. CASE i # 1
      <4>1. i - 1 \in DOMAIN s /\ i - 1 \in U
        BY <1>0, <1>1, <3>2
      <4> QED  BY <2>1, <2>2, <3>2, <4>1
    <3> QED  BY <3>1, <3>2
  <2> HIDE DEF d, e, last
  <2>5. Same(s[i].path) /\ LstatIn(more, s[i].path) # Link
    <3>1. CASE e = Nowhere
      BY <2>2, <3>1, AllEntryFacts
    <3>2. CASE e # Nowhere /\ e \in Y
      <4>1. e \in Dirs /\ tree[e][last] = None
        BY <2>1, <3>2, AllEntryFacts
      <4>2. more[e][last] \in {None, File} \cup {Entry("dir", y) : y \in Y}
        BY <2>1, <4>1
      <4> QED  BY <2>2, <3>2, <4>2, AllEntryFacts
    <3>3. CASE e # Nowhere /\ e = d
      <4>1. e \in Dirs /\ LstatIn(tree, s[i].path) = tree[e][last] /\ LstatIn(more, s[i].path) = more[e][last]
        BY <2>1, <2>2, <2>3, <3>3, AllEntryFacts
      <4>2. CASE more[e][last] = tree[e][last]
        BY <2>1, <2>2, <4>1, <4>2 DEF NoLinks
      <4>3. CASE more[e][last] \in {None, File} \cup {Entry("dir", y) : y \in Y}
        BY <2>2, <4>1, <4>3, AllEntryFacts
      <4> QED  BY <2>1, <4>1, <4>2, <4>3
    <3> QED  BY <2>4, <3>1, <3>2, <3>3
  <2> QED  BY <1>0, <2>5
<1>2. /\ \A i \in DOMAIN s : i = 1 => i \in U
      /\ \A i \in DOMAIN s : i + 1 \in DOMAIN s /\ i \in U => i + 1 \in U
  <2> HIDE DEF U
  <2>1. \A i \in DOMAIN s : (i + 1) - 1 = i
    BY <1>0
  <2> QED  BY <1>1, <2>1
<1>3. \A i \in DOMAIN s : i \in U
  <2>1. U \subseteq Nat
    OBVIOUS
  <2> HIDE DEF U
  <2> QED  BY <1>2, <2>1, ChainInduction
<1> QED  BY <1>0, <1>3 DEF NoLinks

\* A change where the walk has not been is not on its way.
Elsewhere(tree, s, d, n) ==
  \A i \in DOMAIN s : ~(Last(s[i].path) = n /\ DirIn(tree, Front(s[i].path)) = d)
OneChange(tree, more, d0, n0) ==
  \A d \in Dirs, n \in Names : ~(d = d0 /\ n = n0) => more[d][n] = tree[d][n]

LEMMA ElsewhereIsSafe ==
  ASSUME NEW tree, FullTree(tree), NEW more, NEW s \in Seq(Frames), Chain(s),
         NoLinks(tree, s), NEW d0, NEW n0, Elsewhere(tree, s, d0, n0), OneChange(tree, more, d0, n0)
  PROVE  NoLinks(more, s)
<1> DEFINE U == {i \in Nat : i \in DOMAIN s => DirIn(more, s[i].path) = DirIn(tree, s[i].path)
                                              /\ LstatIn(more, s[i].path) = LstatIn(tree, s[i].path)}
<1>0. DOMAIN s = 1..Len(s) /\ Len(s) \in Nat
  OBVIOUS
<1>1. ASSUME NEW i \in DOMAIN s, i = 1 \/ i - 1 \in U
      PROVE  i \in U
  <2> DEFINE d == DirIn(tree, Front(s[i].path))
             e == DirIn(more, Front(s[i].path))
             last == Last(s[i].path)
  <2>0. s \in Seq(Frames) /\ Chain(s) /\ i \in DOMAIN s
    OBVIOUS
  <2>1. /\ last \in Names
        /\ d = IF i = 1 THEN Root ELSE DirIn(tree, s[i - 1].path)
        /\ LstatIn(tree, s[i].path) = IF d = Nowhere THEN None ELSE tree[d][last]
        /\ DirIn(tree, s[i].path) = Leads(LstatIn(tree, s[i].path))
    BY ONLY <2>0, ChainStep
  <2>2. /\ e = IF i = 1 THEN Root ELSE DirIn(more, s[i - 1].path)
        /\ LstatIn(more, s[i].path) = IF e = Nowhere THEN None ELSE more[e][last]
        /\ DirIn(more, s[i].path) = Leads(LstatIn(more, s[i].path))
    BY ONLY <2>0, ChainStep
  <2>3. d \in Temps \cup {Nowhere, Root}
    BY StaysInside
  <2>4. e = d
    <3>1. CASE i = 1
      BY <2>1, <2>2, <3>1
    <3>2. CASE i # 1
      <4>1. i - 1 \in DOMAIN s /\ i - 1 \in U
        BY <1>0, <1>1, <3>2
      <4> QED  BY <2>1, <2>2, <3>2, <4>1
    <3> QED  BY <3>1, <3>2
  <2>5. ~(last = n0 /\ d = d0)
    BY DEF Elsewhere
  <2> HIDE DEF d, e, last
  <2>6. d # Nowhere => more[d][last] = tree[d][last]
    BY <2>1, <2>3, <2>5, AllEntryFacts DEF OneChange
  <2> QED  BY <1>0, <2>1, <2>2, <2>4, <2>6
<1>2. /\ \A i \in DOMAIN s : i = 1 => i \in U
      /\ \A i \in DOMAIN s : i + 1 \in DOMAIN s /\ i \in U => i + 1 \in U
  <2> HIDE DEF U
  <2>1. \A i \in DOMAIN s : (i + 1) - 1 = i
    BY <1>0
  <2> QED  BY <1>1, <2>1
<1>3. \A i \in DOMAIN s : i \in U
  <2>1. U \subseteq Nat
    OBVIOUS
  <2> HIDE DEF U
  <2> QED  BY <1>2, <2>1, ChainInduction
<1> QED  BY <1>0, <1>3 DEF NoLinks

-----------------------------------------------------------------------------
\* The innermost call goes on, returns, or calls itself.
Along(s, t) == t \in Seq(Frames) /\ Chain(t) /\ \A tree : NoLinks(tree, s) => NoLinks(tree, t)

LEMMA PathsChain ==
  ASSUME NEW s, NEW t, Chain(s), \A i \in DOMAIN t : i \in DOMAIN s /\ t[i].path = s[i].path,
         \A i \in DOMAIN t : i # 1 => i - 1 \in DOMAIN t
  PROVE  Chain(t)
<1> SUFFICES ASSUME NEW i \in DOMAIN t
             PROVE  \E base \in Seq(Names), n \in Names :
                      /\ t[i].path = Append(base, n)
                      /\ IF i = 1 THEN base = <<>> ELSE base = t[i - 1].path
  BY DEF Chain
<1>1. PICK base \in Seq(Names), n \in Names :
        /\ s[i].path = Append(base, n)
        /\ IF i = 1 THEN base = <<>> ELSE base = s[i - 1].path
  BY DEF Chain
<1>2. IF i = 1 THEN base = <<>> ELSE base = t[i - 1].path
  BY <1>1
<1> QED  BY <1>1, <1>2

LEMMA TopGoesOn ==
  ASSUME NEW s \in Seq(Frames), s # <<>>, Chain(s), NEW g \in Frames, g.path = Last(s).path
  PROVE  Along(s, Append(Front(s), g)) /\ Append(Front(s), g) # <<>>
<1> DEFINE t == Append(Front(s), g)
<1>1. /\ Len(s) \in Nat \ {0} /\ DOMAIN s = 1..Len(s)
      /\ Front(s) \in Seq(Frames) /\ Len(Front(s)) = Len(s) - 1
      /\ \A i \in 1..(Len(s) - 1) : Front(s)[i] = s[i]
      /\ Last(s) = s[Len(s)]
  BY FrontFacts
<1>2. /\ t \in Seq(Frames) /\ t # <<>> /\ Len(t) = Len(s) /\ DOMAIN t = DOMAIN s
      /\ \A i \in 1..(Len(s) - 1) : t[i] = s[i]
      /\ t[Len(s)] = g
  <2>1. /\ t \in Seq(Frames) /\ t # <<>> /\ Len(t) = Len(Front(s)) + 1
        /\ \A i \in 1..Len(Front(s)) : t[i] = Front(s)[i]
        /\ t[Len(Front(s)) + 1] = g
    <3> DEFINE f == Front(s)
    <3>1. f \in Seq(Frames) /\ g \in Frames
      BY <1>1
    <3> HIDE DEF f
    <3>2. /\ Append(f, g) \in Seq(Frames) /\ Append(f, g) # <<>> /\ Len(Append(f, g)) = Len(f) + 1
          /\ \A i \in 1..Len(f) : Append(f, g)[i] = f[i]
          /\ Append(f, g)[Len(f) + 1] = g
      BY ONLY <3>1, AppendProperties
    <3> QED  BY ONLY <3>2 DEF f, t
  <2> HIDE DEF t
  <2> QED  BY <1>1, <2>1
<1> HIDE DEF t
<1>3. \A i \in DOMAIN t : t[i].path = s[i].path
  BY <1>1, <1>2
<1>4. Chain(t)
  <2>1. \A i \in DOMAIN t : i \in DOMAIN s /\ (i # 1 => i - 1 \in DOMAIN t)
    BY <1>1, <1>2
  <2> QED  BY <1>3, <2>1, PathsChain
<1> QED  BY <1>2, <1>3, <1>4 DEF Along, NoLinks, t

LEMMA TopReturns ==
  ASSUME NEW s \in Seq(Frames), Len(s) > 1, Chain(s)
  PROVE  Along(s, Front(s)) /\ Front(s) # <<>>
<1> DEFINE t == Front(s)
<1>1. /\ Len(s) \in Nat \ {0} /\ DOMAIN s = 1..Len(s)
      /\ t \in Seq(Frames) /\ Len(t) = Len(s) - 1
      /\ \A i \in 1..(Len(s) - 1) : t[i] = s[i]
  <2>1. s # <<>>
    OBVIOUS
  <2> QED  BY <2>1, FrontFacts
<1> HIDE DEF t
<1>2. DOMAIN t = 1..(Len(s) - 1) /\ t # <<>>
  BY <1>1
<1>3. \A i \in DOMAIN t : i \in DOMAIN s /\ t[i] = s[i]
  BY <1>1, <1>2
<1>4. Chain(t)
  <2>1. \A i \in DOMAIN t : i # 1 => i - 1 \in DOMAIN t
    BY <1>1, <1>2
  <2>2. \A i \in DOMAIN t : i \in DOMAIN s /\ t[i].path = s[i].path
    BY <1>3
  <2> QED  BY <2>1, <2>2, PathsChain
<1> QED  BY <1>1, <1>2, <1>3, <1>4 DEF Along, NoLinks, t

LEMMA TopCalls ==
  ASSUME NEW s \in Seq(Frames), s # <<>>, Chain(s), NEW n \in Names, NEW f \in Frames,
         f.path = Append(Last(s).path, n)
  PROVE  /\ Append(s, f) \in Seq(Frames) /\ Chain(Append(s, f)) /\ Append(s, f) # <<>>
         /\ \A tree : NoLinks(tree, s) /\ LstatIn(tree, f.path) # Link => NoLinks(tree, Append(s, f))
<1> DEFINE t == Append(s, f)
<1>1. /\ Len(s) \in Nat \ {0} /\ DOMAIN s = 1..Len(s) /\ Last(s) = s[Len(s)] /\ Last(s) \in Frames
  BY FrontFacts
<1>2. /\ t \in Seq(Frames) /\ t # <<>> /\ Len(t) = Len(s) + 1
      /\ \A i \in 1..Len(s) : t[i] = s[i]
      /\ t[Len(s) + 1] = f
  BY AppendProperties
<1> HIDE DEF t
<1>3. DOMAIN t = 1..(Len(s) + 1)
  BY <1>1, <1>2
<1>4. ASSUME NEW i \in DOMAIN t
      PROVE  \/ i \in DOMAIN s /\ t[i] = s[i] /\ (i # 1 => i - 1 \in DOMAIN s /\ t[i - 1] = s[i - 1])
             \/ i = Len(s) + 1 /\ t[i] = f /\ i # 1 /\ t[i - 1] = Last(s)
  BY <1>1, <1>2, <1>3
<1>5. Chain(t)
  <2>1. ASSUME NEW i \in DOMAIN t
        PROVE  \E base \in Seq(Names), m \in Names :
                 /\ t[i].path = Append(base, m)
                 /\ IF i = 1 THEN base = <<>> ELSE base = t[i - 1].path
    <3>1. CASE i \in DOMAIN s /\ t[i] = s[i] /\ (i # 1 => i - 1 \in DOMAIN s /\ t[i - 1] = s[i - 1])
      <4>1. PICK base \in Seq(Names), m \in Names :
              /\ s[i].path = Append(base, m)
              /\ IF i = 1 THEN base = <<>> ELSE base = s[i - 1].path
        BY <3>1 DEF Chain
      <4>2. t[i].path = Append(base, m) /\ (IF i = 1 THEN base = <<>> ELSE base = t[i - 1].path)
        BY <3>1, <4>1
      <4> QED  BY <4>2
    <3>2. CASE i = Len(s) + 1 /\ t[i] = f /\ i # 1 /\ t[i - 1] = Last(s)
      <4>1. Last(s).path \in Seq(Names)
        BY <1>1 DEF Frames
      <4> QED  BY <3>2, <4>1
    <3> QED  BY <1>4, <3>1, <3>2
  <2> QED  BY <2>1 DEF Chain
<1> QED  BY <1>2, <1>4, <1>5 DEF NoLinks, t

-----------------------------------------------------------------------------
Inside == {"open", "next", "unlink"}
OtherCalls ==
  [op : {"none", "create"} \cup Removals, made : Int, pc : Inside \cup {"mkdir", "ok", "err"},
   path : Seq(Names), stack : Seq(Frames)]

Shape(c) == Chain(c.stack) /\ (c.pc \in Inside => c.stack # <<>>)

\* A removal that is not over is on no link.
Clear(tree, c) == c.pc \in Inside => NoLinks(tree, c.stack)

\* So it is of every call, unless a link was put where one is.
OtherInv ==
  /\ walk \in [Walkers -> OtherCalls]
  /\ linked \in BOOLEAN /\ lost \in BOOLEAN
  /\ FullTree(ent)
  /\ \A p \in Walkers : Shape(walk[p])
  /\ linked \/ (~lost /\ \A p \in Walkers : Clear(ent, walk[p]))

\* One call goes on; a removal does not begin.
Goes(p, c) ==
  /\ c \in OtherCalls /\ Shape(c) /\ walk' = [walk EXCEPT ![p] = c]
  /\ c.pc \in Inside => walk[p].pc \in Inside

LEMMA CallGoes ==
  ASSUME OtherInv, NEW p \in Walkers, NEW c, Goes(p, c), linked' = linked,
         linked \/ lost' = lost, lost' \in BOOLEAN, FullTree(ent'),
         ~linked => \A q \in Walkers : Clear(ent', walk[q]),
         ~linked => Clear(ent', c)
  PROVE  OtherInv'
<1>1. walk' \in [Walkers -> OtherCalls] /\ walk'[p] = c /\ \A q \in Walkers \ {p} : walk'[q] = walk[q]
  BY DEF OtherInv, Goes
<1>2. \A q \in Walkers : Shape(walk'[q])
  BY <1>1 DEF OtherInv, Goes
<1>3. CASE linked
  BY <1>1, <1>2, <1>3 DEF OtherInv
<1>4. CASE ~linked
  <2>1. \A q \in Walkers : Clear(ent', walk'[q])
    BY <1>1, <1>4
  <2> QED  BY <1>1, <1>2, <1>4, <2>1 DEF OtherInv
<1> QED  BY <1>3, <1>4

LEMMA PcGoes ==
  ASSUME OtherInv, NEW p \in Walkers, NEW s \in Inside \cup {"mkdir", "ok", "err"}, Goto(p, s),
         s \in Inside => walk[p].pc \in Inside
  PROVE  \E c : Goes(p, c) /\ c.stack = walk[p].stack
<1> DEFINE c == [walk[p] EXCEPT !.pc = s]
<1>1. walk[p] \in OtherCalls /\ Shape(walk[p])
  BY DEF OtherInv
<1>2. c \in OtherCalls /\ c.pc = s /\ c.stack = walk[p].stack
  BY <1>1 DEF OtherCalls
<1>3. walk' = [walk EXCEPT ![p] = c]
  BY DEF Goto
<1> HIDE DEF c
<1> QED  BY <1>1, <1>2, <1>3 DEF Goes, Shape

\* A new stack for a removal.
LEMMA StackGoes ==
  ASSUME OtherInv, NEW p \in Walkers, walk[p].pc \in Inside,
         NEW s \in Inside, NEW t \in Seq(Frames), t # <<>>, Chain(t),
         \/ walk' = [walk EXCEPT ![p].pc = s, ![p].stack = t]
         \/ walk' = [walk EXCEPT ![p].stack = t, ![p].pc = s]
  PROVE  \E c : Goes(p, c) /\ c.stack = t
<1> DEFINE c == [walk[p] EXCEPT !.pc = s, !.stack = t]
           d == [walk[p] EXCEPT !.stack = t, !.pc = s]
<1>1. walk[p] \in OtherCalls
  BY DEF OtherInv
<1>2. /\ c \in OtherCalls /\ c.pc = s /\ c.stack = t
      /\ d \in OtherCalls /\ d.pc = s /\ d.stack = t
  BY <1>1 DEF OtherCalls
<1>3. walk' = [walk EXCEPT ![p] = c] \/ walk' = [walk EXCEPT ![p] = d]
  OBVIOUS
<1> HIDE DEF c, d
<1> QED  BY <1>2, <1>3 DEF Goes, Shape

LEMMA Here ==
  ASSUME OtherInv, NEW p \in Walkers
  PROVE  /\ walk[p] \in OtherCalls /\ walk[p].stack \in Seq(Frames) /\ Chain(walk[p].stack)
         /\ Along(walk[p].stack, walk[p].stack)
         /\ walk[p].pc \in Inside =>
              /\ walk[p].stack # <<>> /\ Top(p) \in Frames /\ Top(p) = Last(walk[p].stack)
              /\ \E i \in DOMAIN walk[p].stack : Top(p) = walk[p].stack[i]
<1>1. walk[p] \in OtherCalls /\ walk[p].stack \in Seq(Frames) /\ Chain(walk[p].stack)
  BY DEF OtherInv, OtherCalls, Shape
<1>2. ASSUME walk[p].pc \in Inside
      PROVE  /\ walk[p].stack # <<>> /\ Top(p) \in Frames /\ Top(p) = Last(walk[p].stack)
             /\ \E i \in DOMAIN walk[p].stack : Top(p) = walk[p].stack[i]
  <2> DEFINE s == walk[p].stack
  <2>1. s # <<>>
    BY <1>2 DEF OtherInv, Shape
  <2> HIDE DEF s
  <2>2. s \in Seq(Frames)
    BY <1>1 DEF s
  <2>3. Len(s) \in DOMAIN s /\ Last(s) = s[Len(s)] /\ Last(s) \in Frames
    BY ONLY <2>1, <2>2, FrontFacts
  <2> QED  BY <2>1, <2>3 DEF Top, s
<1> QED  BY <1>1, <1>2 DEF Along

LEMMA TreeChanges ==
  ASSUME OtherInv, NEW p \in Walkers, NEW c, Goes(p, c), Along(walk[p].stack, c.stack),
         linked' = linked, lost' \in BOOLEAN, linked \/ lost' = lost, FullTree(ent'),
         NEW Y \in SUBSET Temps, \A d \in Y : \A n \in Names : ent[d][n] = None,
         \A d \in Dirs, n \in Names :
           ent'[d][n] = ent[d][n] \/ ent'[d][n] \in {None, File} \cup {Entry("dir", y) : y \in Y}
  PROVE  OtherInv'
<1>1. FullTree(ent)
  BY DEF OtherInv
<1>2. ASSUME NEW s \in Seq(Frames), Chain(s), NoLinks(ent, s)
      PROVE  NoLinks(ent', s)
  BY <1>1, <1>2, ChangesAreSafe
<1>3. ASSUME ~linked
      PROVE  /\ \A q \in Walkers : Clear(ent', walk[q])
             /\ Clear(ent', c)
  <2>1. \A q \in Walkers : Clear(ent, walk[q])
    BY <1>3 DEF OtherInv
  <2>2. c.stack \in Seq(Frames) /\ Chain(c.stack) /\ Clear(ent, c)
    BY <2>1 DEF Along, Goes, Clear
  <2> QED  BY <1>2, <2>1, <2>2, Here DEF Clear
<1> QED  BY <1>3, CallGoes

LEMMA TreeIsLeft ==
  ASSUME OtherInv, NEW p \in Walkers, NEW c, Goes(p, c), Along(walk[p].stack, c.stack),
         UNCHANGED <<ent, linked, lost>>
  PROVE  OtherInv'
<1>1. FullTree(ent') /\ lost' \in BOOLEAN /\ lost' = lost /\ linked' = linked
  BY DEF OtherInv
<1>2. \A d \in Dirs, n \in Names : ent'[d][n] = ent[d][n]
  OBVIOUS
<1> DEFINE Y == {}
<1>3. Y \in SUBSET Temps /\ \A d \in Y : \A n \in Names : ent[d][n] = None
  OBVIOUS
<1> HIDE DEF Y
<1> QED  BY <1>1, <1>2, <1>3, TreeChanges

LEMMA PopGoes ==
  ASSUME OtherInv, NEW p \in Walkers, walk[p].pc \in Inside, Pop(p) \/ Fails(p)
  PROVE  \E c : Goes(p, c) /\ Along(walk[p].stack, c.stack)
<1>1. CASE Goto(p, "ok") \/ Goto(p, "err")
  <2>1. PICK s \in {"ok", "err"} : Goto(p, s)
    BY <1>1
  <2>2. \E c : Goes(p, c) /\ c.stack = walk[p].stack
    BY <2>1, PcGoes DEF Inside
  <2> QED  BY <2>2, Here
<1>2. CASE Len(walk[p].stack) > 1 /\ walk' = [walk EXCEPT ![p].stack = Front(@), ![p].pc = "next"]
  <2> DEFINE t == Front(walk[p].stack)
  <2>1. Along(walk[p].stack, t) /\ t # <<>>
    BY <1>2, Here, TopReturns
  <2>2. walk' = [walk EXCEPT ![p].stack = t, ![p].pc = "next"] /\ "next" \in Inside
    BY <1>2 DEF Inside
  <2> HIDE DEF t
  <2>3. t \in Seq(Frames) /\ Chain(t)
    BY <2>1 DEF Along
  <2>4. \E c : Goes(p, c) /\ c.stack = t
    BY <2>1, <2>2, <2>3, StackGoes
  <2> QED  BY <2>1, <2>4
<1> QED  BY <1>1, <1>2 DEF Pop, Fails

\* A path in the tree is given another entry.
LEMMA PutFacts ==
  ASSUME FullTree(ent), NEW path, NEW e \in AllEntries, Put(path, e)
  PROVE  FullTree(ent') /\ \A d \in Dirs, n \in Names : ent'[d][n] = ent[d][n] \/ ent'[d][n] = e
<1>1. ent' = [ent EXCEPT ![dir_at(Front(path))][Last(path)] = e]
  BY DEF Put
<1> QED  BY <1>1 DEF FullTree

\* What a walk that is on no link looks at is not outside.
LEMMA NotOutside ==
  ASSUME OtherInv, NEW p \in Walkers, walk[p].pc \in Inside, ~linked
  PROVE  dir_at(Top(p).path) # Outside /\ dir_at(Front(Top(p).path)) # Outside
<1>1. PICK i \in DOMAIN walk[p].stack : Top(p) = walk[p].stack[i]
  BY Here
<1>2. /\ DirIn(ent, Top(p).path) \in Temps \cup {Nowhere}
      /\ DirIn(ent, Front(Top(p).path)) \in Temps \cup {Nowhere, Root}
  <2>1. FullTree(ent) /\ NoLinks(ent, walk[p].stack) /\ walk[p].stack \in Seq(Frames) /\ Chain(walk[p].stack)
    BY Here DEF OtherInv, Clear
  <2> QED  BY ONLY <1>1, <2>1, StaysInside
<1> QED  BY <1>2, InThisTree, AllEntryFacts

\* The names of a directory become the names to look at.
LEMMA ListsGoes ==
  ASSUME OtherInv, NEW p \in Walkers, walk[p].pc \in Inside, NEW listed \in SUBSET Names, Lists(p, listed)
  PROVE  \E c : Goes(p, c) /\ Along(walk[p].stack, c.stack)
<1> DEFINE g == [Top(p) EXCEPT !.todo = listed]
           t == Append(Front(walk[p].stack), g)
<1>1. g \in Frames /\ g.path = Last(walk[p].stack).path
  <2>1. Top(p) \in Frames /\ Top(p) = Last(walk[p].stack)
    BY Here
  <2> QED  BY <2>1 DEF Frames
<1> HIDE DEF g
<1>2. Along(walk[p].stack, t) /\ t # <<>>
  BY <1>1, Here, TopGoesOn
<1>3. walk' = [walk EXCEPT ![p].pc = "next", ![p].stack = t] /\ "next" \in Inside
  BY DEF Lists, Inside, g
<1> HIDE DEF t
<1>4. t \in Seq(Frames) /\ Chain(t)
  BY <1>2 DEF Along
<1>5. \E c : Goes(p, c) /\ c.stack = t
  BY <1>2, <1>3, <1>4, StackGoes
<1> QED  BY <1>2, <1>5

\* The walk goes down into what lstat calls a directory.
LEMMA LooksOtherInv ==
  ASSUME OtherInv, NEW p \in Walkers, symlink_metadata(p)
  PROVE  OtherInv'
<1> DEFINE s == walk[p].stack
<1>0. /\ walk[p].pc \in Inside /\ UNCHANGED <<ent, linked, lost>>
      /\ s \in Seq(Frames) /\ s # <<>> /\ Chain(s)
      /\ Top(p) \in Frames /\ Top(p) = Last(s)
  <2>1. walk[p].pc \in Inside /\ UNCHANGED <<ent, linked, lost>>
    BY DEF symlink_metadata, Looks, At, Inside, Keeps
  <2> QED  BY <2>1, Here
<1>1. PICK n \in Top(p).todo :
        LET frame == [Top(p) EXCEPT !.todo = @ \ {n}, !.name = n]
            path == Append(frame.path, n)
            level == Append(Front(walk[p].stack), frame)
        IN  walk' =
              IF lstat(path).kind = "dir"
              THEN [walk EXCEPT ![p].stack = Append(level, Frame(path)), ![p].pc = "open"]
              ELSE [walk EXCEPT ![p].stack = level,
                                ![p].pc = IF lstat(path) = None /\ walk[p].op = "fs_remove"
                                          THEN "err" ELSE "unlink"]
  BY DEF symlink_metadata, Looks
<1> DEFINE g == [Top(p) EXCEPT !.todo = @ \ {n}, !.name = n]
           path == Append(g.path, n)
           level == Append(Front(s), g)
<1>2. n \in Names /\ g \in Frames /\ g.path = Last(s).path
  BY <1>0 DEF Frames
<1>3. Along(s, level) /\ level # <<>>
  <2> HIDE DEF g, s
  <2> QED  BY <1>0, <1>2, TopGoesOn
<1>4. Last(level) = g
  <2>1. Front(s) \in Seq(Frames)
    <3> HIDE DEF s
    <3> QED  BY <1>0, FrontFacts
  <2> HIDE DEF g
  <2> QED  BY <1>2, <2>1, AppendEnds
<1>5. level \in Seq(Frames) /\ Chain(level)
  BY <1>3 DEF Along
<1>6. CASE lstat(path).kind = "dir"
  <2> DEFINE f == Frame(path)
             t == Append(level, f)
  <2>1. f \in Frames /\ f.path = Append(Last(level).path, n)
    <3>1. g.path \in Seq(Names) /\ n \in Names /\ "t" \in Names
      BY <1>2 DEF Frames, Names
    <3>2. path \in Seq(Names)
      <4> HIDE DEF g
      <4> QED  BY <3>1
    <3> HIDE DEF path
    <3>3. f \in Frames /\ f.path = path
      BY <3>1, <3>2 DEF Frame, Frames
    <3> QED  BY <3>3, <1>4 DEF path
  <2>2. LstatIn(ent, f.path) # Link
    <3>1. f.path = path
      BY DEF Frame
    <3> HIDE DEF f, path
    <3>2. LstatIn(ent, path).kind = "dir"
      BY <1>6, InThisTree
    <3>3. Link.kind # "dir"
      BY DEF Link, Entry
    <3> QED  BY <3>1, <3>2, <3>3
  <2>3. walk' = [walk EXCEPT ![p].stack = t, ![p].pc = "open"] /\ "open" \in Inside
    BY <1>1, <1>6 DEF Inside
  <2> HIDE DEF f, level, path, g
  <2>4. /\ t \in Seq(Frames) /\ Chain(t) /\ t # <<>>
        /\ \A tree : NoLinks(tree, level) /\ LstatIn(tree, f.path) # Link => NoLinks(tree, t)
    BY <1>2, <1>3, <1>5, <2>1, TopCalls
  <2> HIDE DEF t
  <2>5. PICK c : Goes(p, c) /\ c.stack = t
    BY <1>0, <2>3, <2>4, StackGoes
  <2>6. ASSUME ~linked
        PROVE  /\ \A q \in Walkers : Clear(ent', walk[q])
               /\ Clear(ent', c)
    <3>1. \A q \in Walkers : Clear(ent, walk[q])
      BY <2>6 DEF OtherInv
    <3>2. NoLinks(ent, level)
      BY <3>1, <1>0, <1>3 DEF Along, Clear, s
    <3>3. ent' = ent
      BY <1>0
    <3> QED  BY <2>2, <2>4, <2>5, <3>1, <3>2, <3>3 DEF Clear
  <2>7. FullTree(ent') /\ lost' \in BOOLEAN /\ lost' = lost /\ linked' = linked
    BY <1>0 DEF OtherInv
  <2> QED  BY <2>5, <2>6, <2>7, CallGoes
<1>7. CASE lstat(path).kind # "dir"
  <2>1. PICK pc \in {"err", "unlink"} : walk' = [walk EXCEPT ![p].stack = level, ![p].pc = pc]
    BY <1>1, <1>7
  <2> HIDE DEF level
  <2>2. CASE pc = "unlink"
    <3>1. \E c : Goes(p, c) /\ c.stack = level
      BY <1>0, <1>3, <1>5, <2>1, <2>2, StackGoes DEF Inside
    <3> QED  BY <1>0, <1>3, <3>1, TreeIsLeft
  <2>3. CASE pc = "err"
    <3> DEFINE c == [walk[p] EXCEPT !.stack = level, !.pc = "err"]
    <3>1. c \in OtherCalls /\ c.stack = level /\ c.pc = "err"
      <4>1. walk[p] \in OtherCalls
        BY Here
      <4> QED  BY <1>5, <4>1 DEF OtherCalls
    <3>2. walk' = [walk EXCEPT ![p] = c]
      BY <2>1, <2>3
    <3> HIDE DEF c
    <3>3. Goes(p, c)
      BY <1>5, <3>1, <3>2 DEF Goes, Shape, Inside
    <3> QED  BY <1>0, <1>3, <3>1, <3>3, TreeIsLeft
  <2> QED  BY <2>1, <2>2, <2>3
<1> QED  BY <1>6, <1>7

\* An entry goes from a directory that is not the one outside.
LEMMA TakesAway ==
  ASSUME OtherInv, NEW p \in Walkers,
         \E c : Goes(p, c) /\ Along(walk[p].stack, c.stack), linked' = linked,
         NEW path, NEW where, dir_at(where) # Outside \/ linked,
         Put(path, None) \/ UNCHANGED ent,
         lost' = (lost \/ dir_at(where) = Outside) \/ lost' = lost
  PROVE  OtherInv'
<1>1. PICK c : Goes(p, c) /\ Along(walk[p].stack, c.stack)
  OBVIOUS
<1>2. lost' \in BOOLEAN /\ (linked \/ lost' = lost) /\ FullTree(ent) /\ None \in AllEntries
  BY DEF OtherInv, AllEntries
<1>3. FullTree(ent') /\ \A d \in Dirs, n \in Names : ent'[d][n] = ent[d][n] \/ ent'[d][n] = None
  <2>1. CASE Put(path, None)
    BY <1>2, <2>1, PutFacts
  <2>2. CASE UNCHANGED ent
    BY <1>2, <2>2
  <2> QED  BY <2>1, <2>2
<1> DEFINE Y == {}
<1>4. Y \in SUBSET Temps /\ \A d \in Y : \A n \in Names : ent[d][n] = None
  OBVIOUS
<1> HIDE DEF Y
<1> QED  BY <1>1, <1>2, <1>3, <1>4, TreeChanges

LEMMA UnlinkOtherInv ==
  ASSUME OtherInv, NEW p \in Walkers, unlink(p)
  PROVE  OtherInv'
<1>1. walk[p].pc \in Inside /\ Goto(p, "next") /\ linked' = linked /\ "next" \in Inside
  BY DEF unlink, At, Inside
<1>2. \E c : Goes(p, c) /\ Along(walk[p].stack, c.stack)
  <2>1. \E c : Goes(p, c) /\ c.stack = walk[p].stack
    BY <1>1, PcGoes
  <2> QED  BY <2>1, Here
<1>3. dir_at(Top(p).path) # Outside \/ linked
  BY <1>1, NotOutside
<1>4. \/ Put(Child(p), None) /\ lost' = (lost \/ dir_at(Top(p).path) = Outside)
      \/ UNCHANGED ent /\ lost' = lost
  BY DEF unlink
<1> QED  BY <1>1, <1>2, <1>3, <1>4, TakesAway

LEMMA RmdirOtherInv ==
  ASSUME OtherInv, NEW p \in Walkers, rmdir(p)
  PROVE  OtherInv'
<1>1. walk[p].pc \in Inside /\ linked' = linked /\ (Pop(p) \/ Fails(p))
  BY DEF rmdir, At, Inside
<1>2. \E c : Goes(p, c) /\ Along(walk[p].stack, c.stack)
  BY <1>1, PopGoes
<1>3. dir_at(Front(Top(p).path)) # Outside \/ linked
  BY <1>1, NotOutside
<1>4. \/ Put(Top(p).path, None) /\ lost' = (lost \/ dir_at(Front(Top(p).path)) = Outside)
      \/ UNCHANGED ent /\ lost' = lost
  BY DEF rmdir
<1> QED  BY <1>1, <1>2, <1>3, <1>4, TakesAway

LEMMA ReadsOtherInv ==
  ASSUME OtherInv, NEW p \in Walkers, read_dir(p) \/ ReaddirFails(p)
  PROVE  OtherInv'
<1>1. walk[p].pc \in Inside /\ UNCHANGED <<ent, linked, lost>>
  BY DEF read_dir, ReaddirFails, At, Inside, Keeps
<1>2. Fails(p) \/ \E listed \in SUBSET Names : Lists(p, listed)
  BY DEF read_dir, ReaddirFails
<1>3. \E c : Goes(p, c) /\ Along(walk[p].stack, c.stack)
  BY <1>1, <1>2, PopGoes, ListsGoes
<1> QED  BY <1>1, <1>3, TreeIsLeft

\* A directory is made, and it is empty; or nothing is.
LEMMA CreateOtherInv ==
  ASSUME OtherInv, NEW p \in Walkers, create_dir_all(p)
  PROVE  OtherInv'
<1> DEFINE spot == SubSeq(walk[p].path, 1, walk[p].made + 1)
<1>1. linked' = linked /\ lost' = lost /\ walk[p] \in OtherCalls /\ FullTree(ent) /\ lost \in BOOLEAN
      /\ Shape(walk[p]) /\ walk[p].pc = "mkdir"
  BY DEF create_dir_all, At, OtherInv
<1>2. CASE Goto(p, "err") /\ UNCHANGED ent
  <2>1. \E c : Goes(p, c) /\ c.stack = walk[p].stack
    BY <1>2, PcGoes DEF Inside
  <2> QED  BY <1>1, <1>2, <2>1, Here, TreeIsLeft
<1>3. CASE /\ UNCHANGED ent \/ \E d \in UnusedDirs : Put(spot, Entry("dir", d))
           /\ walk' = [walk EXCEPT ![p].made = @ + 1,
                                   ![p].pc = IF spot = walk[p].path THEN "ok" ELSE "mkdir"]
  <2> DEFINE s == IF spot = walk[p].path THEN "ok" ELSE "mkdir"
             c == [walk[p] EXCEPT !.made = @ + 1, !.pc = s]
  <2>1. s \in {"ok", "mkdir"}
    OBVIOUS
  <2>2. walk' = [walk EXCEPT ![p] = c]
    BY <1>3
  <2> HIDE DEF s
  <2>3. c \in OtherCalls /\ c.stack = walk[p].stack /\ c.pc = s
    <3>1. walk[p].made + 1 \in Int
      BY <1>1 DEF OtherCalls
    <3> QED  BY <1>1, <2>1, <3>1 DEF OtherCalls
  <2> HIDE DEF c, spot
  <2>4. Goes(p, c) /\ Along(walk[p].stack, c.stack)
    BY <1>1, <2>1, <2>2, <2>3, Here DEF Goes, Shape, Inside
  <2>5. CASE UNCHANGED ent
    BY <1>1, <2>4, <2>5, TreeIsLeft
  <2>6. ASSUME NEW d \in UnusedDirs, Put(spot, Entry("dir", d)) PROVE OtherInv'
    <3>1. d \in Temps /\ ent[d] = Empty
      BY DEF UnusedDirs, Dirs, Temps, Root, Outside
    <3>2. Entry("dir", d) \in AllEntries
      BY <3>1 DEF AllEntries
    <3>3. FullTree(ent') /\ \A e \in Dirs, n \in Names : ent'[e][n] = ent[e][n] \/ ent'[e][n] = Entry("dir", d)
      BY <1>1, <2>6, <3>2, PutFacts
    <3> DEFINE Y == {d}
    <3>4. Y \in SUBSET Temps /\ (\A e \in Y : \A n \in Names : ent[e][n] = None)
      BY <3>1 DEF Empty
    <3>5. Entry("dir", d) \in {Entry("dir", y) : y \in Y}
      OBVIOUS
    <3> HIDE DEF Y
    <3> QED  BY <1>1, <2>4, <3>3, <3>4, <3>5, TreeChanges
  <2> QED  BY <1>3, <2>5, <2>6
<1> QED  BY <1>2, <1>3 DEF create_dir_all

LEMMA MkdirFailsOtherInv ==
  ASSUME OtherInv, NEW p \in Walkers, MkdirFails(p)
  PROVE  OtherInv'
<1>1. Goto(p, "err") /\ UNCHANGED <<ent, linked, lost>>
  BY DEF MkdirFails
<1>2. \E c : Goes(p, c) /\ c.stack = walk[p].stack
  BY <1>1, PcGoes DEF Inside
<1> QED  BY <1>1, <1>2, Here, TreeIsLeft

\* The other process puts a link where no walk has been, or linked says so.
LEMMA MeddleOtherInv ==
  ASSUME OtherInv, NEW d \in Dirs, NEW n \in Names, Meddle(d, n)
  PROVE  OtherInv'
<1>1. PICK e \in {None, File, Link} :
        /\ ent' = [ent EXCEPT ![d][n] = e]
        /\ linked' = (linked \/ (e = Link /\ Entered(d, n)))
  BY DEF Meddle
<1>2. walk' = walk /\ lost' = lost
  BY DEF Meddle
<1>3. e \in AllEntries /\ FullTree(ent)
  BY DEF OtherInv, AllEntries
<1>4. FullTree(ent') /\ ent'[d][n] = e
      /\ \A c \in Dirs, m \in Names : ~(c = d /\ m = n) => ent'[c][m] = ent[c][m]
  BY <1>1, <1>3 DEF FullTree
<1>5. ASSUME ~linked', NEW q \in Walkers, walk[q].pc \in Inside PROVE NoLinks(ent', walk[q].stack)
  <2> DEFINE s == walk[q].stack
  <2>1. NoLinks(ent, s) /\ s \in Seq(Frames) /\ Chain(s)
    BY <1>1, <1>5, Here DEF OtherInv, Clear
  <2>2. CASE e # Link
    <3> DEFINE Y == {}
    <3>1. Y \in SUBSET Temps /\ \A c \in Y : \A m \in Names : ent[c][m] = None
      OBVIOUS
    <3> HIDE DEF Y, s
    <3>2. \A c \in Dirs, m \in Names :
            ent'[c][m] = ent[c][m] \/ ent'[c][m] \in {None, File} \cup {Entry("dir", y) : y \in Y}
      BY <1>1, <1>4, <2>2
    <3>3. NoLinks(ent', s)
      BY ONLY <1>3, <1>4, <2>1, <3>1, <3>2, ChangesAreSafe
    <3> QED  BY <3>3 DEF s
  <2>3. CASE e = Link
    <3>1. ~Entered(d, n)
      BY <1>1, <1>5, <2>3 DEF OtherInv
    <3>2. Elsewhere(ent, s, d, n) /\ OneChange(ent, ent', d, n)
      <4>1. ~At(q, "ok") /\ ~At(q, "err")
        BY <1>5 DEF At, Inside
      <4> QED  BY <1>4, <3>1, <4>1, InThisTree DEF Entered, Range, Elsewhere, OneChange
    <3> HIDE DEF s
    <3>3. NoLinks(ent', s)
      BY ONLY <1>3, <1>4, <2>1, <3>2, ElsewhereIsSafe
    <3> QED  BY <3>3 DEF s
  <2> QED  BY <2>2, <2>3
<1>6. linked' \in BOOLEAN /\ (~linked' => ~linked)
  BY <1>1 DEF OtherInv
<1> QED  BY <1>2, <1>4, <1>5, <1>6 DEF OtherInv, Clear

LEMMA OtherNextInv == OtherInv /\ [TreeNext]_treeVars => OtherInv'
<1> SUFFICES ASSUME OtherInv, [TreeNext]_treeVars PROVE OtherInv'
  OBVIOUS
<1>1. ASSUME NEW p \in Walkers, fetch_add(p) \/ new_in(p) \/ Fill(p) \/ DropTempDir(p) \/ Restart(p)
      PROVE  OtherInv'
  <2>1. walk[p].pc \in Inside \cup {"mkdir", "ok", "err"}
    BY Here DEF OtherCalls
  <2> QED  BY <1>1, <2>1 DEF Inside, At, fetch_add, new_in, Fill, DropTempDir, Restart
<1>2. CASE UNCHANGED treeVars
  <2>1. UNCHANGED <<ent, walk, linked, lost>>
    BY <1>2 DEF treeVars
  <2> QED  BY <2>1 DEF OtherInv
<1>3. {"t", "a", "b"} \subseteq Names
  BY DEF Names
<1> QED
  BY <1>1, <1>2, <1>3, ReadsOtherInv, LooksOtherInv, UnlinkOtherInv, RmdirOtherInv, CreateOtherInv,
     MkdirFailsOtherInv, MeddleOtherInv DEF TreeNext

-----------------------------------------------------------------------------
LEMMA Ends ==
  ASSUME NEW x, NEW y
  PROVE  /\ Front(<<x>>) = <<>> /\ Last(<<x>>) = x /\ Append(<<>>, x) = <<x>> /\ Len(<<x>>) = 1
         /\ Append(<<x>>, y) = <<x, y>>
         /\ Front(<<x, y>>) = <<x>> /\ Last(<<x, y>>) = y
<1>1. Front(<<x>>) = <<>>
  <2>1. <<x>> \in Seq({x}) /\ Len(<<x>>) = 1
    OBVIOUS
  <2>2. SubSeq(<<x>>, 1, 0) = <<>>
    BY <2>1
  <2> QED  BY <2>1, <2>2 DEF Front
<1>2. Last(<<x>>) = x /\ Append(<<x>>, y) = <<x, y>> /\ Last(<<x, y>>) = y
  <2>1. Len(<<x>>) = 1 /\ Len(<<x, y>>) = 2 /\ <<x>>[1] = x /\ <<x, y>>[2] = y
    OBVIOUS
  <2> DEFINE s == Append(<<x>>, y)
  <2>2. s = <<x, y>>
    <3>1. <<x>> \in Seq({x, y}) /\ y \in {x, y} /\ <<x, y>> \in Seq({x, y})
      OBVIOUS
    <3>2. s \in Seq({x, y}) /\ Len(s) = 2 /\ s[1] = x /\ s[2] = y
      BY <2>1, <3>1
    <3> HIDE DEF s
    <3> QED  BY <3>1, <3>2
  <2> QED  BY <2>1, <2>2 DEF Last
<1>3. Front(<<x, y>>) = <<x>>
  <2>1. <<x, y>> \in Seq({x, y}) /\ Len(<<x, y>>) = 2 /\ <<x, y>>[1] = x
    OBVIOUS
  <2> DEFINE s == SubSeq(<<x, y>>, 1, 1)
  <2>2. s \in Seq({x, y}) /\ Len(s) = 1 /\ s[1] = x
    BY <2>1
  <2>3. s = <<x>>
    <3> HIDE DEF s
    <3> QED  BY <2>2
  <2> QED  BY <2>1, <2>3 DEF Front
<1>4. Append(<<>>, x) = <<x>>
  <2> DEFINE s == Append(<<>>, x)
  <2>1. <<>> \in Seq({x}) /\ <<x>> \in Seq({x}) /\ Len(<<x>>) = 1 /\ <<x>>[1] = x
    OBVIOUS
  <2>2. s \in Seq({x}) /\ Len(s) = 1 /\ s[1] = x
    BY <2>1
  <2>3. s = <<x>>
    <3> HIDE DEF s
    <3> QED  BY <2>1, <2>2
  <2> QED  BY <2>3
<1>5. Len(<<x>>) = 1
  OBVIOUS
<1> QED  BY <1>1, <1>2, <1>3, <1>4, <1>5

LEMMA OneStep ==
  ASSUME NEW n \in Names
  PROVE  dir_at(<<n>>) = Leads(ent[Root][n])
<1>1. DirIn(ent, Append(<<>>, n)) = Onward(ent, DirIn(ent, <<>>), n)
  <2>1. <<>> \in Seq(Names)
    OBVIOUS
  <2> QED  BY <2>1, NextStep
<1>2. DirIn(ent, <<>>) = Root /\ Root # Nowhere
  BY StartsAtRoot DEF Root, Nowhere
<1> QED  BY <1>1, <1>2, Ends, InThisTree DEF Onward

-----------------------------------------------------------------------------
Entries == {None, File} \cup {Entry("dir", d) : d \in Temps}
IsDir(n) == ent[Root][n].kind = "dir"
DirOf(n) == ent[Root][n].to

\* In the directory the paths start in are directories, each under one name,
\* and in those are files.
TempTree ==
  /\ ent \in [Dirs -> [Names -> Entries]]
  /\ \A d \in Dirs \ {Root}, n \in Names : ent[d][n] \in {None, File}
  /\ \A n \in Names : ent[Root][n] # File
  /\ \A n, m \in Names : IsDir(n) /\ IsDir(m) /\ DirOf(n) = DirOf(m) => n = m

LEMMA EntryFacts ==
  ASSUME NEW e \in Entries
  PROVE  \/ e = None /\ e.kind = "none"
         \/ e = File /\ e.kind = "file"
         \/ e.kind = "dir" /\ e.to \in Temps /\ e = Entry("dir", e.to)
BY DEF Entries, None, File, Entry

LEMMA DirFacts ==
  ASSUME TempTree, NEW n \in Names
  PROVE  /\ IsDir(n) => DirOf(n) \in Temps /\ DirOf(n) \in Dirs /\ DirOf(n) # Root /\ DirOf(n) # Nowhere
                        /\ DirOf(n) # Outside
         /\ ~IsDir(n) => ent[Root][n] = None
         /\ ent[Root][n] = None => ~IsDir(n)
         /\ Root \in Dirs
<1>1. ent[Root][n] \in Entries /\ ent[Root][n] # File /\ Root \in Dirs
  BY DEF TempTree, Dirs
<1>2. None.kind # "dir"
  BY DEF None, Entry
<1> QED  BY <1>1, <1>2, EntryFacts DEF IsDir, DirOf, Temps, Dirs, Root, Nowhere, Outside

LEMMA LooksAtRoot ==
  ASSUME TempTree, NEW n \in Names
  PROVE  /\ lstat(<<n>>) = ent[Root][n]
         /\ dir_at(<<n>>) = IF IsDir(n) THEN DirOf(n) ELSE Nowhere
         /\ \A e : Put(<<n>>, e) => ent' = [ent EXCEPT ![Root][n] = e]
<1>1. Front(<<n>>) = <<>> /\ Last(<<n>>) = n /\ Root # Nowhere
  BY Ends DEF Root, Nowhere
<1>2. ent[Root][n] \in Entries
  BY DEF TempTree, Dirs
<1>3. ent[Root][n].kind # "link"
  BY <1>2, EntryFacts
<1>4. dir_at(<<n>>) = IF IsDir(n) THEN DirOf(n) ELSE Nowhere
  BY <1>3, OneStep DEF Leads, IsDir, DirOf
<1>5. dir_at(<<>>) = Root
  BY StartsAtRoot, InThisTree
<1> QED  BY <1>1, <1>4, <1>5 DEF lstat, Put

LEMMA LooksInside ==
  ASSUME TempTree, NEW n \in Names, NEW m \in Names, IsDir(n)
  PROVE  /\ lstat(Append(<<n>>, m)) = ent[DirOf(n)][m]
         /\ \A e : Put(Append(<<n>>, m), e) => ent' = [ent EXCEPT ![DirOf(n)][m] = e]
<1>1. Front(Append(<<n>>, m)) = <<n>> /\ Last(Append(<<n>>, m)) = m
  BY Ends
<1>2. dir_at(<<n>>) = DirOf(n) /\ DirOf(n) # Nowhere
  BY LooksAtRoot, DirFacts
<1> QED  BY <1>1, <1>2 DEF lstat, Put

\* A name is taken away from the root.
LEMMA NameGoes ==
  ASSUME TempTree, NEW n \in Names, ent' = [ent EXCEPT ![Root][n] = None]
  PROVE  /\ TempTree'
         /\ \A m \in Names \ {n} : ent'[Root][m] = ent[Root][m]
         /\ \A d \in Dirs \ {Root} : ent'[d] = ent[d]
<1>1. Root \in Dirs /\ None \in Entries /\ None # File /\ None.kind # "dir"
  BY DEF Dirs, Entries, None, File, Entry
<1>2. /\ ent' \in [Dirs -> [Names -> Entries]]
      /\ ent'[Root][n] = None
      /\ \A m \in Names \ {n} : ent'[Root][m] = ent[Root][m]
      /\ \A d \in Dirs \ {Root} : ent'[d] = ent[d]
  BY <1>1 DEF TempTree
<1> QED  BY <1>1, <1>2 DEF TempTree, IsDir, DirOf

\* A directory is made under a name.
LEMMA NameComes ==
  ASSUME TempTree, NEW n \in Names, ~IsDir(n), NEW d \in UnusedDirs,
         ent' = [ent EXCEPT ![Root][n] = Entry("dir", d)]
  PROVE  /\ TempTree' /\ ent'[Root][n].kind = "dir"
         /\ \A m \in Names \ {n} : ent'[Root][m] = ent[Root][m]
         /\ \A c \in Dirs \ {Root} : ent'[c] = ent[c]
<1>1. Root \in Dirs /\ d \in Temps
  BY DEF Dirs, Root, Outside, Temps, UnusedDirs
<1>2. Entry("dir", d) \in Entries /\ Entry("dir", d).kind = "dir" /\ Entry("dir", d).to = d /\ Entry("dir", d) # File
  BY <1>1 DEF Entries, Entry, File
<1>3. /\ ent' \in [Dirs -> [Names -> Entries]]
      /\ ent'[Root][n] = Entry("dir", d)
      /\ \A m \in Names \ {n} : ent'[Root][m] = ent[Root][m]
      /\ \A c \in Dirs \ {Root} : ent'[c] = ent[c]
  BY <1>1, <1>2 DEF TempTree
<1>4. ASSUME NEW m \in Names, IsDir(m)
      PROVE  DirOf(m) # d
  <2>1. ent[Root][m] \in Entries
    BY <1>1 DEF TempTree
  <2>2. ent[Root][m] # Entry("dir", d)
    BY <1>1 DEF UnusedDirs
  <2>3. ent[Root][m] = Entry("dir", DirOf(m))
    BY <2>1, <1>4, EntryFacts DEF IsDir, DirOf
  <2> QED  BY <2>2, <2>3
<1>5. \A a, b \in Names : (IsDir(a) /\ IsDir(b) /\ DirOf(a) = DirOf(b))' => a = b
  BY <1>2, <1>3, <1>4 DEF IsDir, DirOf, TempTree
<1> QED  BY <1>2, <1>3, <1>5 DEF TempTree, IsDir

\* A file comes or goes in one of the directories.
LEMMA InsideChanges ==
  ASSUME TempTree, NEW d \in Dirs \ {Root}, NEW m \in Names, NEW e \in {None, File},
         ent' = [ent EXCEPT ![d][m] = e]
  PROVE  /\ TempTree'
         /\ ent'[Root] = ent[Root]
         /\ ent'[d][m] = e
         /\ \A c \in Dirs \ {d} : ent'[c] = ent[c]
<1>1. Root \in Dirs /\ None \in Entries /\ File \in Entries
  BY DEF Dirs, Entries
<1>2. /\ ent' \in [Dirs -> [Names -> Entries]]
      /\ ent'[d][m] = e
      /\ \A n \in Names \ {m} : ent'[d][n] = ent[d][n]
      /\ \A c \in Dirs \ {d} : ent'[c] = ent[c]
      /\ ent'[Root] = ent[Root]
  BY <1>1 DEF TempTree
<1> QED  BY <1>2 DEF TempTree, IsDir, DirOf

-----------------------------------------------------------------------------
Holding == {"fill", "live"} \cup Inside
TempCalls ==
  [op : {"temp"}, made : Int, pc : Holding \cup {"name", "claim", "ok", "err"},
   path : {<<n>> : n \in Names}, stack : {<<>>} \cup {<<f>> : f \in Frames}]

Own(p) == walk[p].path[1]
Holder(p) == walk[p].pc \in Holding
Framed(c) == c.pc \in Inside => \E f \in Frames : c.stack = <<f>> /\ f.path = c.path

\* Who has a directory is alone with its name, and the walk that removes it
\* is in it and no deeper.
Owns(p) ==
  /\ IsDir(Own(p))
  /\ \A q \in Walkers \ {p} : Holder(q) => Own(q) # Own(p)
  /\ walk[p].pc = "live" => ent[DirOf(Own(p))]["b"] = File

TempInv ==
  /\ walk \in [Walkers -> TempCalls]
  /\ COUNTER \in [Walkers -> Nat]
  /\ TempTree
  /\ \A p \in Walkers : Framed(walk[p]) /\ (Holder(p) => Owns(p))

\* One walker steps.
Alone(p) == walk' \in [Walkers -> TempCalls] /\ \A q \in Walkers \ {p} : walk'[q] = walk[q]

LEMMA PathIsOwn ==
  ASSUME walk \in [Walkers -> TempCalls], NEW p \in Walkers
  PROVE  Own(p) \in Names /\ walk[p].path = <<Own(p)>>
<1>1. walk[p].path \in {<<n>> : n \in Names}
  BY DEF TempCalls
<1> QED  BY <1>1 DEF Own

\* A step that changes no directory gives nobody one.
LEMMA TreeStays ==
  ASSUME TempInv, NEW p \in Walkers, Alone(p), UNCHANGED ent, COUNTER' \in [Walkers -> Nat],
         Framed(walk'[p]),
         walk'[p].pc \in Holding => /\ walk[p].pc \in Holding /\ walk'[p].path = walk[p].path
                                    /\ walk'[p].pc = "live" => walk[p].pc = "live"
  PROVE  TempInv'
<1>1. TempTree'
  BY DEF TempInv, TempTree, IsDir, DirOf
<1>2. \A q \in Walkers : Framed(walk[q])'
  BY DEF TempInv, Alone, Framed
<1>3. \A q \in Walkers : Holder(q)' => Holder(q) /\ Own(q)' = Own(q)
  BY DEF Alone, Holder, Own
<1>4. \A q \in Walkers : walk'[q].pc = "live" => walk[q].pc = "live"
  BY DEF Alone, Holding, Inside
<1>5. ASSUME NEW q \in Walkers, Holder(q)'
      PROVE  Owns(q)'
  <2>1. Owns(q)
    BY <1>3, <1>5 DEF TempInv
  <2> QED  BY <2>1, <1>3, <1>4, <1>5 DEF Owns, IsDir, DirOf
<1> QED  BY <1>1, <1>2, <1>5 DEF TempInv, Alone

\* A walker changes what is in the directory it has.
LEMMA OwnChanges ==
  ASSUME TempInv, NEW p \in Walkers, Holder(p), Alone(p), UNCHANGED COUNTER, Framed(walk'[p]),
         walk'[p].path = walk[p].path,
         NEW m \in Names, NEW e \in {None, File},
         ent' = [ent EXCEPT ![DirOf(Own(p))][m] = e],
         walk'[p].pc = "live" => m = "b" /\ e = File
  PROVE  TempInv'
<1>0. Own(p) \in Names /\ IsDir(Own(p)) /\ TempTree /\ DirOf(Own(p)) \in Dirs \ {Root}
  BY PathIsOwn, DirFacts DEF TempInv, Owns
<1>1. /\ TempTree'
      /\ ent'[Root] = ent[Root]
      /\ ent'[DirOf(Own(p))][m] = e
      /\ \A c \in Dirs \ {DirOf(Own(p))} : ent'[c] = ent[c]
  BY <1>0, InsideChanges
<1>2. \A q \in Walkers : Framed(walk[q])'
  BY DEF TempInv, Alone, Framed
<1>3. \A q \in Walkers : (Holder(q)' => Holder(q)) /\ Own(q)' = Own(q) /\ Own(q) \in Names
  BY PathIsOwn DEF Alone, Holder, Own, TempInv
<1>4. \A n : (IsDir(n)' <=> IsDir(n)) /\ DirOf(n)' = DirOf(n)
  BY <1>1 DEF IsDir, DirOf
<1>5. ASSUME NEW q \in Walkers, Holder(q)'
      PROVE  Owns(q)'
  <2>1. Owns(q)
    BY <1>3, <1>5 DEF TempInv
  <2>2. IsDir(Own(q))' /\ \A r \in Walkers \ {q} : (Holder(r) => Own(r) # Own(q))'
    BY <2>1, <1>3, <1>4 DEF Owns
  <2>3. ASSUME walk'[q].pc = "live"
        PROVE  (ent[DirOf(Own(q))]["b"] = File)'
    <3>1. CASE q = p
      BY <2>3, <3>1, <1>1, <1>3, <1>4
    <3>2. CASE q # p
      <4>1. DirOf(Own(q)) # DirOf(Own(p)) /\ DirOf(Own(q)) \in Dirs
        BY <2>1, <3>2, <1>0, <1>3, DirFacts DEF Owns, TempTree
      <4>2. walk[q].pc = "live"
        BY <2>3, <3>2 DEF Alone
      <4> QED  BY <2>1, <4>1, <4>2, <1>1, <1>3, <1>4 DEF Owns
    <3> QED  BY <3>1, <3>2
  <2> QED  BY <2>2, <2>3 DEF Owns
<1> QED  BY <1>1, <1>2, <1>5 DEF TempInv, Alone

\* What one call of TempDir does to itself.
LEMMA Moves ==
  ASSUME walk \in [Walkers -> TempCalls], NEW p \in Walkers, NEW c \in TempCalls,
         walk' = [walk EXCEPT ![p] = c]
  PROVE  Alone(p) /\ walk'[p] = c
BY DEF Alone

LEMMA GoesTo ==
  ASSUME walk \in [Walkers -> TempCalls], NEW p \in Walkers,
         NEW s \in Holding \cup {"name", "claim", "ok", "err"}, Goto(p, s)
  PROVE  /\ Alone(p) /\ walk'[p].pc = s
         /\ walk'[p].path = walk[p].path /\ walk'[p].stack = walk[p].stack
<1> DEFINE c == [walk[p] EXCEPT !.pc = s]
<1>1. c \in TempCalls /\ c.pc = s /\ c.path = walk[p].path /\ c.stack = walk[p].stack
  BY DEF TempCalls
<1>2. walk' = [walk EXCEPT ![p] = c]
  BY DEF Goto
<1> HIDE DEF c
<1> QED  BY <1>1, <1>2, Moves

LEMMA InRemoval ==
  ASSUME TempInv, NEW p \in Walkers, walk[p].pc \in Inside
  PROVE  /\ \E f \in Frames : /\ walk[p].stack = <<f>> /\ Top(p) = f
                              /\ f.path = <<Own(p)>> /\ f.path = walk[p].path
         /\ Own(p) \in Names /\ IsDir(Own(p)) /\ walk[p].op = "temp"
         /\ DirOf(Own(p)) \in Dirs \ {Root}
         /\ Holder(p)
<1>1. PICK f \in Frames : walk[p].stack = <<f>> /\ f.path = walk[p].path
  BY DEF TempInv, Framed
<1>2. Own(p) \in Names /\ walk[p].path = <<Own(p)>> /\ walk[p].op = "temp"
  BY PathIsOwn DEF TempInv, TempCalls
<1>3. Holder(p) /\ IsDir(Own(p))
  BY DEF TempInv, Holder, Holding, Owns
<1>4. DirOf(Own(p)) \in Dirs \ {Root}
  BY <1>2, <1>3, DirFacts DEF TempInv
<1> QED  BY <1>1, <1>2, <1>3, <1>4, Ends DEF Top

LEMMA PopEnds ==
  ASSUME TempInv, NEW p \in Walkers, walk[p].pc \in Inside, Pop(p) \/ Fails(p)
  PROVE  Alone(p) /\ walk'[p].pc = "ok"
<1>1. Pop(p)
  BY InRemoval DEF Fails
<1>2. Len(walk[p].stack) = 1
  BY InRemoval, Ends
<1>3. Goto(p, "ok")
  BY <1>1, <1>2 DEF Pop
<1> QED  BY <1>3, GoesTo DEF TempInv

\* The innermost call goes on with a frame of its own.
LEMMA FrameStays ==
  ASSUME TempInv, NEW p \in Walkers, walk[p].pc \in Inside, NEW s \in Inside, NEW g \in Frames,
         g.path = walk[p].path, walk' = [walk EXCEPT ![p].stack = <<g>>, ![p].pc = s]
  PROVE  Alone(p) /\ Framed(walk'[p]) /\ walk'[p].pc = s /\ walk'[p].path = walk[p].path
<1> DEFINE c == [walk[p] EXCEPT !.stack = <<g>>, !.pc = s]
<1>1. c \in TempCalls /\ c.pc = s /\ c.path = walk[p].path /\ c.stack = <<g>>
  <2>1. s \in Holding /\ <<g>> \in {<<>>} \cup {<<f>> : f \in Frames} /\ walk[p] \in TempCalls
    BY DEF Holding, TempInv
  <2> QED  BY <2>1 DEF TempCalls
<1>2. walk' = [walk EXCEPT ![p] = c]
  OBVIOUS
<1> HIDE DEF c
<1> QED  BY <1>1, <1>2, Moves DEF TempInv, Framed

LEMMA ListsInv ==
  ASSUME TempInv, NEW p \in Walkers, walk[p].pc = "open", UNCHANGED <<ent, COUNTER>>,
         Fails(p) \/ \E listed \in SUBSET Names : Lists(p, listed)
  PROVE  TempInv'
<1>0. walk[p].pc \in Inside /\ COUNTER' \in [Walkers -> Nat] /\ UNCHANGED ent
  BY DEF Inside, TempInv
<1>1. CASE Fails(p)
  <2>1. Alone(p) /\ walk'[p].pc = "ok"
    BY <1>0, <1>1, PopEnds
  <2>2. Framed(walk'[p]) /\ walk'[p].pc \notin Holding
    BY <2>1 DEF Framed, Holding, Inside
  <2> QED  BY <1>0, <2>1, <2>2, TreeStays
<1>2. ASSUME NEW listed \in SUBSET Names, Lists(p, listed)
      PROVE  TempInv'
  <2>1. PICK f \in Frames : walk[p].stack = <<f>> /\ Top(p) = f /\ f.path = walk[p].path
    BY <1>0, InRemoval
  <2> DEFINE g == [f EXCEPT !.todo = listed]
  <2>2. g \in Frames /\ g.path = walk[p].path
    BY <2>1 DEF Frames
  <2>3. Append(Front(walk[p].stack), g) = <<g>>
    <3> HIDE DEF g
    <3>1. Front(walk[p].stack) = <<>>
      BY <2>1, Ends
    <3>2. Append(<<>>, g) = <<g>>
      BY ONLY Ends
    <3> QED  BY <3>1, <3>2
  <2>4. walk' = [walk EXCEPT ![p].pc = "next", ![p].stack = <<g>>]
    BY <1>2, <2>1, <2>3 DEF Lists
  <2>5. walk' = [walk EXCEPT ![p].stack = <<g>>, ![p].pc = "next"] /\ "next" \in Inside
    <3> HIDE DEF g
    <3> QED  BY <2>4 DEF TempInv, TempCalls, Inside
  <2> HIDE DEF g
  <2>6. Alone(p) /\ Framed(walk'[p]) /\ walk'[p].pc = "next" /\ walk'[p].path = walk[p].path
    BY <1>0, <2>2, <2>5, FrameStays
  <2>7. walk[p].pc \in Holding
    BY <1>0 DEF Holding
  <2> QED  BY <1>0, <2>6, <2>7, TreeStays
<1> QED  BY <1>1, <1>2

\* One turn of the loop: what TempDir's directory holds is no directory.
LEMMA LooksInv ==
  ASSUME TempInv, NEW p \in Walkers, symlink_metadata(p)
  PROVE  TempInv'
<1>0. /\ walk[p].pc = "next" /\ walk[p].pc \in Inside /\ walk[p].pc \in Holding
      /\ COUNTER' \in [Walkers -> Nat] /\ UNCHANGED ent
  BY DEF symlink_metadata, Looks, At, Inside, Holding, Keeps, TempInv
<1>1. PICK f \in Frames : walk[p].stack = <<f>> /\ Top(p) = f /\ f.path = <<Own(p)>> /\ f.path = walk[p].path
  BY <1>0, InRemoval
<1>2. Own(p) \in Names /\ IsDir(Own(p)) /\ DirOf(Own(p)) \in Dirs \ {Root} /\ walk[p].op = "temp" /\ TempTree
  BY <1>0, InRemoval DEF TempInv
<1>3. PICK n \in f.todo :
        LET frame == [f EXCEPT !.todo = @ \ {n}, !.name = n]
            path == Append(frame.path, n)
            level == Append(Front(walk[p].stack), frame)
        IN  walk' =
              IF lstat(path).kind = "dir"
              THEN [walk EXCEPT ![p].stack = Append(level, Frame(path)), ![p].pc = "open"]
              ELSE [walk EXCEPT ![p].stack = level,
                                ![p].pc = IF lstat(path) = None /\ walk[p].op = "fs_remove"
                                          THEN "err" ELSE "unlink"]
  BY <1>1 DEF symlink_metadata, Looks
<1> DEFINE g == [f EXCEPT !.todo = @ \ {n}, !.name = n]
<1>4. n \in Names /\ g \in Frames /\ g.path = <<Own(p)>> /\ g.path = walk[p].path
  BY <1>1 DEF Frames
<1>5. lstat(Append(<<Own(p)>>, n)) \in {None, File}
  BY <1>2, <1>4, LooksInside DEF TempTree
<1>6. lstat(Append(g.path, n)).kind # "dir"
  BY <1>4, <1>5 DEF None, File, Entry
<1>7. Append(Front(walk[p].stack), g) = <<g>>
  <2> HIDE DEF g
  <2>1. Front(walk[p].stack) = <<>>
    BY <1>1, Ends
  <2>2. Append(<<>>, g) = <<g>>
    BY ONLY Ends
  <2> QED  BY <2>1, <2>2
<1>8. walk' = [walk EXCEPT ![p].stack = <<g>>, ![p].pc = "unlink"]
  BY <1>2, <1>3, <1>6, <1>7
<1> HIDE DEF g
<1>9. Alone(p) /\ Framed(walk'[p]) /\ walk'[p].pc = "unlink" /\ walk'[p].path = walk[p].path
  BY <1>0, <1>4, <1>8, FrameStays DEF Inside
<1> QED  BY <1>0, <1>9, TreeStays

LEMMA UnlinkTempInv ==
  ASSUME TempInv, NEW p \in Walkers, unlink(p)
  PROVE  TempInv'
<1>0. /\ walk[p].pc = "unlink" /\ walk[p].pc \in Inside /\ walk[p].pc \in Holding /\ Holder(p)
      /\ COUNTER' \in [Walkers -> Nat] /\ UNCHANGED COUNTER /\ Goto(p, "next")
  BY DEF unlink, At, Inside, Holding, Holder, TempInv
<1>1. PICK f \in Frames : walk[p].stack = <<f>> /\ Top(p) = f /\ f.path = <<Own(p)>> /\ f.path = walk[p].path
  BY <1>0, InRemoval
<1>2. Own(p) \in Names /\ IsDir(Own(p)) /\ f.name \in Names /\ TempTree
  BY <1>0, InRemoval DEF TempInv, Frames
<1>3. Alone(p) /\ walk'[p].pc = "next" /\ walk'[p].path = walk[p].path /\ walk'[p].stack = walk[p].stack
  BY <1>0, GoesTo DEF TempInv, Holding, Inside
<1>4. Framed(walk'[p])
  BY <1>1, <1>3 DEF Framed
<1>5. CASE UNCHANGED ent
  BY <1>0, <1>3, <1>4, <1>5, TreeStays
<1>6. CASE Put(Child(p), None)
  <2>1. ent' = [ent EXCEPT ![DirOf(Own(p))][f.name] = None]
    BY <1>1, <1>2, <1>6, LooksInside DEF Child
  <2> QED  BY <1>0, <1>2, <1>3, <1>4, <2>1, OwnChanges
<1> QED  BY <1>5, <1>6 DEF unlink

\* The name goes, and so does the walker's hold of it.
LEMMA RmdirTempInv ==
  ASSUME TempInv, NEW p \in Walkers, rmdir(p)
  PROVE  TempInv'
<1>0. /\ walk[p].pc \in Inside /\ walk[p].pc \in Holding /\ Holder(p)
      /\ COUNTER' \in [Walkers -> Nat] /\ UNCHANGED COUNTER /\ (Pop(p) \/ Fails(p))
  BY DEF rmdir, At, Inside, Holding, Holder, TempInv
<1>1. Top(p).path = <<Own(p)>> /\ Own(p) \in Names /\ IsDir(Own(p)) /\ TempTree
  BY <1>0, InRemoval DEF TempInv
<1>2. Alone(p) /\ walk'[p].pc = "ok"
  BY <1>0, PopEnds
<1>3. Framed(walk'[p]) /\ walk'[p].pc \notin Holding
  BY <1>2 DEF Framed, Holding, Inside
<1>4. CASE UNCHANGED ent
  BY <1>0, <1>2, <1>3, <1>4, TreeStays
<1>5. CASE Put(<<Own(p)>>, None)
  <2>1. ent' = [ent EXCEPT ![Root][Own(p)] = None]
    BY <1>1, <1>5, LooksAtRoot
  <2>2. /\ TempTree'
        /\ \A m \in Names \ {Own(p)} : ent'[Root][m] = ent[Root][m]
        /\ \A d \in Dirs \ {Root} : ent'[d] = ent[d]
    BY <1>1, <2>1, NameGoes
  <2>3. \A q \in Walkers : Framed(walk[q])'
    BY <1>2, <1>3 DEF TempInv, Alone
  <2>4. ASSUME NEW q \in Walkers, Holder(q)'
        PROVE  Owns(q)'
    <3>1. q # p /\ walk'[q] = walk[q] /\ Holder(q) /\ Owns(q)
      BY <1>2, <1>3, <2>4 DEF Holder, Alone, TempInv
    <3>2. Own(q) \in Names /\ Own(q) # Own(p) /\ Own(q)' = Own(q)
      BY <1>0, <3>1, PathIsOwn DEF Owns, Own, TempInv
    <3>3. IsDir(Own(q))' /\ DirOf(Own(q))' = DirOf(Own(q)) /\ DirOf(Own(q)) \in Dirs \ {Root}
      BY <1>1, <2>2, <3>1, <3>2, DirFacts DEF IsDir, DirOf, Owns
    <3>4. \A r \in Walkers \ {q} : Holder(r)' => Own(r)' # Own(q)'
      BY <1>2, <1>3, <3>1, <3>2 DEF Alone, Holder, Own, Owns
    <3>5. walk'[q].pc = "live" => (ent[DirOf(Own(q))]["b"] = File)'
      BY <2>2, <3>1, <3>2, <3>3 DEF Owns
    <3> QED  BY <3>3, <3>4, <3>5 DEF Owns
  <2> QED  BY <1>0, <1>2, <2>2, <2>3, <2>4 DEF TempInv, Alone
<1> QED  BY <1>1, <1>4, <1>5 DEF rmdir

\* The next name of this process's counter.
LEMMA FetchAddInv ==
  ASSUME TempInv, NEW p \in Walkers, fetch_add(p)
  PROVE  TempInv'
<1> DEFINE c == [walk[p] EXCEPT !.path = <<TempNames[COUNTER[p] + 1]>>, !.pc = "claim"]
<1>1. TempNames[COUNTER[p] + 1] \in Names
  <2>1. COUNTER[p] + 1 \in 1 .. Len(TempNames) /\ DOMAIN TempNames = 1 .. Len(TempNames)
    BY TreeAssumption DEF fetch_add, TempInv
  <2> QED  BY <2>1 DEF Names, Range
<1>2. c \in TempCalls /\ c.pc = "claim"
  <2>1. walk[p] \in TempCalls
    BY DEF TempInv
  <2> QED  BY <1>1, <2>1 DEF TempCalls
<1>3. walk' = [walk EXCEPT ![p] = c]
  BY DEF fetch_add
<1>a. UNCHANGED ent /\ COUNTER' \in [Walkers -> Nat]
  <2>1. COUNTER \in [Walkers -> Nat] /\ COUNTER' = [COUNTER EXCEPT ![p] = COUNTER[p] + 1]
    BY DEF fetch_add, TempInv
  <2> QED  BY <2>1 DEF fetch_add
<1> HIDE DEF c
<1>4. Alone(p) /\ walk'[p].pc = "claim"
  BY <1>2, <1>3, Moves DEF TempInv
<1>5. Framed(walk'[p]) /\ walk'[p].pc \notin Holding
  BY <1>4 DEF Framed, Holding, Inside
<1> QED  BY <1>a, <1>4, <1>5, TreeStays

\* mkdir gives the name to one: nobody holds a name that is not a directory.
LEMMA NewInInv ==
  ASSUME TempInv, NEW p \in Walkers, new_in(p)
  PROVE  TempInv'
<1>0. /\ walk[p].pc = "claim" /\ walk[p].path = <<Own(p)>> /\ Own(p) \in Names /\ TempTree
      /\ COUNTER' \in [Walkers -> Nat] /\ ~Holder(p)
  BY PathIsOwn DEF new_in, At, TempInv, Holder, Holding, Inside
<1>1. CASE lstat(walk[p].path) = None
  <2>1. PICK d \in UnusedDirs : Put(<<Own(p)>>, Entry("dir", d))
    BY <1>0, <1>1 DEF new_in
  <2>2. ent' = [ent EXCEPT ![Root][Own(p)] = Entry("dir", d)] /\ ~IsDir(Own(p))
    BY <1>0, <1>1, <2>1, LooksAtRoot, DirFacts
  <2>3. /\ TempTree' /\ ent'[Root][Own(p)].kind = "dir"
        /\ \A m \in Names \ {Own(p)} : ent'[Root][m] = ent[Root][m]
        /\ \A e \in Dirs \ {Root} : ent'[e] = ent[e]
    BY ONLY <1>0, <2>2, NameComes
  <2>4. Alone(p) /\ walk'[p].pc = "fill" /\ walk'[p].path = walk[p].path
    BY <1>1, GoesTo DEF new_in, TempInv, Holding
  <2>5. Own(p)' = Own(p) /\ Framed(walk'[p])
    BY <2>4 DEF Own, Framed, Inside
  <2>6. \A q \in Walkers : Framed(walk[q])'
    BY <2>4, <2>5 DEF TempInv, Alone
  <2>7. ASSUME NEW q \in Walkers \ {p}, Holder(q)'
        PROVE  /\ Holder(q) /\ Owns(q) /\ Own(q)' = Own(q) /\ Own(q) \in Names /\ Own(q) # Own(p)
               /\ walk'[q].pc = walk[q].pc
    <3>1. walk'[q] = walk[q] /\ Holder(q) /\ Owns(q) /\ Own(q)' = Own(q) /\ Own(q) \in Names
      BY <2>4, <2>7, PathIsOwn DEF Holder, Own, Alone, TempInv
    <3>2. Own(q) # Own(p)
      BY <3>1, <2>2 DEF Owns
    <3> QED  BY <3>1, <3>2
  <2>8. Owns(p)'
    BY <2>3, <2>4, <2>5, <2>7 DEF Owns, IsDir
  <2>9. ASSUME NEW q \in Walkers \ {p}, Holder(q)'
        PROVE  Owns(q)'
    <3>1. IsDir(Own(q))' /\ DirOf(Own(q))' = DirOf(Own(q)) /\ DirOf(Own(q)) \in Dirs \ {Root}
      BY <1>0, <2>3, <2>7, <2>9, DirFacts DEF IsDir, DirOf, Owns
    <3>2. \A r \in Walkers \ {q} : Holder(r)' => Own(r)' # Own(q)'
      BY <2>5, <2>7, <2>9 DEF Owns
    <3>3. walk'[q].pc = "live" => (ent[DirOf(Own(q))]["b"] = File)'
      BY <2>3, <2>7, <2>9, <3>1 DEF Owns
    <3> QED  BY <3>1, <3>2, <3>3 DEF Owns
  <2> QED  BY <1>0, <2>3, <2>4, <2>6, <2>8, <2>9 DEF TempInv, Alone
<1>2. CASE lstat(walk[p].path) # None
  <2> DEFINE s == IF walk[p].made + 1 = Attempts THEN "err" ELSE "name"
             c == [walk[p] EXCEPT !.made = @ + 1, !.pc = s]
  <2>1. c \in TempCalls /\ c.pc \in {"err", "name"}
    <3>1. walk[p] \in TempCalls /\ s \in {"err", "name"}
      BY DEF TempInv
    <3> HIDE DEF s
    <3>2. walk[p].made + 1 \in Int
      BY <3>1 DEF TempCalls
    <3> QED  BY <3>1, <3>2 DEF TempCalls
  <2>2. walk' = [walk EXCEPT ![p] = c] /\ UNCHANGED ent
    BY <1>2 DEF new_in
  <2> HIDE DEF c
  <2>3. Alone(p) /\ walk'[p].pc \in {"err", "name"}
    BY <2>1, <2>2, Moves DEF TempInv
  <2>4. Framed(walk'[p]) /\ walk'[p].pc \notin Holding
    BY <2>3 DEF Framed, Holding, Inside
  <2> QED  BY <1>0, <2>2, <2>3, <2>4, TreeStays
<1> QED  BY <1>1, <1>2

LEMMA FillInv ==
  ASSUME TempInv, NEW p \in Walkers, Fill(p)
  PROVE  TempInv'
<1>0. /\ walk[p].pc = "fill" /\ Holder(p) /\ walk[p].path = <<Own(p)>> /\ Own(p) \in Names
      /\ TempTree /\ UNCHANGED COUNTER /\ Goto(p, "live") /\ "b" \in Names
  BY PathIsOwn DEF Fill, At, Holder, Holding, TempInv, Names
<1>1. IsDir(Own(p)) /\ ent' = [ent EXCEPT ![DirOf(Own(p))]["b"] = File]
  <2>1. IsDir(Own(p))
    BY <1>0 DEF TempInv, Owns
  <2>2. Put(Append(<<Own(p)>>, "b"), File)
    BY <1>0 DEF Fill
  <2> QED  BY ONLY <1>0, <2>1, <2>2, LooksInside
<1>2. /\ Alone(p) /\ walk'[p].pc = "live" /\ walk'[p].path = walk[p].path
  BY <1>0, GoesTo DEF TempInv, Holding
<1>3. Framed(walk'[p])
  BY <1>2 DEF Framed, Inside
<1> QED  BY <1>0, <1>1, <1>2, <1>3, OwnChanges

LEMMA DropTempDirInv ==
  ASSUME TempInv, NEW p \in Walkers, DropTempDir(p)
  PROVE  TempInv'
<1> DEFINE g == Frame(walk[p].path)
           c == [walk[p] EXCEPT !.stack = <<g>>, !.pc = "open"]
<1>0. walk[p].pc = "live" /\ walk[p].pc \in Holding /\ UNCHANGED ent /\ COUNTER' \in [Walkers -> Nat]
  BY DEF DropTempDir, At, Keeps, Holding, TempInv
<1>1. g \in Frames /\ g.path = walk[p].path
  <2>1. walk[p].path = <<Own(p)>> /\ Own(p) \in Names /\ "t" \in Names
    BY PathIsOwn DEF TempInv, Names
  <2>2. \A n \in Names : <<n>> \in Seq(Names)
    OBVIOUS
  <2> QED  BY <2>1, <2>2 DEF Frame, Frames
<1>2. walk' = [walk EXCEPT ![p] = c]
  BY DEF DropTempDir
<1> HIDE DEF g
<1>3. c \in TempCalls /\ c.pc = "open" /\ c.stack = <<g>> /\ c.path = walk[p].path
  <2>1. walk[p] \in TempCalls /\ <<g>> \in {<<>>} \cup {<<f>> : f \in Frames} /\ "open" \in Holding
    BY <1>1 DEF TempInv, Holding, Inside
  <2> QED  BY <2>1 DEF TempCalls
<1> HIDE DEF c
<1>4. Alone(p) /\ walk'[p] = c
  BY <1>2, <1>3, Moves DEF TempInv
<1>5. Framed(walk'[p])
  BY <1>1, <1>3, <1>4 DEF Framed
<1> QED  BY <1>0, <1>3, <1>4, <1>5, TreeStays

LEMMA TempWalk ==
  Walk("temp") \in TempCalls /\ Walk("temp").pc = "name" /\ Framed(Walk("temp"))
<1> DEFINE c == [op |-> "temp", made |-> 0, path |-> <<"t">>, stack |-> <<>>, pc |-> "name"]
<1>1. Walk("temp") = c
  BY DEF Walk, Removals
<1>2. c \in TempCalls
  BY DEF TempCalls, Names
<1> QED  BY <1>1, <1>2 DEF Framed, Inside

LEMMA RestartInv ==
  ASSUME TempInv, NEW p \in Walkers, Restart(p)
  PROVE  TempInv'
<1>1. walk' = [walk EXCEPT ![p] = Walk("temp")] /\ UNCHANGED ent /\ COUNTER' \in [Walkers -> Nat]
  BY DEF Restart, TempInv
<1>2. Alone(p) /\ walk'[p] = Walk("temp")
  BY <1>1, TempWalk, Moves DEF TempInv
<1>3. Framed(walk'[p]) /\ walk'[p].pc \notin Holding
  BY <1>2, TempWalk DEF Holding, Inside
<1> QED  BY <1>1, <1>2, <1>3, TreeStays

LEMMA MkdirFailsInv ==
  ASSUME TempInv, NEW p \in Walkers, MkdirFails(p)
  PROVE  TempInv'
<1>1. Goto(p, "err") /\ UNCHANGED ent /\ COUNTER' \in [Walkers -> Nat]
  BY DEF MkdirFails, TempInv
<1>2. Alone(p) /\ walk'[p].pc = "err"
  BY <1>1, GoesTo DEF TempInv
<1>3. Framed(walk'[p]) /\ walk'[p].pc \notin Holding
  BY <1>2 DEF Framed, Holding, Inside
<1> QED  BY <1>1, <1>2, <1>3, TreeStays

LEMMA TempNextInv == TempInv /\ [TreeNext]_treeVars => TempInv'
<1> SUFFICES ASSUME TempInv, [TreeNext]_treeVars PROVE TempInv'
  OBVIOUS
<1>1. ASSUME NEW p \in Walkers, read_dir(p) PROVE TempInv'
  <2>1. walk[p].pc = "open" /\ UNCHANGED <<ent, COUNTER>>
    BY <1>1 DEF read_dir, At, Keeps
  <2>2. Fails(p) \/ Lists(p, {n \in Names : ent[dir_at(Top(p).path)][n] # None})
    BY <1>1 DEF read_dir
  <2> QED  BY <2>1, <2>2, ListsInv
<1>2. ASSUME NEW p \in Walkers, ReaddirFails(p) PROVE TempInv'
  <2>1. walk[p].pc = "open" /\ UNCHANGED <<ent, COUNTER>>
    BY <1>2 DEF ReaddirFails, At
  <2>2. Fails(p) \/ \E listed \in SUBSET Names : Lists(p, listed)
    BY <1>2 DEF ReaddirFails
  <2> QED  BY <2>1, <2>2, ListsInv
<1>3. ASSUME NEW p \in Walkers, create_dir_all(p) PROVE TempInv'
  BY <1>3 DEF create_dir_all, At, TempInv, TempCalls, Holding, Inside
<1>4. ASSUME NEW d \in Dirs \ {Outside}, NEW n \in {"t", "a", "b"}, Meddle(d, n) PROVE TempInv'
  BY <1>4 DEF Meddle, TempInv, TempCalls
<1>5. CASE UNCHANGED treeVars
  <2>1. UNCHANGED <<ent, walk, COUNTER>>
    BY <1>5 DEF treeVars
  <2>2. TempTree'
    BY <2>1 DEF TempInv, TempTree, IsDir, DirOf
  <2> QED  BY <2>1, <2>2 DEF TempInv, Framed, Holder, Owns, Own, IsDir, DirOf
<1> QED
  BY <1>1, <1>2, <1>3, <1>4, <1>5, LooksInv, UnlinkTempInv, RmdirTempInv, MkdirFailsInv, FetchAddInv,
     NewInInv, FillInv, DropTempDirInv, RestartInv DEF TreeNext

LEMMA TreesAreFull ==
  ASSUME NEW tree \in Trees
  PROVE  FullTree(tree)
<1>1. ASSUME NEW n, NEW e \in AllEntries PROVE With(n, e) \in [Names -> AllEntries]
  BY DEF With, Empty, AllEntries
<1>2. /\ {None, File, Link} \subseteq AllEntries
      /\ Entry("dir", "t1") \in AllEntries /\ Entry("dir", "t2") \in AllEntries
  BY DEF AllEntries, Temps
<1>3. PICK t \in {None, File, Link, Entry("dir", "t1")}, a \in {None, File, Link, Entry("dir", "t2")},
           b \in {None, File} : tree = Tree(t, a, b)
  BY DEF Trees
<1>4. /\ With("t", t) \in [Names -> AllEntries] /\ With("b", File) \in [Names -> AllEntries]
      /\ With("a", a) \in [Names -> AllEntries] /\ Empty \in [Names -> AllEntries]
  BY <1>1, <1>2 DEF Empty
<1>5. [With("a", a) EXCEPT !["b"] = b] \in [Names -> AllEntries]
  <2> DEFINE w == With("a", a)
  <2>1. w \in [Names -> AllEntries] /\ b \in AllEntries
    BY <1>2, <1>4
  <2> HIDE DEF w
  <2>2. [w EXCEPT !["b"] = b] \in [Names -> AllEntries]
    BY <2>1
  <2> QED  BY <2>2 DEF w
<1>6. ASSUME NEW d \in Dirs PROVE tree[d] \in [Names -> AllEntries]
  <2> DEFINE x == With("t", t)
             y == [With("a", a) EXCEPT !["b"] = b]
             z == With("b", File)
  <2>1. {x, y, z, Empty} \subseteq [Names -> AllEntries]
    BY <1>4, <1>5
  <2>2. tree[d] \in {x, y, z, Empty}
    <3>1. tree[d] = CASE d = Root -> x
                      [] d = "t1" /\ t.kind = "dir" -> y
                      [] d = "t2" /\ t.kind = "dir" /\ a.kind = "dir" -> z
                      [] d = Outside -> z
                      [] OTHER -> Empty
      BY <1>3 DEF Tree
    <3> HIDE DEF x, y, z
    <3> QED  BY <3>1 DEF Root, Outside
  <2> HIDE DEF x, y, z
  <2> QED  BY <2>1, <2>2
<1>7. tree = [d \in Dirs |-> tree[d]]
  BY <1>3 DEF Tree
<1> QED  BY <1>6, <1>7 DEF FullTree

\* A removal starts in the directory it is asked to remove.
LEMMA WalkStarts ==
  ASSUME NEW op \in {"create", "none"} \cup Removals, NEW tree
  PROVE  /\ Walk(op) \in OtherCalls /\ Shape(Walk(op))
         /\ tree[Root]["t"] # Link => NoLinks(tree, Walk(op).stack)
<1> DEFINE f == Frame(<<"t">>)
<1>1. "t" \in Names /\ "a" \in Names /\ Append(<<>>, "t") = <<"t">> /\ <<>> \in Seq(Names)
  BY Ends DEF Names
<1>2. f \in Frames /\ f.path = <<"t">>
  BY <1>1 DEF Frame, Frames
<1>3. CASE op \in Removals
  <2>1. /\ Walk(op).op = op /\ Walk(op).pc = "open" /\ Walk(op).stack = <<f>>
        /\ Walk(op) = [op |-> op, made |-> 0, path |-> <<"t">>, stack |-> <<f>>, pc |-> "open"]
    BY <1>3 DEF Walk, Removals
  <2> HIDE DEF f
  <2>2. <<f>> \in Seq(Frames) /\ <<f>> # <<>> /\ DOMAIN <<f>> = {1} /\ <<f>>[1] = f
    BY <1>2
  <2>3. Walk(op) \in OtherCalls
    BY <1>1, <1>3, <2>1, <2>2 DEF OtherCalls, Inside
  <2>4. Chain(<<f>>)
    BY <1>1, <1>2, <2>2 DEF Chain
  <2>5. LstatIn(tree, <<"t">>) = tree[Root]["t"]
    <3> DEFINE top == <<>>
    <3>1. top \in Seq(Names) /\ DirIn(tree, top) = Root /\ Append(top, "t") = <<"t">> /\ "t" \in Names
      BY <1>1, StartsAtRoot
    <3> HIDE DEF top
    <3>2. LstatIn(tree, Append(top, "t")) =
            IF DirIn(tree, top) = Nowhere THEN None ELSE tree[DirIn(tree, top)]["t"]
      BY <3>1, LastStep
    <3> QED  BY <3>1, <3>2 DEF Root, Nowhere
  <2> QED  BY <1>2, <2>1, <2>2, <2>3, <2>4, <2>5 DEF Shape, NoLinks
<1>4. CASE op \notin Removals
  <2>1. /\ Walk(op).stack = <<>> /\ Walk(op).pc \in {"mkdir", "ok"}
        /\ \E path \in {<<"t", "a">>, <<"t">>}, pc \in {"mkdir", "ok"} :
             Walk(op) = [op |-> op, made |-> 0, path |-> path, stack |-> <<>>, pc |-> pc]
    BY <1>4 DEF Walk, Removals
  <2>2. <<>> \in Seq(Frames) /\ DOMAIN <<>> = {}
    OBVIOUS
  <2>3. <<"t", "a">> \in Seq(Names) /\ <<"t">> \in Seq(Names)
    BY <1>1
  <2>4. Walk(op) \in OtherCalls
    <3>1. PICK path \in {<<"t", "a">>, <<"t">>}, pc \in {"mkdir", "ok"} :
            Walk(op) = [op |-> op, made |-> 0, path |-> path, stack |-> <<>>, pc |-> pc]
      BY <2>1
    <3>2. path \in Seq(Names)
      BY <2>3
    <3> QED  BY <1>4, <2>2, <3>1, <3>2 DEF OtherCalls
  <2> QED  BY <2>1, <2>2, <2>4 DEF Shape, Chain, NoLinks, Inside
<1> QED  BY <1>3, <1>4

OnTrees ==
  /\ ent \in Trees
  /\ walk \in [Walkers -> {Walk(op) : op \in {"create", "none"} \cup Removals}]

LEMMA TreeInitInv == TreeInit => TempInv \/ (OtherInv /\ OnTrees)
<1> SUFFICES ASSUME TreeInit PROVE TempInv \/ (OtherInv /\ OnTrees)
  OBVIOUS
<1>1. CASE /\ ent \in Trees
           /\ walk \in [Walkers -> {Walk(op) : op \in {"create", "none"} \cup Removals}]
  <2>1. linked = (ent[Root]["t"] = Link) /\ lost = FALSE
    BY DEF TreeInit
  <2>2. ASSUME NEW p \in Walkers
        PROVE  /\ walk[p] \in OtherCalls /\ Shape(walk[p])
               /\ ent[Root]["t"] # Link => NoLinks(ent, walk[p].stack)
    <3>1. PICK op \in {"create", "none"} \cup Removals : walk[p] = Walk(op)
      BY <1>1
    <3> QED  BY <3>1, WalkStarts
  <2>3. FullTree(ent)
    BY <1>1, TreesAreFull
  <2>4. walk \in [Walkers -> OtherCalls]
    BY <1>1, <2>2
  <2> QED  BY <1>1, <2>1, <2>2, <2>3, <2>4 DEF OtherInv, Clear, OnTrees
<1>2. CASE /\ ent \in {Stale, [d \in Dirs |-> Empty]}
           /\ walk = [p \in Walkers |-> Walk("temp")]
  <2>1. /\ walk \in [Walkers -> TempCalls]
        /\ \A p \in Walkers : Framed(walk[p]) /\ ~Holder(p)
    BY <1>2, TempWalk DEF Holder, Holding, Inside
  <2>2. COUNTER \in [Walkers -> Nat]
    BY DEF TreeInit
  <2>3. TempTree
    <3>1. /\ \A d \in Dirs \ {Root} : ent[d] = Empty
          /\ ent \in [Dirs -> [Names -> Entries]]
          /\ \/ ent[Root] = Empty
             \/ \A n \in Names : ent[Root][n] = IF n = TempNames[1] THEN Entry("dir", "t3") ELSE None
      <4>1. None \in Entries /\ Entry("dir", "t3") \in Entries /\ Root \in Dirs
        BY DEF Entries, Temps, Dirs
      <4>2. Empty \in [Names -> Entries]
        BY <4>1 DEF Empty
      <4>3. CASE ent = Stale
        <5> DEFINE e == With(TempNames[1], Entry("dir", "t3"))
        <5>1. /\ e \in [Names -> Entries]
              /\ \A n \in Names : e[n] = IF n = TempNames[1] THEN Entry("dir", "t3") ELSE None
          BY <4>1, <4>2 DEF With, Empty
        <5> HIDE DEF e
        <5>2. ent = [d \in Dirs |-> IF d = Root THEN e ELSE Empty]
          BY <4>3 DEF Stale, e
        <5> QED  BY <4>1, <4>2, <5>1, <5>2
      <4>4. CASE ent = [d \in Dirs |-> Empty]
        BY <4>1, <4>2, <4>4
      <4> QED  BY <1>2, <4>3, <4>4
    <3>2. \A n \in Names : Empty[n] = None
      BY DEF Empty
    <3>3. None.kind # "dir" /\ None # File /\ Entry("dir", "t3") # File
      BY DEF None, File, Entry
    <3> QED  BY <3>1, <3>2, <3>3 DEF TempTree, IsDir, Dirs
  <2> QED  BY <2>1, <2>2, <2>3 DEF TempInv
<1> QED  BY <1>1, <1>2 DEF TreeInit

\* A directory a TempDir holds is there with what was put into it, and no other
\* TempDir of its pid is given its path or removes it, over a stale directory,
\* a used counter or after a restart: mkdir gives a name to one, and only who
\* was given it takes it away.
THEOREM TempDirTheorem == TreeSpec => []TempDirIsOwn
<1>1. TempInv => TempDirIsOwn
  <2> SUFFICES ASSUME TempInv, NEW p \in Walkers, walk[p].pc \in {"fill", "live"}
               PROVE  /\ lstat(walk[p].path).kind = "dir"
                      /\ At(p, "live") => lstat(Append(walk[p].path, "b")) = File
                      /\ \A q \in Walkers \ {p} :
                           walk[q].path = walk[p].path => walk[q].pc \in {"name", "claim", "ok", "err"}
    BY DEF TempDirIsOwn
  <2>1. Own(p) \in Names /\ walk[p].path = <<Own(p)>> /\ Owns(p) /\ TempTree /\ "b" \in Names
    BY PathIsOwn DEF TempInv, Holder, Holding, Names
  <2>2. lstat(walk[p].path).kind = "dir"
    BY <2>1, LooksAtRoot DEF Owns, IsDir
  <2>3. ASSUME At(p, "live") PROVE lstat(Append(walk[p].path, "b")) = File
    BY <2>1, <2>3, LooksInside DEF Owns, At
  <2>4. ASSUME NEW q \in Walkers \ {p}, walk[q].path = walk[p].path
        PROVE  walk[q].pc \in {"name", "claim", "ok", "err"}
    <3>1. ~Holder(q)
      BY <2>1, <2>4 DEF Owns, Own
    <3> QED  BY <3>1 DEF Holder, TempInv, TempCalls
  <2> QED  BY <2>2, <2>3, <2>4
<1>2. OtherInv => TempDirIsOwn
  <2> SUFFICES ASSUME OtherInv PROVE \A p \in Walkers : walk[p].pc \notin {"fill", "live"}
    BY DEF TempDirIsOwn
  <2> QED  BY Here DEF OtherCalls, Inside
<1>3. (TempInv \/ OtherInv) /\ [TreeNext]_treeVars => (TempInv \/ OtherInv)'
  BY TempNextInv, OtherNextInv
<1> QED  BY <1>1, <1>2, <1>3, TreeInitInv, PTL DEF TreeSpec

\* What a TempDir's drop takes away was under its own name.
LEMMA TempLosesNothing ==
  ASSUME TempInv, lost = FALSE, TreeNext
  PROVE  lost' = FALSE
<1>1. ASSUME NEW p \in Walkers, unlink(p) PROVE lost' = FALSE
  <2>1. walk[p].pc \in Inside
    BY <1>1 DEF unlink, At, Inside
  <2>2. Top(p).path = <<Own(p)>> /\ Own(p) \in Names /\ IsDir(Own(p)) /\ TempTree
    BY <2>1, InRemoval DEF TempInv
  <2>3. dir_at(Top(p).path) # Outside
    BY <2>2, LooksAtRoot, DirFacts
  <2> QED  BY <1>1, <2>3 DEF unlink
<1>2. ASSUME NEW p \in Walkers, rmdir(p) PROVE lost' = FALSE
  <2>1. walk[p].pc \in Inside
    BY <1>2 DEF rmdir, At, Inside
  <2>2. Top(p).path = <<Own(p)>>
    BY <2>1, InRemoval
  <2>3. dir_at(Front(Top(p).path)) = Root /\ Root # Outside
    BY <2>2, Ends, StartsAtRoot, InThisTree DEF Root, Outside
  <2> QED  BY <1>2, <2>3 DEF rmdir
<1> QED
  BY <1>1, <1>2 DEF TreeNext, read_dir, ReaddirFails, symlink_metadata, Looks, create_dir_all, MkdirFails,
     fetch_add, new_in, Fill, DropTempDir, Restart, Meddle, Keeps

\* A removal takes nothing out of the directory outside, however deep it is and
\* whatever the others do, unless a link stands, or was put, in the place of a
\* directory a removal is in: lstat is asked before each step down.
THEOREM OutsideTheorem == TreeSpec => []OutsideIsSafe
<1> DEFINE Safe == TempInv /\ lost = FALSE
<1>1. TreeInit => Safe \/ OtherInv
  BY TreeInitInv DEF TreeInit
<1>2. (Safe \/ OtherInv) /\ [TreeNext]_treeVars => (Safe \/ OtherInv)'
  <2>1. UNCHANGED treeVars => lost' = lost
    BY DEF treeVars
  <2> QED  BY <2>1, TempNextInv, OtherNextInv, TempLosesNothing
<1>3. Safe \/ OtherInv => OutsideIsSafe
  BY DEF OtherInv, OutsideIsSafe
<1> HIDE DEF Safe
<1> QED  BY <1>1, <1>2, <1>3, PTL DEF TreeSpec
-----------------------------------------------------------------------------
(***************************************************************************)
(* Directory trees: what the calls have done when they are over.  Until    *)
(* the other process steps in, trees only grow under create_dir_all and    *)
(* only shrink under the removals.                                         *)
(***************************************************************************)
\* Paths of one, two and three names.
LEMMA PathsAre ==
  ASSUME NEW tree, NEW n \in Names, NEW m \in Names, NEW k \in Names
  PROVE  /\ LstatIn(tree, <<n>>) = tree[Root][n]
         /\ DirIn(tree, <<n>>) = Leads(tree[Root][n])
         /\ LstatIn(tree, <<n, m>>) =
              IF DirIn(tree, <<n>>) = Nowhere THEN None ELSE tree[DirIn(tree, <<n>>)][m]
         /\ DirIn(tree, <<n, m>>) = Leads(LstatIn(tree, <<n, m>>))
         /\ LstatIn(tree, Append(<<n, m>>, k)) =
              IF DirIn(tree, <<n, m>>) = Nowhere THEN None ELSE tree[DirIn(tree, <<n, m>>)][k]
<1> DEFINE none == <<>>
           one == <<n>>
           two == <<n, m>>
<1>1. none \in Seq(Names) /\ one \in Seq(Names) /\ two \in Seq(Names)
  OBVIOUS
<1>2. Append(none, n) = one /\ Append(one, m) = two
  BY Ends
<1>3. DirIn(tree, none) = Root /\ Root # Nowhere
  BY StartsAtRoot DEF Root, Nowhere
<1> HIDE DEF none, one, two
<1>4. /\ LstatIn(tree, Append(none, n)) =
           IF DirIn(tree, none) = Nowhere THEN None ELSE tree[DirIn(tree, none)][n]
      /\ DirIn(tree, Append(none, n)) = Leads(LstatIn(tree, Append(none, n)))
  BY <1>1, LastStep
<1>5. /\ LstatIn(tree, Append(one, m)) =
           IF DirIn(tree, one) = Nowhere THEN None ELSE tree[DirIn(tree, one)][m]
      /\ DirIn(tree, Append(one, m)) = Leads(LstatIn(tree, Append(one, m)))
  BY <1>1, LastStep
<1>6. LstatIn(tree, Append(two, k)) =
        IF DirIn(tree, two) = Nowhere THEN None ELSE tree[DirIn(tree, two)][k]
  BY <1>1, LastStep
<1> QED  BY <1>2, <1>3, <1>4, <1>5, <1>6 DEF one, two

LEMMA PutsAt ==
  ASSUME NEW path \in Seq(Names), NEW n \in Names, NEW e, Put(Append(path, n), e)
  PROVE  ent' = [ent EXCEPT ![DirIn(ent, path)][n] = e]
<1>1. Front(Append(path, n)) = path /\ Last(Append(path, n)) = n
  BY AppendEnds
<1> QED  BY <1>1, InThisTree DEF Put

-----------------------------------------------------------------------------
\* All calls are of these kinds.
AllAre(ops) == \A p \in Walkers : walk[p].op \in ops \cup {"none"}
Resting == \A p \in Walkers : walk[p].op = "none" => walk[p].pc = "ok"

\* How far a call of create_dir_all is, and what it has found.
Creates(tree, c) ==
  /\ c.pc \in {"mkdir", "ok", "err"} /\ c.path = <<"t", "a">>
  /\ c.pc = "mkdir" => c.made \in {0, 1}
  /\ c.made = 1 => tree[Root]["t"] # None
  /\ c.pc = "ok" => LstatIn(tree, <<"t", "a">>) # None
  /\ c.pc = "err" => tree[Root]["t"] = File
CreateInv == \A p \in Walkers : walk[p].op = "create" => Creates(ent, walk[p])

\* Entries come where there was none.
Grows(tree, more) ==
  \A d \in Dirs, n \in Names : more[d][n] = tree[d][n] \/ tree[d][n] = None

LEMMA InDirs ==
  ASSUME NEW tree, FullTree(tree), NEW d \in Dirs, NEW n \in Names
  PROVE  Leads(tree[d][n]) \in Dirs \cup {Nowhere}
<1>1. tree[d][n] \in AllEntries
  BY DEF FullTree
<1>2. Leads(Link) = Outside /\ Outside \in Dirs
  BY DEF Leads, Link, Entry, Dirs
<1> QED  BY <1>1, <1>2, AllEntryFacts

LEMMA NamesHere == {"t", "a", "b"} \subseteq Names /\ "t" # "a" /\ Root \in Dirs /\ Root # Nowhere
BY DEF Names, Dirs, Root, Nowhere

LEMMA CreatesGrows ==
  ASSUME NEW tree, FullTree(tree), NEW more, Grows(tree, more), NEW c, Creates(tree, c)
  PROVE  Creates(more, c)
<1> DEFINE d == DirIn(tree, <<"t">>)
<1>1. /\ LstatIn(tree, <<"t", "a">>) = IF d = Nowhere THEN None ELSE tree[d]["a"]
      /\ d = Leads(tree[Root]["t"]) /\ d \in Dirs \cup {Nowhere}
      /\ DirIn(more, <<"t">>) = Leads(more[Root]["t"])
      /\ LstatIn(more, <<"t", "a">>) =
           IF DirIn(more, <<"t">>) = Nowhere THEN None ELSE more[DirIn(more, <<"t">>)]["a"]
  BY PathsAre, NamesHere, InDirs
<1>2. tree[Root]["t"] # None => more[Root]["t"] = tree[Root]["t"]
  BY NamesHere DEF Grows
<1>3. LstatIn(tree, <<"t", "a">>) # None => LstatIn(more, <<"t", "a">>) = LstatIn(tree, <<"t", "a">>)
  <2> HIDE DEF d
  <2> SUFFICES ASSUME LstatIn(tree, <<"t", "a">>) # None
               PROVE  LstatIn(more, <<"t", "a">>) = LstatIn(tree, <<"t", "a">>)
    OBVIOUS
  <2>1. d # Nowhere /\ tree[d]["a"] # None /\ d \in Dirs
    BY <1>1
  <2>2. tree[Root]["t"] # None
    BY <1>1, <2>1, AllEntryFacts
  <2>3. more[d]["a"] = tree[d]["a"]
    BY <2>1, NamesHere DEF Grows
  <2> QED  BY <1>1, <1>2, <2>1, <2>2, <2>3
<1>4. File # None
  BY DEF File, None, Entry
<1> QED  BY <1>2, <1>3, <1>4 DEF Creates

LEMMA CreateStep ==
  ASSUME OtherInv, Resting, AllAre({"create"}), CreateInv, NEW p \in Walkers, create_dir_all(p)
  PROVE  CreateInv' /\ \A q \in Walkers : walk'[q].op = walk[q].op
<1> DEFINE c == walk[p]
           T == ent[Root]["t"]
           d == DirIn(ent, <<"t">>)
           spot == SubSeq(c.path, 1, c.made + 1)
<1>1. /\ c \in OtherCalls /\ c.pc = "mkdir" /\ c.op = "create" /\ Creates(ent, c) /\ FullTree(ent)
      /\ walk \in [Walkers -> OtherCalls]
  <2>1. c \in OtherCalls /\ c.pc = "mkdir" /\ FullTree(ent) /\ walk \in [Walkers -> OtherCalls]
    BY DEF OtherInv, create_dir_all, At
  <2>2. c.op = "create"
    BY <2>1 DEF AllAre, Resting
  <2> QED  BY <2>1, <2>2 DEF CreateInv
<1>2. c.path = <<"t", "a">> /\ c.made \in {0, 1} /\ (c.made = 1 => T # None)
  BY <1>1 DEF Creates
<1>3. /\ c.made = 0 => spot = <<"t">> /\ spot # c.path
      /\ c.made = 1 => spot = <<"t", "a">> /\ spot = c.path
  <2> DEFINE s == <<"t", "a">>
  <2>1. s \in Seq(Names) /\ Len(s) = 2 /\ s[1] = "t" /\ Len(<<"t">>) = 1 /\ <<"t">>[1] = "t" /\ <<"t">> \in Seq(Names)
    BY NamesHere
  <2> HIDE DEF s
  <2>2. SubSeq(s, 1, 2) = s
    BY <2>1, SubSeqFull
  <2>3. SubSeq(s, 1, 1) = <<"t">>
    <3> DEFINE u == SubSeq(s, 1, 1)
    <3>1. u \in Seq(Names) /\ Len(u) = 1 /\ u[1] = "t"
      BY <2>1
    <3> HIDE DEF u
    <3>2. u = <<"t">>
      BY <2>1, <3>1
    <3> QED  BY <3>2 DEF u
  <2>4. s # <<"t">>
    BY <2>1
  <2>5. c.path = s
    <3>1. c.path = <<"t", "a">>
      BY <1>2
    <3> QED  BY <3>1 DEF s
  <2>6. /\ c.made = 0 => spot = SubSeq(s, 1, 1)
        /\ c.made = 1 => spot = SubSeq(s, 1, 2)
    <3>1. \A k \in {0, 1} : c.made = k => spot = SubSeq(s, 1, k + 1)
      BY <2>5
    <3> HIDE DEF spot, c
    <3>2. 0 + 1 = 1 /\ 1 + 1 = 2
      OBVIOUS
    <3> QED  BY <3>1, <3>2
  <2> HIDE DEF spot, c
  <2>7. s = <<"t", "a">>
    BY DEF s
  <2> QED  BY <2>2, <2>3, <2>4, <2>5, <2>6, <2>7
<1>4. /\ lstat(<<"t">>) = T /\ d = Leads(T) /\ d \in Dirs \cup {Nowhere}
      /\ dir_at(<<>>) = Root /\ dir_at(<<"t">>) = d
      /\ lstat(<<"t", "a">>) = IF d = Nowhere THEN None ELSE ent[d]["a"]
  BY <1>1, PathsAre, NamesHere, InDirs, InThisTree, StartsAtRoot
<1>5. Front(<<"t">>) = <<>> /\ Last(<<"t">>) = "t" /\ Front(<<"t", "a">>) = <<"t">> /\ Last(<<"t", "a">>) = "a"
  BY Ends
<1>6. /\ walk' = [walk EXCEPT ![p] = walk'[p]]
      /\ IF dir_at(Front(spot)) = Nowhere
         THEN walk'[p] = [c EXCEPT !.pc = "err"] /\ ent' = ent
         ELSE /\ walk'[p] = [c EXCEPT !.made = @ + 1, !.pc = IF spot = c.path THEN "ok" ELSE "mkdir"]
              /\ IF lstat(spot) = None THEN \E y \in UnusedDirs : Put(spot, Entry("dir", y)) ELSE ent' = ent
  BY <1>1 DEF create_dir_all, Goto
<1>7. ASSUME NEW y \in UnusedDirs
      PROVE  Entry("dir", y) \in AllEntries /\ Entry("dir", y) # None
  BY DEF UnusedDirs, Dirs, Temps, Root, Outside, AllEntries, Entry, None
<1>8. \A q \in Walkers \ {p} : walk'[q] = walk[q]
  BY <1>1, <1>6
<1>9. ASSUME Grows(ent, ent'), Creates(ent', walk'[p]), walk'[p].op = c.op
      PROVE  CreateInv' /\ \A q \in Walkers : walk'[q].op = walk[q].op
  <2>1. \A q \in Walkers \ {p} : walk[q].op = "create" => Creates(ent', walk[q])
    BY <1>1, <1>9, CreatesGrows DEF CreateInv
  <2> QED  BY <1>8, <1>9, <2>1 DEF CreateInv
<1> HIDE DEF c, T, d, spot
<1>10. CASE c.made = 0
  <2>1. dir_at(Front(spot)) = Root /\ lstat(spot) = T /\ Root # Nowhere
    BY <1>3, <1>4, <1>5, <1>10, NamesHere
  <2>2. walk'[p] = [c EXCEPT !.made = 1, !.pc = "mkdir"]
    BY <1>3, <1>6, <1>10, <2>1
  <2>3. walk'[p].op = c.op /\ walk'[p].pc = "mkdir" /\ walk'[p].made = 1 /\ walk'[p].path = c.path
    BY <1>1, <2>2 DEF OtherCalls
  <2>4. Grows(ent, ent') /\ ent'[Root]["t"] # None
    <3>1. CASE T = None
      <4>1. PICK y \in UnusedDirs : Put(spot, Entry("dir", y))
        BY <1>6, <2>1, <3>1
      <4>2. ent' = [ent EXCEPT ![Root]["t"] = Entry("dir", y)]
        BY <1>3, <1>4, <1>5, <1>10, <4>1 DEF Put
      <4> QED  BY <1>1, <1>7, <3>1, <4>2, NamesHere DEF Grows, FullTree, T
    <3>2. CASE T # None
      <4>1. ent' = ent
        BY <1>6, <2>1, <3>2
      <4> QED  BY <3>2, <4>1 DEF Grows, T
    <3> QED  BY <3>1, <3>2
  <2>5. Creates(ent', walk'[p])
    BY <1>2, <2>3, <2>4 DEF Creates
  <2> QED  BY <1>9, <2>3, <2>4, <2>5
<1>11. CASE c.made = 1 /\ d = Nowhere
  <2>1. walk'[p] = [c EXCEPT !.pc = "err"] /\ ent' = ent
    BY <1>3, <1>4, <1>5, <1>6, <1>11
  <2>2. T = File
    <3>1. T \in AllEntries
      BY <1>1, NamesHere DEF FullTree, T
    <3>2. Leads(Link) # Nowhere /\ \A x \in Temps : x # Nowhere
      BY DEF Leads, Link, Entry, Outside, Nowhere, Temps
    <3> QED  BY <1>2, <1>4, <1>11, <3>1, <3>2, AllEntryFacts
  <2>3. walk'[p].op = c.op /\ walk'[p].pc = "err" /\ walk'[p].made = 1 /\ walk'[p].path = c.path
    BY <1>1, <1>11, <2>1 DEF OtherCalls
  <2>4. Creates(ent', walk'[p])
    BY <1>2, <1>11, <2>1, <2>2, <2>3 DEF Creates, T
  <2>5. Grows(ent, ent')
    BY <2>1 DEF Grows
  <2> QED  BY <1>9, <2>3, <2>4, <2>5
<1>12. CASE c.made = 1 /\ d # Nowhere
  <2>1. dir_at(Front(spot)) = d /\ lstat(spot) = ent[d]["a"] /\ spot = c.path /\ d \in Dirs
    BY <1>3, <1>4, <1>5, <1>12
  <2>2. walk'[p] = [c EXCEPT !.made = 2, !.pc = "ok"]
    BY <1>6, <1>12, <2>1
  <2>3. walk'[p].op = c.op /\ walk'[p].pc = "ok" /\ walk'[p].made = 2 /\ walk'[p].path = c.path
    BY <1>1, <2>2 DEF OtherCalls
  <2>4. Grows(ent, ent') /\ ent'[d]["a"] # None /\ ent'[Root]["t"] = T
    <3>1. CASE ent[d]["a"] = None
      <4>1. PICK y \in UnusedDirs : Put(spot, Entry("dir", y))
        BY <1>6, <1>12, <2>1, <3>1
      <4>2. ent' = [ent EXCEPT ![d]["a"] = Entry("dir", y)]
        BY <1>3, <1>4, <1>5, <1>12, <4>1 DEF Put
      <4> QED  BY <1>1, <1>7, <2>1, <3>1, <4>2, NamesHere DEF Grows, FullTree, T
    <3>2. CASE ent[d]["a"] # None
      <4>1. ent' = ent
        BY <1>6, <1>12, <2>1, <3>2
      <4> QED  BY <3>2, <4>1 DEF Grows, T
    <3> QED  BY <3>1, <3>2
  <2>5. LstatIn(ent', <<"t", "a">>) # None
    <3>1. DirIn(ent', <<"t">>) = d
      BY <1>4, <2>4, PathsAre, NamesHere
    <3>2. LstatIn(ent', <<"t", "a">>) =
            IF DirIn(ent', <<"t">>) = Nowhere THEN None ELSE ent'[DirIn(ent', <<"t">>)]["a"]
      BY PathsAre, NamesHere
    <3> QED  BY <1>12, <2>4, <3>1, <3>2
  <2>6. Creates(ent', walk'[p])
    BY <1>2, <2>3, <2>5 DEF Creates
  <2> QED  BY <1>9, <2>3, <2>4, <2>6
<1> QED  BY <1>2, <1>10, <1>11, <1>12

\* The two directories of a tree that is removed, while they are there.
Upper(tree) == IF tree[Root]["t"].kind = "dir" THEN "t1" ELSE Nowhere
Lower(tree) == IF Upper(tree) # Nowhere /\ tree["t1"]["a"].kind = "dir" THEN "t2" ELSE Nowhere

TwoLevels(tree) ==
  /\ tree[Root]["t"] # Link
  /\ \A d \in Dirs, n \in Names : tree[d][n].kind = "dir" =>
       \/ d = Root /\ n = "t" /\ tree[d][n].to = "t1"
       \/ d = "t1" /\ n = "a" /\ tree[d][n].to = "t2"

\* What a level of a removal still has to take away; one nobody disturbs finds
\* all it has listed.
Left(tree, d, S) == d # Nowhere => \A n \in Names : tree[d][n] # None => n \in S
Listed(tree, d, f) == d # Nowhere /\ \A n \in f.todo : tree[d][n] # None
Working(tree, d, f, pc, alone) ==
  /\ pc = "next" => Left(tree, d, f.todo)
  /\ pc = "unlink" => /\ Left(tree, d, f.todo \cup {f.name})
                      /\ d # Nowhere => tree[d][f.name].kind # "dir"
  /\ alone /\ pc # "open" => Listed(tree, d, f)
  /\ alone /\ pc = "unlink" => f.name \notin f.todo

AtTop(tree, c, f, alone) ==
  /\ c.stack = <<f>> /\ f.path = <<"t">>
  /\ Working(tree, Upper(tree), f, c.pc, alone)
Below(tree, c, f, g, alone) ==
  /\ c.stack = <<f, g>> /\ f.path = <<"t">> /\ g.path = <<"t", "a">>
  /\ Working(tree, Lower(tree), g, c.pc, alone)
  /\ Left(tree, Upper(tree), f.todo \cup {"a"})
  /\ Upper(tree) # Nowhere => tree["t1"]["a"].kind \in {"dir", "none"}
  /\ alone => Listed(tree, Upper(tree), f) /\ "a" \notin f.todo /\ Lower(tree) # Nowhere

\* A removal answers Ok over a tree that is gone, and with an error where
\* another took away what it had listed.
Sound(tree, c, alone) ==
  /\ c.pc \in Inside \cup {"ok", "err"}
  /\ c.pc = "ok" => Upper(tree) = Nowhere
  /\ c.pc = "err" => c.op = "fs_remove" /\ (alone => Upper(tree) = Nowhere)
  /\ c.pc \in Inside => \/ \E f \in Frames : AtTop(tree, c, f, alone)
                        \/ \E f, g \in Frames : Below(tree, c, f, g, alone)

Shrinks(tree, more) ==
  \A d \in Dirs, n \in Names : more[d][n] = tree[d][n] \/ more[d][n] = None

LEMMA Levels ==
  ASSUME NEW tree, FullTree(tree), TwoLevels(tree)
  PROVE  /\ Upper(tree) \in {"t1", Nowhere} /\ Lower(tree) \in {"t2", Nowhere}
         /\ DirIn(tree, <<"t">>) = Upper(tree) /\ LstatIn(tree, <<"t">>) = tree[Root]["t"]
         /\ LstatIn(tree, <<"t", "a">>) = IF Upper(tree) = Nowhere THEN None ELSE tree["t1"]["a"]
         /\ (Upper(tree) # Nowhere => tree["t1"]["a"].kind \in {"dir", "none"}) =>
              DirIn(tree, <<"t", "a">>) = Lower(tree)
<1> DEFINE t == tree[Root]["t"]
           a == tree["t1"]["a"]
<1>1. /\ Root \in Dirs /\ "t1" \in Dirs /\ "t" \in Names /\ "a" \in Names
      /\ t \in AllEntries /\ a \in AllEntries
  <2>1. Root \in Dirs /\ "t1" \in Dirs /\ "t" \in Names /\ "a" \in Names
    BY NamesHere DEF Dirs
  <2> QED  BY <2>1 DEF FullTree
<1>2. /\ t.kind = "dir" => t.to = "t1" /\ Leads(t) = "t1"
      /\ t.kind # "dir" => Leads(t) = Nowhere
  <2>1. t # Link /\ (t.kind = "dir" => t.to = "t1")
    BY <1>1 DEF TwoLevels, Root
  <2> QED  BY <1>1, <2>1, AllEntryFacts DEF Leads
<1>3. /\ a.kind = "dir" => a.to = "t2" /\ Leads(a) = "t2"
      /\ a.kind = "none" => Leads(a) = Nowhere
  <2>1. a.kind = "dir" => a.to = "t2"
    BY <1>1 DEF TwoLevels, Root
  <2> QED  BY <2>1 DEF Leads
<1>4. /\ LstatIn(tree, <<"t">>) = t /\ DirIn(tree, <<"t">>) = Leads(t)
      /\ LstatIn(tree, <<"t", "a">>) =
           IF DirIn(tree, <<"t">>) = Nowhere THEN None ELSE tree[DirIn(tree, <<"t">>)]["a"]
      /\ DirIn(tree, <<"t", "a">>) = Leads(LstatIn(tree, <<"t", "a">>))
  BY <1>1, PathsAre
<1>5. "t1" # Nowhere /\ "t2" # Nowhere /\ Leads(None) = Nowhere
  BY AllEntryFacts DEF Nowhere
<1> HIDE DEF t, a
<1>6. Upper(tree) = (IF t.kind = "dir" THEN "t1" ELSE Nowhere)
      /\ Lower(tree) = (IF Upper(tree) # Nowhere /\ a.kind = "dir" THEN "t2" ELSE Nowhere)
  BY DEF Upper, Lower, t, a
<1>7. DirIn(tree, <<"t">>) = Upper(tree)
  BY <1>2, <1>4, <1>6
<1>8. LstatIn(tree, <<"t", "a">>) = IF Upper(tree) = Nowhere THEN None ELSE a
  BY <1>4, <1>5, <1>6, <1>7 DEF a
<1> QED  BY <1>3, <1>4, <1>5, <1>6, <1>7, <1>8 DEF t, a

\* What the walk looks at, one name further.
LEMMA Children ==
  ASSUME NEW tree, FullTree(tree), TwoLevels(tree), NEW n \in Names
  PROVE  /\ LstatIn(tree, Append(<<"t">>, n)) = IF Upper(tree) = Nowhere THEN None ELSE tree["t1"][n]
         /\ (Upper(tree) # Nowhere => tree["t1"]["a"].kind \in {"dir", "none"}) =>
              LstatIn(tree, Append(<<"t", "a">>, n)) = IF Lower(tree) = Nowhere THEN None ELSE tree["t2"][n]
<1>1. "t" \in Names /\ "a" \in Names /\ Append(<<"t">>, n) = <<"t", n>>
  BY NamesHere, Ends
<1>2. /\ LstatIn(tree, <<"t", n>>) =
           IF DirIn(tree, <<"t">>) = Nowhere THEN None ELSE tree[DirIn(tree, <<"t">>)][n]
      /\ LstatIn(tree, Append(<<"t", "a">>, n)) =
           IF DirIn(tree, <<"t", "a">>) = Nowhere THEN None ELSE tree[DirIn(tree, <<"t", "a">>)][n]
  BY <1>1, PathsAre
<1> QED  BY <1>1, <1>2, Levels

LEMMA LevelsShrink ==
  ASSUME NEW tree, FullTree(tree), TwoLevels(tree), NEW more, Shrinks(tree, more)
  PROVE  /\ TwoLevels(more) /\ Upper(more) \in {Upper(tree), Nowhere} /\ Lower(more) \in {Lower(tree), Nowhere}
         /\ \A d \in {"t1", "t2", Nowhere} : \A e \in {d, Nowhere} : \A S : Left(tree, d, S) => Left(more, e, S)
<1>1. /\ None.kind = "none" /\ None # Link /\ "none" # "dir" /\ {Root, "t1", "t2"} \subseteq Dirs
      /\ {"t", "a"} \subseteq Names /\ Nowhere \notin {"t1", "t2"}
  BY NamesHere DEF None, Link, Entry, Dirs, Nowhere
<1>2. \A d \in Dirs, n \in Names : more[d][n] = tree[d][n] \/ more[d][n] = None
  BY DEF Shrinks
<1>3. TwoLevels(more)
  BY <1>1, <1>2 DEF TwoLevels
<1>4. Upper(more) \in {Upper(tree), Nowhere} /\ Lower(more) \in {Lower(tree), Nowhere}
  BY <1>1, <1>2 DEF Upper, Lower
<1>5. ASSUME NEW d \in {"t1", "t2", Nowhere}, NEW e \in {d, Nowhere}, NEW S, Left(tree, d, S)
      PROVE  Left(more, e, S)
  BY <1>1, <1>2, <1>5 DEF Left
<1> QED  BY <1>3, <1>4, <1>5

LEMMA SoundShrinks ==
  ASSUME NEW tree, FullTree(tree), TwoLevels(tree), NEW more, Shrinks(tree, more), NEW c,
         c.stack \in Seq(Frames), Sound(tree, c, FALSE)
  PROVE  Sound(more, c, FALSE)
<1>1. /\ Upper(more) \in {Upper(tree), Nowhere} /\ Lower(more) \in {Lower(tree), Nowhere}
      /\ Upper(tree) \in {"t1", Nowhere} /\ Lower(tree) \in {"t2", Nowhere}
      /\ \A S : Left(tree, Upper(tree), S) => Left(more, Upper(more), S)
      /\ \A S : Left(tree, Lower(tree), S) => Left(more, Lower(more), S)
  <2>1. Upper(tree) \in {"t1", Nowhere} /\ Lower(tree) \in {"t2", Nowhere}
    BY Levels
  <2> QED  BY <2>1, LevelsShrink
<1>2. /\ \A d \in Dirs, n \in Names : more[d][n] = tree[d][n] \/ more[d][n] = None
      /\ None.kind = "none" /\ "t1" \in Dirs /\ "t2" \in Dirs /\ "a" \in Names
      /\ "t1" # Nowhere /\ "t2" # Nowhere
  BY NamesHere DEF Shrinks, None, Entry, Dirs, Nowhere
<1>3. ASSUME NEW f \in Frames, AtTop(tree, c, f, FALSE)
      PROVE  AtTop(more, c, f, FALSE)
  <2>1. f.name \in Names
    BY DEF Frames
  <2>2. Working(more, Upper(more), f, c.pc, FALSE)
    BY <1>1, <1>2, <1>3, <2>1 DEF AtTop, Working
  <2> QED  BY <1>3, <2>2 DEF AtTop
<1>4. ASSUME NEW f \in Frames, NEW g \in Frames, Below(tree, c, f, g, FALSE)
      PROVE  Below(more, c, f, g, FALSE)
  <2>1. g.name \in Names
    BY DEF Frames
  <2>2. Working(more, Lower(more), g, c.pc, FALSE)
    BY <1>1, <1>2, <1>4, <2>1 DEF Below, Working
  <2>3. /\ Left(more, Upper(more), f.todo \cup {"a"})
        /\ Upper(more) # Nowhere => more["t1"]["a"].kind \in {"dir", "none"}
    BY <1>1, <1>2, <1>4 DEF Below
  <2> QED  BY <1>4, <2>2, <2>3 DEF Below
<1>5. c.pc = "ok" => Upper(more) = Nowhere
  BY <1>1 DEF Sound
<1> QED  BY <1>3, <1>4, <1>5 DEF Sound

\* What a step makes of a call.
Turns(p, pc, stack) ==
  /\ walk'[p].pc = pc /\ walk'[p].stack = stack /\ walk'[p].op = walk[p].op
  /\ \A q \in Walkers \ {p} : walk'[q] = walk[q]

LEMMA TurnsTo ==
  ASSUME OtherInv, NEW p \in Walkers, NEW s, NEW t
  PROVE  /\ Goto(p, s) => Turns(p, s, walk[p].stack)
         /\ walk' = [walk EXCEPT ![p].pc = s, ![p].stack = t] => Turns(p, s, t)
         /\ walk' = [walk EXCEPT ![p].stack = t, ![p].pc = s] => Turns(p, s, t)
<1>1. walk \in [Walkers -> OtherCalls] /\ walk[p] \in OtherCalls
  BY DEF OtherInv
<1>2. ASSUME NEW c, walk' = [walk EXCEPT ![p] = c], c.pc = s, c.op = walk[p].op
      PROVE  Turns(p, s, c.stack)
  BY <1>1, <1>2 DEF Turns
<1> DEFINE a == [walk[p] EXCEPT !.pc = s]
           b == [walk[p] EXCEPT !.pc = s, !.stack = t]
           c == [walk[p] EXCEPT !.stack = t, !.pc = s]
<1>3. /\ a.pc = s /\ a.op = walk[p].op /\ a.stack = walk[p].stack
      /\ b.pc = s /\ b.op = walk[p].op /\ b.stack = t
      /\ c.pc = s /\ c.op = walk[p].op /\ c.stack = t
  BY <1>1 DEF OtherCalls
<1>4. /\ Goto(p, s) => walk' = [walk EXCEPT ![p] = a]
      /\ walk' = [walk EXCEPT ![p].pc = s, ![p].stack = t] => walk' = [walk EXCEPT ![p] = b]
      /\ walk' = [walk EXCEPT ![p].stack = t, ![p].pc = s] => walk' = [walk EXCEPT ![p] = c]
  BY DEF Goto
<1> HIDE DEF a, b, c
<1> QED  BY <1>2, <1>3, <1>4

\* A call of the top level ends, one below it returns to that level; an error
\* goes up through both in fs_remove, and is a return in file_remove.
LEMMA TurnsBack ==
  ASSUME OtherInv, NEW p \in Walkers, NEW f \in Frames, NEW g \in Frames
  PROVE  /\ walk[p].stack = <<f>> =>
              /\ Pop(p) => Turns(p, "ok", <<f>>)
              /\ Fails(p) => \/ Turns(p, "ok", <<f>>)
                             \/ walk[p].op = "fs_remove" /\ Turns(p, "err", <<f>>)
         /\ walk[p].stack = <<f, g>> =>
              /\ Pop(p) => Turns(p, "next", <<f>>)
              /\ Fails(p) => \/ walk[p].op = "fs_remove" /\ Turns(p, "err", <<f, g>>)
                             \/ walk[p].op # "fs_remove" /\ Turns(p, "next", <<f>>)
<1>1. Len(<<f>>) = 1 /\ Len(<<f, g>>) = 2 /\ Front(<<f, g>>) = <<f>>
  BY Ends
<1>2. ASSUME walk[p].stack = <<f>>, Pop(p)
      PROVE  Turns(p, "ok", <<f>>)
  <2>1. Goto(p, "ok")
    BY <1>1, <1>2 DEF Pop
  <2> QED  BY <1>2, <2>1, TurnsTo
<1>3. ASSUME walk[p].stack = <<f, g>>, Pop(p)
      PROVE  Turns(p, "next", <<f>>)
  <2>1. walk' = [walk EXCEPT ![p].stack = <<f>>, ![p].pc = "next"]
    BY <1>1, <1>3 DEF Pop
  <2> QED  BY <2>1, TurnsTo
<1>4. Goto(p, "err") => Turns(p, "err", walk[p].stack)
  BY TurnsTo
<1> QED  BY <1>2, <1>3, <1>4 DEF Fails

\* The innermost frame changes.
LEMMA TopTurns ==
  ASSUME NEW f, NEW g, NEW h
  PROVE  /\ Last(<<f>>) = f /\ Append(Front(<<f>>), h) = <<h>>
         /\ Last(<<f, g>>) = g /\ Append(Front(<<f, g>>), h) = <<f, h>>
         /\ Append(Append(Front(<<f>>), h), g) = <<h, g>>
<1>1. Last(<<f>>) = f /\ Front(<<f>>) = <<>> /\ Last(<<f, g>>) = g /\ Front(<<f, g>>) = <<f>>
  BY Ends
<1>2. Append(<<>>, h) = <<h>> /\ Append(<<f>>, h) = <<f, h>> /\ Append(<<h>>, g) = <<h, g>>
  BY Ends
<1> QED  BY <1>1, <1>2

LEMMA ListsTurns ==
  ASSUME OtherInv, NEW p \in Walkers, NEW f \in Frames, NEW g \in Frames, NEW listed, Lists(p, listed)
  PROVE  /\ walk[p].stack = <<f>> => Turns(p, "next", <<[f EXCEPT !.todo = listed]>>)
         /\ walk[p].stack = <<f, g>> => Turns(p, "next", <<f, [g EXCEPT !.todo = listed]>>)
<1>1. ASSUME walk[p].stack = <<f>>
      PROVE  Turns(p, "next", <<[f EXCEPT !.todo = listed]>>)
  <2> DEFINE h == [f EXCEPT !.todo = listed]
  <2>1. Top(p) = f
    BY <1>1, TopTurns DEF Top
  <2>2. walk' = [walk EXCEPT ![p].pc = "next", ![p].stack = Append(Front(walk[p].stack), h)]
    BY <2>1 DEF Lists
  <2> HIDE DEF h
  <2>3. Append(Front(walk[p].stack), h) = <<h>>
    <3>1. Append(Front(<<f>>), h) = <<h>>
      BY TopTurns
    <3> QED  BY <1>1, <3>1
  <2>4. Turns(p, "next", <<h>>)
    BY <2>2, <2>3, TurnsTo
  <2> QED  BY <2>4 DEF h
<1>2. ASSUME walk[p].stack = <<f, g>>
      PROVE  Turns(p, "next", <<f, [g EXCEPT !.todo = listed]>>)
  <2> DEFINE h == [g EXCEPT !.todo = listed]
  <2>1. Top(p) = g
    <3>1. Last(<<f, g>>) = g
      BY TopTurns
    <3> QED  BY <1>2, <3>1 DEF Top
  <2>2. walk' = [walk EXCEPT ![p].pc = "next", ![p].stack = Append(Front(walk[p].stack), h)]
    BY <2>1 DEF Lists
  <2> HIDE DEF h
  <2>3. Append(Front(walk[p].stack), h) = <<f, h>>
    <3>1. Append(Front(<<f, g>>), h) = <<f, h>>
      <4>1. Front(<<f, g>>) = <<f>> /\ Append(<<f>>, h) = <<f, h>>
        BY Ends
      <4> QED  BY <4>1
    <3> QED  BY <1>2, <3>1
  <2>4. Turns(p, "next", <<f, h>>)
    BY <2>2, <2>3, TurnsTo
  <2> QED  BY <2>4 DEF h
<1> QED  BY <1>1, <1>2

Looked(f, n) == [f EXCEPT !.todo = @ \ {n}, !.name = n]

LEMMA LooksTurns ==
  ASSUME OtherInv, NEW p \in Walkers, NEW f \in Frames, NEW g \in Frames, symlink_metadata(p)
  PROVE  /\ walk[p].stack = <<f>> =>
              \E n \in f.todo :
                LET e == lstat(Append(f.path, n))
                    h == Looked(f, n)
                IN  \/ e.kind = "dir" /\ Turns(p, "open", <<h, Frame(Append(f.path, n))>>)
                    \/ e.kind # "dir" /\ Turns(p, "unlink", <<h>>)
                    \/ e = None /\ walk[p].op = "fs_remove" /\ Turns(p, "err", <<h>>)
         /\ walk[p].stack = <<f, g>> =>
              \E n \in g.todo :
                LET e == lstat(Append(g.path, n))
                    h == Looked(g, n)
                IN  \/ e.kind = "dir"
                    \/ e.kind # "dir" /\ Turns(p, "unlink", <<f, h>>)
                    \/ e = None /\ walk[p].op = "fs_remove" /\ Turns(p, "err", <<f, h>>)
<1>0. PICK n \in Top(p).todo :
        LET frame == [Top(p) EXCEPT !.todo = @ \ {n}, !.name = n]
            path == Append(frame.path, n)
            level == Append(Front(walk[p].stack), frame)
        IN  walk' =
              IF lstat(path).kind = "dir"
              THEN [walk EXCEPT ![p].stack = Append(level, Frame(path)), ![p].pc = "open"]
              ELSE [walk EXCEPT ![p].stack = level,
                                ![p].pc = IF lstat(path) = None /\ walk[p].op = "fs_remove"
                                          THEN "err" ELSE "unlink"]
  BY DEF symlink_metadata, Looks
<1>1. ASSUME NEW x \in Frames, Top(p) = x, NEW h, h = Looked(x, n),
             NEW level, level = Append(Front(walk[p].stack), h)
      PROVE  LET e == lstat(Append(x.path, n))
             IN  \/ e.kind = "dir" /\ Turns(p, "open", Append(level, Frame(Append(x.path, n))))
                 \/ e.kind # "dir" /\ Turns(p, "unlink", level)
                 \/ e = None /\ walk[p].op = "fs_remove" /\ Turns(p, "err", level)
  <2> DEFINE e == lstat(Append(x.path, n))
  <2>1. h.path = x.path
    BY <1>1 DEF Frames, Looked
  <2>2. walk' =
          IF e.kind = "dir"
          THEN [walk EXCEPT ![p].stack = Append(level, Frame(Append(x.path, n))), ![p].pc = "open"]
          ELSE [walk EXCEPT ![p].stack = level,
                            ![p].pc = IF e = None /\ walk[p].op = "fs_remove" THEN "err" ELSE "unlink"]
    BY <1>0, <1>1, <2>1 DEF Looked
  <2> HIDE DEF e
  <2> QED  BY <2>2, TurnsTo DEF e
<1>2. ASSUME walk[p].stack = <<f>>
      PROVE  \E m \in f.todo :
                LET e == lstat(Append(f.path, m))
                    h == Looked(f, m)
                IN  \/ e.kind = "dir" /\ Turns(p, "open", <<h, Frame(Append(f.path, m))>>)
                    \/ e.kind # "dir" /\ Turns(p, "unlink", <<h>>)
                    \/ e = None /\ walk[p].op = "fs_remove" /\ Turns(p, "err", <<h>>)
  <2> DEFINE h == Looked(f, n)
             k == Frame(Append(f.path, n))
  <2>1. Top(p) = f /\ n \in f.todo /\ h = Looked(f, n)
    <3>1. Top(p) = f
      BY <1>2, TopTurns DEF Top
    <3> QED  BY <1>0, <3>1
  <2> HIDE DEF h
  <2>2. Append(Front(walk[p].stack), h) = <<h>>
    <3>1. Append(Front(<<f>>), h) = <<h>>
      BY TopTurns
    <3> QED  BY <1>2, <3>1
  <2> HIDE DEF k
  <2>3. Append(<<h>>, k) = <<h, k>>
    BY Ends
  <2>4. LET e == lstat(Append(f.path, n))
        IN  \/ e.kind = "dir" /\ Turns(p, "open", Append(<<h>>, k))
            \/ e.kind # "dir" /\ Turns(p, "unlink", <<h>>)
            \/ e = None /\ walk[p].op = "fs_remove" /\ Turns(p, "err", <<h>>)
    BY <1>1, <2>1, <2>2 DEF k
  <2> QED  BY <2>1, <2>3, <2>4 DEF k, h
<1>3. ASSUME walk[p].stack = <<f, g>>
      PROVE  \E m \in g.todo :
                LET e == lstat(Append(g.path, m))
                    h == Looked(g, m)
                IN  \/ e.kind = "dir"
                    \/ e.kind # "dir" /\ Turns(p, "unlink", <<f, h>>)
                    \/ e = None /\ walk[p].op = "fs_remove" /\ Turns(p, "err", <<f, h>>)
  <2> DEFINE h == Looked(g, n)
  <2>1. Top(p) = g /\ n \in g.todo /\ h = Looked(g, n)
    <3>1. Top(p) = g
      <4>1. Last(<<f, g>>) = g
        BY TopTurns
      <4> QED  BY <1>3, <4>1 DEF Top
    <3> QED  BY <1>0, <3>1
  <2> HIDE DEF h
  <2>2. Append(Front(walk[p].stack), h) = <<f, h>>
    <3>1. Append(Front(<<f, g>>), h) = <<f, h>>
      <4>1. Front(<<f, g>>) = <<f>> /\ Append(<<f>>, h) = <<f, h>>
        BY Ends
      <4> QED  BY <4>1
    <3> QED  BY <1>3, <3>1
  <2>3. LET e == lstat(Append(g.path, n))
        IN  \/ e.kind = "dir"
            \/ e.kind # "dir" /\ Turns(p, "unlink", <<f, h>>)
            \/ e = None /\ walk[p].op = "fs_remove" /\ Turns(p, "err", <<f, h>>)
    BY <1>1, <2>1, <2>2
  <2> QED  BY <2>1, <2>3 DEF h
<1> QED  BY <1>2, <1>3

LEMMA TurnsSound ==
  ASSUME NEW p \in Walkers, NEW tree, NEW alone, NEW pc, NEW stack, Turns(p, pc, stack)
  PROVE  /\ pc = "ok" /\ Upper(tree) = Nowhere => Sound(tree, walk'[p], alone)
         /\ pc = "err" /\ walk[p].op = "fs_remove" /\ (alone => Upper(tree) = Nowhere) =>
              Sound(tree, walk'[p], alone)
         /\ \A f \in Frames : pc \in Inside /\ stack = <<f>> /\ f.path = <<"t">>
                              /\ Working(tree, Upper(tree), f, pc, alone) => Sound(tree, walk'[p], alone)
         /\ \A f, g \in Frames :
              /\ pc \in Inside /\ stack = <<f, g>> /\ f.path = <<"t">> /\ g.path = <<"t", "a">>
              /\ Working(tree, Lower(tree), g, pc, alone)
              /\ Left(tree, Upper(tree), f.todo \cup {"a"})
              /\ Upper(tree) # Nowhere => tree["t1"]["a"].kind \in {"dir", "none"}
              /\ alone => Listed(tree, Upper(tree), f) /\ "a" \notin f.todo /\ Lower(tree) # Nowhere
              => Sound(tree, walk'[p], alone)
<1> DEFINE c == walk'[p]
<1>1. c.pc = pc /\ c.stack = stack /\ c.op = walk[p].op
  BY DEF Turns
<1> HIDE DEF c
<1>2. "ok" \notin Inside /\ "err" \notin Inside
  BY DEF Inside
<1>3. pc = "ok" /\ Upper(tree) = Nowhere => Sound(tree, c, alone)
  BY <1>1, <1>2 DEF Sound
<1>4. pc = "err" /\ walk[p].op = "fs_remove" /\ (alone => Upper(tree) = Nowhere) => Sound(tree, c, alone)
  BY <1>1, <1>2 DEF Sound
<1>5. ASSUME NEW f \in Frames, pc \in Inside, stack = <<f>>, f.path = <<"t">>,
             Working(tree, Upper(tree), f, pc, alone)
      PROVE  Sound(tree, c, alone)
  <2>1. AtTop(tree, c, f, alone)
    BY <1>1, <1>5 DEF AtTop
  <2> QED  BY <1>1, <1>2, <1>5, <2>1 DEF Sound
<1>6. ASSUME NEW f \in Frames, NEW g \in Frames,
             pc \in Inside, stack = <<f, g>>, f.path = <<"t">>, g.path = <<"t", "a">>,
             Working(tree, Lower(tree), g, pc, alone), Left(tree, Upper(tree), f.todo \cup {"a"}),
             Upper(tree) # Nowhere => tree["t1"]["a"].kind \in {"dir", "none"},
             alone => Listed(tree, Upper(tree), f) /\ "a" \notin f.todo /\ Lower(tree) # Nowhere
      PROVE  Sound(tree, c, alone)
  <2>1. Below(tree, c, f, g, alone)
    BY <1>1, <1>6 DEF Below
  <2> QED  BY <1>1, <1>2, <1>6, <2>1 DEF Sound
<1> QED  BY <1>3, <1>4, <1>5, <1>6 DEF c

\* A removal's own step.
StepsOn(p, alone) ==
  /\ Shrinks(ent, ent') /\ Sound(ent', walk'[p], alone) /\ walk'[p].op = walk[p].op
  /\ \A q \in Walkers \ {p} : walk'[q] = walk[q]

Removing(p, alone) ==
  OtherInv /\ TwoLevels(ent) /\ walk[p].op \in Removals /\ Sound(ent, walk[p], alone)

LEMMA Around ==
  ASSUME NEW p \in Walkers, NEW alone, Removing(p, alone)
  PROVE  /\ FullTree(ent) /\ TwoLevels(ent) /\ Upper(ent) \in {"t1", Nowhere} /\ Lower(ent) \in {"t2", Nowhere}
         /\ "t1" # Nowhere /\ "t2" # Nowhere /\ "t1" \in Dirs /\ "t2" \in Dirs /\ Root \in Dirs
         /\ "t" \in Names /\ "a" \in Names /\ None.kind = "none"
         /\ \A d \in Dirs, n \in Names : ent[d][n] \in AllEntries /\ (ent[d][n].kind = "none" => ent[d][n] = None)
         /\ Upper(ent) # Nowhere <=> ent[Root]["t"].kind = "dir"
         /\ Lower(ent) # Nowhere <=> Upper(ent) # Nowhere /\ ent["t1"]["a"].kind = "dir"
         /\ Shrinks(ent, ent)
<1>1. FullTree(ent) /\ TwoLevels(ent)
  BY DEF Removing, OtherInv
<1>2. /\ "t1" # Nowhere /\ "t2" # Nowhere /\ "t1" \in Dirs /\ "t2" \in Dirs /\ Root \in Dirs
      /\ "t" \in Names /\ "a" \in Names /\ None.kind = "none"
  BY NamesHere DEF Nowhere, Dirs, None, Entry
<1>3. ASSUME NEW d \in Dirs, NEW n \in Names
      PROVE  ent[d][n] \in AllEntries /\ (ent[d][n].kind = "none" => ent[d][n] = None)
  <2>1. ent[d][n] \in AllEntries
    BY <1>1 DEF FullTree
  <2>2. File.kind = "file" /\ Link.kind = "link" /\ \A x : Entry("dir", x).kind = "dir"
    BY DEF File, Link, Entry
  <2> QED  BY <2>1, <2>2 DEF AllEntries
<1>4. Shrinks(ent, ent)
  BY DEF Shrinks
<1>5. Upper(ent) \in {"t1", Nowhere} /\ Lower(ent) \in {"t2", Nowhere}
  BY <1>1, Levels
<1>6. /\ Upper(ent) # Nowhere <=> ent[Root]["t"].kind = "dir"
      /\ Lower(ent) # Nowhere <=> Upper(ent) # Nowhere /\ ent["t1"]["a"].kind = "dir"
  BY <1>2 DEF Upper, Lower
<1> QED  BY <1>1, <1>2, <1>3, <1>4, <1>5, <1>6

\* Where a removal is.
LEMMA TopOrBelow ==
  ASSUME NEW p \in Walkers, NEW alone, Removing(p, alone), walk[p].pc \in Inside
  PROVE  \/ \E f \in Frames : /\ AtTop(ent, walk[p], f, alone) /\ Top(p) = f
                              /\ dir_at(f.path) = Upper(ent) /\ lstat(f.path) = ent[Root]["t"]
                              /\ \A n \in Names : lstat(Append(f.path, n)) =
                                   IF Upper(ent) = Nowhere THEN None ELSE ent["t1"][n]
         \/ \E f, g \in Frames :
              /\ Below(ent, walk[p], f, g, alone) /\ Top(p) = g
              /\ dir_at(g.path) = Lower(ent)
              /\ lstat(g.path) = IF Upper(ent) = Nowhere THEN None ELSE ent["t1"]["a"]
              /\ \A n \in Names : lstat(Append(g.path, n)) =
                   IF Lower(ent) = Nowhere THEN None ELSE ent["t2"][n]
<1>1. FullTree(ent) /\ TwoLevels(ent)
  BY DEF Removing, OtherInv
<1>2. ASSUME NEW f \in Frames, AtTop(ent, walk[p], f, alone)
      PROVE  /\ Top(p) = f
             /\ dir_at(f.path) = Upper(ent) /\ lstat(f.path) = ent[Root]["t"]
             /\ \A n \in Names : lstat(Append(f.path, n)) =
                  IF Upper(ent) = Nowhere THEN None ELSE ent["t1"][n]
  <2>1. walk[p].stack = <<f>> /\ f.path = <<"t">>
    BY <1>2 DEF AtTop
  <2>2. Last(<<f>>) = f
    BY TopTurns
  <2>3. Top(p) = f
    BY <2>1, <2>2 DEF Top
  <2>4. \A n \in Names : lstat(Append(<<"t">>, n)) = IF Upper(ent) = Nowhere THEN None ELSE ent["t1"][n]
    BY <1>1, Children, InThisTree
  <2>5. dir_at(<<"t">>) = Upper(ent) /\ lstat(<<"t">>) = ent[Root]["t"]
    BY <1>1, Levels, InThisTree
  <2> QED  BY <2>1, <2>3, <2>4, <2>5
<1>3. ASSUME NEW f \in Frames, NEW g \in Frames, Below(ent, walk[p], f, g, alone)
      PROVE  /\ Top(p) = g
             /\ dir_at(g.path) = Lower(ent)
             /\ lstat(g.path) = IF Upper(ent) = Nowhere THEN None ELSE ent["t1"]["a"]
             /\ \A n \in Names : lstat(Append(g.path, n)) =
                  IF Lower(ent) = Nowhere THEN None ELSE ent["t2"][n]
  <2>1. walk[p].stack = <<f, g>> /\ g.path = <<"t", "a">>
        /\ (Upper(ent) # Nowhere => ent["t1"]["a"].kind \in {"dir", "none"})
    BY <1>3 DEF Below
  <2>2. Last(<<f, g>>) = g
    BY TopTurns
  <2>3. Top(p) = g
    BY <2>1, <2>2 DEF Top
  <2>4. \A n \in Names : lstat(Append(<<"t", "a">>, n)) = IF Lower(ent) = Nowhere THEN None ELSE ent["t2"][n]
    BY <1>1, <2>1, Children, InThisTree
  <2>5. dir_at(<<"t", "a">>) = Lower(ent)
        /\ lstat(<<"t", "a">>) = IF Upper(ent) = Nowhere THEN None ELSE ent["t1"]["a"]
    BY <1>1, <2>1, Levels, InThisTree
  <2> QED  BY <2>1, <2>3, <2>4, <2>5
<1>4. (\E f \in Frames : AtTop(ent, walk[p], f, alone)) \/ (\E f, g \in Frames : Below(ent, walk[p], f, g, alone))
  BY DEF Removing, Sound
<1> QED  BY <1>2, <1>3, <1>4

\* The call goes on and the tree stays.
LEMMA OnlyTurns ==
  ASSUME NEW p \in Walkers, NEW alone, Removing(p, alone), NEW pc, NEW stack, Turns(p, pc, stack),
         UNCHANGED ent, Sound(ent, walk'[p], alone)
  PROVE  StepsOn(p, alone)
BY Around DEF StepsOn, Turns

\* A level that fails, or returns, over a directory that is gone.
LEMMA GivesUp ==
  ASSUME NEW p \in Walkers, NEW alone \in BOOLEAN, Removing(p, alone), walk[p].pc \in Inside,
         Fails(p), UNCHANGED ent,
         NEW f \in Frames, NEW g \in Frames,
         \/ AtTop(ent, walk[p], f, alone) /\ Upper(ent) = Nowhere
         \/ Below(ent, walk[p], f, g, alone) /\ Lower(ent) = Nowhere
  PROVE  StepsOn(p, alone)
<1>1. OtherInv
  BY DEF Removing
<1>2. CASE AtTop(ent, walk[p], f, alone) /\ Upper(ent) = Nowhere
  <2>1. \/ Turns(p, "ok", <<f>>)
        \/ walk[p].op = "fs_remove" /\ Turns(p, "err", <<f>>)
    BY <1>1, <1>2, TurnsBack DEF AtTop
  <2> QED  BY <1>2, <2>1, TurnsSound, OnlyTurns
<1>3. CASE Below(ent, walk[p], f, g, alone) /\ Lower(ent) = Nowhere
  <2>1. ~alone /\ f.path = <<"t">> /\ walk[p].stack = <<f, g>> /\ Left(ent, Upper(ent), f.todo \cup {"a"})
        /\ (Upper(ent) # Nowhere => ent["t1"]["a"].kind \in {"dir", "none"})
    BY <1>3 DEF Below
  <2>2. \/ walk[p].op = "fs_remove" /\ Turns(p, "err", <<f, g>>)
        \/ Turns(p, "next", <<f>>)
    BY <1>1, <2>1, TurnsBack
  <2>3. Left(ent, Upper(ent), f.todo)
    <3>1. Upper(ent) # Nowhere => Upper(ent) = "t1" /\ ent["t1"]["a"] = None
      BY <1>3, <2>1, Around
    <3> QED  BY <2>1, <3>1 DEF Left
  <2>4. Working(ent, Upper(ent), f, "next", alone)
    BY <2>1, <2>3 DEF Working
  <2>5. "next" \in Inside
    BY DEF Inside
  <2> QED  BY <2>1, <2>2, <2>4, <2>5, TurnsSound, OnlyTurns
<1> QED  BY <1>2, <1>3

LEMMA ReadSteps ==
  ASSUME NEW p \in Walkers, NEW alone \in BOOLEAN, Removing(p, alone), read_dir(p)
  PROVE  StepsOn(p, alone)
<1>1. /\ walk[p].pc = "open" /\ walk[p].pc \in Inside /\ UNCHANGED ent /\ OtherInv /\ "next" \in Inside
      /\ LET d == dir_at(Top(p).path)
         IN  IF d = Nowhere THEN Fails(p) ELSE Lists(p, {n \in Names : ent[d][n] # None})
  BY DEF read_dir, At, Keeps, Inside, Removing
<1>2. ASSUME NEW d, d # Nowhere, NEW f \in Frames, NEW h, h = [f EXCEPT !.todo = {n \in Names : ent[d][n] # None}]
      PROVE  Working(ent, d, h, "next", alone) /\ h \in Frames /\ h.path = f.path
  <2>1. h.todo = {n \in Names : ent[d][n] # None} /\ h \in Frames /\ h.path = f.path
    BY <1>2 DEF Frames
  <2> QED  BY <1>2, <2>1 DEF Working, Left, Listed
<1>3. ASSUME NEW f \in Frames, AtTop(ent, walk[p], f, alone), Top(p) = f, dir_at(f.path) = Upper(ent)
      PROVE  StepsOn(p, alone)
  <2>1. CASE Upper(ent) = Nowhere
    BY <1>1, <1>3, <2>1, GivesUp
  <2>2. CASE Upper(ent) # Nowhere
    <3> DEFINE h == [f EXCEPT !.todo = {n \in Names : ent[Upper(ent)][n] # None}]
    <3>1. walk[p].stack = <<f>> /\ f.path = <<"t">>
      BY <1>3 DEF AtTop
    <3>2. Turns(p, "next", <<h>>)
      BY <1>1, <1>3, <2>2, <3>1, ListsTurns
    <3>3. Working(ent, Upper(ent), h, "next", alone) /\ h \in Frames /\ h.path = <<"t">>
      BY <1>2, <2>2, <3>1
    <3> HIDE DEF h
    <3> QED  BY <1>1, <3>2, <3>3, TurnsSound, OnlyTurns
  <2> QED  BY <2>1, <2>2
<1>4. ASSUME NEW f \in Frames, NEW g \in Frames, Below(ent, walk[p], f, g, alone), Top(p) = g,
             dir_at(g.path) = Lower(ent)
      PROVE  StepsOn(p, alone)
  <2>1. CASE Lower(ent) = Nowhere
    BY <1>1, <1>4, <2>1, GivesUp
  <2>2. CASE Lower(ent) # Nowhere
    <3> DEFINE h == [g EXCEPT !.todo = {n \in Names : ent[Lower(ent)][n] # None}]
    <3>1. /\ walk[p].stack = <<f, g>> /\ f.path = <<"t">> /\ g.path = <<"t", "a">>
          /\ Left(ent, Upper(ent), f.todo \cup {"a"})
          /\ Upper(ent) # Nowhere => ent["t1"]["a"].kind \in {"dir", "none"}
          /\ alone => Listed(ent, Upper(ent), f) /\ "a" \notin f.todo /\ Lower(ent) # Nowhere
      BY <1>4 DEF Below
    <3>2. Turns(p, "next", <<f, h>>)
      BY <1>1, <1>4, <2>2, <3>1, ListsTurns
    <3>3. Working(ent, Lower(ent), h, "next", alone) /\ h \in Frames /\ h.path = <<"t", "a">>
      BY <1>2, <2>2, <3>1
    <3> HIDE DEF h
    <3>4. Sound(ent, walk'[p], alone)
      BY <1>1, <3>1, <3>2, <3>3, TurnsSound
    <3> QED  BY <1>1, <3>2, <3>4, OnlyTurns
  <2> QED  BY <2>1, <2>2
<1> QED  BY <1>1, <1>3, <1>4, TopOrBelow

LEMMA LooksSteps ==
  ASSUME NEW p \in Walkers, NEW alone \in BOOLEAN, Removing(p, alone), symlink_metadata(p)
  PROVE  StepsOn(p, alone)
<1>1. /\ walk[p].pc = "next" /\ walk[p].pc \in Inside /\ UNCHANGED ent /\ OtherInv
      /\ "open" \in Inside /\ "unlink" \in Inside
  BY DEF symlink_metadata, Looks, At, Keeps, Inside, Removing
<1>2. ASSUME NEW f \in Frames, NEW n \in f.todo, NEW h, h = Looked(f, n)
      PROVE  /\ h \in Frames /\ h.path = f.path /\ h.todo = f.todo \ {n} /\ h.name = n
             /\ n \in Names /\ h.todo \cup {n} = f.todo
  BY <1>2 DEF Looked, Frames
<1>3. ASSUME NEW f \in Frames, AtTop(ent, walk[p], f, alone), Top(p) = f,
             \A n \in Names : lstat(Append(f.path, n)) = IF Upper(ent) = Nowhere THEN None ELSE ent["t1"][n]
      PROVE  StepsOn(p, alone)
  <2>1. /\ walk[p].stack = <<f>> /\ f.path = <<"t">> /\ Left(ent, Upper(ent), f.todo)
        /\ alone => Listed(ent, Upper(ent), f)
    BY <1>1, <1>3 DEF AtTop, Working
  <2>2. PICK n \in f.todo :
          LET e == lstat(Append(f.path, n))
              h == Looked(f, n)
          IN  \/ e.kind = "dir" /\ Turns(p, "open", <<h, Frame(Append(f.path, n))>>)
              \/ e.kind # "dir" /\ Turns(p, "unlink", <<h>>)
              \/ e = None /\ walk[p].op = "fs_remove" /\ Turns(p, "err", <<h>>)
    BY <1>1, <2>1, LooksTurns
  <2> DEFINE e == lstat(Append(f.path, n))
             h == Looked(f, n)
  <2>3. /\ h \in Frames /\ h.path = <<"t">> /\ h.todo = f.todo \ {n} /\ h.name = n
        /\ n \in Names /\ h.todo \cup {n} = f.todo
    BY <1>2, <2>1
  <2>4. e = IF Upper(ent) = Nowhere THEN None ELSE ent["t1"][n]
    BY <1>3, <2>3
  <2> HIDE DEF e, h
  <2>5. CASE e.kind = "dir" /\ Turns(p, "open", <<h, Frame(Append(f.path, n))>>)
    <3> DEFINE k == Frame(Append(f.path, n))
    <3>1. Upper(ent) # Nowhere /\ ent["t1"][n].kind = "dir" /\ "t1" \in Dirs
      BY <2>4, <2>5, Around
    <3>2. n = "a"
      BY <2>3, <3>1 DEF Removing, TwoLevels, Root
    <3>3. k.path = <<"t", "a">> /\ k \in Frames
      <4>1. Append(f.path, n) = <<"t", "a">>
        <5>1. Append(<<"t">>, "a") = <<"t", "a">>
          BY Ends
        <5> QED  BY <2>1, <3>2, <5>1
      <4>2. <<"t", "a">> \in Seq(Names) /\ "t" \in Names
        BY NamesHere
      <4> QED  BY <4>1, <4>2 DEF Frame, Frames
    <3> HIDE DEF k
    <3>4. Working(ent, Lower(ent), k, "open", alone)
      BY DEF Working
    <3>5. Left(ent, Upper(ent), h.todo \cup {"a"}) /\ (alone => Listed(ent, Upper(ent), h) /\ "a" \notin h.todo)
      BY <2>1, <2>3, <3>2 DEF Left, Listed
    <3>6. Lower(ent) # Nowhere
      BY <3>1, <3>2, Around
    <3>7. Turns(p, "open", <<h, k>>)
      BY <2>5 DEF k
    <3>8. Sound(ent, walk'[p], alone)
      BY <1>1, <2>3, <3>1, <3>2, <3>3, <3>4, <3>5, <3>6, <3>7, TurnsSound
    <3> QED  BY <1>1, <3>7, <3>8, OnlyTurns
  <2>6. CASE e.kind # "dir" /\ Turns(p, "unlink", <<h>>)
    <3>1. Working(ent, Upper(ent), h, "unlink", alone)
      <4>1. Upper(ent) # Nowhere => ent[Upper(ent)][n] = e
        BY <2>4, Around
      <4>2. Left(ent, Upper(ent), h.todo \cup {h.name}) /\ (alone => Listed(ent, Upper(ent), h))
        BY <2>1, <2>3 DEF Left, Listed
      <4> QED  BY <2>3, <2>6, <4>1, <4>2 DEF Working
    <3> QED  BY <1>1, <2>3, <2>6, <3>1, TurnsSound, OnlyTurns
  <2>7. CASE e = None /\ walk[p].op = "fs_remove" /\ Turns(p, "err", <<h>>)
    <3>1. ~alone
      <4>1. alone => Upper(ent) = "t1" /\ ent["t1"][n] # None /\ "t1" # Nowhere
        BY <2>1, Around DEF Listed
      <4> QED  BY <2>4, <2>7, <4>1
    <3> QED  BY <1>1, <2>7, <3>1, TurnsSound, OnlyTurns
  <2> QED  BY <2>2, <2>5, <2>6, <2>7 DEF e, h
<1>4. ASSUME NEW f \in Frames, NEW g \in Frames, Below(ent, walk[p], f, g, alone), Top(p) = g,
             \A n \in Names : lstat(Append(g.path, n)) = IF Lower(ent) = Nowhere THEN None ELSE ent["t2"][n]
      PROVE  StepsOn(p, alone)
  <2>1. /\ walk[p].stack = <<f, g>> /\ f.path = <<"t">> /\ g.path = <<"t", "a">>
        /\ Left(ent, Upper(ent), f.todo \cup {"a"})
        /\ Upper(ent) # Nowhere => ent["t1"]["a"].kind \in {"dir", "none"}
        /\ alone => Listed(ent, Upper(ent), f) /\ "a" \notin f.todo /\ Lower(ent) # Nowhere
        /\ Left(ent, Lower(ent), g.todo) /\ (alone => Listed(ent, Lower(ent), g))
    BY <1>1, <1>4 DEF Below, Working
  <2>2. PICK n \in g.todo :
          LET e == lstat(Append(g.path, n))
              h == Looked(g, n)
          IN  \/ e.kind = "dir"
              \/ e.kind # "dir" /\ Turns(p, "unlink", <<f, h>>)
              \/ e = None /\ walk[p].op = "fs_remove" /\ Turns(p, "err", <<f, h>>)
    BY <1>1, <2>1, LooksTurns
  <2> DEFINE e == lstat(Append(g.path, n))
             h == Looked(g, n)
  <2>3. /\ h \in Frames /\ h.path = <<"t", "a">> /\ h.todo = g.todo \ {n} /\ h.name = n
        /\ n \in Names /\ h.todo \cup {n} = g.todo
    BY <1>2, <2>1
  <2>4. e = IF Lower(ent) = Nowhere THEN None ELSE ent["t2"][n]
    BY <1>4, <2>3
  <2> HIDE DEF e, h
  <2>5. e.kind # "dir"
    <3>1. "t2" \in Dirs => ent["t2"][n].kind # "dir"
      BY <2>3 DEF Removing, TwoLevels, Root
    <3> QED  BY <2>4, <3>1, Around
  <2>6. CASE Turns(p, "unlink", <<f, h>>)
    <3>1. Working(ent, Lower(ent), h, "unlink", alone)
      <4>1. Lower(ent) # Nowhere => ent[Lower(ent)][n] = e
        BY <2>4, Around
      <4>2. Left(ent, Lower(ent), h.todo \cup {h.name}) /\ (alone => Listed(ent, Lower(ent), h))
        BY <2>1, <2>3 DEF Left, Listed
      <4> QED  BY <2>3, <2>5, <4>1, <4>2 DEF Working
    <3>2. Sound(ent, walk'[p], alone)
      BY <1>1, <2>1, <2>3, <2>6, <3>1, TurnsSound
    <3> QED  BY <1>1, <2>6, <3>2, OnlyTurns
  <2>7. CASE e = None /\ walk[p].op = "fs_remove" /\ Turns(p, "err", <<f, h>>)
    <3>1. ~alone
      <4>1. alone => Lower(ent) = "t2" /\ ent["t2"][n] # None /\ "t2" # Nowhere
        BY <2>1, Around DEF Listed
      <4> QED  BY <2>4, <2>7, <4>1
    <3> QED  BY <1>1, <2>7, <3>1, TurnsSound, OnlyTurns
  <2> QED  BY <2>2, <2>5, <2>6, <2>7 DEF e, h
<1> QED  BY <1>1, <1>3, <1>4, TopOrBelow

LEMMA TakesOne ==
  ASSUME NEW p \in Walkers, NEW alone, Removing(p, alone), NEW d \in Dirs, NEW n \in Names,
         ent' = [ent EXCEPT ![d][n] = None]
  PROVE  /\ Shrinks(ent, ent') /\ ent'[d][n] = None
         /\ \A e \in Dirs, m \in Names : e # d \/ m # n => ent'[e][m] = ent[e][m]
<1>1. FullTree(ent)
  BY DEF Removing, OtherInv
<1> QED  BY <1>1 DEF FullTree, Shrinks

LEMMA NothingLeft ==
  ASSUME NEW p \in Walkers, NEW alone, Removing(p, alone), NEW d \in {"t1", "t2"}, Left(ent, d, {})
  PROVE  ent[d] = Empty
<1>1. FullTree(ent) /\ d \in Dirs /\ d # Nowhere
  BY DEF Removing, OtherInv, Dirs, Nowhere
<1>2. ent[d] \in [Names -> AllEntries] /\ \A n \in Names : ent[d][n] = None
  BY <1>1 DEF FullTree, Left
<1> QED  BY <1>2 DEF Empty

LEMMA UnlinkSteps ==
  ASSUME NEW p \in Walkers, NEW alone \in BOOLEAN, Removing(p, alone), unlink(p)
  PROVE  StepsOn(p, alone)
<1>1. /\ walk[p].pc = "unlink" /\ walk[p].pc \in Inside /\ OtherInv /\ "next" \in Inside
      /\ Turns(p, "next", walk[p].stack)
      /\ IF lstat(Child(p)).kind \in {"file", "link"} THEN Put(Child(p), None) ELSE ent' = ent
  <2>1. walk[p].pc = "unlink" /\ Goto(p, "next") /\ OtherInv
    BY DEF unlink, At, Removing
  <2> QED  BY <2>1, TurnsTo DEF unlink, Inside
<1>2. ASSUME NEW f \in Frames, AtTop(ent, walk[p], f, alone), Top(p) = f, dir_at(f.path) = Upper(ent),
             \A n \in Names : lstat(Append(f.path, n)) = IF Upper(ent) = Nowhere THEN None ELSE ent["t1"][n]
      PROVE  StepsOn(p, alone)
  <2>1. /\ walk[p].stack = <<f>> /\ f.path = <<"t">> /\ f.name \in Names /\ f.path \in Seq(Names)
        /\ Left(ent, Upper(ent), f.todo \cup {f.name})
        /\ Upper(ent) # Nowhere => ent["t1"][f.name].kind # "dir"
        /\ alone => Listed(ent, Upper(ent), f) /\ f.name \notin f.todo
    BY <1>1, <1>2, Around DEF AtTop, Working, Frames
  <2> DEFINE e == lstat(Child(p))
  <2>2. e = IF Upper(ent) = Nowhere THEN None ELSE ent["t1"][f.name]
    BY <1>2, <2>1 DEF Child
  <2> HIDE DEF e
  <2>3. CASE e.kind \in {"file", "link"} /\ Put(Child(p), None)
    <3>1. Upper(ent) = "t1" /\ "t1" \in Dirs /\ Root \in Dirs /\ "t1" # Root /\ "t" \in Names
      BY <2>2, <2>3, Around DEF Root
    <3>2. ent' = [ent EXCEPT !["t1"][f.name] = None]
      <4>1. Put(Append(f.path, f.name), None)
        BY <1>2, <2>3 DEF Child
      <4>2. DirIn(ent, f.path) = "t1"
        BY <1>2, <3>1, InThisTree
      <4> QED  BY <2>1, <4>1, <4>2, PutsAt
    <3>3. /\ Shrinks(ent, ent') /\ ent'["t1"][f.name] = None
          /\ \A d \in Dirs, m \in Names : d # "t1" \/ m # f.name => ent'[d][m] = ent[d][m]
      BY <2>1, <3>1, <3>2, TakesOne
    <3>4. Upper(ent') = Upper(ent)
      BY <3>1, <3>3 DEF Upper
    <3>5. Working(ent', Upper(ent'), f, "next", alone)
      <4>1. f.todo \subseteq Names
        BY DEF Frames
      <4> QED  BY <2>1, <3>1, <3>3, <3>4, <4>1 DEF Working, Left, Listed
    <3> QED  BY <1>1, <2>1, <3>3, <3>5, TurnsSound DEF StepsOn, Turns
  <2>4. CASE e.kind \notin {"file", "link"} /\ ent' = ent
    <3>1. Upper(ent) # Nowhere => ent["t1"][f.name] = None /\ Upper(ent) = "t1"
      <4>1. ASSUME Upper(ent) # Nowhere
            PROVE  ent["t1"][f.name] = None /\ Upper(ent) = "t1"
        <5>1. e = ent["t1"][f.name] /\ e \in AllEntries /\ Upper(ent) = "t1" /\ e.kind # "dir"
          BY <2>1, <2>2, <4>1, Around
        <5> QED  BY <2>1, <2>4, <5>1, AllEntryFacts, Around
      <4> QED  BY <4>1
    <3>2. Working(ent, Upper(ent), f, "next", alone)
      BY <2>1, <3>1 DEF Working, Left
    <3>3. Sound(ent, walk'[p], alone)
      BY <1>1, <2>1, <3>2, TurnsSound
    <3> QED  BY <1>1, <2>4, <3>3, OnlyTurns
  <2> QED  BY <1>1, <2>3, <2>4 DEF e
<1>3. ASSUME NEW f \in Frames, NEW g \in Frames, Below(ent, walk[p], f, g, alone), Top(p) = g,
             dir_at(g.path) = Lower(ent),
             \A n \in Names : lstat(Append(g.path, n)) = IF Lower(ent) = Nowhere THEN None ELSE ent["t2"][n]
      PROVE  StepsOn(p, alone)
  <2>1. /\ walk[p].stack = <<f, g>> /\ f.path = <<"t">> /\ g.path = <<"t", "a">>
        /\ g.name \in Names /\ g.path \in Seq(Names)
        /\ Left(ent, Upper(ent), f.todo \cup {"a"})
        /\ Upper(ent) # Nowhere => ent["t1"]["a"].kind \in {"dir", "none"}
        /\ alone => Listed(ent, Upper(ent), f) /\ "a" \notin f.todo /\ Lower(ent) # Nowhere
        /\ Left(ent, Lower(ent), g.todo \cup {g.name})
        /\ Lower(ent) # Nowhere => ent["t2"][g.name].kind # "dir"
        /\ alone => Listed(ent, Lower(ent), g) /\ g.name \notin g.todo
    BY <1>1, <1>3, Around DEF Below, Working, Frames
  <2> DEFINE e == lstat(Child(p))
  <2>2. e = IF Lower(ent) = Nowhere THEN None ELSE ent["t2"][g.name]
    BY <1>3, <2>1 DEF Child
  <2> HIDE DEF e
  <2>3. CASE e.kind \in {"file", "link"} /\ Put(Child(p), None)
    <3>1. /\ Lower(ent) = "t2" /\ "t2" \in Dirs /\ "t1" \in Dirs /\ Root \in Dirs /\ "t2" # Root /\ "t2" # "t1"
          /\ "t" \in Names /\ "a" \in Names /\ Upper(ent) \in {"t1", Nowhere}
      BY <2>2, <2>3, Around DEF Root
    <3>2. ent' = [ent EXCEPT !["t2"][g.name] = None]
      <4>1. Put(Append(g.path, g.name), None)
        BY <1>3, <2>3 DEF Child
      <4>2. DirIn(ent, g.path) = "t2"
        BY <1>3, <3>1, InThisTree
      <4> QED  BY <2>1, <4>1, <4>2, PutsAt
    <3>3. /\ Shrinks(ent, ent') /\ ent'["t2"][g.name] = None
          /\ \A d \in Dirs, m \in Names : d # "t2" \/ m # g.name => ent'[d][m] = ent[d][m]
      BY <2>1, <3>1, <3>2, TakesOne
    <3>4. Upper(ent') = Upper(ent) /\ ent'["t1"]["a"] = ent["t1"]["a"]
      BY <3>1, <3>3 DEF Upper
    <3>5. Lower(ent') = Lower(ent)
      BY <3>4 DEF Lower
    <3>6. Working(ent', Lower(ent'), g, "next", alone)
      <4>1. g.todo \subseteq Names
        BY DEF Frames
      <4> QED  BY <2>1, <3>1, <3>3, <3>5, <4>1 DEF Working, Left, Listed
    <3>7. /\ Left(ent', Upper(ent'), f.todo \cup {"a"})
          /\ alone => Listed(ent', Upper(ent'), f)
      <4>1. f.todo \subseteq Names
        BY DEF Frames
      <4> QED  BY <2>1, <3>1, <3>3, <3>4, <4>1 DEF Left, Listed
    <3>8. Sound(ent', walk'[p], alone)
      BY <1>1, <2>1, <3>4, <3>5, <3>6, <3>7, TurnsSound
    <3> QED  BY <1>1, <3>3, <3>8 DEF StepsOn, Turns
  <2>4. CASE e.kind \notin {"file", "link"} /\ ent' = ent
    <3>1. Lower(ent) # Nowhere => ent["t2"][g.name] = None /\ Lower(ent) = "t2"
      <4>1. ASSUME Lower(ent) # Nowhere
            PROVE  ent["t2"][g.name] = None /\ Lower(ent) = "t2"
        <5>1. e = ent["t2"][g.name] /\ e \in AllEntries /\ Lower(ent) = "t2" /\ e.kind # "dir"
          BY <2>1, <2>2, <4>1, Around
        <5> QED  BY <2>1, <2>4, <5>1, AllEntryFacts, Around
      <4> QED  BY <4>1
    <3>2. Working(ent, Lower(ent), g, "next", alone)
      BY <2>1, <3>1 DEF Working, Left
    <3>3. Sound(ent, walk'[p], alone)
      BY <1>1, <2>1, <3>2, TurnsSound
    <3> QED  BY <1>1, <2>4, <3>3, OnlyTurns
  <2> QED  BY <1>1, <2>3, <2>4 DEF e
<1> QED  BY <1>1, <1>2, <1>3, TopOrBelow

LEMMA RmdirSteps ==
  ASSUME NEW p \in Walkers, NEW alone \in BOOLEAN, Removing(p, alone), rmdir(p)
  PROVE  StepsOn(p, alone)
<1>1. /\ walk[p].pc = "next" /\ walk[p].pc \in Inside /\ OtherInv /\ "next" \in Inside
      /\ Top(p).todo = {}
      /\ LET e == lstat(Top(p).path)
         IN  IF e.kind = "dir" /\ ent[e.to] = Empty
             THEN Put(Top(p).path, None) /\ Pop(p)
             ELSE Fails(p) /\ ent' = ent
  BY DEF rmdir, At, Inside, Removing
<1>2. ASSUME NEW f \in Frames, AtTop(ent, walk[p], f, alone), Top(p) = f, lstat(f.path) = ent[Root]["t"]
      PROVE  StepsOn(p, alone)
  <2>1. walk[p].stack = <<f>> /\ f.path = <<"t">> /\ Left(ent, Upper(ent), {})
    BY <1>1, <1>2 DEF AtTop, Working
  <2>2. CASE Upper(ent) = Nowhere
    <3>1. ent[Root]["t"].kind # "dir"
      BY <2>2, Around
    <3>2. Fails(p) /\ ent' = ent
      BY <1>1, <1>2, <3>1
    <3> QED  BY <1>1, <1>2, <2>2, <3>2, GivesUp
  <2>3. CASE Upper(ent) # Nowhere
    <3>1. ent[Root]["t"].kind = "dir" /\ ent[Root]["t"].to = "t1" /\ Upper(ent) = "t1"
      <4>1. ent[Root]["t"].kind = "dir" /\ Upper(ent) = "t1" /\ Root \in Dirs /\ "t" \in Names
        BY <2>3, Around
      <4> QED  BY <4>1 DEF Removing, TwoLevels, Root
    <3>2. ent["t1"] = Empty
      BY <2>1, <3>1, NothingLeft
    <3>3. Put(<<"t">>, None) /\ Pop(p)
      BY <1>1, <1>2, <2>1, <3>1, <3>2
    <3>4. ent' = [ent EXCEPT ![Root]["t"] = None]
      <4> DEFINE none == <<>>
      <4>1. none \in Seq(Names) /\ DirIn(ent, none) = Root
        BY StartsAtRoot
      <4>2. Append(none, "t") = <<"t">>
        BY Ends
      <4> HIDE DEF none
      <4>3. Put(Append(none, "t"), None)
        BY <3>3, <4>2
      <4> QED  BY <4>1, <4>3, NamesHere, PutsAt
    <3>5. Shrinks(ent, ent') /\ ent'[Root]["t"] = None
      BY <3>4, Around, TakesOne
    <3>6. Upper(ent') = Nowhere
      BY <3>5, Around DEF Upper
    <3>7. Turns(p, "ok", <<f>>)
      BY <1>1, <2>1, <3>3, TurnsBack
    <3>8. Sound(ent', walk'[p], alone)
      BY <3>6, <3>7, TurnsSound
    <3> QED  BY <3>5, <3>7, <3>8 DEF StepsOn, Turns
  <2> QED  BY <2>2, <2>3
<1>3. ASSUME NEW f \in Frames, NEW g \in Frames, Below(ent, walk[p], f, g, alone), Top(p) = g,
             lstat(g.path) = IF Upper(ent) = Nowhere THEN None ELSE ent["t1"]["a"]
      PROVE  StepsOn(p, alone)
  <2>1. /\ walk[p].stack = <<f, g>> /\ f.path = <<"t">> /\ g.path = <<"t", "a">>
        /\ Left(ent, Upper(ent), f.todo \cup {"a"})
        /\ Upper(ent) # Nowhere => ent["t1"]["a"].kind \in {"dir", "none"}
        /\ alone => Listed(ent, Upper(ent), f) /\ "a" \notin f.todo /\ Lower(ent) # Nowhere
        /\ Left(ent, Lower(ent), {})
    BY <1>1, <1>3 DEF Below, Working
  <2>2. CASE Lower(ent) = Nowhere
    <3>1. lstat(g.path).kind # "dir"
      BY <1>3, <2>2, Around
    <3>2. Fails(p) /\ ent' = ent
      BY <1>1, <1>3, <3>1
    <3> QED  BY <1>1, <1>3, <2>2, <3>2, GivesUp
  <2>3. CASE Lower(ent) # Nowhere
    <3>1. /\ Upper(ent) = "t1" /\ Lower(ent) = "t2" /\ ent["t1"]["a"].kind = "dir" /\ ent["t1"]["a"].to = "t2"
          /\ "t1" \in Dirs /\ "a" \in Names /\ "t" \in Names /\ Root \in Dirs
      <4>1. Upper(ent) = "t1" /\ Lower(ent) = "t2" /\ ent["t1"]["a"].kind = "dir"
            /\ "t1" \in Dirs /\ "a" \in Names /\ "t" \in Names /\ Root \in Dirs
        BY <2>3, Around
      <4> QED  BY <4>1 DEF Removing, TwoLevels, Root
    <3>2. ent["t2"] = Empty
      BY <2>1, <3>1, NothingLeft
    <3>3. Put(<<"t", "a">>, None) /\ Pop(p)
      <4>1. lstat(g.path).kind = "dir" /\ ent[lstat(g.path).to] = Empty
        BY <1>3, <3>1, <3>2, Around
      <4> QED  BY <1>1, <1>3, <2>1, <4>1
    <3>4. ent' = [ent EXCEPT !["t1"]["a"] = None]
      <4> DEFINE one == <<"t">>
      <4>1. one \in Seq(Names) /\ "a" \in Names /\ DirIn(ent, one) = "t1"
        BY <3>1, Around, Levels
      <4>2. Append(one, "a") = <<"t", "a">>
        BY Ends
      <4> HIDE DEF one
      <4>3. Put(Append(one, "a"), None)
        BY <3>3, <4>2
      <4> QED  BY <4>1, <4>3, PutsAt
    <3>5. /\ Shrinks(ent, ent') /\ ent'["t1"]["a"] = None
          /\ \A d \in Dirs, m \in Names : d # "t1" \/ m # "a" => ent'[d][m] = ent[d][m]
      BY <3>1, <3>4, TakesOne
    <3>6. Upper(ent') = Upper(ent)
      <4>1. Root # "t1"
        BY DEF Root
      <4> QED  BY <3>1, <3>5, <4>1 DEF Upper
    <3>7. Turns(p, "next", <<f>>)
      BY <1>1, <2>1, <3>3, TurnsBack
    <3>8. Working(ent', Upper(ent'), f, "next", alone)
      <4>1. f.todo \subseteq Names
        BY DEF Frames
      <4> QED  BY <2>1, <3>1, <3>5, <3>6, <4>1 DEF Working, Left, Listed
    <3>9. Sound(ent', walk'[p], alone)
      BY <1>1, <2>1, <3>7, <3>8, TurnsSound
    <3> QED  BY <3>5, <3>7, <3>9 DEF StepsOn, Turns
  <2> QED  BY <2>2, <2>3
<1> QED  BY <1>1, <1>2, <1>3, TopOrBelow

RemoveInv ==
  /\ TwoLevels(ent)
  /\ \A p \in Walkers : walk[p].op \in Removals =>
       Sound(ent, walk[p], FALSE) /\ (Active = {p} => Sound(ent, walk[p], TRUE))

\* Before the other process steps in: what the calls of one kind have done.
Quiet ==
  /\ Resting
  /\ AllAre({"create"}) => CreateInv
  /\ ~linked /\ AllAre(Removals) => RemoveInv

FinishInv == OtherInv /\ meddles \in Nat /\ (meddles = 0 => Quiet)

\* A step of one call, that leaves the kinds of the calls and the other calls alone.
Moved(p) ==
  /\ walk'[p].op = walk[p].op /\ linked' = linked
  /\ \A q \in Walkers \ {p} : walk'[q] = walk[q]

LEMMA QuietSteps ==
  ASSUME OtherInv, Quiet, meddles = 0, TreeNext, meddles' = 0
  PROVE  \E p \in Walkers :
           /\ Moved(p) /\ walk[p].op # "none"
           /\ \/ walk[p].pc \in Inside /\ (read_dir(p) \/ symlink_metadata(p) \/ unlink(p) \/ rmdir(p))
              \/ walk[p].pc = "mkdir" /\ create_dir_all(p)
<1>1. ASSUME NEW p \in Walkers PROVE walk[p] \in OtherCalls /\ walk \in [Walkers -> OtherCalls]
  BY DEF OtherInv
<1>2. ASSUME NEW p \in Walkers, walk[p].pc \in Inside \cup {"mkdir"}
      PROVE  walk[p].op # "none"
  BY <1>2 DEF Quiet, Resting, Inside
<1>3. ASSUME NEW p \in Walkers, NEW pc, NEW stack, Turns(p, pc, stack), linked' = linked
      PROVE  Moved(p)
  BY <1>3 DEF Turns, Moved
<1>4. ASSUME NEW p \in Walkers, Pop(p) \/ Fails(p), linked' = linked
      PROVE  Moved(p)
  <2>1. \E pc, stack : Turns(p, pc, stack)
    <3>1. \A s : Goto(p, s) => Turns(p, s, walk[p].stack)
      BY TurnsTo
    <3>2. \A s, t : walk' = [walk EXCEPT ![p].stack = t, ![p].pc = s] => Turns(p, s, t)
      BY TurnsTo
    <3>3. \/ Goto(p, "ok") \/ Goto(p, "err")
          \/ walk' = [walk EXCEPT ![p].stack = Front(walk[p].stack), ![p].pc = "next"]
      BY <1>4 DEF Pop, Fails
    <3> QED  BY <3>1, <3>2, <3>3
  <2> QED  BY <1>3, <1>4, <2>1
<1>5. ASSUME NEW p \in Walkers, read_dir(p)
      PROVE  walk[p].pc \in Inside /\ Moved(p)
  <2>1. walk[p].pc \in Inside /\ linked' = linked
    BY <1>5 DEF read_dir, At, Keeps, Inside
  <2>2. Fails(p) \/ \E listed : Lists(p, listed)
    BY <1>5 DEF read_dir
  <2>3. ASSUME NEW listed, Lists(p, listed)
        PROVE  \E stack : Turns(p, "next", stack)
    BY <2>3, TurnsTo DEF Lists
  <2> QED  BY <1>3, <1>4, <2>1, <2>2, <2>3
<1>6. ASSUME NEW p \in Walkers, symlink_metadata(p)
      PROVE  walk[p].pc \in Inside /\ Moved(p)
  <2>1. walk[p].pc \in Inside /\ linked' = linked
    BY <1>6 DEF symlink_metadata, Looks, At, Keeps, Inside
  <2>2. \E s, t : walk' = [walk EXCEPT ![p].stack = t, ![p].pc = s]
    BY <1>6 DEF symlink_metadata, Looks
  <2>3. \E pc, stack : Turns(p, pc, stack)
    BY <2>2, TurnsTo
  <2> QED  BY <1>3, <2>1, <2>3
<1>7. ASSUME NEW p \in Walkers, unlink(p)
      PROVE  walk[p].pc \in Inside /\ Moved(p)
  <2>1. walk[p].pc \in Inside /\ linked' = linked /\ Goto(p, "next")
    BY <1>7 DEF unlink, At, Inside
  <2> QED  BY <1>3, <2>1, TurnsTo
<1>8. ASSUME NEW p \in Walkers, rmdir(p)
      PROVE  walk[p].pc \in Inside /\ Moved(p)
  <2>1. walk[p].pc \in Inside /\ linked' = linked /\ (Pop(p) \/ Fails(p))
    BY <1>8 DEF rmdir, At, Inside
  <2> QED  BY <1>4, <2>1
<1>9. ASSUME NEW p \in Walkers, create_dir_all(p)
      PROVE  walk[p].pc = "mkdir" /\ Moved(p)
  <2>1. walk[p].pc = "mkdir" /\ linked' = linked
    BY <1>9 DEF create_dir_all, At
  <2>2. Goto(p, "err") \/ \E s : walk' = [walk EXCEPT ![p].made = @ + 1, ![p].pc = s]
    BY <1>9 DEF create_dir_all
  <2>3. ASSUME NEW s, walk' = [walk EXCEPT ![p].made = @ + 1, ![p].pc = s]
        PROVE  Moved(p)
    <3> DEFINE c == [walk[p] EXCEPT !.made = @ + 1, !.pc = s]
    <3>1. c.op = walk[p].op
      BY <1>1 DEF OtherCalls
    <3>2. walk' = [walk EXCEPT ![p] = c]
      BY <2>3
    <3> HIDE DEF c
    <3> QED  BY <1>1, <2>1, <3>1, <3>2 DEF Moved
  <2> QED  BY <1>3, <2>1, <2>2, <2>3, TurnsTo
<1>10. ASSUME NEW p \in Walkers
       PROVE  ~fetch_add(p) /\ ~new_in(p) /\ ~Fill(p) /\ ~DropTempDir(p)
  <2>1. walk[p].pc \notin {"name", "claim", "fill", "live"}
    BY <1>1 DEF OtherCalls, Inside
  <2> QED  BY <2>1 DEF fetch_add, new_in, Fill, DropTempDir, At
<1>11. ASSUME NEW p \in Walkers
       PROVE  ~ReaddirFails(p) /\ ~MkdirFails(p) /\ ~Restart(p)
  BY DEF ReaddirFails, MkdirFails, Restart
<1>12. ASSUME NEW d, NEW n PROVE ~Meddle(d, n)
  BY DEF Meddle
<1> QED
  BY <1>2, <1>5, <1>6, <1>7, <1>8, <1>9, <1>10, <1>11, <1>12 DEF TreeNext

LEMMA RemoveStep ==
  ASSUME OtherInv, Resting, ~linked, AllAre(Removals), RemoveInv, NEW p \in Walkers, walk[p].op # "none",
         \/ walk[p].pc \in Inside /\ (read_dir(p) \/ symlink_metadata(p) \/ unlink(p) \/ rmdir(p))
         \/ walk[p].pc = "mkdir" /\ create_dir_all(p)
  PROVE  RemoveInv'
<1>1. walk[p].op \in Removals /\ Removing(p, FALSE) /\ (Active = {p} => Removing(p, TRUE))
  <2>1. walk[p].op \in Removals
    BY DEF AllAre
  <2> QED  BY <2>1 DEF RemoveInv, Removing
<1>2. read_dir(p) \/ symlink_metadata(p) \/ unlink(p) \/ rmdir(p)
  <2>1. walk[p].pc # "mkdir"
    BY <1>1 DEF Removing, Sound, Inside
  <2> QED  BY <2>1
<1>3. StepsOn(p, FALSE) /\ (Active = {p} => StepsOn(p, TRUE))
  <2>1. ASSUME NEW alone \in BOOLEAN, Removing(p, alone) PROVE StepsOn(p, alone)
    BY <1>2, <2>1, ReadSteps, LooksSteps, UnlinkSteps, RmdirSteps
  <2> QED  BY <1>1, <2>1
<1>4. /\ FullTree(ent) /\ TwoLevels(ent) /\ Shrinks(ent, ent') /\ walk'[p].op = walk[p].op
      /\ \A q \in Walkers \ {p} : walk'[q] = walk[q]
  BY <1>3 DEF StepsOn, OtherInv, RemoveInv
<1>5. TwoLevels(ent')
  BY <1>4, LevelsShrink
<1>6. Active' = Active /\ p \in Active
  BY <1>4 DEF Active
<1>7. ASSUME NEW q \in Walkers \ {p}, walk'[q].op \in Removals
      PROVE  Sound(ent', walk'[q], FALSE) /\ Active # {q}
  <2>1. Sound(ent, walk[q], FALSE) /\ walk[q].stack \in Seq(Frames)
    BY <1>4, <1>7, Here DEF RemoveInv
  <2> QED  BY <1>4, <1>6, <2>1, SoundShrinks
<1>8. Sound(ent', walk'[p], FALSE) /\ (Active = {p} => Sound(ent', walk'[p], TRUE))
  BY <1>3 DEF StepsOn
<1> QED  BY <1>5, <1>6, <1>7, <1>8 DEF RemoveInv

LEMMA FinishNext == FinishInv /\ [TreeNext]_treeVars => FinishInv'
<1> SUFFICES ASSUME FinishInv, [TreeNext]_treeVars PROVE FinishInv'
  OBVIOUS
<1>1. OtherInv /\ OtherInv'
  BY OtherNextInv DEF FinishInv
<1>2. CASE UNCHANGED treeVars
  <2>1. ent' = ent /\ walk' = walk /\ meddles' = meddles /\ linked' = linked
    BY <1>2 DEF treeVars
  <2>2. Active' = Active
    BY <2>1 DEF Active
  <2> QED
    BY <1>1, <2>1, <2>2 DEF FinishInv, Quiet, Resting, AllAre, CreateInv, RemoveInv
<1>3. CASE TreeNext
  <2>1. meddles' \in Nat /\ (meddles' = 0 => meddles = 0)
    <3>1. meddles \in Nat
      BY DEF FinishInv
    <3>2. meddles' = meddles \/ meddles' = meddles + 1
      BY <1>3 DEF TreeNext, read_dir, ReaddirFails, symlink_metadata, Looks, unlink, rmdir, create_dir_all,
         MkdirFails, fetch_add, new_in, Fill, DropTempDir, Restart, Meddle, Keeps
    <3> QED  BY <3>1, <3>2
  <2>2. ASSUME meddles' = 0 PROVE Quiet'
    <3>1. Quiet /\ meddles = 0
      BY <2>1, <2>2 DEF FinishInv
    <3>2. PICK p \in Walkers :
            /\ Moved(p) /\ walk[p].op # "none"
            /\ \/ walk[p].pc \in Inside /\ (read_dir(p) \/ symlink_metadata(p) \/ unlink(p) \/ rmdir(p))
               \/ walk[p].pc = "mkdir" /\ create_dir_all(p)
      BY <1>1, <1>3, <2>2, <3>1, QuietSteps
    <3>3. \A q \in Walkers : walk'[q].op = walk[q].op
      BY <3>2 DEF Moved
    <3>4. Resting'
      BY <3>1, <3>2, <3>3 DEF Quiet, Resting, Moved
    <3>5. ASSUME AllAre({"create"})' PROVE CreateInv'
      <4>1. AllAre({"create"}) /\ CreateInv /\ Resting
        BY <3>1, <3>3, <3>5 DEF AllAre, Quiet
      <4>2. create_dir_all(p)
        <5>1. walk[p].op = "create" /\ Creates(ent, walk[p])
          BY <3>2, <4>1 DEF AllAre, CreateInv
        <5>2. walk[p].pc \notin Inside
          BY <5>1 DEF Creates, Inside
        <5> QED  BY <3>2, <5>2
      <4> QED  BY <1>1, <4>1, <4>2, CreateStep
    <3>6. ASSUME ~linked', AllAre(Removals)' PROVE RemoveInv'
      <4>1. ~linked /\ AllAre(Removals) /\ RemoveInv /\ Resting
        BY <3>1, <3>2, <3>3, <3>6 DEF AllAre, Quiet, Moved
      <4> QED  BY <1>1, <3>2, <4>1, RemoveStep
    <3> QED  BY <3>4, <3>5, <3>6 DEF Quiet
  <2> QED  BY <1>1, <2>1, <2>2 DEF FinishInv
<1> QED  BY <1>2, <1>3

\* Every tree a removal starts on has two levels, unless its top is a link.
LEMMA TreesHaveTwo ==
  ASSUME NEW tree \in Trees, tree[Root]["t"] # Link
  PROVE  TwoLevels(tree)
<1>1. PICK t \in {None, File, Link, Entry("dir", "t1")}, a \in {None, File, Link, Entry("dir", "t2")},
           b \in {None, File} : tree = Tree(t, a, b)
  BY DEF Trees
<1>2. /\ \A e \in {None, File, Link} : e.kind # "dir"
      /\ \A d : Entry("dir", d).kind = "dir" /\ Entry("dir", d).to = d
  BY DEF None, File, Link, Entry
<1>3. ASSUME NEW n, NEW e, NEW m \in Names
      PROVE  With(n, e)[m] = IF m = n THEN e ELSE None
  BY DEF With, Empty
<1>4. ASSUME NEW m \in Names
      PROVE  [With("a", a) EXCEPT !["b"] = b][m] = IF m = "b" THEN b ELSE IF m = "a" THEN a ELSE None
  <2> DEFINE w == With("a", a)
  <2>1. DOMAIN w = Names
    BY DEF With, Empty
  <2>2. w[m] = IF m = "a" THEN a ELSE None
    BY <1>3
  <2> HIDE DEF w
  <2>3. [w EXCEPT !["b"] = b][m] = IF m = "b" THEN b ELSE w[m]
    BY <2>1
  <2> QED  BY <2>2, <2>3 DEF w
<1>5. ASSUME NEW d \in Dirs, NEW n \in Names, tree[d][n].kind = "dir"
      PROVE  \/ d = Root /\ n = "t" /\ tree[d][n].to = "t1"
             \/ d = "t1" /\ n = "a" /\ tree[d][n].to = "t2"
  <2> DEFINE x == With("t", t)
             y == [With("a", a) EXCEPT !["b"] = b]
             z == With("b", File)
  <2>1. /\ x[n] = IF n = "t" THEN t ELSE None
        /\ y[n] = IF n = "b" THEN b ELSE IF n = "a" THEN a ELSE None
        /\ z[n] = IF n = "b" THEN File ELSE None
        /\ Empty[n] = None
    BY <1>3, <1>4 DEF Empty
  <2>2. tree[d] = CASE d = Root -> x
                    [] d = "t1" /\ t.kind = "dir" -> y
                    [] d = "t2" /\ t.kind = "dir" /\ a.kind = "dir" -> z
                    [] d = Outside -> z
                    [] OTHER -> Empty
    BY <1>1 DEF Tree
  <2> HIDE DEF x, y, z
  <2>3. \/ d = Root /\ tree[d] = x
        \/ d = "t1" /\ tree[d] = y
        \/ tree[d] \in {z, Empty}
    BY <2>2 DEF Root, Outside
  <2> QED  BY <1>2, <1>5, <2>1, <2>3
<1> QED  BY <1>5 DEF TwoLevels

LEMMA CallStarts ==
  ASSUME NEW op \in {"create", "none"} \cup Removals, NEW tree, NEW alone
  PROVE  /\ Walk(op).op = op
         /\ op = "none" => Walk(op).pc = "ok"
         /\ op = "create" => Creates(tree, Walk(op))
         /\ op \in Removals => Sound(tree, Walk(op), alone)
<1>1. Walk(op).op = op /\ (op = "none" => Walk(op).pc = "ok")
  BY DEF Walk, Removals
<1>2. ASSUME op = "create" PROVE Creates(tree, Walk(op))
  <2>1. Walk(op).pc = "mkdir" /\ Walk(op).path = <<"t", "a">> /\ Walk(op).made = 0
    BY <1>2 DEF Walk, Removals
  <2> QED  BY <2>1 DEF Creates
<1>3. ASSUME op \in Removals PROVE Sound(tree, Walk(op), alone)
  <2> DEFINE f == Frame(<<"t">>)
  <2>1. f \in Frames /\ f.path = <<"t">>
    <3>1. <<"t">> \in Seq(Names) /\ "t" \in Names
      BY NamesHere
    <3> QED  BY <3>1 DEF Frame, Frames
  <2>2. Walk(op).pc = "open" /\ Walk(op).stack = <<f>>
    BY <1>3 DEF Walk, Removals
  <2> HIDE DEF f
  <2>3. Working(tree, Upper(tree), f, "open", alone)
    BY DEF Working
  <2>4. AtTop(tree, Walk(op), f, alone)
    BY <2>1, <2>2, <2>3 DEF AtTop
  <2> QED  BY <2>1, <2>2, <2>4 DEF Sound, Inside
<1> QED  BY <1>1, <1>2, <1>3

LEMMA FinishInit == TreeInit => TempInv \/ FinishInv
<1> SUFFICES ASSUME TreeInit, ~TempInv PROVE FinishInv
  OBVIOUS
<1>1. OtherInv /\ OnTrees /\ meddles = 0
  BY TreeInitInv DEF TreeInit
<1>2. /\ ent \in Trees
      /\ walk \in [Walkers -> {Walk(op) : op \in {"create", "none"} \cup Removals}]
  BY <1>1 DEF OnTrees
<1>3. \A p \in Walkers : \E op \in {"create", "none"} \cup Removals : walk[p] = Walk(op)
  BY <1>2
<1>4. ASSUME NEW p \in Walkers
      PROVE  /\ walk[p].op = "none" => walk[p].pc = "ok"
             /\ walk[p].op = "create" => Creates(ent, walk[p])
             /\ walk[p].op \in Removals => Sound(ent, walk[p], FALSE) /\ Sound(ent, walk[p], TRUE)
  <2>1. PICK op \in {"create", "none"} \cup Removals : walk[p] = Walk(op)
    BY <1>3
  <2> QED  BY <2>1, CallStarts
<1>5. ~linked => TwoLevels(ent)
  BY <1>2, TreesHaveTwo DEF TreeInit
<1> QED
  BY <1>1, <1>4, <1>5 DEF FinishInv, Quiet, Resting, CreateInv, RemoveInv

LEMMA RemovalsFinish == FinishInv => RemovalIsComplete
<1> SUFFICES ASSUME FinishInv, Ended, meddles = 0, ~linked, Ops # {}, Ops \subseteq Removals,
                    Cardinality(Active) = 1 \/ "fs_remove" \notin Ops
             PROVE  lstat(<<"t">>).kind # "dir"
  BY DEF RemovalIsComplete
<1>1. AllAre(Removals)
  BY DEF AllAre, Ops, Active
<1>2. RemoveInv /\ FullTree(ent)
  BY <1>1 DEF FinishInv, Quiet, OtherInv
<1>3. PICK p \in Active : TRUE
  BY DEF Ops
<1>4. p \in Walkers /\ walk[p].op \in Ops /\ walk[p].op \in Removals /\ walk[p].pc \in {"ok", "err"}
  BY <1>3 DEF Ops, Active, Ended
<1>5. Sound(ent, walk[p], FALSE) /\ (Active = {p} => Sound(ent, walk[p], TRUE))
  BY <1>2, <1>4 DEF RemoveInv
<1>6. Upper(ent) = Nowhere
  <2>1. CASE Cardinality(Active) = 1
    <3>1. IsFiniteSet(Active)
      BY TreeAssumption, FS_Subset DEF Active
    <3>2. \E x : Active = {x}
      BY <2>1, <3>1, FS_Singleton
    <3>3. Active = {p}
      BY <1>3, <3>2
    <3> QED  BY <1>4, <1>5, <3>3 DEF Sound
  <2>2. CASE "fs_remove" \notin Ops
    BY <1>4, <1>5, <2>2 DEF Sound
  <2> QED  BY <2>1, <2>2
<1>7. lstat(<<"t">>) = ent[Root]["t"]
  BY <1>2, Levels, InThisTree DEF RemoveInv
<1> QED  BY <1>6, <1>7 DEF Upper, Nowhere

LEMMA CreatesFinish == FinishInv => RacingCreatesAgree
<1> SUFFICES ASSUME FinishInv, Ended, meddles = 0, Ops = {"create"}
             PROVE  \/ Answers = {"ok"} /\ lstat(<<"t", "a">>) # None
                    \/ Answers = {"err"} /\ lstat(<<"t">>) = File
  BY DEF RacingCreatesAgree
<1>1. AllAre({"create"})
  BY DEF AllAre, Ops, Active
<1>2. CreateInv /\ FullTree(ent)
  BY <1>1 DEF FinishInv, Quiet, OtherInv
<1>3. ASSUME NEW p \in Active
      PROVE  Creates(ent, walk[p]) /\ walk[p].pc \in {"ok", "err"} /\ p \in Walkers
  BY <1>2 DEF Ops, Active, Ended, CreateInv
<1>4. PICK p \in Active : TRUE
  BY DEF Ops
<1>5. /\ lstat(<<"t">>) = ent[Root]["t"] /\ lstat(<<"t", "a">>) = LstatIn(ent, <<"t", "a">>)
      /\ ent[Root]["t"] = File => lstat(<<"t", "a">>) = None
  <2>1. /\ LstatIn(ent, <<"t">>) = ent[Root]["t"] /\ DirIn(ent, <<"t">>) = Leads(ent[Root]["t"])
        /\ LstatIn(ent, <<"t", "a">>) =
             IF DirIn(ent, <<"t">>) = Nowhere THEN None ELSE ent[DirIn(ent, <<"t">>)]["a"]
    BY PathsAre, NamesHere
  <2> QED  BY <2>1, InThisTree, AllEntryFacts
<1>6. ASSUME NEW q \in Active
      PROVE  /\ walk[q].pc = "ok" => lstat(<<"t", "a">>) # None
             /\ walk[q].pc = "err" => ent[Root]["t"] = File
  BY <1>3, <1>5 DEF Creates
<1>7. \A q \in Active : walk[q].pc = walk[p].pc
  BY <1>3, <1>4, <1>5, <1>6
<1>8. Answers = {walk[p].pc}
  BY <1>4, <1>7 DEF Answers
<1> QED  BY <1>3, <1>4, <1>5, <1>6, <1>8

\* When the calls are over and nobody else was in the tree: a removal, or
\* file's removals that get in each other's way, leave no directory, and the
\* calls of create_dir_all that race for the same directories all answer Ok
\* over the path, or all an error over the file that is in the way.  For any
\* finite number of calls, in every order of their system calls: a level only
\* goes back up when what it listed is gone, and what is gone stays gone.
THEOREM FinishTheorem == TreeSpec => []WalksFinish
<1>1. TempInv => WalksFinish
  <2> SUFFICES ASSUME TempInv PROVE WalksFinish
    OBVIOUS
  <2>1. \A p \in Walkers : walk[p].op = "temp"
    BY DEF TempInv, TempCalls
  <2>2. Ops = {} \/ Ops = {"temp"}
    BY <2>1 DEF Ops, Active
  <2> QED  BY <2>2 DEF WalksFinish, RemovalIsComplete, RacingCreatesAgree, Removals
<1>2. FinishInv => WalksFinish
  BY RemovalsFinish, CreatesFinish DEF WalksFinish
<1> QED
  BY <1>1, <1>2, FinishInit, FinishNext, TempNextInv, PTL DEF TreeSpec
=============================================================================
