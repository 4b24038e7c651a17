---------------------------- MODULE ChannelProofs ----------------------------
(***************************************************************************)
(* Proofs about Channel, for any number of producers, any capacity and any *)
(* bounds.                                                                 *)
(***************************************************************************)
EXTENDS Channel, FiniteSetTheorems, SequenceTheorems, TLAPS

-----------------------------------------------------------------------------
\* The mutex works: the guard is held by the one thread in its critical
\* section.
LockInv == \A t \in Threads : stage[t] = "crit" <=> mutex = t

\* A thread is between calls exactly when it is in no operation, and each
\* operation passes only through the stages its code has.
OpInv ==
  /\ \A t \in Threads : stage[t] = "idle" <=> op[t] = "none"
  /\ \A p \in Producers : op[p] \in ProducerOps \cup {"none"}
  /\ op[Consumer] \in ConsumerOps \cup {"none"}
  /\ \A t \in Threads : stage[t] = "wait" => op[t] \in {"send", "recv"}

Basics == TypeOK /\ LockInv /\ OpInv /\ SendersCountHandles

-----------------------------------------------------------------------------
\* Every action that ends in a notify wakes threads that were asleep.
LEMMA NotifyWakesSleepers ==
  ASSUME \/ \E p \in Producers : SendNotifies(p) \/ DropNotifies(p)
         \/ TakeNotifies \/ CloseNotifies
  PROVE  \E t \in Threads, W \in SUBSET Threads :
           /\ stage[t] = "notify"
           /\ \A u \in W : stage[u] = "wait"
           /\ Notify(t, W)
<1>1. ASSUME NEW p \in Producers, SendNotifies(p)
      PROVE  \E W \in SUBSET Threads : (\A u \in W : stage[u] = "wait") /\ Notify(p, W)
  BY <1>1 DEF SendNotifies, notify_one, on_send, Threads
<1>2. ASSUME NEW p \in Producers, DropNotifies(p) PROVE on_send \in SUBSET Threads /\ Notify(p, on_send)
  BY <1>2 DEF DropNotifies, notify_all, on_send, Threads
<1>3. ASSUME TakeNotifies
      PROVE  \E W \in SUBSET Threads : (\A u \in W : stage[u] = "wait") /\ Notify(Consumer, W)
  BY <1>3 DEF TakeNotifies, notify_one, on_recv, Threads
<1>4. ASSUME CloseNotifies PROVE on_recv \in SUBSET Threads /\ Notify(Consumer, on_recv)
  BY <1>4 DEF CloseNotifies, notify_all, on_recv, Threads
<1> QED
  BY <1>1, <1>2, <1>3, <1>4
     DEF SendNotifies, DropNotifies, TakeNotifies, CloseNotifies, on_send, on_recv, Threads

\* The handles alive are counted by a natural number.
LEMMA LiveFinite == IsFiniteSet(Live) /\ Cardinality(Live) \in Nat
BY ConstantsAssumption, FS_Subset, FS_CardinalityType DEF Live

LEMMA OneFewer ==
  ASSUME NEW S, IsFiniteSet(S), NEW x \in S
  PROVE  Cardinality(S \ {x}) = Cardinality(S) - 1 /\ Cardinality(S \ {x}) \in Nat
BY FS_RemoveElement, FS_CardinalityType

LEMMA InitBasics == Init => Basics
<1> SUFFICES ASSUME Init PROVE Basics
  OBVIOUS
<1> USE ConstantsAssumption DEF Init, sync_channel
<1>1. PICK p \in Producers, h \in Handles : owner = [k \in Handles |-> IF k = h THEN p ELSE Unborn]
  OBVIOUS
<1>2. Live = {h}
  BY <1>1 DEF Live
<1>3. SendersCountHandles
  BY <1>2, FS_Singleton DEF SendersCountHandles
<1>4. queue \in Seq(Producers \X Nat) /\ delivered \in Seq(Producers \X Nat)
  OBVIOUS
<1>5. TypeOK
  BY <1>1, <1>4 DEF TypeOK, Threads, ProducerOps, ConsumerOps
<1>6. LockInv /\ OpInv
  BY DEF LockInv, OpInv, Threads
<1> QED
  BY <1>3, <1>5, <1>6 DEF Basics

\* A thread in its critical section drops the guard and goes on to its notify
\* or returns (the drop of Guard at the end of each operation).
LEMMA DropsTheGuard ==
  ASSUME Basics, NEW t \in Threads, stage[t] = "crit",
         ToNotify(t) \/ Return(t)
  PROVE  /\ op' \in [Threads -> ProducerOps \cup ConsumerOps \cup {"none"}]
         /\ stage' \in [Threads -> {"idle", "lock", "crit", "wait", "notify"}]
         /\ mutex' = Free /\ LockInv' /\ OpInv'
<1>1. /\ op \in [Threads -> ProducerOps \cup ConsumerOps \cup {"none"}]
      /\ stage \in [Threads -> {"idle", "lock", "crit", "wait", "notify"}]
  BY DEF Basics, TypeOK
<1>2. mutex = t /\ \A u \in Threads : stage[u] = "crit" => u = t
  BY DEF Basics, LockInv
<1>3. Free \notin Threads
  BY ConstantsAssumption DEF Threads
<1>4. CASE ToNotify(t)
  <2>1. mutex' = Free /\ op' = op /\ stage' = [stage EXCEPT ![t] = "notify"]
    BY <1>4 DEF ToNotify
  <2>2. \A u \in Threads : stage'[u] = IF u = t THEN "notify" ELSE stage[u]
    BY <1>1, <2>1
  <2>3. LockInv'
    BY <1>2, <1>3, <2>1, <2>2 DEF LockInv
  <2>4. OpInv'
    BY <1>1, <2>1, <2>2 DEF Basics, OpInv
  <2> QED
    BY <1>1, <2>1, <2>3, <2>4
<1>5. CASE Return(t)
  <2>1. /\ mutex' = Free /\ op' = [op EXCEPT ![t] = "none"]
        /\ stage' = [stage EXCEPT ![t] = "idle"]
    BY <1>5 DEF Return
  <2>2. \A u \in Threads : stage'[u] = IF u = t THEN "idle" ELSE stage[u]
    BY <1>1, <2>1
  <2>5. \A u \in Threads : op'[u] = IF u = t THEN "none" ELSE op[u]
    BY <1>1, <2>1
  <2>3. LockInv'
    BY <1>2, <1>3, <2>1, <2>2 DEF LockInv
  <2>4. OpInv'
    <3>1. Consumer \in Threads /\ \A p \in Producers : p \in Threads
      BY DEF Threads
    <3>2. OpInv
      BY DEF Basics
    <3>3. \A u \in Threads : stage'[u] = "idle" <=> op'[u] = "none"
      BY <2>2, <2>5, <3>2 DEF OpInv
    <3>4. \A p \in Producers : op'[p] \in ProducerOps \cup {"none"}
      BY <2>5, <3>1, <3>2 DEF OpInv
    <3>5. op'[Consumer] \in ConsumerOps \cup {"none"}
      BY <2>5, <3>1, <3>2 DEF OpInv
    <3>6. \A u \in Threads : stage'[u] = "wait" => op'[u] \in {"send", "recv"}
      BY <2>2, <2>5, <3>2 DEF OpInv
    <3> QED
      BY <3>3, <3>4, <3>5, <3>6 DEF OpInv
  <2> QED
    BY <1>1, <2>1, <2>3, <2>4
<1> QED
  BY <1>4, <1>5

LEMMA NextBasics == Basics /\ [Next]_vars => Basics'
<1> SUFFICES ASSUME Basics, [Next]_vars PROVE Basics'
  OBVIOUS
<1> USE ConstantsAssumption DEF Basics, TypeOK, LockInv, OpInv, Threads, ProducerOps, ConsumerOps,
        SendersCountHandles, Live, state, history, bounds
<1>1. ASSUME NEW p \in Producers, BeginSend(p) PROVE Basics'
  BY <1>1 DEF BeginSend, Begin
<1>2. ASSUME NEW p \in Producers, BeginClone(p) PROVE Basics'
  BY <1>2 DEF BeginClone, Begin
<1>3. ASSUME NEW p \in Producers, BeginDrop(p) PROVE Basics'
  BY <1>3 DEF BeginDrop, Begin
<1>4. ASSUME NEW o \in ConsumerOps, BeginConsumer(o) PROVE Basics'
  BY <1>4 DEF BeginConsumer, Begin
<1>5. ASSUME NEW t \in Threads, lock(t) PROVE Basics'
  BY <1>5 DEF lock
<1>6. ASSUME NEW p \in Producers, SendRefused(p) PROVE Basics'
  BY <1>6 DEF SendRefused, Holding, Return, Value
<1>7. ASSUME NEW p \in Producers, SendQueued(p) PROVE Basics'
  BY <1>7 DEF SendQueued, Holding, ToNotify, Value
<1>8. ASSUME NEW p \in Producers, SendBlocks(p) PROVE Basics'
  BY <1>8 DEF SendBlocks, Holding, wait
<1>9. ASSUME NEW t \in Threads, NEW W \in SUBSET Threads, stage[t] = "notify",
             \A u \in W : stage[u] = "wait", Notify(t, W) PROVE Basics'
  BY <1>9 DEF Notify
<1>10. ASSUME NEW p \in Producers, clone(p) PROVE Basics'
  <2>1. PICK h \in Handles, q \in Producers : owner[h] = Unborn /\ owner' = [owner EXCEPT ![h] = q]
    BY <1>10 DEF clone
  <2>2. Live' = Live \cup {h} /\ h \notin Live
    BY <2>1
  <2>3. Cardinality(Live') = Cardinality(Live) + 1
    BY <2>2, LiveFinite, FS_AddElement
  <2>4. TypeOK' /\ LockInv' /\ OpInv'
    BY <1>10 DEF clone, Holding, Return
  <2> QED
    BY <1>10, <2>3, <2>4 DEF clone
<1>11. ASSUME NEW p \in Producers, DropSender(p) PROVE Basics'
  <2>1. PICK h \in Owned(p) : owner' = [owner EXCEPT ![h] = Dropped]
    BY <1>11 DEF DropSender
  <2>2. Live' = Live \ {h} /\ h \in Live
    BY <2>1 DEF Owned
  <2>3. Cardinality(Live') = Cardinality(Live) - 1 /\ Cardinality(Live') \in Nat
    <3> HIDE DEF Live
    <3> QED
      BY <2>2, LiveFinite, OneFewer
  <2>4. senders' = Cardinality(Live')
    BY <1>11, <2>3 DEF DropSender
  <2>5. ToNotify(p) \/ Return(p)
    BY <1>11 DEF DropSender
  <2>6. p \in Threads /\ stage[p] = "crit" /\ op[p] = "drop"
    BY <1>11 DEF DropSender, Holding
  <2>7. /\ op' \in [Threads -> ProducerOps \cup ConsumerOps \cup {"none"}]
        /\ stage' \in [Threads -> {"idle", "lock", "crit", "wait", "notify"}]
        /\ mutex' = Free /\ LockInv' /\ OpInv'
    <3> HIDE DEF Basics, TypeOK, LockInv, OpInv, Threads, ProducerOps, ConsumerOps, SendersCountHandles, Live
    <3> QED
      BY <2>5, <2>6, DropsTheGuard
  <2>8. TypeOK'
    <3>1. senders' \in Nat
      BY <2>3, <2>4
    <3>2. owner' \in [Handles -> Producers \cup {Unborn, Dropped}]
      BY <2>1 DEF Owned
    <3> HIDE DEF Threads, ProducerOps, ConsumerOps
    <3> QED
      BY <1>11, <2>7, <3>1, <3>2 DEF DropSender
  <2> QED
    BY <2>4, <2>7, <2>8
<1>12. ASSUME NEW o \in ConsumerOps, Take(o) PROVE Basics'
  BY <1>12 DEF Take, Holding, ToNotify
<1>13. ASSUME RecvDisconnected PROVE Basics'
  BY <1>13 DEF RecvDisconnected, Holding, Return
<1>14. ASSUME RecvBlocks PROVE Basics'
  BY <1>14 DEF RecvBlocks, Holding, wait
<1>15. ASSUME TryRecvEmpty PROVE Basics'
  BY <1>15 DEF TryRecvEmpty, Holding, Return
<1>16. ASSUME DropReceiver PROVE Basics'
  BY <1>16 DEF DropReceiver, Holding, ToNotify
<1>17. ASSUME NEW t \in Threads, SpuriousWake(t) PROVE Basics'
  BY <1>17 DEF SpuriousWake
<1>18. CASE UNCHANGED vars
  BY <1>18 DEF vars
<1>19. CASE \/ \E p \in Producers : SendNotifies(p) \/ DropNotifies(p)
            \/ TakeNotifies \/ CloseNotifies
  BY <1>9, <1>19, NotifyWakesSleepers
<1> QED
  BY <1>1, <1>2, <1>3, <1>4, <1>5, <1>6, <1>7, <1>8, <1>10, <1>11, <1>12, <1>13, <1>14, <1>15,
     <1>16, <1>17, <1>18, <1>19
     DEF Next, ProducerNext, ConsumerNext, Finished

\* Type correctness: in particular the sender count is never negative, so the
\* `senders -= 1` of Drop never wraps.
THEOREM TypeCorrect == Safety => []TypeOK
<1>1. Basics => TypeOK
  BY DEF Basics
<1> QED
  BY InitBasics, NextBasics, <1>1, PTL DEF Safety

\* The count that tells recv the channel is disconnected is exact.
THEOREM CountIsExact == Safety => []SendersCountHandles
<1>1. Basics => SendersCountHandles
  BY DEF Basics
<1> QED
  BY InitBasics, NextBasics, <1>1, PTL DEF Safety
-----------------------------------------------------------------------------
(***************************************************************************)
(* No lost wakeup of the receiver.  The invariant is inductive on top of   *)
(* Basics: the receiver goes to sleep with an empty queue and a sender     *)
(* alive, and whoever changes either goes through "notify".                *)
(***************************************************************************)
LEMMA NextReceiverIsWoken ==
  Basics /\ ReceiverIsWoken /\ [Next]_vars => ReceiverIsWoken'
<1> SUFFICES ASSUME Basics, ReceiverIsWoken, [Next]_vars PROVE ReceiverIsWoken'
  OBVIOUS
<1> USE ConstantsAssumption
    DEF ReceiverIsWoken, Basics, TypeOK, OpInv, LockInv, Threads, on_send, Live, state, history, bounds
<1>1. ASSUME NEW p \in Producers, BeginSend(p) PROVE ReceiverIsWoken'
  BY <1>1 DEF BeginSend, Begin
<1>2. ASSUME NEW p \in Producers, BeginClone(p) PROVE ReceiverIsWoken'
  BY <1>2 DEF BeginClone, Begin
<1>3. ASSUME NEW p \in Producers, BeginDrop(p) PROVE ReceiverIsWoken'
  BY <1>3 DEF BeginDrop, Begin
<1>4. ASSUME NEW o \in ConsumerOps, BeginConsumer(o) PROVE ReceiverIsWoken'
  BY <1>4 DEF BeginConsumer, Begin
<1>5. ASSUME NEW t \in Threads, lock(t) PROVE ReceiverIsWoken'
  BY <1>5 DEF lock
<1>6. ASSUME NEW p \in Producers, SendRefused(p) PROVE ReceiverIsWoken'
  BY <1>6 DEF SendRefused, Holding, Return
<1>7. ASSUME NEW p \in Producers, SendQueued(p) PROVE ReceiverIsWoken'
  BY <1>7 DEF SendQueued, Holding, ToNotify
<1>8. ASSUME NEW p \in Producers, SendBlocks(p) PROVE ReceiverIsWoken'
  BY <1>8 DEF SendBlocks, Holding, wait
<1>9. ASSUME NEW p \in Producers, SendNotifies(p) \/ DropNotifies(p) PROVE ReceiverIsWoken'
  BY <1>9 DEF SendNotifies, DropNotifies, notify_one, notify_all, Notify
<1>10. ASSUME NEW p \in Producers, clone(p) PROVE ReceiverIsWoken'
  BY <1>10 DEF clone, Holding, Return
<1>11. ASSUME NEW p \in Producers, DropSender(p) PROVE ReceiverIsWoken'
  <2>1. senders' = 0 => op'[p] = "drop" /\ stage'[p] = "notify"
    BY <1>11 DEF DropSender, Holding, ToNotify
  <2>2. Live' = {} => senders' = 0
    <3>1. Basics'
      BY <1>11, NextBasics DEF Next, ProducerNext
    <3>2. senders' = Cardinality(Live')
      BY <3>1 DEF SendersCountHandles
    <3> HIDE DEF Live
    <3> QED
      BY <3>2, FS_EmptySet
  <2>3. stage'[Consumer] = stage[Consumer] /\ queue' = queue
    BY <1>11 DEF DropSender, Return, ToNotify
  <2>4. \A q \in Producers : op[q] = "send" /\ stage[q] = "notify"
                           => op'[q] = "send" /\ stage'[q] = "notify"
    BY <1>11 DEF DropSender, Holding, Return, ToNotify
  <2> QED
    BY <2>1, <2>2, <2>3, <2>4
<1>12. ASSUME NEW o \in ConsumerOps, Take(o) PROVE ReceiverIsWoken'
  BY <1>12 DEF Take, Holding, ToNotify
<1>13. ASSUME RecvDisconnected PROVE ReceiverIsWoken'
  BY <1>13 DEF RecvDisconnected, Holding, Return
<1>14. ASSUME RecvBlocks PROVE ReceiverIsWoken'
  <2>1. Live # {}
    <3> HIDE DEF Live
    <3> QED
      BY <1>14, FS_EmptySet DEF RecvBlocks, SendersCountHandles
  <2> QED
    BY <1>14, <2>1 DEF RecvBlocks, Holding, wait
<1>15. ASSUME TryRecvEmpty PROVE ReceiverIsWoken'
  BY <1>15 DEF TryRecvEmpty, Holding, Return
<1>16. ASSUME DropReceiver PROVE ReceiverIsWoken'
  BY <1>16 DEF DropReceiver, Holding, ToNotify
<1>17. ASSUME TakeNotifies \/ CloseNotifies PROVE ReceiverIsWoken'
  BY <1>17 DEF TakeNotifies, CloseNotifies, notify_one, notify_all, Notify
<1>18. ASSUME NEW t \in Threads, SpuriousWake(t) PROVE ReceiverIsWoken'
  BY <1>18 DEF SpuriousWake
<1>19. CASE UNCHANGED vars
  BY <1>19 DEF vars
<1> QED
  BY <1>1, <1>2, <1>3, <1>4, <1>5, <1>6, <1>7, <1>8, <1>9, <1>10, <1>11, <1>12, <1>13, <1>14,
     <1>15, <1>16, <1>17, <1>18, <1>19
     DEF Next, ProducerNext, ConsumerNext, ConsumerOps, Finished

\* Whatever the number of producers and the capacity, a receiver asleep in
\* recv with something to be told has a producer about to notify it.
THEOREM ReceiverNeverMissesAWakeup == Safety => []ReceiverIsWoken
<1>1. Init => ReceiverIsWoken
  BY DEF Init, sync_channel, ReceiverIsWoken, on_send, Threads
<1> QED
  BY InitBasics, NextBasics, <1>1, NextReceiverIsWoken, PTL DEF Safety
-----------------------------------------------------------------------------
(***************************************************************************)
(* No lost wakeup of a sender.  A state predicate "some sender is awake"   *)
(* would not be inductive: two slots can be free at once and one woken     *)
(* sender fills only one of them, so the slots have to be counted against  *)
(* the senders awake.                                                      *)
(***************************************************************************)
LEMMA RetryingFinite == IsFiniteSet(Retrying) /\ Cardinality(Retrying) \in Nat
BY ConstantsAssumption, FS_Subset, FS_CardinalityType DEF Retrying

\* A set of producers that gained members did not shrink, ...
LEMMA MoreRetry ==
  ASSUME NEW S, NEW T, S \subseteq T, T \subseteq Producers
  PROVE  Cardinality(S) <= Cardinality(T)
BY ConstantsAssumption, FS_Subset DEF Retrying

\* ... and one that gained a member grew.
LEMMA OneMoreRetries ==
  ASSUME NEW S, NEW T, NEW x, S \subseteq T, T \subseteq Producers, x \in T, x \notin S
  PROVE  Cardinality(S) + 1 <= Cardinality(T)
<1>1. IsFiniteSet(S) /\ IsFiniteSet(T)
  BY ConstantsAssumption, FS_Subset
<1>2. Cardinality(S \cup {x}) = Cardinality(S) + 1
  BY <1>1, FS_AddElement
<1>3. Cardinality(S \cup {x}) <= Cardinality(T)
  BY <1>1, FS_Subset
<1> QED
  BY <1>2, <1>3

\* Steps that leave the queue, the receiver and the consumer's notify alone
\* and send no awake sender to sleep keep the invariant.
LEMMA AwakeStayAwake ==
  ASSUME Basics, SendersAreWoken, receiver' = receiver, Len(queue') = Len(queue), Basics',
         Retrying \subseteq Retrying', on_recv' \subseteq on_recv,
         op'[Consumer] = op[Consumer] \/ on_recv = {} \/ stage[Consumer] = "idle",
         stage[Consumer] = "notify" => stage'[Consumer] = "notify"
  PROVE  SendersAreWoken'
<1>1. Cardinality(Retrying) <= Cardinality(Retrying')
  BY MoreRetry DEF Retrying
<1>2. Cardinality(Retrying) \in Nat /\ Cardinality(Retrying') \in Nat
  BY ConstantsAssumption, FS_Subset, FS_CardinalityType DEF Retrying
<1>3. Len(queue) \in Nat /\ Capacity \in Nat
  BY ConstantsAssumption DEF Basics, TypeOK
<1>4. on_recv' # {} => Owed <= Owed' /\ Owed \in Nat /\ Owed' \in Nat
  BY DEF Owed, Basics, OpInv, Threads
<1> QED
  BY <1>1, <1>2, <1>3, <1>4 DEF SendersAreWoken, Basics, OpInv, Threads

LEMMA NextSendersAreWoken ==
  Basics /\ SendersAreWoken /\ [Next]_vars => SendersAreWoken'
<1> SUFFICES ASSUME Basics, SendersAreWoken, [Next]_vars PROVE SendersAreWoken'
  OBVIOUS
<1>0. Basics'
  BY NextBasics
<1> USE ConstantsAssumption DEF Basics, TypeOK, OpInv, Threads, on_recv, state, history, bounds
<1>a. ASSUME Retrying \subseteq Retrying', on_recv' \subseteq on_recv, receiver' = receiver,
             queue' = queue, 
             op'[Consumer] = op[Consumer] \/ on_recv = {} \/ stage[Consumer] = "idle",
             stage[Consumer] = "notify" => stage'[Consumer] = "notify"
      PROVE  SendersAreWoken'
  BY <1>0, <1>a, AwakeStayAwake
<1>1. ASSUME NEW p \in Producers, BeginSend(p) PROVE SendersAreWoken'
  BY <1>1, <1>a DEF BeginSend, Begin, Retrying
<1>2. ASSUME NEW p \in Producers, BeginClone(p) PROVE SendersAreWoken'
  BY <1>2, <1>a DEF BeginClone, Begin, Retrying
<1>3. ASSUME NEW p \in Producers, BeginDrop(p) PROVE SendersAreWoken'
  BY <1>3, <1>a DEF BeginDrop, Begin, Retrying
<1>4. ASSUME NEW o \in ConsumerOps, BeginConsumer(o) PROVE SendersAreWoken'
  BY <1>4, <1>a DEF BeginConsumer, Begin, Retrying
<1>5. ASSUME NEW t \in Threads, lock(t) PROVE SendersAreWoken'
  BY <1>5, <1>a DEF lock, Retrying
<1>6. ASSUME NEW p \in Producers, SendRefused(p) PROVE SendersAreWoken'
  BY <1>6 DEF SendRefused, Holding, Return, SendersAreWoken
<1>7. ASSUME NEW p \in Producers, SendQueued(p) PROVE SendersAreWoken'
  <2>1. on_recv' = on_recv /\ receiver' = receiver /\ Owed' = Owed
    BY <1>7 DEF SendQueued, Holding, ToNotify, Owed
  <2>2. Retrying' = Retrying \ {p} /\ p \in Retrying
    BY <1>7 DEF SendQueued, Holding, ToNotify, Retrying
  <2>3. Cardinality(Retrying') = Cardinality(Retrying) - 1
    BY <2>2, RetryingFinite, OneFewer
  <2>4. Len(queue') = Len(queue) + 1 /\ Len(queue) \in Nat
    BY <1>7 DEF SendQueued
  <2>5. Owed \in Nat
    BY DEF Owed
  <2> HIDE DEF on_recv, Basics
  <2> QED
    BY <1>7, <2>1, <2>3, <2>4, <2>5, RetryingFinite DEF SendQueued, SendersAreWoken
<1>8. ASSUME NEW p \in Producers, SendBlocks(p) PROVE SendersAreWoken'
  <2>1. receiver' /\ queue' = queue /\ Len(queue) \in Nat /\ Capacity - Len(queue) <= 0
    BY <1>8 DEF SendBlocks
  <2>2. Cardinality(Retrying') \in Nat /\ Owed' \in Nat
    BY FS_Subset, FS_CardinalityType DEF Retrying, Owed
  <2> QED
    BY <2>1, <2>2 DEF SendersAreWoken
<1>9. ASSUME NEW p \in Producers, SendNotifies(p) \/ DropNotifies(p) PROVE SendersAreWoken'
  <2>1. PICK W \in SUBSET on_send : Notify(p, W)
    BY <1>9 DEF SendNotifies, DropNotifies, notify_one, notify_all, on_send
  <2>2. /\ stage[p] = "notify" /\ queue' = queue /\ receiver' = receiver
        /\ op' = [op EXCEPT ![p] = "none"]
        /\ \A u \in Threads : stage'[u] = IF u = p THEN "idle"
                                           ELSE IF u \in W THEN "lock" ELSE stage[u]
    BY <1>9, <2>1 DEF SendNotifies, DropNotifies, Notify
  <2>3. \A q \in Producers : q # p => op'[q] = op[q] /\ stage'[q] = stage[q]
    BY <2>2 DEF on_send
  <2>4. Retrying \subseteq Retrying' /\ on_recv' \subseteq on_recv
    BY <2>2, <2>3 DEF Retrying
  <2>5. op'[Consumer] = op[Consumer]
    BY <2>2
  <2>6. stage[Consumer] = "notify" => stage'[Consumer] = "notify"
    BY <2>2 DEF on_send
  <2> HIDE DEF Basics, TypeOK, OpInv, Threads, on_recv
  <2> QED
    BY <1>a, <2>2, <2>4, <2>5, <2>6
<1>10. ASSUME NEW p \in Producers, clone(p) PROVE SendersAreWoken'
  BY <1>10, <1>a DEF clone, Holding, Return, Retrying
<1>11. ASSUME NEW p \in Producers, DropSender(p) PROVE SendersAreWoken'
  BY <1>11, <1>a DEF DropSender, Holding, Return, ToNotify, Retrying
<1>12. ASSUME NEW o \in {"recv", "try"}, Take(o) PROVE SendersAreWoken'
  <2>1. on_recv' = on_recv /\ receiver' = receiver /\ Owed = 0 /\ Owed' = 1
    BY <1>12 DEF Take, Holding, ToNotify, Owed
  <2>2. Retrying' = Retrying
    BY <1>12 DEF Take, Holding, ToNotify, Retrying
  <2>3. Len(queue') = Len(queue) - 1 /\ Len(queue) \in Nat
    BY <1>12 DEF Take
  <2>4. op[Consumer] = o
    BY <1>12 DEF Take, Holding
  <2> HIDE DEF on_recv, Basics
  <2> QED
    BY <2>1, <2>2, <2>3, <2>4, RetryingFinite DEF SendersAreWoken
<1>13. ASSUME RecvDisconnected \/ RecvBlocks \/ TryRecvEmpty PROVE SendersAreWoken'
  <2>1. Retrying' = Retrying /\ on_recv' = on_recv /\ receiver' = receiver /\ queue' = queue
    BY <1>13 DEF RecvDisconnected, RecvBlocks, TryRecvEmpty, Holding, Return, wait, Retrying
  <2>2. Owed = 0 /\ Owed' = 0 /\ stage[Consumer] = "crit"
    BY <1>13 DEF RecvDisconnected, RecvBlocks, TryRecvEmpty, Holding, Return, wait, Owed
  <2> QED
    BY <2>1, <2>2 DEF SendersAreWoken
<1>14. ASSUME DropReceiver PROVE SendersAreWoken'
  BY <1>14 DEF DropReceiver, Holding, ToNotify, SendersAreWoken
<1>15. ASSUME TakeNotifies PROVE SendersAreWoken'
  <2>1. Retrying \subseteq Retrying' /\ Retrying' \subseteq Producers
    BY <1>15 DEF TakeNotifies, notify_one, Notify, Retrying
  <2>2. receiver' = receiver /\ queue' = queue /\ Owed = 1 /\ Owed' = 0
    BY <1>15 DEF TakeNotifies, notify_one, Notify, Owed
  <2>3. on_recv' \subseteq on_recv
    BY <1>15 DEF TakeNotifies, notify_one, Notify
  <2>4. ASSUME on_recv # {} PROVE \E u \in Retrying' : u \notin Retrying
    <3>1. PICK u \in on_recv : Notify(Consumer, {u})
      BY <1>15, <2>4 DEF TakeNotifies, notify_one
    <3> QED
      BY <3>1 DEF Notify, Retrying, ProducerOps
  <2>5. ASSUME on_recv # {} PROVE Cardinality(Retrying) + 1 <= Cardinality(Retrying')
    BY <2>1, <2>4, <2>5, OneMoreRetries
  <2>6. Cardinality(Retrying') \in Nat
    BY FS_Subset, FS_CardinalityType DEF Retrying
  <2>7. op[Consumer] # "close" /\ Len(queue) \in Nat
    BY <1>15 DEF TakeNotifies
  <2> HIDE DEF on_recv, Basics
  <2> QED
    BY <2>2, <2>3, <2>5, <2>6, <2>7, RetryingFinite DEF SendersAreWoken
<1>16. ASSUME CloseNotifies PROVE SendersAreWoken'
  BY <1>16 DEF CloseNotifies, notify_all, Notify, SendersAreWoken
<1>17. ASSUME NEW t \in Threads, SpuriousWake(t) PROVE SendersAreWoken'
  BY <1>17, <1>a DEF SpuriousWake, Retrying
<1>18. CASE UNCHANGED vars
  BY <1>18, <1>a DEF vars, Retrying
<1> QED
  BY <1>1, <1>2, <1>3, <1>4, <1>5, <1>6, <1>7, <1>8, <1>9, <1>10, <1>11, <1>12, <1>13, <1>14,
     <1>15, <1>16, <1>17, <1>18
     DEF Next, ProducerNext, ConsumerNext, ConsumerOps, Finished

\* Whatever the number of producers and the capacity, every free slot is
\* matched by a sender awake or by the notify the receiver still owes.
THEOREM SendersNeverMissAWakeup == Safety => []SendersAreWoken
<1>1. Init => SendersAreWoken
  BY DEF Init, sync_channel, SendersAreWoken, on_recv, Threads
<1> QED
  BY InitBasics, NextBasics, <1>1, NextSendersAreWoken, PTL DEF Safety
-----------------------------------------------------------------------------
(***************************************************************************)
(* Delivery.  To the way of a value a step does one of four things, which  *)
(* is all that its order and its place depend on: a send is called, its    *)
(* value is queued, it is handed back, or nothing.                         *)
(***************************************************************************)
SameSends(P) == \A q \in P : Underway(q)' = Underway(q)

Called(p) ==
  /\ ~Underway(p) /\ Underway(p)'
  /\ sends' = [sends EXCEPT ![p] = @ + 1]
  /\ Log' = Log /\ refused' = refused
  /\ SameSends(Producers \ {p})

Queued(p) ==
  /\ Underway(p) /\ ~Underway(p)'
  /\ Log' = Append(Log, Value(p))
  /\ sends' = sends /\ refused' = refused
  /\ SameSends(Producers \ {p})

HandedBack(p) ==
  /\ Underway(p) /\ ~Underway(p)'
  /\ refused' = refused \cup {Value(p)}
  /\ Log' = Log /\ sends' = sends
  /\ SameSends(Producers \ {p})

Quiet == Log' = Log /\ sends' = sends /\ refused' = refused /\ SameSends(Producers)

\* A value that recv takes leaves the order as it is.
LEMMA TakenFromTheFront ==
  ASSUME NEW S, NEW d \in Seq(S), NEW q \in Seq(S), q # <<>>
  PROVE  Append(d, Head(q)) \o Tail(q) = d \o q
<1>1. /\ Head(q) \in S /\ Tail(q) \in Seq(S)
      /\ Len(Tail(q)) = Len(q) - 1 /\ Len(q) \in Nat /\ Len(q) > 0
      /\ q[1] = Head(q) /\ \A i \in 1..Len(q) - 1 : Tail(q)[i] = q[i + 1]
  BY HeadTailProperties, LenProperties, EmptySeq
<1> DEFINE b == Append(d, Head(q))
<1>2. b \in Seq(S) /\ Len(b) = Len(d) + 1 /\ Len(d) \in Nat
  BY <1>1, AppendProperties, LenProperties
<1>3. /\ b[Len(d) + 1] = Head(q)
      /\ \A i \in 1..Len(d) : b[i] = d[i]
  BY <1>1, AppendProperties
<1> HIDE DEF b
<1>4. b \o Tail(q) \in Seq(S) /\ d \o q \in Seq(S)
  BY <1>1, <1>2, ConcatProperties
<1>5. Len(b \o Tail(q)) = Len(d \o q)
  <2>1. Len(b \o Tail(q)) = Len(b) + Len(Tail(q))
    BY <1>1, <1>2, ConcatProperties
  <2>2. Len(d \o q) = Len(d) + Len(q)
    BY ConcatProperties
  <2> QED
    BY <1>1, <1>2, <2>1, <2>2
<1>6. \A i \in 1..Len(d \o q) : (b \o Tail(q))[i] = (d \o q)[i]
  <2>1. \A i \in 1..Len(d \o q) : (d \o q)[i] = IF i <= Len(d) THEN d[i] ELSE q[i - Len(d)]
    BY ConcatProperties
  <2>2. \A i \in 1..Len(d \o q) :
          (b \o Tail(q))[i] = IF i <= Len(d) + 1 THEN b[i] ELSE Tail(q)[i - (Len(d) + 1)]
    BY <1>1, <1>2, <1>5, ConcatProperties
  <2>3. Len(d \o q) = Len(d) + Len(q)
    BY ConcatProperties
  <2> QED
    BY <1>1, <1>2, <1>3, <2>1, <2>2, <2>3
<1>7. b \o Tail(q) = d \o q
  BY <1>4, <1>5, <1>6, SeqEqual
<1> QED
  BY <1>7 DEF b

\* A value that send queues comes last.
LEMMA QueuedAtTheEnd ==
  ASSUME NEW S, NEW d \in Seq(S), NEW q \in Seq(S), NEW e \in S
  PROVE  d \o Append(q, e) = Append(d \o q, e)
BY AppendIsConcat, ConcatAssociative, ConcatProperties

\* Log is a sequence, and each of the values it holds has its place in it.
LEMMA LogIsASeq ==
  ASSUME TypeOK
  PROVE  /\ Log \in Seq(Producers \X Nat)
         /\ Len(Log) \in Nat /\ DOMAIN Log = 1..Len(Log)
         /\ \A i \in DOMAIN Log : Log[i] \in Producers \X Nat /\ Log[i] = <<Log[i][1], Log[i][2]>>
<1>1. Log \in Seq(Producers \X Nat)
  BY ConcatProperties DEF TypeOK, Log
<1>2. Len(Log) \in Nat /\ DOMAIN Log = 1..Len(Log) /\ \A i \in DOMAIN Log : Log[i] \in Producers \X Nat
  BY <1>1, LenProperties, ElementOfSeq
<1> QED
  BY <1>1, <1>2

\* These four are all there is.
LEMMA StepsOfValues ==
  Basics /\ [Next]_vars => Quiet \/ \E p \in Producers : Called(p) \/ Queued(p) \/ HandedBack(p)
<1> SUFFICES ASSUME Basics, [Next]_vars
             PROVE  Quiet \/ \E p \in Producers : Called(p) \/ Queued(p) \/ HandedBack(p)
  OBVIOUS
<1> USE ConstantsAssumption DEF Basics, TypeOK, OpInv, Threads, SameSends, Underway, state, history, bounds
<1>0. delivered' = delivered /\ queue' = queue => Log' = Log
  BY DEF Log
<1>1. ASSUME NEW p \in Producers, BeginSend(p) PROVE Called(p)
  BY <1>0, <1>1 DEF BeginSend, Begin, Called
<1>2. ASSUME NEW p \in Producers, BeginClone(p) \/ BeginDrop(p) PROVE Quiet
  BY <1>0, <1>2 DEF BeginClone, BeginDrop, Begin, Quiet
<1>4. ASSUME NEW o \in ConsumerOps, BeginConsumer(o) PROVE Quiet
  BY <1>0, <1>4 DEF BeginConsumer, Begin, Quiet
<1>5. ASSUME NEW t \in Threads, lock(t) PROVE Quiet
  BY <1>0, <1>5 DEF lock, Quiet
<1>6. ASSUME NEW p \in Producers, SendRefused(p) PROVE HandedBack(p)
  BY <1>0, <1>6 DEF SendRefused, Holding, Return, HandedBack
<1>7. ASSUME NEW p \in Producers, SendQueued(p) PROVE Queued(p)
  <2>1. Value(p) \in Producers \X Nat
    BY DEF Value
  <2>2. Log' = Append(Log, Value(p))
    BY SMTT(30), <1>7, <2>1, QueuedAtTheEnd DEF SendQueued, Log
  <2> QED
    BY <1>7, <2>2 DEF SendQueued, Holding, ToNotify, Queued
<1>8. ASSUME NEW p \in Producers, SendBlocks(p) PROVE Quiet
  BY <1>0, <1>8 DEF SendBlocks, Holding, wait, Quiet
<1>9. ASSUME NEW t \in Threads, NEW W \in SUBSET Threads, stage[t] = "notify",
             \A u \in W : stage[u] = "wait", Notify(t, W) PROVE Quiet
  BY <1>0, <1>9 DEF Notify, Quiet
<1>10. ASSUME NEW p \in Producers, clone(p) PROVE Quiet
  BY <1>0, <1>10 DEF clone, Holding, Return, Quiet
<1>11. ASSUME NEW p \in Producers, DropSender(p) PROVE Quiet
  BY <1>0, <1>11 DEF DropSender, Holding, ToNotify, Return, Quiet
<1>12. ASSUME NEW o \in ConsumerOps, Take(o) PROVE Quiet
  <2>1. Log' = Log
    <3> DEFINE V == Producers \X Nat
    <3>1. delivered \in Seq(V) /\ queue \in Seq(V) /\ queue # <<>>
      BY <1>12 DEF Take
    <3>2. Append(delivered, Head(queue)) \o Tail(queue) = delivered \o queue
      <4> HIDE DEF V
      <4> QED
        BY SMTT(30), <3>1, TakenFromTheFront
    <3> QED
      BY <1>12, <3>2 DEF Take, Log
  <2> QED
    BY <1>12, <2>1 DEF Take, Holding, ToNotify, Quiet
<1>13. ASSUME RecvDisconnected \/ TryRecvEmpty \/ RecvBlocks PROVE Quiet
  BY <1>0, <1>13 DEF RecvDisconnected, TryRecvEmpty, RecvBlocks, wait, Holding, Return, Quiet
<1>16. ASSUME DropReceiver PROVE Quiet
  BY <1>0, <1>16 DEF DropReceiver, Holding, ToNotify, Quiet
<1>17. ASSUME NEW t \in Threads, SpuriousWake(t) PROVE Quiet
  BY <1>0, <1>17 DEF SpuriousWake, Quiet
<1>18. CASE UNCHANGED vars
  BY <1>0, <1>18 DEF vars, Quiet
<1>19. CASE \/ \E p \in Producers : SendNotifies(p) \/ DropNotifies(p)
            \/ TakeNotifies \/ CloseNotifies
  BY <1>9, <1>19, NotifyWakesSleepers
<1> QED
  BY <1>1, <1>2, <1>4, <1>5, <1>6, <1>7, <1>8, <1>10, <1>11, <1>12, <1>13, <1>16, <1>17, <1>18, <1>19
     DEF Next, ProducerNext, ConsumerNext, ConsumerOps, Finished

-----------------------------------------------------------------------------
\* No value has a number that its producer has not come to.
Numbered ==
  /\ \A i \in DOMAIN Log : Log[i][2] \in 1..sends[Log[i][1]]
  /\ \A v \in refused : v[2] \in 1..sends[v[1]]
  /\ \A p \in Producers : Underway(p) => sends[p] > 0

Order == Numbered /\ Fifo /\ Conservation

LEMMA OrderKept == Basics /\ Order /\ [Next]_vars => Order'
<1> SUFFICES ASSUME Basics, Order, [Next]_vars PROVE Order'
  OBVIOUS
<1>0. Basics' /\ TypeOK /\ TypeOK'
  BY NextBasics DEF Basics
<1>1. /\ Log \in Seq(Producers \X Nat) /\ Len(Log) \in Nat /\ DOMAIN Log = 1..Len(Log)
      /\ \A i \in DOMAIN Log : Log[i] \in Producers \X Nat
  BY <1>0, LogIsASeq
<1>7. \A i \in DOMAIN Log : Log[i] = <<Log[i][1], Log[i][2]>>
  BY <1>0, LogIsASeq
<1>2. sends \in [Producers -> Nat] /\ refused \subseteq Producers \X Nat
  BY <1>0 DEF TypeOK
<1> HIDE DEF Log
<1>3. CASE Quiet
  <2>1. Numbered' /\ Fifo'
    BY <1>3 DEF Quiet, SameSends, Order, Numbered, Fifo
  <2>2. Conservation'
    BY <1>3 DEF Quiet, Order, Conservation, InLog, SameSends
  <2> QED
    BY <2>1, <2>2 DEF Order
<1>4. ASSUME NEW p \in Producers, Called(p) PROVE Order'
  <2>1. \A q \in Producers : sends'[q] = IF q = p THEN sends[q] + 1 ELSE sends[q]
    BY <1>2, <1>4 DEF Called
  <2>2. Numbered' /\ Fifo'
    <3>1. \A q \in Producers : Underway(q)' => sends'[q] > 0
      BY <1>2, <1>4, <2>1 DEF Called, SameSends, Order, Numbered
    <3> QED
      BY <1>1, <1>2, <1>4, <2>1, <3>1 DEF Called, Order, Numbered, Fifo
  <2>3. ASSUME NEW q \in Producers, NEW k \in 1..sends'[q]
        PROVE  IF k = sends'[q] /\ Underway(q)' THEN ~InLog(<<q, k>>)' /\ <<q, k>> \notin refused'
               ELSE InLog(<<q, k>>)' <=> <<q, k>> \notin refused'
    <3>1. InLog(<<q, k>>)' <=> InLog(<<q, k>>)
      BY <1>4 DEF Called, InLog
    <3>2. CASE q = p /\ k = sends[p] + 1
      <4>1. ~InLog(<<q, k>>) /\ <<q, k>> \notin refused
        BY <1>1, <1>2, <3>2 DEF Order, Numbered, InLog
      <4> QED
        BY <1>4, <2>1, <3>1, <3>2, <4>1 DEF Called
    <3>3. CASE k \in 1..sends[q] /\ (q = p => ~Underway(q) /\ k # sends'[q])
      <4>1. IF k = sends[q] /\ Underway(q) THEN ~InLog(<<q, k>>) /\ <<q, k>> \notin refused
            ELSE InLog(<<q, k>>) <=> <<q, k>> \notin refused
        BY <3>3 DEF Order, Conservation
      <4>2. q # p => Underway(q)' = Underway(q)
        BY <1>4 DEF Called, SameSends
      <4> QED
        BY <1>4, <2>1, <3>1, <3>3, <4>1, <4>2 DEF Called
    <3> QED
      BY <1>2, <1>4, <2>1, <3>2, <3>3 DEF Called
  <2> QED
    BY <2>2, <2>3 DEF Order, Conservation
<1>5. ASSUME NEW p \in Producers, Queued(p) PROVE Order'
  <2>0. PICK v \in Producers \X Nat : v = Value(p) /\ v = <<p, sends[p]>>
    BY <1>2 DEF Value
  <2>1. /\ Len(Log') = Len(Log) + 1 /\ Len(Log) \in Nat /\ DOMAIN Log' = 1..Len(Log) + 1
        /\ \A i \in 1..Len(Log) : Log'[i] = Log[i]
        /\ Log'[Len(Log) + 1] = v
    BY <1>1, <1>5, <2>0, AppendProperties, LenProperties DEF Queued
  <2>2. sends' = sends /\ refused' = refused /\ ~Underway(p)'
    BY <1>5 DEF Queued
  <2>3. /\ sends[p] \in 1..sends[p] /\ Underway(p)
        /\ ~InLog(v) /\ v \notin refused
    <3>1. sends[p] > 0 /\ sends[p] \in Nat /\ Underway(p)
      BY <1>2, <1>5 DEF Queued, Order, Numbered
    <3>2. ~InLog(<<p, sends[p]>>) /\ <<p, sends[p]>> \notin refused
      BY <3>1 DEF Order, Conservation
    <3> QED
      BY <2>0, <3>1, <3>2
  <2>4. Numbered'
    <3>1. \A q \in Producers : Underway(q)' => sends'[q] > 0
      BY <1>5, <2>2 DEF Queued, SameSends, Order, Numbered
    <3> QED
      <4>1. ASSUME NEW i \in 1..Len(Log) + 1 PROVE Log'[i][2] \in 1..sends[Log'[i][1]]
        <5>1. CASE i \in 1..Len(Log)
          BY <1>1, <2>1, <5>1 DEF Order, Numbered
        <5>2. CASE i = Len(Log) + 1
          BY <2>0, <2>1, <2>3, <5>2
        <5> QED
          BY <2>1, <5>1, <5>2
      <4> QED
        BY <2>1, <2>2, <3>1, <4>1 DEF Order, Numbered
  <2>5. \A i \in 1..Len(Log) : Log[i][1] = p => Log[i][2] < sends[p]
    <3> SUFFICES ASSUME NEW i \in 1..Len(Log), Log[i][1] = p PROVE Log[i][2] < sends[p]
      OBVIOUS
    <3>1. Log[i][2] \in 1..sends[p] /\ Log[i] = <<p, Log[i][2]>>
      BY <1>1, <1>7 DEF Order, Numbered
    <3>2. Log[i][2] # sends[p]
      BY <1>1, <2>0, <2>3, <3>1 DEF InLog
    <3> QED
      BY <1>2, <3>1, <3>2
  <2>6. Fifo'
    <3> SUFFICES ASSUME NEW i \in DOMAIN Log', NEW j \in DOMAIN Log', i < j, Log'[i][1] = Log'[j][1]
                 PROVE  Log'[i][2] < Log'[j][2]
      BY DEF Fifo
    <3>1. CASE j \in 1..Len(Log)
      <4>1. i \in 1..Len(Log) /\ j \in 1..Len(Log) /\ Log'[i] = Log[i] /\ Log'[j] = Log[j]
        BY <2>1, <3>1
      <4> QED
        BY <1>1, <4>1 DEF Order, Fifo
    <3>2. CASE j = Len(Log) + 1
      BY SMTT(30), <1>1, <2>0, <2>1, <2>5, <3>2
    <3> QED
      BY <1>1, <2>1, <3>1, <3>2
  <2>7. ASSUME NEW q \in Producers, NEW k \in 1..sends'[q]
        PROVE  IF k = sends'[q] /\ Underway(q)' THEN ~InLog(<<q, k>>)' /\ <<q, k>> \notin refused'
               ELSE InLog(<<q, k>>)' <=> <<q, k>> \notin refused'
    <3>1. IF k = sends[q] /\ Underway(q) THEN ~InLog(<<q, k>>) /\ <<q, k>> \notin refused
          ELSE InLog(<<q, k>>) <=> <<q, k>> \notin refused
      BY <2>2 DEF Order, Conservation
    <3>2. InLog(<<q, k>>)' <=> InLog(<<q, k>>) \/ <<q, k>> = v
      <4>1. ASSUME NEW i \in DOMAIN Log PROVE i \in DOMAIN Log' /\ Log'[i] = Log[i]
        BY <1>1, <2>1
      <4>2. ASSUME NEW i \in DOMAIN Log', Log'[i] # v PROVE i \in DOMAIN Log /\ Log'[i] = Log[i]
        BY <1>1, <2>1, <4>2
      <4>3. Len(Log) + 1 \in DOMAIN Log' /\ Log'[Len(Log) + 1] = v
        BY <2>1
      <4> QED
        BY <4>1, <4>2, <4>3 DEF InLog
    <3>3. q # p => Underway(q)' = Underway(q)
      BY <1>5 DEF Queued, SameSends
    <3> QED
      BY <1>2, <2>0, <2>2, <2>3, <3>1, <3>2, <3>3
  <2> QED
    BY <2>4, <2>6, <2>7 DEF Order, Conservation
<1>6. ASSUME NEW p \in Producers, HandedBack(p) PROVE Order'
  <2>1. PICK v \in Producers \X Nat : v = Value(p) /\ v = <<p, sends[p]>>
    BY <1>2 DEF Value
  <2>2. /\ sends' = sends /\ Log' = Log /\ refused' = refused \cup {v}
        /\ Underway(p) /\ ~Underway(p)'
    BY <1>6, <2>1 DEF HandedBack
  <2>3. sends[p] \in 1..sends[p] /\ ~InLog(v)
    BY <1>2, <2>1, <2>2 DEF Order, Numbered, Conservation
  <2>4. Numbered' /\ Fifo'
    <3>1. \A q \in Producers : Underway(q)' => sends'[q] > 0
      BY <1>6, <2>2 DEF HandedBack, SameSends, Order, Numbered
    <3> QED
      BY <2>1, <2>2, <2>3, <3>1 DEF Order, Numbered, Fifo
  <2>5. ASSUME NEW q \in Producers, NEW k \in 1..sends'[q]
        PROVE  IF k = sends'[q] /\ Underway(q)' THEN ~InLog(<<q, k>>)' /\ <<q, k>> \notin refused'
               ELSE InLog(<<q, k>>)' <=> <<q, k>> \notin refused'
    <3>1. IF k = sends[q] /\ Underway(q) THEN ~InLog(<<q, k>>) /\ <<q, k>> \notin refused
          ELSE InLog(<<q, k>>) <=> <<q, k>> \notin refused
      BY <2>2 DEF Order, Conservation
    <3>2. InLog(<<q, k>>)' <=> InLog(<<q, k>>)
      BY <2>2 DEF InLog
    <3>3. q # p => Underway(q)' = Underway(q)
      BY <1>6 DEF HandedBack, SameSends
    <3> QED
      BY <1>2, <2>1, <2>2, <2>3, <3>1, <3>2, <3>3
  <2> QED
    BY <2>4, <2>5 DEF Order, Conservation
<1> QED
  BY <1>3, <1>4, <1>5, <1>6, StepsOfValues

\* A producer keeps a handle through its calls, and the receiver is there
\* through those of the consumer.  A send is refused only without it.
EndsInUse ==
  /\ \A p \in Producers :
       op[p] \in {"send", "clone"} \/ (op[p] = "drop" /\ stage[p] # "notify") => Owned(p) # {}
  /\ op[Consumer] \in {"recv", "try"} => receiver
  /\ refused # {} => ~receiver

\* A handle goes only by a drop of the thread that owns it.
LEMMA EndsStayInUse == Basics /\ EndsInUse /\ [Next]_vars => EndsInUse'
<1> SUFFICES ASSUME Basics, EndsInUse, [Next]_vars PROVE EndsInUse'
  OBVIOUS
<1> USE ConstantsAssumption DEF Basics, TypeOK, OpInv, EndsInUse, Owned, Threads, state, history, bounds
<1>1. ASSUME NEW p \in Producers, BeginSend(p) \/ BeginClone(p) \/ BeginDrop(p) PROVE EndsInUse'
  BY <1>1 DEF BeginSend, BeginClone, BeginDrop, Begin
<1>2. ASSUME NEW o \in ConsumerOps, BeginConsumer(o) PROVE EndsInUse'
  BY <1>2 DEF BeginConsumer, Begin
<1>3. ASSUME NEW t \in Threads, lock(t) \/ SpuriousWake(t) PROVE EndsInUse'
  <2>1. /\ op' = op /\ owner' = owner /\ receiver' = receiver /\ refused' = refused
        /\ stage[t] # "notify" /\ \A u \in Threads \ {t} : stage'[u] = stage[u]
    BY <1>3 DEF lock, SpuriousWake
  <2>2. \A p \in Producers : /\ Owned(p)' = Owned(p) /\ op'[p] = op[p]
                             /\ stage[p] = "notify" => stage'[p] = "notify"
    BY <2>1
  <2>3. op'[Consumer] = op[Consumer]
    BY <2>1
  <2> HIDE DEF Owned, Basics, TypeOK, OpInv
  <2> QED
    BY <2>1, <2>2, <2>3
<1>4. ASSUME NEW p \in Producers, SendRefused(p) PROVE EndsInUse'
  BY <1>4 DEF SendRefused, Holding, Return
<1>5. ASSUME NEW p \in Producers, SendQueued(p) \/ SendBlocks(p) PROVE EndsInUse'
  BY <1>5 DEF SendQueued, SendBlocks, Holding, ToNotify, wait
<1>6. ASSUME NEW t \in Threads, NEW W \in SUBSET Threads, stage[t] = "notify",
             \A u \in W : stage[u] = "wait", Notify(t, W) PROVE EndsInUse'
  BY <1>6 DEF Notify
<1>7. ASSUME NEW p \in Producers, clone(p) PROVE EndsInUse'
  BY <1>7 DEF clone, Holding, Return
<1>8. ASSUME NEW p \in Producers, DropSender(p) PROVE EndsInUse'
  <2>1. PICK h \in Owned(p) : owner' = [owner EXCEPT ![h] = Dropped]
    BY <1>8 DEF DropSender
  <2>2. \A q \in Producers : q # p => Owned(q)' = Owned(q) /\ op'[q] = op[q] /\ stage'[q] = stage[q]
    BY <1>8, <2>1 DEF DropSender, Return, ToNotify
  <2>3. op'[p] = "none" \/ (op'[p] = "drop" /\ stage'[p] = "notify")
    <3>1. op[p] = "drop" /\ p \in Threads /\ (ToNotify(p) \/ Return(p))
      BY <1>8 DEF DropSender, Holding
    <3>2. ASSUME ToNotify(p) PROVE op'[p] = "drop" /\ stage'[p] = "notify"
      BY <3>1, <3>2 DEF ToNotify
    <3>3. ASSUME Return(p) PROVE op'[p] = "none"
      BY <3>1, <3>3 DEF Return
    <3> QED
      BY <3>1, <3>2, <3>3
  <2>4. op'[Consumer] = op[Consumer] /\ receiver' = receiver /\ refused' = refused
    BY <1>8 DEF DropSender, Return, ToNotify
  <2>5. \A q \in Producers :
          op'[q] \in {"send", "clone"} \/ (op'[q] = "drop" /\ stage'[q] # "notify") => Owned(q)' # {}
    <3> HIDE DEF Owned, Basics, TypeOK, OpInv
    <3>1. ASSUME NEW q \in Producers, q # p
          PROVE  op'[q] \in {"send", "clone"} \/ (op'[q] = "drop" /\ stage'[q] # "notify") => Owned(q)' # {}
      BY <2>2, <3>1
    <3> QED
      BY <2>3, <3>1
  <2> QED
    BY <2>4, <2>5
<1>9. ASSUME NEW o \in ConsumerOps, Take(o) PROVE EndsInUse'
  BY <1>9 DEF Take, Holding, ToNotify
<1>10. ASSUME RecvDisconnected \/ TryRecvEmpty \/ RecvBlocks PROVE EndsInUse'
  <2>1. /\ op'[Consumer] \in {op[Consumer], "none"}
        /\ owner' = owner /\ receiver' = receiver /\ refused' = refused
        /\ \A p \in Producers : op'[p] = op[p] /\ stage'[p] = stage[p]
    BY <1>10 DEF RecvDisconnected, TryRecvEmpty, RecvBlocks, wait, Holding, Return
  <2> QED
    BY <2>1
<1>11. ASSUME DropReceiver PROVE EndsInUse'
  BY <1>11 DEF DropReceiver, Holding, ToNotify
<1>12. CASE UNCHANGED vars
  BY <1>12 DEF vars
<1>13. CASE \/ \E p \in Producers : SendNotifies(p) \/ DropNotifies(p)
            \/ TakeNotifies \/ CloseNotifies
  BY <1>6, <1>13, NotifyWakesSleepers
<1> QED
  BY <1>1, <1>2, <1>3, <1>4, <1>5, <1>7, <1>8, <1>9, <1>10, <1>11, <1>12, <1>13
     DEF Next, ProducerNext, ConsumerNext, ConsumerOps, Finished

\* Once all senders are gone nothing can come after a RecvError.
LEMMA DrainedStaysSo ==
  ASSUME Basics, EndsInUse, [Next]_vars, Live = {}, queue = <<>>, recvErr
  PROVE  /\ Live' = {} /\ queue' = <<>> /\ sends' = sends /\ delivered' = delivered
         /\ \A p \in Producers : ~Underway(p)'
<1>1. \A p \in Producers : Owned(p) = {}
  BY DEF Live, Owned
<1>2. \A p \in Producers : op[p] = "none" \/ (op[p] = "drop" /\ stage[p] = "notify")
  <2>1. \A p \in Producers : op[p] \in {"send", "clone", "drop", "none"}
    BY DEF Basics, OpInv, ProducerOps
  <2>2. ASSUME NEW p \in Producers PROVE op[p] = "none" \/ (op[p] = "drop" /\ stage[p] = "notify")
    <3>1. ~(op[p] \in {"send", "clone"} \/ (op[p] = "drop" /\ stage[p] # "notify"))
      BY <1>1 DEF EndsInUse
    <3> QED
      BY <2>1, <3>1
  <2> QED
    BY <2>2
<1> USE ConstantsAssumption DEF Basics, TypeOK, OpInv, Underway, Live, Threads, state, history, bounds
<1>3. ASSUME NEW t \in Threads, NEW W \in SUBSET Threads, stage[t] = "notify",
             \A u \in W : stage[u] = "wait", Notify(t, W)
      PROVE  owner' = owner /\ UNCHANGED <<queue, sends, delivered>> /\ \A p \in Producers : ~Underway(p)'
  BY <1>2, <1>3 DEF Notify
<1>4. CASE \/ \E p \in Producers : SendNotifies(p) \/ DropNotifies(p)
           \/ TakeNotifies \/ CloseNotifies
  BY <1>3, <1>4, NotifyWakesSleepers
<1>5. ASSUME NEW p \in Producers, ProducerNext(p), ~(SendNotifies(p) \/ DropNotifies(p)) PROVE FALSE
  BY <1>1, <1>2, <1>5
     DEF ProducerNext, BeginSend, BeginClone, BeginDrop, lock, SendRefused, SendQueued, SendBlocks,
         clone, DropSender, Holding
<1>6. CASE \/ \E o \in ConsumerOps : BeginConsumer(o)
           \/ lock(Consumer) \/ RecvDisconnected \/ RecvBlocks \/ TryRecvEmpty \/ DropReceiver
           \/ \E t \in Threads : SpuriousWake(t)
  BY <1>2, <1>6
     DEF BeginConsumer, Begin, lock, RecvDisconnected, RecvBlocks, TryRecvEmpty, DropReceiver, SpuriousWake,
         Holding, Return, ToNotify, wait
<1>7. CASE UNCHANGED vars
  BY <1>2, <1>7 DEF vars
<1>8. ASSUME NEW o \in ConsumerOps, Take(o) PROVE FALSE
  BY <1>8 DEF Take
<1> QED
  BY <1>4, <1>5, <1>6, <1>7, <1>8 DEF Next, ConsumerNext, ConsumerOps, Finished

DeliveryInv == Basics /\ Order /\ EndsInUse /\ RecvErrorMeansDrained

LEMMA InitDelivery == Init => DeliveryInv
<1> SUFFICES ASSUME Init PROVE DeliveryInv
  OBVIOUS
<1>1. Basics
  BY InitBasics
<1>2. Log = <<>> /\ sends = [p \in Producers |-> 0] /\ refused = {} /\ op = [t \in Threads |-> "none"]
  BY DEF Init, sync_channel, Log
<1>3. Order
  BY <1>2 DEF Order, Numbered, Fifo, Conservation, Underway, Threads
<1>4. EndsInUse /\ RecvErrorMeansDrained
  BY <1>2 DEF Init, sync_channel, EndsInUse, RecvErrorMeansDrained, Threads
<1> QED
  BY <1>1, <1>3, <1>4 DEF DeliveryInv

LEMMA NextDelivery == DeliveryInv /\ [Next]_vars => DeliveryInv'
<1> SUFFICES ASSUME DeliveryInv, [Next]_vars PROVE DeliveryInv'
  OBVIOUS
<1>1. Basics' /\ Order' /\ EndsInUse'
  BY NextBasics, OrderKept, EndsStayInUse DEF DeliveryInv
<1>2. CASE recvErr
  <2>1. Basics /\ EndsInUse /\ Live = {} /\ queue = <<>>
    BY <1>2 DEF DeliveryInv, RecvErrorMeansDrained
  <2>2. /\ Live' = {} /\ queue' = <<>> /\ sends' = sends /\ delivered' = delivered
        /\ \A p \in Producers : ~Underway(p)'
    BY <1>2, <2>1, DrainedStaysSo
  <2> QED
    BY <1>1, <1>2, <2>2 DEF DeliveryInv, RecvErrorMeansDrained
<1>3. CASE ~recvErr /\ recvErr'
  <2>1. RecvDisconnected
    BY <1>3 DEF Next, ProducerNext, ConsumerNext, Finished, vars, history, bounds, state,
         BeginSend, BeginClone, BeginDrop, BeginConsumer, lock, SendRefused, SendQueued, SendBlocks,
         SendNotifies, clone, DropSender, DropNotifies, Take, RecvBlocks, TryRecvEmpty, TakeNotifies,
         DropReceiver, CloseNotifies, SpuriousWake, notify_one, notify_all, Notify
  <2>2. queue = <<>> /\ Live = {}
    <3>1. IsFiniteSet(Live) /\ Cardinality(Live) = 0
      BY <2>1, LiveFinite DEF RecvDisconnected, DeliveryInv, Basics, SendersCountHandles
    <3> QED
      BY <2>1, <3>1, FS_EmptySet DEF RecvDisconnected
  <2>3. /\ Live' = Live /\ queue' = queue /\ sends' = sends /\ delivered' = delivered /\ refused' = refused
        /\ op[Consumer] = "recv"
    BY <2>1 DEF RecvDisconnected, Holding, state, Live
  <2>4. refused = {} /\ \A p \in Producers : ~Underway(p)
    BY <2>2, <2>3 DEF DeliveryInv, EndsInUse, Underway, Owned, Live
  <2>5. \A p \in Producers : Underway(p)' = Underway(p)
    BY <2>1, ConstantsAssumption DEF RecvDisconnected, Return, Underway, DeliveryInv, Basics, TypeOK, Threads
  <2>6. Log = delivered
    BY <2>2 DEF Log, DeliveryInv, Basics, TypeOK
  <2>7. \A p \in Producers : \A k \in 1..sends[p] : \E i \in DOMAIN delivered : delivered[i] = <<p, k>>
    BY <2>4, <2>6 DEF DeliveryInv, Order, Conservation, InLog
  <2> QED
    BY <1>1, <2>2, <2>3, <2>4, <2>5, <2>7 DEF DeliveryInv, RecvErrorMeansDrained
<1>4. CASE ~recvErr'
  BY <1>1, <1>4 DEF DeliveryInv, RecvErrorMeansDrained
<1> QED
  BY <1>2, <1>3, <1>4 DEF DeliveryInv, Basics, TypeOK

\* However the threads interleave, every value sent arrives once and in the
\* order of its sender, or is handed back, and a RecvError leaves none behind.
THEOREM ValuesAreDelivered == Safety => []Delivery
<1>1. DeliveryInv => Delivery
  BY DEF DeliveryInv, Order, Delivery
<1> QED
  BY InitDelivery, NextDelivery, <1>1, PTL DEF Safety
-----------------------------------------------------------------------------
(***************************************************************************)
(* The channel implements ChannelSpec.  An operation is pending up to the  *)
(* critical section in which it succeeds.  A step changes one thread's     *)
(* pending operation at most, and only when the thread calls or when its   *)
(* operation takes effect: taking the lock, going to sleep, waking and     *)
(* notifying are invisible.                                                *)
(***************************************************************************)
\* A thread that is not in its notify has pending what it is in, ...
LEMMA PendingIs ==
  ASSUME Basics, NEW t \in Threads
  PROVE  /\ stage[t] # "notify" => pending[t] = op[t]
         /\ stage[t] = "notify" => pending[t] = "none"
BY DEF pending

\* ... and what is pending changes with op and stage of one thread only.
LEMMA PendingMoves ==
  ASSUME Basics, NEW t \in Threads, NEW o,
         \A u \in Threads \ {t} : op'[u] = op[u] /\ (stage'[u] = "notify" <=> stage[u] = "notify"),
         o = IF stage'[t] = "notify" THEN "none" ELSE op'[t]
  PROVE  pending' = [pending EXCEPT ![t] = o]
BY DEF pending

LEMMA InitRefines == Init => Abstract!Init
<1> SUFFICES ASSUME Init PROVE Abstract!Init
  OBVIOUS
<1>1. pending = [t \in Threads |-> "none"]
  BY DEF Init, sync_channel, pending
<1> QED
  BY <1>1 DEF Init, sync_channel, Abstract!Init, Abstract!Threads, Threads

LEMMA StepRefines == Basics /\ Basics' /\ [Next]_vars => [Abstract!Next]_(Abstract!absVars)
<1> SUFFICES ASSUME Basics, Basics', [Next]_vars PROVE Abstract!Next \/ UNCHANGED Abstract!absVars
  OBVIOUS
<1> USE DEF Abstract!absVars, state, history, bounds
<1>t. /\ \A p \in Producers : p \in Threads
      /\ Consumer \in Threads /\ Consumer \notin Producers
      /\ op \in [Threads -> ProducerOps \cup ConsumerOps \cup {"none"}]
      /\ stage \in [Threads -> {"idle", "lock", "crit", "wait", "notify"}]
      /\ \A t \in Threads : stage[t] = "idle" <=> op[t] = "none"
  BY ConstantsAssumption DEF Threads, Basics, TypeOK, OpInv
<1>b. ASSUME NEW t \in Threads, NEW o, Begin(t, o) PROVE Abstract!Call(t, o)
  <2>1. stage[t] = "idle" /\ op' = [op EXCEPT ![t] = o] /\ stage' = [stage EXCEPT ![t] = "lock"]
    BY <1>b DEF Begin
  <2>2. pending[t] = "none"
    BY <1>t, <2>1, PendingIs
  <2>3. pending' = [pending EXCEPT ![t] = o]
    BY <1>t, <2>1, PendingMoves
  <2> QED
    BY <2>2, <2>3 DEF Abstract!Call
<1>f. ASSUME NEW t \in Threads, NEW o, Holding(t, o), ToNotify(t) \/ Return(t) PROVE Abstract!Finish(t, o)
  <2>1. op[t] = o /\ stage[t] = "crit"
    BY <1>f DEF Holding
  <2>2. pending[t] = o
    BY <1>t, <2>1, PendingIs
  <2>3. pending' = [pending EXCEPT ![t] = "none"]
    <3>1. CASE ToNotify(t)
      <4>1. op' = op /\ stage' = [stage EXCEPT ![t] = "notify"]
        BY <3>1 DEF ToNotify
      <4> QED
        BY <1>t, <4>1, PendingMoves
    <3>2. CASE Return(t)
      <4>1. op' = [op EXCEPT ![t] = "none"] /\ stage' = [stage EXCEPT ![t] = "idle"]
        BY <3>2 DEF Return
      <4> QED
        BY <1>t, <4>1, PendingMoves
    <3> QED
      BY <1>f, <3>1, <3>2
  <2> QED
    BY <2>2, <2>3 DEF Abstract!Finish
<1>s. ASSUME op' = op, \A u \in Threads : stage'[u] = "notify" <=> stage[u] = "notify"
      PROVE  pending' = pending
  BY <1>s DEF pending
<1>1. ASSUME NEW p \in Producers, BeginSend(p) \/ BeginClone(p) \/ BeginDrop(p) PROVE Abstract!CallProducer(p)
  BY <1>1, <1>t, <1>b DEF BeginSend, BeginClone, BeginDrop, Abstract!CallProducer, Owned, Abstract!Owned
<1>2. ASSUME NEW o \in ConsumerOps, BeginConsumer(o) PROVE Abstract!CallConsumer
  BY <1>2, <1>t, <1>b DEF BeginConsumer, Abstract!CallConsumer, ConsumerOps
<1>3. ASSUME NEW t \in Threads, lock(t) \/ SpuriousWake(t) PROVE UNCHANGED Abstract!absVars
  <2>1. op' = op /\ \A u \in Threads : stage'[u] = "notify" <=> stage[u] = "notify"
    BY <1>3, <1>t DEF lock, SpuriousWake
  <2> QED
    BY <1>3, <1>s, <2>1 DEF lock, SpuriousWake
<1>4. ASSUME NEW p \in Producers, SendRefused(p) PROVE Abstract!Send(p)
  BY <1>4, <1>t, <1>f DEF SendRefused, Abstract!Send, Value, Abstract!Value
<1>5. ASSUME NEW p \in Producers, SendQueued(p) PROVE Abstract!Send(p)
  BY <1>5, <1>t, <1>f DEF SendQueued, Abstract!Send, Value, Abstract!Value
<1>6. ASSUME NEW t \in Threads, stage[t] = "crit", wait(t) PROVE pending' = pending
  <2>1. op' = op /\ \A u \in Threads : stage'[u] = "notify" <=> stage[u] = "notify"
    BY <1>6, <1>t DEF wait
  <2> QED
    BY <1>s, <2>1
<1>7. ASSUME (\E p \in Producers : SendBlocks(p)) \/ RecvBlocks PROVE UNCHANGED Abstract!absVars
  BY <1>7, <1>6, <1>t DEF SendBlocks, RecvBlocks, Holding
<1>8. CASE \/ \E p \in Producers : SendNotifies(p) \/ DropNotifies(p)
           \/ TakeNotifies \/ CloseNotifies
  <2>1. PICK t \in Threads, W \in SUBSET Threads :
          stage[t] = "notify" /\ (\A u \in W : stage[u] = "wait") /\ Notify(t, W)
    BY <1>8, NotifyWakesSleepers
  <2>2. /\ op' = [op EXCEPT ![t] = "none"]
        /\ stage' = [u \in Threads |-> IF u = t THEN "idle" ELSE IF u \in W THEN "lock" ELSE stage[u]]
        /\ UNCHANGED <<state, owner, sends, history>>
    BY <2>1 DEF Notify
  <2>3. pending' = pending
    BY <1>t, <2>1, <2>2 DEF pending
  <2> QED
    BY <2>2, <2>3
<1>9. ASSUME NEW p \in Producers, clone(p) PROVE Abstract!Clone(p)
  BY <1>9, <1>t, <1>f DEF clone, Abstract!Clone
<1>10. ASSUME NEW p \in Producers, DropSender(p) PROVE Abstract!DropSender(p)
  <2>1. ToNotify(p) \/ Return(p)
    BY <1>10 DEF DropSender
  <2>2. Abstract!Finish(p, "drop")
    BY <1>10, <1>t, <1>f, <2>1 DEF DropSender
  <2> QED
    BY <1>10, <2>2 DEF DropSender, Abstract!DropSender, Owned, Abstract!Owned
<1>11. ASSUME NEW o \in ConsumerOps, Take(o) PROVE Abstract!Take(o)
  BY <1>11, <1>t, <1>f DEF Take, Abstract!Take
<1>12. ASSUME RecvDisconnected PROVE Abstract!Disconnected
  <2>1. Live = {}
    BY <1>12, LiveFinite, FS_EmptySet DEF RecvDisconnected, Basics, SendersCountHandles
  <2> QED
    BY <1>12, <1>t, <1>f, <2>1 DEF RecvDisconnected, Abstract!Disconnected, Live, Abstract!Live
<1>13. ASSUME TryRecvEmpty PROVE Abstract!Nothing
  BY <1>13, <1>t, <1>f DEF TryRecvEmpty, Abstract!Nothing
<1>14. ASSUME DropReceiver PROVE Abstract!DropReceiver
  BY <1>14, <1>t, <1>f DEF DropReceiver, Abstract!DropReceiver
<1>15. CASE UNCHANGED vars
  BY <1>15 DEF vars, pending
<1> QED
  BY <1>1, <1>2, <1>3, <1>4, <1>5, <1>7, <1>8, <1>9, <1>10, <1>11, <1>12, <1>13, <1>14, <1>15, <1>t
     DEF Next, ProducerNext, ConsumerNext, ConsumerOps, Finished,
         Abstract!Next, Abstract!ProducerEffect, Abstract!ConsumerEffect

\* Every behaviour of the channel is one of a queue without a lock.
THEOREM ImplementsSafety == Safety => Abstract!Safety
BY InitBasics, NextBasics, InitRefines, StepRefines, PTL DEF Safety, Abstract!Safety
=============================================================================
