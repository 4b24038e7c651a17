------------------------------- MODULE Channel -------------------------------
(***************************************************************************)
(* src/channel.rs: the bounded channel over Mutex and Condvar.  A thread   *)
(* is inside one operation at a time and passes through its stages:        *)
(*   "lock"    calling Mutex::lock, or inside Condvar::wait and woken      *)
(*   "crit"    holding the guard                                           *)
(*   "wait"    asleep in Condvar::wait: producers on on_recv, the consumer *)
(*             on on_send                                                  *)
(*   "notify"  the guard is dropped and the notify has not happened yet    *)
(* All of State is read and written with the guard held, so the code from  *)
(* taking the guard to dropping it is one action.                          *)
(***************************************************************************)
EXTENDS Integers, Sequences, FiniteSets

CONSTANTS Producers,  \* the threads that may own a SyncSender
          Consumer,   \* the thread that owns the Receiver
          Handles,    \* the SyncSenders that can ever exist (bounds clone)
          Unborn,     \* a handle that has not been cloned yet
          Dropped,    \* a handle that has been dropped
          Free,       \* the mutex is nobody's
          Capacity,   \* the capacity given to sync_channel
          MaxSends,   \* bound: send calls of one producer
          MaxEmpty,   \* bound: recv and try_recv calls that come back empty
          MaxSpurious \* bound: wakes from a wait that nobody notified

ASSUME ConstantsAssumption ==
  /\ Consumer \notin Producers
  /\ Free \notin Producers \cup {Consumer}
  /\ Unborn \notin Producers /\ Dropped \notin Producers /\ Unborn # Dropped
  /\ IsFiniteSet(Producers) /\ IsFiniteSet(Handles)
  /\ Capacity \in Nat /\ MaxSends \in Nat /\ MaxEmpty \in Nat /\ MaxSpurious \in Nat

VARIABLES mutex,      \* the thread that holds the guard, or Free
          queue,      \* State::queue
          senders,    \* State::senders
          receiver,   \* State::receiver
          op,         \* the operation each thread is in, or "none"
          stage,      \* where it is in that operation
          owner,      \* which thread owns each SyncSender
          sends,      \* how many sends each producer has called
          delivered,  \* history: the values recv and try_recv returned
          refused,    \* history: the values send handed back
          recvErr,    \* history: recv has answered RecvError
          empties,    \* calls of the consumer that came back empty
          spurious    \* spurious wakes so far

state == <<queue, senders, receiver>>
history == <<delivered, refused, recvErr>>
bounds == <<empties, spurious>>
vars == <<mutex, state, op, stage, owner, sends, history, bounds>>

Threads == Producers \cup {Consumer}
ProducerOps == {"send", "clone", "drop"}
ConsumerOps == {"recv", "try", "close"}

Owned(p) == {h \in Handles : owner[h] = p}
Live == {h \in Handles : owner[h] \in Producers}

\* The value of a producer's current send: values are told apart by who sent
\* them and in which call.
Value(p) == <<p, sends[p]>>

(***************************************************************************)
(* The threads asleep on each condition variable.                          *)
(***************************************************************************)
on_recv == {p \in Producers : stage[p] = "wait"}
on_send == {c \in {Consumer} : stage[c] = "wait"}

sync_channel ==
  /\ mutex = Free
  /\ queue = <<>>
  /\ senders = 1
  /\ receiver = TRUE
  /\ op = [t \in Threads |-> "none"]
  /\ stage = [t \in Threads |-> "idle"]
  /\ \E p \in Producers, h \in Handles :
       owner = [k \in Handles |-> IF k = h THEN p ELSE Unborn]
  /\ sends = [p \in Producers |-> 0]
  /\ delivered = <<>> /\ refused = {} /\ recvErr = FALSE
  /\ empties = 0 /\ spurious = 0

Init == sync_channel

(***************************************************************************)
(* Entering an operation, taking the lock, leaving.                        *)
(***************************************************************************)
Begin(t, o) ==
  /\ stage[t] = "idle"
  /\ op' = [op EXCEPT ![t] = o]
  /\ stage' = [stage EXCEPT ![t] = "lock"]

BeginSend(p) ==
  /\ Owned(p) # {}
  /\ sends[p] < MaxSends
  /\ Begin(p, "send")
  /\ sends' = [sends EXCEPT ![p] = @ + 1]
  /\ UNCHANGED <<mutex, state, owner, history, bounds>>

BeginClone(p) ==
  /\ Owned(p) # {}
  /\ Cardinality({q \in Producers : op[q] = "clone"})
       < Cardinality({h \in Handles : owner[h] = Unborn})
  /\ Begin(p, "clone")
  /\ UNCHANGED <<mutex, state, owner, sends, history, bounds>>

BeginDrop(p) ==
  /\ Owned(p) # {}
  /\ Begin(p, "drop")
  /\ UNCHANGED <<mutex, state, owner, sends, history, bounds>>

BeginConsumer(o) ==
  /\ receiver
  /\ o # "close" => empties < MaxEmpty
  /\ Begin(Consumer, o)
  /\ UNCHANGED <<mutex, state, owner, sends, history, bounds>>

\* Mutex::lock, and the re-acquisition at the end of Condvar::wait.
lock(t) ==
  /\ stage[t] = "lock"
  /\ mutex = Free
  /\ mutex' = t
  /\ stage' = [stage EXCEPT ![t] = "crit"]
  /\ UNCHANGED <<state, op, owner, sends, history, bounds>>

Holding(t, o) == op[t] = o /\ stage[t] = "crit"

\* The guard is dropped and the call returns.
Return(t) ==
  /\ mutex' = Free
  /\ op' = [op EXCEPT ![t] = "none"]
  /\ stage' = [stage EXCEPT ![t] = "idle"]

\* The guard is dropped and the call goes on to its notify.
ToNotify(t) ==
  /\ mutex' = Free
  /\ stage' = [stage EXCEPT ![t] = "notify"]
  /\ UNCHANGED op

\* Condvar::wait: the mutex is released and the thread sleeps, in one step.
wait(t) ==
  /\ mutex' = Free
  /\ stage' = [stage EXCEPT ![t] = "wait"]
  /\ UNCHANGED op

\* The notify wakes the threads in woken, and the call returns.
Notify(t, woken) ==
  /\ op' = [op EXCEPT ![t] = "none"]
  /\ stage' = [u \in Threads |-> IF u = t THEN "idle"
                                 ELSE IF u \in woken THEN "lock" ELSE stage[u]]
  /\ UNCHANGED <<mutex, state, owner, sends, history, bounds>>

\* pthread_cond_signal wakes one sleeper, if there is one; broadcast, all.
notify_one(t, sleepers) ==
  \/ sleepers = {} /\ Notify(t, {})
  \/ \E u \in sleepers : Notify(t, {u})
notify_all(t, sleepers) == Notify(t, sleepers)

(***************************************************************************)
(* SyncSender::send                                                        *)
(***************************************************************************)
SendRefused(p) ==
  /\ Holding(p, "send")
  /\ ~receiver
  /\ refused' = refused \cup {Value(p)}
  /\ Return(p)
  /\ UNCHANGED <<state, owner, sends, delivered, recvErr, bounds>>

SendQueued(p) ==
  /\ Holding(p, "send")
  /\ receiver
  /\ Len(queue) < Capacity
  /\ queue' = Append(queue, Value(p))
  /\ ToNotify(p)
  /\ UNCHANGED <<senders, receiver, owner, sends, history, bounds>>

SendBlocks(p) ==
  /\ Holding(p, "send")
  /\ receiver
  /\ ~(Len(queue) < Capacity)
  /\ wait(p)
  /\ UNCHANGED <<state, owner, sends, history, bounds>>

SendNotifies(p) ==
  /\ op[p] = "send" /\ stage[p] = "notify"
  /\ notify_one(p, on_send)

(***************************************************************************)
(* Clone and Drop for SyncSender.  A clone is moved to any producer.       *)
(***************************************************************************)
\* Mutant: a clone is not counted.
CloneUncounted(p) ==
  /\ Holding(p, "clone")
  /\ \E h \in Handles, q \in Producers :
       /\ owner[h] = Unborn
       /\ owner' = [owner EXCEPT ![h] = q]
  /\ Return(p)
  /\ UNCHANGED <<state, sends, history, bounds>>

clone(p) ==
  /\ Holding(p, "clone")
  /\ senders' = senders + 1
  /\ \E h \in Handles, q \in Producers :
       /\ owner[h] = Unborn
       /\ owner' = [owner EXCEPT ![h] = q]
  /\ Return(p)
  /\ UNCHANGED <<queue, receiver, sends, history, bounds>>

\* Mutant: the test for the last sender reads the count before it is lowered.
DropSenderEarlyTest(p) ==
  /\ Holding(p, "drop")
  /\ senders' = senders - 1
  /\ \E h \in Owned(p) : owner' = [owner EXCEPT ![h] = Dropped]
  /\ IF senders = 0 THEN ToNotify(p) ELSE Return(p)
  /\ UNCHANGED <<queue, receiver, sends, history, bounds>>

DropSender(p) ==
  /\ Holding(p, "drop")
  /\ senders' = senders - 1
  /\ \E h \in Owned(p) : owner' = [owner EXCEPT ![h] = Dropped]
  /\ IF senders - 1 = 0 THEN ToNotify(p) ELSE Return(p)
  /\ UNCHANGED <<queue, receiver, sends, history, bounds>>

DropNotifies(p) ==
  /\ op[p] = "drop" /\ stage[p] = "notify"
  /\ notify_all(p, on_send)

(***************************************************************************)
(* Receiver::recv, try_recv and Drop for Receiver                          *)
(***************************************************************************)
\* Mutant: try_recv returns without a notify.
TakeQuietly(o) ==
  /\ Holding(Consumer, o)
  /\ queue # <<>>
  /\ delivered' = Append(delivered, Head(queue))
  /\ queue' = Tail(queue)
  /\ IF o = "try" THEN Return(Consumer) ELSE ToNotify(Consumer)
  /\ UNCHANGED <<senders, receiver, owner, sends, refused, recvErr, bounds>>

Take(o) ==
  /\ Holding(Consumer, o)
  /\ queue # <<>>
  /\ delivered' = Append(delivered, Head(queue))
  /\ queue' = Tail(queue)
  /\ ToNotify(Consumer)
  /\ UNCHANGED <<senders, receiver, owner, sends, refused, recvErr, bounds>>

\* Mutant: recv looks at the senders before it looks at the queue.
RecvDisconnectedFirst ==
  /\ Holding(Consumer, "recv")
  /\ senders = 0
  /\ recvErr' = TRUE
  /\ empties' = empties + 1
  /\ Return(Consumer)
  /\ UNCHANGED <<state, owner, sends, delivered, refused, spurious>>

RecvDisconnected ==
  /\ Holding(Consumer, "recv")
  /\ queue = <<>>
  /\ senders = 0
  /\ recvErr' = TRUE
  /\ empties' = empties + 1
  /\ Return(Consumer)
  /\ UNCHANGED <<state, owner, sends, delivered, refused, spurious>>

RecvBlocks ==
  /\ Holding(Consumer, "recv")
  /\ queue = <<>>
  /\ senders # 0
  /\ wait(Consumer)
  /\ UNCHANGED <<state, owner, sends, history, bounds>>

TryRecvEmpty ==
  /\ Holding(Consumer, "try")
  /\ queue = <<>>
  /\ empties' = empties + 1
  /\ Return(Consumer)
  /\ UNCHANGED <<state, owner, sends, history, spurious>>

TakeNotifies ==
  /\ op[Consumer] \in {"recv", "try"} /\ stage[Consumer] = "notify"
  /\ notify_one(Consumer, on_recv)

DropReceiver ==
  /\ Holding(Consumer, "close")
  /\ receiver' = FALSE
  /\ ToNotify(Consumer)
  /\ UNCHANGED <<queue, senders, owner, sends, history, bounds>>

\* Mutant: only one of the blocked senders is told that the receiver is gone.
CloseNotifiesOne ==
  /\ op[Consumer] = "close" /\ stage[Consumer] = "notify"
  /\ notify_one(Consumer, on_recv)

CloseNotifies ==
  /\ op[Consumer] = "close" /\ stage[Consumer] = "notify"
  /\ notify_all(Consumer, on_recv)

(***************************************************************************)
(* pthread_cond_wait may return although nobody notified.                  *)
(***************************************************************************)
SpuriousWake(t) ==
  /\ stage[t] = "wait"
  /\ spurious < MaxSpurious
  /\ spurious' = spurious + 1
  /\ stage' = [stage EXCEPT ![t] = "lock"]
  /\ UNCHANGED <<mutex, state, op, owner, sends, history, empties>>

ProducerNext(p) ==
  \/ BeginSend(p) \/ BeginClone(p) \/ BeginDrop(p)
  \/ lock(p)
  \/ SendRefused(p) \/ SendQueued(p) \/ SendBlocks(p) \/ SendNotifies(p)
  \/ clone(p)
  \/ DropSender(p) \/ DropNotifies(p)

ConsumerNext ==
  \/ \E o \in ConsumerOps : BeginConsumer(o)
  \/ lock(Consumer)
  \/ Take("recv") \/ Take("try") \/ RecvDisconnected \/ RecvBlocks \/ TryRecvEmpty
  \/ TakeNotifies
  \/ DropReceiver \/ CloseNotifies

\* Both ends are gone and every call has returned: the only way to stop.
Finished ==
  /\ \A t \in Threads : stage[t] = "idle"
  /\ Live = {} /\ ~receiver
  /\ UNCHANGED vars

Next ==
  \/ \E p \in Producers : ProducerNext(p)
  \/ ConsumerNext
  \/ \E t \in Threads : SpuriousWake(t)
  \/ Finished

(***************************************************************************)
(* The scheduler runs every thread that can go on, and the callers do not  *)
(* keep an end of the channel without ever using it again.  Nothing is     *)
(* assumed of spurious wakes, nor of the order in which a mutex is granted *)
(* or a condition variable wakes its sleepers.                             *)
(***************************************************************************)
Safety == Init /\ [][Next]_vars
Fairness == (\A p \in Producers : WF_vars(ProducerNext(p))) /\ WF_vars(ConsumerNext)
Spec == Safety /\ Fairness

-----------------------------------------------------------------------------
(***************************************************************************)
(* Properties                                                              *)
(***************************************************************************)

\* The values of the variables; a thread is in an operation of its own side.
TypeOK ==
  /\ mutex \in Threads \cup {Free}
  /\ queue \in Seq(Producers \X Nat)
  /\ senders \in Nat
  /\ receiver \in BOOLEAN
  /\ op \in [Threads -> ProducerOps \cup ConsumerOps \cup {"none"}]
  /\ stage \in [Threads -> {"idle", "lock", "crit", "wait", "notify"}]
  /\ owner \in [Handles -> Producers \cup {Unborn, Dropped}]
  /\ sends \in [Producers -> Nat]
  /\ delivered \in Seq(Producers \X Nat)
  /\ refused \subseteq Producers \X Nat
  /\ recvErr \in BOOLEAN
  /\ empties \in Nat /\ spurious \in Nat

\* The threads inside send that will look at the queue before they sleep.
Retrying == {p \in Producers : op[p] = "send" /\ stage[p] \in {"lock", "crit"}}

\* A notify of on_recv that a taken value still owes.
Owed == IF op[Consumer] \in {"recv", "try"} /\ stage[Consumer] = "notify" THEN 1 ELSE 0

\* No wakeup of a sender is lost (recv's and try_recv's notify_one after the
\* guard is dropped): while a sender sleeps on on_recv, each free slot of the
\* queue is matched by a thread on its way back to the queue or by the notify
\* still owed; and once the receiver is gone, by its notify_all.
SendersAreWoken ==
  on_recv # {} =>
    IF receiver
      THEN Capacity - Len(queue) <= Cardinality(Retrying) + Owed
      ELSE op[Consumer] = "close" /\ stage[Consumer] = "notify"

\* No wakeup of the receiver is lost (send's notify_one, the last
\* SyncSender's notify_all, both after the guard is dropped): the receiver
\* sleeps on a non-empty queue, or on one with no sender left, only while a
\* producer is about to notify on_send.
ReceiverIsWoken ==
  on_send # {} =>
    /\ queue # <<>> => \E p \in Producers : op[p] = "send" /\ stage[p] = "notify"
    /\ Live = {} => \E p \in Producers : op[p] = "drop" /\ stage[p] = "notify"

\* The values in the order they entered the queue.
Log == delivered \o queue

\* What one producer sends arrives in the order it was sent and at most once,
\* wherever it is: delivered, or queued behind what was delivered.
Fifo ==
  \A i, j \in DOMAIN Log : i < j /\ Log[i][1] = Log[j][1] => Log[i][2] < Log[j][2]

\* Every value whose send is over is in exactly one place: delivered, queued,
\* or handed back in a SendError.
InLog(v) == \E i \in DOMAIN Log : Log[i] = v
Underway(p) == op[p] = "send" /\ stage[p] \in {"lock", "crit", "wait"}
Conservation ==
  \A p \in Producers : \A k \in 1..sends[p] :
    LET v == <<p, k>>
    IN  IF k = sends[p] /\ Underway(p)
          THEN ~InLog(v) /\ v \notin refused
          ELSE InLog(v) <=> v \notin refused

\* recv's RecvError means every sender is gone and nothing was left behind: a
\* producer that sends and then drops its handle loses no message.
RecvErrorMeansDrained ==
  recvErr => /\ Live = {}
             /\ queue = <<>>
             /\ \A p \in Producers : ~Underway(p)
             /\ \A p \in Producers : \A k \in 1..sends[p] :
                  \E i \in DOMAIN delivered : delivered[i] = <<p, k>>

\* What a value's way through the channel comes to: in order, in exactly one
\* place, and none left behind by the RecvError.
Delivery == Fifo /\ Conservation /\ RecvErrorMeansDrained

\* The sender count that disconnects the channel is the number of SyncSender
\* values alive, so it cannot reach zero with one still in use, nor stay above
\* zero once the last is gone; it never wraps below zero.
SendersCountHandles == senders = Cardinality(Live)

\* Every send returns, and every recv returns, whoever is woken first: with a
\* capacity of at least one nobody sleeps for ever while the other side goes on.
EveryCallReturns ==
  /\ \A p \in Producers : (op[p] = "send") ~> (op[p] # "send")
  /\ (op[Consumer] = "recv") ~> (op[Consumer] # "recv")

\* The channel implements the abstract one: an operation is pending until the
\* critical section in which it succeeds, and takes effect there.
pending == [t \in Threads |-> IF stage[t] = "notify" THEN "none" ELSE op[t]]
Abstract == INSTANCE ChannelSpec WITH pending <- pending
ImplementsChannelSpec == Abstract!Spec
=============================================================================
