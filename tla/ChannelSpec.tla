----------------------------- MODULE ChannelSpec -----------------------------
(***************************************************************************)
(* What `channel::sync_channel` promises its callers, with no lock and no  *)
(* condition variable: a bounded FIFO on which every operation takes       *)
(* effect in one step, somewhere between its call and its return.  A       *)
(* `send` takes effect when there is room or when the receiver is gone, a  *)
(* `recv` when there is a value or when no sender is left.  Channel.tla is *)
(* shown to implement this module.                                         *)
(***************************************************************************)
EXTENDS Integers, Sequences, FiniteSets

CONSTANTS Producers,  \* the threads that may own a SyncSender
          Consumer,   \* the thread that owns the Receiver
          Handles,    \* the SyncSenders that can ever exist
          Unborn,     \* a handle that has not been cloned yet
          Dropped,    \* a handle that has been dropped
          Capacity    \* the capacity given to sync_channel

VARIABLES queue,      \* values sent and not yet received, oldest first
          owner,      \* the thread that owns each handle
          receiver,   \* whether the Receiver still exists
          pending,    \* the operation each thread has called and not finished
          sends,      \* how many sends each producer has called
          delivered,  \* the values handed to the consumer, in order
          refused,    \* the values handed back in a SendError
          recvErr     \* whether some recv has answered RecvError

absVars == <<queue, owner, receiver, pending, sends, delivered, refused, recvErr>>

Threads == Producers \cup {Consumer}
Live == {h \in Handles : owner[h] \in Producers}
Owned(p) == {h \in Handles : owner[h] = p}
Value(p) == <<p, sends[p]>>

Init ==
  /\ queue = <<>>
  /\ \E p \in Producers, h \in Handles :
       owner = [k \in Handles |-> IF k = h THEN p ELSE Unborn]
  /\ receiver = TRUE
  /\ pending = [t \in Threads |-> "none"]
  /\ sends = [p \in Producers |-> 0]
  /\ delivered = <<>>
  /\ refused = {}
  /\ recvErr = FALSE

(***************************************************************************)
(* A call.                                                                 *)
(***************************************************************************)
Call(t, o) ==
  /\ pending[t] = "none"
  /\ pending' = [pending EXCEPT ![t] = o]

CallProducer(p) ==
  /\ Owned(p) # {}
  /\ \/ Call(p, "send") /\ sends' = [sends EXCEPT ![p] = @ + 1]
     \/ Call(p, "clone") /\ UNCHANGED sends
     \/ Call(p, "drop") /\ UNCHANGED sends
  /\ UNCHANGED <<queue, owner, receiver, delivered, refused, recvErr>>

CallConsumer ==
  /\ receiver
  /\ \E o \in {"recv", "try", "close"} : Call(Consumer, o)
  /\ UNCHANGED <<queue, owner, receiver, sends, delivered, refused, recvErr>>

(***************************************************************************)
(* The step at which an operation takes effect.                            *)
(***************************************************************************)
Finish(t, o) ==
  /\ pending[t] = o
  /\ pending' = [pending EXCEPT ![t] = "none"]

Send(p) ==
  /\ Finish(p, "send")
  /\ IF receiver
       THEN /\ Len(queue) < Capacity
            /\ queue' = Append(queue, Value(p))
            /\ UNCHANGED refused
       ELSE /\ refused' = refused \cup {Value(p)}
            /\ UNCHANGED queue
  /\ UNCHANGED <<owner, receiver, sends, delivered, recvErr>>

Clone(p) ==
  /\ Finish(p, "clone")
  /\ \E h \in Handles, q \in Producers :
       /\ owner[h] = Unborn
       /\ owner' = [owner EXCEPT ![h] = q]
  /\ UNCHANGED <<queue, receiver, sends, delivered, refused, recvErr>>

DropSender(p) ==
  /\ Finish(p, "drop")
  /\ \E h \in Owned(p) : owner' = [owner EXCEPT ![h] = Dropped]
  /\ UNCHANGED <<queue, receiver, sends, delivered, refused, recvErr>>

Take(o) ==
  /\ Finish(Consumer, o)
  /\ queue # <<>>
  /\ delivered' = Append(delivered, Head(queue))
  /\ queue' = Tail(queue)
  /\ UNCHANGED <<owner, receiver, sends, refused, recvErr>>

Disconnected ==
  /\ Finish(Consumer, "recv")
  /\ queue = <<>>
  /\ Live = {}
  /\ recvErr' = TRUE
  /\ UNCHANGED <<queue, owner, receiver, sends, delivered, refused>>

Nothing ==
  /\ Finish(Consumer, "try")
  /\ queue = <<>>
  /\ UNCHANGED <<queue, owner, receiver, sends, delivered, refused, recvErr>>

DropReceiver ==
  /\ Finish(Consumer, "close")
  /\ receiver' = FALSE
  /\ UNCHANGED <<queue, owner, sends, delivered, refused, recvErr>>

ProducerEffect(p) == Send(p) \/ Clone(p) \/ DropSender(p)
ConsumerEffect == Take("recv") \/ Take("try") \/ Disconnected \/ Nothing \/ DropReceiver

Next ==
  \/ \E p \in Producers : CallProducer(p) \/ ProducerEffect(p)
  \/ CallConsumer
  \/ ConsumerEffect

(***************************************************************************)
(* An operation that can take effect and goes on being able to does: the   *)
(* abstract form of "no wakeup is lost".                                   *)
(***************************************************************************)
Safety == Init /\ [][Next]_absVars
Spec == /\ Safety
        /\ \A p \in Producers : WF_absVars(ProducerEffect(p))
        /\ WF_absVars(ConsumerEffect)
=============================================================================
