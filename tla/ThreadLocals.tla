----------------------------- MODULE ThreadLocals ----------------------------
(***************************************************************************)
(* ThreadLocal, LocalKey and ScopedKey of src/thread.rs: a static that     *)
(* makes its pthread key on first use, whichever thread that is, keeps one *)
(* box per thread under it, and holds in the box a pointer that is         *)
(* installed for the length of a call and put back afterwards.             *)
(*                                                                         *)
(* A pointer is the number of the call that installed it, 0 is null.  A    *)
(* key is a number from 0, a box is its place in the list of the boxes of  *)
(* its thread.                                                             *)
(***************************************************************************)
EXTENDS Integers, Sequences

CONSTANTS Threads,
          KeyLimit,     \* PTHREAD_KEYS_MAX
          ITERATIONS,   \* PTHREAD_DESTRUCTOR_ITERATIONS
          MayFail,      \* whether pthread_setspecific may fail
          MaxCalls      \* bound: calls of set of one thread

ASSUME ThreadLocalsAssumption ==
  /\ KeyLimit \in Nat /\ ITERATIONS \in Nat /\ MaxCalls \in Nat
  /\ MayFail \in BOOLEAN

Keys == 0 .. KeyLimit - 1

VARIABLES key,       \* ThreadLocal::key, the key plus one, 0 before there is one
          live,      \* the keys there are in the process
          others,    \* the ones other code made
          specific,  \* what pthread_getspecific answers, 0 is null
          boxes,     \* what is in each box of each thread
          freed,     \* the boxes that drop_box has freed
          at, op,    \* where each thread is, and in which call
          mine,      \* the key it created, then the one it goes on with
          theirs,    \* what its compare_exchange found
          ref,       \* the box it goes on with
          stack,     \* the Resets of the calls of set it is in, with their values
          calls,     \* calls of set
          rounds,    \* destructors run at its exit
          lost       \* history: threads whose pthread_setspecific failed

vars == <<key, live, others, specific, boxes, freed, at, op, mine, theirs, ref,
          stack, calls, rounds, lost>>
keys == <<key, live, others>>
thread == <<boxes, freed, stack, calls, rounds, lost>>

Init ==
  /\ key = 0
  /\ others \in SUBSET Keys
  /\ live = others
  /\ specific = [k \in Keys |-> [t \in Threads |-> 0]]
  /\ boxes = [t \in Threads |-> <<>>]
  /\ freed = [t \in Threads |-> {}]
  /\ at = [t \in Threads |-> "out"]
  /\ op = [t \in Threads |-> "none"]
  /\ mine = [t \in Threads |-> 0]
  /\ theirs = [t \in Threads |-> 0]
  /\ ref = [t \in Threads |-> 0]
  /\ stack = [t \in Threads |-> <<>>]
  /\ calls = [t \in Threads |-> 0]
  /\ rounds = [t \in Threads |-> 0]
  /\ lost = {}

Go(t, from, to) ==
  /\ at[t] = from
  /\ at' = [at EXCEPT ![t] = to]

(***************************************************************************)
(* Every call begins by finding the key: set with a replace, the Reset it  *)
(* leaves behind with a set, with and is_set with a get.                   *)
(***************************************************************************)
Call(t, o) ==
  /\ Go(t, "out", "load")
  /\ op' = [op EXCEPT ![t] = o]
  /\ UNCHANGED <<keys, specific, mine, theirs, ref, boxes, freed, stack, rounds, lost>>

set(t) ==
  /\ calls[t] < MaxCalls
  /\ calls' = [calls EXCEPT ![t] = @ + 1]
  /\ Call(t, "set")

with(t) == Call(t, "get") /\ UNCHANGED calls

\* f returns from the innermost set: its Reset is dropped.
Return(t) == stack[t] # <<>> /\ Call(t, "reset") /\ UNCHANGED calls

\* Mutant: the restore is a statement after f, which an unwind skips.
UnwindPast(t) ==
  /\ stack[t] # <<>> /\ at[t] = "out"
  /\ stack' = [stack EXCEPT ![t] = SubSeq(@, 1, Len(@) - 1)]
  /\ UNCHANGED <<keys, specific, boxes, freed, at, op, mine, theirs, ref, calls, rounds, lost>>

\* f unwinds: so it is then.
Unwind(t) == stack[t] # <<>> /\ Call(t, "reset") /\ UNCHANGED calls

(***************************************************************************)
(* ThreadLocal::key                                                        *)
(***************************************************************************)
Load(t) ==
  /\ Go(t, "load", IF key # 0 THEN "getspecific" ELSE "create")
  /\ mine' = IF key # 0 THEN [mine EXCEPT ![t] = key - 1] ELSE mine
  /\ UNCHANGED <<keys, specific, op, theirs, ref, thread>>

\* Any key that is free, with a null for every thread.
pthread_key_create(t) ==
  /\ Go(t, "create", "cas")
  /\ \E k \in Keys \ live :
       /\ live' = live \cup {k}
       /\ mine' = [mine EXCEPT ![t] = k]
       /\ specific' = [specific EXCEPT ![k] = [u \in Threads |-> 0]]
  /\ UNCHANGED <<key, others, op, theirs, ref, thread>>

\* There are no keys left: key answers None and LocalKey::with panics.
KeyCreateFails(t) ==
  /\ Keys \subseteq live
  /\ Go(t, "create", "out")
  /\ UNCHANGED <<keys, specific, op, mine, theirs, ref, thread>>

CompareExchange(t) ==
  /\ Go(t, "cas", IF key = 0 THEN "getspecific" ELSE "delete")
  /\ key' = IF key = 0 THEN mine[t] + 1 ELSE key
  /\ theirs' = [theirs EXCEPT ![t] = key]
  /\ UNCHANGED <<live, others, specific, op, mine, ref, thread>>

\* Mutant: the loser goes on with the key it has just deleted.
KeyDeleteUse(t) ==
  /\ Go(t, "delete", "getspecific")
  /\ live' = live \ {mine[t]}
  /\ UNCHANGED <<key, others, specific, op, mine, theirs, ref, thread>>

\* The loser deletes its key and uses the winner's.
KeyDelete(t) ==
  /\ Go(t, "delete", "getspecific")
  /\ live' = live \ {mine[t]}
  /\ mine' = [mine EXCEPT ![t] = theirs[t] - 1]
  /\ UNCHANGED <<key, others, specific, op, theirs, ref, thread>>

(***************************************************************************)
(* ThreadLocal::with: the box of this thread, a new one if there is none.  *)
(***************************************************************************)
GetSpecific(t) ==
  LET found == specific[mine[t]][t] IN
  /\ Go(t, "getspecific", IF found = 0 THEN "init" ELSE "use")
  /\ ref' = [ref EXCEPT ![t] = found]
  /\ UNCHANGED <<keys, specific, op, mine, theirs, thread>>

\* init makes a null pointer.
NewBox(t) ==
  /\ Go(t, "init", "setspecific")
  /\ boxes' = [boxes EXCEPT ![t] = Append(@, 0)]
  /\ ref' = [ref EXCEPT ![t] = Len(boxes[t]) + 1]
  /\ UNCHANGED <<keys, specific, op, mine, theirs, freed, stack, calls, rounds, lost>>

SetSpecific(t) ==
  /\ Go(t, "setspecific", "use")
  /\ specific' = [specific EXCEPT ![mine[t]][t] = ref[t]]
  /\ UNCHANGED <<keys, op, mine, theirs, ref, thread>>

\* Its answer is not looked at: the box is used this once and never found again.
\* Bound: once per thread.
SetSpecificFails(t) ==
  /\ MayFail /\ t \notin lost
  /\ Go(t, "setspecific", "use")
  /\ lost' = lost \cup {t}
  /\ UNCHANGED <<keys, specific, op, mine, theirs, ref, boxes, freed, stack, calls, rounds>>

(***************************************************************************)
(* What the calls do with the box.                                         *)
(***************************************************************************)
Exiting(t) == rounds[t] > 0
Done(t) == IF Exiting(t) THEN "exit" ELSE "out"

\* Cell::replace, and the Reset that remembers the answer.
Install(t) ==
  /\ op[t] = "set"
  /\ Go(t, "use", "out")
  /\ stack' = [stack EXCEPT ![t] = Append(@, [value |-> calls[t], previous |-> boxes[t][ref[t]]])]
  /\ boxes' = [boxes EXCEPT ![t][ref[t]] = calls[t]]
  /\ UNCHANGED <<keys, specific, op, mine, theirs, ref, freed, calls, rounds, lost>>

\* Drop for Reset
Reset(t) ==
  /\ op[t] = "reset"
  /\ Go(t, "use", "out")
  /\ boxes' = [boxes EXCEPT ![t][ref[t]] = stack[t][Len(stack[t])].previous]
  /\ stack' = [stack EXCEPT ![t] = SubSeq(@, 1, Len(@) - 1)]
  /\ UNCHANGED <<keys, specific, op, mine, theirs, ref, freed, calls, rounds, lost>>

Get(t) ==
  /\ op[t] = "get"
  /\ Go(t, "use", Done(t))
  /\ UNCHANGED <<keys, specific, op, mine, theirs, ref, thread>>

(***************************************************************************)
(* The end of a thread: as long as there are boxes, and ITERATIONS times   *)
(* at most, the system takes a box out and calls drop_box.  The drop of    *)
(* the value inside may touch the static again, which makes a new box.     *)
(***************************************************************************)
Boxed(t) == {k \in live : specific[k][t] # 0}

Exit(t) ==
  /\ stack[t] = <<>>
  /\ Go(t, "out", "exit")
  /\ UNCHANGED <<keys, specific, op, mine, theirs, ref, thread>>

\* Mutant: the key was made without a destructor.
drop_nothing(t) ==
  /\ rounds[t] < ITERATIONS
  /\ rounds' = [rounds EXCEPT ![t] = @ + 1]
  /\ \E k \in Boxed(t), again \in BOOLEAN :
       /\ specific' = [specific EXCEPT ![k][t] = 0]
       /\ Go(t, "exit", IF again THEN "load" ELSE "exit")
       /\ op' = [op EXCEPT ![t] = "get"]
  /\ UNCHANGED <<keys, mine, theirs, ref, boxes, freed, stack, calls, lost>>

drop_box(t) ==
  /\ rounds[t] < ITERATIONS
  /\ rounds' = [rounds EXCEPT ![t] = @ + 1]
  /\ \E k \in Boxed(t), again \in BOOLEAN :
       /\ specific' = [specific EXCEPT ![k][t] = 0]
       /\ freed' = [freed EXCEPT ![t] = @ \cup {specific[k][t]}]
       /\ Go(t, "exit", IF again THEN "load" ELSE "exit")
       /\ op' = [op EXCEPT ![t] = "get"]
  /\ UNCHANGED <<keys, mine, theirs, ref, boxes, stack, calls, lost>>

Gone(t) ==
  /\ Boxed(t) = {} \/ rounds[t] = ITERATIONS
  /\ Go(t, "exit", "gone")
  /\ UNCHANGED <<keys, specific, op, mine, theirs, ref, thread>>

-----------------------------------------------------------------------------
Step(t) ==
  \/ set(t) \/ with(t) \/ Return(t) \/ Unwind(t)
  \/ Load(t) \/ pthread_key_create(t) \/ KeyCreateFails(t)
  \/ CompareExchange(t) \/ KeyDelete(t)
  \/ GetSpecific(t) \/ NewBox(t) \/ SetSpecific(t) \/ SetSpecificFails(t)
  \/ Install(t) \/ Reset(t) \/ Get(t)
  \/ Exit(t) \/ drop_box(t) \/ Gone(t)

Ended == (\A t \in Threads : at[t] = "gone") /\ UNCHANGED vars

Next == (\E t \in Threads : Step(t)) \/ Ended

Spec == Init /\ [][Next]_vars

-----------------------------------------------------------------------------
Places == {"out", "load", "create", "cas", "delete", "getspecific", "init",
           "setspecific", "use", "exit", "gone"}

\* However many threads race to the first use, all go on with one key, the one
\* that was published, and it is a key that was not deleted.
OneKey ==
  \A t \in Threads :
    at[t] \in {"getspecific", "init", "setspecific", "use"} =>
      key = mine[t] + 1 /\ mine[t] \in live

\* The key is never changed, so no thread loses sight of its box.
KeyIsForEver == [][key # 0 => key' = key]_vars

\* No key leaks: one in the process is other code's, the published one, or in
\* the hands of a thread that will publish or delete it.
NoKeyLeaks ==
  \A k \in live : \/ k \in others
                  \/ key = k + 1
                  \/ \E t \in Threads : at[t] \in {"cas", "delete"} /\ mine[t] = k

Innermost(t) == IF stack[t] = <<>> THEN 0 ELSE stack[t][Len(stack[t])].value

\* A thread finds in its box what the innermost call of set it is still in has
\* installed, or null outside all of them, whichever calls returned and which
\* unwound: with never hands out a pointer into a frame that is gone, and is_set
\* is true exactly inside a set.
SeesTheInnermost ==
  \A t \in Threads \ lost : at[t] = "use" => boxes[t][ref[t]] = Innermost(t)

\* A box is not used or kept once it was freed, and when the thread is gone
\* all of its boxes are freed, unless one could not be kept or the destructors
\* made new ones to the end.
BoxesAreFreed ==
  \A t \in Threads :
    /\ at[t] = "use" => ref[t] \notin freed[t]
    /\ \A k \in live : specific[k][t] \notin freed[t]
    /\ at[t] = "gone" => \/ freed[t] = 1 .. Len(boxes[t])
                         \/ t \in lost
                         \/ rounds[t] = ITERATIONS

\* The Reset of a set, which may run while unwinding, always finds the key: it
\* cannot panic for want of one.
ResetFindsTheKey ==
  \A t \in Threads : stack[t] # <<>> => key # 0 /\ at[t] \notin {"create", "cas", "delete"}

\* The key that all threads use: one, never leaked, and never to be made again
\* by a thread that has a Reset to run.
KeyIsShared == OneKey /\ NoKeyLeaks /\ ResetFindsTheKey
=============================================================================
