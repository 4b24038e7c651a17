------------------------------- MODULE Threads -------------------------------
(***************************************************************************)
(* The threads of src/thread.rs: spawn_detached, Builder::spawn with       *)
(* JoinHandle::join, and scope with Scope::spawn, over pthread_create and  *)
(* pthread_join.                                                           *)
(*                                                                         *)
(* What crosses to the new thread is a raw pointer to the closure and, for *)
(* a joinable thread, to the slot for its result.  Nobody but the code     *)
(* keeps track of who frees them, or of whether what a scoped closure      *)
(* borrows is still there.  A closure may do anything a thread may do.     *)
(***************************************************************************)
EXTENDS Naturals, Sequences, SequencesExt, FiniteSets

CONSTANTS Main,       \* the thread that is there at the start
          Children,   \* the threads that can be started
          None,       \* no thread
          MayUnwind,  \* whether the closure of a scope may unwind out of it
          MaxMoves    \* bound: handles given to another thread

ASSUME ThreadsAssumption ==
  /\ Main \notin Children
  /\ None \notin Children \cup {Main}
  /\ MayUnwind \in BOOLEAN
  /\ MaxMoves \in Nat

Ids == Children \cup {Main}

VARIABLES at,       \* what each thread is doing
          target,   \* the thread it is starting or joining
          kind,     \* how a child was started
          parent,   \* who started it
          uses,     \* how often its closure was consumed: run, or dropped unrun
          slot,     \* JoinHandle::slot: what is behind the pointer
          holder,   \* who has the JoinHandle
          answer,   \* what join answered
          scoped,   \* "no", "open" or "over": the scope of each thread
          handles,  \* Scope::handles
          loose,    \* history: children no join is going to collect
          moves     \* history: handles moved

vars == <<at, target, kind, parent, uses, slot, holder, answer,
          scoped, handles, loose, moves>>

Init ==
  /\ at = [t \in Ids |-> IF t = Main THEN "run" ELSE "unborn"]
  /\ target = [t \in Ids |-> None]
  /\ kind = [c \in Children |-> "none"]
  /\ parent = [c \in Children |-> None]
  /\ uses = [c \in Children |-> 0]
  /\ slot = [c \in Children |-> "none"]
  /\ holder = [c \in Children |-> None]
  /\ answer = [c \in Children |-> "none"]
  /\ scoped = [t \in Ids |-> "no"]
  /\ handles = [t \in Ids |-> <<>>]
  /\ loose = {}
  /\ moves = 0

Go(t, from, to) ==
  /\ at[t] = from
  /\ at' = [at EXCEPT ![t] = to]

Use(c) == uses' = [uses EXCEPT ![c] = @ + 1]

(***************************************************************************)
(* Starting a thread: box the closure (and the slot) and give up the box,  *)
(* call pthread_create, and keep the id.  The new thread may have come and *)
(* gone before the id is kept.                                             *)
(***************************************************************************)
Box(p, c, k) ==
  /\ kind[c] = "none"
  /\ Go(p, "run", "boxed")
  /\ target' = [target EXCEPT ![p] = c]
  /\ kind' = [kind EXCEPT ![c] = k]
  /\ parent' = [parent EXCEPT ![c] = p]
  /\ UNCHANGED <<uses, holder, answer, scoped, handles, loose, moves>>

spawn_detached(p, c) == Box(p, c, "detached") /\ UNCHANGED slot

\* Builder::spawn and spawn.
spawn(p, c) == Box(p, c, "joinable") /\ slot' = [slot EXCEPT ![c] = "empty"]

\* Scope::spawn, by the thread of the scope: a Scope is not Sync.
ScopeSpawn(p, c) == scoped[p] = "open" /\ Box(p, c, "scoped") /\ UNCHANGED slot

pthread_create(p) ==
  /\ at[p] = "boxed"
  /\ at' = [at EXCEPT ![p] = "created", ![target[p]] = "start"]
  /\ UNCHANGED <<target, kind, parent, uses, slot, holder, answer, scoped, handles, loose, moves>>

\* Mutant: the error path drops neither the closure nor the slot.
SpawnFailsLeaking(p) ==
  /\ Go(p, "boxed", "run")
  /\ target' = [target EXCEPT ![p] = None]
  /\ UNCHANGED <<kind, parent, uses, slot, holder, answer, scoped, handles, loose, moves>>

\* pthread_create fails, or for a detached thread pthread_attr_init: the boxes
\* are still the caller's and are dropped.  Scope::spawn does not say so.
SpawnFails(p) ==
  LET c == target[p] IN
  /\ Go(p, "boxed", "run")
  /\ target' = [target EXCEPT ![p] = None]
  /\ Use(c)
  /\ slot' = [slot EXCEPT ![c] = IF @ = "empty" THEN "freed" ELSE @]
  /\ UNCHANGED <<kind, parent, holder, answer, scoped, handles, loose, moves>>

\* The call has started its thread and returns: with nothing, with the handle,
\* or after keeping the id in the scope.
Spawned(p, k) ==
  /\ Go(p, "created", "run")
  /\ kind[target[p]] = k
  /\ target' = [target EXCEPT ![p] = None]
  /\ UNCHANGED <<kind, parent, uses, slot, answer, scoped, loose, moves>>

DetachedReturns(p) == Spawned(p, "detached") /\ UNCHANGED <<holder, handles>>

SpawnReturns(p) ==
  /\ Spawned(p, "joinable")
  /\ holder' = [holder EXCEPT ![target[p]] = p]
  /\ UNCHANGED handles

\* Mutant: the thread is kept twice.
ScopeSpawnReturnsTwice(p) ==
  /\ Spawned(p, "scoped")
  /\ handles' = [handles EXCEPT ![p] = @ \o <<target[p], target[p]>>]
  /\ UNCHANGED holder

ScopeSpawnReturns(p) ==
  /\ Spawned(p, "scoped")
  /\ handles' = [handles EXCEPT ![p] = Append(@, target[p])]
  /\ UNCHANGED holder

(***************************************************************************)
(* The new thread: take the closure back, run it, leave the result.        *)
(***************************************************************************)
Start(c) ==
  /\ Go(c, "start", "run")
  /\ UNCHANGED <<target, kind, parent, uses, slot, holder, answer, scoped, handles, loose, moves>>

Held(t) == {d \in Children : holder[d] = t}

\* The closure returns and is gone with what it owns: a JoinHandle it had is
\* dropped, which neither joins nor detaches.
Returns(c, k, to) ==
  /\ kind[c] = k /\ scoped[c] # "open"
  /\ Go(c, "run", to)
  /\ Use(c)
  /\ holder' = [d \in Children |-> IF holder[d] = c THEN None ELSE holder[d]]
  /\ loose' = loose \cup Held(c)
  /\ UNCHANGED <<target, kind, parent, slot, answer, scoped, handles, moves>>

\* What is left of a detached thread the system collects.
DetachedRuns(c) == Returns(c, "detached", "gone")
ScopedRuns(c) == Returns(c, "scoped", "exited")
spawn_trampoline(c) == Returns(c, "joinable", "write")

WriteSlot(c) ==
  /\ Go(c, "write", "exited")
  /\ slot' = [slot EXCEPT ![c] = "full"]
  /\ UNCHANGED <<target, kind, parent, uses, holder, answer, scoped, handles, loose, moves>>

(***************************************************************************)
(* pthread_join gives EDEADLK to a thread that joins itself or a thread    *)
(* that is joining it.                                                     *)
(***************************************************************************)
Joining(p) ==
  CASE at[p] = "join" -> target[p]
    [] at[p] = "close" /\ handles[p] # <<>> -> Head(handles[p])
    [] OTHER -> None

EDEADLK(p, c) == p = c \/ Joining(c) = p

(***************************************************************************)
(* The JoinHandle: join takes it, and so does whoever it is moved to.      *)
(***************************************************************************)
Join(p, c) ==
  /\ holder[c] = p
  /\ ~EDEADLK(p, c)
  /\ Go(p, "run", "join")
  /\ target' = [target EXCEPT ![p] = c]
  /\ holder' = [holder EXCEPT ![c] = None]
  /\ UNCHANGED <<kind, parent, uses, slot, answer, scoped, handles, loose, moves>>

\* Mutant: the slot is freed although the thread was not waited for.
JoinFailsFreeing(p, c) ==
  /\ holder[c] = p /\ at[p] = "run"
  /\ EDEADLK(p, c)
  /\ holder' = [holder EXCEPT ![c] = None]
  /\ answer' = [answer EXCEPT ![c] = "error"]
  /\ slot' = [slot EXCEPT ![c] = "freed"]
  /\ loose' = loose \cup {c}
  /\ UNCHANGED <<at, target, kind, parent, uses, scoped, handles, moves>>

\* The slot is left to the thread that is going to write it.
JoinFails(p, c) ==
  /\ holder[c] = p /\ at[p] = "run"
  /\ EDEADLK(p, c)
  /\ holder' = [holder EXCEPT ![c] = None]
  /\ answer' = [answer EXCEPT ![c] = "error"]
  /\ loose' = loose \cup {c}
  /\ UNCHANGED <<at, target, kind, parent, uses, slot, scoped, handles, moves>>

Result(c) == IF slot[c] = "full" THEN "value" ELSE "EINVAL"

\* pthread_join returns when the thread has ended; the slot is read and freed.
JoinReturns(p) ==
  LET c == target[p] IN
  /\ at[p] = "join" /\ at[c] = "exited"
  /\ at' = [at EXCEPT ![p] = "run", ![c] = "gone"]
  /\ target' = [target EXCEPT ![p] = None]
  /\ answer' = [answer EXCEPT ![c] = Result(c)]
  /\ slot' = [slot EXCEPT ![c] = "freed"]
  /\ UNCHANGED <<kind, parent, uses, holder, scoped, handles, loose, moves>>

\* A JoinHandle is Send: it may end up anywhere, in the thread it is about too.
Move(p, q, c) ==
  /\ holder[c] = p /\ p # q
  /\ at[p] = "run" /\ at[q] = "run"
  /\ moves < MaxMoves
  /\ holder' = [holder EXCEPT ![c] = q]
  /\ moves' = moves + 1
  /\ UNCHANGED <<at, target, kind, parent, uses, slot, answer, scoped, handles, loose>>

DropHandle(p, c) ==
  /\ holder[c] = p /\ at[p] = "run"
  /\ holder' = [holder EXCEPT ![c] = None]
  /\ loose' = loose \cup {c}
  /\ UNCHANGED <<at, target, kind, parent, uses, slot, answer, scoped, handles, moves>>

(***************************************************************************)
(* scope: run f, then join what it started, in that order, paying no heed  *)
(* to what pthread_join says.  A thread opens one scope at most.           *)
(***************************************************************************)
OpenScope(p) ==
  /\ scoped[p] = "no" /\ at[p] = "run"
  /\ scoped' = [scoped EXCEPT ![p] = "open"]
  /\ UNCHANGED <<at, target, kind, parent, uses, slot, holder, answer, handles, loose, moves>>

\* f returns.
CloseScope(p) ==
  /\ scoped[p] = "open"
  /\ Go(p, "run", "close")
  /\ UNCHANGED <<target, kind, parent, uses, slot, holder, answer, scoped, handles, loose, moves>>

ScopeJoins(p) ==
  LET c == Head(handles[p]) IN
  /\ at[p] = "close" /\ handles[p] # <<>>
  /\ at[c] = "exited"
  /\ at' = [at EXCEPT ![c] = "gone"]
  /\ handles' = [handles EXCEPT ![p] = Tail(@)]
  /\ UNCHANGED <<target, kind, parent, uses, slot, holder, answer, scoped, loose, moves>>

\* The thread is itself waiting for p to end, so pthread_join refuses to wait.
ScopeJoinFails(p) ==
  LET c == Head(handles[p]) IN
  /\ at[p] = "close" /\ handles[p] # <<>>
  /\ Joining(c) = p
  /\ loose' = loose \cup {c}
  /\ handles' = [handles EXCEPT ![p] = Tail(@)]
  /\ UNCHANGED <<at, target, kind, parent, uses, slot, holder, answer, scoped, moves>>

\* Mutant: scope returns without waiting for the last thread.
ScopeReturnsEarly(p) ==
  /\ Len(handles[p]) <= 1
  /\ Go(p, "close", "run")
  /\ scoped' = [scoped EXCEPT ![p] = "over"]
  /\ UNCHANGED <<target, kind, parent, uses, slot, holder, answer, handles, loose, moves>>

ScopeReturns(p) ==
  /\ handles[p] = <<>>
  /\ Go(p, "close", "run")
  /\ scoped' = [scoped EXCEPT ![p] = "over"]
  /\ UNCHANGED <<target, kind, parent, uses, slot, holder, answer, handles, loose, moves>>

\* f unwinds and is caught further up: nothing in scope joins on the way out.
UnwindScope(p) ==
  /\ MayUnwind
  /\ scoped[p] = "open" /\ at[p] = "run"
  /\ scoped' = [scoped EXCEPT ![p] = "over"]
  /\ loose' = loose \cup ToSet(handles[p])
  /\ handles' = [handles EXCEPT ![p] = <<>>]
  /\ UNCHANGED <<at, target, kind, parent, uses, slot, holder, answer, moves>>

-----------------------------------------------------------------------------
Step(t) ==
  \/ \E c \in Children : spawn_detached(t, c) \/ spawn(t, c) \/ ScopeSpawn(t, c)
  \/ pthread_create(t) \/ SpawnFails(t)
  \/ DetachedReturns(t) \/ SpawnReturns(t) \/ ScopeSpawnReturns(t)
  \/ \E c \in Children : Join(t, c) \/ JoinFails(t, c) \/ DropHandle(t, c)
  \/ \E c \in Children, q \in Ids : Move(t, q, c)
  \/ JoinReturns(t)
  \/ OpenScope(t) \/ CloseScope(t) \/ ScopeJoins(t) \/ ScopeJoinFails(t)
  \/ ScopeReturns(t) \/ UnwindScope(t)

ChildStep(c) ==
  Start(c) \/ DetachedRuns(c) \/ ScopedRuns(c) \/ spawn_trampoline(c) \/ WriteSlot(c)

Next == (\E t \in Ids : Step(t)) \/ (\E c \in Children : ChildStep(c))

\* The scheduler runs every thread, and every closure returns in the end.
Safety == Init /\ [][Next]_vars
Spec ==
  /\ Safety
  /\ WF_vars(Step(Main))
  /\ \A c \in Children : WF_vars(Step(c) \/ ChildStep(c))

-----------------------------------------------------------------------------
Alive(c) == at[c] \notin {"unborn", "exited", "gone"}
Waits(p) == at[p] \in {"join", "close"}

\* The closure of every thread is consumed exactly once, by the thread or by
\* the error path of the call that could not start it: never leaked, never
\* freed by both.
ClosureIsUsedOnce ==
  \A c \in Children :
    /\ uses[c] <= 1
    /\ uses[c] = 0 <=> \/ kind[c] = "none"
                       \/ Alive(c) /\ at[c] # "write"
                       \/ at[parent[c]] = "boxed" /\ target[parent[c]] = c

\* The slot is there, and still empty, until its thread has written it,
\* whoever has the JoinHandle by then and whatever they did with it.  It is
\* freed by the join that answers with what the thread left, or by the call
\* that could not start one; a join that was refused leaves it alone.
SlotOutlivesTheThread ==
  \A c \in Children :
    /\ kind[c] = "joinable" /\ Alive(c) => slot[c] = "empty"
    /\ slot[c] = "freed" => answer[c] = "value" \/ at[c] = "unborn"
    /\ answer[c] = "value" => at[c] = "gone"
    /\ answer[c] # "EINVAL"

\* A thread that could be joined always has someone who is going to: a holder
\* of its handle, its scope, a join in progress, the call that starts it; or
\* it was given up: a dropped handle, a refused join, a scope unwound.
SomeoneCollects ==
  \A c \in Children :
    kind[c] \in {"joinable", "scoped"} /\ at[c] \notin {"unborn", "gone"} =>
      \/ holder[c] # None
      \/ c \in ToSet(handles[parent[c]])
      \/ \E p \in Ids : at[p] \in {"join", "created"} /\ target[p] = c
      \/ c \in loose

\* What a scoped thread borrows is there while it runs: the scope that started
\* it is still open, unless f unwound or the join was refused.
BorrowsAreLive ==
  \A c \in Children : kind[c] = "scoped" /\ Alive(c) => scoped[parent[c]] = "open" \/ c \in loose

\* A scope or a holder of the handle stands behind every thread, up to its end.
NobodyIsLeftBehind == SomeoneCollects /\ BorrowsAreLive

\* Threads that wait for each other in a circle.
Circle == \E S \in SUBSET Ids : S # {} /\ \A p \in S : Joining(p) \in S

\* Every join and every scope returns, unless threads wait in a circle that
\* pthread_join does not see.
EveryWaitEnds == \A p \in Ids : Waits(p) ~> (~Waits(p) \/ Circle)
=============================================================================
