---------------------------- MODULE ThreadsProofs ----------------------------
(***************************************************************************)
(* Proofs about Threads, for any set of threads, any way they start, join, *)
(* move and drop each other's handles, and scopes that may unwind.         *)
(***************************************************************************)
EXTENDS Threads, TLAPS

Places == {"unborn", "start", "run", "boxed", "created", "join", "close", "write", "exited", "gone"}

Typed ==
  /\ at \in [Ids -> Places]
  /\ target \in [Ids -> Children \cup {None}]
  /\ kind \in [Children -> {"none", "detached", "joinable", "scoped"}]
  /\ parent \in [Children -> Ids \cup {None}]
  /\ uses \in [Children -> Nat]
  /\ slot \in [Children -> {"none", "empty", "full", "freed"}]
  /\ holder \in [Children -> Ids \cup {None}]
  /\ answer \in [Children -> {"none", "error", "value", "EINVAL"}]
  /\ scoped \in [Ids -> {"no", "open", "over"}]
  /\ handles \in [Ids -> Seq(Children)]
  /\ loose \subseteq Children
  /\ moves \in Nat

-----------------------------------------------------------------------------
\* What a thread is about to start has been boxed and nothing else was done to
\* it; what it has started or joins nobody else starts or joins, and nobody has
\* its handle.
Busy == {"created", "join"}

Aim(p) ==
  /\ at[p] \in {"boxed", "created", "join"} => target[p] \in Children
  /\ at[p] \in {"boxed", "created"} => kind[target[p]] # "none" /\ parent[target[p]] = p
  /\ at[p] = "boxed" =>
       /\ at[target[p]] = "unborn" /\ uses[target[p]] = 0
       /\ kind[target[p]] = "joinable" => slot[target[p]] = "empty"
       /\ kind[target[p]] = "scoped" => scoped[p] = "open"
  /\ at[p] = "created" => at[target[p]] # "unborn"
  /\ at[p] = "join" => kind[target[p]] = "joinable"
  /\ at[p] \in Busy /\ kind[target[p]] = "joinable" =>
       /\ at[target[p]] \notin {"unborn", "gone"}
       /\ holder[target[p]] = None /\ answer[target[p]] = "none"

Apart == \A p, q \in Ids : at[p] \in Busy /\ at[q] \in Busy /\ target[p] = target[q] => p = q

TargetInv == (\A p \in Ids : Aim(p)) /\ Apart

\* The slot of a joinable thread goes with the thread, and its handle is with
\* one holder at most, who has not joined it.
Child(c) ==
  /\ kind[c] = "none" => at[c] = "unborn" /\ uses[c] = 0 /\ slot[c] = "none" /\ holder[c] = None
  /\ kind[c] # "none" => parent[c] \in Ids
  /\ at[c] = "unborn" => answer[c] = "none"
  /\ at[c] = "write" => kind[c] = "joinable"
  /\ holder[c] # None => kind[c] = "joinable" /\ at[c] \notin {"unborn", "gone"} /\ answer[c] = "none"
  /\ kind[c] # "joinable" => slot[c] = "none" /\ answer[c] = "none"
  /\ kind[c] = "joinable" =>
       /\ Alive(c) => slot[c] = "empty"
       /\ at[c] = "exited" => slot[c] = "full"
       /\ at[c] = "gone" => slot[c] = "freed" /\ answer[c] = "value"
       /\ slot[c] = "freed" => at[c] \in {"unborn", "gone"}
  /\ answer[c] \in {"none", "error", "value"} /\ (answer[c] = "value" => at[c] = "gone")

ChildInv == \A c \in Children : Child(c)

\* A scope keeps the threads that it started.
KeptInv == \A p \in Ids : \A c \in ToSet(handles[p]) : c \in Children /\ kind[c] = "scoped" /\ parent[c] = p

Base == Typed /\ TargetInv /\ ChildInv /\ KeptInv

-----------------------------------------------------------------------------
\* Keeping one more thread: Scope::spawn pushes the id.
LEMMA KeepOne ==
  ASSUME NEW S, NEW s \in Seq(S), NEW e \in S
  PROVE  Append(s, e) \in Seq(S) /\ ToSet(Append(s, e)) = ToSet(s) \cup {e}
<1> DEFINE r == Append(s, e)
<1>1. /\ r \in Seq(S) /\ Len(r) = Len(s) + 1 /\ Len(s) \in Nat
      /\ \A i \in 1 .. Len(s) : r[i] = s[i]
      /\ r[Len(s) + 1] = e
  OBVIOUS
<1>2. DOMAIN s = 1 .. Len(s) /\ DOMAIN r = 1 .. Len(s) + 1
  BY <1>1
<1> HIDE DEF r
<1>3. ASSUME NEW x \in ToSet(r) PROVE x \in ToSet(s) \cup {e}
  <2>1. PICK i \in 1 .. Len(s) + 1 : r[i] = x
    BY <1>2 DEF ToSet
  <2>2. i \in 1 .. Len(s) \/ i = Len(s) + 1
    BY <1>1
  <2> QED
    BY <1>1, <1>2, <2>1, <2>2 DEF ToSet
<1>4. e \in ToSet(r)
  <2>1. Len(s) + 1 \in 1 .. Len(s) + 1
    BY <1>1
  <2> QED
    BY <1>1, <1>2, <2>1 DEF ToSet
<1>5. ASSUME NEW x \in ToSet(s) PROVE x \in ToSet(r)
  <2>1. PICK i \in 1 .. Len(s) : s[i] = x
    BY <1>2 DEF ToSet
  <2>2. i \in 1 .. Len(s) + 1
    BY <1>1
  <2> QED
    BY <1>1, <1>2, <2>1, <2>2 DEF ToSet
<1> QED
  BY <1>1, <1>3, <1>4, <1>5 DEF r

\* The first goes; what is kept is the rest.
LEMMA LetOneGo ==
  ASSUME NEW S, NEW s \in Seq(S), s # <<>>
  PROVE  /\ Head(s) \in S /\ Head(s) \in ToSet(s) /\ Tail(s) \in Seq(S)
         /\ ToSet(Tail(s)) \subseteq ToSet(s) /\ ToSet(s) \subseteq ToSet(Tail(s)) \cup {Head(s)}
<1>1. /\ Len(s) \in Nat /\ Len(s) > 0 /\ Head(s) = s[1] /\ Tail(s) \in Seq(S)
      /\ Len(Tail(s)) = Len(s) - 1
      /\ \A i \in 1 .. Len(s) - 1 : Tail(s)[i] = s[i + 1]
  OBVIOUS
<1>2. DOMAIN s = 1 .. Len(s) /\ DOMAIN Tail(s) = 1 .. Len(s) - 1
  BY <1>1
<1>3. Head(s) \in ToSet(s) /\ Head(s) \in S
  BY <1>1, <1>2 DEF ToSet
<1>4. ToSet(Tail(s)) \subseteq ToSet(s)
  BY <1>1, <1>2 DEF ToSet
<1>5. ASSUME NEW i \in 1 .. Len(s) PROVE s[i] \in ToSet(Tail(s)) \cup {Head(s)}
  <2>1. CASE i = 1
    BY <1>1, <2>1
  <2>2. CASE i # 1
    <3>1. i - 1 \in 1 .. Len(s) - 1 /\ Tail(s)[i - 1] = s[i]
      BY <1>1, <2>2
    <3> QED
      BY <1>2, <3>1 DEF ToSet
  <2> QED
    BY <2>1, <2>2
<1> QED
  BY <1>1, <1>2, <1>3, <1>4, <1>5 DEF ToSet

\* Nobody starts or joins anything at first.
LEMMA InitBase == Init => Base
BY ThreadsAssumption DEF Init, Base, Typed, TargetInv, Aim, Apart, ChildInv, Child, KeptInv, Ids, Places, Alive, Busy, ToSet

\* Every step keeps it: what a thread is starting or joining is its own, so a
\* step of another leaves that alone.
LEMMA NextBase == Base /\ [Next]_vars => Base'
<1> SUFFICES ASSUME Base, [Next]_vars PROVE Base'
  OBVIOUS
<1> USE ThreadsAssumption DEF Base, Typed, TargetInv, Aim, Apart, ChildInv, Child, KeptInv, Ids, Places, Alive, Busy
<1>1. ASSUME NEW p \in Ids, NEW c \in Children, spawn_detached(p, c) PROVE Base'
  BY <1>1 DEF spawn_detached, Box, Go
<1>2. ASSUME NEW p \in Ids, NEW c \in Children, spawn(p, c) PROVE Base'
  BY <1>2 DEF spawn, Box, Go
<1>3. ASSUME NEW p \in Ids, NEW c \in Children, ScopeSpawn(p, c) PROVE Base'
  BY <1>3 DEF ScopeSpawn, Box, Go
<1>4. ASSUME NEW p \in Ids, pthread_create(p) PROVE Base'
  <2>1. PICK c \in Children : c = target[p] /\ at[p] = "boxed" /\ at[c] = "unborn" /\ c # p
    BY <1>4 DEF pthread_create
  <2>2. \A u \in Ids : at'[u] = IF u = p THEN "created" ELSE IF u = c THEN "start" ELSE at[u]
    BY <1>4, <2>1 DEF pthread_create
  <2>3. UNCHANGED <<target, kind, parent, uses, slot, holder, answer, scoped, handles, loose, moves>>
    BY <1>4 DEF pthread_create
  <2>4. Typed' /\ KeptInv'
    <3>1. at' \in [Ids -> Places]
      BY <1>4, <2>1 DEF pthread_create
    <3> QED
      BY <2>3, <3>1
  <2>5. Aim(p) /\ Child(c)
    OBVIOUS
  <2>k. \A e \in Children : e \in Ids
    OBVIOUS
  <2> HIDE DEF TargetInv, ChildInv, KeptInv, Base, Typed, Ids
  <2>6. ASSUME NEW q \in Ids PROVE Aim(q)'
    <3>1. Aim(q)
      BY DEF Base, TargetInv
    <3>2. CASE q = p
      BY <2>1, <2>2, <2>3, <2>5, <2>k, <3>2
    <3>3. CASE q # p
      BY <2>1, <2>2, <2>3, <2>5, <2>k, <3>1, <3>3
    <3> QED
      BY <3>2, <3>3
  <2>7. Apart'
    <3> SUFFICES ASSUME NEW q \in Ids, NEW r \in Ids, at'[q] \in Busy, at'[r] \in Busy,
                        target'[q] = target'[r]
                 PROVE  q = r
      OBVIOUS
    <3>1. Aim(q) /\ Aim(r) /\ (at[q] \in Busy /\ at[r] \in Busy /\ target[q] = target[r] => q = r)
      BY DEF Base, TargetInv
    <3> QED
      BY <2>1, <2>2, <2>3, <2>5, <2>k, <3>1
  <2>8. ASSUME NEW d \in Children PROVE Child(d)'
    <3>1. Child(d)
      BY DEF Base, ChildInv
    <3> QED
      BY <2>1, <2>2, <2>3, <2>5, <2>k, <3>1
  <2> QED
    BY <2>4, <2>6, <2>7, <2>8 DEF Base, TargetInv, ChildInv
<1>5. ASSUME NEW p \in Ids, SpawnFails(p) PROVE Base'
  BY <1>5 DEF SpawnFails, Go, Use
<1>6. ASSUME NEW p \in Ids, DetachedReturns(p) PROVE Base'
  BY <1>6 DEF DetachedReturns, Spawned, Go
<1>7. ASSUME NEW p \in Ids, SpawnReturns(p) PROVE Base'
  BY <1>7 DEF SpawnReturns, Spawned, Go
<1>8. ASSUME NEW p \in Ids, ScopeSpawnReturns(p) PROVE Base'
  BY <1>8, KeepOne DEF ScopeSpawnReturns, Spawned, Go
<1>9. ASSUME NEW p \in Ids, NEW c \in Children, Join(p, c) PROVE Base'
  BY <1>9 DEF Join, Go
<1>10. ASSUME NEW p \in Ids, NEW c \in Children, JoinFails(p, c) \/ DropHandle(p, c) PROVE Base'
  <2>1. /\ holder[c] = p /\ holder' = [holder EXCEPT ![c] = None]
        /\ answer' = answer \/ answer' = [answer EXCEPT ![c] = "error"]
        /\ loose' = loose \cup {c}
        /\ UNCHANGED <<at, target, kind, parent, uses, slot, scoped, handles, moves>>
    BY <1>10 DEF JoinFails, DropHandle
  <2>2. Typed' /\ KeptInv'
    BY <2>1
  <2>3. holder[c] # None /\ \A d \in Children \ {c} : answer'[d] = answer[d] /\ holder'[d] = holder[d]
    BY <2>1
  <2>4. \A q \in Ids : at[q] \in Busy => target[q] # c
    BY <2>3
  <2>5. TargetInv'
    BY <2>1, <2>3, <2>4
  <2>6. ChildInv'
    BY <2>1, <2>3
  <2> QED
    BY <2>2, <2>5, <2>6
<1>11. ASSUME NEW p \in Ids, NEW q \in Ids, NEW c \in Children, Move(p, q, c) PROVE Base'
  <2>1. /\ holder[c] = p /\ holder' = [holder EXCEPT ![c] = q] /\ moves' = moves + 1
        /\ UNCHANGED <<at, target, kind, parent, uses, slot, answer, scoped, handles, loose>>
    BY <1>11 DEF Move
  <2>2. Typed' /\ KeptInv'
    BY <2>1
  <2>3. holder[c] # None /\ \A d \in Children \ {c} : holder'[d] = holder[d]
    BY <2>1
  <2>4. \A r \in Ids : at[r] \in Busy => target[r] # c
    BY <2>3
  <2>5. TargetInv'
    BY <2>1, <2>3, <2>4
  <2>6. ChildInv'
    BY <2>1, <2>3
  <2> QED
    BY <2>2, <2>5, <2>6
<1>12. ASSUME NEW p \in Ids, JoinReturns(p) PROVE Base'
  <2>1. PICK c \in Children : /\ c = target[p] /\ at[p] = "join" /\ at[c] = "exited"
                             /\ kind[c] = "joinable" /\ slot[c] = "full" /\ c # p /\ holder[c] = None
    BY <1>12 DEF JoinReturns
  <2>2. \A u \in Ids : at'[u] = IF u = p THEN "run" ELSE IF u = c THEN "gone" ELSE at[u]
    BY <1>12, <2>1 DEF JoinReturns
  <2>3. /\ target' = [target EXCEPT ![p] = None]
        /\ answer' = [answer EXCEPT ![c] = "value"]
        /\ slot' = [slot EXCEPT ![c] = "freed"]
        /\ UNCHANGED <<kind, parent, uses, holder, scoped, handles, loose, moves>>
    BY <1>12, <2>1 DEF JoinReturns, Result
  <2>4. Typed' /\ KeptInv'
    <3>1. at' \in [Ids -> Places]
      BY <1>12, <2>1 DEF JoinReturns
    <3> HIDE DEF TargetInv, ChildInv
    <3>2. target' \in [Ids -> Children \cup {None}]
      BY <2>3
    <3>3. /\ answer' \in [Children -> {"none", "error", "value", "EINVAL"}]
          /\ slot' \in [Children -> {"none", "empty", "full", "freed"}]
      BY <2>3
    <3>4. KeptInv'
      BY <2>3
    <3> QED
      BY <2>3, <3>1, <3>2, <3>3, <3>4
  <2>5. Aim(p) /\ Child(c)
    BY <2>1
  <2>k. /\ \A e \in Children : e \in Ids
        /\ \A e \in Children : answer'[e] = IF e = c THEN "value" ELSE answer[e]
        /\ \A e \in Children : slot'[e] = IF e = c THEN "freed" ELSE slot[e]
        /\ UNCHANGED <<kind, parent, uses, holder>>
    <3> HIDE DEF TargetInv, ChildInv, KeptInv
    <3>1. \A e \in Children : e \in Ids
      OBVIOUS
    <3>2. \A e \in Children : answer'[e] = IF e = c THEN "value" ELSE answer[e]
      BY <2>3
    <3>3. \A e \in Children : slot'[e] = IF e = c THEN "freed" ELSE slot[e]
      BY <2>3
    <3> QED
      BY <2>3, <3>1, <3>2, <3>3
  <2> HIDE DEF TargetInv, ChildInv, KeptInv, Base, Typed, Ids
  <2>6. ASSUME NEW q \in Ids PROVE Aim(q)'
    <3>1. Aim(q) /\ (at[q] \in Busy /\ target[q] = target[p] => q = p)
      BY <2>1 DEF Base, TargetInv
    <3>2. CASE q = p
      BY <2>1, <2>2, <2>3, <2>5, <2>k, <3>2
    <3>3. CASE q # p
      BY <2>1, <2>2, <2>3, <2>5, <2>k, <3>1, <3>3
    <3> QED
      BY <3>2, <3>3
  <2>7. Apart'
    <3> SUFFICES ASSUME NEW q \in Ids, NEW r \in Ids, at'[q] \in Busy, at'[r] \in Busy,
                        target'[q] = target'[r]
                 PROVE  q = r
      OBVIOUS
    <3>1. at[q] \in Busy /\ at[r] \in Busy /\ target[q] = target[r] => q = r
      BY DEF Base, TargetInv
    <3> QED
      BY <2>1, <2>2, <2>3, <2>5, <3>1
  <2>8. ASSUME NEW d \in Children PROVE Child(d)'
    <3>1. Child(d)
      BY DEF Base, ChildInv
    <3>2. CASE d = c
      BY <2>1, <2>2, <2>5, <2>k, <3>2
    <3>3. CASE d = p
      BY <2>1, <2>2, <2>5, <2>k, <3>1, <3>3
    <3>4. CASE d # c /\ d # p
      <4>1. /\ at'[d] = at[d] /\ kind'[d] = kind[d] /\ parent'[d] = parent[d] /\ uses'[d] = uses[d]
            /\ slot'[d] = slot[d] /\ holder'[d] = holder[d] /\ answer'[d] = answer[d]
        BY <2>2, <2>k, <3>4
      <4> QED
        BY <3>1, <4>1
    <3> QED
      BY <3>2, <3>3, <3>4
  <2> QED
    BY <2>4, <2>6, <2>7, <2>8 DEF Base, TargetInv, ChildInv
<1>13. ASSUME NEW p \in Ids, OpenScope(p) PROVE Base'
  BY <1>13 DEF OpenScope
<1>14. ASSUME NEW p \in Ids, CloseScope(p) PROVE Base'
  BY <1>14 DEF CloseScope, Go
<1>15. ASSUME NEW p \in Ids, ScopeJoins(p) PROVE Base'
  BY SMTT(30), <1>15, LetOneGo DEF ScopeJoins
<1>16. ASSUME NEW p \in Ids, ScopeJoinFails(p) PROVE Base'
  BY <1>16, LetOneGo DEF ScopeJoinFails
<1>17. ASSUME NEW p \in Ids, ScopeReturns(p) PROVE Base'
  BY <1>17 DEF ScopeReturns, Go
<1>18. ASSUME NEW p \in Ids, UnwindScope(p) PROVE Base'
  BY <1>18 DEF UnwindScope, ToSet
<1>19. ASSUME NEW c \in Children, Start(c) PROVE Base'
  BY <1>19 DEF Start, Go
<1>20. ASSUME NEW c \in Children, DetachedRuns(c) \/ ScopedRuns(c) \/ spawn_trampoline(c) PROVE Base'
  <2>1. /\ at[c] = "run" /\ uses' = [uses EXCEPT ![c] = @ + 1]
        /\ holder' = [d \in Children |-> IF holder[d] = c THEN None ELSE holder[d]]
        /\ loose' = loose \cup {d \in Children : holder[d] = c}
        /\ UNCHANGED <<target, kind, parent, slot, answer, scoped, handles, moves>>
    BY <1>20 DEF DetachedRuns, ScopedRuns, spawn_trampoline, Returns, Go, Use, Held
  <2>2. PICK to \in {"gone", "exited", "write"} :
          /\ at' = [at EXCEPT ![c] = to]
          /\ to = "write" <=> kind[c] = "joinable"
    BY <1>20 DEF DetachedRuns, ScopedRuns, spawn_trampoline, Returns, Go
  <2>3. Typed' /\ KeptInv'
    BY <2>1, <2>2
  <2>4. /\ \A u \in Ids : at'[u] = IF u = c THEN to ELSE at[u]
        /\ \A d \in Children : /\ uses'[d] = IF d = c THEN uses[d] + 1 ELSE uses[d]
                               /\ holder'[d] = IF holder[d] = c THEN None ELSE holder[d]
    BY <2>1, <2>2
  <2>5. TargetInv'
    BY <2>1, <2>2, <2>4
  <2>6. ChildInv'
    BY <2>1, <2>2, <2>4
  <2> QED
    BY <2>3, <2>5, <2>6
<1>21. ASSUME NEW c \in Children, WriteSlot(c) PROVE Base'
  BY <1>21 DEF WriteSlot, Go
<1>22. CASE UNCHANGED vars
  BY <1>22 DEF vars
<1> QED
  BY <1>1, <1>2, <1>3, <1>4, <1>5, <1>6, <1>7, <1>8, <1>9, <1>10, <1>11, <1>12, <1>13, <1>14, <1>15,
     <1>16, <1>17, <1>18, <1>19, <1>20, <1>21, <1>22 DEF Next, Step, ChildStep

\* Base holds throughout.
LEMMA BaseHolds == Safety => []Base
BY InitBase, NextBase, PTL DEF Safety

-----------------------------------------------------------------------------
\* The slot of a joinable thread is there and empty until the thread writes it,
\* and join answers with what it left: Builder::spawn, JoinHandle::join and
\* spawn_trampoline, whoever has the handle and whatever became of it.
THEOREM SlotTheorem == Safety => []SlotOutlivesTheThread
<1>1. Base => SlotOutlivesTheThread
  BY DEF Base, Typed, ChildInv, Child, SlotOutlivesTheThread, Alive
<1> QED
  BY <1>1, BaseHolds, PTL

-----------------------------------------------------------------------------
\* A closure that was not consumed is in a box nobody has taken back, or runs.
UsedOnce(c) ==
  /\ uses[c] <= 1
  /\ uses[c] = 0 <=> \/ kind[c] = "none"
                     \/ Alive(c) /\ at[c] # "write"
                     \/ at[parent[c]] = "boxed" /\ target[parent[c]] = c

\* No step takes a closure that was consumed, or loses one that was not.
LEMMA NextUses == ClosureIsUsedOnce /\ Base /\ [Next]_vars => ClosureIsUsedOnce'
<1> SUFFICES ASSUME ClosureIsUsedOnce, Base, [Next]_vars, NEW d \in Children PROVE UsedOnce(d)'
  BY DEF ClosureIsUsedOnce, UsedOnce
<1>1. UsedOnce(d)
  BY DEF ClosureIsUsedOnce, UsedOnce
<1>2. Typed /\ Child(d) /\ \A p \in Ids : Aim(p)
  BY DEF Base, TargetInv, ChildInv
<1> HIDE DEF Base, ClosureIsUsedOnce
<1> USE ThreadsAssumption, <1>1, <1>2 DEF UsedOnce, Typed, Child, Aim, Ids, Places, Alive, Busy
<1>3. ASSUME NEW p \in Ids, NEW c \in Children, spawn_detached(p, c) \/ spawn(p, c) \/ ScopeSpawn(p, c)
      PROVE  UsedOnce(d)'
  <2>1. /\ at[p] = "run" /\ at' = [at EXCEPT ![p] = "boxed"] /\ kind[c] = "none"
        /\ target' = [target EXCEPT ![p] = c] /\ parent' = [parent EXCEPT ![c] = p]
        /\ uses' = uses
    BY <1>3 DEF spawn_detached, spawn, ScopeSpawn, Box, Go
  <2>2. kind'[c] # "none" /\ \A e \in Children : e # c => kind'[e] = kind[e]
    BY <1>3 DEF spawn_detached, spawn, ScopeSpawn, Box
  <2>3. CASE d = c
    BY <2>1, <2>2, <2>3
  <2>4. CASE d # c
    <3>1. parent'[d] = parent[d] /\ kind'[d] = kind[d] /\ uses'[d] = uses[d] /\ Alive(d)' = Alive(d)
          /\ (at'[d] = "write" <=> at[d] = "write")
      BY <2>1, <2>2, <2>4
    <3>2. kind[d] # "none" => ((at'[parent[d]] = "boxed" /\ target'[parent[d]] = d)
                               <=> (at[parent[d]] = "boxed" /\ target[parent[d]] = d))
      BY <2>1, <2>4
    <3> QED
      BY <3>1, <3>2
  <2> QED
    BY <2>3, <2>4
<1>4. ASSUME NEW p \in Ids, pthread_create(p) PROVE UsedOnce(d)'
  BY <1>4 DEF pthread_create
<1>5. ASSUME NEW p \in Ids, SpawnFails(p) PROVE UsedOnce(d)'
  BY <1>5 DEF SpawnFails, Go, Use
<1>6. ASSUME NEW p \in Ids, DetachedReturns(p) \/ SpawnReturns(p) \/ ScopeSpawnReturns(p) PROVE UsedOnce(d)'
  BY <1>6 DEF DetachedReturns, SpawnReturns, ScopeSpawnReturns, Spawned, Go
<1>7. ASSUME NEW p \in Ids, NEW c \in Children, Join(p, c) PROVE UsedOnce(d)'
  BY <1>7 DEF Join, Go
<1>8. ASSUME NEW p \in Ids, NEW c \in Children, NEW q \in Ids,
             JoinFails(p, c) \/ DropHandle(p, c) \/ Move(p, q, c)
      PROVE  UsedOnce(d)'
  BY <1>8 DEF JoinFails, DropHandle, Move
<1>9. ASSUME NEW p \in Ids, JoinReturns(p) PROVE UsedOnce(d)'
  BY <1>9 DEF JoinReturns
<1>10. ASSUME NEW p \in Ids, OpenScope(p) \/ UnwindScope(p) \/ ScopeJoinFails(p) PROVE UsedOnce(d)'
  BY <1>10 DEF OpenScope, UnwindScope, ScopeJoinFails
<1>11. ASSUME NEW p \in Ids, CloseScope(p) \/ ScopeReturns(p) PROVE UsedOnce(d)'
  BY <1>11 DEF CloseScope, ScopeReturns, Go
<1>12. ASSUME NEW p \in Ids, ScopeJoins(p) PROVE UsedOnce(d)'
  BY <1>12 DEF ScopeJoins
<1>13. ASSUME NEW c \in Children, Start(c) \/ WriteSlot(c) PROVE UsedOnce(d)'
  BY <1>13 DEF Start, WriteSlot, Go
<1>14. ASSUME NEW c \in Children, DetachedRuns(c) \/ ScopedRuns(c) \/ spawn_trampoline(c) PROVE UsedOnce(d)'
  BY <1>14 DEF DetachedRuns, ScopedRuns, spawn_trampoline, Returns, Go, Use
<1>15. CASE UNCHANGED vars
  BY <1>15 DEF vars
<1> QED
  BY <1>3, <1>4, <1>5, <1>6, <1>7, <1>8, <1>9, <1>10, <1>11, <1>12, <1>13, <1>14, <1>15
     DEF Next, Step, ChildStep

\* Every closure handed to a thread is consumed once, by the thread that runs it
\* or by the error path of the call that could not start it.
THEOREM ClosureTheorem == Safety => []ClosureIsUsedOnce
<1>1. Init => ClosureIsUsedOnce
  BY DEF Init, ClosureIsUsedOnce
<1> QED
  BY <1>1, NextUses, BaseHolds, PTL DEF Safety

-----------------------------------------------------------------------------
Collected(d) ==
  kind[d] \in {"joinable", "scoped"} /\ at[d] \notin {"unborn", "gone"} =>
    \/ holder[d] # None
    \/ d \in ToSet(handles[parent[d]])
    \/ \E p \in Ids : at[p] \in Busy /\ target[p] = d
    \/ d \in loose

Borrowed(d) == kind[d] = "scoped" /\ Alive(d) => scoped[parent[d]] = "open" \/ d \in loose

\* A step hands a thread on from the call that starts it to the handle or the
\* scope, and from there to the join, or gives it up.
LEMMA NextCollects == SomeoneCollects /\ Base /\ [Next]_vars => SomeoneCollects'
<1> SUFFICES ASSUME SomeoneCollects, Base, [Next]_vars, NEW d \in Children PROVE Collected(d)'
  BY DEF SomeoneCollects, Collected, Busy
<1>1. Collected(d)
  BY DEF SomeoneCollects, Collected, Busy
<1>2. Typed /\ Child(d) /\ \A p \in Ids : Aim(p)
  BY DEF Base, TargetInv, ChildInv
<1>3. \A p \in Ids : handles[p] \in Seq(Children)
  BY <1>2 DEF Typed
<1> HIDE DEF Base, SomeoneCollects
<1> USE ThreadsAssumption, <1>1, <1>2 DEF Collected, Typed, Child, Aim, Ids, Places, Alive, Busy
<1> DEFINE Handed ==
  /\ kind'[d] = kind[d] /\ parent'[d] = parent[d] /\ loose \subseteq loose'
  /\ at[d] \in {"unborn", "gone"} => at'[d] \in {"unborn", "gone"}
  /\ holder[d] # None => holder'[d] # None \/ d \in loose'
  /\ d \in ToSet(handles[parent[d]]) => d \in ToSet(handles'[parent[d]]) \/ d \in loose'
  /\ \A q \in Ids : at[q] \in Busy /\ target[q] = d => at'[q] \in Busy /\ target'[q] = d
<1>h. Handed => Collected(d)'
  OBVIOUS
<1>4. ASSUME NEW p \in Ids, NEW c \in Children, spawn_detached(p, c) \/ spawn(p, c) \/ ScopeSpawn(p, c)
      PROVE  Collected(d)'
  <2>1. /\ at[p] = "run" /\ at' = [at EXCEPT ![p] = "boxed"] /\ kind[c] = "none"
        /\ target' = [target EXCEPT ![p] = c] /\ parent' = [parent EXCEPT ![c] = p]
        /\ UNCHANGED <<holder, handles, loose>>
        /\ \E k \in {"detached", "joinable", "scoped"} : kind' = [kind EXCEPT ![c] = k]
    BY <1>4 DEF spawn_detached, spawn, ScopeSpawn, Box, Go
  <2>2. CASE d = c
    BY <2>1, <2>2
  <2>3. CASE d # c
    <3>1. /\ parent'[d] = parent[d] /\ kind'[d] = kind[d] /\ (at[d] = "gone" => at'[d] = "gone")
          /\ (at[d] = "unborn" => at'[d] = "unborn")
      BY <2>1, <2>3
    <3>2. ASSUME NEW q \in Ids, at[q] \in Busy PROVE at'[q] = at[q] /\ target'[q] = target[q]
      BY <2>1, <3>2
    <3> QED
      BY <2>1, <3>1, <3>2
  <2> QED
    BY <2>2, <2>3
<1>5. ASSUME NEW p \in Ids, pthread_create(p) PROVE Collected(d)'
  <2>1. PICK c \in Children : c = target[p] /\ at[p] = "boxed"
    BY <1>5 DEF pthread_create
  <2>2. /\ UNCHANGED <<target, kind, parent, holder, handles, loose>>
        /\ at' = [at EXCEPT ![p] = "created", ![c] = "start"] /\ at[c] = "unborn"
    BY <1>5, <2>1 DEF pthread_create
  <2>3. CASE d = c
    BY <2>1, <2>2, <2>3
  <2>4. CASE d # c
    <3>1. Handed
      BY <2>1, <2>2, <2>4
    <3> QED
      BY <1>h, <3>1
  <2> QED
    BY <2>3, <2>4
<1>6. ASSUME NEW p \in Ids, SpawnFails(p) PROVE Collected(d)'
  BY <1>6 DEF SpawnFails, Go
<1>7. ASSUME NEW p \in Ids, DetachedReturns(p) PROVE Collected(d)'
  BY <1>7 DEF DetachedReturns, Spawned, Go
<1>8. ASSUME NEW p \in Ids, SpawnReturns(p) PROVE Collected(d)'
  BY <1>8 DEF SpawnReturns, Spawned, Go
<1>9. ASSUME NEW p \in Ids, ScopeSpawnReturns(p) PROVE Collected(d)'
  <2>1. target[p] \in Children /\ parent[target[p]] = p
    BY <1>9 DEF ScopeSpawnReturns, Spawned, Go
  <2>2. ToSet(handles'[p]) = ToSet(handles[p]) \cup {target[p]}
    BY <1>3, <1>9, <2>1, KeepOne DEF ScopeSpawnReturns
  <2>3. \A q \in Ids : q # p => handles'[q] = handles[q] /\ at'[q] = at[q] /\ target'[q] = target[q]
    BY <1>9 DEF ScopeSpawnReturns, Spawned, Go
  <2>4. at'[p] = "run" /\ at[p] = "created" /\ UNCHANGED <<kind, parent, holder, loose>>
    BY <1>9 DEF ScopeSpawnReturns, Spawned, Go
  <2>5. CASE d = target[p]
    BY <2>1, <2>2, <2>4, <2>5
  <2>6. CASE d # target[p]
    <3>1. ASSUME NEW q \in Ids, at[q] \in Busy /\ target[q] = d
          PROVE  at'[q] \in Busy /\ target'[q] = d
      BY <2>3, <2>6, <3>1
    <3>2. ASSUME NEW q \in Ids, d \in ToSet(handles[q]) PROVE d \in ToSet(handles'[q])
      <4>1. CASE q = p
        BY <2>2, <3>2, <4>1
      <4>2. CASE q # p
        BY <2>3, <3>2, <4>2
      <4> QED
        BY <4>1, <4>2
    <3>3. kind[d] # "none" => (d \in ToSet(handles[parent[d]]) => d \in ToSet(handles'[parent[d]]))
      BY <3>2
    <3>4. at[d] \in {"unborn", "gone"} => at'[d] \in {"unborn", "gone"}
      BY <2>3, <2>4
    <3> QED
      BY <2>4, <3>1, <3>3, <3>4
  <2> QED
    BY <2>5, <2>6
<1>10. ASSUME NEW p \in Ids, NEW c \in Children, Join(p, c) PROVE Collected(d)'
  BY <1>10 DEF Join, Go
<1>11. ASSUME NEW p \in Ids, NEW c \in Children, NEW q \in Ids,
              JoinFails(p, c) \/ DropHandle(p, c) \/ Move(p, q, c)
       PROVE  Collected(d)'
  <2>1. Handed
    BY SMTT(30), <1>11 DEF JoinFails, DropHandle, Move
  <2> QED
    BY <1>h, <2>1
<1>12. ASSUME NEW p \in Ids, JoinReturns(p) PROVE Collected(d)'
  <2>1. PICK c \in Children : c = target[p] /\ at[p] = "join" /\ at[c] = "exited"
    BY <1>12 DEF JoinReturns
  <2>2. /\ UNCHANGED <<kind, parent, holder, handles, loose>>
        /\ at' = [at EXCEPT ![p] = "run", ![c] = "gone"]
        /\ target' = [target EXCEPT ![p] = None]
    BY <1>12, <2>1 DEF JoinReturns
  <2>3. CASE d = c
    BY <2>1, <2>2, <2>3
  <2>4. CASE d # c
    <3>1. Handed
      BY <2>1, <2>2, <2>4
    <3> QED
      BY <1>h, <3>1
  <2> QED
    BY <2>3, <2>4
<1>13. ASSUME NEW p \in Ids, OpenScope(p) PROVE Collected(d)'
  BY <1>13 DEF OpenScope
<1>14. ASSUME NEW p \in Ids, CloseScope(p) \/ ScopeReturns(p) PROVE Collected(d)'
  BY <1>14 DEF CloseScope, ScopeReturns, Go
<1>15. ASSUME NEW p \in Ids, ScopeJoins(p) \/ ScopeJoinFails(p) PROVE Collected(d)'
  <2>1. /\ Head(handles[p]) \in Children
        /\ ToSet(handles[p]) \subseteq ToSet(Tail(handles[p])) \cup {Head(handles[p])}
    BY <1>3, <1>15, LetOneGo DEF ScopeJoins, ScopeJoinFails
  <2>2. PICK c \in Children : c = Head(handles[p])
    BY <2>1
  <2>3. /\ handles' = [handles EXCEPT ![p] = Tail(@)] /\ UNCHANGED <<target, kind, parent, holder>>
        /\ \/ at[c] = "exited" /\ at' = [at EXCEPT ![c] = "gone"] /\ loose' = loose
           \/ at' = at /\ loose' = loose \cup {c}
    BY <1>15, <2>2 DEF ScopeJoins, ScopeJoinFails
  <2>4. \A q \in Ids : ToSet(handles[q]) \subseteq ToSet(handles'[q]) \cup {c}
    BY <2>1, <2>2, <2>3
  <2>5. CASE d = c /\ at[c] = "exited" /\ at' = [at EXCEPT ![c] = "gone"]
    BY <2>2, <2>5
  <2>6. CASE d = c /\ loose' = loose \cup {c}
    BY <2>6
  <2>7. CASE d # c
    <3>1. ASSUME NEW q \in Ids, at[q] \in Busy /\ target[q] = d
          PROVE  at'[q] \in Busy /\ target'[q] = d
      BY <2>3, <3>1
    <3>2. kind[d] # "none" => (d \in ToSet(handles[parent[d]]) => d \in ToSet(handles'[parent[d]]))
      <4>1. kind[d] # "none" => parent[d] \in Ids
        OBVIOUS
      <4>2. ASSUME NEW q \in Ids, d \in ToSet(handles[q]) PROVE d \in ToSet(handles'[q])
        <5> HIDE <1>1, <1>2
        <5>1. ToSet(handles[q]) \subseteq ToSet(handles'[q]) \cup {c}
          BY <2>4
        <5> QED
          BY <2>7, <4>2, <5>1
      <4> QED
        BY <4>1, <4>2
    <3>3. at[d] \in {"unborn", "gone"} => at'[d] \in {"unborn", "gone"}
      BY <2>3, <2>7
    <3> QED
      BY <2>3, <3>1, <3>2, <3>3
  <2> QED
    BY <2>3, <2>5, <2>6, <2>7
<1>16. ASSUME NEW p \in Ids, UnwindScope(p) PROVE Collected(d)'
  BY <1>16 DEF UnwindScope
<1>17. ASSUME NEW c \in Children, Start(c) \/ WriteSlot(c) PROVE Collected(d)'
  <2>1. Handed
    BY <1>17 DEF Start, WriteSlot, Go
  <2> QED
    BY <1>h, <2>1
<1>18. ASSUME NEW c \in Children, DetachedRuns(c) \/ ScopedRuns(c) \/ spawn_trampoline(c) PROVE Collected(d)'
  <2>1. /\ at[c] = "run" /\ loose' = loose \cup {e \in Children : holder[e] = c}
        /\ holder'[d] = IF holder[d] = c THEN None ELSE holder[d]
        /\ UNCHANGED <<target, kind, parent, handles>>
        /\ \E to \in {"gone", "exited", "write"} : at' = [at EXCEPT ![c] = to]
    BY <1>18 DEF DetachedRuns, ScopedRuns, spawn_trampoline, Returns, Go, Held
  <2> QED
    BY <2>1
<1>19. CASE UNCHANGED vars
  BY <1>19 DEF vars
<1> QED
  BY <1>4, <1>5, <1>6, <1>7, <1>8, <1>9, <1>10, <1>11, <1>12, <1>13, <1>14, <1>15, <1>16, <1>17, <1>18, <1>19
     DEF Next, Step, ChildStep

\* Only the thread that opened a scope ends it: with nothing left to join, or by
\* giving its threads up.
LEMMA NextBorrows == SomeoneCollects /\ BorrowsAreLive /\ Base /\ [Next]_vars => BorrowsAreLive'
<1> SUFFICES ASSUME SomeoneCollects, BorrowsAreLive, Base, [Next]_vars, NEW d \in Children PROVE Borrowed(d)'
  BY DEF BorrowsAreLive, Borrowed
<1>1. Collected(d) /\ Borrowed(d)
  BY DEF SomeoneCollects, Collected, BorrowsAreLive, Borrowed, Busy
<1>2. Typed /\ Child(d) /\ \A p \in Ids : Aim(p)
  BY DEF Base, TargetInv, ChildInv
<1> HIDE DEF Base, SomeoneCollects, BorrowsAreLive
<1> USE ThreadsAssumption, <1>1, <1>2 DEF Borrowed, Typed, Child, Aim, Ids, Places, Alive, Busy
<1>3. ASSUME NEW p \in Ids, NEW c \in Children, spawn_detached(p, c) \/ spawn(p, c) \/ ScopeSpawn(p, c)
      PROVE  Borrowed(d)'
  <2>1. /\ at[p] = "run" /\ at' = [at EXCEPT ![p] = "boxed"] /\ kind[c] = "none"
        /\ parent' = [parent EXCEPT ![c] = p] /\ UNCHANGED <<scoped, loose>>
        /\ \E k \in {"detached", "joinable", "scoped"} : kind' = [kind EXCEPT ![c] = k]
    BY <1>3 DEF spawn_detached, spawn, ScopeSpawn, Box, Go
  <2> QED
    BY <2>1
<1>4. ASSUME NEW p \in Ids, pthread_create(p) PROVE Borrowed(d)'
  BY <1>4 DEF pthread_create
<1>5. ASSUME NEW p \in Ids, SpawnFails(p) PROVE Borrowed(d)'
  BY <1>5 DEF SpawnFails, Go
<1>6. ASSUME NEW p \in Ids, DetachedReturns(p) \/ SpawnReturns(p) \/ ScopeSpawnReturns(p) PROVE Borrowed(d)'
  BY <1>6 DEF DetachedReturns, SpawnReturns, ScopeSpawnReturns, Spawned, Go
<1>7. ASSUME NEW p \in Ids, NEW c \in Children, Join(p, c) PROVE Borrowed(d)'
  BY <1>7 DEF Join, Go
<1>8. ASSUME NEW p \in Ids, NEW c \in Children, NEW q \in Ids,
             JoinFails(p, c) \/ DropHandle(p, c) \/ Move(p, q, c)
      PROVE  Borrowed(d)'
  BY <1>8 DEF JoinFails, DropHandle, Move
<1>9. ASSUME NEW p \in Ids, JoinReturns(p) PROVE Borrowed(d)'
  BY <1>9 DEF JoinReturns
<1>10. ASSUME NEW p \in Ids, OpenScope(p) PROVE Borrowed(d)'
  BY <1>10 DEF OpenScope
<1>11. ASSUME NEW p \in Ids, CloseScope(p) PROVE Borrowed(d)'
  BY <1>11 DEF CloseScope, Go
<1>12. ASSUME NEW p \in Ids, ScopeReturns(p) \/ UnwindScope(p) PROVE Borrowed(d)'
  <2>1. /\ at[p] \in {"run", "close"} /\ scoped' = [scoped EXCEPT ![p] = "over"]
        /\ at' = [at EXCEPT ![p] = "run"]
        /\ loose' = loose \cup ToSet(handles[p]) /\ UNCHANGED <<kind, parent>>
    <3>1. CASE ScopeReturns(p)
      <4>1. ToSet(handles[p]) = {} /\ loose' = loose
        BY <3>1 DEF ScopeReturns, ToSet
      <4> QED
        BY <3>1, <4>1 DEF ScopeReturns, Go
    <3>2. CASE UnwindScope(p)
      <4>1. at' = at /\ at[p] = "run"
        BY <3>2 DEF UnwindScope
      <4> QED
        BY <3>2, <4>1 DEF UnwindScope
    <3> QED
      BY <1>12, <3>1, <3>2
  <2>2. CASE kind[d] = "scoped" /\ Alive(d) /\ parent[d] = p
    <3>1. d \in ToSet(handles[p]) \/ d \in loose
      BY <2>1, <2>2 DEF Collected
    <3> QED
      BY <2>1, <3>1
  <2>3. CASE ~(kind[d] = "scoped" /\ Alive(d) /\ parent[d] = p)
    BY <2>1, <2>3
  <2> QED
    BY <2>2, <2>3
<1>13. ASSUME NEW p \in Ids, ScopeJoins(p) \/ ScopeJoinFails(p) PROVE Borrowed(d)'
  <2>1. /\ UNCHANGED <<scoped, kind, parent>> /\ loose \subseteq loose'
        /\ at' = at \/ at' = [at EXCEPT ![Head(handles[p])] = "gone"]
    BY <1>13 DEF ScopeJoins, ScopeJoinFails
  <2> QED
    BY <2>1
<1>14. ASSUME NEW c \in Children, Start(c) \/ WriteSlot(c) PROVE Borrowed(d)'
  BY <1>14 DEF Start, WriteSlot, Go
<1>15. ASSUME NEW c \in Children, DetachedRuns(c) \/ ScopedRuns(c) \/ spawn_trampoline(c) PROVE Borrowed(d)'
  BY <1>15 DEF DetachedRuns, ScopedRuns, spawn_trampoline, Returns, Go
<1>16. CASE UNCHANGED vars
  BY <1>16 DEF vars
<1> QED
  BY <1>3, <1>4, <1>5, <1>6, <1>7, <1>8, <1>9, <1>10, <1>11, <1>12, <1>13, <1>14, <1>15, <1>16
     DEF Next, Step, ChildStep

\* Every thread that could be joined has someone who is going to, or was given
\* up, and what a scoped thread borrows is there while it runs: JoinHandle,
\* scope and Scope::spawn, with no bound on handles moved or threads started.
THEOREM CollectedTheorem == Safety => []NobodyIsLeftBehind
<1>1. Init => NobodyIsLeftBehind
  BY DEF Init, NobodyIsLeftBehind, SomeoneCollects, BorrowsAreLive
<1>2. NobodyIsLeftBehind /\ Base /\ [Next]_vars => NobodyIsLeftBehind'
  BY NextCollects, NextBorrows DEF NobodyIsLeftBehind
<1> QED
  BY <1>1, <1>2, BaseHolds, PTL DEF Safety
=============================================================================
