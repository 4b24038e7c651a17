------------------------- MODULE ThreadLocalsProofs --------------------------
(***************************************************************************)
(* Proofs about ThreadLocals, for any threads and any number of keys, sets *)
(* and rounds of destructors: the race to the first use leaves one key,    *)
(* which never changes, and leaks none; what a thread keeps under it is    *)
(* what its innermost set installed, and is freed when the thread ends.    *)
(***************************************************************************)
EXTENDS ThreadLocals, SequenceTheorems, TLAPS

Using == {"getspecific", "init", "setspecific", "use"}
Racing == {"cas", "delete"}

KeyTypes ==
  /\ key \in Nat
  /\ live \subseteq Keys
  /\ at \in [Threads -> Places]
  /\ mine \in [Threads -> Int]
  /\ theirs \in [Threads -> Int]

\* The published key is there.  A key in a race is nobody else's: not the
\* published one, and in the hands of one thread; so deleting it hurts nobody.
RaceInv ==
  /\ key # 0 => key - 1 \in live
  /\ \A t \in Threads : at[t] \in Racing => mine[t] \in live /\ key # mine[t] + 1
  /\ \A t, u \in Threads :
       at[t] \in Racing /\ at[u] \in Racing /\ t # u => mine[t] # mine[u]
  /\ \A t \in Threads : at[t] = "delete" => key # 0 /\ theirs[t] = key

KeyInv == KeyTypes /\ RaceInv /\ OneKey /\ NoKeyLeaks

keyvars == <<key, live, others, mine, theirs>>

\* A step that leaves the keys alone and brings no thread into the race, nor
\* past it, keeps the invariant.
LEMMA QuietStep ==
  ASSUME KeyInv, NEW t \in Threads, NEW place \in Places,
         UNCHANGED keyvars,
         at' = [at EXCEPT ![t] = place],
         place \notin Racing,
         at[t] \notin Racing,
         place \in Using => at[t] \in Using
  PROVE  KeyInv'
<1>1. KeyTypes' BY DEF KeyInv, KeyTypes, keyvars
<1>2. \A u \in Threads : at'[u] = IF u = t THEN place ELSE at[u]
  BY DEF KeyInv, KeyTypes
<1>3. RaceInv'
  BY <1>2 DEF KeyInv, RaceInv, keyvars, Racing
<1>4. OneKey'
  BY <1>2 DEF KeyInv, OneKey, keyvars, Using
<1>5. NoKeyLeaks'
  BY <1>2 DEF KeyInv, NoKeyLeaks, keyvars, Racing
<1>. QED BY <1>1, <1>3, <1>4, <1>5 DEF KeyInv

LEMMA InitKeys == Init => KeyInv
BY DEF Init, KeyInv, KeyTypes, RaceInv, OneKey, NoKeyLeaks, Places, Racing, Keys

LEMMA LoadKeeps == ASSUME KeyInv, NEW t \in Threads, Load(t) PROVE KeyInv'
<1>1. CASE key = 0
  <2>1. UNCHANGED keyvars /\ at' = [at EXCEPT ![t] = "create"] /\ at[t] = "load"
    BY <1>1 DEF Load, Go, keyvars, keys
  <2>. QED BY <2>1, QuietStep DEF Places, Racing, Using
<1>2. CASE key # 0
  <2>1. /\ UNCHANGED <<key, live, others, theirs>>
        /\ mine' = [mine EXCEPT ![t] = key - 1]
        /\ at' = [at EXCEPT ![t] = "getspecific"]
        /\ at[t] = "load"
    BY <1>2 DEF Load, Go, keys
  <2>2. \A u \in Threads : /\ at'[u] = IF u = t THEN "getspecific" ELSE at[u]
                           /\ mine'[u] = IF u = t THEN key - 1 ELSE mine[u]
    BY <2>1 DEF KeyInv, KeyTypes
  <2>3. KeyTypes' BY <2>1 DEF KeyInv, KeyTypes, Places
  <2>4. RaceInv' BY <2>1, <2>2 DEF KeyInv, RaceInv, Racing
  <2>5. OneKey' BY <1>2, <2>1, <2>2 DEF KeyInv, KeyTypes, RaceInv, OneKey
  <2>6. NoKeyLeaks' BY <2>1, <2>2 DEF KeyInv, NoKeyLeaks
  <2>. QED BY <2>3, <2>4, <2>5, <2>6 DEF KeyInv
<1>. QED BY <1>1, <1>2

LEMMA CreateKeeps ==
  ASSUME KeyInv, NEW t \in Threads, pthread_key_create(t) PROVE KeyInv'
<1>1. PICK k \in Keys \ live : live' = live \cup {k} /\ mine' = [mine EXCEPT ![t] = k]
  BY DEF pthread_key_create
<1>2. /\ UNCHANGED <<key, others, theirs>>
      /\ at' = [at EXCEPT ![t] = "cas"]
      /\ at[t] = "create"
  BY DEF pthread_key_create, Go
<1>3. \A u \in Threads : /\ at'[u] = IF u = t THEN "cas" ELSE at[u]
                         /\ mine'[u] = IF u = t THEN k ELSE mine[u]
  BY <1>1, <1>2 DEF KeyInv, KeyTypes
<1>4. k \in Int /\ key \in Int
  BY ThreadLocalsAssumption DEF Keys, KeyInv, KeyTypes
<1>5. KeyTypes' BY <1>1, <1>2, <1>4 DEF KeyInv, KeyTypes, Places
<1>6. key # 0 => key # k + 1
  BY <1>1, <1>4 DEF KeyInv, RaceInv
<1>7. key # k + 1
  BY <1>1, <1>6, ThreadLocalsAssumption DEF Keys
<1>8. RaceInv' BY <1>1, <1>2, <1>3, <1>7 DEF KeyInv, RaceInv, Racing
<1>9. OneKey' BY <1>1, <1>2, <1>3 DEF KeyInv, OneKey
<1>10. NoKeyLeaks' BY <1>1, <1>2, <1>3 DEF KeyInv, NoKeyLeaks
<1>. QED BY <1>5, <1>8, <1>9, <1>10 DEF KeyInv

LEMMA CompareExchangeKeeps ==
  ASSUME KeyInv, NEW t \in Threads, CompareExchange(t) PROVE KeyInv'
<1>1. /\ UNCHANGED <<live, others, mine>>
      /\ theirs' = [theirs EXCEPT ![t] = key]
      /\ at[t] = "cas"
  BY DEF CompareExchange, Go
<1>2. mine[t] \in live /\ mine[t] \in Nat
  BY <1>1, ThreadLocalsAssumption DEF KeyInv, KeyTypes, RaceInv, Racing, Keys
<1>3. CASE key = 0
  <2>1. key' = mine[t] + 1 /\ at' = [at EXCEPT ![t] = "getspecific"]
    BY <1>3 DEF CompareExchange, Go
  <2>2. \A u \in Threads : at'[u] = IF u = t THEN "getspecific" ELSE at[u]
    BY <2>1 DEF KeyInv, KeyTypes
  <2>3. KeyTypes' BY <1>1, <1>2, <2>1 DEF KeyInv, KeyTypes, Places
  <2>4. \A u \in Threads : u # t => at[u] # "delete" /\ at[u] \notin Using
    BY <1>3, ThreadLocalsAssumption DEF KeyInv, KeyTypes, RaceInv, OneKey, Using, Keys
  <2>5. RaceInv'
    BY <1>1, <1>2, <2>1, <2>2, <2>4 DEF KeyInv, KeyTypes, RaceInv, Racing
  <2>6. OneKey' BY <1>1, <1>2, <2>1, <2>2, <2>4 DEF OneKey, Using
  <2>7. NoKeyLeaks'
    BY <1>1, <1>3, <2>1, <2>2 DEF KeyInv, KeyTypes, NoKeyLeaks, Keys
  <2>. QED BY <2>3, <2>5, <2>6, <2>7 DEF KeyInv
<1>4. CASE key # 0
  <2>1. key' = key /\ at' = [at EXCEPT ![t] = "delete"]
    BY <1>4 DEF CompareExchange, Go
  <2>2. \A u \in Threads : /\ at'[u] = IF u = t THEN "delete" ELSE at[u]
                           /\ theirs'[u] = IF u = t THEN key ELSE theirs[u]
    BY <1>1, <2>1 DEF KeyInv, KeyTypes
  <2>3. KeyTypes' BY <1>1, <2>1 DEF KeyInv, KeyTypes, Places
  <2>4. RaceInv' BY <1>1, <1>4, <2>1, <2>2 DEF KeyInv, RaceInv, Racing
  <2>5. OneKey' BY <1>1, <2>1, <2>2 DEF KeyInv, OneKey
  <2>6. NoKeyLeaks' BY <1>1, <2>1, <2>2 DEF KeyInv, NoKeyLeaks
  <2>. QED BY <2>3, <2>4, <2>5, <2>6 DEF KeyInv
<1>. QED BY <1>3, <1>4

LEMMA DeleteKeeps == ASSUME KeyInv, NEW t \in Threads, KeyDelete(t) PROVE KeyInv'
<1>1. /\ UNCHANGED <<key, others, theirs>>
      /\ live' = live \ {mine[t]}
      /\ mine' = [mine EXCEPT ![t] = theirs[t] - 1]
      /\ at' = [at EXCEPT ![t] = "getspecific"]
      /\ at[t] = "delete"
  BY DEF KeyDelete, Go
<1>2. \A u \in Threads : /\ at'[u] = IF u = t THEN "getspecific" ELSE at[u]
                         /\ mine'[u] = IF u = t THEN theirs[t] - 1 ELSE mine[u]
  BY <1>1 DEF KeyInv, KeyTypes
<1>3. KeyTypes' BY <1>1 DEF KeyInv, KeyTypes, Places
<1>4. /\ key # 0 /\ theirs[t] = key /\ key \in Int
      /\ mine[t] \in Int /\ key # mine[t] + 1
  BY <1>1 DEF KeyInv, KeyTypes, RaceInv, Racing
<1>5. key - 1 \in live'
  BY <1>1, <1>4 DEF KeyInv, RaceInv
<1>6. RaceInv' BY <1>1, <1>2, <1>5 DEF KeyInv, RaceInv, Racing
<1>7. OneKey'
  BY <1>1, <1>2, <1>4, <1>5 DEF KeyInv, KeyTypes, OneKey
<1>8. NoKeyLeaks'
  BY <1>1, <1>2 DEF KeyInv, NoKeyLeaks
<1>. QED BY <1>3, <1>6, <1>7, <1>8 DEF KeyInv

\* Everything else a thread does is a quiet step.
LEMMA OthersKeep ==
  ASSUME KeyInv, NEW t \in Threads,
         \/ set(t) \/ with(t) \/ Return(t) \/ Unwind(t) \/ KeyCreateFails(t)
         \/ GetSpecific(t) \/ NewBox(t) \/ SetSpecific(t) \/ SetSpecificFails(t)
         \/ Install(t) \/ Reset(t) \/ Get(t) \/ Exit(t) \/ drop_box(t) \/ Gone(t)
  PROVE  KeyInv'
<1>1. UNCHANGED keyvars
  BY DEF set, with, Return, Unwind, Call, KeyCreateFails, GetSpecific, NewBox,
         SetSpecific, SetSpecificFails, Install, Reset, Get, Exit, drop_box, Gone,
         keyvars, keys
<1>2. \E place \in Places :
        /\ at' = [at EXCEPT ![t] = place]
        /\ place \notin Racing /\ at[t] \notin Racing
        /\ place \in Using => at[t] \in Using
  BY DEF set, with, Return, Unwind, Call, KeyCreateFails, GetSpecific, NewBox,
         SetSpecific, SetSpecificFails, Install, Reset, Get, Done, Exit, drop_box,
         Gone, Go, Places, Racing, Using
<1>. QED BY <1>1, <1>2, QuietStep

LEMMA NextKeys == KeyInv /\ [Next]_vars => KeyInv'
<1>. SUFFICES ASSUME KeyInv, [Next]_vars PROVE KeyInv'
  OBVIOUS
<1>1. CASE UNCHANGED vars
  BY <1>1 DEF KeyInv, KeyTypes, RaceInv, OneKey, NoKeyLeaks, vars
<1>2. CASE Ended
  BY <1>1, <1>2 DEF Ended
<1>3. ASSUME NEW t \in Threads, Step(t) PROVE KeyInv'
  BY <1>3, LoadKeeps, CreateKeeps, CompareExchangeKeeps, DeleteKeeps, OthersKeep DEF Step
<1>. QED BY <1>1, <1>2, <1>3 DEF Next

LEMMA KeysAreInvariant == Spec => []KeyInv
BY InitKeys, NextKeys, PTL DEF Spec

(***************************************************************************)
(* However many threads race to the first use of a ThreadLocal, all of     *)
(* them go on with one key, and it is never a deleted one.                 *)
(***************************************************************************)
THEOREM OneKeyForAll == Spec => []OneKey
<1>1. KeyInv => OneKey BY DEF KeyInv
<1>. QED BY <1>1, KeysAreInvariant, PTL

(***************************************************************************)
(* No key is leaked by a thread that lost the race.                        *)
(***************************************************************************)
THEOREM KeysAreNotLeaked == Spec => []NoKeyLeaks
<1>1. KeyInv => NoKeyLeaks BY DEF KeyInv
<1>. QED BY <1>1, KeysAreInvariant, PTL

(***************************************************************************)
(* Once there is a key it is never changed: only the compare_exchange      *)
(* writes it, and only over a zero.                                        *)
(***************************************************************************)
THEOREM KeyTheorem == Spec => KeyIsForEver
<1>1. ASSUME NEW t \in Threads, Step(t) PROVE key # 0 => key' = key
  BY <1>1 DEF Step, set, with, Return, Unwind, Call, Load, pthread_key_create,
     KeyCreateFails, CompareExchange, KeyDelete, GetSpecific, NewBox, SetSpecific,
     SetSpecificFails, Install, Reset, Get, Exit, drop_box, Gone, keys
<1>2. [Next]_vars => [key # 0 => key' = key]_vars
  BY <1>1 DEF Next, Ended, vars
<1>. QED BY <1>2, PTL DEF Spec, KeyIsForEver

-----------------------------------------------------------------------------
(***************************************************************************)
(* The Reset of a set finds the key.                                       *)
(***************************************************************************)
StackInv == ResetFindsTheKey /\ DOMAIN stack = Threads

LEMMA UsersHaveAKey ==
  ASSUME KeyInv, NEW t \in Threads, at[t] \in Using PROVE key # 0
BY ThreadLocalsAssumption DEF KeyInv, KeyTypes, OneKey, Using, Keys

LEMMA NextStack == KeyInv /\ StackInv /\ [Next]_vars => StackInv'
<1>. SUFFICES ASSUME KeyInv, ResetFindsTheKey, DOMAIN stack = Threads, [Next]_vars
              PROVE  ResetFindsTheKey' /\ DOMAIN stack' = Threads
  BY DEF StackInv
<1>1. CASE UNCHANGED vars \/ Ended
  BY <1>1 DEF ResetFindsTheKey, vars, Ended
<1>2. ASSUME NEW t \in Threads, Step(t)
      PROVE  ResetFindsTheKey' /\ DOMAIN stack' = Threads
  <2>. DEFINE Away == {"create", "cas", "delete"}
  <2>1. at \in [Threads -> Places] /\ key \in Int /\ mine[t] \in Int
    BY DEF KeyInv, KeyTypes
  <2>2. CASE Install(t) \/ Reset(t)
    <3>1. /\ key' = key /\ at[t] = "use" /\ at' = [at EXCEPT ![t] = "out"]
          /\ DOMAIN stack' = Threads
          /\ \A u \in Threads : u # t => stack'[u] = stack[u]
      BY <2>2 DEF Install, Reset, Go, keys
    <3>2. key # 0
      BY <3>1, UsersHaveAKey DEF Using
    <3>. QED BY <2>1, <3>1, <3>2 DEF ResetFindsTheKey
  <2>3. CASE Load(t)
    BY <2>1, <2>3 DEF Load, Go, keys, thread, ResetFindsTheKey
  <2>4. CASE pthread_key_create(t) \/ CompareExchange(t) \/ KeyDelete(t) \/ KeyCreateFails(t)
    <3>1. at[t] \in Away /\ stack' = stack /\ (key # 0 => key' = key)
      BY <2>4 DEF pthread_key_create, CompareExchange, KeyDelete, KeyCreateFails, Go, thread, keys
    <3>2. \A u \in Threads : u # t => at'[u] = at[u]
      BY <2>1, <2>4 DEF pthread_key_create, CompareExchange, KeyDelete, KeyCreateFails, Go
    <3>. QED BY <3>1, <3>2 DEF ResetFindsTheKey
  <2>5. CASE \/ set(t) \/ with(t) \/ Return(t) \/ Unwind(t)
             \/ GetSpecific(t) \/ NewBox(t) \/ SetSpecific(t) \/ SetSpecificFails(t)
             \/ Get(t) \/ Exit(t) \/ drop_box(t) \/ Gone(t)
    <3>1. stack' = stack /\ key' = key
      BY <2>5 DEF set, with, Return, Unwind, Call, GetSpecific, NewBox, SetSpecific,
         SetSpecificFails, Get, Exit, drop_box, Gone, thread, keys
    <3>2. \E place \in Places \ Away : at' = [at EXCEPT ![t] = place]
      BY <2>5 DEF set, with, Return, Unwind, Call, GetSpecific, NewBox, SetSpecific,
         SetSpecificFails, Get, Done, Exit, drop_box, Gone, Go, Places
    <3>. QED BY <2>1, <3>1, <3>2 DEF ResetFindsTheKey
  <2>. QED BY <1>2, <2>2, <2>3, <2>4, <2>5 DEF Step
<1>. QED BY <1>1, <1>2 DEF Next

(***************************************************************************)
(* A thread inside a set never has to make the key: the Reset that runs    *)
(* when it is left, also by an unwind, cannot panic for want of one.       *)
(***************************************************************************)
THEOREM ResetTheorem == Spec => []ResetFindsTheKey
<1>1. Init => StackInv
  BY DEF Init, StackInv, ResetFindsTheKey
<1>2. StackInv => ResetFindsTheKey BY DEF StackInv
<1>. QED BY <1>1, <1>2, NextStack, KeysAreInvariant, PTL DEF Spec

(***************************************************************************)
(* The three together: whatever threads race and however deep they are in  *)
(* set, ThreadLocal::key gives them one key that is there for good.        *)
(***************************************************************************)
THEOREM SharedKeyTheorem == Spec => []KeyIsShared
<1>1. OneKey /\ NoKeyLeaks /\ ResetFindsTheKey => KeyIsShared BY DEF KeyIsShared
<1>. QED BY <1>1, OneKeyForAll, KeysAreNotLeaked, ResetTheorem, PTL
-----------------------------------------------------------------------------
(***************************************************************************)
(* The boxes.  Only the published key has any, and a thread has one under  *)
(* it or none; what it has is neither freed nor lost sight of.             *)
(***************************************************************************)
\* The box that pthread_getspecific finds for the thread.
Kept(t) == IF key = 0 THEN 0 ELSE specific[key - 1][t]

Frames == [value : Nat, previous : Nat]

BoxTypes ==
  /\ specific \in [Keys -> [Threads -> Nat]]
  /\ boxes \in [Threads -> Seq(Nat)]
  /\ freed \in [Threads -> SUBSET Nat]
  /\ op \in [Threads -> {"none", "set", "get", "reset"}]
  /\ ref \in [Threads -> Nat]
  /\ stack \in [Threads -> Seq(Frames)]
  /\ calls \in [Threads -> Nat]
  /\ rounds \in [Threads -> Nat]
  /\ lost \subseteq Threads

Spread == \A k \in Keys : key # k + 1 => \A t \in Threads : specific[k][t] = 0

\* A box is kept, freed, or about to be kept; the one in use is not freed.
Housed(t) ==
  /\ freed[t] \subseteq 1 .. Len(boxes[t])
  /\ Kept(t) \in (0 .. Len(boxes[t])) \ freed[t]
  /\ at[t] = "init" => Kept(t) = 0
  /\ at[t] = "setspecific" => Kept(t) = 0 /\ ref[t] = Len(boxes[t])
  /\ at[t] \in {"setspecific", "use"} => ref[t] \in (1 .. Len(boxes[t])) \ freed[t]
  /\ at[t] = "gone" => Kept(t) = 0 \/ rounds[t] = ITERATIONS
  /\ t \notin lost =>
       /\ at[t] = "use" => ref[t] = Kept(t)
       /\ \A b \in 1 .. Len(boxes[t]) :
            b \in freed[t] \/ b = Kept(t) \/ (at[t] = "setspecific" /\ b = ref[t])

InCall == {"load", "create", "cas", "delete", "getspecific", "init", "setspecific", "use"}

\* A thread leaves outside of all sets, and a destructor only looks.
Leaving(t) ==
  /\ at[t] \in {"exit", "gone"} \/ rounds[t] > 0 => stack[t] = <<>>
  /\ rounds[t] > 0 => /\ key # 0 /\ at[t] \notin {"out", "create", "cas", "delete"}
                      /\ at[t] \in InCall => op[t] = "get"
  /\ at[t] \in InCall /\ op[t] = "reset" => stack[t] # <<>>

\* The kept box holds what the innermost set installed, and each Reset what
\* the set around it did.
Nested(t) ==
  t \notin lost =>
    /\ Kept(t) # 0 => boxes[t][Kept(t)] = Innermost(t)
    /\ Kept(t) = 0 => stack[t] = <<>>
    /\ at[t] = "setspecific" => boxes[t][ref[t]] = 0
    /\ \A i \in 1 .. Len(stack[t]) :
         stack[t][i].previous = IF i = 1 THEN 0 ELSE stack[t][i - 1].value

Local(t) == Housed(t) /\ Leaving(t) /\ Nested(t)

BoxInv == KeyInv /\ BoxTypes /\ Spread /\ \A t \in Threads : Local(t)

\* What a thread has, as the other threads' steps leave it.
SameFor(u) ==
  /\ boxes'[u] = boxes[u] /\ freed'[u] = freed[u] /\ at'[u] = at[u] /\ op'[u] = op[u]
  /\ ref'[u] = ref[u] /\ stack'[u] = stack[u] /\ rounds'[u] = rounds[u]
  /\ (u \in lost' <=> u \in lost)
  /\ Kept(u)' = Kept(u)
  /\ key # 0 => key' # 0

\* A thread that nobody touched is as it was.
LEMMA Frame ==
  ASSUME NEW u \in Threads, Local(u), SameFor(u)
  PROVE  Local(u)'
<1>1. Innermost(u)' = Innermost(u)
  BY DEF SameFor, Innermost
<1> QED
  BY <1>1 DEF SameFor, Local, Housed, Leaving, Nested

\* A key that is not the published one has no box, so publishing one or making
\* another changes no thread's.
LEMMA KeyStepsKeepBoxes ==
  ASSUME KeyInv, BoxTypes, Spread, NEW t \in Threads,
         Load(t) \/ pthread_key_create(t) \/ KeyCreateFails(t) \/ CompareExchange(t) \/ KeyDelete(t)
  PROVE  /\ \A u \in Threads : Kept(u)' = Kept(u)
         /\ specific' \in [Keys -> [Threads -> Nat]]
         /\ Spread'
         /\ key # 0 => key' # 0
<1>1. /\ key \in Nat /\ live \subseteq Keys /\ mine[t] \in Int
      /\ key # 0 => key - 1 \in live /\ key - 1 \in Keys
  BY DEF KeyInv, KeyTypes, RaceInv
<1>2. CASE Load(t) \/ KeyCreateFails(t) \/ KeyDelete(t)
  <2>1. key' = key /\ specific' = specific
    BY <1>2 DEF Load, KeyCreateFails, KeyDelete, keys
  <2> QED
    BY <2>1 DEF Kept, Spread, BoxTypes
<1>3. CASE pthread_key_create(t)
  <2>1. PICK k \in Keys \ live : specific' = [specific EXCEPT ![k] = [u \in Threads |-> 0]]
    BY <1>3 DEF pthread_key_create
  <2>2. key' = key
    BY <1>3 DEF pthread_key_create
  <2>3. \A j \in Keys : specific'[j] = IF j = k THEN [u \in Threads |-> 0] ELSE specific[j]
    BY <2>1 DEF BoxTypes
  <2>4. specific' \in [Keys -> [Threads -> Nat]]
    BY <2>1 DEF BoxTypes
  <2> QED
    BY <1>1, <2>2, <2>3, <2>4 DEF Kept, Spread
<1>4. CASE CompareExchange(t)
  <2>1. mine[t] \in Keys /\ at[t] = "cas" /\ specific' = specific
    BY <1>4, <1>1 DEF CompareExchange, Go, KeyInv, RaceInv, Racing
  <2>2. CASE key = 0
    <3>1. key' = mine[t] + 1 /\ mine[t] \in Nat
      BY <1>4, <2>1, <2>2, ThreadLocalsAssumption DEF CompareExchange, Keys
    <3>2. \A k \in Keys : k \in Nat /\ \A u \in Threads : specific[k][u] = 0
      BY <2>2, ThreadLocalsAssumption DEF Spread, Keys
    <3> QED
      BY SMTT(30), <2>1, <2>2, <3>1, <3>2 DEF Kept, Spread, BoxTypes
  <2>3. CASE key # 0
    BY <1>4, <2>1, <2>3 DEF CompareExchange, Kept, Spread, BoxTypes
  <2> QED
    BY <2>2, <2>3
<1> QED
  BY <1>2, <1>3, <1>4

\* Steps that only walk through a call.
LEMMA WalkKeeps ==
  ASSUME BoxInv, NEW t \in Threads, Step(t),
         ~(NewBox(t) \/ SetSpecific(t) \/ SetSpecificFails(t) \/ Install(t) \/ Reset(t) \/ drop_box(t))
  PROVE  BoxTypes' /\ Spread' /\ \A u \in Threads : Local(u)'
<1>0. KeyInv /\ BoxTypes /\ Spread /\ \A u \in Threads : Local(u)
  BY DEF BoxInv
<1>a. at \in [Threads -> Places] /\ key \in Nat
  BY <1>0 DEF KeyInv, KeyTypes
<1>1. boxes' = boxes /\ freed' = freed /\ stack' = stack /\ rounds' = rounds /\ lost' = lost
  BY DEF Step, set, with, Return, Unwind, Call, Load, pthread_key_create, KeyCreateFails,
     CompareExchange, KeyDelete, GetSpecific, Get, Exit, Gone, thread
<1>2. /\ \A u \in Threads : Kept(u)' = Kept(u)
      /\ specific' \in [Keys -> [Threads -> Nat]]
      /\ Spread'
      /\ key # 0 => key' # 0
  <2>1. CASE Load(t) \/ pthread_key_create(t) \/ KeyCreateFails(t) \/ CompareExchange(t) \/ KeyDelete(t)
    BY <1>0, <2>1, KeyStepsKeepBoxes
  <2>2. CASE set(t) \/ with(t) \/ Return(t) \/ Unwind(t) \/ GetSpecific(t) \/ Get(t) \/ Exit(t) \/ Gone(t)
    <3>1. key' = key /\ specific' = specific
      BY <2>2 DEF set, with, Return, Unwind, Call, GetSpecific, Get, Exit, Gone, keys
    <3> QED
      BY <1>0, <3>1 DEF Kept, Spread, BoxTypes
  <2> QED
    BY <2>1, <2>2 DEF Step
<1>3. /\ op' \in [Threads -> {"none", "set", "get", "reset"}]
      /\ \A u \in Threads \ {t} : at'[u] = at[u] /\ op'[u] = op[u]
  BY <1>0, <1>a DEF BoxTypes, Step, set, with, Return, Unwind, Call, Go, Load, pthread_key_create,
     KeyCreateFails, CompareExchange, KeyDelete, GetSpecific, Get, Exit, Gone
<1>4. ref' \in [Threads -> Nat] /\ \A u \in Threads \ {t} : ref'[u] = ref[u]
  <2>1. CASE GetSpecific(t)
    <3>1. mine[t] \in Keys
      BY <1>0, <2>1 DEF GetSpecific, Go, KeyInv, KeyTypes, OneKey
    <3> QED
      BY <1>0, <2>1, <3>1 DEF GetSpecific, BoxTypes
  <2>2. CASE ~GetSpecific(t)
    <3>1. ref' = ref
      BY <2>2 DEF Step, set, with, Return, Unwind, Call, Load, pthread_key_create, KeyCreateFails,
         CompareExchange, KeyDelete, Get, Exit, Gone
    <3> QED
      BY <1>0, <3>1 DEF BoxTypes
  <2> QED
    BY <2>1, <2>2
<1>5. calls' \in [Threads -> Nat]
  <2>1. calls' = calls \/ calls' = [calls EXCEPT ![t] = @ + 1]
    BY DEF Step, set, with, Return, Unwind, Load, pthread_key_create, KeyCreateFails,
       CompareExchange, KeyDelete, GetSpecific, Get, Exit, Gone, thread
  <2>2. calls \in [Threads -> Nat]
    BY <1>0 DEF BoxTypes
  <2> QED
    BY <2>1, <2>2
<1>6. BoxTypes'
  BY <1>0, <1>1, <1>2, <1>3, <1>4, <1>5 DEF BoxTypes
<1>7. ASSUME NEW u \in Threads, u # t PROVE Local(u)'
  <2>1. SameFor(u)
    BY <1>1, <1>2, <1>3, <1>4, <1>7 DEF SameFor
  <2> QED
    BY <1>0, <2>1, Frame
<1>8. Local(t)'
  <2>1. Innermost(t)' = Innermost(t) /\ Kept(t)' = Kept(t) /\ Local(t)
    BY <1>0, <1>1, <1>2 DEF Innermost
  <2>2. at[t] \notin {"exit", "gone"} \/ stack[t] = <<>>
    BY <2>1 DEF Local, Leaving
  <2>3. CASE set(t) \/ with(t) \/ Return(t) \/ Unwind(t)
    <3>1. /\ at[t] = "out" /\ at'[t] = "load" /\ op'[t] \in {"set", "get", "reset"}
          /\ op'[t] = "reset" => stack[t] # <<>>
      BY <1>0, <1>a, <2>3 DEF set, with, Return, Unwind, Call, Go, BoxTypes
    <3> QED
      BY <1>0, <1>1, <1>2, <2>1, <3>1 DEF Local, Housed, Leaving, Nested, InCall
  <2>4. CASE Load(t) \/ pthread_key_create(t) \/ KeyCreateFails(t) \/ CompareExchange(t) \/ KeyDelete(t)
    <3>1. /\ at[t] \in {"load", "create", "cas", "delete"}
          /\ at'[t] \in {"getspecific", "create", "cas", "delete", "out"}
          /\ at[t] = "load" /\ key # 0 => at'[t] = "getspecific"
          /\ op'[t] = op[t]
      BY <1>a, <2>4 DEF Load, pthread_key_create, KeyCreateFails, CompareExchange, KeyDelete, Go
    <3> QED
      BY <1>0, <1>1, <1>2, <2>1, <3>1 DEF Local, Housed, Leaving, Nested, InCall
  <2>5. CASE GetSpecific(t)
    <3>1. mine[t] = key - 1 /\ key # 0
      BY <1>0, <2>5, UsersHaveAKey DEF GetSpecific, Go, KeyInv, KeyTypes, OneKey, Using
    <3>2. /\ at[t] = "getspecific" /\ ref'[t] = Kept(t) /\ op'[t] = op[t]
          /\ at'[t] = IF Kept(t) = 0 THEN "init" ELSE "use"
      BY <1>0, <1>a, <2>5, <3>1 DEF GetSpecific, Go, Kept, BoxTypes
    <3> QED
      BY <1>0, <1>1, <1>2, <2>1, <3>2 DEF Local, Housed, Leaving, Nested, InCall, BoxTypes
  <2>6. CASE Get(t)
    <3>1. /\ at[t] = "use" /\ op'[t] = op[t] /\ op[t] = "get"
          /\ at'[t] = IF rounds[t] > 0 THEN "exit" ELSE "out"
      BY <1>a, <2>6 DEF Get, Go, Done, Exiting
    <3> QED
      BY <1>0, <1>1, <1>2, <2>1, <3>1 DEF Local, Housed, Leaving, Nested, InCall, BoxTypes
  <2>7. CASE Exit(t)
    <3>1. at[t] = "out" /\ at'[t] = "exit" /\ stack[t] = <<>>
      BY <1>a, <2>7 DEF Exit, Go
    <3> QED
      BY <1>0, <1>1, <1>2, <2>1, <3>1 DEF Local, Housed, Leaving, Nested, InCall, BoxTypes
  <2>8. CASE Gone(t)
    <3>1. at[t] = "exit" /\ at'[t] = "gone" /\ (Boxed(t) = {} \/ rounds[t] = ITERATIONS)
      BY <1>a, <2>8 DEF Gone, Go
    <3>2. Boxed(t) = {} => Kept(t) = 0
      BY <1>0 DEF Boxed, Kept, KeyInv, KeyTypes, RaceInv
    <3> QED
      BY <1>0, <1>1, <1>2, <2>1, <3>1, <3>2 DEF Local, Housed, Leaving, Nested, InCall, BoxTypes
  <2> QED
    BY <2>3, <2>4, <2>5, <2>6, <2>7, <2>8 DEF Step
<1> QED
  BY <1>2, <1>6, <1>7, <1>8

\* ThreadLocal::with makes a box when the thread has none, ...
LEMMA NewBoxKeeps ==
  ASSUME BoxInv, NEW t \in Threads, NewBox(t)
  PROVE  BoxTypes' /\ Spread' /\ \A u \in Threads : Local(u)'
<1>0. KeyInv /\ BoxTypes /\ Spread /\ \A u \in Threads : Local(u)
  BY DEF BoxInv
<1>1. /\ at[t] = "init" /\ at' = [at EXCEPT ![t] = "setspecific"]
      /\ boxes' = [boxes EXCEPT ![t] = Append(@, 0)]
      /\ ref' = [ref EXCEPT ![t] = Len(boxes[t]) + 1]
      /\ UNCHANGED <<keys, specific, op, mine, theirs, freed, stack, calls, rounds, lost>>
  BY DEF NewBox, Go
<1>2. boxes[t] \in Seq(Nat) /\ Len(boxes[t]) \in Nat /\ at \in [Threads -> Places]
  BY <1>0, LenProperties DEF BoxTypes, KeyInv, KeyTypes
<1>3. /\ boxes'[t] \in Seq(Nat) /\ Len(boxes'[t]) = Len(boxes[t]) + 1
      /\ \A i \in 1 .. Len(boxes[t]) : boxes'[t][i] = boxes[t][i]
      /\ boxes'[t][Len(boxes[t]) + 1] = 0
  BY <1>0, <1>1, <1>2, AppendProperties DEF BoxTypes
<1>4. BoxTypes'
  BY <1>0, <1>1, <1>2, <1>3 DEF BoxTypes, keys
<1>5. Spread' /\ \A u \in Threads : Kept(u)' = Kept(u)
  BY <1>0, <1>1 DEF Spread, Kept, keys
<1>6. ASSUME NEW u \in Threads, u # t PROVE Local(u)'
  <2>1. SameFor(u)
    BY <1>0, <1>1, <1>2, <1>5, <1>6 DEF SameFor, BoxTypes, keys
  <2> QED
    BY <1>0, <2>1, Frame
<1>7. Local(t)'
  <2>1. /\ at'[t] = "setspecific" /\ ref'[t] = Len(boxes[t]) + 1 /\ Kept(t)' = Kept(t) /\ Kept(t) = 0
        /\ freed'[t] = freed[t] /\ freed[t] \subseteq 1 .. Len(boxes[t]) /\ stack'[t] = stack[t]
        /\ op'[t] = op[t] /\ rounds'[t] = rounds[t] /\ key' = key /\ lost' = lost
    BY <1>0, <1>1, <1>2, <1>5 DEF BoxTypes, Local, Housed, keys
  <2>2. Housed(t)'
    BY SMTT(30), <1>0, <1>1, <1>2, <1>3, <2>1 DEF Local, Housed
  <2>3. Leaving(t)'
    BY <1>0, <1>1, <2>1 DEF Local, Leaving, InCall
  <2>4. Nested(t)'
    BY <1>0, <1>1, <1>2, <1>3, <2>1 DEF Local, Nested, Innermost
  <2> QED
    BY <2>2, <2>3, <2>4 DEF Local
<1> QED
  BY <1>4, <1>5, <1>6, <1>7

\* ... keeps it under the key, ...
LEMMA SetSpecificKeeps ==
  ASSUME BoxInv, NEW t \in Threads, SetSpecific(t)
  PROVE  BoxTypes' /\ Spread' /\ \A u \in Threads : Local(u)'
<1>0. KeyInv /\ BoxTypes /\ Spread /\ \A u \in Threads : Local(u)
  BY DEF BoxInv
<1>1. /\ at[t] = "setspecific" /\ at' = [at EXCEPT ![t] = "use"]
      /\ specific' = [specific EXCEPT ![mine[t]][t] = ref[t]]
      /\ UNCHANGED <<keys, op, mine, theirs, ref, thread>>
  BY DEF SetSpecific, Go
<1>2. key # 0 /\ key \in Nat /\ mine[t] = key - 1 /\ key - 1 \in Keys /\ at \in [Threads -> Places]
  BY <1>0, <1>1, UsersHaveAKey DEF KeyInv, KeyTypes, OneKey, Using
<1>3. \A k \in Keys : \A u \in Threads :
        specific'[k][u] = IF k = key - 1 /\ u = t THEN ref[t] ELSE specific[k][u]
  BY <1>0, <1>1, <1>2 DEF BoxTypes
<1>4. BoxTypes'
  <2>1. specific' \in [Keys -> [Threads -> Nat]]
    BY <1>0, <1>1, <1>2 DEF BoxTypes
  <2> QED
    BY <1>0, <1>1, <2>1 DEF BoxTypes, thread
<1>5. Spread'
  BY <1>0, <1>1, <1>2, <1>3 DEF Spread, keys
<1>8. \A u \in Threads : Kept(u)' = IF u = t THEN ref[t] ELSE Kept(u)
  BY <1>1, <1>2, <1>3 DEF Kept, keys
<1>6. ASSUME NEW u \in Threads, u # t PROVE Local(u)'
  <2>1. SameFor(u)
    BY <1>0, <1>1, <1>2, <1>8, <1>6 DEF SameFor, BoxTypes, keys, thread
  <2> QED
    BY <1>0, <2>1, Frame
<1>7. Local(t)'
  <2>1. /\ at'[t] = "use" /\ Kept(t)' = ref[t] /\ Kept(t) = 0
        /\ boxes' = boxes /\ freed' = freed /\ stack' = stack /\ op' = op /\ rounds' = rounds
        /\ key' = key /\ lost' = lost /\ ref' = ref
        /\ ref[t] \in Nat /\ Len(boxes[t]) \in Nat
    BY <1>0, <1>1, <1>2, <1>8, LenProperties DEF BoxTypes, Local, Housed, keys, thread
  <2>2. Housed(t)'
    BY <1>0, <1>1, <2>1 DEF Local, Housed
  <2>3. Leaving(t)'
    BY <1>0, <1>1, <2>1 DEF Local, Leaving, InCall
  <2>4. Nested(t)'
    BY <1>0, <1>1, <2>1 DEF Local, Nested, Innermost
  <2> QED
    BY <2>2, <2>3, <2>4 DEF Local
<1> QED
  BY <1>4, <1>5, <1>6, <1>7

\* ... or loses it, when pthread_setspecific fails and nobody looks.
LEMMA SetSpecificFailsKeeps ==
  ASSUME BoxInv, NEW t \in Threads, SetSpecificFails(t)
  PROVE  BoxTypes' /\ Spread' /\ \A u \in Threads : Local(u)'
<1>0. KeyInv /\ BoxTypes /\ Spread /\ \A u \in Threads : Local(u)
  BY DEF BoxInv
<1>1. /\ at[t] = "setspecific" /\ at' = [at EXCEPT ![t] = "use"]
      /\ lost' = lost \cup {t}
      /\ UNCHANGED <<keys, specific, op, mine, theirs, ref, boxes, freed, stack, calls, rounds>>
  BY DEF SetSpecificFails, Go
<1>2. BoxTypes' /\ at \in [Threads -> Places]
  BY <1>0, <1>1 DEF BoxTypes, KeyInv, KeyTypes
<1>3. Spread' /\ \A u \in Threads : Kept(u)' = Kept(u)
  BY <1>0, <1>1 DEF Spread, Kept, keys
<1>4. ASSUME NEW u \in Threads, u # t PROVE Local(u)'
  <2>1. SameFor(u)
    BY <1>0, <1>1, <1>2, <1>3, <1>4 DEF SameFor, keys
  <2> QED
    BY <1>0, <2>1, Frame
<1>5. Local(t)'
  <2>1. t \in lost' /\ at'[t] = "use" /\ Kept(t)' = Kept(t) /\ key' = key
    BY <1>1, <1>2, <1>3 DEF keys
  <2> QED
    BY <1>0, <1>1, <2>1 DEF Local, Housed, Leaving, Nested, InCall
<1> QED
  BY <1>2, <1>3, <1>4, <1>5

\* A write to the box in use touches nothing else of the thread's boxes.
LEMMA WrittenBox ==
  ASSUME BoxInv, NEW t \in Threads, at[t] = "use", NEW v \in Nat,
         boxes' = [boxes EXCEPT ![t][ref[t]] = v]
  PROVE  /\ boxes' \in [Threads -> Seq(Nat)]
         /\ \A u \in Threads \ {t} : boxes'[u] = boxes[u]
         /\ Len(boxes'[t]) = Len(boxes[t])
         /\ boxes'[t][ref[t]] = v
<1>1. /\ boxes \in [Threads -> Seq(Nat)] /\ boxes[t] \in Seq(Nat)
      /\ ref[t] \in 1 .. Len(boxes[t])
  BY DEF BoxInv, BoxTypes, Local, Housed
<1>2. boxes'[t] = [boxes[t] EXCEPT ![ref[t]] = v]
  BY <1>1
<1>3. boxes'[t] \in Seq(Nat) /\ Len(boxes'[t]) = Len(boxes[t]) /\ boxes'[t][ref[t]] = v
  BY <1>1, <1>2, ExceptSeq
<1>4. boxes' = [boxes EXCEPT ![t] = boxes'[t]]
  BY <1>1
<1> QED
  BY <1>1, <1>3, <1>4

\* set remembers what the set around it installed, ...
LEMMA InstallKeeps ==
  ASSUME BoxInv, NEW t \in Threads, Install(t)
  PROVE  BoxTypes' /\ Spread' /\ \A u \in Threads : Local(u)'
<1>0. KeyInv /\ BoxTypes /\ Spread /\ \A u \in Threads : Local(u)
  BY DEF BoxInv
<1> DEFINE new == [value |-> calls[t], previous |-> boxes[t][ref[t]]]
<1>1. /\ at[t] = "use" /\ at' = [at EXCEPT ![t] = "out"] /\ op[t] = "set"
      /\ stack' = [stack EXCEPT ![t] = Append(@, new)]
      /\ boxes' = [boxes EXCEPT ![t][ref[t]] = calls[t]]
      /\ UNCHANGED <<keys, specific, op, mine, theirs, ref, freed, calls, rounds, lost>>
  BY DEF Install, Go
<1>2. /\ boxes[t] \in Seq(Nat) /\ stack[t] \in Seq(Frames) /\ calls[t] \in Nat
      /\ ref[t] \in 1 .. Len(boxes[t]) /\ at \in [Threads -> Places]
      /\ boxes[t][ref[t]] \in Nat /\ Len(stack[t]) \in Nat
  <2>1. boxes[t] \in Seq(Nat) /\ stack[t] \in Seq(Frames) /\ calls[t] \in Nat
        /\ ref[t] \in 1 .. Len(boxes[t]) /\ at \in [Threads -> Places]
    BY <1>0, <1>1 DEF BoxTypes, Local, Housed, KeyInv, KeyTypes
  <2> QED
    BY <2>1, ElementOfSeq, LenProperties
<1>3. new \in Frames
  BY <1>2 DEF Frames
<1>4. /\ boxes' \in [Threads -> Seq(Nat)]
      /\ \A u \in Threads \ {t} : boxes'[u] = boxes[u]
      /\ Len(boxes'[t]) = Len(boxes[t])
      /\ boxes'[t][ref[t]] = calls[t]
  BY <1>1, <1>2, WrittenBox
<1>5. /\ stack'[t] = Append(stack[t], new) /\ stack'[t] \in Seq(Frames)
      /\ Len(stack'[t]) = Len(stack[t]) + 1 /\ stack'[t] # <<>>
      /\ \A i \in 1 .. Len(stack[t]) : stack'[t][i] = stack[t][i]
      /\ stack'[t][Len(stack[t]) + 1] = new
  <2>1. stack'[t] = Append(stack[t], new)
    BY <1>0, <1>1 DEF BoxTypes
  <2> HIDE DEF new
  <2> QED
    BY SMTT(30), <1>2, <1>3, <2>1, AppendProperties
<1>6. BoxTypes'
  <2>1. stack' \in [Threads -> Seq(Frames)]
    <3> HIDE DEF new
    <3> QED
      BY <1>0, <1>1, <1>5 DEF BoxTypes
  <2> QED
    BY <1>0, <1>1, <1>4, <2>1 DEF BoxTypes
<1>7. Spread' /\ \A u \in Threads : Kept(u)' = Kept(u)
  BY <1>0, <1>1 DEF Spread, Kept, keys
<1>8. ASSUME NEW u \in Threads, u # t PROVE Local(u)'
  <2>1. SameFor(u)
    BY <1>0, <1>1, <1>2, <1>4, <1>7, <1>8 DEF SameFor, BoxTypes, keys
  <2> QED
    BY <1>0, <2>1, Frame
<1>9. Local(t)'
  <2>1. /\ at'[t] = "out" /\ Kept(t)' = Kept(t) /\ op'[t] = "set" /\ key' = key
        /\ freed' = freed /\ rounds' = rounds /\ lost' = lost /\ ref' = ref
    BY <1>1, <1>2, <1>7 DEF keys
  <2>2. Housed(t)'
    BY <1>0, <1>1, <1>4, <2>1 DEF Local, Housed
  <2>3. Leaving(t)'
    BY <1>0, <1>1, <1>2, <2>1 DEF Local, Leaving, InCall
  <2>4. Nested(t)'
    <3> SUFFICES ASSUME t \notin lost PROVE Nested(t)'
      BY <2>1 DEF Nested
    <3>1. ref[t] = Kept(t) /\ Kept(t) # 0 /\ boxes[t][ref[t]] = Innermost(t)
      BY <1>0, <1>1, <1>2 DEF Local, Housed, Nested
    <3>2. Innermost(t)' = calls[t]
      BY <1>2, <1>5 DEF Innermost
    <3>3. ASSUME NEW i \in 1 .. Len(stack'[t])
          PROVE  stack'[t][i].previous = IF i = 1 THEN 0 ELSE stack'[t][i - 1].value
      <4>1. CASE i \in 1 .. Len(stack[t])
        <5>1. stack[t][i].previous = IF i = 1 THEN 0 ELSE stack[t][i - 1].value
          BY <1>0, <4>1 DEF Local, Nested
        <5> QED
          BY <1>2, <1>5, <4>1, <5>1
      <4>2. CASE i = Len(stack[t]) + 1
        <5>1. stack'[t][i].previous = Innermost(t)
          BY <1>5, <3>1, <4>2
        <5>2. stack[t] = <<>> <=> i = 1
          BY <1>2, <4>2, EmptySeq
        <5> QED
          BY <1>2, <1>5, <4>2, <5>1, <5>2 DEF Innermost
      <4> QED
        BY <1>2, <1>5, <4>1, <4>2
    <3> QED
      BY <1>4, <2>1, <3>1, <3>2, <3>3 DEF Nested
  <2> QED
    BY <2>2, <2>3, <2>4 DEF Local
<1> QED
  BY <1>6, <1>7, <1>8, <1>9

\* ... and its Reset puts that back.
LEMMA ResetKeeps ==
  ASSUME BoxInv, NEW t \in Threads, Reset(t)
  PROVE  BoxTypes' /\ Spread' /\ \A u \in Threads : Local(u)'
<1>0. KeyInv /\ BoxTypes /\ Spread /\ \A u \in Threads : Local(u)
  BY DEF BoxInv
<1> DEFINE top == stack[t][Len(stack[t])]
<1>1. /\ at[t] = "use" /\ at' = [at EXCEPT ![t] = "out"] /\ op[t] = "reset"
      /\ stack' = [stack EXCEPT ![t] = SubSeq(@, 1, Len(@) - 1)]
      /\ boxes' = [boxes EXCEPT ![t][ref[t]] = top.previous]
      /\ UNCHANGED <<keys, specific, op, mine, theirs, ref, freed, calls, rounds, lost>>
  BY DEF Reset, Go
<1>2. /\ boxes[t] \in Seq(Nat) /\ stack[t] \in Seq(Frames) /\ stack[t] # <<>>
      /\ ref[t] \in 1 .. Len(boxes[t]) /\ at \in [Threads -> Places]
  BY <1>0, <1>1 DEF BoxTypes, Local, Housed, Leaving, InCall, KeyInv, KeyTypes
<1>3. Len(stack[t]) \in Nat /\ Len(stack[t]) > 0 /\ top \in Frames /\ top.previous \in Nat
  <2>1. Len(stack[t]) \in Nat /\ Len(stack[t]) > 0
    BY <1>2, LenProperties, EmptySeq
  <2>2. top \in Frames
    BY <1>2, <2>1, ElementOfSeq
  <2> QED
    BY <2>1, <2>2 DEF Frames
<1>4. /\ boxes' \in [Threads -> Seq(Nat)]
      /\ \A u \in Threads \ {t} : boxes'[u] = boxes[u]
      /\ Len(boxes'[t]) = Len(boxes[t])
      /\ boxes'[t][ref[t]] = top.previous
  <2> HIDE DEF top
  <2> QED
    BY <1>1, <1>3, WrittenBox
<1>5. /\ stack'[t] = SubSeq(stack[t], 1, Len(stack[t]) - 1) /\ stack'[t] \in Seq(Frames)
      /\ Len(stack'[t]) = Len(stack[t]) - 1
      /\ \A i \in 1 .. Len(stack[t]) - 1 : stack'[t][i] = stack[t][i]
  <2>1. stack'[t] = SubSeq(stack[t], 1, Len(stack[t]) - 1)
    BY <1>0, <1>1 DEF BoxTypes
  <2>2. \A i \in 1 .. Len(stack[t]) - 1 : stack[t][i] \in Frames
    BY <1>2, <1>3, ElementOfSeq
  <2>3. Len(stack[t]) - 1 \in Int /\ 1 \in Int
    BY <1>3
  <2>4. /\ SubSeq(stack[t], 1, Len(stack[t]) - 1) \in Seq(Frames)
        /\ Len(SubSeq(stack[t], 1, Len(stack[t]) - 1))
              = IF 1 <= Len(stack[t]) - 1 THEN Len(stack[t]) - 1 - 1 + 1 ELSE 0
        /\ \A i \in 1 .. Len(stack[t]) - 1 - 1 + 1 :
              SubSeq(stack[t], 1, Len(stack[t]) - 1)[i] = stack[t][1 + i - 1]
    BY <2>2, <2>3, SubSeqProperties
  <2> QED
    BY <1>3, <2>1, <2>4
<1>6. BoxTypes'
  <2>1. stack' \in [Threads -> Seq(Frames)]
    BY <1>0, <1>1, <1>5 DEF BoxTypes
  <2> QED
    BY <1>0, <1>1, <1>4, <2>1 DEF BoxTypes
<1>7. Spread' /\ \A u \in Threads : Kept(u)' = Kept(u)
  BY <1>0, <1>1 DEF Spread, Kept, keys
<1>8. ASSUME NEW u \in Threads, u # t PROVE Local(u)'
  <2>1. SameFor(u)
    BY <1>0, <1>1, <1>2, <1>4, <1>7, <1>8 DEF SameFor, BoxTypes, keys
  <2> QED
    BY <1>0, <2>1, Frame
<1>9. Local(t)'
  <2>1. /\ at'[t] = "out" /\ Kept(t)' = Kept(t) /\ op'[t] = "reset" /\ key' = key
        /\ freed' = freed /\ rounds' = rounds /\ lost' = lost /\ ref' = ref
    BY <1>1, <1>2, <1>7 DEF keys
  <2>2. Housed(t)'
    BY <1>0, <1>1, <1>4, <2>1 DEF Local, Housed
  <2>3. Leaving(t)'
    BY <1>0, <1>1, <1>2, <2>1 DEF Local, Leaving, InCall
  <2>4. Nested(t)'
    <3> SUFFICES ASSUME t \notin lost PROVE Nested(t)'
      BY <2>1 DEF Nested
    <3>1. ref[t] = Kept(t) /\ Kept(t) # 0
      BY <1>0, <1>1, <1>2 DEF Local, Housed
    <3>2. top.previous = IF Len(stack[t]) = 1 THEN 0 ELSE stack[t][Len(stack[t]) - 1].value
      <4>1. Len(stack[t]) \in 1 .. Len(stack[t])
        BY <1>3
      <4>2. \A i \in 1 .. Len(stack[t]) :
              stack[t][i].previous = IF i = 1 THEN 0 ELSE stack[t][i - 1].value
        BY <1>0 DEF Local, Nested
      <4> QED
        BY <4>1, <4>2
    <3>3. Innermost(t)' = top.previous
      <4>1. CASE Len(stack[t]) = 1
        <5>1. stack'[t] = <<>>
          BY <1>5, <4>1, EmptySeq
        <5> QED
          BY <3>2, <4>1, <5>1 DEF Innermost
      <4>2. CASE Len(stack[t]) # 1
        <5> HIDE DEF top
        <5>1. Len(stack'[t]) = Len(stack[t]) - 1 /\ Len(stack[t]) - 1 \in 1 .. Len(stack[t]) - 1
          <6>1. Len(stack'[t]) = Len(stack[t]) - 1
            BY <1>5
          <6>2. ASSUME NEW n \in Nat, n > 0, n # 1 PROVE n - 1 \in 1 .. n - 1
            BY <6>2
          <6>3. Len(stack[t]) \in Nat /\ Len(stack[t]) > 0
            BY <1>3
          <6> QED
            BY <4>2, <6>1, <6>2, <6>3
        <5>2. stack'[t][Len(stack'[t])] = stack[t][Len(stack[t]) - 1]
          <6>1. stack'[t][Len(stack[t]) - 1] = stack[t][Len(stack[t]) - 1]
            BY <1>5, <5>1
          <6> QED
            BY <5>1, <6>1
        <5>3. stack'[t] # <<>>
          <6>1. Len(stack'[t]) # 0
            BY <1>3, <4>2, <5>1
          <6> QED
            BY <6>1, EmptySeq
        <5> QED
          BY <3>2, <4>2, <5>2, <5>3 DEF Innermost
      <4> QED
        BY <4>1, <4>2
    <3>4. ASSUME NEW i \in 1 .. Len(stack'[t])
          PROVE  stack'[t][i].previous = IF i = 1 THEN 0 ELSE stack'[t][i - 1].value
      <4>1. stack[t][i].previous = IF i = 1 THEN 0 ELSE stack[t][i - 1].value
        BY <1>0, <1>3, <1>5 DEF Local, Nested
      <4> QED
        BY <1>3, <1>5, <4>1
    <3> QED
      BY <1>4, <2>1, <3>1, <3>3, <3>4 DEF Nested
  <2> QED
    BY <2>2, <2>3, <2>4 DEF Local
<1> QED
  BY <1>6, <1>7, <1>8, <1>9

\* The destructor frees the kept box, and no other.
LEMMA DropBoxKeeps ==
  ASSUME BoxInv, NEW t \in Threads, drop_box(t)
  PROVE  BoxTypes' /\ Spread' /\ \A u \in Threads : Local(u)'
<1>0. KeyInv /\ BoxTypes /\ Spread /\ \A u \in Threads : Local(u)
  BY DEF BoxInv
<1>1. PICK k \in Boxed(t), again \in BOOLEAN :
        /\ specific' = [specific EXCEPT ![k][t] = 0]
        /\ freed' = [freed EXCEPT ![t] = @ \cup {specific[k][t]}]
        /\ at[t] = "exit" /\ at' = [at EXCEPT ![t] = IF again THEN "load" ELSE "exit"]
        /\ op' = [op EXCEPT ![t] = "get"]
  BY DEF drop_box, Go
<1>2. /\ rounds' = [rounds EXCEPT ![t] = @ + 1]
      /\ UNCHANGED <<keys, mine, theirs, ref, boxes, stack, calls, lost>>
  BY DEF drop_box
<1>3. k \in Keys /\ key \in Nat /\ key = k + 1 /\ specific[k][t] = Kept(t) /\ Kept(t) # 0
  <2>1. k \in live /\ k \in Keys /\ specific[k][t] # 0 /\ key \in Nat
    BY <1>0 DEF Boxed, KeyInv, KeyTypes
  <2>2. key = k + 1 /\ k \in Int
    BY <1>0, <2>1, ThreadLocalsAssumption DEF Spread, Keys
  <2>3. key # 0 /\ key - 1 = k
    BY <2>1, <2>2, ThreadLocalsAssumption DEF Keys
  <2>4. Kept(t) = specific[k][t]
    BY <2>3 DEF Kept
  <2> QED
    BY <2>1, <2>2, <2>4
<1>4. k \in Int /\ key # 0 /\ key - 1 = k
  BY <1>3, ThreadLocalsAssumption DEF Keys
<1>5. \A j \in Keys : \A u \in Threads : specific'[j][u] = IF j = k /\ u = t THEN 0 ELSE specific[j][u]
  BY <1>0, <1>1, <1>3 DEF BoxTypes
<1>6. BoxTypes'
  <2>1. specific' \in [Keys -> [Threads -> Nat]]
    BY <1>0, <1>1, <1>3 DEF BoxTypes
  <2>2. specific[k][t] \in Nat /\ rounds[t] \in Nat
    BY <1>0, <1>3 DEF BoxTypes
  <2> QED
    BY <1>0, <1>1, <1>2, <2>1, <2>2 DEF BoxTypes
<1>7. Spread'
  BY <1>0, <1>2, <1>5 DEF Spread, keys
<1>8. \A u \in Threads : Kept(u)' = IF u = t THEN 0 ELSE Kept(u)
  BY <1>2, <1>3, <1>4, <1>5 DEF Kept, keys
<1>9. at \in [Threads -> Places]
  BY <1>0 DEF KeyInv, KeyTypes
<1>10. ASSUME NEW u \in Threads, u # t PROVE Local(u)'
  <2>1. SameFor(u)
    BY <1>0, <1>1, <1>2, <1>8, <1>9, <1>10 DEF SameFor, BoxTypes, keys
  <2> QED
    BY <1>0, <2>1, Frame
<1>11. Local(t)'
  <2>1. /\ at[t] = "exit" /\ at'[t] \in {"load", "exit"} /\ op'[t] = "get"
        /\ Kept(t)' = 0 /\ freed'[t] = freed[t] \cup {Kept(t)}
        /\ rounds'[t] = rounds[t] + 1 /\ rounds[t] \in Nat
        /\ boxes' = boxes /\ stack' = stack /\ ref' = ref /\ lost' = lost /\ key' = key
    BY <1>0, <1>1, <1>2, <1>3, <1>8, <1>9 DEF BoxTypes, keys
  <2>2. stack[t] = <<>> /\ Kept(t) \in (0 .. Len(boxes[t])) \ freed[t] /\ Len(boxes[t]) \in Nat
    BY <1>0, <2>1, LenProperties DEF Local, Leaving, Housed, BoxTypes
  <2>3. Housed(t)'
    BY <1>0, <1>3, <2>1, <2>2 DEF Local, Housed
  <2>4. Leaving(t)'
    BY <1>0, <1>4, <2>1, <2>2 DEF Local, Leaving, InCall
  <2>5. Nested(t)'
    BY <1>0, <2>1, <2>2 DEF Local, Nested, Innermost
  <2> QED
    BY <2>3, <2>4, <2>5 DEF Local
<1> QED
  BY <1>6, <1>7, <1>10, <1>11

\* At first there are no boxes, ...
LEMMA InitBoxes == Init => BoxInv
<1> SUFFICES ASSUME Init PROVE BoxInv
  OBVIOUS
<1>1. KeyInv
  BY InitKeys
<1>2. BoxTypes /\ Spread
  BY DEF Init, BoxTypes, Spread
<1>3. ASSUME NEW t \in Threads PROVE Local(t)
  <2>1. /\ boxes[t] = <<>> /\ Len(boxes[t]) = 0 /\ stack[t] = <<>> /\ Len(stack[t]) = 0 /\ freed[t] = {}
        /\ at[t] = "out" /\ op[t] = "none" /\ rounds[t] = 0 /\ Kept(t) = 0
    BY DEF Init, Kept
  <2> QED
    BY <2>1 DEF Local, Housed, Leaving, Nested, InCall
<1> QED
  BY <1>1, <1>2, <1>3 DEF BoxInv

\* ... and every step keeps them in order.
LEMMA NextBoxes == BoxInv /\ [Next]_vars => BoxInv'
<1> SUFFICES ASSUME BoxInv, [Next]_vars PROVE BoxInv'
  OBVIOUS
<1>1. KeyInv'
  BY NextKeys DEF BoxInv
<1>2. ASSUME NEW t \in Threads, Step(t)
      PROVE  BoxTypes' /\ Spread' /\ \A u \in Threads : Local(u)'
  BY <1>2, WalkKeeps, NewBoxKeeps, SetSpecificKeeps, SetSpecificFailsKeeps, InstallKeeps, ResetKeeps,
     DropBoxKeeps
<1>3. CASE UNCHANGED vars
  <2>1. BoxTypes /\ Spread /\ \A u \in Threads : Local(u) /\ SameFor(u)
    BY <1>3 DEF BoxInv, SameFor, Kept, vars
  <2>2. \A u \in Threads : Local(u)'
    BY <2>1, Frame
  <2>3. BoxTypes' /\ Spread'
    BY <1>3, <2>1 DEF BoxTypes, Spread, vars
  <2> QED
    BY <1>1, <2>2, <2>3 DEF BoxInv
<1> QED
  BY <1>1, <1>2, <1>3 DEF BoxInv, Next, Ended

\* However sets nest, return and unwind, a thread finds in its box what the
\* innermost set it is still in has installed.
THEOREM InnermostTheorem == Spec => []SeesTheInnermost
<1>1. BoxInv => SeesTheInnermost
  BY DEF BoxInv, SeesTheInnermost, Local, Housed, Nested
<1> QED
  BY InitBoxes, NextBoxes, <1>1, PTL DEF Spec

\* No box is used or kept once it is freed, and a thread leaves none behind,
\* unless pthread_setspecific failed it or its destructors went on to the end.
THEOREM BoxesTheorem == Spec => []BoxesAreFreed
<1>1. BoxInv => BoxesAreFreed
  <2> SUFFICES ASSUME BoxInv, NEW t \in Threads
               PROVE  /\ at[t] = "use" => ref[t] \notin freed[t]
                      /\ \A k \in live : specific[k][t] \notin freed[t]
                      /\ at[t] = "gone" => \/ freed[t] = 1 .. Len(boxes[t])
                                           \/ t \in lost
                                           \/ rounds[t] = ITERATIONS
    BY DEF BoxesAreFreed
  <2>1. Housed(t) /\ Spread /\ live \subseteq Keys /\ key \in Nat /\ Len(boxes[t]) \in Nat
    BY LenProperties DEF BoxInv, Local, KeyInv, KeyTypes, BoxTypes
  <2>2. ASSUME NEW k \in live PROVE specific[k][t] \notin freed[t]
    <3>1. specific[k][t] = 0 \/ key = k + 1
      BY <2>1 DEF Spread
    <3>2. key = k + 1 => specific[k][t] = Kept(t)
      BY <2>1, ThreadLocalsAssumption DEF Kept, Keys
    <3> QED
      BY <2>1, <3>1, <3>2 DEF Housed
  <2>3. ASSUME at[t] = "gone", t \notin lost, rounds[t] # ITERATIONS PROVE freed[t] = 1 .. Len(boxes[t])
    <3>1. Kept(t) = 0
      BY <2>1, <2>3 DEF Housed
    <3>2. \A b \in 1 .. Len(boxes[t]) : b \in freed[t] \/ b = Kept(t)
      BY <2>1, <2>3 DEF Housed
    <3>3. \A b \in 1 .. Len(boxes[t]) : b # 0
      BY <2>1
    <3>4. freed[t] \subseteq 1 .. Len(boxes[t])
      BY <2>1 DEF Housed
    <3> QED
      BY <3>1, <3>2, <3>3, <3>4
  <2> QED
    BY <2>1, <2>2, <2>3 DEF Housed
<1> QED
  BY InitBoxes, NextBoxes, <1>1, PTL DEF Spec
=============================================================================
