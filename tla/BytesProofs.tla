----------------------------- MODULE BytesProofs -----------------------------
(***************************************************************************)
(* Proofs about bytes: Signals, Streams (any number of bytes, any text and *)
(* any sizes of what the kernel and the readers hold) and Environment (any *)
(* names, values and entries).                                             *)
(***************************************************************************)
EXTENDS Signals, Streams, Environment,
        FiniteSetTheorems, SequenceTheorems, WellFoundedInduction, TLAPS

-----------------------------------------------------------------------------
(***************************************************************************)
(* Signals: src/signal.rs                                                  *)
(***************************************************************************)
InstallStages == {"pipe", "publish", "sigaction", "done", "err"}

\* No handler is installed before the descriptor it writes to is published, and
\* none is taken away; so a handler that runs has a descriptor, and what it
\* tells the reader is in the pipe, or the pipe is full.
SignalInv ==
  /\ stage \in InstallStages /\ toInstall \subseteq Signal /\ WRITE_END \in BOOLEAN
  /\ disposition \in [Signal -> {"default", "note"}]
  /\ handler \in [Signal -> {"idle", "read", "write"}]
  /\ saw \in [Signal -> BOOLEAN]
  /\ pipe \in Seq(Signal)
  /\ stage \in {"sigaction", "done"} => WRITE_END
  /\ \A s \in Signal :
       /\ disposition[s] = "note" => WRITE_END
       /\ handler[s] # "idle" => disposition[s] = "note"
       /\ handler[s] = "write" => saw[s]
       /\ stage = "sigaction" => s \in toInstall \/ disposition[s] = "note"
       /\ stage = "done" => disposition[s] = "note"
  /\ stage = "done" => alive
  /\ StopIsNotLost

\* install, the kernel, note and recv keep it.
LEMMA NextSignalInv == SignalInv /\ [Next]_vars => SignalInv'
<1> SUFFICES ASSUME SignalInv, [Next]_vars PROVE SignalInv'
  OBVIOUS
<1> USE DEF SignalInv, InstallStages, StopIsNotLost, install_vars, kernel_vars, note_vars, read_vars
<1>1. CASE MakePipe \/ Fail("pipe") \/ Fail("sigaction")
  BY <1>1 DEF MakePipe, Fail
<1>2. CASE Publish(Signal)
  BY <1>2 DEF Publish
<1>3. CASE Sigaction
  BY <1>3 DEF Sigaction
<1>4. ASSUME NEW s \in Signal, Raise(s) PROVE SignalInv'
  BY <1>4 DEF Raise
<1>5. ASSUME NEW s \in Signal, Deliver(s) PROVE SignalInv'
  BY <1>5 DEF Deliver
<1>6. ASSUME NEW s \in Signal, NoteReads(s) PROVE SignalInv'
  BY <1>6 DEF NoteReads
<1>7. ASSUME NEW s \in Signal, note(s) PROVE SignalInv'
  <2>1. saw[s] /\ handler' = [handler EXCEPT ![s] = "idle"]
    BY <1>7 DEF note
  <2>2. pipe' \in Seq(Signal) /\ pipe' # <<>>
    <3>1. CASE Len(pipe) < PipeCap
      BY <1>7, <2>1, <3>1 DEF note
    <3>2. CASE ~(Len(pipe) < PipeCap)
      <4>1. pipe' = pipe /\ Len(pipe) > 0
        BY <1>7, <3>2, SignalsAssumption DEF note
      <4> QED
        BY <4>1
    <3> QED
      BY <3>1, <3>2
  <2> QED
    BY <1>7, <2>1, <2>2 DEF note
<1>8. CASE recv
  <2>1. pipe' \in Seq(Signal)
    <3>1. BufLen + 1 \in Nat \ {0} /\ Len(pipe) \in Nat
      BY SignalsAssumption
    <3> QED
      BY <1>8, <3>1 DEF recv
  <2> QED
    BY <1>8, <2>1 DEF recv
<1>9. CASE UNCHANGED vars
  BY <1>9 DEF vars
<1> QED
  BY <1>1, <1>2, <1>3, <1>4, <1>5, <1>6, <1>7, <1>8, <1>9 DEF Next, InstallNext, HandlerNext

\* It holds before install.
LEMMA SignalsHold == Spec => []SignalInv
<1>1. Init => SignalInv
  <2> SUFFICES ASSUME Init PROVE SignalInv
    OBVIOUS
  <2>1. WRITE_END \in BOOLEAN /\ saw \in [Signal -> BOOLEAN]
    BY Zenon DEF Init
  <2>2. pipe \in Seq(Signal)
    BY DEF Init
  <2>3. /\ disposition \in [Signal -> {"default", "note"}] /\ handler \in [Signal -> {"idle", "read", "write"}]
        /\ \A s \in Signal : disposition[s] = "default" /\ handler[s] = "idle"
    BY DEF Init
  <2> QED
    BY <2>1, <2>2, <2>3 DEF Init, SignalInv, InstallStages, StopIsNotLost
<1> QED
  BY <1>1, NextSignalInv, PTL DEF Spec

\* Once note has run there is a byte in the pipe until recv answers, also when
\* its write found the pipe full: for any signals, pipe and buffer.
THEOREM NotLostTheorem == Spec => []StopIsNotLost
<1>1. SignalInv => StopIsNotLost
  BY DEF SignalInv
<1> QED
  BY <1>1, SignalsHold, PTL

\* Once Signals::install has returned Ok no signal of Signal::ALL takes its
\* default course and ends the process.
THEOREM HandledTheorem == Spec => SignalsAreHandled
<1>1. SignalInv /\ [Next]_vars => [stage = "done" => alive']_vars
  <2> SUFFICES ASSUME SignalInv, Next, stage = "done" PROVE alive'
    OBVIOUS
  <2>1. ASSUME NEW s \in Signal, Deliver(s) PROVE alive'
    BY <2>1 DEF SignalInv, Deliver
  <2> QED
    BY <2>1 DEF SignalInv, Next, InstallNext, HandlerNext, MakePipe, Publish, Sigaction, Fail, recv, Raise,
                NoteReads, note, kernel_vars
<1> QED
  BY <1>1, SignalsHold, PTL DEF Spec, SignalsAreHandled

-----------------------------------------------------------------------------
(***************************************************************************)
(* Induction, and what FoldLeft is                                         *)
(***************************************************************************)
\* Induction on numbers, as a fact about a set: the library's takes an operator.
LEMMA SetInduction ==
  ASSUME NEW T \in SUBSET Nat, 0 \in T, \A n \in T : n + 1 \in T
  PROVE  T = Nat
<1> SUFFICES ASSUME T # Nat PROVE FALSE
  OBVIOUS
<1> DEFINE R == {ss \in Nat \X Nat : ss[1] < ss[2]}
           U == Nat \ T
<1>1. IsWellFoundedOn(R, Nat)
  BY NatLessThanWellFounded DEF OpToRel
<1>2. PICK x \in U : \A y \in U : <<y, x>> \notin R
  <2>1. U # {} /\ U \subseteq Nat
    OBVIOUS
  <2> HIDE DEF R, U
  <2> QED  BY <1>1, <2>1, WFMin
<1>3. x - 1 \in Nat /\ (x - 1) + 1 = x /\ x - 1 < x
  BY <1>2
<1>4. x - 1 \notin U
  BY <1>2, <1>3
<1> QED  BY <1>2, <1>3, <1>4

\* The kernel takes no more than there is.
LEMMA LeastOfTwo ==
  ASSUME NEW a \in Int, NEW b \in Int
  PROVE  Min({a, b}) <= a /\ Min({a, b}) <= b /\ Min({a, b}) \in Int
<1>1. \E x \in {a, b} : \A y \in {a, b} : x <= y
  <2>1. CASE a <= b
    BY <2>1
  <2>2. CASE ~(a <= b)
    BY <2>2
  <2> QED  BY <2>1, <2>2
<1> QED  BY <1>1 DEF Min

\* What FoldLeft is, for a step that is a function.
Turn(iter, step, base, s, t) ==
  IF t = {} THEN base ELSE step[<<iter[t \ {Max(t)}], s[Max(t)]>>]

LEMMA GreatestIsMax ==
  ASSUME NEW t \in SUBSET Int, NEW n \in t, \A m \in t : m <= n
  PROVE  Max(t) = n
<1>1. \E x \in t : \A y \in t : x >= y
  OBVIOUS
<1>2. Max(t) \in t /\ \A y \in t : Max(t) >= y
  BY <1>1 DEF Max
<1>3. Max(t) \in Int /\ n \in Int
  BY <1>2
<1> QED  BY <1>2, <1>3

\* What a fold starts with and does is in X, over elements in B.
FoldsIn(X, B, step, base) == base \in X /\ step \in [X \X B -> X]

Turns(iter, X, step, base, s) ==
  /\ iter \in [SUBSET DOMAIN s -> X]
  /\ \A t \in SUBSET DOMAIN s : iter[t] = Turn(iter, step, base, s, t)

LEMMA TurnsExist ==
  ASSUME NEW X, NEW B, NEW step, NEW base, FoldsIn(X, B, step, base), NEW s \in Seq(B)
  PROVE  \E iter : Turns(iter, X, step, base, s)
<1> USE DEF FoldsIn
<1> DEFINE Is(n, iter) == /\ iter \in [SUBSET (1..n) -> X]
                          /\ \A t \in SUBSET (1..n) : iter[t] = Turn(iter, step, base, s, t)
           T == {n \in Nat : n <= Len(s) => \E iter : Is(n, iter)}
<1>1. 0 \in T
  <2> DEFINE iter == [t \in SUBSET (1..0) |-> base]
  <2>1. \A t \in SUBSET (1..0) : t = {}
    OBVIOUS
  <2>2. Is(0, iter)
    BY <2>1 DEF Turn
  <2> QED  BY <2>2
<1>2. ASSUME NEW n \in T PROVE n + 1 \in T
  <2>a. n \in Nat /\ n + 1 \in Nat
    OBVIOUS
  <2> SUFFICES ASSUME n + 1 <= Len(s) PROVE \E iter : Is(n + 1, iter)
    BY <2>a
  <2>1. n \in Nat /\ Len(s) \in Nat /\ n <= Len(s) /\ s[n + 1] \in B
    OBVIOUS
  <2>2. PICK f : Is(n, f)
    BY <2>1
  <2> DEFINE g == [t \in SUBSET (1..(n + 1)) |->
                     IF n + 1 \in t THEN step[<<f[t \ {n + 1}], s[n + 1]>>] ELSE f[t]]
  <2>3. ASSUME NEW t \in SUBSET (1..(n + 1))
        PROVE  /\ g[t] \in X
               /\ n + 1 \in t => t \ {n + 1} \in SUBSET (1..n) /\ Max(t) = n + 1
                                 /\ g[t] = step[<<f[t \ {n + 1}], s[n + 1]>>]
               /\ n + 1 \notin t => t \in SUBSET (1..n) /\ g[t] = f[t]
    <3>1. CASE n + 1 \in t
      <4>0. n \in Nat /\ \A m \in t : m \in 1..(n + 1)
        BY <2>1
      <4>1. t \ {n + 1} \in SUBSET (1..n) /\ \A m \in t : m <= n + 1
        BY ONLY <4>0
      <4>2. Max(t) = n + 1
        BY <3>1, <4>1, GreatestIsMax
      <4>3. f[t \ {n + 1}] \in X
        BY <2>2, <4>1
      <4> QED  BY <3>1, <4>1, <4>2, <4>3, <2>1
    <3>2. CASE n + 1 \notin t
      <4>1. t \in SUBSET (1..n)
        BY <3>2, <2>1
      <4> QED  BY <3>2, <4>1, <2>2
    <3> QED  BY <3>1, <3>2
  <2> HIDE DEF g
  <2>4. ASSUME NEW t \in SUBSET (1..n)
        PROVE  g[t] = f[t]
    <3>1. n + 1 \notin t /\ t \in SUBSET (1..(n + 1))
      BY <2>1
    <3> QED  BY <2>3, <3>1
  <2>5. ASSUME NEW t \in SUBSET (1..(n + 1))
        PROVE  g[t] = Turn(g, step, base, s, t)
    <3>1. CASE n + 1 \in t
      <4>1. g[t \ {n + 1}] = f[t \ {n + 1}] /\ Max(t) = n + 1 /\ t # {}
        BY <3>1, <2>3, <2>4
      <4> QED  BY <3>1, <4>1, <2>3 DEF Turn
    <3>2. CASE n + 1 \notin t
      <4>1. t \in SUBSET (1..n) /\ g[t] = f[t] /\ f[t] = Turn(f, step, base, s, t)
        BY <3>2, <2>2, <2>3
      <4>2. t \ {Max(t)} \in SUBSET (1..n)
        BY <4>1
      <4>3. g[t \ {Max(t)}] = f[t \ {Max(t)}]
        BY <4>2, <2>4
      <4> QED  BY <4>1, <4>3 DEF Turn
    <3> QED  BY <3>1, <3>2
  <2>6. g \in [SUBSET (1..(n + 1)) -> X]
    BY <2>3 DEF g
  <2> QED  BY <2>5, <2>6
<1>3. T = Nat
  <2>1. T \subseteq Nat
    OBVIOUS
  <2> HIDE DEF T
  <2> QED  BY <1>1, <1>2, <2>1, SetInduction
<1>4. DOMAIN s = 1..Len(s) /\ Len(s) \in Nat
  OBVIOUS
<1>5. PICK iter : Is(Len(s), iter)
  <2>1. \A n \in Nat : n <= Len(s) => \E iter : Is(n, iter)
    BY <1>3
  <2>2. Len(s) \in Nat /\ Len(s) <= Len(s)
    BY <1>4
  <2> HIDE DEF Is
  <2> QED  BY <2>1, <2>2
<1> QED  BY <1>4, <1>5 DEF Turns

\* The fold, turn by turn: what it has after each element.
Chain(c, step, base, s) ==
  c[0] = base /\ \A k \in 1..Len(s) : c[k] = step[<<c[k - 1], s[k]>>]
Folded(step, base, s) == (CHOOSE c : Chain(c, step, base, s))[Len(s)]

\* The first k positions without the last of them.
LEMMA FirstOnes ==
  ASSUME NEW k \in Nat \ {0}
  PROVE  /\ k - 1 \in Nat /\ Max(1..k) = k /\ (1..k) \ {k} = 1..(k - 1)
         /\ 1..k # {}
<1>1. 1..k \in SUBSET Int /\ k \in 1..k /\ \A m \in 1..k : m <= k
  OBVIOUS
<1>2. Max(1..k) = k
  BY <1>1, GreatestIsMax
<1> QED  BY <1>1, <1>2

LEMMA GreatestIsIn ==
  ASSUME NEW n \in Nat, NEW t \in SUBSET (1..n), t # {}
  PROVE  Max(t) \in t /\ \A m \in t : m <= Max(t)
<1> DEFINE T == {k \in Nat : \A u \in SUBSET (1..k) : u # {} => \E x \in u : \A y \in u : x >= y}
<1>1. 0 \in T
  <2>1. \A u \in SUBSET (1..0) : u = {}
    OBVIOUS
  <2> QED  BY <2>1
<1>2. ASSUME NEW k \in T PROVE k + 1 \in T
  <2>1. ASSUME NEW u \in SUBSET (1..(k + 1)), u # {}
        PROVE  \E x \in u : \A y \in u : x >= y
    <3>1. CASE k + 1 \in u
      BY <3>1
    <3>2. CASE k + 1 \notin u
      <4>1. u \in SUBSET (1..k)
        BY <3>2
      <4> QED  BY <2>1, <4>1
    <3> QED  BY <3>1, <3>2
  <2> QED  BY <2>1
<1>3. T = Nat
  <2>1. T \subseteq Nat
    OBVIOUS
  <2> HIDE DEF T
  <2> QED  BY <1>1, <1>2, <2>1, SetInduction
<1>4. \E x \in t : \A y \in t : x >= y
  BY <1>3
<1> QED  BY <1>4 DEF Max

LEMMA ChainExists ==
  ASSUME NEW X, NEW B, NEW step, NEW base, FoldsIn(X, B, step, base), NEW s \in Seq(B)
  PROVE  \E c : Chain(c, step, base, s)
<1>1. DOMAIN s = 1..Len(s) /\ Len(s) \in Nat
  OBVIOUS
<1>2. PICK iter : Turns(iter, X, step, base, s)
  BY TurnsExist
<1> DEFINE c == [k \in 0..Len(s) |-> iter[1..k]]
<1>3. c[0] = base
  <2>1. {} \in SUBSET DOMAIN s /\ 1..0 = {} /\ 0 \in 0..Len(s)
    BY <1>1
  <2> QED  BY <1>2, <2>1 DEF Turn, Turns
<1>4. ASSUME NEW k \in 1..Len(s)
      PROVE  c[k] = step[<<c[k - 1], s[k]>>]
  <2>1. k \in 0..Len(s) /\ k - 1 \in 0..Len(s) /\ 1..k \in SUBSET DOMAIN s /\ k \in Nat \ {0}
    BY <1>1
  <2>2. iter[1..k] = Turn(iter, step, base, s, 1..k)
    BY <1>2, <2>1 DEF Turns
  <2> QED  BY <2>1, <2>2, FirstOnes DEF Turn
<1> HIDE DEF c
<1> QED  BY <1>3, <1>4 DEF Chain

\* Two such chains do not differ, and have their elements where step has its.
ChainIn(c, X, step, base, s) ==
  c[0] = base /\ \A k \in 1..Len(s) : c[k - 1] \in X => c[k] = step[<<c[k - 1], s[k]>>]

LEMMA ChainsAgree ==
  ASSUME NEW X, NEW B, NEW step, NEW base, FoldsIn(X, B, step, base), NEW s \in Seq(B),
         NEW c, ChainIn(c, X, step, base, s), NEW d, ChainIn(d, X, step, base, s)
  PROVE  c[Len(s)] = d[Len(s)] /\ c[Len(s)] \in X /\ Chain(c, step, base, s)
<1> USE DEF FoldsIn
<1> DEFINE n == Len(s)
           T == {k \in Nat : k <= n => c[k] = d[k] /\ c[k] \in X}
<1>0. /\ n \in Nat /\ \A k \in 1..n : s[k] \in B
      /\ c[0] = base /\ \A k \in 1..n : c[k - 1] \in X => c[k] = step[<<c[k - 1], s[k]>>]
      /\ d[0] = base /\ \A k \in 1..n : d[k - 1] \in X => d[k] = step[<<d[k - 1], s[k]>>]
  BY DEF ChainIn
<1> HIDE DEF n
<1>1. 0 \in T
  BY <1>0
<1>2. ASSUME NEW k \in T PROVE k + 1 \in T
  <2>1. CASE k + 1 <= n
    <3>1. k \in Nat /\ k <= n /\ k + 1 \in 1..n /\ (k + 1) - 1 = k
      BY <2>1, <1>0
    <3>2. c[k] = d[k] /\ c[k] \in X /\ s[k + 1] \in B
      BY <3>1, <1>0
    <3>3. c[k + 1] = step[<<c[k], s[k + 1]>>] /\ d[k + 1] = step[<<c[k], s[k + 1]>>]
      BY <3>1, <3>2, <1>0
    <3>4. step[<<c[k], s[k + 1]>>] \in X
      BY <3>2
    <3> QED  BY <3>1, <3>3, <3>4
  <2> QED  BY <2>1
<1>3. T = Nat
  <2>1. T \subseteq Nat
    OBVIOUS
  <2> HIDE DEF T
  <2> QED  BY <1>1, <1>2, <2>1, SetInduction
<1>4. \A k \in Nat : k <= n => c[k] = d[k] /\ c[k] \in X
  BY <1>3
<1>5. ASSUME NEW k \in 1..n PROVE c[k] = step[<<c[k - 1], s[k]>>]
  <2>1. k - 1 \in Nat /\ k - 1 <= n
    BY <1>0
  <2> QED  BY <2>1, <1>0, <1>4
<1>6. Chain(c, step, base, s)
  BY <1>0, <1>5 DEF Chain, n
<1>7. c[n] = d[n] /\ c[n] \in X
  BY <1>0, <1>4
<1> QED  BY <1>6, <1>7 DEF n

LEMMA FoldedIs ==
  ASSUME NEW X, NEW B, NEW step, NEW base, FoldsIn(X, B, step, base), NEW s \in Seq(B),
         NEW c, ChainIn(c, X, step, base, s)
  PROVE  Folded(step, base, s) = c[Len(s)] /\ c[Len(s)] \in X
<1> DEFINE d == CHOOSE e : Chain(e, step, base, s)
<1>1. Chain(d, step, base, s)
  BY ChainExists
<1> HIDE DEF d
<1>2. ChainIn(d, X, step, base, s)
  BY <1>1 DEF Chain, ChainIn
<1>3. c[Len(s)] = d[Len(s)] /\ c[Len(s)] \in X
  BY <1>2, ChainsAgree
<1> QED  BY <1>3 DEF Folded, d

\* One element more is one step more.
LEMMA FoldedGrows ==
  ASSUME NEW X, NEW B, NEW step, NEW base, FoldsIn(X, B, step, base), NEW s \in Seq(B)
  PROVE  /\ Folded(step, base, s) \in X
         /\ Folded(step, base, <<>>) = base
         /\ \A b \in B : Folded(step, base, Append(s, b)) = step[<<Folded(step, base, s), b>>]
<1>1. Folded(step, base, <<>>) = base
  <2> DEFINE c == [k \in {0} |-> base]
             none == <<>>
  <2>1. none \in Seq(B) /\ Len(none) = 0 /\ c[0] = base
    OBVIOUS
  <2> HIDE DEF c, none
  <2>2. ChainIn(c, X, step, base, none)
    BY <2>1 DEF ChainIn
  <2>3. Folded(step, base, none) = c[Len(none)]
    <3>1. FoldsIn(X, B, step, base) /\ none \in Seq(B)
      BY <2>1
    <3> QED  BY ONLY <3>1, <2>2, FoldedIs
  <2> QED  BY <2>1, <2>3 DEF none
<1>2. PICK c : Chain(c, step, base, s)
  BY ChainExists
<1>3. Folded(step, base, s) = c[Len(s)] /\ c[Len(s)] \in X
  <2>1. ChainIn(c, X, step, base, s)
    BY <1>2 DEF Chain, ChainIn
  <2> QED  BY <2>1, FoldedIs
<1>4. ASSUME NEW b \in B
      PROVE  Folded(step, base, Append(s, b)) = step[<<Folded(step, base, s), b>>]
  <2> DEFINE l == Len(s)
             more == Append(s, b)
             d == [k \in 0..(l + 1) |-> IF k = l + 1 THEN step[<<c[l], b>>] ELSE c[k]]
  <2>1. /\ l \in Nat /\ more \in Seq(B) /\ Len(more) = l + 1 /\ more[l + 1] = b
        /\ \A k \in 1..l : more[k] = s[k]
    BY AppendProperties
  <2>2. d[l + 1] = step[<<c[l], b>>] /\ \A k \in 0..l : d[k] = c[k]
    BY <2>1
  <2> HIDE DEF d, more
  <2>3. ASSUME NEW k \in 1..(l + 1)
        PROVE  d[k] = step[<<d[k - 1], more[k]>>]
    <3>1. CASE k = l + 1
      <4>1. k - 1 = l /\ l \in 0..l
        BY <2>1, <3>1
      <4> QED  BY <2>1, <2>2, <3>1, <4>1
    <3>2. CASE k \in 1..l
      <4>1. k \in 0..l /\ k - 1 \in 0..l
        BY <2>1, <3>2
      <4>2. c[k] = step[<<c[k - 1], s[k]>>]
        BY <1>2, <3>2 DEF Chain
      <4> QED  BY <2>1, <2>2, <3>2, <4>1, <4>2
    <3> QED  BY <2>1, <3>1, <3>2
  <2>4. d[0] = base
    <3>1. 0 \in 0..l
      BY <2>1
    <3> QED  BY <1>2, <2>2, <3>1 DEF Chain
  <2>5. Folded(step, base, more) = d[Len(more)]
    <3>1. ChainIn(d, X, step, base, more)
      BY <2>1, <2>3, <2>4 DEF ChainIn
    <3> QED  BY <2>1, <3>1, FoldedIs
  <2> QED  BY <1>3, <2>1, <2>2, <2>5 DEF more
<1> QED  BY <1>1, <1>3, <1>4

-----------------------------------------------------------------------------
(***************************************************************************)
(* Streams: no byte is lost in silence, src/socket.rs, file.rs, print.rs   *)
(***************************************************************************)
\* The sequence s goes up, rest goes on where it ends, and all of it is below n.
Ordered(s, rest, n) ==
  /\ \A i \in DOMAIN s : s[i] \in 1 .. (n - 1)
  /\ \A i \in DOMAIN rest : rest[i] \in 1 .. (n - 1)
  /\ \A i, j \in DOMAIN s : i < j => s[i] < s[j]
  /\ \A i, j \in DOMAIN rest : i < j => rest[i] < rest[j]
  /\ \A i \in DOMAIN s, j \in DOMAIN rest : s[i] < rest[j]

\* The elements of a concatenation.
LEMMA Concatenated ==
  ASSUME NEW s \in Seq(Nat), NEW t \in Seq(Nat)
  PROVE  /\ s \o t \in Seq(Nat) /\ Len(s \o t) = Len(s) + Len(t)
         /\ \A i \in 1 .. Len(s) : (s \o t)[i] = s[i]
         /\ \A i \in 1 .. Len(t) : (s \o t)[Len(s) + i] = t[i]
<1>1. Len(s) \in Nat /\ Len(t) \in Nat
  OBVIOUS
<1>2. ASSUME NEW i \in 1 .. Len(t)
      PROVE  (s \o t)[Len(s) + i] = t[i]
  <2>1. Len(s) + i \in 1 .. (Len(s) + Len(t)) /\ ~(Len(s) + i <= Len(s)) /\ (Len(s) + i) - Len(s) = i
    BY <1>1
  <2> QED  BY <2>1
<1> QED  BY <1>1, <1>2

\* A write takes the front of what is left.
LEMMA TakeTheFront ==
  ASSUME NEW s \in Seq(Nat), NEW left \in Seq(Nat), NEW m \in Nat, Ordered(s, left, m),
         NEW n \in 1 .. Len(left)
  PROVE  LET more == s \o SubSeq(left, 1, n)
             rest == SubSeq(left, n + 1, Len(left))
         IN  /\ more \in Seq(Nat) /\ rest \in Seq(Nat)
             /\ Ordered(more, rest, m)
             /\ Range(s) \cup Range(left) \subseteq Range(more) \cup Range(rest)
<1> DEFINE front == SubSeq(left, 1, n)
           more == s \o front
           rest == SubSeq(left, n + 1, Len(left))
<1>1. /\ Len(s) \in Nat /\ Len(left) \in Nat /\ n \in Nat /\ 1 <= n /\ n <= Len(left)
      /\ DOMAIN s = 1 .. Len(s) /\ DOMAIN left = 1 .. Len(left)
  OBVIOUS
<1>2. /\ front \in Seq(Nat) /\ Len(front) = n /\ \A i \in 1 .. n : front[i] = left[i]
  BY <1>1
<1>3. /\ rest \in Seq(Nat) /\ Len(rest) = Len(left) - n
      /\ \A i \in 1 .. (Len(left) - n) : rest[i] = left[n + i]
  <2>1. rest \in Seq(Nat) /\ Len(rest) = Len(left) - n
    <3>1. \A i \in (n + 1) .. Len(left) : left[i] \in Nat
      BY <1>1
    <3>2. n + 1 \in Int /\ Len(left) \in Int
      BY <1>1
    <3>3. /\ rest \in Seq(Nat)
          /\ Len(rest) = IF n + 1 <= Len(left) THEN Len(left) - (n + 1) + 1 ELSE 0
      BY ONLY <3>1, <3>2, SubSeqProperties
    <3>4. ASSUME NEW l \in Nat, n <= l
          PROVE  (IF n + 1 <= l THEN l - (n + 1) + 1 ELSE 0) = l - n
      BY <3>4
    <3> HIDE DEF rest
    <3> QED  BY ONLY <1>1, <3>3, <3>4
  <2>2. ASSUME NEW i \in 1 .. (Len(left) - n)
        PROVE  rest[i] = left[n + i]
    <3>1. (n + 1) + i - 1 = n + i /\ i \in 1 .. (Len(left) - (n + 1) + 1)
      BY <1>1
    <3>2. rest[i] = left[(n + 1) + i - 1]
      BY <1>1, <3>1
    <3> QED  BY <3>1, <3>2
  <2> QED  BY <2>1, <2>2
<1> HIDE DEF front, rest
<1>4. /\ more \in Seq(Nat) /\ Len(more) = Len(s) + n
      /\ \A i \in 1 .. Len(s) : more[i] = s[i]
      /\ \A i \in 1 .. n : more[Len(s) + i] = left[i]
  BY <1>1, <1>2, Concatenated
<1> HIDE DEF more
<1>5. /\ DOMAIN more = 1 .. (Len(s) + n) /\ DOMAIN rest = 1 .. (Len(left) - n)
  BY <1>3, <1>4
<1>6. ASSUME NEW i \in DOMAIN more
      PROVE  \/ i \in DOMAIN s /\ more[i] = s[i]
             \/ i > Len(s) /\ i - Len(s) \in 1 .. n /\ i - Len(s) \in DOMAIN left /\ more[i] = left[i - Len(s)]
  <2>1. CASE i <= Len(s)
    BY <2>1, <1>1, <1>4, <1>5
  <2>2. CASE ~(i <= Len(s))
    <3>1. i - Len(s) \in 1 .. n /\ Len(s) + (i - Len(s)) = i /\ i > Len(s)
      BY <2>2, <1>1, <1>5
    <3>2. more[Len(s) + (i - Len(s))] = left[i - Len(s)]
      BY <3>1, <1>4
    <3>3. i - Len(s) \in DOMAIN left
      BY <3>1, <1>1
    <3> QED  BY <3>1, <3>2, <3>3
  <2> QED  BY <2>1, <2>2
<1>7. ASSUME NEW i \in DOMAIN rest
      PROVE  n + i \in DOMAIN left /\ rest[i] = left[n + i]
  <2>1. i \in 1 .. (Len(left) - n) /\ n + i \in 1 .. Len(left)
    BY <1>1, <1>5
  <2> QED  BY <2>1, <1>1, <1>3
<1>8. Ordered(more, rest, m)
  <2>1. \A i \in DOMAIN more : more[i] \in 1 .. (m - 1)
    BY <1>6 DEF Ordered
  <2>2. \A i \in DOMAIN rest : rest[i] \in 1 .. (m - 1)
    BY <1>7 DEF Ordered
  <2>3. ASSUME NEW i \in DOMAIN more, NEW j \in DOMAIN more, i < j
        PROVE  more[i] < more[j]
    <3>1. CASE i \in DOMAIN s /\ more[i] = s[i] /\ j \in DOMAIN s /\ more[j] = s[j]
      BY <2>3, <3>1 DEF Ordered
    <3>2. CASE i \in DOMAIN s /\ more[i] = s[i] /\ j > Len(s)
      <4>1. j - Len(s) \in DOMAIN left /\ more[j] = left[j - Len(s)]
        BY <3>2, <1>1, <1>6
      <4>2. s[i] < left[j - Len(s)]
        BY <3>2, <4>1 DEF Ordered
      <4> QED  BY <3>2, <4>1, <4>2
    <3>3. CASE i > Len(s) /\ j > Len(s)
      <4>1. i - Len(s) \in DOMAIN left /\ j - Len(s) \in DOMAIN left /\ i - Len(s) < j - Len(s)
        BY <2>3, <3>3, <1>1, <1>5, <1>6
      <4>2. left[i - Len(s)] < left[j - Len(s)]
        BY <4>1 DEF Ordered
      <4> QED  BY <3>3, <4>2, <1>1, <1>5, <1>6
    <3>4. ~(i > Len(s) /\ ~(j > Len(s)))
      BY <2>3, <1>1, <1>5
    <3> QED  BY <3>1, <3>2, <3>3, <3>4, <1>6
  <2>4. ASSUME NEW i \in DOMAIN rest, NEW j \in DOMAIN rest, i < j
        PROVE  rest[i] < rest[j]
    BY <2>4, <1>1, <1>5, <1>7 DEF Ordered
  <2>5. ASSUME NEW i \in DOMAIN more, NEW j \in DOMAIN rest
        PROVE  more[i] < rest[j]
    <3>1. CASE i \in DOMAIN s /\ more[i] = s[i]
      BY <3>1, <1>7 DEF Ordered
    <3>2. CASE i - Len(s) \in 1 .. n /\ i - Len(s) \in DOMAIN left /\ more[i] = left[i - Len(s)]
      <4>1. i - Len(s) < n + j
        BY <3>2, <1>1, <1>5
      <4> QED  BY <3>2, <4>1, <1>7 DEF Ordered
    <3> QED  BY <3>1, <3>2, <1>6
  <2> QED  BY <2>1, <2>2, <2>3, <2>4, <2>5 DEF Ordered
<1>9. ASSUME NEW x \in Range(s) \cup Range(left)
      PROVE  x \in Range(more) \cup Range(rest)
  <2>1. CASE x \in Range(s)
    <3>1. PICK i \in DOMAIN s : x = s[i]
      BY <2>1 DEF Range
    <3>2. i \in DOMAIN more /\ more[i] = x
      BY <3>1, <1>1, <1>4, <1>5
    <3> QED  BY <3>2 DEF Range
  <2>2. CASE x \in Range(left)
    <3>1. PICK i \in DOMAIN left : x = left[i]
      BY <2>2 DEF Range
    <3>2. CASE i <= n
      <4>1. Len(s) + i \in DOMAIN more /\ more[Len(s) + i] = x
        BY <3>1, <3>2, <1>1, <1>4, <1>5
      <4> QED  BY <4>1 DEF Range
    <3>3. CASE ~(i <= n)
      <4>1. i - n \in DOMAIN rest /\ n + (i - n) = i
        BY <3>1, <3>3, <1>1, <1>5
      <4>2. rest[i - n] = x
        BY <3>1, <4>1, <1>7
      <4> QED  BY <4>1, <4>2 DEF Range
    <3> QED  BY <3>2, <3>3
  <2> QED  BY <2>1, <2>2
<1> QED  BY <1>3, <1>4, <1>8, <1>9 DEF front, more, rest

\* The program hands over the next bytes.
LEMMA AddTheNext ==
  ASSUME NEW s \in Seq(Nat), NEW held \in Seq(Nat), NEW m \in Nat \ {0}, NEW n \in Nat, n > m,
         Ordered(s, held, m)
  PROVE  LET text == held \o [i \in 1 .. (n - m) |-> m + i - 1]
         IN  /\ text \in Seq(Nat) /\ text # <<>>
             /\ Ordered(s, text, n)
             /\ Range(held) \cup (m .. (n - 1)) \subseteq Range(text)
<1> DEFINE added == [i \in 1 .. (n - m) |-> m + i - 1]
           text == held \o added
<1>1. Len(s) \in Nat /\ Len(held) \in Nat /\ DOMAIN s = 1 .. Len(s) /\ DOMAIN held = 1 .. Len(held)
  OBVIOUS
<1>2. /\ added \in Seq(Nat) /\ Len(added) = n - m /\ \A i \in 1 .. (n - m) : added[i] = m + i - 1
  OBVIOUS
<1> HIDE DEF added
<1>3. /\ text \in Seq(Nat) /\ Len(text) = Len(held) + (n - m)
      /\ \A i \in 1 .. Len(held) : text[i] = held[i]
      /\ \A i \in 1 .. (n - m) : text[Len(held) + i] = m + i - 1
  <2>1. /\ text \in Seq(Nat) /\ Len(text) = Len(held) + Len(added)
        /\ \A i \in 1 .. Len(held) : text[i] = held[i]
        /\ \A i \in 1 .. Len(added) : text[Len(held) + i] = added[i]
    BY <1>2, Concatenated
  <2> HIDE DEF text
  <2> QED  BY <2>1, <1>2
<1> HIDE DEF text
<1>4. DOMAIN text = 1 .. (Len(held) + (n - m)) /\ text # <<>>
  BY <1>1, <1>3
<1>5. ASSUME NEW i \in DOMAIN text
      PROVE  \/ i \in DOMAIN held /\ text[i] = held[i]
             \/ i \in Nat /\ i > Len(held) /\ text[i] = m + (i - Len(held)) - 1 /\ text[i] \in m .. (n - 1)
  <2>1. CASE i <= Len(held)
    BY <2>1, <1>1, <1>3, <1>4
  <2>2. CASE ~(i <= Len(held))
    <3>1. i - Len(held) \in 1 .. (n - m) /\ Len(held) + (i - Len(held)) = i
      BY <2>2, <1>1, <1>4
    <3>2. text[i] = m + (i - Len(held)) - 1
      BY <3>1, <1>3
    <3> QED  BY <2>2, <3>1, <3>2, <1>1, <1>4
  <2> QED  BY <2>1, <2>2
<1>6. Ordered(s, text, n)
  <2>1. \A i \in DOMAIN s : s[i] \in 1 .. (m - 1) /\ s[i] \in 1 .. (n - 1)
    BY DEF Ordered
  <2>2. \A i \in DOMAIN held : held[i] \in 1 .. (m - 1)
    BY DEF Ordered
  <2>3. \A i \in DOMAIN text : text[i] \in 1 .. (n - 1)
    BY <1>5, <2>2
  <2>4. \A i, j \in DOMAIN s : i < j => s[i] < s[j]
    BY DEF Ordered
  <2>5. ASSUME NEW i \in DOMAIN text, NEW j \in DOMAIN text, i < j
        PROVE  text[i] < text[j]
    <3>1. CASE i \in DOMAIN held /\ text[i] = held[i] /\ j \in DOMAIN held /\ text[j] = held[j]
      BY <2>5, <3>1 DEF Ordered
    <3>2. CASE i \in DOMAIN held /\ text[i] = held[i] /\ text[j] \in m .. (n - 1)
      BY <3>2, <2>2
    <3>3. CASE /\ i \in Nat /\ text[i] = m + (i - Len(held)) - 1
               /\ j \in Nat /\ text[j] = m + (j - Len(held)) - 1
      BY <2>5, <3>3, <1>1
    <3>4. ~(i > Len(held) /\ j \in DOMAIN held)
      BY <2>5, <1>1, <1>4
    <3> QED  BY <3>1, <3>2, <3>3, <3>4, <1>5
  <2>6. ASSUME NEW i \in DOMAIN s, NEW j \in DOMAIN text
        PROVE  s[i] < text[j]
    <3>1. CASE j \in DOMAIN held /\ text[j] = held[j]
      BY <3>1 DEF Ordered
    <3>2. CASE text[j] \in m .. (n - 1)
      BY <2>1, <3>2
    <3> QED  BY <3>1, <3>2, <1>5
  <2> QED  BY <2>1, <2>3, <2>4, <2>5, <2>6 DEF Ordered
<1>7. ASSUME NEW x \in Range(held) \cup (m .. (n - 1))
      PROVE  x \in Range(text)
  <2>1. CASE x \in Range(held)
    <3>1. PICK i \in DOMAIN held : x = held[i]
      BY <2>1 DEF Range
    <3>2. i \in DOMAIN text /\ text[i] = x
      BY <3>1, <1>1, <1>3, <1>4
    <3> QED  BY <3>2 DEF Range
  <2>2. CASE x \in m .. (n - 1)
    <3> DEFINE i == x - m + 1
    <3>1. i \in 1 .. (n - m) /\ m + i - 1 = x /\ Len(held) + i \in DOMAIN text
      BY <2>2, <1>1, <1>4
    <3>2. text[Len(held) + i] = x
      BY <3>1, <1>3
    <3> QED  BY <3>1, <3>2 DEF Range
  <2> QED  BY <2>1, <2>2
<1> QED  BY <1>3, <1>4, <1>6, <1>7 DEF added, text


OutTypes ==
  [kind : Writers, pc : {"idle", "writing", "closed"}, next : Nat \ {0}, left : Seq(Nat),
   buf : Seq(Nat), told : SUBSET Nat, untold : SUBSET Nat,
   quiet : BOOLEAN, unwrapped : BOOLEAN, dropped : BOOLEAN]

\* What is with the kernel is followed by what a loop has left, or else by what
\* the buffer has, and what is in none of them is of a call that failed.
Kept ==
  /\ out.pc # "writing" => out.left = <<>>
  /\ out.pc # "idle" => out.buf = <<>>
  /\ Ordered(sent, out.left, out.next) /\ Ordered(sent, out.buf, out.next)
  /\ 1 .. (out.next - 1) \subseteq
       Range(sent) \cup Range(out.left) \cup Range(out.buf) \cup out.told \cup out.untold

\* An error is kept by a loop that answers nothing, or by a flush whose answer
\* nobody looks at.
Quiet ==
  /\ out.quiet => out.unwrapped \/ out.dropped
  /\ out.untold # {} => out.kind \in Silent \/ out.unwrapped \/ out.dropped

StreamInv == out \in OutTypes /\ sent \in Seq(Nat) /\ taken \in Int /\ Kept /\ Quiet

LEMMA NothingIsOrdered ==
  ASSUME NEW s, NEW rest, NEW m, Ordered(s, rest, m)
  PROVE  Ordered(s, <<>>, m)
BY DEF Ordered

LEMMA RangeOfNone == Range(<<>>) = {}
BY DEF Range

LEMMA StreamInitInv == StreamInit => StreamInv
<1> SUFFICES ASSUME StreamInit PROVE StreamInv
  OBVIOUS
<1>1. PICK k \in Writers : out = WriterInit(k)
  BY DEF StreamInit, Writers
<1>2. /\ out.pc = "idle" /\ out.next = 1 /\ out.left = <<>> /\ out.buf = <<>>
      /\ out.told = {} /\ out.untold = {} /\ out.quiet = FALSE
      /\ sent = <<>> /\ taken = 0
  BY <1>1 DEF WriterInit, StreamInit
<1>3. out \in OutTypes
  BY <1>1 DEF WriterInit, OutTypes
<1>4. Ordered(<<>>, <<>>, 1)
  BY DEF Ordered
<1>5. Kept
  BY <1>2, <1>4 DEF Kept
<1> QED  BY <1>2, <1>3, <1>5 DEF StreamInv, Quiet

\* The program hands over more, and the loop or the buffer gets it.
LEMMA WriteStrInv ==
  ASSUME StreamInv, write_str
  PROVE  StreamInv'
<1>0. /\ out \in OutTypes /\ sent \in Seq(Nat) /\ taken \in Int /\ Kept /\ Quiet
      /\ out.pc = "idle" /\ out.left = <<>> /\ sent' = sent /\ taken' = taken
  BY DEF StreamInv, write_str, WriterStep, Kept
<1>1. PICK n \in {out.next + 1, out.next + 2} :
        LET text == out.buf \o [i \in 1..(n - out.next) |-> out.next + i - 1]
        IN  out' = IF out.kind \in Buffered /\ Len(text) < Threshold
                   THEN [out EXCEPT !.buf = text, !.next = n]
                   ELSE [out EXCEPT !.buf = <<>>, !.left = text, !.next = n, !.pc = "writing",
                                    !.quiet = FALSE]
  BY DEF write_str
<1> DEFINE text == out.buf \o [i \in 1..(n - out.next) |-> out.next + i - 1]
<1>2. /\ out.buf \in Seq(Nat) /\ out.next \in Nat \ {0} /\ n \in Nat \ {0} /\ n > out.next
      /\ Ordered(sent, out.buf, out.next)
  BY <1>0 DEF OutTypes, Kept
<1>3. /\ text \in Seq(Nat)
      /\ Ordered(sent, text, n)
      /\ Range(out.buf) \cup (out.next .. (n - 1)) \subseteq Range(text)
  BY <1>0, <1>2, AddTheNext
<1>4. \/ out' = [out EXCEPT !.buf = text, !.next = n]
      \/ out' = [out EXCEPT !.buf = <<>>, !.left = text, !.next = n, !.pc = "writing", !.quiet = FALSE]
  BY <1>1
<1> HIDE DEF text
<1>5. Ordered(sent, <<>>, n)
  BY <1>3, NothingIsOrdered
<1>6. /\ out' \in OutTypes /\ out'.next = n /\ out'.told = out.told /\ out'.untold = out.untold
      /\ out'.kind = out.kind /\ out'.unwrapped = out.unwrapped /\ out'.dropped = out.dropped
      /\ out'.quiet = out.quiet \/ out'.quiet = FALSE
      /\ \/ out'.pc = "idle" /\ out'.left = <<>> /\ out'.buf = text
         \/ out'.pc = "writing" /\ out'.left = text /\ out'.buf = <<>>
  <2>1. CASE out' = [out EXCEPT !.buf = text, !.next = n]
    BY <1>0, <1>2, <1>3, <2>1 DEF OutTypes
  <2>2. CASE out' = [out EXCEPT !.buf = <<>>, !.left = text, !.next = n, !.pc = "writing", !.quiet = FALSE]
    <3>1. <<>> \in Seq(Nat)
      OBVIOUS
    <3> QED  BY <1>0, <1>2, <1>3, <2>2, <3>1 DEF OutTypes
  <2> QED  BY <1>4, <2>1, <2>2
<1>7. ASSUME NEW x \in 1 .. (n - 1)
      PROVE  x \in Range(sent) \cup Range(text) \cup out.told \cup out.untold
  <2>1. x \in 1 .. (out.next - 1) \/ x \in out.next .. (n - 1)
    BY <1>2
  <2> QED  BY <2>1, <1>0, <1>3, RangeOfNone DEF Kept
<1>8. Kept'
  BY <1>0, <1>3, <1>5, <1>6, <1>7 DEF Kept
<1> QED  BY <1>0, <1>6, <1>8 DEF StreamInv, Quiet

\* flush, into_inner and the drop hand the buffer to the loop.
LEMMA FlushInv ==
  ASSUME StreamInv, flush \/ into_inner \/ DropWriter
  PROVE  StreamInv'
<1>0. /\ out \in OutTypes /\ sent \in Seq(Nat) /\ taken \in Int /\ Kept /\ Quiet
      /\ out.pc = "idle" /\ out.left = <<>> /\ sent' = sent /\ taken' = taken
  BY DEF StreamInv, flush, into_inner, DropWriter, WriterStep, Kept
<1>1. /\ out' \in OutTypes /\ out'.next = out.next /\ out'.told = out.told
      /\ out'.untold = out.untold /\ out'.left = out.buf /\ out'.buf = <<>>
      /\ out'.pc = "writing" \/ out.buf = <<>>
      /\ out'.kind \in Silent <=> out.kind \in Silent
      /\ \/ out'.quiet = out.quiet /\ out'.unwrapped = out.unwrapped /\ out'.dropped = out.dropped
         \/ out'.unwrapped = TRUE \/ out'.dropped = TRUE
  <2>1. CASE flush
    BY <1>0, <2>1 DEF flush, OutTypes
  <2>2. CASE into_inner
    BY <1>0, <2>2 DEF into_inner, OutTypes, Silent, Buffered, Writers
  <2>3. CASE DropWriter
    BY <1>0, <2>3 DEF DropWriter, OutTypes
  <2> QED  BY <2>1, <2>2, <2>3
<1>2. Ordered(sent, out.buf, out.next) /\ Ordered(sent, <<>>, out.next)
  BY <1>0, NothingIsOrdered DEF Kept
<1>3. Kept'
  BY <1>0, <1>1, <1>2, RangeOfNone DEF Kept
<1>4. Quiet'
  BY <1>0, <1>1 DEF Quiet
<1> QED  BY <1>0, <1>1, <1>3, <1>4 DEF StreamInv

\* A call of write takes some of what is left.
LEMMA WriteAllInv ==
  ASSUME StreamInv, write_all
  PROVE  StreamInv'
<1>0. /\ out \in OutTypes /\ sent \in Seq(Nat) /\ taken \in Int /\ Kept /\ Quiet
      /\ out.pc = "writing" /\ out.buf = <<>> /\ taken' = taken
  BY DEF StreamInv, write_all, WriterStep, Kept
<1>1. PICK n \in 1..Room :
        LET rest == SubSeq(out.left, n + 1, Len(out.left))
        IN  Took(n) /\ out' = [out EXCEPT !.left = rest, !.pc = Returned(rest)]
  BY DEF write_all
<1>2. out.left \in Seq(Nat) /\ out.next \in Nat /\ Len(out.left) \in Int /\ Cap - Held \in Int
  <2>1. Len(sent) \in Int /\ Cap \in Int
    BY <1>0, StreamAssumption
  <2> QED  BY <1>0, <2>1 DEF OutTypes, Held
<1>3. n \in 1 .. Len(out.left)
  <2>1. Room <= Len(out.left) /\ Room \in Int
    BY ONLY <1>2, LeastOfTwo DEF Room
  <2> QED  BY <1>2, <2>1
<1> DEFINE more == sent \o SubSeq(out.left, 1, n)
           rest == SubSeq(out.left, n + 1, Len(out.left))
<1>4. Ordered(sent, out.left, out.next)
  BY <1>0 DEF Kept
<1>5. /\ more \in Seq(Nat) /\ rest \in Seq(Nat)
      /\ Ordered(more, rest, out.next)
      /\ Range(sent) \cup Range(out.left) \subseteq Range(more) \cup Range(rest)
  BY <1>0, <1>2, <1>3, <1>4, TakeTheFront
<1>6. sent' = more /\ out' = [out EXCEPT !.left = rest, !.pc = Returned(rest)]
  BY <1>1 DEF Took
<1> HIDE DEF more, rest
<1>7. Returned(rest) \in {"idle", "writing", "closed"} /\ (Returned(rest) # "writing" => rest = <<>>)
  BY DEF Returned
<1>8. /\ out' \in OutTypes /\ out'.next = out.next /\ out'.told = out.told
      /\ out'.untold = out.untold /\ out'.left = rest /\ out'.buf = <<>>
      /\ out'.pc # "writing" => rest = <<>>
      /\ out'.kind = out.kind /\ out'.quiet = out.quiet
      /\ out'.unwrapped = out.unwrapped /\ out'.dropped = out.dropped
  BY <1>0, <1>5, <1>6, <1>7 DEF OutTypes
<1>9. Ordered(more, <<>>, out.next)
  BY <1>5, NothingIsOrdered
<1>10. Kept'
  BY <1>0, <1>5, <1>6, <1>8, <1>9, RangeOfNone DEF Kept
<1>11. Quiet'
  BY <1>0, <1>8 DEF Quiet
<1> QED  BY <1>0, <1>5, <1>6, <1>8, <1>10, <1>11 DEF StreamInv

\* The loop gives up, and what was left is of a call that failed.
LEMMA GivesUpInv ==
  ASSUME StreamInv, out.pc = "writing", GivesUp, sent' = sent, taken' = taken
  PROVE  StreamInv'
<1>0. /\ out \in OutTypes /\ sent \in Seq(Nat) /\ taken \in Int /\ Kept /\ Quiet
      /\ out.buf = <<>>
  BY DEF StreamInv, Kept
<1>1. Returned(<<>>) \in {"idle", "closed"} /\ Range(out.left) \subseteq Nat
  BY <1>0 DEF Returned, Range, OutTypes
<1>2. /\ out' \in OutTypes /\ out'.next = out.next /\ out'.left = <<>> /\ out'.buf = <<>>
      /\ out'.told \cup out'.untold = out.told \cup out.untold \cup Range(out.left)
      /\ out'.untold # out.untold => out.kind \in Silent \/ out.quiet
      /\ out'.pc # "writing"
      /\ out'.kind = out.kind /\ out'.quiet = out.quiet
      /\ out'.unwrapped = out.unwrapped /\ out'.dropped = out.dropped
  <2>1. CASE out.kind \in Silent \/ out.quiet
    <3>1. out' = [out EXCEPT !.untold = @ \cup Range(out.left), !.left = <<>>, !.pc = Returned(<<>>)]
      BY <2>1 DEF GivesUp
    <3> QED  BY <2>1, <3>1, <1>0, <1>1 DEF OutTypes
  <2>2. CASE ~(out.kind \in Silent \/ out.quiet)
    <3>1. out' = [out EXCEPT !.told = @ \cup Range(out.left), !.left = <<>>, !.pc = Returned(<<>>)]
      BY <2>2 DEF GivesUp
    <3> QED  BY <2>2, <3>1, <1>0, <1>1 DEF OutTypes
  <2> QED  BY <2>1, <2>2
<1>3. Ordered(sent, <<>>, out.next)
  BY <1>0, NothingIsOrdered DEF Kept
<1>4. Kept'
  BY <1>0, <1>2, <1>3, RangeOfNone DEF Kept
<1>5. Quiet'
  BY <1>0, <1>2 DEF Quiet
<1> QED  BY <1>0, <1>2, <1>4, <1>5 DEF StreamInv

LEMMA StreamNextInv == StreamInv /\ [StreamNext]_streamVars => StreamInv'
<1> SUFFICES ASSUME StreamInv, [StreamNext]_streamVars PROVE StreamInv'
  OBVIOUS
<1>a. ASSUME UNCHANGED <<out, sent>>, taken' \in Int
      PROVE  StreamInv'
  BY <1>a DEF StreamInv, Kept, Quiet
<1>b. taken \in Int
  BY DEF StreamInv
<1>1. CASE write_str
  BY <1>1, WriteStrInv
<1>2. CASE flush \/ into_inner \/ DropWriter
  BY <1>2, FlushInv
<1>3. CASE write_all
  BY <1>3, WriteAllInv
<1>4. CASE WriteFails
  BY <1>4, GivesUpInv DEF WriteFails, WriterStep
<1>5. CASE WritesNothing
  BY <1>5, <1>a, <1>b, GivesUpInv DEF WritesNothing, WriterStep
<1>6. CASE WriteInterrupted
  BY <1>6, <1>a, <1>b DEF WriteInterrupted, WriterStep
<1>7. CASE ReaderProgress \/ ReadFails \/ ReadInterrupted \/ DropReader
  <2>1. UNCHANGED <<out, sent>>
    BY <1>7 DEF ReaderProgress, next_line, read, EndOfStream, AfterEnd, ReadFails, ReadInterrupted,
                DropReader, ReaderStep
  <2>2. taken' \in Int
    BY <1>7, <1>b DEF ReaderProgress, next_line, read, EndOfStream, AfterEnd, ReadFails,
                ReadInterrupted, DropReader
  <2> QED  BY <1>a, <2>1, <2>2
<1>8. CASE UNCHANGED streamVars
  BY <1>8, <1>a, <1>b DEF streamVars
<1> QED  BY <1>1, <1>2, <1>3, <1>4, <1>5, <1>6, <1>7, <1>8 DEF StreamNext, WriterProgress

\* Bytes go out in order and once, and none is missing behind the program's
\* back: it is with the kernel, in a buffer, or of a call that was answered
\* with an error; print and the standard streams over it, into_inner and the
\* drop of a BufWriter excepted.
THEOREM NoLossTheorem == StreamSpec => []NoSilentLoss
<1>1. StreamInv => NoSilentLoss
  <2> SUFFICES ASSUME StreamInv PROVE NoSilentLoss
    OBVIOUS
  <2>1. Kept /\ Quiet
    BY DEF StreamInv
  <2>2. \A i, j \in DOMAIN sent : i < j => sent[i] < sent[j]
    BY <2>1 DEF Kept, Ordered
  <2> QED  BY <2>1, <2>2 DEF Kept, Quiet, NoSilentLoss
<1> QED  BY <1>1, StreamInitInv, StreamNextInv, PTL DEF StreamSpec

-----------------------------------------------------------------------------
(***************************************************************************)
(* Streams: the lines a reader returns, src/socket.rs, file.rs, print.rs   *)
(***************************************************************************)
\* The lines of a text so far, and one byte more: the last one ends or grows.
Begun == Seq(Seq(Nat)) \ {<<>>}
Extend(nls, ls, b) ==
  IF b \in nls THEN Append(ls, <<>>) ELSE [ls EXCEPT ![Len(ls)] = Append(@, b)]
ExtendBy(nls) == [x \in Begun \X Nat |-> Extend(nls, x[1], x[2])]
PartsOf(nls, text) == Folded(ExtendBy(nls), << <<>> >>, text)
LinesIn(ls) == IF Last(ls) = <<>> THEN Front(ls) ELSE ls

Extends(nls, ls, b, more) ==
  /\ Len(ls) \in Nat \ {0} /\ ls \in Seq(Seq(Nat)) /\ ls[Len(ls)] \in Seq(Nat)
  /\ more \in Begun /\ more \in Seq(Seq(Nat)) /\ Len(more) \in Nat
  /\ b \in nls => /\ Len(more) = Len(ls) + 1
                  /\ more[Len(ls) + 1] = <<>>
                  /\ \A k \in 1..Len(ls) : more[k] = ls[k]
  /\ b \notin nls => /\ Len(more) = Len(ls)
                     /\ more[Len(ls)] = Append(ls[Len(ls)], b)
                     /\ \A k \in 1..(Len(ls) - 1) : more[k] = ls[k]

LEMMA ExtendFacts ==
  ASSUME NEW nls, NEW ls \in Begun, NEW b \in Nat
  PROVE  Extends(nls, ls, b, Extend(nls, ls, b))
<1> DEFINE l == Len(ls)
           more == Extend(nls, ls, b)
<1>1. l \in Nat \ {0} /\ ls \in Seq(Seq(Nat)) /\ ls[l] \in Seq(Nat)
  <2>1. ls \in Seq(Seq(Nat)) /\ ls # <<>>
    BY DEF Begun
  <2>2. l \in Nat \ {0}
    BY <2>1, EmptySeq
  <2> QED  BY <2>1, <2>2
<1>2. CASE b \in nls
  <2>1. <<>> \in Seq(Nat)
    OBVIOUS
  <2>2. more = Append(ls, <<>>)
    BY <1>2 DEF Extend
  <2>3. more \in Seq(Seq(Nat)) /\ Len(more) = l + 1 /\ more # <<>> /\ more[l + 1] = <<>>
        /\ \A k \in 1..l : more[k] = ls[k]
    BY <1>1, <2>1, <2>2, AppendProperties
  <2>4. more \in Begun
    BY <2>3 DEF Begun
  <2>5. Len(more) \in Nat
    BY <1>1, <2>3
  <2> HIDE DEF more
  <2>6. Extends(nls, ls, b, more)
    BY <1>1, <1>2, <2>3, <2>4, <2>5 DEF Extends
  <2> QED  BY <2>6 DEF more
<1>3. CASE b \notin nls
  <2>1. Append(ls[l], b) \in Seq(Nat) /\ l \in 1..l
    BY <1>1
  <2>2. more = [ls EXCEPT ![l] = Append(ls[l], b)]
    BY <1>3 DEF Extend
  <2>3. more \in Seq(Seq(Nat)) /\ Len(more) = l
        /\ \A k \in 1..l : more[k] = IF k = l THEN Append(ls[l], b) ELSE ls[k]
    BY <1>1, <2>1, <2>2, ExceptSeq
  <2>4. more # <<>>
    BY <2>3, <1>1
  <2>5. \A k \in 1..(l - 1) : k \in 1..l /\ k # l
    BY <1>1
  <2> HIDE DEF more
  <2>6. more \in Begun /\ Len(more) \in Nat /\ more[l] = Append(ls[l], b)
    <3>1. more \in Begun
      BY <2>3, <2>4 DEF Begun
    <3>2. Len(more) \in Nat
      BY <1>1, <2>3
    <3>3. more[l] = Append(ls[l], b)
      BY <2>1, <2>3
    <3> QED  BY <3>1, <3>2, <3>3
  <2>7. Extends(nls, ls, b, more)
    BY <1>1, <1>3, <2>3, <2>5, <2>6 DEF Extends
  <2> QED  BY <2>7 DEF more
<1> QED  BY <1>2, <1>3

LEMMA ExtendFolds ==
  ASSUME NEW nls
  PROVE  FoldsIn(Begun, Nat, ExtendBy(nls), << <<>> >>)
<1>1. << <<>> >> \in Begun
  BY DEF Begun
<1>2. ASSUME NEW x \in Begun \X Nat PROVE Extend(nls, x[1], x[2]) \in Begun
  BY ExtendFacts DEF Extends
<1> QED  BY <1>1, <1>2 DEF FoldsIn, ExtendBy

LEMMA PartsFold ==
  ASSUME NEW nls, NEW text \in Seq(Nat)
  PROVE  /\ PartsOf(nls, text) \in Begun
         /\ PartsOf(nls, <<>>) = << <<>> >>
         /\ \A b \in Nat : PartsOf(nls, Append(text, b)) = Extend(nls, PartsOf(nls, text), b)
<1>1. FoldsIn(Begun, Nat, ExtendBy(nls), << <<>> >>)
  BY ExtendFolds
<1> DEFINE base == << <<>> >>
<1> HIDE DEF base
<1>2. /\ Folded(ExtendBy(nls), base, text) \in Begun
      /\ Folded(ExtendBy(nls), base, <<>>) = base
      /\ \A b \in Nat : Folded(ExtendBy(nls), base, Append(text, b))
                          = ExtendBy(nls)[<<Folded(ExtendBy(nls), base, text), b>>]
  <2>1. FoldsIn(Begun, Nat, ExtendBy(nls), base) /\ text \in Seq(Nat)
    BY <1>1 DEF base
  <2> QED  BY ONLY <2>1, FoldedGrows
<1> QED  BY <1>2 DEF PartsOf, base, ExtendBy

LEMMA PartsOfNone ==
  ASSUME NEW nls
  PROVE  PartsOf(nls, <<>>) = << <<>> >>
<1>1. <<>> \in Seq(Nat)
  OBVIOUS
<1> QED  BY <1>1, PartsFold

LEMMA PartsType ==
  ASSUME NEW nls, NEW text \in Seq(Nat)
  PROVE  PartsOf(nls, text) \in Begun
BY PartsFold

LEMMA PartsGrow ==
  ASSUME NEW nls, NEW text \in Seq(Nat), NEW b \in Nat
  PROVE  PartsOf(nls, Append(text, b)) = Extend(nls, PartsOf(nls, text), b)
BY PartsFold

\* The reference is such a fold.
LEMMA LinesAreParts ==
  ASSUME newlines \in SUBSET Nat, NEW text \in Seq(Nat)
  PROVE  LinesOf(text) = LinesIn(PartsOf(newlines, text))
<1> DEFINE Same(iter) ==
             iter = [t \in SUBSET DOMAIN text |->
                       IF t = {} THEN << <<>> >> ELSE Extend(newlines, iter[t \ {Max(t)}], text[Max(t)])]
           iter == CHOOSE i : Same(i)
           c == [k \in 0..Len(text) |-> iter[1..k]]
           step == ExtendBy(newlines)
<1>1. DOMAIN text = 1..Len(text) /\ Len(text) \in Nat /\ \A k \in 1..Len(text) : text[k] \in Nat
  OBVIOUS
<1>2. FoldsIn(Begun, Nat, step, << <<>> >>)
  BY ExtendFolds
<1>3. \E i : Same(i)
  <2>1. PICK i : Turns(i, Begun, step, << <<>> >>, text)
    BY <1>2, TurnsExist
  <2>2. /\ i \in [SUBSET DOMAIN text -> Begun]
        /\ \A t \in SUBSET DOMAIN text : i[t] = Turn(i, step, << <<>> >>, text, t)
    BY <2>1 DEF Turns
  <2>3. ASSUME NEW t \in SUBSET DOMAIN text
        PROVE  i[t] = IF t = {} THEN << <<>> >> ELSE Extend(newlines, i[t \ {Max(t)}], text[Max(t)])
    <3>1. CASE t = {}
      BY <2>2, <3>1 DEF Turn
    <3>2. CASE t # {}
      <4>1. text[Max(t)] \in Nat
        BY <1>1, <3>2, GreatestIsIn
      <4>2. i[t \ {Max(t)}] \in Begun
        BY <2>2
      <4> QED  BY <2>2, <3>2, <4>1, <4>2 DEF Turn, ExtendBy
    <3> QED  BY <3>1, <3>2
  <2>4. Same(i)
    BY <2>2, <2>3
  <2> QED  BY <2>4
<1>4. iter = [t \in SUBSET DOMAIN text |->
                IF t = {} THEN << <<>> >> ELSE Extend(newlines, iter[t \ {Max(t)}], text[Max(t)])]
  <2>1. Same(iter)
    <3> HIDE DEF Same
    <3> QED  BY <1>3
  <2> HIDE DEF iter
  <2> QED  BY <2>1
<1>5. LinesOf(text) = LinesIn(iter[DOMAIN text])
  BY DEF LinesOf, FoldLeft, MapThenFoldSet, Extend, LinesIn
<1> HIDE DEF iter
<1>6. ChainIn(c, Begun, step, << <<>> >>, text)
  <2>1. c[0] = << <<>> >>
    <3>1. {} \in SUBSET DOMAIN text /\ 1..0 = {} /\ 0 \in 0..Len(text)
      BY <1>1
    <3> QED  BY <1>4, <3>1
  <2>2. ASSUME NEW k \in 1..Len(text), c[k - 1] \in Begun
        PROVE  c[k] = step[<<c[k - 1], text[k]>>]
    <3>1. k \in 0..Len(text) /\ k - 1 \in 0..Len(text) /\ 1..k \in SUBSET DOMAIN text /\ k \in Nat \ {0}
      BY <1>1
    <3>2. iter[1..k] = Extend(newlines, iter[1..(k - 1)], text[k])
      BY <1>4, <3>1, FirstOnes
    <3> QED  BY <1>1, <2>2, <3>1, <3>2 DEF ExtendBy
  <2> HIDE DEF c
  <2> QED  BY <2>1, <2>2 DEF ChainIn
<1>7. PartsOf(newlines, text) = c[Len(text)]
  BY <1>2, <1>6, FoldedIs DEF PartsOf
<1> QED  BY <1>1, <1>5, <1>7

\* One element more of a stretch.
LEMMA StretchGrows ==
  ASSUME NEW S, NEW s \in Seq(S), NEW m \in 1..(Len(s) + 1), NEW n \in m..Len(s)
  PROVE  /\ SubSeq(s, m, n) = Append(SubSeq(s, m, n - 1), s[n])
         /\ SubSeq(s, m, n - 1) \in Seq(S) /\ s[n] \in S
<1>0. m \in 1..Len(s) /\ n \in Nat /\ n - 1 \in Int /\ n - 1 < n /\ s[n] \in S
  OBVIOUS
<1>1. SubSeq(s, m, n) = SubSeq(s, m, n - 1) \o <<s[n]>>
  BY <1>0, SubSeqRecursiveSecond
<1>2. SubSeq(s, m, n - 1) \in Seq(S)
  BY <1>0, SubSeqProperties
<1> QED  BY <1>0, <1>1, <1>2, AppendIsConcat

LEMMA Stretch ==
  ASSUME NEW S, NEW s \in Seq(S), NEW m \in 1..(Len(s) + 1), NEW n \in (m - 1)..Len(s)
  PROVE  /\ SubSeq(s, m, n) \in Seq(S) /\ Len(SubSeq(s, m, n)) = (n - m) + 1
         /\ \A i \in 1..((n - m) + 1) : SubSeq(s, m, n)[i] = s[(m + i) - 1]
<1>0. m \in Int /\ n \in Int /\ Len(s) \in Nat /\ m >= 1 /\ m - 1 <= n /\ n <= Len(s)
  OBVIOUS
<1>1. \A i \in m..n : s[i] \in S
  BY <1>0
<1>2. /\ SubSeq(s, m, n) \in Seq(S)
      /\ Len(SubSeq(s, m, n)) = IF m <= n THEN n - m + 1 ELSE 0
      /\ \A i \in 1 .. n - m + 1 : SubSeq(s, m, n)[i] = s[m + i - 1]
  BY <1>0, <1>1, SubSeqProperties
<1>3. Len(SubSeq(s, m, n)) = (n - m) + 1
  BY <1>0, <1>2
<1> QED  BY <1>0, <1>2, <1>3

LEMMA FrontStretch ==
  ASSUME NEW S, NEW s \in Seq(S), NEW n \in 0..Len(s)
  PROVE  /\ SubSeq(s, 1, n) \in Seq(S) /\ Len(SubSeq(s, 1, n)) = n
         /\ \A i \in 1..n : SubSeq(s, 1, n)[i] = s[i]
<1>1. n \in Nat /\ Len(s) \in Nat /\ n <= Len(s)
  OBVIOUS
<1> QED  BY <1>1

LEMMA StretchIsEmpty ==
  ASSUME NEW s, NEW m \in Int
  PROVE  SubSeq(s, m, m - 1) = <<>>
<1>1. m - 1 \in Int /\ m - 1 < m
  OBVIOUS
<1> QED  BY <1>1, SubSeqEmpty

LEMMA AppendBehind ==
  ASSUME NEW S, NEW s \in Seq(S), NEW t \in Seq(S), NEW b \in S
  PROVE  s \o t \in Seq(S) /\ s \o Append(t, b) = Append(s \o t, b)
<1>1. <<b>> \in Seq(S) /\ s \o t \in Seq(S)
  OBVIOUS
<1>2. Append(t, b) = t \o <<b>>
  BY AppendIsConcat
<1>3. Append(s \o t, b) = (s \o t) \o <<b>>
  BY <1>1, AppendIsConcat
<1>4. (s \o t) \o <<b>> = s \o (t \o <<b>>)
  <2> DEFINE u == <<b>>
  <2>1. u \in Seq(S)
    BY <1>1
  <2> HIDE DEF u
  <2>2. (s \o t) \o u = s \o (t \o u)
    BY <2>1, ConcatAssociative
  <2> QED  BY <2>2 DEF u
<1> QED  BY <1>1, <1>2, <1>3, <1>4

LEMMA ConsBehind ==
  ASSUME NEW S, NEW s \in Seq(S), NEW t \in Seq(S), NEW b \in S
  PROVE  Append(s, b) \in Seq(S) /\ Append(s, b) \o t = s \o (<<b>> \o t)
<1>1. <<b>> \in Seq(S) /\ Append(s, b) \in Seq(S)
  OBVIOUS
<1>2. Append(s, b) = s \o <<b>>
  BY AppendIsConcat
<1>4. (s \o <<b>>) \o t = s \o (<<b>> \o t)
  <2> DEFINE u == <<b>>
  <2>1. u \in Seq(S)
    BY <1>1
  <2> HIDE DEF u
  <2>2. (s \o u) \o t = s \o (u \o t)
    BY <2>1, ConcatAssociative
  <2> QED  BY <2>2 DEF u
<1> QED  BY <1>1, <1>2, <1>4

LEMMA ConsFacts ==
  ASSUME NEW S, NEW t \in Seq(S), NEW b \in S
  PROVE  /\ <<b>> \o t \in Seq(S) /\ Len(<<b>> \o t) = Len(t) + 1 /\ (<<b>> \o t)[1] = b
         /\ \A k \in 1..Len(t) : (<<b>> \o t)[k + 1] = t[k]
<1> DEFINE u == <<b>>
           all == u \o t
<1>1. u \in Seq(S) /\ Len(u) = 1 /\ u[1] = b /\ Len(t) \in Nat
  OBVIOUS
<1> HIDE DEF u
<1>2. /\ all \in Seq(S) /\ Len(all) = Len(u) + Len(t)
      /\ \A k \in 1 .. Len(u) + Len(t) : all[k] = IF k <= Len(u) THEN u[k] ELSE t[k - Len(u)]
  BY <1>1, ConcatProperties
<1> HIDE DEF all
<1>3. ASSUME NEW k \in 1..Len(t) PROVE all[k + 1] = t[k]
  <2>1. k + 1 \in 1 .. Len(u) + Len(t) /\ ~(k + 1 <= Len(u)) /\ (k + 1) - Len(u) = k
    BY <1>1
  <2> QED  BY <1>2, <2>1
<1>4. all[1] = b
  <2>1. 1 \in 1 .. Len(u) + Len(t) /\ 1 <= Len(u)
    BY <1>1
  <2> QED  BY <1>1, <1>2, <2>1
<1>5. Len(all) = Len(t) + 1
  BY <1>1, <1>2
<1> QED  BY <1>2, <1>3, <1>4, <1>5 DEF all, u

\* A text without a newline is one line.
LEMMA OneLine ==
  ASSUME NEW nls, NEW text \in Seq(Nat), \A j \in 1..Len(text) : text[j] \notin nls
  PROVE  PartsOf(nls, text) = <<text>>
<1> DEFINE P(k) == PartsOf(nls, SubSeq(text, 1, k)) = <<SubSeq(text, 1, k)>>
           T == {k \in Nat : k <= Len(text) => P(k)}
<1>1. 0 \in T
  <2>1. SubSeq(text, 1, 0) = <<>>
    BY StretchIsEmpty
  <2> QED  BY <2>1, PartsOfNone
<1>2. ASSUME NEW k \in T PROVE k + 1 \in T
  <2> DEFINE s == SubSeq(text, 1, k)
             b == text[k + 1]
  <2> SUFFICES ASSUME k + 1 <= Len(text) PROVE P(k + 1)
    OBVIOUS
  <2>1. k \in Nat /\ k <= Len(text) /\ k + 1 \in 1..Len(text) /\ (k + 1) - 1 = k
    OBVIOUS
  <2>2. SubSeq(text, 1, k + 1) = Append(s, b) /\ s \in Seq(Nat) /\ b \in Nat /\ b \notin nls
    BY <2>1, StretchGrows
  <2>3. PartsOf(nls, s) = <<s>>
    BY <2>1
  <2> HIDE DEF s, b
  <2>4. PartsOf(nls, Append(s, b)) = Extend(nls, <<s>>, b)
    <3>1. PartsOf(nls, Append(s, b)) = Extend(nls, PartsOf(nls, s), b)
      BY <2>2, PartsGrow
    <3> QED  BY ONLY <2>3, <3>1
  <2>5. Extend(nls, <<s>>, b) = <<Append(s, b)>>
    BY <2>2 DEF Extend
  <2> QED  BY <2>2, <2>4, <2>5
<1>3. T = Nat
  <2>1. T \subseteq Nat
    OBVIOUS
  <2> HIDE DEF T
  <2> QED  BY <1>1, <1>2, <2>1, SetInduction
<1>4. P(Len(text))
  <2>1. Len(text) \in Nat /\ Len(text) <= Len(text)
    OBVIOUS
  <2>2. \A k \in Nat : k <= Len(text) => P(k)
    BY <1>3
  <2> HIDE DEF P
  <2> QED  BY <2>1, <2>2
<1> QED  BY <1>4, SubSeqFull

\* Lines that are complete stay as they are.
LEMMA ExtendBehind ==
  ASSUME NEW nls, NEW g \in Seq(Seq(Nat)), NEW ls \in Begun, NEW b \in Nat
  PROVE  g \o ls \in Begun /\ Extend(nls, g \o ls, b) = g \o Extend(nls, ls, b)
<1> DEFINE all == g \o ls
           l == Len(ls)
           n == Len(g)
           more == Extend(nls, ls, b)
           left == Extend(nls, all, b)
           right == g \o more
<1>0. /\ l \in Nat \ {0} /\ ls \in Seq(Seq(Nat)) /\ more \in Seq(Seq(Nat)) /\ n \in Nat
      /\ Len(more) \in Nat
      /\ b \in nls => /\ Len(more) = l + 1 /\ more[l + 1] = <<>>
                      /\ \A k \in 1..l : more[k] = ls[k]
      /\ b \notin nls => /\ Len(more) = l /\ more[l] = Append(ls[l], b)
                         /\ \A k \in 1..(l - 1) : more[k] = ls[k]
  <2>1. Extends(nls, ls, b, more)
    BY ExtendFacts
  <2> HIDE DEF more
  <2>2. n \in Nat
    OBVIOUS
  <2> QED  BY <2>1, <2>2 DEF Extends
<1> HIDE DEF more
<1>1. /\ all \in Seq(Seq(Nat)) /\ Len(all) = n + l
      /\ \A i \in 1 .. n + l : all[i] = IF i <= n THEN g[i] ELSE ls[i - n]
  BY <1>0, ConcatProperties
<1>2. /\ right \in Seq(Seq(Nat)) /\ Len(right) = n + Len(more)
      /\ \A i \in 1 .. n + Len(more) : right[i] = IF i <= n THEN g[i] ELSE more[i - n]
  BY <1>0, ConcatProperties
<1>3. all \in Begun
  <2>1. Len(all) # 0
    BY <1>0, <1>1
  <2> QED  BY <1>1, <2>1 DEF Begun
<1> HIDE DEF right
<1>4. /\ left \in Seq(Seq(Nat))
      /\ b \in nls => /\ Len(left) = n + l + 1 /\ left[n + l + 1] = <<>>
                      /\ \A k \in 1..(n + l) : left[k] = all[k]
      /\ b \notin nls => /\ Len(left) = n + l /\ left[n + l] = Append(all[n + l], b)
                         /\ \A k \in 1..(n + l - 1) : left[k] = all[k]
  <2>1. Extends(nls, all, b, left)
    BY <1>3, ExtendFacts
  <2> HIDE DEF all, l, n, left
  <2>2. Len(all) = n + l
    BY <1>1
  <2>3. /\ left \in Seq(Seq(Nat))
        /\ b \in nls => /\ Len(left) = Len(all) + 1 /\ left[Len(all) + 1] = <<>>
                        /\ \A k \in 1..Len(all) : left[k] = all[k]
        /\ b \notin nls => /\ Len(left) = Len(all) /\ left[Len(all)] = Append(all[Len(all)], b)
                           /\ \A k \in 1..(Len(all) - 1) : left[k] = all[k]
    BY <2>1 DEF Extends
  <2>4. (n + l) - 1 = n + l - 1
    BY <1>0
  <2> QED  BY ONLY <2>2, <2>3, <2>4
<1> HIDE DEF left, all, n, l
<1>5. Len(left) = Len(right)
  BY <1>0, <1>2, <1>4
<1>6. ASSUME NEW k \in 1..Len(left)
      PROVE  left[k] = right[k]
  <2>1. CASE b \in nls
    <3>1. CASE k = n + l + 1
      <4>1. k - n = l + 1 /\ ~(k <= n) /\ k \in 1 .. n + Len(more)
        BY <1>0, <2>1, <3>1
      <4> QED  BY <1>0, <1>2, <1>4, <2>1, <3>1, <4>1
    <3>2. CASE k # n + l + 1
      <4>0. Len(left) = n + l + 1 /\ Len(more) = l + 1 /\ n \in Nat /\ l \in Nat
        BY <1>0, <1>4, <2>1
      <4>1. k \in 1..(n + l) /\ k \in 1 .. n + Len(more) /\ (~(k <= n) => k - n \in 1..l)
        BY ONLY <4>0, <3>2, k \in 1..Len(left)
      <4> QED  BY <1>0, <1>1, <1>2, <1>4, <2>1, <4>1
    <3> QED  BY <3>1, <3>2
  <2>2. CASE b \notin nls
    <3>1. CASE k = n + l
      <4>0. Len(more) = l /\ n \in Nat /\ l \in Nat \ {0}
        BY <1>0, <2>2
      <4>1. k - n = l /\ ~(k <= n) /\ k \in 1 .. n + Len(more) /\ k \in 1 .. n + l
        BY ONLY <3>1, <4>0
      <4> QED  BY <1>0, <1>1, <1>2, <1>4, <2>2, <3>1, <4>1
    <3>2. CASE k # n + l
      <4>0. Len(left) = n + l /\ Len(more) = l
        BY <1>0, <1>4, <2>2
      <4>1. k \in 1..(n + l - 1) /\ k \in 1 .. n + l /\ k \in 1 .. n + Len(more) /\ (~(k <= n) => k - n \in 1..(l - 1))
        BY <1>0, <4>0, <3>2
      <4> QED  BY <1>0, <1>1, <1>2, <1>4, <2>2, <4>1
    <3> QED  BY <3>1, <3>2
  <2> QED  BY <2>1, <2>2
<1>7. left = right
  BY <1>2, <1>4, <1>5, <1>6, SeqEqual
<1> QED  BY <1>3, <1>7 DEF all, left, right, more

\* The first line of a text ends at its first newline.
LEMMA FirstLine ==
  ASSUME NEW nls, NEW text \in Seq(Nat), NEW i \in 1..Len(text), text[i] \in nls,
         \A j \in 1..(i - 1) : text[j] \notin nls
  PROVE  PartsOf(nls, text)
           = <<SubSeq(text, 1, i - 1)>> \o PartsOf(nls, SubSeq(text, i + 1, Len(text)))
<1> DEFINE line == SubSeq(text, 1, i - 1)
           P(n) == PartsOf(nls, SubSeq(text, 1, n)) = <<line>> \o PartsOf(nls, SubSeq(text, i + 1, n))
           T == {k \in Nat : i + k <= Len(text) => P(i + k)}
<1>0. /\ Len(text) \in Nat /\ i \in Nat \ {0} /\ i <= Len(text)
      /\ line \in Seq(Nat) /\ SubSeq(text, 1, i) = Append(line, text[i]) /\ text[i] \in Nat
  BY StretchGrows
<1>1. 0 \in T
  <2>1. SubSeq(text, i + 1, i) = <<>>
    <3>1. (i + 1) - 1 = i /\ i + 1 \in Int
      BY <1>0
    <3> QED  BY <3>1, StretchIsEmpty
  <2>2. PartsOf(nls, line) = <<line>>
    <3>1. Len(line) = i - 1 /\ \A j \in 1..(i - 1) : line[j] = text[j]
      BY <1>0
    <3>2. \A j \in 1..Len(line) : line[j] \notin nls
      BY <3>1
    <3> HIDE DEF line
    <3> QED  BY <1>0, <3>2, OneLine
  <2> HIDE DEF line
  <2>3. PartsOf(nls, SubSeq(text, 1, i)) = Extend(nls, <<line>>, text[i])
    <3>1. PartsOf(nls, Append(line, text[i])) = Extend(nls, PartsOf(nls, line), text[i])
      BY <1>0, PartsGrow
    <3> QED  BY <1>0, <2>2, <3>1
  <2>4. Extend(nls, <<line>>, text[i]) = <<line>> \o << <<>> >>
    BY <1>0 DEF Extend
  <2>5. PartsOf(nls, <<>>) = << <<>> >>
    BY PartsOfNone
  <2>6. P(i)
    BY <2>1, <2>3, <2>4, <2>5
  <2>7. i + 0 = i
    BY <1>0
  <2> HIDE DEF P
  <2> QED  BY <2>6, <2>7
<1>2. ASSUME NEW k \in T PROVE k + 1 \in T
  <2> DEFINE n == i + k
             s == SubSeq(text, 1, n)
             t == SubSeq(text, i + 1, n)
             b == text[n + 1]
  <2>0. k \in Nat /\ k + 1 \in Nat /\ i + (k + 1) = n + 1
    BY <1>0
  <2> SUFFICES ASSUME n + 1 <= Len(text) PROVE P(n + 1)
    BY <2>0
  <2>1. /\ n \in Nat /\ n <= Len(text) /\ n + 1 \in 1..Len(text) /\ (n + 1) - 1 = n
        /\ n + 1 \in (i + 1)..Len(text) /\ i + 1 \in 1..(Len(text) + 1) /\ 1 \in 1..(Len(text) + 1)
    BY <1>0, <2>0
  <2>2. SubSeq(text, 1, n + 1) = Append(s, b) /\ s \in Seq(Nat) /\ b \in Nat
    <3>1. SubSeq(text, 1, (n + 1) - 1) = s
      BY <2>1
    <3>2. /\ SubSeq(text, 1, n + 1) = Append(SubSeq(text, 1, (n + 1) - 1), text[n + 1])
          /\ SubSeq(text, 1, (n + 1) - 1) \in Seq(Nat) /\ text[n + 1] \in Nat
      BY <2>1, StretchGrows
    <3> QED  BY <3>1, <3>2
  <2>3. SubSeq(text, i + 1, n + 1) = Append(t, b) /\ t \in Seq(Nat)
    <3>1. SubSeq(text, i + 1, (n + 1) - 1) = t
      BY <2>1
    <3>2. /\ SubSeq(text, i + 1, n + 1) = Append(SubSeq(text, i + 1, (n + 1) - 1), text[n + 1])
          /\ SubSeq(text, i + 1, (n + 1) - 1) \in Seq(Nat)
      <4> DEFINE m == i + 1
                 o == n + 1
      <4>1. text \in Seq(Nat) /\ m \in 1..(Len(text) + 1) /\ o \in m..Len(text)
        BY <2>1
      <4> HIDE DEF m, o
      <4>2. SubSeq(text, m, o) = Append(SubSeq(text, m, o - 1), text[o]) /\ SubSeq(text, m, o - 1) \in Seq(Nat)
        BY ONLY <4>1, StretchGrows
      <4> QED  BY <4>2 DEF m, o
    <3> QED  BY <3>1, <3>2
  <2>4. PartsOf(nls, s) = <<line>> \o PartsOf(nls, t)
    BY <2>1
  <2> HIDE DEF s, t, b, line
  <2>5. PartsOf(nls, Append(s, b)) = Extend(nls, <<line>> \o PartsOf(nls, t), b)
    <3>1. PartsOf(nls, Append(s, b)) = Extend(nls, PartsOf(nls, s), b)
      BY <2>2, PartsGrow
    <3> QED  BY <2>4, <3>1
  <2>6. PartsOf(nls, Append(t, b)) = Extend(nls, PartsOf(nls, t), b) /\ PartsOf(nls, t) \in Begun
    BY <2>2, <2>3, PartsGrow, PartsType
  <2>7. <<line>> \in Seq(Seq(Nat))
    BY <1>0
  <2>8. Extend(nls, <<line>> \o PartsOf(nls, t), b) = <<line>> \o Extend(nls, PartsOf(nls, t), b)
    BY <2>2, <2>6, <2>7, ExtendBehind
  <2> QED  BY <2>2, <2>3, <2>5, <2>6, <2>8
<1>3. T = Nat
  <2>1. T \subseteq Nat
    OBVIOUS
  <2> HIDE DEF T
  <2> QED  BY <1>1, <1>2, <2>1, SetInduction
<1>4. P(Len(text))
  <2>1. Len(text) - i \in Nat /\ i + (Len(text) - i) = Len(text) /\ Len(text) <= Len(text)
    BY <1>0
  <2>2. \A k \in Nat : i + k <= Len(text) => P(i + k)
    BY <1>3
  <2> HIDE DEF P
  <2>3. i + (Len(text) - i) <= Len(text) => P(i + (Len(text) - i))
    BY <2>1, <2>2
  <2> QED  BY <2>1, <2>3
<1>5. SubSeq(text, 1, Len(text)) = text
  BY SubSeqFull
<1> QED  BY <1>4, <1>5

\* t ends in s, position by position.
EndOf(s, t) ==
  Len(s) <= Len(t) /\ \A i \in 1..Len(s) : s[i] = t[Len(t) - Len(s) + i]

LEMMA ReverseFacts ==
  ASSUME NEW s \in Seq(Nat)
  PROVE  /\ Reverse(s) \in Seq(Nat) /\ Len(Reverse(s)) = Len(s)
         /\ \A i \in 1..Len(s) : Reverse(s)[i] = s[(Len(s) - i) + 1]
<1>1. Len(s) \in Nat /\ \A i \in 1..Len(s) : (Len(s) - i) + 1 \in 1..Len(s)
  OBVIOUS
<1> QED  BY <1>1 DEF Reverse

LEMMA EndIsSuffix ==
  ASSUME NEW s \in Seq(Nat), NEW t \in Seq(Nat), EndOf(s, t)
  PROVE  IsSuffix(s, t)
<1> DEFINE m == Len(s)
           n == Len(t)
           rs == Reverse(s)
           rt == Reverse(t)
<1>0. m \in Nat /\ n \in Nat /\ m <= n /\ \A i \in 1..m : s[i] = t[n - m + i]
  BY DEF EndOf
<1>1. /\ rs \in Seq(Nat) /\ Len(rs) = m /\ \A i \in 1..m : rs[i] = s[(m - i) + 1]
      /\ rt \in Seq(Nat) /\ Len(rt) = n /\ \A i \in 1..n : rt[i] = t[(n - i) + 1]
  BY ReverseFacts
<1> HIDE DEF rs, rt
<1>2. ASSUME NEW i \in 1..m
      PROVE  rs[i] = rt[i]
  <2>1. i \in 1..n /\ (m - i) + 1 \in 1..m /\ n - m + ((m - i) + 1) = (n - i) + 1
    BY <1>0
  <2>2. s[(m - i) + 1] = t[n - m + ((m - i) + 1)]
    BY <1>0, <2>1
  <2> QED  BY <1>1, <2>1, <2>2
<1>3. SubSeq(rs, 1, m) = SubSeq(rt, 1, m)
  <2> DEFINE a == SubSeq(rt, 1, m)
  <2>1. a \in Seq(Nat) /\ Len(a) = m /\ \A i \in 1..m : a[i] = rt[i]
    <3>1. m \in 0..Len(rt)
      BY <1>0, <1>1
    <3> QED  BY <1>1, <3>1, FrontStretch
  <2> HIDE DEF a
  <2>2. rs = a
    BY <1>1, <1>2, <2>1, SeqEqual
  <2>3. SubSeq(rs, 1, m) = rs
    BY <1>1, SubSeqFull
  <2> QED  BY <2>2, <2>3 DEF a
<1> QED  BY <1>0, <1>1, <1>3 DEF IsSuffix, IsPrefix, rs, rt

LEMMA EndGrows ==
  ASSUME NEW s \in Seq(Nat), NEW t \in Seq(Nat), EndOf(s, t), NEW b \in Nat
  PROVE  EndOf(Append(s, b), Append(t, b))
<1> DEFINE m == Len(s)
           n == Len(t)
           a == Append(s, b)
           c == Append(t, b)
<1>0. m \in Nat /\ n \in Nat /\ m <= n /\ \A i \in 1..m : s[i] = t[n - m + i]
  BY DEF EndOf
<1>1. /\ Len(a) = m + 1 /\ a[m + 1] = b /\ \A i \in 1..m : a[i] = s[i]
      /\ Len(c) = n + 1 /\ c[n + 1] = b /\ \A i \in 1..n : c[i] = t[i]
  BY AppendProperties
<1> HIDE DEF a, c
<1>2. ASSUME NEW i \in 1..(m + 1)
      PROVE  a[i] = c[(n + 1) - (m + 1) + i]
  <2>1. CASE i = m + 1
    <3>1. (n + 1) - (m + 1) + i = n + 1
      BY <1>0, <2>1
    <3> QED  BY <1>1, <2>1, <3>1
  <2>2. CASE i # m + 1
    <3>1. i \in 1..m /\ (n + 1) - (m + 1) + i = n - m + i /\ n - m + i \in 1..n
      BY <1>0, <2>2
    <3> QED  BY <1>0, <1>1, <3>1
  <2> QED  BY <2>1, <2>2
<1> HIDE DEF m, n
<1>3. EndOf(a, c)
  BY <1>0, <1>1, <1>2 DEF EndOf
<1> QED  BY <1>3 DEF a, c

\* The last lines of all, the first of them perhaps cut in front.
EndOfLines(ls, all) ==
  /\ Len(ls) <= Len(all)
  /\ EndOf(ls[1], all[Len(all) - Len(ls) + 1])
  /\ \A k \in 2..Len(ls) : ls[k] = all[Len(all) - Len(ls) + k]

LEMMA EndExtends ==
  ASSUME NEW nls, NEW ls \in Begun, NEW all \in Begun, EndOfLines(ls, all), NEW b \in Nat
  PROVE  EndOfLines(Extend(nls, ls, b), Extend(nls, all, b))
<1> DEFINE more == Extend(nls, ls, b)
           plus == Extend(nls, all, b)
           m == Len(ls)
           n == Len(all)
           d == n - m
<1>1. Extends(nls, ls, b, more) /\ Extends(nls, all, b, plus)
  BY ExtendFacts
<1> HIDE DEF more, plus
<1>2. /\ m \in Nat \ {0} /\ n \in Nat \ {0} /\ d \in Nat /\ m + d = n
      /\ \A k \in 1..m : ls[k] \in Seq(Nat)
      /\ \A k \in 1..n : all[k] \in Seq(Nat)
  <2>1. /\ m \in Nat \ {0} /\ n \in Nat \ {0} /\ ls \in Seq(Seq(Nat)) /\ all \in Seq(Seq(Nat)) /\ m <= n
    BY <1>1 DEF Extends, EndOfLines
  <2>2. \A k \in 1..m : ls[k] \in Seq(Nat)
    BY <2>1
  <2>3. \A k \in 1..n : all[k] \in Seq(Nat)
    BY <2>1
  <2> QED  BY <2>1, <2>2, <2>3
<1>3. /\ EndOf(ls[1], all[d + 1])
      /\ \A k \in 2..m : ls[k] = all[d + k]
  BY DEF EndOfLines
<1> HIDE DEF d
<1>4. CASE b \in nls
  <2>1. /\ Len(more) = m + 1 /\ more[m + 1] = <<>> /\ \A k \in 1..m : more[k] = ls[k]
        /\ Len(plus) = n + 1 /\ plus[n + 1] = <<>> /\ \A k \in 1..n : plus[k] = all[k]
    BY <1>1, <1>4 DEF Extends
  <2> HIDE DEF m, n
  <2>2. Len(plus) - Len(more) = d /\ Len(more) <= Len(plus)
    BY <1>2, <2>1
  <2>3. more[1] = ls[1] /\ plus[d + 1] = all[d + 1]
    <3>1. 1 \in 1..m /\ d + 1 \in 1..n
      BY <1>2
    <3> QED  BY <2>1, <3>1
  <2>4. ASSUME NEW k \in 2..Len(more)
        PROVE  more[k] = plus[d + k]
    <3>1. CASE k = m + 1
      <4>1. d + k = n + 1
        BY <1>2, <3>1
      <4> QED  BY <2>1, <3>1, <4>1
    <3>2. CASE k # m + 1
      <4>1. k \in 2..m /\ k \in 1..m /\ d + k \in 1..n
        BY <1>2, <2>1, <3>2
      <4> QED  BY <1>3, <2>1, <4>1
    <3> QED  BY <3>1, <3>2
  <2> QED  BY <1>3, <2>2, <2>3, <2>4 DEF EndOfLines, more, plus
<1>5. CASE b \notin nls
  <2>1. /\ Len(more) = m /\ more[m] = Append(ls[m], b) /\ \A k \in 1..(m - 1) : more[k] = ls[k]
        /\ Len(plus) = n /\ plus[n] = Append(all[n], b) /\ \A k \in 1..(n - 1) : plus[k] = all[k]
    BY <1>1, <1>5 DEF Extends
  <2> HIDE DEF m, n
  <2>2. Len(plus) - Len(more) = d /\ Len(more) <= Len(plus)
    BY <1>2, <2>1
  <2>3. EndOf(more[1], plus[d + 1])
    <3>1. CASE m = 1
      <4>1. d + 1 = n /\ 1 \in 1..m /\ n \in 1..n
        BY <1>2, <3>1
      <4>2. ls[1] \in Seq(Nat) /\ all[n] \in Seq(Nat) /\ EndOf(ls[1], all[n])
        BY <1>2, <1>3, <4>1
      <4>3. more[1] = Append(ls[1], b) /\ plus[d + 1] = Append(all[n], b)
        BY <2>1, <3>1, <4>1
      <4> QED  BY <4>2, <4>3, EndGrows
    <3>2. CASE m # 1
      <4>1. 1 \in 1..(m - 1) /\ d + 1 \in 1..(n - 1)
        BY <1>2, <3>2
      <4> QED  BY <1>3, <2>1, <4>1
    <3> QED  BY <3>1, <3>2
  <2>4. ASSUME NEW k \in 2..Len(more)
        PROVE  more[k] = plus[d + k]
    <3>1. CASE k = m
      <4>1. d + k = n /\ m \in 2..m
        BY <1>2, <2>1, <3>1
      <4>2. ls[m] = all[n]
        BY <1>3, <3>1, <4>1
      <4> QED  BY <2>1, <3>1, <4>1, <4>2
    <3>2. CASE k # m
      <4>1. k \in 2..m /\ k \in 1..(m - 1) /\ d + k \in 1..(n - 1)
        BY <1>2, <2>1, <3>2
      <4> QED  BY <1>3, <2>1, <4>1
    <3> QED  BY <3>1, <3>2
  <2> QED  BY <2>2, <2>3, <2>4 DEF EndOfLines, more, plus
<1> QED  BY <1>4, <1>5

-----------------------------------------------------------------------------
\* What was returned, and what is still to be split, are the lines of what the
\* kernel gave; where a read failed, each is the end of one of them.
Reads(exact, got, rest, all) ==
  /\ exact => got \o rest = all
  /\ EndOfLines(rest, all)
  /\ \A line \in Range(got) : \E k \in 1..(Len(all) - 1) : EndOf(line, all[k])

\* After the end of the stream the last line was returned, too.
Finished(exact, got, all) ==
  /\ exact => got = LinesIn(all)
  /\ \A line \in Range(got) :
       \E k \in 1..Len(all) : EndOf(line, all[k]) /\ (k < Len(all) \/ all[k] # <<>>)

LEMMA ByteIsRead ==
  ASSUME NEW nls, NEW exact, NEW got \in Seq(Seq(Nat)), NEW text \in Seq(Nat), NEW given \in Seq(Nat),
         NEW b \in Nat, Reads(exact, got, PartsOf(nls, text), PartsOf(nls, given))
  PROVE  Reads(exact, got, PartsOf(nls, Append(text, b)), PartsOf(nls, Append(given, b)))
<1> DEFINE rest == PartsOf(nls, text)
           all == PartsOf(nls, given)
<1>1. rest \in Begun /\ all \in Begun /\ Reads(exact, got, rest, all)
  BY PartsType
<1>2. /\ PartsOf(nls, Append(text, b)) = Extend(nls, rest, b)
      /\ PartsOf(nls, Append(given, b)) = Extend(nls, all, b)
  BY PartsGrow
<1> HIDE DEF rest, all
<1>3. exact => got \o Extend(nls, rest, b) = Extend(nls, all, b)
  <2>1. Extend(nls, got \o rest, b) = got \o Extend(nls, rest, b)
    BY <1>1, ExtendBehind
  <2> QED  BY <1>1, <2>1 DEF Reads
<1>4. EndOfLines(Extend(nls, rest, b), Extend(nls, all, b))
  BY <1>1, EndExtends DEF Reads
<1>5. ASSUME NEW line \in Range(got)
      PROVE  \E k \in 1..(Len(Extend(nls, all, b)) - 1) : EndOf(line, Extend(nls, all, b)[k])
  <2> DEFINE plus == Extend(nls, all, b)
  <2>1. PICK k \in 1..(Len(all) - 1) : EndOf(line, all[k])
    BY <1>1 DEF Reads
  <2>2. Extends(nls, all, b, plus)
    BY <1>1, ExtendFacts
  <2> HIDE DEF plus
  <2>3. Len(all) \in Nat \ {0} /\ Len(plus) \in Nat /\ Len(plus) >= Len(all) /\ k \in 1..(Len(plus) - 1) /\ k \in 1..Len(all)
    <3>1. Len(all) \in Nat \ {0} /\ Len(plus) \in Nat /\ (Len(plus) = Len(all) \/ Len(plus) = Len(all) + 1)
      BY <2>2 DEF Extends
    <3> QED  BY <3>1
  <2>4. plus[k] = all[k]
    BY <2>2, <2>3 DEF Extends
  <2> QED  BY <2>1, <2>3, <2>4 DEF plus
<1> QED  BY <1>2, <1>3, <1>4, <1>5 DEF Reads

\* A read takes bytes one after the other.
LEMMA ChunkIsRead ==
  ASSUME NEW nls, NEW exact, NEW got \in Seq(Seq(Nat)), NEW text \in Seq(Nat), NEW s \in Seq(Nat),
         NEW t \in Nat, NEW n \in Nat, t + n <= Len(s),
         Reads(exact, got, PartsOf(nls, text), PartsOf(nls, SubSeq(s, 1, t)))
  PROVE  Reads(exact, got, PartsOf(nls, text \o SubSeq(s, t + 1, t + n)),
               PartsOf(nls, SubSeq(s, 1, t + n)))
<1> DEFINE P(k) == Reads(exact, got, PartsOf(nls, text \o SubSeq(s, t + 1, t + k)),
                         PartsOf(nls, SubSeq(s, 1, t + k)))
           T == {k \in Nat : t + k <= Len(s) => P(k)}
<1>1. 0 \in T
  <2>1. SubSeq(s, t + 1, t) = <<>> /\ t + 0 = t /\ text \o <<>> = text
    <3>1. (t + 1) - 1 = t /\ t + 1 \in Int
      OBVIOUS
    <3>2. SubSeq(s, t + 1, t) = <<>>
      BY <3>1, StretchIsEmpty
    <3> QED  BY <3>2
  <2> QED  BY <2>1
<1>2. ASSUME NEW k \in T PROVE k + 1 \in T
  <2> DEFINE m == t + k
             front == SubSeq(s, t + 1, m)
             given == SubSeq(s, 1, m)
             b == s[m + 1]
             more == text \o front
  <2>0. k \in Nat /\ k + 1 \in Nat /\ t + (k + 1) = m + 1 /\ Len(s) \in Nat
    OBVIOUS
  <2> SUFFICES ASSUME m + 1 <= Len(s) PROVE P(k + 1)
    BY <2>0
  <2>1. m \in Nat /\ m <= Len(s) /\ (m + 1) - 1 = m /\ m + 1 \in 1..Len(s)
    BY <2>0
  <2>2. SubSeq(s, 1, m + 1) = Append(given, b) /\ given \in Seq(Nat) /\ b \in Nat
    <3> DEFINE o == m + 1
    <3>1. 1 \in 1..(Len(s) + 1) /\ o \in 1..Len(s) /\ o - 1 = m
      BY <2>1
    <3> HIDE DEF o
    <3>2. SubSeq(s, 1, o) = Append(SubSeq(s, 1, o - 1), s[o]) /\ SubSeq(s, 1, o - 1) \in Seq(Nat) /\ s[o] \in Nat
      BY <3>1, StretchGrows
    <3> QED  BY <3>1, <3>2 DEF o
  <2>3. SubSeq(s, t + 1, m + 1) = Append(front, b) /\ front \in Seq(Nat)
    <3> DEFINE o == m + 1
               a == t + 1
    <3>1. a \in 1..(Len(s) + 1) /\ o \in a..Len(s) /\ o - 1 = m
      BY <2>0, <2>1
    <3> HIDE DEF o, a
    <3>2. SubSeq(s, a, o) = Append(SubSeq(s, a, o - 1), s[o]) /\ SubSeq(s, a, o - 1) \in Seq(Nat)
      BY <3>1, StretchGrows
    <3> QED  BY <3>1, <3>2 DEF o, a
  <2>4. Reads(exact, got, PartsOf(nls, more), PartsOf(nls, given))
    BY <2>0, <2>1
  <2> HIDE DEF front, given, b, m
  <2>5. more \in Seq(Nat) /\ text \o Append(front, b) = Append(more, b)
    <3> DEFINE U == Nat
    <3>1. text \in Seq(U) /\ front \in Seq(U) /\ b \in U
      BY <2>2, <2>3
    <3> HIDE DEF U
    <3>2. text \o front \in Seq(U) /\ text \o Append(front, b) = Append(text \o front, b)
      BY ONLY <3>1, AppendBehind
    <3> QED  BY <3>2 DEF U
  <2> HIDE DEF more
  <2>6. Reads(exact, got, PartsOf(nls, Append(more, b)), PartsOf(nls, Append(given, b)))
    BY <2>2, <2>4, <2>5, ByteIsRead
  <2>7. text \o SubSeq(s, t + 1, m + 1) = Append(more, b) /\ SubSeq(s, 1, m + 1) = Append(given, b)
    BY <2>2, <2>3, <2>5
  <2> QED  BY <2>0, <2>6, <2>7
<1>3. T = Nat
  <2>1. T \subseteq Nat
    OBVIOUS
  <2> HIDE DEF T
  <2> QED  BY <1>1, <1>2, <2>1, SetInduction
<1>4. \A k \in Nat : t + k <= Len(s) => P(k)
  BY <1>3
<1> HIDE DEF T
<1> QED  BY <1>4

\* A call returns the first line of the text.
LEMMA LineIsTaken ==
  ASSUME NEW nls, NEW exact, NEW got \in Seq(Seq(Nat)), NEW text \in Seq(Nat), NEW all \in Begun,
         Reads(exact, got, PartsOf(nls, text), all),
         NEW i \in 1..Len(text), text[i] \in nls, \A j \in 1..(i - 1) : text[j] \notin nls
  PROVE  LET line == SubSeq(text, 1, i - 1)
             rest == SubSeq(text, i + 1, Len(text))
         IN  /\ line \in Seq(Nat) /\ rest \in Seq(Nat) /\ Append(got, line) \in Seq(Seq(Nat))
             /\ Reads(exact, Append(got, line), PartsOf(nls, rest), all)
<1> DEFINE line == SubSeq(text, 1, i - 1)
           rest == SubSeq(text, i + 1, Len(text))
           ls == PartsOf(nls, text)
           tl == PartsOf(nls, rest)
<1>1. line \in Seq(Nat) /\ rest \in Seq(Nat)
  <2>1. i \in Nat /\ Len(text) \in Nat /\ i - 1 \in 0..Len(text)
    OBVIOUS
  <2>2. line \in Seq(Nat)
    BY <2>1, FrontStretch
  <2>3. rest \in Seq(Nat)
    <3>1. i + 1 \in 1..(Len(text) + 1) /\ Len(text) \in ((i + 1) - 1)..Len(text)
      BY <2>1
    <3> QED  BY <3>1, Stretch
  <2> QED  BY <2>2, <2>3
<1>2. ls = <<line>> \o tl /\ ls \in Begun /\ tl \in Begun
  BY <1>1, FirstLine, PartsType
<1>3. Reads(exact, got, ls, all)
  OBVIOUS
<1> HIDE DEF line, rest, ls, tl
<1>4. /\ Len(tl) \in Nat \ {0} /\ tl \in Seq(Seq(Nat)) /\ Len(ls) = Len(tl) + 1
      /\ ls[1] = line /\ \A k \in 1..Len(tl) : ls[k + 1] = tl[k]
      /\ Len(all) \in Nat \ {0} /\ all \in Seq(Seq(Nat))
  <2>1. tl \in Seq(Seq(Nat)) /\ tl # <<>> /\ all \in Seq(Seq(Nat)) /\ all # <<>>
    BY <1>2 DEF Begun
  <2>2. Len(tl) \in Nat \ {0} /\ Len(all) \in Nat \ {0}
    BY <2>1, EmptySeq
  <2>3. Len(ls) = Len(tl) + 1 /\ ls[1] = line /\ \A k \in 1..Len(tl) : ls[k + 1] = tl[k]
    BY <1>1, <1>2, <2>1, ConsFacts
  <2> QED  BY <2>1, <2>2, <2>3
<1>5. Append(got, line) \in Seq(Seq(Nat)) /\ (exact => Append(got, line) \o tl = all)
  <2>1. Append(got, line) \in Seq(Seq(Nat)) /\ Append(got, line) \o tl = got \o (<<line>> \o tl)
    <3> DEFINE U == Seq(Nat)
    <3>1. got \in Seq(U) /\ tl \in Seq(U) /\ line \in U
      BY <1>1, <1>4
    <3> HIDE DEF U
    <3>2. Append(got, line) \in Seq(U) /\ Append(got, line) \o tl = got \o (<<line>> \o tl)
      BY ONLY <3>1, ConsBehind
    <3> QED  BY <3>2 DEF U
  <2> QED  BY <1>2, <1>3, <2>1 DEF Reads
<1> DEFINE m == Len(tl)
           n == Len(all)
           d == n - m
<1>6. /\ m + 1 <= n /\ m \in Nat \ {0} /\ n \in Nat \ {0}
      /\ EndOf(line, all[d])
      /\ \A k \in 1..m : tl[k] = all[d + k]
  <2>1. /\ Len(ls) <= n /\ EndOf(ls[1], all[n - Len(ls) + 1])
        /\ \A k \in 2..Len(ls) : ls[k] = all[n - Len(ls) + k]
    BY <1>3 DEF Reads, EndOfLines
  <2>2. Len(ls) = m + 1 /\ m \in Nat \ {0} /\ n \in Nat \ {0}
    BY <1>4
  <2> HIDE DEF m, n
  <2>3. n - Len(ls) + 1 = d /\ m + 1 <= n
    BY <2>1, <2>2
  <2>4. ASSUME NEW k \in 1..m PROVE tl[k] = all[d + k]
    <3>1. k + 1 \in 2..Len(ls) /\ n - Len(ls) + (k + 1) = d + k
      BY <2>2
    <3> QED  BY <1>4, <2>1, <3>1 DEF m
  <2> QED  BY <1>4, <2>1, <2>2, <2>3, <2>4
<1>7. EndOfLines(tl, all)
  <2>1. 1 \in 1..m /\ d + 1 \in 1..n /\ m <= n
    BY <1>6
  <2>2. tl[1] = all[d + 1] /\ \A k \in 2..m : tl[k] = all[d + k]
    BY <1>6, <2>1
  <2>3. EndOf(tl[1], all[d + 1])
    <3>1. tl[1] \in Seq(Nat)
      BY <1>4, <2>1
    <3> DEFINE l == Len(tl[1])
    <3>2. l \in Nat /\ \A k \in 1..l : l - l + k = k
      BY <3>1
    <3>3. EndOf(tl[1], tl[1])
      BY <3>2 DEF EndOf
    <3> QED  BY <2>2, <3>3
  <2> QED  BY <2>1, <2>2, <2>3 DEF EndOfLines
<1>8. ASSUME NEW one \in Range(Append(got, line))
      PROVE  \E k \in 1..(n - 1) : EndOf(one, all[k])
  <2>1. one \in Range(got) \/ one = line
    <3> DEFINE more == Append(got, line)
    <3>1. PICK k \in DOMAIN more : one = more[k]
      BY DEF Range
    <3>2. /\ DOMAIN more = 1..(Len(got) + 1) /\ Len(got) \in Nat /\ DOMAIN got = 1..Len(got)
          /\ more[Len(got) + 1] = line /\ \A j \in 1..Len(got) : more[j] = got[j]
      BY <1>1, AppendProperties
    <3> HIDE DEF more
    <3>3. CASE k = Len(got) + 1
      BY <3>1, <3>2, <3>3
    <3>4. CASE k # Len(got) + 1
      <4>1. k \in DOMAIN got /\ one = got[k]
        BY <3>1, <3>2, <3>4
      <4> QED  BY <4>1 DEF Range
    <3> QED  BY <3>3, <3>4
  <2>2. CASE one \in Range(got)
    BY <1>3, <2>2 DEF Reads
  <2>3. CASE one = line
    <3>1. d \in 1..(n - 1)
      BY <1>6
    <3> QED  BY <1>6, <2>3, <3>1
  <2> QED  BY <2>1, <2>2, <2>3
<1> QED  BY <1>1, <1>5, <1>7, <1>8 DEF Reads, line, rest, tl

Given == SubSeq(sent, 1, taken)
IsExact == in.kind = "stdin" \/ in.errs = 0

InTypes ==
  [kind : Readers, pc : {"idle", "reading", "done"}, text : Seq(Nat), got : Seq(Seq(Nat)),
   eof : BOOLEAN, errs : Nat]

Told ==
  \/ Reads(IsExact, in.got, PartsOf(newlines, in.text), PartsOf(newlines, Given))
  \/ /\ ~WriterOpen /\ Held = 0 /\ in.text = <<>>
     /\ Finished(IsExact, in.got, PartsOf(newlines, Given))

NoNewline(text) == \A j \in 1..Len(text) : text[j] \notin newlines

LineInv ==
  /\ in \in InTypes /\ newlines \in SUBSET Nat /\ taken \in Nat /\ taken <= Len(sent)
  /\ in.kind = "read_to_end" => in.text = Given
  /\ in.kind # "read_to_end" => Told /\ (in.pc = "reading" => NoNewline(in.text))

LEMMA LeastExists ==
  ASSUME NEW n \in Nat, NEW u \in SUBSET (1..n), u # {}
  PROVE  \E x \in u : \A y \in u : x <= y
<1> DEFINE T == {k \in Nat : \A v \in SUBSET (1..k) : v # {} => \E x \in v : \A y \in v : x <= y}
<1>1. 0 \in T
  <2>1. \A v \in SUBSET (1..0) : v = {}
    OBVIOUS
  <2> QED  BY <2>1
<1>2. ASSUME NEW k \in T PROVE k + 1 \in T
  <2>1. ASSUME NEW v \in SUBSET (1..(k + 1)), v # {}
        PROVE  \E x \in v : \A y \in v : x <= y
    <3>1. CASE v \ {k + 1} = {}
      <4>1. \A y \in v : y = k + 1
        BY <3>1
      <4>2. k + 1 \in v /\ k + 1 <= k + 1
        BY <2>1, <4>1
      <4> QED  BY <4>1, <4>2
    <3>2. CASE v \ {k + 1} # {}
      <4>1. v \ {k + 1} \in SUBSET (1..k)
        OBVIOUS
      <4>2. PICK x \in v \ {k + 1} : \A y \in v \ {k + 1} : x <= y
        BY <3>2, <4>1
      <4>3. x <= k + 1
        BY <4>1, <4>2
      <4> QED  BY <4>2, <4>3
    <3> QED  BY <3>1, <3>2
  <2> QED  BY <2>1
<1>3. T = Nat
  <2>1. T \subseteq Nat
    OBVIOUS
  <2> HIDE DEF T
  <2> QED  BY <1>1, <1>2, <2>1, SetInduction
<1> QED  BY <1>3

\* Where Scan finds the first newline.
LEMMA FirstNewline ==
  ASSUME NEW text \in Seq(Nat)
  PROVE  LET i == SelectInSeq(text, LAMBDA b : b \in newlines)
         IN  \/ i = 0 /\ NoNewline(text)
             \/ /\ i \in 1..Len(text) /\ text[i] \in newlines
                /\ \A j \in 1..(i - 1) : text[j] \notin newlines
<1> DEFINE I == {i \in 1..Len(text) : text[i] \in newlines}
           i == SelectInSeq(text, LAMBDA b : b \in newlines)
<1>1. i = IF I # {} THEN Min(I) ELSE 0
  BY DEF SelectInSeq
<1> HIDE DEF i
<1>2. CASE I = {}
  BY <1>1, <1>2 DEF NoNewline, i
<1>3. CASE I # {}
  <2>1. Len(text) \in Nat /\ I \in SUBSET (1..Len(text))
    OBVIOUS
  <2> HIDE DEF I
  <2>2. \E x \in I : \A y \in I : x <= y
    BY <1>3, <2>1, LeastExists
  <2>3. i \in I /\ \A y \in I : i <= y
    BY <1>1, <1>3, <2>2 DEF Min
  <2>4. ASSUME NEW j \in 1..(i - 1) PROVE j \notin I /\ j \in 1..Len(text)
    BY <2>1, <2>3
  <2> QED  BY <2>1, <2>3, <2>4 DEF I, i
<1> QED  BY <1>2, <1>3

\* A call that looks for a line has it, or goes on with a text without one.
LEMMA ScanTells ==
  ASSUME in \in InTypes, NEW text \in Seq(Nat), Scan(text), in.kind # "read_to_end",
         NEW all \in Begun, NEW exact, Reads(exact, in.got, PartsOf(newlines, text), all)
  PROVE  /\ in' \in InTypes /\ in'.kind = in.kind /\ in'.errs = in.errs
         /\ Reads(exact, in'.got, PartsOf(newlines, in'.text), all)
         /\ in'.pc = "reading" => \A j \in 1..Len(in'.text) : in'.text[j] \notin newlines
<1> DEFINE i == SelectInSeq(text, LAMBDA b : b \in newlines)
           line == SubSeq(text, 1, i - 1)
           rest == SubSeq(text, i + 1, Len(text))
<1>1. \/ i = 0 /\ NoNewline(text)
      \/ /\ i \in 1..Len(text) /\ text[i] \in newlines
         /\ \A j \in 1..(i - 1) : text[j] \notin newlines
  BY FirstNewline
<1>2. /\ in.kind # "read_to_end" /\ i > 0
         => in' = [in EXCEPT !.got = Append(@, line), !.text = rest, !.pc = "idle"]
      /\ ~(i > 0) => in' = [in EXCEPT !.text = text, !.pc = "reading"]
  BY DEF Scan
<1> HIDE DEF i
<1>3. CASE i = 0 /\ NoNewline(text)
  <2>1. in' = [in EXCEPT !.text = text, !.pc = "reading"]
    BY <1>2, <1>3
  <2>2. /\ in' \in InTypes /\ in'.kind = in.kind /\ in'.errs = in.errs
        /\ in'.got = in.got /\ in'.text = text
    BY <2>1 DEF InTypes
  <2> QED  BY <1>3, <2>2 DEF NoNewline
<1>4. CASE /\ i \in 1..Len(text) /\ text[i] \in newlines
           /\ \A j \in 1..(i - 1) : text[j] \notin newlines
  <2>1. in.got \in Seq(Seq(Nat)) /\ i > 0
    BY <1>4 DEF InTypes
  <2>2. /\ line \in Seq(Nat) /\ rest \in Seq(Nat) /\ Append(in.got, line) \in Seq(Seq(Nat))
        /\ Reads(exact, Append(in.got, line), PartsOf(newlines, rest), all)
    BY <1>4, <2>1, LineIsTaken
  <2>3. in' = [in EXCEPT !.got = Append(in.got, line), !.text = rest, !.pc = "idle"]
    BY <1>2, <2>1
  <2> HIDE DEF line, rest
  <2>4. /\ in' \in InTypes /\ in'.kind = in.kind /\ in'.errs = in.errs
        /\ in'.got = Append(in.got, line) /\ in'.text = rest /\ in'.pc = "idle"
    BY <2>2, <2>3 DEF InTypes
  <2> QED  BY <2>2, <2>4
<1> QED  BY <1>1, <1>3, <1>4

\* The writer's steps leave what was given, and come only before it closes.
LEMMA WriterKeeps ==
  ASSUME LineInv, sent \in Seq(Nat), UNCHANGED <<newlines, taken, in>>, WriterOpen,
         NEW u \in Seq(Nat), sent' = sent \o u
  PROVE  LineInv'
<1>1. /\ in \in InTypes /\ newlines \in SUBSET Nat /\ taken \in Nat /\ taken <= Len(sent)
      /\ in' = in /\ newlines' = newlines /\ taken' = taken
  BY DEF LineInv
<1>2. taken <= Len(sent') /\ Given' = Given
  <2> DEFINE more == sent \o u
  <2>1. /\ more \in Seq(Nat) /\ Len(more) = Len(sent) + Len(u) /\ Len(u) \in Nat /\ Len(sent) \in Nat
        /\ \A i \in 1..Len(sent) + Len(u) : more[i] = IF i <= Len(sent) THEN sent[i] ELSE u[i - Len(sent)]
    OBVIOUS
  <2> HIDE DEF more
  <2>2. taken \in 0..Len(sent) /\ taken \in 0..Len(more)
    BY <1>1, <2>1
  <2> DEFINE a == SubSeq(sent, 1, taken)
             b == SubSeq(more, 1, taken)
  <2>3. /\ a \in Seq(Nat) /\ Len(a) = taken /\ \A i \in 1..taken : a[i] = sent[i]
    BY <2>2, FrontStretch
  <2>4. /\ b \in Seq(Nat) /\ Len(b) = taken /\ \A i \in 1..taken : b[i] = more[i]
    BY <2>1, <2>2, FrontStretch
  <2> HIDE DEF a, b
  <2>5. ASSUME NEW i \in 1..taken PROVE a[i] = b[i]
    <3>1. i \in 1..Len(sent) + Len(u) /\ i <= Len(sent)
      BY <1>1, <2>1
    <3> QED  BY <2>1, <2>3, <2>4, <3>1
  <2>6. a = b
    BY <2>3, <2>4, <2>5, SeqEqual
  <2>7. taken <= Len(more)
    BY <2>2
  <2> QED  BY <1>1, <2>6, <2>7 DEF Given, a, b, more
<1>3. in.kind # "read_to_end" => Reads(IsExact, in.got, PartsOf(newlines, in.text), PartsOf(newlines, Given))
  BY DEF LineInv, Told
<1>4. in.kind # "read_to_end" => Told'
  BY <1>1, <1>2, <1>3 DEF Told, IsExact
<1> QED  BY <1>1, <1>2, <1>4 DEF LineInv, NoNewline

LEMMA NextLineInv ==
  ASSUME LineInv, sent \in Seq(Nat), next_line
  PROVE  LineInv'
<1>1. /\ in \in InTypes /\ newlines \in SUBSET Nat /\ taken \in Nat /\ taken <= Len(sent)
      /\ newlines' = newlines /\ taken' = taken /\ sent' = sent /\ out' = out
      /\ Scan(in.text) /\ in.text \in Seq(Nat)
  BY DEF LineInv, next_line, ReaderStep, InTypes
<1>2. Given' = Given /\ Held' = Held /\ (WriterOpen' <=> WriterOpen)
  BY <1>1 DEF Given, Held, WriterOpen
<1>3. CASE in.kind = "read_to_end"
  <2>1. in' = [in EXCEPT !.text = in.text, !.pc = "reading"]
    BY <1>1, <1>3 DEF Scan
  <2>2. in' \in InTypes /\ in'.text = in.text /\ in'.kind = in.kind
    BY <1>1, <2>1 DEF InTypes
  <2> QED  BY <1>1, <1>2, <1>3, <2>2 DEF LineInv
<1>4. CASE in.kind # "read_to_end"
  <2>1. CASE Reads(IsExact, in.got, PartsOf(newlines, in.text), PartsOf(newlines, Given))
    <3> DEFINE all == PartsOf(newlines, Given)
               exact == IsExact
    <3>1. all \in Begun
      <4>1. taken \in 0..Len(sent)
        BY <1>1
      <4>2. Given \in Seq(Nat)
        BY <4>1, FrontStretch DEF Given
      <4> QED  BY <4>2, PartsType
    <3>2. Reads(exact, in.got, PartsOf(newlines, in.text), all)
      BY <2>1
    <3> HIDE DEF all, exact
    <3>3. /\ in' \in InTypes /\ in'.kind = in.kind /\ in'.errs = in.errs
          /\ Reads(exact, in'.got, PartsOf(newlines, in'.text), all)
          /\ in'.pc = "reading" => \A j \in 1..Len(in'.text) : in'.text[j] \notin newlines
      BY <1>1, <1>4, <3>1, <3>2, ScanTells
    <3>4. Told'
      BY <1>1, <1>2, <3>3 DEF Told, IsExact, all, exact
    <3> QED  BY <1>1, <1>4, <3>3, <3>4 DEF LineInv, NoNewline
  <2>2. CASE /\ ~WriterOpen /\ Held = 0 /\ in.text = <<>>
             /\ Finished(IsExact, in.got, PartsOf(newlines, Given))
    <3> DEFINE i == SelectInSeq(in.text, LAMBDA b : b \in newlines)
    <3>1. i = 0
      <4>1. Len(in.text) = 0
        BY <2>2
      <4>2. \/ i = 0 /\ NoNewline(in.text)
            \/ i \in 1..Len(in.text)
        BY <1>1, FirstNewline
      <4> QED  BY <4>1, <4>2
    <3>2. in' = [in EXCEPT !.text = in.text, !.pc = "reading"]
      BY <1>1, <3>1 DEF Scan
    <3>3. /\ in' \in InTypes /\ in'.text = <<>> /\ in'.kind = in.kind /\ in'.got = in.got
          /\ in'.errs = in.errs
      BY <1>1, <2>2, <3>2 DEF InTypes
    <3>4. Told'
      BY <1>1, <1>2, <2>2, <3>3 DEF Told, IsExact
    <3>5. \A j \in 1..Len(in'.text) : FALSE
      BY <3>3
    <3> QED  BY <1>1, <1>4, <3>3, <3>4, <3>5 DEF LineInv, NoNewline
  <2> QED  BY <1>4, <2>1, <2>2 DEF LineInv, Told
<1> QED  BY <1>3, <1>4

LEMMA ReadInv ==
  ASSUME LineInv, sent \in Seq(Nat), read
  PROVE  LineInv'
<1>1. /\ in \in InTypes /\ newlines \in SUBSET Nat /\ taken \in Nat /\ taken <= Len(sent)
      /\ newlines' = newlines /\ sent' = sent /\ out' = out
      /\ in.text \in Seq(Nat) /\ in.got \in Seq(Seq(Nat)) /\ Len(sent) \in Nat
  BY DEF LineInv, read, ReaderStep, InTypes
<1>2. PICK n \in 1..Min({Chunk, Held}) :
        taken' = taken + n /\ Scan(in.text \o SubSeq(sent, taken + 1, taken + n))
  BY DEF read
<1>3. n \in Nat /\ n >= 1 /\ taken + n <= Len(sent) /\ Held > 0 /\ Held = Len(sent) - taken
  <2>1. Held \in Int /\ Chunk \in Int /\ Held = Len(sent) - taken
    BY <1>1, StreamAssumption DEF Held
  <2>2. Min({Chunk, Held}) <= Held /\ Min({Chunk, Held}) \in Int
    BY <2>1, LeastOfTwo
  <2> QED  BY <1>1, <2>1, <2>2
<1> DEFINE chunk == SubSeq(sent, taken + 1, taken + n)
           text == in.text \o chunk
           given == SubSeq(sent, 1, taken + n)
<1>4. chunk \in Seq(Nat) /\ text \in Seq(Nat) /\ given \in Seq(Nat) /\ given = Given \o chunk
  <2> DEFINE a == taken + 1
             b == taken + n
  <2>1. a \in 1..(Len(sent) + 1) /\ b \in (a - 1)..Len(sent) /\ b \in 0..Len(sent) /\ taken \in 0..Len(sent)
        /\ taken \in (1 - 1)..Len(sent) /\ b \in taken..Len(sent) /\ 1 \in 1..(Len(sent) + 1)
    BY <1>1, <1>3
  <2> HIDE DEF a, b
  <2>2. SubSeq(sent, a, b) \in Seq(Nat) /\ SubSeq(sent, 1, b) \in Seq(Nat)
    BY <2>1, Stretch, FrontStretch
  <2>3. SubSeq(sent, 1, taken) \o SubSeq(sent, taken + 1, b) = SubSeq(sent, 1, b)
    BY <2>1, ConcatAdjacentSubSeq
  <2>4. chunk \in Seq(Nat) /\ given \in Seq(Nat) /\ given = Given \o chunk
    BY <2>2, <2>3 DEF a, b, Given
  <2> HIDE DEF chunk, given
  <2> QED  BY <1>1, <2>4
<1>5. Given' = given
  BY <1>1, <1>2 DEF Given
<1>6. taken' \in Nat /\ taken' <= Len(sent)
  BY <1>1, <1>2, <1>3
<1>7. CASE in.kind = "read_to_end"
  <2>1. in.text = Given
    BY <1>7 DEF LineInv
  <2>2. Scan(text)
    BY <1>2
  <2> HIDE DEF text
  <2>3. in' = [in EXCEPT !.text = text, !.pc = "reading"]
    BY <1>7, <2>2 DEF Scan
  <2>4. in' \in InTypes /\ in'.text = text /\ in'.kind = in.kind
    BY <1>1, <1>4, <2>3 DEF InTypes
  <2>5. text = given
    BY <1>4, <2>1 DEF text
  <2> QED  BY <1>1, <1>5, <1>6, <1>7, <2>4, <2>5 DEF LineInv
<1>8. CASE in.kind # "read_to_end"
  <2> DEFINE exact == IsExact
             all == PartsOf(newlines, given)
  <2>1. Reads(exact, in.got, PartsOf(newlines, in.text), PartsOf(newlines, SubSeq(sent, 1, taken)))
    BY <1>3, <1>8 DEF LineInv, Told, Given
  <2> HIDE DEF exact
  <2>2. Reads(exact, in.got, PartsOf(newlines, text), all)
    BY <1>1, <1>3, <2>1, ChunkIsRead
  <2>3. all \in Begun
    BY <1>4, PartsType
  <2>4. Scan(text)
    BY <1>2
  <2> HIDE DEF all, text
  <2>5. /\ in' \in InTypes /\ in'.kind = in.kind /\ in'.errs = in.errs
        /\ Reads(exact, in'.got, PartsOf(newlines, in'.text), all)
        /\ in'.pc = "reading" => \A j \in 1..Len(in'.text) : in'.text[j] \notin newlines
    BY <1>1, <1>4, <1>8, <2>2, <2>3, <2>4, ScanTells
  <2>6. Told'
    BY <1>1, <1>5, <2>5 DEF Told, IsExact, all, exact
  <2> QED  BY <1>1, <1>6, <1>8, <2>5, <2>6 DEF LineInv, NoNewline
<1> QED  BY <1>7, <1>8

\* The stream ended: the text is the last line, or there is none.
LEMMA EndOfStreamInv ==
  ASSUME LineInv, sent \in Seq(Nat), EndOfStream
  PROVE  LineInv'
<1>1. /\ in \in InTypes /\ newlines \in SUBSET Nat /\ taken \in Nat /\ taken <= Len(sent)
      /\ newlines' = newlines /\ taken' = taken /\ sent' = sent /\ out' = out
      /\ in.text \in Seq(Nat) /\ in.got \in Seq(Seq(Nat)) /\ in.pc = "reading" /\ Held = 0 /\ ~WriterOpen
  BY DEF LineInv, EndOfStream, ReaderStep, InTypes
<1>2. Given' = Given /\ Held' = Held /\ (WriterOpen' <=> WriterOpen)
  BY <1>1 DEF Given, Held, WriterOpen
<1>3. CASE in.kind = "read_to_end"
  <2>1. in' = [in EXCEPT !.got = <<in.text>>, !.pc = "done"]
    BY <1>3 DEF EndOfStream
  <2>2. <<in.text>> \in Seq(Seq(Nat))
    BY <1>1
  <2>3. in' \in InTypes /\ in'.text = in.text /\ in'.kind = in.kind
    BY <1>1, <2>1, <2>2 DEF InTypes
  <2> QED  BY <1>1, <1>2, <1>3, <2>3 DEF LineInv
<1>4. CASE in.kind # "read_to_end" /\ in.text = <<>>
  <2>1. in' = [in EXCEPT !.pc = "done"]
    BY <1>4 DEF EndOfStream
  <2>2. /\ in' \in InTypes /\ in'.text = in.text /\ in'.kind = in.kind /\ in'.got = in.got
        /\ in'.errs = in.errs /\ in'.pc = "done"
    BY <1>1, <2>1 DEF InTypes
  <2>3. Told'
    BY <1>1, <1>2, <1>4, <2>2 DEF LineInv, Told, IsExact
  <2> QED  BY <1>1, <1>4, <2>2, <2>3 DEF LineInv
<1>5. CASE in.kind # "read_to_end" /\ in.text # <<>>
  <2>1. in' = [in EXCEPT !.got = Append(@, in.text), !.text = <<>>, !.pc = "idle",
                         !.eof = (in.kind = "stdin")]
    BY <1>5 DEF EndOfStream
  <2>2. <<>> \in Seq(Nat) /\ Append(in.got, in.text) \in Seq(Seq(Nat)) /\ (in.kind = "stdin") \in BOOLEAN
    BY <1>1
  <2>3. /\ in' \in InTypes /\ in'.text = <<>> /\ in'.kind = in.kind
        /\ in'.got = Append(in.got, in.text) /\ in'.errs = in.errs /\ in'.pc = "idle"
    BY <1>1, <2>1, <2>2 DEF InTypes
  <2> DEFINE all == PartsOf(newlines, Given)
             n == Len(all)
             exact == IsExact
  <2>4. Reads(exact, in.got, <<in.text>>, all)
    <3>1. PartsOf(newlines, in.text) = <<in.text>>
      BY <1>1, <1>5, OneLine DEF LineInv, NoNewline
    <3> QED  BY <1>5, <3>1 DEF LineInv, Told
  <2>5. all \in Seq(Seq(Nat)) /\ n \in Nat \ {0} /\ all[n] \in Seq(Nat)
    <3>1. taken \in 0..Len(sent)
      BY <1>1
    <3>2. Given \in Seq(Nat)
      BY <3>1, FrontStretch DEF Given
    <3>3. all \in Begun
      BY <3>2, PartsType
    <3> HIDE DEF all
    <3>4. all \in Seq(Seq(Nat)) /\ all # <<>>
      BY <3>3 DEF Begun
    <3>5. n \in Nat \ {0}
      BY <3>4, EmptySeq
    <3> QED  BY <3>4, <3>5
  <2> HIDE DEF all, n, exact
  <2>6. EndOf(in.text, all[n]) /\ all[n] # <<>>
    <3>1. Len(<<in.text>>) = 1 /\ <<in.text>>[1] = in.text /\ n - 1 + 1 = n
      BY <2>5
    <3>2. EndOf(in.text, all[n])
      BY <2>4, <3>1 DEF Reads, EndOfLines, n
    <3>3. Len(in.text) \in Nat /\ Len(in.text) # 0 /\ Len(in.text) <= Len(all[n])
      BY <1>1, <1>5, <3>2, EmptySeq DEF EndOf
    <3>4. Len(<<>>) = 0
      OBVIOUS
    <3> QED  BY <3>2, <3>3, <3>4
  <2>7. exact => Append(in.got, in.text) = LinesIn(all)
    <3>1. Append(in.got, in.text) = in.got \o <<in.text>>
      <4> DEFINE U == Seq(Nat)
      <4>1. in.got \in Seq(U) /\ in.text \in U
        BY <1>1
      <4> HIDE DEF U
      <4> QED  BY ONLY <4>1, AppendIsConcat
    <3>2. exact => Append(in.got, in.text) = all
      BY <2>4, <3>1 DEF Reads
    <3>3. LinesIn(all) = all
      BY <2>6 DEF LinesIn, Last, n
    <3> QED  BY <3>2, <3>3
  <2>8. ASSUME NEW one \in Range(Append(in.got, in.text))
        PROVE  \E k \in 1..n : EndOf(one, all[k]) /\ (k < n \/ all[k] # <<>>)
    <3>1. one \in Range(in.got) \/ one = in.text
      <4> DEFINE more == Append(in.got, in.text)
      <4>1. PICK k \in DOMAIN more : one = more[k]
        BY DEF Range
      <4>2. /\ DOMAIN more = 1..(Len(in.got) + 1) /\ Len(in.got) \in Nat /\ DOMAIN in.got = 1..Len(in.got)
            /\ more[Len(in.got) + 1] = in.text /\ \A j \in 1..Len(in.got) : more[j] = in.got[j]
        BY <1>1, AppendProperties
      <4> HIDE DEF more
      <4>3. CASE k = Len(in.got) + 1
        BY <4>1, <4>2, <4>3
      <4>4. CASE k # Len(in.got) + 1
        <5>1. k \in DOMAIN in.got /\ one = in.got[k]
          BY <4>1, <4>2, <4>4
        <5> QED  BY <5>1 DEF Range
      <4> QED  BY <4>3, <4>4
    <3>2. CASE one \in Range(in.got)
      <4>1. PICK k \in 1..(n - 1) : EndOf(one, all[k])
        BY <2>4, <3>2 DEF Reads, n
      <4>2. k \in 1..n /\ k < n
        BY <2>5
      <4> QED  BY <4>1, <4>2
    <3>3. CASE one = in.text
      <4>1. n \in 1..n
        BY <2>5
      <4> QED  BY <2>6, <3>3, <4>1
    <3> QED  BY <3>1, <3>2, <3>3
  <2>9. Finished(exact, Append(in.got, in.text), all)
    BY <2>7, <2>8 DEF Finished, n
  <2>10. Told'
    BY <1>1, <1>2, <2>3, <2>9 DEF Told, IsExact, exact, all
  <2> QED  BY <1>1, <1>5, <2>3, <2>10 DEF LineInv
<1> QED  BY <1>3, <1>4, <1>5

\* An error ends the call; the line of a socket begins anew.
LEMMA ReadFailsInv ==
  ASSUME LineInv, sent \in Seq(Nat), ReadFails
  PROVE  LineInv'
<1>1. /\ in \in InTypes /\ newlines \in SUBSET Nat /\ taken \in Nat /\ taken <= Len(sent)
      /\ newlines' = newlines /\ taken' = taken /\ sent' = sent /\ out' = out
      /\ in.text \in Seq(Nat) /\ in.errs \in Nat
      /\ in' = [in EXCEPT !.pc = "idle", !.errs = in.errs + 1,
                          !.text = IF in.kind = "socket lines" THEN <<>> ELSE in.text]
  BY DEF LineInv, ReadFails, ReaderStep, InTypes
<1>2. Given' = Given /\ Held' = Held /\ (WriterOpen' <=> WriterOpen)
  BY <1>1 DEF Given, Held, WriterOpen
<1>3. <<>> \in Seq(Nat) /\ in.errs + 1 \in Nat /\ in.errs + 1 # 0
  BY <1>1
<1>4. /\ in' \in InTypes /\ in'.kind = in.kind /\ in'.got = in.got
      /\ in'.errs = in.errs + 1 /\ in'.pc = "idle"
      /\ in'.text = IF in.kind = "socket lines" THEN <<>> ELSE in.text
  BY <1>1, <1>3 DEF InTypes
<1>5. CASE in.kind # "socket lines"
  <2>1. in'.text = in.text
    BY <1>4, <1>5
  <2>2. in.kind # "read_to_end" => in.kind = "stdin"
    BY <1>1, <1>5 DEF InTypes, Readers
  <2>3. in.kind # "read_to_end" => (IsExact' <=> IsExact)
    BY <1>4, <2>2 DEF IsExact
  <2>4. in.kind # "read_to_end" => Told'
    <3> SUFFICES ASSUME in.kind # "read_to_end" PROVE Told'
      OBVIOUS
    <3>1. in.kind = "stdin"
      BY <2>2
    <3>2. Told
      BY DEF LineInv
    <3>3. IsExact = TRUE /\ IsExact' = TRUE
      BY <1>4, <3>1 DEF IsExact
    <3> QED  BY <1>1, <1>2, <1>4, <2>1, <3>2, <3>3 DEF Told
  <2> QED  BY <1>1, <1>2, <1>4, <2>1, <2>4 DEF LineInv
<1>6. CASE in.kind = "socket lines"
  <2>1. in'.text = <<>> /\ ~IsExact' /\ Told
    BY <1>1, <1>3, <1>4, <1>6 DEF IsExact, LineInv
  <2>2. CASE Reads(IsExact, in.got, PartsOf(newlines, in.text), PartsOf(newlines, Given))
    <3> DEFINE all == PartsOf(newlines, Given)
    <3>1. all \in Begun
      <4>1. taken \in 0..Len(sent)
        BY <1>1
      <4>2. Given \in Seq(Nat)
        BY <4>1, FrontStretch DEF Given
      <4> QED  BY <4>2, PartsType
    <3>2. Reads(IsExact, in.got, PartsOf(newlines, in.text), all)
      BY <2>2
    <3> HIDE DEF all
    <3>3. Len(all) \in Nat \ {0} /\ all[Len(all)] \in Seq(Nat)
      <4>1. all \in Seq(Seq(Nat)) /\ all # <<>>
        BY <3>1 DEF Begun
      <4>2. Len(all) \in Nat \ {0}
        BY <4>1, EmptySeq
      <4> QED  BY <4>1, <4>2
    <3>4. EndOfLines(<< <<>> >>, all)
      <4> DEFINE none == <<>>
                 one == <<none>>
      <4>1. Len(one) = 1 /\ one[1] = none /\ Len(none) = 0 /\ Len(all) - Len(one) + 1 = Len(all)
        BY <3>3
      <4> HIDE DEF none, one
      <4>2. EndOf(none, all[Len(all)])
        BY <3>3, <4>1 DEF EndOf
      <4>3. EndOfLines(one, all)
        BY <3>3, <4>1, <4>2 DEF EndOfLines
      <4> QED  BY <4>3 DEF one, none
    <3>5. PartsOf(newlines, <<>>) = << <<>> >>
      BY PartsOfNone
    <3>6. Reads(FALSE, in.got, PartsOf(newlines, <<>>), all)
      BY <3>2, <3>4, <3>5 DEF Reads
    <3>7. IsExact' = FALSE
      BY <2>1 DEF IsExact
    <3>8. Told'
      BY <1>1, <1>2, <1>4, <2>1, <3>6, <3>7 DEF Told, all
    <3> QED  BY <1>1, <1>4, <1>6, <3>8 DEF LineInv
  <2>3. CASE /\ ~WriterOpen /\ Held = 0 /\ in.text = <<>>
             /\ Finished(IsExact, in.got, PartsOf(newlines, Given))
    <3>1. Finished(IsExact', in.got, PartsOf(newlines, Given))
      BY <2>1, <2>3 DEF Finished
    <3>2. Told'
      BY <1>1, <1>2, <1>4, <2>1, <2>3, <3>1 DEF Told
    <3> QED  BY <1>1, <1>4, <1>6, <3>2 DEF LineInv
  <2> QED  BY <2>1, <2>2, <2>3 DEF Told
<1> QED  BY <1>5, <1>6

\* The program lets go of the reader, or it had its end.
LEMMA ReaderEndsInv ==
  ASSUME LineInv, AfterEnd \/ DropReader
  PROVE  LineInv'
<1>1. /\ in \in InTypes /\ newlines \in SUBSET Nat /\ taken \in Nat /\ taken <= Len(sent)
      /\ newlines' = newlines /\ taken' = taken /\ sent' = sent /\ out' = out
      /\ in.errs \in Nat
      /\ \/ in' = [in EXCEPT !.pc = "done"]
         \/ in' = [in EXCEPT !.pc = "done", !.errs = in.errs + 1]
  BY DEF LineInv, AfterEnd, DropReader, ReaderStep, InTypes
<1>2. Given' = Given /\ Held' = Held /\ (WriterOpen' <=> WriterOpen)
  BY <1>1 DEF Given, Held, WriterOpen
<1>3. /\ in' \in InTypes /\ in'.kind = in.kind /\ in'.got = in.got /\ in'.text = in.text
      /\ in'.errs \in {in.errs, in.errs + 1} /\ in'.pc = "done" /\ in.errs + 1 # 0
  <2>1. in.errs + 1 \in Nat /\ in.errs + 1 # 0
    BY <1>1
  <2>2. CASE in' = [in EXCEPT !.pc = "done"]
    BY <1>1, <2>1, <2>2 DEF InTypes
  <2>3. CASE in' = [in EXCEPT !.pc = "done", !.errs = in.errs + 1]
    BY <1>1, <2>1, <2>3 DEF InTypes
  <2> QED  BY <1>1, <2>2, <2>3
<1>4. IsExact' => IsExact
  BY <1>1, <1>3 DEF IsExact
<1>5. in.kind # "read_to_end" => Told'
  <2> SUFFICES ASSUME in.kind # "read_to_end" PROVE Told'
    OBVIOUS
  <2>1. Told
    BY DEF LineInv
  <2>2. CASE Reads(IsExact, in.got, PartsOf(newlines, in.text), PartsOf(newlines, Given))
    <3>1. Reads(IsExact', in.got, PartsOf(newlines, in.text), PartsOf(newlines, Given))
      BY <1>4, <2>2 DEF Reads
    <3> QED  BY <1>1, <1>2, <1>3, <3>1 DEF Told
  <2>3. CASE /\ ~WriterOpen /\ Held = 0 /\ in.text = <<>>
             /\ Finished(IsExact, in.got, PartsOf(newlines, Given))
    <3>1. Finished(IsExact', in.got, PartsOf(newlines, Given))
      BY <1>4, <2>3 DEF Finished
    <3> QED  BY <1>1, <1>2, <1>3, <2>3, <3>1 DEF Told
  <2> QED  BY <2>1, <2>2, <2>3 DEF Told
<1> QED  BY <1>1, <1>2, <1>3, <1>5 DEF LineInv

LEMMA LineInitInv == StreamInit => LineInv
<1> SUFFICES ASSUME StreamInit PROVE LineInv
  OBVIOUS
<1>1. PICK k \in Readers : in = ReaderInit(k)
  BY DEF StreamInit, Readers
<1>2. sent = <<>> /\ taken = 0 /\ newlines \in SUBSET Nat /\ Len(sent) = 0
  BY StreamAssumption DEF StreamInit
<1>3. /\ in \in InTypes /\ in.kind = k /\ in.text = <<>> /\ in.got = <<>> /\ in.pc = "idle"
  BY <1>1 DEF ReaderInit, InTypes
<1>4. Given = <<>>
  BY <1>2 DEF Given
<1>5. Reads(IsExact, in.got, PartsOf(newlines, in.text), PartsOf(newlines, Given))
  <2> DEFINE none == <<>>
             one == <<none>>
  <2>1. PartsOf(newlines, <<>>) = one
    BY PartsOfNone
  <2>2. <<>> \o one = one /\ Range(<<>>) = {}
    BY DEF Range
  <2>3. Len(one) = 1 /\ one[1] = none /\ Len(none) = 0 /\ 1 - 1 + 1 = 1
    OBVIOUS
  <2> HIDE DEF none, one
  <2>4. EndOf(none, none)
    BY <2>3 DEF EndOf
  <2>5. EndOfLines(one, one)
    BY <2>3, <2>4 DEF EndOfLines
  <2>6. Reads(IsExact, <<>>, one, one)
    BY <2>2, <2>5 DEF Reads
  <2> QED  BY <1>3, <1>4, <2>1, <2>6
<1> QED  BY <1>2, <1>3, <1>4, <1>5 DEF LineInv, Told

LEMMA LineNextInv == StreamInv /\ LineInv /\ [StreamNext]_streamVars => LineInv'
<1> SUFFICES ASSUME StreamInv, LineInv, [StreamNext]_streamVars PROVE LineInv'
  OBVIOUS
<1>0. sent \in Seq(Nat) /\ out.left \in Seq(Nat) /\ taken \in Int
  BY DEF StreamInv, OutTypes
<1>a. ASSUME UNCHANGED <<newlines, taken, in, sent>>, WriterOpen
      PROVE  LineInv'
  <2> DEFINE none == <<>>
  <2>1. none \in Seq(Nat) /\ sent' = sent \o none
    BY <1>0, <1>a
  <2> HIDE DEF none
  <2> QED  BY <1>0, <1>a, <2>1, WriterKeeps
<1>1. CASE write_str \/ flush \/ into_inner \/ DropWriter \/ WriteFails \/ WriteInterrupted \/ WritesNothing
  <2>1. UNCHANGED <<newlines, taken, in, sent>> /\ WriterOpen
    BY <1>1 DEF write_str, flush, into_inner, DropWriter, WriteFails, WriteInterrupted, WritesNothing,
                WriterStep, WriterOpen
  <2> QED  BY <1>a, <2>1
<1>2. CASE write_all
  <2>1. PICK n \in 1..Room : Took(n)
    BY <1>2 DEF write_all
  <2>2. n \in 1..Len(out.left)
    <3>1. Len(out.left) \in Int /\ Cap - Held \in Int
      BY <1>0, StreamAssumption DEF Held
    <3>2. Room <= Len(out.left) /\ Room \in Int
      BY ONLY <3>1, LeastOfTwo DEF Room
    <3> QED  BY <3>1, <3>2
  <2> DEFINE u == SubSeq(out.left, 1, n)
  <2>3. u \in Seq(Nat) /\ sent' = sent \o u
    <3>1. n \in 0..Len(out.left)
      BY <2>2
    <3> QED  BY <1>0, <2>1, <3>1, FrontStretch DEF Took
  <2>4. UNCHANGED <<newlines, taken, in>> /\ WriterOpen
    BY <1>2 DEF write_all, WriterStep, WriterOpen
  <2> HIDE DEF u
  <2> QED  BY <1>0, <2>3, <2>4, WriterKeeps
<1>3. CASE next_line
  BY <1>0, <1>3, NextLineInv
<1>4. CASE read
  BY <1>0, <1>4, ReadInv
<1>5. CASE EndOfStream
  BY <1>0, <1>5, EndOfStreamInv
<1>6. CASE ReadFails
  BY <1>0, <1>6, ReadFailsInv
<1>7. CASE AfterEnd \/ DropReader
  BY <1>7, ReaderEndsInv
<1>8. CASE ReadInterrupted \/ UNCHANGED streamVars
  <2>1. newlines' = newlines /\ out' = out /\ sent' = sent /\ taken' = taken /\ in' = in
    BY <1>8 DEF ReadInterrupted, ReaderStep, streamVars
  <2>2. Given' = Given /\ Held' = Held /\ (WriterOpen' <=> WriterOpen) /\ IsExact' = IsExact
    BY <2>1 DEF Given, Held, WriterOpen, IsExact
  <2>3. in.kind # "read_to_end" => Told'
    BY <2>1, <2>2 DEF LineInv, Told
  <2> QED  BY <2>1, <2>2, <2>3 DEF LineInv, NoNewline
<1> QED  BY <1>1, <1>2, <1>3, <1>4, <1>5, <1>6, <1>7, <1>8 DEF StreamNext, WriterProgress, ReaderProgress

\* The lines in front of those of the text are of the whole.
LEMMA LinesBehind ==
  ASSUME NEW g \in Seq(Seq(Nat)), NEW ls \in Begun
  PROVE  g \o LinesIn(ls) = LinesIn(g \o ls)
<1> DEFINE all == g \o ls
           n == Len(g)
           l == Len(ls)
<1>1. ls \in Seq(Seq(Nat)) /\ l \in Nat \ {0} /\ n \in Nat
  <2>1. ls \in Seq(Seq(Nat)) /\ ls # <<>>
    BY DEF Begun
  <2> QED  BY <2>1, EmptySeq
<1>2. /\ all \in Seq(Seq(Nat)) /\ Len(all) = n + l
      /\ \A i \in 1 .. n + l : all[i] = IF i <= n THEN g[i] ELSE ls[i - n]
  BY <1>1, ConcatProperties
<1> HIDE DEF all
<1>3. all[n + l] = ls[l]
  <2>1. n + l \in 1 .. n + l /\ ~(n + l <= n) /\ (n + l) - n = l
    BY <1>1
  <2> QED  BY <1>2, <2>1
<1>4. Last(all) = ls[l] /\ Last(ls) = ls[l]
  BY <1>2, <1>3 DEF Last
<1>5. CASE Last(ls) # <<>>
  BY <1>4, <1>5 DEF LinesIn, all
<1>6. CASE Last(ls) = <<>>
  <2> DEFINE f == Front(ls)
             a == Front(all)
             b == g \o f
  <2>1. /\ f \in Seq(Seq(Nat)) /\ Len(f) = l - 1 /\ \A i \in 1..(l - 1) : f[i] = ls[i]
        /\ a \in Seq(Seq(Nat)) /\ Len(a) = (n + l) - 1 /\ \A i \in 1..((n + l) - 1) : a[i] = all[i]
    <3>1. l - 1 \in 0..Len(ls) /\ (n + l) - 1 \in 0..Len(all)
      BY <1>1, <1>2
    <3>2. f = SubSeq(ls, 1, l - 1) /\ a = SubSeq(all, 1, (n + l) - 1)
      BY <1>2 DEF Front
    <3> HIDE DEF f, a, l, n
    <3>3. /\ SubSeq(ls, 1, l - 1) \in Seq(Seq(Nat)) /\ Len(SubSeq(ls, 1, l - 1)) = l - 1
          /\ \A i \in 1..(l - 1) : SubSeq(ls, 1, l - 1)[i] = ls[i]
      <4> DEFINE U == Seq(Nat)
                 k == l - 1
      <4>1. ls \in Seq(U) /\ k \in 0..Len(ls)
        BY <1>1, <3>1
      <4> HIDE DEF U, k
      <4>2. SubSeq(ls, 1, k) \in Seq(U) /\ Len(SubSeq(ls, 1, k)) = k /\ \A i \in 1..k : SubSeq(ls, 1, k)[i] = ls[i]
        BY ONLY <4>1, FrontStretch
      <4> QED  BY <4>2 DEF U, k
    <3>4. /\ SubSeq(all, 1, (n + l) - 1) \in Seq(Seq(Nat)) /\ Len(SubSeq(all, 1, (n + l) - 1)) = (n + l) - 1
          /\ \A i \in 1..((n + l) - 1) : SubSeq(all, 1, (n + l) - 1)[i] = all[i]
      <4> DEFINE U == Seq(Nat)
                 k == (n + l) - 1
      <4>1. all \in Seq(U) /\ k \in 0..Len(all)
        BY <1>2, <3>1
      <4> HIDE DEF U, k
      <4>2. SubSeq(all, 1, k) \in Seq(U) /\ Len(SubSeq(all, 1, k)) = k /\ \A i \in 1..k : SubSeq(all, 1, k)[i] = all[i]
        BY ONLY <4>1, FrontStretch
      <4> QED  BY <4>2 DEF U, k
    <3> QED  BY <3>2, <3>3, <3>4
  <2> HIDE DEF f, a
  <2>2. /\ b \in Seq(Seq(Nat)) /\ Len(b) = n + Len(f)
        /\ \A i \in 1 .. n + Len(f) : b[i] = IF i <= n THEN g[i] ELSE f[i - n]
    BY <2>1, ConcatProperties
  <2> HIDE DEF b
  <2>3. Len(b) = Len(a)
    BY <1>1, <2>1, <2>2
  <2> HIDE DEF n, l
  <2>4. ASSUME NEW i \in 1..Len(a) PROVE a[i] = b[i]
    <3>1. i \in 1..((n + l) - 1) /\ i \in 1 .. n + l /\ i \in 1 .. n + Len(f) /\ (~(i <= n) => i - n \in 1..(l - 1))
      BY <1>1, <2>1
    <3> QED  BY <1>2, <2>1, <2>2, <3>1
  <2>5. a = b
    BY <2>1, <2>2, <2>3, <2>4, SeqEqual
  <2> QED  BY <1>4, <1>6, <2>5 DEF LinesIn, all, a, b, f
<1> QED  BY <1>5, <1>6

\* The lines of a text are its parts, but for a last one that is empty.
LEMMA LineIsIn ==
  ASSUME NEW all \in Begun, NEW k \in 1..Len(all), k < Len(all) \/ all[k] # <<>>
  PROVE  all[k] \in Range(LinesIn(all)) /\ all[k] \in Seq(Nat)
<1> DEFINE n == Len(all)
           f == SubSeq(all, 1, n - 1)
<1>1. all \in Seq(Seq(Nat)) /\ n \in Nat \ {0} /\ all[k] \in Seq(Nat) /\ k \in DOMAIN all
  <2>1. all \in Seq(Seq(Nat)) /\ all # <<>>
    BY DEF Begun
  <2> QED  BY <2>1, EmptySeq
<1>2. CASE Last(all) # <<>>
  BY <1>1, <1>2 DEF LinesIn, Range
<1>3. CASE Last(all) = <<>>
  <2>1. k < n
    BY <1>3 DEF Last
  <2>2. Len(f) = n - 1 /\ DOMAIN f = 1..(n - 1) /\ k \in 1..(n - 1) /\ f[k] = all[k]
    <3> DEFINE U == Seq(Nat)
               m == n - 1
    <3>1. all \in Seq(U) /\ m \in 0..Len(all) /\ k \in 1..m
      BY <1>1, <2>1
    <3> HIDE DEF U, m
    <3>2. SubSeq(all, 1, m) \in Seq(U) /\ Len(SubSeq(all, 1, m)) = m /\ \A i \in 1..m : SubSeq(all, 1, m)[i] = all[i]
      BY ONLY <3>1, FrontStretch
    <3> QED  BY <3>1, <3>2 DEF U, m
  <2>3. LinesIn(all) = f
    BY <1>3 DEF LinesIn, Front
  <2> HIDE DEF f
  <2> QED  BY <1>1, <2>2, <2>3 DEF Range
<1> QED  BY <1>2, <1>3

LEMMA LinesAreTold ==
  ASSUME StreamInv, LineInv
  PROVE  LinesAreWhole
<1>1. /\ in \in InTypes /\ newlines \in SUBSET Nat /\ taken \in Nat /\ taken <= Len(sent)
      /\ sent \in Seq(Nat) /\ in.text \in Seq(Nat) /\ in.got \in Seq(Seq(Nat))
  BY DEF LineInv, StreamInv, InTypes
<1>2. Given \in Seq(Nat)
  <2>1. taken \in 0..Len(sent)
    BY <1>1
  <2> QED  BY <1>1, <2>1, FrontStretch DEF Given
<1>3. CASE in.kind = "read_to_end"
  BY <1>3 DEF LinesAreWhole, LineInv, Given
<1>4. CASE in.kind # "read_to_end"
  <2> DEFINE rest == PartsOf(newlines, in.text)
             all == PartsOf(newlines, Given)
  <2>1. rest \in Begun /\ all \in Begun
    BY <1>1, <1>2, PartsType
  <2>2. LinesOf(in.text) = LinesIn(rest) /\ LinesOf(Given) = LinesIn(all)
    BY <1>1, <1>2, LinesAreParts
  <2>3. Reads(IsExact, in.got, rest, all) \/ (in.text = <<>> /\ Finished(IsExact, in.got, all))
    BY <1>4 DEF LineInv, Told
  <2>4. ASSUME IsExact PROVE in.got \o LinesOf(in.text) = LinesOf(Given)
    <3>1. CASE Reads(IsExact, in.got, rest, all)
      <4>1. in.got \o rest = all
        BY <2>4, <3>1 DEF Reads
      <4> HIDE DEF rest, all
      <4>2. in.got \o LinesIn(rest) = LinesIn(in.got \o rest)
        BY <1>1, <2>1, LinesBehind
      <4> QED  BY <2>2, <4>1, <4>2
    <3>2. CASE in.text = <<>> /\ Finished(IsExact, in.got, all)
      <4>1. in.got = LinesIn(all)
        BY <2>4, <3>2 DEF Finished
      <4>2. LinesOf(in.text) = <<>>
        <5>1. rest = << <<>> >>
          BY <3>2, PartsOfNone
        <5>2. LinesIn(<< <<>> >>) = <<>>
          BY DEF LinesIn, Last, Front
        <5> QED  BY <2>2, <5>1, <5>2
      <4>3. in.got \o <<>> = in.got
        BY <1>1
      <4> HIDE DEF all
      <4> QED  BY <2>2, <4>1, <4>2, <4>3
    <3> QED  BY <2>3, <3>1, <3>2
  <2>5. ASSUME NEW line \in Range(in.got)
        PROVE  \E whole \in Range(LinesOf(Given)) : IsSuffix(line, whole)
    <3> HIDE DEF rest, all
    <3>1. Len(all) \in Nat /\ line \in Seq(Nat)
      <4>1. Len(all) \in Nat
        BY <2>1 DEF Begun
      <4>2. line \in Seq(Nat)
        BY <1>1 DEF Range
      <4> QED  BY <4>1, <4>2
    <3>2. PICK k \in 1..Len(all) : EndOf(line, all[k]) /\ (k < Len(all) \/ all[k] # <<>>)
      <4>1. CASE Reads(IsExact, in.got, rest, all)
        <5>1. PICK k \in 1..(Len(all) - 1) : EndOf(line, all[k])
          BY <4>1 DEF Reads
        <5>2. k \in 1..Len(all) /\ k < Len(all)
          BY <3>1
        <5> QED  BY <5>1, <5>2
      <4>2. CASE Finished(IsExact, in.got, all)
        BY <4>2 DEF Finished
      <4> QED  BY <2>3, <4>1, <4>2
    <3>3. all[k] \in Range(LinesIn(all)) /\ all[k] \in Seq(Nat)
      BY <2>1, <3>2, LineIsIn
    <3>4. IsSuffix(line, all[k])
      BY <3>1, <3>2, <3>3, EndIsSuffix
    <3> QED  BY <2>2, <3>3, <3>4
  <2> HIDE DEF rest, all
  <2> QED  BY <1>4, <2>4, <2>5 DEF LinesAreWhole, IsExact, Given
<1> QED  BY <1>3, <1>4

\* A reader returns what was sent, its lines each once, in order and whole,
\* after reads that failed too for Stdin; a line that the Lines of a socket
\* return after a failed read is the end of one: for any text, any cuts of it
\* into chunks, any places of the errors.
THEOREM LinesTheorem == StreamSpec => []LinesAreWhole
<1>1. StreamInit => StreamInv /\ LineInv
  BY StreamInitInv, LineInitInv
<1>2. StreamInv /\ LineInv /\ [StreamNext]_streamVars => (StreamInv /\ LineInv)'
  BY StreamNextInv, LineNextInv
<1>3. StreamInv /\ LineInv => LinesAreWhole
  BY LinesAreTold
<1> QED  BY <1>1, <1>2, <1>3, PTL DEF StreamSpec

-----------------------------------------------------------------------------
(***************************************************************************)
(* Environment: what a child is told.  Induction along a sequence, then    *)
(* the fold that filters one, the names of entries, what getenv finds as   *)
(* entries are added, and the folds of environment and of split.           *)
(***************************************************************************)
\* Induction along a sequence, as a fact about a set of sequences.
LEMMA SeqInduction ==
  ASSUME NEW B, NEW T \in SUBSET Seq(B), <<>> \in T,
         \A s \in T, b \in B : Append(s, b) \in T
  PROVE  T = Seq(B)
<1> DEFINE N == {n \in Nat : \A s \in Seq(B) : Len(s) = n => s \in T}
<1>1. 0 \in N
  <2>1. \A s \in Seq(B) : Len(s) = 0 => s = <<>>
    BY EmptySeq
  <2> QED  BY <2>1
<1>2. ASSUME NEW n \in N PROVE n + 1 \in N
  <2>1. ASSUME NEW s \in Seq(B), Len(s) = n + 1
        PROVE  s \in T
    <3> DEFINE f == SubSeq(s, 1, n)
    <3>1. n \in Nat /\ n + 1 \in 1..Len(s) /\ n \in 0..Len(s) /\ (n + 1) - 1 = n /\ 1 \in 1..(Len(s) + 1)
          /\ n + 1 \in 1..Len(s)
      BY <2>1
    <3>2. f \in Seq(B) /\ Len(f) = n
      BY <3>1, FrontStretch
    <3>3. SubSeq(s, 1, n + 1) = Append(f, s[n + 1]) /\ s[n + 1] \in B
      <4> DEFINE k == n + 1
      <4>1. k \in 1..Len(s) /\ 1 \in 1..(Len(s) + 1) /\ k - 1 = n
        BY <3>1
      <4> HIDE DEF k
      <4>2. SubSeq(s, 1, k) = Append(SubSeq(s, 1, k - 1), s[k]) /\ s[k] \in B
        BY <4>1, StretchGrows
      <4> QED  BY <4>1, <4>2 DEF k
    <3>4. SubSeq(s, 1, n + 1) = s
      BY <2>1, SubSeqFull
    <3> HIDE DEF f
    <3>5. f \in T
      BY <1>2, <3>2
    <3> QED  BY <3>3, <3>4, <3>5
  <2>2. n + 1 \in Nat
    OBVIOUS
  <2> QED  BY <2>1, <2>2
<1>3. N = Nat
  <2>1. N \subseteq Nat
    OBVIOUS
  <2> HIDE DEF N
  <2> QED  BY <1>1, <1>2, <2>1, SetInduction
<1>4. ASSUME NEW s \in Seq(B) PROVE s \in T
  <2>1. Len(s) \in Nat
    OBVIOUS
  <2> QED  BY <1>3, <2>1
<1> QED  BY <1>4

\* A byte is a string; the provers are told of those the module names.
Letters == STRING \cup {"=", "/", "P", "a", "b"}
Texts == Seq(Letters)

\* The element added last, and those before it.
AppendFacts(s, b, more) ==
  /\ Len(s) \in Nat /\ Len(more) = Len(s) + 1 /\ more[Len(s) + 1] = b
  /\ \A k \in 1..Len(s) : more[k] = s[k]
  /\ Range(more) = Range(s) \cup {b}

LEMMA TextAppended ==
  ASSUME NEW B, NEW s \in Seq(B), NEW b \in B
  PROVE  Append(s, b) \in Seq(B) /\ AppendFacts(s, b, Append(s, b))
<1> DEFINE more == Append(s, b)
<1>1. /\ Len(s) \in Nat /\ Len(more) = Len(s) + 1 /\ more[Len(s) + 1] = b
      /\ \A k \in 1..Len(s) : more[k] = s[k]
      /\ DOMAIN more = 1..(Len(s) + 1) /\ DOMAIN s = 1..Len(s) /\ more \in Seq(B)
  BY AppendProperties
<1> HIDE DEF more
<1>2. Range(more) = Range(s) \cup {b}
  <2>1. ASSUME NEW k \in 1..(Len(s) + 1) PROVE more[k] \in Range(s) \cup {b}
    <3>1. CASE k = Len(s) + 1
      BY <1>1, <3>1
    <3>2. CASE k # Len(s) + 1
      <4>1. k \in 1..Len(s)
        BY <1>1, <3>2
      <4> QED  BY <1>1, <4>1 DEF Range
    <3> QED  BY <3>1, <3>2
  <2>2. ASSUME NEW k \in 1..Len(s) PROVE s[k] \in Range(more)
    <3>1. k \in 1..(Len(s) + 1)
      BY <1>1
    <3> QED  BY <1>1, <3>1 DEF Range
  <2>3. b \in Range(more)
    <3>1. Len(s) + 1 \in 1..(Len(s) + 1)
      BY <1>1
    <3> QED  BY <1>1, <3>1 DEF Range
  <2> QED  BY <1>1, <2>1, <2>2, <2>3 DEF Range
<1> QED  BY <1>1, <1>2 DEF AppendFacts, more

\* Without is a fold of this step.
Leaves(S) == [x \in Seq(Texts) \X Texts |-> IF x[2] \in S THEN x[1] ELSE Append(x[1], x[2])]

LEMMA LeavesFolds ==
  ASSUME NEW S
  PROVE  FoldsIn(Seq(Texts), Texts, Leaves(S), <<>>)
<1> DEFINE B == Texts
<1>1. <<>> \in Seq(B)
  OBVIOUS
<1>2. ASSUME NEW x \in Seq(B) \X B
      PROVE  (IF x[2] \in S THEN x[1] ELSE Append(x[1], x[2])) \in Seq(B)
  <2>1. x[1] \in Seq(B) /\ x[2] \in B
    OBVIOUS
  <2> QED  BY <2>1
<1> QED  BY <1>1, <1>2 DEF FoldsIn, Leaves

LEMMA WithoutIsFolded ==
  ASSUME NEW S, NEW s \in Seq(Texts)
  PROVE  Without(s, S) = Folded(Leaves(S), <<>>, s)
<1> DEFINE B == Texts
           X == Seq(Texts)
           none == <<>>
           Same(iter) ==
             iter = [t \in SUBSET DOMAIN s |->
                       IF t = {} THEN none
                       ELSE IF s[Max(t)] \in S THEN iter[t \ {Max(t)}]
                            ELSE Append(iter[t \ {Max(t)}], s[Max(t)])]
           iter == CHOOSE i : Same(i)
           c == [k \in 0..Len(s) |-> iter[1..k]]
           step == Leaves(S)
<1>1. DOMAIN s = 1..Len(s) /\ Len(s) \in Nat /\ \A k \in 1..Len(s) : s[k] \in B
  OBVIOUS
<1>2. FoldsIn(X, B, step, none)
  BY LeavesFolds
<1>3. \E i : Same(i)
  <2>1. PICK i : Turns(i, X, step, none, s)
    <3> HIDE DEF X, B, none, step
    <3>1. s \in Seq(B)
      BY DEF B
    <3> QED  BY <1>2, <3>1, TurnsExist
  <2>2. /\ i \in [SUBSET DOMAIN s -> X]
        /\ \A t \in SUBSET DOMAIN s : i[t] = Turn(i, step, none, s, t)
    BY <2>1 DEF Turns
  <2>3. ASSUME NEW t \in SUBSET DOMAIN s
        PROVE  i[t] = IF t = {} THEN none
                      ELSE IF s[Max(t)] \in S THEN i[t \ {Max(t)}]
                           ELSE Append(i[t \ {Max(t)}], s[Max(t)])
    <3>1. CASE t = {}
      BY <2>2, <3>1 DEF Turn
    <3>2. CASE t # {}
      <4>1. s[Max(t)] \in B
        BY <1>1, <3>2, GreatestIsIn
      <4>2. i[t \ {Max(t)}] \in X
        BY <2>2
      <4>3. i[t] = step[<<i[t \ {Max(t)}], s[Max(t)]>>]
        BY <2>2, <3>2 DEF Turn
      <4> QED  BY <3>2, <4>1, <4>2, <4>3 DEF Leaves
    <3> QED  BY <3>1, <3>2
  <2>4. Same(i)
    BY <2>2, <2>3
  <2> QED  BY <2>4
<1>4. iter = [t \in SUBSET DOMAIN s |->
                IF t = {} THEN none
                ELSE IF s[Max(t)] \in S THEN iter[t \ {Max(t)}]
                     ELSE Append(iter[t \ {Max(t)}], s[Max(t)])]
  <2>1. Same(iter)
    <3> HIDE DEF Same
    <3> QED  BY <1>3
  <2> HIDE DEF iter
  <2> QED  BY <2>1
<1>5. Without(s, S) = iter[DOMAIN s]
  BY DEF Without, FoldLeft, MapThenFoldSet
<1> HIDE DEF iter
<1>6. ChainIn(c, X, step, none, s)
  <2>1. c[0] = none
    <3>1. {} \in SUBSET DOMAIN s /\ 1..0 = {} /\ 0 \in 0..Len(s)
      BY <1>1
    <3> QED  BY <1>4, <3>1
  <2>2. ASSUME NEW k \in 1..Len(s), c[k - 1] \in X
        PROVE  c[k] = step[<<c[k - 1], s[k]>>]
    <3>1. k \in 0..Len(s) /\ k - 1 \in 0..Len(s) /\ 1..k \in SUBSET DOMAIN s /\ k \in Nat \ {0}
      BY <1>1
    <3>2. iter[1..k] = IF s[k] \in S THEN iter[1..(k - 1)] ELSE Append(iter[1..(k - 1)], s[k])
      BY <1>4, <3>1, FirstOnes
    <3>3. c[k] = iter[1..k] /\ c[k - 1] = iter[1..(k - 1)]
      BY <3>1
    <3> HIDE DEF c
    <3> QED  BY <1>1, <2>2, <3>2, <3>3 DEF Leaves
  <2> HIDE DEF c
  <2> QED  BY <2>1, <2>2 DEF ChainIn
<1>7. Folded(step, none, s) = c[Len(s)]
  <2> HIDE DEF X, B, none, step, c
  <2>1. s \in Seq(B)
    BY DEF B
  <2> QED  BY <1>2, <1>6, <2>1, FoldedIs
<1> QED  BY <1>1, <1>5, <1>7

\* An element more is left out, or comes behind the others.
LEMMA WithoutGrows ==
  ASSUME NEW S, NEW s \in Seq(Texts)
  PROVE  /\ Without(s, S) \in Seq(Texts) /\ Without(<<>>, S) = <<>>
         /\ \A b \in Texts : Without(Append(s, b), S)
                               = IF b \in S THEN Without(s, S) ELSE Append(Without(s, S), b)
<1> DEFINE B == Texts
           X == Seq(Texts)
           none == <<>>
           step == Leaves(S)
<1>1. FoldsIn(X, B, step, none) /\ s \in Seq(B) /\ none \in Seq(B)
  BY LeavesFolds
<1>2. /\ Folded(step, none, s) \in X /\ Folded(step, none, <<>>) = none
      /\ \A b \in B : Folded(step, none, Append(s, b)) = step[<<Folded(step, none, s), b>>]
  <2> HIDE DEF B, X, none, step
  <2> QED  BY ONLY <1>1, FoldedGrows
<1>3. Without(s, S) = Folded(step, none, s) /\ Without(none, S) = Folded(step, none, none)
  BY <1>1, WithoutIsFolded
<1>4. ASSUME NEW b \in Texts
      PROVE  Without(Append(s, b), S) = IF b \in S THEN Without(s, S) ELSE Append(Without(s, S), b)
  <2>1. Append(s, b) \in Seq(Texts)
    OBVIOUS
  <2>2. Without(Append(s, b), S) = Folded(step, none, Append(s, b))
    BY <2>1, WithoutIsFolded
  <2>3. Without(Append(s, b), S) = step[<<Without(s, S), b>>]
    BY <1>2, <1>3, <2>2
  <2>4. Without(s, S) \in Seq(Texts)
    BY <1>2, <1>3
  <2> HIDE DEF none
  <2> QED  BY <2>3, <2>4 DEF Leaves
<1> QED  BY <1>2, <1>3, <1>4

LEMMA WithoutIsIn ==
  ASSUME NEW S, NEW s \in Seq(Texts)
  PROVE  Range(Without(s, S)) = Range(s) \ S
<1> DEFINE T == {u \in Seq(Texts) : Range(Without(u, S)) = Range(u) \ S}
<1>1. <<>> \in T
  <2>1. <<>> \in Seq(Texts) /\ Range(<<>>) = {}
    BY DEF Range
  <2>2. Without(<<>>, S) = <<>>
    BY WithoutGrows
  <2> QED  BY <2>1, <2>2
<1>2. ASSUME NEW u \in T, NEW b \in Texts PROVE Append(u, b) \in T
  <2>1. /\ u \in Seq(Texts) /\ Append(u, b) \in Seq(Texts) /\ Without(u, S) \in Seq(Texts)
        /\ Range(Without(u, S)) = Range(u) \ S
        /\ Without(Append(u, b), S) = IF b \in S THEN Without(u, S) ELSE Append(Without(u, S), b)
    BY WithoutGrows
  <2>2. Range(Append(u, b)) = Range(u) \cup {b}
    BY <2>1, TextAppended DEF AppendFacts
  <2>3. Range(Append(Without(u, S), b)) = Range(Without(u, S)) \cup {b}
    BY <2>1, TextAppended DEF AppendFacts
  <2> QED  BY <2>1, <2>2, <2>3
<1>3. T = Seq(Texts)
  <2> DEFINE B == Texts
  <2>1. T \in SUBSET Seq(B) /\ <<>> \in T /\ \A u \in T, b \in B : Append(u, b) \in T
    BY <1>1, <1>2
  <2> HIDE DEF T, B
  <2>2. T = Seq(B)
    BY ONLY <2>1, SeqInduction
  <2> QED  BY <2>2 DEF B
<1> QED  BY <1>3

LEMMA WiderSeq ==
  ASSUME NEW B, NEW C, B \subseteq C
  PROVE  Seq(B) \subseteq Seq(C)
<1> SUFFICES ASSUME NEW s \in Seq(B) PROVE s \in Seq(C)
  OBVIOUS
<1>1. Len(s) \in Nat /\ s \in [1..Len(s) -> C]
  OBVIOUS
<1> QED  BY <1>1
LEMMA TextsAre == Seq(STRING) \subseteq Texts /\ Seq(Seq(STRING)) \subseteq Seq(Texts)
<1>1. STRING \subseteq Letters
  BY DEF Letters
<1>2. Seq(STRING) \subseteq Texts
  BY <1>1, WiderSeq DEF Texts
<1>3. Seq(Seq(STRING)) \subseteq Seq(Texts)
  <2> DEFINE B == Seq(STRING)
             C == Texts
  <2>1. B \subseteq C
    BY <1>2
  <2> HIDE DEF B, C
  <2>2. Seq(B) \subseteq Seq(C)
    BY ONLY <2>1, WiderSeq
  <2> QED  BY <2>2 DEF B, C
<1> QED  BY <1>2, <1>3

\* A name, by position: no byte of it is "=".
Name(key) == key \in Texts /\ \A i \in 1..Len(key) : key[i] # "="

\* The entry e has that name in front, with its "=".
Named(e, key) ==
  /\ Len(key) < Len(e) /\ e[Len(key) + 1] = "="
  /\ \A i \in 1..Len(key) : e[i] = key[i]

\* An entry as what stands in front of its value, and that.
LEMMA EntryFacts ==
  ASSUME NEW key \in Texts, NEW value \in Texts
  PROVE  /\ EnvEntry(key, value) \in Texts /\ Len(EnvEntry(key, value)) = Len(key) + 1 + Len(value)
         /\ Named(EnvEntry(key, value), key)
<1> DEFINE eq == <<"=">>
           f == key \o eq
           e == f \o value
           m == Len(key)
           n == Len(value)
<1>1. eq \in Seq(Letters) /\ Len(eq) = 1 /\ eq[1] = "=" /\ m \in Nat /\ n \in Nat
      /\ key \in Seq(Letters) /\ value \in Seq(Letters)
  <2>1. key \in Seq(Letters) /\ value \in Seq(Letters) /\ m \in Nat /\ n \in Nat
    BY DEF Texts
  <2>2. "=" \in Letters
    BY DEF Letters
  <2>3. eq \in Seq(Letters) /\ Len(eq) = 1 /\ eq[1] = "="
    BY <2>2
  <2> QED  BY <2>1, <2>3
<1> HIDE DEF eq
<1>2. /\ f \in Seq(Letters) /\ Len(f) = m + 1
      /\ \A i \in 1 .. m + 1 : f[i] = IF i <= m THEN key[i] ELSE eq[i - m]
  BY <1>1, ConcatProperties
<1> HIDE DEF f
<1>3. /\ e \in Seq(Letters) /\ Len(e) = (m + 1) + n
      /\ \A i \in 1 .. (m + 1) + n : e[i] = IF i <= m + 1 THEN f[i] ELSE value[i - (m + 1)]
  <2>1. /\ e \in Seq(Letters) /\ Len(e) = Len(f) + Len(value)
        /\ \A i \in 1 .. Len(f) + Len(value) : e[i] = IF i <= Len(f) THEN f[i] ELSE value[i - Len(f)]
    <3>1. f \in Seq(Letters) /\ value \in Seq(Letters)
      BY <1>1, <1>2
    <3> QED  BY ONLY <3>1, ConcatProperties
  <2> HIDE DEF e
  <2> QED  BY <1>2, <2>1
<1> HIDE DEF e, m, n
<1>4. e[m + 1] = "="
  <2>1. m + 1 \in 1 .. m + 1 /\ m + 1 \in 1 .. (m + 1) + n /\ m + 1 <= m + 1 /\ ~(m + 1 <= m) /\ (m + 1) - m = 1
    BY <1>1
  <2> QED  BY <1>1, <1>2, <1>3, <2>1
<1>5. ASSUME NEW i \in 1..m PROVE e[i] = key[i]
  <2>1. i \in 1 .. m + 1 /\ i \in 1 .. (m + 1) + n /\ i <= m + 1 /\ i <= m
    BY <1>1
  <2> QED  BY <1>2, <1>3, <2>1
<1>6. m < Len(e) /\ Len(e) = m + 1 + n
  BY <1>1, <1>3
<1>7. EnvEntry(key, value) = e
  BY DEF EnvEntry, e, f, eq
<1> QED  BY <1>3, <1>4, <1>5, <1>6, <1>7 DEF Named, Texts, m, n

\* A front, position by position.
LEMMA PrefixIs ==
  ASSUME NEW s \in Texts, NEW t \in Texts
  PROVE  IsPrefix(s, t) <=> Len(s) <= Len(t) /\ \A i \in 1..Len(s) : t[i] = s[i]
<1>1. s \in Seq(Letters) /\ t \in Seq(Letters) /\ Len(s) \in Nat /\ Len(t) \in Nat
  BY DEF Texts
<1>2. SubSeq(s, 1, Len(s)) = s
  BY <1>1, SubSeqFull
<1>3. CASE Len(s) <= Len(t)
  <2> DEFINE a == SubSeq(t, 1, Len(s))
  <2>1. a \in Seq(Letters) /\ Len(a) = Len(s) /\ \A i \in 1..Len(s) : a[i] = t[i]
    <3>1. Len(s) \in 0..Len(t)
      BY <1>1, <1>3
    <3> QED  BY <1>1, <3>1, FrontStretch
  <2> HIDE DEF a
  <2>2. (\A i \in 1..Len(s) : t[i] = s[i]) => a = s
    <3>1. ASSUME \A i \in 1..Len(s) : t[i] = s[i] PROVE a = s
      <4>1. \A i \in 1..Len(a) : a[i] = s[i]
        BY <2>1, <3>1
      <4> QED  BY <1>1, <2>1, <4>1, SeqEqual
    <3> QED  BY <3>1
  <2>3. a = s => \A i \in 1..Len(s) : t[i] = s[i]
    BY <2>1
  <2> QED  BY <1>2, <1>3, <2>2, <2>3 DEF IsPrefix, a
<1>4. CASE ~(Len(s) <= Len(t))
  BY <1>4 DEF IsPrefix
<1> QED  BY <1>3, <1>4

LEMMA HasKeyIs ==
  ASSUME NEW e \in Texts, NEW key \in Texts
  PROVE  HasKey(e, key) <=> Named(e, key)
<1> DEFINE none == <<>>
           f == EnvEntry(key, none)
           m == Len(key)
<1>1. none \in Texts /\ Len(none) = 0 /\ m \in Nat /\ Len(e) \in Nat
  BY DEF Texts
<1> HIDE DEF none
<1>2. f \in Texts /\ Len(f) = m + 1 + Len(none) /\ Named(f, key)
  BY <1>1, EntryFacts
<1> HIDE DEF f
<1>3. Len(f) = m + 1
  BY <1>1, <1>2
<1>4. f[m + 1] = "=" /\ \A i \in 1..m : f[i] = key[i]
  BY <1>2 DEF Named
<1>5. HasKey(e, key) <=> Len(f) <= Len(e) /\ \A i \in 1..Len(f) : e[i] = f[i]
  <2>1. HasKey(e, key) = IsPrefix(f, e)
    BY DEF HasKey, f, none
  <2> QED  BY <1>2, <2>1, PrefixIs
<1>6. ASSUME Len(f) <= Len(e), \A i \in 1..Len(f) : e[i] = f[i] PROVE Named(e, key)
  <2>1. m < Len(e) /\ m + 1 \in 1..Len(f)
    BY <1>1, <1>3, <1>6
  <2>2. ASSUME NEW i \in 1..m PROVE e[i] = key[i]
    <3>1. i \in 1..Len(f)
      BY <1>1, <1>3
    <3> QED  BY <1>4, <1>6, <3>1
  <2> QED  BY <1>4, <1>6, <2>1, <2>2 DEF Named
<1>7. ASSUME Named(e, key) PROVE Len(f) <= Len(e) /\ \A i \in 1..Len(f) : e[i] = f[i]
  <2>0. m < Len(e) /\ e[m + 1] = "=" /\ \A i \in 1..m : e[i] = key[i]
    BY <1>7 DEF Named
  <2>1. Len(f) <= Len(e)
    BY <1>1, <1>3, <2>0
  <2>2. ASSUME NEW i \in 1..Len(f) PROVE e[i] = f[i]
    <3>1. CASE i = m + 1
      BY <1>4, <2>0, <3>1
    <3>2. CASE i # m + 1
      <4>1. i \in 1..m
        BY <1>1, <1>3, <3>2
      <4> QED  BY <1>4, <2>0, <4>1
    <3> QED  BY <3>1, <3>2
  <2> QED  BY <2>1, <2>2
<1> QED  BY <1>5, <1>6, <1>7

\* An entry has one name.
LEMMA OneName ==
  ASSUME NEW e \in Texts, NEW k, Name(k), NEW l, Name(l), Named(e, k), Named(e, l)
  PROVE  k = l
<1>0. /\ k \in Seq(Letters) /\ l \in Seq(Letters) /\ Len(k) \in Nat /\ Len(l) \in Nat
      /\ \A i \in 1..Len(k) : k[i] # "=" /\ e[i] = k[i]
      /\ \A i \in 1..Len(l) : l[i] # "=" /\ e[i] = l[i]
      /\ e[Len(k) + 1] = "=" /\ e[Len(l) + 1] = "="
  BY DEF Name, Named, Texts
<1>1. ~(Len(k) < Len(l))
  <2> SUFFICES ASSUME Len(k) < Len(l) PROVE FALSE
    OBVIOUS
  <2>1. Len(k) + 1 \in 1..Len(l)
    BY <1>0
  <2> QED  BY <1>0, <2>1
<1>2. ~(Len(l) < Len(k))
  <2> SUFFICES ASSUME Len(l) < Len(k) PROVE FALSE
    OBVIOUS
  <2>1. Len(l) + 1 \in 1..Len(k)
    BY <1>0
  <2> QED  BY <1>0, <2>1
<1>3. Len(k) = Len(l)
  BY <1>0, <1>1, <1>2
<1>4. \A i \in 1..Len(k) : k[i] = l[i]
  BY <1>0, <1>3
<1> QED  BY <1>0, <1>3, <1>4, SeqEqual

\* The key part of an override is its name and the "=".
LEMMA KeyPartIs ==
  ASSUME NEW key, Name(key), NEW value \in Texts
  PROVE  KeyPart(EnvEntry(key, value)) = EnvEntry(key, <<>>)
<1> DEFINE e == EnvEntry(key, value)
           m == Len(key)
           I == {i \in 1..Len(e) : e[i] = "="}
           j == SelectInSeq(e, LAMBDA b : b = "=")
           none == <<>>
           f == EnvEntry(key, none)
           a == SubSeq(e, 1, m + 1)
<1>0. key \in Texts /\ m \in Nat /\ \A i \in 1..m : key[i] # "="
  BY DEF Name, Texts
<1>1. e \in Texts /\ Len(e) = m + 1 + Len(value) /\ Named(e, key) /\ Len(value) \in Nat
  BY <1>0, EntryFacts DEF Texts
<1>2. none \in Texts /\ Len(none) = 0
  BY DEF Texts
<1>3. KeyPart(e) = SubSeq(e, 1, j)
  BY DEF KeyPart
<1>4. j = IF I # {} THEN Min(I) ELSE 0
  BY DEF SelectInSeq
<1> HIDE DEF e, none, j
<1>5. f \in Texts /\ Len(f) = m + 1 + Len(none) /\ Named(f, key)
  BY <1>0, <1>2, EntryFacts
<1> HIDE DEF f
<1>6. e[m + 1] = "=" /\ (\A i \in 1..m : e[i] = key[i]) /\ f[m + 1] = "=" /\ \A i \in 1..m : f[i] = key[i]
  BY <1>1, <1>5 DEF Named
<1>7. Len(f) = m + 1 /\ m + 1 \in 0..Len(e) /\ m + 1 \in 1..Len(e)
  BY <1>0, <1>1, <1>2, <1>5
<1>8. j = m + 1
  <2>1. m + 1 \in I
    BY <1>6, <1>7
  <2>2. \A y \in I : m + 1 <= y
    <3> SUFFICES ASSUME NEW y \in I, ~(m + 1 <= y) PROVE FALSE
      OBVIOUS
    <3>1. y \in 1..m /\ e[y] = "="
      BY <1>0
    <3> QED  BY <1>0, <1>6, <3>1
  <2>3. I \subseteq Int
    OBVIOUS
  <2> HIDE DEF I
  <2>4. Min(I) \in I /\ \A y \in I : Min(I) <= y
    BY <2>1, <2>2 DEF Min
  <2>5. Min(I) \in Int /\ m + 1 \in Int /\ Min(I) <= m + 1 /\ m + 1 <= Min(I)
    BY <2>1, <2>2, <2>3, <2>4
  <2>6. j = Min(I)
    BY <1>4, <2>1
  <2> QED  BY <2>5, <2>6
<1>9. a \in Seq(Letters) /\ Len(a) = m + 1 /\ \A i \in 1..(m + 1) : a[i] = e[i]
  <2> DEFINE k == m + 1
  <2>1. e \in Seq(Letters) /\ k \in 0..Len(e)
    BY <1>1, <1>7 DEF Texts
  <2> HIDE DEF k
  <2>2. SubSeq(e, 1, k) \in Seq(Letters) /\ Len(SubSeq(e, 1, k)) = k /\ \A i \in 1..k : SubSeq(e, 1, k)[i] = e[i]
    BY <2>1, FrontStretch
  <2> QED  BY <2>2 DEF k
<1> HIDE DEF a
<1>10. ASSUME NEW i \in 1..(m + 1) PROVE a[i] = f[i]
  <2>1. CASE i = m + 1
    BY <1>6, <1>9, <2>1
  <2>2. CASE i # m + 1
    <3>1. i \in 1..m
      BY <1>0, <2>2
    <3> QED  BY <1>6, <1>9, <3>1
  <2> QED  BY <2>1, <2>2
<1>11. a = f
  <2>1. f \in Seq(Letters)
    BY <1>5 DEF Texts
  <2>2. \A i \in 1..Len(a) : a[i] = f[i]
    BY <1>9, <1>10
  <2> QED  BY <1>7, <1>9, <2>1, <2>2, SeqEqual
<1> QED  BY <1>3, <1>8, <1>11 DEF a, e, f, none

ValueOf(e, key) == {SubSeq(e, Len(key) + 2, Len(e))}

\* The first of the entries with that name, or the last of them, if any.
FirstAt(s, key) == SelectInSeq(s, LAMBDA e : HasKey(e, key))
LastAt(s, key) == SelectLastInSeq(s, LAMBDA e : HasKey(e, key))
FirstOf(s, key, i) ==
  \/ i = 0 /\ \A k \in 1..Len(s) : ~HasKey(s[k], key)
  \/ /\ i \in 1..Len(s) /\ HasKey(s[i], key)
     /\ \A k \in 1..Len(s) : HasKey(s[k], key) => i <= k
LastOf(s, key, i) ==
  \/ i = 0 /\ \A k \in 1..Len(s) : ~HasKey(s[k], key)
  \/ /\ i \in 1..Len(s) /\ HasKey(s[i], key)
     /\ \A k \in 1..Len(s) : HasKey(s[k], key) => k <= i

LEMMA FirstIs ==
  ASSUME NEW s \in Seq(Texts), NEW key
  PROVE  FirstOf(s, key, FirstAt(s, key))
<1> DEFINE I == {i \in 1..Len(s) : HasKey(s[i], key)}
           i == FirstAt(s, key)
<1>1. i = IF I # {} THEN Min(I) ELSE 0
  BY DEF FirstAt, SelectInSeq
<1>0. Len(s) \in Nat /\ I \in SUBSET (1..Len(s))
  OBVIOUS
<1>2. I # {} => Min(I) \in I /\ \A y \in I : Min(I) <= y
  <2> SUFFICES ASSUME I # {} PROVE Min(I) \in I /\ \A y \in I : Min(I) <= y
    OBVIOUS
  <2>1. \E x \in I : \A y \in I : x <= y
    <3> HIDE DEF I
    <3> QED  BY <1>0, LeastExists
  <2> HIDE DEF I
  <2> QED  BY <2>1 DEF Min
<1> HIDE DEF i
<1> QED  BY <1>1, <1>2 DEF FirstOf, i

LEMMA LastIs ==
  ASSUME NEW s \in Seq(Texts), NEW key
  PROVE  LastOf(s, key, LastAt(s, key))
<1> DEFINE I == {i \in 1..Len(s) : HasKey(s[i], key)}
           i == LastAt(s, key)
<1>1. i = IF I # {} THEN Max(I) ELSE 0
  BY DEF LastAt, SelectLastInSeq
<1>0. Len(s) \in Nat /\ I \in SUBSET (1..Len(s))
  OBVIOUS
<1>2. I # {} => Max(I) \in I /\ \A y \in I : y <= Max(I)
  <2> HIDE DEF I
  <2> QED  BY <1>0, GreatestIsIn
<1> HIDE DEF i
<1> QED  BY <1>1, <1>2 DEF LastOf, i

\* What getenv gives, as the entries are added.
LEMMA VarOfNone ==
  ASSUME NEW key
  PROVE  var_os(<<>>, key) = {}
<1> DEFINE none == <<>>
           i == FirstAt(none, key)
<1>1. none \in Seq(Texts) /\ Len(none) = 0
  OBVIOUS
<1> HIDE DEF none
<1>2. FirstOf(none, key, i)
  BY <1>1, FirstIs
<1>3. var_os(none, key) = IF i = 0 THEN {} ELSE {SubSeq(none[i], Len(key) + 2, Len(none[i]))}
  BY DEF var_os, FirstAt
<1> HIDE DEF i
<1>4. i = 0
  BY <1>1, <1>2 DEF FirstOf
<1> QED  BY <1>3, <1>4 DEF none

LEMMA VarOfMore ==
  ASSUME NEW s \in Seq(Texts), NEW b \in Texts, NEW key
  PROVE  /\ ValueOf(b, key) # {}
         /\ var_os(Append(s, b), key) = IF var_os(s, key) # {} THEN var_os(s, key)
                                        ELSE IF HasKey(b, key) THEN ValueOf(b, key) ELSE {}
<1> DEFINE more == Append(s, b)
           i == FirstAt(s, key)
           j == FirstAt(more, key)
           n == Len(s)
<1>1. /\ n \in Nat /\ Len(more) = n + 1 /\ more[n + 1] = b /\ \A k \in 1..n : more[k] = s[k]
      /\ more \in Seq(Texts)
  BY TextAppended DEF AppendFacts
<1> HIDE DEF more
<1>2. FirstOf(s, key, i) /\ FirstOf(more, key, j)
  BY <1>1, FirstIs
<1>3. /\ var_os(s, key) = IF i = 0 THEN {} ELSE ValueOf(s[i], key)
      /\ var_os(more, key) = IF j = 0 THEN {} ELSE ValueOf(more[j], key)
  BY DEF var_os, ValueOf, FirstAt
<1> HIDE DEF i, j
<1>4. \A e : ValueOf(e, key) # {}
  BY DEF ValueOf
<1>5. CASE i # 0
  <2>1. i \in 1..n /\ HasKey(s[i], key) /\ \A k \in 1..n : HasKey(s[k], key) => i <= k
    BY <1>2, <1>5 DEF FirstOf
  <2>2. i \in 1..(n + 1) /\ more[i] = s[i]
    BY <1>1, <2>1
  <2>3. j \in 1..(n + 1) /\ HasKey(more[j], key) /\ j <= i
    BY <1>1, <1>2, <2>1, <2>2 DEF FirstOf
  <2>4. j \in 1..n
    BY <1>1, <2>1, <2>3
  <2>5. i <= j
    BY <1>1, <2>1, <2>3, <2>4
  <2>6. i = j
    BY <2>1, <2>3, <2>5
  <2> QED  BY <1>3, <1>4, <1>5, <2>2, <2>6 DEF more
<1>6. CASE i = 0
  <2>1. \A k \in 1..n : ~HasKey(more[k], key)
    BY <1>1, <1>2, <1>6 DEF FirstOf
  <2>2. j = IF HasKey(b, key) THEN n + 1 ELSE 0
    <3>1. CASE j = 0
      <4>1. n + 1 \in 1..Len(more)
        BY <1>1
      <4>2. ~HasKey(more[n + 1], key)
        BY <1>2, <3>1, <4>1 DEF FirstOf
      <4> QED  BY <1>1, <3>1, <4>2
    <3>2. CASE j # 0
      <4>1. j \in 1..(n + 1) /\ HasKey(more[j], key)
        BY <1>1, <1>2, <3>2 DEF FirstOf
      <4>2. j = n + 1
        BY <1>1, <2>1, <4>1
      <4> QED  BY <1>1, <4>1, <4>2
    <3> QED  BY <3>1, <3>2
  <2>3. n + 1 # 0
    BY <1>1
  <2> QED  BY <1>1, <1>3, <1>4, <1>6, <2>2, <2>3 DEF more
<1> QED  BY <1>4, <1>5, <1>6

\* The last override of a name, as they are added.
LastIn(s, key) ==
  LET i == LastAt(s, key)
  IN  IF i = 0 THEN {} ELSE ValueOf(s[i], key)

LEMMA LastInNone ==
  ASSUME NEW key
  PROVE  LastIn(<<>>, key) = {}
<1> DEFINE none == <<>>
           i == LastAt(none, key)
<1>1. none \in Seq(Texts) /\ Len(none) = 0
  OBVIOUS
<1> HIDE DEF none
<1>2. LastOf(none, key, i)
  BY <1>1, LastIs
<1>3. LastIn(none, key) = IF i = 0 THEN {} ELSE ValueOf(none[i], key)
  BY DEF LastIn
<1> HIDE DEF i
<1>4. i = 0
  BY <1>1, <1>2 DEF LastOf
<1> QED  BY <1>3, <1>4 DEF none

LEMMA LastInMore ==
  ASSUME NEW s \in Seq(Texts), NEW b \in Texts, NEW key
  PROVE  LastIn(Append(s, b), key) = IF HasKey(b, key) THEN ValueOf(b, key) ELSE LastIn(s, key)
<1> DEFINE more == Append(s, b)
           i == LastAt(s, key)
           j == LastAt(more, key)
           n == Len(s)
<1>1. /\ n \in Nat /\ Len(more) = n + 1 /\ more[n + 1] = b /\ \A k \in 1..n : more[k] = s[k]
      /\ more \in Seq(Texts)
  BY TextAppended DEF AppendFacts
<1> HIDE DEF more
<1>2. LastOf(s, key, i) /\ LastOf(more, key, j)
  BY <1>1, LastIs
<1>3. /\ LastIn(s, key) = IF i = 0 THEN {} ELSE ValueOf(s[i], key)
      /\ LastIn(more, key) = IF j = 0 THEN {} ELSE ValueOf(more[j], key)
  BY DEF LastIn
<1> HIDE DEF i, j
<1>4. n + 1 \in 1..Len(more) /\ n + 1 # 0 /\ \A k \in 1..n : k \in 1..Len(more)
  BY <1>1
<1>5. CASE HasKey(b, key)
  <2>1. j \in 1..(n + 1) /\ n + 1 <= j
    BY <1>1, <1>2, <1>4, <1>5 DEF LastOf
  <2>2. j = n + 1
    BY <1>1, <2>1
  <2> QED  BY <1>1, <1>3, <1>4, <1>5, <2>2 DEF more
<1>6. CASE ~HasKey(b, key)
  <2>1. CASE i = 0
    <3>1. \A k \in 1..n : ~HasKey(more[k], key)
      BY <1>1, <1>2, <2>1 DEF LastOf
    <3>2. j = 0
      <4> SUFFICES ASSUME j # 0 PROVE FALSE
        OBVIOUS
      <4>1. j \in 1..(n + 1) /\ HasKey(more[j], key)
        BY <1>1, <1>2 DEF LastOf
      <4>2. j = n + 1
        BY <1>1, <3>1, <4>1
      <4> QED  BY <1>1, <1>6, <4>1, <4>2
    <3> QED  BY <1>3, <1>6, <2>1, <3>2 DEF more
  <2>2. CASE i # 0
    <3>1. i \in 1..n /\ HasKey(s[i], key) /\ \A k \in 1..n : HasKey(s[k], key) => k <= i
      BY <1>2, <2>2 DEF LastOf
    <3>2. i \in 1..Len(more) /\ more[i] = s[i] /\ HasKey(more[i], key)
      BY <1>1, <1>4, <3>1
    <3>3. j \in 1..(n + 1) /\ HasKey(more[j], key) /\ i <= j
      BY <1>1, <1>2, <3>2 DEF LastOf
    <3>4. j \in 1..n
      <4>1. j # n + 1
        BY <1>1, <1>6, <3>3
      <4> QED  BY <1>1, <3>3, <4>1
    <3>5. j <= i
      BY <1>1, <3>1, <3>3, <3>4
    <3>6. i = j
      BY <3>1, <3>3, <3>5
    <3>7. j # 0
      BY <3>4
    <3> QED  BY <1>3, <1>6, <2>2, <3>2, <3>6, <3>7 DEF more
  <2> QED  BY <2>1, <2>2
<1> QED  BY <1>5, <1>6

\* Entries that have not the name are left out, and getenv gives what it gave.
LEMMA OthersLeave ==
  ASSUME NEW S, NEW key, NEW s \in Seq(Texts), \A e \in Range(s) \cap S : ~HasKey(e, key)
  PROVE  var_os(Without(s, S), key) = var_os(s, key)
<1> DEFINE P(u) == (\A e \in Range(u) \cap S : ~HasKey(e, key)) => var_os(Without(u, S), key) = var_os(u, key)
           T == {u \in Seq(Texts) : P(u)}
<1>1. <<>> \in T
  <2>1. <<>> \in Seq(Texts)
    OBVIOUS
  <2>2. Without(<<>>, S) = <<>>
    <3> DEFINE none == <<>>
    <3>1. none \in Seq(Texts)
      OBVIOUS
    <3> QED  BY <3>1, WithoutGrows
  <2> QED  BY <2>1, <2>2
<1>2. ASSUME NEW u \in T, NEW b \in Texts PROVE Append(u, b) \in T
  <2>1. /\ u \in Seq(Texts) /\ Append(u, b) \in Seq(Texts) /\ Without(u, S) \in Seq(Texts) /\ P(u)
        /\ Without(Append(u, b), S) = IF b \in S THEN Without(u, S) ELSE Append(Without(u, S), b)
    BY WithoutGrows
  <2>2. Range(Append(u, b)) = Range(u) \cup {b}
    BY <2>1, TextAppended DEF AppendFacts
  <2>3. ASSUME \A e \in Range(Append(u, b)) \cap S : ~HasKey(e, key)
        PROVE  var_os(Without(Append(u, b), S), key) = var_os(Append(u, b), key)
    <3>1. var_os(Without(u, S), key) = var_os(u, key) /\ (b \in S => ~HasKey(b, key))
      BY <2>1, <2>2, <2>3
    <3>2. var_os(Append(u, b), key) = IF var_os(u, key) # {} THEN var_os(u, key)
                                      ELSE IF HasKey(b, key) THEN ValueOf(b, key) ELSE {}
      BY <2>1, VarOfMore
    <3>3. var_os(Append(Without(u, S), b), key)
            = IF var_os(Without(u, S), key) # {} THEN var_os(Without(u, S), key)
              ELSE IF HasKey(b, key) THEN ValueOf(b, key) ELSE {}
      BY <2>1, VarOfMore
    <3> QED  BY <2>1, <3>1, <3>2, <3>3
  <2> QED  BY <2>1, <2>3
<1>3. T = Seq(Texts)
  <2> DEFINE B == Texts
  <2>1. T \in SUBSET Seq(B) /\ <<>> \in T /\ \A u \in T, b \in B : Append(u, b) \in T
    BY <1>1, <1>2
  <2> HIDE DEF T, B
  <2>2. T = Seq(B)
    BY ONLY <2>1, SeqInduction
  <2> QED  BY <2>2 DEF B
<1>4. P(s)
  <2> HIDE DEF P
  <2> QED  BY <1>3
<1> QED  BY <1>4

\* All entries of the name are left out, and getenv gives nothing.
LEMMA AllLeave ==
  ASSUME NEW S, NEW key, NEW s \in Seq(Texts), \A e \in Range(s) : HasKey(e, key) => e \in S
  PROVE  var_os(Without(s, S), key) = {}
<1> DEFINE P(u) == (\A e \in Range(u) : HasKey(e, key) => e \in S) => var_os(Without(u, S), key) = {}
           T == {u \in Seq(Texts) : P(u)}
<1>1. <<>> \in T
  <2>1. <<>> \in Seq(Texts)
    OBVIOUS
  <2>2. Without(<<>>, S) = <<>>
    <3> DEFINE none == <<>>
    <3>1. none \in Seq(Texts)
      OBVIOUS
    <3> QED  BY <3>1, WithoutGrows
  <2>3. var_os(<<>>, key) = {}
    BY VarOfNone
  <2> QED  BY <2>1, <2>2, <2>3
<1>2. ASSUME NEW u \in T, NEW b \in Texts PROVE Append(u, b) \in T
  <2>1. /\ u \in Seq(Texts) /\ Append(u, b) \in Seq(Texts) /\ Without(u, S) \in Seq(Texts) /\ P(u)
        /\ Without(Append(u, b), S) = IF b \in S THEN Without(u, S) ELSE Append(Without(u, S), b)
    BY WithoutGrows
  <2>2. Range(Append(u, b)) = Range(u) \cup {b}
    BY <2>1, TextAppended DEF AppendFacts
  <2>3. ASSUME \A e \in Range(Append(u, b)) : HasKey(e, key) => e \in S
        PROVE  var_os(Without(Append(u, b), S), key) = {}
    <3>1. var_os(Without(u, S), key) = {} /\ (HasKey(b, key) => b \in S)
      BY <2>1, <2>2, <2>3
    <3>2. var_os(Append(Without(u, S), b), key)
            = IF var_os(Without(u, S), key) # {} THEN var_os(Without(u, S), key)
              ELSE IF HasKey(b, key) THEN ValueOf(b, key) ELSE {}
      BY <2>1, VarOfMore
    <3> QED  BY <2>1, <3>1, <3>2
  <2> QED  BY <2>1, <2>3
<1>3. T = Seq(Texts)
  <2> DEFINE B == Texts
  <2>1. T \in SUBSET Seq(B) /\ <<>> \in T /\ \A u \in T, b \in B : Append(u, b) \in T
    BY <1>1, <1>2
  <2> HIDE DEF T, B
  <2>2. T = Seq(B)
    BY ONLY <2>1, SeqInduction
  <2> QED  BY <2>2 DEF B
<1>4. P(s)
  <2> HIDE DEF P
  <2> QED  BY <1>3
<1> QED  BY <1>4

\* One override: what it does to the entries.
Overridden(entries, o) ==
  Append(Without(entries, {e \in Range(entries) : IsPrefix(KeyPart(o), e)}), o)

Overrides == {EnvEntry(x[1], x[2]) : x \in Keys \X Values}

LEMMA KeysAreNames ==
  ASSUME NEW key \in Keys
  PROVE  Name(key)
<1>1. key \in Texts
  BY EnvironmentAssumption, TextsAre
<1>2. \A i \in 1..Len(key) : key[i] # "="
  BY EnvironmentAssumption DEF Contains
<1> QED  BY <1>1, <1>2 DEF Name

LEMMA OneOverride ==
  ASSUME NEW entries \in Seq(Texts), NEW o \in Overrides, NEW key \in Keys
  PROVE  /\ Overridden(entries, o) \in Seq(Texts) /\ o \in Texts
         /\ var_os(Overridden(entries, o), key)
              = IF HasKey(o, key) THEN ValueOf(o, key) ELSE var_os(entries, key)
<1> DEFINE S == {e \in Range(entries) : IsPrefix(KeyPart(o), e)}
           rest == Without(entries, S)
<1>1. PICK k \in Keys, v \in Values : o = EnvEntry(k, v)
  BY DEF Overrides
<1>2. Name(k) /\ Name(key) /\ k \in Texts /\ v \in Texts /\ key \in Texts
  <2>1. v \in Texts
    BY EnvironmentAssumption, TextsAre
  <2>2. Name(k) /\ Name(key)
    BY KeysAreNames
  <2> QED  BY <2>1, <2>2 DEF Name
<1>3. o \in Texts /\ Named(o, k) /\ KeyPart(o) = EnvEntry(k, <<>>)
  BY <1>1, <1>2, EntryFacts, KeyPartIs
<1>4. \A e : IsPrefix(KeyPart(o), e) = HasKey(e, k)
  BY <1>3 DEF HasKey
<1>5. \A e \in Range(entries) : e \in Texts
  <2>1. DOMAIN entries = 1..Len(entries) /\ \A i \in 1..Len(entries) : entries[i] \in Texts
    OBVIOUS
  <2> QED  BY <2>1 DEF Range
<1>6. rest \in Seq(Texts) /\ Append(rest, o) \in Seq(Texts)
  <2>1. rest \in Seq(Texts)
    BY WithoutGrows
  <2> HIDE DEF rest
  <2> QED  BY <1>3, <2>1
<1>7. var_os(Append(rest, o), key) = IF var_os(rest, key) # {} THEN var_os(rest, key)
                                     ELSE IF HasKey(o, key) THEN ValueOf(o, key) ELSE {}
  <2> HIDE DEF rest
  <2> QED  BY <1>3, <1>6, VarOfMore
<1>8. CASE key = k
  <2>1. HasKey(o, key)
    BY <1>2, <1>3, <1>8, HasKeyIs
  <2>2. \A e \in Range(entries) : HasKey(e, key) => e \in S
    BY <1>4, <1>8
  <2>3. var_os(rest, key) = {}
    <3> HIDE DEF S
    <3> QED  BY <2>2, AllLeave
  <2> QED  BY <1>3, <1>6, <1>7, <2>1, <2>3 DEF Overridden
<1>9. CASE key # k
  <2>1. ~HasKey(o, key)
    BY <1>2, <1>3, <1>9, HasKeyIs, OneName
  <2>2. ASSUME NEW e \in Range(entries) \cap S, HasKey(e, key) PROVE FALSE
    <3>1. HasKey(e, k) /\ e \in Texts
      BY <1>4, <1>5
    <3>2. Named(e, k) /\ Named(e, key)
      BY <1>2, <2>2, <3>1, HasKeyIs
    <3> QED  BY <1>2, <1>9, <3>1, <3>2, OneName
  <2>3. var_os(rest, key) = var_os(entries, key)
    <3>1. \A e \in Range(entries) \cap S : ~HasKey(e, key)
      BY <2>2
    <3> HIDE DEF S
    <3> QED  BY <3>1, OthersLeave
  <2> QED  BY <1>3, <1>6, <1>7, <2>1, <2>3 DEF Overridden
<1> QED  BY <1>8, <1>9

\* environment is a fold of this step.
Overriding == [x \in Seq(Texts) \X Overrides |-> Overridden(x[1], x[2])]

LEMMA OverridingFolds ==
  ASSUME environ \in Seq(Texts), NEW key \in Keys
  PROVE  FoldsIn(Seq(Texts), Overrides, Overriding, environ)
<1>1. ASSUME NEW x \in Seq(Texts) \X Overrides
      PROVE  Overridden(x[1], x[2]) \in Seq(Texts)
  <2>1. x[1] \in Seq(Texts) /\ x[2] \in Overrides
    OBVIOUS
  <2> QED  BY <2>1, OneOverride
<1> QED  BY <1>1 DEF FoldsIn, Overriding

LEMMA EnvironmentIsFolded ==
  ASSUME environ \in Seq(Texts), NEW key \in Keys, NEW c, c.overrides \in Seq(Overrides)
  PROVE  environment(c) = Folded(Overriding, environ, c.overrides)
<1> DEFINE s == c.overrides
           B == Overrides
           X == Seq(Texts)
           Same(iter) ==
             iter = [t \in SUBSET DOMAIN s |->
                       IF t = {} THEN environ ELSE Overridden(iter[t \ {Max(t)}], s[Max(t)])]
           iter == CHOOSE i : Same(i)
           d == [k \in 0..Len(s) |-> iter[1..k]]
           step == Overriding
<1>1. DOMAIN s = 1..Len(s) /\ Len(s) \in Nat /\ \A k \in 1..Len(s) : s[k] \in B
  OBVIOUS
<1>2. FoldsIn(X, B, step, environ) /\ s \in Seq(B)
  BY OverridingFolds
<1>5. environment(c) = iter[DOMAIN s]
  BY DEF environment, FoldLeft, MapThenFoldSet, Overridden
<1> HIDE DEF s
<1>3. \E i : Same(i)
  <2>1. PICK i : Turns(i, X, step, environ, s)
    <3> HIDE DEF X, B, step
    <3> QED  BY <1>2, TurnsExist
  <2>2. /\ i \in [SUBSET DOMAIN s -> X]
        /\ \A t \in SUBSET DOMAIN s : i[t] = Turn(i, step, environ, s, t)
    BY <2>1 DEF Turns
  <2>3. ASSUME NEW t \in SUBSET DOMAIN s
        PROVE  i[t] = IF t = {} THEN environ ELSE Overridden(i[t \ {Max(t)}], s[Max(t)])
    <3>1. CASE t = {}
      BY <2>2, <3>1 DEF Turn
    <3>2. CASE t # {}
      <4>1. s[Max(t)] \in B
        BY <1>1, <3>2, GreatestIsIn
      <4>2. i[t \ {Max(t)}] \in X
        BY <2>2
      <4>3. i[t] = step[<<i[t \ {Max(t)}], s[Max(t)]>>]
        BY <2>2, <3>2 DEF Turn
      <4> QED  BY <3>2, <4>1, <4>2, <4>3 DEF Overriding
    <3> QED  BY <3>1, <3>2
  <2>4. Same(i)
    BY <2>2, <2>3
  <2> QED  BY <2>4
<1>4. iter = [t \in SUBSET DOMAIN s |->
                IF t = {} THEN environ ELSE Overridden(iter[t \ {Max(t)}], s[Max(t)])]
  <2>1. Same(iter)
    <3> HIDE DEF Same
    <3> QED  BY <1>3
  <2> HIDE DEF iter
  <2> QED  BY <2>1
<1> HIDE DEF iter
<1>6. ChainIn(d, X, step, environ, s)
  <2>1. d[0] = environ
    <3>1. {} \in SUBSET DOMAIN s /\ 1..0 = {} /\ 0 \in 0..Len(s)
      BY <1>1
    <3> QED  BY <1>4, <3>1
  <2>2. ASSUME NEW k \in 1..Len(s), d[k - 1] \in X
        PROVE  d[k] = step[<<d[k - 1], s[k]>>]
    <3>1. k \in 0..Len(s) /\ k - 1 \in 0..Len(s) /\ 1..k \in SUBSET DOMAIN s /\ k \in Nat \ {0}
      BY <1>1
    <3>2. iter[1..k] = Overridden(iter[1..(k - 1)], s[k])
      BY <1>4, <3>1, FirstOnes
    <3>3. d[k] = iter[1..k] /\ d[k - 1] = iter[1..(k - 1)]
      BY <3>1
    <3> HIDE DEF d
    <3> QED  BY <1>1, <2>2, <3>2, <3>3 DEF Overriding
  <2> HIDE DEF d
  <2> QED  BY <2>1, <2>2 DEF ChainIn
<1>7. Folded(step, environ, s) = d[Len(s)]
  <2> HIDE DEF X, B, step, d
  <2> QED  BY <1>2, <1>6, FoldedIs
<1> QED  BY <1>1, <1>5, <1>7 DEF s

\* What the child's getenv gives.
LEMMA ChildSees ==
  ASSUME environ \in Seq(Texts), NEW c, c.overrides \in Seq(Overrides), NEW key \in Keys
  PROVE  var_os(environment(c), key) =
           IF LastIn(c.overrides, key) # {} THEN LastIn(c.overrides, key) ELSE var_os(environ, key)
<1> DEFINE B == Overrides
           step == Overriding
           Sees(u) == Folded(step, environ, u)
           P(u) == var_os(Sees(u), key) = IF LastIn(u, key) # {} THEN LastIn(u, key) ELSE var_os(environ, key)
           T == {u \in Seq(B) : P(u)}
<1>1. FoldsIn(Seq(Texts), B, step, environ)
  BY OverridingFolds
<1>2. ASSUME NEW u \in Seq(B)
      PROVE  /\ Sees(u) \in Seq(Texts) /\ Sees(<<>>) = environ
             /\ \A b \in B : Sees(Append(u, b)) = step[<<Sees(u), b>>]
  <2> DEFINE X == Seq(Texts)
  <2>1. FoldsIn(X, B, step, environ) /\ u \in Seq(B)
    BY <1>1
  <2> HIDE DEF X, B, step
  <2>2. /\ Folded(step, environ, u) \in X /\ Folded(step, environ, <<>>) = environ
        /\ \A b \in B : Folded(step, environ, Append(u, b)) = step[<<Folded(step, environ, u), b>>]
    BY ONLY <2>1, FoldedGrows
  <2> QED  BY <2>2 DEF X
<1>3. ASSUME NEW u \in Seq(B)
      PROVE  u \in Seq(Texts)
  <2>1. B \subseteq Texts
    <3>1. <<>> \in Seq(Texts)
      OBVIOUS
    <3> QED  BY <3>1, OneOverride
  <2> HIDE DEF B
  <2>2. Seq(B) \subseteq Seq(Texts)
    <3> DEFINE C == Texts
    <3>1. B \subseteq C
      BY <2>1
    <3> HIDE DEF C
    <3>2. Seq(B) \subseteq Seq(C)
      BY ONLY <3>1, WiderSeq
    <3> QED  BY <3>2 DEF C
  <2> QED  BY <2>2
<1>4. <<>> \in T
  <2> DEFINE none == <<>>
  <2>1. none \in Seq(B) /\ LastIn(none, key) = {}
    BY LastInNone
  <2>2. Sees(none) = environ
    <3> HIDE DEF Sees
    <3> QED  BY <1>2, <2>1
  <2> HIDE DEF Sees, B, none
  <2>3. none \in T
    BY <2>1, <2>2
  <2> QED  BY <2>3 DEF none
<1>5. ASSUME NEW u \in T, NEW b \in B PROVE Append(u, b) \in T
  <2>1. u \in Seq(B) /\ Append(u, b) \in Seq(B) /\ P(u) /\ u \in Seq(Texts)
    BY <1>3
  <2> DEFINE entries == Sees(u)
  <2>2. entries \in Seq(Texts) /\ Sees(Append(u, b)) = step[<<entries, b>>]
    <3> HIDE DEF Sees
    <3> QED  BY <1>2, <2>1
  <2> HIDE DEF Sees
  <2>3. var_os(entries, key) = IF LastIn(u, key) # {} THEN LastIn(u, key) ELSE var_os(environ, key)
    BY <2>1
  <2> HIDE DEF entries, P
  <2>4. Sees(Append(u, b)) = Overridden(entries, b)
    BY <2>2 DEF Overriding
  <2>5. /\ b \in Texts
        /\ var_os(Overridden(entries, b), key) = IF HasKey(b, key) THEN ValueOf(b, key) ELSE var_os(entries, key)
    BY <2>2, OneOverride
  <2>6. LastIn(Append(u, b), key) = IF HasKey(b, key) THEN ValueOf(b, key) ELSE LastIn(u, key)
    BY <2>1, <2>5, LastInMore
  <2>7. ValueOf(b, key) # {}
    BY DEF ValueOf
  <2>8. P(Append(u, b))
    BY <2>3, <2>4, <2>5, <2>6, <2>7 DEF P
  <2> QED  BY <2>1, <2>8
<1>6. T = Seq(B)
  <2>1. T \in SUBSET Seq(B) /\ <<>> \in T /\ \A u \in T, b \in B : Append(u, b) \in T
    BY <1>4, <1>5
  <2> HIDE DEF T, B
  <2> QED  BY ONLY <2>1, SeqInduction
<1>7. P(c.overrides)
  <2> HIDE DEF P
  <2> QED  BY <1>6
<1>8. environment(c) = Sees(c.overrides)
  BY EnvironmentIsFolded
<1> HIDE DEF Sees
<1> QED  BY <1>7, <1>8

\* split is a fold of this step: a part more, or a byte more in the last one.
Splits(byte) ==
  [x \in Seq(Texts) \X Letters |->
     IF x[2] = byte THEN Append(x[1], <<>>)
     ELSE [x[1] EXCEPT ![Len(x[1])] = Append(@, x[2])]]

LEMMA SplitsFolds ==
  ASSUME NEW byte
  PROVE  FoldsIn(Seq(Texts), Letters, Splits(byte), << <<>> >>)
<1> DEFINE none == <<>>
           X == Seq(Texts)
<1>1. none \in Texts
  BY DEF Texts
<1>2. << none >> \in X
  <2> HIDE DEF none
  <2> QED  BY <1>1
<1>3. ASSUME NEW p \in X, NEW b \in Letters
      PROVE  [p EXCEPT ![Len(p)] = Append(@, b)] \in X
  <2>1. Len(p) \in Nat /\ p \in [1..Len(p) -> Texts] /\ DOMAIN p = 1..Len(p)
    OBVIOUS
  <2>2. Len(p) \in 1..Len(p) => Append(p[Len(p)], b) \in Texts
    BY <2>1 DEF Texts
  <2>3. [p EXCEPT ![Len(p)] = Append(@, b)] \in [1..Len(p) -> Texts]
    BY <2>1, <2>2
  <2> QED  BY <2>1, <2>3
<1>4. ASSUME NEW x \in X \X Letters
      PROVE  (IF x[2] = byte THEN Append(x[1], none)
              ELSE [x[1] EXCEPT ![Len(x[1])] = Append(@, x[2])]) \in X
  <2>1. x[1] \in X /\ x[2] \in Letters
    OBVIOUS
  <2>2. Append(x[1], none) \in X
    <3> HIDE DEF none
    <3> QED  BY <1>1, <2>1
  <2>3. [x[1] EXCEPT ![Len(x[1])] = Append(@, x[2])] \in X
    <3> HIDE DEF X
    <3> QED  BY <1>3, <2>1
  <2> QED  BY <2>2, <2>3
<1> QED  BY <1>2, <1>4 DEF FoldsIn, Splits

LEMMA SplitType ==
  ASSUME NEW byte, NEW s \in Texts
  PROVE  split(s, byte) \in Seq(Texts)
<1> DEFINE B == Letters
           X == Seq(Texts)
           none == << <<>> >>
           More(p, b) == IF b = byte THEN Append(p, <<>>) ELSE [p EXCEPT ![Len(p)] = Append(@, b)]
           Same(iter) ==
             iter = [t \in SUBSET DOMAIN s |->
                       IF t = {} THEN none ELSE More(iter[t \ {Max(t)}], s[Max(t)])]
           iter == CHOOSE i : Same(i)
           c == [k \in 0..Len(s) |-> iter[1..k]]
           step == Splits(byte)
<1>1. DOMAIN s = 1..Len(s) /\ Len(s) \in Nat /\ (\A k \in 1..Len(s) : s[k] \in B) /\ s \in Seq(B)
  BY DEF Texts
<1>2. FoldsIn(X, B, step, none)
  BY SplitsFolds
<1>a. \A p \in X, b \in B : step[<<p, b>>] = More(p, b)
  BY DEF Splits
<1>5. split(s, byte) = iter[DOMAIN s]
  BY DEF split, FoldLeft, MapThenFoldSet
<1> HIDE DEF More
<1>3. \E i : Same(i)
  <2>1. PICK i : Turns(i, X, step, none, s)
    <3> HIDE DEF X, B, none, step
    <3> QED  BY <1>1, <1>2, TurnsExist
  <2>2. /\ i \in [SUBSET DOMAIN s -> X]
        /\ \A t \in SUBSET DOMAIN s : i[t] = Turn(i, step, none, s, t)
    BY <2>1 DEF Turns
  <2>3. ASSUME NEW t \in SUBSET DOMAIN s
        PROVE  i[t] = IF t = {} THEN none ELSE More(i[t \ {Max(t)}], s[Max(t)])
    <3>1. CASE t = {}
      BY <2>2, <3>1 DEF Turn
    <3>2. CASE t # {}
      <4>1. s[Max(t)] \in B
        BY <1>1, <3>2, GreatestIsIn
      <4>2. i[t \ {Max(t)}] \in X
        BY <2>2
      <4>3. i[t] = step[<<i[t \ {Max(t)}], s[Max(t)]>>]
        BY <2>2, <3>2 DEF Turn
      <4> HIDE DEF step
      <4> QED  BY <1>a, <3>2, <4>1, <4>2, <4>3
    <3> QED  BY <3>1, <3>2
  <2>4. Same(i)
    BY <2>2, <2>3
  <2> QED  BY <2>4
<1>4. iter = [t \in SUBSET DOMAIN s |->
                IF t = {} THEN none ELSE More(iter[t \ {Max(t)}], s[Max(t)])]
  <2>1. Same(iter)
    <3> HIDE DEF Same
    <3> QED  BY <1>3
  <2> HIDE DEF iter
  <2> QED  BY <2>1
<1> HIDE DEF iter
<1>6. ChainIn(c, X, step, none, s)
  <2>1. c[0] = none
    <3>1. {} \in SUBSET DOMAIN s /\ 1..0 = {} /\ 0 \in 0..Len(s)
      BY <1>1
    <3> QED  BY <1>4, <3>1
  <2>2. ASSUME NEW k \in 1..Len(s), c[k - 1] \in X
        PROVE  c[k] = step[<<c[k - 1], s[k]>>]
    <3>1. k \in 0..Len(s) /\ k - 1 \in 0..Len(s) /\ 1..k \in SUBSET DOMAIN s /\ k \in Nat \ {0}
      BY <1>1
    <3>2. iter[1..k] = More(iter[1..(k - 1)], s[k])
      BY <1>4, <3>1, FirstOnes
    <3>3. c[k] = iter[1..k] /\ c[k - 1] = iter[1..(k - 1)]
      BY <3>1
    <3> HIDE DEF c, step
    <3> QED  BY <1>a, <1>1, <2>2, <3>2, <3>3
  <2> HIDE DEF c
  <2> QED  BY <2>1, <2>2 DEF ChainIn
<1>7. c[Len(s)] \in X
  <2> HIDE DEF X, B, none, step, c
  <2> QED  BY <1>1, <1>2, <1>6, FoldedIs
<1> QED  BY <1>1, <1>5, <1>7

\* What the prover is told of the state.
EnvInv ==
  /\ environ \in Seq(Texts)
  /\ cmd = [program |-> cmd.program, args |-> cmd.args, overrides |-> cmd.overrides]
  /\ cmd.program \in Texts /\ cmd.args \in Seq(Texts) /\ cmd.overrides \in Seq(Overrides)

\* What getenv gives is a text.
LEMMA VarIsText ==
  ASSUME NEW s \in Seq(Texts), NEW key \in Texts
  PROVE  var_os(s, key) \subseteq Texts
<1> DEFINE i == FirstAt(s, key)
           n == Len(s[i])
<1>1. FirstOf(s, key, i)
  BY FirstIs
<1>2. var_os(s, key) = IF i = 0 THEN {} ELSE {SubSeq(s[i], Len(key) + 2, n)}
  BY DEF var_os, FirstAt
<1> HIDE DEF i
<1>3. ASSUME i # 0 PROVE SubSeq(s[i], Len(key) + 2, n) \in Texts
  <2>1. i \in 1..Len(s)
    BY <1>1, <1>3 DEF FirstOf
  <2>2. s[i] \in Seq(Letters) /\ Len(key) \in Nat
    BY <2>1 DEF Texts
  <2> DEFINE t == s[i]
             m == Len(key) + 2
  <2>3. t \in Seq(Letters) /\ m \in Int /\ Len(t) \in Int /\ \A k \in m..Len(t) : t[k] \in Letters
    BY <2>2
  <2> HIDE DEF t, m
  <2>4. SubSeq(t, m, Len(t)) \in Seq(Letters)
    BY <2>3, SubSeqProperties
  <2> QED  BY <2>4 DEF t, m, Texts
<1> QED  BY <1>2, <1>3

\* A program with no "/" in it is looked for under a directory.
LEMMA Joins ==
  ASSUME NEW dir \in Texts, dir # <<>>, NEW program \in Texts, ~Contains(program, "/")
  PROVE  dir \o (IF IsSuffix(Slash, dir) THEN <<>> ELSE Slash) \o program = push(dir, program)
<1> DEFINE none == <<>>
<1>1. dir \in Seq(Letters) /\ program \in Seq(Letters)
  BY DEF Texts
<1>2. ~is_absolute(program)
  <2>1. Slash \in Texts /\ Len(Slash) = 1 /\ Slash[1] = "/"
    BY DEF Slash, Texts, Letters
  <2> SUFFICES ASSUME is_absolute(program) PROVE FALSE
    OBVIOUS
  <2>2. Len(Slash) <= Len(program) /\ \A i \in 1..Len(Slash) : program[i] = Slash[i]
    BY <2>1, PrefixIs DEF is_absolute
  <2>3. 1 \in 1..Len(program) /\ program[1] = "/"
    BY <1>1, <2>1, <2>2
  <2> QED  BY <2>3 DEF Contains
<1>3. dir \o none = dir
  BY <1>1
<1>4. Append(dir, "/") = dir \o Slash
  <2>1. "/" \in Letters
    BY DEF Letters
  <2> QED  BY <1>1, <2>1, AppendIsConcat DEF Slash
<1> HIDE DEF none
<1>5. dir # none
  BY DEF none
<1>6. push(dir, program) = (IF dir # none /\ ~IsSuffix(Slash, dir) THEN Append(dir, "/") ELSE dir) \o program
  BY <1>2 DEF push, none
<1> QED  BY <1>3, <1>4, <1>5, <1>6 DEF none

LEMMA CandidatesAre ==
  ASSUME environ \in Seq(Texts), NEW program \in Texts, ~Contains(program, "/"),
         NEW c \in Range(candidates(program))
  PROVE  \E v \in var_os(environ, <<"P">>) :
           \E dir \in Range(split(v, ":")) : dir # <<>> /\ c = push(dir, program)
<1> DEFINE path == var_os(environ, <<"P">>)
           none == <<>>
           v == CHOOSE u \in path : TRUE
           dirs == IF path = {} THEN none ELSE split_paths(v)
           Under(dir) == dir \o (IF IsSuffix(Slash, dir) THEN <<>> ELSE Slash) \o program
<1>1. candidates(program) = [i \in DOMAIN dirs |-> Under(dirs[i])]
  BY DEF candidates
<1>2. path \subseteq Texts
  <2>1. <<"P">> \in Texts
    BY DEF Texts, Letters
  <2> QED  BY <2>1, VarIsText
<1> HIDE DEF Under, dirs, path
<1>3. PICK i \in DOMAIN dirs : c = Under(dirs[i])
  BY <1>1 DEF Range
<1>4. path # {}
  BY <1>3 DEF dirs, none
<1>5. v \in path
  BY <1>4
<1> HIDE DEF v
<1>6. dirs = Without(split(v, ":"), {none})
  BY <1>4 DEF dirs, split_paths, none
<1> HIDE DEF none
<1>7. split(v, ":") \in Seq(Texts)
  BY <1>2, <1>5, SplitType
<1>8. Range(dirs) = Range(split(v, ":")) \ {none}
  BY <1>6, <1>7, WithoutIsIn
<1>9. dirs[i] \in Range(dirs)
  BY <1>3 DEF Range
<1>10. dirs[i] \in Range(split(v, ":")) /\ dirs[i] # <<>>
  BY <1>8, <1>9 DEF none
<1>11. dirs[i] \in Texts
  <2> DEFINE t == split(v, ":")
  <2>1. DOMAIN t = 1..Len(t) /\ \A k \in 1..Len(t) : t[k] \in Texts
    BY <1>7
  <2> HIDE DEF t
  <2>2. Range(t) \subseteq Texts
    BY <2>1 DEF Range
  <2> QED  BY <1>10, <2>2 DEF t
<1>12. c = push(dirs[i], program)
  BY <1>3, <1>10, <1>11, Joins DEF Under
<1> QED  BY <1>5, <1>10, <1>12 DEF path

\* An argument is among those the process is run with.
LEMMA ArgsAre ==
  ASSUME EnvInv, NEW i \in DOMAIN cmd.args, cmd.args[i] # <<>>
  PROVE  cmd.args[i] \in Range(args(argv(cmd)))
<1> DEFINE p == <<cmd.program>>
           a == cmd.args
           all == p \o a
           none == <<>>
<1>1. cmd.program \in Texts /\ a \in Seq(Texts)
  BY DEF EnvInv
<1>2. p \in Seq(Texts) /\ Len(p) = 1
  BY <1>1
<1> HIDE DEF p, none
<1>3. i \in 1..Len(a) /\ Len(a) \in Nat
  BY <1>1
<1> HIDE DEF a
<1>4. /\ all \in Seq(Texts) /\ Len(all) = 1 + Len(a)
      /\ \A k \in 1..(1 + Len(a)) : all[k] = IF k <= 1 THEN p[k] ELSE a[k - 1]
  <2>1. /\ all \in Seq(Texts) /\ Len(all) = Len(p) + Len(a)
        /\ \A k \in 1..(Len(p) + Len(a)) : all[k] = IF k <= Len(p) THEN p[k] ELSE a[k - Len(p)]
    <3>1. p \in Seq(Texts) /\ a \in Seq(Texts)
      BY <1>1, <1>2
    <3> QED  BY ONLY <3>1, ConcatProperties
  <2> HIDE DEF all
  <2> QED  BY <1>2, <2>1
<1>5. args(argv(cmd)) = Without(all, {none})
  BY DEF args, argv, p, a, none
<1> HIDE DEF all
<1>6. a[i] \in Range(all)
  <2>1. i + 1 \in 1..(1 + Len(a)) /\ ~(i + 1 <= 1) /\ (i + 1) - 1 = i /\ DOMAIN all = 1..Len(all)
    BY <1>3, <1>4
  <2>2. all[i + 1] = a[i]
    BY <1>4, <2>1
  <2> QED  BY <1>4, <2>1, <2>2 DEF Range
<1>7. Range(args(argv(cmd))) = Range(all) \ {none}
  BY <1>4, <1>5, WithoutIsIn
<1>8. a[i] # none
  BY DEF a, none
<1> QED  BY <1>6, <1>7, <1>8 DEF a

LEMMA EnvInvTells == EnvInv => ChildIsToldAll
<1> SUFFICES ASSUME EnvInv PROVE ChildIsToldAll
  OBVIOUS
<1>1. environ \in Seq(Texts) /\ cmd.overrides \in Seq(Overrides) /\ cmd.program \in Texts
  BY DEF EnvInv
<1>2. ASSUME NEW key \in Keys
      PROVE  var_os(environment(cmd), key) =
               IF LastOverride(key) # {} THEN LastOverride(key) ELSE var_os(environ, key)
  <2>1. LastOverride(key) = LastIn(cmd.overrides, key)
    BY DEF LastOverride, LastIn, LastAt, ValueOf
  <2> QED  BY <1>1, <2>1, ChildSees
<1>3. ASSUME ~Contains(cmd.program, "/"), NEW c \in Range(candidates(cmd.program))
      PROVE  \E v \in var_os(environ, <<"P">>) :
               \E dir \in Range(split(v, ":")) : dir # <<>> /\ c = push(dir, cmd.program)
  BY <1>1, <1>3, CandidatesAre
<1>4. ASSUME NEW i \in DOMAIN cmd.args, cmd.args[i] # <<>>
      PROVE  cmd.args[i] \in Range(args(argv(cmd)))
  BY <1>4, ArgsAre
<1> QED  BY <1>2, <1>3, <1>4 DEF ChildIsToldAll

LEMMA EnvInitInv == EnvironmentInit => EnvInv
<1> SUFFICES ASSUME EnvironmentInit PROVE EnvInv
  OBVIOUS
<1> DEFINE none == <<>>
<1>1. environ \in Seq(Texts)
  BY EnvironmentAssumption, TextsAre DEF EnvironmentInit
<1>2. <<"a">> \in Texts /\ <<"a", "/", "b">> \in Texts
  BY DEF Texts, Letters
<1>3. PICK p \in Texts : cmd = [program |-> p, args |-> none, overrides |-> none]
  BY <1>2 DEF EnvironmentInit, NewCommand
<1>4. none \in Seq(Texts) /\ none \in Seq(Overrides)
  OBVIOUS
<1> HIDE DEF none
<1> QED  BY <1>1, <1>3, <1>4 DEF EnvInv

LEMMA AddArgInv ==
  ASSUME EnvInv, NEW a \in Values, AddArg(a)
  PROVE  EnvInv'
<1>1. a \in Texts
  BY EnvironmentAssumption, TextsAre
<1>2. /\ environ' = environ
      /\ cmd' = [program |-> cmd.program, args |-> Append(cmd.args, a), overrides |-> cmd.overrides]
  BY DEF AddArg, EnvInv
<1>3. Append(cmd.args, a) \in Seq(Texts)
  BY <1>1 DEF EnvInv
<1> QED  BY <1>2, <1>3 DEF EnvInv

LEMMA OverrideInv ==
  ASSUME EnvInv, NEW key \in Keys, NEW value \in Values, Override(key, value)
  PROVE  EnvInv'
<1> DEFINE o == EnvEntry(key, value)
<1>1. o \in Overrides
  <2>1. <<key, value>> \in Keys \X Values
    OBVIOUS
  <2> QED  BY <2>1 DEF Overrides
<1>2. /\ environ' = environ
      /\ cmd' = [program |-> cmd.program, args |-> cmd.args, overrides |-> Append(cmd.overrides, o)]
  BY DEF Override, EnvInv
<1> HIDE DEF o
<1>3. Append(cmd.overrides, o) \in Seq(Overrides)
  BY <1>1 DEF EnvInv
<1> QED  BY <1>2, <1>3 DEF EnvInv

LEMMA SetVarInv ==
  ASSUME EnvInv, NEW key \in Keys, NEW value \in Values, set_var(key, value)
  PROVE  EnvInv'
<1> DEFINE o == EnvEntry(key, value)
           i == FirstAt(environ, key)
<1>1. o \in Texts
  <2>1. Name(key) /\ value \in Texts
    BY EnvironmentAssumption, TextsAre, KeysAreNames
  <2> QED  BY <2>1, EntryFacts DEF Name
<1>2. /\ cmd' = cmd
      /\ environ' = IF i > 0 THEN [environ EXCEPT ![i] = o] ELSE Append(environ, o)
  BY DEF set_var, FirstAt
<1> HIDE DEF o, i
<1>3. environ \in Seq(Texts)
  BY DEF EnvInv
<1>4. [environ EXCEPT ![i] = o] \in Seq(Texts)
  <2>1. Len(environ) \in Nat /\ environ \in [1..Len(environ) -> Texts]
    BY <1>3
  <2>2. [environ EXCEPT ![i] = o] \in [1..Len(environ) -> Texts]
    BY <1>1, <2>1
  <2> QED  BY <2>1, <2>2
<1>5. Append(environ, o) \in Seq(Texts)
  BY <1>1, <1>3
<1> QED  BY <1>2, <1>4, <1>5 DEF EnvInv

LEMMA EnvNextInv == EnvInv /\ [EnvironmentNext]_environmentVars => EnvInv'
<1> SUFFICES ASSUME EnvInv, [EnvironmentNext]_environmentVars PROVE EnvInv'
  OBVIOUS
<1>1. CASE UNCHANGED environmentVars
  <2>1. environ' = environ /\ cmd' = cmd
    BY <1>1 DEF environmentVars
  <2> QED  BY <2>1 DEF EnvInv
<1>2. ASSUME NEW a \in Values, AddArg(a) PROVE EnvInv'
  BY <1>2, AddArgInv
<1>3. ASSUME NEW key \in Keys, NEW value \in Values, Override(key, value) PROVE EnvInv'
  BY <1>3, OverrideInv
<1>4. ASSUME NEW key \in Keys, NEW value \in Values, set_var(key, value) PROVE EnvInv'
  BY <1>4, SetVarInv
<1> QED  BY <1>1, <1>2, <1>3, <1>4 DEF EnvironmentNext

\* The child's getenv gives the last override of a name or else what the
\* process has, its program is looked for under the directories of PATH that
\* are not empty, and its own args() gives every argument that is not empty.
THEOREM ChildTheorem == EnvironmentSpec => []ChildIsToldAll
<1>1. EnvironmentInit => EnvInv
  BY EnvInitInv
<1>2. EnvInv /\ [EnvironmentNext]_environmentVars => EnvInv'
  BY EnvNextInv
<1>3. EnvInv => ChildIsToldAll
  BY EnvInvTells
<1> QED  BY <1>1, <1>2, <1>3, PTL DEF EnvironmentSpec
=============================================================================
