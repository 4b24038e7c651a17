---------------------------- MODULE CommandProofs ----------------------------
(***************************************************************************)
(* Proofs about src/command.rs: Command, for any pipes, any reads, any     *)
(* program and any caller, and CommandFds, for any spawning threads and    *)
(* any size of the descriptor table.  The two share nothing.               *)
(***************************************************************************)
EXTENDS Command, CommandFds, FiniteSetTheorems, WellFoundedInduction, TLAPS

Procs == Programs \cup {"caller"}

Typed ==
  /\ child \in {"forked", "grouped", "running", "zombie", "reaped"}
  /\ grand \in {"none", "running", "dead"}
  /\ group \subseteq Programs
  /\ code \in Int
  /\ writing \in [Programs -> Streams \cup {"none"}]
  /\ holders \in [Streams -> SUBSET Procs]
  /\ written \in [Streams -> Nat]
  /\ got \in [Streams -> Nat]
  /\ done \in [Streams -> BOOLEAN]
  /\ failed \in BOOLEAN
  /\ ready \subseteq Streams
  /\ at = "take" => ready # {}
  /\ targets \subseteq Programs

\* A write that a program is in is to a stream it has open, and both the writers
\* and the members of the group are alive.
WritersHold == \A p \in Programs : writing[p] # "none" => Alive(p) /\ p \in holders[writing[p]]
GroupIsAlive == \A p \in group : Alive(p)

\* The field has what was collected, once.
StatusIsTheCode == status # None => child = "reaped" /\ status = code

\* What a kill has reached stays dead.
Killed == \A p \in targets : ~Alive(p) /\ (p = "grand" => grand = "dead")

IInv ==
  /\ Typed
  /\ WritersHold /\ GroupIsAlive /\ StatusIsTheCode /\ Killed
  /\ DoneIsComplete /\ AnswersAreTheCode

\* fork returns with both programs' sides untouched.
LEMMA InitIInv == Init => IInv
<1> SUFFICES ASSUME Init PROVE IInv
  OBVIOUS
<1>1. done \in [Streams -> BOOLEAN] /\ failed \in BOOLEAN /\ \A s \in Streams : ~done[s]
  BY Zenon DEF Init
<1>2. holders \in [Streams -> SUBSET Procs]
  BY DEF Init, Procs, Programs, Streams
<1> QED
  BY <1>1, <1>2, CommandAssumption
     DEF Init, IInv, Typed, WritersHold, GroupIsAlive, StatusIsTheCode, Killed, DoneIsComplete,
         AnswersAreTheCode, Programs, Streams, Alive

\* The kernel ends processes that are alive, and nothing of theirs is left: no
\* answer was given for them, and no stream gets more of what they wrote.
LEMMA EndKeeps ==
  ASSUME IInv, NEW dead, dead \subseteq Running, NEW exit \in Int, End(dead, exit),
         UNCHANGED <<written, fields, answers, failed, ready>>,
         at' = "take" => ready # {},
         targets' \subseteq Programs,
         \A p \in targets' : p \in targets \/ p \in dead
  PROVE  IInv'
<1> USE DEF IInv, Typed, Running, Programs, fields
<1>1. /\ child' = IF "child" \in dead THEN "zombie" ELSE child
      /\ code' = IF "child" \in dead THEN exit ELSE code
      /\ grand' = IF "grand" \in dead THEN "dead" ELSE grand
      /\ group' = group \ dead
      /\ writing' = [p \in Programs |-> IF p \in dead THEN "none" ELSE writing[p]]
      /\ holders' = [s \in Streams |-> holders[s] \ dead]
  BY DEF End
<1>2. \A p \in Programs : Alive(p)' <=> Alive(p) /\ p \notin dead
  BY <1>1 DEF Alive
<1>3. Typed'
  <2>1. writing' \in [Programs -> Streams \cup {"none"}]
    BY <1>1
  <2>2. holders' \in [Streams -> SUBSET Procs]
    BY <1>1
  <2> QED
    BY <1>1, <2>1, <2>2
<1>4. WritersHold'
  BY <1>1, <1>2 DEF WritersHold, Streams
<1>5. GroupIsAlive' /\ Killed'
  BY <1>1, <1>2 DEF GroupIsAlive, Killed, Alive
<1>6. (StatusIsTheCode /\ AnswersAreTheCode)'
  BY <1>1, CommandAssumption DEF StatusIsTheCode, AnswersAreTheCode, Alive
<1>7. DoneIsComplete'
  BY <1>1 DEF DoneIsComplete
<1> QED
  BY <1>3, <1>4, <1>5, <1>6, <1>7

\* The other side: what a program does, and what ends it.
LEMMA ProgramKeeps == ASSUME IInv, NEW p \in Programs, ProgramNext(p) PROVE IInv'
<1> USE DEF IInv, Typed, Programs, fields, processes, pipes, history
<1>1. CASE SetPgid
  BY <1>1 DEF SetPgid, WritersHold, GroupIsAlive, StatusIsTheCode, Killed, DoneIsComplete, AnswersAreTheCode, Alive
<1>2. CASE Exec
  <2>1. CASE child' = "running" /\ UNCHANGED <<grand, group, code, writing, holders>>
    BY <1>2, <2>1 DEF Exec, WritersHold, GroupIsAlive, StatusIsTheCode, Killed, DoneIsComplete,
                      AnswersAreTheCode, Alive
  <2>2. CASE End({"child"}, 127)
    <3>1. {"child"} \subseteq Running
      BY <1>2 DEF Exec, Running, Alive
    <3>2. UNCHANGED <<written, fields, at, ready, history>> /\ 127 \in Int
      BY <1>2 DEF Exec
    <3> QED
      BY <2>2, <3>1, <3>2, EndKeeps
  <2> QED
    BY <1>2, <2>1, <2>2 DEF Exec
<1>3. CASE StartGrand
  <2>1. /\ child = "running" /\ grand = "none" /\ grand' = "running"
        /\ group' = IF "child" \in group THEN group \cup {"grand"} ELSE group
        /\ UNCHANGED <<child, code, writing, written, fields, at, ready, history>>
    BY <1>3 DEF StartGrand, Free
  <2>2. /\ holders' \in [Streams -> SUBSET Procs]
        /\ \A s \in Streams : holders[s] \subseteq holders'[s] /\ (holders[s] = {} => holders'[s] = {})
    BY <1>3 DEF StartGrand, Procs
  <2> QED
    BY <2>1, <2>2 DEF WritersHold, GroupIsAlive, StatusIsTheCode, Killed, DoneIsComplete,
                      AnswersAreTheCode, Alive
<1>4. ASSUME NEW s \in Streams, BeginWrite(p, s) PROVE IInv'
  <2>1. /\ p \in holders[s] /\ writing' = [writing EXCEPT ![p] = s] /\ Alive(p)
        /\ UNCHANGED <<child, grand, group, code, pipes, fields, at, ready, history>>
    BY <1>4 DEF BeginWrite, Free, Alive
  <2> QED
    BY <2>1 DEF WritersHold, GroupIsAlive, StatusIsTheCode, Killed, DoneIsComplete, AnswersAreTheCode,
                Alive, Streams
<1>5. ASSUME NEW s \in Streams, Write(p, s) PROVE IInv'
  <2>1. writing[p] = s /\ Alive(p) /\ p \in holders[s]
    BY <1>5 DEF Write, WritersHold, Streams
  <2>2. CASE at = "gone"
    <3>1. {p} \subseteq Running /\ SIGPIPE \in Int
      BY <2>1 DEF Running, SIGPIPE
    <3>2. End({p}, SIGPIPE) /\ UNCHANGED <<written, fields, at, ready, history>>
      BY <1>5, <2>2 DEF Write
    <3> QED
      BY <3>1, <3>2, EndKeeps
  <2>3. CASE at # "gone"
    <3>1. /\ written' = [written EXCEPT ![s] = @ + 1] /\ writing' = [writing EXCEPT ![p] = "none"]
          /\ UNCHANGED <<child, grand, group, code, holders, fields, at, ready, history>>
      BY <1>5, <2>3 DEF Write
    <3> QED
      BY <2>1, <3>1 DEF WritersHold, GroupIsAlive, StatusIsTheCode, Killed, DoneIsComplete, AnswersAreTheCode,
                        Alive
  <2> QED
    BY <2>2, <2>3
<1>6. ASSUME NEW s \in Streams, CloseStream(p, s) PROVE IInv'
  <2>1. /\ writing[p] = "none" /\ holders' = [holders EXCEPT ![s] = @ \ {p}]
        /\ UNCHANGED <<processes, written, fields, at, ready, history>>
    BY <1>6 DEF CloseStream, Free
  <2>2. /\ holders' \in [Streams -> SUBSET Procs]
        /\ \A r \in Streams : holders'[r] \subseteq holders[r] /\ \A q \in holders[r] : q # p => q \in holders'[r]
    BY <2>1
  <2> QED
    BY <2>1, <2>2 DEF WritersHold, GroupIsAlive, StatusIsTheCode, Killed, DoneIsComplete, AnswersAreTheCode,
                      Alive
<1>7. CASE Exit(p)
  <2>1. PICK exit \in {0, 1} : End({p}, exit)
    BY <1>7 DEF Exit
  <2>2. {p} \subseteq Running /\ exit \in Int
    BY <1>7 DEF Exit, Free, Running, Alive
  <2> QED
    BY <1>7, <2>1, <2>2, EndKeeps DEF Exit
<1> QED
  BY <1>1, <1>2, <1>3, <1>4, <1>5, <1>6, <1>7 DEF ProgramNext

\* What the caller does to its own side leaves the programs alone.
LEMMA CallerKeeps == ASSUME IInv, CallerNext \/ PollFails \/ TakeFails PROVE IInv'
<1> USE DEF IInv, Typed, fields, processes, pipes, history
<1>t. Taking \in Streams /\ (at = "take" => Taking \in ready)
  BY DEF Taking, Streams
<1>n. ASSUME NEW left, left \subseteq Streams, NextTake(left)
      PROVE  ready' \subseteq Streams /\ (at' = "take" => ready' # {})
  BY <1>n DEF NextTake
<1>1. CASE CloseWriteEnds
  <2>1. /\ at' = "idle" /\ UNCHANGED <<processes, written, fields, ready, history>>
        /\ holders' \in [Streams -> SUBSET Procs]
        /\ \A r \in Streams : holders'[r] = holders[r] \ {"caller"}
    BY <1>1 DEF CloseWriteEnds
  <2> QED
    BY <2>1 DEF WritersHold, GroupIsAlive, StatusIsTheCode, Killed, DoneIsComplete, AnswersAreTheCode,
                Alive, Programs
<1>2. CASE Poll
  BY <1>2 DEF Poll, Watched, WritersHold, GroupIsAlive, StatusIsTheCode, Killed, DoneIsComplete,
              AnswersAreTheCode, Alive
<1>3. CASE PollFails
  <2>1. /\ done' \in [Streams -> BOOLEAN] /\ failed' = TRUE
        /\ UNCHANGED <<processes, pipes, got, status, at, ready, answers, targets>>
    BY <1>3, Zenon DEF PollFails
  <2> QED
    BY <2>1 DEF WritersHold, GroupIsAlive, StatusIsTheCode, Killed, DoneIsComplete, AnswersAreTheCode, Alive
<1>4. CASE TakeBytes
  <2>1. PICK n \in Nat : n = Smaller(Chunk, written[Taking] - got[Taking]) /\ n <= written[Taking] - got[Taking]
    BY <1>4, <1>t, CommandAssumption DEF TakeBytes, Smaller
  <2>2. /\ got' = [got EXCEPT ![Taking] = @ + n] /\ written[Taking] # got[Taking]
        /\ UNCHANGED <<processes, pipes, done, status, at, ready, history>>
    BY <1>4, <1>t, <2>1 DEF TakeBytes
  <2> QED
    BY <1>t, <2>1, <2>2 DEF WritersHold, GroupIsAlive, StatusIsTheCode, Killed, DoneIsComplete,
                            AnswersAreTheCode, Alive
<1>5. CASE TakeNothing
  <2>1. /\ UNCHANGED <<processes, pipes, got, status, history>> /\ written[Taking] = got[Taking]
        /\ ready' \subseteq Streams /\ (at' = "take" => ready' # {})
    BY <1>5, <1>n, <1>t DEF TakeNothing
  <2>2. PICK b \in BOOLEAN : b <=> holders[Taking] = {}
    OBVIOUS
  <2>3. done' = [done EXCEPT ![Taking] = b]
    BY <1>5, <2>2 DEF TakeNothing
  <2>4. /\ done' \in [Streams -> BOOLEAN]
        /\ \A s \in Streams : done'[s] = IF s = Taking THEN b ELSE done[s]
    BY <1>t, <2>3
  <2> QED
    BY <1>t, <2>1, <2>2, <2>4 DEF WritersHold, GroupIsAlive, StatusIsTheCode, Killed, DoneIsComplete,
                                  AnswersAreTheCode, Alive
<1>6. CASE TakeFails
  <2>1. /\ UNCHANGED <<processes, pipes, got, status, answers, targets>> /\ failed' = TRUE
        /\ ready' \subseteq Streams /\ (at' = "take" => ready' # {})
    BY <1>6, <1>n, <1>t DEF TakeFails
  <2>2. done' \in [Streams -> BOOLEAN]
    BY <1>6, <1>t DEF TakeFails
  <2> QED
    BY <2>1, <2>2 DEF WritersHold, GroupIsAlive, StatusIsTheCode, Killed, DoneIsComplete, AnswersAreTheCode,
                      Alive
<1>7. CASE Reap
  <2>1. /\ status = None /\ child = "zombie" /\ child' = "reaped" /\ status' = code /\ code' = code
        /\ answers' = answers \cup {code}
        /\ UNCHANGED <<caller, grand, group, writing, pipes, got, done, at, ready, failed, targets>>
    BY <1>7 DEF Reap
  <2> QED
    BY <2>1 DEF WritersHold, GroupIsAlive, StatusIsTheCode, Killed, DoneIsComplete, AnswersAreTheCode,
                Alive, Programs
<1>8. CASE Recall
  <2>1. status # None /\ answers' = answers \cup {status}
        /\ UNCHANGED <<processes, pipes, fields, at, ready, failed, targets>>
    BY <1>8 DEF Recall
  <2> QED
    BY <2>1 DEF WritersHold, GroupIsAlive, StatusIsTheCode, Killed, DoneIsComplete, AnswersAreTheCode, Alive
<1>9. ASSUME NEW sig \in {"TERM", "KILL"}, SignalGroup(sig) PROVE IInv'
  <2>1. PICK dead \in DieOf(sig, group) : End(dead, ExitOf(sig))
    BY <1>9 DEF SignalGroup
  <2>2. dead \subseteq group /\ (sig = "KILL" => dead = group)
    BY DEF DieOf
  <2>3. dead \subseteq Running
    BY <2>2 DEF GroupIsAlive, Running
  <2>4. targets' \subseteq Programs /\ \A p \in targets' : p \in dead
    BY <1>9, <2>2 DEF SignalGroup
  <2>5. ExitOf(sig) \in Int /\ at' # "take" /\ UNCHANGED <<written, fields, ready, answers, failed>>
    BY <1>9 DEF ExitOf, SignalGroup
  <2> QED
    BY <2>1, <2>3, <2>4, <2>5, EndKeeps
<1>10. ASSUME NEW sig \in {"TERM", "KILL"}, SignalChild(sig) PROVE IInv'
  <2>1. PICK dead \in DieOf(sig, {"child"} \cap Running) : End(dead, ExitOf(sig))
    BY <1>10 DEF SignalChild
  <2>2. dead \subseteq Running
    BY DEF DieOf
  <2>3. ExitOf(sig) \in Int /\ at' # "take" /\ UNCHANGED <<written, fields, ready, history>>
    BY <1>10 DEF ExitOf, SignalChild
  <2> QED
    BY <2>1, <2>2, <2>3, EndKeeps
<1>11. CASE into_output
  BY <1>11 DEF into_output, WritersHold, GroupIsAlive, StatusIsTheCode, Killed, DoneIsComplete,
               AnswersAreTheCode, Alive
<1> QED
  BY <1>1, <1>2, <1>3, <1>4, <1>5, <1>6, <1>7, <1>8, <1>9, <1>10, <1>11 DEF CallerNext

\* Every step keeps it.
LEMMA NextIInv == IInv /\ [Next]_vars => IInv'
<1> SUFFICES ASSUME IInv, [Next]_vars PROVE IInv'
  OBVIOUS
<1>1. CASE UNCHANGED vars
  BY <1>1 DEF vars, IInv, Typed, WritersHold, GroupIsAlive, StatusIsTheCode, Killed, DoneIsComplete,
              AnswersAreTheCode, Alive
<1> QED
  BY <1>1, ProgramKeeps, CallerKeeps DEF Next, Finished

\* It holds throughout.
LEMMA IInvHolds == Safety => []IInv
BY InitIInv, NextIInv, PTL DEF Safety

-----------------------------------------------------------------------------
\* Pipe::take_ready: a stream is done only when nobody has its write end and all
\* that was written to it was collected, so what Command::output returns is
\* complete, for any sizes and any program, unless poll or read fails for good.
THEOREM CompleteTheorem == Safety => []DoneIsComplete
<1>1. IInv => DoneIsComplete
  BY DEF IInv
<1> QED
  BY <1>1, IInvHolds, PTL

\* Child::collect: every answer of try_wait and wait is the exit code of the
\* child, whichever call collected it, and none is given before it has exited.
THEOREM AnswersTheorem == Safety => []AnswersAreTheCode
<1>1. IInv => AnswersAreTheCode
  BY DEF IInv
<1> QED
  BY <1>1, IInvHolds, PTL

\* Child::kill: once both signals are sent nothing that was in the group at the
\* call is alive, nor comes back to life.
THEOREM KillTheorem == Safety => []KillReachesTheGroup
<1>1. IInv => KillReachesTheGroup
  BY DEF IInv, Killed, KillReachesTheGroup, Running
<1> QED
  BY <1>1, IInvHolds, PTL

-----------------------------------------------------------------------------
(***************************************************************************)
(* CommandFds: tables of descriptors                                       *)
(***************************************************************************)
What == {Std, Null, File} \cup PipeEnds
Entries == [what : What, cloexec : BOOLEAN]
Tables == [Fds -> Entries \cup {Closed}]

\* What an entry says of itself, and that it is not the closed one.
LEMMA EntriesTell ==
  /\ \A x \in What, b \in BOOLEAN : Entry(x, b) \in Entries
  /\ \A x, b : Entry(x, b).what = x /\ Entry(x, b).cloexec = b
  /\ \A e \in Entries : e # Closed /\ e.what \in What /\ e.cloexec \in BOOLEAN
  /\ Null \in What
<1>1. Closed \notin Entries
  BY CommandFdsAssumption DEF Entries, What
<1> QED  BY <1>1 DEF Entry, Entries, What

\* A descriptor number is found when one is free, and it is a lowest one.
LEMMA LowestIsLeast ==
  ASSUME NEW S, S \subseteq Nat, S # {}
  PROVE  Lowest(S) \in S /\ \A g \in S : Lowest(S) <= g
<1> DEFINE R == {ss \in Nat \X Nat : ss[1] < ss[2]}
<1>1. IsWellFoundedOn(R, Nat)
  BY NatLessThanWellFounded DEF OpToRel
<1>2. PICK x \in S : \A y \in S : <<y, x>> \notin R
  <2> HIDE DEF R
  <2> QED  BY <1>1, WFMin
<1>3. ASSUME NEW g \in S PROVE x <= g
  <2>1. ~(<<g, x>>[1] < <<g, x>>[2])
    BY <1>2
  <2> QED  BY <2>1
<1> QED  BY <1>3 DEF Lowest

\* There are finitely many descriptor numbers.
LEMMA FreeFdsAreFinite ==
  ASSUME NEW t, NEW from
  PROVE  IsFiniteSet(FreeFds(t, from)) /\ FreeFds(t, from) \subseteq Fds
<1>1. IsFiniteSet(Fds)
  BY FS_Interval, CommandFdsAssumption DEF Fds
<1> QED  BY <1>1, FS_Subset DEF FreeFds

\* What the kernel gives out is free, and the first such number.
LEMMA LowestIsFree ==
  ASSUME NEW t, NEW from \in Nat, FreeFds(t, from) # {}
  PROVE  /\ Lowest(FreeFds(t, from)) \in Fds
         /\ Lowest(FreeFds(t, from)) >= from
         /\ t[Lowest(FreeFds(t, from))] = Closed
         /\ \A g \in FreeFds(t, from) : Lowest(FreeFds(t, from)) <= g
<1>1. FreeFds(t, from) \subseteq Nat
  BY CommandFdsAssumption DEF FreeFds, Fds
<1>2. Lowest(FreeFds(t, from)) \in FreeFds(t, from) /\ \A g \in FreeFds(t, from) : Lowest(FreeFds(t, from)) <= g
  BY <1>1, LowestIsLeast
<1> QED  BY <1>2 DEF FreeFds

\* A table with several free numbers has one left when a few are taken.
LEMMA OneLess ==
  ASSUME NEW S, IsFiniteSet(S), NEW a
  PROVE  IsFiniteSet(S \ {a}) /\ Cardinality(S \ {a}) >= Cardinality(S) - 1
<1>1. Cardinality(S) \in Nat
  BY FS_CardinalityType
<1>2. /\ IsFiniteSet(S \ {a})
      /\ Cardinality(S \ {a}) = IF a \in S THEN Cardinality(S) - 1 ELSE Cardinality(S)
  BY FS_RemoveElement
<1> QED  BY <1>1, <1>2

\* With one or two of them taken some are left.
LEMMA SomeAreLeft ==
  ASSUME NEW S, IsFiniteSet(S), NEW a, NEW b
  PROVE  /\ Cardinality(S) >= 2 => S # {} /\ S \ {a} # {}
         /\ Cardinality(S) >= 3 => (S \ {a}) \ {b} # {}
<1>1. Cardinality(S) \in Nat
  BY FS_CardinalityType
<1>2. IsFiniteSet(S \ {a}) /\ Cardinality(S \ {a}) >= Cardinality(S) - 1
  BY OneLess
<1>3. Cardinality((S \ {a}) \ {b}) >= Cardinality(S \ {a}) - 1
  BY <1>2, OneLess
<1>4. Cardinality(S \ {a}) \in Nat
  BY <1>2, FS_CardinalityType
<1>5. S \ {a} = {} => Cardinality(S \ {a}) = 0
  BY FS_EmptySet
<1>6. (S \ {a}) \ {b} = {} => Cardinality((S \ {a}) \ {b}) = 0
  BY FS_EmptySet
<1>7. Cardinality(S) >= 2 => S \ {a} # {}
  BY <1>1, <1>2, <1>4, <1>5
<1>8. Cardinality(S) >= 3 => (S \ {a}) \ {b} # {}
  BY <1>1, <1>2, <1>3, <1>4, <1>6
<1> QED  BY <1>1, <1>7, <1>8

\* pipe finds two different free numbers.
LEMMA TwoAreFree ==
  ASSUME NEW t, Cardinality(FreeFds(t, 0)) >= 2
  PROVE  LET r == Lowest(FreeFds(t, 0))
             w == Lowest(FreeFds(t, r + 1))
         IN  r \in Fds /\ w \in Fds /\ r # w /\ t[r] = Closed /\ t[w] = Closed
<1> DEFINE S == FreeFds(t, 0) r == Lowest(S) w == Lowest(FreeFds(t, r + 1))
<1>1. IsFiniteSet(S) /\ S \subseteq Fds
  BY FreeFdsAreFinite
<1>2. S # {} /\ S \ {r} # {}
  <2> HIDE DEF S, r
  <2> QED  BY <1>1, SomeAreLeft DEF S
<1>4. r \in Fds /\ t[r] = Closed /\ \A g \in S : r <= g
  BY <1>2, LowestIsFree
<1>5. PICK g \in S : g # r
  BY <1>2
<1>6. g \in FreeFds(t, r + 1) /\ r + 1 \in Nat
  BY <1>1, <1>4, <1>5, CommandFdsAssumption DEF FreeFds, Fds
<1>7. w \in Fds /\ w >= r + 1 /\ t[w] = Closed
  BY <1>6, LowestIsFree
<1>8. r # w
  BY <1>4, <1>7, CommandFdsAssumption DEF Fds
<1> QED  BY <1>4, <1>7, <1>8

-----------------------------------------------------------------------------
(***************************************************************************)
(* The child between fork and execve                                       *)
(***************************************************************************)
\* above_stdio: the copy is of the same end, above 2, and touches nothing else.
LEMMA AboveStdio ==
  ASSUME NEW t \in Tables, NEW f \in Fds, t[f] # Closed, FreeFds(t, 3) # {}
  PROVE  LET r == above_stdio(t, f)
         IN  /\ r.table \in Tables /\ r.fd \in Fds /\ r.fd > 2
             /\ r.table[r.fd] # Closed /\ r.table[r.fd].what = t[f].what
             /\ \A g \in Fds \ {r.fd} : r.table[g] = t[g]
             /\ \/ r.fd = f /\ r.table = t
                \/ t[r.fd] = Closed /\ r.table[r.fd].cloexec
             /\ FreeFds(t, 3) \ {r.fd} \subseteq FreeFds(r.table, 3)
<1>1. CASE f > 2
  BY <1>1 DEF above_stdio, Tables
<1>2. CASE ~(f > 2)
  <2> DEFINE g == Lowest(FreeFds(t, 3)) n == [t EXCEPT ![g] = Entry(t[f].what, TRUE)]
  <2>1. g \in Fds /\ g >= 3 /\ t[g] = Closed
    BY LowestIsFree
  <2>2. Entry(t[f].what, TRUE) \in Entries /\ Entry(t[f].what, TRUE) # Closed
    BY EntriesTell DEF Tables
  <2> HIDE DEF g
  <2>3. n \in Tables /\ n[g] = Entry(t[f].what, TRUE) /\ \A h \in Fds \ {g} : n[h] = t[h]
    BY <2>1, <2>2 DEF Tables
  <2>4. above_stdio(t, f) = [table |-> n, fd |-> g]
    BY <1>2 DEF above_stdio, g
  <2> HIDE DEF n
  <2>5. n[g] # Closed /\ n[g].what = t[f].what /\ n[g].cloexec
    BY <2>2, <2>3 DEF Entry
  <2>7. g > 2
    BY <2>1, CommandFdsAssumption DEF Fds
  <2>6. FreeFds(t, 3) \ {g} \subseteq FreeFds(n, 3)
    BY <2>3 DEF FreeFds
  <2>8. above_stdio(t, f).table = n /\ above_stdio(t, f).fd = g
    BY <2>4
  <2> QED  BY <2>1, <2>3, <2>5, <2>6, <2>7, <2>8
<1>3. f \in Int
  BY CommandFdsAssumption DEF Fds
<1> QED  BY <1>1, <1>2

\* A program with the two ends on 1 and 2, nothing to read on 0, and of the
\* rest only what was not close-on-exec.
Prepared(c, t, ow, ew) ==
  /\ c[1] = Entry(t[ow].what, FALSE)
  /\ c[2] = Entry(t[ew].what, FALSE)
  /\ c[0] \in {Closed, Entry(Null, FALSE)}
  /\ \A f \in Fds \ {0, 1, 2} : c[f] # Closed => c[f] = t[f] /\ ~t[f].cloexec

\* The shuffle prepares the program so, whichever of 0, 1 and 2 were closed.
LEMMA ChildSetupTable ==
  ASSUME NEW t \in Tables, NEW ow \in Fds, NEW ew \in Fds, ow # ew,
         t[ow] # Closed, t[ew] # Closed, Cardinality(FreeFds(t, 3)) >= 3
  PROVE  Prepared(ChildSetup(t, ow, ew), t, ow, ew)
<1> DEFINE o == above_stdio(t, ow)
           e == above_stdio(o.table, ew)
           null == Lowest(FreeFds(e.table, 0))
           opened == [e.table EXCEPT ![null] = Entry(Null, FALSE)]
           copied == dup2(opened, null, 0)
           stdin == close(copied, null)
           out == dup2(stdin, o.fd, 1)
           err == dup2(out, e.fd, 2)
<1>a. {0, 1, 2} \subseteq Fds /\ Fds \subseteq Int
  BY CommandFdsAssumption DEF Fds
<1>1. Cardinality(FreeFds(t, 3)) >= 2
  BY FS_CardinalityType, FreeFdsAreFinite
<1>2. FreeFds(t, 3) # {} /\ FreeFds(t, 3) \ {o.fd} # {}
  BY <1>1, FreeFdsAreFinite, SomeAreLeft
<1>4. (FreeFds(t, 3) \ {o.fd}) \ {e.fd} # {}
  <2> HIDE DEF o, e
  <2> QED  BY FreeFdsAreFinite, SomeAreLeft
<1>5. /\ o.table \in Tables /\ o.fd \in Fds /\ o.fd > 2
      /\ o.table[o.fd] # Closed /\ o.table[o.fd].what = t[ow].what
      /\ \A g \in Fds \ {o.fd} : o.table[g] = t[g]
      /\ (o.fd = ow /\ o.table = t) \/ (t[o.fd] = Closed /\ o.table[o.fd].cloexec)
      /\ FreeFds(t, 3) \ {o.fd} \subseteq FreeFds(o.table, 3)
  BY <1>2, AboveStdio
<1>6. o.table[ew] = t[ew] /\ o.fd # ew /\ FreeFds(o.table, 3) # {}
  BY <1>2, <1>5
<1> HIDE DEF o
<1>7. /\ e.table \in Tables /\ e.fd \in Fds /\ e.fd > 2
      /\ e.table[e.fd] # Closed /\ e.table[e.fd].what = o.table[ew].what
      /\ \A g \in Fds \ {e.fd} : e.table[g] = o.table[g]
      /\ (e.fd = ew /\ e.table = o.table) \/ (o.table[e.fd] = Closed /\ e.table[e.fd].cloexec)
      /\ FreeFds(o.table, 3) \ {e.fd} \subseteq FreeFds(e.table, 3)
  BY <1>5, <1>6, AboveStdio
<1>8. e.fd # o.fd /\ e.table[o.fd] = o.table[o.fd]
  BY <1>5, <1>6, <1>7
<1>9. FreeFds(e.table, 0) # {}
  <2>1. PICK g : g \in FreeFds(e.table, 3)
    BY <1>4, <1>5, <1>7
  <2> QED  BY <2>1, <1>a DEF FreeFds
<1> HIDE DEF e
<1>10. null \in Fds /\ e.table[null] = Closed /\ null # o.fd /\ null # e.fd
  BY <1>5, <1>7, <1>8, <1>9, LowestIsFree
<1> HIDE DEF null
<1>11. /\ Entry(Null, FALSE) \in Entries /\ Entry(Null, FALSE) # Closed
       /\ Entry(Null, FALSE).what = Null
  BY EntriesTell
<1>12. opened \in Tables /\ opened[null] = Entry(Null, FALSE) /\ \A g \in Fds \ {null} : opened[g] = e.table[g]
  BY <1>7, <1>10, <1>11 DEF Tables
<1> HIDE DEF opened
<1>13. /\ copied \in Tables
       /\ copied[0] = Entry(Null, FALSE)
       /\ \A g \in Fds \ {0} : copied[g] = opened[g]
  <2>1. CASE null = 0
    BY <2>1, <1>12 DEF dup2
  <2>2. CASE null # 0
    <3>1. copied = [opened EXCEPT ![0] = Entry(Null, FALSE)]
      BY <2>2, <1>11, <1>12 DEF dup2
    <3> HIDE DEF copied
    <3> QED  BY <3>1, <1>a, <1>11, <1>12 DEF Tables
  <2> QED  BY <2>1, <2>2
<1> HIDE DEF copied
<1>14. /\ stdin \in Tables /\ stdin[null] = Closed
       /\ \A g \in Fds \ {null} : stdin[g] = copied[g]
  BY <1>10, <1>13 DEF close, Tables
<1> HIDE DEF stdin
<1>15. /\ stdin[0] \in {Closed, Entry(Null, FALSE)}
       /\ stdin[o.fd] = o.table[o.fd] /\ stdin[e.fd] = e.table[e.fd]
       /\ \A g \in Fds \ {0} : stdin[g] # Closed => stdin[g] = e.table[g]
  <2>1. stdin[0] \in {Closed, Entry(Null, FALSE)}
    BY <1>a, <1>13, <1>14
  <2>2. ASSUME NEW g \in Fds \ {0, null}
        PROVE  stdin[g] = e.table[g]
    BY <2>2, <1>12, <1>13, <1>14
  <2>3. o.fd \in Fds \ {0, null} /\ e.fd \in Fds \ {0, null}
    BY <1>5, <1>7, <1>10
  <2> QED  BY <2>1, <2>2, <2>3, <1>8, <1>14
<1>b. o.fd \notin {0, 1, 2} /\ e.fd \notin {0, 1, 2}
  BY <1>a, <1>5, <1>7
<1>16. /\ out \in [Fds -> Entries \cup {Closed, Entry(t[ow].what, FALSE)}]
       /\ out[1] = Entry(t[ow].what, FALSE) /\ \A g \in Fds \ {1} : out[g] = stdin[g]
  <2>1. out = [stdin EXCEPT ![1] = Entry(t[ow].what, FALSE)]
    BY <1>b, <1>5, <1>15 DEF dup2
  <2> HIDE DEF out
  <2> QED  BY <2>1, <1>a, <1>14 DEF Tables
<1> HIDE DEF out
<1>17. /\ err[2] = Entry(t[ew].what, FALSE) /\ \A g \in Fds \ {2} : err[g] = out[g]
  <2>1. out[e.fd] = e.table[e.fd]
    BY <1>b, <1>7, <1>15, <1>16
  <2>2. err = [out EXCEPT ![2] = Entry(t[ew].what, FALSE)]
    BY <2>1, <1>b, <1>6, <1>7 DEF dup2
  <2> HIDE DEF err
  <2> QED  BY <2>2, <1>a, <1>16
<1> HIDE DEF err
<1>18. ChildSetup(t, ow, ew) = exec(err)
  BY DEF ChildSetup, o, e, null, opened, copied, stdin, out, err
<1>19. \A f \in Fds : exec(err)[f] = IF err[f] # Closed /\ err[f].cloexec THEN Closed ELSE err[f]
  BY DEF exec
<1>20. exec(err)[1] = Entry(t[ow].what, FALSE) /\ exec(err)[2] = Entry(t[ew].what, FALSE)
  <2>0. 1 \in Fds \ {2} /\ 2 \in Fds /\ 1 \in Fds
    BY <1>a
  <2>1. err[1] = Entry(t[ow].what, FALSE) /\ err[2] = Entry(t[ew].what, FALSE)
    BY <2>0, <1>16, <1>17
  <2> QED  BY <2>0, <2>1, <1>19 DEF Entry
<1>21. exec(err)[0] \in {Closed, Entry(Null, FALSE)}
  <2>1. err[0] \in {Closed, Entry(Null, FALSE)}
    <3>1. 0 \in Fds \ {2} /\ 0 \in Fds \ {1}
      BY <1>a
    <3> QED  BY <3>1, <1>15, <1>16, <1>17
  <2> QED  BY <2>1, <1>a, <1>19
<1>22. ASSUME NEW f \in Fds \ {0, 1, 2}, exec(err)[f] # Closed
       PROVE  exec(err)[f] = t[f] /\ ~t[f].cloexec
  <2>1. err[f] = stdin[f] /\ err[f] # Closed /\ ~err[f].cloexec /\ exec(err)[f] = err[f]
    BY <1>16, <1>17, <1>19, <1>22
  <2>2. stdin[f] = e.table[f]
    BY <1>15, <2>1
  <2>3. e.table[f] = o.table[f]
    BY <1>7, <2>1, <2>2
  <2>4. o.table[f] = t[f]
    BY <1>5, <2>1, <2>2, <2>3
  <2> QED  BY <2>1, <2>2, <2>3, <2>4
<1> QED  BY <1>18, <1>20, <1>21, <1>22 DEF Prepared


-----------------------------------------------------------------------------
(***************************************************************************)
(* The invariant: what the fields say at each step of a spawn, and that    *)
(* table and fields agree.                                                 *)
(***************************************************************************)
Steps == {"new", "read", "write", "fork", "close", "child", "drop"} \X (Outputs \cup {"both"})

FdsTyped ==
  /\ pipe2 \in BOOLEAN
  /\ table \in Tables
  /\ step \in [Spawners -> Steps]
  /\ fd \in [Spawners -> [Outputs -> [Ends -> Fds \cup {-1}]]]
  /\ program = [s \in Spawners |-> program[s]]
  /\ file \in Fds \cup {-1, Unopened}

Made(s, o) == \A e \in Ends : fd[s][o][e] \in Fds
Unmade(s, o) == \A e \in Ends : fd[s][o][e] = -1

\* A pipe that is still to be made has no fields, one that is used has both.
Stages(s) ==
  /\ step[s] = <<"new", "out">> => Unmade(s, "out")
  /\ step[s] \in {<<"new", "out">>, <<"read", "out">>, <<"write", "out">>, <<"new", "err">>}
       => Unmade(s, "err")
  /\ step[s] \in {<<"read", "out">>, <<"write", "out">>, <<"new", "err">>, <<"read", "err">>,
                  <<"write", "err">>, <<"fork", "both">>, <<"close", "out">>} => Made(s, "out")
  /\ step[s] \in {<<"read", "err">>, <<"write", "err">>, <<"fork", "both">>, <<"close", "out">>,
                  <<"close", "err">>} => Made(s, "err")

\* Where pipe2 exists no fork finds an end that exec would keep.
EndsAreCloexec ==
  pipe2 => \A f \in Fds : table[f] # Closed /\ table[f].what \in PipeEnds => table[f].cloexec

\* The drop of the File closes no pipe end.
FileIsItsOwn == file \in Fds => table[file] = Entry(File, FALSE)

TableInv ==
  /\ table \in Tables
  /\ fd \in [Spawners -> [Outputs -> [Ends -> Fds \cup {-1}]]]
  /\ EndsAreCloexec /\ FileIsItsOwn /\ FieldsNameTheirOwn /\ NothingIsLeft

FdsInv == FdsTyped /\ TableInv /\ \A s \in Spawners : Stages(s)

\* -1 and the file that was not opened yet are no descriptors.
LEMMA FdsAreNat == Fds \subseteq Nat /\ -1 \notin Fds /\ Unopened \notin Fds /\ {0, 1, 2} \subseteq Fds
BY CommandFdsAssumption DEF Fds, Unopened

\* The fields, without their test for -1.
LEMMA Fields ==
  /\ FdsTyped => \A s \in Spawners, o \in Outputs, e \in Ends :
       fd[s][o][e] \in Fds \/ (fd[s][o][e] = -1 /\ ~(fd[s][o][e] >= 0))
  /\ FieldsNameTheirOwn => \A s \in Spawners, o \in Outputs, e \in Ends :
       fd[s][o][e] \in Fds => table[fd[s][o][e]] # Closed /\ table[fd[s][o][e]].what = <<s, o, e>>
<1>1. \A x \in Fds \cup {-1} : x \in Fds \/ (x = -1 /\ ~(x >= 0))
  BY FdsAreNat
<1>2. \A x \in Fds : x >= 0
  BY FdsAreNat
<1>3. FdsTyped => \A s \in Spawners, o \in Outputs, e \in Ends : fd[s][o][e] \in Fds \cup {-1}
  BY DEF FdsTyped
<1> QED  BY <1>1, <1>2, <1>3 DEF FieldsNameTheirOwn

\* An end is closed and its field forgotten: close_write and the drop of Pipe.
LEMMA CloseEnd ==
  ASSUME FdsTyped, TableInv, NEW s \in Spawners, NEW o \in Outputs, NEW e \in Ends,
         fd[s][o][e] \in Fds,
         table' = close(table, fd[s][o][e]),
         fd' = [fd EXCEPT ![s][o][e] = -1],
         UNCHANGED <<pipe2, file>>
  PROVE  TableInv'
<1> DEFINE f0 == fd[s][o][e]
<1>1. f0 \in Fds /\ table[f0] # Closed /\ table[f0].what = <<s, o, e>>
  BY Fields DEF TableInv
<1>2. /\ table' \in Tables /\ table'[f0] = Closed
      /\ \A f \in Fds \ {f0} : table'[f] = table[f]
  <2> HIDE DEF f0
  <2>1. table' = [table EXCEPT ![f0] = Closed]
    BY DEF close, f0
  <2> QED  BY <2>1, <1>1 DEF FdsTyped, Tables
<1>3. /\ fd' \in [Spawners -> [Outputs -> [Ends -> Fds \cup {-1}]]]
      /\ \A t \in Spawners, p \in Outputs, d \in Ends :
           fd'[t][p][d] = IF <<t, p, d>> = <<s, o, e>> THEN -1 ELSE fd[t][p][d]
  BY DEF FdsTyped
<1> HIDE DEF f0
<1>4. EndsAreCloexec'
  BY <1>1, <1>2 DEF TableInv, EndsAreCloexec
<1>5. FileIsItsOwn'
  <2>1. file \in Fds => table[file].what = File
    BY EntriesTell DEF TableInv, FileIsItsOwn
  <2>2. file # f0
    BY <1>1, <2>1, CommandFdsAssumption DEF PipeEnds
  <2> QED  BY <2>2, <1>2 DEF TableInv, FileIsItsOwn
<1>6. FieldsNameTheirOwn'
  <2> SUFFICES ASSUME NEW t \in Spawners, NEW p \in Outputs, NEW d \in Ends, fd'[t][p][d] >= 0
               PROVE  table'[fd'[t][p][d]] # Closed /\ table'[fd'[t][p][d]].what = <<t, p, d>>
    BY DEF FieldsNameTheirOwn
  <2>1. <<t, p, d>> # <<s, o, e>> /\ fd'[t][p][d] = fd[t][p][d]
    BY <1>3
  <2>2. fd[t][p][d] \in Fds /\ table[fd[t][p][d]] # Closed /\ table[fd[t][p][d]].what = <<t, p, d>>
    BY <2>1, Fields DEF TableInv
  <2>3. fd[t][p][d] # f0
    BY <2>1, <2>2, <1>1
  <2> QED  BY <2>1, <2>2, <2>3, <1>2
<1>7. NothingIsLeft'
  <2> SUFFICES ASSUME NEW f \in Fds, table'[f] # Closed, table'[f].what \in PipeEnds
               PROVE  \E t \in Spawners, p \in Outputs, d \in Ends :
                        fd'[t][p][d] = f /\ table'[f].what = <<t, p, d>>
    BY DEF NothingIsLeft
  <2>1. f # f0 /\ table'[f] = table[f]
    BY <1>2
  <2>2. PICK t \in Spawners, p \in Outputs, d \in Ends :
          fd[t][p][d] = f /\ table[f].what = <<t, p, d>>
    BY <2>1 DEF TableInv, NothingIsLeft
  <2>3. <<t, p, d>> # <<s, o, e>>
    BY <2>1, <2>2 DEF f0
  <2> QED  BY <2>1, <2>2, <2>3, <1>3
<1> QED  BY <1>2, <1>3, <1>4, <1>5, <1>6, <1>7 DEF TableInv

\* Pipe::new fills two free entries and the two fields that name them.
LEMMA NewPipeTable ==
  ASSUME FdsTyped, TableInv, NEW s \in Spawners, NEW o \in Outputs, NewPipe(s, o), Unmade(s, o)
  PROVE  /\ TableInv'
         /\ \A e \in Ends : fd'[s][o][e] \in Fds
         /\ \A p \in Outputs \ {o} : fd'[s][p] = fd[s][p]
         /\ \A t \in Spawners \ {s} : fd'[t] = fd[t]
<1> DEFINE r == Lowest(FreeFds(table, 0))
           w == Lowest(FreeFds(table, r + 1))
<1>1. r \in Fds /\ w \in Fds /\ r # w /\ table[r] = Closed /\ table[w] = Closed
  BY TwoAreFree DEF NewPipe
<1>2. /\ table' = [table EXCEPT ![r] = Entry(<<s, o, "read">>, pipe2),
                               ![w] = Entry(<<s, o, "write">>, pipe2)]
      /\ fd' = [fd EXCEPT ![s][o] = [e \in Ends |-> IF e = "read" THEN r ELSE w]]
      /\ pipe2' = pipe2 /\ file' = file
  BY DEF NewPipe
<1> HIDE DEF r, w
<1>3. /\ <<s, o, "read">> \in PipeEnds /\ <<s, o, "write">> \in PipeEnds
      /\ \A x \in PipeEnds : x \in What
  BY DEF PipeEnds, Ends, What
<1>4. /\ Entry(<<s, o, "read">>, pipe2) \in Entries
      /\ Entry(<<s, o, "write">>, pipe2) \in Entries
  BY <1>3, EntriesTell DEF FdsTyped
<1>5. /\ table' \in Tables
      /\ table'[r] = Entry(<<s, o, "read">>, pipe2) /\ table'[w] = Entry(<<s, o, "write">>, pipe2)
      /\ \A f \in Fds \ {r, w} : table'[f] = table[f]
  BY <1>1, <1>2, <1>4 DEF FdsTyped, Tables
<1>6. /\ table'[r] # Closed /\ table'[r].what = <<s, o, "read">> /\ table'[r].cloexec = pipe2
      /\ table'[w] # Closed /\ table'[w].what = <<s, o, "write">> /\ table'[w].cloexec = pipe2
  BY <1>4, <1>5, EntriesTell
<1>7. /\ fd' \in [Spawners -> [Outputs -> [Ends -> Fds \cup {-1}]]]
      /\ fd'[s][o]["read"] = r /\ fd'[s][o]["write"] = w
      /\ \A p \in Outputs \ {o} : fd'[s][p] = fd[s][p]
      /\ \A t \in Spawners \ {s} : fd'[t] = fd[t]
  BY <1>1, <1>2 DEF FdsTyped, Ends
<1>8. EndsAreCloexec'
  BY <1>2, <1>5, <1>6 DEF TableInv, EndsAreCloexec
<1>9. FileIsItsOwn'
  <2>1. file \in Fds => table[file] # Closed /\ table[file] = Entry(File, FALSE)
    BY EntriesTell DEF TableInv, FileIsItsOwn, What
  <2>2. file \in Fds => file \notin {r, w}
    BY <2>1, <1>1
  <2> QED  BY <2>1, <2>2, <1>2, <1>5 DEF FileIsItsOwn
<1>10. FieldsNameTheirOwn'
  <2> SUFFICES ASSUME NEW t \in Spawners, NEW p \in Outputs, NEW d \in Ends, fd'[t][p][d] >= 0
               PROVE  table'[fd'[t][p][d]] # Closed /\ table'[fd'[t][p][d]].what = <<t, p, d>>
    BY DEF FieldsNameTheirOwn
  <2>1. CASE t = s /\ p = o
    BY <2>1, <1>6, <1>7 DEF Ends
  <2>2. CASE ~(t = s /\ p = o)
    <3>1. fd'[t][p][d] = fd[t][p][d]
      BY <2>2, <1>7
    <3>2. fd[t][p][d] \in Fds /\ table[fd[t][p][d]] # Closed /\ table[fd[t][p][d]].what = <<t, p, d>>
      BY <3>1, Fields DEF TableInv
    <3> QED  BY <3>1, <3>2, <1>1, <1>5
  <2> QED  BY <2>1, <2>2
<1>11. NothingIsLeft'
  <2> SUFFICES ASSUME NEW f \in Fds, table'[f] # Closed, table'[f].what \in PipeEnds
               PROVE  \E t \in Spawners, p \in Outputs, d \in Ends :
                        fd'[t][p][d] = f /\ table'[f].what = <<t, p, d>>
    BY DEF NothingIsLeft
  <2>1. CASE f \in {r, w}
    BY <2>1, <1>6, <1>7 DEF Ends
  <2>2. CASE f \notin {r, w}
    <3>1. table'[f] = table[f]
      BY <2>2, <1>5
    <3>2. PICK t \in Spawners, p \in Outputs, d \in Ends :
            fd[t][p][d] = f /\ table[f].what = <<t, p, d>>
      BY <3>1 DEF TableInv, NothingIsLeft
    <3>3. ~(t = s /\ p = o)
      BY <3>2, FdsAreNat DEF Unmade
    <3> QED  BY <3>1, <3>2, <3>3, <1>7
  <2> QED  BY <2>1, <2>2
<1>12. \A e \in Ends : fd'[s][o][e] \in Fds
  BY <1>1, <1>7 DEF Ends
<1> QED  BY <1>5, <1>7, <1>8, <1>9, <1>10, <1>11, <1>12 DEF TableInv

\* fcntl on an end that the field names changes its flag alone.
LEMMA SetCloexecTable ==
  ASSUME FdsTyped, TableInv, NEW s \in Spawners, NEW o \in Outputs, NEW e \in Ends,
         SetCloexec(s, o, e), Made(s, o)
  PROVE  TableInv'
<1> DEFINE f0 == fd[s][o][e]
<1>1. f0 \in Fds /\ table[f0] # Closed /\ table[f0].what = <<s, o, e>>
  BY Fields DEF TableInv, Made
<1>2. table' = [table EXCEPT ![f0].cloexec = TRUE] /\ UNCHANGED <<pipe2, fd, file>>
  BY DEF SetCloexec
<1> HIDE DEF f0
<1>3. table[f0] \in Entries
  BY <1>1 DEF FdsTyped, Tables
<1>4. ASSUME NEW x \in Entries
      PROVE  /\ [x EXCEPT !.cloexec = TRUE] \in Entries
             /\ [x EXCEPT !.cloexec = TRUE].what = x.what
             /\ [x EXCEPT !.cloexec = TRUE].cloexec = TRUE
  BY DEF Entries
<1> DEFINE y == [table[f0] EXCEPT !.cloexec = TRUE]
<1>6. y \in Entries /\ y.what = table[f0].what /\ y.cloexec = TRUE
  BY <1>3, <1>4
<1>a. /\ table' \in Tables /\ table'[f0] = y
      /\ \A f \in Fds \ {f0} : table'[f] = table[f]
  BY <1>1, <1>2, <1>6 DEF FdsTyped, Tables
<1> HIDE DEF y
<1>7. table'[f0] # Closed /\ table'[f0].what = table[f0].what /\ table'[f0].cloexec
  BY <1>6, <1>a, EntriesTell
<1>8. EndsAreCloexec'
  BY <1>2, <1>a, <1>7 DEF TableInv, EndsAreCloexec
<1>9. FileIsItsOwn'
  <2>1. file \in Fds => table[file].what = File
    BY EntriesTell DEF TableInv, FileIsItsOwn
  <2>2. file # f0
    BY <1>1, <2>1, CommandFdsAssumption DEF PipeEnds
  <2> QED  BY <2>2, <1>2, <1>a DEF TableInv, FileIsItsOwn
<1>10. \A f \in Fds : (table'[f] # Closed <=> table[f] # Closed) /\ table'[f].what = table[f].what
  BY <1>1, <1>a, <1>7
<1>11. FieldsNameTheirOwn' /\ NothingIsLeft'
  <2>1. \A t \in Spawners, p \in Outputs, d \in Ends : fd[t][p][d] >= 0 => fd[t][p][d] \in Fds
    BY Fields
  <2>2. fd' = fd
    BY <1>2
  <2>3. FieldsNameTheirOwn'
    BY <2>1, <2>2, <1>10 DEF TableInv, FieldsNameTheirOwn
  <2>4. NothingIsLeft'
    BY <2>2, <1>10 DEF TableInv, NothingIsLeft
  <2> QED  BY <2>3, <2>4
<1> QED  BY <1>2, <1>a, <1>8, <1>9, <1>11 DEF TableInv

\* Table and fields as they were.
LEMMA TableStays == TableInv /\ UNCHANGED <<pipe2, table, fd, file>> => TableInv'
<1> SUFFICES ASSUME TableInv, UNCHANGED <<pipe2, table, fd, file>> PROVE TableInv'
  OBVIOUS
<1>1. EndsAreCloexec' /\ FileIsItsOwn'
  BY DEF TableInv, EndsAreCloexec, FileIsItsOwn
<1>2. FieldsNameTheirOwn'
  BY DEF TableInv, FieldsNameTheirOwn
<1>3. NothingIsLeft'
  BY DEF TableInv, NothingIsLeft
<1> QED  BY <1>1, <1>2, <1>3 DEF TableInv

\* File::open takes an entry that no field names.
LEMMA OpenFileTable ==
  ASSUME FdsTyped, TableInv, OpenFile
  PROVE  TableInv' /\ file' \in Fds
<1> DEFINE g == Lowest(FreeFds(table, 0))
<1>1. g \in Fds /\ table[g] = Closed
  BY LowestIsFree DEF OpenFile
<1>2. /\ file' = g /\ table' = [table EXCEPT ![g] = Entry(File, FALSE)]
      /\ UNCHANGED <<pipe2, step, fd, program>>
  BY DEF OpenFile
<1> HIDE DEF g
<1>3. Entry(File, FALSE) \in Entries /\ Entry(File, FALSE).what = File
  BY EntriesTell DEF What
<1>4. /\ table' \in Tables /\ table'[g] = Entry(File, FALSE)
      /\ \A f \in Fds \ {g} : table'[f] = table[f]
  BY <1>1, <1>2, <1>3 DEF FdsTyped, Tables
<1>5. table'[g].what \notin PipeEnds
  BY <1>3, <1>4, CommandFdsAssumption
<1>6. EndsAreCloexec' /\ NothingIsLeft'
  <2>1. \A f \in Fds : table'[f] # Closed /\ table'[f].what \in PipeEnds => table'[f] = table[f]
    BY <1>4, <1>5
  <2>2. EndsAreCloexec'
    BY <2>1, <1>2 DEF TableInv, EndsAreCloexec
  <2>3. NothingIsLeft'
    <3>1. fd' = fd
      BY <1>2
    <3> QED  BY <2>1, <3>1 DEF TableInv, NothingIsLeft
  <2> QED  BY <2>2, <2>3
<1>7. FieldsNameTheirOwn'
  <2> SUFFICES ASSUME NEW t \in Spawners, NEW p \in Outputs, NEW d \in Ends, fd'[t][p][d] >= 0
               PROVE  table'[fd'[t][p][d]] # Closed /\ table'[fd'[t][p][d]].what = <<t, p, d>>
    BY DEF FieldsNameTheirOwn
  <2>1. fd[t][p][d] \in Fds /\ table[fd[t][p][d]] # Closed /\ table[fd[t][p][d]].what = <<t, p, d>>
    BY <1>2, Fields DEF TableInv
  <2> QED  BY <2>1, <1>1, <1>2, <1>4
<1> QED  BY <1>1, <1>2, <1>4, <1>6, <1>7 DEF TableInv, FileIsItsOwn

\* The drop of the File closes no end.
LEMMA DropFileTable ==
  ASSUME FdsTyped, TableInv, DropFile
  PROVE  TableInv' /\ file' = -1
<1>1. file \in Fds /\ table[file] = Entry(File, FALSE)
  <2>1. file >= 0 /\ file \in Fds \cup {-1, -2}
    BY DEF DropFile, FdsTyped, Unopened
  <2>2. file \in Fds
    BY <2>1, FdsAreNat
  <2> QED  BY <2>2 DEF TableInv, FileIsItsOwn
<1>2. table[file].what \notin PipeEnds
  <2>1. table[file].what = File
    BY <1>1 DEF Entry
  <2> QED  BY <2>1, CommandFdsAssumption
<1>3. table' = [table EXCEPT ![file] = Closed] /\ file' = -1 /\ UNCHANGED <<pipe2, step, fd, program>>
  BY DEF DropFile, close
<1>4. /\ table' \in Tables /\ table'[file] = Closed
      /\ \A f \in Fds \ {file} : table'[f] = table[f]
  BY <1>1, <1>3 DEF FdsTyped, Tables
<1>5. EndsAreCloexec' /\ NothingIsLeft'
  BY <1>3, <1>4 DEF TableInv, EndsAreCloexec, NothingIsLeft
<1>6. FieldsNameTheirOwn'
  <2> SUFFICES ASSUME NEW t \in Spawners, NEW p \in Outputs, NEW d \in Ends, fd'[t][p][d] >= 0
               PROVE  table'[fd'[t][p][d]] # Closed /\ table'[fd'[t][p][d]].what = <<t, p, d>>
    BY DEF FieldsNameTheirOwn
  <2>1. fd[t][p][d] \in Fds /\ table[fd[t][p][d]] # Closed /\ table[fd[t][p][d]].what = <<t, p, d>>
    BY <1>3, Fields DEF TableInv
  <2>2. fd[t][p][d] # file
    <3>1. <<t, p, d>> \in PipeEnds
      BY DEF PipeEnds
    <3> QED  BY <2>1, <3>1, <1>2
  <2> QED  BY <2>1, <2>2, <1>3, <1>4
<1> QED  BY <1>3, <1>4, <1>5, <1>6, FdsAreNat DEF TableInv, FileIsItsOwn

-----------------------------------------------------------------------------
\* What one thread is at and has is nothing to the others.
LEMMA OthersStay ==
  ASSUME FdsInv, NEW s \in Spawners, Stages(s)',
         \A t \in Spawners \ {s} : step'[t] = step[t] /\ fd'[t] = fd[t]
  PROVE  \A t \in Spawners : Stages(t)'
BY DEF FdsInv, Stages, Made, Unmade

\* One thread goes on to its next step.
LEMMA Goes ==
  ASSUME FdsTyped, NEW s \in Spawners, NEW from, NEW to \in Steps, Go(s, from, to)
  PROVE  /\ step' \in [Spawners -> Steps]
         /\ step[s] = from /\ step'[s] = to /\ \A t \in Spawners \ {s} : step'[t] = step[t]
BY DEF FdsTyped, Go

\* No pipe is there before the first spawn.
LEMMA FdsInitInv == FdsInit => FdsInv
<1> SUFFICES ASSUME FdsInit PROVE FdsInv
  OBVIOUS
<1>1. PICK shut \in SUBSET {0, 1, 2} :
        table = [f \in Fds |-> IF f < 3 /\ f \notin shut THEN Entry(Std, FALSE) ELSE Closed]
  BY DEF FdsInit
<1>2. Entry(Std, FALSE) \in Entries /\ Entry(Std, FALSE).what = Std
  BY EntriesTell DEF What
<1>3. table \in Tables /\ \A f \in Fds : table[f] # Closed => table[f] = Entry(Std, FALSE)
  BY <1>1, <1>2 DEF Tables
<1>4. \A f \in Fds : table[f] # Closed => table[f].what \notin PipeEnds
  BY <1>2, <1>3, CommandFdsAssumption
<1>5. /\ fd \in [Spawners -> [Outputs -> [Ends -> Fds \cup {-1}]]]
      /\ \A s \in Spawners, o \in Outputs, e \in Ends : fd[s][o][e] = -1
  BY DEF FdsInit
<1>6. EndsAreCloexec /\ NothingIsLeft
  BY <1>4 DEF EndsAreCloexec, NothingIsLeft
<1>7. FileIsItsOwn
  BY FdsAreNat DEF FdsInit, FileIsItsOwn
<1>8. FieldsNameTheirOwn
  BY <1>5 DEF FieldsNameTheirOwn
<1>9. /\ step \in [Spawners -> Steps]
      /\ \A s \in Spawners : step[s] = <<"new", "out">>
  BY DEF FdsInit, Steps, Outputs
<1>10. \A s \in Spawners : Unmade(s, "out") /\ Unmade(s, "err")
  BY <1>5 DEF Unmade, Outputs
<1>11. \A s \in Spawners : Stages(s)
  BY <1>9, <1>10 DEF Stages
<1>12. FdsTyped
  BY <1>3, <1>5, <1>9 DEF FdsInit, FdsTyped
<1> QED  BY <1>3, <1>5, <1>6, <1>7, <1>8, <1>11, <1>12 DEF FdsInv, TableInv

\* Every step of a spawn keeps the invariant.
LEMMA FdsSpawnInv ==
  ASSUME FdsInv, NEW s \in Spawners, SpawnNext(s)
  PROVE  FdsInv'
<1>0. FdsTyped /\ TableInv /\ Stages(s)
  BY DEF FdsInv
<1>a. ASSUME NEW o \in Outputs, NewPipe(s, o)
      PROVE  FdsInv'
  <2> DEFINE to == IF pipe2 THEN AfterPipe(o) ELSE <<"read", o>>
  <2>1. to \in Steps /\ AfterPipe(o) = IF o = "out" THEN <<"new", "err">> ELSE <<"fork", "both">>
    BY DEF Steps, Outputs, AfterPipe
  <2>2. Go(s, <<"new", o>>, to) /\ UNCHANGED <<pipe2, program, file>>
    BY <1>a DEF NewPipe
  <2>3. /\ step' \in [Spawners -> Steps] /\ step[s] = <<"new", o>> /\ step'[s] = to
        /\ \A t \in Spawners \ {s} : step'[t] = step[t]
    BY <1>0, <2>1, <2>2, Goes
  <2>4. Unmade(s, o)
    BY <1>0, <2>3 DEF Stages, Outputs
  <2>5. /\ TableInv'
        /\ \A e \in Ends : fd'[s][o][e] \in Fds
        /\ \A p \in Outputs \ {o} : fd'[s][p] = fd[s][p]
        /\ \A t \in Spawners \ {s} : fd'[t] = fd[t]
    BY <1>0, <1>a, <2>4, NewPipeTable
  <2>6. FdsTyped'
    BY <1>0, <2>2, <2>3, <2>5 DEF FdsTyped, TableInv
  <2>7. Stages(s)'
    <3>1. CASE o = "out"
      <4>1. step'[s] \in {<<"new", "err">>, <<"read", "out">>} /\ Unmade(s, "err")
        BY <1>0, <2>1, <2>3, <3>1 DEF Stages
      <4> QED  BY <3>1, <4>1, <2>5 DEF Stages, Made, Unmade, Outputs
    <3>2. CASE o = "err"
      <4>1. step'[s] \in {<<"fork", "both">>, <<"read", "err">>} /\ Made(s, "out")
        BY <1>0, <2>1, <2>3, <3>2 DEF Stages
      <4> QED  BY <3>2, <4>1, <2>5 DEF Stages, Made, Unmade, Outputs
    <3> QED  BY <3>1, <3>2 DEF Outputs
  <2> QED  BY <2>3, <2>5, <2>6, <2>7, OthersStay DEF FdsInv
<1>b. ASSUME NEW o \in Outputs, close_write(s, o)
      PROVE  FdsInv'
  <2> DEFINE to == IF o = "out" THEN <<"close", "err">> ELSE <<"child", "both">>
  <2>1. to \in Steps
    BY DEF Steps, Outputs
  <2>2. Go(s, <<"close", o>>, to) /\ UNCHANGED <<pipe2, program, file>>
    BY <1>b DEF close_write
  <2>3. /\ step' \in [Spawners -> Steps] /\ step[s] = <<"close", o>> /\ step'[s] = to
        /\ \A t \in Spawners \ {s} : step'[t] = step[t]
    BY <1>0, <2>1, <2>2, Goes
  <2>4. Made(s, o) /\ (o = "out" => Made(s, "err"))
    BY <1>0, <2>3 DEF Stages, Outputs
  <2>5. TableInv'
    BY <1>0, <1>b, <2>2, <2>4, CloseEnd DEF close_write, Made, Ends
  <2>6. FdsTyped'
    BY <1>0, <2>2, <2>3, <2>5 DEF FdsTyped, TableInv
  <2>7. /\ \A t \in Spawners \ {s} : fd'[t] = fd[t]
        /\ \A p \in Outputs \ {o} : fd'[s][p] = fd[s][p]
    BY <1>0, <1>b DEF close_write, FdsTyped
  <2>8. Stages(s)'
    BY <2>3, <2>4, <2>7 DEF Stages, Made, Outputs
  <2> QED  BY <2>3, <2>5, <2>6, <2>7, <2>8, OthersStay DEF FdsInv
<1>c. ASSUME NEW o \in Outputs, DropPipe(s, o)
      PROVE  FdsInv'
  <2> DEFINE n == DropNext(s, o)
  <2>1. /\ step[s] = <<"drop", o>> /\ UNCHANGED <<pipe2, step, program, file>>
        /\ table' = close(table, fd[s][n[1]][n[2]]) /\ fd' = [fd EXCEPT ![s][n[1]][n[2]] = -1]
    BY <1>c DEF DropPipe
  <2>2. PICK p \in Outputs, e \in Ends : n = <<p, e>> /\ fd[s][p][e] \in Fds
    <3>1. PICK q \in Outputs : IsOpen(s, q)
      BY <1>c DEF DropPipe
    <3> DEFINE p == IF IsOpen(s, o) THEN o ELSE CHOOSE other \in Outputs : other # o
    <3>2. p \in Outputs /\ IsOpen(s, p)
      <4>1. CASE IsOpen(s, o)
        BY <4>1
      <4>2. CASE ~IsOpen(s, o)
        <5>1. q # o
          BY <4>2, <3>1
        <5>2. \A x \in Outputs : x # o => x = q
          BY <5>1 DEF Outputs
        <5> QED  BY <4>2, <5>1, <5>2, <3>1
      <4> QED  BY <4>1, <4>2
    <3> HIDE DEF p
    <3> DEFINE e == IF fd[s][p]["read"] >= 0 THEN "read" ELSE "write"
    <3>3. e \in Ends /\ fd[s][p][e] >= 0
      BY <3>2 DEF IsOpen, Ends
    <3>4. n = <<p, e>>
      BY DEF DropNext, p
    <3>5. fd[s][p][e] \in Fds
      BY <1>0, <3>2, <3>3, Fields
    <3> HIDE DEF e
    <3> QED  BY <3>2, <3>3, <3>4, <3>5
  <2> HIDE DEF n
  <2>3. TableInv'
    BY <1>0, <2>1, <2>2, CloseEnd
  <2>4. FdsTyped'
    BY <1>0, <2>1, <2>3 DEF FdsTyped, TableInv
  <2>5. \A t \in Spawners \ {s} : fd'[t] = fd[t]
    BY <1>0, <2>1 DEF FdsTyped
  <2>6. Stages(s)'
    BY <2>1 DEF Stages
  <2> QED  BY <2>1, <2>3, <2>4, <2>5, <2>6, OthersStay DEF FdsInv
<1>d. ASSUME NEW o \in Outputs, NEW e \in Ends, SetCloexec(s, o, e)
      PROVE  FdsInv'
  <2> DEFINE to == IF e = "read" THEN <<"write", o>> ELSE AfterPipe(o)
  <2>1. to \in Steps /\ AfterPipe(o) = IF o = "out" THEN <<"new", "err">> ELSE <<"fork", "both">>
    BY DEF Steps, Outputs, AfterPipe
  <2>2. Go(s, <<e, o>>, to) /\ UNCHANGED <<pipe2, fd, program, file>>
    BY <1>d DEF SetCloexec
  <2>3. /\ step' \in [Spawners -> Steps] /\ step[s] = <<e, o>> /\ step'[s] = to
        /\ \A t \in Spawners \ {s} : step'[t] = step[t]
    BY <1>0, <2>1, <2>2, Goes
  <2>4. /\ Made(s, o)
        /\ o = "out" => Unmade(s, "err")
        /\ o = "err" => Made(s, "out")
    BY <1>0, <2>3 DEF Stages, Outputs, Ends
  <2>5. TableInv'
    BY <1>0, <1>d, <2>4, SetCloexecTable
  <2>6. FdsTyped'
    BY <1>0, <2>2, <2>3, <2>5 DEF FdsTyped, TableInv
  <2>7. Stages(s)'
    <3>1. CASE o = "out"
      BY <2>1, <2>2, <2>3, <2>4, <3>1 DEF Stages, Made, Unmade, Ends
    <3>2. CASE o = "err"
      BY <2>1, <2>2, <2>3, <2>4, <3>2 DEF Stages, Made, Unmade, Ends
    <3> QED  BY <3>1, <3>2 DEF Outputs
  <2> QED  BY <2>2, <2>3, <2>5, <2>6, <2>7, OthersStay DEF FdsInv
<1>e. ASSUME UNCHANGED <<pipe2, table, fd, file>>, program' = [t \in Spawners |-> program'[t]],
             NEW from, NEW to \in {<<"drop", "err">>, <<"drop", "out">>, <<"close", "out">>},
             Go(s, from, to), to = <<"close", "out">> => from = <<"fork", "both">>
      PROVE  FdsInv'
  <2>1. to \in Steps
    BY DEF Steps, Outputs
  <2>2. /\ step' \in [Spawners -> Steps] /\ step[s] = from /\ step'[s] = to
        /\ \A t \in Spawners \ {s} : step'[t] = step[t]
    BY <1>0, <1>e, <2>1, Goes
  <2>3. TableInv'
    BY <1>0, <1>e, TableStays
  <2>4. FdsTyped'
    BY <1>0, <1>e, <2>2 DEF FdsTyped
  <2>5. Stages(s)'
    BY <1>0, <1>e, <2>2 DEF Stages, Made
  <2> QED  BY <1>e, <2>2, <2>3, <2>4, <2>5, OthersStay DEF FdsInv
<1>f. CASE Fail(s)
  BY <1>0, <1>e, <1>f DEF Fail, FdsTyped
<1>g. CASE fork(s)
  <2>1. program' = [t \in Spawners |-> program'[t]]
    BY <1>0, <1>g DEF fork, FdsTyped
  <2> QED  BY <1>e, <1>g, <2>1 DEF fork
<1>h. CASE DropChild(s)
  BY <1>0, <1>e, <1>h DEF DropChild, FdsTyped
<1> QED  BY <1>a, <1>b, <1>c, <1>d, <1>f, <1>g, <1>h DEF SpawnNext

\* So does the other thread.
LEMMA FdsNextInv == FdsInv /\ [FdsNext]_fdsVars => FdsInv'
<1> SUFFICES ASSUME FdsInv, [FdsNext]_fdsVars PROVE FdsInv'
  OBVIOUS
<1>0. FdsTyped /\ TableInv
  BY DEF FdsInv
<1>a. ASSUME UNCHANGED <<step, fd>>
      PROVE  \A s \in Spawners : Stages(s)'
  BY <1>a DEF FdsInv, Stages, Made, Unmade
<1>1. ASSUME NEW s \in Spawners, SpawnNext(s) PROVE FdsInv'
  BY <1>1, FdsSpawnInv
<1>2. CASE OpenFile
  <2>1. TableInv' /\ file' \in Fds /\ UNCHANGED <<pipe2, step, fd, program>>
    BY <1>0, <1>2, OpenFileTable DEF OpenFile
  <2>2. FdsTyped'
    BY <1>0, <2>1 DEF FdsTyped, TableInv
  <2> QED  BY <1>a, <2>1, <2>2 DEF FdsInv
<1>3. CASE DropFile
  <2>1. TableInv' /\ file' = -1 /\ UNCHANGED <<pipe2, step, fd, program>>
    BY <1>0, <1>3, DropFileTable DEF DropFile
  <2>2. FdsTyped'
    BY <1>0, <2>1 DEF FdsTyped, TableInv
  <2> QED  BY <1>a, <2>1, <2>2 DEF FdsInv
<1>4. CASE UNCHANGED fdsVars
  <2>1. TableInv'
    BY <1>0, <1>4, TableStays DEF fdsVars
  <2>2. FdsTyped'
    BY <1>0, <1>4 DEF fdsVars, FdsTyped
  <2> QED  BY <1>4, <1>a, <2>1, <2>2 DEF fdsVars, FdsInv
<1> QED  BY <1>1, <1>2, <1>3, <1>4 DEF FdsNext

\* A program is what its fork made of the table at that moment.
LEMMA ProgramsInv ==
  FdsInv /\ StreamsAreItsOwn /\ NoEndLeaks /\ [FdsNext]_fdsVars => (StreamsAreItsOwn /\ NoEndLeaks)'
<1> SUFFICES ASSUME FdsInv, StreamsAreItsOwn, NoEndLeaks, [FdsNext]_fdsVars
             PROVE  (StreamsAreItsOwn /\ NoEndLeaks)'
  OBVIOUS
<1>0. FdsTyped /\ TableInv /\ \A s \in Spawners : Stages(s)
  BY DEF FdsInv
<1>1. ASSUME UNCHANGED <<pipe2, program>>
      PROVE  (StreamsAreItsOwn /\ NoEndLeaks)'
  BY <1>1 DEF StreamsAreItsOwn, NoEndLeaks, Started
<1>2. ASSUME NEW s \in Spawners, fork(s)
      PROVE  (StreamsAreItsOwn /\ NoEndLeaks)'
  <2> DEFINE ow == fd[s]["out"]["write"] ew == fd[s]["err"]["write"]
             c == ChildSetup(table, ow, ew)
  <2>1. Made(s, "out") /\ Made(s, "err")
    BY <1>0, <1>2 DEF fork, Go, Stages
  <2>2. /\ ow \in Fds /\ table[ow] # Closed /\ table[ow].what = <<s, "out", "write">>
        /\ ew \in Fds /\ table[ew] # Closed /\ table[ew].what = <<s, "err", "write">>
    <3>1. ow \in Fds /\ ew \in Fds
      BY <2>1 DEF Made, Ends
    <3> QED  BY <1>0, <3>1, Fields DEF TableInv, Outputs, Ends
  <2>3. table \in Tables /\ ow # ew
    BY <1>0, <2>2 DEF TableInv
  <2>4. pipe2' = pipe2 /\ \A t \in Spawners \ {s} : program'[t] = program[t]
    BY <1>0, <1>2 DEF fork, FdsTyped
  <2> HIDE DEF ow, ew
  <2>5. CASE Cardinality(FreeFds(table, 3)) >= 3 /\ program'[s] = c
    <3>1. /\ c[1] = Entry(<<s, "out", "write">>, FALSE)
          /\ c[2] = Entry(<<s, "err", "write">>, FALSE)
          /\ c[0] \in {Closed, Entry(Null, FALSE)}
          /\ \A f \in Fds \ {0, 1, 2} : c[f] # Closed => c[f] = table[f] /\ ~table[f].cloexec
      <4>1. Cardinality(FreeFds(table, 3)) >= 3
        BY <2>5
      <4>2. Prepared(c, table, ow, ew)
        BY <2>2, <2>3, <4>1, ChildSetupTable
      <4> HIDE DEF c
      <4> QED  BY <2>2, <4>2 DEF Prepared
    <3> HIDE DEF c
    <3>2. StreamsAreItsOwn'
      BY <2>4, <2>5, <3>1 DEF StreamsAreItsOwn, Started
    <3>3. ASSUME pipe2, NEW f \in Fds \ {1, 2}, c[f] # Closed
          PROVE  c[f].what \notin PipeEnds
      <4>1. CASE f = 0
        <5>1. c[f].what = Null
          BY <3>1, <3>3, <4>1 DEF Entry
        <5> QED  BY <5>1, CommandFdsAssumption
      <4>2. CASE f # 0
        BY <1>0, <3>1, <3>3, <4>2 DEF TableInv, EndsAreCloexec
      <4> QED  BY <4>1, <4>2
    <3>4. NoEndLeaks'
      BY <2>4, <2>5, <3>3 DEF NoEndLeaks, Started
    <3> QED  BY <3>2, <3>4
  <2>6. CASE program'[s] = Exit127
    BY <2>4, <2>6 DEF StreamsAreItsOwn, NoEndLeaks, Started
  <2>7. \/ Cardinality(FreeFds(table, 3)) >= 3 /\ program'[s] = c
        \/ program'[s] = Exit127
    BY <1>0, <1>2 DEF fork, FdsTyped, ow, ew
  <2> QED  BY <2>5, <2>6, <2>7
<1>3. ASSUME NEW s \in Spawners, SpawnNext(s), ~fork(s)
      PROVE  UNCHANGED <<pipe2, program>>
  BY <1>3 DEF SpawnNext, NewPipe, close_write, DropPipe, SetCloexec, Fail, DropChild
<1>4. OpenFile \/ DropFile \/ UNCHANGED fdsVars => UNCHANGED <<pipe2, program>>
  BY DEF OpenFile, DropFile, fdsVars
<1> QED  BY <1>1, <1>2, <1>3, <1>4 DEF FdsNext

\* All of it holds throughout.
LEMMA FdsHold == FdsSpec => [](FdsInv /\ StreamsAreItsOwn /\ NoEndLeaks)
<1>1. FdsInit => StreamsAreItsOwn /\ NoEndLeaks
  BY DEF FdsInit, StreamsAreItsOwn, NoEndLeaks, Started
<1> QED  BY <1>1, FdsInitInv, FdsNextInv, ProgramsInv, PTL DEF FdsSpec

\* Whatever the parent had closed and whoever else spawns, opens and closes
\* files, a started program writes into its own two pipes, and reads nothing.
THEOREM StreamsTheorem == FdsSpec => []StreamsAreItsOwn
BY FdsHold, PTL

\* Every end of every pipe is accounted for, on the error paths too.
THEOREM EndsTheorem == FdsSpec => []EndsAreAccounted
<1>1. FdsInv /\ NoEndLeaks => EndsAreAccounted
  BY DEF FdsInv, TableInv, EndsAreAccounted
<1> QED  BY <1>1, FdsHold, PTL
=============================================================================
