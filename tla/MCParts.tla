------------------------------ MODULE MCParts -------------------------------
(***************************************************************************)
(* The smaller parts of the library, one run for all: a behaviour is one   *)
(* of a single part, its scene, and leaves the variables of the others in  *)
(* a state of theirs in which nothing has begun or all is over.            *)
(***************************************************************************)
EXTENDS Environment, Trees, Streams, Sockets, Memory, RwLock, Condvar

VARIABLE scene

vars == <<scene, buf, environmentVars, treeVars, streamVars, socketVars, memoryVars, rwVars, condvarVars>>

EnvKeys == {<<"P">>, <<"P", "Q">>, <<"R">>}
EnvValues == {<<>>, <<"a">>, <<"b", ":", "=">>}
EnvLists ==
  {<<>>,
   << <<"P", "=", "/", ":", ":", "b">>, <<"P", "Q", "=", "a">> >>,
   << <<"P", "=", "b">>, <<"R", "=">>, <<"P", "=", "a">> >>}

TwoTemps == <<"n0", "n1">>

SocketPaths == {<<"x">>, <<"x", "y", "z">>, <<"x", "y", "z", "a">>, <<"x", "y", "z", "b">>}

EnvironmentIdle == environ = <<>> /\ cmd = NewCommand(<<"a">>)

TreeIdle ==
  /\ ent = [d \in Dirs |-> Empty]
  /\ walk = [p \in Walkers |-> Walk("none")]
  /\ COUNTER = [p \in Walkers |-> 0]
  /\ meddles = 0 /\ linked = FALSE /\ lost = FALSE

StreamIdle ==
  /\ newlines = {}
  /\ out = [WriterInit("socket") EXCEPT !.pc = "closed"]
  /\ in = [ReaderInit("stdin") EXCEPT !.pc = "done"]
  /\ sent = <<>> /\ taken = 0 /\ faults = 0

Init ==
  /\ scene \in {"paths", "environment", "trees", "streams", "sockets", "memory", "rwlock", "condvar"}
  /\ IF scene = "paths" THEN PathInit ELSE buf = <<>>
  /\ IF scene = "environment" THEN EnvironmentInit ELSE EnvironmentIdle
  /\ IF scene = "trees" THEN TreeInit ELSE TreeIdle
  /\ IF scene = "streams" THEN StreamInit ELSE StreamIdle
  /\ SocketInit /\ MemoryInit /\ RwInit /\ CondvarInit

Paths_ == scene = "paths" /\ PathNext
  /\ UNCHANGED <<environmentVars, treeVars, streamVars, socketVars, memoryVars, rwVars, condvarVars>>
Environment_ == scene = "environment" /\ EnvironmentNext
  /\ UNCHANGED <<buf, treeVars, streamVars, socketVars, memoryVars, rwVars, condvarVars>>
Trees_ == scene = "trees" /\ TreeNext
  /\ UNCHANGED <<buf, environmentVars, streamVars, socketVars, memoryVars, rwVars, condvarVars>>
Streams_ == scene = "streams" /\ StreamNext
  /\ UNCHANGED <<buf, environmentVars, treeVars, socketVars, memoryVars, rwVars, condvarVars>>
Sockets_ == scene = "sockets" /\ SocketNext
  /\ UNCHANGED <<buf, environmentVars, treeVars, streamVars, memoryVars, rwVars, condvarVars>>
Memory_ == scene = "memory" /\ MemoryNext
  /\ UNCHANGED <<buf, environmentVars, treeVars, streamVars, socketVars, rwVars, condvarVars>>
RwLock_ == scene = "rwlock" /\ RwNext
  /\ UNCHANGED <<buf, environmentVars, treeVars, streamVars, socketVars, memoryVars, condvarVars>>
Condvar_ == scene = "condvar" /\ CondvarNext
  /\ UNCHANGED <<buf, environmentVars, treeVars, streamVars, socketVars, memoryVars, rwVars>>

\* Walks and transfers end; nothing else does.
Over ==
  /\ \/ scene = "trees" /\ Ended
     \/ scene = "streams" /\ ~WriterOpen /\ ~ReaderOpen
  /\ UNCHANGED vars

Next ==
  \/ /\ Paths_ \/ Environment_ \/ Trees_ \/ Streams_ \/ Sockets_ \/ Memory_ \/ RwLock_ \/ Condvar_
     /\ UNCHANGED scene
  \/ Over

Spec ==
  /\ Init /\ [][Next]_vars
  /\ WF_streamVars(Streams_ /\ WriterProgress) /\ WF_streamVars(Streams_ /\ ReaderProgress)
=============================================================================
