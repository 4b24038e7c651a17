------------------------------- MODULE Trees -------------------------------
(***************************************************************************)
(* The walks over directory trees in src/fs.rs and src/file.rs: two        *)
(* recursive removals, create_dir_all, and TempDir, which makes a          *)
(* directory of its own and removes it when it is dropped.  Every system   *)
(* call is a step, between which the other walks and another process       *)
(* change the tree.  Paths are resolved anew at each call, as the kernel   *)
(* does, links on the way being followed.                                  *)
(*                                                                         *)
(* opendir and the readdirs after it are one step: the kernel hands over a *)
(* directory of a few entries in one piece.                                *)
(***************************************************************************)
EXTENDS Integers, Sequences, SequencesExt, FiniteSets

CONSTANTS Walkers,   \* the calls that run at the same time
          TempNames, \* bound: the names TempDir can form, first to last
          Attempts,  \* bound: the 64 attempts of TempDir::new_in
          MaxMeddles \* bound: changes by the other process and failing calls

ASSUME TreeAssumption == TempNames \in Seq(STRING) /\ IsFiniteSet(Walkers)

VARIABLES ent,     \* what each directory holds under each name
          walk,    \* the calls: see Walk
          COUNTER, \* the static of new_in, of each walker's process
          meddles, \* how often the other process or a failing call stepped in
          linked,  \* a link stands, or was put, where a removal is in a directory
          lost     \* a walker took away an entry of the directory outside

treeVars == <<ent, walk, COUNTER, meddles, linked, lost>>

Root == "root"        \* the directory the paths start in
Outside == "outside"  \* a directory no walk was asked to touch
Dirs == {Root, Outside, "t1", "t2", "t3"}
Names == {"t", "a", "b"} \cup Range(TempNames)
Nowhere == "nowhere"

Entry(kind, to) == [kind |-> kind, to |-> to]
None == Entry("none", Nowhere)
File == Entry("file", Nowhere)
Link == Entry("link", Outside)

Empty == [n \in Names |-> None]
With(n, e) == [Empty EXCEPT ![n] = e]

(***************************************************************************)
(* The file system, as its calls see it.                                   *)
(***************************************************************************)
dir_at(path) ==
  LET at[i \in 0..Len(path)] ==
        IF i = 0 THEN Root
        ELSE IF at[i - 1] = Nowhere THEN Nowhere
        ELSE LET e == ent[at[i - 1]][path[i]]
             IN  IF e.kind \in {"dir", "link"} THEN e.to ELSE Nowhere
  IN  at[Len(path)]

\* What a name is, the last link of the path not followed.
lstat(path) ==
  LET d == dir_at(Front(path)) IN IF d = Nowhere THEN None ELSE ent[d][Last(path)]

\* What it leads to: the mutated walk asks this.
stat(path) ==
  IF dir_at(path) # Nowhere THEN Entry("dir", dir_at(path)) ELSE lstat(path)

Put(path, e) == ent' = [ent EXCEPT ![dir_at(Front(path))][Last(path)] = e]

UnusedDirs == {d \in Dirs \ {Root, Outside} :
           /\ ent[d] = Empty
           /\ \A e \in Dirs, n \in Names : ent[e][n] # Entry("dir", d)}

(***************************************************************************)
(* The calls.  A walk is [op, pc, path, made, stack]: stack holds a frame  *)
(* for each level of the recursion, with the names not yet looked at.      *)
(***************************************************************************)
Removals == {"fs_remove", "file_remove"}

Frame(path) == [path |-> path, todo |-> {}, name |-> "t"]
Top(p) == Last(walk[p].stack)
Child(p) == Append(Top(p).path, Top(p).name)

Walk(op) ==
  [op |-> op, made |-> 0,
   path |-> IF op = "create" THEN <<"t", "a">> ELSE <<"t">>,
   stack |-> IF op \in Removals THEN <<Frame(<<"t">>)>> ELSE <<>>,
   pc |-> CASE op = "create" -> "mkdir" [] op = "temp" -> "name"
            [] op \in Removals -> "open" [] op = "none" -> "ok"]

Tree(t, a, b) ==
  [d \in Dirs |-> CASE d = Root -> With("t", t)
                    [] d = "t1" /\ t.kind = "dir" -> [With("a", a) EXCEPT !["b"] = b]
                    [] d = "t2" /\ t.kind = "dir" /\ a.kind = "dir" -> With("b", File)
                    [] d = Outside -> With("b", File)
                    [] OTHER -> Empty]
Trees ==
  {Tree(t, a, b) : t \in {None, File, Link, Entry("dir", "t1")},
                   a \in {None, File, Link, Entry("dir", "t2")}, b \in {None, File}}

\* A directory an earlier process with this pid left behind.
Stale == [d \in Dirs |-> IF d = Root THEN With(TempNames[1], Entry("dir", "t3")) ELSE Empty]

TreeInit ==
  /\ \/ /\ ent \in Trees
        /\ walk \in [Walkers -> {Walk(op) : op \in {"create", "none"} \cup Removals}]
     \/ /\ ent \in {Stale, [d \in Dirs |-> Empty]}
        /\ walk = [p \in Walkers |-> Walk("temp")]
  /\ COUNTER = [p \in Walkers |-> 0]
  /\ meddles = 0
  /\ linked = (ent[Root]["t"] = Link)
  /\ lost = FALSE

At(p, pc) == walk[p].pc = pc
Goto(p, pc) == walk' = [walk EXCEPT ![p].pc = pc]
Keeps == UNCHANGED <<ent, COUNTER, meddles, linked, lost>>

\* The innermost call returns: to the loop of the one around it, or for good.
Pop(p) ==
  IF Len(walk[p].stack) > 1
  THEN walk' = [walk EXCEPT ![p].stack = Front(@), ![p].pc = "next"]
  ELSE Goto(p, "ok")

\* A call fails: fs gives the error up through every level, file ignores it.
Fails(p) == IF walk[p].op = "fs_remove" THEN Goto(p, "err") ELSE Pop(p)

Lists(p, names) ==
  walk' = [walk EXCEPT ![p].pc = "next",
                       ![p].stack = Append(Front(@), [Top(p) EXCEPT !.todo = names])]

read_dir(p) ==
  /\ At(p, "open")
  /\ LET d == dir_at(Top(p).path)
     IN  IF d = Nowhere THEN Fails(p) ELSE Lists(p, {n \in Names : ent[d][n] # None})
  /\ Keeps

\* readdir fails half way: fs answers with the error, file takes the part it
\* has for the whole.
ReaddirFails(p) ==
  /\ At(p, "open")
  /\ meddles < MaxMeddles
  /\ LET d == dir_at(Top(p).path)
     IN  /\ d # Nowhere
         /\ IF walk[p].op = "fs_remove" THEN Fails(p)
            ELSE \E names \in SUBSET {n \in Names : ent[d][n] # None} : Lists(p, names)
  /\ meddles' = meddles + 1
  /\ UNCHANGED <<ent, COUNTER, linked, lost>>

\* One turn of the loop, up to the call that lstat decides on.
Looks(p, what(_)) ==
  /\ At(p, "next")
  /\ \E n \in Top(p).todo :
       LET frame == [Top(p) EXCEPT !.todo = @ \ {n}, !.name = n]
           path == Append(frame.path, n)
           level == Append(Front(walk[p].stack), frame)
       IN  walk' =
             IF what(path).kind = "dir"
             THEN [walk EXCEPT ![p].stack = Append(level, Frame(path)), ![p].pc = "open"]
             ELSE [walk EXCEPT ![p].stack = level,
                               ![p].pc = IF what(path) = None /\ walk[p].op = "fs_remove"
                                         THEN "err" ELSE "unlink"]
  /\ Keeps

\* Mutant: stat is asked, and a link to a directory is one.
follow_metadata(p) == Looks(p, stat)

symlink_metadata(p) == Looks(p, lstat)

unlink(p) ==
  /\ At(p, "unlink")
  /\ Goto(p, "next")
  /\ IF lstat(Child(p)).kind \in {"file", "link"}
     THEN /\ Put(Child(p), None)
          /\ lost' = (lost \/ dir_at(Top(p).path) = Outside)
     ELSE UNCHANGED <<ent, lost>>
  /\ UNCHANGED <<COUNTER, meddles, linked>>

rmdir(p) ==
  /\ At(p, "next")
  /\ Top(p).todo = {}
  /\ LET e == lstat(Top(p).path)
     IN  IF e.kind = "dir" /\ ent[e.to] = Empty
         THEN /\ Put(Top(p).path, None)
              /\ Pop(p)
              /\ lost' = (lost \/ dir_at(Front(Top(p).path)) = Outside)
         ELSE Fails(p) /\ UNCHANGED <<ent, lost>>
  /\ UNCHANGED <<COUNTER, meddles, linked>>

\* Mutant: the answer that the name is there already ends the walk.
create_dir_stops(p) ==
  /\ At(p, "mkdir")
  /\ LET at == SubSeq(walk[p].path, 1, walk[p].made + 1)
     IN  IF dir_at(Front(at)) # Nowhere /\ lstat(at) = None
         THEN /\ \E d \in UnusedDirs : Put(at, Entry("dir", d))
              /\ walk' = [walk EXCEPT ![p].made = @ + 1,
                                      ![p].pc = IF at = walk[p].path THEN "ok" ELSE "mkdir"]
         ELSE Goto(p, "err") /\ UNCHANGED ent
  /\ UNCHANGED <<COUNTER, meddles, linked, lost>>

\* One part of the path: whatever is there under the name counts as made.
create_dir_all(p) ==
  /\ At(p, "mkdir")
  /\ LET at == SubSeq(walk[p].path, 1, walk[p].made + 1)
     IN  IF dir_at(Front(at)) = Nowhere
         THEN Goto(p, "err") /\ UNCHANGED ent
         ELSE /\ IF lstat(at) = None THEN \E d \in UnusedDirs : Put(at, Entry("dir", d)) ELSE UNCHANGED ent
              /\ walk' = [walk EXCEPT ![p].made = @ + 1,
                                      ![p].pc = IF at = walk[p].path THEN "ok" ELSE "mkdir"]
  /\ UNCHANGED <<COUNTER, meddles, linked, lost>>

\* Any other errno: no right to write, no room.
MkdirFails(p) ==
  /\ At(p, "mkdir") \/ At(p, "claim")
  /\ meddles < MaxMeddles
  /\ Goto(p, "err")
  /\ meddles' = meddles + 1
  /\ UNCHANGED <<ent, COUNTER, linked, lost>>

(***************************************************************************)
(* TempDir.  The walkers are processes with one pid, as two containers     *)
(* that share a directory have: their names differ by the counter alone.   *)
(***************************************************************************)
fetch_add(p) ==
  /\ At(p, "name")
  /\ COUNTER[p] < Len(TempNames)
  /\ COUNTER' = [COUNTER EXCEPT ![p] = @ + 1]
  /\ walk' = [walk EXCEPT ![p].path = <<TempNames[COUNTER[p] + 1]>>, ![p].pc = "claim"]
  /\ UNCHANGED <<ent, meddles, linked, lost>>

\* Mutant: a directory that is there already is taken, as in fs::mkdir.
new_in_any(p) ==
  /\ At(p, "claim")
  /\ IF lstat(walk[p].path) = None
     THEN \E d \in UnusedDirs : Put(walk[p].path, Entry("dir", d))
     ELSE UNCHANGED ent
  /\ Goto(p, "fill")
  /\ UNCHANGED <<COUNTER, meddles, linked, lost>>

new_in(p) ==
  /\ At(p, "claim")
  /\ IF lstat(walk[p].path) = None
     THEN /\ \E d \in UnusedDirs : Put(walk[p].path, Entry("dir", d))
          /\ Goto(p, "fill")
     ELSE /\ walk' = [walk EXCEPT ![p].made = @ + 1,
                                  ![p].pc = IF walk[p].made + 1 = Attempts THEN "err" ELSE "name"]
          /\ UNCHANGED ent
  /\ UNCHANGED <<COUNTER, meddles, linked, lost>>

\* The program puts a file where it was told its directory is.
Fill(p) ==
  /\ At(p, "fill")
  /\ dir_at(walk[p].path) # Nowhere
  /\ Put(Append(walk[p].path, "b"), File)
  /\ Goto(p, "live")
  /\ UNCHANGED <<COUNTER, meddles, linked, lost>>

DropTempDir(p) ==
  /\ At(p, "live")
  /\ walk' = [walk EXCEPT ![p].stack = <<Frame(walk[p].path)>>, ![p].pc = "open"]
  /\ Keeps

\* The process ends without the drop, and one with its pid starts again.
Restart(p) ==
  /\ At(p, "fill") \/ At(p, "live")
  /\ meddles < MaxMeddles
  /\ meddles' = meddles + 1
  /\ walk' = [walk EXCEPT ![p] = Walk("temp")]
  /\ COUNTER' = [COUNTER EXCEPT ![p] = 0]
  /\ UNCHANGED <<ent, linked, lost>>

(***************************************************************************)
(* Another process, in the tree that is walked.                            *)
(***************************************************************************)
\* A removal that is not over is in the directory under this name: from the
\* lstat, or the call itself for the argument, up to its rmdir.
Entered(d, n) ==
  \E p \in Walkers : \E f \in Range(walk[p].stack) :
    /\ ~At(p, "ok") /\ ~At(p, "err")
    /\ Last(f.path) = n /\ dir_at(Front(f.path)) = d

Meddle(d, n) ==
  /\ \E p \in Walkers : walk[p].op # "temp"
  /\ meddles < MaxMeddles
  /\ meddles' = meddles + 1
  /\ \E e \in {None, File, Link} \ {ent[d][n]} :
       /\ ent[d][n].kind = "dir" => e = Link
       /\ ent' = [ent EXCEPT ![d][n] = e]
       /\ linked' = (linked \/ (e = Link /\ Entered(d, n)))
  /\ UNCHANGED <<walk, COUNTER, lost>>

TreeNext ==
  \/ \E p \in Walkers :
       \/ read_dir(p) \/ ReaddirFails(p) \/ symlink_metadata(p) \/ unlink(p) \/ rmdir(p)
       \/ create_dir_all(p) \/ MkdirFails(p)
       \/ fetch_add(p) \/ new_in(p) \/ Fill(p) \/ DropTempDir(p) \/ Restart(p)
  \/ \E d \in Dirs \ {Outside}, n \in {"t", "a", "b"} : Meddle(d, n)

TreeSpec == TreeInit /\ [][TreeNext]_treeVars

-----------------------------------------------------------------------------
(***************************************************************************)
(* Properties                                                              *)
(***************************************************************************)
Ended == \A p \in Walkers : walk[p].pc \in {"ok", "err"}
Active == {p \in Walkers : walk[p].op # "none"}
Ops == {walk[p].op : p \in Active}
Answers == {walk[p].pc : p \in Active}

\* A removal takes nothing out of the directory outside through the links it
\* meets: what lstat calls a link is unlinked, not followed.  Left out is a
\* link in the place of a directory the removal is in, since every call names
\* a whole path and follows the links on the way.  There are three: the
\* argument is a link, and opendir follows it; a directory becomes a link
\* between the lstat and the opendir; or one that was opened and listed does,
\* or one above it, while its children are still looked at and unlinked.
OutsideIsSafe == lost => linked

\* What the comment on fs::remove_dir_all says: it does not follow links, a
\* link pointing out of the tree does not take the deletion with it.
LinksAreNotFollowed == ~lost

RemovalIsComplete ==
  /\ Ended /\ meddles = 0 /\ ~linked
  /\ Ops # {} /\ Ops \subseteq Removals
  /\ Cardinality(Active) = 1 \/ "fs_remove" \notin Ops
  => lstat(<<"t">>).kind # "dir"

RacingCreatesAgree ==
  Ended /\ meddles = 0 /\ Ops = {"create"} =>
    \/ Answers = {"ok"} /\ lstat(<<"t", "a">>) # None
    \/ Answers = {"err"} /\ lstat(<<"t">>) = File

\* A tree nobody adds to is gone when its removal is over, also when two of
\* file's removals are in each other's way; two of fs's can both answer with
\* an error over what the other took, and leave the tree.  Calls of
\* create_dir_all that race for the same directories all answer the same: Ok,
\* with the path in place, or an error because a file is in the way.  A file
\* under the last name itself is an Ok, too.
WalksFinish == RemovalIsComplete /\ RacingCreatesAgree

\* The directory of a TempDir is there and its own until it is dropped: no
\* other TempDir of the same pid has its path, over a stale directory or
\* after a restart, and no other's drop takes away what it holds.
TempDirIsOwn ==
  \A p \in Walkers : walk[p].pc \in {"fill", "live"} =>
    /\ lstat(walk[p].path).kind = "dir"
    /\ At(p, "live") => lstat(Append(walk[p].path, "b")) = File
    /\ \A q \in Walkers \ {p} :
         walk[q].path = walk[p].path => walk[q].pc \in {"name", "claim", "ok", "err"}
=============================================================================
