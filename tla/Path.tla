-------------------------------- MODULE Path --------------------------------
(***************************************************************************)
(* src/path.rs: a path is a sequence of bytes with "/" between its parts.  *)
(* The operators are the methods of Path and PathBuf; an Option is the set *)
(* of what it holds.  Positions are counted as in the code, so that a      *)
(* slice from i to j is SubSeq(p, i + 1, j).                               *)
(***************************************************************************)
EXTENDS Integers, Sequences, SequencesExt

CONSTANTS Bytes,   \* the bytes a path is made of: "/", "." and letters
          MaxLen   \* bound: the length of the path a program holds

VARIABLE buf  \* PathBuf::inner

Slash == <<"/">>
Dot == <<".">>
DotDot == <<".", ".">>

\* rposition of a byte, plus one: 0 when there is none.
After(s, byte) == SelectLastInSeq(s, LAMBDA b : b = byte)

split(s, byte) ==
  FoldLeft(LAMBDA parts, b : IF b = byte THEN Append(parts, <<>>)
                             ELSE [parts EXCEPT ![Len(parts)] = Append(@, b)],
           << <<>> >>, s)

(***************************************************************************)
(* Path                                                                    *)
(***************************************************************************)
is_absolute(p) == IsPrefix(Slash, p)

leading_cur_dir(p) == IsPrefix(Dot, p) /\ (Len(p) = 1 \/ p[2] = "/")

body_start(p) == IF is_absolute(p) \/ leading_cur_dir(p) THEN 1 ELSE 0

\* Mutant: a "." in the middle is taken for a name.
trim_separators(p) ==
  LET floor == body_start(p)
      trim[end \in 0..Len(p)] ==
        LET body == SubSeq(p, floor + 1, end)
            last == SubSeq(body, After(body, "/") + 1, Len(body))
        IN  IF end <= floor \/ last # <<>> THEN end ELSE trim[floor + After(body, "/") - 1]
  IN  trim

\* The function from an end to the end moved back: one turn of the loop per
\* application, a last part that is neither empty nor "." ends it.
trim_back(p) ==
  LET floor == body_start(p)
      trim[end \in 0..Len(p)] ==
        LET body == SubSeq(p, floor + 1, end)
            i == After(body, "/")
            last == SubSeq(body, i + 1, Len(body))
        IN  IF end <= floor \/ last \notin {<<>>, Dot} THEN end
            ELSE trim[IF i = 0 THEN floor ELSE floor + i - 1]
  IN  trim

last_body_component(p) ==
  LET floor == body_start(p)
      end == trim_back(p)[Len(p)]
  IN  IF end = floor THEN {}
      ELSE {[start |-> floor + After(SubSeq(p, floor + 1, end), "/"), end |-> end]}

file_name(p) ==
  {SubSeq(p, c.start + 1, c.end) : c \in last_body_component(p)} \ {DotDot}

parent(p) ==
  LET last == last_body_component(p)
  IN  IF last # {} THEN {SubSeq(p, 1, trim_back(p)[c.start]) : c \in last}
      ELSE IF leading_cur_dir(p) THEN {<<>>} ELSE {}

\* A dot at the front of a name starts no extension.
extension(p) ==
  {SubSeq(n, After(n, ".") + 1, Len(n)) : n \in {m \in file_name(p) : After(m, ".") > 1}}

file_stem(p) ==
  {IF After(n, ".") > 1 THEN SubSeq(n, 1, After(n, ".") - 1) ELSE n : n \in file_name(p)}

starts_with(p, prefix) ==
  /\ IsPrefix(prefix, p)
  /\ \/ Len(p) = Len(prefix)
     \/ p[Len(prefix) + 1] = "/"
     \/ IsSuffix(Slash, prefix)

strip_prefix(p, prefix) ==
  LET rest == SubSeq(p, Len(prefix) + 1, Len(p))
  IN  IF ~starts_with(p, prefix) THEN {}
      ELSE {IF is_absolute(rest) THEN Tail(rest) ELSE rest}

\* The path, its parent, the parent of that, up to one that has none; each is a
\* front of the path and is told by its length.
ancestors(p) ==
  LET up[n \in 0..Len(p)] ==
        LET at == SubSeq(p, 1, n)
        IN  <<at>> \o IF parent(at) = {} THEN <<>> ELSE up[Len(CHOOSE q \in parent(at) : TRUE)]
  IN  up[Len(p)]

parts(p) == SelectSeq(split(p, "/"), LAMBDA s : s # <<>>)

\* A component is told by the bytes as_os_str gives for it.
components(p) == (IF is_absolute(p) THEN <<Slash>> ELSE <<>>) \o parts(p)

(***************************************************************************)
(* PathBuf                                                                 *)
(***************************************************************************)
\* Mutant: an absolute path is appended like any other.
push_below(p, o) ==
  (IF p # <<>> /\ ~IsSuffix(Slash, p) THEN Append(p, "/") ELSE p) \o o

push(p, o) ==
  IF is_absolute(o) THEN o
  ELSE (IF p # <<>> /\ ~IsSuffix(Slash, p) THEN Append(p, "/") ELSE p) \o o

pop(p) == IF parent(p) = {} THEN p ELSE SubSeq(p, 1, Len(CHOOSE q \in parent(p) : TRUE))

set_file_name(p, name) == push(IF file_name(p) # {} THEN pop(p) ELSE p, name)

set_extension(p, ext) ==
  LET start == After(p, "/")
      dot == After(SubSeq(p, start + 1, Len(p)), ".")
  IN  (IF dot > 1 THEN SubSeq(p, 1, start + dot - 1) ELSE p)
        \o (IF ext = <<>> THEN <<>> ELSE Dot \o ext)

from_iter(ps) == FoldLeft(push, <<>>, ps)

(***************************************************************************)
(* A program that holds a PathBuf and edits it.                            *)
(***************************************************************************)
MaxInput == 2  \* bound: the length of what is given to an edit
Inputs == BoundedSeq(Bytes, MaxInput)

PathInit == buf \in BoundedSeq(Bytes, MaxLen)

PathNext ==
  /\ \/ \E o \in Inputs : buf' = push(buf, o)
     \/ buf' = pop(buf)
     \/ \E o \in Inputs : buf' = set_file_name(buf, o)
     \/ \E o \in Inputs : buf' = set_extension(buf, o)
  /\ Len(buf') <= MaxLen

-----------------------------------------------------------------------------
(***************************************************************************)
(* Properties                                                              *)
(***************************************************************************)

\* The reference: what std takes a path to be.  "." counts only at the front
\* of a relative path, and repeated separators count once.
Std(p) ==
  LET named == SelectSeq(components(p), LAMBDA c : c # Dot)
  IN  IF leading_cur_dir(p) THEN <<Dot>> \o named ELSE named

\* What follows std's path when it is appended.
Below(o) == SelectSeq(Std(o), LAMBDA c : c # Dot)
Joined(c, o) ==
  IF is_absolute(o) THEN Std(o) ELSE IF c = <<>> THEN Std(o) ELSE c \o Below(o)

IsName(c) == c \notin {Slash, Dot, DotDot}

\* parent and file_name take a path apart at its last component, as std does,
\* whatever separators and "." stand around it: parent drops that component
\* and no other, and only the root and the empty path have none, so that
\* ancestors ends there with one component less each time.  file_name is that
\* component when it is a name, and stem and extension put together are the
\* file name.
SplitsAtTheLast ==
  LET c == Std(buf)
  IN  /\ parent(buf) = {} <=> c \in {<<>>, <<Slash>>}
      /\ \A q \in parent(buf) : /\ Std(q) = Front(c)
                                /\ IsStrictPrefix(q, buf)
      /\ file_name(buf) = IF c # <<>> /\ IsName(Last(c)) THEN {Last(c)} ELSE {}
      /\ extension(buf) # {} =>
           file_name(buf) = {s \o Dot \o e : s \in file_stem(buf), e \in extension(buf)}
      /\ LET up == ancestors(buf)
         IN  /\ \A i \in DOMAIN up : Std(up[i]) = SubSeq(c, 1, Len(c) - i + 1)
             /\ parent(Last(up)) = {}

\* The edits: push joins, set_file_name changes the last component alone, and
\* set_extension the extension alone, on a path whose bytes end in its file
\* name (on a/ it makes a/.x, and on a/.. it makes a/..x).
EditsAreLocal(o) ==
  LET c == Std(buf)
      base == IF file_name(buf) # {} THEN Front(c) ELSE c
      q == set_extension(buf, o)
  IN  /\ Std(push(buf, o)) = Joined(c, o)
      /\ Std(set_file_name(buf, o)) = Joined(base, o)
      /\ \A n \in file_name(buf) :
           /\ IsSuffix(n, buf)
           /\ o # <<>> /\ \A i \in DOMAIN o : o[i] \notin {"/", "."}
           => parent(q) = parent(buf) /\ file_stem(q) = file_stem(buf) /\ extension(q) = {o}

\* What strip_prefix leaves, joined to the prefix again, is the path it was
\* taken from; not so for an empty prefix, which turns /a into a, and for a
\* repeated separator, of which one is left in front: a//b without a is /b.
PrefixIsUndone(prefix) ==
  \A rest \in strip_prefix(buf, prefix) :
    /\ IsPrefix(Std(prefix), Std(buf))
    /\ prefix # <<>> /\ ~is_absolute(rest) => Std(push(prefix, rest)) = Std(buf)

\* An edit changes the components it is about and no other, whatever
\* separators stand around them; starts_with holds for whole components only,
\* although it compares bytes; joining undoes strip_prefix, and collecting the
\* components of a path gives the same path.
EditsKeepTheRest ==
  /\ Std(from_iter(components(buf))) = Std(buf)
  /\ \A o \in Inputs : EditsAreLocal(o)
  /\ \A n \in 0..Len(buf) : PrefixIsUndone(SubSeq(buf, 1, n))
=============================================================================
