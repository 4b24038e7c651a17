---------------------------- MODULE Environment -----------------------------
(***************************************************************************)
(* What a child is started with: the builder of src/command.rs (program,   *)
(* arguments, overrides of the environment, places to look for the         *)
(* program) over src/env.rs.  Names and values are bytes, as in Path.      *)
(***************************************************************************)
EXTENDS Path

CONSTANTS Keys,      \* names of variables, one the front of another
          Values,    \* values of variables; arguments, too
          Environs,  \* the environments the process may have
          MaxBuilder \* bound: the calls of arg, args and env

\* A byte is a string of one character, and a name has no "=" in it.
ASSUME EnvironmentAssumption ==
  /\ Keys \cup Values \subseteq Seq(STRING)
  /\ Environs \subseteq Seq(Seq(STRING))
  /\ \A key \in Keys : ~Contains(key, "=")

VARIABLES environ, \* the entries KEY=VALUE of the process, in order
          cmd      \* Command: program, args, overrides

environmentVars == <<environ, cmd>>

EnvEntry(key, value) == key \o <<"=">> \o value
HasKey(entry, key) == IsPrefix(EnvEntry(key, <<>>), entry)

\* getenv: the value of the first entry of that name, as a set.
var_os(entries, key) ==
  LET i == SelectInSeq(entries, LAMBDA e : HasKey(e, key))
  IN  IF i = 0 THEN {} ELSE {SubSeq(entries[i], Len(key) + 2, Len(entries[i]))}

\* retain, and filter: s without its elements of S.
Without(s, S) == FoldLeft(LAMBDA kept, e : IF e \in S THEN kept ELSE Append(kept, e), <<>>, s)

split_paths(value) == Without(split(value, ":"), {<<>>})

\* /proc/self/cmdline split at its NULs: an empty argument is dropped.
args(argv) == Without(argv, {<<>>})

(***************************************************************************)
(* Command                                                                 *)
(***************************************************************************)
NewCommand(program) == [program |-> program, args |-> <<>>, overrides |-> <<>>]

EnvironmentInit ==
  /\ environ \in Environs
  /\ cmd \in {NewCommand(<<"a">>), NewCommand(<<"a", "/", "b">>)}

MayBuild == Len(cmd.args) + Len(cmd.overrides) < MaxBuilder

AddArg(a) ==
  /\ MayBuild
  /\ cmd' = [cmd EXCEPT !.args = Append(@, a)]
  /\ UNCHANGED environ

Override(key, value) ==
  /\ MayBuild
  /\ cmd' = [cmd EXCEPT !.overrides = Append(@, EnvEntry(key, value))]
  /\ UNCHANGED environ

MaxEntries == 3  \* bound: the entries set_var fills the environment up to

\* setenv: the first entry is replaced, or a new one added.
set_var(key, value) ==
  LET i == SelectInSeq(environ, LAMBDA e : HasKey(e, key))
  IN  /\ i > 0 \/ Len(environ) < MaxEntries
      /\ environ' = IF i > 0 THEN [environ EXCEPT ![i] = EnvEntry(key, value)]
                    ELSE Append(environ, EnvEntry(key, value))
      /\ UNCHANGED cmd

\* An entry up to its first "=", which it includes.
KeyPart(entry) == SubSeq(entry, 1, SelectInSeq(entry, LAMBDA b : b = "="))

\* Mutant: the key is compared without its "=".
environment_by_prefix(c) ==
  FoldLeft(LAMBDA entries, o :
             Append(Without(entries, {e \in Range(entries) : IsPrefix(Front(KeyPart(o)), e)}), o),
           environ, c.overrides)

environment(c) ==
  FoldLeft(LAMBDA entries, o :
             Append(Without(entries, {e \in Range(entries) : IsPrefix(KeyPart(o), e)}), o),
           environ, c.overrides)

\* Where the child's execve looks, in order; dir is joined as bytes.
candidates(program) ==
  IF Contains(program, "/") THEN <<program>>
  ELSE LET path == var_os(environ, <<"P">>)
           dirs == IF path = {} THEN <<>> ELSE split_paths(CHOOSE v \in path : TRUE)
       IN  [i \in DOMAIN dirs |->
              dirs[i] \o (IF IsSuffix(Slash, dirs[i]) THEN <<>> ELSE Slash) \o program]

argv(c) == <<c.program>> \o c.args

EnvironmentNext ==
  \/ \E a \in Values : AddArg(a)
  \/ \E key \in Keys, value \in Values : Override(key, value) \/ set_var(key, value)

EnvironmentSpec == EnvironmentInit /\ [][EnvironmentNext]_environmentVars

-----------------------------------------------------------------------------
(***************************************************************************)
(* Properties                                                              *)
(***************************************************************************)
LastOverride(key) ==
  LET i == SelectLastInSeq(cmd.overrides, LAMBDA e : HasKey(e, key))
  IN  IF i = 0 THEN {} ELSE {SubSeq(cmd.overrides[i], Len(key) + 2, Len(cmd.overrides[i]))}

\* The child's getenv gives the last override of a name, whatever entries of
\* it the process has, twice perhaps, and for every other name what the
\* process has, one whose name goes on where an overridden one ends included.
\* The program is looked for where Path would put it: under each directory of
\* PATH that is not empty.  Its arguments are those it was given, of which its
\* own args() returns all but the empty ones.
ChildIsToldAll ==
  /\ \A key \in Keys :
       var_os(environment(cmd), key) =
         IF LastOverride(key) # {} THEN LastOverride(key) ELSE var_os(environ, key)
  /\ Contains(cmd.program, "/") \/
       \A c \in Range(candidates(cmd.program)) :
         \E v \in var_os(environ, <<"P">>) :
           \E dir \in Range(split(v, ":")) : dir # <<>> /\ c = push(dir, cmd.program)
  /\ \A i \in DOMAIN cmd.args : cmd.args[i] # <<>> =>
       cmd.args[i] \in Range(args(argv(cmd)))
=============================================================================
