------------------------------- MODULE MCOnce --------------------------------
(***************************************************************************)
(* Once for TLC: two Onces, each called with a function of its own.        *)
(***************************************************************************)
EXTENDS Once

CONSTANTS o1, o2, f1, f2

OwnFn == [o \in {o1, o2} |-> IF o = o1 THEN {f1} ELSE {f2}]
=============================================================================
