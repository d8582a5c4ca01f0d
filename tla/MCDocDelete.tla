---------------------------- MODULE MCDocDelete ----------------------------
EXTENDS DocDelete

CONSTANTS general, legal, flat, archive

MCTyped == {general, legal}
(* Typed and listed; migrated and listed; legacy, with a path in the row and *)
(* without; no document.                                                     *)
MCBases == {[dir |-> general, row |-> general], [dir |-> archive, row |-> archive],
            [dir |-> flat, row |-> flat], [dir |-> flat, row |-> Nowhere], Absent}
=============================================================================
