----------------------------- MODULE MCPortTable -----------------------------
(***************************************************************************)
(* PortTable for TLC.  Five names fill the first table (4 slots) and force *)
(* the second growth (8 slots).  Nothing orders the names, so permuting    *)
(* them is a symmetry of the specification and of every property.          *)
(***************************************************************************)
EXTENDS PortTable, TLC

NameSymmetry == Permutations(Names)
=============================================================================
