------------------------------ MODULE MCFiles -------------------------------
(***************************************************************************)
(* Files for TLC.                                                          *)
(***************************************************************************)
EXTENDS Files

CONSTANTS p1, p2, a, b

\* Within a sector, and across a boundary when written at an odd offset.
MCBuffers == {<<1, 1>>}

\* Processes and names are interchangeable.
MCSymmetry == Permutations(Process) \cup Permutations(Name)
=============================================================================
