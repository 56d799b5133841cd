---------------------------- MODULE MCFwDownload ----------------------------
(* An image of three parts; the waits are cut to two steps. *)
EXTENDS FwDownload, TLC

CONSTANTS p1, p2, p3

ThreeParts == {p1, p2, p3}

Symmetry == Permutations(ThreeParts)
=============================================================================
