--------------------------- MODULE MCFilesysUnit ---------------------------
(* FilesysUnit for TLC: two packets, so that one can be refused a start    *)
(* while the other is performed, and, where two may be started, one can    *)
(* wait for a record lock that the other one frees.                        *)
EXTENDS FilesysUnit, TLC

CONSTANTS p1, p2

MCTwo == {p1, p2}

(* Packets are only compared with each other.                              *)
MCSymmetry == Permutations(MCTwo)
=============================================================================
