--------------------------- MODULE MCExtendedTrap ---------------------------
(* ExtendedTrap for TLC: two Amiga tasks and three traps in flight, so     *)
(* that traps of two tasks overlap while one of them is nested.            *)
EXTENDS ExtendedTrap

CONSTANTS t1, t2, c1, c2, c3

MCTask == {t1, t2}
MCCtx == {c1, c2, c3}
MCMaxDepth == 2
MCMaxCalls == 2
=============================================================================
