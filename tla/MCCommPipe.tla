----------------------------- MODULE MCCommPipe -----------------------------
(* CommPipe for TLC: a ring of four slots (three words), reader woken by   *)
(* two words, two word values so that a reordering shows.                  *)
EXTENDS CommPipe

MCWord == {"a", "b"}
MCsize == 4
MCchunks == 2
=============================================================================
