---------------------------- MODULE MCNative2Amiga ----------------------------
(* Two host threads and the emulator thread; a pipe smaller than three        *)
(* messages, so that senders wait for room and the emulator thread gets       *)
(* stuck.                                                                     *)
EXTENDS Native2Amiga
=============================================================================
