---------------------------- MODULE BlockingPipe ----------------------------
(***************************************************************************)
(* What smp_comm_pipe (src/sources/src/include/commpipe.h) promises to its *)
(* callers: a bounded first-in first-out queue of words between one        *)
(* writing and one reading thread.  A write waits while the pipe is full,  *)
(* a read waits while it is empty.  CommPipe.tla models the code and is    *)
(* shown to implement this module; the modules of the pipe's users are     *)
(* built on this one.                                                      *)
(***************************************************************************)
EXTENDS Naturals, Sequences

CONSTANTS Word,      \* what a uae_pt can hold
          Capacity   \* the most words queued at once

VARIABLES pending,    \* <<>>, or <<w>> for the argument of the write in progress
          queue,      \* the words in transit, oldest first
          delivered   \* <<>>, or <<w>> for the word last handed to the reader

pipeVars == <<pending, queue, delivered>>

MaybeWord == {<<>>} \cup {<<w>> : w \in Word}

PipeTypeOK == /\ queue \in Seq(Word)
              /\ Len(queue) =< Capacity
              /\ pending \in MaybeWord /\ delivered \in MaybeWord

Init == pending = <<>> /\ queue = <<>> /\ delivered = <<>>

Call(w) == /\ pending = <<>> /\ pending' = <<w>>
           /\ UNCHANGED <<queue, delivered>>

Put(w) == /\ pending = <<w>> /\ pending' = <<>>
          /\ Len(queue) < Capacity
          /\ queue' = Append(queue, w)
          /\ UNCHANGED delivered

Get == /\ queue # <<>>
       /\ delivered' = <<Head(queue)>>
       /\ queue' = Tail(queue)
       /\ UNCHANGED pending

Next == Get \/ \E w \in Word : Call(w) \/ Put(w)

Spec == Init /\ [][Next]_pipeVars
=============================================================================
