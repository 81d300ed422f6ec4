----------------------------- MODULE Native2Amiga -----------------------------
(* Calls of exec.library functions that host threads ask for (native2amiga.c). *)
(* A call is a message of two to four words in the pipe native2amiga_pending;  *)
(* the semaphore n2asem keeps the messages of different threads apart. After   *)
(* the last word the sender requests an interrupt. The interrupt wakes the     *)
(* exter task of filesys.asm, which has exter_int_helper read one message per  *)
(* call and performs it.                                                       *)
(*                                                                             *)
(* exter_int_helper is a trap: the emulator thread reads the pipe, and blocks  *)
(* while a message is incomplete. The emulator thread is a sender as well      *)
(* (record_timeout, media changes). The pipe is the one of BlockingPipe, which *)
(* CommPipe implements for one writer at a time.                               *)
EXTENDS Naturals, Sequences, FiniteSets

CONSTANTS Host,       \* threads of devices and filesystems
          Command,    \* the functions called in this instance
          Capacity,   \* words the pipe holds
          MaxMsgs,    \* calls made
          MaxResets   \* resets of the machine

Emu == "emulator"
Nobody == "nobody"
Sender == Host \cup {Emu}
Msg == 1..MaxMsgs

(* The words of a message, the command included.                              *)
Words == [Signal |-> 3, PutMsg |-> 3, ReplyMsg |-> 2, Cause |-> 2, NotificationHack |-> 3,
          ShellExecute |-> 2, ShellExecute2 |-> 2, Signal_with_Func |-> 4]

ASSUME NativeAssumption ==
  /\ Command \subseteq DOMAIN Words /\ Emu \notin Host /\ Nobody \notin Sender
  /\ MaxMsgs \in Nat /\ MaxResets \in Nat
  /\ Capacity \in Nat /\ \A c \in Command : Words[c] <= Capacity

Word == [msg : Msg, cmd : Command, part : 1..4]

VARIABLES
  pending, queue, delivered,   \* native2amiga_pending
  n2asem,                      \* the sender that holds the semaphore, or Nobody
  sender,                      \* where a thread is in its call
  call,                        \* Msg -> what has become of the call
  uae_int_requested,
  exter_sig,                   \* the signal the interrupt server sends
  exter,                       \* the exter task: waits, or calls the helper again
  helper,                      \* "out", or "in" while the trap reads
  reading,                     \* the words the helper has read of one message
  resetting,                   \* the emulator thread is in devices_reset
  resets,
  cut                          \* a reset emptied the pipe under a sender

pipe == <<pending, queue, delivered>>
amiga == <<exter_sig, exter, helper, reading>>
vars == <<pipe, n2asem, sender, call, uae_int_requested, amiga, resetting, resets, cut>>

Pipe == INSTANCE BlockingPipe

NoCall == [pc |-> "idle"]
InCall == [pc : {"wait", "write", "put", "int", "post"}, msg : Msg, cmd : Command, part : 1..5]

Init ==
  /\ Pipe!Init
  /\ n2asem = Nobody
  /\ sender = [s \in Sender |-> NoCall]
  /\ call = [m \in Msg |-> "none"]
  /\ uae_int_requested = FALSE /\ exter_sig = FALSE
  /\ exter = "wait" /\ helper = "out" /\ reading = <<>>
  /\ resetting = FALSE /\ resets = 0 /\ cut = FALSE

(* The emulator thread is not inside a trap, a call or a reset.               *)
EmuFree == sender[Emu].pc = "idle" /\ helper = "out" /\ ~resetting

-------------------------------------------------------------------------------
(* uae_Signal and its kin, on thread s.                                       *)
Begin(s, m, c) ==
  /\ ~cut /\ sender[s].pc = "idle" /\ (s = Emu => EmuFree)
  /\ call[m] = "none" /\ \A n \in 1..(m - 1) : call[n] # "none"
  /\ sender' = [sender EXCEPT ![s] = [pc |-> "wait", msg |-> m, cmd |-> c, part |-> 1]]
  /\ call' = [call EXCEPT ![m] = "begun"]
  /\ UNCHANGED <<pipe, n2asem, uae_int_requested, amiga, resetting, resets, cut>>

At(s, pc) == ~cut /\ sender[s].pc = pc
Goto(s, pc) == sender' = [sender EXCEPT ![s].pc = pc]

(* Fault: the message is written without the semaphore.                       *)
uae_nativesem_ignored(s) ==
  /\ At(s, "wait") /\ Goto(s, "write")
  /\ UNCHANGED <<pipe, n2asem, call, uae_int_requested, amiga, resetting, resets, cut>>

(* The semaphore is held until the interrupt has been requested.              *)
uae_nativesem_wait(s) ==
  /\ At(s, "wait") /\ n2asem = Nobody
  /\ n2asem' = s /\ Goto(s, "write")
  /\ UNCHANGED <<pipe, call, uae_int_requested, amiga, resetting, resets, cut>>

NextWord(s) == [msg |-> sender[s].msg, cmd |-> sender[s].cmd, part |-> sender[s].part]

WriteWord(s) ==
  /\ At(s, "write") /\ Pipe!Call(NextWord(s)) /\ Goto(s, "put")
  /\ UNCHANGED <<n2asem, call, uae_int_requested, amiga, resetting, resets, cut>>

Written(s) ==
  LET last == sender[s].part = Words[sender[s].cmd]
  IN sender' = [sender EXCEPT ![s].part = @ + 1, ![s].pc = IF last THEN "int" ELSE "write"]

(* Fault: the word is stored in a full pipe.                                  *)
WordIsForced(s) ==
  /\ At(s, "put") /\ pending' = <<>> /\ queue' = Append(queue, NextWord(s)) /\ Written(s)
  /\ UNCHANGED <<delivered, n2asem, call, uae_int_requested, amiga, resetting, resets, cut>>

(* The write waits while the pipe is full.                                    *)
WordIsIn(s) ==
  /\ At(s, "put") /\ Pipe!Put(NextWord(s)) /\ Written(s)
  /\ UNCHANGED <<n2asem, call, uae_int_requested, amiga, resetting, resets, cut>>

(* Fault: the interrupt is not requested.                                     *)
int_not_requested(s) ==
  /\ At(s, "int") /\ Goto(s, "post")
  /\ UNCHANGED <<pipe, n2asem, call, uae_int_requested, amiga, resetting, resets, cut>>

(* The last word is in, the interrupt is requested.                           *)
do_uae_int_requested(s) ==
  /\ At(s, "int")
  /\ uae_int_requested' = TRUE /\ Goto(s, "post")
  /\ call' = [call EXCEPT ![sender[s].msg] = IF @ = "begun" THEN "sent" ELSE @]
  /\ UNCHANGED <<pipe, n2asem, amiga, resetting, resets, cut>>

uae_nativesem_post(s) ==
  /\ At(s, "post")
  /\ n2asem' = Nobody /\ sender' = [sender EXCEPT ![s] = NoCall]
  /\ UNCHANGED <<pipe, call, uae_int_requested, amiga, resetting, resets, cut>>

-------------------------------------------------------------------------------
(* The interrupt server tests and clears the request, and signals the task.   *)
ExterServer ==
  /\ ~cut /\ EmuFree /\ uae_int_requested
  /\ uae_int_requested' = FALSE /\ exter_sig' = TRUE
  /\ UNCHANGED <<pipe, n2asem, sender, call, exter, helper, reading, resetting, resets, cut>>

ExterWakes ==
  /\ ~cut /\ EmuFree /\ exter = "wait" /\ exter_sig
  /\ exter_sig' = FALSE /\ exter' = "loop"
  /\ UNCHANGED <<pipe, n2asem, sender, call, uae_int_requested, helper, reading, resetting,
                 resets, cut>>

(* Fault: the helper does not test for data.                                  *)
AlwaysData == TRUE

comm_pipe_has_data == queue # <<>>

(* exter_int_helper(10), (11) and so on, until it finds nothing to do. What   *)
(* it does for the units is in FilesysUnit.                                   *)
HelperStarts ==
  /\ ~cut /\ EmuFree /\ exter = "loop" /\ reading = <<>> /\ comm_pipe_has_data
  /\ helper' = "in"
  /\ UNCHANGED <<pipe, n2asem, sender, call, uae_int_requested, exter_sig, exter, reading,
                 resetting, resets, cut>>

HelperFindsNothing ==
  /\ ~cut /\ EmuFree /\ exter = "loop" /\ reading = <<>> /\ ~comm_pipe_has_data
  /\ exter' = "wait"
  /\ UNCHANGED <<pipe, n2asem, sender, call, uae_int_requested, exter_sig, helper, reading,
                 resetting, resets, cut>>

(* A blocking read. The first word says how many there are.                   *)
HelperReads ==
  /\ ~cut /\ helper = "in"
  /\ Pipe!Get
  /\ reading' = Append(reading, Head(queue))
  /\ helper' = IF Len(reading') = Words[reading'[1].cmd] THEN "out" ELSE "in"
  /\ UNCHANGED <<n2asem, sender, call, uae_int_requested, exter_sig, exter, resetting, resets,
                 cut>>

(* Back in the exter task, the function is called.                            *)
ExterPerforms ==
  /\ ~cut /\ EmuFree /\ reading # <<>>
  /\ call' = [call EXCEPT ![reading[1].msg] = "performed"]
  /\ reading' = <<>>
  /\ UNCHANGED <<pipe, n2asem, sender, uae_int_requested, exter_sig, exter, helper, resetting,
                 resets, cut>>

-------------------------------------------------------------------------------
(* native2amiga_reset in devices_reset: the positions are zeroed without the  *)
(* semaphore, while other threads go on. A sender in the middle of a message, *)
(* or asleep in the pipe, is cut off: words or its wake-up are lost, and      *)
(* nothing is said about what follows.                                        *)
Midway(s) == sender[s].pc = "put" \/ (sender[s].pc = "write" /\ sender[s].part > 1)

native2amiga_reset ==
  /\ ~cut /\ EmuFree /\ resets < MaxResets
  /\ queue' = <<>> /\ UNCHANGED <<pending, delivered>>
  /\ cut' = \E s \in Host : Midway(s)
  /\ LET lost == {queue[i].msg : i \in DOMAIN queue} \cup {reading[i].msg : i \in DOMAIN reading}
     IN call' = [m \in Msg |-> IF m \in lost THEN "dropped" ELSE call[m]]
  /\ exter_sig' = FALSE /\ exter' = "wait" /\ helper' = "out" /\ reading' = <<>>
  /\ resetting' = TRUE /\ resets' = resets + 1
  /\ UNCHANGED <<n2asem, sender, uae_int_requested>>

(* The end of devices_reset forgets the interrupt of a call made since.       *)
ResetEnds ==
  /\ ~cut /\ resetting
  /\ resetting' = FALSE /\ uae_int_requested' = FALSE
  /\ call' = [m \in Msg |-> IF call[m] = "sent" THEN "stranded" ELSE call[m]]
  /\ UNCHANGED <<pipe, n2asem, sender, amiga, resets, cut>>

-------------------------------------------------------------------------------
Sends(s) ==
  \/ uae_nativesem_wait(s) \/ WriteWord(s) \/ WordIsIn(s)
  \/ do_uae_int_requested(s) \/ uae_nativesem_post(s)

ExterTask == ExterWakes \/ HelperStarts \/ HelperFindsNothing \/ HelperReads \/ ExterPerforms

Next ==
  \/ \E s \in Sender, m \in Msg, c \in Command : Begin(s, m, c)
  \/ \E s \in Sender : Sends(s)
  \/ ExterServer \/ ExterTask \/ native2amiga_reset \/ ResetEnds

Spec == Init /\ [][Next]_vars

(* A thread that is in a call runs on; the emulated machine runs, with its    *)
(* interrupts enabled, and gives the exter task its turn.                     *)
FairSpec ==
  /\ Spec
  /\ \A s \in Sender : WF_vars(Sends(s))
  /\ WF_vars(ExterServer) /\ WF_vars(ExterTask) /\ WF_vars(ResetEnds)

-------------------------------------------------------------------------------
(* The pipe holds no more words than it has room for, and threads, calls and  *)
(* flags have values of their types.                                          *)
TypeOK ==
  /\ Pipe!PipeTypeOK
  /\ n2asem \in Sender \cup {Nobody}
  /\ sender \in [Sender -> {NoCall} \cup InCall]
  /\ call \in [Msg -> {"none", "begun", "sent", "performed", "dropped", "stranded"}]
  /\ reading \in Seq(Word) /\ helper \in {"in", "out"} /\ exter \in {"wait", "loop"}
  /\ {uae_int_requested, exter_sig, resetting, cut} \subseteq BOOLEAN
  /\ resets \in 0..MaxResets

(* The helper reads the words of one message, in order and from the first,    *)
(* however the senders interleave and whatever a reset dropped before, unless *)
(* the reset cut a sender off.                                                *)
WholeMessages ==
  ~cut => \A i \in DOMAIN reading : reading[i].part = i /\ reading[i].msg = reading[1].msg

(* The emulator thread makes a call while the pipe is full. It is the thread  *)
(* that empties the pipe, so it waits for itself, or for the sender that      *)
(* holds n2asem and waits for it.                                             *)
Stuck == sender[Emu].pc \in {"wait", "put"} /\ Len(queue) = Capacity

(* The emulator thread comes back from its own calls and from the blocking    *)
(* reads of exter_int_helper. Only a full pipe can stop it, or a reset that   *)
(* cut a sender off.                                                          *)
EmulatorReturns == ~EmuFree ~> (EmuFree \/ Stuck \/ cut)

(* A pipe full of calls whose interrupt a reset forgot.                       *)
Clogged == Len(queue) = Capacity /\ \E m \in Msg : call[m] = "stranded"

(* A call that was begun is performed, unless a reset drops it or forgets its *)
(* interrupt: no request is lost between the test for data, the end of the    *)
(* exter task's loop and the next interrupt, and senders that wait for room   *)
(* get it.                                                                    *)
CallsArrive ==
  \A m \in Msg :
    (call[m] = "begun") ~> \/ call[m] \in {"performed", "dropped", "stranded"}
                          \/ Stuck \/ Clogged \/ cut
=============================================================================
