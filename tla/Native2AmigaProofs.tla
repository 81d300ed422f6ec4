------------------------- MODULE Native2AmigaProofs -------------------------
(***************************************************************************)
(* Proofs about Native2Amiga, for any host threads, commands, calls and    *)
(* resets and any pipe that holds one message: n2asem gives the pipe one   *)
(* writer at a time, and the words between the sender that holds it and    *)
(* the helper that reads are whole messages but for the last.              *)
(***************************************************************************)
EXTENDS Native2Amiga, TLAPS

(* The words sent and not yet performed, oldest first: those the helper    *)
(* has read, then those in the pipe.                                       *)
Sent == Len(reading) + Len(queue)
Stream(i) == IF i =< Len(reading) THEN reading[i] ELSE queue[i - Len(reading)]

Complete(w) == w.part = Words[w.cmd]

(* v comes after w in a stream of whole messages.                          *)
Follows(w, v) ==
  IF Complete(w) THEN v.part = 1
  ELSE v.msg = w.msg /\ v.cmd = w.cmd /\ v.part = w.part + 1

ChainInv ==
  /\ Sent > 0 => Stream(1).part = 1
  /\ \A i \in 1 .. Sent : i < Sent => Follows(Stream(i), Stream(i + 1))

(* The next word to be written continues the stream, which ends with a     *)
(* whole message while nobody is writing.                                  *)
Writing(s) == sender[s].pc \in {"write", "put"}

EndInv ==
  ~cut =>
    /\ \A s \in Sender : Writing(s) => IF Sent = 0 THEN sender[s].part = 1
                                       ELSE Follows(Stream(Sent), NextWord(s))
    /\ (\A s \in Sender : ~Writing(s)) /\ Sent > 0 => Complete(Stream(Sent))

(* What the helper has read is the beginning of one message, and all of it *)
(* once the trap is over.                                                  *)
ReadingInv ==
  /\ \A i \in 1 .. Len(reading) :
       reading[i].part = i /\ reading[i].msg = reading[1].msg /\ reading[i].cmd = reading[1].cmd
  /\ reading # <<>> => IF helper = "out" THEN Len(reading) = Words[reading[1].cmd]
                       ELSE Len(reading) < Words[reading[1].cmd]

(* Only the holder of n2asem is past the wait for it.                      *)
HolderInv ==
  \A s \in Sender : sender[s].pc \in {"write", "put", "int", "post"} <=> n2asem = s

PartInv ==
  \A s \in Sender : /\ sender[s].pc = "wait" => sender[s].part = 1
                    /\ Writing(s) => sender[s].part =< Words[sender[s].cmd]

(* A write is in progress exactly while the holder is in it.               *)
PendingInv ==
  /\ \A s \in Sender : sender[s].pc = "put" => pending = <<NextWord(s)>>
  /\ (\A s \in Sender : sender[s].pc # "put") => pending = <<>>

NativeInv ==
  TypeOK /\ ChainInv /\ EndInv /\ ReadingInv /\ HolderInv /\ PartInv /\ PendingInv

-----------------------------------------------------------------------------
(* A message is two to four words long.                                    *)
LEMMA WordsBound == \A c \in Command : Words[c] \in 2 .. 4
BY NativeAssumption DEF Words

(* The stream of words that were sent.                                     *)
LEMMA StreamType == ASSUME TypeOK PROVE Sent \in Nat /\ \A i \in 1 .. Sent : Stream(i) \in Word
BY DEF TypeOK, Pipe!PipeTypeOK, Sent, Stream

(* A word that the helper takes out of the pipe stays where it is in the   *)
(* stream.                                                                 *)
LEMMA ReadKeepsStream ==
  ASSUME TypeOK, HelperReads
  PROVE  /\ queue # <<>> /\ Head(queue) = Stream(Len(reading) + 1) /\ Head(queue) \in Word
         /\ Len(reading) + 1 \in 1 .. Sent
         /\ Sent' = Sent /\ \A i \in 1 .. Sent : Stream(i)' = Stream(i)
<1>1. /\ queue \in Seq(Word) /\ queue # <<>> /\ reading \in Seq(Word)
      /\ queue' = Tail(queue) /\ reading' = Append(reading, Head(queue))
  BY DEF TypeOK, HelperReads, Pipe!Get, Pipe!PipeTypeOK
<1>2. /\ Len(queue') = Len(queue) - 1 /\ \A i \in 1 .. Len(queue) - 1 : queue'[i] = queue[i + 1]
      /\ Head(queue) = queue[1] /\ Len(queue) \in Nat \ {0}
  BY <1>1
<1>3. /\ Len(reading') = Len(reading) + 1 /\ \A i \in 1 .. Len(reading) : reading'[i] = reading[i]
      /\ reading'[Len(reading) + 1] = queue[1] /\ Len(reading) \in Nat
  BY <1>1, <1>2
<1>4. Sent' = Sent
  BY <1>2, <1>3 DEF Sent
<1>5. ASSUME NEW i \in 1 .. Sent PROVE Stream(i)' = Stream(i)
  <2>1. CASE i =< Len(reading)
    BY <2>1, <1>3 DEF Stream, Sent
  <2>2. CASE i = Len(reading) + 1
    BY <2>2, <1>2, <1>3 DEF Stream, Sent
  <2>3. CASE i > Len(reading) + 1
    <3>. DEFINE j == i - Len(reading) - 1
    <3>1. j \in 1 .. Len(queue) - 1 /\ j + 1 = i - Len(reading) /\ j = i - Len(reading')
      BY <2>3, <1>2, <1>3 DEF Sent
    <3>2. queue'[j] = queue[j + 1]
      BY <3>1, <1>2
    <3>3. Stream(i) = queue[i - Len(reading)] /\ Stream(i)' = queue'[i - Len(reading')]
      BY <2>3, <1>3 DEF Stream, Sent
    <3>. QED BY <3>1, <3>2, <3>3
  <2>. QED BY <2>1, <2>2, <2>3, <1>3 DEF Sent
<1>. QED BY <1>1, <1>2, <1>3, <1>4, <1>5 DEF Stream, Sent

(* A word put into the pipe is the new end of the stream.                  *)
LEMMA PutExtendsStream ==
  ASSUME TypeOK, NEW s \in Sender, WordIsIn(s)
  PROVE  /\ Sent \in Nat /\ Sent' = Sent + 1 /\ Stream(Sent)' = NextWord(s)
         /\ \A i \in 1 .. Sent : Stream(i)' = Stream(i)
<1>1. /\ queue \in Seq(Word) /\ reading \in Seq(Word) /\ reading' = reading
      /\ queue' = Append(queue, NextWord(s))
  BY DEF TypeOK, WordIsIn, Pipe!Put, Pipe!PipeTypeOK, amiga
<1>2. /\ Len(queue') = Len(queue) + 1 /\ queue'[Len(queue) + 1] = NextWord(s)
      /\ \A i \in 1 .. Len(queue) : queue'[i] = queue[i]
      /\ Len(queue) \in Nat /\ Len(reading) \in Nat
  BY <1>1
<1>3. Sent \in Nat /\ Sent' = Sent + 1
  BY <1>1, <1>2 DEF Sent
<1>4. Stream(Sent)' = NextWord(s)
  BY <1>1, <1>2 DEF Sent, Stream
<1>5. ASSUME NEW i \in 1 .. Sent PROVE Stream(i)' = Stream(i)
  <2>1. CASE i =< Len(reading)
    BY <2>1, <1>1 DEF Stream
  <2>2. CASE i > Len(reading)
    <3>1. i - Len(reading) \in 1 .. Len(queue)
      BY <2>2, <1>2 DEF Sent
    <3>. QED BY <3>1, <2>2, <1>1, <1>2 DEF Stream
  <2>. QED BY <2>1, <2>2, <1>2
<1>. QED BY <1>3, <1>4, <1>5

(* Most steps leave the stream alone.                                      *)
LEMMA StreamKept ==
  ASSUME UNCHANGED <<queue, reading>>
  PROVE  Sent' = Sent /\ \A i : Stream(i)' = Stream(i)
BY DEF Sent, Stream

(* The messages of the stream and the helper when the exter task calls the *)
(* function: the stream goes on with what is in the pipe.                  *)
LEMMA PerformKeepsPipe ==
  ASSUME NativeInv, ExterPerforms
  PROVE  /\ Sent' = Len(queue) /\ Sent = Len(reading) + Sent' /\ Len(reading) \in Nat \ {0}
         /\ Sent' \in Nat
         /\ \A i \in 1 .. Sent' : Stream(i)' = Stream(Len(reading) + i)
         /\ Complete(Stream(Len(reading)))
<1>1. /\ queue \in Seq(Word) /\ reading \in Seq(Word) /\ reading # <<>> /\ helper = "out"
      /\ reading' = <<>> /\ queue' = queue
  BY DEF NativeInv, TypeOK, Pipe!PipeTypeOK, ExterPerforms, EmuFree, pipe
<1>2. Len(queue) \in Nat /\ Len(reading) \in Nat \ {0} /\ Len(reading') = 0
  BY <1>1
<1>3. Sent' = Len(queue) /\ Sent = Len(reading) + Len(queue)
  BY <1>1, <1>2 DEF Sent
<1>4. \A i \in 1 .. Sent' : Stream(i)' = Stream(Len(reading) + i)
  BY <1>1, <1>2, <1>3 DEF Stream
<1>5. Complete(Stream(Len(reading)))
  <2>1. Len(reading) = Words[reading[1].cmd]
    BY <1>1 DEF NativeInv, ReadingInv
  <2>2. reading[Len(reading)].part = Len(reading) /\ reading[Len(reading)].cmd = reading[1].cmd
    BY <1>2 DEF NativeInv, ReadingInv
  <2>. QED BY <1>2, <2>1, <2>2 DEF Complete, Stream
<1>. QED BY <1>2, <1>3, <1>4, <1>5

-----------------------------------------------------------------------------
(* The pipe is empty and no call is in progress.                           *)
LEMMA InitNative == Init => NativeInv
<1>. SUFFICES ASSUME Init PROVE NativeInv
  OBVIOUS
<1>. USE DEF Init, Pipe!Init
<1>1. TypeOK
  <2>1. sender \in [Sender -> {NoCall} \cup InCall]
    OBVIOUS
  <2>2. queue \in Seq(Word) /\ reading \in Seq(Word) /\ Len(queue) = 0
    OBVIOUS
  <2>3. call \in [Msg -> {"none", "begun", "sent", "performed", "dropped", "stranded"}]
    OBVIOUS
  <2>4. Pipe!PipeTypeOK
    <3>1. Len(queue) =< Capacity /\ pending = <<>> /\ delivered = <<>>
      BY <2>2, NativeAssumption
    <3>. QED BY <2>2, <3>1 DEF Pipe!PipeTypeOK, Pipe!MaybeWord
  <2>5. resets \in 0 .. MaxResets /\ n2asem \in Sender \cup {Nobody}
    BY NativeAssumption
  <2>6. {uae_int_requested, exter_sig, resetting, cut} \subseteq BOOLEAN
    OBVIOUS
  <2>. QED BY <2>1, <2>2, <2>3, <2>4, <2>5, <2>6 DEF TypeOK
<1>2. Sent = 0
  BY DEF Sent
<1>. QED BY <1>1, <1>2, NativeAssumption
         DEF NativeInv, ChainInv, EndInv, ReadingInv, HolderInv, PartInv, PendingInv, Writing,
             NoCall, Sender

(* Type correctness.                                                       *)
LEMMA NextTypeOK == NativeInv /\ [Next]_vars => TypeOK'
<1>. SUFFICES ASSUME NativeInv, [Next]_vars PROVE TypeOK'
  OBVIOUS
<1>. USE NativeAssumption, WordsBound
     DEF TypeOK, Pipe!PipeTypeOK, Pipe!MaybeWord, InCall, Goto, At, pipe, amiga
<1>0. TypeOK
  BY DEF NativeInv
<1>1. ASSUME NEW s \in Sender, NEW m \in Msg, NEW c \in Command, Begin(s, m, c) PROVE TypeOK'
  BY <1>0, <1>1 DEF Begin
<1>2. ASSUME NEW s \in Sender, uae_nativesem_wait(s) PROVE TypeOK'
  <2>1. sender[s] \in InCall
    BY <1>0, <1>2 DEF uae_nativesem_wait, NoCall
  <2>. QED BY <1>0, <1>2, <2>1 DEF uae_nativesem_wait
<1>a. ASSUME NEW s \in Sender, Writing(s)
      PROVE  NextWord(s) \in Word /\ sender[s].part =< Words[sender[s].cmd] /\ sender[s] \in InCall
  BY <1>0, <1>a DEF NativeInv, PartInv, Writing, NextWord, NoCall, Word
<1>3. ASSUME NEW s \in Sender, WriteWord(s) PROVE TypeOK'
  BY <1>0, <1>3, <1>a DEF WriteWord, Pipe!Call, Writing
<1>4. ASSUME NEW s \in Sender, WordIsIn(s) PROVE TypeOK'
  <2>1. NextWord(s) \in Word /\ sender[s].part =< Words[sender[s].cmd] /\ sender[s] \in InCall
    BY <1>4, <1>a DEF WordIsIn, Writing
  <2>2. sender' \in [Sender -> {NoCall} \cup InCall]
    BY <1>0, <1>4, <2>1 DEF WordIsIn, Written
  <2>3. queue' \in Seq(Word) /\ Len(queue') =< Capacity
    BY <1>0, <1>4, <2>1 DEF WordIsIn, Pipe!Put
  <2>. QED BY <1>0, <1>4, <2>2, <2>3 DEF WordIsIn, Pipe!Put
<1>5. ASSUME NEW s \in Sender, do_uae_int_requested(s) PROVE TypeOK'
  <2>1. sender[s] \in InCall
    BY <1>0, <1>5 DEF do_uae_int_requested, NoCall
  <2>2. sender' \in [Sender -> {NoCall} \cup InCall]
    BY <1>0, <1>5, <2>1 DEF do_uae_int_requested
  <2>3. call' \in [Msg -> {"none", "begun", "sent", "performed", "dropped", "stranded"}]
    BY <1>0, <1>5, <2>1 DEF do_uae_int_requested
  <2>. QED BY <1>0, <1>5, <2>2, <2>3 DEF do_uae_int_requested
<1>6. ASSUME NEW s \in Sender, uae_nativesem_post(s) PROVE TypeOK'
  BY <1>0, <1>6 DEF uae_nativesem_post
<1>7. CASE ExterServer
  BY <1>0, <1>7 DEF ExterServer
<1>8. CASE ExterTask
  <2>1. CASE ExterWakes
    BY <1>0, <2>1 DEF ExterWakes
  <2>2. CASE HelperStarts
    BY <1>0, <2>2 DEF HelperStarts
  <2>3. CASE HelperFindsNothing
    BY <1>0, <2>3 DEF HelperFindsNothing
  <2>4. CASE HelperReads
    <3>1. Head(queue) \in Word /\ queue # <<>>
      BY <1>0, <2>4, ReadKeepsStream
    <3>2. queue' \in Seq(Word) /\ Len(queue') =< Capacity
      BY <1>0, <2>4, <3>1 DEF HelperReads, Pipe!Get
    <3>3. reading' \in Seq(Word)
      BY <1>0, <2>4, <3>1 DEF HelperReads
    <3>. QED BY <1>0, <2>4, <3>1, <3>2, <3>3 DEF HelperReads, Pipe!Get
  <2>5. CASE ExterPerforms
    <3>1. reading[1] \in Word
      BY <1>0, <2>5 DEF ExterPerforms
    <3>2. call' \in [Msg -> {"none", "begun", "sent", "performed", "dropped", "stranded"}]
      BY <1>0, <2>5, <3>1 DEF ExterPerforms, Word
    <3>. QED BY <1>0, <2>5, <3>2 DEF ExterPerforms
  <2>. QED BY <1>8, <2>1, <2>2, <2>3, <2>4, <2>5 DEF ExterTask
<1>9. CASE native2amiga_reset
  <2>1. call' \in [Msg -> {"none", "begun", "sent", "performed", "dropped", "stranded"}]
    BY <1>0, <1>9 DEF native2amiga_reset
  <2>2. cut' \in BOOLEAN /\ queue' = <<>> /\ Len(queue') = 0
    BY <1>9 DEF native2amiga_reset
  <2>3. queue' \in Seq(Word) /\ reading' \in Seq(Word)
    BY <1>9 DEF native2amiga_reset
  <2>4. resets' \in 0 .. MaxResets
    BY <1>0, <1>9 DEF native2amiga_reset
  <2>5. Len(queue') =< Capacity
    BY <2>2
  <2>6. UNCHANGED <<pending, delivered, n2asem, sender, uae_int_requested>>
        /\ helper' = "out" /\ exter' = "wait" /\ exter_sig' = FALSE /\ resetting' = TRUE
    BY <1>9 DEF native2amiga_reset
  <2>. QED BY <1>0, <2>1, <2>2, <2>3, <2>4, <2>5, <2>6
<1>10. CASE ResetEnds
  BY <1>0, <1>10 DEF ResetEnds
<1>11. CASE UNCHANGED vars
  BY <1>0, <1>11 DEF vars
<1>. QED BY <1>1, <1>2, <1>3, <1>4, <1>5, <1>6, <1>7, <1>8, <1>9, <1>10, <1>11 DEF Next, Sends

(* The semaphore and what its holder has written.                          *)
LEMMA NextHolder == NativeInv /\ [Next]_vars => (HolderInv /\ PartInv /\ PendingInv)'
<1>. SUFFICES ASSUME NativeInv, [Next]_vars PROVE HolderInv' /\ PartInv' /\ PendingInv'
  OBVIOUS
<1>. USE NativeAssumption, WordsBound
     DEF HolderInv, PartInv, PendingInv, Goto, At, pipe, amiga, Writing, NextWord
<1>0. TypeOK /\ HolderInv /\ PartInv /\ PendingInv /\ Nobody \notin Sender
  BY DEF NativeInv
<1>a. sender \in [Sender -> {NoCall} \cup InCall]
  BY <1>0 DEF TypeOK
<1>1. ASSUME NEW s \in Sender, NEW m \in Msg, NEW c \in Command, Begin(s, m, c)
      PROVE  HolderInv' /\ PartInv' /\ PendingInv'
  BY <1>0, <1>a, <1>1 DEF Begin
<1>2. ASSUME NEW s \in Sender, uae_nativesem_wait(s) PROVE HolderInv' /\ PartInv' /\ PendingInv'
  BY <1>0, <1>a, <1>2 DEF uae_nativesem_wait, NoCall, InCall
<1>3. ASSUME NEW s \in Sender, WriteWord(s) PROVE HolderInv' /\ PartInv' /\ PendingInv'
  BY <1>0, <1>a, <1>3 DEF WriteWord, Pipe!Call, NoCall, InCall
<1>4. ASSUME NEW s \in Sender, WordIsIn(s) PROVE HolderInv' /\ PartInv' /\ PendingInv'
  BY <1>0, <1>a, <1>4 DEF WordIsIn, Pipe!Put, Written, NoCall, InCall
<1>5. ASSUME NEW s \in Sender, do_uae_int_requested(s) PROVE HolderInv' /\ PartInv' /\ PendingInv'
  BY <1>0, <1>a, <1>5 DEF do_uae_int_requested, NoCall, InCall
<1>6. ASSUME NEW s \in Sender, uae_nativesem_post(s) PROVE HolderInv' /\ PartInv' /\ PendingInv'
  BY <1>0, <1>a, <1>6 DEF uae_nativesem_post, NoCall, InCall
<1>7. ASSUME UNCHANGED <<n2asem, sender, pending>> PROVE HolderInv' /\ PartInv' /\ PendingInv'
  BY <1>0, <1>7
<1>8. CASE \/ ExterServer \/ ExterTask \/ native2amiga_reset \/ ResetEnds \/ UNCHANGED vars
  BY <1>7, <1>8 DEF ExterServer, ExterTask, ExterWakes, HelperStarts, HelperFindsNothing,
     HelperReads, ExterPerforms, native2amiga_reset, ResetEnds, vars, Pipe!Get
<1>. QED BY <1>1, <1>2, <1>3, <1>4, <1>5, <1>6, <1>8 DEF Next, Sends

(* The stream: steps other than a write, a read, a call of the function    *)
(* and a reset leave it and the words still to be written alone.           *)
LEMMA NextStream == NativeInv /\ [Next]_vars => (ChainInv /\ EndInv /\ ReadingInv)'
<1>. SUFFICES ASSUME NativeInv, [Next]_vars PROVE ChainInv' /\ EndInv' /\ ReadingInv'
  OBVIOUS
<1>. USE NativeAssumption DEF Goto, At, pipe, amiga
<1>0. TypeOK /\ ChainInv /\ EndInv /\ ReadingInv /\ HolderInv /\ PartInv /\ Nobody \notin Sender
  BY DEF NativeInv
<1>a. sender \in [Sender -> {NoCall} \cup InCall] /\ Sent \in Nat
  BY <1>0, StreamType DEF TypeOK
<1>b. ASSUME UNCHANGED <<queue, reading, helper>>
      PROVE  ReadingInv' /\ ChainInv'
  BY <1>0, <1>b, StreamKept DEF ReadingInv, ChainInv, Follows, Complete
<1>c. ASSUME UNCHANGED <<queue, reading, sender, cut>> PROVE EndInv'
  BY <1>0, <1>c, StreamKept DEF EndInv, Writing, Follows, Complete, NextWord
<1>1. ASSUME NEW s \in Sender, NEW m \in Msg, NEW c \in Command, Begin(s, m, c)
      PROVE  ChainInv' /\ EndInv' /\ ReadingInv'
  <2>1. EndInv'
    BY <1>0, <1>a, <1>1, StreamKept DEF Begin, EndInv, Writing, Follows, Complete, NextWord
  <2>. QED BY <1>b, <1>1, <2>1 DEF Begin
<1>2. ASSUME NEW s \in Sender, uae_nativesem_wait(s) PROVE ChainInv' /\ EndInv' /\ ReadingInv'
  <2>1. \A r \in Sender : ~Writing(r)
    BY <1>0, <1>2 DEF uae_nativesem_wait, HolderInv, Writing
  <2>2. Sent > 0 => Complete(Stream(Sent))
    BY <1>0, <1>2, <2>1 DEF EndInv, uae_nativesem_wait
  <2>3. /\ sender'[s].part = 1 /\ \A r \in Sender \ {s} : ~Writing(r)'
        /\ NextWord(s)'.part = 1 /\ Writing(s)'
    BY <1>0, <1>a, <1>2, <2>1 DEF uae_nativesem_wait, PartInv, Writing, NextWord, InCall, NoCall
  <2>4. EndInv'
    BY <1>2, <1>a, <2>2, <2>3, StreamKept DEF uae_nativesem_wait, EndInv, Follows, Complete
  <2>. QED BY <1>b, <1>2, <2>4 DEF uae_nativesem_wait
<1>3. ASSUME NEW s \in Sender, WriteWord(s) PROVE ChainInv' /\ EndInv' /\ ReadingInv'
  <2>1. \A r \in Sender : Writing(r)' = Writing(r) /\ NextWord(r)' = NextWord(r)
                          /\ sender'[r].part = sender[r].part
    BY <1>a, <1>3 DEF WriteWord, Writing, NextWord, InCall, NoCall
  <2>2. UNCHANGED <<queue, reading, helper, cut>>
    BY <1>3 DEF WriteWord, Pipe!Call
  <2>3. EndInv'
    BY <1>0, <2>1, <2>2, StreamKept DEF EndInv, Follows, Complete
  <2>. QED BY <1>b, <2>2, <2>3
<1>4. ASSUME NEW s \in Sender, WordIsIn(s) PROVE ChainInv' /\ EndInv' /\ ReadingInv'
  <2>1. Writing(s) /\ sender[s] \in InCall /\ \A r \in Sender \ {s} : ~Writing(r)
    BY <1>0, <1>a, <1>4 DEF WordIsIn, Writing, HolderInv, NoCall
  <2>2. /\ Sent' = Sent + 1 /\ Stream(Sent)' = NextWord(s)
        /\ \A i \in 1 .. Sent : Stream(i)' = Stream(i)
    BY <1>0, <1>4, PutExtendsStream
  <2>3. IF Sent = 0 THEN sender[s].part = 1 ELSE Follows(Stream(Sent), NextWord(s))
    BY <1>0, <1>4, <2>1 DEF EndInv, WordIsIn
  <2>4. ChainInv'
    <3>1. Sent' > 0 => Stream(1)'.part = 1
      BY <1>0, <1>a, <2>2, <2>3 DEF ChainInv, NextWord
    <3>2. ASSUME NEW i \in 1 .. Sent PROVE Follows(Stream(i), Stream(i + 1))'
      <4>1. CASE i = Sent
        BY <4>1, <1>a, <2>2, <2>3 DEF Follows, Complete
      <4>2. CASE i # Sent
        BY <4>2, <1>0, <1>a, <2>2 DEF ChainInv, Follows, Complete
      <4>. QED BY <4>1, <4>2
    <3>. QED BY <3>1, <3>2, <1>a, <2>2 DEF ChainInv
  <2>5. EndInv'
    <3>1. CASE sender[s].part = Words[sender[s].cmd]
      <4>1. ~Writing(s)' /\ \A r \in Sender \ {s} : ~Writing(r)'
        BY <1>a, <1>4, <2>1, <3>1 DEF WordIsIn, Written, Writing, InCall
      <4>2. Complete(Stream(Sent))'
        BY <2>2, <3>1 DEF Complete, NextWord
      <4>. QED BY <4>1, <4>2, <2>2 DEF EndInv
    <3>2. CASE sender[s].part # Words[sender[s].cmd]
      <4>1. /\ Writing(s)' /\ \A r \in Sender \ {s} : ~Writing(r)'
            /\ sender'[s].part = sender[s].part + 1
            /\ sender'[s].msg = sender[s].msg /\ sender'[s].cmd = sender[s].cmd
        BY <1>a, <1>4, <2>1, <3>2 DEF WordIsIn, Written, Writing, InCall
      <4>2. Follows(Stream(Sent), NextWord(s))' /\ Sent' # 0
        BY <1>a, <2>2, <4>1, <3>2 DEF Follows, Complete, NextWord
      <4>3. \A q \in Sender : Writing(q)' => q = s
        BY <4>1
      <4>. QED BY <4>1, <4>2, <4>3 DEF EndInv
    <3>. QED BY <3>1, <3>2
  <2>6. ReadingInv'
    BY <1>0, <1>4 DEF WordIsIn, ReadingInv
  <2>. QED BY <2>4, <2>5, <2>6
<1>5. ASSUME NEW s \in Sender, do_uae_int_requested(s) \/ uae_nativesem_post(s)
      PROVE  ChainInv' /\ EndInv' /\ ReadingInv'
  <2>1. \A r \in Sender : ~Writing(r) /\ ~Writing(r)'
    BY <1>0, <1>a, <1>5 DEF do_uae_int_requested, uae_nativesem_post, HolderInv, Writing, NoCall,
       InCall
  <2>2. UNCHANGED <<queue, reading, helper, cut>>
    BY <1>5 DEF do_uae_int_requested, uae_nativesem_post
  <2>3. EndInv'
    BY <1>0, <2>1, <2>2, StreamKept DEF EndInv, Complete
  <2>. QED BY <1>b, <2>2, <2>3
<1>6. CASE ExterServer \/ ExterWakes \/ HelperFindsNothing \/ ResetEnds \/ UNCHANGED vars
  BY <1>b, <1>c, <1>6 DEF ExterServer, ExterWakes, HelperFindsNothing, ResetEnds, vars
<1>7. CASE HelperStarts
  <2>1. ReadingInv' /\ UNCHANGED <<queue, reading, sender, cut>>
    BY <1>0, <1>7 DEF HelperStarts, ReadingInv
  <2>2. ChainInv'
    BY <1>0, <2>1, StreamKept DEF ChainInv, Follows, Complete
  <2>. QED BY <1>c, <2>1, <2>2
<1>8. CASE HelperReads
  <2>1. /\ queue # <<>> /\ Head(queue) = Stream(Len(reading) + 1) /\ Head(queue) \in Word
        /\ Len(reading) + 1 \in 1 .. Sent
        /\ Sent' = Sent /\ \A i \in 1 .. Sent : Stream(i)' = Stream(i)
    BY <1>0, <1>8, ReadKeepsStream
  <2>2. ChainInv'
    BY <1>0, <1>a, <2>1 DEF ChainInv, Follows, Complete
  <2>3. EndInv'
    BY <1>0, <1>a, <1>8, <2>1 DEF EndInv, HelperReads, Follows, Complete, Writing, NextWord
  <2>4. ReadingInv'
    <3>. DEFINE n == Len(reading)  w == Head(queue)
    <3>1. /\ reading \in Seq(Word) /\ n \in Nat
          /\ reading' = Append(reading, w) /\ Len(reading') = n + 1
          /\ \A i \in 1 .. n : reading'[i] = reading[i]
          /\ reading'[n + 1] = w /\ reading' # <<>> /\ helper = "in"
          /\ helper' = IF n + 1 = Words[reading'[1].cmd] THEN "out" ELSE "in"
      BY <1>0, <1>8, <2>1 DEF HelperReads, TypeOK
    <3>2. CASE n = 0
      <4>1. reading'[1] = w /\ w.part = 1 /\ w.cmd \in Command
        <5>1. n + 1 = 1 /\ Sent > 0
          BY <3>2, <2>1, <1>a
        <5>2. Stream(1) = w
          BY <5>1, <2>1
        <5>. QED BY <5>1, <5>2, <3>1, <2>1, <1>0 DEF ChainInv, Word
      <4>2. Words[w.cmd] \in 2 .. 4
        BY <4>1, WordsBound
      <4>. QED BY <3>1, <3>2, <4>1, <4>2 DEF ReadingInv
    <3>3. CASE n > 0
      <4>1. /\ reading[n].part = n /\ reading[n].msg = reading[1].msg
            /\ reading[n].cmd = reading[1].cmd /\ n < Words[reading[1].cmd]
        BY <1>0, <3>1, <3>3 DEF ReadingInv
      <4>2. Follows(reading[n], w)
        <5>1. n \in 1 .. Sent /\ n < Sent /\ Stream(n) = reading[n] /\ Stream(n + 1) = w
          BY <1>a, <2>1, <3>1, <3>3 DEF Stream
        <5>. QED BY <1>0, <5>1 DEF ChainInv
      <4>3. w.part = n + 1 /\ w.msg = reading[1].msg /\ w.cmd = reading[1].cmd
        BY <4>1, <4>2 DEF Follows, Complete
      <4>4. reading'[1] = reading[1] /\ reading[1].cmd \in Command
        <5>1. reading[1] \in Word /\ 1 \in 1 .. n
          BY <3>1, <3>3
        <5>. QED BY <5>1, <3>1 DEF Word
      <4>5. Words[reading[1].cmd] \in 2 .. 4
        BY <4>4, WordsBound
      <4>. QED BY <1>0, <3>1, <3>3, <4>1, <4>3, <4>4, <4>5 DEF ReadingInv
    <3>. QED BY <3>1, <3>2, <3>3
  <2>. QED BY <2>2, <2>3, <2>4
<1>9. CASE ExterPerforms
  <2>. DEFINE n == Len(reading)
  <2>1. /\ n \in Nat \ {0} /\ Sent = n + Sent' /\ Sent' \in Nat /\ Complete(Stream(n))
        /\ \A i \in 1 .. Sent' : Stream(i)' = Stream(n + i)
    BY <1>9, PerformKeepsPipe
  <2>2. ChainInv'
    <3>1. ASSUME NEW i \in 1 .. Sent', i < Sent' PROVE Follows(Stream(i), Stream(i + 1))'
      <4>1. Follows(Stream(n + i), Stream(n + i + 1))
        <5>1. n + i \in 1 .. Sent /\ n + i < Sent
          BY <2>1, <3>1
        <5>. QED BY <5>1, <1>0 DEF ChainInv
      <4>2. Stream(i)' = Stream(n + i) /\ Stream(i + 1)' = Stream(n + i + 1)
        <5>1. i \in 1 .. Sent' /\ i + 1 \in 1 .. Sent' /\ n + (i + 1) = n + i + 1
          BY <2>1, <3>1
        <5>2. Stream(i)' = Stream(n + i) /\ Stream(i + 1)' = Stream(n + (i + 1))
          BY <5>1, <2>1
        <5>. QED BY <5>1, <5>2
      <4>. QED BY <4>1, <4>2 DEF Follows, Complete
    <3>2. ASSUME Sent' > 0 PROVE Stream(1)'.part = 1
      <4>1. Follows(Stream(n), Stream(n + 1)) /\ Stream(1)' = Stream(n + 1)
        BY <1>0, <2>1, <3>2 DEF ChainInv
      <4>. QED BY <4>1, <2>1 DEF Follows
    <3>. QED BY <3>1, <3>2 DEF ChainInv
  <2>3. EndInv'
    <3>. SUFFICES ASSUME ~cut
                  PROVE  /\ \A s \in Sender : Writing(s) => IF Sent' = 0 THEN sender[s].part = 1
                                               ELSE Follows(Stream(Sent)', NextWord(s))
                         /\ (\A s \in Sender : ~Writing(s)) /\ Sent' > 0 => Complete(Stream(Sent)')
      BY <1>9 DEF ExterPerforms, EndInv, Writing, NextWord, Follows, Complete
    <3>1. /\ \A s \in Sender : Writing(s) => Follows(Stream(Sent), NextWord(s))
          /\ (\A s \in Sender : ~Writing(s)) => Complete(Stream(Sent))
      BY <1>0, <1>a, <2>1 DEF EndInv
    <3>2. Sent' > 0 => Stream(Sent)' = Stream(Sent)
      BY <2>1
    <3>3. Sent' = 0 => Complete(Stream(Sent))
      BY <2>1
    <3>. QED BY <3>1, <3>2, <3>3, <2>1 DEF Follows, NextWord
  <2>4. ReadingInv'
    BY <1>9 DEF ExterPerforms, ReadingInv
  <2>. QED BY <2>2, <2>3, <2>4
<1>10. CASE native2amiga_reset
  <2>1. Sent' = 0 /\ Len(reading') = 0 /\ reading' = <<>>
    BY <1>10 DEF native2amiga_reset, Sent
  <2>2. ASSUME ~cut', NEW s \in Sender, Writing(s) PROVE sender[s].part = 1
    <3>1. CASE s = Emu
      BY <1>10, <2>2, <3>1 DEF native2amiga_reset, EmuFree, Writing
    <3>2. CASE s \in Host
      BY <1>0, <1>a, <1>10, <2>2, <3>2 DEF native2amiga_reset, Midway, Writing, InCall, NoCall
    <3>. QED BY <3>1, <3>2 DEF Sender
  <2>3. EndInv'
    BY <1>10, <2>1, <2>2 DEF native2amiga_reset, EndInv, Writing
  <2>. QED BY <2>1, <2>3 DEF ChainInv, ReadingInv
<1>. QED BY <1>1, <1>2, <1>3, <1>4, <1>5, <1>6, <1>7, <1>8, <1>9, <1>10 DEF Next, Sends, ExterTask

-----------------------------------------------------------------------------
(* NativeInv is an invariant.                                              *)
THEOREM NativeInvariant == Spec => []NativeInv
<1>1. Init => NativeInv
  BY InitNative
<1>2. NativeInv /\ [Next]_vars => NativeInv'
  BY NextTypeOK, NextHolder, NextStream DEF NativeInv
<1>. QED BY <1>1, <1>2, PTL DEF Spec

(* Every variable keeps its type, and the pipe never holds more words than *)
(* it has room for.                                                        *)
THEOREM NativeTypeCorrect == Spec => []TypeOK
<1>1. NativeInv => TypeOK
  BY DEF NativeInv
<1>. QED BY <1>1, NativeInvariant, PTL

(* exter_int_helper reads the words of one message, in order and from the  *)
(* first, whatever the senders do.                                         *)
THEOREM MessagesStayWhole == Spec => []WholeMessages
<1>1. NativeInv => WholeMessages
  BY DEF NativeInv, WholeMessages, ReadingInv, TypeOK
<1>. QED BY <1>1, NativeInvariant, PTL

(* n2asem gives native2amiga_pending one writer at a time: nobody begins a *)
(* write while another sender is in one.  This is what the theorems about  *)
(* CommPipe assume of the pipe's callers.                                  *)
OneWriter ==
  \A s \in Sender : sender[s].pc = "write" =>
    pending = <<>> /\ \A r \in Sender \ {s} : ~Writing(r)

(* n2asem lets one thread at a time write to the pipe.                     *)
THEOREM SemaphoreMakesOneWriter == Spec => []OneWriter
<1>1. NativeInv => OneWriter
  BY DEF NativeInv, OneWriter, HolderInv, PendingInv, Writing
<1>. QED BY <1>1, NativeInvariant, PTL
=============================================================================
