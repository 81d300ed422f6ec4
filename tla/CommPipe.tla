------------------------------ MODULE CommPipe ------------------------------
(***************************************************************************)
(* smp_comm_pipe of src/sources/src/include/commpipe.h: the ring buffer    *)
(* through which the emulator's threads talk.  One thread writes and one   *)
(* thread reads.  A step of the model is one access to shared memory or    *)
(* one semaphore operation; steps of the two threads interleave freely.    *)
(*                                                                         *)
(* Semaphores are the counting semaphores of the pthread build of          *)
(* src/retrodep/threaddep/thread.h.                                        *)
(***************************************************************************)
EXTENDS Naturals, FiniteSets, Sequences

CONSTANTS Word,     \* the values of a uae_pt
          size,     \* number of slots, the second argument of init_comm_pipe
          chunks    \* words that wake a waiting reader, the third argument

(***************************************************************************)
(* Every init_comm_pipe call of the program has chunks well below size     *)
(* (100/1, 300/2, 300/3, 400/3, 10/1).                                     *)
(***************************************************************************)
ASSUME PipeAssumption == /\ size \in Nat
                         /\ chunks \in Nat
                         /\ 1 =< chunks
                         /\ chunks < size
                         /\ Word # {}

VARIABLES
  data, rdp, wrp,                   \* the ring and its two positions
  reader_waiting, writer_waiting,   \* the two volatile flags
  lock, reader_wait, writer_wait,   \* the three semaphores, as counts
  wpc, wdata, no_buffer, nxwrp,     \* write_comm_pipe_pt: position, arguments, local
  path,                             \* which of its two paths the call is on
  rpc, rdata,                       \* read_comm_pipe_pt_blocking: position, local
  delivered,                        \* history: the word last returned, as a 0/1-tuple
  flush                             \* history: queued words up to the last no_buffer one

ring   == <<data, rdp, wrp>>
flags  == <<reader_waiting, writer_waiting>>
sems   == <<lock, reader_wait, writer_wait>>
writer == <<wpc, wdata, no_buffer, nxwrp, path>>
reader == <<rpc, rdata>>
hist   == <<delivered, flush>>
vars   == <<ring, flags, sems, writer, reader, hist>>

Slot == 0 .. size - 1

WriterPc == {"idle", "lock", "test_full", "unlock_wait", "wait", "relock",
             "store", "publish", "maybe_wake", "post", "unlock"}
ReaderPc == {"idle", "test_empty", "unlock_wait", "wait", "relock",
             "load", "advance", "maybe_wake", "post", "unlock"}

TypeOK ==
  /\ data \in [Slot -> Word] /\ rdp \in Slot /\ wrp \in Slot
  /\ reader_waiting \in {0, 1} /\ writer_waiting \in {0, 1}
  /\ lock \in {0, 1} /\ reader_wait \in {0, 1} /\ writer_wait \in {0, 1}
  /\ wpc \in WriterPc /\ wdata \in Word /\ no_buffer \in {0, 1}
  /\ nxwrp \in Slot /\ path \in {"lockfree", "locked"}
  /\ rpc \in ReaderPc /\ rdata \in Word
  /\ delivered \in {<<>>} \cup {<<w>> : w \in Word}
  /\ flush \in 0 .. size - 1

-----------------------------------------------------------------------------
(* The positions the code computes.                                        *)
(* Fault: the position is not wrapped.                                     *)
SuccUnwrapped(i) == i + 1

Succ(i) == (i + 1) % size

Queued == (wrp + size - rdp) % size

(* init_comm_pipe.  The slots are uninitialised memory.                    *)
Init ==
  /\ data \in [Slot -> Word] /\ rdp = 0 /\ wrp = 0
  /\ reader_waiting = 0 /\ writer_waiting = 0
  /\ lock = 1 /\ reader_wait = 0 /\ writer_wait = 0
  /\ wpc = "idle" /\ wdata \in Word /\ no_buffer = 0
  /\ nxwrp = 0 /\ path = "lockfree"
  /\ rpc = "idle" /\ rdata \in Word
  /\ delivered = <<>> /\ flush = 0

-----------------------------------------------------------------------------
(* write_comm_pipe_pt.  The call reads its own wrp and then the flag the   *)
(* reader sets; only that read decides between the two paths.              *)
WriteCall(w, nb) ==
  /\ wpc = "idle"
  /\ wdata' = w /\ no_buffer' = nb /\ nxwrp' = Succ(wrp)
  /\ path' = IF reader_waiting = 1 THEN "lockfree" ELSE "locked"
  /\ wpc' = IF reader_waiting = 1 THEN "store" ELSE "lock"
  /\ UNCHANGED <<ring, flags, sems, reader, hist>>

WriteLock ==
  /\ wpc = "lock" /\ lock = 1
  /\ lock' = 0 /\ wpc' = "test_full"
  /\ UNCHANGED <<ring, flags, reader_wait, writer_wait, wdata, no_buffer, nxwrp,
                 path, reader, hist>>
(* Fault: fullness is tested on wrp instead of its successor.              *)
WriteFullLate ==
  /\ wpc = "test_full"
  /\ writer_waiting' = IF wrp = rdp THEN 1 ELSE writer_waiting
  /\ wpc' = IF wrp = rdp THEN "unlock_wait" ELSE "store"
  /\ UNCHANGED <<ring, reader_waiting, sems, wdata, no_buffer, nxwrp, path, reader, hist>>

WriteFull ==
  /\ wpc = "test_full"
  /\ \/ /\ nxwrp = rdp
        /\ writer_waiting' = 1 /\ wpc' = "unlock_wait"
     \/ /\ nxwrp # rdp
        /\ UNCHANGED writer_waiting /\ wpc' = "store"
  /\ UNCHANGED <<ring, reader_waiting, sems, wdata, no_buffer, nxwrp, path, reader, hist>>
(* Fault: the lock is kept over the wait.                                  *)
WriteWaitLocked ==
  /\ wpc = "unlock_wait" /\ wpc' = "wait"
  /\ UNCHANGED <<ring, flags, sems, wdata, no_buffer, nxwrp, path, reader, hist>>

WriteUnlockToWait ==
  /\ wpc = "unlock_wait"
  /\ lock' = lock + 1 /\ wpc' = "wait"
  /\ UNCHANGED <<ring, flags, reader_wait, writer_wait, wdata, no_buffer, nxwrp,
                 path, reader, hist>>

WriteWait ==
  /\ wpc = "wait" /\ writer_wait > 0
  /\ writer_wait' = writer_wait - 1 /\ wpc' = "relock"
  /\ UNCHANGED <<ring, flags, lock, reader_wait, wdata, no_buffer, nxwrp, path,
                 reader, hist>>

WriteRelock ==
  /\ wpc = "relock" /\ lock = 1
  /\ lock' = 0 /\ wpc' = "store"
  /\ UNCHANGED <<ring, flags, reader_wait, writer_wait, wdata, no_buffer, nxwrp,
                 path, reader, hist>>
(* Fault: the word goes one slot too far.                                  *)
WriteStoreAhead ==
  /\ wpc = "store"
  /\ data' = [data EXCEPT ![nxwrp] = wdata] /\ wpc' = "publish"
  /\ UNCHANGED <<rdp, wrp, flags, sems, wdata, no_buffer, nxwrp, path, reader, hist>>

WriteStore ==
  /\ wpc = "store"
  /\ data' = [data EXCEPT ![wrp] = wdata] /\ wpc' = "publish"
  /\ UNCHANGED <<rdp, wrp, flags, sems, wdata, no_buffer, nxwrp, path, reader, hist>>

WritePublish ==
  /\ wpc = "publish"
  /\ wrp' = nxwrp /\ wpc' = "maybe_wake"
  /\ flush' = IF no_buffer = 1 THEN (nxwrp + size - rdp) % size ELSE flush
  /\ UNCHANGED <<data, rdp, flags, sems, wdata, no_buffer, nxwrp, path, reader, delivered>>

(* Where a write goes after maybe_wake_reader: the lock-free path returns. *)
AfterWake == IF path = "locked" THEN "unlock" ELSE "idle"
(* Faults: reader_waiting is not reset; a full chunk is not yet enough; a  *)
(* word written with no_buffer does not wake.                              *)
WakeKeepsFlag ==
  /\ wpc = "maybe_wake"
  /\ wpc' = IF reader_waiting = 1 /\ (no_buffer = 1 \/ Queued >= chunks) THEN "post" ELSE AfterWake
  /\ UNCHANGED <<ring, flags, sems, wdata, no_buffer, nxwrp, path, reader, hist>>

WakeIf(cond) ==
  /\ wpc = "maybe_wake"
  /\ IF reader_waiting = 1 /\ cond
       THEN reader_waiting' = 0 /\ wpc' = "post"
       ELSE UNCHANGED reader_waiting /\ wpc' = AfterWake
  /\ UNCHANGED <<ring, writer_waiting, sems, wdata, no_buffer, nxwrp, path, reader, hist>>

WakeAboveChunk == WakeIf(no_buffer = 1 \/ Queued > chunks)
WakeIgnoresFlush == WakeIf(Queued >= chunks)

MaybeWakeReader ==
  /\ wpc = "maybe_wake"
  /\ IF reader_waiting = 1 /\ (no_buffer = 1 \/ Queued >= chunks)
       THEN reader_waiting' = 0 /\ wpc' = "post"
       ELSE UNCHANGED reader_waiting /\ wpc' = AfterWake
  /\ UNCHANGED <<ring, writer_waiting, sems, wdata, no_buffer, nxwrp, path, reader, hist>>

PostReaderWait ==
  /\ wpc = "post"
  /\ reader_wait' = reader_wait + 1 /\ wpc' = AfterWake
  /\ UNCHANGED <<ring, flags, lock, writer_wait, wdata, no_buffer, nxwrp, path,
                 reader, hist>>

WriteUnlock ==
  /\ wpc = "unlock"
  /\ lock' = lock + 1 /\ wpc' = "idle"
  /\ UNCHANGED <<ring, flags, reader_wait, writer_wait, wdata, no_buffer, nxwrp,
                 path, reader, hist>>

-----------------------------------------------------------------------------
(* read_comm_pipe_pt_blocking.                                             *)
ReadLock ==
  /\ rpc = "idle" /\ lock = 1
  /\ lock' = 0 /\ rpc' = "test_empty"
  /\ UNCHANGED <<ring, flags, reader_wait, writer_wait, writer, rdata, hist>>

ReadEmpty ==
  /\ rpc = "test_empty"
  /\ \/ /\ rdp = wrp
        /\ reader_waiting' = 1 /\ rpc' = "unlock_wait"
     \/ /\ rdp # wrp
        /\ UNCHANGED reader_waiting /\ rpc' = "load"
  /\ UNCHANGED <<ring, writer_waiting, sems, writer, rdata, hist>>

ReadUnlockToWait ==
  /\ rpc = "unlock_wait"
  /\ lock' = lock + 1 /\ rpc' = "wait"
  /\ UNCHANGED <<ring, flags, reader_wait, writer_wait, writer, rdata, hist>>

ReadWait ==
  /\ rpc = "wait" /\ reader_wait > 0
  /\ reader_wait' = reader_wait - 1 /\ rpc' = "relock"
  /\ UNCHANGED <<ring, flags, lock, writer_wait, writer, rdata, hist>>

ReadRelock ==
  /\ rpc = "relock" /\ lock = 1
  /\ lock' = 0 /\ rpc' = "load"
  /\ UNCHANGED <<ring, flags, reader_wait, writer_wait, writer, rdata, hist>>

ReadLoad ==
  /\ rpc = "load"
  /\ rdata' = data[rdp] /\ rpc' = "advance"
  /\ UNCHANGED <<ring, flags, sems, writer, hist>>

ReadAdvance ==
  /\ rpc = "advance"
  /\ rdp' = Succ(rdp) /\ rpc' = "maybe_wake"
  /\ delivered' = <<rdata>>
  /\ flush' = IF flush > 0 THEN flush - 1 ELSE 0
  /\ UNCHANGED <<data, wrp, flags, sems, writer, rdata>>
(* Fault: the flag is cleared and the writer not posted.                   *)
WakeWriterForgotten ==
  /\ rpc = "maybe_wake" /\ writer_waiting' = 0 /\ rpc' = "unlock"
  /\ UNCHANGED <<ring, reader_waiting, sems, writer, rdata, hist>>

WakeWriter ==
  /\ rpc = "maybe_wake"
  /\ writer_waiting' = 0
  /\ rpc' = IF writer_waiting = 1 THEN "post" ELSE "unlock"
  /\ UNCHANGED <<ring, reader_waiting, sems, writer, rdata, hist>>

PostWriterWait ==
  /\ rpc = "post"
  /\ writer_wait' = writer_wait + 1 /\ rpc' = "unlock"
  /\ UNCHANGED <<ring, flags, lock, reader_wait, writer, rdata, hist>>

ReadUnlock ==
  /\ rpc = "unlock"
  /\ lock' = lock + 1 /\ rpc' = "idle"
  /\ UNCHANGED <<ring, flags, reader_wait, writer_wait, writer, rdata, hist>>

-----------------------------------------------------------------------------
WriterCallStep == \E w \in Word, nb \in {0, 1} : WriteCall(w, nb)

WriterStep ==
  \/ WriteLock \/ WriteFull \/ WriteUnlockToWait \/ WriteWait \/ WriteRelock
  \/ WriteStore \/ WritePublish \/ MaybeWakeReader \/ PostReaderWait \/ WriteUnlock

ReaderStep ==
  \/ ReadLock \/ ReadEmpty \/ ReadUnlockToWait \/ ReadWait \/ ReadRelock
  \/ ReadLoad \/ ReadAdvance \/ WakeWriter \/ PostWriterWait \/ ReadUnlock

Next == WriterCallStep \/ WriterStep \/ ReaderStep

Spec == Init /\ [][Next]_vars

(***************************************************************************)
(* A call that has started is run by its thread until it blocks, and every *)
(* service thread of the program calls read in an endless loop.  Nothing   *)
(* obliges the writer to start another call.  Weak fairness is enough even *)
(* for the contended lock: a thread that keeps losing it loses it to one   *)
(* that soon empties or fills the pipe and then sleeps without it.         *)
(***************************************************************************)
FairSpec == Spec /\ WF_vars(WriterStep) /\ WF_vars(ReaderStep)

-----------------------------------------------------------------------------
(* The call write_comm_pipe_pt never stores into a slot whose word the     *)
(* reader has not taken, on the lock-free path (where fullness is not      *)
(* tested) as little as after waiting for room with a nxwrp computed       *)
(* before the wait.                                                        *)
NoOverrun == wpc \in {"store", "publish"} => nxwrp = Succ(wrp) /\ nxwrp # rdp

(* The call read_comm_pipe_pt_blocking never takes a slot that holds no    *)
(* word, although it does not test again after reader_wait was posted.     *)
NoUnderrun == rpc \in {"load", "advance"} => rdp # wrp

(* No lost wake-up of the reader: a reader asleep on reader_wait while a   *)
(* word written with no_buffer (or a full chunk) is queued is about to be  *)
(* posted by the writer inside maybe_wake_reader.                          *)
NoLostReaderWake ==
  rpc = "wait" /\ reader_wait = 0 /\ (flush > 0 \/ Queued >= chunks)
     => wpc \in {"maybe_wake", "post"}

(* No lost wake-up of the writer: a writer asleep on writer_wait either    *)
(* faces a full pipe or is about to be posted by the reader.  This is the  *)
(* "That's harmless" of the comment in write_comm_pipe_pt.                 *)
NoLostWriterWake ==
  wpc = "wait" /\ writer_wait = 0
     => rpc \in {"maybe_wake", "post"} \/ (writer_waiting = 1 /\ nxwrp = rdp)

-----------------------------------------------------------------------------
(* The inductive invariant behind the four properties above.               *)

(* At most one thread is between uae_sem_wait and uae_sem_post of lock.    *)
WriterHolds == \/ wpc \in {"test_full", "unlock_wait", "unlock"}
               \/ path = "locked" /\ wpc \in {"store", "publish", "maybe_wake", "post"}
ReaderHolds == rpc \notin {"idle", "wait", "relock"}
LockInv == /\ ~ (WriterHolds /\ ReaderHolds)
           /\ (lock = 0) <=> (WriterHolds \/ ReaderHolds)

(* The writer's locals: nxwrp stays right over the wait, and the lock-free *)
(* path runs only while the reader is committed to sleep.                  *)
WriterLocals ==
  /\ wpc \in {"lock", "test_full", "unlock_wait", "wait", "relock", "store", "publish"}
        => nxwrp = Succ(wrp)
  /\ path = "lockfree" => wpc \in {"idle", "store", "publish", "maybe_wake", "post"}
  /\ path = "lockfree" /\ wpc \in {"store", "publish", "maybe_wake"} => reader_waiting = 1
  /\ wpc = "publish" => data[wrp] = wdata

(* A sleeping reader is accounted for exactly once: by its flag, by a      *)
(* writer about to post, or by the posted semaphore.                       *)
ReaderSleeps == rpc \in {"unlock_wait", "wait"}
ReaderToken ==
  /\ ReaderSleeps <=> (reader_waiting = 1 \/ wpc = "post" \/ reader_wait = 1)
  /\ ~ (reader_waiting = 1 /\ wpc = "post")
  /\ ~ (reader_waiting = 1 /\ reader_wait = 1)
  /\ ~ (wpc = "post" /\ reader_wait = 1)

(* The same for a sleeping writer.                                         *)
WriterSleeps == wpc \in {"unlock_wait", "wait"}
WriterToken ==
  /\ WriterSleeps <=> (writer_waiting = 1 \/ rpc = "post" \/ writer_wait = 1)
  /\ ~ (writer_waiting = 1 /\ rpc = "post")
  /\ ~ (writer_waiting = 1 /\ writer_wait = 1)
  /\ ~ (rpc = "post" /\ writer_wait = 1)

(* Where the writer relies on a free slot, and where it waits for one.     *)
RoomInv ==
  /\ wpc \in {"relock", "store", "publish"} => nxwrp # rdp
  /\ WriterSleeps /\ writer_waiting = 0 => nxwrp # rdp
  /\ writer_waiting = 1 => (nxwrp = rdp <=> rpc # "maybe_wake")

(* Where the reader relies on a queued word.                               *)
WordInv ==
  /\ rpc \in {"relock", "load", "advance"} => rdp # wrp
  /\ ReaderSleeps /\ reader_waiting = 0 => rdp # wrp
  /\ wpc = "maybe_wake" /\ reader_waiting = 1 => rdp # wrp
  /\ rpc = "advance" => rdata = data[rdp]

(* A reader that is left asleep leaves less than a chunk, none of it       *)
(* flushed: this is what makes the missing full test of the lock-free path *)
(* sound.                                                                  *)
ChunkInv ==
  /\ flush =< Queued
  /\ reader_waiting = 1 => \/ Queued < chunks /\ flush = 0
                           \/ wpc = "maybe_wake" /\ Queued =< chunks /\ (flush > 0 => no_buffer = 1)

PipeInv == /\ LockInv /\ WriterLocals /\ ReaderToken /\ WriterToken
           /\ RoomInv /\ WordInv /\ ChunkInv

-----------------------------------------------------------------------------
(* A word written with no_buffer always gets a sleeping reader going.      *)
FlushWakesReader == (rpc = "wait" /\ flush > 0) ~> (rpc # "wait")

(* A writer that found the pipe full always finishes its call.             *)
FullWriteReturns == (wpc = "wait") ~> (wpc = "idle")

(* The pipe is a bounded FIFO of the words its callers write: a word is    *)
(* pending from the call on, joins the queue when wrp moves past it and    *)
(* leaves when rdp does.                                                   *)
Contents(d, r, w) == [i \in 1 .. (w + size - r) % size |-> d[(r + i - 1) % size]]

Unwritten == {"lock", "test_full", "unlock_wait", "wait", "relock", "store", "publish"}

Fifo == INSTANCE BlockingPipe
          WITH pending <- IF wpc \in Unwritten THEN <<wdata>> ELSE <<>>,
               queue <- Contents(data, rdp, wrp), Capacity <- size - 1

ImplementsFifo == Fifo!Spec
=============================================================================
