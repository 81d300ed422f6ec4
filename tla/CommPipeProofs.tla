--------------------------- MODULE CommPipeProofs ---------------------------
(***************************************************************************)
(* Proofs about CommPipe for every ring size, every chunk length below it  *)
(* and every set of words.                                                 *)
(***************************************************************************)
EXTENDS CommPipe, SequenceTheorems, TLAPS

(* Positions only ever need one subtraction to be brought back into the    *)
(* ring; % by a symbolic divisor is used nowhere else.                     *)
LEMMA ModOnce ==
  ASSUME NEW x \in Nat, x < size + size
  PROVE  x % size = IF x < size THEN x ELSE x - size
BY PipeAssumption, Z3

(* The successor of a slot.                                                *)
LEMMA SuccIs ==
  ASSUME NEW i \in Slot
  PROVE  Succ(i) = IF i + 1 = size THEN 0 ELSE i + 1
BY ModOnce, PipeAssumption DEF Succ, Slot

(* The number of queued words without %.                                   *)
LEMMA DistanceIs ==
  ASSUME NEW r \in Slot, NEW w \in Slot
  PROVE  (w + size - r) % size = IF w >= r THEN w - r ELSE w + size - r
BY ModOnce, PipeAssumption DEF Slot

(* Every step of the code keeps the types and PipeInv.                     *)
LEMMA PipeInvStep ==
  ASSUME TypeOK, PipeInv, [Next]_vars
  PROVE  TypeOK' /\ PipeInv'
<1>. USE DEF TypeOK, Slot, PipeInv, ring, flags, sems, writer, reader, hist
<1>q. Queued = IF wrp >= rdp THEN wrp - rdp ELSE wrp + size - rdp
  BY DistanceIs DEF Queued
<1>w. Succ(wrp) = IF wrp + 1 = size THEN 0 ELSE wrp + 1
  BY SuccIs
<1>r. Succ(rdp) = IF rdp + 1 = size THEN 0 ELSE rdp + 1
  BY SuccIs
<1>1. CASE WriterCallStep
  <2>1. TypeOK'
    BY <1>1, <1>w, PipeAssumption DEF WriterCallStep, WriteCall, WriterPc
  <2>2. LockInv'
    BY <1>1 DEF WriterCallStep, WriteCall, LockInv, WriterHolds, ReaderHolds
  <2>3. WriterLocals'
    BY <1>1 DEF WriterCallStep, WriteCall, WriterLocals
  <2>4. ReaderToken'
    BY <1>1 DEF WriterCallStep, WriteCall, ReaderToken, ReaderSleeps
  <2>5. WriterToken'
    BY <1>1 DEF WriterCallStep, WriteCall, WriterToken, WriterSleeps
  <2>6. RoomInv'
    BY <1>1, <1>q, <1>w, PipeAssumption
       DEF WriterCallStep, WriteCall, RoomInv, WriterSleeps, WriterToken, ChunkInv
  <2>7. WordInv'
    BY <1>1 DEF WriterCallStep, WriteCall, WordInv, ReaderSleeps
  <2>8. ChunkInv'
    BY <1>1 DEF WriterCallStep, WriteCall, ChunkInv, Queued
  <2>. QED BY <2>1, <2>2, <2>3, <2>4, <2>5, <2>6, <2>7, <2>8
<1>2. CASE WriteLock
  <2>1. TypeOK'
    BY <1>2 DEF WriteLock, WriterPc
  <2>2. LockInv'
    BY <1>2 DEF WriteLock, LockInv, WriterHolds, ReaderHolds
  <2>3. WriterLocals'
    BY <1>2 DEF WriteLock, WriterLocals
  <2>4. ReaderToken'
    BY <1>2 DEF WriteLock, ReaderToken, ReaderSleeps
  <2>5. WriterToken'
    BY <1>2 DEF WriteLock, WriterToken, WriterSleeps
  <2>6. RoomInv'
    BY <1>2 DEF WriteLock, RoomInv, WriterSleeps
  <2>7. WordInv'
    BY <1>2 DEF WriteLock, WordInv, ReaderSleeps
  <2>8. ChunkInv'
    BY <1>2 DEF WriteLock, ChunkInv, Queued
  <2>. QED BY <2>1, <2>2, <2>3, <2>4, <2>5, <2>6, <2>7, <2>8
<1>3. CASE WriteFull
  <2>1. TypeOK'
    BY <1>3 DEF WriteFull, WriterPc
  <2>2. LockInv'
    BY <1>3 DEF WriteFull, LockInv, WriterHolds, ReaderHolds, WriterLocals
  <2>3. WriterLocals'
    BY <1>3 DEF WriteFull, WriterLocals
  <2>4. ReaderToken'
    BY <1>3 DEF WriteFull, ReaderToken, ReaderSleeps
  <2>5. WriterToken'
    BY <1>3 DEF WriteFull, WriterToken, WriterSleeps
  <2>6. RoomInv'
    BY <1>3 DEF WriteFull, RoomInv, LockInv, WriterHolds, ReaderHolds
  <2>7. WordInv'
    BY <1>3 DEF WriteFull, WordInv, ReaderSleeps
  <2>8. ChunkInv'
    BY <1>3 DEF WriteFull, ChunkInv, Queued
  <2>. QED BY <2>1, <2>2, <2>3, <2>4, <2>5, <2>6, <2>7, <2>8
<1>4. CASE WriteUnlockToWait
  <2>1. TypeOK'
    BY <1>4 DEF WriteUnlockToWait, WriterPc, LockInv, WriterHolds
  <2>2. LockInv'
    BY <1>4 DEF WriteUnlockToWait, LockInv, WriterHolds, ReaderHolds
  <2>3. WriterLocals'
    BY <1>4 DEF WriteUnlockToWait, WriterLocals
  <2>4. ReaderToken'
    BY <1>4 DEF WriteUnlockToWait, ReaderToken, ReaderSleeps
  <2>5. WriterToken'
    BY <1>4 DEF WriteUnlockToWait, WriterToken, WriterSleeps
  <2>6. RoomInv'
    BY <1>4 DEF WriteUnlockToWait, RoomInv, WriterSleeps
  <2>7. WordInv'
    BY <1>4 DEF WriteUnlockToWait, WordInv, ReaderSleeps
  <2>8. ChunkInv'
    BY <1>4 DEF WriteUnlockToWait, ChunkInv, Queued
  <2>. QED BY <2>1, <2>2, <2>3, <2>4, <2>5, <2>6, <2>7, <2>8
<1>5. CASE WriteWait
  <2>1. TypeOK'
    BY <1>5 DEF WriteWait, WriterPc
  <2>2. LockInv'
    BY <1>5 DEF WriteWait, LockInv, WriterHolds, ReaderHolds
  <2>3. WriterLocals'
    BY <1>5 DEF WriteWait, WriterLocals
  <2>4. ReaderToken'
    BY <1>5 DEF WriteWait, ReaderToken, ReaderSleeps
  <2>5. WriterToken'
    BY <1>5 DEF WriteWait, WriterToken, WriterSleeps
  <2>6. RoomInv'
    BY <1>5 DEF WriteWait, RoomInv, WriterToken
  <2>7. WordInv'
    BY <1>5 DEF WriteWait, WordInv, ReaderSleeps
  <2>8. ChunkInv'
    BY <1>5 DEF WriteWait, ChunkInv, Queued
  <2>. QED BY <2>1, <2>2, <2>3, <2>4, <2>5, <2>6, <2>7, <2>8
<1>6. CASE WriteRelock
  <2>1. TypeOK'
    BY <1>6 DEF WriteRelock, WriterPc
  <2>2. LockInv'
    BY <1>6 DEF WriteRelock, LockInv, WriterHolds, ReaderHolds, WriterLocals
  <2>3. WriterLocals'
    BY <1>6 DEF WriteRelock, WriterLocals
  <2>4. ReaderToken'
    BY <1>6 DEF WriteRelock, ReaderToken, ReaderSleeps
  <2>5. WriterToken'
    BY <1>6 DEF WriteRelock, WriterToken, WriterSleeps
  <2>6. RoomInv'
    BY <1>6 DEF WriteRelock, RoomInv
  <2>7. WordInv'
    BY <1>6 DEF WriteRelock, WordInv, ReaderSleeps
  <2>8. ChunkInv'
    BY <1>6 DEF WriteRelock, ChunkInv, Queued
  <2>. QED BY <2>1, <2>2, <2>3, <2>4, <2>5, <2>6, <2>7, <2>8
<1>7. CASE WriteStore
  <2>1. TypeOK'
    BY <1>7 DEF WriteStore, WriterPc
  <2>2. LockInv'
    BY <1>7 DEF WriteStore, LockInv, WriterHolds, ReaderHolds
  <2>3. WriterLocals'
    BY <1>7 DEF WriteStore, WriterLocals
  <2>4. ReaderToken'
    BY <1>7 DEF WriteStore, ReaderToken, ReaderSleeps
  <2>5. WriterToken'
    BY <1>7 DEF WriteStore, WriterToken, WriterSleeps
  <2>6. RoomInv'
    BY <1>7 DEF WriteStore, RoomInv
  <2>7. WordInv'
    BY <1>7 DEF WriteStore, WordInv, ReaderSleeps
  <2>8. ChunkInv'
    BY <1>7 DEF WriteStore, ChunkInv, Queued
  <2>. QED BY <2>1, <2>2, <2>3, <2>4, <2>5, <2>6, <2>7, <2>8
<1>8. CASE WritePublish
  <2>1. TypeOK'
    BY <1>8, DistanceIs, PipeAssumption DEF WritePublish, WriterPc, ReaderPc
  <2>2. Queued' = IF wrp' >= rdp' THEN wrp' - rdp' ELSE wrp' + size - rdp'
    BY <2>1, DistanceIs DEF Queued
  <2>3. LockInv'
    BY <1>8 DEF WritePublish, LockInv, WriterHolds, ReaderHolds
  <2>4. WriterLocals'
    BY <1>8 DEF WritePublish, WriterLocals
  <2>5. ReaderToken'
    BY <1>8 DEF WritePublish, ReaderToken, ReaderSleeps
  <2>6. WriterToken'
    BY <1>8 DEF WritePublish, WriterToken, WriterSleeps
  <2>7. RoomInv'
    BY <1>8 DEF WritePublish, RoomInv
  <2>8. WordInv'
    BY <1>8 DEF WritePublish, WordInv, RoomInv
  <2>9. ChunkInv'
    BY <1>8, <1>q, <1>r, <2>1, <2>2, PipeAssumption
       DEF WritePublish, ChunkInv, ReaderSleeps, RoomInv, WordInv
  <2>. QED BY <2>1, <2>3, <2>4, <2>5, <2>6, <2>7, <2>8, <2>9
<1>9. CASE MaybeWakeReader
  <2>1. TypeOK'
    BY <1>9 DEF MaybeWakeReader, AfterWake, WriterPc
  <2>2. LockInv'
    BY <1>9 DEF MaybeWakeReader, AfterWake, LockInv, WriterHolds, ReaderHolds
  <2>3. WriterLocals'
    BY <1>9 DEF MaybeWakeReader, AfterWake, WriterLocals
  <2>4. ReaderToken'
    BY <1>9 DEF MaybeWakeReader, AfterWake, ReaderToken, ReaderSleeps
  <2>5. WriterToken'
    BY <1>9 DEF MaybeWakeReader, AfterWake, WriterToken, WriterSleeps
  <2>6. RoomInv'
    BY <1>9 DEF MaybeWakeReader, AfterWake, RoomInv, WriterSleeps
  <2>7. WordInv'
    BY <1>9 DEF MaybeWakeReader, WordInv, ReaderSleeps
  <2>8. ChunkInv'
    BY <1>9, PipeAssumption DEF ReaderToken, RoomInv, WriterSleeps, WriterLocals
  <2>. QED BY <2>1, <2>2, <2>3, <2>4, <2>5, <2>6, <2>7, <2>8
<1>10. CASE PostReaderWait
  <2>1. TypeOK'
    BY <1>10 DEF PostReaderWait, AfterWake, WriterPc, ReaderToken
  <2>2. LockInv'
    BY <1>10 DEF PostReaderWait, AfterWake, LockInv, WriterHolds, ReaderHolds
  <2>3. WriterLocals'
    BY <1>10 DEF PostReaderWait, AfterWake, WriterLocals
  <2>4. ReaderToken'
    BY <1>10 DEF PostReaderWait, AfterWake, ReaderToken, ReaderSleeps
  <2>5. WriterToken'
    BY <1>10 DEF PostReaderWait, AfterWake, WriterToken, WriterSleeps
  <2>6. RoomInv'
    BY <1>10 DEF PostReaderWait, AfterWake, RoomInv, WriterSleeps
  <2>7. WordInv'
    BY <1>10 DEF PostReaderWait, AfterWake, WordInv, ReaderSleeps
  <2>8. ChunkInv'
    BY <1>10 DEF PostReaderWait, ChunkInv, Queued
  <2>. QED BY <2>1, <2>2, <2>3, <2>4, <2>5, <2>6, <2>7, <2>8
<1>11. CASE WriteUnlock
  <2>1. TypeOK'
    BY <1>11 DEF WriteUnlock, WriterPc, LockInv, WriterHolds
  <2>2. LockInv'
    BY <1>11 DEF WriteUnlock, LockInv, WriterHolds, ReaderHolds
  <2>3. WriterLocals'
    BY <1>11 DEF WriteUnlock, WriterLocals
  <2>4. ReaderToken'
    BY <1>11 DEF WriteUnlock, ReaderToken, ReaderSleeps
  <2>5. WriterToken'
    BY <1>11 DEF WriteUnlock, WriterToken, WriterSleeps
  <2>6. RoomInv'
    BY <1>11 DEF WriteUnlock, RoomInv, WriterSleeps
  <2>7. WordInv'
    BY <1>11 DEF WriteUnlock, WordInv, ReaderSleeps
  <2>8. ChunkInv'
    BY <1>11 DEF WriteUnlock, ChunkInv, Queued
  <2>. QED BY <2>1, <2>2, <2>3, <2>4, <2>5, <2>6, <2>7, <2>8
<1>12. CASE ReadLock
  <2>1. TypeOK'
    BY <1>12 DEF ReadLock, ReaderPc
  <2>2. LockInv'
    BY <1>12 DEF ReadLock, LockInv, WriterHolds, ReaderHolds
  <2>3. ReaderToken'
    BY <1>12 DEF ReadLock, ReaderToken, ReaderSleeps
  <2>4. WriterToken'
    BY <1>12 DEF ReadLock, WriterToken, WriterSleeps
  <2>5. RoomInv'
    BY <1>12 DEF ReadLock, RoomInv, WriterSleeps
  <2>6. WordInv'
    BY <1>12 DEF ReadLock, WordInv, ReaderSleeps
  <2>7. WriterLocals' /\ ChunkInv'
    BY <1>12 DEF ReadLock, WriterLocals, ChunkInv, Queued
  <2>. QED BY <2>1, <2>2, <2>3, <2>4, <2>5, <2>6, <2>7
<1>13. CASE ReadEmpty
  <2>1. TypeOK'
    BY <1>13 DEF ReadEmpty, ReaderPc
  <2>2. LockInv'
    BY <1>13 DEF ReadEmpty, LockInv, WriterHolds, ReaderHolds
  <2>3. WriterLocals'
    BY <1>13 DEF ReadEmpty, WriterLocals
  <2>4. ReaderToken'
    BY <1>13 DEF ReadEmpty, ReaderToken, ReaderSleeps
  <2>5. WriterToken'
    BY <1>13 DEF ReadEmpty, WriterToken, WriterSleeps
  <2>6. RoomInv'
    BY <1>13 DEF ReadEmpty, RoomInv, WriterSleeps
  <2>7. WordInv'
    BY <1>13 DEF ReadEmpty, WordInv, LockInv, WriterHolds, ReaderHolds, WriterLocals
  <2>8. ChunkInv'
    BY <1>13, PipeAssumption DEF ReadEmpty, RoomInv
  <2>. QED BY <2>1, <2>2, <2>3, <2>4, <2>5, <2>6, <2>7, <2>8
<1>14. CASE ReadUnlockToWait
  <2>1. TypeOK'
    BY <1>14 DEF ReadUnlockToWait, ReaderPc, LockInv, ReaderHolds
  <2>2. LockInv'
    BY <1>14 DEF ReadUnlockToWait, LockInv, WriterHolds, ReaderHolds
  <2>3. ReaderToken'
    BY <1>14 DEF ReadUnlockToWait, ReaderToken, ReaderSleeps
  <2>4. WriterToken'
    BY <1>14 DEF ReadUnlockToWait, WriterToken, WriterSleeps
  <2>5. RoomInv'
    BY <1>14 DEF ReadUnlockToWait, RoomInv, WriterSleeps
  <2>6. WordInv'
    BY <1>14 DEF ReadUnlockToWait, WordInv, ReaderSleeps
  <2>7. WriterLocals' /\ ChunkInv'
    BY <1>14 DEF ReadUnlockToWait, WriterLocals, ChunkInv, Queued
  <2>. QED BY <2>1, <2>2, <2>3, <2>4, <2>5, <2>6, <2>7
<1>15. CASE ReadWait
  <2>1. TypeOK'
    BY <1>15 DEF ReadWait, ReaderPc
  <2>2. LockInv'
    BY <1>15 DEF ReadWait, LockInv, WriterHolds, ReaderHolds
  <2>3. ReaderToken'
    BY <1>15 DEF ReadWait, ReaderToken, ReaderSleeps
  <2>4. WriterToken'
    BY <1>15 DEF ReadWait, WriterToken, WriterSleeps
  <2>5. RoomInv'
    BY <1>15 DEF ReadWait, RoomInv, WriterSleeps
  <2>6. WordInv'
    BY <1>15 DEF ReadWait, WordInv, ReaderToken
  <2>7. WriterLocals' /\ ChunkInv'
    BY <1>15 DEF ReadWait, WriterLocals, ChunkInv, Queued
  <2>. QED BY <2>1, <2>2, <2>3, <2>4, <2>5, <2>6, <2>7
<1>16. CASE ReadRelock
  <2>1. TypeOK'
    BY <1>16 DEF ReadRelock, ReaderPc
  <2>2. LockInv'
    BY <1>16 DEF ReadRelock, LockInv, WriterHolds, ReaderHolds
  <2>3. ReaderToken'
    BY <1>16 DEF ReadRelock, ReaderToken, ReaderSleeps
  <2>4. WriterToken'
    BY <1>16 DEF ReadRelock, WriterToken, WriterSleeps
  <2>5. RoomInv'
    BY <1>16 DEF ReadRelock, RoomInv, WriterSleeps
  <2>6. WordInv'
    BY <1>16 DEF ReadRelock, WordInv
  <2>7. WriterLocals' /\ ChunkInv'
    BY <1>16 DEF ReadRelock, WriterLocals, ChunkInv, Queued
  <2>. QED BY <2>1, <2>2, <2>3, <2>4, <2>5, <2>6, <2>7
<1>17. CASE ReadLoad
  <2>1. TypeOK'
    BY <1>17 DEF ReadLoad, ReaderPc
  <2>2. LockInv'
    BY <1>17 DEF ReadLoad, LockInv, WriterHolds, ReaderHolds
  <2>3. ReaderToken'
    BY <1>17 DEF ReadLoad, ReaderToken, ReaderSleeps
  <2>4. WriterToken'
    BY <1>17 DEF ReadLoad, WriterToken, WriterSleeps
  <2>5. RoomInv'
    BY <1>17 DEF ReadLoad, RoomInv, WriterSleeps
  <2>6. WordInv'
    BY <1>17 DEF ReadLoad, WordInv
  <2>7. WriterLocals' /\ ChunkInv'
    BY <1>17 DEF ReadLoad, WriterLocals, ChunkInv, Queued
  <2>. QED BY <2>1, <2>2, <2>3, <2>4, <2>5, <2>6, <2>7
<1>18. CASE ReadAdvance
  <2>1. TypeOK'
    BY <1>18, <1>r, PipeAssumption DEF ReadAdvance, ReaderPc
  <2>2. Queued' = IF wrp' >= rdp' THEN wrp' - rdp' ELSE wrp' + size - rdp'
    BY <2>1, DistanceIs DEF Queued
  <2>3. LockInv'
    BY <1>18 DEF ReadAdvance, LockInv, WriterHolds, ReaderHolds
  <2>4. ReaderToken'
    BY <1>18 DEF ReadAdvance, ReaderToken, ReaderSleeps
  <2>5. WriterToken'
    BY <1>18 DEF ReadAdvance, WriterToken, WriterSleeps
  <2>6. RoomInv'
    BY <1>18, <1>q, <1>w, <1>r, <2>2, PipeAssumption DEF RoomInv, WriterHolds, ReaderHolds
  <2>7. WordInv'
    BY <1>18 DEF ReadAdvance, WordInv, ReaderSleeps, ReaderToken
  <2>8. ChunkInv'
    BY <1>18, <1>q, <1>r, <2>2, PipeAssumption
       DEF ReadAdvance, ChunkInv, ReaderToken, ReaderSleeps, RoomInv
  <2>9. WriterLocals'
    BY <1>18 DEF ReadAdvance, WriterLocals
  <2>. QED BY <2>1, <2>3, <2>4, <2>5, <2>6, <2>7, <2>8, <2>9
<1>19. CASE WakeWriter
  <2>1. TypeOK'
    BY <1>19 DEF WakeWriter, ReaderPc
  <2>2. LockInv'
    BY <1>19 DEF WakeWriter, LockInv, WriterHolds, ReaderHolds
  <2>3. ReaderToken'
    BY <1>19 DEF WakeWriter, ReaderToken, ReaderSleeps
  <2>4. WriterToken'
    BY <1>19 DEF WakeWriter, WriterToken, WriterSleeps
  <2>5. RoomInv'
    BY <1>19 DEF WakeWriter, RoomInv, WriterSleeps
  <2>6. WordInv'
    BY <1>19 DEF WakeWriter, WordInv, ReaderSleeps
  <2>7. WriterLocals' /\ ChunkInv'
    BY <1>19 DEF WakeWriter, WriterLocals, ChunkInv, Queued
  <2>. QED BY <2>1, <2>2, <2>3, <2>4, <2>5, <2>6, <2>7
<1>20. CASE PostWriterWait
  <2>1. TypeOK'
    BY <1>20 DEF PostWriterWait, ReaderPc, WriterToken
  <2>2. LockInv'
    BY <1>20 DEF PostWriterWait, LockInv, WriterHolds, ReaderHolds
  <2>3. ReaderToken'
    BY <1>20 DEF PostWriterWait, ReaderToken, ReaderSleeps
  <2>4. WriterToken'
    BY <1>20 DEF PostWriterWait, WriterToken, WriterSleeps
  <2>5. RoomInv'
    BY <1>20 DEF PostWriterWait, RoomInv, WriterSleeps
  <2>6. WordInv'
    BY <1>20 DEF PostWriterWait, WordInv, ReaderSleeps
  <2>7. WriterLocals' /\ ChunkInv'
    BY <1>20 DEF PostWriterWait, WriterLocals, ChunkInv, Queued
  <2>. QED BY <2>1, <2>2, <2>3, <2>4, <2>5, <2>6, <2>7
<1>21. CASE ReadUnlock
  <2>1. TypeOK'
    BY <1>21 DEF ReadUnlock, ReaderPc, LockInv, ReaderHolds
  <2>2. LockInv'
    BY <1>21 DEF ReadUnlock, LockInv, WriterHolds, ReaderHolds
  <2>3. ReaderToken'
    BY <1>21 DEF ReadUnlock, ReaderToken, ReaderSleeps
  <2>4. WriterToken'
    BY <1>21 DEF ReadUnlock, WriterToken, WriterSleeps
  <2>5. RoomInv'
    BY <1>21 DEF ReadUnlock, RoomInv, WriterSleeps
  <2>6. WordInv'
    BY <1>21 DEF ReadUnlock, WordInv, ReaderSleeps
  <2>7. WriterLocals' /\ ChunkInv'
    BY <1>21 DEF ReadUnlock, WriterLocals, ChunkInv, Queued
  <2>. QED BY <2>1, <2>2, <2>3, <2>4, <2>5, <2>6, <2>7
<1>22. CASE UNCHANGED vars
  BY <1>22 DEF vars, LockInv, WriterHolds, ReaderHolds, WriterLocals, ReaderToken, ReaderSleeps,
     WriterToken, WriterSleeps, RoomInv, WordInv, ChunkInv, Queued
<1>. QED BY <1>1, <1>2, <1>3, <1>4, <1>5, <1>6, <1>7, <1>8, <1>9, <1>10, <1>11, <1>12,
           <1>13, <1>14, <1>15, <1>16, <1>17, <1>18, <1>19, <1>20, <1>21, <1>22
         DEF Next, WriterStep, ReaderStep

(* The initial state has the types and the invariant.                      *)
LEMMA PipeInvInit == Init => TypeOK /\ PipeInv
<1>. SUFFICES ASSUME Init PROVE TypeOK /\ PipeInv
  OBVIOUS
<1>1. TypeOK
  BY PipeAssumption DEF Init, TypeOK, Slot, WriterPc, ReaderPc
<1>2. Queued = 0
  BY <1>1, DistanceIs DEF Init, TypeOK, Queued
<1>3. LockInv /\ WriterLocals /\ ReaderToken /\ WriterToken
  BY DEF Init, LockInv, WriterLocals, ReaderToken, WriterToken, WriterHolds, ReaderHolds,
         ReaderSleeps, WriterSleeps
<1>4. RoomInv /\ WordInv /\ ChunkInv
  BY <1>2, PipeAssumption DEF Init, RoomInv, WordInv, ChunkInv, ReaderSleeps, WriterSleeps
<1>. QED BY <1>1, <1>3, <1>4 DEF PipeInv

(* The code of commpipe.h keeps its types and its inductive invariant.     *)
THEOREM PipeInvariant == Spec => []TypeOK /\ []PipeInv
<1>1. Init => TypeOK /\ PipeInv
  BY PipeInvInit
<1>2. TypeOK /\ PipeInv /\ [Next]_vars => (TypeOK /\ PipeInv)'
  BY PipeInvStep
<1>. QED BY <1>1, <1>2, PTL DEF Spec

(* Positions, flags, semaphore counts and program counters keep their      *)
(* types: neither semaphore is ever posted more than once.                 *)
THEOREM PipeTypeCorrect == Spec => []TypeOK
BY PipeInvariant, PTL

(* A write never laps the reader: neither the lock-free path without a     *)
(* full test nor the position computed before waiting for room.            *)
THEOREM WriterNeverOverruns == Spec => []NoOverrun
<1>1. PipeInv => NoOverrun
  BY DEF PipeInv, WriterLocals, RoomInv, NoOverrun
<1>. QED BY <1>1, PipeInvariant, PTL

(* A read never takes a slot that holds no word, although it does not test *)
(* again once reader_wait was posted.                                      *)
THEOREM ReaderNeverUnderruns == Spec => []NoUnderrun
<1>1. PipeInv => NoUnderrun
  BY DEF PipeInv, WordInv, NoUnderrun
<1>. QED BY <1>1, PipeInvariant, PTL

(* A reader never sleeps through a flushed word or a full chunk.           *)
THEOREM ReaderWakeNotLost == Spec => []NoLostReaderWake
<1>1. TypeOK /\ PipeInv => NoLostReaderWake
  BY DistanceIs, PipeAssumption
     DEF PipeInv, TypeOK, Slot, ReaderToken, ReaderSleeps, ChunkInv, Queued, NoLostReaderWake
<1>. QED BY <1>1, PipeInvariant, PTL

(* A writer never sleeps through the reader's making room.                 *)
THEOREM WriterWakeNotLost == Spec => []NoLostWriterWake
<1>1. TypeOK /\ PipeInv => NoLostWriterWake
  BY DEF PipeInv, TypeOK, WriterToken, WriterSleeps, RoomInv, NoLostWriterWake
<1>. QED BY <1>1, PipeInvariant, PTL

-----------------------------------------------------------------------------
(* The ring between rdp and wrp, read as a sequence.                       *)
LEMMA ContentsSeq ==
  ASSUME NEW d \in [Slot -> Word], NEW r \in Slot, NEW w \in Slot
  PROVE  /\ Contents(d, r, w) \in Seq(Word)
         /\ Len(Contents(d, r, w)) = IF w >= r THEN w - r ELSE w + size - r
         /\ \A i \in 1 .. Len(Contents(d, r, w)) :
               Contents(d, r, w)[i] = d[IF r + i - 1 < size THEN r + i - 1 ELSE r + i - 1 - size]
<1>. DEFINE n == (w + size - r) % size
<1>1. n = IF w >= r THEN w - r ELSE w + size - r
  BY DistanceIs
<1>2. n \in Nat /\ n < size
  BY <1>1, PipeAssumption DEF Slot
<1>3. \A i \in 1 .. n : /\ (r + i - 1) % size
                             = IF r + i - 1 < size THEN r + i - 1 ELSE r + i - 1 - size
                        /\ (r + i - 1) % size \in Slot
  <2>1. TAKE i \in 1 .. n
  <2>2. PICK k \in Nat : k = r + i - 1 /\ k < size + size
    BY <1>2, PipeAssumption DEF Slot
  <2>3. k % size = IF k < size THEN k ELSE k - size
    BY <2>2, ModOnce
  <2>4. (IF k < size THEN k ELSE k - size) \in Slot
    BY <2>2, PipeAssumption DEF Slot
  <2>5. k % size \in Slot
    BY <2>3, <2>4
  <2>6. r \in Int /\ i \in Int /\ size \in Int
    BY <1>2, PipeAssumption DEF Slot
  <2>. QED BY <2>2, <2>3, <2>5, <2>6
<1>4. Contents(d, r, w) = [i \in 1 .. n |-> d[(r + i - 1) % size]]
  BY DEF Contents
<1>. HIDE DEF n
<1>5. Contents(d, r, w) \in [1 .. n -> Word]
  BY <1>3, <1>4
<1>6. Contents(d, r, w) \in Seq(Word) /\ Len(Contents(d, r, w)) = n
  BY <1>2, <1>5
<1>. QED BY <1>1, <1>3, <1>4, <1>6

(* Moving wrp past a stored word appends it.                               *)
LEMMA ContentsAppend ==
  ASSUME NEW d \in [Slot -> Word], NEW r \in Slot, NEW w \in Slot, Succ(w) # r
  PROVE  Contents(d, r, Succ(w)) = Append(Contents(d, r, w), d[w])
<1>. DEFINE s == Contents(d, r, w)  t == Contents(d, r, Succ(w))  u == Append(s, d[w])
<1>1. Succ(w) \in Slot /\ Succ(w) = IF w + 1 = size THEN 0 ELSE w + 1
  BY SuccIs, PipeAssumption DEF Slot
<1>2. /\ s \in Seq(Word) /\ t \in Seq(Word)
      /\ Len(s) = IF w >= r THEN w - r ELSE w + size - r
      /\ Len(t) = IF Succ(w) >= r THEN Succ(w) - r ELSE Succ(w) + size - r
      /\ \A i \in 1 .. Len(s) : s[i] = d[IF r + i - 1 < size THEN r + i - 1 ELSE r + i - 1 - size]
      /\ \A i \in 1 .. Len(t) : t[i] = d[IF r + i - 1 < size THEN r + i - 1 ELSE r + i - 1 - size]
  BY <1>1, ContentsSeq
<1>3. d[w] \in Word
  OBVIOUS
<1>. HIDE DEF s, t
<1>4. /\ u \in Seq(Word) /\ Len(u) = Len(s) + 1
      /\ \A i \in 1 .. Len(s) : u[i] = s[i]
      /\ u[Len(s) + 1] = d[w]
  BY <1>2, <1>3, AppendProperties
<1>. HIDE DEF u
<1>5. Len(t) = Len(s) + 1
  BY <1>1, <1>2, PipeAssumption DEF Slot
<1>6. ASSUME NEW i \in 1 .. Len(u) PROVE t[i] = u[i]
  <2>1. CASE i \in 1 .. Len(s)
    BY <1>2, <1>4, <1>5, <2>1
  <2>2. CASE i = Len(s) + 1
    <3>1. (IF r + i - 1 < size THEN r + i - 1 ELSE r + i - 1 - size) = w
      BY <1>2, <2>2, PipeAssumption DEF Slot
    <3>. QED BY <1>2, <1>4, <1>5, <2>2, <3>1
  <2>3. Len(s) \in Nat
    BY <1>2, LenProperties
  <2>. QED BY <1>4, <2>1, <2>2, <2>3
<1>7. t = u
  BY <1>2, <1>4, <1>5, <1>6, SeqEqual
<1>. QED BY <1>7 DEF s, t, u

(* Moving rdp past a word takes it off the head.                           *)
LEMMA ContentsTail ==
  ASSUME NEW d \in [Slot -> Word], NEW r \in Slot, NEW w \in Slot, r # w
  PROVE  /\ Contents(d, r, w) # <<>>
         /\ Head(Contents(d, r, w)) = d[r]
         /\ Contents(d, Succ(r), w) = Tail(Contents(d, r, w))
<1>. DEFINE s == Contents(d, r, w)  t == Contents(d, Succ(r), w)
<1>1. Succ(r) \in Slot /\ Succ(r) = IF r + 1 = size THEN 0 ELSE r + 1
  BY SuccIs, PipeAssumption DEF Slot
<1>2. /\ s \in Seq(Word) /\ t \in Seq(Word)
      /\ Len(s) = IF w >= r THEN w - r ELSE w + size - r
      /\ Len(t) = IF w >= Succ(r) THEN w - Succ(r) ELSE w + size - Succ(r)
      /\ \A i \in 1 .. Len(s) : s[i] = d[IF r + i - 1 < size THEN r + i - 1 ELSE r + i - 1 - size]
      /\ \A i \in 1 .. Len(t) :
            t[i] = d[IF Succ(r) + i - 1 < size THEN Succ(r) + i - 1 ELSE Succ(r) + i - 1 - size]
  BY <1>1, ContentsSeq
<1>. HIDE DEF s, t
<1>3. Len(s) \in Nat /\ Len(s) > 0 /\ Len(t) = Len(s) - 1
  BY <1>1, <1>2, PipeAssumption DEF Slot
<1>4. s # <<>> /\ Head(s) = s[1]
  BY <1>2, <1>3
<1>5. s[1] = d[r]
  BY <1>2, <1>3, PipeAssumption DEF Slot
<1>6. /\ Tail(s) \in Seq(Word) /\ Len(Tail(s)) = Len(s) - 1
      /\ \A i \in 1 .. Len(Tail(s)) : Tail(s)[i] = s[i + 1]
  BY <1>2, <1>4, HeadTailProperties
<1>7. ASSUME NEW i \in 1 .. Len(t) PROVE t[i] = Tail(s)[i]
  <2>1. i + 1 \in 1 .. Len(s) /\ i \in 1 .. Len(Tail(s)) /\ i \in Nat
    BY <1>3, <1>6
  <2>2. (IF Succ(r) + i - 1 < size THEN Succ(r) + i - 1 ELSE Succ(r) + i - 1 - size)
          = (IF r + (i + 1) - 1 < size THEN r + (i + 1) - 1 ELSE r + (i + 1) - 1 - size)
    BY <1>1, <1>2, <1>3, <2>1, PipeAssumption DEF Slot
  <2>. QED BY <1>2, <1>6, <2>1, <2>2
<1>8. t = Tail(s)
  BY <1>2, <1>3, <1>6, <1>7, SeqEqual
<1>. QED BY <1>4, <1>5, <1>8 DEF s, t

(* The slot at wrp is not part of the contents.                            *)
LEMMA ContentsStore ==
  ASSUME NEW d \in [Slot -> Word], NEW r \in Slot, NEW w \in Slot, NEW x \in Word
  PROVE  Contents([d EXCEPT ![w] = x], r, w) = Contents(d, r, w)
<1>. DEFINE e == [d EXCEPT ![w] = x]  s == Contents(d, r, w)  t == Contents(e, r, w)
<1>1. e \in [Slot -> Word] /\ \A j \in Slot : j # w => e[j] = d[j]
  OBVIOUS
<1>. HIDE DEF e
<1>2. /\ s \in Seq(Word) /\ t \in Seq(Word) /\ Len(t) = Len(s)
      /\ Len(s) = IF w >= r THEN w - r ELSE w + size - r
      /\ \A i \in 1 .. Len(s) : s[i] = d[IF r + i - 1 < size THEN r + i - 1 ELSE r + i - 1 - size]
      /\ \A i \in 1 .. Len(t) : t[i] = e[IF r + i - 1 < size THEN r + i - 1 ELSE r + i - 1 - size]
  BY <1>1, ContentsSeq
<1>. HIDE DEF s, t
<1>3. ASSUME NEW i \in 1 .. Len(s) PROVE t[i] = s[i]
  <2>. DEFINE j == IF r + i - 1 < size THEN r + i - 1 ELSE r + i - 1 - size
  <2>1. j \in Slot /\ j # w
    BY <1>2, PipeAssumption DEF Slot
  <2>2. s[i] = d[j] /\ t[i] = e[j]
    BY <1>2
  <2>. QED BY <1>1, <2>1, <2>2
<1>4. t = s
  BY <1>2, <1>3, SeqEqual
<1>. QED BY <1>4 DEF s, t, e

(* A step of the code is a call, a put, a get or nothing to the FIFO.      *)
LEMMA FifoStep ==
  ASSUME TypeOK, PipeInv, [Next]_vars
  PROVE  [Fifo!Next]_(Fifo!pipeVars)
<1>. USE DEF ring, flags, sems, writer, reader, hist
<1>1. CASE WritePublish
  <2>1. nxwrp = Succ(wrp) /\ nxwrp # rdp /\ data[wrp] = wdata
    BY <1>1 DEF WritePublish, PipeInv, WriterLocals, RoomInv
  <2>2. Contents(data, rdp, wrp)' = Append(Contents(data, rdp, wrp), wdata)
    BY <1>1, <2>1, ContentsAppend DEF WritePublish, TypeOK
  <2>3. Len(Contents(data, rdp, wrp)) < size - 1
    <3>1. Len(Contents(data, rdp, wrp)) = IF wrp >= rdp THEN wrp - rdp ELSE wrp + size - rdp
      BY ContentsSeq DEF TypeOK
    <3>2. nxwrp = IF wrp + 1 = size THEN 0 ELSE wrp + 1
      BY <2>1, SuccIs DEF TypeOK
    <3>. QED BY <2>1, <3>1, <3>2, PipeAssumption DEF TypeOK, Slot
  <2>4. Fifo!Put(wdata)
    BY <1>1, <2>2, <2>3 DEF WritePublish, Fifo!Put, Unwritten
  <2>. QED BY <2>4 DEF Fifo!Next, TypeOK
<1>2. CASE ReadAdvance
  <2>1. rdp # wrp /\ rdata = data[rdp]
    BY <1>2 DEF ReadAdvance, PipeInv, WordInv
  <2>2. /\ Contents(data, rdp, wrp) # <<>> /\ Head(Contents(data, rdp, wrp)) = data[rdp]
        /\ Contents(data, Succ(rdp), wrp) = Tail(Contents(data, rdp, wrp))
    BY <2>1, ContentsTail DEF TypeOK
  <2>3. Fifo!Get
    BY <1>2, <2>1, <2>2 DEF ReadAdvance, Fifo!Get
  <2>. QED BY <2>3 DEF Fifo!Next
<1>3. CASE WriteStore
  <2>1. Contents(data, rdp, wrp)' = Contents(data, rdp, wrp)
    BY <1>3, ContentsStore DEF WriteStore, TypeOK
  <2>. QED BY <1>3, <2>1 DEF WriteStore, Fifo!pipeVars, Unwritten
<1>4. CASE WriterCallStep
  <2>1. PICK w \in Word, nb \in {0, 1} : WriteCall(w, nb)
    BY <1>4 DEF WriterCallStep
  <2>2. Fifo!Call(w)
    BY <2>1 DEF WriteCall, Fifo!Call, Unwritten
  <2>. QED BY <2>2 DEF Fifo!Next
<1>5. CASE /\ UNCHANGED <<data, rdp, wrp, delivered, wdata>>
           /\ wpc \in Unwritten <=> wpc' \in Unwritten
  BY <1>5 DEF Fifo!pipeVars
<1>. QED
  BY <1>1, <1>2, <1>3, <1>4, <1>5
     DEF Unwritten, AfterWake, Next, WriterCallStep, WriterStep, ReaderStep, vars,
         WriteLock, WriteFull,
         WriteUnlockToWait, WriteWait, WriteRelock, MaybeWakeReader, PostReaderWait, WriteUnlock,
         ReadLock, ReadEmpty, ReadUnlockToWait, ReadWait, ReadRelock, ReadLoad, WakeWriter,
         PostWriterWait, ReadUnlock

(* The ring with its flags and semaphores implements the bounded FIFO that *)
(* the pipe's users rely on: words arrive unchanged, in order, once.       *)
THEOREM PipeImplementsFifo == Spec => ImplementsFifo
<1>1. Init => Fifo!Init
  <2>. SUFFICES ASSUME Init PROVE Fifo!Init
    OBVIOUS
  <2>1. TypeOK
    BY PipeInvInit
  <2>2. Contents(data, rdp, wrp) \in Seq(Word) /\ Len(Contents(data, rdp, wrp)) = 0
    BY <2>1, ContentsSeq DEF Init, TypeOK
  <2>3. Contents(data, rdp, wrp) = <<>>
    BY <2>2
  <2>. QED BY <2>3 DEF Init, Fifo!Init, Unwritten
<1>2. TypeOK /\ PipeInv /\ [Next]_vars => [Fifo!Next]_(Fifo!pipeVars)
  BY FifoStep
<1>. QED BY <1>1, <1>2, PipeInvariant, PTL DEF Spec, ImplementsFifo, Fifo!Spec
=============================================================================
