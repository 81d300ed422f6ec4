--------------------------- MODULE RecordLocksProofs ---------------------------
(******************************************************************************)
(* Proofs about RecordLocks, for any handles, files, requests and counters:   *)
(* the handles of a file hold disjoint ranges, and a walk that releases a     *)
(* waiting request finds the key it names.                                    *)
(******************************************************************************)
EXTENDS RecordLocks, SequenceTheorems, TLAPS

(* A closed handle holds no record.                                           *)
ClosedInv == \A k \in Key \ keys : record[k] = <<>>

(* No record of an open handle collides with one of another handle of its     *)
(* file. It says of the tests of record_hit what HoldersDisjoint says of      *)
(* bytes, and is the form a step of the code keeps.                           *)
ApartInv ==
  \A k1, k2 \in keys : k1 # k2 /\ FileOf[k1] = FileOf[k2] =>
    \A i \in DOMAIN record[k1], j \in DOMAIN record[k2] : ~Hits(record[k1][i], record[k2][j])

(* While the unit's thread walks the list, its packet is the one that freed   *)
(* a record: no handle is opened or closed and no packet is read.             *)
WalkInv == thread["unit"].pc \in {"walk", "unlink", "free"} => packet.key \in keys

LockInv == TypeOK /\ ClosedInv /\ ApartInv /\ WalkInv

--------------------------------------------------------------------------------
(* The tests of record_hit say that one of two records is exclusive and that  *)
(* they share a byte: none of the ways two ranges can overlap is forgotten.   *)
LEMMA HitsMeansOverlap ==
  ASSUME NEW a \in Record, NEW b \in Record
  PROVE  Hits(a, b) <=> (Exclusive(a.mode) \/ Exclusive(b.mode)) /\ Bytes(a) \cap Bytes(b) # {}
<1> DEFINE share == a.pos < b.pos + b.len /\ b.pos < a.pos + a.len /\ a.len # 0 /\ b.len # 0
<1>0. a.pos \in Nat /\ a.len \in Nat /\ b.pos \in Nat /\ b.len \in Nat
  BY DEF Record
<1>1. Hits(a, b) <=> (Exclusive(a.mode) \/ Exclusive(b.mode)) /\ share
  BY <1>0 DEF Hits
<1>2. ASSUME share PROVE Bytes(a) \cap Bytes(b) # {}
  <2>1. CASE a.pos <= b.pos
    BY <2>1, <1>0, <1>2, b.pos \in Bytes(a), b.pos \in Bytes(b) DEF Bytes
  <2>2. CASE b.pos <= a.pos
    BY <2>2, <1>0, <1>2, a.pos \in Bytes(a), a.pos \in Bytes(b) DEF Bytes
  <2> QED BY <2>1, <2>2, <1>0
<1>3. ASSUME Bytes(a) \cap Bytes(b) # {} PROVE share
  BY <1>0, <1>3 DEF Bytes
<1> QED BY <1>1, <1>2, <1>3

(* It does not matter which of two records is the request.                    *)
LEMMA HitsSymmetric ==
  ASSUME NEW a, NEW b, a.pos \in Nat, a.len \in Nat, b.pos \in Nat, b.len \in Nat
  PROVE  Hits(a, b) <=> Hits(b, a)
BY DEF Hits

(* What is left of a list of records after the first i of them.               *)
LEMMA Suffix ==
  ASSUME NEW S, NEW s \in Seq(S), NEW i \in DOMAIN s
  PROVE  /\ SubSeq(s, i + 1, Len(s)) \in Seq(S)
         /\ \A j \in DOMAIN SubSeq(s, i + 1, Len(s)) :
              /\ i + j \in DOMAIN s
              /\ SubSeq(s, i + 1, Len(s))[j] = s[i + j]
<1> DEFINE t == SubSeq(s, i + 1, Len(s))
<1>1. Len(s) \in Nat /\ DOMAIN s = 1..Len(s) /\ i \in 1..Len(s)
  BY LenProperties
<1>2. \A j \in (i + 1)..Len(s) : s[j] \in S
  BY <1>1, ElementOfSeq
<1>3. /\ t \in Seq(S)
      /\ Len(t) = IF i + 1 <= Len(s) THEN Len(s) - (i + 1) + 1 ELSE 0
      /\ \A j \in 1..(Len(s) - (i + 1) + 1) : t[j] = s[i + 1 + j - 1]
  BY <1>1, <1>2, SubSeqProperties, i + 1 \in Int, Len(s) \in Int
<1>4. DOMAIN t = 1..Len(t)
  BY <1>3, LenProperties
<1> HIDE DEF t
<1>5. ASSUME NEW j \in DOMAIN t PROVE i + j \in DOMAIN s /\ t[j] = s[i + j]
  BY <1>1, <1>3, <1>4, <1>5
<1> QED BY <1>3, <1>5 DEF t

(* A new record is the first of the list.                                     *)
LEMMA Prefixed ==
  ASSUME NEW S, NEW s \in Seq(S), NEW e \in S
  PROVE  /\ <<e>> \o s \in Seq(S)
         /\ \A j \in DOMAIN (<<e>> \o s) :
              (<<e>> \o s)[j] = e \/ (j - 1 \in DOMAIN s /\ (<<e>> \o s)[j] = s[j - 1])
<1>1. <<e>> \in Seq(S) /\ Len(<<e>>) = 1 /\ <<e>>[1] = e
  OBVIOUS
<1>2. Len(s) \in Nat /\ DOMAIN s = 1..Len(s)
  BY LenProperties
<1>3. /\ <<e>> \o s \in Seq(S) /\ Len(<<e>> \o s) = 1 + Len(s)
      /\ \A j \in 1..(1 + Len(s)) : (<<e>> \o s)[j] = IF j <= 1 THEN <<e>>[j] ELSE s[j - 1]
  BY <1>1, ConcatProperties
<1>4. DOMAIN (<<e>> \o s) = 1..(1 + Len(s))
  BY <1>2, <1>3, LenProperties
<1> QED BY <1>1, <1>2, <1>3, <1>4

(* A counter counts modulo TimeoutMod.                                        *)
LEMMA Counter ==
  ASSUME NEW n \in Int
  PROVE  n % TimeoutMod \in 0..(TimeoutMod - 1)
BY RecordAssumption

(* A timeout, in vsyncs, fits the counter it is compared with.                *)
LEMMA VsyncsCounter ==
  ASSUME NEW q \in Request
  PROVE  Vsyncs(q.timeout) \in 0..(TimeoutMod - 1)
<1>1. (q.timeout * VblankHz) \div 50 \in Int
  BY RecordAssumption
<1> QED BY <1>1, Counter DEF Vsyncs

--------------------------------------------------------------------------------
(* No record and no request at first.                                         *)
LEMMA InitLocks == Init => LockInv
<1> SUFFICES ASSUME Init PROVE LockInv
  OBVIOUS
<1>1. TypeOK
  <2>1. record \in [Key -> Seq(Record)]
    BY EmptySeq DEF Init
  <2>2. timeout \in [Msg -> 0..(TimeoutMod - 1)]
    BY RecordAssumption DEF Init
  <2>3. thread \in [{"unit", "vsync"} -> Position]
    BY DEF Init, Idle, At, Position
  <2> QED BY <2>1, <2>2, <2>3 DEF Init, TypeOK
<1>2. ClosedInv /\ ApartInv /\ WalkInv
  BY DEF Init, ClosedInv, ApartInv, WalkInv, Idle, At
<1> QED BY <1>1, <1>2 DEF LockInv

(* The other actions of the handles: opening and closing.                     *)
LEMMA OpenKeyKeeps ==
  ASSUME NEW k \in Key, LockInv, OpenKey(k)
  PROVE  LockInv'
<1> USE DEF OpenKey, OtherPacket, LockInv
<1>1. TypeOK'
  BY DEF TypeOK, list, NoPacket
<1>2. ClosedInv'
  BY DEF ClosedInv
<1>3. ApartInv'
  BY DEF ClosedInv, ApartInv
<1>4. WalkInv'
  BY DEF WalkInv, Idle, At
<1> QED BY <1>1, <1>2, <1>3, <1>4

(* action_end frees the records of the key it closes.                         *)
LEMMA CloseKeyKeeps ==
  ASSUME NEW k \in Key, LockInv, action_end(k)
  PROVE  LockInv'
<1> USE DEF action_end, OtherPacket, LockInv
<1>1. TypeOK'
  BY EmptySeq DEF TypeOK, list, NoPacket
<1>2. ClosedInv'
  BY DEF ClosedInv, TypeOK
<1>3. ApartInv'
  BY DEF ApartInv, TypeOK
<1>4. WalkInv'
  BY DEF WalkInv, Idle, At
<1> QED BY <1>1, <1>2, <1>3, <1>4

(* A packet is read while the unit's thread is at rest.                       *)
LEMMA ReadPacketTypes ==
  ASSUME NEW m \in Msg, NEW k \in Key, LockInv, ReadPacket(m, k)
  PROVE  /\ mark' \in [Msg -> {"client", "handed", "done", "timeout"}]
         /\ packet' \in [msg : Msg, key : Key] /\ packet'.key = k
BY DEF LockInv, TypeOK, ReadPacket

(* A request that is refused leaves no record.                                *)
LEMMA RefusedKeeps ==
  ASSUME NEW m \in Msg, NEW k \in Key, NEW q \in Request, LockInv,
         ReadPacket(m, k), Refused(k, q), UNCHANGED <<keys, stale>>
  PROVE  LockInv'
<1> USE DEF Refused, Answer, Goto, At, list, LockInv
<1>1. TypeOK'
  BY ReadPacketTypes DEF TypeOK, Position, Null
<1>2. ClosedInv' /\ ApartInv'
  BY DEF ClosedInv, ApartInv
<1>3. WalkInv'
  BY DEF WalkInv, TypeOK
<1> QED BY <1>1, <1>2, <1>3

(* The record that is granted collides with no record of another handle.      *)
LEMMA GrantedKeeps ==
  ASSUME NEW m \in Msg, NEW k \in Key, NEW q \in Request, LockInv,
         ReadPacket(m, k), Granted(k, q), UNCHANGED <<keys, stale>>
  PROVE  LockInv'
<1> DEFINE r == [pos |-> q.pos, len |-> q.len, mode |-> q.mode]
<1> USE DEF Granted, Answer, Goto, At, list, LockInv
<1>1. r \in Record /\ record[k] \in Seq(Record) /\ record'[k] = <<r>> \o record[k]
  <2>1. r \in Record
    BY RecordAssumption DEF Record, REC_EXCLUSIVE, REC_SHARED_IMMED
  <2>2. record[k] \in Seq(Record)
    BY DEF TypeOK
  <2>3. record'[k] = <<r>> \o record[k]
    BY DEF TypeOK
  <2> QED BY <2>1, <2>2, <2>3
<1>2. \A j \in Key \ {k} : record'[j] = record[j]
  BY DEF TypeOK
<1> HIDE DEF r
<1>3. TypeOK'
  <2>1. record' \in [Key -> Seq(Record)]
    BY <1>1, Prefixed DEF TypeOK
  <2> QED BY <2>1, ReadPacketTypes DEF TypeOK, Position, Null
<1>4. ClosedInv'
  BY <1>2 DEF ClosedInv
<1>5. ASSUME NEW k2 \in keys, k2 # k, FileOf[k2] = FileOf[k], NEW i \in DOMAIN record[k2]
      PROVE  ~Hits(r, record[k2][i]) /\ ~Hits(record[k2][i], r)
  <2>1. ~Hits(q, record[k2][i])
    BY <1>5 DEF record_hit
  <2>2. Hits(q, record[k2][i]) <=> Hits(r, record[k2][i])
    BY DEF Hits, r
  <2>3. record[k2] \in Seq(Record)
    BY DEF TypeOK
  <2>4. record[k2][i] \in Record
    BY <2>3, ElementOfSeq, LenProperties
  <2> QED BY <1>1, <2>1, <2>2, <2>4, HitsSymmetric DEF Record
<1>6. ASSUME NEW j \in DOMAIN record'[k]
      PROVE  record'[k][j] = r \/ (j - 1 \in DOMAIN record[k] /\ record'[k][j] = record[k][j - 1])
  BY <1>1, <1>6, Prefixed
<1>7. ApartInv'
  <2> SUFFICES ASSUME NEW k1 \in keys, NEW k2 \in keys, k1 # k2, FileOf[k1] = FileOf[k2],
                      NEW i \in DOMAIN record'[k1], NEW j \in DOMAIN record'[k2]
               PROVE  ~Hits(record'[k1][i], record'[k2][j])
    BY DEF ApartInv
  <2>0. k1 \in Key /\ k2 \in Key
    BY DEF TypeOK
  <2>1. CASE k1 = k
    BY <2>0, <2>1, <1>2, <1>5, <1>6 DEF ApartInv
  <2>2. CASE k2 = k
    BY <2>0, <2>2, <1>2, <1>5, <1>6 DEF ApartInv
  <2>3. CASE k1 # k /\ k2 # k
    BY <2>0, <2>3, <1>2 DEF ApartInv
  <2> QED BY <2>1, <2>2, <2>3
<1>8. WalkInv'
  BY DEF WalkInv, TypeOK
<1> QED BY <1>3, <1>4, <1>7, <1>8

(* A request that may wait has its entry linked to the head, but the head is  *)
(* still the old one.                                                         *)
LEMMA QueuedKeeps ==
  ASSUME NEW m \in Msg, NEW k \in Key, NEW q \in Request, LockInv,
         ReadPacket(m, k), Queued(m, k, q), UNCHANGED <<keys, stale>>
  PROVE  LockInv'
<1> USE DEF Queued, Goto, At, LockInv
<1>1. TypeOK'
  <2>1. [key |-> k, pos |-> q.pos, len |-> q.len, mode |-> q.mode] \in Entry
    BY RecordAssumption DEF Entry, REC_EXCLUSIVE, REC_SHARED_IMMED
  <2>2. /\ entry' \in [Msg -> {<<>>} \cup Entry] /\ live' \subseteq Msg
        /\ \A n \in live' : entry'[n] \in Entry
    BY <2>1 DEF TypeOK
  <2>3. /\ next' \in [Msg -> {Null} \cup Msg] /\ timeout' \in [Msg -> 0..(TimeoutMod - 1)]
    BY VsyncsCounter DEF TypeOK
  <2>4. thread' \in [{"unit", "vsync"} -> Position]
    BY DEF TypeOK, Position
  <2> QED BY <2>2, <2>3, <2>4, ReadPacketTypes DEF TypeOK
<1>2. ClosedInv' /\ ApartInv'
  BY DEF ClosedInv, ApartInv
<1>3. WalkInv'
  BY DEF WalkInv, TypeOK
<1> QED BY <1>1, <1>2, <1>3

(* The three ways ACTION_LOCK_RECORD goes.                                    *)
LEMMA LockRecordKeeps ==
  ASSUME NEW m \in Msg, NEW k \in Key, NEW q \in Request, LockInv, action_lock_record(m, k, q)
  PROVE  LockInv'
BY RefusedKeeps, GrantedKeeps, QueuedKeeps DEF action_lock_record

(* Freeing a record leaves a suffix of the handle's list, and the handle that *)
(* the walk will look for is the one that was found.                          *)
LEMMA FreeRecordKeeps ==
  ASSUME NEW m \in Msg, NEW k \in Key, NEW q \in Request, LockInv, action_free_record(m, k, q)
  PROVE  LockInv'
<1> USE DEF action_free_record, Answer, Goto, At, list, LockInv
<1>1. CASE NothingToFree(k, q)
  <2> USE <1>1 DEF NothingToFree
  <2>1. TypeOK'
    BY ReadPacketTypes DEF TypeOK, Position, Null
  <2>2. ClosedInv' /\ ApartInv'
    BY DEF ClosedInv, ApartInv
  <2>3. WalkInv'
    BY DEF WalkInv, TypeOK
  <2> QED BY <2>1, <2>2, <2>3
<1>2. CASE FreesRecord(k, q)
  <2>1. PICK i \in DOMAIN record[k] :
          record' = [record EXCEPT ![k] = SubSeq(@, i + 1, Len(@))]
    BY <1>2 DEF FreesRecord
  <2>2. k \in keys /\ thread' = [thread EXCEPT !["unit"] = At("walk", Null, head)]
    BY <1>2 DEF FreesRecord
  <2>3. record[k] \in Seq(Record) /\ record'[k] = SubSeq(record[k], i + 1, Len(record[k]))
    BY <2>1 DEF TypeOK
  <2>4. /\ record'[k] \in Seq(Record)
        /\ \A j \in DOMAIN record'[k] : i + j \in DOMAIN record[k]
                                        /\ record'[k][j] = record[k][i + j]
    BY <2>3, Suffix
  <2>5. \A j \in Key \ {k} : record'[j] = record[j]
    BY <2>1 DEF TypeOK
  <2>6. TypeOK'
    <3>1. record' \in [Key -> Seq(Record)]
      BY <2>1, <2>4 DEF TypeOK
    <3> QED BY <2>2, <3>1, ReadPacketTypes DEF TypeOK, Position, Null
  <2>7. ClosedInv'
    BY <2>2, <2>5 DEF ClosedInv
  <2>8. ApartInv'
    <3> SUFFICES ASSUME NEW k1 \in keys, NEW k2 \in keys, k1 # k2, FileOf[k1] = FileOf[k2],
                        NEW a \in DOMAIN record'[k1], NEW b \in DOMAIN record'[k2]
                 PROVE  ~Hits(record'[k1][a], record'[k2][b])
      BY DEF ApartInv
    <3>0. k1 \in Key /\ k2 \in Key
      BY DEF TypeOK
    <3>1. PICK a0 \in DOMAIN record[k1] : record'[k1][a] = record[k1][a0]
      BY <3>0, <2>4, <2>5
    <3>2. PICK b0 \in DOMAIN record[k2] : record'[k2][b] = record[k2][b0]
      BY <3>0, <2>4, <2>5
    <3> QED BY <3>1, <3>2 DEF ApartInv
  <2>9. WalkInv'
    BY <2>2, ReadPacketTypes DEF WalkInv
  <2> QED BY <2>6, <2>7, <2>8, <2>9
<1> QED BY <1>1, <1>2

--------------------------------------------------------------------------------
(* The steps of the two threads between packets change neither handles nor    *)
(* records nor the packet, and lead to the walk only from a walk.             *)
LEMMA WalkKeeps ==
  ASSUME LockInv, TypeOK', UNCHANGED <<keys, record, packet>>,
         thread'["unit"].pc \in {"walk", "unlink", "free"}
           => thread["unit"].pc \in {"walk", "unlink", "free"}
  PROVE  LockInv'
BY DEF LockInv, ClosedInv, ApartInv, WalkInv

(* The new request becomes the head of waitingrecords.                        *)
LEMMA StoreHeadKeeps ==
  ASSUME LockInv, StoreHead
  PROVE  LockInv'
<1> USE DEF StoreHead, Goto, Idle, At, LockInv
<1>1. TypeOK'
  BY DEF TypeOK, Position, Null
<1>2. thread'["unit"].pc = "idle"
  BY DEF TypeOK
<1> QED BY <1>1, <1>2, WalkKeeps

(* The message is marked done.                                                *)
LEMMA CompleteKeeps ==
  ASSUME LockInv, Complete
  PROVE  LockInv'
<1> USE DEF Complete, Goto, Idle, At, list, LockInv
<1>1. TypeOK'
  BY DEF TypeOK, Position, Null
<1>2. thread'["unit"].pc = "idle"
  BY DEF TypeOK
<1> QED BY <1>1, <1>2, WalkKeeps

(* record_check_waiting looks at an entry, and ends.                          *)
LEMMA CheckWaitingKeeps ==
  ASSUME LockInv, record_check_waiting \/ CheckedAll
  PROVE  LockInv'
<1> USE DEF record_check_waiting, CheckedAll, Answer, Remove, Advance, AtEntry, AtEnd, Goto, At,
            LockInv
<1>0. record_check_waiting \/ CheckedAll
  OBVIOUS
<1>1. TypeOK'
  <2>1. /\ thread["unit"] \in Position /\ next \in [Msg -> {Null} \cup Msg]
        /\ thread \in [{"unit", "vsync"} -> Position]
    BY DEF TypeOK
  <2>2. \E s \in Position : thread' = [thread EXCEPT !["unit"] = s]
    <3>1. CASE CheckedAll
      BY <3>1, At("complete", Null, Null) \in Position DEF Position
    <3>2. CASE record_check_waiting /\ Remove("unit")
      BY <2>1, <3>2, [thread["unit"] EXCEPT !.pc = "unlink"] \in Position DEF Position
    <3>3. CASE record_check_waiting /\ Advance("unit")
      BY <2>1, <3>3, At("walk", thread["unit"].lr, next[thread["unit"].lr]) \in Position
         DEF Position
    <3> QED BY <1>0, <3>1, <3>2, <3>3
  <2>3. thread' \in [{"unit", "vsync"} -> Position]
    BY ONLY <2>1, <2>2
  <2>4. UNCHANGED <<keys, record, mark, list, timeout, packet, stale>>
    BY ONLY <1>0 DEF record_check_waiting, CheckedAll
  <2>5. TypeOK
    OBVIOUS
  <2> QED BY ONLY <2>3, <2>4, <2>5 DEF TypeOK, list
<1>2. thread["unit"].pc = "walk"
  OBVIOUS
<1> QED BY <1>1, <1>2, WalkKeeps

(* record_timeout starts, counts an entry down, and ends.                     *)
LEMMA VsyncKeeps ==
  ASSUME LockInv, VsyncStarts \/ record_timeout \/ VsyncEnds
  PROVE  LockInv'
<1>1. CASE VsyncStarts \/ VsyncEnds
  <2> USE <1>1 DEF VsyncStarts, VsyncEnds, AtEnd, Goto, Idle, At, list, LockInv
  <2>1. TypeOK'
    BY DEF TypeOK, Position, Null
  <2>2. thread'["unit"] = thread["unit"]
    BY DEF TypeOK
  <2> QED BY <2>1, <2>2, WalkKeeps
<1>2. CASE record_timeout
  <2> USE <1>2 DEF record_timeout, AtEntry, Remove, Advance, Goto, At, LockInv
  <2>1. thread["vsync"].lr \in Msg
    BY DEF TypeOK, Position
  <2>2. CountDown(thread["vsync"].lr) \in 0..(TimeoutMod - 1)
    BY <2>1, Counter, RecordAssumption DEF TypeOK, CountDown
  <2>3. TypeOK'
    <3>1. /\ timeout' \in [Msg -> 0..(TimeoutMod - 1)]
          /\ mark' \in [Msg -> {"client", "handed", "done", "timeout"}]
      BY <2>1, <2>2 DEF TypeOK
    <3>2. /\ thread["vsync"] \in Position /\ next[thread["vsync"].lr] \in {Null} \cup Msg
          /\ thread \in [{"unit", "vsync"} -> Position]
      BY <2>1 DEF TypeOK
    <3>3. thread' \in [{"unit", "vsync"} -> Position]
      <4>1. [thread["vsync"] EXCEPT !.pc = "unlink"] \in Position
        BY <3>2 DEF Position
      <4>2. At("walk", thread["vsync"].lr, next[thread["vsync"].lr]) \in Position
        BY <2>1, <3>2 DEF Position
      <4> QED BY <3>2, <4>1, <4>2
    <3>4. UNCHANGED <<keys, record, list, packet, stale>>
      BY ONLY <1>2 DEF record_timeout
    <3>5. TypeOK
      OBVIOUS
    <3> QED BY ONLY <3>1, <3>3, <3>4, <3>5 DEF TypeOK, list
  <2>4. thread'["unit"] = thread["unit"]
    <3>1. \E s : thread' = [thread EXCEPT !["vsync"] = s]
      OBVIOUS
    <3> QED BY <3>1 DEF TypeOK
  <2> QED BY <2>3, <2>4, WalkKeeps
<1> QED BY <1>1, <1>2

(* An entry that is to go leaves the list.                                    *)
LEMMA UnlinkKeeps ==
  ASSUME NEW t \in {"unit", "vsync"}, LockInv, Unlink(t)
  PROVE  LockInv'
<1> USE DEF Unlink, AtEntry, Goto, LockInv
<1>1. TypeOK'
  <2>1. /\ thread[t].lr \in Msg /\ thread[t].prev \in {Null} \cup Msg
        /\ next[thread[t].lr] \in {Null} \cup Msg
    BY DEF TypeOK, Position
  <2>2. next' \in [Msg -> {Null} \cup Msg] /\ head' \in {Null} \cup Msg
    BY <2>1 DEF TypeOK
  <2>3. thread' \in [{"unit", "vsync"} -> Position]
    BY DEF TypeOK, Position
  <2> QED BY <2>2, <2>3 DEF TypeOK
<1>2. thread'["unit"].pc \in {"walk", "unlink", "free"}
        => thread["unit"].pc \in {"walk", "unlink", "free"}
  BY DEF TypeOK, Position
<1> QED BY <1>1, <1>2, WalkKeeps

(* ... and is freed; the walk starts again from the head.                     *)
LEMMA FreeEntryKeeps ==
  ASSUME NEW t \in {"unit", "vsync"}, LockInv, FreeEntry(t)
  PROVE  LockInv'
<1> USE DEF FreeEntry, AtEntry, Goto, At, LockInv
<1>1. TypeOK'
  BY DEF TypeOK, Position, Null
<1>2. thread'["unit"].pc \in {"walk", "unlink", "free"}
        => thread["unit"].pc \in {"walk", "unlink", "free"}
  BY DEF TypeOK
<1> QED BY <1>1, <1>2, WalkKeeps

(* When the other thread has freed the entry, the model stops.                *)
LEMMA TouchFreedKeeps ==
  ASSUME NEW t \in {"unit", "vsync"}, LockInv, TouchFreed(t)
  PROVE  LockInv'
BY WalkKeeps DEF TouchFreed, TypeOK, list, LockInv

(* A reset forgets every key and request.                                     *)
LEMMA ResetKeeps ==
  ASSUME LockInv, Reset
  PROVE  LockInv'
<1> USE DEF Reset, Idle, At, LockInv
<1>1. TypeOK'
  BY RecordAssumption, EmptySeq DEF TypeOK, NoPacket, Null
<1>2. ClosedInv' /\ ApartInv' /\ WalkInv'
  BY DEF ClosedInv, ApartInv, WalkInv
<1> QED BY <1>1, <1>2

--------------------------------------------------------------------------------
(* Every reachable state satisfies the invariant.                             *)
THEOREM LockInvariant == Spec => []LockInv
<1>1. LockInv /\ [Next]_vars => LockInv'
  <2> SUFFICES ASSUME LockInv, [Next]_vars PROVE LockInv'
    OBVIOUS
  <2>1. CASE \E k \in Key : OpenKey(k) \/ action_end(k)
    BY <2>1, OpenKeyKeeps, CloseKeyKeeps
  <2>2. CASE \E m \in Msg, k \in Key, q \in Request :
               action_lock_record(m, k, q) \/ action_free_record(m, k, q)
    BY <2>2, LockRecordKeeps, FreeRecordKeeps
  <2>3. CASE UnitStep
    BY <2>3, StoreHeadKeeps, CompleteKeeps, CheckWaitingKeeps, UnlinkKeeps, FreeEntryKeeps,
       TouchFreedKeeps DEF UnitStep
  <2>4. CASE VsyncStarts \/ VsyncStep
    BY <2>4, VsyncKeeps, UnlinkKeeps, FreeEntryKeeps, TouchFreedKeeps DEF VsyncStep
  <2>5. CASE Reset
    BY <2>5, ResetKeeps
  <2>6. CASE UNCHANGED vars
    BY <2>6 DEF vars, list, LockInv, TypeOK, ClosedInv, ApartInv, WalkInv
  <2> QED BY <2>1, <2>2, <2>3, <2>4, <2>5, <2>6 DEF Next
<1> QED BY <1>1, InitLocks, PTL DEF Spec

(* Records, entries, counters and list positions keep their types.            *)
THEOREM LockTypeCorrect == Spec => []TypeOK
BY LockInvariant, PTL DEF LockInv

(* Two handles of a file share no byte that one of them holds exclusively:    *)
(* no collision as record_hit tests it, and those tests are exact.            *)
THEOREM HandlesHoldDisjointRanges == Spec => []HoldersDisjoint
<1>1. LockInv => HoldersDisjoint
  <2> SUFFICES ASSUME LockInv, NEW k1 \in keys, NEW k2 \in keys, k1 # k2,
                      FileOf[k1] = FileOf[k2],
                      NEW i \in DOMAIN record[k1], NEW j \in DOMAIN record[k2],
                      Exclusive(record[k1][i].mode) \/ Exclusive(record[k2][j].mode)
               PROVE  Bytes(record[k1][i]) \cap Bytes(record[k2][j]) = {}
    BY DEF HoldersDisjoint
  <2>1. record[k1] \in Seq(Record) /\ record[k2] \in Seq(Record)
    BY DEF LockInv, TypeOK
  <2>2. record[k1][i] \in Record /\ record[k2][j] \in Record
    BY <2>1, ElementOfSeq, LenProperties
  <2>3. ~Hits(record[k1][i], record[k2][j])
    BY DEF LockInv, ApartInv
  <2> QED BY <2>2, <2>3, HitsMeansOverlap
<1> QED BY <1>1, LockInvariant, PTL

(* The walk looks up the handle of the packet that freed a record, which      *)
(* stays open until the walk is over.                                         *)
THEOREM ReleasesFindTheirKey == Spec => []ReleaseFindsKey
<1>1. LockInv => ReleaseFindsKey
  BY DEF LockInv, WalkInv, ReleaseFindsKey, WaiterKey
<1> QED BY <1>1, LockInvariant, PTL
================================================================================
