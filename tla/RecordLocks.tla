------------------------------ MODULE RecordLocks ------------------------------
(* Record locks of a directory filesystem unit (filesys.c). A file handle is a *)
(* key; a key holds a list of records, ranges of its file locked exclusively   *)
(* or shared. The unit's thread performs the packets one at a time. A request  *)
(* that collides and allows a timeout is put on the list waitingrecords, which *)
(* the unit's thread walks when a record is freed (record_check_waiting) and   *)
(* the emulator thread at every vsync (record_timeout). No lock protects the   *)
(* list: a step here is one statement that touches it.                         *)
(*                                                                             *)
(* A waiting entry keeps a pointer to the dpacket of the filesys_iteration     *)
(* that made it, a local variable. Every later iteration has its dpacket in    *)
(* the same place, so through the pointer both walks see the packet that the   *)
(* thread works on or handled last: variable packet. The results stored in     *)
(* packets are left out, the ones stored through that pointer included.        *)
EXTENDS Integers, Sequences

CONSTANTS Key,         \* numbers of file handles
          FileOf,      \* the file a handle is open on, its aino
          MaxMsgs,     \* messages the clients send between two resets
          Request,     \* arguments of lock requests: pos, len, mode, timeout
          VblankHz,    \* vsyncs per second, rounded down
          TimeoutMod   \* the unsigned counter timeout wraps here

Msg == 1..MaxMsgs
Null == 0

REC_EXCLUSIVE == 0
REC_EXCLUSIVE_IMMED == 1
REC_SHARED == 2
REC_SHARED_IMMED == 3

ASSUME RecordAssumption ==
  /\ MaxMsgs \in Nat /\ VblankHz \in Nat /\ TimeoutMod \in Nat \ {0}
  /\ DOMAIN FileOf = Key
  /\ \A q \in Request : /\ q.pos \in Nat /\ q.len \in Nat
                        /\ q.mode \in Nat /\ q.timeout \in Nat

VARIABLES
  keys,      \* the open handles, unit->keys
  record,    \* the records of a key, the newest first
  entry,     \* pos, len and mode of a waiting request, and the key it names
  mark,      \* offset 4 of the message: "client", "handed", "done" (-1), "timeout" (-2)
  head,      \* unit->waitingrecords; an entry is known by its message
  next,      \* entry -> next entry
  timeout,   \* entry -> vsyncs left
  live,      \* entries allocated and not freed
  packet,    \* what the unit's dpacket describes: a message, or Null, and its key
  thread,    \* program counter and list position of the two threads
  stale      \* a thread has touched a freed entry: C says nothing about what follows

list == <<head, next, live, entry>>
vars == <<keys, record, mark, list, timeout, packet, thread, stale>>

-------------------------------------------------------------------------------
Exclusive(mode) == mode \in {REC_EXCLUSIVE, REC_EXCLUSIVE_IMMED}

(* Fault: a request that encloses a held record is not seen.                  *)
HitsEndsOnly(a, b) ==
  /\ Exclusive(a.mode) \/ Exclusive(b.mode)
  /\ \/ a.pos >= b.pos /\ a.pos < b.pos + b.len
     \/ a.pos + a.len > b.pos /\ a.pos + a.len < b.pos + b.len

(* Colliding records: the tests of record_hit.                                *)
Hits(a, b) ==
  LET a1 == a.pos
      a2 == a.pos + a.len
      b1 == b.pos
      b2 == b.pos + b.len
  IN /\ Exclusive(a.mode) \/ Exclusive(b.mode)
     /\ a.len # 0 /\ b.len # 0
     /\ \/ a1 >= b1 /\ a1 < b2
        \/ a2 > b1 /\ a2 < b2
        \/ b1 >= a1 /\ b1 < a2
        \/ b2 > a1 /\ b2 < a2

record_hit(k, q) ==
  \E k2 \in keys \ {k} : /\ FileOf[k2] = FileOf[k]
                         /\ \E i \in DOMAIN record[k2] : Hits(q, record[k2][i])

(* new_record: the timeout in ticks of 1/50 s, as a count of vsyncs.          *)
Vsyncs(ticks) == ((ticks * VblankHz) \div 50) % TimeoutMod

(* An immediate mode does not wait.                                           *)
Waits(q) == q.timeout # 0 /\ q.mode \notin {REC_EXCLUSIVE_IMMED, REC_SHARED_IMMED}

-------------------------------------------------------------------------------
At(pc, prev, lr) == [pc |-> pc, prev |-> prev, lr |-> lr]
NoPacket == [msg |-> Null]
Idle == At("idle", Null, Null)
Goto(t, state) == thread' = [thread EXCEPT ![t] = state]

Init ==
  /\ keys = {} /\ record = [k \in Key |-> <<>>]
  /\ mark = [m \in Msg |-> "client"]
  /\ head = Null /\ next = [m \in Msg |-> Null] /\ live = {}
  /\ entry = [m \in Msg |-> <<>>]
  /\ timeout = [m \in Msg |-> 0]
  /\ packet = NoPacket
  /\ thread = [t \in {"unit", "vsync"} |-> Idle]
  /\ stale = FALSE

(* filesys_iteration reads the next message; messages are numbered as they    *)
(* come. handle_packet then runs one of the actions below.                    *)
ReadPacket(m, k) ==
  /\ ~stale /\ thread["unit"] = Idle
  /\ mark[m] = "client" /\ \A n \in 1..(m - 1) : mark[n] # "client"
  /\ packet' = [msg |-> m, key |-> k]
  /\ mark' = [mark EXCEPT ![m] = "handed"]

(* The handler has stored its result and returns 1.                           *)
Answer == Goto("unit", At("complete", Null, Null))

(* The other packets of the unit: their dpacket takes the place of the last   *)
(* one, and their own messages are of no interest here.                       *)
OtherPacket == ~stale /\ thread["unit"] = Idle /\ packet' = NoPacket

(* Opening a file: new_key.                                                   *)
OpenKey(k) ==
  /\ k \notin keys
  /\ OtherPacket
  /\ keys' = keys \cup {k}
  /\ UNCHANGED <<record, mark, list, timeout, thread, stale>>

(* action_end: free_key drops the records and tells no waiting request.       *)
action_end(k) ==
  /\ k \in keys
  /\ OtherPacket
  /\ keys' = keys \ {k}
  /\ record' = [record EXCEPT ![k] = <<>>]
  /\ UNCHANGED <<mark, list, timeout, thread, stale>>

-------------------------------------------------------------------------------
(* action_lock_record and its 64 bit twin.                                    *)
Refused(k, q) ==
  /\ k \notin keys \/ q.mode > REC_SHARED_IMMED \/ (record_hit(k, q) /\ ~Waits(q))
  /\ Answer
  /\ UNCHANGED <<record, list, timeout>>

Granted(k, q) ==
  /\ k \in keys /\ q.mode <= REC_SHARED_IMMED /\ ~record_hit(k, q)
  /\ record' = [record EXCEPT ![k] = <<[pos |-> q.pos, len |-> q.len, mode |-> q.mode]>> \o @]
  /\ Answer
  /\ UNCHANGED <<list, timeout>>

(* The new entry is linked to the head; StoreHead makes it the head.          *)
Queued(m, k, q) ==
  /\ k \in keys /\ q.mode <= REC_SHARED_IMMED /\ record_hit(k, q) /\ Waits(q)
  /\ live' = live \cup {m}
  /\ entry' = [entry EXCEPT ![m] = [key |-> k, pos |-> q.pos, len |-> q.len, mode |-> q.mode]]
  /\ next' = [next EXCEPT ![m] = head]
  /\ timeout' = [timeout EXCEPT ![m] = Vsyncs(q.timeout)]
  /\ Goto("unit", At("insert", Null, m))
  /\ UNCHANGED <<record, head>>

action_lock_record(m, k, q) ==
  /\ ReadPacket(m, k)
  /\ Refused(k, q) \/ Granted(k, q) \/ Queued(m, k, q)
  /\ UNCHANGED <<keys, stale>>

(* The handler returns -1: the message is not marked.                         *)
StoreHead ==
  /\ ~stale /\ thread["unit"].pc = "insert"
  /\ head' = thread["unit"].lr
  /\ Goto("unit", Idle)
  /\ UNCHANGED <<keys, record, mark, next, live, entry, timeout, packet, stale>>

(* action_free_record and its 64 bit twin. prev is never advanced, so every   *)
(* record before the one that is freed is dropped with it.                    *)
Matches(k, q, i) == record[k][i].pos = q.pos /\ record[k][i].len = q.len

NothingToFree(k, q) ==
  /\ k \notin keys \/ \A i \in DOMAIN record[k] : ~Matches(k, q, i)
  /\ Answer
  /\ UNCHANGED record

FreesRecord(k, q) ==
  /\ k \in keys
  /\ \E i \in DOMAIN record[k] :
       /\ Matches(k, q, i) /\ \A j \in 1..(i - 1) : ~Matches(k, q, j)
       /\ record' = [record EXCEPT ![k] = SubSeq(@, i + 1, Len(@))]
  /\ Goto("unit", At("walk", Null, head))

action_free_record(m, k, q) ==
  /\ ReadPacket(m, k)
  /\ NothingToFree(k, q) \/ FreesRecord(k, q)
  /\ UNCHANGED <<keys, list, timeout, stale>>

(* The end of filesys_iteration: the message is marked -1.                    *)
Complete ==
  /\ ~stale /\ thread["unit"].pc = "complete"
  /\ mark' = [mark EXCEPT ![packet.msg] = "done"]
  /\ Goto("unit", Idle)
  /\ UNCHANGED <<keys, record, list, timeout, packet, stale>>

-------------------------------------------------------------------------------
(* The two walks over waitingrecords.                                         *)
Touched(t) ==
  LET s == thread[t]
  IN CASE s.pc = "walk" -> {s.lr} \ {Null}
       [] s.pc = "unlink" -> {s.prev, s.lr} \ {Null}
       [] s.pc = "free" -> {s.lr}
       [] OTHER -> {}

AtEntry(t, pc) ==
  /\ ~stale /\ thread[t].pc = pc
  /\ thread[t].lr # Null /\ Touched(t) \subseteq live

AtEnd(t) == ~stale /\ thread[t].pc = "walk" /\ thread[t].lr = Null

Advance(t) == Goto(t, At("walk", thread[t].lr, next[thread[t].lr]))
Remove(t) == Goto(t, [thread[t] EXCEPT !.pc = "unlink"])

(* Fault: the key of the request that waits, which may have been closed.      *)
WaiterOwnKey(lr) == entry[lr].key

(* record_check_waiting looks the key up in the packet at lr->packet, and     *)
(* that is the packet that frees a record now.                                *)
WaiterKey(lr) == packet.key

record_check_waiting ==
  /\ AtEntry("unit", "walk")
  /\ LET lr == thread["unit"].lr
         k  == WaiterKey(lr)
     IN IF k \notin keys \/ ~record_hit(k, entry[lr]) THEN Remove("unit") ELSE Advance("unit")
  /\ UNCHANGED <<keys, record, mark, list, timeout, packet, stale>>

CheckedAll ==
  /\ AtEnd("unit")
  /\ Answer
  /\ UNCHANGED <<keys, record, mark, list, timeout, packet, stale>>

(* record_timeout, called by filesys_vsync. A retry walks from the head again *)
(* and counts the entries before the expired one down a second time.          *)
VsyncStarts ==
  /\ ~stale /\ thread["vsync"] = Idle
  /\ Goto("vsync", At("walk", Null, head))
  /\ UNCHANGED <<keys, record, mark, list, timeout, packet, stale>>

(* Fault: the counter is signed.                                              *)
CountDownSigned(lr) == timeout[lr] - 1

(* The counter is a uae_u32.                                                  *)
CountDown(lr) == (timeout[lr] - 1) % TimeoutMod

record_timeout ==
  /\ AtEntry("vsync", "walk")
  /\ LET lr   == thread["vsync"].lr
         left == CountDown(lr)
     IN /\ timeout' = [timeout EXCEPT ![lr] = left]
        /\ IF left = 0
           THEN /\ mark' = [mark EXCEPT ![lr] = "timeout"]
                /\ Remove("vsync")
           ELSE Advance("vsync") /\ UNCHANGED mark
  /\ UNCHANGED <<keys, record, list, packet, stale>>

(* Fault: retry stays set while a message bears the timeout mark.             *)
VsyncEndsRetrySet ==
  /\ AtEnd("vsync")
  /\ LET retry == \E m \in Msg : mark[m] = "timeout"
     IN Goto("vsync", IF retry THEN At("walk", Null, head) ELSE Idle)
  /\ UNCHANGED <<keys, record, mark, list, timeout, packet, stale>>

(* The walk has reached the end of the list.                                  *)
VsyncEnds ==
  /\ AtEnd("vsync")
  /\ Goto("vsync", Idle)
  /\ UNCHANGED <<keys, record, mark, list, timeout, packet, stale>>

(* The entry is taken off the list, then freed, and the walk starts again.    *)
(* record_check_waiting marks the message between the two.                    *)
Unlink(t) ==
  /\ AtEntry(t, "unlink")
  /\ LET s == thread[t]
     IN /\ IF s.prev # Null
           THEN next' = [next EXCEPT ![s.prev] = next[s.lr]] /\ UNCHANGED head
           ELSE head' = next[s.lr] /\ UNCHANGED next
        /\ Goto(t, [s EXCEPT !.pc = "free"])
  /\ UNCHANGED <<keys, record, mark, live, entry, timeout, packet, stale>>

FreeEntry(t) ==
  /\ AtEntry(t, "free")
  /\ live' = live \ {thread[t].lr}
  /\ entry' = [entry EXCEPT ![thread[t].lr] = <<>>]
  /\ mark' = IF t = "unit" THEN [mark EXCEPT ![thread[t].lr] = "done"] ELSE mark
  /\ Goto(t, At("walk", Null, head))
  /\ UNCHANGED <<keys, record, head, next, timeout, packet, stale>>

(* The other thread has freed the entry in the meantime. What the heap gives  *)
(* back is unknown; the model stops.                                          *)
TouchFreed(t) ==
  /\ ~stale /\ ~(Touched(t) \subseteq live)
  /\ stale' = TRUE
  /\ UNCHANGED <<keys, record, mark, list, timeout, packet, thread>>

(* A reset: the thread has ended, filesys_free_handles frees keys and list.   *)
Reset ==
  /\ ~stale /\ thread = [t \in {"unit", "vsync"} |-> Idle]
  /\ keys' = {} /\ record' = [k \in Key |-> <<>>]
  /\ mark' = [m \in Msg |-> "client"]
  /\ head' = Null /\ next' = [m \in Msg |-> Null] /\ live' = {}
  /\ entry' = [m \in Msg |-> <<>>]
  /\ timeout' = [m \in Msg |-> 0] /\ packet' = NoPacket
  /\ UNCHANGED <<thread, stale>>

-------------------------------------------------------------------------------
UnitStep ==
  \/ StoreHead \/ Complete \/ record_check_waiting \/ CheckedAll
  \/ Unlink("unit") \/ FreeEntry("unit") \/ TouchFreed("unit")

VsyncStep ==
  \/ record_timeout \/ VsyncEnds
  \/ Unlink("vsync") \/ FreeEntry("vsync") \/ TouchFreed("vsync")

Next ==
  \/ \E k \in Key : OpenKey(k) \/ action_end(k)
  \/ \E m \in Msg, k \in Key, q \in Request : action_lock_record(m, k, q)
                                              \/ action_free_record(m, k, q)
  \/ UnitStep \/ VsyncStarts \/ VsyncStep \/ Reset

Spec == Init /\ [][Next]_vars

(* Both threads run on.                                                       *)
FairSpec == Spec /\ WF_vars(UnitStep) /\ WF_vars(VsyncStep)

-------------------------------------------------------------------------------
(* The records, the list and the counters have the values their C types       *)
(* allow; a counter at zero wraps and stays an unsigned value. An entry that  *)
(* is allocated names a key and a range.                                      *)
Record == [pos : Nat, len : Nat, mode : REC_EXCLUSIVE..REC_SHARED_IMMED]
Entry == [key : Key, pos : Nat, len : Nat, mode : REC_EXCLUSIVE..REC_SHARED_IMMED]
Position == [pc : {"idle", "insert", "walk", "unlink", "free", "complete"},
             prev : {Null} \cup Msg, lr : {Null} \cup Msg]

TypeOK ==
  /\ keys \subseteq Key /\ record \in [Key -> Seq(Record)]
  /\ mark \in [Msg -> {"client", "handed", "done", "timeout"}]
  /\ live \subseteq Msg /\ head \in {Null} \cup Msg /\ next \in [Msg -> {Null} \cup Msg]
  /\ entry \in [Msg -> {<<>>} \cup Entry] /\ \A m \in live : entry[m] \in Entry
  /\ timeout \in [Msg -> 0..(TimeoutMod - 1)]
  /\ packet \in {NoPacket} \cup [msg : Msg, key : Key]
  /\ thread \in [{"unit", "vsync"} -> Position]
  /\ stale \in BOOLEAN

(* Two handles never hold records of one file that share a byte if one of     *)
(* them is exclusive: what record_hit promises, whatever was freed, closed,   *)
(* timed out or released in between.                                          *)
Bytes(r) == r.pos..(r.pos + r.len - 1)

HoldersDisjoint ==
  \A k1, k2 \in keys : k1 # k2 /\ FileOf[k1] = FileOf[k2] =>
    \A i \in DOMAIN record[k1], j \in DOMAIN record[k2] :
      Exclusive(record[k1][i].mode) \/ Exclusive(record[k2][j].mode) =>
        Bytes(record[k1][i]) \cap Bytes(record[k2][j]) = {}

(* record_check_waiting releases an entry whose key it does not find, and     *)
(* then reads the name of that key for its log. It always finds one: the key  *)
(* of the packet that freed the record, also when the handle that waits was   *)
(* closed.                                                                    *)
ReleaseFindsKey ==
  thread["unit"].pc = "walk" /\ thread["unit"].lr \in live => WaiterKey(thread["unit"].lr) \in keys

(* The emulator thread gets out of record_timeout, or meets a freed entry:    *)
(* the retries end, also while the unit's thread changes the list.            *)
VsyncReturns == (thread["vsync"] # Idle) ~> (thread["vsync"] = Idle \/ stale)
=============================================================================
