---------------------------- MODULE FilesysUnit ----------------------------
(***************************************************************************)
(* One mounted directory of the host: src/sources/src/filesys.c and its    *)
(* 68k side src/sources/src/filesys.asm.  DOS packets reach the handler    *)
(* task of the unit, which hands them to the unit's host thread through    *)
(* unit_pipe.  The host thread performs them, marks them done and asks for *)
(* an interrupt.  The interrupt wakes the exter task, which sends the      *)
(* handler task the unit's one dummy message; on it the handler replies    *)
(* every packet that is marked.                                            *)
(*                                                                         *)
(* The two 68k tasks and the DOS clients are run by the emulator thread:   *)
(* their steps interleave at any instruction, but a step stops all of them *)
(* while a trap waits for the host.  The host thread of the unit           *)
(* interleaves with everything.                                            *)
(*                                                                         *)
(* A packet travels through unit_pipe as four words, written and read in   *)
(* one go; by CommPipe they arrive in order, and the model moves them      *)
(* together.                                                               *)
(***************************************************************************)
EXTENDS Naturals, FiniteSets, Sequences

CONSTANTS Packet,       \* the DOS packets of all clients
          Dummy,        \* dummy_message of the unit
          Death,        \* the message of filesys_prepare_reset2, pck = 0
          None,         \* no packet
          MaxStarted,   \* commands handed over at once: 20 in FSML_FromDOS
          UnitCap,      \* words unit_pipe holds: 399
          BackCap,      \* words back_pipe holds: 99
          CmdMod,       \* range of the unsigned counters: 2^32
          MaxSends,     \* bound: packets the clients send
          MaxTimeouts,  \* bound: record locks that time out
          MaxResets     \* bound: resets of the machine

ASSUME UnitAssumption ==
  /\ IsFiniteSet(Packet) /\ Dummy # Death /\ Dummy # None /\ Death # None
  /\ Packet \cap {Dummy, Death, None} = {}
  /\ MaxStarted \in Nat \ {0} /\ UnitCap \in Nat /\ 4 * (MaxStarted + 1) =< UnitCap
  /\ BackCap \in Nat \ {0} /\ CmdMod \in Nat \ {0}
  /\ MaxSends \in Nat /\ MaxTimeouts \in Nat /\ MaxResets \in Nat

VARIABLES
  emu,              \* emulator thread: interpreting, or where in filesys.c it waits
  status,           \* per packet, with its client, on its way, or the mark at offset 4
  port, sigs,       \* the handler's message port and its pending signals
  hpc, msg,         \* handler task: position, the message it works on (a4)
  chain, started,   \* its command chain (4(a3)), its count of commands (d5)
  visit,            \* its scan of the chain: packets still to visit
  int_requested,    \* bit 0 of uae_int_requested
  exter_sig,        \* signal $100 of the exter task
  epc, unit_no,     \* exter task: position; the helper's static cursor over the units
  singlethread_int_sem,
  native_pending,   \* signals for the handler task in native2amiga_pending
  cmds_sent, cmds_acked, cmds_complete,
  unit_pipe, back_pipe,      \* packets in unit_pipe, number of words in back_pipe
  fpc, pck, ret,    \* filesys_thread: position, its packet, what handle_packet returned
  waitingrecords,   \* packets in the list of those that wait for a record lock
  v_lr, u_lr,       \* lr of record_timeout; lr, or the head just read, of filesys_thread
  reset_state, reset_sync_sem,
  sends, timeouts, resets    \* for MaxSends, MaxTimeouts and MaxResets

handler  == <<hpc, msg, chain, started, visit>>
exter    == <<exter_sig, epc, unit_no, singlethread_int_sem>>
cmds     == <<cmds_sent, cmds_acked, cmds_complete>>
thread   == <<fpc, pck, ret>>
locks    == <<waitingrecords, v_lr, u_lr>>
reset    == <<reset_state, reset_sync_sem>>
bounds   == <<sends, timeouts, resets>>
vars == <<emu, status, port, sigs, handler, int_requested, exter, native_pending, cmds,
          unit_pipe, back_pipe, thread, locks, reset, bounds>>

(* The mark of a packet in the chain: "handed" is 0, "unstarted" is 1,     *)
(* "done" is -1 and "timedout" is -2.                                      *)
Mark == {"handed", "unstarted", "done", "timedout"}

(* Where the emulator thread is in record_timeout.                         *)
InTimeout == {"vsync", "signal", "unlink", "free"}

TypeOK ==
  /\ emu \in {"run", "write_unit", "send_death", "wait_death", "reboot", "torn"}
         \cup InTimeout
  /\ status \in [Packet -> Mark \cup {"client", "sent"}]
  /\ port \in Seq(Packet \cup {Dummy}) /\ sigs \subseteq {"port", "ctrl_d"}
  /\ hpc \in {"loop", "wait", "message", "enqueue", "scan"}
  /\ msg \in Packet \cup {Dummy, None}
  /\ chain \subseteq Packet /\ started \in Nat /\ visit \subseteq Packet
  /\ int_requested \in {0, 1} /\ exter_sig \in {0, 1}
  /\ epc \in {"wait", "first", "again", "putmsg", "signal"} /\ unit_no \in {0, 1}
  /\ singlethread_int_sem \in {0, 1} /\ native_pending \in Nat
  /\ cmds_sent \in 0 .. CmdMod - 1 /\ cmds_acked \in 0 .. CmdMod - 1
  /\ cmds_complete \in 0 .. CmdMod - 1
  /\ unit_pipe \in Seq(Packet \cup {Death}) /\ back_pipe \in 0 .. BackCap
  /\ fpc \in {"read", "check", "handle", "insert", "walk", "unlink", "release", "free",
              "write", "count", "mark", "back", "int", "ended", "torn"}
  /\ pck \in Packet \cup {Death, None} /\ ret \in {"done", "waits"}
  /\ waitingrecords \subseteq Packet
  /\ v_lr \in Packet \cup {None} /\ u_lr \in Packet \cup {None}
  /\ reset_state \in {"STARTUP", "GO_DOWN"} /\ reset_sync_sem \in {0, 1}
  /\ sends \in 0 .. MaxSends /\ timeouts \in 0 .. MaxTimeouts /\ resets \in 0 .. MaxResets

(* The unit when startup_handler has replied its startup packet.           *)
Init ==
  /\ emu = "run" /\ status = [p \in Packet |-> "client"]
  /\ port = <<>> /\ sigs = {}
  /\ hpc = "loop" /\ msg = None /\ chain = {} /\ started = 0
  /\ visit = {}
  /\ int_requested = 0 /\ exter_sig = 0 /\ epc = "wait" /\ unit_no = 0
  /\ singlethread_int_sem = 1 /\ native_pending = 0
  /\ cmds_sent = 0 /\ cmds_acked = 0 /\ cmds_complete = 0
  /\ unit_pipe = <<>> /\ back_pipe = 0
  /\ fpc = "read" /\ pck = None /\ ret = "done"
  /\ waitingrecords = {} /\ v_lr = None /\ u_lr = None
  /\ reset_state = "STARTUP" /\ reset_sync_sem = 0
  /\ sends = 0 /\ timeouts = 0 /\ resets = 0

-----------------------------------------------------------------------------
(* DOS clients and Exec's message ports (external).                        *)
PutMsg(m) == port' = Append(port, m) /\ sigs' = sigs \cup {"port"}

DosSend(p) ==
  /\ emu = "run" /\ status[p] = "client" /\ sends < MaxSends
  /\ status' = [status EXCEPT ![p] = "sent"] /\ PutMsg(p) /\ sends' = sends + 1
  /\ UNCHANGED <<emu, handler, int_requested, exter, native_pending, cmds, unit_pipe,
                 back_pipe, thread, locks, reset, timeouts, resets>>

-----------------------------------------------------------------------------
(* The handler task, FSML_loop of filesys.asm.                             *)
GetMsg ==
  /\ emu = "run" /\ hpc = "loop"
  /\ IF port = <<>>
       THEN hpc' = "wait" /\ msg' = None /\ UNCHANGED port
       ELSE hpc' = "message" /\ msg' = Head(port) /\ port' = Tail(port)
  /\ UNCHANGED <<emu, status, sigs, chain, started, visit, int_requested, exter,
                 native_pending, cmds, unit_pipe, back_pipe, thread, locks,
                 reset, bounds>>

(* Wait returns and the loop goes on without a message: it looks for       *)
(* packets whose record lock timed out.                                    *)
WaitReturns ==
  /\ emu = "run" /\ hpc = "wait" /\ sigs # {}
  /\ sigs' = {} /\ hpc' = "scan" /\ visit' = chain
  /\ UNCHANGED <<emu, status, port, msg, chain, started, int_requested, exter,
                 native_pending, cmds, unit_pipe, back_pipe, thread, locks,
                 reset, bounds>>
(* Fault: the message is not released.                                     *)
TakeDummyUnreleased ==
  /\ emu = "run" /\ hpc = "message" /\ msg = Dummy
  /\ back_pipe' = 0 /\ hpc' = "scan" /\ visit' = chain
  /\ UNCHANGED <<emu, status, port, sigs, msg, chain, started, int_requested, exter,
                 native_pending, cmds, unit_pipe, thread, locks, reset, bounds>>

(* The dummy message: exter_int_helper(1) releases it and takes the locks  *)
(* out of back_pipe, then the chain is scanned.                            *)
TakeDummy ==
  /\ emu = "run" /\ hpc = "message" /\ msg = Dummy
  /\ cmds_complete' = cmds_acked /\ back_pipe' = 0
  /\ hpc' = "scan" /\ visit' = chain
  /\ UNCHANGED <<emu, status, port, sigs, msg, chain, started, int_requested, exter,
                 native_pending, cmds_sent, cmds_acked, unit_pipe, thread,
                 locks, reset, bounds>>

(* d2: after the dummy message the scan looks for packets that are done.   *)
Wanted == IF msg = Dummy THEN "done" ELSE "timedout"
(* Fault: the mark is not looked at.                                       *)
ScanRepliesAll(p) ==
  /\ emu = "run" /\ hpc = "scan" /\ p \in visit
  /\ visit' = visit \ {p} /\ status' = [status EXCEPT ![p] = "client"]
  /\ chain' = chain \ {p} /\ started' = started - 1
  /\ UNCHANGED <<emu, port, sigs, hpc, msg, int_requested, exter, native_pending,
                 cmds, unit_pipe, back_pipe, thread, locks, reset, bounds>>

(* FSML_check_old: replies a packet that carries the mark, leaves others.  *)
ScanPacket(p) ==
  /\ emu = "run" /\ hpc = "scan" /\ p \in visit
  /\ visit' = visit \ {p}
  /\ IF status[p] = Wanted
       THEN /\ status' = [status EXCEPT ![p] = "client"]
            /\ chain' = chain \ {p} /\ started' = started - 1
       ELSE UNCHANGED <<status, chain, started>>
  /\ UNCHANGED <<emu, port, sigs, hpc, msg, int_requested, exter, native_pending,
                 cmds, unit_pipe, back_pipe, thread, locks, reset, bounds>>

ScanEnds ==
  /\ emu = "run" /\ hpc = "scan" /\ visit = {}
  /\ hpc' = "loop" /\ msg' = None
  /\ UNCHANGED <<emu, status, port, sigs, chain, started, visit,
                 int_requested, exter, native_pending, cmds, unit_pipe, back_pipe,
                 thread, locks, reset, bounds>>
(* Fault: one command too many is handed over.                             *)
CanStartOneMore == started =< MaxStarted

(* FSML_FromDOS: the limit on started commands.                            *)
CanStart == started < MaxStarted

(* "Too many commands queued."                                             *)
TooMany ==
  /\ emu = "run" /\ hpc = "message" /\ msg \in Packet /\ ~ CanStart
  /\ status' = [status EXCEPT ![msg] = "unstarted"] /\ chain' = chain \cup {msg}
  /\ hpc' = "loop" /\ msg' = None
  /\ UNCHANGED <<emu, port, sigs, started, visit, int_requested, exter,
                 native_pending, cmds, unit_pipe, back_pipe, thread, locks,
                 reset, bounds>>

(* filesys_handler refuses the packet (a bad address), which is replied.   *)
Refuse ==
  /\ emu = "run" /\ hpc = "message" /\ msg \in Packet /\ CanStart
  /\ status' = [status EXCEPT ![msg] = "client"] /\ hpc' = "loop" /\ msg' = None
  /\ UNCHANGED <<emu, port, sigs, chain, started, visit, int_requested, exter,
                 native_pending, cmds, unit_pipe, back_pipe, thread, locks,
                 reset, bounds>>

(* filesys_handler accepts it: the mark is cleared, then the emulator      *)
(* thread writes to unit_pipe, if need be after a wait for room.           *)
HandOver ==
  /\ emu = "run" /\ hpc = "message" /\ msg \in Packet /\ CanStart
  /\ status' = [status EXCEPT ![msg] = "handed"] /\ emu' = "write_unit"
  /\ UNCHANGED <<port, sigs, handler, int_requested, exter, native_pending, cmds,
                 unit_pipe, back_pipe, thread, locks, reset, bounds>>

WriteUnitPipe ==
  /\ emu = "write_unit" /\ 4 * (Len(unit_pipe) + 1) =< UnitCap
  /\ unit_pipe' = Append(unit_pipe, msg) /\ emu' = "run" /\ hpc' = "enqueue"
  /\ UNCHANGED <<status, port, sigs, msg, chain, started, visit, int_requested,
                 exter, native_pending, cmds, back_pipe, thread, locks, reset,
                 bounds>>
(* Fault: the command is not counted.                                      *)
EnqueueUncounted ==
  /\ emu = "run" /\ hpc = "enqueue"
  /\ chain' = chain \cup {msg} /\ hpc' = "loop" /\ msg' = None
  /\ UNCHANGED <<emu, status, port, sigs, started, visit, int_requested, exter,
                 native_pending, cmds, unit_pipe, back_pipe, thread, locks,
                 reset, bounds>>

(* The packet joins the chain only now; the host may be done with it.      *)
Enqueue ==
  /\ emu = "run" /\ hpc = "enqueue"
  /\ started' = started + 1 /\ chain' = chain \cup {msg}
  /\ hpc' = "loop" /\ msg' = None
  /\ UNCHANGED <<emu, status, port, sigs, visit, int_requested, exter,
                 native_pending, cmds, unit_pipe, back_pipe, thread, locks,
                 reset, bounds>>

HandlerTask ==
  \/ GetMsg \/ WaitReturns \/ TakeDummy \/ ScanEnds \/ \E p \in Packet : ScanPacket(p)
  \/ TooMany \/ Refuse \/ HandOver \/ Enqueue

-----------------------------------------------------------------------------
(* The interrupt server and the exter task of filesys.asm.                 *)

(* exter_server_new: reading RTAREA_INTREQ tests and clears the bit.       *)
ExterServer ==
  /\ emu = "run" /\ int_requested = 1
  /\ int_requested' = 0 /\ exter_sig' = 1
  /\ UNCHANGED <<emu, status, port, sigs, handler, epc, unit_no, singlethread_int_sem,
                 native_pending, cmds, unit_pipe, back_pipe, thread, locks,
                 reset, bounds>>

ExterWakes ==
  /\ emu = "run" /\ epc = "wait" /\ exter_sig = 1
  /\ exter_sig' = 0 /\ epc' = "first"
  /\ UNCHANGED <<emu, status, port, sigs, handler, int_requested, unit_no,
                 singlethread_int_sem, native_pending, cmds, unit_pipe, back_pipe, thread,
                 locks, reset, bounds>>

(* exter_int_helper(10) when the semaphore is taken.                       *)
HelperBusy ==
  /\ emu = "run" /\ epc = "first" /\ singlethread_int_sem = 0
  /\ int_requested' = 1 /\ epc' = "wait"
  /\ UNCHANGED <<emu, status, port, sigs, handler, exter_sig, unit_no,
                 singlethread_int_sem, native_pending, cmds, unit_pipe, back_pipe, thread,
                 locks, reset, bounds>>
(* Fault: a dummy message that is still on its way is not considered.      *)
UnitReadyAgain == cmds_acked # cmds_sent

(* The unit has finished commands, and its dummy message is free.          *)
UnitReady == cmds_acked = cmds_complete /\ cmds_acked # cmds_sent

(* exter_int_helper(10), the first call of a round, takes the semaphore    *)
(* and (11) is every further call: a native message if there is one, else  *)
(* the unit if it is still ahead of the cursor and ready, else the end.    *)
Helper ==
  LET cursor == IF epc = "first" THEN 0 ELSE unit_no IN
  /\ emu = "run"
  /\ \/ epc = "first" /\ singlethread_int_sem = 1
     \/ epc = "again"
  /\ \/ /\ native_pending > 0
        /\ native_pending' = native_pending - 1 /\ epc' = "signal"
        /\ unit_no' = cursor /\ singlethread_int_sem' = 0 /\ UNCHANGED cmds_acked
     \/ /\ native_pending = 0 /\ cursor = 0 /\ UnitReady
        /\ cmds_acked' = cmds_sent /\ epc' = "putmsg"
        /\ unit_no' = 1 /\ singlethread_int_sem' = 0 /\ UNCHANGED native_pending
     \/ /\ native_pending = 0 /\ ~ (cursor = 0 /\ UnitReady)
        /\ epc' = "wait" /\ unit_no' = 1
        /\ singlethread_int_sem' = 1 /\ UNCHANGED <<native_pending, cmds_acked>>
  /\ UNCHANGED <<emu, status, port, sigs, handler, int_requested, exter_sig, cmds_sent,
                 cmds_complete, unit_pipe, back_pipe, thread, locks, reset, bounds>>

ExterPutMsg ==
  /\ emu = "run" /\ epc = "putmsg" /\ PutMsg(Dummy) /\ epc' = "again"
  /\ UNCHANGED <<emu, status, handler, int_requested, exter_sig, unit_no,
                 singlethread_int_sem, native_pending, cmds, unit_pipe, back_pipe, thread,
                 locks, reset, bounds>>

ExterSignal ==
  /\ emu = "run" /\ epc = "signal" /\ sigs' = sigs \cup {"ctrl_d"} /\ epc' = "again"
  /\ UNCHANGED <<emu, status, port, handler, int_requested, exter_sig, unit_no,
                 singlethread_int_sem, native_pending, cmds, unit_pipe, back_pipe, thread,
                 locks, reset, bounds>>

ExterTask == ExterWakes \/ HelperBusy \/ Helper \/ ExterPutMsg \/ ExterSignal

-----------------------------------------------------------------------------
(* The emulator thread outside the interpreter.                            *)
(* record_timeout, called by filesys_vsync, has found a request whose time *)
(* is over.  Both threads walk the list and change it without a lock.      *)
VsyncFinds(p) ==
  /\ emu = "run" /\ p \in waitingrecords /\ timeouts < MaxTimeouts
  /\ emu' = "vsync" /\ v_lr' = p /\ timeouts' = timeouts + 1
  /\ UNCHANGED <<status, port, sigs, handler, int_requested, exter, native_pending, cmds,
                 unit_pipe, back_pipe, thread, waitingrecords, u_lr, reset, sends, resets>>

(* It marks the packet ...                                                 *)
RecordTimeout ==
  /\ emu = "vsync" /\ emu' = "signal"
  /\ status' = [status EXCEPT ![v_lr] = "timedout"]
  /\ UNCHANGED <<port, sigs, handler, int_requested, exter, native_pending, cmds, unit_pipe,
                 back_pipe, thread, locks, reset, bounds>>

(* ... signals the handler task with uae_Signal ...                        *)
TimeoutSignal ==
  /\ emu = "signal" /\ emu' = "unlink"
  /\ native_pending' = native_pending + 1 /\ int_requested' = 1
  /\ UNCHANGED <<status, port, sigs, handler, exter, cmds, unit_pipe, back_pipe, thread,
                 locks, reset, bounds>>

(* Fault: the record stays in the list.                                    *)
TimeoutUnlinkNot ==
  /\ emu = "unlink" /\ emu' = "free"
  /\ UNCHANGED <<status, port, sigs, handler, int_requested, exter, native_pending, cmds,
                 unit_pipe, back_pipe, thread, locks, reset, bounds>>

(* An entry was freed or unlinked that the other thread still goes by: the *)
(* model stops, as the C standard says nothing about what follows.         *)
Tear == emu' = "torn" /\ fpc' = "torn"

(* ... unlinks the record, which an insertion may just have read as the    *)
(* head, and which the other walk may hold as the entry before its own ... *)
TimeoutUnlink ==
  LET headRead == fpc = "insert" /\ u_lr = v_lr IN
  /\ emu = "unlink" /\ waitingrecords' = waitingrecords \ {v_lr}
  /\ \/ ~ headRead /\ emu' = "free" /\ UNCHANGED fpc
     \/ (headRead \/ (fpc = "unlink" /\ u_lr # v_lr)) /\ Tear
  /\ UNCHANGED <<status, port, sigs, handler, int_requested, exter, native_pending, cmds,
                 unit_pipe, back_pipe, pck, ret, v_lr, u_lr, reset, bounds>>

(* ... and frees it.                                                       *)
TimeoutFree ==
  /\ emu = "free" /\ v_lr' = None
  /\ IF u_lr = v_lr THEN Tear ELSE emu' = "run" /\ UNCHANGED fpc
  /\ UNCHANGED <<status, port, sigs, handler, int_requested, exter, native_pending, cmds,
                 unit_pipe, back_pipe, pck, ret, waitingrecords, u_lr, reset, bounds>>

(* Any other host thread, of another unit for one, asks for an interrupt.  *)
OtherRequest ==
  /\ int_requested = 0 /\ int_requested' = 1
  /\ UNCHANGED <<emu, status, port, sigs, handler, exter, native_pending, cmds, unit_pipe,
                 back_pipe, thread, locks, reset, bounds>>

(* devices_reset, between any two 68k instructions: native2amiga_reset,    *)
(* then filesys_prepare_reset2 ...                                         *)
ResetMachine ==
  /\ emu = "run" /\ resets < MaxResets
  /\ native_pending' = 0 /\ reset_state' = "GO_DOWN" /\ emu' = "send_death"
  /\ resets' = resets + 1
  /\ UNCHANGED <<status, port, sigs, handler, int_requested, exter, cmds, unit_pipe,
                 back_pipe, thread, locks, reset_sync_sem, sends, timeouts>>

SendDeath ==
  /\ emu = "send_death" /\ 4 * (Len(unit_pipe) + 1) =< UnitCap
  /\ unit_pipe' = Append(unit_pipe, Death) /\ emu' = "wait_death"
  /\ UNCHANGED <<status, port, sigs, handler, int_requested, exter, native_pending, cmds,
                 back_pipe, thread, locks, reset, bounds>>

JoinThread ==
  /\ emu = "wait_death" /\ reset_sync_sem > 0
  /\ reset_sync_sem' = reset_sync_sem - 1 /\ emu' = "reboot"
  /\ UNCHANGED <<status, port, sigs, handler, int_requested, exter, native_pending, cmds,
                 unit_pipe, back_pipe, thread, locks, reset_state, bounds>>

(* ... filesys_free_handles, filesys_start_threads, uae_int_requested = 0, *)
(* and the Amiga boots up to the end of startup_handler.  The semaphore of *)
(* exter_int_helper is only initialised when the program starts.           *)
Reboot ==
  /\ emu = "reboot"
  /\ emu' = "run" /\ status' = [p \in Packet |-> "client"]
  /\ port' = <<>> /\ sigs' = {}
  /\ hpc' = "loop" /\ msg' = None /\ chain' = {} /\ started' = 0
  /\ visit' = {}
  /\ int_requested' = 0 /\ exter_sig' = 0 /\ epc' = "wait"
  /\ cmds_sent' = 0 /\ cmds_acked' = 0 /\ cmds_complete' = 0
  /\ unit_pipe' = <<>> /\ back_pipe' = 0
  /\ fpc' = "read" /\ pck' = None /\ ret' = "done"
  /\ waitingrecords' = {} /\ v_lr' = None /\ u_lr' = None
  /\ reset_state' = "STARTUP"
  /\ UNCHANGED <<unit_no, singlethread_int_sem, native_pending, reset_sync_sem, bounds>>

EmulatorWaits == \/ RecordTimeout \/ TimeoutSignal \/ TimeoutUnlink \/ TimeoutFree
                 \/ WriteUnitPipe \/ SendDeath \/ JoinThread \/ Reboot

-----------------------------------------------------------------------------
(* filesys_thread: filesys_iteration over and over.                        *)
FsRead ==
  /\ fpc = "read" /\ unit_pipe # <<>>
  /\ pck' = Head(unit_pipe) /\ unit_pipe' = Tail(unit_pipe) /\ fpc' = "check"
  /\ UNCHANGED <<emu, status, port, sigs, handler, int_requested, exter, native_pending,
                 cmds, back_pipe, ret, locks, reset, bounds>>
(* Faults: any packet is taken for the death message; the thread ends      *)
(* without a word.                                                         *)
FsCheckEndsEarly ==
  /\ fpc = "check"
  /\ \/ reset_state # "GO_DOWN" /\ fpc' = "handle" /\ UNCHANGED <<pck, reset_sync_sem>>
     \/ /\ reset_state = "GO_DOWN"
        /\ fpc' = "ended" /\ pck' = None /\ reset_sync_sem' = reset_sync_sem + 1
  /\ UNCHANGED <<emu, status, port, sigs, handler, int_requested, exter, native_pending,
                 cmds, unit_pipe, back_pipe, ret, locks, reset_state, bounds>>

FsCheckSilent ==
  /\ fpc = "check" /\ UNCHANGED reset_sync_sem
  /\ \/ reset_state # "GO_DOWN" /\ fpc' = "handle" /\ UNCHANGED pck
     \/ /\ reset_state = "GO_DOWN" /\ pck' = None
        /\ fpc' = IF pck = Death THEN "ended" ELSE "read"
  /\ UNCHANGED <<emu, status, port, sigs, handler, int_requested, exter, native_pending,
                 cmds, unit_pipe, back_pipe, ret, locks, reset_state, bounds>>

FsCheck ==
  /\ fpc = "check"
  /\ \/ reset_state # "GO_DOWN" /\ fpc' = "handle" /\ UNCHANGED <<pck, reset_sync_sem>>
     \/ /\ reset_state = "GO_DOWN" /\ pck # Death
        /\ fpc' = "read" /\ pck' = None /\ UNCHANGED reset_sync_sem
     \/ /\ reset_state = "GO_DOWN" /\ pck = Death
        /\ fpc' = "ended" /\ pck' = None /\ reset_sync_sem' = reset_sync_sem + 1
  /\ UNCHANGED <<emu, status, port, sigs, handler, int_requested, exter, native_pending,
                 cmds, unit_pipe, back_pipe, ret, locks, reset_state,
                 bounds>>

(* handle_packet.  A record lock may have to wait, for which the head of   *)
(* the list is read; a packet that frees one starts record_check_waiting.  *)
FsHandle ==
  /\ fpc = "handle"
  /\ \/ ret' = "done" /\ fpc' \in {"write", "walk"} /\ UNCHANGED u_lr
     \/ /\ ret' = "waits" /\ fpc' = "insert"
        /\ u_lr' \in IF waitingrecords = {} THEN {None} ELSE waitingrecords
  /\ UNCHANGED <<emu, status, port, sigs, handler, int_requested, exter, native_pending, cmds,
                 unit_pipe, back_pipe, pck, waitingrecords, v_lr, reset, bounds>>

(* The new record becomes the head.  It is lost again if record_timeout    *)
(* has taken the old head for the first entry and unlinks it as such.      *)
FsInsert ==
  /\ fpc = "insert" /\ fpc' = "write" /\ u_lr' = None
  /\ \/ waitingrecords' = waitingrecords \cup {pck}
     \/ u_lr # None /\ u_lr = v_lr /\ UNCHANGED waitingrecords
  /\ UNCHANGED <<emu, status, port, sigs, handler, int_requested, exter, native_pending, cmds,
                 unit_pipe, back_pipe, pck, ret, v_lr, reset, bounds>>

(* record_check_waiting meets a request that has its lock now, ...         *)
FsWalk(p) ==
  /\ fpc = "walk" /\ p \in waitingrecords
  /\ fpc' = "unlink" /\ u_lr' = p
  /\ UNCHANGED <<emu, status, port, sigs, handler, int_requested, exter, native_pending, cmds,
                 unit_pipe, back_pipe, pck, ret, waitingrecords, v_lr, reset, bounds>>

(* ... unlinks it, which the other walk may hold as the entry before its   *)
(* own, ...                                                                *)
FsUnlink ==
  /\ fpc = "unlink" /\ waitingrecords' = waitingrecords \ {u_lr}
  /\ \/ fpc' = "release" /\ UNCHANGED emu
     \/ emu \in {"vsync", "signal", "unlink"} /\ u_lr # v_lr /\ Tear
  /\ UNCHANGED <<status, port, sigs, handler, int_requested, exter, native_pending, cmds,
                 unit_pipe, back_pipe, pck, ret, v_lr, u_lr, reset, bounds>>

(* ... marks its packet ...                                                *)
FsRelease ==
  /\ fpc = "release" /\ fpc' = "free"
  /\ status' = [status EXCEPT ![u_lr] = "done"]
  /\ UNCHANGED <<emu, port, sigs, handler, int_requested, exter, native_pending, cmds,
                 unit_pipe, back_pipe, pck, ret, locks, reset, bounds>>

(* ... and frees it, then walks the list again.                            *)
FsFree ==
  /\ fpc = "free" /\ u_lr' = None
  /\ IF u_lr = v_lr THEN Tear ELSE fpc' = "walk" /\ UNCHANGED emu
  /\ UNCHANGED <<status, port, sigs, handler, int_requested, exter, native_pending, cmds,
                 unit_pipe, back_pipe, pck, ret, waitingrecords, v_lr, reset, bounds>>

(* A walk has met none.                                                    *)
FsWalkEnds ==
  /\ fpc = "walk" /\ fpc' = "write"
  /\ UNCHANGED <<emu, status, port, sigs, handler, int_requested, exter, native_pending, cmds,
                 unit_pipe, back_pipe, pck, ret, locks, reset, bounds>>

(* writedpacket: results that are not in Amiga memory yet go there, also   *)
(* those of a packet that is in the list and may meanwhile have timed out. *)
FsWrite ==
  /\ fpc = "write" /\ fpc' = "count"
  /\ UNCHANGED <<emu, status, port, sigs, handler, int_requested, exter, native_pending, cmds,
                 unit_pipe, back_pipe, pck, ret, locks, reset, bounds>>

FsRecords == \/ FsInsert \/ FsUnlink \/ FsRelease \/ FsFree \/ FsWalkEnds
             \/ \E p \in Packet : FsWalk(p)

(* cmds_sent++, "Acquire the message lock".                                *)
FsCount ==
  /\ fpc = "count" /\ fpc' = "mark"
  /\ cmds_sent' = (cmds_sent + 1) % CmdMod
  /\ UNCHANGED <<emu, status, port, sigs, handler, int_requested, exter, native_pending,
                 cmds_acked, cmds_complete, unit_pipe, back_pipe, pck, ret, locks,
                 reset, bounds>>

(* The trap_multi that marks the packet and takes what is left of the      *)
(* locks, which go back if there are any.                                  *)
FsMark ==
  /\ fpc = "mark" /\ fpc' \in {"back", "int"}
  /\ status' = IF ret = "done" THEN [status EXCEPT ![pck] = "done"] ELSE status
  /\ UNCHANGED <<emu, port, sigs, handler, int_requested, exter, native_pending, cmds,
                 unit_pipe, back_pipe, pck, ret, locks, reset, bounds>>

FsBack ==
  /\ fpc = "back" /\ back_pipe < BackCap
  /\ back_pipe' = back_pipe + 1 /\ fpc' = "int"
  /\ UNCHANGED <<emu, status, port, sigs, handler, int_requested, exter, native_pending,
                 cmds, unit_pipe, pck, ret, locks, reset, bounds>>
(* Fault: no interrupt is asked for.                                       *)
FsIntSilent ==
  /\ fpc = "int" /\ fpc' = "read" /\ pck' = None /\ ret' = "done"
  /\ UNCHANGED <<emu, status, port, sigs, handler, int_requested, exter, native_pending,
                 cmds, unit_pipe, back_pipe, locks, reset, bounds>>

FsInt ==
  /\ fpc = "int" /\ fpc' = "read" /\ int_requested' = 1
  /\ pck' = None /\ ret' = "done"
  /\ UNCHANGED <<emu, status, port, sigs, handler, exter, native_pending, cmds, unit_pipe,
                 back_pipe, locks, reset, bounds>>

FsThread == \/ FsRead \/ FsCheck \/ FsHandle \/ FsRecords \/ FsWrite
            \/ FsCount \/ FsMark \/ FsBack \/ FsInt

-----------------------------------------------------------------------------
Next == \/ \E p \in Packet : DosSend(p) \/ VsyncFinds(p)
        \/ HandlerTask \/ ExterServer \/ ExterTask
        \/ OtherRequest \/ ResetMachine \/ EmulatorWaits \/ FsThread

Spec == Init /\ [][Next]_vars

(* Exec runs both tasks and serves the interrupt whenever they are ready,  *)
(* and the host runs both of its threads.  Clients need not send, record   *)
(* locks need not time out and nobody has to reset.                        *)
FairSpec == /\ Spec
            /\ WF_vars(HandlerTask) /\ WF_vars(ExterServer) /\ WF_vars(ExterTask)
            /\ WF_vars(EmulatorWaits) /\ WF_vars(FsThread)

-----------------------------------------------------------------------------
(* The limit on started commands, which the 68k side keeps, is what the    *)
(* emulator thread relies on: it never waits for room in unit_pipe, where  *)
(* it would stop the machine that has to empty back_pipe.                  *)
EmulatorNeverBlocks ==
  emu \in {"write_unit", "send_death"} => 4 * (Len(unit_pipe) + 1) =< UnitCap

(* There is one dummy message per unit.  exter_int_helper never has it put *)
(* on the port while it is still there or not yet released by its receiver,*)
(* which would tear the port's list apart.                                 *)
DummyAt == {i \in 1 .. Len(port) : port[i] = Dummy}
OneDummy ==
  /\ Cardinality(DummyAt) =< 1
  /\ epc = "putmsg" => DummyAt = {} /\ ~ (hpc = "message" /\ msg = Dummy)
  /\ hpc = "message" /\ msg = Dummy => DummyAt = {}

(* Positions at which filesys_thread performs its packet; one that waits   *)
(* for a record lock is on the list from the insertion on.                 *)
Performs == \/ fpc \in {"handle", "insert", "walk", "unlink", "release", "free"}
            \/ fpc \in {"write", "count", "mark"} /\ ret = "done"
(* What record_check_waiting has taken from the list, or is about to.      *)
Taken == IF fpc \in {"unlink", "release"} THEN {u_lr} ELSE {}

(* The host works on a packet only as long as the 68k side neither replies *)
(* it nor sends it again: "it's safe to reply to it".  That is so at any   *)
(* time for the pipe and for the packet it performs, and whenever the      *)
(* machine runs for a packet in the list or just taken from it, although   *)
(* record_timeout marks it before it unlinks it.  Not so for writedpacket  *)
(* of a packet that waits, which is therefore not among those performed.   *)
HostOwnsHanded ==
  emu # "reboot" =>
    /\ \A i \in 1 .. Len(unit_pipe) : unit_pipe[i] = Death \/ status[unit_pipe[i]] = "handed"
    /\ Performs => status[pck] = "handed"
    /\ emu \notin InTimeout \cup {"torn"} =>
         \A p \in waitingrecords \cup Taken : status[p] = "handed"

(* A completed packet keeps its mark until it is replied.  The exception   *)
(* is a record that both walks hold at once, which the 68k side, stopped   *)
(* in record_timeout, cannot see: no packet is replied on a first mark and *)
(* then marked again.                                                      *)
CompletionStands ==
  [][emu # "reboot" => \A p \in Packet :
       status[p] \in {"done", "timedout"} =>
         status'[p] \in {status[p], "client"} \/ (v_lr = p /\ u_lr = p)]_vars

(* When filesys_prepare_reset2 goes on to free the unit, its thread has    *)
(* ended and left nothing in the pipe.                                     *)
ThreadEndsClean == emu = "reboot" => fpc = "ended" /\ unit_pipe = <<>> /\ reset_sync_sem = 0

-----------------------------------------------------------------------------
(* The inductive invariant behind the safety properties.                   *)

(* Packets the handler counts as started, and those it is responsible for  *)
(* when the one it has just handed over is included.                       *)
Held == {p \in chain : status[p] # "unstarted"}
Work == Held \cup (IF hpc = "enqueue" THEN {msg} ELSE {})

(* The handler's count is right, and a packet is in one place of its loop. *)
HandlerInv ==
  /\ \A p \in chain : status[p] \in Mark
  /\ visit \subseteq chain
  /\ started = Cardinality(Held) /\ started =< MaxStarted
  /\ hpc = "enqueue" => /\ msg \in Packet \ chain /\ started < MaxStarted
                        /\ status[msg] \in {"handed", "done", "timedout"}
  /\ hpc = "message" => msg # None
  /\ hpc = "message" /\ msg \in Packet /\ emu # "write_unit" => status[msg] = "sent"
  /\ emu = "write_unit" => /\ hpc = "message" /\ msg \in Packet \ chain
                           /\ started < MaxStarted /\ status[msg] = "handed"

(* What waits at the port was sent, and nothing is there twice.            *)
PortInv ==
  /\ \A i \in 1 .. Len(port) : port[i] = Dummy \/ status[port[i]] = "sent"
  /\ \A i, j \in 1 .. Len(port) : port[i] = port[j] => i = j
  /\ hpc = "message" => \A i \in 1 .. Len(port) : port[i] # msg

(* While the dummy message is out, an acknowledged completion is not yet   *)
(* complete, and it is out in one place.                                   *)
DummyInv ==
  /\ epc = "putmsg" \/ DummyAt # {} \/ (hpc = "message" /\ msg = Dummy)
        => cmds_acked # cmds_complete
  /\ epc = "putmsg" => DummyAt = {} /\ ~ (hpc = "message" /\ msg = Dummy)

(* The host thread's packets: those in the pipe, the one it performs and   *)
(* those a walk can reach are different, and the first two are handed over *)
(* and counted.                                                            *)
Listed == waitingrecords \cup Taken \cup {v_lr}
HostInv ==
  /\ \A i \in 1 .. Len(unit_pipe) :
        unit_pipe[i] # Death => /\ unit_pipe[i] \in Work \ Listed
                                /\ status[unit_pipe[i]] = "handed"
  /\ \A i, j \in 1 .. Len(unit_pipe) : unit_pipe[i] = unit_pipe[j] => i = j
  /\ fpc \notin {"read", "back", "int", "ended"} => pck # None
  /\ Performs \/ (fpc = "check" /\ pck # Death) =>
        /\ pck \in Work \ Listed /\ status[pck] = "handed"
        /\ \A i \in 1 .. Len(unit_pipe) : unit_pipe[i] # pck
  /\ fpc = "insert" => ret = "waits"
  /\ fpc \in {"walk", "unlink", "release", "free"} => ret = "done"
  /\ fpc = "torn" <=> emu = "torn"

(* The two walks.  Both may hold one record; then it carries the mark of   *)
(* the one that has passed its marking last.                               *)
Both == v_lr = u_lr /\ v_lr # None
ListInv ==
  /\ v_lr # None <=> emu \in InTimeout
  /\ u_lr # None => fpc \in {"insert", "unlink", "release", "free"}
  /\ fpc \in {"unlink", "release", "free"} => u_lr # None
  /\ fpc \in {"release", "free"} => u_lr \notin waitingrecords
  /\ emu = "free" => v_lr \notin waitingrecords
  /\ v_lr # None => v_lr \in Work
  /\ emu = "vsync" => status[v_lr] = "handed" \/ (Both /\ fpc = "free" /\ status[v_lr] = "done")
  /\ emu \in {"signal", "unlink", "free"} =>
        status[v_lr] = "timedout" \/ (Both /\ fpc = "free" /\ status[v_lr] = "done")
  /\ \A p \in waitingrecords \cup Taken : p \in Work
  /\ \A p \in (waitingrecords \cup Taken) \ {v_lr} : status[p] = "handed"

(* The death message is the last one, and the thread's answer comes once.  *)
ResetInv ==
  /\ reset_state = "GO_DOWN" <=> emu \in {"send_death", "wait_death", "reboot"}
  /\ \A i \in 1 .. Len(unit_pipe) :
        unit_pipe[i] = Death => i = Len(unit_pipe) /\ emu = "wait_death" /\ pck # Death
  /\ pck = Death => fpc = "check" /\ emu = "wait_death" /\ unit_pipe = <<>>
  /\ fpc = "ended" => emu \in {"wait_death", "reboot"} /\ unit_pipe = <<>>
  /\ emu = "reboot" => fpc = "ended"
  /\ reset_sync_sem = 1 <=> (fpc = "ended" /\ emu = "wait_death")

(* Every packet handed over is one the handler is responsible for.         *)
CountedInv ==
  \A p \in Packet : status[p] \in {"handed", "done", "timedout"} =>
                      p \in Work \/ (emu = "write_unit" /\ p = msg)

(* A completed packet whose completion is counted and not acknowledged is  *)
(* about to be replied: an interrupt is on its way to a round of the exter *)
(* task that will come to the unit, or the host thread goes on to ask for  *)
(* one, or the dummy message is out, or the scan has still to reach the    *)
(* packet.                                                                 *)
Announces == {"walk", "unlink", "release", "free", "write", "count", "mark", "back", "int"}
RoundComes == \/ int_requested = 1 \/ exter_sig = 1
              \/ epc = "first" \/ (epc \in {"again", "signal"} /\ unit_no = 0)
AnnounceInv ==
  \A p \in Packet : status[p] = "done" /\ cmds_sent # cmds_acked =>
    \/ RoundComes \/ fpc \in Announces
    \/ cmds_acked # cmds_complete
    \/ hpc = "scan" /\ msg = Dummy /\ p \in visit

BaseInv == HandlerInv /\ PortInv /\ DummyInv /\ HostInv /\ ResetInv
UnitInv == BaseInv /\ CountedInv /\ (emu # "torn" => ListInv /\ AnnounceInv)

-----------------------------------------------------------------------------
(* A reset has left the semaphore taken, with no task to give it back.     *)
SemaphoreLost == singlethread_int_sem = 0 /\ epc \in {"wait", "first"}

(* A completed packet is replied if there is a completion the exter task   *)
(* has not acknowledged: the interrupt was asked for, the dummy message    *)
(* goes out and the scan comes after it, also when the dummy message was   *)
(* still on its way for an earlier completion.                             *)
CountedIsReplied ==
  \A p \in Packet :
    (status[p] = "done" /\ cmds_sent # cmds_acked)
      ~> (status[p] = "client" \/ SemaphoreLost \/ emu = "torn")

(* A reset always gets the machine running again.                          *)
ResetFinishes == (emu = "send_death") ~> (emu = "run")

-----------------------------------------------------------------------------
(* What comments of the code promise and the code does not keep.           *)

(* FSML_check_old, "This field may be accessed concurrently by several UAE *)
(* threads.  This _should_ be harmless": a packet is completed once, so a  *)
(* request that timed out is not granted as well, nor the other way round. *)
NoSecondCompletion ==
  [][emu # "reboot" => \A p \in Packet :
       status[p] \in {"done", "timedout"} => status'[p] \in {status[p], "client"}]_vars

(* filesys_iteration, "The message is sent by our interrupt handler, so    *)
(* make sure an interrupt happens": every completed packet is replied.     *)
CompletedIsReplied ==
  \A p \in Packet : (status[p] = "done") ~> (status[p] = "client")

(* FSML_FromDOS, "We can handle an unlimited number of unstarted           *)
(* commands": each of them is started at some time.                        *)
UnstartedIsStarted ==
  \A p \in Packet : (status[p] = "unstarted") ~> (status[p] # "unstarted")

(* exter_int_helper, "Pretend it isn't for us. We might get it again       *)
(* later": the semaphore comes free again.                                 *)
SemaphoreComesFree ==
  (epc = "first" /\ singlethread_int_sem = 0) ~> (singlethread_int_sem = 1)
=============================================================================
