# TLA+ models of libretro-uae

libretro-uae is an Amiga emulator built as a libretro core. Most of it is a
single-threaded interpreter of the machine. What makes it hard to get right
is where host threads meet that interpreter: 68k programs call host functions
which call 68k code back, a mounted host directory is served by a thread of its
own, and both sides talk through small pipes, semaphores and interrupts. That
is the part this project models, together with the event scheduler, where the
difficulty is not threads but handlers that call back into the scheduler.

All paths below are relative to the repository root, `src/` being the
repository.

## The system

| Component | State | Operations | Talks to |
|---|---|---|---|
| Communication pipe (`sources/src/include/commpipe.h`) | ring buffer, read and write position, two "I sleep" flags, three semaphores | blocking write (with or without flush), blocking read | every host thread |
| Extended traps (`sources/src/traps.c`) | one context per running trap: saved registers, two semaphores, the 68k function and its result; `trap_mutex`, `current_context` | trap entry, call of 68k code, return from it, trap exit | emulator thread, one thread per trap, the 68k stack |
| Directory filesystem, packet transport (`sources/src/filesys.c`, `filesys.asm`) | per unit: `unit_pipe`, `back_pipe`, the three `cmds_` counters, reset state; on the 68k side the handler's port, its chain of commands and its count | hand a packet over, perform it, announce it, reply it, reset | DOS clients, exter task, host thread |
| Directory filesystem, record locks (`filesys.c`) | held and waiting records per unit | lock, free, grant, time out | packet transport, vsync |
| Directory filesystem, file operations (`filesys.c`, `fsdb.c`) | a-inodes, keys, exkeys | one function per DOS action | host files |
| Native to Amiga calls (`sources/src/native2amiga.c`) | one pipe, `n2asem` | signal, put, reply, interrupt | every device thread, exter task |
| Thread layer (`retrodep/threaddep`) | pthreads, semaphores | init, post, wait, trywait, join | all of the above |
| Hardware traps (`traps.c`) | slots in uaeboard memory | as extended traps, without the interpreter | uaeboard |
| Event scheduler (`sources/src/events.c`) | event table, `nextevent`, miscellaneous events | schedule, run | custom chips |
| Disk control (`libretro/libretro-dc.c`, `libretro-core.c`) | image table, index, eject state | add, replace, remove, eject, insert | front end |
| Keyboard buffer (`sources/src/keybuf.c`) | ring of key codes | record, read | CIA |
| CD drives (`akiko.c`, `cdtv.c`, `blkdev_cdimage.c`) | command state, playing thread | command, play, stop | device threads |
| Device threads (`scsiemul.c`, `uaeserial.c`, `ide.c`, `hardfile.c`) | request pipe per unit | begin, abort, reply | native2amiga |
| Save states, custom chips, CPU and memory, input, front end | hardware registers, tables, options | | |

Hard behaviours. Two threads share `regs` without a lock and rely on taking
turns. The pipe has a lock-free path. Amiga tasks are switched at any
instruction whose interrupt mask allows it, so traps overlap and end in any
order. A packet is seen by four parties (client, handler task, exter task, host
thread), and a reset may cut through any step of it. Record locks time out on
one thread while another grants them, over a list without a lock. The event
scheduler is entered again by the handlers it runs. `PROJECT.json` lists each hazard with
its line and with the properties that cover it.

What makes each modelled component correct:

* pipe: first in first out, bounded, nothing overwritten, nothing read before
  it is written, no sleeper forgotten;
* traps: one of emulator thread and trap threads runs at any time, every
  callback meets its own context and its own result, the emulator thread comes
  back;
* packet transport: the emulator thread never waits for room in `unit_pipe`,
  the one dummy message is on one list, a packet is worked on only while it is
  handed over and its completion stands until it is replied, completions are
  replied, a reset ends;
* record locks: two handles never hold colliding records, a walk of the waiting
  list ends;
* native to Amiga calls: a message is read in one piece, the emulator thread,
  sender and only reader, comes back, a call is performed;
* event scheduler: the clock passes no active event, a request runs at its
  cycle and in order as far as the links between entries allow, every call into
  the scheduler returns.

## Modules

| Module | What it is |
|---|---|
| `BlockingPipe` | what a pipe promises: a bounded FIFO queue of words |
| `CommPipe` | `commpipe.h` step by step, its properties, its inductive invariant |
| `CommPipeProofs` | the theorems about `CommPipe` |
| `MCCommPipe` | its instance for TLC |
| `ExtendedTrap` | `trap_thread`, `trap_HandleExtendedTrap`, `trap_Call68k` and the three 68k entry points |
| `ExtendedTrapProofs` | the theorems about `ExtendedTrap` and their invariant `TrapInv` |
| `MCExtendedTrap` | its instance for TLC |
| `FilesysUnit` | one filesystem unit: handler task, interrupt server, exter task, host thread, record locks, reset |
| `FilesysUnitProofs` | the theorems about `FilesysUnit` |
| `MCFilesysUnit` | its instances for TLC |
| `RecordLocks` | the records of a unit's keys and the waiting list, statement by statement |
| `RecordLocksProofs` | the theorems about `RecordLocks` and their invariant `LockInv` |
| `MCRecordLocks` | its instance for TLC |
| `Native2Amiga` | senders, interrupt, exter task and reader of `native2amiga_pending`; composes `BlockingPipe` |
| `Native2AmigaProofs` | the theorems about `Native2Amiga` and their invariant `NativeInv` |
| `MCNative2Amiga` | its instance for TLC |
| `Events` | `events.c` and the one-shot requests of `events.h`, with the call stack as state |
| `EventsProofs` | the theorems about `Events` and their invariant `EventsInv` |
| `MCEvents` | its instances for TLC |

Definitions introduced by a comment that begins with "Fault" are wrong
versions of the definition that follows them. No specification uses them; they
serve to check that a property notices the fault.

### CommPipe

One writer and one reader. A variable per field of `smp_comm_pipe` (`rdp`,
`wrp`, `reader_waiting`, `writer_waiting`, the three semaphores as counts) and
a program counter per side. An action is one access to shared state: the
lock-free path of `write_comm_pipe_pt` is taken when the one unlocked read of
`reader_waiting` finds it set, and the steps after that are separate actions,
so the reader can run between any two of them. `Word` is an arbitrary set:
`uae_u32`, `int` and pointers differ by a cast.

Each pipe has one reader in the code. It has one writer at a time because the
callers see to it (the emulator thread for `unit_pipe`, the unit's thread for
`back_pipe`, whoever holds `n2asem` for `native2amiga_pending`). Memory is
taken as sequentially consistent: the semaphores order everything except the
lock-free path, where the reader is asleep.

### ExtendedTrap

`Task` are Amiga tasks with registers and a stack each; the 68k side is
external and may switch tasks whenever `emu = "run"` and the interrupt mask is
below 7. `Ctx` are the addresses `xcalloc` may return, so a freed context's
address is used again. Registers are reduced to what trap code touches: where
the program counter is (user code, one of the three trap addresses, or the
68k function called by a context), the stack depth, the interrupt mask, and
which function's result `d0` holds. `m68k_call_handler` pushes the context on
the running task's stack and `m68k_return_handler` pops it there.
The counter `trap_mutex` is a semaphore: one thread takes it and the other
releases it.

### FilesysUnit

`status` is the long at offset 4 of the message as the two sides use it (0
handed over, 1 unstarted, -1 done, -2 timed out) together with the two places
a packet can be while that long means nothing: with its client and on its
way. The 68k code is a task per program counter (`hpc`, `epc`); a 68k
step can happen only while the emulator thread interprets (`emu = "run"`), as
the other values of `emu` are waits inside a trap or inside the reset.
`filesys_iteration` is split where another thread can see a difference:
counting (`cmds_sent++`), marking (`trap_multi`), giving locks back, asking for
the interrupt. The signal pipe to the Amiga is reduced to the number of signals
for the handler task. `OtherRequest` is any other host thread's
`do_uae_int_requested`: another unit's thread, for one.

The records that wait for a lock are walked by both threads without a lock of
their own, and the model has each walk's accesses as steps that the other
thread may come between. On the emulator thread `record_timeout` finds an entry
(`VsyncFinds`), marks its packet -2, signals the handler task, unlinks the entry
and frees it; on the unit's thread `record_check_waiting` finds one (`FsWalk`),
unlinks it, marks its packet -1 and frees it, and `action_lock_record` reads the head
(`FsHandle`) and makes its new entry the head (`FsInsert`). The list is a set
here: its links are the subject of `RecordLocks`, and a walk may find any
of its members. `v_lr` and `u_lr` are the entries the two walks hold. What the
links do to each other is kept as choices: an insertion is lost if vsync unlinks
the head it has read, and a walk whose entry or preceding entry the other
thread has unlinked or freed goes on with freed memory. There the model stops
(`Tear`, both threads `torn`), as the C standard says nothing about what
follows. `Taken` is what the unit's thread has unlinked or is about to.

Abstractions: a message of four words is written and read as one element
(their order is `CommPipe`'s result); whether a record lock has to wait, and
which waiting ones a packet lets through, is a choice; results are left out, and
with them the effect of `writedpacket` (the step `FsWrite` is there; it does
nothing when packets are in directly mapped memory, where `need_flush` is false)
and of `PUT_PCK_RES1` through `lr->packet`; locks in `back_pipe` are counted
only; the startup of a unit is part of `Reboot`; one unit.

### RecordLocks

`FilesysUnit` has the waiting list as a set, with the marks and the life of the
packets; this module has its links, with the records of the keys. A waiting entry
is known by its message; `head`, `next` and `live` are the list and the heap, and `thread` gives each of the two walkers its program
counter, `prev` and `lr`. `record_check_waiting` runs on the unit's thread at the
end of `action_free_record`, `record_timeout` on the emulator thread at a vsync.
A step is one statement that touches the list: read an entry and
decide, unlink it, free it. When a walker meets an entry that the other has
freed the model stops (`stale`): the C standard says nothing about what follows, and
the properties are about everything up to that point.

`packet` is the local variable of `filesys_iteration` that every
waiting entry points to after the function has returned. All iterations run from
the same caller, so the pointer leads to the packet handled now or last.
Abstractions: results stored in packets are left out, also those
`record_timeout` stores through that pointer; `uae_Signal` in `record_timeout` is
`Native2Amiga`'s subject; a-inodes are reduced to the file a key is open on; the
64 bit actions are the same code; 64 bit overflow of `pos + len` is not modelled.

### Native2Amiga

A call is a message of two to four words (`Words` lists all commands). A
sender waits for `n2asem`, writes word by word, requests the interrupt and posts
the semaphore; each is an action, and a write is `Call` and `Put` of
`BlockingPipe`, so a writer may sleep in between. One writer at a time is what
`CommPipe` needs to implement `BlockingPipe`; here `n2asem` provides it.
The emulator thread is one of the senders. It is also the reader, inside the trap
`exter_int_helper`: `EmuFree` says it is in neither role nor in a reset, and
68k steps (interrupt server, exter task) need `EmuFree`.

`native2amiga_reset` zeroes the positions while host threads go on. A sender that
has begun a message, or sleeps in the pipe, is cut off (`cut`): the
pipe's flags and words no longer fit its program counter, and the model stops
there. A call made between `native2amiga_reset` and the end of `devices_reset`
loses its interrupt (`stranded`).

### Events

One thread, and yet the hardest control flow: `do_cycles_slow` calls
device handlers, `MISC_handler` calls one-shot handlers, a handler calls
`event2_newevent_xx`, which calls `MISC_handler` again, or runs another handler when the
table is full. `stack` holds one frame per call in progress with its local
variables; an action runs the top frame up to its next call or return. A
handler body is any sequence of calls (`ClientStep`) and a return. `id` and
`due` of a request and the counter `stored` are history for the properties.
Function and data of a request are one value. Cycles are integers, as the 64 bit
clock does not wrap.

`do_cycles_slow` advances the clock, then passes over `eventtab`, and starts
again if cycles are left. Its index is `Between` while it is in no pass. `EVT_MAX`,
the distance of no event, is a constant above every delay: the code has a 63 bit
number there and 32 bit delays.

An entry's `next` link is set when a second request for its cycle is stored
behind it, and cleared only when `MISC_handler` comes back from its handler. If the
first request is removed, replaced or run because the table is full, its link
stays, and stays when the entry is taken again. A left-over link leads
`MISC_handler` to whatever request the linked entry holds by then, if its time
happens to be one cycle later, or, when the first entry has been taken again by
its own handler, one cycle after its new time.
`RunsOnTime` and `PairRunsInOrder` say exactly what is left of
"at its cycle" and "in order" in the presence of such links (`ByLink`, `SlotReused`).

A device handler leaves its entry for a later cycle or disarmed: `CIA_handler`
ends in `CIA_calctimers`, `hsync_handler` sets its next line, `audio_evhandler`
reschedules. Left out: waiting for the host's vsync (`is_syncline`), the
countdown `pissoff` that skips calls, `event2_newevent_xx_ce` (a direct call or
`event2_newevent_xx`), save states.

## Runs

| Run | Shows |
|---|---|
| `comm_pipe` | all safety properties, the inductive invariant, the refinement of `BlockingPipe`, and that blocked calls return |
| `extended_trap` | turns, contexts, results, stack balance, no contention for `trap_mutex`, the emulator thread resumes |
| `filesys_packets` | one dummy message, ownership of packets, marks that stand, the inductive invariant, with a record lock that may be granted and time out at once |
| `filesys_reset` | reset at any point: no wait for room in `unit_pipe`, the thread ends with an empty pipe, the machine runs again; counted completions are replied |
| `record_locks` | held records are disjoint, a released request finds a key, the walk on the emulator thread ends; two walkers without a lock, timeouts, closes, resets |
| `native2amiga` | messages in one piece, the emulator thread returns, calls are performed; a full pipe, a reset under the senders |
| `events` | nothing missed, the clock stops in time, events on time and in order, every call returns; a full table, replaced and removed events, resets |
| `filesys_record_race`, `filesys_lost_reply`, `filesys_unstarted`, `filesys_semaphore`, `events_order` | the five findings below |

Bounds. The pipe has three words and a chunk of two, so that empty, full,
wrapped, one below the chunk and at the chunk all occur; the proofs are for any
size. Traps: two tasks, three contexts, nesting two deep, two calls per
handler: enough for two traps of one task nested in each other while the other
task's trap is in the middle of a call. Filesystem: two packets. In
`filesys_packets` both may be started, so that one waits for a record lock the
other one frees, and three sends let a packet come round again while the marks
of the first time could still be written; one timeout, as there is one walk at a
time on the emulator thread. In `filesys_reset` and the runs of findings one may
be started and the other meets the limit. `unit_pipe` has the least capacity
`UnitAssumption` allows, 4 * (`MaxStarted` + 1), where the code has 399 for 20;
`back_pipe` has room for one word in `filesys_packets`, so that it is full at
times; the counters wrap at 3 there, which three completions reach, and at 4
elsewhere. One reset is enough: everything but the semaphore and the pending
native signals is as new after it. `MaxSends`, `MaxTimeouts` and `MaxResets` only
end the behaviours. Packets are symmetric in the run without a liveness
property. Two choices need a third packet in the host's hands and are not reached
in the runs: that a walk's preceding entry is unlinked by the other (the second
alternative of `TimeoutUnlink` and of `FsUnlink` needs two waiting entries and a
packet that frees one). The theorems cover them, and so does the same instance
with three packets, all started: 7.5 million states, without an error, but too
long for a run that is repeated.
Record locks: two handles on one file and a third on another, requests that
overlap, enclose and touch each other, an exclusive, a shared and an immediate
mode; four messages allow two waiting entries, one holder and one free, which is
what the races on the list need. `VblankHz` is 49 as for a PAL machine (49.92
Hz), so that a timeout of one tick becomes 0 and the counter wraps, at
`TimeoutMod` here and at 2^32 in the code. Native calls: commands of two and of
four words in a pipe of four (the code has 299), three calls, one reset: a pipe
full at a message boundary and in the middle of one both occur. Events: three
one-shot entries, one of them the blitter's, and two handlers, so that a third
request finds the table full and runs one of the others before its time, and a
fourth may come from that very handler and fill the entry again, which sends the
search round once more; the hsync entry, which comes before `ev_misc` in
`eventtab`, and the audio entry, which comes after it; delays of two cycles, so that
the cycle a link adds makes two requests differ, and of four for the devices, so
that the clock has no other reason to stop at a request; `MaxTime`, `MaxRequests`
and `MaxFrames` end the behaviours.

Deadlock is not checked in `record_locks` (the messages run out),
`native2amiga` (the calls run out, and a full pipe really stops the emulator
thread), `filesys_packets` and `filesys_record_race` (the model stops when freed
memory has been used). It is checked wherever the cfg does not say otherwise: `OtherRequest`
and the interrupt server keep the filesystem alive, so its deadlock
check says little, and the liveness properties take its place.

Fairness is weak everywhere. Host threads are scheduled by the host
(`pthread`), so a thread that can go on does. Exec runs a ready task and serves
a pending interrupt. The walks of the waiting list are fair per thread, as they
belong to two host threads. In `Events` the fairness is on the scheduler's own
steps and the return of handlers: handler bodies are straight code, and
`MaxRequests` bounds what they may ask for. `EveryCallReturns` is therefore about
handlers whose requests end; it says that the scheduler adds no loop of its own.
A handler that asks again each time it runs can keep the search for a free
entry going for ever (see below). Nobody has to call a pipe, send a packet,
time out, trap, request an event or reset.

## Findings

* `filesys_lost_reply` (`filesys.c:7206`): `filesys_iteration` counts the
  command before it marks the packet. If an interrupt that another thread asked for
  is served in between, the exter task acknowledges the count and the handler
  task scans the chain while the packet is unmarked; the interrupt that follows
  announces nothing. The packet is replied when the next command of the unit
  completes, not before. `CountedIsReplied` states what does hold.
* `filesys_unstarted` (`filesys.asm:2317`): a packet above the limit of 20
  started commands gets mark 1 and joins the chain. The scan looks for marks
  -1 and -2 only, so it is neither started nor replied.
* `filesys_semaphore` (`filesys.c:6919`): a reset while the exter task is
  between `exter_int_helper(10)` and the end of its round leaves
  `singlethread_int_sem` at 0. `uae_sem_init` does nothing for a semaphore that
  exists, and no other code posts it, so the filesystem's interrupts do nothing
  after that reset.
* `events_order` (`events.c:350`): `MISC_handler` reads `e->next` and
  `e->evtime` after the handler of `e` has run. If the handler made two requests for
  one later cycle, the first reuses `e` and the second is linked behind it,
  so the test `e2->evtime == e->evtime + 1` holds for the new pair, and the second
  runs at once, before the first and without its delay.
  `event_CIA_synced_interrupt` can raise two interrupts in this way.
  `PairRunsInOrder` states what does hold, for requests that run because their
  time has come or because the table is full.
* `filesys_record_race` (`filesys.c:4416`): `record_timeout` marks a packet -2 and
  unlinks its record three statements later; `record_check_waiting`, on the unit's
  thread, can hold the same record and mark the same packet -1. The remark at
  `filesys.asm:2293` takes concurrent access to the mark for harmless. The
  packet is reported as timed out and released, and the record is freed twice.
  `CompletionStands` states what does hold: the second mark comes while the
  machine is stopped in `record_timeout`, so no packet that was replied, and
  perhaps sent again, is marked by a walk.

Behaviour met while modelling and kept as it is, without a line of the
repository to hold it against:

* `action_free_record` never advances `prev`, so freeing a record that is not
  the newest of its key drops all newer ones of that key.
* A request that waited and is released is marked done, but gets no record and no
  result; only `record_timeout` stores a result, into the packet of the moment.
* The two walks race also without a second mark: an entry is freed under the
  other's feet, or the entry before it, and an insertion can be lost.
* A packet whose lock waits can time out and be replied before `writedpacket`
  (`filesys.c:7187`) has written the results of the action that queued it, where
  packets are not in directly mapped memory.
* With a full table `event2_newevent_xx` runs the soonest of all events, the
  blitter's included, and searches again among the others (`events.c:394-424`).
  With blitter DMA off `blitter_handler` requests itself again ten cycles on
  (`blitter.c:971-975`): as long as all others are later, it is run again and
  again without time going on, and the search does not end.
* A timeout of one tick at 49.92 Hz becomes 0, is decremented before the test, and
  the request then waits for 2^32 vsyncs.
* The emulator thread blocks for good if it sends a call while
  `native2amiga_pending` is full, since it is the only reader (`Stuck`).
* A call sent while `devices_reset` runs stays in the pipe until another call
  requests an interrupt (`stranded`).
* `CIA_handler` can run miscellaneous events of the cycle before `hsync_handler`
  by way of an interrupt request, against the remark in `events.h:65` that hsync
  handlers have priority over misc.

## Proofs

`CommPipeProofs` proves, for every set of words, every size of at least two and
every chunk below it (`PipeAssumption`), that `CommPipe` satisfies `NoOverrun`,
`NoUnderrun`, `NoLostReaderWake`, `NoLostWriterWake` and implements
`BlockingPipe`: the words come out once, in order, and are the arguments of the
write calls.

None of these is inductive alone. `PipeInv` is the inductive invariant; it
is also checked by TLC. Its parts say who holds the lock at which
program counter, that a set flag belongs to a sleeper who has not
been posted (flag, semaphore count and pending post add up to at most one), what
each side's local values still tell about the positions, and that the contents
between `rdp` and `wrp` are the queue. The lock-free path needs the part that
relates the flag to the occupancy: a reader that sleeps left the pipe empty, and
every word written since was below the chunk, or the flag would be clear; hence
the unlocked write cannot meet a full pipe. Every action has its own step in the
proof and the temporal steps follow by `PTL`. Arithmetic modulo the
size is confined to a few lemmas on `Succ` and `Queued`.

`FilesysUnitProofs` proves, for every finite set of packets, every limit of
started commands and every pipe that holds that many packets and one more
(`UnitAssumption`), with any number of sends, timeouts and resets and
with counters that wrap at any modulus: `EmulatorNeverBlocks`, `OneDummy`,
`HostOwnsHanded`, `CompletionStands` and `ThreadEndsClean`.

`UnitInv` is the inductive invariant, checked by TLC in `filesys_packets`:

* `HandlerInv`: d5 is the number of packets in the chain that are not
  unstarted, at most the limit, and the packet in the handler's hands is not in
  the chain yet. Without the count nothing bounds the pipe.
* `PortInv`: what is on the port was sent and is there once.
* `DummyInv`: while the dummy message is out, `cmds_acked` differs from
  `cmds_complete`, and that is what stops `exter_int_helper` from sending it again.
* `HostInv`: the packets in the pipe and the packet performed are different from
  each other and from all that the two walks can reach; they are handed over,
  and among those the handler counts. This is what bounds the pipe (`PipeBounded`:
  the pipe is an injection into the counted packets) and keeps a late grant or
  timeout away from a packet that has been sent again.
* `ListInv`: the entries of the list, and the ones a walk holds, belong to packets
  the handler counts; all but the entry of `record_timeout` are handed over, and
  that one carries the mark of the walk that has come to its marking last. Both
  walks may hold one entry, and then the emulator thread is in `record_timeout`.
* `CountedInv`: every packet handed over or completed is one the handler counts.
* `AnnounceInv`: a packet that is done and whose completion is not acknowledged
  will be found: an interrupt is on its way, the unit's thread is about to ask for
  one, the dummy message is out, or the scan has yet to reach the packet. It is the
  safety half of `CountedIsReplied`.
* `ResetInv`: the death message is the last in the pipe, and the post of
  `reset_sync_sem` stands for the end of the thread.

`ListInv` and `AnnounceInv` hold until freed memory has been used (`emu = "torn"`);
the other parts, and the theorems, make no such exception. Every step of the two
walks is taken on its own in the proofs, and the interesting case is a record
both hold: the machine stands still then, so the handler can reply its packet
only when both have let it go, or freed it twice. `MarksStand` draws the
conclusion: a walk gives a second mark to no packet but one the other walk holds at
that moment. The three findings about replies and the semaphore are compatible with
these theorems: they are about what eventually happens, not about what never does.

`ExtendedTrapProofs` proves, for any tasks, contexts, nesting depth and number of
calls, every safety property of `ExtendedTrap`. `TrapInv` follows one token. `Turn`
is the context it is with: the one the emulator thread is parked on, or the one
whose handler it is about to enter, or none while the 68k goes its own way.

* `TurnInv`: the token's context belongs to the running task, and its two
  semaphores stand as the program counters of the two sides require. At most one
  post is outstanding, so no wait returns for an earlier post.
* `RequestInv`: from the moment a thread asks for a handler until the handler
  runs, interrupts are masked, and `current_context` and the registers stay.
* `OthersWait` and `StackInv`: every other context in use waits in `trap_Call68k`
  and lies on its task's stack right above the depth of its trap entry, and
  nothing else is on the stacks. This is what a task switch must not disturb, and
  what brings a function's return back to the context that called it.
* `SavedInv`, `CpuInv`: the same about registers saved by a trap or a task switch.
* `MutexInv`: `trap_mutex` is taken exactly from a request to the end of its
  handler and from `m68k_return_handler` to the end of `trap_Call68k`.

`RecordLocksProofs` proves, for any files, handles, records of any position
and length and any modulus of the timeout counter, `HoldersDisjoint` and
`ReleaseFindsKey`. `LockInv` states disjointness by the tests of `record_hit`
(`ApartInv`), the form in which a step keeps it; that the tests miss no way in
which two ranges can overlap is the lemma `HitsMeansOverlap`. The walks may do to
the list what they like: neither property depends on it, which is why the races
of the two walkers do not break them.

`Native2AmigaProofs` proves, for any number of host threads, any commands that fit
into the pipe, calls and resets, `WholeMessages` and that one sender at
a time writes (`OneWriter`), which is what the theorems about `CommPipe` assume of
the pipe's callers. `NativeInv` looks at the stream of words read by the helper
and not yet performed, followed by those in the pipe: each word continues the
one before it (`ChainInv`), and the next word of the sender that writes continues the
last (`EndInv`), unless a reset has cut a sender off.

`EventsProofs` proves, for any size of `eventtab2`, any devices, delays, periods and
clock steps and calls nested to any depth, `NothingMissed`, `ClockStopsInTime`,
`RunsOnTime` and `PairRunsInOrder`. `EventsInv` has two halves. One is about the
tables: an active entry is ahead of the clock or the pass over `eventtab` is still to
reach it (`EntryInv`); outside a pass the clock stops at every entry (`ClockInv`); a
request is at the cycle it asks for, the one stored before it not being pending
there, or one cycle later (`SlotInv`); unless `MISC_handler` is in progress `ev_misc` is
armed for every request (`MiscArmedInv`). The other half, `FramesInv`, says of every
call on the stack what it may rely on when it goes on after the handlers it
called, which may have changed both tables. The central part is about
`MISC_handler`: no request is due in the entries it has passed, and it knows the
least distance among them or `dorecheck` is set or it has noted it. That there is
one such call, and that a nested one leaves its mark where the outer one reads it
in time, is `OneMiscInv`. `EventsInv` was checked by TLC on the constants of
`MCEvents` before it was proved. `ClockKeepsGoing` proves the action property that
follows from it: only a reset turns the clock back, although `do_cycles_slow` sets it
to `nextevent` without a comparison.

`PipeTypeCorrect`, `UnitTypeCorrect`, `TrapTypeCorrect`, `LockTypeCorrect`,
`NativeTypeCorrect` and `EventsTypeCorrect` are the type invariants. Every invariant
and action property of the runs, and the refinement, is thus a theorem. The
assumptions are those named in the modules (`PipeAssumption`, `UnitAssumption`
and so on), which TLC evaluates in every run.

Only model-checked are the liveness properties, as the prover handles neither
fairness nor ENABLED: `FlushWakesReader`, `FullWriteReturns`, `EmulatorResumes`,
`ResetFinishes`, `CountedIsReplied`, `VsyncReturns`, `EmulatorReturns`,
`CallsArrive` and `EveryCallReturns`. The five findings are counterexamples, not
theorems.

## Not modelled

File operations, save states, custom chips, CPU, memory, input, disk control,
keyboard buffer and front end: sequential code over large data or host
I/O, without a protocol of its own. Most of the repository's lines are
generated CPU cores and tables of that kind. Hardware traps: `hardware_trap_thread`
dereferences the number it is started with, so the mode does not run in this port.
CD and device threads: request loops around host I/O; what they share with
the machine is the pipe and the calls of `Native2Amiga`. Destruction of a pipe.

## Plan

Done: `BlockingPipe`, `CommPipe`, `ExtendedTrap`, `FilesysUnit`, `RecordLocks`,
`Native2Amiga`, `Events`, and proofs of all their safety properties.

Theorems to come:

1. An abstract packet service (sent, performed, replied or lost by a reset) and
   its refinement by `FilesysUnit`.
2. `Native2Amiga` as an implementation of a queue of whole messages, and the
   discharge of `BlockingPipe`'s one-writer assumption in the same module.
3. Action properties of `RecordLocks`: a record leaves a key only by a free or a
   close of it.
4. An abstract trap (called, calling back, returned) refined by `ExtendedTrap`.

Candidate for a module: the CD audio thread of `blkdev_cdimage.c`.
