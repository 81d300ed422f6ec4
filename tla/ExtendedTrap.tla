---------------------------- MODULE ExtendedTrap ----------------------------
(***************************************************************************)
(* Extended traps, src/sources/src/traps.c: 68k code calls a host function *)
(* which may call 68k code in turn.  The host function runs on a thread of *)
(* its own, and the emulator thread and that thread hand the CPU to each   *)
(* other with the two semaphores of the trap's context and trap_mutex.     *)
(*                                                                         *)
(* The 68k side is external: several Amiga tasks, each with its registers  *)
(* and its stack, switched by interrupts whenever regs.intmask lets one    *)
(* through.  A trap of one task may therefore begin, call back, return or  *)
(* end while traps of other tasks are in the middle of a 68k call, and a   *)
(* function called back may itself trap.                                   *)
(***************************************************************************)
EXTENDS Naturals, FiniteSets

CONSTANTS Task,       \* the Amiga's tasks
          Ctx,        \* addresses xcalloc may return for a TrapContext
          NoCtx,      \* the null pointer
          MaxDepth,   \* bound: 68k calls from traps nested on one task's stack
          MaxCalls    \* bound: 68k calls one trap handler makes

ASSUME TrapAssumption == /\ Task # {} /\ NoCtx \notin Ctx
                         /\ MaxDepth \in Nat /\ MaxCalls \in Nat
                         /\ Ctx \cap {"user", "call_trap", "return_trap", "exit_trap"} = {}

VARIABLES
  running,          \* the task whose code the CPU executes
  regs,             \* regs of the emulated CPU
  tregs,            \* registers of the tasks that are not running
  stack,            \* per task, the contexts m68k_call_handler pushed
  emu, emu_ctx,     \* emulator thread: where in traps.c, and for which context
  trap_mutex,
  current_context,
  tpc,              \* per context, where its trap_thread is
  saved_regs, switch_to_emu, switch_to_trap, call68k_func, call68k_retval,
  calls,            \* per context, 68k calls its handler made (for MaxCalls)
  owner             \* history: the task that invoked the trap, a live context's

cpu     == <<running, regs, tregs, stack>>
emulator == <<emu, emu_ctx>>
sems    == <<trap_mutex, switch_to_emu, switch_to_trap>>
context == <<saved_regs, call68k_func, call68k_retval, calls, owner>>
vars == <<cpu, emulator, sems, current_context, tpc, context>>

(* A program counter is in the task's own code, at one of the three trap   *)
(* addresses of init_extended_traps, or in the 68k function that the       *)
(* context of that name calls.  d0 names the function whose result it      *)
(* holds, NoCtx standing for any other value.                              *)
Pc == {"user", "call_trap", "return_trap", "exit_trap"} \cup Ctx
Regs == [pc : Pc, sp : 0 .. MaxDepth, intmask : {0, 7}, d0 : Ctx \cup {NoCtx}]
Reset == [pc |-> "user", sp |-> 0, intmask |-> 0, d0 |-> NoCtx]

EmuPc == {"run", "post_trap", "wait_emu", "call_unlock", "return_locked", "exit_unlock"}
ThreadPc == {"none", "start", "handler", "call_lock", "call_set", "call_post", "call_wait",
             "call_unlock", "exit_lock", "exit_set", "exit_post", "gone"}

TypeOK ==
  /\ running \in Task /\ regs \in Regs /\ tregs \in [Task -> Regs]
  /\ stack \in [Task -> [1 .. MaxDepth -> Ctx \cup {NoCtx}]]
  /\ emu \in EmuPc /\ emu_ctx \in Ctx \cup {NoCtx}
  /\ trap_mutex \in {0, 1} /\ current_context \in Ctx \cup {NoCtx}
  /\ tpc \in [Ctx -> ThreadPc] /\ saved_regs \in [Ctx -> Regs]
  /\ switch_to_emu \in [Ctx -> {0, 1}] /\ switch_to_trap \in [Ctx -> {0, 1}]
  /\ call68k_func \in [Ctx -> Ctx \cup {NoCtx}]
  /\ call68k_retval \in [Ctx -> Ctx \cup {NoCtx}]
  /\ calls \in [Ctx -> 0 .. MaxCalls] /\ owner \in [Ctx -> Task]

Init ==
  /\ running \in Task /\ regs = Reset /\ tregs = [t \in Task |-> Reset]
  /\ stack = [t \in Task |-> [i \in 1 .. MaxDepth |-> NoCtx]]
  /\ emu = "run" /\ emu_ctx = NoCtx
  /\ trap_mutex = 1 /\ current_context = NoCtx
  /\ tpc = [c \in Ctx |-> "none"] /\ saved_regs = [c \in Ctx |-> Reset]
  /\ switch_to_emu = [c \in Ctx |-> 0] /\ switch_to_trap = [c \in Ctx |-> 0]
  /\ call68k_func = [c \in Ctx |-> NoCtx] /\ call68k_retval = [c \in Ctx |-> NoCtx]
  /\ calls = [c \in Ctx |-> 0] /\ owner = [c \in Ctx |-> running]

-----------------------------------------------------------------------------
(* The emulated 68k (external).                                            *)

(* An interrupt lets Exec switch tasks.                                    *)
TaskSwitch(t) ==
  /\ emu = "run" /\ regs.intmask # 7 /\ t # running
  /\ tregs' = [tregs EXCEPT ![running] = regs]
  /\ regs' = tregs[t] /\ running' = t
  /\ UNCHANGED <<stack, emulator, sems, current_context, tpc, context>>

(* The called 68k function ends: its result is in D0 and RTS takes the     *)
(* address of the return trap off the stack.                               *)
FunctionReturns ==
  /\ emu = "run" /\ regs.pc \in Ctx
  /\ regs' = [regs EXCEPT !.pc = "return_trap", !.d0 = regs.pc]
  /\ UNCHANGED <<running, tregs, stack, emulator, sems, current_context, tpc, context>>

-----------------------------------------------------------------------------
(* The emulator thread.                                                    *)

(* trap_HandleExtendedTrap up to the creation of the thread; xcalloc hands *)
(* out cleared memory.                                                     *)
HandleExtendedTrap(c) ==
  /\ emu = "run" /\ regs.pc \in {"user"} \cup Ctx /\ regs.sp < MaxDepth
  /\ tpc[c] = "none" /\ tpc' = [tpc EXCEPT ![c] = "start"]
  /\ saved_regs' = [saved_regs EXCEPT ![c] = regs]
  /\ switch_to_emu' = [switch_to_emu EXCEPT ![c] = 0]
  /\ switch_to_trap' = [switch_to_trap EXCEPT ![c] = 0]
  /\ owner' = [owner EXCEPT ![c] = running]
  /\ emu' = "post_trap" /\ emu_ctx' = c
  /\ UNCHANGED <<cpu, trap_mutex, current_context, call68k_func, call68k_retval, calls>>

(* ... its uae_sem_post of switch_to_trap_sem.                             *)
SwitchToTrap ==
  /\ emu = "post_trap"
  /\ switch_to_trap' = [switch_to_trap EXCEPT ![emu_ctx] = @ + 1]
  /\ emu' = "wait_emu"
  /\ UNCHANGED <<cpu, emu_ctx, trap_mutex, switch_to_emu, current_context, tpc, context>>
(* Fault: the emulator thread does not wait for its turn.                  *)
ResumeEmuEarly ==
  /\ emu = "wait_emu" /\ emu' = "run" /\ emu_ctx' = NoCtx
  /\ UNCHANGED <<cpu, sems, current_context, tpc, context>>

(* The wait for switch_to_emu_sem, in trap_HandleExtendedTrap as well as   *)
(* in m68k_return_handler; the interpreter goes on at regs.pc.             *)
ResumeEmu ==
  /\ emu = "wait_emu" /\ switch_to_emu[emu_ctx] > 0
  /\ switch_to_emu' = [switch_to_emu EXCEPT ![emu_ctx] = @ - 1]
  /\ emu' = "run" /\ emu_ctx' = NoCtx
  /\ UNCHANGED <<cpu, trap_mutex, switch_to_trap, current_context, tpc, context>>
(* Fault: the context is not pushed.                                       *)
CallHandlerUnpushed ==
  /\ emu = "run" /\ regs.pc = "call_trap" /\ current_context # NoCtx
  /\ regs' = [regs EXCEPT !.pc = call68k_func[current_context],
                          !.intmask = saved_regs[current_context].intmask]
  /\ emu' = "call_unlock"
  /\ UNCHANGED <<running, tregs, stack, emu_ctx, sems, current_context, tpc, context>>

(* m68k_call_handler: the context goes on the 68k stack, below it the      *)
(* address of the return trap, and the 68k function is entered.            *)
CallHandler ==
  /\ emu = "run" /\ regs.pc = "call_trap" /\ current_context # NoCtx
  /\ stack' = [stack EXCEPT ![running][regs.sp + 1] = current_context]
  /\ regs' = [regs EXCEPT !.sp = @ + 1, !.pc = call68k_func[current_context],
                          !.intmask = saved_regs[current_context].intmask]
  /\ emu' = "call_unlock"
  /\ UNCHANGED <<running, tregs, emu_ctx, sems, current_context, tpc, context>>

CallHandlerUnlock ==
  /\ emu = "call_unlock"
  /\ trap_mutex' = trap_mutex + 1 /\ emu' = "run"
  /\ UNCHANGED <<cpu, emu_ctx, switch_to_emu, switch_to_trap, current_context, tpc, context>>

(* m68k_return_handler: the context comes from the running task's stack.   *)
(* What lies beyond the stack pointer is lost to the next interrupt.       *)
ReturnHandlerLock ==
  /\ emu = "run" /\ regs.pc = "return_trap" /\ trap_mutex = 1
  /\ trap_mutex' = 0 /\ emu' = "return_locked"
  /\ UNCHANGED <<cpu, emu_ctx, switch_to_emu, switch_to_trap, current_context, tpc, context>>
(* Faults: the context is the current one; the stack is not popped.        *)
ReturnFor(c, pop) ==
  /\ emu = "return_locked"
  /\ regs' = [regs EXCEPT !.sp = @ - pop]
  /\ call68k_retval' = [call68k_retval EXCEPT ![c] = regs.d0]
  /\ switch_to_trap' = [switch_to_trap EXCEPT ![c] = @ + 1]
  /\ emu' = "wait_emu" /\ emu_ctx' = c
  /\ UNCHANGED <<running, tregs, stack, trap_mutex, switch_to_emu, current_context, tpc,
                 saved_regs, call68k_func, calls, owner>>

ReturnToCurrent == ReturnFor(current_context, 1)
ReturnUnpopped == ReturnFor(stack[running][regs.sp], 0)

ReturnHandler ==
  LET c == stack[running][regs.sp] IN
  /\ emu = "return_locked"
  /\ regs' = [regs EXCEPT !.sp = @ - 1]
  /\ stack' = [stack EXCEPT ![running][regs.sp] = NoCtx]
  /\ call68k_retval' = [call68k_retval EXCEPT ![c] = regs.d0]
  /\ switch_to_trap' = [switch_to_trap EXCEPT ![c] = @ + 1]
  /\ emu' = "wait_emu" /\ emu_ctx' = c
  /\ UNCHANGED <<running, tregs, trap_mutex, switch_to_emu, current_context, tpc,
                 saved_regs, call68k_func, calls, owner>>

(* exit_trap_handler: uae_wait_thread, the registers of trap entry with    *)
(* the handler's result in D0, the context freed, the mutex released.      *)
ExitHandler ==
  LET c == current_context IN
  /\ emu = "run" /\ regs.pc = "exit_trap" /\ c # NoCtx /\ tpc[c] = "gone"
  /\ regs' = [saved_regs[c] EXCEPT !.d0 = NoCtx]
  /\ tpc' = [tpc EXCEPT ![c] = "none"]
  /\ saved_regs' = [saved_regs EXCEPT ![c] = Reset]
  /\ call68k_func' = [call68k_func EXCEPT ![c] = NoCtx]
  /\ call68k_retval' = [call68k_retval EXCEPT ![c] = NoCtx]
  /\ calls' = [calls EXCEPT ![c] = 0]
  /\ emu' = "exit_unlock"
  /\ UNCHANGED <<running, tregs, stack, emu_ctx, sems, current_context, owner>>

ExitHandlerUnlock ==
  /\ emu = "exit_unlock"
  /\ trap_mutex' = trap_mutex + 1 /\ emu' = "run"
  /\ UNCHANGED <<cpu, emu_ctx, switch_to_emu, switch_to_trap, current_context, tpc, context>>

-----------------------------------------------------------------------------
(* trap_thread and trap_Call68k, for the thread of context c.              *)
Goto(c, from, to) == tpc[c] = from /\ tpc' = [tpc EXCEPT ![c] = to]

ThreadStart(c) ==
  /\ Goto(c, "start", "handler") /\ switch_to_trap[c] > 0
  /\ switch_to_trap' = [switch_to_trap EXCEPT ![c] = @ - 1]
  /\ UNCHANGED <<cpu, emulator, trap_mutex, switch_to_emu, current_context, context>>

(* The handler calls trap_Call68k, or is done.                             *)
HandlerCalls(c) ==
  /\ Goto(c, "handler", "call_lock") /\ calls[c] < MaxCalls
  /\ calls' = [calls EXCEPT ![c] = @ + 1]
  /\ UNCHANGED <<cpu, emulator, sems, current_context, saved_regs, call68k_func,
                 call68k_retval, owner>>

HandlerDone(c) ==
  /\ Goto(c, "handler", "exit_lock")
  /\ UNCHANGED <<cpu, emulator, sems, current_context, context>>
(* Fault: the mutex is not taken.                                          *)
ThreadLockSkipped(c) ==
  /\ Goto(c, "call_lock", "call_set") \/ Goto(c, "exit_lock", "exit_set")
  /\ UNCHANGED <<cpu, emulator, sems, current_context, context>>

ThreadLock(c) ==
  /\ Goto(c, "call_lock", "call_set") \/ Goto(c, "exit_lock", "exit_set")
  /\ trap_mutex = 1 /\ trap_mutex' = 0
  /\ UNCHANGED <<cpu, emulator, switch_to_emu, switch_to_trap, current_context, context>>
(* Faults: interrupts stay enabled; current_context is not set.            *)
CallSetTo(c, current, mask) ==
  /\ Goto(c, "call_set", "call_post")
  /\ current_context' = current
  /\ regs' = [regs EXCEPT !.intmask = mask, !.pc = "call_trap"]
  /\ call68k_func' = [call68k_func EXCEPT ![c] = c]
  /\ UNCHANGED <<running, tregs, stack, emulator, sems, saved_regs, call68k_retval, calls, owner>>

CallSetInterruptible(c) == CallSetTo(c, c, regs.intmask)
CallSetStale(c) == CallSetTo(c, current_context, 7)

(* trap_Call68k inside the mutex: no interrupt may come in before          *)
(* m68k_call_handler has run.                                              *)
CallSet(c) ==
  /\ Goto(c, "call_set", "call_post")
  /\ current_context' = c
  /\ regs' = [regs EXCEPT !.intmask = 7, !.pc = "call_trap"]
  /\ call68k_func' = [call68k_func EXCEPT ![c] = c]
  /\ UNCHANGED <<running, tregs, stack, emulator, sems, saved_regs, call68k_retval, calls, owner>>

(* trap_thread inside the mutex: copyfromcpucontext, and no interrupt may  *)
(* come in before exit_trap_handler has run.                               *)
ExitSet(c) ==
  /\ Goto(c, "exit_set", "exit_post")
  /\ current_context' = c
  /\ regs' = [saved_regs[c] EXCEPT !.intmask = 7, !.pc = "exit_trap"]
  /\ UNCHANGED <<running, tregs, stack, emulator, sems, context>>
(* Fault: the emulator thread is not posted.                               *)
SwitchForgotten(c) ==
  /\ Goto(c, "call_post", "call_wait") \/ Goto(c, "exit_post", "gone")
  /\ UNCHANGED <<cpu, emulator, sems, current_context, context>>

SwitchToEmu(c) ==
  /\ Goto(c, "call_post", "call_wait") \/ Goto(c, "exit_post", "gone")
  /\ switch_to_emu' = [switch_to_emu EXCEPT ![c] = @ + 1]
  /\ UNCHANGED <<cpu, emulator, trap_mutex, switch_to_trap, current_context, context>>

CallWait(c) ==
  /\ Goto(c, "call_wait", "call_unlock") /\ switch_to_trap[c] > 0
  /\ switch_to_trap' = [switch_to_trap EXCEPT ![c] = @ - 1]
  /\ UNCHANGED <<cpu, emulator, trap_mutex, switch_to_emu, current_context, context>>

CallUnlock(c) ==
  /\ Goto(c, "call_unlock", "handler")
  /\ trap_mutex' = trap_mutex + 1
  /\ UNCHANGED <<cpu, emulator, switch_to_emu, switch_to_trap, current_context, context>>

-----------------------------------------------------------------------------
Amiga == FunctionReturns \/ \E t \in Task : TaskSwitch(t)

Emulator ==
  \/ \E c \in Ctx : HandleExtendedTrap(c)
  \/ SwitchToTrap \/ ResumeEmu \/ CallHandler \/ CallHandlerUnlock
  \/ ReturnHandlerLock \/ ReturnHandler \/ ExitHandler \/ ExitHandlerUnlock

TrapThread(c) ==
  \/ ThreadStart(c) \/ HandlerCalls(c) \/ HandlerDone(c) \/ ThreadLock(c) \/ CallSet(c)
  \/ ExitSet(c) \/ SwitchToEmu(c) \/ CallWait(c) \/ CallUnlock(c)

Next == Amiga \/ Emulator \/ \E c \in Ctx : TrapThread(c)

Spec == Init /\ [][Next]_vars

(* Host threads keep running; what the 68k does next is its own choice.    *)
FairSpec == /\ Spec
            /\ WF_vars(SwitchToTrap) /\ WF_vars(ResumeEmu)
            /\ \A c \in Ctx : WF_vars(TrapThread(c))

-----------------------------------------------------------------------------
(* A trap thread is between the emulator's switch to it and its switch     *)
(* back.                                                                   *)
Active(c) == tpc[c] \in {"handler", "call_lock", "call_set", "call_post", "call_unlock",
                         "exit_lock", "exit_set", "exit_post"}

(* A trap thread runs, and so touches the registers of the CPU, only while *)
(* the emulator thread is parked on that very context: the two never race  *)
(* on regs although neither takes a lock around the interpreter.           *)
ThreadsTakeTurns ==
  \A c \in Ctx : Active(c) => emu = "wait_emu" /\ emu_ctx = c /\ switch_to_emu[c] = 0

(* m68k_call_handler and exit_trap_handler find their context through the  *)
(* global current_context.  It is the one whose thread asked for them, and *)
(* that context belongs to the task that runs: no interrupt got in between.*)
HandlersFindTheirContext ==
  /\ emu = "run" /\ regs.pc = "call_trap"
        => /\ current_context # NoCtx /\ tpc[current_context] = "call_wait"
           /\ owner[current_context] = running /\ trap_mutex = 0
  /\ emu = "run" /\ regs.pc = "exit_trap"
        => /\ current_context # NoCtx /\ tpc[current_context] = "gone"
           /\ owner[current_context] = running /\ trap_mutex = 0

(* m68k_return_handler finds its context on the running task's stack: a    *)
(* live context of this task, waiting for this call, and the result it is  *)
(* handed is that of the function it called.                               *)
ReturnFindsItsContext ==
  emu \in {"run", "return_locked"} /\ regs.pc = "return_trap"
     => /\ regs.sp > 0
        /\ LET c == stack[running][regs.sp]
           IN  /\ c # NoCtx /\ tpc[c] = "call_wait" /\ switch_to_trap[c] = 0
               /\ owner[c] = running /\ regs.d0 = c

(* A handler gets back the result of the 68k function it called.           *)
CallReturnsItsResult == \A c \in Ctx : tpc[c] = "call_unlock" => call68k_retval[c] = c

(* When a trap ends, the calls it made have left its task's stack where it *)
(* was at trap entry.                                                      *)
StackBalanced == \A c \in Ctx : tpc[c] = "exit_set" => regs.sp = saved_regs[c].sp

(* trap_mutex is never waited for: "this implementation errs on the side   *)
(* of paranoia when it comes to thread synchronization".                   *)
MutexUncontended ==
  /\ \A c \in Ctx : tpc[c] \in {"call_lock", "exit_lock"} => trap_mutex = 1
  /\ emu = "run" /\ regs.pc = "return_trap" => trap_mutex = 1

(* The emulator thread never hangs in a trap: once parked, it runs again.  *)
EmulatorResumes == (emu = "wait_emu") ~> (emu = "run")
=============================================================================
