------------------------- MODULE ExtendedTrapProofs -------------------------
(***************************************************************************)
(* Proofs about ExtendedTrap, for any tasks, contexts, nesting depth and   *)
(* number of calls.  One token goes round between the emulator thread and  *)
(* the trap threads: TrapInv says at every point which context has it, and *)
(* that all the other live contexts are on the stacks of their tasks.      *)
(***************************************************************************)
EXTENDS ExtendedTrap, TLAPS

(* The context the token is with: the one the emulator thread is parked on *)
(* or, on its way to m68k_call_handler or exit_trap_handler, the current   *)
(* one.  No context has it while the 68k goes its own way.                 *)
Turn ==
  IF emu \in {"post_trap", "wait_emu"} THEN emu_ctx
  ELSE IF emu = "run" /\ regs.pc \in {"call_trap", "exit_trap"} THEN current_context
  ELSE NoCtx

SemsAre(c, trap, e) == switch_to_trap[c] = trap /\ switch_to_emu[c] = e

(* The context that has the token belongs to the running task, whose stack *)
(* is as it was at trap entry; at each point the semaphores are as they    *)
(* are when the other side has not caught up yet.                          *)
TurnInv ==
  /\ Turn # NoCtx => owner[Turn] = running /\ saved_regs[Turn].sp = regs.sp
  /\ emu = "post_trap" => emu_ctx \in Ctx /\ tpc[emu_ctx] = "start" /\ SemsAre(emu_ctx, 0, 0)
  /\ emu = "wait_emu" =>
       /\ emu_ctx \in Ctx
       /\ \/ tpc[emu_ctx] = "start" /\ SemsAre(emu_ctx, 1, 0)
          \/ Active(emu_ctx) /\ SemsAre(emu_ctx, 0, 0)
          \/ tpc[emu_ctx] = "call_wait" /\ SemsAre(emu_ctx, 1, 0)
          \/ tpc[emu_ctx] \in {"call_wait", "gone"} /\ SemsAre(emu_ctx, 0, 1)
  /\ emu = "run" /\ regs.pc \in {"call_trap", "exit_trap"} =>
       /\ current_context \in Ctx /\ SemsAre(current_context, 0, 0)
       /\ tpc[current_context] = IF regs.pc = "call_trap" THEN "call_wait" ELSE "gone"

(* From the moment a thread asks for a handler of the emulator thread to   *)
(* the moment that handler runs, registers and current_context stay.       *)
Requested(c) ==
  \/ emu = "wait_emu" /\ tpc[c] \in {"call_post", "exit_post", "gone"}
  \/ emu = "wait_emu" /\ tpc[c] = "call_wait" /\ switch_to_emu[c] = 1
  \/ emu = "run" /\ regs.pc \in {"call_trap", "exit_trap"}

RequestInv ==
  \A c \in Ctx : c = Turn =>
    /\ Requested(c) =>
         /\ current_context = c /\ regs.intmask = 7
         /\ regs.pc = IF tpc[c] \in {"call_post", "call_wait"} THEN "call_trap" ELSE "exit_trap"
         /\ tpc[c] \in {"call_post", "call_wait"} => call68k_func[c] = c
    /\ emu = "wait_emu" /\ tpc[c] = "call_wait" /\ switch_to_trap[c] = 1 => call68k_retval[c] = c
    /\ tpc[c] = "call_unlock" => call68k_retval[c] = c

(* A context without the token is free, or waits in trap_Call68k and is on *)
(* its task's stack just above what was there at trap entry.               *)
sp(t) == IF t = running THEN regs.sp ELSE tregs[t].sp

OthersWait ==
  \A c \in Ctx : c # Turn /\ tpc[c] # "none" =>
    /\ tpc[c] = "call_wait" /\ SemsAre(c, 0, 0)
    /\ saved_regs[c].sp + 1 =< sp(owner[c])
    /\ stack[owner[c]][saved_regs[c].sp + 1] = c

(* ... and there is nothing else on the stacks.                            *)
StackInv ==
  \A t \in Task : \A i \in 1 .. sp(t) :
    /\ stack[t][i] \in Ctx /\ stack[t][i] # Turn
    /\ tpc[stack[t][i]] = "call_wait"
    /\ owner[stack[t][i]] = t /\ saved_regs[stack[t][i]].sp = i - 1

(* Registers r of task t: in a called function or on the way back from it, *)
(* the context that called it is on top of the stack.                      *)
TopInv(r, t) ==
  /\ r.pc \in Ctx => r.sp > 0 /\ stack[t][r.sp] = r.pc
  /\ r.pc = "return_trap" => r.sp > 0 /\ stack[t][r.sp] = r.d0

SavedInv ==
  \A c \in Ctx : tpc[c] # "none" =>
    /\ saved_regs[c].sp < MaxDepth /\ saved_regs[c].pc \in {"user"} \cup Ctx
    /\ TopInv(saved_regs[c], owner[c])

CpuInv ==
  /\ emu # "wait_emu" => TopInv(regs, running)
  /\ \A t \in Task \ {running} :
       TopInv(tregs[t], t) /\ tregs[t].pc \notin {"call_trap", "exit_trap"}
  /\ emu \in {"call_unlock", "exit_unlock"} => regs.pc \in {"user"} \cup Ctx
  /\ emu = "return_locked" => regs.pc = "return_trap"

(* The mutex is taken exactly from a request to the end of its handler,    *)
(* and from m68k_return_handler to the end of trap_Call68k.                *)
MutexHeld ==
  \/ emu = "run" /\ regs.pc \in {"call_trap", "exit_trap"}
  \/ emu \in {"call_unlock", "return_locked", "exit_unlock"}
  \/ emu = "wait_emu" /\ tpc[emu_ctx] \in {"call_set", "call_post", "call_wait", "call_unlock",
                                           "exit_set", "exit_post", "gone"}

MutexInv == \/ trap_mutex = 0 /\ MutexHeld
            \/ trap_mutex = 1 /\ ~MutexHeld

TrapInv ==
  /\ TypeOK /\ TurnInv /\ RequestInv /\ OthersWait /\ StackInv /\ SavedInv /\ CpuInv /\ MutexInv

-----------------------------------------------------------------------------
(* A thread that can take a step has the token, and the emulator thread is *)
(* parked on its context: the thread's code runs, or it has been posted.   *)
HasToken(c, trap) ==
  /\ emu = "wait_emu" /\ emu_ctx = c /\ Turn = c /\ c # NoCtx
  /\ owner[c] = running /\ saved_regs[c].sp = regs.sp
  /\ switch_to_trap[c] = trap /\ switch_to_emu[c] = 0

(* A thread that runs code of its handler, or of trap_Call68k before its   *)
(* post and after its wait.                                                *)
LEMMA ActiveHasToken == ASSUME TrapInv, NEW c \in Ctx, Active(c) PROVE HasToken(c, 0)
<1>1. c # NoCtx
  BY TrapAssumption
<1>2. c = Turn
  BY DEF TrapInv, OthersWait, Active
<1>3. emu = "wait_emu" /\ emu_ctx = c
  BY <1>1, <1>2 DEF TrapInv, TurnInv, Turn, Active
<1>. QED BY <1>1, <1>2, <1>3 DEF TrapInv, TurnInv, SemsAre, Active, HasToken

(* A thread that has been posted and has not noticed it yet.               *)
LEMMA PostedHasToken ==
  ASSUME TrapInv, NEW c \in Ctx, tpc[c] \in {"start", "call_wait"}, switch_to_trap[c] > 0
  PROVE  HasToken(c, 1)
<1>1. c # NoCtx
  BY TrapAssumption
<1>2. c = Turn
  BY DEF TrapInv, OthersWait, SemsAre
<1>3. emu = "wait_emu" /\ emu_ctx = c
  BY <1>1, <1>2 DEF TrapInv, TurnInv, Turn, SemsAre
<1>. QED BY <1>1, <1>2, <1>3 DEF TrapInv, TurnInv, SemsAre, Active, HasToken

(* The called function returns: the context that called it is on top of    *)
(* the stack, so it is what D0 brings to the return trap.                  *)
LEMMA FunctionReturnsKeeps ==
  ASSUME TrapInv, FunctionReturns
  PROVE  TrapInv'
<1>. USE TrapAssumption DEF FunctionReturns, cpu, emulator, sems, context
<1>0. TypeOK BY DEF TrapInv
<1>1. Turn = NoCtx /\ Turn' = NoCtx
  BY DEF Turn
<1>2. TypeOK'
  <2>1. regs' \in Regs
    BY <1>0, <1>1 DEF TypeOK, Regs, Pc
  <2>. QED BY <1>0, <2>1 DEF TypeOK
<1>3. TurnInv'
  BY <1>1 DEF TurnInv
<1>4. RequestInv'
  BY <1>1 DEF RequestInv
<1>5. OthersWait'
  BY <1>1 DEF TrapInv, OthersWait, SemsAre, sp
<1>6. StackInv'
  BY <1>1 DEF TrapInv, StackInv, sp, OthersWait
<1>7. SavedInv'
  BY DEF TrapInv, SavedInv, TopInv
<1>8. CpuInv'
  BY DEF TrapInv, CpuInv, TopInv
<1>9. MutexInv'
  BY DEF TrapInv, MutexInv, MutexHeld
<1>. QED BY <1>2, <1>3, <1>4, <1>5, <1>6, <1>7, <1>8, <1>9 DEF TrapInv

(* Exec switches tasks only when interrupts are enabled, which they are    *)
(* not while a context has the token.                                      *)
LEMMA TaskSwitchKeeps ==
  ASSUME TrapInv, NEW t \in Task, TaskSwitch(t)
  PROVE  TrapInv'
<1>. USE TrapAssumption DEF TaskSwitch, cpu, emulator, sems, context
<1>0. TypeOK BY DEF TrapInv
<1>1. Turn = NoCtx /\ Turn' = NoCtx
  BY DEF TrapInv, Turn, CpuInv, TurnInv, RequestInv, Requested
<1>2. TypeOK'
  BY DEF TrapInv, TypeOK
<1>3. TurnInv'
  BY <1>1 DEF TrapInv, TurnInv, CpuInv
<1>4. RequestInv'
  BY <1>1 DEF RequestInv
<1>5. OthersWait'
  BY <1>1 DEF TrapInv, TypeOK, OthersWait, SemsAre, sp
<1>6. StackInv'
  BY <1>1 DEF TrapInv, TypeOK, StackInv, sp
<1>7. SavedInv'
  BY DEF TrapInv, SavedInv, TopInv
<1>8. CpuInv'
  <2>1. TopInv(regs, running)' /\ regs.pc \notin {"call_trap", "exit_trap"}
    BY <1>1 DEF TrapInv, CpuInv, TopInv, TurnInv, Turn
  <2>2. ASSUME NEW u \in Task \ {t}
        PROVE  TopInv(tregs[u], u)' /\ tregs'[u].pc \notin {"call_trap", "exit_trap"}
    BY <2>1 DEF TrapInv, TypeOK, CpuInv, TopInv
  <2>. QED BY <2>1, <2>2 DEF CpuInv
<1>9. MutexInv'
  BY <1>1 DEF TrapInv, MutexInv, MutexHeld, TurnInv, Turn, CpuInv
<1>. QED BY <1>2, <1>3, <1>4, <1>5, <1>6, <1>7, <1>8, <1>9 DEF TrapInv

(* The new context gets the token; its task's stack is as it is now.       *)
LEMMA HandleExtendedTrapKeeps ==
  ASSUME TrapInv, NEW c \in Ctx, HandleExtendedTrap(c)
  PROVE  TrapInv'
<1>. USE TrapAssumption DEF HandleExtendedTrap, cpu, emulator, sems, context
<1>0. TypeOK BY DEF TrapInv
<1>1. Turn = NoCtx /\ Turn' = c
  BY DEF Turn
<1>2. TypeOK'
  BY DEF TrapInv, TypeOK, EmuPc, ThreadPc
<1>3. TurnInv'
  BY <1>1 DEF TrapInv, TypeOK, TurnInv, SemsAre
<1>4. RequestInv'
  BY <1>1 DEF RequestInv, Requested
<1>5. OthersWait'
  BY <1>1 DEF TrapInv, OthersWait, SemsAre, sp
<1>6. StackInv'
  BY <1>1 DEF TrapInv, StackInv, sp, OthersWait
<1>7. SavedInv'
  <2>. SUFFICES ASSUME NEW d \in Ctx, tpc'[d] # "none"
                PROVE  /\ saved_regs'[d].sp < MaxDepth /\ saved_regs'[d].pc \in {"user"} \cup Ctx
                       /\ TopInv(saved_regs[d], owner[d])'
    BY DEF SavedInv
  <2>1. CASE d = c
    BY <2>1 DEF TrapInv, TypeOK, CpuInv, TopInv
  <2>2. CASE d # c
    BY <2>2 DEF TrapInv, SavedInv, TopInv
  <2>. QED BY <2>1, <2>2
<1>8. CpuInv'
  BY DEF TrapInv, CpuInv, TopInv
<1>9. MutexInv'
  BY DEF TrapInv, MutexInv, MutexHeld
<1>. QED BY <1>2, <1>3, <1>4, <1>5, <1>6, <1>7, <1>8, <1>9 DEF TrapInv

(* The token stays with the context the emulator thread was to post.       *)
LEMMA SwitchToTrapKeeps ==
  ASSUME TrapInv, SwitchToTrap
  PROVE  TrapInv'
<1>. USE TrapAssumption DEF SwitchToTrap, cpu, emulator, sems, context
<1>0. TypeOK BY DEF TrapInv
<1>1. Turn = emu_ctx /\ Turn' = emu_ctx /\ emu_ctx \in Ctx /\ SemsAre(emu_ctx, 0, 0)
      /\ owner[emu_ctx] = running /\ saved_regs[emu_ctx].sp = regs.sp /\ tpc[emu_ctx] = "start"
  BY DEF TrapInv, TurnInv, Turn
<1>2. TypeOK'
  BY <1>1 DEF TrapInv, TypeOK, EmuPc, SemsAre
<1>3. TurnInv'
  BY <1>1 DEF TrapInv, TypeOK, TurnInv, SemsAre
<1>4. RequestInv'
  BY <1>1 DEF RequestInv, Requested
<1>5. OthersWait'
  BY <1>1 DEF TrapInv, OthersWait, SemsAre, sp
<1>6. StackInv'
  BY <1>1 DEF TrapInv, StackInv, sp
<1>7. SavedInv'
  BY DEF TrapInv, SavedInv, TopInv
<1>8. CpuInv'
  BY DEF TrapInv, CpuInv, TopInv
<1>9. MutexInv'
  BY <1>1 DEF TrapInv, MutexInv, MutexHeld
<1>. QED BY <1>2, <1>3, <1>4, <1>5, <1>6, <1>7, <1>8, <1>9 DEF TrapInv

(* The context that posted is the current one, and registers are as it has *)
(* left them.                                                              *)
LEMMA ResumeEmuKeeps ==
  ASSUME TrapInv, ResumeEmu
  PROVE  TrapInv'
<1>. USE TrapAssumption DEF ResumeEmu, cpu, emulator, sems, context
<1>0. TypeOK BY DEF TrapInv
<1>1. Turn = emu_ctx /\ Turn' = emu_ctx /\ emu_ctx \in Ctx /\ current_context = emu_ctx
      /\ owner[emu_ctx] = running /\ saved_regs[emu_ctx].sp = regs.sp /\ SemsAre(emu_ctx, 0, 1)
      /\ regs.intmask = 7 /\ tpc[emu_ctx] \in {"call_wait", "gone"}
      /\ regs.pc = IF tpc[emu_ctx] = "call_wait" THEN "call_trap" ELSE "exit_trap"
  BY DEF TrapInv, TurnInv, Turn, RequestInv, Requested, SemsAre
<1>2. TypeOK'
  <2>1. switch_to_emu' \in [Ctx -> {0, 1}]
    BY <1>0, <1>1 DEF TypeOK
  <2>. QED BY <1>0, <2>1 DEF TypeOK, EmuPc
<1>3. TurnInv'
  BY <1>1 DEF TrapInv, TypeOK, TurnInv, SemsAre
<1>4. RequestInv'
  BY <1>1 DEF TrapInv, TypeOK, RequestInv, Requested
<1>5. OthersWait'
  BY <1>1 DEF TrapInv, OthersWait, SemsAre, sp
<1>6. StackInv'
  BY <1>1 DEF TrapInv, StackInv, sp
<1>7. SavedInv'
  BY DEF TrapInv, SavedInv, TopInv
<1>8. CpuInv'
  BY <1>1 DEF TrapInv, CpuInv, TopInv
<1>9. MutexInv'
  BY <1>1 DEF TrapInv, MutexInv, MutexHeld
<1>. QED BY <1>2, <1>3, <1>4, <1>5, <1>6, <1>7, <1>8, <1>9 DEF TrapInv

(* The context is pushed and gives the token up: from here on it waits     *)
(* like the others.                                                        *)
LEMMA CallHandlerKeeps ==
  ASSUME TrapInv, CallHandler
  PROVE  TrapInv'
<1>. USE TrapAssumption DEF CallHandler, cpu, emulator, sems, context
<1>0. TypeOK BY DEF TrapInv
<1>1. Turn = current_context /\ Turn' = NoCtx /\ current_context \in Ctx
      /\ owner[current_context] = running /\ saved_regs[current_context].sp = regs.sp
      /\ SemsAre(current_context, 0, 0) /\ tpc[current_context] = "call_wait"
      /\ call68k_func[current_context] = current_context /\ regs.sp < MaxDepth
  BY DEF TrapInv, TurnInv, Turn, RequestInv, Requested, SavedInv
<1>2. TypeOK'
  <2>1. regs.sp + 1 \in 0 .. MaxDepth
    BY <1>0, <1>1 DEF TypeOK, Regs
  <2>2. regs' \in Regs
    BY <1>0, <1>1, <2>1 DEF TypeOK, Regs, Pc
  <2>3. stack' \in [Task -> [1 .. MaxDepth -> Ctx \cup {NoCtx}]]
    BY <1>0, <1>1 DEF TypeOK, Regs
  <2>. QED BY <1>0, <2>2, <2>3 DEF TypeOK, EmuPc
<1>3. TurnInv'
  BY <1>1 DEF TurnInv
<1>4. RequestInv'
  BY <1>1 DEF RequestInv
<1>5. OthersWait'
  BY <1>1 DEF TrapInv, TypeOK, Regs, OthersWait, SemsAre, sp
<1>6. StackInv'
  BY <1>1 DEF TrapInv, TypeOK, Regs, Pc, StackInv, sp, OthersWait
<1>7. SavedInv'
  <2>. SUFFICES ASSUME NEW d \in Ctx, tpc[d] # "none"
                PROVE  TopInv(saved_regs[d], owner[d])'
    BY DEF TrapInv, SavedInv
  <2>1. TopInv(saved_regs[d], owner[d])
    BY DEF TrapInv, SavedInv
  <2>2. owner[d] = running => saved_regs[d].sp # regs.sp + 1
    <3>1. CASE d = current_context
      BY <3>1, <1>0, <1>1 DEF TypeOK, Regs
    <3>2. CASE d # current_context
      BY <3>2, <1>1 DEF TrapInv, TypeOK, Regs, OthersWait, sp
    <3>. QED BY <3>1, <3>2
  <2>. QED BY <2>1, <2>2 DEF TopInv
<1>8. CpuInv'
  BY <1>1 DEF TrapInv, TypeOK, Regs, CpuInv, TopInv
<1>9. MutexInv'
  BY DEF TrapInv, MutexInv, MutexHeld
<1>. QED BY <1>2, <1>3, <1>4, <1>5, <1>6, <1>7, <1>8, <1>9 DEF TrapInv

(* The mutex is released after the call.                                   *)
LEMMA CallHandlerUnlockKeeps ==
  ASSUME TrapInv, CallHandlerUnlock
  PROVE  TrapInv'
<1>. USE TrapAssumption DEF CallHandlerUnlock, cpu, emulator, sems, context
<1>0. TypeOK BY DEF TrapInv
<1>1. Turn = NoCtx /\ Turn' = NoCtx
  BY DEF TrapInv, CpuInv, Turn
<1>2. TypeOK'
  <2>1. trap_mutex' \in {0, 1}
    BY DEF TrapInv, MutexInv, MutexHeld
  <2>. QED BY <1>0, <2>1 DEF TypeOK, EmuPc
<1>3. TurnInv'
  BY <1>1 DEF TrapInv, TurnInv, CpuInv
<1>4. RequestInv'
  BY <1>1 DEF RequestInv
<1>5. OthersWait'
  BY <1>1 DEF TrapInv, OthersWait, SemsAre, sp
<1>6. StackInv'
  BY <1>1 DEF TrapInv, StackInv, sp
<1>7. SavedInv'
  BY DEF TrapInv, SavedInv, TopInv
<1>8. CpuInv'
  BY DEF TrapInv, CpuInv, TopInv
<1>9. MutexInv'
  BY DEF TrapInv, MutexInv, MutexHeld, CpuInv
<1>. QED BY <1>2, <1>3, <1>4, <1>5, <1>6, <1>7, <1>8, <1>9 DEF TrapInv

(* m68k_return_handler takes the mutex before anything else.               *)
LEMMA ReturnHandlerLockKeeps ==
  ASSUME TrapInv, ReturnHandlerLock
  PROVE  TrapInv'
<1>. USE TrapAssumption DEF ReturnHandlerLock, cpu, emulator, sems, context
<1>0. TypeOK BY DEF TrapInv
<1>1. Turn = NoCtx /\ Turn' = NoCtx
  BY DEF Turn
<1>2. TypeOK'
  BY DEF TrapInv, TypeOK, EmuPc
<1>3. TurnInv'
  BY <1>1 DEF TurnInv
<1>4. RequestInv'
  BY <1>1 DEF RequestInv
<1>5. OthersWait'
  BY <1>1 DEF TrapInv, OthersWait, SemsAre, sp
<1>6. StackInv'
  BY <1>1 DEF TrapInv, StackInv, sp
<1>7. SavedInv'
  BY DEF TrapInv, SavedInv, TopInv
<1>8. CpuInv'
  BY DEF TrapInv, CpuInv, TopInv
<1>9. MutexInv'
  BY DEF MutexInv, MutexHeld
<1>. QED BY <1>2, <1>3, <1>4, <1>5, <1>6, <1>7, <1>8, <1>9 DEF TrapInv

(* The context on top of the running task's stack is the one that called;  *)
(* it gets the token back.                                                 *)
LEMMA ReturnHandlerKeeps ==
  ASSUME TrapInv, ReturnHandler
  PROVE  TrapInv'
<1>. USE TrapAssumption DEF ReturnHandler, cpu, emulator, sems, context
<1>0. TypeOK BY DEF TrapInv
<1>. DEFINE c == stack[running][regs.sp]
<1>1. Turn = NoCtx /\ Turn' = c /\ c \in Ctx /\ regs.sp \in 1 .. MaxDepth /\ regs.d0 = c
      /\ owner[c] = running /\ saved_regs[c].sp = regs.sp - 1 /\ tpc[c] = "call_wait"
      /\ SemsAre(c, 0, 0)
  BY DEF TrapInv, TypeOK, Regs, CpuInv, TopInv, StackInv, sp, Turn, OthersWait
<1>2. TypeOK'
  <2>1. regs' \in Regs
    BY <1>0, <1>1 DEF TypeOK, Regs, Pc
  <2>2. stack' \in [Task -> [1 .. MaxDepth -> Ctx \cup {NoCtx}]]
    BY <1>0, <1>1 DEF TypeOK
  <2>3. switch_to_trap' \in [Ctx -> {0, 1}]
    BY <1>0, <1>1 DEF TypeOK, SemsAre
  <2>4. call68k_retval' \in [Ctx -> Ctx \cup {NoCtx}]
    BY <1>0, <1>1 DEF TypeOK
  <2>. QED BY <1>0, <1>1, <2>1, <2>3 DEF TypeOK, EmuPc
<1>3. TurnInv'
  BY <1>1 DEF TrapInv, TypeOK, TurnInv, SemsAre
<1>4. RequestInv'
  BY <1>1 DEF TrapInv, TypeOK, RequestInv, Requested, SemsAre
<1>5. OthersWait'
  BY <1>1 DEF TrapInv, TypeOK, Regs, OthersWait, SemsAre, sp
<1>6. StackInv'
  BY <1>1 DEF TrapInv, StackInv, sp
<1>7. SavedInv'
  <2>. SUFFICES ASSUME NEW d \in Ctx, tpc[d] # "none"
                PROVE  TopInv(saved_regs[d], owner[d])'
    BY DEF TrapInv, SavedInv
  <2>1. TopInv(saved_regs[d], owner[d])
    BY DEF TrapInv, SavedInv
  <2>2. owner[d] = running => saved_regs[d].sp # regs.sp
    <3>1. d # NoCtx
      OBVIOUS
    <3>2. owner[d] = running => saved_regs[d].sp + 1 =< regs.sp
      BY <1>1 DEF TrapInv, OthersWait, sp
    <3>. QED BY <3>2, <1>0 DEF TypeOK, Regs
  <2>. QED BY <2>1, <2>2 DEF TopInv
<1>8. CpuInv'
  BY DEF TrapInv, CpuInv, TopInv
<1>9. MutexInv'
  BY <1>1 DEF TrapInv, MutexInv, MutexHeld
<1>. QED BY <1>2, <1>3, <1>4, <1>5, <1>6, <1>7, <1>8, <1>9 DEF TrapInv

(* The context ends, and with it the token; the registers of trap entry    *)
(* are back.                                                               *)
LEMMA ExitHandlerKeeps ==
  ASSUME TrapInv, ExitHandler
  PROVE  TrapInv'
<1>. USE TrapAssumption DEF ExitHandler, cpu, emulator, sems, context
<1>0. TypeOK BY DEF TrapInv
<1>. DEFINE c == current_context
<1>1. Turn = c /\ Turn' = NoCtx /\ c \in Ctx /\ owner[c] = running /\ saved_regs[c].sp = regs.sp
  BY DEF TrapInv, TurnInv, Turn
<1>2. TypeOK'
  <2>1. regs' \in Regs
    BY <1>0, <1>1 DEF TypeOK, Regs, Pc
  <2>2. tpc' \in [Ctx -> ThreadPc]
    BY <1>0 DEF TypeOK, ThreadPc
  <2>3. saved_regs' \in [Ctx -> Regs]
    BY <1>0 DEF TypeOK, Regs, Reset, Pc
  <2>. QED BY <1>0, <2>1, <2>2, <2>3 DEF TypeOK, EmuPc
<1>3. TurnInv'
  BY <1>1 DEF TurnInv
<1>4. RequestInv'
  BY <1>1 DEF RequestInv
<1>5. OthersWait'
  BY <1>1 DEF TrapInv, TypeOK, OthersWait, SemsAre, sp
<1>6. StackInv'
  BY <1>1 DEF TrapInv, StackInv, sp
<1>7. SavedInv'
  BY DEF TrapInv, TypeOK, SavedInv, TopInv
<1>8. CpuInv'
  BY <1>1 DEF TrapInv, CpuInv, TopInv, SavedInv, StackInv
<1>9. MutexInv'
  BY DEF TrapInv, MutexInv, MutexHeld
<1>. QED BY <1>2, <1>3, <1>4, <1>5, <1>6, <1>7, <1>8, <1>9 DEF TrapInv

(* The mutex is released after the context is freed.                       *)
LEMMA ExitHandlerUnlockKeeps ==
  ASSUME TrapInv, ExitHandlerUnlock
  PROVE  TrapInv'
<1>. USE TrapAssumption DEF ExitHandlerUnlock, cpu, emulator, sems, context
<1>0. TypeOK BY DEF TrapInv
<1>1. Turn = NoCtx /\ Turn' = NoCtx
  BY DEF TrapInv, CpuInv, Turn
<1>2. TypeOK'
  <2>1. trap_mutex' \in {0, 1}
    BY DEF TrapInv, MutexInv, MutexHeld
  <2>. QED BY <1>0, <2>1 DEF TypeOK, EmuPc
<1>3. TurnInv'
  BY <1>1 DEF TrapInv, TurnInv, CpuInv
<1>4. RequestInv'
  BY <1>1 DEF RequestInv
<1>5. OthersWait'
  BY <1>1 DEF TrapInv, OthersWait, SemsAre, sp
<1>6. StackInv'
  BY <1>1 DEF TrapInv, StackInv, sp
<1>7. SavedInv'
  BY DEF TrapInv, SavedInv, TopInv
<1>8. CpuInv'
  BY DEF TrapInv, CpuInv, TopInv
<1>9. MutexInv'
  BY DEF TrapInv, MutexInv, MutexHeld, CpuInv
<1>. QED BY <1>2, <1>3, <1>4, <1>5, <1>6, <1>7, <1>8, <1>9 DEF TrapInv

(* The thread takes the post it was started with.                          *)
LEMMA ThreadStartKeeps ==
  ASSUME TrapInv, NEW c \in Ctx, ThreadStart(c)
  PROVE  TrapInv'
<1>. USE TrapAssumption DEF ThreadStart, cpu, emulator, sems, context, Goto, HasToken
<1>0. TypeOK BY DEF TrapInv
<1>1. HasToken(c, 1) /\ Turn' = c
  BY PostedHasToken DEF Turn, HasToken
<1>2. TypeOK'
  BY DEF TrapInv, TypeOK, ThreadPc
<1>3. TurnInv'
  BY <1>1 DEF TrapInv, TypeOK, TurnInv, SemsAre, Active
<1>4. RequestInv'
  BY <1>1 DEF RequestInv, Requested
<1>5. OthersWait'
  BY <1>1 DEF TrapInv, OthersWait, SemsAre, sp
<1>6. StackInv'
  BY <1>1 DEF TrapInv, StackInv, sp
<1>7. SavedInv'
  BY DEF TrapInv, SavedInv, TopInv
<1>8. CpuInv'
  BY DEF TrapInv, CpuInv, TopInv
<1>9. MutexInv'
  BY DEF TrapInv, MutexInv, MutexHeld
<1>. QED BY <1>2, <1>3, <1>4, <1>5, <1>6, <1>7, <1>8, <1>9 DEF TrapInv

(* The handler calls the 68k.                                              *)
LEMMA HandlerCallsKeeps ==
  ASSUME TrapInv, NEW c \in Ctx, HandlerCalls(c)
  PROVE  TrapInv'
<1>. USE TrapAssumption DEF HandlerCalls, cpu, emulator, sems, context, Goto, HasToken
<1>0. TypeOK BY DEF TrapInv
<1>1. HasToken(c, 0) /\ Turn' = c
  <2>1. HasToken(c, 0)
    BY ActiveHasToken DEF Active
  <2>. QED BY <2>1 DEF HasToken, Turn
<1>2. TypeOK'
  BY DEF TrapInv, TypeOK, ThreadPc
<1>3. TurnInv'
  BY <1>1 DEF TurnInv, SemsAre, Active
<1>4. RequestInv'
  BY <1>1 DEF RequestInv, Requested
<1>5. OthersWait'
  BY <1>1 DEF TrapInv, OthersWait, SemsAre, sp
<1>6. StackInv'
  BY <1>1 DEF TrapInv, StackInv, sp
<1>7. SavedInv'
  BY DEF TrapInv, SavedInv, TopInv
<1>8. CpuInv'
  BY DEF TrapInv, CpuInv, TopInv
<1>9. MutexInv'
  BY DEF TrapInv, MutexInv, MutexHeld
<1>. QED BY <1>2, <1>3, <1>4, <1>5, <1>6, <1>7, <1>8, <1>9 DEF TrapInv

(* The handler is done.                                                    *)
LEMMA HandlerDoneKeeps ==
  ASSUME TrapInv, NEW c \in Ctx, HandlerDone(c)
  PROVE  TrapInv'
<1>. USE TrapAssumption DEF HandlerDone, cpu, emulator, sems, context, Goto, HasToken
<1>0. TypeOK BY DEF TrapInv
<1>1. HasToken(c, 0) /\ Turn' = c
  <2>1. HasToken(c, 0)
    BY ActiveHasToken DEF Active
  <2>. QED BY <2>1 DEF HasToken, Turn
<1>2. TypeOK'
  BY DEF TrapInv, TypeOK, ThreadPc
<1>3. TurnInv'
  BY <1>1 DEF TurnInv, SemsAre, Active
<1>4. RequestInv'
  BY <1>1 DEF RequestInv, Requested
<1>5. OthersWait'
  BY <1>1 DEF TrapInv, OthersWait, SemsAre, sp
<1>6. StackInv'
  BY <1>1 DEF TrapInv, StackInv, sp
<1>7. SavedInv'
  BY DEF TrapInv, SavedInv, TopInv
<1>8. CpuInv'
  BY DEF TrapInv, CpuInv, TopInv
<1>9. MutexInv'
  BY DEF TrapInv, MutexInv, MutexHeld
<1>. QED BY <1>2, <1>3, <1>4, <1>5, <1>6, <1>7, <1>8, <1>9 DEF TrapInv

(* The thread takes the mutex, which nobody holds.                         *)
LEMMA ThreadLockKeeps ==
  ASSUME TrapInv, NEW c \in Ctx, ThreadLock(c)
  PROVE  TrapInv'
<1>. USE TrapAssumption DEF ThreadLock, cpu, emulator, sems, context, Goto, HasToken
<1>0. TypeOK BY DEF TrapInv
<1>1. HasToken(c, 0) /\ Turn' = c
  <2>1. HasToken(c, 0)
    BY ActiveHasToken DEF Active
  <2>. QED BY <2>1 DEF HasToken, Turn
<1>2. TypeOK'
  <2>1. tpc' \in [Ctx -> ThreadPc]
    BY <1>0, <1>1 DEF TypeOK, ThreadPc
  <2>. QED BY <1>0, <2>1 DEF TypeOK
<1>3. TurnInv'
  BY <1>1 DEF TrapInv, TypeOK, TurnInv, SemsAre, Active
<1>4. RequestInv'
  BY <1>1 DEF TrapInv, TypeOK, RequestInv, Requested
<1>5. OthersWait'
  BY <1>1 DEF TrapInv, TypeOK, OthersWait, SemsAre, sp
<1>6. StackInv'
  BY <1>1 DEF TrapInv, TypeOK, StackInv, sp
<1>7. SavedInv'
  BY DEF TrapInv, TypeOK, SavedInv, TopInv
<1>8. CpuInv'
  BY DEF TrapInv, CpuInv, TopInv
<1>9. MutexInv'
  BY <1>1 DEF TrapInv, TypeOK, MutexInv, MutexHeld
<1>. QED BY <1>2, <1>3, <1>4, <1>5, <1>6, <1>7, <1>8, <1>9 DEF TrapInv

(* trap_Call68k makes the request.                                         *)
LEMMA CallSetKeeps ==
  ASSUME TrapInv, NEW c \in Ctx, CallSet(c)
  PROVE  TrapInv'
<1>. USE TrapAssumption DEF CallSet, cpu, emulator, sems, context, Goto, HasToken
<1>0. TypeOK BY DEF TrapInv
<1>1. HasToken(c, 0) /\ Turn' = c
  <2>1. HasToken(c, 0)
    BY ActiveHasToken DEF Active
  <2>. QED BY <2>1 DEF HasToken, Turn
<1>2. TypeOK'
  <2>1. regs' \in Regs
    BY <1>0, <1>1 DEF TypeOK, Regs, Pc
  <2>2. tpc' \in [Ctx -> ThreadPc]
    BY <1>0 DEF TypeOK, ThreadPc
  <2>. QED BY <1>0, <2>1, <2>2 DEF TypeOK
<1>3. TurnInv'
  BY <1>1 DEF TurnInv, SemsAre, Active
<1>4. RequestInv'
  BY <1>1 DEF TrapInv, TypeOK, RequestInv
<1>5. OthersWait'
  BY <1>1 DEF TrapInv, OthersWait, SemsAre, sp
<1>6. StackInv'
  BY <1>1 DEF TrapInv, StackInv, sp
<1>7. SavedInv'
  BY DEF TrapInv, SavedInv, TopInv
<1>8. CpuInv'
  BY <1>1 DEF TrapInv, CpuInv, TopInv
<1>9. MutexInv'
  BY <1>1 DEF TrapInv, MutexInv, MutexHeld
<1>. QED BY <1>2, <1>3, <1>4, <1>5, <1>6, <1>7, <1>8, <1>9 DEF TrapInv

(* trap_thread restores the registers and makes the last request.          *)
LEMMA ExitSetKeeps ==
  ASSUME TrapInv, NEW c \in Ctx, ExitSet(c)
  PROVE  TrapInv'
<1>. USE TrapAssumption DEF ExitSet, cpu, emulator, sems, context, Goto, HasToken
<1>0. TypeOK BY DEF TrapInv
<1>1. HasToken(c, 0) /\ Turn' = c
  <2>1. HasToken(c, 0)
    BY ActiveHasToken DEF Active
  <2>. QED BY <2>1 DEF HasToken, Turn
<1>2. TypeOK'
  <2>1. regs' \in Regs
    BY <1>0, <1>1 DEF TypeOK, Regs, Pc
  <2>2. tpc' \in [Ctx -> ThreadPc]
    BY <1>0 DEF TypeOK, ThreadPc
  <2>. QED BY <1>0, <2>1, <2>2 DEF TypeOK
<1>3. TurnInv'
  BY <1>1 DEF TurnInv, SemsAre, Active
<1>4. RequestInv'
  BY <1>1 DEF RequestInv
<1>5. OthersWait'
  BY <1>1 DEF TrapInv, OthersWait, SemsAre, sp
<1>6. StackInv'
  BY <1>1 DEF TrapInv, StackInv, sp
<1>7. SavedInv'
  BY DEF TrapInv, SavedInv, TopInv
<1>8. CpuInv'
  BY <1>1 DEF TrapInv, CpuInv, TopInv
<1>9. MutexInv'
  BY <1>1 DEF TrapInv, MutexInv, MutexHeld
<1>. QED BY <1>2, <1>3, <1>4, <1>5, <1>6, <1>7, <1>8, <1>9 DEF TrapInv

(* The request is posted to the emulator thread, which waits on this very  *)
(* context.                                                                *)
LEMMA SwitchToEmuKeeps ==
  ASSUME TrapInv, NEW c \in Ctx, SwitchToEmu(c)
  PROVE  TrapInv'
<1>. USE TrapAssumption DEF SwitchToEmu, cpu, emulator, sems, context, Goto, HasToken
<1>0. TypeOK BY DEF TrapInv
<1>1. HasToken(c, 0) /\ Turn' = c
  <2>1. HasToken(c, 0)
    BY ActiveHasToken DEF Active
  <2>. QED BY <2>1 DEF HasToken, Turn
<1>2. TypeOK'
  <2>1. tpc' \in [Ctx -> ThreadPc]
    BY <1>0, <1>1 DEF TypeOK, ThreadPc
  <2>2. switch_to_emu' \in [Ctx -> {0, 1}]
    BY <1>0, <1>1 DEF TypeOK
  <2>. QED BY <1>0, <1>1, <2>1 DEF TypeOK
<1>3. TurnInv'
  BY <1>1 DEF TrapInv, TypeOK, TurnInv, SemsAre
<1>4. RequestInv'
  BY <1>1 DEF TrapInv, TypeOK, RequestInv, Requested
<1>5. OthersWait'
  BY <1>1 DEF TrapInv, TypeOK, OthersWait, SemsAre, sp
<1>6. StackInv'
  BY <1>1 DEF TrapInv, TypeOK, StackInv, sp
<1>7. SavedInv'
  BY DEF TrapInv, TypeOK, SavedInv, TopInv
<1>8. CpuInv'
  BY DEF TrapInv, CpuInv, TopInv
<1>9. MutexInv'
  BY <1>1 DEF TrapInv, TypeOK, MutexInv, MutexHeld
<1>. QED BY <1>2, <1>3, <1>4, <1>5, <1>6, <1>7, <1>8, <1>9 DEF TrapInv

(* The thread takes the post of m68k_return_handler, and the result is     *)
(* there.                                                                  *)
LEMMA CallWaitKeeps ==
  ASSUME TrapInv, NEW c \in Ctx, CallWait(c)
  PROVE  TrapInv'
<1>. USE TrapAssumption DEF CallWait, cpu, emulator, sems, context, Goto, HasToken
<1>0. TypeOK BY DEF TrapInv
<1>1. HasToken(c, 1) /\ Turn' = c
  BY PostedHasToken DEF Turn, HasToken
<1>2. TypeOK'
  BY DEF TrapInv, TypeOK, ThreadPc
<1>3. TurnInv'
  BY <1>1 DEF TrapInv, TypeOK, TurnInv, SemsAre, Active
<1>4. RequestInv'
  BY <1>1 DEF TrapInv, RequestInv, Requested
<1>5. OthersWait'
  BY <1>1 DEF TrapInv, OthersWait, SemsAre, sp
<1>6. StackInv'
  BY <1>1 DEF TrapInv, StackInv, sp
<1>7. SavedInv'
  BY DEF TrapInv, SavedInv, TopInv
<1>8. CpuInv'
  BY DEF TrapInv, CpuInv, TopInv
<1>9. MutexInv'
  BY DEF TrapInv, MutexInv, MutexHeld
<1>. QED BY <1>2, <1>3, <1>4, <1>5, <1>6, <1>7, <1>8, <1>9 DEF TrapInv

(* trap_Call68k releases the mutex m68k_return_handler has left taken.     *)
LEMMA CallUnlockKeeps ==
  ASSUME TrapInv, NEW c \in Ctx, CallUnlock(c)
  PROVE  TrapInv'
<1>. USE TrapAssumption DEF CallUnlock, cpu, emulator, sems, context, Goto, HasToken
<1>0. TypeOK BY DEF TrapInv
<1>1. HasToken(c, 0) /\ Turn' = c
  <2>1. HasToken(c, 0)
    BY ActiveHasToken DEF Active
  <2>. QED BY <2>1 DEF HasToken, Turn
<1>2. TypeOK'
  <2>1. tpc' \in [Ctx -> ThreadPc]
    BY <1>0 DEF TypeOK, ThreadPc
  <2>2. trap_mutex' \in {0, 1}
    BY <1>1 DEF TrapInv, MutexInv, MutexHeld
  <2>. QED BY <1>0, <2>1, <2>2 DEF TypeOK
<1>3. TurnInv'
  BY <1>1 DEF TurnInv, SemsAre, Active
<1>4. RequestInv'
  BY <1>1 DEF TrapInv, RequestInv, Requested
<1>5. OthersWait'
  BY <1>1 DEF TrapInv, OthersWait, SemsAre, sp
<1>6. StackInv'
  BY <1>1 DEF TrapInv, StackInv, sp
<1>7. SavedInv'
  BY DEF TrapInv, SavedInv, TopInv
<1>8. CpuInv'
  BY DEF TrapInv, CpuInv, TopInv
<1>9. MutexInv'
  BY <1>1 DEF TrapInv, TypeOK, MutexInv, MutexHeld
<1>. QED BY <1>2, <1>3, <1>4, <1>5, <1>6, <1>7, <1>8, <1>9 DEF TrapInv

-----------------------------------------------------------------------------
(* Before the first trap no context is in use and the stacks are empty.    *)
LEMMA InitTrap == Init => TrapInv
<1>. SUFFICES ASSUME Init PROVE TrapInv
  OBVIOUS
<1>. USE TrapAssumption DEF Init
<1>1. Reset \in Regs /\ Reset.sp = 0 /\ Reset.pc = "user" /\ Reset.intmask = 0
  BY DEF Reset, Regs, Pc
<1>2. TypeOK
  <2>1. stack \in [Task -> [1 .. MaxDepth -> Ctx \cup {NoCtx}]]
    OBVIOUS
  <2>2. calls \in [Ctx -> 0 .. MaxCalls]
    OBVIOUS
  <2>. QED BY <1>1, <2>1, <2>2 DEF TypeOK, EmuPc, ThreadPc
<1>3. TurnInv /\ RequestInv
  BY <1>1 DEF TurnInv, RequestInv, Requested, Turn
<1>4. OthersWait /\ SavedInv
  BY <1>1 DEF OthersWait, SavedInv
<1>5. StackInv
  BY <1>1 DEF StackInv, sp
<1>6. CpuInv
  BY <1>1 DEF CpuInv, TopInv
<1>7. MutexInv
  BY <1>1 DEF MutexInv, MutexHeld
<1>. QED BY <1>2, <1>3, <1>4, <1>5, <1>6, <1>7 DEF TrapInv

(* Every reachable state satisfies the invariant.                          *)
THEOREM TrapInvariant == Spec => []TrapInv
<1>1. TrapInv /\ [Next]_vars => TrapInv'
  <2>. SUFFICES ASSUME TrapInv, [Next]_vars PROVE TrapInv'
    OBVIOUS
  <2>1. CASE Amiga
    BY <2>1, FunctionReturnsKeeps, TaskSwitchKeeps DEF Amiga
  <2>2. CASE Emulator
    BY <2>2, HandleExtendedTrapKeeps, SwitchToTrapKeeps, ResumeEmuKeeps, CallHandlerKeeps,
       CallHandlerUnlockKeeps, ReturnHandlerLockKeeps, ReturnHandlerKeeps, ExitHandlerKeeps,
       ExitHandlerUnlockKeeps DEF Emulator
  <2>3. CASE \E c \in Ctx : TrapThread(c)
    BY <2>3, ThreadStartKeeps, HandlerCallsKeeps, HandlerDoneKeeps, ThreadLockKeeps,
       CallSetKeeps, ExitSetKeeps, SwitchToEmuKeeps, CallWaitKeeps, CallUnlockKeeps
       DEF TrapThread
  <2>4. CASE UNCHANGED vars
    <3>. USE <2>4 DEF vars, cpu, emulator, sems, context, TrapInv
    <3>1. TypeOK'
      BY DEF TypeOK
    <3>2. TurnInv' /\ RequestInv'
      BY DEF TurnInv, RequestInv, Requested, Turn, SemsAre, Active
    <3>3. OthersWait' /\ StackInv'
      BY DEF OthersWait, StackInv, Turn, SemsAre, sp
    <3>4. SavedInv' /\ CpuInv'
      BY DEF SavedInv, CpuInv, TopInv
    <3>5. MutexInv'
      BY DEF MutexInv, MutexHeld
    <3>. QED BY <3>1, <3>2, <3>3, <3>4, <3>5
  <2>. QED BY <2>1, <2>2, <2>3, <2>4 DEF Next
<1>. QED BY <1>1, InitTrap, PTL DEF Spec

(* Registers, semaphores, stacks and program counters keep their types.    *)
THEOREM TrapTypeCorrect == Spec => []TypeOK
BY TrapInvariant, PTL DEF TrapInv

(* A trap thread runs only while the emulator thread waits for it: the     *)
(* thread that runs has the token.                                         *)
THEOREM TurnsAreTaken == Spec => []ThreadsTakeTurns
<1>1. TrapInv => ThreadsTakeTurns
  BY ActiveHasToken DEF ThreadsTakeTurns, HasToken
<1>. QED BY <1>1, TrapInvariant, PTL

(* The two handlers a thread asks for run on current_context, the context  *)
(* that has the token, of the task that runs.                              *)
THEOREM RequestsReachTheirContext == Spec => []HandlersFindTheirContext
<1>1. TrapInv => HandlersFindTheirContext
  <2>. SUFFICES ASSUME TrapInv, emu = "run", regs.pc \in {"call_trap", "exit_trap"}
                PROVE  /\ current_context # NoCtx
                       /\ tpc[current_context] = IF regs.pc = "call_trap"
                                                 THEN "call_wait" ELSE "gone"
                       /\ owner[current_context] = running /\ trap_mutex = 0
    BY DEF HandlersFindTheirContext
  <2>1. Turn = current_context /\ current_context \in Ctx /\ NoCtx \notin Ctx
    BY TrapAssumption DEF TrapInv, TurnInv, Turn
  <2>2. owner[current_context] = running
    BY <2>1 DEF TrapInv, TurnInv
  <2>3. tpc[current_context] = IF regs.pc = "call_trap" THEN "call_wait" ELSE "gone"
    BY DEF TrapInv, TurnInv
  <2>4. trap_mutex = 0
    BY DEF TrapInv, MutexInv, MutexHeld
  <2>. QED BY <2>1, <2>2, <2>3, <2>4
<1>. QED BY <1>1, TrapInvariant, PTL

(* m68k_return_handler finds on the stack the context whose function has   *)
(* ended: with nobody holding the token, the top of the running task's     *)
(* stack is the context that called last.                                  *)
THEOREM ReturnsReachTheirContext == Spec => []ReturnFindsItsContext
<1>1. TrapInv => ReturnFindsItsContext
  <2>. SUFFICES ASSUME TrapInv, emu \in {"run", "return_locked"}, regs.pc = "return_trap"
                PROVE  /\ regs.sp > 0
                       /\ LET c == stack[running][regs.sp]
                          IN  /\ c # NoCtx /\ tpc[c] = "call_wait" /\ switch_to_trap[c] = 0
                              /\ owner[c] = running /\ regs.d0 = c
    BY DEF ReturnFindsItsContext
  <2>1. regs.sp > 0 /\ stack[running][regs.sp] = regs.d0
    BY DEF TrapInv, CpuInv, TopInv
  <2>2. regs.sp \in 1 .. sp(running) /\ running \in Task
    BY <2>1 DEF TrapInv, TypeOK, Regs, sp
  <2> DEFINE c == stack[running][regs.sp]
  <2>3. /\ c \in Ctx /\ c # Turn /\ tpc[c] = "call_wait" /\ owner[c] = running
    BY <2>2 DEF TrapInv, StackInv
  <2>4. switch_to_trap[c] = 0
    BY <2>3 DEF TrapInv, OthersWait, SemsAre
  <2>. QED BY <2>1, <2>3, <2>4, TrapAssumption
<1>. QED BY <1>1, TrapInvariant, PTL

(* What trap_Call68k returns is what the function it called has returned.  *)
THEOREM CallsReturnTheirResults == Spec => []CallReturnsItsResult
<1>1. TrapInv => CallReturnsItsResult
  <2>. SUFFICES ASSUME TrapInv, NEW c \in Ctx, tpc[c] = "call_unlock"
                PROVE  call68k_retval[c] = c
    BY DEF CallReturnsItsResult
  <2>1. Turn = c
    BY ActiveHasToken DEF Active, HasToken
  <2>. QED BY <2>1 DEF TrapInv, RequestInv
<1>. QED BY <1>1, TrapInvariant, PTL

(* A trap ends with the stack it was entered with, whatever it called.     *)
THEOREM TrapsBalanceTheStack == Spec => []StackBalanced
<1>1. TrapInv => StackBalanced
  BY ActiveHasToken DEF StackBalanced, Active, HasToken
<1>. QED BY <1>1, TrapInvariant, PTL

(* Nobody ever waits for trap_mutex: where it is about to be taken it is   *)
(* free, because the token has already excluded everybody else.            *)
THEOREM MutexIsNeverWaitedFor == Spec => []MutexUncontended
<1>1. TrapInv => MutexUncontended
  <2>1. ASSUME TrapInv, NEW c \in Ctx, tpc[c] \in {"call_lock", "exit_lock"}
        PROVE  trap_mutex = 1
    <3>1. emu = "wait_emu" /\ emu_ctx = c
      BY <2>1, ActiveHasToken DEF Active, HasToken
    <3>. QED BY <2>1, <3>1 DEF TrapInv, MutexInv, MutexHeld
  <2>2. ASSUME TrapInv, emu = "run", regs.pc = "return_trap"
        PROVE  trap_mutex = 1
    BY <2>2 DEF TrapInv, MutexInv, MutexHeld
  <2>. QED BY <2>1, <2>2 DEF MutexUncontended
<1>. QED BY <1>1, TrapInvariant, PTL
=============================================================================
