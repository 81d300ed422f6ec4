------------------------------- MODULE Events -------------------------------
(***************************************************************************)
(* The event scheduler of src/sources/src/events.c.  eventtab holds the    *)
(* five periodic events of the chipset; eventtab2 holds the one-shot       *)
(* requests that the ev_misc entry of eventtab serves.  Everything runs on *)
(* the emulator thread: what makes it hard is that a handler calls back    *)
(* into the scheduler while the scheduler walks its tables.  The call      *)
(* stack is therefore state, one frame per call in progress, and a step    *)
(* runs the top frame up to its next call or return.                       *)
(*                                                                         *)
(* The handlers are code of the devices.  A handler body is any sequence   *)
(* of calls to the scheduler followed by a return; a device handler leaves *)
(* its own entry armed for a later cycle, or disarmed.                     *)
(***************************************************************************)
EXTENDS Integers, FiniteSets, Sequences, FiniteSetsExt

CONSTANTS
  ev2_max,       \* entries of eventtab2; entry ev2_blitter is reserved
  Func,          \* the handlers of one-shot requests
  BlitterFunc,   \* the handler init_eventtab gives to entry ev2_blitter
  Device,        \* the entries of eventtab in use besides ev_misc
  Delay,         \* the delays of requests, in cycles
  Period,        \* the delays a device arms its entry with
  Cycles,        \* the arguments of do_cycles_slow
  EVT_MAX,       \* the distance of no event: more than any delay
  MaxTime,       \* bound: do_cycles_slow is not called beyond this cycle
  MaxRequests,   \* bound: calls that place a request
  MaxFrames      \* bound: calls in progress

ev_cia == 0
ev_hsync == 1
ev_hsynch == 2
ev_misc == 3
ev_audio == 4
ev_max == 5
ev2_blitter == 0
ev2_misc == 1

ASSUME EventsAssumption ==
  /\ ev2_max \in Nat /\ ev2_max > ev2_misc
  /\ BlitterFunc \notin Func
  /\ Device \subseteq {ev_cia, ev_hsync, ev_hsynch, ev_audio} /\ ev_hsync \in Device
  /\ Delay \subseteq Nat \ {0} /\ Period \subseteq Nat \ {0} /\ Cycles \subseteq Nat \ {0}
  /\ EVT_MAX \in Nat \ {0} /\ \A t \in Delay \cup Period : t + 1 < EVT_MAX
  /\ MaxTime \in Nat /\ MaxRequests \in Nat /\ MaxFrames \in Nat

Entry == 0 .. ev_max - 1
Slot == 0 .. ev2_max - 1
dummy_event == -1            \* the never active event last_event2 starts with
NoEvent == -1                \* a null next link
Between == ev_max + 1        \* i of do_cycles_slow while it is in no pass over eventtab

VARIABLES
  currcycle, nextevent,      \* the clock and the cycle of the next event
  eventtab,                  \* Entry -> [active, evtime]
  eventtab2,                 \* Slot -> [active, evtime, next, req]
  next,                      \* event2_newevent_xx: where the slot search starts
  last_event2,               \* the slot of the last request, or dummy_event
  dorecheck,                 \* MISC_handler: a request came in while it ran
  stack,                     \* the calls in progress, innermost first
  requests,                  \* number of calls that place a request
  stored                     \* history: number of requests put into eventtab2

tables == <<eventtab, eventtab2>>
clock  == <<currcycle, nextevent>>
vars   == <<clock, tables, next, last_event2, dorecheck, stack, requests, stored>>

(***************************************************************************)
(* A request: its handler, and for the properties the cycle it asks for    *)
(* and, once it is in eventtab2, its number there.  The data word goes     *)
(* with the handler.                                                       *)
(***************************************************************************)
Request == [func : Func \cup {BlitterFunc}, id : Nat, due : Nat]
NoRequest == [func |-> BlitterFunc, id |-> 0, due |-> 0]

Frame ==
  [fn : {"do_cycles_slow"}, i : 0 .. Between, left : Nat]
  \cup [fn : {"MISC_handler"}, i : 0 .. ev2_max, mintime : Nat,
        recheck : BOOLEAN, ran : {"none", "due", "linked"}]
  \cup [fn : {"event2_newevent_xx"}, no : Slot, et : Nat, req : Request]
  \cup [fn : {"handler"}, req : Request, evicted : BOOLEAN]
  \cup [fn : {"device"}, i : Device]

TypeOK ==
  /\ currcycle \in Nat /\ nextevent \in Nat
  /\ eventtab \in [Entry -> [active : BOOLEAN, evtime : Nat]]
  /\ eventtab2 \in [Slot -> [active : BOOLEAN, evtime : Nat,
                             next : Slot \cup {NoEvent}, req : Request]]
  /\ next \in Slot \ {ev2_blitter} /\ last_event2 \in Slot \cup {dummy_event}
  /\ dorecheck \in BOOLEAN /\ requests \in 0 .. MaxRequests /\ stored \in Nat
  /\ stack \in Seq(Frame)

Init ==
  /\ currcycle = 0
  /\ eventtab \in {[i \in Entry |-> [active |-> i = ev_hsync, evtime |-> t]] : t \in Period}
  /\ nextevent = eventtab[ev_hsync].evtime
  /\ eventtab2 = [s \in Slot |-> [active |-> FALSE, evtime |-> 0, next |-> NoEvent,
                                  req |-> NoRequest]]
  /\ next = ev2_misc /\ last_event2 = dummy_event /\ dorecheck = FALSE
  /\ stack = <<>> /\ requests = 0 /\ stored = 0

-----------------------------------------------------------------------------
(* events_schedule: the cycle of the earliest active entry of eventtab.    *)
Armed(tab) == {i \in Entry : tab[i].active}

Earliest(tab) ==
  IF Armed(tab) = {} THEN EVT_MAX ELSE Min({tab[i].evtime : i \in Armed(tab)})

Top == Head(stack)
Running(fn) == stack # <<>> /\ Top.fn = fn
Call(frame) == stack' = <<frame>> \o stack
Continue(frame) == stack' = <<frame>> \o Tail(stack)
Return == stack' = Tail(stack)
HandlerFrame(r, evicted) == [fn |-> "handler", req |-> r, evicted |-> evicted]

(* The CPU between two do_cycles_slow calls, or a handler, may call.       *)
Client == \/ stack = <<>>
          \/ Running("handler") \/ Running("device")

-----------------------------------------------------------------------------
(* do_cycles_slow.                                                         *)
do_cycles_slow(n) ==
  /\ stack = <<>> /\ currcycle + n =< MaxTime
  /\ Call([fn |-> "do_cycles_slow", i |-> Between, left |-> n])
  /\ UNCHANGED <<clock, tables, next, last_event2, dorecheck, requests, stored>>

(* The head of its loop: the clock moves to the next event, or by what is  *)
(* left.                                                                   *)
AdvanceClock ==
  /\ Running("do_cycles_slow") /\ Top.i = Between
  /\ \/ /\ nextevent - currcycle =< Top.left
        /\ currcycle' = nextevent
        /\ Continue([Top EXCEPT !.i = 0, !.left = @ - (nextevent - currcycle)])
     \/ /\ nextevent - currcycle > Top.left
        /\ currcycle' = currcycle + Top.left
        /\ Return
  /\ UNCHANGED <<nextevent, tables, next, last_event2, dorecheck, requests, stored>>

(* Its pass over eventtab: every entry due now, in table order, then       *)
(* events_schedule.  MISC_handler is the handler of ev_misc.               *)
DueFrom(i) == {j \in i .. ev_max - 1 : eventtab[j].active /\ eventtab[j].evtime = currcycle}

MiscFrame == [fn |-> "MISC_handler", i |-> 0, mintime |-> EVT_MAX,
              recheck |-> FALSE, ran |-> "none"]

DispatchDevice ==
  /\ Running("do_cycles_slow") /\ Top.i # Between /\ DueFrom(Top.i) # {}
  /\ LET j == Min(DueFrom(Top.i))
         caller == [Top EXCEPT !.i = j + 1]
         called == IF j = ev_misc THEN MiscFrame ELSE [fn |-> "device", i |-> j]
     IN  /\ stack' = <<called, caller>> \o Tail(stack)
         /\ eventtab' = IF j = ev_misc THEN [eventtab EXCEPT ![ev_misc].active = FALSE]
                                        ELSE eventtab
  /\ UNCHANGED <<clock, eventtab2, next, last_event2, dorecheck, requests, stored>>

EndOfPass ==
  /\ Running("do_cycles_slow") /\ Top.i # Between /\ DueFrom(Top.i) = {}
  /\ nextevent' = Earliest(eventtab)
  /\ Continue([Top EXCEPT !.i = Between])
  /\ UNCHANGED <<currcycle, tables, next, last_event2, dorecheck, requests, stored>>

-----------------------------------------------------------------------------
(* MISC_handler.  "recursive" is set while one is in progress.             *)
recursive == \E k \in DOMAIN stack : stack[k].fn = "MISC_handler"

(* Deactivating an entry; what it held is not read again, but for evtime.  *)
Idle(e) == [e EXCEPT !.active = FALSE, !.req = NoRequest]

DueSlots(i) == {s \in i .. ev2_max - 1 : eventtab2[s].active /\ eventtab2[s].evtime = currcycle}

(* The least distance seen, over the slots from i up to j.                 *)
MinTime(mintime, i, j) ==
  Min({mintime} \cup {eventtab2[s].evtime - currcycle :
                       s \in {r \in i .. j - 1 : eventtab2[r].active}})

RunDue ==
  /\ Running("MISC_handler") /\ Top.ran = "none" /\ DueSlots(Top.i) # {}
  /\ LET s == Min(DueSlots(Top.i))
         caller == [Top EXCEPT !.i = s, !.ran = "due",
                               !.mintime = MinTime(@, Top.i, s)]
     IN  /\ eventtab2' = [eventtab2 EXCEPT ![s] = Idle(@)]
         /\ stack' = <<HandlerFrame(eventtab2[s].req, FALSE), caller>> \o Tail(stack)
  /\ UNCHANGED <<clock, eventtab, next, last_event2, dorecheck, requests, stored>>

(* The handler of slot i has returned.  Fault: the link is followed        *)
(* whatever the linked event's time.                                       *)
LinkedAnyTime(e) == e.next # NoEvent /\ eventtab2[e.next].active

(* The linked event runs with it.                                          *)
Linked(e) == /\ e.next # NoEvent
             /\ eventtab2[e.next].active /\ eventtab2[e.next].evtime = e.evtime + 1

RunLinked ==
  /\ Running("MISC_handler") /\ Top.ran = "due"
  /\ LET e == eventtab2[Top.i]
     IN  /\ Linked(e)
         /\ eventtab2' = [eventtab2 EXCEPT ![Top.i].next = NoEvent, ![e.next] = Idle(@)]
         /\ stack' = <<HandlerFrame(eventtab2[e.next].req, FALSE), [Top EXCEPT !.ran = "linked"]>>
                     \o Tail(stack)
  /\ UNCHANGED <<clock, eventtab, next, last_event2, dorecheck, requests, stored>>

(* The slot is done.  The link is cleared, but not one that the linked     *)
(* event's handler has made.                                               *)
Unlink ==
  \/ Top.ran = "due" /\ ~Linked(eventtab2[Top.i])
     /\ eventtab2' = [eventtab2 EXCEPT ![Top.i].next = NoEvent]
  \/ Top.ran = "linked" /\ UNCHANGED eventtab2

(* Fault: a request made meanwhile does not lead to another pass.          *)
NextSlotNoRecheck ==
  /\ Running("MISC_handler") /\ Unlink
  /\ dorecheck' = FALSE
  /\ Continue([Top EXCEPT !.i = @ + 1, !.ran = "none"])
  /\ UNCHANGED <<clock, eventtab, next, last_event2, requests, stored>>

NextSlot ==
  /\ Running("MISC_handler") /\ Unlink
  /\ dorecheck' = FALSE
  /\ Continue([Top EXCEPT !.i = @ + 1, !.ran = "none",
                          !.recheck = @ \/ dorecheck \/ eventtab2[Top.i].active])
  /\ UNCHANGED <<clock, eventtab, next, last_event2, requests, stored>>

(* Fault: recheck is not cleared for the new pass.                         *)
PassesForever ==
  /\ Running("MISC_handler") /\ Top.ran = "none" /\ DueSlots(Top.i) = {} /\ Top.recheck
  /\ Continue([MiscFrame EXCEPT !.recheck = TRUE])
  /\ UNCHANGED <<clock, tables, next, last_event2, dorecheck, requests, stored>>

PassesAgain ==
  /\ Running("MISC_handler") /\ Top.ran = "none" /\ DueSlots(Top.i) = {} /\ Top.recheck
  /\ Continue(MiscFrame)
  /\ UNCHANGED <<clock, tables, next, last_event2, dorecheck, requests, stored>>

(* Fault: events_schedule is not called.                                   *)
RearmMiscUnscheduled ==
  /\ Running("MISC_handler") /\ Top.ran = "none" /\ DueSlots(Top.i) = {} /\ ~Top.recheck
  /\ LET mintime == MinTime(Top.mintime, Top.i, ev2_max)
     IN  IF mintime = EVT_MAX THEN UNCHANGED eventtab
         ELSE eventtab' = [eventtab EXCEPT ![ev_misc] =
                             [active |-> TRUE, evtime |-> currcycle + mintime]]
  /\ Return
  /\ UNCHANGED <<clock, eventtab2, next, last_event2, dorecheck, requests, stored>>

RearmMisc ==
  /\ Running("MISC_handler") /\ Top.ran = "none" /\ DueSlots(Top.i) = {} /\ ~Top.recheck
  /\ LET mintime == MinTime(Top.mintime, Top.i, ev2_max)
     IN  IF mintime = EVT_MAX THEN UNCHANGED <<eventtab, nextevent>>
         ELSE /\ eventtab' = [eventtab EXCEPT ![ev_misc] =
                                 [active |-> TRUE, evtime |-> currcycle + mintime]]
              /\ nextevent' = Earliest(eventtab')
  /\ Return
  /\ UNCHANGED <<currcycle, eventtab2, next, last_event2, dorecheck, requests, stored>>

-----------------------------------------------------------------------------
(* event2_newevent_xx.                                                     *)
NewEvent(no, t, f) ==
  [fn |-> "event2_newevent_xx", no |-> no, et |-> currcycle + t,
   req |-> [func |-> f, id |-> 0, due |-> currcycle + t]]

MayCall == Client /\ requests < MaxRequests /\ Len(stack) + 2 =< MaxFrames

event2_newevent_xx(f, t) ==
  /\ MayCall
  /\ Call(NewEvent(next, t, f)) /\ requests' = requests + 1
  /\ UNCHANGED <<clock, tables, next, last_event2, dorecheck, stored>>

event2_newevent_blitter(t) ==
  /\ MayCall
  /\ Call(NewEvent(ev2_blitter, t, BlitterFunc)) /\ requests' = requests + 1
  /\ UNCHANGED <<clock, tables, next, last_event2, dorecheck, stored>>

(* The search goes round entries ev2_misc .. ev2_max - 1 from no up to     *)
(* "next", which a handler run meanwhile may have moved.                   *)
Ring == ev2_max - ev2_misc
(* Fault: the search wraps to entry 0, the blitter's.                      *)
NthFromZero(no, k) == (no + k) % ev2_max

Nth(no, k) == ev2_misc + ((no - ev2_misc + k) % Ring)
Reach(no) == IF no = next THEN Ring ELSE (next - no) % Ring

Usable(s, frame) == \/ ~eventtab2[s].active
                    \/ /\ eventtab2[s].evtime = frame.et
                       /\ eventtab2[s].req.func = frame.req.func

Hits(frame) == {k \in 0 .. Reach(frame.no) - 1 : Usable(Nth(frame.no, k), frame)}

Numbered(r) == [r EXCEPT !.id = stored + 1]

(* Fault: a request for the cycle of the previous one is not put behind it. *)
StoreUnlinked(s, et) ==
  /\ eventtab2' = [eventtab2 EXCEPT ![s] = [@ EXCEPT !.active = TRUE, !.evtime = et,
                                                     !.req = Numbered(Top.req)]]
  /\ last_event2' = s /\ stored' = stored + 1
  /\ \/ /\ recursive
        /\ dorecheck' = TRUE /\ Return /\ UNCHANGED eventtab
     \/ /\ ~recursive
        /\ eventtab' = [eventtab EXCEPT ![ev_misc].active = FALSE]
        /\ Continue(MiscFrame) /\ UNCHANGED dorecheck
  /\ UNCHANGED <<clock, requests>>

(* The entry is filled and MISC_handler is called.  The next link of the   *)
(* entry keeps its value.                                                  *)
Store(s, et) ==
  LET behind == /\ last_event2 # dummy_event /\ eventtab2[last_event2].active
                /\ last_event2 # s /\ et = eventtab2[last_event2].evtime
      linked == IF behind THEN [eventtab2 EXCEPT ![last_event2].next = s] ELSE eventtab2
  IN  /\ eventtab2' = [linked EXCEPT ![s] =
                         [@ EXCEPT !.active = TRUE, !.req = Numbered(Top.req),
                                   !.evtime = IF behind THEN et + 1 ELSE et]]
      /\ last_event2' = s /\ stored' = stored + 1
      /\ \/ /\ recursive
            /\ dorecheck' = TRUE /\ Return /\ UNCHANGED eventtab
         \/ /\ ~recursive
            /\ eventtab' = [eventtab EXCEPT ![ev_misc].active = FALSE]
            /\ Continue(MiscFrame) /\ UNCHANGED dorecheck
      /\ UNCHANGED <<clock, requests>>

StoreBlitter ==
  /\ Running("event2_newevent_xx") /\ Top.no = ev2_blitter
  /\ Store(ev2_blitter, Top.et) /\ UNCHANGED next

StoreRequest ==
  /\ Running("event2_newevent_xx") /\ Top.no # ev2_blitter /\ Hits(Top) # {}
  /\ LET s == Nth(Top.no, Min(Hits(Top)))
     IN  next' = s /\ Store(s, Top.et)

(* No entry is free: the earliest event runs at once to make room.         *)
Soonest ==
  LET active == {s \in Slot : eventtab2[s].active}
      t == Min({eventtab2[s].evtime : s \in active})
  IN  Min({s \in active : eventtab2[s].evtime = t})

RunSoonest ==
  /\ Running("event2_newevent_xx") /\ Top.no # ev2_blitter /\ Hits(Top) = {}
  /\ eventtab2' = [eventtab2 EXCEPT ![Soonest] = Idle(@)]
  /\ stack' = <<HandlerFrame(eventtab2[Soonest].req, TRUE), [Top EXCEPT !.no = next]>>
              \o Tail(stack)
  /\ UNCHANGED <<clock, eventtab, next, last_event2, dorecheck, requests, stored>>

-----------------------------------------------------------------------------
(* The other calls of a client.                                            *)
Holds(s, f) == eventtab2[s].active /\ eventtab2[s].req.func = f
Without(S) == [s \in Slot |-> IF s \in S THEN Idle(eventtab2[s]) ELSE eventtab2[s]]

event2_newevent_x_remove(f) ==
  /\ Client
  /\ eventtab2' = Without({s \in Slot : Holds(s, f)})
  /\ UNCHANGED <<clock, eventtab, next, last_event2, dorecheck, stack, requests, stored>>

event2_remevent(s) ==
  /\ Client
  /\ eventtab2' = Without({s})
  /\ UNCHANGED <<clock, eventtab, next, last_event2, dorecheck, stack, requests, stored>>

(* A delay of 0 calls the handler directly.                                *)
Place(f, t) ==
  /\ requests' = requests + 1
  /\ Call(IF t = 0 THEN HandlerFrame(NewEvent(next, 0, f).req, FALSE)
                    ELSE NewEvent(next, t, f))

event2_newevent_x_replace(f, t) ==
  /\ MayCall
  /\ eventtab2' = Without({s \in Slot : Holds(s, f)}) /\ Place(f, t)
  /\ UNCHANGED <<clock, eventtab, next, last_event2, dorecheck, stored>>

event2_newevent_x_replace_exists(f, t) ==
  /\ MayCall /\ \E s \in Slot : Holds(s, f)
  /\ eventtab2' = Without({Min({s \in Slot : Holds(s, f)})}) /\ Place(f, t)
  /\ UNCHANGED <<clock, eventtab, next, last_event2, dorecheck, stored>>

HandlerReturns ==
  /\ Running("handler") /\ Return
  /\ UNCHANGED <<clock, tables, next, last_event2, dorecheck, requests, stored>>

(* A register write or another handler arms a device (CIA_calctimers,      *)
(* schedule_audio and the hsync code), then events_schedule.               *)
ArmDevice(i, t) ==
  /\ Client /\ ~(Running("device") /\ Top.i = i)
  /\ eventtab' = [eventtab EXCEPT ![i] = [active |-> TRUE, evtime |-> currcycle + t]]
  /\ nextevent' = Earliest(eventtab')
  /\ UNCHANGED <<currcycle, eventtab2, next, last_event2, dorecheck, stack, requests, stored>>

(* CIA_calctimers and schedule_audio disarm the entry when nothing is due. *)
DisarmDevice(i) ==
  /\ Client /\ i # ev_hsync /\ ~(Running("device") /\ Top.i = i)
  /\ eventtab' = [eventtab EXCEPT ![i].active = FALSE]
  /\ nextevent' = Earliest(eventtab')
  /\ UNCHANGED <<currcycle, eventtab2, next, last_event2, dorecheck, stack, requests, stored>>

(* A device handler returns, its entry armed anew or, but for ev_hsync,    *)
(* disarmed; some leave events_schedule to do_cycles_slow.                 *)
DeviceReturns ==
  /\ Running("device")
  /\ \/ \E t \in Period : eventtab' = [eventtab EXCEPT ![Top.i].evtime = currcycle + t]
     \/ Top.i # ev_hsync /\ eventtab' = [eventtab EXCEPT ![Top.i].active = FALSE]
  /\ nextevent' \in {nextevent, Earliest(eventtab')}
  /\ Return
  /\ UNCHANGED <<currcycle, eventtab2, next, last_event2, dorecheck, requests, stored>>

(* A reset: set_cycles, then clear_events and init_eventtab.  The next     *)
(* links, "next" and last_event2 keep their values.                        *)
Reset(t) ==
  /\ stack = <<>>
  /\ currcycle' = 0
  /\ eventtab' = [i \in Entry |-> [eventtab[i] EXCEPT !.active = i = ev_hsync,
                      !.evtime = IF i \in {ev_hsync, ev_hsynch} THEN t ELSE @]]
  /\ nextevent' = t
  /\ eventtab2' = Without(Slot)
  /\ UNCHANGED <<next, last_event2, dorecheck, stack, requests, stored>>

ClientStep ==
  \/ \E f \in Func, t \in Delay :
       event2_newevent_xx(f, t)
  \/ \E f \in Func, t \in Delay \cup {0} :
       \/ event2_newevent_x_replace(f, t)
       \/ event2_newevent_x_replace_exists(f, t)
  \/ \E f \in Func : event2_newevent_x_remove(f)
  \/ \E t \in Delay : event2_newevent_blitter(t)
  \/ event2_remevent(ev2_blitter)
  \/ \E i \in Device, t \in Period : ArmDevice(i, t)
  \/ \E i \in Device : DisarmDevice(i)
  \/ \E n \in Cycles : do_cycles_slow(n)
  \/ \E t \in Period : Reset(t)

SchedulerStep ==
  \/ AdvanceClock \/ DispatchDevice \/ EndOfPass
  \/ RunDue \/ RunLinked \/ NextSlot \/ PassesAgain \/ RearmMisc
  \/ StoreBlitter \/ StoreRequest \/ RunSoonest
  \/ HandlerReturns \/ DeviceReturns

Next == ClientStep \/ SchedulerStep

Spec == Init /\ [][Next]_vars

(* The emulator thread runs on, and a handler body ends.                   *)
FairSpec == Spec /\ WF_vars(SchedulerStep)

-----------------------------------------------------------------------------
(* No active event of either table is left behind by the clock: a handler  *)
(* runs at equality only, and an event missed once would turn the clock    *)
(* back (do_cycles_slow sets currcycle to nextevent).                      *)
NothingMissed ==
  /\ \A i \in Entry : eventtab[i].active => eventtab[i].evtime >= currcycle
  /\ \A s \in Slot : eventtab2[s].active => eventtab2[s].evtime >= currcycle

(* While the CPU runs, the next stop of the clock is at or before every    *)
(* active entry, and a pending request has ev_misc armed early enough.     *)
ClockStopsInTime ==
  stack = <<>> =>
    /\ nextevent > currcycle
    /\ \A i \in Entry : eventtab[i].active => nextevent =< eventtab[i].evtime
    /\ \A s \in Slot : eventtab2[s].active =>
         eventtab[ev_misc].active /\ eventtab[ev_misc].evtime =< eventtab2[s].evtime

(* The handler on top was called for the link of a slot.  The slot has     *)
(* been taken again by a request if its time is not the current cycle.     *)
ByLink == Len(stack) > 1 /\ stack[2].fn = "MISC_handler" /\ stack[2].ran = "linked"
SlotReused == eventtab2[stack[2].i].evtime # currcycle

(* A request is never more than the cycle a link adds late.  It is early   *)
(* only where a full table runs it at once or a link runs it, and a link   *)
(* makes no more than one cycle of difference unless the slot it starts    *)
(* from has been taken again by the slot's own handler.                    *)
RunsOnTime ==
  Running("handler") =>
    /\ currcycle =< Top.req.due + 1
    /\ \/ currcycle >= Top.req.due
       \/ Top.evicted
       \/ ByLink /\ (SlotReused \/ currcycle = Top.req.due - 1)

(* The event of the request stored before r is pending at the cycle r asks *)
(* for: events.c says "if previous event has same expiry time, make sure   *)
(* it gets executed first".                                                *)
OvertakesPrevious(r) ==
  \E s \in Slot : /\ eventtab2[s].active /\ eventtab2[s].req.id = r.id - 1
                 /\ eventtab2[s].evtime = r.due

(* It does, for a request that runs because its time has come or because   *)
(* the table is full.  The previous event is the one stored last before    *)
(* the request: where it has itself been put off by a cycle, behind yet    *)
(* another one, the two are not in the cycle asked for together.           *)
PairRunsInOrder == Running("handler") /\ ~ByLink => ~OvertakesPrevious(Top.req)

(* The comment as it stands, for every request.                            *)
PreviousRunsFirst == Running("handler") => ~OvertakesPrevious(Top.req)

(* As long as the handlers do not request events for ever, a call into the *)
(* scheduler comes back: the passes of MISC_handler end, also when linked  *)
(* and evicted handlers request more, and so do the search for an entry in *)
(* a full table and the loop of do_cycles_slow.  A handler that does       *)
(* request one each time it is run, as blitter_handler with its DMA off,   *)
(* is evicted again and again while it is the soonest of a full table.     *)
EveryCallReturns == []<>(stack = <<>>)
=============================================================================
