------------------------------ MODULE EventsProofs ------------------------------
(*******************************************************************************)
(* Proofs about Events, for any table size, handlers, devices, delays, periods *)
(* and clock steps: no event is missed, the clock stops in time, and requests  *)
(* run on time and in order as far as the code keeps them so.                  *)
(*                                                                             *)
(* EventsInv says of every call in progress what it may rely on when it goes   *)
(* on after the handlers it has called: they may have changed both tables.     *)
(*******************************************************************************)
EXTENDS Events, SequenceTheorems, WellFoundedInduction, TLAPS

Frames == 1 .. Len(stack)

(* do_cycles_slow is in its pass over eventtab.                                *)
InPass == \E k \in Frames : stack[k].fn = "do_cycles_slow" /\ stack[k].i # Between

(* The pass is still to reach entry j, or the handler of j is in progress.     *)
Ahead(j) == \E k \in Frames : \/ stack[k].fn = "do_cycles_slow" /\ stack[k].i =< j
                              \/ stack[k].fn = "device" /\ stack[k].i = j

(* An entry of eventtab is due only while the pass deals with it.              *)
EntryInv ==
  /\ eventtab[ev_hsync].active
  /\ \A j \in Entry : eventtab[j].active =>
       /\ j \in Device \cup {ev_misc}
       /\ \/ eventtab[j].evtime > currcycle
          \/ eventtab[j].evtime = currcycle /\ Ahead(j)

(* Outside of the pass the clock stops at every entry.                         *)
ClockInv ==
  ~InPass => /\ nextevent > currcycle
             /\ \A j \in Entry : eventtab[j].active => nextevent =< eventtab[j].evtime

(* A pending request is not behind the clock, nor farther off than the longest *)
(* delay; it is at the cycle it asks for, or one later and then the one stored *)
(* before it may still be pending at that cycle.                               *)
SlotInv ==
  /\ \A s \in Slot : eventtab2[s].active =>
       LET e == eventtab2[s] IN
       /\ currcycle =< e.evtime /\ e.evtime < currcycle + EVT_MAX
       /\ e.req.id =< stored
       /\ \/ e.evtime = e.req.due /\ ~OvertakesPrevious(e.req)
          \/ e.evtime = e.req.due + 1
  /\ \A s \in Slot : eventtab2[s].active /\ eventtab2[s].req.id = stored => s = last_event2

(* Unless MISC_handler is in progress, ev_misc is armed for every request.     *)
MiscArmedInv ==
  ~recursive => \A s \in Slot : eventtab2[s].active =>
    eventtab[ev_misc].active /\ eventtab[ev_misc].evtime =< eventtab2[s].evtime

(* The calls in progress. MISC_handler has left no due request behind in the   *)
(* slots it has been at, and knows their least distance or will pass again.    *)
MiscFrameInv(f) ==
  /\ f.mintime > 0 /\ (f.ran # "none" => f.i < ev2_max)
  /\ \A s \in Slot : eventtab2[s].active =>
       /\ s < f.i \/ (s = f.i /\ f.ran # "none") => eventtab2[s].evtime > currcycle
       /\ s < f.i => f.recheck \/ dorecheck \/ f.mintime =< eventtab2[s].evtime - currcycle

RequestFrameInv(f) ==
  f.et = f.req.due /\ f.et > currcycle /\ f.et + 1 < currcycle + EVT_MAX

LinkRuns(k) == k < Len(stack) /\ stack[k + 1].fn = "MISC_handler" /\ stack[k + 1].ran = "linked"

HandlerFrameInv(k) ==
  LET r == stack[k].req IN
  /\ r.id =< stored /\ currcycle =< r.due + 1
  /\ \/ currcycle >= r.due \/ stack[k].evicted
     \/ LinkRuns(k) /\ (eventtab2[stack[k + 1].i].evtime # currcycle \/ currcycle = r.due - 1)
  /\ LinkRuns(k) \/ ~OvertakesPrevious(r)

FrameInv(k) ==
  /\ stack[k].fn = "do_cycles_slow" => k = Len(stack)
  /\ stack[k].fn = "event2_newevent_xx" => RequestFrameInv(stack[k])
  /\ stack[k].fn = "MISC_handler" => MiscFrameInv(stack[k])
  /\ stack[k].fn = "handler" => HandlerFrameInv(k)

FramesInv == \A k \in Frames : FrameInv(k)

(* One MISC_handler is in progress, and between handlers it is on top; another *)
(* one called meanwhile leaves its mark, which is read when a handler returns. *)
OneMiscInv ==
  /\ \A k, l \in Frames : stack[k].fn = "MISC_handler" /\ stack[l].fn = "MISC_handler" => k = l
  /\ \A k \in Frames : stack[k].fn = "MISC_handler" /\ stack[k].ran = "none" => k = 1
  /\ dorecheck => \E k \in Frames : stack[k].fn = "MISC_handler" /\ stack[k].ran # "none"

DeviceInv == \A k \in Frames : stack[k].fn = "device" => InPass

EventsInv ==
  /\ TypeOK /\ EntryInv /\ ClockInv /\ SlotInv /\ MiscArmedInv
  /\ FramesInv /\ OneMiscInv /\ DeviceInv

--------------------------------------------------------------------------------
(* Numbers. A set of naturals has the least element that Min chooses.          *)
LEMMA MinNat ==
  ASSUME NEW S, S \subseteq Nat, S # {}
  PROVE  Min(S) \in S /\ \A y \in S : Min(S) =< y
<1>1. PICK x \in S : \A y \in S : ~(<<y, x>> \in OpToRel(<, Nat))
  BY NatLessThanWellFounded, WFMin, Zenon
<1>2. \A y \in S : ~(y < x)
  <2>1. ASSUME NEW y \in S, y < x PROVE FALSE
    <3>1. y \in Nat /\ x \in Nat
      OBVIOUS
    <3>2. <<y, x>> \in OpToRel(<, Nat)
      BY <2>1, <3>1, Zenon DEF OpToRel
    <3> QED BY <1>1, <3>2, Zenon
  <2> QED BY <2>1
<1>3. \A y \in S : x =< y
  BY <1>2
<1> QED BY <1>3, Zenon DEF Min

(* The remainder of a distance shorter than the ring is 0 only for 0.          *)
LEMMA Modulo ==
  ASSUME NEW n \in Nat \ {0}, NEW d \in Int
  PROVE  /\ d % n \in 0 .. n - 1
         /\ -n < d /\ d < n /\ d # 0 => d % n # 0
<1>1. d % n \in 0 .. n - 1
  OBVIOUS
<1>2. ASSUME 0 < d, d < n PROVE d % n # 0
  BY <1>2
<1>3. ASSUME -n < d, d < 0 PROVE d % n # 0
  BY <1>3
<1> QED BY <1>1, <1>2, <1>3

(* The calls in progress. The fields of a frame, by the function it is of.     *)
LEMMA FrameFields ==
  ASSUME NEW f \in Frame
  PROVE  /\ f.fn \in {"do_cycles_slow", "MISC_handler", "event2_newevent_xx", "handler", "device"}
         /\ f.fn = "do_cycles_slow" => f.i \in 0 .. Between /\ f.left \in Nat
         /\ f.fn = "MISC_handler" =>
              /\ f.i \in 0 .. ev2_max /\ f.mintime \in Nat /\ f.recheck \in BOOLEAN
              /\ f.ran \in {"none", "due", "linked"}
         /\ f.fn = "event2_newevent_xx" => f.no \in Slot /\ f.et \in Nat /\ f.req \in Request
         /\ f.fn = "handler" => f.req \in Request /\ f.evicted \in BOOLEAN
         /\ f.fn = "device" => f.i \in Device
BY DEF Frame

(* A frame that goes on with other values is still a frame.                    *)
LEMMA CycleFrame ==
  ASSUME NEW f \in Frame, f.fn = "do_cycles_slow", NEW i \in 0 .. Between, NEW l \in Nat
  PROVE  /\ [f EXCEPT !.i = i] \in Frame /\ [f EXCEPT !.i = i].fn = "do_cycles_slow"
         /\ [f EXCEPT !.i = i].i = i
         /\ [f EXCEPT !.i = i, !.left = l] \in Frame
         /\ [f EXCEPT !.i = i, !.left = l].fn = "do_cycles_slow"
         /\ [f EXCEPT !.i = i, !.left = l].i = i
<1>1. f \in [fn : {"do_cycles_slow"}, i : 0 .. Between, left : Nat]
  BY DEF Frame
<1>2. [f EXCEPT !.i = i] \in [fn : {"do_cycles_slow"}, i : 0 .. Between, left : Nat]
  BY <1>1
<1>3. [f EXCEPT !.i = i, !.left = l] \in [fn : {"do_cycles_slow"}, i : 0 .. Between, left : Nat]
  BY <1>1
<1> QED BY <1>1, <1>2, <1>3 DEF Frame

(* How a step changes the stack of calls: the n innermost frames are replaced  *)
(* by n2 others, and the frames below stay.                                    *)
Kept(n, n2) ==
  /\ n =< Len(stack) /\ n2 =< Len(stack') /\ Len(stack') - n2 = Len(stack) - n
  /\ \A k \in 1 .. Len(stack') : k > n2 => stack'[k] = stack[k - n2 + n]

(* The stack is a sequence of frames, and Top is its first.                    *)
LEMMA StackTypes ==
  ASSUME TypeOK
  PROVE  /\ stack \in Seq(Frame) /\ Len(stack) \in Nat /\ DOMAIN stack = Frames
         /\ \A k \in Frames : stack[k] \in Frame
         /\ stack # <<>> => Len(stack) >= 1 /\ Top = stack[1] /\ Top \in Frame
         /\ Len(stack) >= 1 => stack # <<>>
<1>1. stack \in Seq(Frame)
  BY DEF TypeOK
<1>2. Len(stack) \in Nat /\ DOMAIN stack = Frames
  BY <1>1, LenProperties DEF Frames
<1>3. \A k \in Frames : stack[k] \in Frame
  BY <1>1, ElementOfSeq DEF Frames
<1>4. stack # <<>> => Len(stack) >= 1 /\ Top = stack[1]
  BY <1>1, HeadTailProperties, EmptySeq, <1>2 DEF Top
<1> QED BY <1>1, <1>2, <1>3, <1>4 DEF Frames

(* A call puts its frame on top.                                               *)
LEMMA PushKeeps ==
  ASSUME TypeOK, NEW f \in Frame, Call(f)
  PROVE  /\ stack' \in Seq(Frame) /\ Len(stack') = Len(stack) + 1 /\ stack'[1] = f
         /\ Kept(0, 1)
<1>1. stack \in Seq(Frame) /\ Len(stack) \in Nat
  BY StackTypes
<1>2. <<f>> \in Seq(Frame) /\ Len(<<f>>) = 1 /\ <<f>>[1] = f
  OBVIOUS
<1>3. /\ stack' \in Seq(Frame) /\ Len(stack') = 1 + Len(stack)
      /\ \A k \in 1 .. 1 + Len(stack) : stack'[k] = IF k <= 1 THEN <<f>>[k] ELSE stack[k - 1]
  BY <1>1, <1>2, ConcatProperties DEF Call
<1> QED BY <1>1, <1>2, <1>3 DEF Kept

(* A return takes the top frame away.                                          *)
LEMMA ReturnKeeps ==
  ASSUME TypeOK, stack # <<>>, Return
  PROVE  stack' \in Seq(Frame) /\ Len(stack') = Len(stack) - 1 /\ Kept(1, 0)
<1>1. stack \in Seq(Frame) /\ Len(stack) \in Nat /\ Len(stack) >= 1
  BY StackTypes
<1>2. /\ stack' \in Seq(Frame) /\ Len(stack') = Len(stack) - 1
      /\ \A k \in 1 .. Len(stack') : stack'[k] = stack[k + 1]
  BY <1>1, HeadTailProperties DEF Return
<1> QED BY <1>1, <1>2 DEF Kept

(* A step of the top frame replaces it.                                        *)
LEMMA ContinueKeeps ==
  ASSUME TypeOK, stack # <<>>, NEW f \in Frame, Continue(f)
  PROVE  /\ stack' \in Seq(Frame) /\ Len(stack') = Len(stack) /\ stack'[1] = f
         /\ Kept(1, 1)
<1>1. stack \in Seq(Frame) /\ Len(stack) \in Nat /\ Len(stack) >= 1
  BY StackTypes
<1>2. /\ Tail(stack) \in Seq(Frame) /\ Len(Tail(stack)) = Len(stack) - 1
      /\ \A k \in 1 .. Len(Tail(stack)) : Tail(stack)[k] = stack[k + 1]
  BY <1>1, HeadTailProperties
<1>3. <<f>> \in Seq(Frame) /\ Len(<<f>>) = 1 /\ <<f>>[1] = f
  OBVIOUS
<1>4. /\ stack' \in Seq(Frame) /\ Len(stack') = 1 + Len(Tail(stack))
      /\ \A k \in 1 .. 1 + Len(Tail(stack)) :
           stack'[k] = IF k <= 1 THEN <<f>>[k] ELSE Tail(stack)[k - 1]
  BY <1>2, <1>3, ConcatProperties DEF Continue
<1>5. \A k \in 1 .. Len(stack') : k > 1 => stack'[k] = stack[k]
  BY <1>1, <1>2, <1>4
<1> QED BY <1>1, <1>2, <1>3, <1>4, <1>5 DEF Kept

(* A step of the top frame that calls: g is the caller as it goes on, f the    *)
(* callee.                                                                     *)
LEMMA CallFromKeeps ==
  ASSUME TypeOK, stack # <<>>, NEW f \in Frame, NEW g \in Frame,
         stack' = <<f, g>> \o Tail(stack)
  PROVE  /\ stack' \in Seq(Frame) /\ Len(stack') = Len(stack) + 1
         /\ stack'[1] = f /\ stack'[2] = g /\ Kept(1, 2)
<1>1. stack \in Seq(Frame) /\ Len(stack) \in Nat /\ Len(stack) >= 1
  BY StackTypes
<1>2. /\ Tail(stack) \in Seq(Frame) /\ Len(Tail(stack)) = Len(stack) - 1
      /\ \A k \in 1 .. Len(Tail(stack)) : Tail(stack)[k] = stack[k + 1]
  BY <1>1, HeadTailProperties
<1>3. <<f, g>> \in Seq(Frame) /\ Len(<<f, g>>) = 2 /\ <<f, g>>[1] = f /\ <<f, g>>[2] = g
  OBVIOUS
<1>4. /\ stack' \in Seq(Frame) /\ Len(stack') = 2 + Len(Tail(stack))
      /\ \A k \in 1 .. 2 + Len(Tail(stack)) :
           stack'[k] = IF k <= 2 THEN <<f, g>>[k] ELSE Tail(stack)[k - 2]
  BY <1>2, <1>3, ConcatProperties
<1>5. \A k \in 1 .. Len(stack') : k > 2 => stack'[k] = stack[k - 1]
  BY <1>1, <1>2, <1>4
<1> QED BY <1>1, <1>2, <1>3, <1>4, <1>5 DEF Kept

(* The kept frames, seen from the new stack and from the old one.              *)
LEMMA KeptFrames ==
  ASSUME TypeOK, TypeOK', NEW n \in 0 .. 2, NEW n2 \in 0 .. 2, Kept(n, n2)
  PROVE  /\ \A k \in Frames' : k > n2 => /\ k - n2 + n \in Frames /\ k - n2 + n > n
                                        /\ stack'[k] = stack[k - n2 + n]
         /\ \A k \in Frames : k > n => /\ k - n + n2 \in Frames' /\ k - n + n2 > n2
                                      /\ stack'[k - n + n2] = stack[k]
         /\ Len(stack) \in Nat /\ Len(stack') \in Nat
<1>1. Len(stack) \in Nat /\ Len(stack') \in Nat
  BY DEF TypeOK
<1>2. ASSUME NEW k \in Frames', k > n2
      PROVE  k - n2 + n \in Frames /\ k - n2 + n > n /\ stack'[k] = stack[k - n2 + n]
  BY <1>1, <1>2 DEF Kept, Frames
<1>3. ASSUME NEW k \in Frames, k > n
      PROVE  k - n + n2 \in Frames' /\ k - n + n2 > n2 /\ stack'[k - n + n2] = stack[k]
  <2>1. k - n + n2 \in 1 .. Len(stack') /\ k - n + n2 > n2 /\ k - n + n2 - n2 + n = k
    BY <1>1, <1>3 DEF Kept, Frames
  <2> QED BY <2>1 DEF Kept, Frames
<1> QED BY <1>1, <1>2, <1>3

(* A kept frame has the same frame below it and is the last when it was the    *)
(* last.                                                                       *)
LEMMA KeptPlace ==
  ASSUME TypeOK, TypeOK', NEW n \in 0 .. 2, NEW n2 \in 0 .. 2, Kept(n, n2),
         NEW k \in Frames', k > n2
  PROVE  LET j == k - n2 + n IN
         /\ Len(stack) \in Nat /\ Len(stack') \in Nat /\ j \in Frames /\ j > n
         /\ stack'[k] = stack[j] /\ (k < Len(stack') <=> j < Len(stack))
         /\ (k = Len(stack') <=> j = Len(stack))
         /\ (k < Len(stack') => stack'[k + 1] = stack[j + 1] /\ j + 1 \in Frames)
<1> DEFINE j == k - n2 + n
<1>1. Len(stack) \in Nat /\ Len(stack') \in Nat /\ j \in Frames /\ stack'[k] = stack[j]
  BY KeptFrames
<1>2. Len(stack') - n2 = Len(stack) - n
  BY DEF Kept
<1>3. /\ k \in Nat /\ j > n
      /\ (k < Len(stack') <=> j < Len(stack)) /\ (k = Len(stack') <=> j = Len(stack))
  BY <1>1, <1>2 DEF Frames
<1>4. ASSUME k < Len(stack') PROVE stack'[k + 1] = stack[j + 1] /\ j + 1 \in Frames
  <2>1. PICK m : m = k + 1
    OBVIOUS
  <2>2. m \in Frames' /\ m > n2 /\ m - n2 + n = j + 1
    BY <2>1, <1>1, <1>3, <1>4 DEF Frames
  <2>3. m - n2 + n \in Frames /\ stack'[m] = stack[m - n2 + n]
    BY <2>2, KeptFrames
  <2> QED BY <2>1, <2>2, <2>3
<1> QED BY <1>1, <1>3, <1>4

(* Frames of other functions than do_cycles_slow and device handlers come and  *)
(* go without an effect on the pass over eventtab.                             *)
Quiet(f) == f.fn \notin {"do_cycles_slow", "device"}

(* When quiet frames come and go, the pass over eventtab is where it was.      *)
LEMMA QuietKeepsPass ==
  ASSUME TypeOK, TypeOK', NEW n \in 0 .. 2, NEW n2 \in 0 .. 2, Kept(n, n2),
         \A k \in Frames : k =< n => Quiet(stack[k]),
         \A k \in Frames' : k =< n2 => Quiet(stack'[k])
  PROVE  (InPass' <=> InPass) /\ \A j \in Entry : Ahead(j)' <=> Ahead(j)
<1>1. \A k \in Frames' : ~Quiet(stack'[k]) =>
        k - n2 + n \in Frames /\ stack'[k] = stack[k - n2 + n]
  BY KeptFrames DEF Frames
<1>2. \A k \in Frames : ~Quiet(stack[k]) =>
        k - n + n2 \in Frames' /\ stack'[k - n + n2] = stack[k]
  BY KeptFrames DEF Frames
<1>3. InPass' <=> InPass
  BY <1>1, <1>2 DEF InPass, Quiet
<1>4. ASSUME NEW j \in Entry PROVE Ahead(j)' <=> Ahead(j)
  BY <1>1, <1>2 DEF Ahead, Quiet
<1> QED BY <1>3, <1>4

--------------------------------------------------------------------------------
(* Steps that only take requests out of eventtab2, or do nothing to it.        *)
Fewer ==
  \A s \in Slot : /\ eventtab2'[s].evtime = eventtab2[s].evtime
                  /\ eventtab2'[s].active =>
                       eventtab2[s].active /\ eventtab2'[s].req = eventtab2[s].req

SlotRecord == [active : BOOLEAN, evtime : Nat, next : Slot \cup {NoEvent}, req : Request]

(* An entry that is deactivated, or whose link changes, is an entry with the   *)
(* same time.                                                                  *)
LEMMA IdleIsSlot ==
  ASSUME NEW e \in SlotRecord
  PROVE  /\ Idle(e) \in SlotRecord /\ Idle(e).evtime = e.evtime /\ ~Idle(e).active
         /\ \A m \in Slot \cup {NoEvent} :
              LET d == [e EXCEPT !.next = m] IN
              /\ d \in SlotRecord /\ d.evtime = e.evtime /\ d.active = e.active /\ d.req = e.req
<1>1. NoRequest \in Request
  BY DEF NoRequest, Request
<1> QED BY <1>1 DEF Idle, SlotRecord

(* Removing requests takes them out and leaves the rest.                       *)
LEMMA WithoutIsFewer ==
  ASSUME TypeOK, NEW S, eventtab2' = Without(S)
  PROVE  /\ eventtab2' \in [Slot -> SlotRecord] /\ Fewer
         /\ \A s \in S \cap Slot : ~eventtab2'[s].active
<1>1. \A s \in Slot : eventtab2[s] \in SlotRecord
  BY DEF TypeOK, SlotRecord
<1>2. \A s \in Slot : eventtab2'[s] = IF s \in S THEN Idle(eventtab2[s]) ELSE eventtab2[s]
  BY DEF Without
<1>3. eventtab2' \in [Slot -> SlotRecord]
  BY <1>1, IdleIsSlot DEF Without
<1> QED BY <1>1, <1>2, <1>3, IdleIsSlot DEF Fewer

(* Running a request takes it out and leaves the rest.                         *)
LEMMA TakenIsFewer ==
  ASSUME TypeOK, NEW s \in Slot, eventtab2' = [eventtab2 EXCEPT ![s] = Idle(@)]
  PROVE  /\ eventtab2' \in [Slot -> SlotRecord] /\ Fewer /\ ~eventtab2'[s].active
<1>1. \A r \in Slot : eventtab2[r] \in SlotRecord
  BY DEF TypeOK, SlotRecord
<1>2. eventtab2 \in [Slot -> SlotRecord]
  BY DEF TypeOK, SlotRecord
<1>3. eventtab2' \in [Slot -> SlotRecord]
  BY <1>1, <1>2, IdleIsSlot
<1>4. \A r \in Slot : eventtab2'[r] = IF r = s THEN Idle(eventtab2[s]) ELSE eventtab2[r]
  BY <1>2
<1> QED BY <1>1, <1>3, <1>4, IdleIsSlot DEF Fewer

(* What holds of every pending request holds of fewer.                         *)
LEMMA FewerKeepsSlots ==
  ASSUME TypeOK, TypeOK', SlotInv, Fewer, UNCHANGED <<currcycle, stored, last_event2>>
  PROVE  SlotInv'
<1>1. \A r : OvertakesPrevious(r)' => OvertakesPrevious(r)
  BY DEF OvertakesPrevious, Fewer
<1> QED BY <1>1 DEF SlotInv, Fewer

(* The frames below the ones a step deals with keep what they rely on.         *)
LEMMA FewerKeepsFrames ==
  ASSUME TypeOK, TypeOK', FramesInv, Fewer, UNCHANGED <<currcycle, stored>>,
         NEW n \in 0 .. 2, NEW n2 \in 0 .. 2, Kept(n, n2),
         \/ dorecheck' = dorecheck
         \/ \A k \in Frames : k > n => stack[k].fn # "MISC_handler",
         NEW k \in Frames', k > n2
  PROVE  FrameInv(k)'
<1> DEFINE j == k - n2 + n
<1>1. /\ Len(stack) \in Nat /\ Len(stack') \in Nat /\ j \in Frames /\ j > n
      /\ stack'[k] = stack[j] /\ (k < Len(stack') <=> j < Len(stack))
      /\ (k = Len(stack') <=> j = Len(stack))
      /\ (k < Len(stack') => stack'[k + 1] = stack[j + 1] /\ j + 1 \in Frames)
  BY KeptPlace
<1> HIDE DEF j
<1>2. FrameInv(j)
  BY <1>1 DEF FramesInv
<1>3. stack[j] \in Frame /\ (k < Len(stack') => stack[j + 1] \in Frame)
  BY <1>1, StackTypes
<1>4. CASE stack[j].fn = "MISC_handler"
  <2>1. MiscFrameInv(stack[j]) /\ dorecheck' = dorecheck
    BY <1>1, <1>2, <1>4 DEF FrameInv
  <2>2. PICK f : f = stack[j]
    OBVIOUS
  <2>3. MiscFrameInv(f)'
    BY <2>1, <2>2 DEF MiscFrameInv, Fewer
  <2>4. f = stack'[k]
    BY <1>1, <2>2
  <2>5. MiscFrameInv(stack[k])'
    BY <2>3, <2>4 DEF MiscFrameInv
  <2> QED BY <1>1, <1>4, <2>5 DEF FrameInv
<1>5. CASE stack[j].fn = "handler"
  <2>1. HandlerFrameInv(j)
    BY <1>2, <1>5 DEF FrameInv
  <2>2. LinkRuns(k)' <=> LinkRuns(j)
    BY <1>1 DEF LinkRuns
  <2>3. ASSUME LinkRuns(j) PROVE stack[j + 1].i \in Slot
    BY <2>3, <1>1, <1>3, FrameFields, EventsAssumption
       DEF LinkRuns, FramesInv, FrameInv, MiscFrameInv, Slot
  <2>4. OvertakesPrevious(stack[k].req)' => OvertakesPrevious(stack[j].req)
    BY <1>1 DEF OvertakesPrevious, Fewer
  <2>5. HandlerFrameInv(k)'
    BY <1>1, <2>1, <2>2, <2>3, <2>4 DEF HandlerFrameInv, Fewer, LinkRuns
  <2> QED BY <1>1, <1>5, <2>5 DEF FrameInv
<1>6. CASE stack[j].fn \notin {"MISC_handler", "handler"}
  BY <1>1, <1>2, <1>6 DEF FrameInv, RequestFrameInv
<1> QED BY <1>4, <1>5, <1>6

(* Steps of frames other than MISC_handler.                                    *)
LEMMA OthersKeepMisc ==
  ASSUME TypeOK, TypeOK', OneMiscInv, UNCHANGED dorecheck,
         NEW n \in 0 .. 2, NEW n2 \in 0 .. 2, Kept(n, n2),
         \A k \in Frames : k =< n => stack[k].fn # "MISC_handler",
         \A k \in Frames' : k =< n2 => stack'[k].fn # "MISC_handler",
         n < n2 => \A k \in Frames : k = 1 => stack[k].fn # "MISC_handler"
  PROVE  OneMiscInv' /\ (recursive' <=> recursive)
<1>2. \A k \in Frames' : stack'[k].fn = "MISC_handler" =>
        k > n2 /\ k - n2 + n \in Frames /\ stack'[k] = stack[k - n2 + n]
  BY KeptFrames DEF Frames
<1>3. \A k \in Frames : stack[k].fn = "MISC_handler" =>
        k > n /\ k - n + n2 \in Frames' /\ stack'[k - n + n2] = stack[k]
  BY KeptFrames DEF Frames
<1>4. recursive' <=> recursive
  <2>1. DOMAIN stack = Frames /\ DOMAIN stack' = Frames'
    BY StackTypes, LenProperties DEF TypeOK, Frames
  <2> QED BY <2>1, <1>2, <1>3 DEF recursive
<1>5. \A k, l \in Frames' : stack'[k].fn = "MISC_handler" /\ stack'[l].fn = "MISC_handler" => k = l
  <2> SUFFICES ASSUME NEW k \in Frames', NEW l \in Frames',
                      stack'[k].fn = "MISC_handler", stack'[l].fn = "MISC_handler"
               PROVE  k = l
    OBVIOUS
  <2>1. k - n2 + n = l - n2 + n
    BY <1>2 DEF OneMiscInv
  <2> QED BY <2>1 DEF Frames
<1>6. \A k \in Frames' : stack'[k].fn = "MISC_handler" /\ stack'[k].ran = "none" => k = 1
  <2> SUFFICES ASSUME NEW k \in Frames', stack'[k].fn = "MISC_handler", stack'[k].ran = "none"
               PROVE  k = 1
    OBVIOUS
  <2>1. k > n2 /\ k - n2 + n \in Frames /\ k - n2 + n = 1 /\ stack[k - n2 + n].fn = "MISC_handler"
    BY <1>2 DEF OneMiscInv
  <2> QED BY <2>1 DEF Frames
<1>7. dorecheck' => \E k \in Frames' : stack'[k].fn = "MISC_handler" /\ stack'[k].ran # "none"
  BY <1>3 DEF OneMiscInv
<1> QED BY <1>4, <1>5, <1>6, <1>7 DEF OneMiscInv

(* The steps that change neither the clock nor eventtab, put nothing into      *)
(* eventtab2, and leave do_cycles_slow, devices and MISC_handler alone.        *)
LEMMA QuietStep ==
  ASSUME EventsInv, TypeOK', UNCHANGED <<clock, eventtab, last_event2, dorecheck, stored>>, Fewer,
         NEW n \in 0 .. 2, NEW n2 \in 0 .. 2, Kept(n, n2),
         \A k \in Frames : k =< n => Quiet(stack[k]) /\ stack[k].fn # "MISC_handler",
         \A k \in Frames' : k =< n2 =>
           Quiet(stack'[k]) /\ stack'[k].fn # "MISC_handler" /\ FrameInv(k)',
         n < n2 => \A k \in Frames : k = 1 => stack[k].fn # "MISC_handler"
  PROVE  EventsInv'
<1>1. TypeOK
  BY DEF EventsInv
<1>2. (InPass' <=> InPass) /\ \A j \in Entry : Ahead(j)' <=> Ahead(j)
  BY <1>1, QuietKeepsPass
<1>3. EntryInv' /\ ClockInv'
  BY <1>2 DEF EventsInv, EntryInv, ClockInv, clock
<1>4. SlotInv'
  BY <1>1, FewerKeepsSlots DEF EventsInv, clock
<1>5. OneMiscInv' /\ (recursive' <=> recursive)
  BY <1>1, OthersKeepMisc DEF EventsInv
<1>6. MiscArmedInv'
  BY <1>5 DEF EventsInv, MiscArmedInv, Fewer
<1>7. FramesInv'
  <2>1. ASSUME NEW k \in Frames', k > n2 PROVE FrameInv(k)'
    BY <1>1, <2>1, FewerKeepsFrames DEF EventsInv, clock
  <2> QED BY <2>1 DEF FramesInv, Frames
<1>8. DeviceInv'
  <2> SUFFICES ASSUME NEW k \in Frames', stack'[k].fn = "device" PROVE InPass
    BY <1>2 DEF DeviceInv
  <2>1. k > n2 /\ k - n2 + n \in Frames /\ stack'[k] = stack[k - n2 + n]
    BY <1>1, KeptFrames DEF Frames, Quiet
  <2> QED BY <2>1 DEF EventsInv, DeviceInv
<1> QED BY <1>3, <1>4, <1>5, <1>6, <1>7, <1>8 DEF EventsInv

--------------------------------------------------------------------------------
(* Requests and handlers.                                                      *)
LEMMA ClientOnTop ==
  ASSUME TypeOK, Client
  PROVE  \A k \in Frames : k = 1 => stack[k].fn # "MISC_handler"
BY StackTypes DEF Client, Running, Frames

(* A call for a delay of at least one cycle and less than EVT_MAX.             *)
LEMMA NewEventIsFrame ==
  ASSUME TypeOK, NEW no \in Slot, NEW f \in Func \cup {BlitterFunc}, NEW t \in Delay
  PROVE  /\ NewEvent(no, t, f) \in Frame /\ NewEvent(no, t, f).fn = "event2_newevent_xx"
         /\ RequestFrameInv(NewEvent(no, t, f))
<1>1. t \in Nat \ {0} /\ t + 1 < EVT_MAX /\ EVT_MAX \in Nat /\ currcycle \in Nat
  BY EventsAssumption DEF TypeOK
<1>2. [func |-> f, id |-> 0, due |-> currcycle + t] \in Request
  BY <1>1 DEF Request
<1> QED BY <1>1, <1>2 DEF NewEvent, Frame, RequestFrameInv

(* The frame of a handler holds the request it runs.                           *)
LEMMA HandlerIsFrame ==
  ASSUME NEW r \in Request, NEW b \in BOOLEAN
  PROVE  /\ HandlerFrame(r, b) \in Frame /\ HandlerFrame(r, b).fn = "handler"
         /\ HandlerFrame(r, b).req = r /\ HandlerFrame(r, b).evicted = b
BY DEF HandlerFrame, Frame

(* A call that is made by the CPU or by a handler: a request, or a handler     *)
(* called directly because the delay is 0.                                     *)
LEMMA CallKeeps ==
  ASSUME EventsInv, Client, Fewer, eventtab2' \in [Slot -> SlotRecord],
         UNCHANGED <<clock, eventtab, next, last_event2, dorecheck, stored>>,
         requests' \in 0 .. MaxRequests, NEW f \in Frame, Call(f),
         \/ f.fn = "event2_newevent_xx" /\ RequestFrameInv(f)
         \/ f.fn = "handler" /\ f.req.id = 0 /\ f.req.due = currcycle
  PROVE  EventsInv'
<1>1. TypeOK
  BY DEF EventsInv
<1>2. stack' \in Seq(Frame) /\ Len(stack') = Len(stack) + 1 /\ stack'[1] = f /\ Kept(0, 1)
  BY <1>1, PushKeeps
<1>3. TypeOK'
  BY <1>1, <1>2 DEF TypeOK, clock, SlotRecord
<1>4. FrameInv(1)'
  <2>1. CASE f.fn = "event2_newevent_xx" /\ RequestFrameInv(f)
    BY <2>1, <1>2 DEF FrameInv, RequestFrameInv, clock
  <2>2. CASE f.fn = "handler" /\ f.req.id = 0 /\ f.req.due = currcycle
    <3>1. currcycle \in Nat /\ stored \in Nat
      BY <1>1 DEF TypeOK
    <3>2. \A s \in Slot : eventtab2'[s].req.id \in Nat
      BY DEF SlotRecord, Request
    <3>3. ~OvertakesPrevious(stack[1].req)'
      BY <1>2, <2>2, <3>2 DEF OvertakesPrevious
    <3>4. HandlerFrameInv(1)'
      BY <1>2, <2>2, <3>1, <3>3 DEF HandlerFrameInv, clock
    <3> QED BY <1>2, <2>2, <3>4 DEF FrameInv
  <2> QED BY <2>1, <2>2
<1>5. \A k \in Frames' : k =< 1 => Quiet(stack'[k]) /\ stack'[k].fn # "MISC_handler" /\ FrameInv(k)'
  <2>1. \A k \in Frames' : k =< 1 => k = 1
    BY <1>2, StackTypes DEF Frames
  <2> QED BY <1>2, <1>4, <2>1 DEF Quiet
<1>6. \A k \in Frames : k =< 0 => Quiet(stack[k]) /\ stack[k].fn # "MISC_handler"
  BY DEF Frames
<1> QED BY <1>1, <1>2, <1>3, <1>5, <1>6, ClientOnTop, QuietStep

(* A step that leaves eventtab2 alone is one that takes nothing out.           *)
LEMMA SameIsFewer ==
  ASSUME TypeOK, UNCHANGED eventtab2
  PROVE  Fewer /\ eventtab2' \in [Slot -> SlotRecord]
BY DEF Fewer, TypeOK, SlotRecord

(* event2_newevent_xx is called, by a client or for the blitter.               *)
LEMMA NewEventKeeps ==
  ASSUME EventsInv, NEW f \in Func \cup {BlitterFunc}, NEW t \in Delay,
         event2_newevent_xx(f, t) \/ event2_newevent_blitter(t)
  PROVE  EventsInv'
<1>1. TypeOK
  BY DEF EventsInv
<1>2. /\ Client /\ Fewer /\ eventtab2' \in [Slot -> SlotRecord]
      /\ UNCHANGED <<clock, eventtab, next, last_event2, dorecheck, stored>>
      /\ requests' \in 0 .. MaxRequests
  BY <1>1, SameIsFewer, EventsAssumption
     DEF event2_newevent_xx, event2_newevent_blitter, MayCall, tables, TypeOK
<1>3. next \in Slot /\ ev2_blitter \in Slot
  BY <1>1, EventsAssumption DEF TypeOK, Slot, ev2_blitter, ev2_misc
<1>4. CASE event2_newevent_xx(f, t)
  BY <1>1, <1>2, <1>3, <1>4, NewEventIsFrame, CallKeeps DEF event2_newevent_xx
<1>5. CASE event2_newevent_blitter(t)
  BY <1>1, <1>2, <1>3, <1>5, NewEventIsFrame, CallKeeps DEF event2_newevent_blitter
<1> QED BY <1>4, <1>5

(* event2_newevent_x_replace and its variant remove, then call or request.     *)
LEMMA ReplaceKeeps ==
  ASSUME EventsInv, NEW f \in Func, NEW t \in Delay \cup {0},
         event2_newevent_x_replace(f, t) \/ event2_newevent_x_replace_exists(f, t)
  PROVE  EventsInv'
<1>1. TypeOK
  BY DEF EventsInv
<1>2. /\ Client /\ Fewer /\ eventtab2' \in [Slot -> SlotRecord]
      /\ UNCHANGED <<clock, eventtab, next, last_event2, dorecheck, stored>>
      /\ requests' \in 0 .. MaxRequests /\ Place(f, t)
  <2>1. /\ MayCall /\ UNCHANGED <<clock, eventtab, next, last_event2, dorecheck, stored>>
        /\ Place(f, t) /\ \E S : eventtab2' = Without(S)
    BY DEF event2_newevent_x_replace, event2_newevent_x_replace_exists
  <2>2. requests' \in 0 .. MaxRequests
    BY <1>1, <2>1, EventsAssumption DEF MayCall, Place, TypeOK
  <2> QED BY <1>1, <2>1, <2>2, WithoutIsFewer DEF MayCall
<1>3. CASE t # 0
  <2>1. next \in Slot /\ t \in Delay
    BY <1>1, <1>3 DEF TypeOK
  <2> QED BY <1>1, <1>2, <1>3, <2>1, NewEventIsFrame, CallKeeps DEF Place
<1>4. CASE t = 0
  <2> DEFINE r == NewEvent(next, 0, f).req
  <2>1. r \in Request /\ r.id = 0 /\ r.due = currcycle
    BY <1>1 DEF NewEvent, Request, TypeOK
  <2>2. Call(HandlerFrame(r, FALSE))
    BY <1>2, <1>4 DEF Place
  <2> HIDE DEF r
  <2> QED BY <1>2, <2>1, <2>2, HandlerIsFrame, CallKeeps
<1> QED BY <1>3, <1>4

(* event2_newevent_x_remove and event2_remevent take requests out.             *)
LEMMA RemoveKeeps ==
  ASSUME EventsInv, NEW f, NEW s, event2_newevent_x_remove(f) \/ event2_remevent(s)
  PROVE  EventsInv'
<1>1. TypeOK
  BY DEF EventsInv
<1>2. /\ UNCHANGED <<clock, eventtab, next, last_event2, dorecheck, stack, requests, stored>>
      /\ \E S : eventtab2' = Without(S)
  BY DEF event2_newevent_x_remove, event2_remevent
<1>3. Fewer /\ eventtab2' \in [Slot -> SlotRecord]
  BY <1>1, <1>2, WithoutIsFewer
<1>4. TypeOK'
  BY <1>1, <1>2, <1>3 DEF TypeOK, clock, SlotRecord
<1>5. Kept(0, 0)
  BY <1>1, <1>2, StackTypes DEF Kept, Frames
<1>6. /\ \A k \in Frames : k =< 0 => Quiet(stack[k]) /\ stack[k].fn # "MISC_handler"
      /\ \A k \in Frames' : k =< 0 =>
           Quiet(stack'[k]) /\ stack'[k].fn # "MISC_handler" /\ FrameInv(k)'
  BY DEF Frames
<1> QED BY <1>2, <1>3, <1>4, <1>5, <1>6, QuietStep

(* A handler returns: its caller goes on with what the handler has left.       *)
LEMMA HandlerReturnsKeeps ==
  ASSUME EventsInv, HandlerReturns
  PROVE  EventsInv'
<1>1. TypeOK /\ stack # <<>> /\ stack[1].fn = "handler"
  BY StackTypes DEF EventsInv, HandlerReturns, Running
<1>2. stack' \in Seq(Frame) /\ Kept(1, 0)
  BY <1>1, ReturnKeeps DEF HandlerReturns
<1>3. /\ UNCHANGED <<clock, eventtab, next, last_event2, dorecheck, requests, stored>>
      /\ Fewer /\ eventtab2' \in [Slot -> SlotRecord]
  BY <1>1, SameIsFewer DEF HandlerReturns, tables
<1>4. TypeOK'
  BY <1>1, <1>2, <1>3 DEF TypeOK, clock, SlotRecord
<1>5. \A k \in Frames : k =< 1 => Quiet(stack[k]) /\ stack[k].fn # "MISC_handler"
  <2>1. \A k \in Frames : k =< 1 => k = 1
    BY DEF Frames
  <2> QED BY <1>1, <2>1 DEF Quiet
<1>6. \A k \in Frames' : k =< 0 =>
           Quiet(stack'[k]) /\ stack'[k].fn # "MISC_handler" /\ FrameInv(k)'
  BY DEF Frames
<1> QED BY <1>2, <1>3, <1>4, <1>5, <1>6, QuietStep

(* The search for a slot.                                                      *)
LEMMA RingSlots ==
  ASSUME TypeOK, NEW no \in Slot \ {ev2_blitter}
  PROVE  /\ \A k \in Int : Nth(no, k) \in Slot \ {ev2_blitter}
         /\ Reach(no) \in Nat /\ Reach(no) > 0
<1>1. Ring \in Nat \ {0} /\ ev2_max = Ring + 1 /\ Slot \ {ev2_blitter} = 1 .. Ring
  BY EventsAssumption DEF Ring, Slot, ev2_misc, ev2_blitter
<1> HIDE DEF Ring
<1>2. next \in 1 .. Ring /\ no \in 1 .. Ring
  BY <1>1 DEF TypeOK
<1>3. ASSUME NEW k \in Int PROVE Nth(no, k) \in 1 .. Ring
  <2>1. no - ev2_misc + k \in Int
    BY <1>2 DEF ev2_misc
  <2>2. (no - ev2_misc + k) % Ring \in 0 .. Ring - 1
    BY <1>1, <2>1, Modulo
  <2> QED BY <1>1, <2>2 DEF Nth, ev2_misc
<1>4. next # no => (next - no) % Ring \in 0 .. Ring - 1 /\ (next - no) % Ring # 0
  <2>1. next - no \in Int /\ -Ring < next - no /\ next - no < Ring
    BY <1>1, <1>2
  <2>2. next # no => next - no # 0
    BY <1>2
  <2> QED BY <1>1, <2>1, <2>2, Modulo
<1> QED BY <1>1, <1>3, <1>4 DEF Reach

(* The search ends in a slot of the ring; if it finds none, every slot is in   *)
(* use.                                                                        *)
LEMMA FoundSlot ==
  ASSUME TypeOK, NEW f \in Frame, f.fn = "event2_newevent_xx", f.no # ev2_blitter
  PROVE  /\ Hits(f) # {} => Nth(f.no, Min(Hits(f))) \in Slot \ {ev2_blitter}
         /\ Hits(f) = {} => \E s \in Slot : eventtab2[s].active
<1>1. f.no \in Slot \ {ev2_blitter}
  BY FrameFields
<1>2. Hits(f) \subseteq Nat
  BY DEF Hits
<1>3. Hits(f) # {} => Min(Hits(f)) \in Nat
  BY <1>2, MinNat
<1>4. Hits(f) # {} => Nth(f.no, Min(Hits(f))) \in Slot \ {ev2_blitter}
  <2>1. \A k \in Int : Nth(f.no, k) \in Slot \ {ev2_blitter}
    BY <1>1, RingSlots
  <2> QED BY <1>3, <2>1
<1>5. ASSUME Hits(f) = {} PROVE \E s \in Slot : eventtab2[s].active
  <2>1. Reach(f.no) \in Nat /\ Reach(f.no) > 0 /\ Nth(f.no, 0) \in Slot
    BY <1>1, RingSlots
  <2>2. 0 \in 0 .. Reach(f.no) - 1
    BY <2>1
  <2>3. ~Usable(Nth(f.no, 0), f)
    BY <1>5, <2>2 DEF Hits
  <2> QED BY <2>1, <2>3 DEF Usable
<1> QED BY <1>4, <1>5

(* The request that makes room has the least time of all.                      *)
LEMMA SoonestSlot ==
  ASSUME TypeOK, \E s \in Slot : eventtab2[s].active
  PROVE  /\ Soonest \in Slot /\ eventtab2[Soonest].active
         /\ \A s \in Slot : eventtab2[s].active =>
              eventtab2[Soonest].evtime =< eventtab2[s].evtime
<1> DEFINE active == {s \in Slot : eventtab2[s].active}
           times  == {eventtab2[s].evtime : s \in active}
           first  == {s \in active : eventtab2[s].evtime = Min(times)}
<1>1. times \subseteq Nat /\ times # {}
  <2>1. PICK s \in active : TRUE
    OBVIOUS
  <2>2. eventtab2[s].evtime \in times
    BY <2>1
  <2>3. \A m \in active : eventtab2[m].evtime \in Nat
    BY DEF TypeOK
  <2> QED BY <2>2, <2>3
<1>2. Min(times) \in times /\ \A y \in times : Min(times) =< y
  BY ONLY <1>1, MinNat
<1>3. first \subseteq Nat /\ first # {}
  BY <1>2 DEF Slot
<1>4. Min(first) \in first
  BY ONLY <1>3, MinNat
<1>5. Soonest = Min(first)
  BY Zenon DEF Soonest
<1> QED BY <1>2, <1>4, <1>5

(* A full table: the request that is run has the least time, so that no other  *)
(* one is left to be before it.                                                *)
LEMMA RunSoonestKeeps ==
  ASSUME EventsInv, RunSoonest
  PROVE  EventsInv'
<1>1. TypeOK /\ SlotInv
  BY DEF EventsInv
<1>2. /\ stack # <<>> /\ Top = stack[1] /\ Top \in Frame /\ 1 \in Frames
      /\ Top.fn = "event2_newevent_xx" /\ Top.no # ev2_blitter /\ Hits(Top) = {}
  BY <1>1, StackTypes DEF RunSoonest, Running, Frames
<1>3. \E s \in Slot : eventtab2[s].active
  BY <1>1, <1>2, FoundSlot
<1> DEFINE r == eventtab2[Soonest].req
           g == [Top EXCEPT !.no = next]
<1>4. /\ Soonest \in Slot /\ eventtab2[Soonest].active /\ r \in Request
      /\ \A s \in Slot : eventtab2[s].active =>
           eventtab2[Soonest].evtime =< eventtab2[s].evtime
  BY <1>1, <1>3, SoonestSlot DEF TypeOK
<1>5. eventtab2' \in [Slot -> SlotRecord] /\ Fewer
  BY <1>1, <1>4, TakenIsFewer DEF RunSoonest
<1>6. /\ g \in Frame /\ g.fn = "event2_newevent_xx" /\ g.et = Top.et /\ g.req = Top.req
  <2>1. Top \in [fn : {"event2_newevent_xx"}, no : Slot, et : Nat, req : Request]
    BY <1>2 DEF Frame
  <2>2. g \in [fn : {"event2_newevent_xx"}, no : Slot, et : Nat, req : Request]
    BY <1>1, <2>1 DEF TypeOK
  <2> QED BY <2>1, <2>2 DEF Frame
<1>7. HandlerFrame(r, TRUE) \in Frame
  BY <1>4, HandlerIsFrame
<1>8. stack' = <<HandlerFrame(r, TRUE), g>> \o Tail(stack)
  BY DEF RunSoonest
<1> HIDE DEF r, g
<1>9. /\ stack' \in Seq(Frame) /\ Len(stack') = Len(stack) + 1
      /\ stack'[1] = HandlerFrame(r, TRUE) /\ stack'[2] = g /\ Kept(1, 2)
  BY <1>1, <1>2, <1>6, <1>7, <1>8, CallFromKeeps
<1>10. UNCHANGED <<clock, eventtab, next, last_event2, dorecheck, requests, stored>>
  BY DEF RunSoonest
<1>11. TypeOK'
  BY <1>1, <1>5, <1>9, <1>10 DEF TypeOK, clock, SlotRecord
<1>12. FrameInv(1)'
  <2>1. /\ currcycle =< r.due + 1 /\ r.id =< stored /\ currcycle \in Nat /\ r.due \in Nat
    BY <1>1, <1>4 DEF SlotInv, r, TypeOK, Request
  <2>2. ~OvertakesPrevious(r)
    <3>1. CASE eventtab2[Soonest].evtime = r.due /\ ~OvertakesPrevious(r)
      BY <3>1
    <3>2. CASE eventtab2[Soonest].evtime = r.due + 1
      BY <3>2, <1>4, <2>1 DEF OvertakesPrevious
    <3> QED BY <1>1, <1>4, <3>1, <3>2 DEF SlotInv, r
  <2>3. ~OvertakesPrevious(stack[1].req)'
    <3>1. stack'[1].req = r
      BY <1>4, <1>9, HandlerIsFrame
    <3> QED BY <3>1, <2>2, <1>5 DEF OvertakesPrevious, Fewer
  <2>4. HandlerFrameInv(1)'
    BY <2>1, <2>3, <1>4, <1>9, <1>10, HandlerIsFrame DEF HandlerFrameInv, clock
  <2> QED BY <2>4, <1>4, <1>9, HandlerIsFrame DEF FrameInv
<1>13. FrameInv(2)'
  <2>1. RequestFrameInv(Top)
    BY <1>2 DEF EventsInv, FramesInv, FrameInv
  <2> QED BY <2>1, <1>6, <1>9, <1>10 DEF FrameInv, RequestFrameInv, clock
<1>14. \A k \in Frames' : k =< 2 =>
         Quiet(stack'[k]) /\ stack'[k].fn # "MISC_handler" /\ FrameInv(k)'
  <2>1. \A k \in Frames' : k =< 2 => k = 1 \/ k = 2
    BY DEF Frames
  <2>2. stack'[1].fn = "handler" /\ stack'[2].fn = "event2_newevent_xx"
    BY <1>4, <1>6, <1>9, HandlerIsFrame
  <2> QED BY <1>12, <1>13, <2>1, <2>2 DEF Quiet
<1>15. \A k \in Frames : k =< 1 => Quiet(stack[k]) /\ stack[k].fn # "MISC_handler"
  <2>1. \A k \in Frames : k =< 1 => k = 1
    BY DEF Frames
  <2> QED BY <1>2, <2>1 DEF Quiet
<1> QED BY <1>2, <1>5, <1>9, <1>10, <1>11, <1>14, <1>15, QuietStep

--------------------------------------------------------------------------------
(* Storing a request.                                                          *)
LEMMA NewMiscFrame ==
  /\ MiscFrame \in Frame /\ MiscFrame.fn = "MISC_handler" /\ MiscFrame.ran = "none"
  /\ TypeOK => MiscFrameInv(MiscFrame)
<1>1. 0 \in 0 .. ev2_max /\ EVT_MAX \in Nat \ {0}
  BY EventsAssumption
<1>2. MiscFrame \in Frame /\ MiscFrame.fn = "MISC_handler" /\ MiscFrame.ran = "none"
  BY <1>1 DEF MiscFrame, Frame
<1>3. MiscFrameInv(MiscFrame)
  BY <1>1 DEF MiscFrameInv, MiscFrame, Slot
<1> QED BY <1>2, <1>3

(* One slot s has a new request, numbered next and due after this cycle.       *)
Stored(s) ==
  /\ s \in Slot /\ stored' = stored + 1
  /\ eventtab2'[s].active /\ eventtab2'[s].evtime > currcycle
  /\ eventtab2'[s].req.id = stored + 1
  /\ \A r \in Slot \ {s} : /\ eventtab2'[r].evtime = eventtab2[r].evtime
                           /\ eventtab2'[r].active = eventtab2[r].active
                           /\ eventtab2'[r].req = eventtab2[r].req

(* A new request is numbered past every request there was, so it is nobody's   *)
(* predecessor.                                                                *)
LEMMA StoredOvertakesNothing ==
  ASSUME TypeOK, TypeOK', NEW s, Stored(s), NEW r \in Request, r.id =< stored
  PROVE  OvertakesPrevious(r)' => OvertakesPrevious(r)
<1>1. stored \in Nat /\ r.id \in Nat /\ r.id - 1 # stored + 1
  BY DEF TypeOK, Request
<1> QED BY <1>1 DEF OvertakesPrevious, Stored

(* The frames below a request that is stored keep what they rely on:           *)
(* MISC_handler because it will pass again.                                    *)
LEMMA StoredKeepsFrames ==
  ASSUME TypeOK, TypeOK', FramesInv, NEW s, Stored(s), UNCHANGED currcycle,
         NEW n \in 0 .. 2, NEW n2 \in 0 .. 2, Kept(n, n2),
         dorecheck' \/ \A k \in Frames : stack[k].fn # "MISC_handler",
         NEW k \in Frames', k > n2
  PROVE  FrameInv(k)'
<1> DEFINE j == k - n2 + n
<1>1. /\ Len(stack) \in Nat /\ Len(stack') \in Nat /\ j \in Frames /\ j > n
      /\ stack'[k] = stack[j] /\ (k < Len(stack') <=> j < Len(stack))
      /\ (k = Len(stack') <=> j = Len(stack))
      /\ (k < Len(stack') => stack'[k + 1] = stack[j + 1] /\ j + 1 \in Frames)
  BY KeptPlace
<1> HIDE DEF j
<1>2. FrameInv(j)
  BY <1>1 DEF FramesInv
<1>3. stack[j] \in Frame /\ (k < Len(stack') => stack[j + 1] \in Frame)
  BY <1>1, StackTypes
<1>4. CASE stack[j].fn = "MISC_handler"
  <2>1. MiscFrameInv(stack[j]) /\ dorecheck'
    BY <1>1, <1>2, <1>4 DEF FrameInv
  <2>2. PICK f : f = stack[j]
    OBVIOUS
  <2>3. MiscFrameInv(f)'
    BY <2>1, <2>2 DEF MiscFrameInv, Stored
  <2>4. f = stack'[k]
    BY <1>1, <2>2
  <2>5. MiscFrameInv(stack[k])'
    BY <2>3, <2>4 DEF MiscFrameInv
  <2> QED BY <1>1, <1>4, <2>5 DEF FrameInv
<1>5. CASE stack[j].fn = "handler"
  <2>1. HandlerFrameInv(j)
    BY <1>2, <1>5 DEF FrameInv
  <2>2. LinkRuns(k)' <=> LinkRuns(j)
    BY <1>1 DEF LinkRuns
  <2>3. ASSUME LinkRuns(j) PROVE stack[j + 1].i \in Slot
    BY <2>3, <1>1, <1>3, FrameFields, EventsAssumption
       DEF LinkRuns, FramesInv, FrameInv, MiscFrameInv, Slot
  <2>4. stack[j].req \in Request /\ stored \in Nat /\ currcycle \in Nat
    BY <1>3, <1>5, FrameFields DEF TypeOK
  <2>5. PICK r : r = stack[j].req
    OBVIOUS
  <2>6. OvertakesPrevious(r)' => OvertakesPrevious(r)
    BY <2>1, <2>4, <2>5, StoredOvertakesNothing DEF HandlerFrameInv
  <2>7. stack'[k].req = r
    BY <1>1, <2>5
  <2>8. OvertakesPrevious(stack[k].req)' => OvertakesPrevious(stack[j].req)
    BY <2>5, <2>6, <2>7 DEF OvertakesPrevious
  <2>9. r.id \in Nat /\ r.id =< stored' /\ stack'[k].evicted = stack[j].evicted
    BY <1>1, <2>1, <2>4, <2>5 DEF HandlerFrameInv, Stored, Request
  <2>10. LinkRuns(j) /\ eventtab2[stack[j + 1].i].evtime # currcycle
           => eventtab2'[stack[j + 1].i].evtime # currcycle
    BY <2>3, <2>4 DEF Stored
  <2>11. HandlerFrameInv(k)'
    BY <1>1, <2>1, <2>2, <2>5, <2>7, <2>8, <2>9, <2>10 DEF HandlerFrameInv, LinkRuns
  <2> QED BY <1>1, <1>5, <2>11 DEF FrameInv
<1>6. CASE stack[j].fn \notin {"MISC_handler", "handler"}
  BY <1>1, <1>2, <1>6 DEF FrameInv, RequestFrameInv
<1> QED BY <1>4, <1>5, <1>6

(* What Store does to eventtab2: the new request asks for cycle et, and is put *)
(* there only if the request stored before it is not pending there.            *)
LEMMA StoreSlots ==
  ASSUME EventsInv, NEW s \in Slot, stack # <<>>, Top.fn = "event2_newevent_xx",
         Store(s, Top.et)
  PROVE  /\ eventtab2' \in [Slot -> SlotRecord] /\ Stored(s)
         /\ stored' \in Nat /\ last_event2' = s /\ currcycle' = currcycle
         /\ TypeOK' => SlotInv'
<1>1. /\ TypeOK /\ SlotInv /\ Top = stack[1] /\ Top \in Frame /\ 1 \in Frames
  BY StackTypes DEF EventsInv, Frames
<1>2. Top.et \in Nat /\ Top.req \in Request /\ RequestFrameInv(Top)
  BY <1>1, FrameFields DEF EventsInv, FramesInv, FrameInv
<1>3. currcycle \in Nat /\ stored \in Nat /\ EVT_MAX \in Nat
  BY <1>1, EventsAssumption DEF TypeOK
<1> DEFINE et == Top.et
           behind == /\ last_event2 # dummy_event /\ eventtab2[last_event2].active
                     /\ last_event2 # s /\ et = eventtab2[last_event2].evtime
           linked == IF behind THEN [eventtab2 EXCEPT ![last_event2].next = s] ELSE eventtab2
           new == [linked[s] EXCEPT !.active = TRUE, !.req = Numbered(Top.req),
                                    !.evtime = IF behind THEN et + 1 ELSE et]
<1>4. /\ eventtab2' = [linked EXCEPT ![s] = new] /\ last_event2' = s /\ stored' = stored + 1
      /\ currcycle' = currcycle
  BY DEF Store, clock
<1>5. \A r \in Slot : eventtab2[r] \in SlotRecord
  BY <1>1 DEF TypeOK, SlotRecord
<1>6. eventtab2 \in [Slot -> SlotRecord]
  BY <1>1 DEF TypeOK, SlotRecord
<1>7. /\ linked \in [Slot -> SlotRecord]
      /\ \A r \in Slot : /\ linked[r].active = eventtab2[r].active
                         /\ linked[r].evtime = eventtab2[r].evtime
                         /\ linked[r].req = eventtab2[r].req
  <2>1. CASE behind
    <3>1. last_event2 \in Slot
      BY <1>1, <2>1 DEF TypeOK
    <3>2. linked = [eventtab2 EXCEPT ![last_event2] = [eventtab2[last_event2] EXCEPT !.next = s]]
      BY <2>1
    <3>3. [eventtab2[last_event2] EXCEPT !.next = s] \in SlotRecord
      BY <3>1, <1>5 DEF SlotRecord
    <3> QED BY <3>1, <3>2, <3>3, <1>5, <1>6 DEF SlotRecord
  <2>2. CASE ~behind
    BY <2>2, <1>6
  <2> QED BY <2>1, <2>2
<1>8. /\ Numbered(Top.req) \in Request /\ Numbered(Top.req).id = stored + 1
      /\ Numbered(Top.req).due = et
  BY <1>2, <1>3 DEF Numbered, Request, RequestFrameInv
<1>9. /\ new \in SlotRecord /\ new.active /\ new.req = Numbered(Top.req)
      /\ new.evtime = IF behind THEN et + 1 ELSE et
  <2>1. linked[s] \in SlotRecord /\ (IF behind THEN et + 1 ELSE et) \in Nat
    BY <1>2, <1>7
  <2> HIDE DEF linked, behind
  <2> QED BY <2>1, <1>8 DEF SlotRecord
<1> HIDE DEF new, linked
<1>10. /\ eventtab2' \in [Slot -> SlotRecord] /\ eventtab2'[s] = new
       /\ \A r \in Slot \ {s} : eventtab2'[r] = linked[r]
  BY <1>4, <1>7, <1>9
<1>11. Stored(s)
  BY <1>2, <1>3, <1>4, <1>7, <1>8, <1>9, <1>10 DEF Stored, RequestFrameInv
<1>12. ASSUME TypeOK' PROVE SlotInv'
  <2>1. ASSUME NEW r \in Slot \ {s}, eventtab2'[r].active
        PROVE  LET e == eventtab2'[r] IN
               /\ currcycle =< e.evtime /\ e.evtime < currcycle + EVT_MAX
               /\ e.req.id =< stored
               /\ \/ e.evtime = e.req.due /\ ~OvertakesPrevious(eventtab2[r].req)'
                  \/ e.evtime = e.req.due + 1
    <3>1. eventtab2[r].active /\ eventtab2[r].req \in Request /\ eventtab2[r].req.id =< stored
      BY <2>1, <1>1, <1>5, <1>11 DEF Stored, SlotInv, SlotRecord
    <3>2. PICK q : q = eventtab2[r].req
      OBVIOUS
    <3>3. OvertakesPrevious(q)' => OvertakesPrevious(q)
      BY <3>1, <3>2, <1>1, <1>11, <1>12, StoredOvertakesNothing
    <3>4. eventtab2'[r].req = q
      BY <3>2, <1>11 DEF Stored
    <3>5. OvertakesPrevious(eventtab2[r].req)' => OvertakesPrevious(eventtab2[r].req)
      BY <3>2, <3>3, <3>4 DEF OvertakesPrevious
    <3> QED BY <3>1, <3>5, <1>1, <1>11 DEF Stored, SlotInv
  <2>2. /\ currcycle =< new.evtime /\ new.evtime < currcycle + EVT_MAX
        /\ new.req.id = stored + 1
    BY <1>2, <1>3, <1>8, <1>9 DEF RequestFrameInv
  <2>3. \/ new.evtime = new.req.due /\ ~OvertakesPrevious(eventtab2[s].req)'
        \/ new.evtime = new.req.due + 1
    <3>1. CASE behind
      BY <3>1, <1>8, <1>9
    <3>2. CASE ~behind
      <4>1. ASSUME NEW r \in Slot, eventtab2'[r].active, eventtab2'[r].req.id = stored + 1 - 1,
                   eventtab2'[r].evtime = et
            PROVE  FALSE
        <5>1. r # s
          BY <4>1, <2>2, <1>3, <1>10
        <5>2. eventtab2[r].active /\ eventtab2[r].req.id = stored /\ eventtab2[r].evtime = et
          BY <4>1, <5>1, <1>3, <1>11 DEF Stored
        <5>3. r = last_event2 /\ last_event2 # dummy_event
          BY <5>2, <1>1 DEF SlotInv, Slot, dummy_event
        <5> QED BY <5>1, <5>2, <5>3, <3>2
      <4>2. ~OvertakesPrevious(eventtab2[s].req)'
        <5>1. eventtab2'[s].req.id = stored + 1 /\ eventtab2'[s].req.due = et
          BY <1>8, <1>9, <1>10
        <5> QED BY <1>3, <4>1, <5>1 DEF OvertakesPrevious
      <4> QED BY <4>2, <3>2, <1>8, <1>9
    <3> QED BY <3>1, <3>2
  <2>4. ASSUME NEW r \in Slot, eventtab2'[r].active, eventtab2'[r].req.id = stored'
        PROVE  r = last_event2'
    BY <2>4, <2>1, <1>3, <1>4, <1>5, <1>11 DEF Stored, SlotRecord, Request
  <2>5. ASSUME NEW r \in Slot, eventtab2'[r].active
        PROVE  LET e == eventtab2'[r] IN
               /\ currcycle =< e.evtime /\ e.evtime < currcycle + EVT_MAX
               /\ e.req.id =< stored'
               /\ \/ e.evtime = e.req.due /\ ~OvertakesPrevious(eventtab2[r].req)'
                  \/ e.evtime = e.req.due + 1
    <3>1. CASE r = s
      BY <3>1, <2>2, <2>3, <1>3, <1>4, <1>10
    <3>2. CASE r # s
      <4>1. eventtab2'[r].req.id \in Nat
        BY <1>10 DEF SlotRecord, Request
      <4> QED BY <4>1, <3>2, <2>1, <2>5, <1>3, <1>4
    <3> QED BY <3>1, <3>2
  <2> QED BY <2>4, <2>5, <1>4 DEF SlotInv
<1> QED BY <1>3, <1>4, <1>10, <1>11, <1>12

(* An entry of eventtab with a new value.                                      *)
LEMMA EntriesKeepType ==
  ASSUME TypeOK, NEW i \in Entry
  PROVE  /\ [eventtab EXCEPT ![i].active = FALSE] \in [Entry -> [active : BOOLEAN, evtime : Nat]]
         /\ \A t \in Nat :
              /\ [eventtab EXCEPT ![i].evtime = t] \in [Entry -> [active : BOOLEAN, evtime : Nat]]
              /\ [eventtab EXCEPT ![i] = [active |-> TRUE, evtime |-> t]]
                   \in [Entry -> [active : BOOLEAN, evtime : Nat]]
BY DEF TypeOK

(* Store: MISC_handler takes over if none is in progress, and the one in       *)
(* progress is told otherwise.                                                 *)
LEMMA StoreKeeps ==
  ASSUME EventsInv, NEW s \in Slot, Running("event2_newevent_xx"), Store(s, Top.et),
         next' \in Slot \ {ev2_blitter}
  PROVE  EventsInv'
<1>1. /\ TypeOK /\ stack # <<>> /\ Top = stack[1] /\ 1 \in Frames
      /\ stack[1].fn = "event2_newevent_xx"
  BY StackTypes DEF EventsInv, Frames, Running
<1>2. /\ eventtab2' \in [Slot -> SlotRecord] /\ Stored(s) /\ stored' \in Nat
      /\ last_event2' = s /\ currcycle' = currcycle /\ (TypeOK' => SlotInv')
  BY <1>1, StoreSlots
<1>3. UNCHANGED <<nextevent, requests>>
  BY DEF Store, clock
<1>4. \A k \in Frames : k =< 1 => Quiet(stack[k]) /\ stack[k].fn # "MISC_handler"
  <2>1. \A k \in Frames : k =< 1 => k = 1
    BY DEF Frames
  <2> QED BY <1>1, <2>1 DEF Quiet
<1>5. CASE recursive
  <2>1. dorecheck' = TRUE /\ Return /\ UNCHANGED eventtab
    BY <1>5 DEF Store
  <2>2. stack' \in Seq(Frame) /\ Len(stack') = Len(stack) - 1 /\ Kept(1, 0)
    BY <1>1, <2>1, ReturnKeeps
  <2>3. TypeOK'
    BY <1>1, <1>2, <1>3, <2>1, <2>2 DEF TypeOK, SlotRecord
  <2>4. (InPass' <=> InPass) /\ \A j \in Entry : Ahead(j)' <=> Ahead(j)
    <3>1. \A k \in Frames' : k =< 0 => Quiet(stack'[k])
      BY DEF Frames
    <3> QED BY <1>1, <1>4, <2>2, <2>3, <3>1, QuietKeepsPass
  <2>5. EntryInv' /\ ClockInv'
    BY <2>1, <2>4, <1>2, <1>3 DEF EventsInv, EntryInv, ClockInv
  <2>6. FramesInv'
    <3>1. \A k \in Frames' : k > 0
      BY DEF Frames
    <3>2. ASSUME NEW k \in Frames', k > 0 PROVE FrameInv(k)'
      BY <3>2, <1>1, <1>2, <2>1, <2>2, <2>3, StoredKeepsFrames DEF EventsInv
    <3> QED BY <3>1, <3>2 DEF FramesInv
  <2>7. \A k \in Frames' : k + 1 \in Frames /\ stack'[k] = stack[k + 1]
    <3>1. \A k \in Frames' : k > 0 /\ k - 0 + 1 = k + 1
      BY DEF Frames
    <3> QED BY <1>1, <2>2, <2>3, <3>1, KeptFrames
  <2>8. PICK m \in Frames : stack[m].fn = "MISC_handler"
    BY <1>1, <1>5, StackTypes DEF recursive
  <2>9. m > 1 /\ m - 1 \in Frames' /\ stack'[m - 1] = stack[m] /\ stack[m].ran # "none"
    <3>1. m > 1 /\ stack[m].ran # "none"
      BY <2>8, <1>1, <1>4 DEF EventsInv, OneMiscInv, Frames
    <3>2. m - 1 + 0 = m - 1
      BY DEF Frames
    <3> QED BY <1>1, <2>2, <2>3, <3>1, <3>2, KeptFrames
  <2>10. OneMiscInv'
    <3>1. \A k, l \in Frames' :
            stack'[k].fn = "MISC_handler" /\ stack'[l].fn = "MISC_handler" => k = l
      BY <2>7 DEF EventsInv, OneMiscInv, Frames
    <3>2. \A k \in Frames' : stack'[k].fn = "MISC_handler" => stack'[k].ran # "none"
      BY <2>7, <2>8, <2>9 DEF EventsInv, OneMiscInv
    <3> QED BY <3>1, <3>2, <2>8, <2>9 DEF OneMiscInv
  <2>11. MiscArmedInv'
    <3>1. recursive'
      BY <2>3, <2>8, <2>9, StackTypes, LenProperties DEF recursive, Frames, TypeOK
    <3> QED BY <3>1 DEF MiscArmedInv
  <2>12. DeviceInv'
    BY <2>4, <2>7 DEF EventsInv, DeviceInv
  <2> QED BY <1>2, <2>3, <2>5, <2>6, <2>10, <2>11, <2>12 DEF EventsInv
<1>6. CASE ~recursive
  <2>1. /\ eventtab' = [eventtab EXCEPT ![ev_misc].active = FALSE]
        /\ Continue(MiscFrame) /\ dorecheck' = dorecheck
    BY <1>6 DEF Store
  <2>2. /\ stack' \in Seq(Frame) /\ Len(stack') = Len(stack) /\ stack'[1] = MiscFrame
        /\ Kept(1, 1)
    BY <1>1, <2>1, ContinueKeeps, NewMiscFrame
  <2>3. TypeOK'
    <3>1. eventtab' \in [Entry -> [active : BOOLEAN, evtime : Nat]]
      BY <1>1, <2>1, EntriesKeepType DEF Entry, ev_misc, ev_max
    <3> QED BY <1>1, <1>2, <1>3, <2>1, <2>2, <3>1 DEF TypeOK, SlotRecord
  <2>4. \A k \in Frames : stack[k].fn # "MISC_handler"
    BY <1>1, <1>6, StackTypes DEF recursive
  <2>5. \A k \in Frames' : k = 1 \/ (k > 1 /\ k \in Frames /\ stack'[k] = stack[k])
    <3>1. \A k \in Frames' : k - 1 + 1 = k /\ (k = 1 \/ k > 1)
      BY DEF Frames
    <3> QED BY <1>1, <2>2, <2>3, <3>1, KeptFrames
  <2>6. (InPass' <=> InPass) /\ \A j \in Entry : Ahead(j)' <=> Ahead(j)
    <3>1. stack'[1].fn = "MISC_handler"
      BY <2>2, NewMiscFrame
    <3>2. \A k \in Frames' : k =< 1 => k = 1
      BY DEF Frames
    <3>3. \A k \in Frames' : k =< 1 => Quiet(stack'[k])
      BY <3>1, <3>2 DEF Quiet
    <3> QED BY <1>1, <1>4, <2>2, <2>3, <3>3, QuietKeepsPass
  <2>7. \A j \in Entry : /\ eventtab'[j].evtime = eventtab[j].evtime
                         /\ eventtab'[j].active = (j # ev_misc /\ eventtab[j].active)
    BY <1>1, <2>1 DEF TypeOK
  <2>8. EntryInv' /\ ClockInv'
    <3>1. ev_hsync \in Entry /\ ev_hsync # ev_misc
      BY DEF Entry, ev_hsync, ev_misc, ev_max
    <3>2. EntryInv /\ ClockInv
      BY DEF EventsInv
    <3>3. EntryInv'
      BY <3>1, <3>2, <2>6, <2>7, <1>2 DEF EntryInv
    <3>4. ClockInv'
      BY <3>2, <2>6, <2>7, <1>2, <1>3 DEF ClockInv
    <3> QED BY <3>3, <3>4
  <2>9. FramesInv'
    <3>1. ASSUME NEW k \in Frames', k > 1 PROVE FrameInv(k)'
      BY <3>1, <1>1, <1>2, <2>2, <2>3, <2>4, StoredKeepsFrames DEF EventsInv
    <3>2. FrameInv(1)'
      <4>1. PICK f : f = MiscFrame
        OBVIOUS
      <4>2. MiscFrameInv(f)' /\ stack'[1] = f
        BY <1>1, <2>2, <4>1, EventsAssumption DEF MiscFrameInv, MiscFrame, Slot
      <4> QED BY <4>1, <4>2, NewMiscFrame DEF FrameInv, MiscFrameInv
    <3> QED BY <2>5, <3>1, <3>2 DEF FramesInv
  <2>10. OneMiscInv'
    <3>1. ~dorecheck
      BY <2>4 DEF EventsInv, OneMiscInv
    <3>2. \A k \in Frames' : stack'[k].fn = "MISC_handler" => k = 1
      BY <2>4, <2>5
    <3> QED BY <2>1, <3>1, <3>2 DEF OneMiscInv
  <2>11. MiscArmedInv'
    <3>1. 1 \in DOMAIN stack' /\ stack'[1].fn = "MISC_handler"
      BY <1>1, <2>2, NewMiscFrame, LenProperties DEF Frames
    <3> QED BY <3>1 DEF MiscArmedInv, recursive
  <2>12. DeviceInv'
    BY <2>2, <2>5, <2>6, NewMiscFrame DEF EventsInv, DeviceInv
  <2> QED BY <1>2, <2>3, <2>8, <2>9, <2>10, <2>11, <2>12 DEF EventsInv
<1> QED BY <1>5, <1>6

(* The reserved slot of the blitter.                                           *)
LEMMA StoreBlitterKeeps ==
  ASSUME EventsInv, StoreBlitter
  PROVE  EventsInv'
<1>1. ev2_blitter \in Slot /\ next' \in Slot \ {ev2_blitter}
  BY EventsAssumption DEF EventsInv, TypeOK, StoreBlitter, Slot, ev2_blitter, ev2_misc
<1> QED BY <1>1, StoreKeeps DEF StoreBlitter

(* The slot the search has found.                                              *)
LEMMA StoreRequestKeeps ==
  ASSUME EventsInv, StoreRequest
  PROVE  EventsInv'
<1>1. TypeOK /\ Top \in Frame /\ Top.fn = "event2_newevent_xx" /\ Top.no # ev2_blitter
  BY StackTypes DEF EventsInv, StoreRequest, Running
<1> DEFINE s == Nth(Top.no, Min(Hits(Top)))
<1>2. s \in Slot \ {ev2_blitter}
  BY <1>1, FoundSlot DEF StoreRequest
<1>3. next' = s /\ Store(s, Top.et) /\ Running("event2_newevent_xx")
  BY DEF StoreRequest
<1> HIDE DEF s
<1> QED BY <1>2, <1>3, StoreKeeps

--------------------------------------------------------------------------------
(* The passes of MISC_handler.                                                 *)
LEMMA MiscOnTop ==
  ASSUME EventsInv, Running("MISC_handler")
  PROVE  /\ TypeOK /\ stack # <<>> /\ Top = stack[1] /\ Top \in Frame /\ 1 \in Frames
         /\ stack[1].fn = "MISC_handler" /\ MiscFrameInv(Top) /\ recursive
         /\ Top.i \in 0 .. ev2_max /\ Top.mintime \in Nat /\ Top.recheck \in BOOLEAN
         /\ Top.ran \in {"none", "due", "linked"} /\ (Top.ran = "none" => ~dorecheck)
         /\ \A k \in Frames : k > 1 => stack[k].fn # "MISC_handler"
         /\ \A k \in Frames : k =< 1 => Quiet(stack[k])
<1>1. /\ TypeOK /\ stack # <<>> /\ Top = stack[1] /\ Top \in Frame /\ 1 \in Frames
      /\ stack[1].fn = "MISC_handler"
  BY StackTypes DEF EventsInv, Running, Frames
<1>2. MiscFrameInv(Top)
  BY <1>1 DEF EventsInv, FramesInv, FrameInv
<1>3. recursive
  BY <1>1, StackTypes DEF recursive
<1>4. \A k \in Frames : k > 1 => stack[k].fn # "MISC_handler"
  BY <1>1 DEF EventsInv, OneMiscInv, Frames
<1>5. Top.ran = "none" => ~dorecheck
  BY <1>1 DEF EventsInv, OneMiscInv
<1>6. \A k \in Frames : k =< 1 => k = 1
  BY DEF Frames
<1> QED BY <1>1, <1>2, <1>3, <1>4, <1>5, <1>6, FrameFields DEF Quiet

(* The due slot that MISC_handler comes to next, and the ones it skips.        *)
LEMMA NextDueSlot ==
  ASSUME TypeOK, SlotInv, NEW i \in 0 .. ev2_max
  PROVE  /\ DueSlots(i) # {} =>
              LET s == Min(DueSlots(i)) IN
              /\ s \in Slot /\ s >= i /\ eventtab2[s].active /\ eventtab2[s].evtime = currcycle
              /\ \A r \in Slot : i =< r /\ r < s /\ eventtab2[r].active =>
                   eventtab2[r].evtime > currcycle
         /\ DueSlots(i) = {} =>
              \A r \in Slot : i =< r /\ eventtab2[r].active => eventtab2[r].evtime > currcycle
<1>1. DueSlots(i) \subseteq Nat
  BY DEF DueSlots
<1>2. \A r \in Slot : i =< r => r \in i .. ev2_max - 1
  BY EventsAssumption DEF Slot
<1>3. \A r \in Slot : r \in Nat /\ eventtab2[r].evtime \in Nat
  BY DEF TypeOK, Slot
<1>4. currcycle \in Nat
  BY DEF TypeOK
<1>5. \A r \in Slot : i =< r /\ eventtab2[r].active /\ r \notin DueSlots(i)
        => eventtab2[r].evtime > currcycle
  BY <1>2, <1>3, <1>4 DEF DueSlots, SlotInv
<1>6. CASE DueSlots(i) # {}
  <2>1. PICK s : s = Min(DueSlots(i))
    OBVIOUS
  <2>2. s \in DueSlots(i) /\ \A y \in DueSlots(i) : s =< y
    BY <2>1, <1>1, <1>6, MinNat
  <2>3. s \in Slot /\ s >= i /\ eventtab2[s].active /\ eventtab2[s].evtime = currcycle
    BY <2>2 DEF DueSlots, Slot
  <2>4. \A r \in Slot : i =< r /\ r < s /\ eventtab2[r].active => eventtab2[r].evtime > currcycle
    BY <2>2, <2>3, <1>3, <1>5
  <2> QED BY <2>1, <2>3, <2>4, <1>6
<1> QED BY <1>5, <1>6

(* mintime after some slots that are not due.                                  *)
LEMMA LeastDistance ==
  ASSUME TypeOK, NEW m \in Nat \ {0}, NEW i \in 0 .. ev2_max, NEW j \in 0 .. ev2_max,
         \A s \in Slot : i =< s /\ s < j /\ eventtab2[s].active => eventtab2[s].evtime > currcycle
  PROVE  LET d == MinTime(m, i, j) IN
         /\ d \in Nat \ {0} /\ d =< m
         /\ \A s \in Slot : i =< s /\ s < j /\ eventtab2[s].active =>
              d =< eventtab2[s].evtime - currcycle
<1> DEFINE seen == {r \in i .. j - 1 : eventtab2[r].active}
           all == {m} \cup {eventtab2[s].evtime - currcycle : s \in seen}
<1>1. \A s \in seen : s \in Slot /\ eventtab2[s].evtime - currcycle \in Nat \ {0}
  <2>1. currcycle \in Nat /\ \A s \in Slot : eventtab2[s].evtime \in Nat
    BY DEF TypeOK
  <2>2. \A s \in seen : s \in Slot /\ i =< s /\ s < j /\ eventtab2[s].active
    BY EventsAssumption DEF Slot
  <2> QED BY <2>1, <2>2
<1>2. all \subseteq Nat \ {0} /\ m \in all
  BY <1>1
<1>3. \A s \in Slot : i =< s /\ s < j /\ eventtab2[s].active => s \in seen
  BY EventsAssumption DEF Slot
<1>4. \A s \in seen : eventtab2[s].evtime - currcycle \in all
  OBVIOUS
<1>5. MinTime(m, i, j) = Min(all)
  BY Zenon DEF MinTime
<1> HIDE DEF all, seen
<1>6. Min(all) \in all /\ \A y \in all : Min(all) =< y
  <2>1. all \subseteq Nat /\ all # {}
    BY <1>2
  <2> QED BY ONLY <2>1, MinNat
<1> QED BY <1>2, <1>3, <1>4, <1>5, <1>6

(* MISC_handler runs a request: g is its own frame.                            *)
LEMMA MiscRunsKeeps ==
  ASSUME EventsInv, Running("MISC_handler"), Fewer, eventtab2' \in [Slot -> SlotRecord],
         NEW r \in Request, NEW g \in Frame, g.fn = "MISC_handler", g.ran # "none",
         stack' = <<HandlerFrame(r, FALSE), g>> \o Tail(stack),
         UNCHANGED <<clock, eventtab, next, last_event2, dorecheck, requests, stored>>,
         MiscFrameInv(g)',
         r.id =< stored, currcycle =< r.due + 1,
         \/ currcycle >= r.due
         \/ g.ran = "linked" /\ (eventtab2'[g.i].evtime # currcycle \/ currcycle = r.due - 1),
         g.ran = "linked" \/ ~OvertakesPrevious(r)
  PROVE  EventsInv'
<1>1. /\ TypeOK /\ stack # <<>> /\ 1 \in Frames
      /\ stack[1].fn = "MISC_handler" /\ recursive
      /\ \A k \in Frames : k > 1 => stack[k].fn # "MISC_handler"
      /\ \A k \in Frames : k =< 1 => Quiet(stack[k])
  BY MiscOnTop
<1>2. PICK h : h = HandlerFrame(r, FALSE)
  OBVIOUS
<1>3. h \in Frame /\ h.fn = "handler" /\ h.req = r /\ h.evicted = FALSE
  BY <1>2, HandlerIsFrame
<1>4. /\ stack' \in Seq(Frame) /\ Len(stack') = Len(stack) + 1
      /\ stack'[1] = h /\ stack'[2] = g /\ Kept(1, 2)
  BY <1>1, <1>2, <1>3, CallFromKeeps
<1>5. TypeOK'
  BY <1>1, <1>4 DEF TypeOK, clock, SlotRecord
<1>6. Len(stack) \in Nat /\ Len(stack) >= 1 /\ Len(stack') >= 2
  BY <1>1, <1>4, StackTypes
<1>7. \A k \in Frames' : k = 1 \/ k = 2 \/ (k > 2 /\ k - 1 \in Frames /\ k - 1 > 1
                                            /\ stack'[k] = stack[k - 1])
  <2>1. \A k \in Frames' : (k = 1 \/ k = 2 \/ k > 2) /\ k - 2 + 1 = k - 1
    BY DEF Frames
  <2>2. \A k \in Frames' : k > 2 => k - 2 + 1 \in Frames /\ k - 2 + 1 > 1
                                   /\ stack'[k] = stack[k - 2 + 1]
    BY ONLY <1>1, <1>4, <1>5, KeptFrames
  <2> QED BY <2>1, <2>2
<1>8. (InPass' <=> InPass) /\ \A j \in Entry : Ahead(j)' <=> Ahead(j)
  <2>1. \A k \in Frames' : k =< 2 => k = 1 \/ k = 2
    BY DEF Frames
  <2>2. \A k \in Frames' : k =< 2 => Quiet(stack'[k])
    BY <2>1, <1>3, <1>4 DEF Quiet
  <2> QED BY ONLY <1>1, <1>4, <1>5, <2>2, QuietKeepsPass
<1>9. EntryInv' /\ ClockInv'
  BY <1>8 DEF EventsInv, EntryInv, ClockInv, clock
<1>10. SlotInv'
  BY <1>1, <1>5, FewerKeepsSlots DEF EventsInv, clock
<1>11. 2 \in DOMAIN stack' /\ recursive'
  BY <1>4, <1>6, LenProperties DEF recursive
<1>12. MiscArmedInv'
  BY <1>11 DEF MiscArmedInv
<1>13. FrameInv(1)'
  <2>1. LinkRuns(1)' <=> g.ran = "linked"
    BY <1>4, <1>6 DEF LinkRuns
  <2>2. ~OvertakesPrevious(r) => ~OvertakesPrevious(stack[1].req)'
    BY <1>3, <1>4 DEF OvertakesPrevious, Fewer
  <2>3. HandlerFrameInv(1)'
    <3>1. stack'[1].req = r /\ stack'[1 + 1] = g
      BY ONLY <1>3, <1>4
    <3>2. currcycle' = currcycle /\ stored' = stored
      BY DEF clock
    <3> QED BY <2>1, <2>2, <3>1, <3>2 DEF HandlerFrameInv
  <2> QED BY <2>3, <1>3, <1>4 DEF FrameInv
<1>14. FrameInv(2)'
  <2>1. MiscFrameInv(stack[2])'
    BY <1>4 DEF MiscFrameInv
  <2> QED BY <2>1, <1>4 DEF FrameInv
<1>15. FramesInv'
  <2>1. ASSUME NEW k \in Frames', k > 2 PROVE FrameInv(k)'
    BY <2>1, <1>1, <1>4, <1>5, FewerKeepsFrames DEF EventsInv, clock
  <2> QED BY <2>1, <1>7, <1>13, <1>14 DEF FramesInv
<1>16. OneMiscInv'
  <2>1. \A k \in Frames' : stack'[k].fn = "MISC_handler" => k = 2
    BY <1>1, <1>3, <1>4, <1>7
  <2>2. 2 \in Frames'
    BY <1>4, <1>6 DEF Frames
  <2> QED BY <2>1, <2>2, <1>4 DEF OneMiscInv
<1>17. DeviceInv'
  BY <1>3, <1>4, <1>7, <1>8 DEF EventsInv, DeviceInv
<1> QED BY <1>5, <1>9, <1>10, <1>12, <1>15, <1>16, <1>17 DEF EventsInv

(* A due request runs. Its time is the cycle it asks for, or one later because *)
(* it had to follow the one stored before it; that one is not pending any      *)
(* more.                                                                       *)
LEMMA RunDueKeeps ==
  ASSUME EventsInv, RunDue
  PROVE  EventsInv'
<1>1. /\ TypeOK /\ stack # <<>> /\ Top = stack[1] /\ Top \in Frame
      /\ Top.fn = "MISC_handler" /\ MiscFrameInv(Top) /\ Running("MISC_handler")
      /\ Top.i \in 0 .. ev2_max /\ Top.mintime \in Nat \ {0} /\ SlotInv
      /\ Top.ran = "none" /\ DueSlots(Top.i) # {}
  BY MiscOnTop DEF RunDue, MiscFrameInv, EventsInv
<1>2. PICK s : s = Min(DueSlots(Top.i))
  OBVIOUS
<1>3. /\ s \in Slot /\ s >= Top.i /\ eventtab2[s].active /\ eventtab2[s].evtime = currcycle
      /\ \A r \in Slot : Top.i =< r /\ r < s /\ eventtab2[r].active =>
                   eventtab2[r].evtime > currcycle
  BY <1>1, <1>2, NextDueSlot
<1>4. s \in 0 .. ev2_max /\ s < ev2_max
  BY <1>3, EventsAssumption DEF Slot
<1>5. PICK d : d = MinTime(Top.mintime, Top.i, s)
  OBVIOUS
<1>6. /\ d \in Nat \ {0} /\ d =< Top.mintime
      /\ \A r \in Slot : Top.i =< r /\ r < s /\ eventtab2[r].active =>
              d =< eventtab2[r].evtime - currcycle
  BY <1>1, <1>3, <1>4, <1>5, LeastDistance
<1>7. PICK g : g = [Top EXCEPT !.i = s, !.ran = "due", !.mintime = d]
  OBVIOUS
<1>8. PICK r : r = eventtab2[s].req
  OBVIOUS
<1>9. /\ g \in Frame /\ g.fn = "MISC_handler" /\ g.i = s /\ g.ran = "due" /\ g.mintime = d
      /\ g.recheck = Top.recheck
  <2> DEFINE R == [fn : {"MISC_handler"}, i : 0 .. ev2_max, mintime : Nat,
                   recheck : BOOLEAN, ran : {"none", "due", "linked"}]
  <2>1. Top \in R
    BY <1>1 DEF Frame
  <2>2. g \in R
    BY <2>1, <1>4, <1>6, <1>7
  <2>3. R \subseteq Frame
    BY DEF Frame
  <2> QED BY <2>1, <2>2, <2>3, <1>7
<1>10. /\ eventtab2' = [eventtab2 EXCEPT ![s] = Idle(@)]
       /\ stack' = <<HandlerFrame(r, FALSE), g>> \o Tail(stack)
       /\ UNCHANGED <<clock, eventtab, next, last_event2, dorecheck, requests, stored>>
  BY <1>2, <1>5, <1>7, <1>8, Zenon DEF RunDue
<1>11. eventtab2' \in [Slot -> SlotRecord] /\ Fewer /\ ~eventtab2'[s].active
  BY <1>1, <1>3, <1>10, TakenIsFewer
<1>12. r \in Request /\ r.id \in Nat /\ r.due \in Nat /\ currcycle \in Nat
  BY <1>1, <1>3, <1>8 DEF TypeOK, Request
<1>13. MiscFrameInv(g)'
  <2>1. \A q \in Slot : eventtab2'[q].active =>
          eventtab2[q].active /\ q # s /\ eventtab2'[q].evtime = eventtab2[q].evtime /\ q \in Int
    BY <1>11 DEF Fewer, Slot
  <2>2. currcycle' = currcycle /\ dorecheck' = dorecheck
    BY <1>10 DEF clock
  <2>3. \A q \in Slot : eventtab2[q].active => eventtab2[q].evtime \in Nat
    BY <1>1 DEF TypeOK
  <2>4. ASSUME NEW q \in Slot, eventtab2'[q].active, q =< s
        PROVE  /\ eventtab2'[q].evtime > currcycle
               /\ Top.recheck \/ dorecheck \/ d =< eventtab2'[q].evtime - currcycle
    <3>1. /\ eventtab2[q].active /\ q # s /\ eventtab2'[q].evtime = eventtab2[q].evtime
          /\ q \in Int /\ eventtab2[q].evtime \in Nat
      BY <2>1, <2>3, <2>4
    <3>2. CASE q < Top.i
      <4>1. /\ eventtab2[q].evtime > currcycle
            /\ Top.recheck \/ dorecheck \/ Top.mintime =< eventtab2[q].evtime - currcycle
        BY <3>1, <3>2, <1>1 DEF MiscFrameInv
      <4> QED BY <3>1, <4>1, <1>1, <1>6, <1>12
    <3>3. CASE Top.i =< q
      BY <3>1, <3>3, <2>4, <1>3, <1>6, <1>1
    <3> QED BY <3>1, <3>2, <3>3, <1>1
  <2> QED BY <2>1, <2>2, <2>4, <1>4, <1>6, <1>9 DEF MiscFrameInv
<1>14. r.id =< stored /\ currcycle =< r.due + 1 /\ currcycle >= r.due /\ ~OvertakesPrevious(r)
  <2>1. r.id =< stored
    BY <1>1, <1>3, <1>8 DEF SlotInv
  <2>2. CASE currcycle = r.due /\ ~OvertakesPrevious(r)
    BY <2>1, <2>2, <1>12
  <2>3. CASE currcycle = r.due + 1
    BY <2>1, <2>3, <1>1, <1>12 DEF OvertakesPrevious, SlotInv
  <2> QED BY <2>2, <2>3, <1>1, <1>3, <1>8 DEF SlotInv
<1> QED BY <1>1, <1>9, <1>10, <1>11, <1>12, <1>13, <1>14, MiscRunsKeeps

(* The link of slot i runs a request at most one cycle early, unless the       *)
(* handler of i has had slot i taken again.                                    *)
LEMMA RunLinkedKeeps ==
  ASSUME EventsInv, RunLinked
  PROVE  EventsInv'
<1>1. /\ TypeOK /\ Top \in Frame /\ Top.fn = "MISC_handler" /\ MiscFrameInv(Top)
      /\ Running("MISC_handler") /\ Top.i \in Slot /\ SlotInv /\ Top.ran = "due"
  <2>1. /\ TypeOK /\ Top \in Frame /\ Top.fn = "MISC_handler" /\ MiscFrameInv(Top)
        /\ Running("MISC_handler") /\ Top.i \in 0 .. ev2_max /\ Top.ran = "due"
    BY MiscOnTop DEF RunLinked, Running
  <2> QED BY <2>1, EventsAssumption DEF MiscFrameInv, Slot, EventsInv
<1>2. PICK i : i = Top.i
  OBVIOUS
<1>3. PICK e : e = eventtab2[i]
  OBVIOUS
<1>4. PICK n : n = e.next
  OBVIOUS
<1>5. PICK g : g = [Top EXCEPT !.ran = "linked"]
  OBVIOUS
<1>6. PICK r : r = eventtab2[n].req
  OBVIOUS
<1>7. /\ Linked(e) /\ eventtab2' = [eventtab2 EXCEPT ![i].next = NoEvent, ![n] = Idle(@)]
      /\ stack' = <<HandlerFrame(r, FALSE), g>> \o Tail(stack)
      /\ UNCHANGED <<clock, eventtab, next, last_event2, dorecheck, requests, stored>>
  BY <1>2, <1>3, <1>4, <1>5, <1>6, Zenon DEF RunLinked
<1>8. e \in SlotRecord /\ eventtab2 \in [Slot -> SlotRecord] /\ i \in Slot
  BY <1>1, <1>2, <1>3 DEF TypeOK, SlotRecord
<1>9. n \in Slot /\ eventtab2[n].active /\ eventtab2[n].evtime = e.evtime + 1
  BY <1>4, <1>7, <1>8 DEF Linked, SlotRecord
<1>10. PICK d : d = [e EXCEPT !.next = NoEvent]
  OBVIOUS
<1>11. d \in SlotRecord /\ d.evtime = e.evtime /\ d.active = e.active /\ d.req = e.req
  BY <1>8, <1>10, IdleIsSlot
<1>12. PICK tab : tab = [eventtab2 EXCEPT ![i] = d]
  OBVIOUS
<1>13. /\ tab \in [Slot -> SlotRecord]
       /\ \A s \in Slot : /\ tab[s].evtime = eventtab2[s].evtime
                          /\ tab[s].active = eventtab2[s].active /\ tab[s].req = eventtab2[s].req
  BY <1>3, <1>8, <1>11, <1>12
<1>14. eventtab2' = [tab EXCEPT ![n] = Idle(tab[n])]
  <2>1. n # i
    BY <1>3, <1>8, <1>9 DEF SlotRecord
  <2>2. tab[n] = eventtab2[n] /\ d = [eventtab2[i] EXCEPT !.next = NoEvent]
    BY <2>1, <1>3, <1>8, <1>9, <1>10, <1>12
  <2>3. eventtab2' = [eventtab2 EXCEPT ![i] = d, ![n] = Idle(eventtab2[n])]
    BY <2>1, <2>2, <1>7, <1>8
  <2> QED BY <2>1, <2>2, <2>3, <1>8, <1>12
<1>15. Idle(tab[n]) \in SlotRecord /\ Idle(tab[n]).evtime = tab[n].evtime /\ ~Idle(tab[n]).active
  BY <1>9, <1>13, IdleIsSlot
<1>16. eventtab2' \in [Slot -> SlotRecord] /\ Fewer
  <2>1. \A s \in Slot : eventtab2'[s] = IF s = n THEN Idle(tab[n]) ELSE tab[s]
    BY <1>13, <1>14
  <2>2. eventtab2' \in [Slot -> SlotRecord]
    BY <1>13, <1>14, <1>15
  <2> QED BY <2>1, <2>2, <1>9, <1>13, <1>15 DEF Fewer
<1>17. g \in Frame /\ g = [Top EXCEPT !.ran = "linked"] /\ g.fn = "MISC_handler" /\ g.i = i
       /\ g.ran = "linked" /\ g.mintime = Top.mintime /\ g.recheck = Top.recheck
  <2> DEFINE R == [fn : {"MISC_handler"}, i : 0 .. ev2_max, mintime : Nat,
                   recheck : BOOLEAN, ran : {"none", "due", "linked"}]
  <2>1. Top \in R
    BY <1>1 DEF Frame
  <2>2. g \in R
    BY <2>1, <1>5
  <2>3. R \subseteq Frame
    BY DEF Frame
  <2> QED BY <2>1, <2>2, <2>3, <1>2, <1>5
<1>18. MiscFrameInv(g)'
  <2>1. currcycle' = currcycle /\ dorecheck' = dorecheck
    BY <1>7 DEF clock
  <2> QED BY <2>1, <1>1, <1>2, <1>16, <1>17 DEF MiscFrameInv, Fewer
<1>19. r \in Request /\ r.id \in Nat /\ r.due \in Nat /\ currcycle \in Nat /\ e.evtime \in Nat
  BY <1>1, <1>6, <1>8, <1>9 DEF TypeOK, SlotRecord, Request
<1>20. /\ currcycle =< eventtab2[n].evtime /\ r.id =< stored
       /\ eventtab2[n].evtime = r.due \/ eventtab2[n].evtime = r.due + 1
  BY <1>1, <1>6, <1>9 DEF SlotInv
<1>21. currcycle =< r.due + 1
  BY <1>19, <1>20
<1>22. \/ currcycle >= r.due
       \/ eventtab2'[g.i].evtime # currcycle \/ currcycle = r.due - 1
  <2>1. eventtab2'[g.i].evtime = e.evtime
    BY <1>3, <1>8, <1>16, <1>17 DEF Fewer
  <2> QED BY <2>1, <1>9, <1>19, <1>20
<1> QED BY <1>1, <1>7, <1>16, <1>17, <1>18, <1>19, <1>20, <1>21, <1>22, MiscRunsKeeps

(* The frame of MISC_handler goes on at another slot.                          *)
LEMMA MiscGoesOn ==
  ASSUME EventsInv, Running("MISC_handler"), Fewer, eventtab2' \in [Slot -> SlotRecord],
         NEW g \in Frame, g.fn = "MISC_handler", Continue(g), MiscFrameInv(g)',
         dorecheck' = FALSE,
         UNCHANGED <<clock, eventtab, next, last_event2, requests, stored>>
  PROVE  EventsInv'
<1>1. /\ TypeOK /\ stack # <<>> /\ 1 \in Frames /\ stack[1].fn = "MISC_handler"
      /\ \A k \in Frames : k > 1 => stack[k].fn # "MISC_handler"
      /\ \A k \in Frames : k =< 1 => Quiet(stack[k])
  BY MiscOnTop
<1>2. stack' \in Seq(Frame) /\ Len(stack') = Len(stack) /\ stack'[1] = g /\ Kept(1, 1)
  BY <1>1, ContinueKeeps
<1>3. TypeOK'
  BY <1>1, <1>2 DEF TypeOK, clock, SlotRecord
<1>4. Len(stack) \in Nat /\ Len(stack) >= 1 /\ Len(stack') >= 1
  BY <1>1, <1>2, StackTypes
<1>5. \A k \in Frames' : k = 1 \/ (k > 1 /\ k \in Frames /\ stack'[k] = stack[k])
  <2>1. \A k \in Frames' : (k = 1 \/ k > 1) /\ k - 1 + 1 = k
    BY DEF Frames
  <2> QED BY ONLY <2>1, <1>1, <1>2, <1>3, KeptFrames
<1>6. (InPass' <=> InPass) /\ \A j \in Entry : Ahead(j)' <=> Ahead(j)
  <2>1. \A k \in Frames' : k =< 1 => k = 1
    BY DEF Frames
  <2>2. \A k \in Frames' : k =< 1 => Quiet(stack'[k])
    BY <2>1, <1>2 DEF Quiet
  <2> QED BY ONLY <1>1, <1>2, <1>3, <2>2, QuietKeepsPass
<1>7. EntryInv' /\ ClockInv'
  BY <1>6 DEF EventsInv, EntryInv, ClockInv, clock
<1>8. SlotInv'
  BY <1>1, <1>3, FewerKeepsSlots DEF EventsInv, clock
<1>9. MiscArmedInv'
  <2>1. 1 \in DOMAIN stack'
    BY <1>2, <1>4, LenProperties
  <2> QED BY <2>1, <1>2 DEF recursive, MiscArmedInv
<1>10. FrameInv(1)'
  <2>1. MiscFrameInv(stack[1])'
    BY <1>2 DEF MiscFrameInv
  <2> QED BY <2>1, <1>2 DEF FrameInv
<1>11. FramesInv'
  <2>1. ASSUME NEW k \in Frames', k > 1 PROVE FrameInv(k)'
    BY <2>1, <1>1, <1>2, <1>3, FewerKeepsFrames DEF EventsInv, clock
  <2> QED BY <2>1, <1>5, <1>10 DEF FramesInv
<1>12. OneMiscInv'
  <2>1. \A k \in Frames' : stack'[k].fn = "MISC_handler" => k = 1
    BY <1>1, <1>5
  <2> QED BY <2>1 DEF OneMiscInv
<1>13. DeviceInv'
  BY <1>2, <1>5, <1>6 DEF EventsInv, DeviceInv
<1> QED BY <1>3, <1>7, <1>8, <1>9, <1>11, <1>12, <1>13 DEF EventsInv

(* The slot is done: what its handler requested is in recheck.                 *)
LEMMA NextSlotKeeps ==
  ASSUME EventsInv, NextSlot
  PROVE  EventsInv'
<1>1. /\ TypeOK /\ Top \in Frame /\ Top.fn = "MISC_handler" /\ MiscFrameInv(Top)
      /\ Running("MISC_handler") /\ Top.i \in Slot /\ Top.ran # "none"
      /\ Top.mintime \in Nat /\ Top.recheck \in BOOLEAN
  <2>1. /\ TypeOK /\ Top \in Frame /\ Top.fn = "MISC_handler" /\ MiscFrameInv(Top)
        /\ Running("MISC_handler") /\ Top.i \in 0 .. ev2_max /\ Top.ran # "none"
        /\ Top.mintime \in Nat /\ Top.recheck \in BOOLEAN
    BY MiscOnTop DEF NextSlot, Unlink, Running
  <2> QED BY <2>1, EventsAssumption DEF MiscFrameInv, Slot
<1>2. PICK i : i = Top.i
  OBVIOUS
<1>3. PICK b : b = (Top.recheck \/ dorecheck \/ eventtab2[i].active)
  OBVIOUS
<1>4. PICK g : g = [Top EXCEPT !.i = i + 1, !.ran = "none", !.recheck = b]
  OBVIOUS
<1>5. /\ Continue(g) /\ dorecheck' = FALSE
      /\ UNCHANGED <<clock, eventtab, next, last_event2, requests, stored>>
      /\ eventtab2' = [eventtab2 EXCEPT ![i].next = NoEvent] \/ UNCHANGED eventtab2
  BY <1>2, <1>3, <1>4, Zenon DEF NextSlot, Unlink
<1>6. eventtab2' \in [Slot -> SlotRecord] /\ Fewer
      /\ \A s \in Slot : eventtab2'[s].active = eventtab2[s].active
  <2>1. eventtab2 \in [Slot -> SlotRecord] /\ i \in Slot
    BY <1>1, <1>2 DEF TypeOK, SlotRecord
  <2>2. PICK d : d = [eventtab2[i] EXCEPT !.next = NoEvent]
    OBVIOUS
  <2>3. /\ d \in SlotRecord /\ d.evtime = eventtab2[i].evtime /\ d.active = eventtab2[i].active
        /\ d.req = eventtab2[i].req
    BY <2>1, <2>2, IdleIsSlot
  <2>4. CASE eventtab2' = [eventtab2 EXCEPT ![i].next = NoEvent]
    <3>1. eventtab2' = [eventtab2 EXCEPT ![i] = d]
      BY <2>2, <2>4
    <3> QED BY <3>1, <2>1, <2>3 DEF Fewer
  <2>5. CASE UNCHANGED eventtab2
    BY <2>1, <2>5 DEF Fewer
  <2> QED BY <1>5, <2>4, <2>5
<1>7. /\ g \in Frame /\ g.fn = "MISC_handler" /\ g.i = i + 1 /\ g.ran = "none"
      /\ g.mintime = Top.mintime /\ g.recheck = b
  <2> DEFINE R == [fn : {"MISC_handler"}, i : 0 .. ev2_max, mintime : Nat,
                   recheck : BOOLEAN, ran : {"none", "due", "linked"}]
  <2>1. Top \in R
    BY <1>1 DEF Frame
  <2>2. i + 1 \in 0 .. ev2_max /\ b \in BOOLEAN
    BY <1>1, <1>2, <1>3, EventsAssumption DEF Slot
  <2>3. g \in R
    BY <2>1, <2>2, <1>4
  <2>4. R \subseteq Frame
    BY DEF Frame
  <2> QED BY <2>1, <2>3, <2>4, <1>4
<1>8. MiscFrameInv(g)'
  <2>1. i \in Nat /\ currcycle' = currcycle /\ \A s \in Slot : s \in Nat
    BY <1>1, <1>2, <1>5 DEF clock, Slot
  <2>2. ASSUME NEW s \in Slot, eventtab2'[s].active, s < i + 1
        PROVE  /\ eventtab2'[s].evtime > currcycle
               /\ b \/ Top.mintime =< eventtab2'[s].evtime - currcycle
    <3>1. eventtab2[s].active /\ eventtab2'[s].evtime = eventtab2[s].evtime
      BY <2>2, <1>6 DEF Fewer
    <3>2. s < i \/ s = i
      BY <2>1, <2>2
    <3>3. /\ eventtab2[s].evtime > currcycle
          /\ s < i => Top.recheck \/ dorecheck \/ Top.mintime =< eventtab2[s].evtime - currcycle
      BY <3>1, <3>2, <1>1, <1>2 DEF MiscFrameInv
    <3>4. CASE s = i
      BY <3>1, <3>3, <3>4, <1>3
    <3>5. CASE s < i
      BY <3>1, <3>3, <3>5, <1>3
    <3> QED BY <3>2, <3>4, <3>5
  <2>3. g.mintime > 0
    BY <1>1, <1>7 DEF MiscFrameInv
  <2> QED BY <2>1, <2>2, <2>3, <1>7 DEF MiscFrameInv
<1> QED BY <1>1, <1>5, <1>6, <1>7, <1>8, MiscGoesOn

(* Another pass starts from slot 0.                                            *)
LEMMA PassesAgainKeeps ==
  ASSUME EventsInv, PassesAgain
  PROVE  EventsInv'
<1>1. /\ TypeOK /\ ~dorecheck /\ Running("MISC_handler") /\ Continue(MiscFrame)
      /\ UNCHANGED <<clock, tables, next, last_event2, dorecheck, requests, stored>>
  BY MiscOnTop DEF PassesAgain
<1>2. Fewer /\ eventtab2' \in [Slot -> SlotRecord] /\ eventtab' = eventtab /\ dorecheck' = FALSE
  BY <1>1, SameIsFewer DEF tables, TypeOK
<1>3. PICK g : g = MiscFrame
  OBVIOUS
<1>4. g \in Frame /\ g.fn = "MISC_handler" /\ Continue(g)
  BY <1>1, <1>3, NewMiscFrame
<1>5. MiscFrameInv(g)'
  BY <1>3, EventsAssumption DEF MiscFrameInv, MiscFrame, Slot
<1> QED BY <1>1, <1>2, <1>4, <1>5, MiscGoesOn

--------------------------------------------------------------------------------
(* events_schedule.                                                            *)
LEMMA HsyncEntry ==
  /\ ev_hsync \in Entry /\ ev_misc \in Entry /\ ev_hsync # ev_misc
  /\ Device \subseteq Entry \ {ev_misc} /\ \A j \in Entry : j \in 0 .. 4
BY EventsAssumption DEF Entry, ev_hsync, ev_misc, ev_max, ev_cia, ev_hsynch, ev_audio

Entries == [Entry -> [active : BOOLEAN, evtime : Nat]]

(* Earliest is the cycle of an active entry, and the least one.                *)
LEMMA EarliestIsLeast ==
  ASSUME NEW tab \in Entries, tab[ev_hsync].active
  PROVE  /\ Earliest(tab) \in Nat
         /\ \A j \in Entry : tab[j].active => Earliest(tab) =< tab[j].evtime
         /\ \E j \in Entry : tab[j].active /\ Earliest(tab) = tab[j].evtime
<1> DEFINE times == {tab[i].evtime : i \in Armed(tab)}
<1>1. \A j \in Entry : tab[j].active => j \in Armed(tab) /\ tab[j].evtime \in times
  BY DEF Armed
<1>2. times \subseteq Nat /\ tab[ev_hsync].evtime \in times /\ Armed(tab) # {}
  BY <1>1, HsyncEntry DEF Armed, Entries
<1>3. Min(times) \in times /\ \A y \in times : Min(times) =< y
  <2>1. times \subseteq Nat /\ times # {}
    BY <1>2
  <2> QED BY ONLY <2>1, MinNat
<1>4. Earliest(tab) = Min(times)
  BY <1>2 DEF Earliest
<1>5. \E j \in Entry : tab[j].active /\ Min(times) = tab[j].evtime
  BY <1>3 DEF Armed
<1> QED BY <1>1, <1>2, <1>3, <1>4, <1>5

(* An entry is ahead only of a pass in progress.                               *)
LEMMA AheadInPass ==
  ASSUME TypeOK', DeviceInv', NEW j \in Entry, Ahead(j)'
  PROVE  InPass'
<1>1. PICK k \in Frames' : \/ stack'[k].fn = "do_cycles_slow" /\ stack'[k].i =< j
                           \/ stack'[k].fn = "device" /\ stack'[k].i = j
  BY DEF Ahead
<1>2. CASE stack'[k].fn = "do_cycles_slow" /\ stack'[k].i =< j
  <2>1. stack'[k].i # Between
    BY <1>2, HsyncEntry DEF Between, ev_max
  <2> QED BY <2>1, <1>2 DEF InPass
<1>3. CASE stack'[k].fn = "device"
  BY <1>3 DEF DeviceInv
<1> QED BY <1>1, <1>2, <1>3

(* After events_schedule the clock stops at every entry.                       *)
LEMMA ScheduledKeepsClock ==
  ASSUME TypeOK', EntryInv', DeviceInv', nextevent' = Earliest(eventtab')
  PROVE  ClockInv'
<1>1. eventtab' \in Entries /\ eventtab'[ev_hsync].active
  BY DEF TypeOK, EntryInv, Entries
<1>2. /\ \A j \in Entry : eventtab'[j].active => nextevent' =< eventtab'[j].evtime
      /\ \E j \in Entry : eventtab'[j].active /\ nextevent' = eventtab'[j].evtime
  BY <1>1, EarliestIsLeast
<1>3. ASSUME ~InPass', NEW j \in Entry, eventtab'[j].active PROVE eventtab'[j].evtime > currcycle'
  BY <1>3, AheadInPass DEF EntryInv
<1>4. ~InPass' => nextevent' > currcycle'
  BY <1>2, <1>3
<1> QED BY <1>2, <1>4 DEF ClockInv

(* MISC_handler ends: all slots were seen and no new request came in, so       *)
(* ev_misc is armed for the nearest request, if there is one.                  *)
LEMMA RearmMiscKeeps ==
  ASSUME EventsInv, RearmMisc
  PROVE  EventsInv'
<1>1. /\ TypeOK /\ stack # <<>> /\ Top = stack[1] /\ 1 \in Frames
      /\ stack[1].fn = "MISC_handler" /\ MiscFrameInv(Top)
      /\ Top.i \in 0 .. ev2_max /\ Top.mintime \in Nat \ {0} /\ SlotInv
      /\ ~Top.recheck /\ ~dorecheck /\ DueSlots(Top.i) = {}
      /\ \A k \in Frames : k > 1 => stack[k].fn # "MISC_handler"
      /\ \A k \in Frames : k =< 1 => Quiet(stack[k])
  BY MiscOnTop DEF RearmMisc, MiscFrameInv, EventsInv
<1>2. PICK d : d = MinTime(Top.mintime, Top.i, ev2_max)
  OBVIOUS
<1>3. /\ IF d = EVT_MAX THEN UNCHANGED <<eventtab, nextevent>>
         ELSE /\ eventtab' = [eventtab EXCEPT ![ev_misc] =
                                 [active |-> TRUE, evtime |-> currcycle + d]]
              /\ nextevent' = Earliest(eventtab')
      /\ Return
      /\ UNCHANGED <<currcycle, eventtab2, next, last_event2, dorecheck, requests, stored>>
  BY <1>2, Zenon DEF RearmMisc
<1>4. \A s \in Slot : Top.i =< s /\ eventtab2[s].active => eventtab2[s].evtime > currcycle
  BY <1>1, NextDueSlot
<1>5. ev2_max \in 0 .. ev2_max /\ \A s \in Slot : s \in Nat /\ s < ev2_max
  BY EventsAssumption DEF Slot
<1>6. /\ d \in Nat \ {0} /\ d =< Top.mintime
      /\ \A s \in Slot : Top.i =< s /\ s < ev2_max /\ eventtab2[s].active =>
           d =< eventtab2[s].evtime - currcycle
  BY <1>1, <1>2, <1>4, <1>5, LeastDistance
<1>7. currcycle \in Nat /\ EVT_MAX \in Nat /\ \A s \in Slot : eventtab2[s].evtime \in Nat
  BY <1>1, EventsAssumption DEF TypeOK
<1>8. ASSUME NEW s \in Slot, eventtab2[s].active
      PROVE  d =< eventtab2[s].evtime - currcycle /\ d < EVT_MAX
  <2>1. d =< eventtab2[s].evtime - currcycle
    <3>1. CASE s < Top.i
      <4>1. Top.mintime =< eventtab2[s].evtime - currcycle
        BY <3>1, <1>1, <1>8 DEF MiscFrameInv
      <4> QED BY <4>1, <1>1, <1>6, <1>7
    <3>2. CASE Top.i =< s
      BY <3>2, <1>5, <1>6, <1>8
    <3> QED BY <3>1, <3>2, <1>1, <1>5
  <2>2. eventtab2[s].evtime < currcycle + EVT_MAX
    BY <1>1, <1>8 DEF SlotInv
  <2> QED BY <2>1, <2>2, <1>6, <1>7
<1>9. stack' \in Seq(Frame) /\ Len(stack') = Len(stack) - 1 /\ Kept(1, 0)
  BY <1>1, <1>3, ReturnKeeps
<1>10. PICK t : t = currcycle + d
  OBVIOUS
<1>11. /\ eventtab' \in Entries /\ nextevent' \in Nat
       /\ \A j \in Entry \ {ev_misc} : eventtab'[j] = eventtab[j]
       /\ \/ d = EVT_MAX /\ UNCHANGED <<eventtab, nextevent>>
          \/ /\ eventtab'[ev_misc].active /\ eventtab'[ev_misc].evtime = t
             /\ t \in Nat /\ t > currcycle /\ nextevent' = Earliest(eventtab')
  <2>1. CASE d = EVT_MAX
    BY <2>1, <1>1, <1>3 DEF TypeOK, Entries
  <2>2. CASE d # EVT_MAX
    <3>1. /\ t \in Nat /\ t > currcycle
          /\ eventtab' = [eventtab EXCEPT ![ev_misc] = [active |-> TRUE, evtime |-> t]]
          /\ nextevent' = Earliest(eventtab')
      BY <1>3, <1>6, <1>7, <1>10, <2>2
    <3>2. eventtab' \in Entries
      BY <3>1, <1>1, EntriesKeepType, HsyncEntry DEF Entries
    <3>3. /\ \A j \in Entry \ {ev_misc} : eventtab'[j] = eventtab[j]
          /\ eventtab'[ev_misc].active /\ eventtab'[ev_misc].evtime = t
      BY <3>1, <1>1, HsyncEntry DEF TypeOK
    <3>4. nextevent' \in Nat
      BY <3>1, <3>2, <3>3, EarliestIsLeast, HsyncEntry DEF EventsInv, EntryInv
    <3> QED BY <3>1, <3>2, <3>3, <3>4
  <2> QED BY <2>1, <2>2
<1>12. TypeOK'
  BY <1>1, <1>3, <1>9, <1>11 DEF TypeOK, Entries
<1>13. (InPass' <=> InPass) /\ \A j \in Entry : Ahead(j)' <=> Ahead(j)
  <2>1. \A k \in Frames' : k =< 0 => Quiet(stack'[k])
    BY DEF Frames
  <2> QED BY ONLY <2>1, <1>1, <1>9, <1>12, QuietKeepsPass
<1>14. \A k \in Frames' : k > 0 /\ k + 1 \in Frames /\ k + 1 > 1 /\ stack'[k] = stack[k + 1]
  <2>1. \A k \in Frames' : k > 0 /\ k - 0 + 1 = k + 1
    BY DEF Frames
  <2> QED BY ONLY <2>1, <1>1, <1>9, <1>12, KeptFrames
<1>15. EntryInv'
  <2>1. \A j \in Entry : eventtab'[j].active =>
          (j = ev_misc /\ eventtab'[j].evtime > currcycle) \/ eventtab'[j] = eventtab[j]
    BY <1>11
  <2>2. currcycle' = currcycle /\ EntryInv
    BY <1>3 DEF EventsInv
  <2>3. eventtab'[ev_hsync].active
    BY <2>2, <1>11, HsyncEntry DEF EntryInv
  <2> QED BY <2>1, <2>2, <2>3, <1>13 DEF EntryInv
<1>16. DeviceInv'
  BY <1>13, <1>14 DEF EventsInv, DeviceInv
<1>17. ClockInv'
  <2>1. CASE UNCHANGED <<eventtab, nextevent>>
    BY <2>1, <1>3, <1>13 DEF EventsInv, ClockInv
  <2> QED BY <2>1, <1>11, <1>12, <1>15, <1>16, ScheduledKeepsClock
<1>18. Fewer
  BY <1>1, <1>3, SameIsFewer
<1>19. SlotInv'
  BY <1>1, <1>3, <1>12, <1>18, FewerKeepsSlots
<1>20. MiscArmedInv'
  <2>1. ASSUME NEW s \in Slot, eventtab2'[s].active
        PROVE  eventtab'[ev_misc].active /\ eventtab'[ev_misc].evtime =< eventtab2'[s].evtime
    BY <2>1, <1>3, <1>7, <1>8, <1>10, <1>11, <1>6
  <2> QED BY <2>1 DEF MiscArmedInv
<1>21. FramesInv'
  <2>1. ASSUME NEW k \in Frames', k > 0 PROVE FrameInv(k)'
    BY <2>1, <1>1, <1>3, <1>9, <1>12, <1>18, FewerKeepsFrames DEF EventsInv
  <2> QED BY <2>1, <1>14 DEF FramesInv
<1>22. OneMiscInv'
  <2>1. \A k \in Frames' : stack'[k].fn # "MISC_handler"
    BY <1>1, <1>14
  <2> QED BY <2>1, <1>1, <1>3 DEF OneMiscInv
<1> QED BY <1>12, <1>15, <1>16, <1>17, <1>19, <1>20, <1>21, <1>22 DEF EventsInv

(* A device is armed for a later cycle, and events_schedule sees it.           *)
LEMMA ArmDeviceKeeps ==
  ASSUME EventsInv, NEW i \in Device, NEW p \in Period, ArmDevice(i, p)
  PROVE  EventsInv'
<1>1. TypeOK /\ i \in Entry \ {ev_misc}
  BY HsyncEntry DEF EventsInv
<1>2. PICK t : t = currcycle + p
  OBVIOUS
<1>3. t \in Nat /\ t > currcycle /\ currcycle \in Nat
  BY <1>1, <1>2, EventsAssumption DEF TypeOK
<1>4. /\ eventtab' = [eventtab EXCEPT ![i] = [active |-> TRUE, evtime |-> t]]
      /\ nextevent' = Earliest(eventtab')
      /\ UNCHANGED <<currcycle, eventtab2, next, last_event2, dorecheck, stack, requests, stored>>
  BY <1>2 DEF ArmDevice
<1>5. /\ eventtab' \in Entries /\ eventtab'[i].active /\ eventtab'[i].evtime = t
      /\ \A j \in Entry \ {i} : eventtab'[j] = eventtab[j]
  <2>1. eventtab' \in Entries
    BY <1>1, <1>3, <1>4, EntriesKeepType DEF Entries
  <2> QED BY <2>1, <1>1, <1>4 DEF TypeOK
<1>6. eventtab'[ev_hsync].active
  BY <1>5, HsyncEntry DEF EventsInv, EntryInv
<1>7. nextevent' \in Nat
  BY <1>4, <1>5, <1>6, EarliestIsLeast
<1>8. TypeOK'
  BY <1>1, <1>4, <1>5, <1>7 DEF TypeOK, Entries
<1>9. Kept(0, 0)
  BY <1>1, <1>4, StackTypes DEF Kept, Frames
<1>10. (InPass' <=> InPass) /\ (\A j \in Entry : Ahead(j)' <=> Ahead(j)) /\ Frames' = Frames
  BY <1>4 DEF InPass, Ahead, Frames
<1>11. EntryInv'
  <2>1. \A j \in Entry : j = i \/ eventtab'[j] = eventtab[j]
    BY <1>5
  <2> QED BY <2>1, <1>3, <1>4, <1>5, <1>6, <1>10 DEF EventsInv, EntryInv
<1>12. DeviceInv'
  BY <1>4, <1>10 DEF EventsInv, DeviceInv
<1>13. ClockInv'
  BY <1>4, <1>8, <1>11, <1>12, ScheduledKeepsClock
<1>14. Fewer
  BY <1>1, <1>4, SameIsFewer
<1>15. SlotInv'
  BY <1>1, <1>4, <1>8, <1>14, FewerKeepsSlots DEF EventsInv
<1>16. MiscArmedInv'
  <2>1. eventtab'[ev_misc] = eventtab[ev_misc] /\ (recursive' <=> recursive)
    BY <1>1, <1>4, <1>5, HsyncEntry DEF recursive
  <2> QED BY <2>1, <1>4 DEF EventsInv, MiscArmedInv
<1>17. FramesInv'
  <2>1. ASSUME NEW k \in Frames', k > 0 PROVE FrameInv(k)'
    BY <2>1, <1>1, <1>4, <1>8, <1>9, <1>14, FewerKeepsFrames DEF EventsInv
  <2> QED BY <2>1 DEF FramesInv, Frames
<1>18. OneMiscInv'
  BY <1>4, <1>10 DEF EventsInv, OneMiscInv
<1> QED BY <1>8, <1>11, <1>12, <1>13, <1>15, <1>16, <1>17, <1>18 DEF EventsInv

(* A device is disarmed, and events_schedule no longer sees it.                *)
LEMMA DisarmDeviceKeeps ==
  ASSUME EventsInv, NEW i \in Device, DisarmDevice(i)
  PROVE  EventsInv'
<1>1. TypeOK /\ i \in Entry \ {ev_misc} /\ i # ev_hsync
  BY HsyncEntry DEF EventsInv, DisarmDevice
<1>2. /\ eventtab' = [eventtab EXCEPT ![i].active = FALSE]
      /\ nextevent' = Earliest(eventtab')
      /\ UNCHANGED <<currcycle, eventtab2, next, last_event2, dorecheck, stack, requests, stored>>
  BY DEF DisarmDevice
<1>3. /\ eventtab' \in Entries /\ ~eventtab'[i].active
      /\ \A j \in Entry \ {i} : eventtab'[j] = eventtab[j]
  BY <1>1, <1>2 DEF TypeOK, Entries
<1>4. eventtab'[ev_hsync].active
  BY <1>1, <1>3, HsyncEntry DEF EventsInv, EntryInv
<1>5. nextevent' \in Nat
  BY <1>2, <1>3, <1>4, EarliestIsLeast
<1>6. TypeOK'
  BY <1>1, <1>2, <1>3, <1>5 DEF TypeOK, Entries
<1>7. Kept(0, 0)
  BY <1>1, <1>2, StackTypes DEF Kept, Frames
<1>8. (InPass' <=> InPass) /\ (\A j \in Entry : Ahead(j)' <=> Ahead(j)) /\ Frames' = Frames
  BY <1>2 DEF InPass, Ahead, Frames
<1>9. EntryInv'
  <2>1. \A j \in Entry : j = i \/ eventtab'[j] = eventtab[j]
    BY <1>3
  <2> QED BY <2>1, <1>1, <1>2, <1>3, <1>4, <1>8 DEF EventsInv, EntryInv
<1>10. DeviceInv'
  BY <1>2, <1>8 DEF EventsInv, DeviceInv
<1>11. ClockInv'
  BY <1>2, <1>6, <1>9, <1>10, ScheduledKeepsClock
<1>12. Fewer
  BY <1>1, <1>2, SameIsFewer
<1>13. SlotInv'
  BY <1>1, <1>2, <1>6, <1>12, FewerKeepsSlots DEF EventsInv
<1>14. MiscArmedInv'
  <2>1. eventtab'[ev_misc] = eventtab[ev_misc] /\ (recursive' <=> recursive)
    BY <1>1, <1>2, <1>3, HsyncEntry DEF recursive
  <2> QED BY <2>1, <1>2 DEF EventsInv, MiscArmedInv
<1>15. FramesInv'
  <2>1. ASSUME NEW k \in Frames', k > 0 PROVE FrameInv(k)'
    BY <2>1, <1>1, <1>2, <1>6, <1>7, <1>12, FewerKeepsFrames DEF EventsInv
  <2> QED BY <2>1 DEF FramesInv, Frames
<1>16. OneMiscInv'
  BY <1>2, <1>8 DEF EventsInv, OneMiscInv
<1> QED BY <1>6, <1>9, <1>10, <1>11, <1>13, <1>14, <1>15, <1>16 DEF EventsInv

(* A device handler leaves its entry later or disarmed; the pass that called   *)
(* it is still to schedule.                                                    *)
LEMMA DeviceReturnsKeeps ==
  ASSUME EventsInv, DeviceReturns
  PROVE  EventsInv'
<1>1. /\ TypeOK /\ stack # <<>> /\ Top = stack[1] /\ Top \in Frame /\ 1 \in Frames
      /\ stack[1].fn = "device"
  BY StackTypes DEF EventsInv, DeviceReturns, Running, Frames
<1>2. PICK i : i = Top.i
  OBVIOUS
<1>3. i \in Device /\ i \in Entry \ {ev_misc}
  BY <1>1, <1>2, FrameFields, HsyncEntry
<1>4. /\ nextevent' \in {nextevent, Earliest(eventtab')} /\ Return
      /\ UNCHANGED <<currcycle, eventtab2, next, last_event2, dorecheck, requests, stored>>
  BY DEF DeviceReturns
<1>5. /\ eventtab' \in Entries /\ \A j \in Entry \ {i} : eventtab'[j] = eventtab[j]
      /\ eventtab'[ev_hsync].active
      /\ eventtab'[i].active => eventtab'[i].evtime > currcycle
  <2>1. CASE \E p \in Period : eventtab' = [eventtab EXCEPT ![i].evtime = currcycle + p]
    <3>1. PICK p \in Period : eventtab' = [eventtab EXCEPT ![i].evtime = currcycle + p]
      BY <2>1
    <3>2. PICK t : t = currcycle + p
      OBVIOUS
    <3>3. t \in Nat /\ t > currcycle
      BY <1>1, <3>2, EventsAssumption DEF TypeOK
    <3>4. eventtab' = [eventtab EXCEPT ![i].evtime = t]
      BY <3>1, <3>2
    <3>5. eventtab' \in Entries
      BY <1>1, <1>3, <3>3, <3>4, EntriesKeepType DEF Entries
    <3>6. /\ \A j \in Entry \ {i} : eventtab'[j] = eventtab[j]
          /\ eventtab'[i].active = eventtab[i].active /\ eventtab'[i].evtime = t
      BY <1>1, <1>3, <3>4 DEF TypeOK
    <3>7. eventtab'[ev_hsync].active
      BY <3>6, HsyncEntry DEF EventsInv, EntryInv
    <3> QED BY <3>3, <3>5, <3>6, <3>7
  <2>2. CASE i # ev_hsync /\ eventtab' = [eventtab EXCEPT ![i].active = FALSE]
    <3>1. eventtab' \in Entries
      BY <1>1, <1>3, <2>2, EntriesKeepType DEF Entries
    <3>2. (\A j \in Entry \ {i} : eventtab'[j] = eventtab[j]) /\ ~eventtab'[i].active
      BY <1>1, <1>3, <2>2 DEF TypeOK
    <3>3. eventtab'[ev_hsync].active
      BY <2>2, <3>2, HsyncEntry DEF EventsInv, EntryInv
    <3> QED BY <3>1, <3>2, <3>3
  <2> QED BY <1>2, <2>1, <2>2 DEF DeviceReturns
<1>6. nextevent' \in Nat
  BY <1>1, <1>4, <1>5, EarliestIsLeast DEF TypeOK
<1>7. stack' \in Seq(Frame) /\ Len(stack') = Len(stack) - 1 /\ Kept(1, 0)
  BY <1>1, <1>4, ReturnKeeps
<1>8. TypeOK'
  BY <1>1, <1>4, <1>5, <1>6, <1>7 DEF TypeOK, Entries
<1>9. \A k \in Frames' : k > 0 /\ k + 1 \in Frames /\ k + 1 > 1 /\ stack'[k] = stack[k + 1]
  <2>1. \A k \in Frames' : k > 0 /\ k - 0 + 1 = k + 1
    BY DEF Frames
  <2> QED BY ONLY <2>1, <1>1, <1>7, <1>8, KeptFrames
<1>10. \A k \in Frames : k = 1 \/ (k > 1 /\ k - 1 \in Frames' /\ stack'[k - 1] = stack[k])
  <2>1. \A k \in Frames : (k = 1 \/ k > 1) /\ k - 1 + 0 = k - 1
    BY DEF Frames
  <2> QED BY ONLY <2>1, <1>1, <1>7, <1>8, KeptFrames
<1>11. InPass'
  <2>1. PICK k \in Frames : stack[k].fn = "do_cycles_slow" /\ stack[k].i # Between
    BY <1>1 DEF EventsInv, DeviceInv, InPass
  <2>2. k - 1 \in Frames' /\ stack'[k - 1] = stack[k]
    BY <2>1, <1>1, <1>10
  <2> QED BY <2>1, <2>2 DEF InPass
<1>12. ASSUME NEW j \in Entry \ {i}, Ahead(j) PROVE Ahead(j)'
  <2>1. PICK k \in Frames : \/ stack[k].fn = "do_cycles_slow" /\ stack[k].i =< j
                            \/ stack[k].fn = "device" /\ stack[k].i = j
    BY <1>12 DEF Ahead
  <2>2. k # 1
    BY <2>1, <1>1, <1>2
  <2>3. k - 1 \in Frames' /\ stack'[k - 1] = stack[k]
    BY <2>2, <1>10
  <2> QED BY <2>1, <2>3 DEF Ahead
<1>13. EntryInv'
  <2>1. EntryInv
    BY DEF EventsInv
  <2>2. ASSUME NEW j \in Entry, eventtab'[j].active
        PROVE  /\ j \in Device \cup {ev_misc}
               /\ \/ eventtab'[j].evtime > currcycle
                  \/ eventtab'[j].evtime = currcycle /\ Ahead(j)'
    <3>1. CASE j = i
      BY <3>1, <2>2, <1>3, <1>5
    <3>2. CASE j # i
      BY <3>2, <2>1, <2>2, <1>5, <1>12 DEF EntryInv
    <3> QED BY <3>1, <3>2
  <2> QED BY <2>2, <1>4, <1>5 DEF EntryInv
<1>14. ClockInv' /\ DeviceInv'
  BY <1>11 DEF ClockInv, DeviceInv
<1>15. Fewer
  BY <1>1, <1>4, SameIsFewer
<1>16. SlotInv'
  BY <1>1, <1>4, <1>8, <1>15, FewerKeepsSlots DEF EventsInv
<1>17. FramesInv'
  <2>1. ASSUME NEW k \in Frames', k > 0 PROVE FrameInv(k)'
    BY <2>1, <1>1, <1>4, <1>7, <1>8, <1>15, FewerKeepsFrames DEF EventsInv
  <2> QED BY <2>1, <1>9 DEF FramesInv
<1>18. OneMiscInv' /\ (recursive' <=> recursive)
  <2>1. \A k \in Frames : k =< 1 => stack[k].fn # "MISC_handler"
    <3>1. \A k \in Frames : k =< 1 => k = 1
      BY DEF Frames
    <3> QED BY <3>1, <1>1
  <2>2. \A k \in Frames' : k =< 0 => stack'[k].fn # "MISC_handler"
    BY DEF Frames
  <2>3. OneMiscInv /\ dorecheck' = dorecheck
    BY <1>4 DEF EventsInv
  <2> QED BY ONLY <2>1, <2>2, <2>3, <1>1, <1>7, <1>8, OthersKeepMisc
<1>19. MiscArmedInv'
  BY <1>3, <1>4, <1>5, <1>18, HsyncEntry DEF EventsInv, MiscArmedInv
<1> QED BY <1>8, <1>13, <1>14, <1>16, <1>17, <1>18, <1>19 DEF EventsInv

(* The CPU runs: no call is in progress.                                       *)
LEMMA NoCall ==
  ASSUME EventsInv, stack = <<>>
  PROVE  /\ TypeOK /\ Len(stack) = 0 /\ Frames = {} /\ ~InPass /\ ~recursive /\ ~dorecheck
         /\ \A j \in Entry : ~Ahead(j)
<1>1. Len(stack) = 0
  OBVIOUS
<1>2. Frames = {}
  BY <1>1 DEF Frames
<1> QED BY <1>1, <1>2, StackTypes DEF EventsInv, InPass, recursive, Ahead, OneMiscInv

(* A reset leaves ev_hsync as the only event.                                  *)
LEMMA ResetKeeps ==
  ASSUME EventsInv, NEW t \in Period, Reset(t)
  PROVE  EventsInv'
<1>1. TypeOK /\ Frames = {} /\ ~dorecheck
  BY NoCall DEF Reset
<1>2. t \in Nat /\ t > 0
  BY EventsAssumption
<1>3. /\ currcycle' = 0 /\ nextevent' = t /\ eventtab2' = Without(Slot)
      /\ UNCHANGED <<next, last_event2, dorecheck, stack, requests, stored>>
  BY DEF Reset
<1>4. Frames' = Frames
  BY <1>3 DEF Frames
<1>5. /\ eventtab' \in Entries
      /\ \A j \in Entry : eventtab'[j].active = (j = ev_hsync)
      /\ eventtab'[ev_hsync].evtime = t
  <2> DEFINE new(j) == [eventtab[j] EXCEPT !.active = (j = ev_hsync),
                          !.evtime = IF j \in {ev_hsync, ev_hsynch} THEN t ELSE @]
  <2>1. eventtab' = [j \in Entry |-> new(j)]
    BY DEF Reset
  <2>2. \A j \in Entry : /\ new(j) \in [active : BOOLEAN, evtime : Nat]
                         /\ new(j).active = (j = ev_hsync)
                         /\ j = ev_hsync => new(j).evtime = t
    BY <1>1, <1>2 DEF TypeOK
  <2> HIDE DEF new
  <2> QED BY <2>1, <2>2, HsyncEntry DEF Entries
<1>6. eventtab2' \in [Slot -> SlotRecord] /\ \A s \in Slot : ~eventtab2'[s].active
  BY <1>1, <1>3, WithoutIsFewer
<1>7. TypeOK'
  BY <1>1, <1>2, <1>3, <1>5, <1>6 DEF TypeOK, Entries, SlotRecord
<1>8. EntryInv' /\ ClockInv'
  <2>1. \A j \in Entry : eventtab'[j].active =>
          j \in Device /\ eventtab'[j].evtime = t
    BY <1>5, EventsAssumption
  <2>2. eventtab'[ev_hsync].active
    BY <1>5, HsyncEntry
  <2>3. EntryInv'
    BY <2>1, <2>2, <1>2, <1>3 DEF EntryInv
  <2>4. ClockInv'
    BY <2>1, <1>2, <1>3 DEF ClockInv
  <2> QED BY <2>3, <2>4
<1>9. SlotInv' /\ MiscArmedInv'
  BY <1>6 DEF SlotInv, MiscArmedInv
<1>10. FramesInv' /\ OneMiscInv' /\ DeviceInv'
  BY <1>1, <1>3, <1>4 DEF FramesInv, OneMiscInv, DeviceInv
<1> QED BY <1>7, <1>8, <1>9, <1>10 DEF EventsInv

--------------------------------------------------------------------------------
(* do_cycles_slow.                                                             *)
LEMMA StartKeeps ==
  ASSUME EventsInv, NEW n \in Cycles, do_cycles_slow(n)
  PROVE  EventsInv'
<1>1. /\ TypeOK /\ Len(stack) = 0 /\ Frames = {} /\ ~InPass /\ ~recursive /\ ~dorecheck
      /\ \A j \in Entry : ~Ahead(j)
  BY NoCall DEF do_cycles_slow
<1>2. PICK f : f = [fn |-> "do_cycles_slow", i |-> Between, left |-> n]
  OBVIOUS
<1>3. f \in Frame /\ f.fn = "do_cycles_slow" /\ f.i = Between
  <2>1. n \in Nat /\ Between \in 0 .. Between
    BY EventsAssumption DEF Between, ev_max
  <2> QED BY <1>2, <2>1 DEF Frame
<1>4. /\ Call(f) /\ eventtab' = eventtab /\ eventtab2' = eventtab2
      /\ UNCHANGED <<clock, next, last_event2, dorecheck, requests, stored>>
  BY <1>2 DEF do_cycles_slow, tables
<1>5. /\ stack' \in Seq(Frame) /\ Len(stack') = 1 /\ stack'[1] = f
  BY <1>1, <1>3, <1>4, PushKeeps
<1>6. Frames' = {1}
  BY <1>5 DEF Frames
<1>7. TypeOK'
  BY <1>1, <1>4, <1>5 DEF TypeOK, clock
<1>8. EntryInv'
  BY <1>1, <1>4 DEF EventsInv, EntryInv, clock
<1>9. ClockInv'
  BY <1>1, <1>4 DEF EventsInv, ClockInv, clock
<1>10. SlotInv'
  BY <1>1, <1>4, <1>7, SameIsFewer, FewerKeepsSlots DEF EventsInv, clock
<1>11. MiscArmedInv'
  BY <1>1, <1>4 DEF EventsInv, MiscArmedInv
<1>12. FramesInv'
  BY <1>3, <1>5, <1>6 DEF FramesInv, FrameInv
<1>13. OneMiscInv' /\ DeviceInv'
  BY <1>1, <1>3, <1>4, <1>5, <1>6 DEF OneMiscInv, DeviceInv
<1> QED BY <1>7, <1>8, <1>9, <1>10, <1>11, <1>12, <1>13 DEF EventsInv

(* do_cycles_slow is called by the CPU only: when it runs, it is alone.        *)
LEMMA CycleOnTop ==
  ASSUME EventsInv, Running("do_cycles_slow")
  PROVE  /\ TypeOK /\ stack # <<>> /\ Top = stack[1] /\ Top \in Frame /\ Len(stack) = 1
         /\ Frames = {1} /\ stack[1].fn = "do_cycles_slow" /\ Top.fn = "do_cycles_slow"
         /\ Top.i \in 0 .. Between /\ Top.left \in Nat /\ ~recursive /\ ~dorecheck
         /\ (InPass <=> Top.i # Between) /\ \A j \in Entry : Ahead(j) <=> Top.i =< j
<1>1. /\ TypeOK /\ stack # <<>> /\ Top = stack[1] /\ Top \in Frame /\ 1 \in Frames
      /\ stack[1].fn = "do_cycles_slow"
  BY StackTypes DEF EventsInv, Running, Frames
<1>2. Len(stack) = 1
  BY <1>1 DEF EventsInv, FramesInv, FrameInv
<1>3. Frames = {1}
  BY <1>2 DEF Frames
<1>4. Top.i \in 0 .. Between /\ Top.left \in Nat
  BY <1>1, FrameFields
<1>5. ~recursive /\ ~dorecheck
  BY <1>1, <1>3, StackTypes DEF EventsInv, recursive, OneMiscInv
<1> QED BY <1>1, <1>2, <1>3, <1>4, <1>5 DEF InPass, Ahead

(* The clock moves, but not beyond nextevent.                                  *)
LEMMA ClockMoves ==
  ASSUME EventsInv, Running("do_cycles_slow"), Top.i = Between, TypeOK',
         UNCHANGED <<nextevent, tables, next, last_event2, dorecheck, requests, stored>>,
         currcycle =< currcycle', currcycle' =< nextevent
  PROVE  /\ SlotInv'
         /\ \A j \in Entry : eventtab'[j].active =>
              j \in Device \cup {ev_misc} /\ nextevent =< eventtab'[j].evtime
         /\ eventtab'[ev_hsync].active
<1>1. TypeOK /\ ~recursive /\ ~InPass /\ SlotInv
  BY CycleOnTop DEF EventsInv
<1>2. \A j \in Entry : eventtab[j].active =>
        j \in Device \cup {ev_misc} /\ nextevent =< eventtab[j].evtime
  BY <1>1 DEF EventsInv, ClockInv, EntryInv
<1>3. \A s \in Slot : eventtab2[s].active =>
        eventtab[ev_misc].active /\ eventtab[ev_misc].evtime =< eventtab2[s].evtime
  BY <1>1 DEF EventsInv, MiscArmedInv
<1>4. /\ currcycle \in Nat /\ currcycle' \in Nat /\ nextevent \in Nat /\ EVT_MAX \in Nat
      /\ \A j \in Entry : eventtab[j].evtime \in Nat
      /\ \A s \in Slot : eventtab2[s].evtime \in Nat
  BY <1>1, EventsAssumption DEF TypeOK
<1>5. \A s \in Slot : eventtab2[s].active => nextevent =< eventtab2[s].evtime
  BY <1>2, <1>3, <1>4, HsyncEntry
<1>6. eventtab' = eventtab /\ eventtab2' = eventtab2 /\ UNCHANGED <<stored, last_event2>>
  BY DEF tables
<1>7. SlotInv'
  <2>1. \A r : OvertakesPrevious(r)' <=> OvertakesPrevious(r)
    BY <1>6 DEF OvertakesPrevious
  <2>2. ASSUME NEW s \in Slot, eventtab2[s].active
        PROVE  currcycle' =< eventtab2[s].evtime /\ eventtab2[s].evtime < currcycle' + EVT_MAX
    <3>1. eventtab2[s].evtime < currcycle + EVT_MAX
      BY <2>2, <1>1 DEF SlotInv
    <3> QED BY <3>1, <2>2, <1>4, <1>5
  <2>3. PICK c : c = currcycle'
    OBVIOUS
  <2> QED BY <2>1, <2>2, <1>1, <1>6 DEF SlotInv
<1>8. eventtab'[ev_hsync].active
  BY <1>6 DEF EventsInv, EntryInv
<1> QED BY <1>2, <1>6, <1>7, <1>8

(* The clock moves to nextevent, which is due then and ahead of the pass, or   *)
(* to a cycle before it.                                                       *)
LEMMA AdvanceClockKeeps ==
  ASSUME EventsInv, AdvanceClock
  PROVE  EventsInv'
<1>1. /\ TypeOK /\ stack # <<>> /\ Top = stack[1] /\ Top \in Frame /\ Len(stack) = 1
      /\ Frames = {1} /\ stack[1].fn = "do_cycles_slow" /\ Top.fn = "do_cycles_slow"
      /\ Top.left \in Nat /\ ~recursive /\ ~dorecheck /\ Top.i = Between /\ ~InPass
      /\ Running("do_cycles_slow")
  BY CycleOnTop DEF AdvanceClock
<1>2. /\ UNCHANGED <<nextevent, tables, next, last_event2, dorecheck, requests, stored>>
      /\ eventtab' = eventtab /\ eventtab2' = eventtab2
  BY DEF AdvanceClock, tables
<1>3. currcycle \in Nat /\ nextevent \in Nat /\ nextevent > currcycle
  BY <1>1 DEF EventsInv, ClockInv, TypeOK
<1>4. CASE /\ nextevent - currcycle =< Top.left
           /\ currcycle' = nextevent
           /\ Continue([Top EXCEPT !.i = 0, !.left = @ - (nextevent - currcycle)])
  <2>1. PICK l : l = Top.left - (nextevent - currcycle)
    OBVIOUS
  <2>2. PICK g : g = [Top EXCEPT !.i = 0, !.left = l]
    OBVIOUS
  <2>3. l \in Nat /\ 0 \in 0 .. Between
    BY <2>1, <1>1, <1>3, <1>4 DEF Between, ev_max
  <2>4. g \in Frame /\ g.fn = "do_cycles_slow" /\ g.i = 0
    <3>1. Top \in [fn : {"do_cycles_slow"}, i : 0 .. Between, left : Nat]
      BY <1>1 DEF Frame
    <3>2. g \in [fn : {"do_cycles_slow"}, i : 0 .. Between, left : Nat]
      BY <3>1, <2>2, <2>3
    <3> QED BY <3>1, <3>2, <2>2, <2>3 DEF Frame
  <2>5. Continue(g)
    BY <2>1, <2>2, <1>4
  <2>6. /\ stack' \in Seq(Frame) /\ Len(stack') = 1 /\ stack'[1] = g
    BY <1>1, <2>4, <2>5, ContinueKeeps
  <2>7. Frames' = {1}
    BY <2>6 DEF Frames
  <2>8. TypeOK'
    BY <1>1, <1>2, <1>3, <1>4, <2>6 DEF TypeOK
  <2>9. /\ SlotInv' /\ eventtab'[ev_hsync].active
        /\ \A j \in Entry : eventtab'[j].active =>
             j \in Device \cup {ev_misc} /\ nextevent =< eventtab'[j].evtime
    BY <1>1, <1>2, <1>3, <1>4, <2>8, ClockMoves
  <2>10. InPass' /\ \A j \in Entry : Ahead(j)'
    BY <2>4, <2>6, <2>7, HsyncEntry DEF InPass, Ahead, Between, ev_max
  <2>11. EntryInv'
    <3>1. \A j \in Entry : eventtab'[j].evtime \in Nat
      BY <2>8 DEF TypeOK
    <3> QED BY <3>1, <2>9, <2>10, <1>3, <1>4 DEF EntryInv
  <2>12. ClockInv' /\ DeviceInv'
    BY <2>10 DEF ClockInv, DeviceInv
  <2>13. FramesInv'
    BY <2>4, <2>6, <2>7 DEF FramesInv, FrameInv
  <2>14. OneMiscInv' /\ ~recursive'
    BY <1>1, <1>2, <2>4, <2>6, <2>7, <2>8, LenProperties DEF OneMiscInv, recursive, Frames
  <2>15. MiscArmedInv'
    BY <1>1, <1>2 DEF EventsInv, MiscArmedInv
  <2> QED BY <2>8, <2>9, <2>11, <2>12, <2>13, <2>14, <2>15 DEF EventsInv
<1>5. CASE /\ nextevent - currcycle > Top.left
           /\ currcycle' = currcycle + Top.left
           /\ Return
  <2>1. currcycle' \in Nat /\ currcycle =< currcycle' /\ currcycle' < nextevent
    BY <1>1, <1>3, <1>5
  <2>2. stack' \in Seq(Frame) /\ Len(stack') = 0
    BY <1>1, <1>5, ReturnKeeps
  <2>3. Frames' = {}
    BY <2>2 DEF Frames
  <2>4. TypeOK'
    BY <1>1, <1>2, <1>3, <2>1, <2>2 DEF TypeOK
  <2>5. /\ SlotInv' /\ eventtab'[ev_hsync].active
        /\ \A j \in Entry : eventtab'[j].active =>
             j \in Device \cup {ev_misc} /\ nextevent =< eventtab'[j].evtime
    BY <1>1, <1>2, <1>3, <2>1, <2>4, ClockMoves
  <2>6. EntryInv'
    <3>1. \A j \in Entry : eventtab'[j].evtime \in Nat
      BY <2>4 DEF TypeOK
    <3> QED BY <3>1, <2>1, <2>5, <1>3 DEF EntryInv
  <2>7. ClockInv'
    BY <2>1, <2>5, <1>2 DEF ClockInv
  <2>8. FramesInv' /\ OneMiscInv' /\ DeviceInv'
    BY <2>3, <1>1, <1>2 DEF FramesInv, OneMiscInv, DeviceInv
  <2>9. MiscArmedInv'
    BY <1>1, <1>2 DEF EventsInv, MiscArmedInv
  <2> QED BY <2>4, <2>5, <2>6, <2>7, <2>8, <2>9 DEF EventsInv
<1> QED BY <1>4, <1>5 DEF AdvanceClock

(* The due entry that the pass comes to next.                                  *)
LEMMA NextDueEntry ==
  ASSUME TypeOK, NEW i \in 0 .. Between
  PROVE  /\ DueFrom(i) # {} =>
              LET j == Min(DueFrom(i)) IN
              /\ j \in Entry /\ i =< j /\ eventtab[j].active /\ eventtab[j].evtime = currcycle
              /\ \A m \in Entry : eventtab[m].active /\ eventtab[m].evtime = currcycle /\ i =< m
                   => j =< m
         /\ DueFrom(i) = {} =>
              \A m \in Entry : eventtab[m].active /\ eventtab[m].evtime = currcycle => m < i
<1>1. DueFrom(i) \subseteq Nat
  BY DEF DueFrom
<1>2. \A m \in Entry : eventtab[m].active /\ eventtab[m].evtime = currcycle /\ i =< m
        => m \in DueFrom(i)
  BY DEF DueFrom, Entry, ev_max
<1>3. \A m \in Entry : m \in Nat
  BY DEF Entry
<1>4. CASE DueFrom(i) # {}
  <2>1. PICK j : j = Min(DueFrom(i))
    OBVIOUS
  <2>2. j \in DueFrom(i) /\ \A y \in DueFrom(i) : j =< y
    BY <2>1, <1>1, <1>4, MinNat
  <2>3. j \in Entry /\ i =< j /\ eventtab[j].active /\ eventtab[j].evtime = currcycle
    BY <2>2 DEF DueFrom, Entry, ev_max
  <2> QED BY <2>1, <2>2, <2>3, <1>2, <1>4
<1>5. CASE DueFrom(i) = {}
  BY <1>2, <1>3, <1>5
<1> QED BY <1>4, <1>5

(* The handler of a due entry is called: its entry is in progress, or, for     *)
(* ev_misc, inactive.                                                          *)
LEMMA DispatchDeviceKeeps ==
  ASSUME EventsInv, DispatchDevice
  PROVE  EventsInv'
<1>1. /\ TypeOK /\ stack # <<>> /\ Top = stack[1] /\ Top \in Frame /\ Len(stack) = 1
      /\ Frames = {1} /\ stack[1].fn = "do_cycles_slow" /\ Top.fn = "do_cycles_slow"
      /\ Top.left \in Nat /\ ~recursive /\ ~dorecheck /\ Top.i \in 0 .. Between /\ EntryInv
      /\ (\A j \in Entry : Ahead(j) <=> Top.i =< j) /\ DueFrom(Top.i) # {}
  BY CycleOnTop DEF DispatchDevice, EventsInv
<1>2. PICK j : j = Min(DueFrom(Top.i))
  OBVIOUS
<1>3. /\ j \in Entry /\ Top.i =< j /\ eventtab[j].active /\ eventtab[j].evtime = currcycle
      /\ \A m \in Entry : eventtab[m].active /\ eventtab[m].evtime = currcycle /\ Top.i =< m
           => j =< m
  BY <1>1, <1>2, NextDueEntry
<1>4. PICK n : n = j + 1
  OBVIOUS
<1>5. j \in 0 .. 4 /\ n \in 1 .. 5 /\ n \in 0 .. Between /\ n # Between
  BY <1>3, <1>4, HsyncEntry DEF Between, ev_max
<1>6. PICK g : g = [Top EXCEPT !.i = n]
  OBVIOUS
<1>7. g \in Frame /\ g.fn = "do_cycles_slow" /\ g.i = n
  BY <1>1, <1>5, <1>6, CycleFrame
<1>8. PICK f : f = IF j = ev_misc THEN MiscFrame ELSE [fn |-> "device", i |-> j]
  OBVIOUS
<1>9. /\ f \in Frame
      /\ j = ev_misc => f = MiscFrame /\ f.fn = "MISC_handler"
      /\ j # ev_misc => f.fn = "device" /\ f.i = j
  <2>1. CASE j = ev_misc
    BY <2>1, <1>8, NewMiscFrame
  <2>2. CASE j # ev_misc
    <3>1. j \in Device
      BY <2>2, <1>1, <1>3 DEF EntryInv
    <3> QED BY <2>2, <3>1, <1>8 DEF Frame
  <2> QED BY <2>1, <2>2
<1>10. /\ stack' = <<f, g>> \o Tail(stack)
       /\ eventtab' = IF j = ev_misc THEN [eventtab EXCEPT ![ev_misc].active = FALSE]
                                     ELSE eventtab
       /\ UNCHANGED <<clock, eventtab2, next, last_event2, dorecheck, requests, stored>>
  BY <1>2, <1>4, <1>6, <1>8, Zenon DEF DispatchDevice
<1>11. stack' \in Seq(Frame) /\ Len(stack') = 2 /\ stack'[1] = f /\ stack'[2] = g
  BY <1>1, <1>7, <1>9, <1>10, CallFromKeeps
<1>12. Frames' = {1, 2}
  BY <1>11 DEF Frames
<1>13. /\ eventtab' \in Entries
       /\ \A m \in Entry : /\ eventtab'[m].evtime = eventtab[m].evtime
                           /\ m # ev_misc => eventtab'[m].active = eventtab[m].active
                           /\ eventtab'[m].active => eventtab[m].active /\ (m = j => j # ev_misc)
       /\ j # ev_misc => eventtab' = eventtab
  <2>1. CASE j = ev_misc
    <3>1. eventtab' = [eventtab EXCEPT ![ev_misc].active = FALSE]
      BY <2>1, <1>10
    <3>2. eventtab' \in Entries
      BY <3>1, <1>1, EntriesKeepType, HsyncEntry DEF Entries
    <3> QED BY <2>1, <3>1, <3>2, <1>1, HsyncEntry DEF TypeOK
  <2>2. CASE j # ev_misc
    BY <2>2, <1>1, <1>10 DEF TypeOK, Entries
  <2> QED BY <2>1, <2>2
<1>14. TypeOK'
  BY <1>1, <1>10, <1>11, <1>13 DEF TypeOK, clock, Entries
<1>15. InPass'
  BY <1>5, <1>7, <1>11, <1>12 DEF InPass
<1>16. EntryInv'
  <2>1. eventtab'[ev_hsync].active
    BY <1>1, <1>13, HsyncEntry DEF EntryInv
  <2>2. ASSUME NEW m \in Entry, eventtab'[m].active
        PROVE  /\ m \in Device \cup {ev_misc}
               /\ \/ eventtab'[m].evtime > currcycle
                  \/ eventtab'[m].evtime = currcycle /\ Ahead(m)'
    <3>1. eventtab[m].active /\ eventtab'[m].evtime = eventtab[m].evtime
      BY <2>2, <1>13
    <3>2. CASE eventtab[m].evtime = currcycle /\ Top.i =< m
      <4>1. j =< m
        BY <3>1, <3>2, <1>3
      <4>2. CASE m = j
        <5>1. f.fn = "device" /\ f.i = m
          BY <4>2, <2>2, <1>9, <1>13
        <5> QED BY <5>1, <3>1, <3>2, <1>1, <1>11, <1>12 DEF Ahead, EntryInv
      <4>3. CASE m # j
        <5>1. g.i =< m
          BY <4>1, <4>3, <1>4, <1>5, <1>7, HsyncEntry
        <5> QED BY <5>1, <3>1, <3>2, <1>1, <1>7, <1>11, <1>12 DEF Ahead, EntryInv
      <4> QED BY <4>2, <4>3
    <3> QED BY <3>1, <3>2, <1>1 DEF EntryInv
  <2> QED BY <2>1, <2>2, <1>10 DEF EntryInv, clock
<1>17. ClockInv' /\ DeviceInv'
  BY <1>15 DEF ClockInv, DeviceInv
<1>18. SlotInv'
  BY <1>1, <1>10, <1>14, SameIsFewer, FewerKeepsSlots DEF EventsInv, clock
<1>19. OneMiscInv' /\ (recursive' <=> j = ev_misc)
  <2>1. stack'[2].fn # "MISC_handler" /\ (stack'[1].fn = "MISC_handler" <=> j = ev_misc)
    BY <1>7, <1>9, <1>11
  <2>2. DOMAIN stack' = {1, 2}
    BY <1>11, <1>12, LenProperties DEF Frames
  <2> QED BY <2>1, <2>2, <1>1, <1>10, <1>12 DEF OneMiscInv, recursive
<1>20. MiscArmedInv'
  BY <1>1, <1>10, <1>13, <1>19 DEF EventsInv, MiscArmedInv
<1>21. FramesInv'
  <2>1. FrameInv(1)'
    <3>1. CASE j = ev_misc
      <4>1. MiscFrameInv(f)'
        BY <3>1, <1>9, EventsAssumption DEF MiscFrameInv, MiscFrame, Slot
      <4> QED BY <4>1, <3>1, <1>9, <1>11 DEF FrameInv, MiscFrameInv
    <3>2. CASE j # ev_misc
      BY <3>2, <1>9, <1>11 DEF FrameInv
    <3> QED BY <3>1, <3>2
  <2>2. FrameInv(2)'
    BY <1>7, <1>11 DEF FrameInv
  <2> QED BY <2>1, <2>2, <1>12 DEF FramesInv
<1> QED BY <1>14, <1>16, <1>17, <1>18, <1>19, <1>20, <1>21 DEF EventsInv

(* The pass ends with no entry due, and schedules.                             *)
LEMMA EndOfPassKeeps ==
  ASSUME EventsInv, EndOfPass
  PROVE  EventsInv'
<1>1. /\ TypeOK /\ stack # <<>> /\ Top = stack[1] /\ Top \in Frame /\ Len(stack) = 1
      /\ Frames = {1} /\ Top.fn = "do_cycles_slow"
      /\ Top.left \in Nat /\ ~recursive /\ ~dorecheck /\ Top.i \in 0 .. Between /\ EntryInv
      /\ (\A j \in Entry : Ahead(j) <=> Top.i =< j) /\ DueFrom(Top.i) = {}
  BY CycleOnTop DEF EndOfPass, EventsInv
<1>2. \A j \in Entry : eventtab[j].active => eventtab[j].evtime > currcycle
  <2>1. \A m \in Entry : eventtab[m].active /\ eventtab[m].evtime = currcycle => m < Top.i
    BY <1>1, NextDueEntry
  <2>2. \A m \in Entry : m \in Nat
    BY DEF Entry
  <2> QED BY <2>1, <2>2, <1>1 DEF EntryInv
<1>3. PICK g : g = [Top EXCEPT !.i = Between]
  OBVIOUS
<1>4. g \in Frame /\ g.fn = "do_cycles_slow" /\ g.i = Between
  <2>1. Between \in 0 .. Between
    BY DEF Between, ev_max
  <2>2. Top \in [fn : {"do_cycles_slow"}, i : 0 .. Between, left : Nat]
    BY <1>1 DEF Frame
  <2>3. g \in [fn : {"do_cycles_slow"}, i : 0 .. Between, left : Nat]
    BY <2>1, <2>2, <1>3
  <2> QED BY <2>1, <2>2, <2>3, <1>3 DEF Frame
<1>5. /\ Continue(g) /\ nextevent' = Earliest(eventtab) /\ eventtab' = eventtab
      /\ UNCHANGED <<currcycle, tables, next, last_event2, dorecheck, requests, stored>>
      /\ eventtab2' = eventtab2
  BY <1>3 DEF EndOfPass, tables
<1>6. /\ stack' \in Seq(Frame) /\ Len(stack') = 1 /\ stack'[1] = g
  BY <1>1, <1>4, <1>5, ContinueKeeps
<1>7. Frames' = {1}
  BY <1>6 DEF Frames
<1>8. nextevent' \in Nat
  BY <1>1, <1>5, EarliestIsLeast DEF TypeOK, Entries, EntryInv
<1>9. TypeOK'
  BY <1>1, <1>5, <1>6, <1>8 DEF TypeOK
<1>10. EntryInv'
  BY <1>1, <1>2, <1>5 DEF EntryInv
<1>11. DeviceInv'
  BY <1>4, <1>6, <1>7 DEF DeviceInv
<1>12. ClockInv'
  BY <1>5, <1>9, <1>10, <1>11, ScheduledKeepsClock
<1>13. SlotInv'
  BY <1>1, <1>5, <1>9, SameIsFewer, FewerKeepsSlots DEF EventsInv
<1>14. OneMiscInv' /\ FramesInv'
  BY <1>1, <1>4, <1>5, <1>6, <1>7 DEF OneMiscInv, FramesInv, FrameInv
<1>15. MiscArmedInv'
  BY <1>1, <1>5 DEF EventsInv, MiscArmedInv
<1> QED BY <1>9, <1>10, <1>11, <1>12, <1>13, <1>14, <1>15 DEF EventsInv

--------------------------------------------------------------------------------
(* The tables as init_eventtab leaves them.                                    *)
LEMMA InitEvents ==
  ASSUME Init
  PROVE  EventsInv
<1>1. PICK t \in Period : eventtab = [i \in Entry |-> [active |-> i = ev_hsync, evtime |-> t]]
  BY DEF Init
<1>2. t \in Nat /\ t > 0 /\ MaxRequests \in Nat /\ 1 \in Slot
  BY EventsAssumption DEF Slot, ev2_misc
<1>3. /\ \A j \in Entry : eventtab[j].active = (j = ev_hsync) /\ eventtab[j].evtime = t
      /\ eventtab \in Entries
  BY <1>1, <1>2 DEF Entries
<1>4. /\ currcycle = 0 /\ nextevent = t /\ next = 1 /\ last_event2 = dummy_event
      /\ dorecheck = FALSE /\ stack = <<>> /\ requests = 0 /\ stored = 0
  BY <1>3, HsyncEntry DEF Init, ev2_misc
<1>5. /\ eventtab2 \in [Slot -> SlotRecord] /\ \A s \in Slot : ~eventtab2[s].active
  <2>1. NoRequest \in Request
    BY DEF NoRequest, Request
  <2> QED BY <2>1 DEF Init, SlotRecord
<1>6. stack \in Seq(Frame) /\ Frames = {}
  BY <1>4 DEF Frames
<1>7. TypeOK
  <2>1. next \in Slot \ {ev2_blitter} /\ last_event2 \in Slot \cup {dummy_event}
    BY <1>2, <1>4 DEF ev2_blitter
  <2>2. requests \in 0 .. MaxRequests /\ currcycle \in Nat /\ nextevent \in Nat /\ stored \in Nat
    BY <1>2, <1>4
  <2> QED BY <2>1, <2>2, <1>3, <1>4, <1>5, <1>6 DEF TypeOK, Entries, SlotRecord
<1>8. EntryInv
  BY <1>2, <1>3, <1>4, HsyncEntry, EventsAssumption DEF EntryInv
<1>9. ClockInv
  BY <1>2, <1>3, <1>4 DEF ClockInv
<1>10. SlotInv /\ MiscArmedInv
  BY <1>5 DEF SlotInv, MiscArmedInv
<1>11. FramesInv /\ OneMiscInv /\ DeviceInv
  BY <1>4, <1>6 DEF FramesInv, OneMiscInv, DeviceInv
<1> QED BY <1>7, <1>8, <1>9, <1>10, <1>11 DEF EventsInv

(* No step.                                                                    *)
LEMMA StutterKeeps ==
  ASSUME EventsInv, UNCHANGED vars
  PROVE  EventsInv'
<1>1. /\ TypeOK /\ EntryInv /\ ClockInv /\ SlotInv /\ MiscArmedInv /\ FramesInv /\ OneMiscInv
      /\ DeviceInv
  BY DEF EventsInv
<1>2. TypeOK'
  BY <1>1 DEF vars, clock, tables, TypeOK
<1>3. Kept(0, 0)
  BY <1>1, StackTypes DEF Kept, Frames, vars
<1>4. /\ \A k \in Frames : k =< 0 => Quiet(stack[k]) /\ stack[k].fn # "MISC_handler"
      /\ \A k \in Frames' : k =< 0 =>
           Quiet(stack'[k]) /\ stack'[k].fn # "MISC_handler" /\ FrameInv(k)'
  BY DEF Frames
<1>5. /\ Fewer /\ UNCHANGED <<clock, eventtab, last_event2, dorecheck, stored>>
  BY <1>1, SameIsFewer DEF vars, tables
<1> QED BY <1>2, <1>3, <1>4, <1>5, QuietStep

(* Every step keeps the invariant.                                             *)
LEMMA StepKeepsEvents ==
  ASSUME EventsInv, [Next]_vars
  PROVE  EventsInv'
<1>1. CASE ClientStep
  <2>1. ASSUME NEW f \in Func, NEW t \in Delay, event2_newevent_xx(f, t) PROVE EventsInv'
    BY <2>1, NewEventKeeps
  <2>2. ASSUME NEW f \in Func, NEW t \in Delay \cup {0},
               event2_newevent_x_replace(f, t) \/ event2_newevent_x_replace_exists(f, t)
        PROVE  EventsInv'
    BY <2>2, ReplaceKeeps
  <2>3. ASSUME NEW f \in Func, event2_newevent_x_remove(f) PROVE EventsInv'
    BY <2>3, RemoveKeeps
  <2>4. ASSUME NEW t \in Delay, event2_newevent_blitter(t) PROVE EventsInv'
    BY <2>4, NewEventKeeps
  <2>5. ASSUME event2_remevent(ev2_blitter) PROVE EventsInv'
    BY <2>5, RemoveKeeps
  <2>6. ASSUME NEW i \in Device, NEW t \in Period, ArmDevice(i, t) PROVE EventsInv'
    BY <2>6, ArmDeviceKeeps
  <2>7. ASSUME NEW i \in Device, DisarmDevice(i) PROVE EventsInv'
    BY <2>7, DisarmDeviceKeeps
  <2>8. ASSUME NEW n \in Cycles, do_cycles_slow(n) PROVE EventsInv'
    BY <2>8, StartKeeps
  <2>9. ASSUME NEW t \in Period, Reset(t) PROVE EventsInv'
    BY <2>9, ResetKeeps
  <2> QED BY <1>1, <2>1, <2>2, <2>3, <2>4, <2>5, <2>6, <2>7, <2>8, <2>9, Zenon DEF ClientStep
<1>2. CASE SchedulerStep
  BY <1>2, AdvanceClockKeeps, DispatchDeviceKeeps, EndOfPassKeeps, RunDueKeeps, RunLinkedKeeps,
     NextSlotKeeps, PassesAgainKeeps, RearmMiscKeeps, StoreBlitterKeeps, StoreRequestKeeps,
     RunSoonestKeeps, HandlerReturnsKeeps, DeviceReturnsKeeps, Zenon DEF SchedulerStep
<1>3. CASE UNCHANGED vars
  BY <1>3, StutterKeeps
<1> QED BY <1>1, <1>2, <1>3, Zenon DEF Next

(* The invariant holds in every state the scheduler reaches, whatever the      *)
(* handlers of the devices ask of it while it walks its tables.                *)
THEOREM EventsInvariant == Spec => []EventsInv
<1>1. Init => EventsInv
  BY InitEvents
<1>2. EventsInv /\ [Next]_vars => EventsInv'
  BY StepKeepsEvents
<1> QED BY <1>1, <1>2, PTL DEF Spec

(* Every variable keeps its type: the slots and links of eventtab2, and the    *)
(* frames of the calls in progress.                                            *)
THEOREM EventsTypeCorrect == Spec => []TypeOK
<1>1. EventsInv => TypeOK
  BY DEF EventsInv
<1> QED BY <1>1, EventsInvariant, PTL

(* The clock of do_cycles_slow leaves no active event of either table behind.  *)
THEOREM NoEventIsMissed == Spec => []NothingMissed
<1>1. EventsInv => NothingMissed
  BY DEF EventsInv, TypeOK, EntryInv, SlotInv, NothingMissed
<1> QED BY <1>1, EventsInvariant, PTL

(* While the CPU runs, nextevent is at or before every active entry and ev_misc *)
(* is armed for every pending request.                                         *)
THEOREM ClockStopsForEveryEvent == Spec => []ClockStopsInTime
<1>1. ASSUME EventsInv PROVE ClockStopsInTime
  <2> SUFFICES ASSUME stack = <<>>
               PROVE  /\ nextevent > currcycle
                      /\ \A i \in Entry : eventtab[i].active => nextevent =< eventtab[i].evtime
                      /\ \A s \in Slot : eventtab2[s].active =>
                           /\ eventtab[ev_misc].active
                           /\ eventtab[ev_misc].evtime =< eventtab2[s].evtime
    BY DEF ClockStopsInTime
  <2>1. ~InPass /\ ~recursive
    BY <1>1, NoCall
  <2> QED BY <2>1, <1>1 DEF EventsInv, ClockInv, MiscArmedInv
<1> QED BY <1>1, EventsInvariant, PTL

(* The handler on top of the stack.                                            *)
LEMMA HandlerOnTop ==
  ASSUME EventsInv, Running("handler")
  PROVE  HandlerFrameInv(1) /\ Top = stack[1] /\ (LinkRuns(1) <=> ByLink)
<1>1. /\ TypeOK /\ stack # <<>> /\ Top = stack[1] /\ 1 \in Frames /\ stack[1].fn = "handler"
  BY StackTypes DEF EventsInv, Running, Frames
<1>2. HandlerFrameInv(1)
  BY <1>1 DEF EventsInv, FramesInv, FrameInv
<1>3. LinkRuns(1) <=> ByLink
  BY <1>1, StackTypes DEF LinkRuns, ByLink
<1> QED BY <1>1, <1>2, <1>3

(* A request runs at the cycle it asks for or one later, unless a full table   *)
(* or the link of a slot runs it early.                                        *)
THEOREM RequestsRunOnTime == Spec => []RunsOnTime
<1>1. ASSUME EventsInv PROVE RunsOnTime
  <2> SUFFICES ASSUME Running("handler")
               PROVE  /\ currcycle =< Top.req.due + 1
                      /\ \/ currcycle >= Top.req.due \/ Top.evicted
                         \/ ByLink /\ (SlotReused \/ currcycle = Top.req.due - 1)
    BY DEF RunsOnTime
  <2>1. HandlerFrameInv(1) /\ Top = stack[1] /\ (LinkRuns(1) <=> ByLink)
    BY <1>1, HandlerOnTop
  <2> QED BY <2>1 DEF HandlerFrameInv, SlotReused
<1> QED BY <1>1, EventsInvariant, PTL

(* A request that no link runs is never before the one stored before it, if    *)
(* that one is pending at the cycle it asks for.                               *)
THEOREM PairsRunInOrder == Spec => []PairRunsInOrder
<1>1. ASSUME EventsInv PROVE PairRunsInOrder
  <2> SUFFICES ASSUME Running("handler"), ~ByLink PROVE ~OvertakesPrevious(Top.req)
    BY DEF PairRunsInOrder
  <2> QED BY <1>1, HandlerOnTop DEF HandlerFrameInv
<1> QED BY <1>1, EventsInvariant, PTL

(* Which steps of the code set the clock.                                      *)
LEMMA StepsOfTheClock ==
  ASSUME [Next]_vars
  PROVE  AdvanceClock \/ currcycle' = currcycle \/ \E t \in Period : Reset(t)
<1>1. DispatchDevice \/ EndOfPass => currcycle' = currcycle
  BY DEF DispatchDevice, EndOfPass, clock
<1>2. RunDue \/ RunLinked \/ NextSlot \/ PassesAgain \/ RearmMisc => currcycle' = currcycle
  BY DEF RunDue, RunLinked, NextSlot, PassesAgain, RearmMisc, clock
<1>3. StoreBlitter \/ StoreRequest \/ RunSoonest => currcycle' = currcycle
  BY DEF StoreBlitter, StoreRequest, Store, RunSoonest, clock
<1>4. HandlerReturns \/ DeviceReturns => currcycle' = currcycle
  BY DEF HandlerReturns, DeviceReturns, clock
<1>5. ASSUME NEW f, NEW t, \/ event2_newevent_xx(f, t) \/ event2_newevent_blitter(t)
                          \/ event2_newevent_x_replace(f, t)
                          \/ event2_newevent_x_replace_exists(f, t)
      PROVE  currcycle' = currcycle
  BY <1>5 DEF event2_newevent_xx, event2_newevent_blitter, event2_newevent_x_replace,
              event2_newevent_x_replace_exists, clock
<1>6. ASSUME NEW f, event2_newevent_x_remove(f) \/ event2_remevent(f) \/ do_cycles_slow(f)
      PROVE  currcycle' = currcycle
  BY <1>6 DEF event2_newevent_x_remove, event2_remevent, do_cycles_slow, clock
<1>7. ASSUME NEW i, NEW t, ArmDevice(i, t) \/ DisarmDevice(i)
      PROVE  currcycle' = currcycle
  BY <1>7 DEF ArmDevice, DisarmDevice
<1>8. CASE SchedulerStep
  BY <1>1, <1>2, <1>3, <1>4, <1>8 DEF SchedulerStep
<1>9. CASE ClientStep
  BY <1>5, <1>6, <1>7, <1>9 DEF ClientStep
<1>10. CASE UNCHANGED vars
  BY <1>10 DEF vars, clock
<1> QED BY <1>8, <1>9, <1>10 DEF Next

(* Only a reset turns the clock back. do_cycles_slow sets it to nextevent      *)
(* without a comparison: it relies on every handler it has called, and on the  *)
(* calls of these handlers, to leave nextevent ahead.                          *)
ClockRunsForward == [][currcycle' >= currcycle \/ (\E t \in Period : Reset(t))]_vars

(* The clock does not run backwards.                                           *)
THEOREM ClockKeepsGoing == Spec => ClockRunsForward
<1>1. ASSUME EventsInv, AdvanceClock PROVE currcycle' >= currcycle
  <2>1. TypeOK /\ Top.left \in Nat /\ ~InPass
    BY <1>1, CycleOnTop DEF AdvanceClock
  <2>2. currcycle \in Nat /\ nextevent \in Nat /\ nextevent > currcycle
    BY <1>1, <2>1 DEF EventsInv, ClockInv, TypeOK
  <2>3. currcycle' = nextevent \/ currcycle' = currcycle + Top.left
    BY <1>1 DEF AdvanceClock
  <2> QED BY <2>1, <2>2, <2>3
<1>2. ASSUME EventsInv, [Next]_vars
      PROVE  currcycle' >= currcycle \/ \E t \in Period : Reset(t)
  <2>1. currcycle \in Nat
    BY <1>2 DEF EventsInv, TypeOK
  <2>2. AdvanceClock \/ currcycle' = currcycle \/ \E t \in Period : Reset(t)
    BY <1>2, StepsOfTheClock
  <2> QED BY <1>1, <1>2, <2>1, <2>2
<1> QED BY <1>2, EventsInvariant, PTL DEF Spec, ClockRunsForward
================================================================================
