------------------------- MODULE FilesysUnitProofs -------------------------
(***************************************************************************)
(* Proofs about FilesysUnit for every set of packets, every limit of       *)
(* started commands and every pipe that has room for that many and the     *)
(* death message.                                                          *)
(***************************************************************************)
EXTENDS FilesysUnit, FiniteSetTheorems, SequenceTheorems, TLAPS

(* What a part of the invariant does not mention cannot disturb it.        *)
LEMMA HeldFrame ==
  ASSUME UNCHANGED <<chain, status>>
  PROVE  Held' = Held
BY DEF Held

LEMMA HandlerFrame ==
  ASSUME HandlerInv, UNCHANGED <<status, chain, visit, started, hpc, msg, emu>>
  PROVE  HandlerInv'
BY HeldFrame DEF HandlerInv

LEMMA PortFrame ==
  ASSUME PortInv, UNCHANGED <<port, status, hpc, msg>>
  PROVE  PortInv'
BY DEF PortInv

LEMMA DummyFrame ==
  ASSUME DummyInv, UNCHANGED <<epc, port, hpc, msg, cmds_acked, cmds_complete>>
  PROVE  DummyInv'
BY DEF DummyInv, DummyAt

LEMMA HostFrame ==
  ASSUME HostInv,
         UNCHANGED <<status, chain, hpc, msg, unit_pipe, locks, fpc, pck, ret>>,
         emu' = "torn" <=> emu = "torn"
  PROVE  HostInv'
BY HeldFrame DEF HostInv, Work, Performs, Listed, Taken, locks

LEMMA ResetFrame ==
  ASSUME ResetInv, UNCHANGED <<reset_state, emu, unit_pipe, pck, fpc, reset_sync_sem>>
  PROVE  ResetInv'
BY DEF ResetInv

(* Taking the first element of a queue.                                    *)
LEMMA FirstOf ==
  ASSUME NEW S, NEW s \in Seq(S), s # <<>>
  PROVE  /\ Head(s) \in S /\ Head(s) = s[1] /\ Tail(s) \in Seq(S)
         /\ Len(s) \in Nat /\ Len(s) > 0 /\ Len(Tail(s)) = Len(s) - 1
         /\ \A i \in 1 .. Len(Tail(s)) : Tail(s)[i] = s[i + 1]
BY HeadTailProperties, LenProperties

(* The handler's commands can be counted.                                  *)
LEMMA HeldFinite ==
  ASSUME TypeOK
  PROVE  IsFiniteSet(Held) /\ Cardinality(Held) \in Nat /\ Held \subseteq Packet \cap chain
<1>1. Held \in SUBSET Packet /\ Held \subseteq chain
  BY DEF TypeOK, Held
<1>. QED BY <1>1, FS_Subset, FS_CardinalityType, UnitAssumption

(* Every step keeps the types and what UnitInv says of the single parts.   *)
LEMMA BaseStep ==
  ASSUME TypeOK, UnitInv, [Next]_vars
  PROVE  TypeOK' /\ BaseInv'
<1>. USE DEF handler, exter, cmds, thread, locks, reset, bounds
<1>a. HandlerInv /\ PortInv /\ DummyInv /\ HostInv /\ ResetInv
  BY DEF UnitInv, BaseInv
<1>l. emu # "torn" => ListInv
  BY DEF UnitInv
<1>h. IsFiniteSet(Held) /\ Cardinality(Held) \in Nat /\ Held \subseteq Packet \cap chain
  BY HeldFinite
<1>p. port # <<>> => /\ Head(port) \in Packet \cup {Dummy} /\ Head(port) = port[1]
                     /\ Tail(port) \in Seq(Packet \cup {Dummy})
                     /\ Len(port) \in Nat /\ Len(port) > 0 /\ Len(Tail(port)) = Len(port) - 1
                     /\ \A i \in 1 .. Len(Tail(port)) : Tail(port)[i] = port[i + 1]
  BY FirstOf DEF TypeOK
<1>1. ASSUME NEW p \in Packet, DosSend(p) PROVE TypeOK' /\ BaseInv'
  <2>1. Held' = Held
    BY <1>1 DEF DosSend, Held
  <2>2. /\ port' \in Seq(Packet \cup {Dummy}) /\ Len(port') = Len(port) + 1 /\ Len(port) \in Nat
        /\ \A i \in 1 .. Len(port) : port'[i] = port[i]
        /\ port'[Len(port) + 1] = p
    BY <1>1 DEF DosSend, PutMsg, TypeOK
  <2>3. TypeOK'
    BY <1>1, UnitAssumption DEF DosSend, TypeOK, PutMsg
  <2>4. HandlerInv'
    BY <1>1, <1>a, <2>1 DEF DosSend, HandlerInv, Mark
  <2>5. PortInv'
    BY <1>1, <1>a, UnitAssumption DEF DosSend, PortInv, HandlerInv, TypeOK, PutMsg
  <2>6. DummyInv'
    BY <1>1, <1>a, UnitAssumption DEF DosSend, DummyInv, DummyAt, PutMsg
  <2>7. HostInv'
    BY <1>1, <1>a, <2>1 DEF DosSend, HostInv, Work, Performs, Listed, Taken
  <2>8. ResetInv'
    BY <1>1, <1>a, ResetFrame DEF DosSend
  <2>. QED BY <2>3, <2>4, <2>5, <2>6, <2>7, <2>8 DEF BaseInv
<1>2. CASE GetMsg
  <2>1. Held' = Held
    BY <1>2, HeldFrame DEF GetMsg
  <2>2. port = <<>> => hpc' = "wait" /\ port' = port /\ msg' = None
    BY <1>2 DEF GetMsg
  <2>3. port # <<>> => hpc' = "message" /\ msg' = Head(port) /\ port' = Tail(port)
    BY <1>2 DEF GetMsg
  <2>4. TypeOK'
    <3>1. port' \in Seq(Packet \cup {Dummy}) /\ msg' \in Packet \cup {Dummy, None}
      BY <1>p, <2>2, <2>3 DEF TypeOK
    <3>2. hpc' \in {"wait", "message"}
      BY <2>2, <2>3
    <3>. QED BY <1>2, <3>1, <3>2 DEF GetMsg, TypeOK
  <2>5. HandlerInv'
    <3>1. hpc' = "message" /\ msg' \in Packet => status[msg'] = "sent"
      BY <1>a, <2>2, <2>3, <1>p, UnitAssumption DEF PortInv
    <3>2. hpc' \in {"wait", "message"} /\ (hpc' = "message" => msg' # None)
      BY <2>2, <2>3, <1>p, UnitAssumption
    <3>. QED BY <1>2, <1>a, <2>1, <3>1, <3>2 DEF GetMsg, HandlerInv
  <2>6. PortInv'
    <3>1. CASE port = <<>>
      BY <1>2, <1>a, <2>2, <3>1 DEF GetMsg, PortInv
    <3>2. CASE port # <<>>
      <4>1. \A i \in 1 .. Len(port') : i + 1 \in 1 .. Len(port) /\ port'[i] = port[i + 1]
        BY <1>p, <2>3, <3>2
      <4>2. 1 \in 1 .. Len(port) /\ msg' = port[1] /\ Len(port') \in Nat
        BY <1>p, <2>3, <3>2
      <4>3. status' = status
        BY <1>2 DEF GetMsg
      <4>4. \A i \in 1 .. Len(port') : port'[i] = Dummy \/ status'[port'[i]] = "sent"
        BY <1>a, <4>1, <4>3 DEF PortInv
      <4>5. \A i, j \in 1 .. Len(port') : port'[i] = port'[j] => i = j
        <5>1. TAKE i, j \in 1 .. Len(port')
        <5>2. port[i + 1] = port[j + 1] => i + 1 = j + 1
          BY <1>a, <4>1 DEF PortInv
        <5>. QED BY <4>1, <4>2, <5>2
      <4>6. \A i \in 1 .. Len(port') : port'[i] # msg'
        <5>1. TAKE i \in 1 .. Len(port')
        <5>2. port[i + 1] = port[1] => i + 1 = 1
          BY <1>a, <4>1, <4>2 DEF PortInv
        <5>. QED BY <4>1, <4>2, <5>2
      <4>. QED BY <4>4, <4>5, <4>6 DEF PortInv
    <3>. QED BY <3>1, <3>2
  <2>7. DummyInv'
    <3>1. UNCHANGED <<epc, cmds_acked, cmds_complete>> /\ hpc # "message"
      BY <1>2 DEF GetMsg
    <3>2. CASE port = <<>>
      BY <1>a, <2>2, <3>1, <3>2 DEF DummyInv, DummyAt
    <3>3. CASE port # <<>>
      <4>1. msg' = Dummy => DummyAt # {}
        BY <1>p, <2>3, <3>3 DEF DummyAt
      <4>2. DummyAt' # {} => DummyAt # {}
        BY <1>p, <2>3, <3>3 DEF DummyAt
      <4>. QED BY <1>a, <3>1, <4>1, <4>2 DEF DummyInv
    <3>. QED BY <3>2, <3>3
  <2>8. HostInv'
    BY <1>2, <1>a, <2>1 DEF GetMsg, HostInv, Work, Performs, Listed, Taken
  <2>9. ResetInv'
    BY <1>2, <1>a, ResetFrame DEF GetMsg
  <2>. QED BY <2>4, <2>5, <2>6, <2>7, <2>8, <2>9 DEF BaseInv
<1>3. CASE WaitReturns
  <2>1. Held' = Held
    BY <1>3, HeldFrame DEF WaitReturns
  <2>2. TypeOK'
    BY <1>3 DEF WaitReturns, TypeOK
  <2>3. HandlerInv'
    BY <1>3, <1>a, <2>1 DEF WaitReturns, HandlerInv
  <2>4. PortInv'
    BY <1>3, <1>a DEF WaitReturns, PortInv
  <2>5. DummyInv'
    BY <1>3, <1>a DEF WaitReturns, DummyInv, DummyAt
  <2>6. HostInv'
    BY <1>3, <1>a, <2>1 DEF WaitReturns, HostInv, Work, Performs, Listed, Taken
  <2>7. ResetInv'
    BY <1>3, <1>a, ResetFrame DEF WaitReturns
  <2>. QED BY <2>2, <2>3, <2>4, <2>5, <2>6, <2>7 DEF BaseInv
<1>4. CASE TakeDummy
  <2>1. Held' = Held
    BY <1>4, HeldFrame DEF TakeDummy
  <2>2. TypeOK'
    BY <1>4, UnitAssumption DEF TakeDummy, TypeOK
  <2>3. HandlerInv'
    BY <1>4, <1>a, <2>1 DEF TakeDummy, HandlerInv
  <2>4. PortInv'
    BY <1>4, <1>a DEF TakeDummy, PortInv
  <2>5. DummyInv'
    BY <1>4, <1>a DEF TakeDummy, DummyInv, DummyAt, PortInv
  <2>6. HostInv'
    BY <1>4, <1>a, <2>1 DEF TakeDummy, HostInv, Work, Performs, Listed, Taken
  <2>7. ResetInv'
    BY <1>4, <1>a, ResetFrame DEF TakeDummy
  <2>. QED BY <2>2, <2>3, <2>4, <2>5, <2>6, <2>7 DEF BaseInv
<1>5. ASSUME NEW p \in Packet, ScanPacket(p) PROVE TypeOK' /\ BaseInv'
  <2>1. Held' = IF status[p] = Wanted THEN Held \ {p} ELSE Held
    BY <1>5 DEF ScanPacket, Held, TypeOK
  <2>2. status[p] = Wanted => p \in Held
    BY <1>5, <1>a DEF ScanPacket, HandlerInv, Wanted, Held
  <2>3. status[p] = Wanted => Cardinality(Held') = started - 1 /\ started > 0
    BY <1>5, <1>a, <1>h, <2>2, <2>1, FS_RemoveElement, FS_EmptySet DEF HandlerInv
  <2>4. \A q \in Work : status[q] = "handed" => q \in Work' /\ status'[q] = "handed"
    BY <1>5, <1>a, <1>h, <2>1 DEF ScanPacket, Work, Wanted, HandlerInv, TypeOK
  <2>5. TypeOK'
    BY <1>5, <2>3 DEF ScanPacket, TypeOK
  <2>6. HandlerInv'
    BY <1>5, <1>a, <2>1, <2>3, UnitAssumption DEF ScanPacket, HandlerInv, TypeOK
  <2>7. PortInv'
    BY <1>5, <1>a DEF ScanPacket, PortInv, TypeOK, Wanted
  <2>8. HostInv'
    <3>1. /\ UNCHANGED <<emu, unit_pipe, fpc, pck, ret>> /\ (Performs' <=> Performs)
          /\ Listed' = Listed
      BY <1>5 DEF ScanPacket, Performs, Listed, Taken
    <3>2. \A i \in 1 .. Len(unit_pipe) :
             unit_pipe[i] # Death => /\ unit_pipe[i] \in Work' \ Listed
                                     /\ status'[unit_pipe[i]] = "handed"
      BY <1>a, <2>4 DEF HostInv
    <3>3. Performs \/ (fpc = "check" /\ pck # Death)
             => pck \in Work' \ Listed /\ status'[pck] = "handed"
      BY <1>a, <2>4 DEF HostInv
    <3>. QED BY <1>a, <3>1, <3>2, <3>3 DEF HostInv
  <2>9. DummyInv' /\ ResetInv'
    BY <1>5, <1>a, DummyFrame, ResetFrame DEF ScanPacket
  <2>. QED BY <2>5, <2>6, <2>7, <2>8, <2>9 DEF BaseInv
<1>6. CASE ScanEnds
  <2>1. Held' = Held
    BY <1>6, HeldFrame DEF ScanEnds
  <2>2. TypeOK'
    BY <1>6 DEF ScanEnds, TypeOK
  <2>3. HandlerInv'
    BY <1>6, <1>a, <2>1 DEF ScanEnds, HandlerInv
  <2>4. PortInv'
    BY <1>6, <1>a DEF ScanEnds, PortInv
  <2>5. DummyInv'
    BY <1>6, <1>a DEF ScanEnds, DummyInv, DummyAt
  <2>6. HostInv'
    BY <1>6, <1>a, <2>1 DEF ScanEnds, HostInv, Work, Performs, Listed, Taken
  <2>7. ResetInv'
    BY <1>6, <1>a, ResetFrame DEF ScanEnds
  <2>. QED BY <2>2, <2>3, <2>4, <2>5, <2>6, <2>7 DEF BaseInv
<1>7. CASE TooMany
  <2>1. Held' = Held
    BY <1>7, <1>a DEF TooMany, Held, HandlerInv, TypeOK, Mark
  <2>2. TypeOK'
    BY <1>7 DEF TooMany, TypeOK, Mark
  <2>3. HandlerInv'
    BY <1>7, <1>a, <2>1 DEF TooMany, HandlerInv, TypeOK, Mark
  <2>4. PortInv'
    BY <1>7, <1>a DEF TooMany, PortInv
  <2>5. DummyInv'
    BY <1>7, <1>a DEF TooMany, DummyInv, DummyAt
  <2>6. HostInv'
    BY <1>7, <1>a, <2>1 DEF TooMany, HostInv, Work, Performs, Listed, Taken, HandlerInv
  <2>7. ResetInv'
    BY <1>7, <1>a, ResetFrame DEF TooMany
  <2>. QED BY <2>2, <2>3, <2>4, <2>5, <2>6, <2>7 DEF BaseInv
<1>8. CASE Refuse
  <2>1. Held' = Held
    BY <1>8, <1>a DEF Refuse, Held, HandlerInv
  <2>2. TypeOK'
    BY <1>8 DEF Refuse, TypeOK
  <2>3. HandlerInv'
    BY <1>8, <1>a, <2>1 DEF Refuse, HandlerInv, Mark
  <2>4. PortInv'
    BY <1>8, <1>a DEF Refuse, PortInv
  <2>5. DummyInv'
    BY <1>8, <1>a DEF Refuse, DummyInv, DummyAt
  <2>6. HostInv'
    BY <1>8, <1>a, <2>1 DEF Refuse, HostInv, Work, Performs, Listed, Taken, HandlerInv
  <2>7. ResetInv'
    BY <1>8, <1>a, ResetFrame DEF Refuse
  <2>. QED BY <2>2, <2>3, <2>4, <2>5, <2>6, <2>7 DEF BaseInv
<1>9. CASE HandOver
  <2>1. Held' = Held
    BY <1>9, <1>a DEF HandOver, Held, HandlerInv
  <2>2. TypeOK'
    BY <1>9 DEF HandOver, TypeOK, Mark
  <2>3. HandlerInv'
    BY <1>9, <1>a, <2>1 DEF HandOver, HandlerInv, TypeOK, Mark, CanStart
  <2>4. PortInv'
    BY <1>9, <1>a DEF HandOver, PortInv
  <2>5. HostInv'
    BY <1>9, <1>a, <2>1 DEF HandOver, HostInv, Work, Performs, Listed, Taken
  <2>6. ResetInv'
    BY <1>9, <1>a DEF HandOver, ResetInv
  <2>7. DummyInv'
    BY <1>9, <1>a, DummyFrame DEF HandOver
  <2>. QED BY <2>2, <2>3, <2>4, <2>5, <2>6, <2>7 DEF BaseInv
<1>10. CASE Enqueue
  <2>1. Held' = Held \cup {msg}
    BY <1>10, <1>a DEF Enqueue, Held, HandlerInv
  <2>2. msg \notin Held /\ started = Cardinality(Held)
    BY <1>10, <1>a, <1>h DEF Enqueue, HandlerInv
  <2>3. Cardinality(Held') = started + 1
    BY <1>h, <2>1, <2>2, FS_AddElement
  <2>4. Work' = Work
    BY <1>10, <2>1 DEF Enqueue, Work
  <2>5. TypeOK'
    BY <1>10, <1>a DEF Enqueue, TypeOK, HandlerInv
  <2>6. HandlerInv'
    BY <1>10, <1>a, <2>3, UnitAssumption DEF Enqueue, HandlerInv, TypeOK
  <2>7. PortInv'
    BY <1>10, <1>a DEF Enqueue, PortInv
  <2>8. DummyInv'
    BY <1>10, <1>a DEF Enqueue, DummyInv, DummyAt
  <2>9. HostInv'
    <3>1. UNCHANGED <<emu, status, unit_pipe, locks, fpc, pck, ret>>
      BY <1>10 DEF Enqueue
    <3>. QED BY <1>a, <2>4, <3>1 DEF HostInv, Performs, Listed, Taken
  <2>10. ResetInv'
    BY <1>10, <1>a, ResetFrame DEF Enqueue
  <2>. QED BY <2>5, <2>6, <2>7, <2>8, <2>9, <2>10 DEF BaseInv
<1>11. CASE ExterServer
  <2>1. TypeOK'
    BY <1>11 DEF ExterServer, TypeOK
  <2>2. HandlerInv' /\ PortInv' /\ DummyInv' /\ HostInv' /\ ResetInv'
    BY <1>11, <1>a, HandlerFrame, PortFrame, DummyFrame, HostFrame, ResetFrame DEF ExterServer
  <2>. QED BY <2>1, <2>2 DEF BaseInv
<1>12. CASE ExterWakes
  <2>1. TypeOK'
    BY <1>12 DEF ExterWakes, TypeOK
  <2>2. DummyInv'
    BY <1>12, <1>a DEF ExterWakes, DummyInv, DummyAt
  <2>3. HandlerInv' /\ PortInv' /\ HostInv' /\ ResetInv'
    BY <1>12, <1>a, HandlerFrame, PortFrame, HostFrame, ResetFrame DEF ExterWakes
  <2>. QED BY <2>1, <2>2, <2>3 DEF BaseInv
<1>13. CASE HelperBusy
  <2>1. TypeOK'
    BY <1>13 DEF HelperBusy, TypeOK
  <2>2. DummyInv'
    BY <1>13, <1>a DEF HelperBusy, DummyInv, DummyAt
  <2>3. HandlerInv' /\ PortInv' /\ HostInv' /\ ResetInv'
    BY <1>13, <1>a, HandlerFrame, PortFrame, HostFrame, ResetFrame DEF HelperBusy
  <2>. QED BY <2>1, <2>2, <2>3 DEF BaseInv
<1>14. CASE Helper
  <2>1. TypeOK'
    BY <1>14, UnitAssumption DEF Helper, TypeOK
  <2>2. DummyInv'
    BY <1>14, <1>a DEF Helper, DummyInv, DummyAt, UnitReady
  <2>3. HandlerInv' /\ PortInv' /\ HostInv' /\ ResetInv'
    BY <1>14, <1>a, HandlerFrame, PortFrame, HostFrame, ResetFrame DEF Helper
  <2>. QED BY <2>1, <2>2, <2>3 DEF BaseInv
<1>15. CASE ExterPutMsg
  <2>1. /\ port' \in Seq(Packet \cup {Dummy}) /\ Len(port') = Len(port) + 1 /\ Len(port) \in Nat
        /\ \A i \in 1 .. Len(port) : port'[i] = port[i]
        /\ port'[Len(port) + 1] = Dummy
    BY <1>15 DEF ExterPutMsg, PutMsg, TypeOK
  <2>2. TypeOK'
    BY <1>15 DEF ExterPutMsg, TypeOK, PutMsg
  <2>3. PortInv'
    <3>1. UNCHANGED <<status, hpc, msg>> /\ epc = "putmsg"
      BY <1>15 DEF ExterPutMsg
    <3>2. \A i \in 1 .. Len(port) : port[i] # Dummy
      BY <1>a, <3>1 DEF DummyInv, DummyAt
    <3>3. \A i \in 1 .. Len(port') :
             i = Len(port) + 1 \/ (i \in 1 .. Len(port) /\ port'[i] = port[i])
      BY <2>1
    <3>4. \A i, j \in 1 .. Len(port') : port'[i] = port'[j] => i = j
      <4>1. TAKE i, j \in 1 .. Len(port')
      <4>2. CASE i \in 1 .. Len(port) /\ j \in 1 .. Len(port)
        BY <1>a, <2>1, <4>2 DEF PortInv
      <4>3. CASE i \in 1 .. Len(port) /\ j = Len(port) + 1
        BY <2>1, <3>2, <4>3
      <4>4. CASE i = Len(port) + 1 /\ j \in 1 .. Len(port)
        BY <2>1, <3>2, <4>4
      <4>. QED BY <3>3, <4>2, <4>3, <4>4
    <3>5. \A i \in 1 .. Len(port') : port'[i] = Dummy \/ status[port'[i]] = "sent"
      BY <1>a, <2>1, <3>3 DEF PortInv
    <3>6. hpc = "message" => \A i \in 1 .. Len(port') : port'[i] # msg
      BY <1>a, <2>1, <3>1, <3>3 DEF PortInv, DummyInv
    <3>. QED BY <3>1, <3>4, <3>5, <3>6 DEF PortInv
  <2>4. DummyInv'
    BY <1>15, <1>a DEF ExterPutMsg, DummyInv
  <2>5. HandlerInv' /\ HostInv' /\ ResetInv'
    BY <1>15, <1>a, HandlerFrame, HostFrame, ResetFrame DEF ExterPutMsg
  <2>. QED BY <2>2, <2>3, <2>4, <2>5 DEF BaseInv
<1>16. CASE ExterSignal
  <2>1. TypeOK'
    BY <1>16 DEF ExterSignal, TypeOK
  <2>2. DummyInv'
    BY <1>16, <1>a DEF ExterSignal, DummyInv, DummyAt
  <2>3. HandlerInv' /\ PortInv' /\ HostInv' /\ ResetInv'
    BY <1>16, <1>a, HandlerFrame, PortFrame, HostFrame, ResetFrame DEF ExterSignal
  <2>. QED BY <2>1, <2>2, <2>3 DEF BaseInv
<1>17. ASSUME NEW p \in Packet, VsyncFinds(p) PROVE TypeOK' /\ BaseInv'
  <2>1. Held' = Held
    BY <1>17, HeldFrame DEF VsyncFinds
  <2>2. TypeOK'
    BY <1>17, UnitAssumption DEF VsyncFinds, TypeOK, InTimeout
  <2>3. HandlerInv'
    BY <1>17, <1>a, <2>1 DEF VsyncFinds, HandlerInv
  <2>4. HostInv'
    BY <1>17, <1>a, <2>1 DEF VsyncFinds, HostInv, Work, Performs, Listed, Taken
  <2>5. ResetInv'
    BY <1>17, <1>a DEF VsyncFinds, ResetInv
  <2>6. PortInv' /\ DummyInv'
    BY <1>17, <1>a, PortFrame, DummyFrame DEF VsyncFinds
  <2>. QED BY <2>2, <2>3, <2>4, <2>5, <2>6 DEF BaseInv
<1>31. CASE RecordTimeout
  <2>0. v_lr \in Packet /\ v_lr \in Work /\ status[v_lr] \in {"handed", "done"}
    BY <1>31, <1>l, <1>h DEF RecordTimeout, ListInv, InTimeout, TypeOK, Work
  <2>1. Held' = Held
    BY <1>31, <2>0 DEF RecordTimeout, Held, TypeOK
  <2>2. \A q \in Packet : status[q] = "sent" => status'[q] = "sent"
    BY <1>31, <2>0 DEF RecordTimeout, TypeOK
  <2>3. TypeOK'
    BY <1>31, <2>0 DEF RecordTimeout, TypeOK, Mark, InTimeout
  <2>4. HandlerInv'
    BY <1>31, <1>a, <2>0, <2>1 DEF RecordTimeout, HandlerInv, TypeOK, Mark
  <2>5. PortInv'
    BY <1>31, <1>a, <2>2 DEF RecordTimeout, PortInv, TypeOK
  <2>6. HostInv'
    BY <1>31, <1>a, <2>1 DEF RecordTimeout, HostInv, Work, Performs, Listed, Taken
  <2>7. ResetInv'
    BY <1>31, <1>a DEF RecordTimeout, ResetInv
  <2>8. DummyInv'
    BY <1>31, <1>a, DummyFrame DEF RecordTimeout
  <2>. QED BY <2>3, <2>4, <2>5, <2>6, <2>7, <2>8 DEF BaseInv
<1>32. CASE TimeoutSignal
  <2>1. Held' = Held
    BY <1>32, HeldFrame DEF TimeoutSignal
  <2>2. TypeOK'
    BY <1>32 DEF TimeoutSignal, TypeOK, InTimeout
  <2>3. HandlerInv'
    BY <1>32, <1>a, <2>1 DEF TimeoutSignal, HandlerInv
  <2>4. HostInv'
    BY <1>32, <1>a, HostFrame DEF TimeoutSignal
  <2>5. ResetInv'
    BY <1>32, <1>a DEF TimeoutSignal, ResetInv
  <2>6. PortInv' /\ DummyInv'
    BY <1>32, <1>a, PortFrame, DummyFrame DEF TimeoutSignal
  <2>. QED BY <2>2, <2>3, <2>4, <2>5, <2>6 DEF BaseInv
<1>33. CASE TimeoutUnlink
  <2>1. Held' = Held
    BY <1>33, HeldFrame DEF TimeoutUnlink
  <2>2. TypeOK'
    BY <1>33 DEF TimeoutUnlink, TypeOK, InTimeout, Tear
  <2>3. HandlerInv'
    BY <1>33, <1>a, <2>1 DEF TimeoutUnlink, HandlerInv, Tear
  <2>4. HostInv'
    BY <1>33, <1>a, <2>1
       DEF TimeoutUnlink, HostInv, Work, Performs, Listed, Taken, Tear
  <2>5. ResetInv'
    BY <1>33, <1>a DEF TimeoutUnlink, ResetInv, Tear, HostInv
  <2>6. PortInv' /\ DummyInv'
    BY <1>33, <1>a, PortFrame, DummyFrame DEF TimeoutUnlink
  <2>. QED BY <2>2, <2>3, <2>4, <2>5, <2>6 DEF BaseInv
<1>34. CASE TimeoutFree
  <2>0. u_lr = v_lr => fpc \in {"insert", "unlink", "release", "free"}
    BY <1>34, <1>l DEF TimeoutFree, ListInv, InTimeout
  <2>1. Held' = Held
    BY <1>34, HeldFrame DEF TimeoutFree
  <2>2. TypeOK'
    BY <1>34 DEF TimeoutFree, TypeOK, Tear
  <2>3. HandlerInv'
    BY <1>34, <1>a, <2>1 DEF TimeoutFree, HandlerInv, Tear
  <2>4. HostInv'
    BY <1>34, <1>a, <1>h, <2>0, <2>1, UnitAssumption
       DEF TimeoutFree, HostInv, Work, Performs, Listed, Taken, Tear, HandlerInv
  <2>5. ResetInv'
    BY <1>34, <1>a, <2>0 DEF TimeoutFree, ResetInv, Tear
  <2>6. PortInv' /\ DummyInv'
    BY <1>34, <1>a, PortFrame, DummyFrame DEF TimeoutFree
  <2>. QED BY <2>2, <2>3, <2>4, <2>5, <2>6 DEF BaseInv
<1>18. CASE OtherRequest
  <2>1. TypeOK'
    BY <1>18 DEF OtherRequest, TypeOK
  <2>2. HandlerInv' /\ PortInv' /\ DummyInv' /\ HostInv' /\ ResetInv'
    BY <1>18, <1>a, HandlerFrame, PortFrame, DummyFrame, HostFrame, ResetFrame DEF OtherRequest
  <2>. QED BY <2>1, <2>2 DEF BaseInv
<1>19. CASE ResetMachine
  <2>1. Held' = Held
    BY <1>19, HeldFrame DEF ResetMachine
  <2>2. TypeOK'
    BY <1>19, UnitAssumption DEF ResetMachine, TypeOK
  <2>3. HandlerInv'
    BY <1>19, <1>a, <2>1 DEF ResetMachine, HandlerInv
  <2>4. ResetInv'
    BY <1>19, <1>a DEF ResetMachine, ResetInv
  <2>5. PortInv' /\ DummyInv' /\ HostInv'
    BY <1>19, <1>a, PortFrame, DummyFrame, HostFrame DEF ResetMachine
  <2>. QED BY <2>2, <2>3, <2>4, <2>5 DEF BaseInv
<1>20. CASE WriteUnitPipe
  <2>1. Held' = Held
    BY <1>20, HeldFrame DEF WriteUnitPipe
  <2>2. /\ unit_pipe' \in Seq(Packet \cup {Death}) /\ Len(unit_pipe) \in Nat
        /\ Len(unit_pipe') = Len(unit_pipe) + 1
        /\ \A i \in 1 .. Len(unit_pipe) : unit_pipe'[i] = unit_pipe[i]
        /\ unit_pipe'[Len(unit_pipe) + 1] = msg
    BY <1>20, <1>a DEF WriteUnitPipe, TypeOK, HandlerInv
  <2>3. /\ Work' = Work \cup {msg} /\ msg \notin Work /\ Work \subseteq Packet
        /\ msg # Death /\ status[msg] = "handed"
    BY <1>20, <1>a, <1>h, <2>1, UnitAssumption DEF WriteUnitPipe, Work, HandlerInv
  <2>4. TypeOK'
    BY <1>20, <2>2 DEF WriteUnitPipe, TypeOK
  <2>5. HandlerInv'
    BY <1>20, <1>a, <2>1 DEF WriteUnitPipe, HandlerInv
  <2>6. PortInv'
    BY <1>20, <1>a DEF WriteUnitPipe, PortInv
  <2>7. DummyInv'
    BY <1>20, <1>a DEF WriteUnitPipe, DummyInv, DummyAt
  <2>8. HostInv'
    <3>1. msg \notin Listed
      BY <1>20, <1>a, <1>l, <2>3, UnitAssumption
         DEF WriteUnitPipe, ListInv, Listed, InTimeout, HandlerInv
    <3>2. Listed' = Listed
      BY <1>20 DEF WriteUnitPipe, Listed, Taken
    <3>. QED BY <1>20, <1>a, <2>2, <2>3, <3>1, <3>2 DEF WriteUnitPipe, HostInv, Performs
  <2>9. ResetInv'
    BY <1>20, <1>a, UnitAssumption DEF WriteUnitPipe, ResetInv, TypeOK
  <2>. QED BY <2>4, <2>5, <2>6, <2>7, <2>8, <2>9 DEF BaseInv
<1>21. CASE SendDeath
  <2>1. Held' = Held
    BY <1>21, HeldFrame DEF SendDeath
  <2>2. /\ unit_pipe' \in Seq(Packet \cup {Death}) /\ Len(unit_pipe) \in Nat
        /\ Len(unit_pipe') = Len(unit_pipe) + 1
        /\ \A i \in 1 .. Len(unit_pipe) : unit_pipe'[i] = unit_pipe[i]
        /\ unit_pipe'[Len(unit_pipe) + 1] = Death
    BY <1>21 DEF SendDeath, TypeOK
  <2>3. Work' = Work /\ Death \notin Work
    BY <1>21, <1>a, <1>h, <2>1, UnitAssumption DEF SendDeath, Work, HandlerInv
  <2>4. TypeOK'
    BY <1>21 DEF SendDeath, TypeOK
  <2>5. HandlerInv'
    BY <1>21, <1>a, <2>1 DEF SendDeath, HandlerInv
  <2>6. HostInv'
    BY <1>21, <1>a, <2>3 DEF SendDeath, HostInv, ResetInv, Performs, Listed, Taken
  <2>7. ResetInv'
    BY <1>21, <1>a DEF SendDeath, ResetInv
  <2>8. PortInv' /\ DummyInv'
    BY <1>21, <1>a, PortFrame, DummyFrame DEF SendDeath
  <2>. QED BY <2>4, <2>5, <2>6, <2>7, <2>8 DEF BaseInv
<1>22. CASE JoinThread
  <2>1. Held' = Held
    BY <1>22, HeldFrame DEF JoinThread
  <2>2. TypeOK'
    BY <1>22 DEF JoinThread, TypeOK
  <2>3. HandlerInv'
    BY <1>22, <1>a, <2>1 DEF JoinThread, HandlerInv
  <2>4. ResetInv'
    BY <1>22, <1>a DEF JoinThread, ResetInv, TypeOK
  <2>5. PortInv' /\ DummyInv' /\ HostInv'
    BY <1>22, <1>a, PortFrame, DummyFrame, HostFrame DEF JoinThread
  <2>. QED BY <2>2, <2>3, <2>4, <2>5 DEF BaseInv
<1>23. CASE Reboot
  <2>1. Held' = {} /\ Cardinality({}) = 0
    BY <1>23, FS_EmptySet DEF Reboot, Held
  <2>2. TypeOK'
    BY <1>23, UnitAssumption DEF Reboot, TypeOK
  <2>3. HandlerInv'
    BY <1>23, UnitAssumption, <2>1 DEF Reboot, HandlerInv
  <2>4. PortInv'
    BY <1>23 DEF Reboot, PortInv
  <2>5. DummyInv'
    BY <1>23 DEF Reboot, DummyInv, DummyAt
  <2>6. HostInv'
    BY <1>23 DEF Reboot, HostInv, Performs, Listed, Taken
  <2>7. ResetInv'
    BY <1>23, <1>a, UnitAssumption DEF Reboot, ResetInv
  <2>. QED BY <2>2, <2>3, <2>4, <2>5, <2>6, <2>7 DEF BaseInv
<1>24. CASE FsRead
  <2>1. Held' = Held
    BY <1>24, HeldFrame DEF FsRead
  <2>2. /\ unit_pipe' \in Seq(Packet \cup {Death}) /\ Len(unit_pipe) \in Nat
        /\ Len(unit_pipe) > 0 /\ Len(unit_pipe') = Len(unit_pipe) - 1
        /\ pck' = unit_pipe[1] /\ pck' \in Packet \cup {Death}
        /\ \A i \in 1 .. Len(unit_pipe') : unit_pipe'[i] = unit_pipe[i + 1]
    BY <1>24 DEF FsRead, TypeOK
  <2>3. Len(unit_pipe') = 0 => unit_pipe' = <<>>
    BY <1>24, <2>2
  <2>4. TypeOK'
    BY <1>24 DEF FsRead, TypeOK
  <2>5. HostInv'
    BY <1>24, <1>a, UnitAssumption, <2>1 DEF FsRead, HostInv, Work, Performs, Listed, Taken, TypeOK
  <2>6. ResetInv'
    <3>1. /\ UNCHANGED <<reset_state, emu, reset_sync_sem>>
          /\ fpc = "read" /\ fpc' = "check" /\ pck # Death
      BY <1>24, <1>a DEF FsRead, ResetInv
    <3>2. \A i \in 1 .. Len(unit_pipe') : i + 1 \in 1 .. Len(unit_pipe)
      BY <2>2
    <3>3. \A i \in 1 .. Len(unit_pipe') :
             unit_pipe'[i] = Death => i = Len(unit_pipe') /\ emu = "wait_death" /\ pck' # Death
      BY <1>a, <2>2, <3>2 DEF ResetInv
    <3>4. pck' = Death => emu = "wait_death" /\ unit_pipe' = <<>>
      <4>1. 1 \in 1 .. Len(unit_pipe) /\ pck' = unit_pipe[1]
        BY <2>2
      <4>2. pck' = Death => emu = "wait_death" /\ Len(unit_pipe) = 1
        BY <1>a, <4>1 DEF ResetInv
      <4>3. Len(unit_pipe) = 1 => Len(unit_pipe') = 0
        BY <2>2
      <4>. QED BY <2>3, <4>2, <4>3
    <3>. QED BY <1>a, <3>1, <3>3, <3>4 DEF ResetInv
  <2>7. HandlerInv' /\ PortInv' /\ DummyInv'
    BY <1>24, <1>a, HandlerFrame, PortFrame, DummyFrame DEF FsRead
  <2>. QED BY <2>4, <2>5, <2>6, <2>7 DEF BaseInv
<1>25. CASE FsCheck
  <2>1. Held' = Held
    BY <1>25, HeldFrame DEF FsCheck
  <2>2. Work' = Work
    BY <1>25, <2>1 DEF FsCheck, Work
  <2>3. TypeOK'
    BY <1>25, <1>a DEF FsCheck, TypeOK, ResetInv
  <2>4. HostInv'
    BY <1>25, <1>a, <2>2 DEF FsCheck, HostInv, ResetInv, Performs, Listed, Taken
  <2>5. ResetInv'
    BY <1>25, <1>a, UnitAssumption DEF FsCheck, ResetInv, TypeOK
  <2>6. HandlerInv' /\ PortInv' /\ DummyInv'
    BY <1>25, <1>a, HandlerFrame, PortFrame, DummyFrame DEF FsCheck
  <2>. QED BY <2>3, <2>4, <2>5, <2>6 DEF BaseInv
<1>26. CASE FsHandle
  <2>1. Held' = Held
    BY <1>26, HeldFrame DEF FsHandle
  <2>2. TypeOK'
    BY <1>26 DEF FsHandle, TypeOK
  <2>3. HostInv'
    BY <1>26, <1>a, <2>1 DEF FsHandle, HostInv, Work, Performs, Listed, Taken
  <2>4. ResetInv'
    BY <1>26, <1>a DEF FsHandle, ResetInv
  <2>5. HandlerInv' /\ PortInv' /\ DummyInv'
    BY <1>26, <1>a, HandlerFrame, PortFrame, DummyFrame DEF FsHandle
  <2>. QED BY <2>2, <2>3, <2>4, <2>5 DEF BaseInv
<1>35. CASE FsInsert
  <2>1. Held' = Held
    BY <1>35, HeldFrame DEF FsInsert
  <2>2. pck \in Packet
    BY <1>35, <1>a, <1>h DEF FsInsert, HostInv, Performs, Listed, Taken, Work, HandlerInv
  <2>3. TypeOK'
    BY <1>35, <2>2 DEF FsInsert, TypeOK
  <2>4. HostInv'
    BY <1>35, <1>a, <2>1 DEF FsInsert, HostInv, Work, Performs, Listed, Taken
  <2>5. ResetInv'
    BY <1>35, <1>a DEF FsInsert, ResetInv
  <2>6. HandlerInv' /\ PortInv' /\ DummyInv'
    BY <1>35, <1>a, HandlerFrame, PortFrame, DummyFrame DEF FsInsert
  <2>. QED BY <2>3, <2>4, <2>5, <2>6 DEF BaseInv
<1>36. ASSUME NEW p \in Packet, FsWalk(p) PROVE TypeOK' /\ BaseInv'
  <2>1. Held' = Held
    BY <1>36, HeldFrame DEF FsWalk
  <2>2. TypeOK'
    BY <1>36 DEF FsWalk, TypeOK
  <2>3. HostInv'
    BY <1>36, <1>a, <2>1 DEF FsWalk, HostInv, Work, Performs, Listed, Taken
  <2>4. ResetInv'
    BY <1>36, <1>a DEF FsWalk, ResetInv
  <2>5. HandlerInv' /\ PortInv' /\ DummyInv'
    BY <1>36, <1>a, HandlerFrame, PortFrame, DummyFrame DEF FsWalk
  <2>. QED BY <2>2, <2>3, <2>4, <2>5 DEF BaseInv
<1>37. CASE FsUnlink
  <2>1. Held' = Held
    BY <1>37, HeldFrame DEF FsUnlink
  <2>2. TypeOK'
    BY <1>37 DEF FsUnlink, TypeOK, Tear
  <2>3. HandlerInv'
    BY <1>37, <1>a, <2>1 DEF FsUnlink, HandlerInv, Tear
  <2>4. HostInv'
    BY <1>37, <1>a, <2>1 DEF FsUnlink, HostInv, Work, Performs, Listed, Taken, Tear
  <2>5. ResetInv'
    BY <1>37, <1>a DEF FsUnlink, ResetInv, Tear
  <2>6. PortInv' /\ DummyInv'
    BY <1>37, <1>a, PortFrame, DummyFrame DEF FsUnlink
  <2>. QED BY <2>2, <2>3, <2>4, <2>5, <2>6 DEF BaseInv
<1>38. CASE FsRelease
  <2>0. u_lr \in Packet /\ u_lr \in Work /\ status[u_lr] \in {"handed", "timedout", "done"}
    <3>1. emu # "torn" /\ ListInv
      BY <1>38, <1>a, <1>l DEF FsRelease, HostInv
    <3>2. u_lr \in Taken /\ u_lr \in Work
      BY <1>38, <3>1 DEF FsRelease, Taken, ListInv
    <3>3. u_lr # v_lr => status[u_lr] = "handed"
      BY <3>1, <3>2 DEF ListInv
    <3>4. v_lr # None => status[v_lr] \in {"handed", "timedout", "done"}
      BY <3>1 DEF ListInv, InTimeout
    <3>. QED BY <1>38, <3>1, <3>2, <3>3, <3>4 DEF FsRelease, ListInv, TypeOK
  <2>1. Held' = Held
    BY <1>38, <2>0 DEF FsRelease, Held, TypeOK
  <2>2. \A q \in Packet : status[q] = "sent" => status'[q] = "sent"
    BY <1>38, <2>0 DEF FsRelease, TypeOK
  <2>3. TypeOK'
    <3>1. status' \in [Packet -> Mark \cup {"client", "sent"}]
      BY <1>38, <2>0 DEF FsRelease, TypeOK, Mark
    <3>. QED BY <1>38, <3>1 DEF FsRelease, TypeOK
  <2>4. HandlerInv'
    BY <1>38, <1>a, <1>h, <2>0, <2>1 DEF FsRelease, HandlerInv, TypeOK, Mark, Work
  <2>5. PortInv'
    BY <1>38, <1>a, <2>2 DEF FsRelease, PortInv, TypeOK
  <2>6. HostInv'
    BY <1>38, <1>a, <2>1 DEF FsRelease, HostInv, Work, Performs, Listed, Taken
  <2>7. ResetInv'
    BY <1>38, <1>a DEF FsRelease, ResetInv
  <2>8. DummyInv'
    BY <1>38, <1>a, DummyFrame DEF FsRelease
  <2>. QED BY <2>3, <2>4, <2>5, <2>6, <2>7, <2>8 DEF BaseInv
<1>39. CASE FsFree
  <2>0. emu # "torn" /\ (u_lr = v_lr => emu \in InTimeout)
    BY <1>39, <1>a, <1>l DEF FsFree, ListInv, HostInv
  <2>1. Held' = Held
    BY <1>39, HeldFrame DEF FsFree
  <2>2. TypeOK'
    BY <1>39 DEF FsFree, TypeOK, Tear
  <2>3. HandlerInv'
    BY <1>39, <1>a, <2>0, <2>1 DEF FsFree, HandlerInv, Tear, InTimeout
  <2>4. HostInv'
    BY <1>39, <1>a, <2>0, <2>1 DEF FsFree, HostInv, Work, Performs, Listed, Taken, Tear
  <2>5. ResetInv'
    BY <1>39, <1>a, <2>0 DEF FsFree, ResetInv, Tear, InTimeout
  <2>6. PortInv' /\ DummyInv'
    BY <1>39, <1>a, PortFrame, DummyFrame DEF FsFree
  <2>. QED BY <2>2, <2>3, <2>4, <2>5, <2>6 DEF BaseInv
<1>40. CASE FsWalkEnds
  <2>1. Held' = Held
    BY <1>40, HeldFrame DEF FsWalkEnds
  <2>2. TypeOK'
    BY <1>40 DEF FsWalkEnds, TypeOK
  <2>3. HostInv'
    BY <1>40, <1>a, <2>1 DEF FsWalkEnds, HostInv, Work, Performs, Listed, Taken
  <2>4. ResetInv'
    BY <1>40, <1>a DEF FsWalkEnds, ResetInv
  <2>5. HandlerInv' /\ PortInv' /\ DummyInv'
    BY <1>40, <1>a, HandlerFrame, PortFrame, DummyFrame DEF FsWalkEnds
  <2>. QED BY <2>2, <2>3, <2>4, <2>5 DEF BaseInv
<1>41. CASE FsWrite
  <2>1. Held' = Held
    BY <1>41, HeldFrame DEF FsWrite
  <2>2. TypeOK'
    BY <1>41 DEF FsWrite, TypeOK
  <2>3. HostInv'
    BY <1>41, <1>a, <2>1 DEF FsWrite, HostInv, Work, Performs, Listed, Taken
  <2>4. ResetInv'
    BY <1>41, <1>a DEF FsWrite, ResetInv
  <2>5. HandlerInv' /\ PortInv' /\ DummyInv'
    BY <1>41, <1>a, HandlerFrame, PortFrame, DummyFrame DEF FsWrite
  <2>. QED BY <2>2, <2>3, <2>4, <2>5 DEF BaseInv
<1>27. CASE FsCount
  <2>1. Held' = Held
    BY <1>27, HeldFrame DEF FsCount
  <2>2. TypeOK'
    BY <1>27, UnitAssumption DEF FsCount, TypeOK
  <2>3. HostInv'
    BY <1>27, <1>a, <2>1 DEF FsCount, HostInv, Work, Performs, Listed, Taken
  <2>4. ResetInv'
    BY <1>27, <1>a DEF FsCount, ResetInv
  <2>5. HandlerInv' /\ PortInv' /\ DummyInv'
    BY <1>27, <1>a, HandlerFrame, PortFrame, DummyFrame DEF FsCount
  <2>. QED BY <2>2, <2>3, <2>4, <2>5 DEF BaseInv
<1>28. CASE FsMark
  <2>1. Held' = Held
    BY <1>28, <1>a DEF FsMark, Held, HostInv, Performs, Listed, Taken
  <2>2. \A q \in Packet : status[q] = "sent" => status'[q] = "sent"
    BY <1>28, <1>a DEF FsMark, HostInv, Performs, Listed, Taken
  <2>3. TypeOK'
    BY <1>28, <1>a, <1>h DEF FsMark, TypeOK, HostInv, Performs, Work, HandlerInv, Mark
  <2>4. HandlerInv'
    BY <1>28, <1>a, <1>h, <2>1 DEF FsMark, HandlerInv, HostInv, Performs, Work, Mark
  <2>5. PortInv'
    BY <1>28, <1>a, <2>2 DEF FsMark, PortInv, TypeOK
  <2>6. HostInv'
    BY <1>28, <1>a, <2>1 DEF FsMark, HostInv, Work, Performs, Listed, Taken
  <2>7. ResetInv'
    BY <1>28, <1>a DEF FsMark, ResetInv
  <2>8. DummyInv'
    BY <1>28, <1>a, DummyFrame DEF FsMark
  <2>. QED BY <2>3, <2>4, <2>5, <2>6, <2>7, <2>8 DEF BaseInv
<1>29. CASE FsBack
  <2>1. Held' = Held
    BY <1>29, HeldFrame DEF FsBack
  <2>2. TypeOK'
    BY <1>29, UnitAssumption DEF FsBack, TypeOK
  <2>3. HostInv'
    BY <1>29, <1>a, <2>1 DEF FsBack, HostInv, Work, Performs, Listed, Taken
  <2>4. ResetInv'
    BY <1>29, <1>a DEF FsBack, ResetInv
  <2>5. HandlerInv' /\ PortInv' /\ DummyInv'
    BY <1>29, <1>a, HandlerFrame, PortFrame, DummyFrame DEF FsBack
  <2>. QED BY <2>2, <2>3, <2>4, <2>5 DEF BaseInv
<1>30. CASE FsInt
  <2>1. Held' = Held
    BY <1>30, HeldFrame DEF FsInt
  <2>2. TypeOK'
    BY <1>30 DEF FsInt, TypeOK
  <2>3. HostInv'
    BY <1>30, <1>a, <2>1 DEF FsInt, HostInv, Work, Performs, Listed, Taken
  <2>4. ResetInv'
    BY <1>30, <1>a, UnitAssumption DEF FsInt, ResetInv
  <2>5. HandlerInv' /\ PortInv' /\ DummyInv'
    BY <1>30, <1>a, HandlerFrame, PortFrame, DummyFrame DEF FsInt
  <2>. QED BY <2>2, <2>3, <2>4, <2>5 DEF BaseInv
<1>u. CASE UNCHANGED vars
  BY <1>a, <1>u, HandlerFrame, PortFrame, DummyFrame, HostFrame, ResetFrame
     DEF vars, TypeOK, BaseInv
<1>. QED
  BY <1>1, <1>2, <1>3, <1>4, <1>5, <1>6, <1>7, <1>8, <1>9, <1>10, <1>11,
     <1>12, <1>13, <1>14, <1>15, <1>16, <1>17, <1>18, <1>19, <1>20, <1>21, <1>22,
     <1>23, <1>24, <1>25, <1>26, <1>27, <1>28, <1>29, <1>30, <1>31, <1>32,
     <1>33, <1>34, <1>35, <1>36, <1>37, <1>38, <1>39, <1>40, <1>41, <1>u
     DEF Next, HandlerTask, ExterTask, EmulatorWaits, FsThread, FsRecords

(* Nothing puts the list together again once it is torn.                   *)
LEMMA StillWhole ==
  ASSUME [Next]_vars, emu' # "torn"
  PROVE  emu # "torn"
<1>1. CASE HandlerTask \/ \E p \in Packet : DosSend(p)
  BY <1>1 DEF HandlerTask, DosSend, GetMsg, WaitReturns, TakeDummy, ScanPacket, ScanEnds,
              TooMany, Refuse, HandOver, Enqueue
<1>2. CASE ExterServer \/ ExterTask \/ OtherRequest \/ ResetMachine
  BY <1>2 DEF ExterServer, ExterTask, ExterWakes, HelperBusy, Helper, ExterPutMsg,
              ExterSignal, OtherRequest, ResetMachine
<1>3. CASE EmulatorWaits \/ \E p \in Packet : VsyncFinds(p)
  BY <1>3 DEF EmulatorWaits, VsyncFinds, RecordTimeout, TimeoutSignal, TimeoutUnlink,
              TimeoutFree, WriteUnitPipe, SendDeath, JoinThread, Reboot, Tear
<1>4. CASE FsThread
  BY <1>4 DEF FsThread, FsRecords, FsRead, FsCheck, FsHandle, FsInsert, FsWalk, FsUnlink,
              FsRelease, FsFree, FsWalkEnds, FsWrite, FsCount, FsMark, FsBack, FsInt, Tear
<1>5. CASE UNCHANGED vars
  BY <1>5 DEF vars
<1>. QED BY <1>1, <1>2, <1>3, <1>4, <1>5 DEF Next

(* The packet a walk marks is one the handler is responsible for.          *)
LEMMA WalksMarkWork ==
  ASSUME TypeOK, UnitInv
  PROVE  /\ emu \in InTimeout => /\ v_lr \in Packet /\ v_lr \in Work
                                 /\ status[v_lr] \in {"handed", "timedout", "done"}
         /\ fpc \in {"unlink", "release", "free"} => u_lr \in Packet
         /\ fpc \in {"unlink", "release"} =>
              u_lr \in Work /\ status[u_lr] \in {"handed", "timedout", "done"}
<1>1. emu = "torn" \/ ListInv
  BY DEF UnitInv
<1>2. CASE emu = "torn"
  BY <1>2 DEF UnitInv, BaseInv, HostInv, InTimeout
<1>3. CASE ListInv
  <2>1. emu \in InTimeout => /\ v_lr \in Packet /\ v_lr \in Work
                             /\ status[v_lr] \in {"handed", "timedout", "done"}
    BY <1>3 DEF ListInv, InTimeout, TypeOK
  <2>2. fpc \in {"unlink", "release", "free"} => u_lr \in Packet
    BY <1>3 DEF ListInv, TypeOK
  <2>3. fpc \in {"unlink", "release"} => u_lr \in Work
    BY <1>3 DEF ListInv, Taken
  <2>4. fpc \in {"unlink", "release"} /\ u_lr # v_lr => status[u_lr] = "handed"
    BY <1>3 DEF ListInv, Taken
  <2>5. fpc \in {"unlink", "release"} /\ u_lr = v_lr => emu \in InTimeout
    BY <1>3 DEF ListInv
  <2>. QED BY <2>1, <2>2, <2>3, <2>4, <2>5
<1>. QED BY <1>1, <1>2, <1>3

LEMMA CountedFrame ==
  ASSUME CountedInv, UNCHANGED <<status, chain, hpc, msg>>,
         emu = "write_unit" => emu' = "write_unit"
  PROVE  CountedInv'
BY HeldFrame DEF CountedInv, Work

(* Every packet handed over stays one the handler is responsible for.      *)
LEMMA CountedStep ==
  ASSUME TypeOK, UnitInv, [Next]_vars
  PROVE  CountedInv'
<1>. USE DEF handler, exter, cmds, thread, locks, reset, bounds
<1>a. HandlerInv /\ HostInv /\ CountedInv
  BY DEF UnitInv, BaseInv
<1>h. Held \subseteq Packet \cap chain
  BY HeldFinite
<1>1. ASSUME NEW p \in Packet, DosSend(p) \/ ScanPacket(p) PROVE CountedInv'
  <2>1. CASE DosSend(p)
    BY <1>a, <2>1 DEF DosSend, CountedInv, Work, Held, HandlerInv, TypeOK, Mark
  <2>2. CASE ScanPacket(p)
    BY <1>a, <2>2 DEF ScanPacket, CountedInv, Work, Held, HandlerInv, TypeOK, Mark
  <2>. QED BY <1>1, <2>1, <2>2
<1>2. CASE TooMany \/ Refuse
  BY <1>2, <1>a DEF TooMany, Refuse, CountedInv, Work, Held, HandlerInv, TypeOK, Mark
<1>3. CASE HandOver
  BY <1>3, <1>a DEF HandOver, CountedInv, Work, Held, HandlerInv, TypeOK, Mark
<1>4. CASE WriteUnitPipe
  BY <1>4, <1>a DEF WriteUnitPipe, CountedInv, Work, Held, HandlerInv
<1>5. CASE Enqueue
  BY <1>5, <1>a DEF Enqueue, CountedInv, Work, Held, HandlerInv
<1>6. CASE GetMsg \/ WaitReturns \/ TakeDummy \/ ScanEnds
  BY <1>6, <1>a DEF GetMsg, WaitReturns, TakeDummy, ScanEnds, CountedInv, Work, Held
<1>7. CASE ExterServer \/ ExterTask \/ OtherRequest \/ ResetMachine
  <2>1. UNCHANGED <<status, chain, hpc, msg>> /\ (emu = "write_unit" => emu' = "write_unit")
    BY <1>7 DEF ExterServer, ExterTask, ExterWakes, HelperBusy, Helper, ExterPutMsg,
                ExterSignal, OtherRequest, ResetMachine
  <2>. QED BY <1>a, <2>1, CountedFrame
<1>8. CASE \/ TimeoutSignal \/ TimeoutUnlink \/ TimeoutFree \/ SendDeath \/ JoinThread
           \/ \E p \in Packet : VsyncFinds(p)
  <2>1. UNCHANGED <<status, chain, hpc, msg>> /\ emu # "write_unit"
    BY <1>8 DEF TimeoutSignal, TimeoutUnlink, TimeoutFree, SendDeath, JoinThread, VsyncFinds
  <2>. QED BY <1>a, <2>1, CountedFrame
<1>9. CASE Reboot
  BY <1>9 DEF Reboot, CountedInv
<1>10. CASE RecordTimeout
  <2>1. v_lr \in Packet /\ v_lr \in Work /\ status[v_lr] \in {"handed", "timedout", "done"}
    BY <1>10, WalksMarkWork DEF RecordTimeout, InTimeout
  <2>. QED BY <1>10, <1>a, <2>1 DEF RecordTimeout, CountedInv, Work, Held, TypeOK
<1>11. CASE FsRelease
  <2>1. u_lr \in Packet /\ u_lr \in Work /\ status[u_lr] \in {"handed", "timedout", "done"}
    BY <1>11, WalksMarkWork DEF FsRelease
  <2>. QED BY <1>11, <1>a, <2>1 DEF FsRelease, CountedInv, Work, Held, TypeOK
<1>12. CASE FsMark
  <2>1. ret = "done" => pck \in Work /\ status[pck] = "handed"
    BY <1>12, <1>a DEF FsMark, HostInv, Performs
  <2>. QED BY <1>12, <1>a, <2>1 DEF FsMark, CountedInv, Work, Held, TypeOK
<1>13. CASE \/ FsRead \/ FsCheck \/ FsHandle \/ FsInsert \/ FsUnlink \/ FsWalkEnds
            \/ FsWrite \/ FsCount \/ FsBack \/ FsInt \/ (\E p \in Packet : FsWalk(p))
            \/ UNCHANGED vars
  <2>1. UNCHANGED <<status, chain, hpc, msg>> /\ (emu = "write_unit" => emu' = "write_unit")
    BY <1>13 DEF FsRead, FsCheck, FsHandle, FsInsert, FsUnlink, FsWalkEnds, FsWrite,
                 FsCount, FsBack, FsInt, FsWalk, vars
  <2>. QED BY <1>a, <2>1, CountedFrame
<1>14. CASE FsFree
  <2>1. UNCHANGED <<status, chain, hpc, msg>> /\ (u_lr # v_lr => UNCHANGED emu)
    BY <1>14 DEF FsFree
  <2>2. u_lr = v_lr => emu # "write_unit"
    BY <1>14, <1>a DEF FsFree, UnitInv, HostInv, ListInv, InTimeout
  <2>. QED BY <1>a, <2>1, <2>2, CountedFrame
<1>. QED
  BY <1>1, <1>2, <1>3, <1>4, <1>5, <1>6, <1>7, <1>8, <1>9, <1>10, <1>11, <1>12, <1>13, <1>14
     DEF Next, HandlerTask, EmulatorWaits, FsThread, FsRecords

(* While record_timeout is not at work, the list and the other walk hold   *)
(* packets that are handed over.                                           *)
LEMMA ListFrame ==
  ASSUME TypeOK, ListInv, UNCHANGED <<fpc, locks>>,
         emu \notin InTimeout, emu' \notin InTimeout,
         \A p \in Work : status[p] = "handed" => p \in Work' /\ status'[p] = "handed"
  PROVE  ListInv'
<1>1. v_lr = None /\ UNCHANGED <<waitingrecords, v_lr, u_lr, fpc>> /\ Taken' = Taken
  BY DEF ListInv, locks, Taken
<1>2. \A p \in waitingrecords \cup Taken : p # None /\ p \in Work /\ status[p] = "handed"
  BY <1>1, UnitAssumption DEF ListInv, Taken, TypeOK
<1>3. \A p \in (waitingrecords \cup Taken)' : p \in Work' /\ status'[p] = "handed"
  BY <1>1, <1>2
<1>. QED BY <1>1, <1>3 DEF ListInv, InTimeout

(* The two walks keep apart what ListInv says, unless they tear the list.  *)
LEMMA ListStep ==
  ASSUME TypeOK, UnitInv, [Next]_vars, emu' # "torn"
  PROVE  ListInv'
<1>. USE DEF handler, exter, cmds, thread, reset, bounds
<1>a. HandlerInv /\ HostInv /\ ListInv
  BY StillWhole DEF UnitInv, BaseInv
<1>h. Held \subseteq Packet \cap chain
  BY HeldFinite
<1>t. None \notin Packet
  BY UnitAssumption
<1>1. CASE HandlerTask \/ WriteUnitPipe \/ \E p \in Packet : DosSend(p)
  <2>1. UNCHANGED <<fpc, locks>> /\ emu \notin InTimeout /\ emu' \notin InTimeout
    BY <1>1 DEF HandlerTask, WriteUnitPipe, DosSend, GetMsg, WaitReturns, TakeDummy,
                ScanPacket, ScanEnds, TooMany, Refuse, HandOver, Enqueue, InTimeout
  <2>2. \A p \in Work : status[p] = "handed" => p \in Work' /\ status'[p] = "handed"
    <3>1. CASE \E p \in Packet : DosSend(p) \/ ScanPacket(p)
      BY <1>a, <1>h, <3>1 DEF DosSend, ScanPacket, Work, Held, HandlerInv, TypeOK, Wanted
    <3>2. CASE TooMany \/ Refuse \/ HandOver
      BY <1>a, <1>h, <3>2 DEF TooMany, Refuse, HandOver, Work, Held, HandlerInv, TypeOK
    <3>3. CASE Enqueue \/ WriteUnitPipe
      BY <1>a, <3>3 DEF Enqueue, WriteUnitPipe, Work, Held, HandlerInv
    <3>4. CASE GetMsg \/ WaitReturns \/ TakeDummy \/ ScanEnds
      BY <3>4 DEF GetMsg, WaitReturns, TakeDummy, ScanEnds, Work, Held
    <3>. QED BY <1>1, <3>1, <3>2, <3>3, <3>4 DEF HandlerTask
  <2>. QED BY <1>a, <2>1, <2>2, ListFrame
<1>2. CASE \/ ExterServer \/ ExterTask \/ ResetMachine \/ SendDeath \/ JoinThread
  <2>1. /\ UNCHANGED <<fpc, locks, status, chain, hpc, msg>>
        /\ emu \notin InTimeout /\ emu' \notin InTimeout
    BY <1>2 DEF ExterServer, ExterTask, ExterWakes, HelperBusy, Helper, ExterPutMsg,
                ExterSignal, ResetMachine, SendDeath, JoinThread, InTimeout
  <2>2. Work' = Work
    BY <2>1 DEF Work, Held
  <2>. QED BY <1>a, <2>1, <2>2, ListFrame
<1>3. CASE OtherRequest \/ UNCHANGED vars
  BY <1>3, <1>a, HeldFrame
     DEF OtherRequest, vars, locks, ListInv, Work, Taken, Both, InTimeout
<1>4. CASE Reboot
  BY <1>4 DEF Reboot, ListInv, Taken, InTimeout
<1>5. ASSUME NEW p \in Packet, VsyncFinds(p) PROVE ListInv'
  <2>1. /\ v_lr = None /\ v_lr' = p /\ p \in waitingrecords /\ emu' = "vsync"
        /\ UNCHANGED <<status, chain, hpc, msg, fpc, u_lr, waitingrecords>>
    BY <1>5, <1>a DEF VsyncFinds, ListInv, InTimeout
  <2>2. Work' = Work /\ Taken' = Taken /\ status[p] = "handed"
    BY <1>a, <1>t, <2>1 DEF Work, Held, Taken, ListInv
  <2>3. \A q \in waitingrecords \cup Taken : status[q] = "handed"
    BY <1>a, <1>t, <1>h, <2>1 DEF ListInv, Taken, TypeOK
  <2>. QED BY <1>a, <1>t, <2>1, <2>2, <2>3 DEF ListInv, InTimeout
<1>6. CASE RecordTimeout
  <2>1. /\ emu = "vsync" /\ emu' = "signal" /\ status' = [status EXCEPT ![v_lr] = "timedout"]
        /\ UNCHANGED <<chain, hpc, msg, fpc, u_lr, v_lr, waitingrecords>>
    BY <1>6 DEF RecordTimeout, locks
  <2>2. v_lr \in Packet /\ v_lr \in Work /\ status[v_lr] \in {"handed", "timedout", "done"}
    BY <2>1, WalksMarkWork DEF InTimeout
  <2>3. Work' = Work /\ Taken' = Taken
    BY <2>1, <2>2 DEF Work, Held, Taken, TypeOK
  <2>. QED BY <1>a, <1>t, <2>1, <2>2, <2>3 DEF ListInv, InTimeout, TypeOK
<1>7. CASE TimeoutSignal \/ TimeoutUnlink
  <2>1. /\ UNCHANGED <<status, chain, hpc, msg, fpc, u_lr, v_lr>>
        /\ \/ emu = "signal" /\ emu' = "unlink" /\ UNCHANGED waitingrecords
           \/ emu = "unlink" /\ emu' = "free" /\ waitingrecords' = waitingrecords \ {v_lr}
    BY <1>7 DEF TimeoutSignal, TimeoutUnlink, Tear, locks
  <2>2. Work' = Work /\ Taken' = Taken
    BY <2>1 DEF Work, Held, Taken
  <2>. QED BY <1>a, <2>1, <2>2 DEF ListInv, InTimeout, Both
<1>8. CASE TimeoutFree
  <2>1. /\ UNCHANGED <<status, chain, hpc, msg, fpc, u_lr, waitingrecords>>
        /\ emu = "free" /\ emu' = "run" /\ v_lr' = None /\ u_lr # v_lr
    BY <1>8 DEF TimeoutFree, Tear
  <2>2. Work' = Work /\ Taken' = Taken
    BY <2>1 DEF Work, Held, Taken
  <2>3. v_lr \notin waitingrecords \cup Taken
    BY <1>a, <2>1 DEF ListInv, Taken
  <2>. QED BY <1>a, <2>1, <2>2, <2>3 DEF ListInv, InTimeout
<1>9. CASE FsHandle \/ FsInsert
  <2>1. UNCHANGED <<emu, status, chain, hpc, msg, v_lr>>
    BY <1>9 DEF FsHandle, FsInsert
  <2>2. Work' = Work /\ Taken = {} /\ Taken' = {}
    BY <1>9, <2>1 DEF FsHandle, FsInsert, Work, Held, Taken
  <2>3. pck \in Work /\ status[pck] = "handed"
    BY <1>9, <1>a DEF FsHandle, FsInsert, HostInv, Performs, Listed
  <2>4. waitingrecords' \subseteq waitingrecords \cup {pck}
    BY <1>9 DEF FsHandle, FsInsert
  <2>5. emu = "free" => v_lr \notin waitingrecords'
    BY <1>9, <1>a, <2>4 DEF FsHandle, FsInsert, HostInv, Performs, Listed, ListInv
  <2>6. u_lr' # None => fpc' = "insert"
    BY <1>9, <1>a DEF FsHandle, FsInsert, ListInv
  <2>7. fpc \in {"handle", "insert"} /\ fpc' \in {"walk", "write", "insert"}
    BY <1>9 DEF FsHandle, FsInsert
  <2>. QED BY <1>a, <2>1, <2>2, <2>3, <2>4, <2>5, <2>6, <2>7 DEF ListInv
<1>10. CASE FsUnlink \/ \E p \in Packet : FsWalk(p)
  <2>1. UNCHANGED <<emu, status, chain, hpc, msg, v_lr>>
    BY <1>10 DEF FsUnlink, FsWalk, Tear
  <2>2. Work' = Work /\ Taken' = {u_lr'} /\ waitingrecords' \subseteq waitingrecords
    BY <1>10, <2>1 DEF FsUnlink, FsWalk, Work, Held, Taken, Tear
  <2>3. u_lr' \in waitingrecords \cup Taken /\ u_lr' # None
    BY <1>10, <1>a, <1>t DEF FsUnlink, FsWalk, Taken, ListInv, TypeOK
  <2>4. /\ fpc \in {"walk", "unlink"} /\ fpc' \in {"unlink", "release"}
        /\ fpc' = "release" => u_lr' \notin waitingrecords'
    BY <1>10 DEF FsUnlink, FsWalk, Tear
  <2>. QED BY <1>a, <2>1, <2>2, <2>3, <2>4 DEF ListInv
<1>11. CASE FsRelease
  <2>1. /\ fpc = "release" /\ fpc' = "free" /\ status' = [status EXCEPT ![u_lr] = "done"]
        /\ UNCHANGED <<emu, chain, hpc, msg, u_lr, v_lr, waitingrecords>>
    BY <1>11 DEF FsRelease, locks
  <2>2. /\ u_lr \in Packet /\ u_lr \in Work /\ u_lr \notin waitingrecords
        /\ status[u_lr] \in {"handed", "timedout", "done"}
    BY <1>a, <2>1, WalksMarkWork DEF ListInv
  <2>3. Work' = Work /\ Taken' = {}
    BY <2>1, <2>2 DEF Work, Held, Taken, TypeOK
  <2>. QED BY <1>a, <1>t, <2>1, <2>2, <2>3 DEF ListInv, InTimeout, Both, TypeOK
<1>12. CASE FsFree
  <2>1. /\ UNCHANGED <<emu, status, chain, hpc, msg, v_lr, waitingrecords>>
        /\ fpc = "free" /\ fpc' = "walk" /\ u_lr' = None /\ u_lr # v_lr
    BY <1>12 DEF FsFree, Tear
  <2>2. Work' = Work /\ Taken = {} /\ Taken' = {}
    BY <2>1 DEF Work, Held, Taken
  <2>. QED BY <1>a, <2>1, <2>2 DEF ListInv, Both
<1>13. CASE FsMark
  <2>1. /\ UNCHANGED <<emu, chain, hpc, msg, u_lr, v_lr, waitingrecords>>
        /\ fpc = "mark" /\ fpc' \in {"back", "int"}
        /\ status' = IF ret = "done" THEN [status EXCEPT ![pck] = "done"] ELSE status
    BY <1>13 DEF FsMark, locks
  <2>2. ret = "done" => pck \in Work \ Listed /\ status[pck] = "handed"
    BY <1>a, <2>1 DEF HostInv, Performs
  <2>3. Work' = Work /\ Taken = {} /\ Taken' = {}
    BY <2>1, <2>2 DEF Work, Held, Taken, TypeOK
  <2>4. \A p \in waitingrecords \cup {v_lr} : p \in Packet => status'[p] = status[p]
    BY <2>1, <2>2 DEF Listed, TypeOK
  <2>5. v_lr # None => v_lr \in Packet /\ status'[v_lr] = status[v_lr]
    BY <2>4 DEF TypeOK
  <2>6. \A p \in waitingrecords : status'[p] = status[p]
    BY <2>4 DEF TypeOK
  <2>. QED BY <1>a, <2>1, <2>3, <2>5, <2>6 DEF ListInv, Both, InTimeout
<1>14. CASE FsRead \/ FsCheck \/ FsWalkEnds \/ FsWrite \/ FsCount \/ FsBack \/ FsInt
  <2>1. UNCHANGED <<emu, status, chain, hpc, msg, u_lr, v_lr, waitingrecords>>
    BY <1>14 DEF FsRead, FsCheck, FsWalkEnds, FsWrite, FsCount, FsBack, FsInt, locks
  <2>2. /\ fpc \notin {"insert", "unlink", "release", "free"}
        /\ fpc' \notin {"insert", "unlink", "release", "free"}
    BY <1>14 DEF FsRead, FsCheck, FsWalkEnds, FsWrite, FsCount, FsBack, FsInt
  <2>3. Work' = Work /\ Taken = {} /\ Taken' = {}
    BY <2>1, <2>2 DEF Work, Held, Taken
  <2>. QED BY <1>a, <2>1, <2>2, <2>3 DEF ListInv
<1>. QED
  BY <1>1, <1>2, <1>3, <1>4, <1>5, <1>6, <1>7, <1>8, <1>9, <1>10, <1>11, <1>12, <1>13, <1>14
     DEF Next, EmulatorWaits, FsThread, FsRecords

(* What goes on beside the exter task cannot lose a completion.            *)
LEMMA AnnounceFrame ==
  ASSUME AnnounceInv,
         UNCHANGED <<exter_sig, epc, unit_no, cmds_sent, cmds_acked, cmds_complete>>,
         int_requested' = int_requested \/ int_requested' = 1,
         fpc \in Announces => fpc' \in Announces \/ int_requested' = 1,
         hpc = "scan" => UNCHANGED <<hpc, msg, visit>>,
         \A p \in Packet : status'[p] = "done" => status[p] = "done"
  PROVE  AnnounceInv'
BY DEF AnnounceInv, RoundComes

(* A counted completion stays announced until the scan comes to it.        *)
LEMMA AnnounceStep ==
  ASSUME TypeOK, UnitInv, [Next]_vars, emu' # "torn"
  PROVE  AnnounceInv'
<1>. USE DEF handler, exter, cmds, thread, locks, reset, bounds
<1>a. HandlerInv /\ HostInv /\ CountedInv /\ AnnounceInv
  BY StillWhole DEF UnitInv, BaseInv
<1>1. ASSUME NEW p \in Packet, DosSend(p) PROVE AnnounceInv'
  <2>1. \A q \in Packet : status'[q] = "done" => status[q] = "done"
    BY <1>1 DEF DosSend, TypeOK
  <2>. QED BY <1>1, <1>a, <2>1, AnnounceFrame DEF DosSend
<1>2. CASE GetMsg \/ WaitReturns \/ Enqueue
  BY <1>2, <1>a, AnnounceFrame DEF GetMsg, WaitReturns, Enqueue
<1>3. CASE TakeDummy
  <2>1. \A p \in Packet : status[p] = "done" => p \in chain
    BY <1>3, <1>a DEF TakeDummy, CountedInv, Work, Held
  <2>. QED BY <1>3, <2>1 DEF TakeDummy, AnnounceInv
<1>4. ASSUME NEW p \in Packet, ScanPacket(p) PROVE AnnounceInv'
  <2>1. \A q \in Packet : status'[q] = "done" => status[q] = "done"
    BY <1>4 DEF ScanPacket, TypeOK
  <2>2. msg = Dummy => status'[p] # "done"
    BY <1>4 DEF ScanPacket, TypeOK, Wanted
  <2>3. \A q \in visit : q # p => q \in visit'
    BY <1>4 DEF ScanPacket
  <2>4. UNCHANGED <<hpc, msg, int_requested, exter_sig, epc, unit_no, cmds, fpc>>
    BY <1>4 DEF ScanPacket
  <2>. QED BY <1>a, <2>1, <2>2, <2>3, <2>4 DEF AnnounceInv, RoundComes
<1>5. CASE ScanEnds
  BY <1>5, <1>a DEF ScanEnds, AnnounceInv, RoundComes
<1>6. CASE TooMany \/ Refuse \/ HandOver
  <2>1. \A q \in Packet : status'[q] = "done" => status[q] = "done"
    BY <1>6 DEF TooMany, Refuse, HandOver, TypeOK
  <2>. QED BY <1>6, <1>a, <2>1, AnnounceFrame DEF TooMany, Refuse, HandOver
<1>7. CASE \/ WriteUnitPipe \/ OtherRequest \/ ResetMachine \/ SendDeath \/ JoinThread
           \/ TimeoutSignal \/ \E p \in Packet : VsyncFinds(p)
  <2>1. /\ UNCHANGED <<exter_sig, epc, unit_no, cmds, msg, visit, status, fpc>>
        /\ int_requested' = int_requested \/ int_requested' = 1
        /\ hpc # "scan" \/ UNCHANGED hpc
    BY <1>7, <1>a DEF WriteUnitPipe, OtherRequest, ResetMachine, SendDeath, JoinThread,
                      TimeoutSignal, VsyncFinds, HandlerInv
  <2>. QED BY <1>a, <2>1, AnnounceFrame
<1>8. CASE TimeoutUnlink \/ TimeoutFree
  BY <1>8, <1>a, AnnounceFrame DEF TimeoutUnlink, TimeoutFree, Tear
<1>9. CASE RecordTimeout
  <2>1. \A q \in Packet : status'[q] = "done" => status[q] = "done"
    BY <1>9 DEF RecordTimeout, TypeOK
  <2>. QED BY <1>9, <1>a, <2>1, AnnounceFrame DEF RecordTimeout
<1>10. CASE Reboot
  BY <1>10 DEF Reboot, AnnounceInv
<1>11. CASE ExterServer \/ ExterWakes \/ HelperBusy \/ ExterPutMsg \/ ExterSignal
  BY <1>11, <1>a DEF ExterServer, ExterWakes, HelperBusy, ExterPutMsg, ExterSignal,
     AnnounceInv, RoundComes
<1>12. CASE Helper
  <2>1. /\ UNCHANGED <<status, int_requested, exter_sig, cmds_sent, cmds_complete, fpc>>
        /\ UNCHANGED <<hpc, msg, visit>> /\ epc \in {"first", "again"}
    BY <1>12 DEF Helper
  <2>2. \/ epc' = "signal" /\ (unit_no' = 0 <=> epc = "first" \/ unit_no = 0)
           /\ cmds_acked' = cmds_acked
        \/ cmds_acked' = cmds_sent
        \/ ~ ((epc = "first" \/ unit_no = 0) /\ UnitReady) /\ cmds_acked' = cmds_acked
    BY <1>12 DEF Helper
  <2>. QED BY <1>a, <2>1, <2>2 DEF AnnounceInv, RoundComes, UnitReady
<1>13. CASE FsRelease \/ FsMark \/ FsCount
  BY <1>13, <1>a DEF FsRelease, FsMark, FsCount, AnnounceInv, RoundComes, Announces
<1>14. CASE \/ FsRead \/ FsCheck \/ FsHandle \/ FsInsert \/ FsUnlink \/ FsFree \/ FsWalkEnds
            \/ FsWrite \/ FsBack \/ FsInt \/ \E p \in Packet : FsWalk(p)
  <2>1. /\ UNCHANGED <<exter_sig, epc, unit_no, cmds, hpc, msg, visit, status>>
        /\ int_requested' = int_requested \/ int_requested' = 1
    BY <1>14 DEF FsRead, FsCheck, FsHandle, FsInsert, FsUnlink, FsFree, FsWalkEnds, FsWrite,
                 FsBack, FsInt, FsWalk
  <2>2. fpc \in Announces => fpc' \in Announces \/ int_requested' = 1
    BY <1>14 DEF FsRead, FsCheck, FsHandle, FsInsert, FsUnlink, FsFree, FsWalkEnds, FsWrite,
                 FsBack, FsInt, FsWalk, Tear, Announces
  <2>. QED BY <1>a, <2>1, <2>2, AnnounceFrame
<1>15. CASE UNCHANGED vars
  BY <1>15, <1>a, AnnounceFrame DEF vars
<1>. QED
  BY <1>1, <1>2, <1>3, <1>4, <1>5, <1>6, <1>7, <1>8, <1>9, <1>10, <1>11, <1>12, <1>13,
     <1>14, <1>15
     DEF Next, HandlerTask, ExterTask, EmulatorWaits, FsThread, FsRecords

(* Every step keeps the types and UnitInv.                                 *)
LEMMA UnitInvStep ==
  ASSUME TypeOK, UnitInv, [Next]_vars
  PROVE  TypeOK' /\ UnitInv'
BY BaseStep, CountedStep, ListStep, AnnounceStep DEF UnitInv

(* The unit as startup_handler leaves it satisfies UnitInv.                *)
LEMMA UnitInvInit == Init => TypeOK /\ UnitInv
<1>. SUFFICES ASSUME Init PROVE TypeOK /\ UnitInv
  OBVIOUS
<1>1. TypeOK
  BY UnitAssumption DEF Init, TypeOK, Mark
<1>2. Held = {} /\ Cardinality(Held) = 0
  BY FS_EmptySet DEF Init, Held
<1>3. HandlerInv
  BY <1>2, UnitAssumption DEF Init, HandlerInv
<1>4. PortInv /\ DummyInv
  BY DEF Init, PortInv, DummyInv, DummyAt
<1>5. HostInv
  BY DEF Init, HostInv, Performs
<1>6. ResetInv
  BY UnitAssumption DEF Init, ResetInv
<1>7. CountedInv /\ AnnounceInv
  BY DEF Init, CountedInv, AnnounceInv
<1>8. ListInv
  BY DEF Init, ListInv, Taken, InTimeout
<1>. QED BY <1>1, <1>3, <1>4, <1>5, <1>6, <1>7, <1>8 DEF UnitInv, BaseInv

(* In every state the variables have their types and UnitInv holds: the    *)
(* handler's count is right, the dummy message is in one place, the host   *)
(* thread's packets are handed over and counted, the death message is the  *)
(* last one.  Until a step tears the list, both walks over it hold packets *)
(* the handler is responsible for, and a counted completion is announced.  *)
THEOREM UnitInvariant == Spec => [](TypeOK /\ UnitInv)
<1>1. Init => TypeOK /\ UnitInv
  BY UnitInvInit
<1>2. TypeOK /\ UnitInv /\ [Next]_vars => TypeOK' /\ UnitInv'
  BY UnitInvStep
<1>. QED BY <1>1, <1>2, PTL DEF Spec

(* Packets, messages, pipes and program counters keep their types.         *)
THEOREM UnitTypeCorrect == Spec => []TypeOK
BY UnitInvariant, PTL

(* The packets in unit_pipe are different ones among those the handler     *)
(* counts, so there are not more of them.                                  *)
LEMMA PipeBounded ==
  ASSUME TypeOK, UnitInv, emu # "wait_death"
  PROVE  /\ Len(unit_pipe) \in Nat
         /\ Len(unit_pipe) =< IF emu = "write_unit" THEN started ELSE MaxStarted
<1>1. HandlerInv /\ HostInv /\ ResetInv
  BY DEF UnitInv, BaseInv
<1>2. Len(unit_pipe) \in Nat /\ unit_pipe \in [1 .. Len(unit_pipe) -> Packet \cup {Death}]
  BY LenProperties DEF TypeOK
<1>3. unit_pipe \in [1 .. Len(unit_pipe) -> Work]
  BY <1>1, <1>2 DEF HostInv, ResetInv
<1>4. unit_pipe \in Injection(1 .. Len(unit_pipe), Work)
  BY <1>1, <1>3 DEF HostInv, Injection, IsInjective
<1>5. /\ IsFiniteSet(Held) /\ Cardinality(Held) \in Nat /\ Held \subseteq chain
      /\ started = Cardinality(Held) /\ MaxStarted \in Nat
  BY <1>1, HeldFinite, UnitAssumption DEF HandlerInv
<1>6. /\ IsFiniteSet(Work)
      /\ Cardinality(Work) =< IF emu = "write_unit" THEN started ELSE MaxStarted
  <2>1. CASE hpc = "enqueue"
    <3>1. Work = Held \cup {msg} /\ msg \notin Held /\ started < MaxStarted /\ emu # "write_unit"
      BY <1>1, <1>5, <2>1 DEF Work, HandlerInv
    <3>2. IsFiniteSet(Work) /\ Cardinality(Work) = Cardinality(Held) + 1
      BY <1>5, <3>1, FS_AddElement
    <3>. QED BY <1>5, <3>1, <3>2
  <2>2. CASE hpc # "enqueue"
    <3>1. Work = Held
      BY <2>2 DEF Work
    <3>. QED BY <1>1, <1>5, <3>1 DEF HandlerInv
  <2>. QED BY <2>1, <2>2
<1>7. Cardinality(1 .. Len(unit_pipe)) =< Cardinality(Work)
  BY <1>4, <1>6, FS_Injection
<1>8. Cardinality(1 .. Len(unit_pipe)) = Len(unit_pipe)
  <2>1. 1 \in Int /\ Len(unit_pipe) \in Int
    BY <1>2
  <2>2. Cardinality(1 .. Len(unit_pipe)) = IF 1 > Len(unit_pipe) THEN 0 ELSE Len(unit_pipe) - 1 + 1
    BY <2>1, FS_Interval
  <2>. QED BY <1>2, <2>2
<1>9. Cardinality(Work) \in Nat
  BY <1>6, FS_CardinalityType
<1>. QED BY <1>2, <1>5, <1>6, <1>7, <1>8, <1>9

(* The emulator thread never waits for room in unit_pipe, neither for a    *)
(* packet in filesys_handler nor for the death message of a reset.         *)
THEOREM EmulatorKeepsRunning == Spec => []EmulatorNeverBlocks
<1>1. TypeOK /\ UnitInv => EmulatorNeverBlocks
  <2>. SUFFICES ASSUME TypeOK, UnitInv, emu \in {"write_unit", "send_death"}
                PROVE  4 * (Len(unit_pipe) + 1) =< UnitCap
    BY DEF EmulatorNeverBlocks
  <2>1. /\ Len(unit_pipe) \in Nat
        /\ Len(unit_pipe) =< IF emu = "write_unit" THEN started ELSE MaxStarted
    BY PipeBounded
  <2>2. emu = "write_unit" => started < MaxStarted
    BY DEF UnitInv, BaseInv, HandlerInv
  <2>3. Len(unit_pipe) =< MaxStarted
    BY <2>1, <2>2, UnitAssumption DEF TypeOK
  <2>. QED BY <2>1, <2>3, UnitAssumption
<1>. QED BY <1>1, UnitInvariant, PTL

(* The dummy message of the unit is never on the port twice, nor sent      *)
(* while its receiver has not released it in exter_int_helper(1).          *)
THEOREM DummyIsSentOnce == Spec => []OneDummy
<1>1. TypeOK /\ UnitInv => OneDummy
  <2>. SUFFICES ASSUME TypeOK, UnitInv PROVE OneDummy
    OBVIOUS
  <2>1. PortInv /\ DummyInv
    BY DEF UnitInv, BaseInv
  <2>2. DummyAt = {} \/ \E i \in DummyAt : DummyAt = {i}
    BY <2>1 DEF PortInv, DummyAt
  <2>3. Cardinality(DummyAt) = 0 \/ Cardinality(DummyAt) = 1
    BY <2>2, FS_EmptySet, FS_Singleton
  <2>4. hpc = "message" /\ msg = Dummy => DummyAt = {}
    BY <2>1 DEF PortInv, DummyAt
  <2>. QED BY <2>1, <2>3, <2>4 DEF OneDummy, DummyInv
<1>. QED BY <1>1, UnitInvariant, PTL

(* The packets in the pipe and the one the host performs are handed over   *)
(* at any time, and so is every packet in the list of waiting records or   *)
(* just taken from it whenever the machine runs: the 68k side neither      *)
(* replies nor reuses what the host may still mark.                        *)
THEOREM HostWorksOnHanded == Spec => []HostOwnsHanded
<1>1. TypeOK /\ UnitInv => HostOwnsHanded
  <2>. SUFFICES ASSUME TypeOK, UnitInv PROVE HostOwnsHanded
    OBVIOUS
  <2>1. HostInv /\ (emu # "torn" => ListInv)
    BY DEF UnitInv, BaseInv
  <2>2. \A i \in 1 .. Len(unit_pipe) :
           unit_pipe[i] = Death \/ status[unit_pipe[i]] = "handed"
    BY <2>1 DEF HostInv
  <2>3. Performs => status[pck] = "handed"
    BY <2>1 DEF HostInv
  <2>4. ASSUME emu \notin InTimeout \cup {"torn"}, NEW p \in waitingrecords \cup Taken
        PROVE  status[p] = "handed"
    <3>1. v_lr = None /\ p # None
      BY <2>1, <2>4, UnitAssumption DEF ListInv, Taken, TypeOK
    <3>. QED BY <2>1, <2>4, <3>1 DEF ListInv
  <2>. QED BY <2>2, <2>3, <2>4 DEF HostOwnsHanded
<1>. QED BY <1>1, UnitInvariant, PTL

(* When a reset goes on to free the unit, the thread of the unit has ended *)
(* and taken everything out of its pipe.                                   *)
THEOREM ThreadIsGone == Spec => []ThreadEndsClean
<1>1. TypeOK /\ UnitInv => ThreadEndsClean
  BY DEF TypeOK, UnitInv, BaseInv, ResetInv, ThreadEndsClean
<1>. QED BY <1>1, UnitInvariant, PTL

(* A step that marks or restarts a packet finds it sent or handed, but for *)
(* one that both walks over the list hold.                                 *)
LEMMA CompletionStep ==
  ASSUME TypeOK, UnitInv, [Next]_vars, NEW p \in Packet, status[p] \in {"done", "timedout"},
         emu # "reboot"
  PROVE  status'[p] \in {status[p], "client"} \/ (v_lr = p /\ u_lr = p)
<1>a. HandlerInv /\ HostInv /\ (emu # "torn" => ListInv)
  BY DEF UnitInv, BaseInv
<1>1. CASE \E q \in Packet : DosSend(q) \/ ScanPacket(q)
  BY <1>1 DEF DosSend, ScanPacket, TypeOK
<1>2. CASE TooMany \/ Refuse \/ HandOver
  BY <1>a, <1>2 DEF TooMany, Refuse, HandOver, HandlerInv, TypeOK
<1>3. CASE RecordTimeout
  <2>1. status[v_lr] = "handed" \/ (v_lr = u_lr /\ status[v_lr] = "done")
    BY <1>a, <1>3 DEF RecordTimeout, ListInv, Both
  <2>2. p # v_lr => status'[p] = status[p]
    BY <1>3 DEF RecordTimeout, TypeOK
  <2>. QED BY <2>1, <2>2
<1>4. CASE FsRelease
  <2>1. emu # "torn" /\ u_lr \in Taken
    BY <1>a, <1>4 DEF FsRelease, HostInv, Taken
  <2>2. u_lr = v_lr \/ status[u_lr] = "handed"
    BY <1>a, <2>1 DEF ListInv
  <2>3. p # u_lr => status'[p] = status[p]
    BY <1>4 DEF FsRelease, TypeOK
  <2>. QED BY <2>2, <2>3
<1>5. CASE FsMark
  BY <1>a, <1>5 DEF FsMark, HostInv, Performs, TypeOK
<1>6. CASE UNCHANGED status
  BY <1>6
<1>7. CASE Reboot
  BY <1>7 DEF Reboot
<1>8. CASE ExterServer \/ ExterTask \/ OtherRequest \/ ResetMachine
  BY <1>6, <1>8 DEF ExterServer, ExterTask, ExterWakes, HelperBusy, Helper, ExterPutMsg,
                    ExterSignal, OtherRequest, ResetMachine
<1>9. CASE GetMsg \/ WaitReturns \/ TakeDummy \/ ScanEnds \/ Enqueue
  BY <1>6, <1>9 DEF GetMsg, WaitReturns, TakeDummy, ScanEnds, Enqueue
<1>10. CASE \/ TimeoutSignal \/ TimeoutUnlink \/ TimeoutFree \/ WriteUnitPipe \/ SendDeath
            \/ JoinThread \/ \E q \in Packet : VsyncFinds(q)
  BY <1>6, <1>10 DEF TimeoutSignal, TimeoutUnlink, TimeoutFree, WriteUnitPipe, SendDeath,
                     JoinThread, VsyncFinds
<1>11. CASE \/ FsRead \/ FsCheck \/ FsHandle \/ FsInsert \/ FsUnlink \/ FsFree \/ FsWalkEnds
            \/ FsWrite \/ FsCount \/ FsBack \/ FsInt \/ \E q \in Packet : FsWalk(q)
  BY <1>6, <1>11 DEF FsRead, FsCheck, FsHandle, FsInsert, FsUnlink, FsFree, FsWalkEnds,
                     FsWrite, FsCount, FsBack, FsInt, FsWalk
<1>. QED
  BY <1>1, <1>2, <1>3, <1>4, <1>5, <1>6, <1>7, <1>8, <1>9, <1>10, <1>11
     DEF Next, HandlerTask, EmulatorWaits, FsThread, FsRecords, vars

(* A late grant or a late timeout changes a packet that already carries a  *)
(* mark only while both walks hold its record, which is while the machine  *)
(* is stopped in record_timeout.                                           *)
THEOREM MarksStand == Spec => CompletionStands
<1>1. TypeOK /\ UnitInv /\ [Next]_vars
        => [emu # "reboot" => \A p \in Packet :
              status[p] \in {"done", "timedout"} =>
                status'[p] \in {status[p], "client"} \/ (v_lr = p /\ u_lr = p)]_vars
  BY CompletionStep
<1>. QED BY <1>1, UnitInvariant, PTL DEF Spec, CompletionStands
=============================================================================
