------------------------------ MODULE MCEvents ------------------------------
(* Events for TLC: two handlers and two entries besides the blitter's, so  *)
(* that a third request finds the table full and runs an event before its  *)
(* time, whose handler may fill the entry again.  The hsync entry comes    *)
(* before ev_misc in eventtab, the audio entry after it.  CYCLE_UNIT is    *)
(* two cycles: the one cycle a link adds stays inside it.  A device is     *)
(* armed for later than a request, so that a pass over eventtab has no     *)
(* device to stop for at each request.                                     *)
EXTENDS Events

CONSTANTS f, g

MCFunc == {f, g}
MCDevice == {ev_hsync, ev_audio}
MCDelay == {2}
MCPeriod == {4}
MCCycles == {2}
=============================================================================
