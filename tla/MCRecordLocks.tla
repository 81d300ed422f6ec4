----------------------------- MODULE MCRecordLocks -----------------------------
(* Two handles of one file, one of another. The requests overlap at one end,   *)
(* contain each other and touch; one is immediate, one shared, and the timeout *)
(* of one tick of the shared one becomes no vsync at all.                      *)
EXTENDS RecordLocks

MCKey == {"k1", "k2", "other"}
MCFileOf == [k \in MCKey |-> IF k = "other" THEN "g" ELSE "f"]

Req(p, l, m, t) == [pos |-> p, len |-> l, mode |-> m, timeout |-> t]
MCRequest == {Req(0, 3, REC_EXCLUSIVE, 3), Req(1, 1, REC_SHARED, 1),
              Req(2, 2, REC_EXCLUSIVE_IMMED, 1)}
=============================================================================
