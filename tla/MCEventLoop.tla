---------------------------- MODULE MCEventLoop ----------------------------
(***************************************************************************)
(* Small instances of EventLoop for TLC.                                   *)
(***************************************************************************)
EXTENDS EventLoop, TLC

CONSTANTS t1, t2, f1, f2

TwoTransfers == {t1, t2}
TwoTimed == {t1, t2}
TwoFds == {f1, f2}
Asks == (f1 :> {"IN", "OUT"}) @@ (f2 :> {"INOUT"})
OneFault == {f1}
=============================================================================
