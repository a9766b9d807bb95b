----------------------------- MODULE MCEventBus -----------------------------
(* Small instances of EventBus for TLC.                                    *)
EXTENDS EventBus, TLC

CONSTANTS p1, p2, s1, s2, nobody

TwoPublishers == {p1, p2}
OneAndMore == p1 :> 2 @@ p2 :> 0
TwoSubscribers == {s1, s2}
=============================================================================
