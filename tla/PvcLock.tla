------------------------------- MODULE PvcLock ---------------------------------
(***************************************************************************)
(* What a doctor migration promises about the volume of a Claw, the home   *)
(* PVC: the gateway and a doctor Job take turns.  Whoever wants the volume *)
(* waits until nobody is entitled to it.                                   *)
(***************************************************************************)
CONSTANT Users

VARIABLE holders   \* who is entitled to run on the volume

Init == holders = {}

Acquire(u) ==
    /\ holders = {}
    /\ holders' = {u}

Release(u) ==
    /\ holders = {u}
    /\ holders' = {}

Next == \E u \in Users : Acquire(u) \/ Release(u)

Spec == Init /\ [][Next]_holders
=============================================================================
