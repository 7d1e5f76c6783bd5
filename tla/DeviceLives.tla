------------------------------ MODULE DeviceLives ------------------------------
(***************************************************************************)
(* What the gateway promises of the devices it runs, without its polls,     *)
(* tasks and cancellation tokens: a tester chooses the devices it will run  *)
(* once, all at the same time, and each of them then has one life; the      *)
(* devices it did not choose have none.  A life that is over is never       *)
(* followed by another, and no tester runs a device twice at once.          *)
(***************************************************************************)
CONSTANTS Tester, Device

VARIABLE life    \* of a device under a tester

Life == {"unborn", "alive", "over"}

LivesTypeOK == life \in [Tester -> [Device -> Life]]

Init == life = [t \in Tester |-> [d \in Device |-> "unborn"]]

(* The tester starts the devices in ds; it has started none before.         *)
Begin(t, ds) ==
    /\ \A d \in Device : life[t][d] = "unborn"
    /\ life' = [life EXCEPT ![t] =
                   [d \in Device |-> IF d \in ds THEN "alive" ELSE "over"]]

(* Some lives end: a device is stopped or fails, or the process ends.       *)
End(gone) ==
    /\ \A p \in gone : life[p[1]][p[2]] = "alive"
    /\ life' = [t \in Tester |-> [d \in Device |->
                   IF <<t, d>> \in gone THEN "over" ELSE life[t][d]]]

Next ==
    \/ \E t \in Tester, ds \in SUBSET Device : Begin(t, ds)
    \/ \E gone \in SUBSET (Tester \X Device) : End(gone)

Spec == Init /\ [][Next]_life
================================================================================
