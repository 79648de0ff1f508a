------------------------------ MODULE Failback ------------------------------
(***************************************************************************)
(* What the A/B mechanism promises, as a state machine of the environment  *)
(* block alone: README.md, section "U-Boot environment", with the write of *)
(* the block as the only way from one state to another.                    *)
(*                                                                         *)
(*   stable   the active slot holds validated firmware                     *)
(*   fresh    the active slot holds new firmware that was never recorded   *)
(*            as started                                                   *)
(*   tried    it was recorded as started and has not validated             *)
(*   lost     the block cannot be read                                     *)
(***************************************************************************)
CONSTANT Slot, Other(_)

VARIABLES phase, active, good

Init ==
  /\ phase = "stable"
  /\ active \in Slot
  /\ good = {active}

\* New firmware begins to overwrite the slot that is not active.
Overwrite ==
  /\ phase = "stable"
  /\ good' = good \ {Other(active)}
  /\ UNCHANGED <<phase, active>>

\* The new firmware is in place.
Install ==
  /\ phase = "stable"
  /\ Other(active) \notin good
  /\ phase' = "fresh"
  /\ active' = Other(active)
  /\ UNCHANGED good

\* The first boot of the new firmware is recorded.
Try ==
  /\ phase = "fresh"
  /\ phase' = "tried"
  /\ UNCHANGED <<active, good>>

\* The second boot without validation goes back to the other slot.
Revert ==
  /\ phase = "tried"
  /\ Other(active) \in good
  /\ phase' = "stable"
  /\ active' = Other(active)
  /\ UNCHANGED good

\* The firmware validates itself.
Confirm ==
  /\ phase \in {"fresh", "tried"}
  /\ phase' = "stable"
  /\ good' = good \cup {active}
  /\ UNCHANGED active

\* A write of the block is cut short.
Lose ==
  /\ phase' = "lost"
  /\ UNCHANGED <<active, good>>

\* The disk is written anew.
Reflash ==
  /\ phase' = "stable"
  /\ active' \in Slot
  /\ good' = {active'}

Next ==
  Overwrite \/ Install \/ Try \/ Revert \/ Confirm \/ Lose \/ Reflash

Spec == Init /\ [][Next]_<<phase, active, good>>

=============================================================================
