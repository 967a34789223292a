--------------------------- MODULE SlotLifecycle ---------------------------
(***************************************************************************)
(* What a pool of reusable objects promises its users (sockets, streams,   *)
(* filters, PMTs, keys, HTTP clients): every slot goes round the cycle     *)
(*                                                                         *)
(*     free -> claimed -> live -> closing -> free                          *)
(*                                                                         *)
(* one slot per step, so a slot that is claimed, live or being closed is   *)
(* never handed out a second time.  SegmentedPool implements this.         *)
(***************************************************************************)
CONSTANT Slots

VARIABLE state

SlotStates == {"free", "claimed", "live", "closing"}

Succ(s) == CASE s = "free"    -> "claimed"
             [] s = "claimed" -> "live"
             [] s = "live"    -> "closing"
             [] s = "closing" -> "free"

Init == state = [i \in Slots |-> "free"]

Advance(i) == state' = [state EXCEPT ![i] = Succ(state[i])]

Next == \E i \in Slots : Advance(i)

Spec == Init /\ [][Next]_state
=============================================================================
