--------------------------- MODULE SessionLifecycle ---------------------------
(***************************************************************************)
(* What the agent promises about connection requests, without saying how:  *)
(* it serves one at a time, and none is connected that it did not first    *)
(* admit and put to the operator.  A request is                            *)
(*                                                                         *)
(*   outside    not admitted: not seen yet, or declined, or over           *)
(*   pending    admitted; the operator is being asked                      *)
(*   accepted   the operator said yes; the connection is being made        *)
(*   connected  the connection is up                                       *)
(*   closing    no longer served, still being cleaned up                   *)
(***************************************************************************)
CONSTANT Requests

VARIABLE phase

Phases == {"outside", "pending", "accepted", "connected", "closing"}

LInit == phase = [r \in Requests |-> "outside"]

LMove(r, from, to) ==
  /\ phase[r] \in from
  /\ phase' = [phase EXCEPT ![r] = to]

\* Admitted only when no request is being served or cleaned up.
LAdmit(r) ==
  /\ \A q \in Requests : phase[q] = "outside"
  /\ LMove(r, {"outside"}, "pending")

LAccept(r)  == LMove(r, {"pending"}, "accepted")
LConnect(r) == LMove(r, {"accepted"}, "connected")
LGiveUp(r)  == LMove(r, {"pending", "accepted", "connected"}, "closing")
LClose(r)   == LMove(r, {"closing"}, "outside")

\* The agent's process ends.
LStop == phase' = [r \in Requests |-> "outside"]

LNext ==
  \/ \E r \in Requests : LAdmit(r) \/ LAccept(r) \/ LConnect(r) \/ LGiveUp(r) \/ LClose(r)
  \/ LStop

LSpec == LInit /\ [][LNext]_phase
=============================================================================
