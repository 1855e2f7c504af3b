--------------------------- MODULE MCTimedPairing ---------------------------
(* Two genuine boards with the delays of device_config.h in units of 50 ms. *)
EXTENDS TimedPairing

Genuine ==
  [cred |-> [r \in Roles |-> "original"], key |-> [r \in Roles |-> "original"],
   corrupt |-> FALSE, peerSet |-> TRUE]
GenuineBuilds == {[b \in Boards |-> Genuine]}
NoStrays == {}
=============================================================================
