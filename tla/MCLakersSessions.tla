--------------------------- MODULE MCLakersSessions ---------------------------
(* Two boards; the strings stand for their MAC addresses. *)
EXTENDS LakersSessions
TwoMacs == {"A", "B"}
=============================================================================
