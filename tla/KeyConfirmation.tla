--------------------------- MODULE KeyConfirmation ---------------------------
(***************************************************************************)
(* What a pairing promises, whatever happens to frames and boards on the   *)
(* way: the order in which the two boards may come to accept a transcript, *)
(* to derive a key from it, and to verify a test of that key.  Nothing     *)
(* here is sent, lost, queued or restarted; module Pairing implements it.  *)
(*                                                                         *)
(*   initiator accepts t  ->  responder accepts t  ->  both derive from t  *)
(*   both derived k       ->  responder confirms k ->  initiator confirms k*)
(***************************************************************************)
CONSTANTS Transcripts,   \* what a completed EDHOC run binds: both ephemeral keys
          Keys           \* the LMKs that can be exported from them

\* The transcript a key was exported from.
TranscriptOf(k) == [gx |-> k.gx, gy |-> k.gy]

VARIABLES accepted,      \* the transcripts each board has authenticated
          derived,       \* the keys each board has exported
          confirmed      \* the keys each board has verified a key test under

vars == <<accepted, derived, confirmed>>
Sides == {"initiator", "responder"}

Init ==
  /\ accepted = [b \in Sides |-> {}]
  /\ derived = [b \in Sides |-> {}]
  /\ confirmed = [b \in Sides |-> {}]

\* The responder accepts only what the initiator accepted before it.
Accept(b, t) ==
  /\ t \notin accepted[b]
  /\ b = "responder" => t \in accepted["initiator"]
  /\ accepted' = [accepted EXCEPT ![b] = @ \cup {t}]
  /\ UNCHANGED <<derived, confirmed>>

\* A key is exported once per transcript and board, and by neither board before
\* both have accepted the transcript.
Derive(b, k) ==
  /\ \A c \in Sides : TranscriptOf(k) \in accepted[c]
  /\ \A j \in derived[b] : TranscriptOf(j) # TranscriptOf(k)
  /\ derived' = [derived EXCEPT ![b] = @ \cup {k}]
  /\ UNCHANGED <<accepted, confirmed>>

\* To confirm a key is to verify a test that came in under it.  The responder
\* confirms a key both hold, the initiator one the responder has confirmed.
Confirm(b, k) ==
  /\ k \notin confirmed[b]
  /\ \A c \in Sides : k \in derived[c]
  /\ b = "initiator" => k \in confirmed["responder"]
  /\ confirmed' = [confirmed EXCEPT ![b] = @ \cup {k}]
  /\ UNCHANGED <<accepted, derived>>

Next ==
  \E b \in Sides :
    \/ \E t \in Transcripts : Accept(b, t)
    \/ \E k \in Keys : Derive(b, k) \/ Confirm(b, k)

Spec == Init /\ [][Next]_vars
=============================================================================
