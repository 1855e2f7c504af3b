------------------------------ MODULE MCPairing ------------------------------
(* Small instances of Pairing: the builds and stray frames the runs use. *)
EXTENDS Pairing

Genuine ==
  [cred |-> [r \in Roles |-> "original"], key |-> [r \in Roles |-> "original"],
   corrupt |-> FALSE, peerSet |-> TRUE]

\* One board built with an edit, the other as published.
Edited(b, v) == [c \in Boards |-> IF c = b THEN v ELSE Genuine]

GenuineBuilds == {[b \in Boards |-> Genuine]}

CorruptedBuilds ==
  {[b \in Boards |-> [Genuine EXCEPT !.corrupt = b \in S]] : S \in SUBSET Boards}

CredentialBuilds ==
  {Edited(b, [Genuine EXCEPT !.cred[r] = v]) :
     b \in Boards, r \in Roles, v \in {"altered", "unparsable"}}

KeyBuilds ==
  {Edited(b, [Genuine EXCEPT !.key[r] = "altered"]) : b \in Boards, r \in Roles}

UnsetBuilds == {Edited(b, [Genuine EXCEPT !.peerSet = FALSE]) : b \in Boards}

AllBuilds ==
  CorruptedBuilds \cup CredentialBuilds \cup KeyBuilds \cup UnsetBuilds

\* Another pair on the channel, an older milestone's frames, and noise.
Garbage == Body("garbage", 0, 0, "nobody")
SomeStrays ==
  {[type |-> "M1", sid |-> "theirs", body |-> Text],
   Frame("M1", Garbage), Frame("M2", NoBody), Frame("ACK", Garbage),
   Frame("KEY_TEST", Garbage), Frame("KEY_TEST_ACK", Garbage),
   [type |-> "unparsable", sid |-> "ours", body |-> NoBody]}
NoStrays == {}
=============================================================================
