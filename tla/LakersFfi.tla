------------------------------ MODULE LakersFfi ------------------------------
(***************************************************************************)
(* The C ABI of the Rust static library, components/lakers_ffi/rust/src/   *)
(* lib.rs: one typed EDHOC session per board and the six calls on it.      *)
(* Every call is an operator from the session (and its arguments) to the   *)
(* status it returns, the session it leaves behind and what it writes to   *)
(* its output; the modules that own a session apply them in their actions. *)
(*                                                                         *)
(* Cryptography is symbolic.  An ephemeral key is a number that names the  *)
(* session whose creation drew it, a message body says which ephemeral     *)
(* keys it is bound to and as whom its sender can authenticate, and an LMK *)
(* is the transcript and context it was exported from.                     *)
(***************************************************************************)
EXTENDS Naturals

Roles == {"initiator", "responder"}
Statuses == {"OK", "INVALID_ARGUMENT", "WRONG_STATE", "BUFFER_TOO_SMALL",
             "PROTOCOL_ERROR", "CREDENTIAL_ERROR"}
Phases == {"Empty", "Start", "WaitM2", "WaitM3", "Done", "Failed"}

\* What a test credential can be after an edit of the source: the published
\* one, one that differs but parses, one that parse_ccs refuses.  A sender whose
\* static private key does not belong to its credential authenticates as nobody.
Credentials == {"original", "altered", "unparsable"}
Identities == Credentials \cup {"nobody"}

\* The exporter context: the purpose string, both MACs and the channel.
\* Channel 0 is refused by create_session, so NoContext is no real context.
Contexts(Macs) == [init : Macs, resp : Macs, channel : Nat]
NoContext == [init |-> "zero", resp |-> "zero", channel |-> 0]

Kinds == {"m1", "m2", "m3", "text", "garbage", "none"}
Bodies == [kind : Kinds, gx : Nat, gy : Nat, as : Identities]
Body(kind, gx, gy, as) == [kind |-> kind, gx |-> gx, gy |-> gy, as |-> as]
NoBody == Body("none", 0, 0, "nobody")

\* Session, InitiatorPhase and ResponderPhase: a role has its own phases.
PhasesOf(role) ==
  IF role = "initiator" THEN {"Start", "WaitM2", "Done", "Failed"}
  ELSE IF role = "responder" THEN {"Start", "WaitM3", "Done", "Failed"}
  ELSE {"Empty"}
Sessions(Macs) ==
  {s \in [role : Roles \cup {"none"}, phase : Phases,
          ctx : Contexts(Macs) \cup {NoContext}, gx : Nat, gy : Nat,
          as : Identities] : s.phase \in PhasesOf(s.role)}
EmptySession ==
  [role |-> "none", phase |-> "Empty", ctx |-> NoContext,
   gx |-> 0, gy |-> 0, as |-> "nobody"]
\* The session after Lakers has moved it to a phase with these ephemeral keys.
Moved(s, phase, gx, gy) ==
  [role |-> s.role, phase |-> phase, ctx |-> s.ctx, gx |-> gx, gy |-> gy,
   as |-> s.as]

Lmks(Macs) ==
  [gx : Nat, gy : Nat, ctx : Contexts(Macs) \cup {NoContext}, flipped : BOOLEAN]
NoLmk == [gx |-> 0, gy |-> 0, ctx |-> NoContext, flipped |-> FALSE]

-----------------------------------------------------------------------------
Answer(status, session, out) ==
  [status |-> status, session |-> session, out |-> out]

\* Mutant: the session is taken out of the cell and not put back.
RefuseWithoutPutBack(s, status) == Answer(status, EmptySession, NoBody)

\* A call that is turned away puts the session back as it found it.
Refuse(s, status) == Answer(status, s, NoBody)

\* Mutant: the cell, emptied by mem::replace, is not written again.
ProtocolFailedLeavesEmpty(role) == Answer("PROTOCOL_ERROR", EmptySession, NoBody)

\* protocol_failed: the typed Lakers state is dropped and the context zeroed.
ProtocolFailed(role) ==
  Answer("PROTOCOL_ERROR",
         [role |-> role, phase |-> "Failed", ctx |-> NoContext,
          gx |-> 0, gy |-> 0, as |-> "nobody"],
         NoBody)

\* prepare_output and input_slice.  "null" is a null pointer, "short" a buffer
\* below 192 bytes; NoBody is an empty (or over-long) input.
ArgumentStatus(buffer, input) ==
  IF buffer = "null" THEN "INVALID_ARGUMENT"
  ELSE IF buffer = "short" THEN "BUFFER_TOO_SMALL"
  ELSE IF input = NoBody THEN "INVALID_ARGUMENT"
  ELSE "OK"

\* Mutants: the role, or the phase, is not looked at.
CallInAnyRole(s, argument, role, phase, accepted, next, out) ==
  IF argument # "OK" THEN Refuse(s, argument)
  ELSE IF s.phase # phase THEN Refuse(s, "WRONG_STATE")
  ELSE IF ~accepted THEN ProtocolFailed(role)
  ELSE Answer("OK", next, out)
CallInAnyPhase(s, argument, role, phase, accepted, next, out) ==
  IF argument # "OK" THEN Refuse(s, argument)
  ELSE IF s.role # role THEN Refuse(s, "WRONG_STATE")
  ELSE IF ~accepted THEN ProtocolFailed(role)
  ELSE Answer("OK", next, out)

\* The shape every typed call shares: arguments first, then the role and phase
\* of the session, then Lakers, whose refusal ends the session.
Call(s, argument, role, phase, accepted, next, out) ==
  IF argument # "OK" THEN Refuse(s, argument)
  ELSE IF s.role # role \/ s.phase # phase THEN Refuse(s, "WRONG_STATE")
  ELSE IF ~accepted THEN ProtocolFailed(role)
  ELSE Answer("OK", next, out)

-----------------------------------------------------------------------------
\* The context names the initiator first on both boards.
BuildExporterContext(initiatorMac, responderMac, channel) ==
  [init |-> initiatorMac, resp |-> responderMac, channel |-> channel]

\* Who a sender can prove to be with the credential and private key it holds.
Identity(credential, key) == IF key = "original" THEN credential ELSE "nobody"

\* Mutant: each board puts its own MAC first in the exporter context.
SessionInitOwnMacFirst(s, role, own, peer, channel, credential, key, fresh) ==
  IF role \notin Roles \/ channel = 0 \/ channel > 14
  THEN Refuse(s, "INVALID_ARGUMENT")
  ELSE IF credential = "unparsable" THEN Refuse(s, "CREDENTIAL_ERROR")
  ELSE Answer("OK",
         [role |-> role, phase |-> "Start",
          ctx |-> BuildExporterContext(own, peer, channel),
          gx |-> IF role = "initiator" THEN fresh ELSE 0,
          gy |-> IF role = "responder" THEN fresh ELSE 0,
          as |-> Identity(credential, key)],
         NoBody)

\* lakers_edhoc_session_init: the new session draws a fresh ephemeral key and
\* replaces the old one, in any state; a refusal keeps the old one.
SessionInit(s, role, own, peer, channel, credential, key, fresh) ==
  IF role \notin Roles \/ channel = 0 \/ channel > 14
  THEN Refuse(s, "INVALID_ARGUMENT")
  ELSE IF credential = "unparsable" THEN Refuse(s, "CREDENTIAL_ERROR")
  ELSE Answer("OK",
         [role |-> role, phase |-> "Start",
          ctx |-> IF role = "initiator"
                  THEN BuildExporterContext(own, peer, channel)
                  ELSE BuildExporterContext(peer, own, channel),
          gx |-> IF role = "initiator" THEN fresh ELSE 0,
          gy |-> IF role = "responder" THEN fresh ELSE 0,
          as |-> Identity(credential, key)],
         NoBody)

\* prepared: whether Lakers could build the message.
MakeMessage1(s, buffer, prepared) ==
  Call(s, ArgumentStatus(buffer, Body("text", 0, 0, "nobody")),
       "initiator", "Start", prepared,
       Moved(s, "WaitM2", s.gx, 0),
       Body("m1", s.gx, 0, "nobody"))

\* Mutants: the typed state is not advanced; it is not put back at all.
ProcessMessage1StaysInStart(s, buffer, m) ==
  Call(s, ArgumentStatus(buffer, m), "responder", "Start", m.kind = "m1",
       s, Body("m2", m.gx, s.gy, s.as))
ProcessMessage1NotPutBack(s, buffer, m) ==
  Call(s, ArgumentStatus(buffer, m), "responder", "Start", m.kind = "m1",
       EmptySession, Body("m2", m.gx, s.gy, s.as))

ProcessMessage1(s, buffer, m) ==
  Call(s, ArgumentStatus(buffer, m), "responder", "Start", m.kind = "m1",
       Moved(s, "WaitM3", m.gx, s.gy),
       Body("m2", m.gx, s.gy, s.as))

\* Mutant: the responder's credential is not checked.
ProcessMessage2AnyCredential(s, buffer, m, expected) ==
  Call(s, ArgumentStatus(buffer, m), "initiator", "WaitM2",
       m.kind = "m2" /\ m.gx = s.gx,
       Moved(s, "Done", s.gx, m.gy),
       Body("m3", s.gx, m.gy, s.as))

\* Message 2 must answer this session's message 1 and be authenticated by the
\* responder credential compiled into this board.
ProcessMessage2(s, buffer, m, expected) ==
  Call(s, ArgumentStatus(buffer, m), "initiator", "WaitM2",
       m.kind = "m2" /\ m.gx = s.gx /\ m.as = expected,
       Moved(s, "Done", s.gx, m.gy),
       Body("m3", s.gx, m.gy, s.as))

\* Mutants: the initiator's credential, or the transcript, is not checked.
ProcessMessage3AnyCredential(s, m, expected) ==
  Call(s, ArgumentStatus("ok", m), "responder", "WaitM3",
       m.kind = "m3" /\ m.gx = s.gx /\ m.gy = s.gy,
       Moved(s, "Done", s.gx, s.gy),
       NoBody)
ProcessMessage3AnyTranscript(s, m, expected) ==
  Call(s, ArgumentStatus("ok", m), "responder", "WaitM3",
       m.kind = "m3" /\ m.as = expected,
       Moved(s, "Done", s.gx, s.gy),
       NoBody)

ProcessMessage3(s, m, expected) ==
  Call(s, ArgumentStatus("ok", m), "responder", "WaitM3",
       m.kind = "m3" /\ m.gx = s.gx /\ m.gy = s.gy /\ m.as = expected,
       Moved(s, "Done", s.gx, s.gy),
       NoBody)

\* lakers_edhoc_export_espnow_lmk reads the session and leaves it as it is, so
\* it may be called again and returns the same bytes.
ExportStatus(s, buffer) ==
  IF buffer = "null" THEN "INVALID_ARGUMENT"
  ELSE IF s.phase # "Done" THEN "WRONG_STATE" ELSE "OK"
ExportLmk(s) == [gx |-> s.gx, gy |-> s.gy, ctx |-> s.ctx, flipped |-> FALSE]
=============================================================================
