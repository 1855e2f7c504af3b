---------------------------- MODULE LakersSessions ----------------------------
(***************************************************************************)
(* The C ABI under any caller: the session cells of several boards, whose  *)
(* six calls may be made in any order, with bad arguments, and with any    *)
(* message that was ever produced.  main/main.c makes only some of these   *)
(* sequences (module Pairing); this module says what the library itself    *)
(* guarantees to whatever calls it, as long as calls are serialised        *)
(* (lib.rs:147, components/lakers_ffi/README.md:123).                      *)
(***************************************************************************)
EXTENDS LakersFfi

CONSTANTS Macs,          \* the boards, by MAC address
          Channels,      \* channel arguments a caller passes, valid or not
          OwnCreds,      \* what the board's own credential may be
          MaxSessions    \* bound: sessions created over all boards

ASSUME LakersSessionsAssumption ==
  /\ Channels \subseteq Nat
  /\ OwnCreds \subseteq Credentials
  /\ MaxSessions \in Nat

VARIABLES session,       \* SESSION of each board
          created,       \* how many ephemeral keys have been drawn
          sent,          \* every message body any call has produced
          done,          \* history: role and transcript of completed sessions
          exported,      \* history: LMKs written to a caller's buffer, by role
          last           \* the latest call: whose, and the status it returned

vars == <<session, created, sent, done, exported, last>>

Buffers == {"ok", "null", "short"}

Init ==
  /\ session = [m \in Macs |-> EmptySession]
  /\ created = 0
  /\ sent = {NoBody}
  /\ done = {}
  /\ exported = {}
  /\ last \in [mac : Macs, status : {"OK"}]

Returns(m, r) ==
  /\ session' = [session EXCEPT ![m] = r.session]
  /\ last' = [mac |-> m, status |-> r.status]

Keep(r) == sent' = sent \cup {r.out}

\* What Lakers has authenticated, from either end.
Complete(s, r) ==
  done' = done \cup IF r.status = "OK"
                    THEN {[role |-> s.role, gx |-> r.session.gx, gy |-> r.session.gy]}
                    ELSE {}

\* A null MAC pointer is refused before anything else is looked at.  The peer is
\* another board: the library does not compare the two MACs.
DoSessionInit(m, pointers, role, peer, channel, own) ==
  LET r == IF pointers = "null" THEN Refuse(session[m], "INVALID_ARGUMENT")
           ELSE SessionInit(session[m], role, m, peer, channel, own, "original",
                            created + 1)
  IN /\ created < MaxSessions
     /\ Returns(m, r)
     /\ created' = IF r.status = "OK" THEN created + 1 ELSE created
     /\ UNCHANGED <<sent, done, exported>>

DoMakeMessage1(m, buffer, prepared) ==
  LET r == MakeMessage1(session[m], buffer, prepared)
  IN Returns(m, r) /\ Keep(r) /\ UNCHANGED <<created, done, exported>>

DoProcessMessage1(m, buffer, body) ==
  LET r == ProcessMessage1(session[m], buffer, body)
  IN Returns(m, r) /\ Keep(r) /\ UNCHANGED <<created, done, exported>>

DoProcessMessage2(m, buffer, body) ==
  LET r == ProcessMessage2(session[m], buffer, body, "original")
  IN /\ Returns(m, r) /\ Keep(r)
     /\ Complete(session[m], r)
     /\ UNCHANGED <<created, exported>>

DoProcessMessage3(m, body) ==
  LET r == ProcessMessage3(session[m], body, "original")
  IN /\ Returns(m, r)
     /\ Complete(session[m], r)
     /\ UNCHANGED <<created, sent, exported>>

DoExport(m, buffer) ==
  LET status == ExportStatus(session[m], buffer)
  IN /\ last' = [mac |-> m, status |-> status]
     /\ exported' = exported \cup IF status = "OK"
          THEN {[role |-> session[m].role, lmk |-> ExportLmk(session[m])]} ELSE {}
     /\ UNCHANGED <<session, created, sent, done>>

Next ==
  \E m \in Macs :
    \/ \E pointers \in {"ok", "null"}, role \in Roles \cup {"none"},
          peer \in Macs \ {m}, channel \in Channels, own \in OwnCreds :
         DoSessionInit(m, pointers, role, peer, channel, own)
    \/ \E buffer \in Buffers, prepared \in BOOLEAN :
         DoMakeMessage1(m, buffer, prepared)
    \/ \E buffer \in Buffers, body \in sent : DoProcessMessage1(m, buffer, body)
    \/ \E buffer \in Buffers, body \in sent : DoProcessMessage2(m, buffer, body)
    \/ \E body \in sent : DoProcessMessage3(m, body)
    \/ \E buffer \in {"ok", "null"} : DoExport(m, buffer)

Spec == Init /\ [][Next]_vars

-----------------------------------------------------------------------------
\* Types of the session cells and of the history.
TypeOK ==
  /\ session \in [Macs -> Sessions(Macs)]
  /\ created \in 0 .. MaxSessions
  /\ sent \subseteq Bodies
  /\ done \subseteq [role : Roles, gx : Nat, gy : Nat]
  /\ exported \subseteq [role : Roles, lmk : Lmks(Macs)]
  /\ last \in [mac : Macs, status : Statuses]

\* A call that fails other than by a protocol error leaves the session as it
\* was, although most calls take it out of the cell first (lib.rs:300, 353, 416,
\* 477); a protocol error ends a session that was under way, that board's alone,
\* and leaves nothing of it, context and keys included, but its role
\* (lib.rs:241-254).
Killed(s, t) ==
  /\ s.phase \in {"Start", "WaitM2", "WaitM3"}
  /\ t.role = s.role /\ t.phase = "Failed"
  /\ t.ctx = NoContext /\ t.gx = 0 /\ t.gy = 0 /\ t.as = "nobody"
FailedCallsKeepOrKill ==
  [][LET m == last'.mac IN
     /\ last'.status \notin {"OK", "PROTOCOL_ERROR"} => session' = session
     /\ last'.status = "PROTOCOL_ERROR" =>
          /\ Killed(session[m], session'[m])
          /\ \A n \in Macs \ {m} : session'[n] = session[n]]_vars

\* A session only moves along Start -> WaitM2/WaitM3 -> Done, or to Failed, and
\* from Done and Failed only session_init leads on (components/lakers_ffi/
\* README.md:40-54).
PhaseStep(s, t) ==
  \/ t.phase = "Start"
  \/ s.role = t.role /\
     \/ <<s.phase, t.phase>> \in
          {<<"Start", "WaitM2">>, <<"Start", "WaitM3">>, <<"WaitM2", "Done">>,
           <<"WaitM3", "Done">>} /\ s.ctx = t.ctx
     \/ s.phase \in {"Start", "WaitM2", "WaitM3"} /\ t.phase = "Failed"
        /\ t.ctx = NoContext
PhasesInOrder ==
  [][\A m \in Macs : session'[m] # session[m] => PhaseStep(session[m], session'[m])]_vars

\* An ephemeral key answers at most one message 1, whichever calls are repeated.
OneAnswerPerEphemeral ==
  \A a, b \in sent : a.kind = "m2" /\ b.kind = "m2" /\ a.gy = b.gy => a = b

\* A responder completes only a transcript some initiator has completed, so no
\* LMK is exported by a responder alone, even if messages are mixed up between
\* sessions or a board is re-initialised in the other role.
ResponderFollowsInitiator ==
  \A d \in done : d.role = "responder" => [d EXCEPT !.role = "initiator"] \in done

\* Both ends of one transcript export the same LMK up to the channel each was
\* told: the context is built initiator first on either board (lib.rs:180, 195).
ExportsAgree ==
  \A e, f \in exported :
    e.lmk.gx = f.lmk.gx /\ e.lmk.gy = f.lmk.gy /\ e.lmk.ctx.channel = f.lmk.ctx.channel
      => e.lmk = f.lmk
=============================================================================
