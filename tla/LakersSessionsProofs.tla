------------------------ MODULE LakersSessionsProofs ------------------------
(***************************************************************************)
(* Proofs about LakersSessions for any caller, any number of sessions and  *)
(* any channels and credentials; but for ExportsAgree also for any number  *)
(* of boards.                                                              *)
(***************************************************************************)
EXTENDS LakersSessions, TLAPS

-----------------------------------------------------------------------------
(***************************************************************************)
(* The inductive invariant.  Everything rests on ephemeral keys: each is   *)
(* drawn once, is held by one session until that one ends, and names the   *)
(* session in everything it has sent, completed or exported.               *)
(***************************************************************************)

\* Types, and that an empty output, which is what a failed call leaves, is no news.
Typed == TypeOK /\ NoBody \in sent

\* A session that can still do something, and the ephemeral key of its own board;
\* a completed run and an exported key have one too.
Live(m) == session[m].phase \notin {"Empty", "Failed"}
OwnKey(s) == IF s.role = "initiator" THEN s.gx ELSE s.gy

\* Keys of live sessions have been drawn, each for one of them.
KeysDrawn ==
  \A m \in Macs : Live(m) =>
    /\ OwnKey(session[m]) \in 1 .. created
    /\ \A n \in Macs \ {m} : Live(n) => OwnKey(session[n]) # OwnKey(session[m])

\* A context names the session's own board where its role has it, and another
\* board as the peer.
ContextShape ==
  \A m \in Macs : Live(m) =>
    LET s == session[m]
    IN /\ s.role = "initiator" => s.ctx.init = m /\ s.ctx.resp \in Macs \ {m}
       /\ s.role = "responder" => s.ctx.resp = m /\ s.ctx.init \in Macs \ {m}

\* Message_2 carries a drawn key, and none that a session still in Start holds.
M2Drawn ==
  \A a \in sent : a.kind = "m2" =>
    /\ a.gy \in 1 .. created
    /\ \A m \in Macs :
         session[m].role = "responder" /\ session[m].phase = "Start" =>
           a.gy # session[m].gy

\* Message_3 belongs to a run the initiator has completed.
M3Done ==
  \A a \in sent : a.kind = "m3" =>
    [role |-> "initiator", gx |-> a.gx, gy |-> a.gy] \in done

\* A completed run had a drawn key, and none that a session of its role which is
\* not completed holds.
DoneDrawn ==
  \A d \in done :
    /\ OwnKey(d) \in 1 .. created
    /\ \A m \in Macs :
         session[m].role = d.role /\ session[m].phase \in {"Start", "WaitM2", "WaitM3"} =>
           OwnKey(d) # OwnKey(session[m])

AnswerInv ==
  /\ KeysDrawn
  /\ ContextShape
  /\ M2Drawn
  /\ OneAnswerPerEphemeral
  /\ M3Done
  /\ DoneDrawn
  /\ ResponderFollowsInitiator

\* What has been exported, and what completed sessions may still export.
Export(s) == [role |-> s.role, lmk |-> ExportLmk(s)]
Exports ==
  exported \cup {Export(session[m]) : m \in {n \in Macs : session[n].phase = "Done"}}

\* An export belongs to a completed run, an initiator's to a message_2 too, and
\* names two boards.
ExportsDone ==
  \A e \in Exports :
    /\ [role |-> e.role, gx |-> e.lmk.gx, gy |-> e.lmk.gy] \in done
    /\ e.role = "initiator" =>
         \E a \in sent : a.kind = "m2" /\ a.gx = e.lmk.gx /\ a.gy = e.lmk.gy
    /\ e.lmk.ctx.init \in Macs /\ e.lmk.ctx.resp \in Macs \ {e.lmk.ctx.init}
    /\ ~e.lmk.flipped

\* A board is not its own peer: a responder that may still complete, or has, is
\* not the board whose initiator session completed the same run.
Apart ==
  \A m \in Macs, e \in Exports :
    /\ session[m].role = "responder" /\ session[m].phase \in {"WaitM3", "Done"}
    /\ e.role = "initiator" /\ e.lmk.gx = session[m].gx /\ e.lmk.gy = session[m].gy
    => e.lmk.ctx.init # m

\* Exports of one run name the same boards.
SameBoards ==
  \A e, f \in Exports :
    e.lmk.gx = f.lmk.gx /\ e.lmk.gy = f.lmk.gy =>
      e.lmk.ctx.init = f.lmk.ctx.init /\ e.lmk.ctx.resp = f.lmk.ctx.resp

ExportInv == ExportsDone /\ Apart

-----------------------------------------------------------------------------
(* The six calls: turned away, or ended by Lakers, or carried out. *)

\* A call that is turned away answers with the session it was given.
TurnedAway(s, r) ==
  /\ r.session = s /\ r.out = NoBody
  /\ r.status \in Statuses \ {"OK", "PROTOCOL_ERROR"}

\* A message call that Lakers refuses.
Ended(role, r) == r = ProtocolFailed(role)

\* The argument checks never let a bad argument pass as OK.
LEMMA ArgumentStatuses ==
  ASSUME NEW buffer, NEW input
  PROVE  ArgumentStatus(buffer, input) \in Statuses \ {"PROTOCOL_ERROR"}
BY DEF ArgumentStatus, Statuses

\* make_message_1.
LEMMA MakeM1Cases ==
  ASSUME NEW s, NEW buffer, NEW prepared
  PROVE  LET r == MakeMessage1(s, buffer, prepared) IN
         \/ TurnedAway(s, r)
         \/ /\ s.role = "initiator" /\ s.phase = "Start"
            /\ \/ Ended("initiator", r)
               \/ r = Answer("OK", Moved(s, "WaitM2", s.gx, 0),
                             Body("m1", s.gx, 0, "nobody"))
<1> DEFINE argument == ArgumentStatus(buffer, Body("text", 0, 0, "nobody"))
<1>1. argument \in Statuses \ {"PROTOCOL_ERROR"}
  BY ArgumentStatuses
<1> HIDE DEF argument
<1>2. "WRONG_STATE" \in Statuses \ {"PROTOCOL_ERROR"}
  BY DEF Statuses
<1> QED
  BY <1>1, <1>2 DEF MakeMessage1, Call, Refuse, Answer, TurnedAway, Ended, argument

\* process_message_1.
LEMMA ProcessM1Cases ==
  ASSUME NEW s, NEW buffer, NEW m
  PROVE  LET r == ProcessMessage1(s, buffer, m) IN
         \/ TurnedAway(s, r)
         \/ /\ s.role = "responder" /\ s.phase = "Start"
            /\ \/ Ended("responder", r)
               \/ /\ m.kind = "m1"
                  /\ r = Answer("OK", Moved(s, "WaitM3", m.gx, s.gy),
                                Body("m2", m.gx, s.gy, s.as))
<1>1. ArgumentStatus(buffer, m) \in Statuses \ {"PROTOCOL_ERROR"}
  BY ArgumentStatuses
<1>2. "WRONG_STATE" \in Statuses \ {"PROTOCOL_ERROR"}
  BY DEF Statuses
<1> QED
  BY <1>1, <1>2 DEF ProcessMessage1, Call, Refuse, Answer, TurnedAway, Ended

\* process_message_2.
LEMMA ProcessM2Cases ==
  ASSUME NEW s, NEW buffer, NEW m, NEW expected
  PROVE  LET r == ProcessMessage2(s, buffer, m, expected) IN
         \/ TurnedAway(s, r)
         \/ /\ s.role = "initiator" /\ s.phase = "WaitM2"
            /\ \/ Ended("initiator", r)
               \/ /\ m.kind = "m2" /\ m.gx = s.gx
                  /\ r = Answer("OK", Moved(s, "Done", s.gx, m.gy),
                                Body("m3", s.gx, m.gy, s.as))
<1>1. ArgumentStatus(buffer, m) \in Statuses \ {"PROTOCOL_ERROR"}
  BY ArgumentStatuses
<1>2. "WRONG_STATE" \in Statuses \ {"PROTOCOL_ERROR"}
  BY DEF Statuses
<1> QED
  BY <1>1, <1>2 DEF ProcessMessage2, Call, Refuse, Answer, TurnedAway, Ended

\* process_message_3.
LEMMA ProcessM3Cases ==
  ASSUME NEW s, NEW m, NEW expected
  PROVE  LET r == ProcessMessage3(s, m, expected) IN
         \/ TurnedAway(s, r)
         \/ /\ s.role = "responder" /\ s.phase = "WaitM3"
            /\ \/ Ended("responder", r)
               \/ /\ m.kind = "m3" /\ m.gx = s.gx /\ m.gy = s.gy
                  /\ r = Answer("OK", Moved(s, "Done", s.gx, s.gy), NoBody)
<1>1. ArgumentStatus("ok", m) \in Statuses \ {"PROTOCOL_ERROR"}
  BY ArgumentStatuses
<1>2. "WRONG_STATE" \in Statuses \ {"PROTOCOL_ERROR"}
  BY DEF Statuses
<1> QED
  BY <1>1, <1>2 DEF ProcessMessage3, Call, Refuse, Answer, TurnedAway, Ended

\* session_init: a new session in Start, with the key handed to it.
LEMMA SessionInitCases ==
  ASSUME NEW s, NEW role, NEW own, NEW peer, NEW channel, NEW credential, NEW key,
         NEW fresh
  PROVE  LET r == SessionInit(s, role, own, peer, channel, credential, key, fresh) IN
         \/ TurnedAway(s, r)
         \/ /\ role \in Roles /\ r.status = "OK"
            /\ r.session =
                 [role |-> role, phase |-> "Start",
                  ctx |-> IF role = "initiator"
                          THEN BuildExporterContext(own, peer, channel)
                          ELSE BuildExporterContext(peer, own, channel),
                  gx |-> IF role = "initiator" THEN fresh ELSE 0,
                  gy |-> IF role = "responder" THEN fresh ELSE 0,
                  as |-> Identity(credential, key)]
<1>1. {"INVALID_ARGUMENT", "CREDENTIAL_ERROR"}
        \subseteq Statuses \ {"OK", "PROTOCOL_ERROR"}
  BY DEF Statuses
<1> QED
  BY <1>1 DEF SessionInit, Refuse, Answer, TurnedAway

-----------------------------------------------------------------------------
(* The steps, by what they do to the board whose session is called. *)

\* The session of a board, replaced.
Becomes(m, s) == session' = [session EXCEPT ![m] = s]
Reports(m, statuses) == last' \in [mac : {m}, status : statuses]

\* A call turned away, or an export.
Keeps(m) ==
  /\ UNCHANGED <<session, created, sent, done>>
  /\ \/ exported' = exported
     \/ session[m].phase = "Done" /\ exported' = exported \cup {Export(session[m])}
  /\ Reports(m, Statuses \ {"PROTOCOL_ERROR"})

\* A protocol error.
Breaks(m) ==
  /\ session[m].phase \in {"Start", "WaitM2", "WaitM3"}
  /\ Becomes(m, ProtocolFailed(session[m].role).session)
  /\ UNCHANGED <<created, sent, done, exported>>
  /\ Reports(m, {"PROTOCOL_ERROR"})

\* A session created with the next ephemeral key.
Creates(m) ==
  /\ created < MaxSessions /\ created' = created + 1
  /\ \E role \in Roles, peer \in Macs \ {m}, channel \in Channels, as \in Identities :
       Becomes(m, [role |-> role, phase |-> "Start",
                   ctx |-> IF role = "initiator"
                           THEN BuildExporterContext(m, peer, channel)
                           ELSE BuildExporterContext(peer, m, channel),
                   gx |-> IF role = "initiator" THEN created + 1 ELSE 0,
                   gy |-> IF role = "responder" THEN created + 1 ELSE 0,
                   as |-> as])
  /\ UNCHANGED <<sent, done, exported>>
  /\ Reports(m, {"OK"})

\* The four steps of a run.
Starts(m) ==
  LET s == session[m] IN
  /\ s.role = "initiator" /\ s.phase = "Start"
  /\ Becomes(m, Moved(s, "WaitM2", s.gx, 0))
  /\ sent' = sent \cup {Body("m1", s.gx, 0, "nobody")}
  /\ UNCHANGED <<created, done, exported>>
  /\ Reports(m, {"OK"})

Replies(m) ==
  LET s == session[m] IN
  /\ s.role = "responder" /\ s.phase = "Start"
  /\ \E a \in sent :
       /\ Becomes(m, Moved(s, "WaitM3", a.gx, s.gy))
       /\ sent' = sent \cup {Body("m2", a.gx, s.gy, s.as)}
  /\ UNCHANGED <<created, done, exported>>
  /\ Reports(m, {"OK"})

Completes(m) ==
  LET s == session[m] IN
  /\ s.role = "initiator" /\ s.phase = "WaitM2"
  /\ \E a \in sent :
       /\ a.kind = "m2" /\ a.gx = s.gx
       /\ Becomes(m, Moved(s, "Done", s.gx, a.gy))
       /\ sent' = sent \cup {Body("m3", s.gx, a.gy, s.as)}
       /\ done' = done \cup {[role |-> "initiator", gx |-> s.gx, gy |-> a.gy]}
  /\ UNCHANGED <<created, exported>>
  /\ Reports(m, {"OK"})

Follows(m) ==
  LET s == session[m] IN
  /\ s.role = "responder" /\ s.phase = "WaitM3"
  /\ \E a \in sent : a.kind = "m3" /\ a.gx = s.gx /\ a.gy = s.gy
  /\ Becomes(m, Moved(s, "Done", s.gx, s.gy))
  /\ done' = done \cup {[role |-> "responder", gx |-> s.gx, gy |-> s.gy]}
  /\ UNCHANGED <<created, sent, exported>>
  /\ Reports(m, {"OK"})

\* What any call does.
Acts(m) ==
  \/ Keeps(m) \/ Breaks(m) \/ Creates(m) \/ Starts(m)
  \/ Replies(m) \/ Completes(m) \/ Follows(m)

\* A call turned away leaves everything as it was.
LEMMA AwayKeeps ==
  ASSUME TypeOK, NoBody \in sent, NEW m \in Macs, NEW r, Returns(m, r),
         TurnedAway(session[m], r),
         sent' = sent \/ Keep(r), done' = done \/ Complete(session[m], r),
         UNCHANGED <<created, exported>>
  PROVE  Keeps(m)
<1>1. session' = session
  BY DEF TypeOK, Returns, TurnedAway
<1>2. sent' = sent
  BY DEF Keep, TurnedAway
<1>3. done' = done
  BY DEF Complete, TurnedAway
<1> QED
  BY <1>1, <1>2, <1>3 DEF Keeps, Reports, Returns, TurnedAway

\* A call ended by Lakers ends the session.
LEMMA EndBreaks ==
  ASSUME NoBody \in sent, NEW m \in Macs, NEW r, Returns(m, r),
         session[m].phase \in {"Start", "WaitM2", "WaitM3"},
         Ended(session[m].role, r),
         sent' = sent \/ Keep(r), done' = done \/ Complete(session[m], r),
         UNCHANGED <<created, exported>>
  PROVE  Breaks(m)
<1>1. r.status = "PROTOCOL_ERROR" /\ r.out = NoBody
  BY DEF Ended, ProtocolFailed, Answer
<1>2. sent' = sent /\ done' = done
  BY <1>1 DEF Keep, Complete
<1>3. Becomes(m, ProtocolFailed(session[m].role).session)
  BY DEF Becomes, Returns, Ended
<1> QED
  BY <1>1, <1>2, <1>3 DEF Breaks, Reports, Returns

\* Every step is one of these.
LEMMA StepCases ==
  ASSUME TypeOK, NoBody \in sent, Next
  PROVE  \E m \in Macs : Acts(m)
<1> SUFFICES ASSUME NEW m \in Macs,
                    \/ \E pointers \in {"ok", "null"}, role \in Roles \cup {"none"},
                          peer \in Macs \ {m}, channel \in Channels, own \in OwnCreds :
                         DoSessionInit(m, pointers, role, peer, channel, own)
                    \/ \E buffer \in Buffers, prepared \in BOOLEAN :
                         DoMakeMessage1(m, buffer, prepared)
                    \/ \E buffer \in Buffers, body \in sent :
                         DoProcessMessage1(m, buffer, body)
                    \/ \E buffer \in Buffers, body \in sent :
                         DoProcessMessage2(m, buffer, body)
                    \/ \E body \in sent : DoProcessMessage3(m, body)
                    \/ \E buffer \in {"ok", "null"} : DoExport(m, buffer)
             PROVE  Acts(m)
  BY DEF Next
<1> DEFINE s == session[m]
<1>1. ASSUME NEW pointers, NEW role, NEW peer \in Macs \ {m}, NEW channel \in Channels,
             NEW own \in OwnCreds, DoSessionInit(m, pointers, role, peer, channel, own)
      PROVE  Keeps(m) \/ Creates(m)
  <2> DEFINE r == IF pointers = "null" THEN Refuse(s, "INVALID_ARGUMENT")
                  ELSE SessionInit(s, role, m, peer, channel, own, "original",
                                   created + 1)
  <2>1. /\ Returns(m, r) /\ UNCHANGED <<sent, done, exported>>
        /\ created < MaxSessions
        /\ created' = IF r.status = "OK" THEN created + 1 ELSE created
    BY <1>1 DEF DoSessionInit
  <2>2. Identity(own, "original") \in Identities
    BY LakersSessionsAssumption DEF Identity, Identities
  <2>3. CASE TurnedAway(s, r)
    <3>1. created' = created
      BY <2>1, <2>3 DEF TurnedAway
    <3> QED
      BY <2>1, <2>3, <3>1, AwayKeeps
  <2>4. CASE ~TurnedAway(s, r)
    <3>1. /\ role \in Roles /\ r.status = "OK"
          /\ r.session =
               [role |-> role, phase |-> "Start",
                ctx |-> IF role = "initiator"
                        THEN BuildExporterContext(m, peer, channel)
                        ELSE BuildExporterContext(peer, m, channel),
                gx |-> IF role = "initiator" THEN created + 1 ELSE 0,
                gy |-> IF role = "responder" THEN created + 1 ELSE 0,
                as |-> Identity(own, "original")]
      <4>1. pointers # "null"
        BY <2>4 DEF TurnedAway, Refuse, Answer, Statuses
      <4> QED
        BY <2>4, <4>1, SessionInitCases
    <3> HIDE DEF r
    <3> QED
      BY <2>1, <2>2, <3>1 DEF Creates, Becomes, Reports, Returns
  <2> QED
    BY <2>3, <2>4
<1>2. ASSUME NEW buffer, NEW prepared, DoMakeMessage1(m, buffer, prepared)
      PROVE  Keeps(m) \/ Breaks(m) \/ Starts(m)
  <2> DEFINE r == MakeMessage1(s, buffer, prepared)
  <2>1. Returns(m, r) /\ Keep(r) /\ UNCHANGED <<created, done, exported>>
    BY <1>2 DEF DoMakeMessage1
  <2>2. \/ TurnedAway(s, r)
        \/ /\ s.role = "initiator" /\ s.phase = "Start"
           /\ \/ Ended("initiator", r)
              \/ r = Answer("OK", Moved(s, "WaitM2", s.gx, 0),
                            Body("m1", s.gx, 0, "nobody"))
    BY MakeM1Cases
  <2> HIDE DEF r
  <2>3. CASE TurnedAway(s, r)
    BY <2>1, <2>3, AwayKeeps
  <2>4. CASE s.role = "initiator" /\ s.phase = "Start" /\ Ended("initiator", r)
    BY <2>1, <2>4, EndBreaks
  <2>5. CASE /\ s.role = "initiator" /\ s.phase = "Start"
             /\ r = Answer("OK", Moved(s, "WaitM2", s.gx, 0),
                           Body("m1", s.gx, 0, "nobody"))
    BY <2>1, <2>5 DEF Starts, Becomes, Reports, Returns, Keep, Answer
  <2> QED
    BY <2>2, <2>3, <2>4, <2>5
<1>3. ASSUME NEW buffer, NEW body \in sent, DoProcessMessage1(m, buffer, body)
      PROVE  Keeps(m) \/ Breaks(m) \/ Replies(m)
  <2> DEFINE r == ProcessMessage1(s, buffer, body)
  <2>1. Returns(m, r) /\ Keep(r) /\ UNCHANGED <<created, done, exported>>
    BY <1>3 DEF DoProcessMessage1
  <2>2. \/ TurnedAway(s, r)
        \/ /\ s.role = "responder" /\ s.phase = "Start"
           /\ \/ Ended("responder", r)
              \/ r = Answer("OK", Moved(s, "WaitM3", body.gx, s.gy),
                            Body("m2", body.gx, s.gy, s.as))
    BY ProcessM1Cases
  <2> HIDE DEF r
  <2>3. CASE TurnedAway(s, r)
    BY <2>1, <2>3, AwayKeeps
  <2>4. CASE s.role = "responder" /\ s.phase = "Start" /\ Ended("responder", r)
    BY <2>1, <2>4, EndBreaks
  <2>5. CASE /\ s.role = "responder" /\ s.phase = "Start"
             /\ r = Answer("OK", Moved(s, "WaitM3", body.gx, s.gy),
                           Body("m2", body.gx, s.gy, s.as))
    BY <2>1, <2>5 DEF Replies, Becomes, Reports, Returns, Keep, Answer
  <2> QED
    BY <2>2, <2>3, <2>4, <2>5
<1>4. ASSUME NEW buffer, NEW body \in sent, DoProcessMessage2(m, buffer, body)
      PROVE  Keeps(m) \/ Breaks(m) \/ Completes(m)
  <2> DEFINE r == ProcessMessage2(s, buffer, body, "original")
  <2>1. /\ Returns(m, r) /\ Keep(r) /\ Complete(s, r)
        /\ UNCHANGED <<created, exported>>
    BY <1>4 DEF DoProcessMessage2
  <2>2. \/ TurnedAway(s, r)
        \/ /\ s.role = "initiator" /\ s.phase = "WaitM2"
           /\ \/ Ended("initiator", r)
              \/ /\ body.kind = "m2" /\ body.gx = s.gx
                 /\ r = Answer("OK", Moved(s, "Done", s.gx, body.gy),
                               Body("m3", s.gx, body.gy, s.as))
    BY ProcessM2Cases
  <2> HIDE DEF r
  <2>3. CASE TurnedAway(s, r)
    BY <2>1, <2>3, AwayKeeps
  <2>4. CASE s.role = "initiator" /\ s.phase = "WaitM2" /\ Ended("initiator", r)
    BY <2>1, <2>4, EndBreaks
  <2>5. CASE /\ s.role = "initiator" /\ s.phase = "WaitM2"
             /\ body.kind = "m2" /\ body.gx = s.gx
             /\ r = Answer("OK", Moved(s, "Done", s.gx, body.gy),
                           Body("m3", s.gx, body.gy, s.as))
    BY <2>1, <2>5 DEF Completes, Becomes, Reports, Returns, Keep, Answer, Complete,
                      Moved
  <2> QED
    BY <2>2, <2>3, <2>4, <2>5
<1>5. ASSUME NEW body \in sent, DoProcessMessage3(m, body)
      PROVE  Keeps(m) \/ Breaks(m) \/ Follows(m)
  <2> DEFINE r == ProcessMessage3(s, body, "original")
  <2>1. /\ Returns(m, r) /\ Complete(s, r)
        /\ UNCHANGED <<created, sent, exported>>
    BY <1>5 DEF DoProcessMessage3
  <2>2. \/ TurnedAway(s, r)
        \/ /\ s.role = "responder" /\ s.phase = "WaitM3"
           /\ \/ Ended("responder", r)
              \/ /\ body.kind = "m3" /\ body.gx = s.gx /\ body.gy = s.gy
                 /\ r = Answer("OK", Moved(s, "Done", s.gx, s.gy), NoBody)
    BY ProcessM3Cases
  <2> HIDE DEF r
  <2>3. CASE TurnedAway(s, r)
    BY <2>1, <2>3, AwayKeeps
  <2>4. CASE s.role = "responder" /\ s.phase = "WaitM3" /\ Ended("responder", r)
    BY <2>1, <2>4, EndBreaks
  <2>5. CASE /\ s.role = "responder" /\ s.phase = "WaitM3"
             /\ body.kind = "m3" /\ body.gx = s.gx /\ body.gy = s.gy
             /\ r = Answer("OK", Moved(s, "Done", s.gx, s.gy), NoBody)
    BY <2>1, <2>5 DEF Follows, Becomes, Reports, Returns, Answer, Complete, Moved
  <2> QED
    BY <2>2, <2>3, <2>4, <2>5
<1>6. ASSUME NEW buffer, DoExport(m, buffer) PROVE Keeps(m)
  <2> DEFINE status == ExportStatus(s, buffer)
  <2>1. /\ status \in Statuses \ {"PROTOCOL_ERROR"}
        /\ status = "OK" => s.phase = "Done"
    BY DEF ExportStatus, Statuses
  <2> HIDE DEF status
  <2>2. /\ last' = [mac |-> m, status |-> status]
        /\ exported' = exported \cup IF status = "OK"
             THEN {[role |-> s.role, lmk |-> ExportLmk(s)]} ELSE {}
        /\ UNCHANGED <<session, created, sent, done>>
    BY <1>6 DEF DoExport, status
  <2> QED
    BY <2>1, <2>2 DEF Keeps, Reports, Export
<1> QED
  BY <1>1, <1>2, <1>3, <1>4, <1>5, <1>6 DEF Acts

-----------------------------------------------------------------------------
(* Types. *)

\* Session::Empty is a session, and so is a failed one.
LEMMA EmptyType ==
  /\ EmptySession \in Sessions(Macs)
  /\ \A role \in Roles : ProtocolFailed(role).session \in Sessions(Macs)
  /\ NoBody \in Bodies
BY DEF EmptySession, ProtocolFailed, Answer, NoBody, Body, Bodies, Kinds, Sessions,
       PhasesOf, Phases, Roles, Identities, NoContext

\* A session in a phase of its role, and what it may have been moved to.
LEMMA SessionShape ==
  ASSUME NEW s \in Sessions(Macs)
  PROVE  /\ s.gx \in Nat /\ s.gy \in Nat /\ s.as \in Identities
         /\ s.role \in Roles \cup {"none"} /\ s.phase \in PhasesOf(s.role)
         /\ s.phase \notin {"Empty", "Failed"} =>
              \/ s.role = "initiator" /\ s.phase \in {"Start", "WaitM2", "Done"}
              \/ s.role = "responder" /\ s.phase \in {"Start", "WaitM3", "Done"}
         /\ s.ctx \in Contexts(Macs) \cup {NoContext}
BY DEF Sessions, PhasesOf, Roles

\* Moving a session within the phases of its role.
LEMMA MovedSession ==
  ASSUME NEW s \in Sessions(Macs), NEW phase \in PhasesOf(s.role),
         NEW gx \in Nat, NEW gy \in Nat
  PROVE  /\ Moved(s, phase, gx, gy) \in Sessions(Macs)
         /\ Moved(s, phase, gx, gy).role = s.role
         /\ Moved(s, phase, gx, gy).phase = phase
         /\ Moved(s, phase, gx, gy).ctx = s.ctx
         /\ Moved(s, phase, gx, gy).gx = gx
         /\ Moved(s, phase, gx, gy).gy = gy
BY DEF Moved, Sessions, PhasesOf, Phases

\* The messages are bodies.
LEMMA MessageBodies ==
  ASSUME NEW gx \in Nat, NEW gy \in Nat, NEW as \in Identities,
         NEW kind \in {"m1", "m2", "m3"}
  PROVE  Body(kind, gx, gy, as) \in Bodies
BY DEF Body, Bodies, Kinds

\* A new session is a session of its role in Start, and holds the key it drew.
LEMMA CreatedSession ==
  ASSUME TypeOK, NEW m \in Macs, Creates(m)
  PROVE  \E s \in Sessions(Macs) :
           /\ Becomes(m, s) /\ s.role \in Roles /\ s.phase = "Start"
           /\ OwnKey(s) = created + 1
           /\ s.role = "initiator" => s.ctx.init = m /\ s.ctx.resp \in Macs \ {m}
           /\ s.role = "responder" => s.ctx.resp = m /\ s.ctx.init \in Macs \ {m}
<1> DEFINE fresh == created + 1
<1>1. fresh \in Nat
  BY LakersSessionsAssumption DEF TypeOK
<1>2. PICK role \in Roles, peer \in Macs \ {m}, channel \in Channels, as \in Identities :
       Becomes(m, [role |-> role, phase |-> "Start",
                   ctx |-> IF role = "initiator"
                           THEN BuildExporterContext(m, peer, channel)
                           ELSE BuildExporterContext(peer, m, channel),
                   gx |-> IF role = "initiator" THEN fresh ELSE 0,
                   gy |-> IF role = "responder" THEN fresh ELSE 0,
                   as |-> as])
  BY DEF Creates
<1> DEFINE ctx == IF role = "initiator"
                  THEN BuildExporterContext(m, peer, channel)
                  ELSE BuildExporterContext(peer, m, channel)
           s == [role |-> role, phase |-> "Start", ctx |-> ctx,
                 gx |-> IF role = "initiator" THEN fresh ELSE 0,
                 gy |-> IF role = "responder" THEN fresh ELSE 0,
                 as |-> as]
<1>3. Becomes(m, s)
  BY <1>2
<1> HIDE DEF fresh
<1>4. channel \in Nat
  BY LakersSessionsAssumption
<1>5. /\ ctx \in Contexts(Macs)
      /\ role = "initiator" => ctx.init = m /\ ctx.resp = peer
      /\ role = "responder" => ctx.resp = m /\ ctx.init = peer
  BY <1>4 DEF BuildExporterContext, Contexts
<1> HIDE DEF ctx
<1>6. s \in Sessions(Macs)
  BY <1>1, <1>5 DEF Sessions, PhasesOf, Phases, Roles
<1>7. s.role = role /\ s.phase = "Start" /\ s.ctx = ctx
  OBVIOUS
<1>8. OwnKey(s) = fresh
  BY DEF OwnKey, Roles
<1> HIDE DEF s
<1> QED
  BY <1>3, <1>5, <1>6, <1>7, <1>8 DEF fresh

\* The cell of the board that is called changes, the others do not.
LEMMA Cells ==
  ASSUME TypeOK, NEW m \in Macs, NEW s, Becomes(m, s)
  PROVE  session'[m] = s /\ \A n \in Macs \ {m} : session'[n] = session[n]
BY DEF TypeOK, Becomes

\* What the other four steps make of the session, and that it is one.
LEMMA MovedSteps ==
  ASSUME TypeOK, NEW m \in Macs
  PROVE  LET s == session[m] IN
         /\ Starts(m) => /\ session' \in [Macs -> Sessions(Macs)] /\ sent' \subseteq Bodies
                         /\ session'[m] = Moved(s, "WaitM2", s.gx, 0)
         /\ Replies(m) => /\ session' \in [Macs -> Sessions(Macs)]
                          /\ sent' \subseteq Bodies
         /\ Completes(m) => /\ session' \in [Macs -> Sessions(Macs)]
                            /\ sent' \subseteq Bodies
                            /\ done' \subseteq [role : Roles, gx : Nat, gy : Nat]
         /\ Follows(m) => /\ session' \in [Macs -> Sessions(Macs)]
                          /\ done' \subseteq [role : Roles, gx : Nat, gy : Nat]
<1> DEFINE s == session[m]
<1>1. s \in Sessions(Macs) /\ s.gx \in Nat /\ s.gy \in Nat /\ s.as \in Identities
  BY SessionShape DEF TypeOK
<1>2. \A a \in sent : a.gx \in Nat /\ a.gy \in Nat
  BY DEF TypeOK, Bodies
<1>3. \A t \in Sessions(Macs) : Becomes(m, t) => session' \in [Macs -> Sessions(Macs)]
  BY DEF TypeOK, Becomes
<1>4. "nobody" \in Identities /\ "initiator" \in Roles /\ "responder" \in Roles
  BY DEF Identities, Roles
<1>5. sent \subseteq Bodies /\ done \subseteq [role : Roles, gx : Nat, gy : Nat]
  BY DEF TypeOK
<1> HIDE DEF s
<1>6. \A r \in Roles : \A x, y \in Nat :
        [role |-> r, gx |-> x, gy |-> y] \in [role : Roles, gx : Nat, gy : Nat]
  OBVIOUS
<1>7. ASSUME Starts(m)
      PROVE  /\ session' \in [Macs -> Sessions(Macs)] /\ sent' \subseteq Bodies
             /\ session'[m] = Moved(s, "WaitM2", s.gx, 0)
  <2>1. /\ s.role = "initiator" /\ Becomes(m, Moved(s, "WaitM2", s.gx, 0))
        /\ sent' = sent \cup {Body("m1", s.gx, 0, "nobody")}
    BY <1>7 DEF Starts, s
  <2>2. Moved(s, "WaitM2", s.gx, 0) \in Sessions(Macs)
    BY <1>1, <2>1, MovedSession DEF PhasesOf
  <2>3. Body("m1", s.gx, 0, "nobody") \in Bodies
    BY <1>1, <1>4, MessageBodies
  <2> QED
    BY <1>3, <1>5, <2>1, <2>2, <2>3, Cells
<1>8. ASSUME Replies(m)
      PROVE  session' \in [Macs -> Sessions(Macs)] /\ sent' \subseteq Bodies
  <2>1. PICK a \in sent : /\ Becomes(m, Moved(s, "WaitM3", a.gx, s.gy))
                          /\ sent' = sent \cup {Body("m2", a.gx, s.gy, s.as)}
    BY <1>8 DEF Replies, s
  <2>2. s.role = "responder"
    BY <1>8 DEF Replies, s
  <2>3. Moved(s, "WaitM3", a.gx, s.gy) \in Sessions(Macs)
    BY <1>1, <1>2, <2>2, MovedSession DEF PhasesOf
  <2>4. Body("m2", a.gx, s.gy, s.as) \in Bodies
    BY <1>1, <1>2, MessageBodies
  <2> QED
    BY <1>3, <1>5, <2>1, <2>3, <2>4
<1>9. ASSUME Completes(m)
      PROVE  /\ session' \in [Macs -> Sessions(Macs)] /\ sent' \subseteq Bodies
             /\ done' \subseteq [role : Roles, gx : Nat, gy : Nat]
  <2>1. PICK a \in sent :
          /\ Becomes(m, Moved(s, "Done", s.gx, a.gy))
          /\ sent' = sent \cup {Body("m3", s.gx, a.gy, s.as)}
          /\ done' = done \cup {[role |-> "initiator", gx |-> s.gx, gy |-> a.gy]}
    BY <1>9 DEF Completes, s
  <2>2. s.role = "initiator"
    BY <1>9 DEF Completes, s
  <2>3. Moved(s, "Done", s.gx, a.gy) \in Sessions(Macs)
    BY <1>1, <1>2, <2>2, MovedSession DEF PhasesOf
  <2>4. Body("m3", s.gx, a.gy, s.as) \in Bodies
    BY <1>1, <1>2, MessageBodies
  <2>5. [role |-> "initiator", gx |-> s.gx, gy |-> a.gy] \in [role : Roles, gx : Nat, gy : Nat]
    BY <1>1, <1>2, <1>4, <1>6
  <2> QED
    BY <1>3, <1>5, <2>1, <2>3, <2>4, <2>5
<1>10. ASSUME Follows(m)
       PROVE  /\ session' \in [Macs -> Sessions(Macs)]
              /\ done' \subseteq [role : Roles, gx : Nat, gy : Nat]
  <2>1. /\ s.role = "responder" /\ Becomes(m, Moved(s, "Done", s.gx, s.gy))
        /\ done' = done \cup {[role |-> "responder", gx |-> s.gx, gy |-> s.gy]}
    BY <1>10 DEF Follows, s
  <2>2. Moved(s, "Done", s.gx, s.gy) \in Sessions(Macs)
    BY <1>1, <2>1, MovedSession DEF PhasesOf
  <2>3. [role |-> "responder", gx |-> s.gx, gy |-> s.gy] \in [role : Roles, gx : Nat, gy : Nat]
    BY <1>1, <1>4, <1>6
  <2> QED
    BY <1>3, <1>5, <2>1, <2>2, <2>3
<1> QED
  BY <1>7, <1>8, <1>9, <1>10 DEF s

\* Types, of the variables that hold sessions and of the others.
LEMMA TypeStart == Init => Typed
BY EmptyType, LakersSessionsAssumption DEF Init, Typed, TypeOK, Statuses

LEMMA TypesStep == Typed /\ [Next]_vars => Typed'
<1> SUFFICES ASSUME TypeOK, NoBody \in sent, [Next]_vars PROVE TypeOK' /\ NoBody \in sent'
  BY DEF Typed
<1>1. CASE UNCHANGED vars
  BY <1>1 DEF vars, TypeOK
<1>2. CASE Next
  <2>1. PICK m \in Macs : Acts(m)
    BY <1>2, StepCases
  <2>2. /\ session \in [Macs -> Sessions(Macs)] /\ created \in Nat
        /\ created <= MaxSessions /\ MaxSessions \in Nat
        /\ sent \subseteq Bodies /\ done \subseteq [role : Roles, gx : Nat, gy : Nat]
        /\ exported \subseteq [role : Roles, lmk : Lmks(Macs)]
    BY LakersSessionsAssumption DEF TypeOK
  <2>3. last' \in [mac : Macs, status : Statuses]
    <3>1. \E statuses : Reports(m, statuses) /\ statuses \subseteq Statuses
      BY <2>1 DEF Acts, Keeps, Breaks, Creates, Starts, Replies, Completes, Follows, Statuses
    <3> QED
      BY <3>1 DEF Reports
  <2>4. created' \in 0 .. MaxSessions
    BY <2>1, <2>2
       DEF Acts, Keeps, Breaks, Creates, Starts, Replies, Completes, Follows, TypeOK
  <2>5. session' \in [Macs -> Sessions(Macs)]
    <3>1. CASE Keeps(m)
      BY <2>2, <3>1 DEF Keeps
    <3>2. CASE Breaks(m)
      <4>1. session[m].role \in Roles
        BY <2>2, <3>2, SessionShape DEF Breaks, PhasesOf, Roles
      <4> QED
        BY <2>2, <3>2, <4>1, EmptyType DEF Breaks, Becomes
    <3>3. CASE Creates(m)
      BY <2>2, <3>3, CreatedSession DEF Becomes
    <3> QED
      BY <2>1, <3>1, <3>2, <3>3, MovedSteps DEF Acts
  <2>6. sent' \subseteq Bodies /\ NoBody \in sent'
    <3>1. sent \subseteq sent'
      BY <2>1 DEF Acts, Keeps, Breaks, Creates, Starts, Replies, Completes, Follows
    <3>2. sent' \subseteq Bodies
      BY <2>1, <2>2, MovedSteps DEF Acts, Keeps, Breaks, Creates, Follows
    <3> QED
      BY <3>1, <3>2
  <2>7. done' \subseteq [role : Roles, gx : Nat, gy : Nat]
    BY <2>1, <2>2, MovedSteps DEF Acts, Keeps, Breaks, Creates, Starts, Replies
  <2>8. exported' \subseteq [role : Roles, lmk : Lmks(Macs)]
    <3>1. session[m].phase = "Done" => Export(session[m]) \in [role : Roles, lmk : Lmks(Macs)]
      BY <2>2 DEF Export, ExportLmk, Lmks, Sessions, PhasesOf, Roles
    <3> QED
      BY <2>1, <2>2, <3>1
         DEF Acts, Keeps, Breaks, Creates, Starts, Replies, Completes, Follows
  <2> QED
    BY <2>3, <2>4, <2>5, <2>6, <2>7, <2>8 DEF TypeOK
<1> QED
  BY <1>1, <1>2

-----------------------------------------------------------------------------
(* What a call may do to the session it is made on. *)

\* Types hold under any caller.
LEMMA TypedAlways == Spec => []Typed
BY TypeStart, TypesStep, PTL DEF Spec

\* Every variable has its type, whatever is called in whatever order.
THEOREM CallerTypes == Spec => []TypeOK
<1>1. Typed => TypeOK
  BY DEF Typed
<1> QED
  BY <1>1, TypedAlways, PTL

\* A call that fails other than by a protocol error changes no session, and a
\* protocol error ends the session of the board that made the call, which was
\* under way, keeping its role and nothing else, and changes no other session.
THEOREM FailuresKeepOrKill == Spec => FailedCallsKeepOrKill
<1> DEFINE Kept == last'.status \notin {"OK", "PROTOCOL_ERROR"} => session' = session
           Ends == last'.status = "PROTOCOL_ERROR" =>
                     /\ Killed(session[last'.mac], session'[last'.mac])
                     /\ \A n \in Macs \ {last'.mac} : session'[n] = session[n]
<1>1. Typed /\ [Next]_vars => [Kept /\ Ends]_vars
  <2> SUFFICES ASSUME TypeOK, NoBody \in sent, Next PROVE Kept /\ Ends
    BY DEF Typed
  <2>1. PICK m \in Macs : Acts(m)
    BY StepCases
  <2>2. CASE Keeps(m)
    BY <2>2 DEF Keeps, Reports
  <2>3. CASE Breaks(m)
    <3>1. last'.mac = m /\ last'.status = "PROTOCOL_ERROR"
      BY <2>3 DEF Breaks, Reports
    <3> DEFINE t == ProtocolFailed(session[m].role).session
    <3>2. Killed(session[m], t)
      BY <2>3 DEF Killed, Breaks, ProtocolFailed, Answer
    <3>3. Becomes(m, t)
      BY <2>3 DEF Breaks
    <3> HIDE DEF t
    <3>4. session'[m] = t /\ \A n \in Macs \ {m} : session'[n] = session[n]
      BY <3>3, Cells
    <3> QED
      BY <3>1, <3>2, <3>4
  <2>4. CASE Reports(m, {"OK"})
    BY <2>4 DEF Reports
  <2> QED
    BY <2>1, <2>2, <2>3, <2>4
       DEF Acts, Creates, Starts, Replies, Completes, Follows
<1> QED
  BY <1>1, TypedAlways, PTL DEF Spec, FailedCallsKeepOrKill

\* Sessions move along their phases only.
THEOREM SessionsInOrder == Spec => PhasesInOrder
<1> DEFINE Ordered ==
      \A m \in Macs : session'[m] # session[m] => PhaseStep(session[m], session'[m])
<1>1. Typed /\ [Next]_vars => [Ordered]_vars
  <2> SUFFICES ASSUME TypeOK, NoBody \in sent, Next PROVE Ordered
    BY DEF Typed
  <2>1. PICK m \in Macs : Acts(m)
    BY StepCases
  <2>2. ASSUME NEW t, Becomes(m, t), PhaseStep(session[m], t) PROVE Ordered
    BY <2>2, Cells
  <2> HIDE DEF Ordered
  <2>3. CASE Keeps(m)
    BY <2>3 DEF Keeps, Ordered
  <2>4. CASE Breaks(m)
    <3> DEFINE t == ProtocolFailed(session[m].role).session
    <3>1. t.role = session[m].role /\ t.phase = "Failed" /\ t.ctx = NoContext
      BY DEF ProtocolFailed, Answer
    <3>2. Becomes(m, t) /\ PhaseStep(session[m], t)
      BY <2>4, <3>1 DEF Breaks, PhaseStep
    <3> QED
      BY <2>2, <3>2
  <2>5. CASE Creates(m)
    BY <2>2, <2>5, CreatedSession DEF PhaseStep
  <2>6. ASSUME NEW phase, NEW gx, NEW gy, Becomes(m, Moved(session[m], phase, gx, gy)),
               <<session[m].phase, phase>> \in
                 {<<"Start", "WaitM2">>, <<"Start", "WaitM3">>, <<"WaitM2", "Done">>,
                  <<"WaitM3", "Done">>}
        PROVE  Ordered
    <3>1. PhaseStep(session[m], Moved(session[m], phase, gx, gy))
      BY <2>6 DEF PhaseStep, Moved
    <3> QED
      BY <2>2, <2>6, <3>1
  <2>7. CASE Starts(m)
    BY <2>6, <2>7 DEF Starts
  <2>8. CASE Replies(m)
    BY <2>6, <2>8 DEF Replies
  <2>9. CASE Completes(m)
    BY <2>6, <2>9 DEF Completes
  <2>10. CASE Follows(m)
    BY <2>6, <2>10 DEF Follows
  <2> QED
    BY <2>1, <2>3, <2>4, <2>5, <2>7, <2>8, <2>9, <2>10 DEF Acts
<1> QED
  BY <1>1, TypedAlways, PTL DEF Spec, PhasesInOrder

-----------------------------------------------------------------------------
(* Ephemeral keys. *)

\* A session that stays alive keeps its role, its context and its own key.
CellKept(m) ==
  LET s == session[m]
      t == session'[m]
  IN /\ Live(m) /\ t.role = s.role /\ t.ctx = s.ctx /\ OwnKey(t) = OwnKey(s)
     /\ t.phase = "Start" => s.phase = "Start"
     /\ t.phase # "Done" => s.phase # "Done"

\* What a call makes of the cells.
LEMMA CellStep ==
  ASSUME TypeOK, NEW m \in Macs, Acts(m)
  PROVE  /\ \A n \in Macs \ {m} : session'[n] = session[n]
         /\ \/ session'[m].phase \in {"Empty", "Failed"} /\ created' = created
            \/ CellKept(m) /\ created' = created
            \/ /\ created' = created + 1 /\ Creates(m)
               /\ session'[m].role \in Roles /\ session'[m].phase = "Start"
               /\ OwnKey(session'[m]) = created + 1
<1> DEFINE s == session[m]
<1>1. s \in Sessions(Macs)
  BY DEF TypeOK
<1>2. CASE Keeps(m)
  <2>1. s.phase \in {"Empty", "Failed"} \/ CellKept(m)
    BY <1>2 DEF Keeps, CellKept, Live
  <2> QED
    BY <1>2, <2>1 DEF Keeps
<1>3. CASE Breaks(m)
  <2>1. ProtocolFailed(s.role).session.phase = "Failed"
    BY DEF ProtocolFailed, Answer
  <2> QED
    BY <1>3, <2>1, Cells DEF Breaks
<1>4. CASE Creates(m)
  <2>1. PICK t \in Sessions(Macs) :
          /\ Becomes(m, t) /\ t.role \in Roles /\ t.phase = "Start"
          /\ OwnKey(t) = created + 1
    BY <1>4, CreatedSession
  <2>2. session'[m] = t /\ \A n \in Macs \ {m} : session'[n] = session[n]
    BY <2>1, Cells
  <2>3. created' = created + 1
    BY <1>4 DEF Creates
  <2> QED
    BY <1>4, <2>1, <2>2, <2>3
<1>5. ASSUME NEW phase, NEW gx, NEW gy, Becomes(m, Moved(s, phase, gx, gy)),
             s.phase \in {"Start", "WaitM2", "WaitM3"},
             phase \in {"WaitM2", "WaitM3", "Done"},
             \/ s.role = "initiator" /\ gx = s.gx
             \/ s.role = "responder" /\ gy = s.gy
      PROVE  CellKept(m) /\ \A n \in Macs \ {m} : session'[n] = session[n]
  <2> DEFINE t == Moved(s, phase, gx, gy)
  <2>1. t.role = s.role /\ t.ctx = s.ctx /\ t.phase = phase /\ t.gx = gx /\ t.gy = gy
    BY DEF Moved
  <2> HIDE DEF t
  <2>2. OwnKey(t) = OwnKey(s)
    BY <1>5, <2>1 DEF OwnKey
  <2>3. session'[m] = t /\ \A n \in Macs \ {m} : session'[n] = session[n]
    BY <1>5, Cells DEF t
  <2> QED
    BY <1>5, <2>1, <2>2, <2>3 DEF CellKept, Live
<1>6. CASE Starts(m)
  BY <1>5, <1>6 DEF Starts
<1>7. CASE Replies(m)
  BY <1>5, <1>7 DEF Replies
<1>8. CASE Completes(m)
  BY <1>5, <1>8 DEF Completes
<1>9. CASE Follows(m)
  BY <1>5, <1>9 DEF Follows
<1> QED
  BY <1>2, <1>3, <1>4, <1>6, <1>7, <1>8, <1>9 DEF Acts

\* Which calls add to what was sent and completed, and what they add.
LEMMA Additions ==
  ASSUME NEW m \in Macs, Acts(m)
  PROVE  LET s == session[m] IN
         /\ sent \subseteq sent' /\ done \subseteq done'
         /\ \A a \in sent' \ sent :
              \/ a.kind = "m1"
              \/ Replies(m) /\ a.kind = "m2" /\ a.gy = s.gy /\ sent' = sent \cup {a}
              \/ /\ Completes(m) /\ a.kind = "m3"
                 /\ [role |-> "initiator", gx |-> a.gx, gy |-> a.gy] \in done'
         /\ \A d \in done' \ done :
              \/ /\ Completes(m) /\ d.role = "initiator" /\ OwnKey(d) = s.gx
              \/ /\ Follows(m) /\ d = [role |-> "responder", gx |-> s.gx, gy |-> s.gy]
                 /\ \E a \in sent : a.kind = "m3" /\ a.gx = s.gx /\ a.gy = s.gy
<1> DEFINE s == session[m]
<1>1. CASE Keeps(m) \/ Breaks(m) \/ Creates(m)
  BY <1>1 DEF Keeps, Breaks, Creates
<1>2. CASE Starts(m)
  BY <1>2 DEF Starts, Body
<1>3. CASE Replies(m)
  BY <1>3 DEF Replies, Body
<1>4. CASE Completes(m)
  <2>1. PICK a \in sent :
          /\ sent' = sent \cup {Body("m3", s.gx, a.gy, s.as)}
          /\ done' = done \cup {[role |-> "initiator", gx |-> s.gx, gy |-> a.gy]}
    BY <1>4 DEF Completes
  <2> DEFINE c == Body("m3", s.gx, a.gy, s.as)
             d == [role |-> "initiator", gx |-> s.gx, gy |-> a.gy]
  <2>2. c.kind = "m3" /\ c.gx = s.gx /\ c.gy = a.gy
    BY DEF Body
  <2>3. d.role = "initiator" /\ OwnKey(d) = s.gx
    BY DEF OwnKey
  <2>4. [role |-> "initiator", gx |-> c.gx, gy |-> c.gy] \in done'
    BY <2>1, <2>2
  <2> HIDE DEF c
  <2>5. sent' = sent \cup {c} /\ done' = done \cup {d}
    BY <2>1 DEF c
  <2> HIDE DEF d
  <2> QED
    BY <1>4, <2>2, <2>3, <2>4, <2>5
<1>5. CASE Follows(m)
  BY <1>5 DEF Follows
<1> QED
  BY <1>1, <1>2, <1>3, <1>4, <1>5 DEF Acts

\* Before the first call nothing has been drawn or sent.
LEMMA AnswerStart == Init => AnswerInv
BY DEF Init, AnswerInv, KeysDrawn, ContextShape, M2Drawn, OneAnswerPerEphemeral, M3Done,
       DoneDrawn, ResponderFollowsInitiator, Live, EmptySession, NoBody, Body

\* Keys of live sessions stay apart.
LEMMA KeysDrawnStep ==
  ASSUME TypeOK, KeysDrawn, NEW m \in Macs, Acts(m)
  PROVE  KeysDrawn'
<1>1. created \in Nat
  BY LakersSessionsAssumption DEF TypeOK
<1>2. /\ \A n \in Macs \ {m} : session'[n] = session[n]
      /\ \/ session'[m].phase \in {"Empty", "Failed"} /\ created' = created
         \/ CellKept(m) /\ created' = created
         \/ created' = created + 1 /\ OwnKey(session'[m]) = created + 1
  BY CellStep
<1>3. \A n \in Macs : Live(n) => OwnKey(session[n]) \in 1 .. created
  BY DEF KeysDrawn
<1>4. CASE session'[m].phase \in {"Empty", "Failed"} /\ created' = created
  BY <1>2, <1>4 DEF KeysDrawn, Live
<1>5. CASE CellKept(m) /\ created' = created
  BY <1>2, <1>5 DEF KeysDrawn, Live, CellKept
<1>6. CASE created' = created + 1 /\ OwnKey(session'[m]) = created + 1
  <2>1. \A n \in Macs \ {m} : Live(n)' => Live(n) /\ OwnKey(session'[n]) = OwnKey(session[n])
    BY <1>2 DEF Live
  <2>2. \A n \in Macs : Live(n) => /\ OwnKey(session[n]) \in 1 .. created'
                                   /\ OwnKey(session[n]) # created + 1
    BY <1>1, <1>3, <1>6
  <2>3. OwnKey(session'[m]) \in 1 .. created'
    BY <1>1, <1>6
  <2> QED
    BY <1>6, <2>1, <2>2, <2>3 DEF KeysDrawn
<1> QED
  BY <1>2, <1>4, <1>5, <1>6

\* Contexts keep naming the board they are on.
LEMMA ContextStep ==
  ASSUME TypeOK, ContextShape, NEW m \in Macs, Acts(m)
  PROVE  ContextShape'
<1>1. CASE Creates(m)
  BY <1>1, CreatedSession, Cells DEF ContextShape, Live
<1>2. CASE ~Creates(m)
  <2>1. /\ \A n \in Macs \ {m} : session'[n] = session[n]
        /\ session'[m].phase \in {"Empty", "Failed"} \/ CellKept(m)
    BY <1>2, CellStep
  <2> QED
    BY <2>1 DEF ContextShape, Live, CellKept
<1> QED
  BY <1>1, <1>2

\* Message_2 takes a key out of Start.
LEMMA M2Step ==
  ASSUME TypeOK, KeysDrawn, M2Drawn, OneAnswerPerEphemeral, NEW m \in Macs, Acts(m)
  PROVE  M2Drawn' /\ OneAnswerPerEphemeral'
<1> DEFINE s == session[m]
<1>1. created \in Nat
  BY LakersSessionsAssumption DEF TypeOK
<1>2. /\ \A n \in Macs \ {m} : session'[n] = session[n]
      /\ \/ session'[m].phase \in {"Empty", "Failed"} /\ created' = created
         \/ CellKept(m) /\ created' = created
         \/ created' = created + 1 /\ OwnKey(session'[m]) = created + 1
  BY CellStep
<1>3. \A a \in sent' : a.kind = "m2" =>
        a \in sent \/ (Replies(m) /\ a.gy = s.gy /\ sent' = sent \cup {a})
  BY Additions
<1>4. created' \in Nat /\ created <= created'
  BY <1>1, <1>2
<1>5. \A n \in Macs : session[n].role = "responder" => OwnKey(session[n]) = session[n].gy
  BY DEF OwnKey
<1>6. ASSUME NEW a \in sent, a.kind = "m2",
             NEW n \in Macs, session'[n].role = "responder", session'[n].phase = "Start"
      PROVE  a.gy # session'[n].gy
  <2>1. a.gy \in 1 .. created
    BY <1>6 DEF M2Drawn
  <2>2. CASE n # m
    BY <1>2, <1>6, <2>2 DEF M2Drawn
  <2>3. CASE n = m /\ created' = created + 1 /\ OwnKey(session'[m]) = created + 1
    <3>1. session'[n].gy = created + 1
      BY <1>6, <2>3 DEF OwnKey
    <3> QED
      BY <1>1, <2>1, <3>1
  <2>4. CASE n = m /\ CellKept(m)
    <3>1. /\ session[n].role = "responder" /\ session[n].phase = "Start"
          /\ session'[n].gy = session[n].gy
      BY <1>6, <2>4 DEF CellKept, OwnKey
    <3> QED
      BY <1>6, <3>1 DEF M2Drawn
  <2> QED
    BY <1>2, <1>6, <2>2, <2>3, <2>4
<1>7. \A a \in sent : a.kind = "m2" => a.gy \in 1 .. created'
  BY <1>1, <1>4 DEF M2Drawn
<1>8. CASE ~Replies(m)
  <2>1. \A a \in sent' : a.kind = "m2" => a \in sent
    BY <1>3, <1>8
  <2>2. M2Drawn'
    BY <1>6, <1>7, <2>1 DEF M2Drawn
  <2> QED
    BY <2>1, <2>2 DEF OneAnswerPerEphemeral
<1>9. CASE Replies(m)
  <2>1. /\ s.role = "responder" /\ s.phase = "Start" /\ created' = created
        /\ session'[m].phase = "WaitM3"
    <3>1. \E gx : Becomes(m, Moved(s, "WaitM3", gx, s.gy))
      BY <1>9 DEF Replies
    <3>2. session'[m].phase = "WaitM3"
      BY <3>1, Cells DEF Moved
    <3> QED
      BY <1>9, <3>2 DEF Replies
  <2>2. s.gy \in 1 .. created
    BY <1>5, <2>1 DEF KeysDrawn, Live
  <2>3. \A n \in Macs : session'[n].role = "responder" /\ session'[n].phase = "Start" =>
          s.gy # session'[n].gy
    BY <1>2, <1>5, <2>1 DEF KeysDrawn, Live
  <2>4. M2Drawn'
    BY <1>3, <1>6, <1>7, <2>1, <2>2, <2>3 DEF M2Drawn
  <2>5. \A a \in sent : a.kind = "m2" => a.gy # s.gy
    BY <2>1 DEF M2Drawn
  <2>6. OneAnswerPerEphemeral'
    BY <1>3, <2>5 DEF OneAnswerPerEphemeral
  <2> QED
    BY <2>4, <2>6
<1> QED
  BY <1>8, <1>9

\* A run is completed once on each side, by the initiator first.
LEMMA DoneStep ==
  ASSUME TypeOK, KeysDrawn, M3Done, DoneDrawn, ResponderFollowsInitiator,
         NEW m \in Macs, Acts(m)
  PROVE  M3Done' /\ DoneDrawn' /\ ResponderFollowsInitiator'
<1> DEFINE s == session[m]
<1>1. created \in Nat
  BY LakersSessionsAssumption DEF TypeOK
<1>2. /\ \A n \in Macs \ {m} : session'[n] = session[n]
      /\ \/ session'[m].phase \in {"Empty", "Failed"} /\ created' = created
         \/ CellKept(m) /\ created' = created
         \/ created' = created + 1 /\ OwnKey(session'[m]) = created + 1
  BY CellStep
<1>3. created' \in Nat /\ created <= created'
  BY <1>1, <1>2
<1>4. /\ done \subseteq done'
      /\ \A a \in sent' : a.kind = "m3" =>
           a \in sent \/ [role |-> "initiator", gx |-> a.gx, gy |-> a.gy] \in done'
  BY Additions
<1>5. M3Done'
  BY <1>4 DEF M3Done
<1>6. \A d \in done' \ done :
        /\ OwnKey(d) = OwnKey(s) /\ Live(m) /\ session'[m].phase = "Done"
        /\ created' = created
  <2> SUFFICES ASSUME NEW d \in done' \ done
               PROVE  /\ OwnKey(d) = OwnKey(s) /\ Live(m)
                      /\ session'[m].phase = "Done" /\ created' = created
    OBVIOUS
  <2>1. CASE Completes(m) /\ d.role = "initiator" /\ OwnKey(d) = s.gx
    <3>1. \E gy : Becomes(m, Moved(s, "Done", s.gx, gy))
      BY <2>1 DEF Completes
    <3>2. session'[m].phase = "Done"
      BY <3>1, Cells DEF Moved
    <3> QED
      BY <2>1, <3>2 DEF Completes, Live, OwnKey
  <2>2. CASE Follows(m) /\ d = [role |-> "responder", gx |-> s.gx, gy |-> s.gy]
    <3>1. Becomes(m, Moved(s, "Done", s.gx, s.gy))
      BY <2>2 DEF Follows
    <3>2. session'[m].phase = "Done"
      BY <3>1, Cells DEF Moved
    <3> QED
      BY <2>2, <3>2 DEF Follows, Live, OwnKey
  <2> QED
    BY <2>1, <2>2, Additions
<1>7. ASSUME NEW d \in done, NEW n \in Macs, session'[n].role = d.role,
             session'[n].phase \in {"Start", "WaitM2", "WaitM3"}
      PROVE  OwnKey(d) # OwnKey(session'[n])
  <2>1. OwnKey(d) \in 1 .. created
    BY DEF DoneDrawn
  <2>2. CASE n # m
    BY <1>2, <1>7, <2>2 DEF DoneDrawn
  <2>3. CASE n = m /\ created' = created + 1 /\ OwnKey(session'[m]) = created + 1
    BY <1>1, <2>1, <2>3
  <2>4. CASE n = m /\ CellKept(m)
    <3>1. /\ session[n].role = d.role /\ OwnKey(session'[n]) = OwnKey(session[n])
          /\ session[n].phase \in {"Start", "WaitM2", "WaitM3"}
      <4>1. session[n] \in Sessions(Macs)
        BY DEF TypeOK
      <4> QED
        BY <1>7, <2>4, <4>1 DEF CellKept, Live, Sessions, Phases
    <3> QED
      BY <1>7, <3>1 DEF DoneDrawn
  <2> QED
    BY <1>2, <1>7, <2>2, <2>3, <2>4
<1>8. ASSUME NEW d \in done' \ done, NEW n \in Macs,
             session'[n].phase \in {"Start", "WaitM2", "WaitM3"}
      PROVE  OwnKey(d) # OwnKey(session'[n])
  BY <1>2, <1>6, <1>8 DEF KeysDrawn, Live
<1>9. \A d \in done' : OwnKey(d) \in 1 .. created'
  <2>1. \A d \in done : OwnKey(d) \in 1 .. created'
    BY <1>1, <1>3 DEF DoneDrawn
  <2>2. \A d \in done' \ done : OwnKey(d) \in 1 .. created'
    BY <1>6 DEF KeysDrawn
  <2> QED
    BY <2>1, <2>2
<1>10. DoneDrawn'
  BY <1>7, <1>8, <1>9 DEF DoneDrawn
<1>11. ResponderFollowsInitiator'
  <2> SUFFICES ASSUME NEW d \in done', d.role = "responder"
               PROVE  [d EXCEPT !.role = "initiator"] \in done'
    BY DEF ResponderFollowsInitiator
  <2>1. CASE d \in done
    BY <1>4, <2>1 DEF ResponderFollowsInitiator
  <2>2. CASE d \notin done
    <3>1. /\ d = [role |-> "responder", gx |-> s.gx, gy |-> s.gy]
          /\ \E a \in sent : a.kind = "m3" /\ a.gx = s.gx /\ a.gy = s.gy
      BY <2>2, Additions
    <3>2. [d EXCEPT !.role = "initiator"] = [role |-> "initiator", gx |-> s.gx, gy |-> s.gy]
      BY <3>1
    <3> QED
      BY <1>4, <3>1, <3>2 DEF M3Done
  <2> QED
    BY <2>1, <2>2
<1> QED
  BY <1>5, <1>10, <1>11

\* Every call keeps the invariant.
LEMMA AnswerStep == Typed /\ AnswerInv /\ [Next]_vars => AnswerInv'
<1> SUFFICES ASSUME Typed, AnswerInv, [Next]_vars PROVE AnswerInv'
  OBVIOUS
<1>1. CASE UNCHANGED vars
  BY <1>1 DEF vars, AnswerInv, KeysDrawn, ContextShape, M2Drawn, OneAnswerPerEphemeral,
              M3Done, DoneDrawn, ResponderFollowsInitiator, Live
<1>2. CASE Next
  <2>1. TypeOK /\ \E m \in Macs : Acts(m)
    BY <1>2, StepCases DEF Typed
  <2> QED
    BY <2>1, KeysDrawnStep, ContextStep, M2Step, DoneStep DEF AnswerInv
<1> QED
  BY <1>1, <1>2

-----------------------------------------------------------------------------
(* Exports. *)

\* What an export holds.
LEMMA ExportFields ==
  ASSUME NEW s
  PROVE  /\ Export(s).role = s.role /\ Export(s).lmk.gx = s.gx /\ Export(s).lmk.gy = s.gy
         /\ Export(s).lmk.ctx = s.ctx /\ ~Export(s).lmk.flipped
BY DEF Export, ExportLmk

\* Only a completed run adds to what may be exported, and it adds itself.
LEMMA NewExport ==
  ASSUME TypeOK, NEW m \in Macs, Acts(m)
  PROVE  /\ ~Completes(m) /\ ~Follows(m) => Exports' \subseteq Exports
         /\ Completes(m) \/ Follows(m) =>
              Exports' \subseteq Exports \cup {Export(session'[m])}
<1>1. \A n \in Macs \ {m} : session'[n] = session[n]
  BY CellStep
<1>2. \A n \in Macs : session[n].phase = "Done" => Export(session[n]) \in Exports
  BY DEF Exports
<1>3. exported \subseteq Exports
  BY DEF Exports
<1>4. exported' \subseteq Exports
  BY <1>2, <1>3 DEF Acts, Keeps, Breaks, Creates, Starts, Replies, Completes, Follows
<1>5. \A e \in Exports' :
        \/ e \in exported'
        \/ \E n \in Macs : session'[n].phase = "Done" /\ e = Export(session'[n])
  BY DEF Exports
<1>6. \A n \in Macs \ {m} : session'[n].phase = "Done" => Export(session'[n]) \in Exports
  BY <1>1, <1>2
<1>7. Exports' \subseteq Exports \cup {Export(session'[m])}
  BY <1>4, <1>5, <1>6
<1>8. ASSUME ~Completes(m), ~Follows(m), session'[m].phase = "Done"
      PROVE  session'[m] = session[m]
  <2>1. CASE Keeps(m)
    BY <2>1 DEF Keeps
  <2>2. CASE Breaks(m)
    BY <1>8, <2>2, Cells DEF Breaks, ProtocolFailed, Answer
  <2>3. CASE Creates(m)
    <3>1. session'[m].phase = "Start"
      BY <2>3, CellStep DEF CellKept, Creates, Becomes, TypeOK
    <3> QED
      BY <1>8, <3>1
  <2>4. CASE Starts(m)
    BY <1>8, <2>4, Cells DEF Starts, Moved
  <2>5. CASE Replies(m)
    <3>1. \E gx : Becomes(m, Moved(session[m], "WaitM3", gx, session[m].gy))
      BY <2>5 DEF Replies
    <3> QED
      BY <1>8, <3>1, Cells DEF Moved
  <2> QED
    BY <1>8, <2>1, <2>2, <2>3, <2>4, <2>5 DEF Acts
<1>9. ~Completes(m) /\ ~Follows(m) => Exports' \subseteq Exports
  BY <1>2, <1>4, <1>5, <1>6, <1>8
<1> QED
  BY <1>7, <1>9

\* What an initiator that completes exports.
LEMMA CompletesExport ==
  ASSUME TypeOK, ContextShape, NEW m \in Macs, Completes(m)
  PROVE  LET e == Export(session'[m])
             s == session[m]
         IN /\ e.role = "initiator" /\ session'[m].role = "initiator"
            /\ e.lmk.gx = s.gx /\ ~e.lmk.flipped
            /\ e.lmk.ctx.init = m /\ e.lmk.ctx.resp \in Macs \ {m}
            /\ [role |-> "initiator", gx |-> e.lmk.gx, gy |-> e.lmk.gy] \in done'
            /\ \E a \in sent' : a.kind = "m2" /\ a.gx = e.lmk.gx /\ a.gy = e.lmk.gy
<1> DEFINE s == session[m]
<1>1. s.role = "initiator" /\ s.phase = "WaitM2"
  BY DEF Completes
<1>2. PICK a \in sent :
        /\ a.kind = "m2" /\ a.gx = s.gx
        /\ Becomes(m, Moved(s, "Done", s.gx, a.gy))
        /\ sent' = sent \cup {Body("m3", s.gx, a.gy, s.as)}
        /\ done' = done \cup {[role |-> "initiator", gx |-> s.gx, gy |-> a.gy]}
  BY DEF Completes
<1>3. s.ctx.init = m /\ s.ctx.resp \in Macs \ {m}
  BY <1>1 DEF ContextShape, Live
<1> HIDE DEF s
<1> DEFINE t == Moved(s, "Done", s.gx, a.gy)
<1>4. t.role = s.role /\ t.gx = s.gx /\ t.gy = a.gy /\ t.ctx = s.ctx
  BY DEF Moved
<1>5. session'[m] = t
  BY <1>2, Cells
<1> HIDE DEF t
<1>6. /\ Export(t).role = t.role /\ Export(t).lmk.gx = t.gx /\ Export(t).lmk.gy = t.gy
      /\ Export(t).lmk.ctx = t.ctx /\ ~Export(t).lmk.flipped
  BY ExportFields
<1>7. a \in sent' /\ [role |-> "initiator", gx |-> s.gx, gy |-> a.gy] \in done'
  BY <1>2
<1> QED
  BY <1>1, <1>2, <1>3, <1>4, <1>5, <1>6, <1>7 DEF s

\* What a responder that completes exports.
LEMMA FollowsExport ==
  ASSUME TypeOK, ContextShape, NEW m \in Macs, Follows(m)
  PROVE  LET e == Export(session'[m])
             s == session[m]
         IN /\ e.role = "responder" /\ s.role = "responder" /\ s.phase = "WaitM3"
            /\ session'[m].gx = s.gx /\ session'[m].gy = s.gy
            /\ e.lmk.gx = s.gx /\ e.lmk.gy = s.gy /\ ~e.lmk.flipped
            /\ e.lmk.ctx.resp = m /\ e.lmk.ctx.init \in Macs \ {m}
            /\ [role |-> "responder", gx |-> e.lmk.gx, gy |-> e.lmk.gy] \in done'
<1> DEFINE s == session[m]
<1>1. /\ s.role = "responder" /\ s.phase = "WaitM3"
      /\ Becomes(m, Moved(s, "Done", s.gx, s.gy))
      /\ done' = done \cup {[role |-> "responder", gx |-> s.gx, gy |-> s.gy]}
  BY DEF Follows
<1>2. s.ctx.resp = m /\ s.ctx.init \in Macs \ {m}
  BY <1>1 DEF ContextShape, Live
<1> HIDE DEF s
<1> DEFINE t == Moved(s, "Done", s.gx, s.gy)
<1>3. t.role = s.role /\ t.gx = s.gx /\ t.gy = s.gy /\ t.ctx = s.ctx
  BY DEF Moved
<1>4. session'[m] = t
  BY <1>1, Cells
<1> HIDE DEF t
<1>5. /\ Export(t).role = t.role /\ Export(t).lmk.gx = t.gx /\ Export(t).lmk.gy = t.gy
      /\ Export(t).lmk.ctx = t.ctx /\ ~Export(t).lmk.flipped
  BY ExportFields
<1>6. [role |-> "responder", gx |-> s.gx, gy |-> s.gy] \in done'
  BY <1>1
<1> QED
  BY <1>1, <1>2, <1>3, <1>4, <1>5, <1>6 DEF s

\* Before the first call nothing can be exported.
LEMMA ExportStart == Init => ExportInv /\ SameBoards
<1>1. Init => Exports = {}
  BY DEF Init, Exports, EmptySession
<1> QED
  BY <1>1 DEF ExportInv, ExportsDone, Apart, SameBoards

\* Exports keep belonging to completed runs.
LEMMA ExportsDoneStep ==
  ASSUME TypeOK, ContextShape, ExportsDone, NEW m \in Macs, Acts(m)
  PROVE  ExportsDone'
<1>1. sent \subseteq sent' /\ done \subseteq done'
  BY Additions
<1>2. \A e \in Exports :
        /\ [role |-> e.role, gx |-> e.lmk.gx, gy |-> e.lmk.gy] \in done'
        /\ e.role = "initiator" =>
             \E a \in sent' : a.kind = "m2" /\ a.gx = e.lmk.gx /\ a.gy = e.lmk.gy
        /\ e.lmk.ctx.init \in Macs /\ e.lmk.ctx.resp \in Macs \ {e.lmk.ctx.init}
        /\ ~e.lmk.flipped
  BY <1>1 DEF ExportsDone
<1> DEFINE e == Export(session'[m])
<1>3. CASE ~Completes(m) /\ ~Follows(m)
  BY <1>2, <1>3, NewExport DEF ExportsDone
<1>4. CASE Completes(m)
  <2>1. /\ e.role = "initiator" /\ ~e.lmk.flipped
        /\ e.lmk.ctx.init = m /\ e.lmk.ctx.resp \in Macs \ {m}
        /\ [role |-> "initiator", gx |-> e.lmk.gx, gy |-> e.lmk.gy] \in done'
        /\ \E a \in sent' : a.kind = "m2" /\ a.gx = e.lmk.gx /\ a.gy = e.lmk.gy
    BY <1>4, CompletesExport
  <2>2. Exports' \subseteq Exports \cup {e}
    BY <1>4, NewExport
  <2> HIDE DEF e
  <2> QED
    BY <1>2, <2>1, <2>2 DEF ExportsDone
<1>5. CASE Follows(m)
  <2>1. /\ e.role = "responder" /\ ~e.lmk.flipped
        /\ e.lmk.ctx.resp = m /\ e.lmk.ctx.init \in Macs \ {m}
        /\ [role |-> "responder", gx |-> e.lmk.gx, gy |-> e.lmk.gy] \in done'
    BY <1>5, FollowsExport
  <2>2. Exports' \subseteq Exports \cup {e}
    BY <1>5, NewExport
  <2> HIDE DEF e
  <2> QED
    BY <1>2, <2>1, <2>2 DEF ExportsDone
<1> QED
  BY <1>3, <1>4, <1>5

\* The two ends of a run stay on different boards.
LEMMA ApartStep ==
  ASSUME TypeOK, ContextShape, M2Drawn, ExportsDone, Apart, NEW m \in Macs, Acts(m)
  PROVE  Apart'
<1> DEFINE Far(n, e) ==
      /\ session'[n].role = "responder" /\ session'[n].phase \in {"WaitM3", "Done"}
      /\ e.role = "initiator"
      /\ e.lmk.gx = session'[n].gx /\ e.lmk.gy = session'[n].gy
      => e.lmk.ctx.init # n
<1>1. \A n \in Macs \ {m} : session'[n] = session[n]
  BY CellStep
<1>2. \A n \in Macs \ {m} : \A e \in Exports : Far(n, e)
  BY <1>1 DEF Apart
<1>3. \A e \in Exports : Far(m, e)
  <2>1. CASE Keeps(m)
    BY <2>1 DEF Keeps, Apart
  <2>2. CASE Breaks(m) \/ Creates(m)
    <3>1. session'[m].phase \in {"Start", "Failed"}
      <4>1. CASE Breaks(m)
        BY <4>1, Cells DEF Breaks, ProtocolFailed, Answer
      <4>2. CASE Creates(m)
        BY <4>2, CellStep DEF CellKept, Creates, Becomes, TypeOK
      <4> QED
        BY <2>2, <4>1, <4>2
    <3> QED
      BY <3>1
  <2>3. CASE Starts(m)
    BY <2>3, Cells DEF Starts, Moved
  <2>4. CASE Replies(m)
    <3>1. PICK a \in sent : Becomes(m, Moved(session[m], "WaitM3", a.gx, session[m].gy))
      BY <2>4 DEF Replies
    <3>2. session'[m].gy = session[m].gy
      BY <3>1, Cells DEF Moved
    <3>3. \A c \in sent : c.kind = "m2" => c.gy # session[m].gy
      BY <2>4 DEF Replies, M2Drawn
    <3>4. \A e \in Exports : e.role = "initiator" => e.lmk.gy # session'[m].gy
      BY <3>2, <3>3 DEF ExportsDone
    <3> QED
      BY <3>4
  <2>5. CASE Completes(m)
    BY <2>5, CompletesExport
  <2>6. CASE Follows(m)
    <3>1. /\ session[m].role = "responder" /\ session[m].phase = "WaitM3"
          /\ session'[m].gx = session[m].gx /\ session'[m].gy = session[m].gy
      BY <2>6, FollowsExport
    <3> QED
      BY <3>1 DEF Apart
  <2> QED
    BY <2>1, <2>2, <2>3, <2>4, <2>5, <2>6 DEF Acts
<1>4. \A n \in Macs, e \in Exports : Far(n, e)
  BY <1>2, <1>3
<1>5. Completes(m) \/ Follows(m) => \A n \in Macs : Far(n, Export(session'[m]))
  <2> DEFINE e == Export(session'[m])
  <2>1. CASE Completes(m)
    <3>1. session'[m].role = "initiator" /\ e.lmk.ctx.init = m
      BY <2>1, CompletesExport
    <3> HIDE DEF e
    <3> QED
      BY <3>1 DEF e
  <2>2. CASE Follows(m)
    <3>1. e.role = "responder"
      BY <2>2, FollowsExport
    <3> HIDE DEF e
    <3> QED
      BY <3>1 DEF e
  <2> QED
    BY <2>1, <2>2
<1>6. \A n \in Macs, e \in Exports' : Far(n, e)
  <2> HIDE DEF Far
  <2> QED
    BY <1>4, <1>5, NewExport
<1> QED
  BY <1>6 DEF Apart

\* Exports of one run keep naming the same boards if there are no more than two.
AtMostTwoBoards == \E a, b : Macs = {a, b}
LEMMA SameBoardsStep ==
  ASSUME AtMostTwoBoards, TypeOK, AnswerInv, ExportInv, SameBoards, NEW m \in Macs, Acts(m)
  PROVE  SameBoards'
<1> DEFINE Same(e, f) ==
      e.lmk.gx = f.lmk.gx /\ e.lmk.gy = f.lmk.gy =>
        e.lmk.ctx.init = f.lmk.ctx.init /\ e.lmk.ctx.resp = f.lmk.ctx.resp
           s == session[m]
           n == Export(session'[m])
<1>1. \A e, f \in Exports : Same(e, f)
  BY DEF SameBoards
<1>2. \A e \in Exports : e.role \in Roles
  <2>1. \A e \in exported : e.role \in Roles
    BY DEF TypeOK
  <2>2. \A b \in Macs : session[b].phase = "Done" => session[b].role \in Roles
    BY DEF TypeOK, Sessions, PhasesOf
  <2> QED
    BY <2>1, <2>2, ExportFields DEF Exports
<1>3. CASE ~Completes(m) /\ ~Follows(m)
  BY <1>1, <1>3, NewExport DEF SameBoards
<1>4. ASSUME Exports' \subseteq Exports \cup {n}, \A e \in Exports : Same(e, n)
      PROVE  SameBoards'
  <2> HIDE DEF n
  <2>1. \A e, f \in Exports' : Same(e, f)
    BY <1>1, <1>4
  <2> QED
    BY <2>1 DEF SameBoards
<1>5. CASE Completes(m)
  <2>1. /\ n.lmk.gx = s.gx /\ Exports' \subseteq Exports \cup {n}
        /\ s.role = "initiator" /\ s.phase = "WaitM2"
    BY <1>5, NewExport, CompletesExport DEF AnswerInv, Completes
  <2>2. \A d \in done : d.role = "initiator" => d.gx # s.gx
    BY <2>1 DEF AnswerInv, DoneDrawn, OwnKey
  <2>3. \A e \in Exports : e.lmk.gx # s.gx
    <3> SUFFICES ASSUME NEW e \in Exports PROVE e.lmk.gx # s.gx
      OBVIOUS
    <3> DEFINE d == [role |-> e.role, gx |-> e.lmk.gx, gy |-> e.lmk.gy]
    <3>1. d \in done
      BY DEF ExportInv, ExportsDone
    <3>2. CASE e.role = "initiator"
      BY <2>2, <3>1, <3>2
    <3>3. CASE e.role = "responder"
      <4>1. [d EXCEPT !.role = "initiator"] \in done
        BY <3>1, <3>3 DEF AnswerInv, ResponderFollowsInitiator
      <4>2. /\ [d EXCEPT !.role = "initiator"].role = "initiator"
            /\ [d EXCEPT !.role = "initiator"].gx = e.lmk.gx
        OBVIOUS
      <4> QED
        BY <2>2, <4>1, <4>2
    <3> QED
      BY <1>2, <3>2, <3>3 DEF Roles
  <2> HIDE DEF n
  <2>4. \A e \in Exports : Same(e, n)
    BY <2>1, <2>3
  <2> QED
    BY <1>4, <2>1, <2>4
<1>6. CASE Follows(m)
  <2>1. /\ n.lmk.gx = s.gx /\ n.lmk.gy = s.gy
        /\ s.role = "responder" /\ s.phase = "WaitM3"
        /\ n.lmk.ctx.resp = m /\ n.lmk.ctx.init \in Macs \ {m}
        /\ Exports' \subseteq Exports \cup {n}
    BY <1>6, NewExport, FollowsExport DEF AnswerInv
  <2> HIDE DEF n
  <2>2. \A d \in done : d.role = "responder" => d.gy # s.gy
    BY <2>1 DEF AnswerInv, DoneDrawn, OwnKey
  <2>3. ASSUME NEW e \in Exports, e.lmk.gx = n.lmk.gx, e.lmk.gy = n.lmk.gy
        PROVE  e.lmk.ctx.init = n.lmk.ctx.init /\ e.lmk.ctx.resp = n.lmk.ctx.resp
    <3>1. e.role # "responder"
      <4>1. [role |-> e.role, gx |-> e.lmk.gx, gy |-> e.lmk.gy] \in done
        BY DEF ExportInv, ExportsDone
      <4> QED
        BY <2>1, <2>2, <2>3, <4>1
    <3>2. e.role = "initiator"
      BY <1>2, <3>1 DEF Roles
    <3>3. e.lmk.ctx.init # m
      BY <2>1, <2>3, <3>2 DEF ExportInv, Apart
    <3>4. e.lmk.ctx.init \in Macs /\ e.lmk.ctx.resp \in Macs \ {e.lmk.ctx.init}
      BY DEF ExportInv, ExportsDone
    <3> QED
      BY <2>1, <3>3, <3>4 DEF AtMostTwoBoards
  <2>4. \A e \in Exports : Same(e, n)
    BY <2>3
  <2> QED
    BY <1>4, <2>1, <2>4
<1> QED
  BY <1>3, <1>5, <1>6

\* Every call keeps the invariant of exports.
LEMMA ExportStep ==
  Typed /\ AnswerInv /\ ExportInv /\ [Next]_vars =>
    ExportInv' /\ (AtMostTwoBoards /\ SameBoards => SameBoards')
<1> SUFFICES ASSUME Typed, AnswerInv, ExportInv, [Next]_vars
             PROVE  ExportInv' /\ (AtMostTwoBoards /\ SameBoards => SameBoards')
  OBVIOUS
<1>1. CASE UNCHANGED vars
  BY <1>1 DEF vars, ExportInv, ExportsDone, Apart, SameBoards, Exports
<1>2. CASE Next
  <2>1. TypeOK /\ \E m \in Macs : Acts(m)
    BY <1>2, StepCases DEF Typed
  <2>2. ExportInv'
    BY <2>1, ExportsDoneStep, ApartStep DEF AnswerInv, ExportInv
  <2>3. AtMostTwoBoards /\ SameBoards => SameBoards'
    BY <2>1, SameBoardsStep
  <2> QED
    BY <2>2, <2>3
<1> QED
  BY <1>1, <1>2

-----------------------------------------------------------------------------
(* What the library guarantees. *)

\* The inductive invariant holds under any caller, for any number of boards.
THEOREM CallerInvariant == Spec => [](Typed /\ AnswerInv /\ ExportInv)
<1>1. Init => Typed /\ AnswerInv /\ ExportInv
  BY TypeStart, AnswerStart, ExportStart
<1>2. Typed /\ AnswerInv /\ ExportInv /\ [Next]_vars => Typed' /\ AnswerInv' /\ ExportInv'
  BY TypesStep, AnswerStep, ExportStep
<1> QED
  BY <1>1, <1>2, PTL DEF Spec

\* No ephemeral key of a responder answers two message_1s.
THEOREM EphemeralsAnswerOnce == Spec => []OneAnswerPerEphemeral
<1>1. AnswerInv => OneAnswerPerEphemeral
  BY DEF AnswerInv
<1> QED
  BY <1>1, CallerInvariant, PTL

\* A responder completes only what an initiator has completed.
THEOREM RespondersFollow == Spec => []ResponderFollowsInitiator
<1>1. AnswerInv => ResponderFollowsInitiator
  BY DEF AnswerInv
<1> QED
  BY <1>1, CallerInvariant, PTL

\* With two boards, which is what main.c is built for, both ends of a run export one
\* key up to the channel.  With a third the ends may have been told different peers,
\* and the context keeps their keys apart: the hypothesis cannot be dropped.
THEOREM TwoBoardsExportAlike == AtMostTwoBoards => (Spec => []ExportsAgree)
<1> SUFFICES ASSUME AtMostTwoBoards PROVE Spec => []ExportsAgree
  OBVIOUS
<1>1. Init => SameBoards
  BY ExportStart
<1>2. Typed /\ AnswerInv /\ ExportInv /\ SameBoards /\ [Next]_vars => SameBoards'
  BY ExportStep
<1>3. Typed /\ ExportInv /\ SameBoards => ExportsAgree
  <2> SUFFICES ASSUME TypeOK, ExportsDone, SameBoards, NEW e \in exported,
                      NEW f \in exported,
                      e.lmk.gx = f.lmk.gx, e.lmk.gy = f.lmk.gy,
                      e.lmk.ctx.channel = f.lmk.ctx.channel
               PROVE  e.lmk = f.lmk
    BY DEF Typed, ExportInv, ExportsAgree
  <2>1. e \in Exports /\ f \in Exports
    BY DEF Exports
  <2>2. e.lmk.ctx.init = f.lmk.ctx.init /\ e.lmk.ctx.resp = f.lmk.ctx.resp
    BY <2>1 DEF SameBoards
  <2>3. e.lmk \in Lmks(Macs) /\ f.lmk \in Lmks(Macs)
    BY DEF TypeOK
  <2>4. e.lmk.flipped = f.lmk.flipped
    BY <2>1, <2>3 DEF ExportsDone, Lmks
  <2>5. e.lmk.ctx = f.lmk.ctx
    <3>1. \A u, v \in Contexts(Macs) \cup {NoContext} :
            u.init = v.init /\ u.resp = v.resp /\ u.channel = v.channel => u = v
      BY DEF Contexts, NoContext
    <3>2. e.lmk.ctx \in Contexts(Macs) \cup {NoContext}
          /\ f.lmk.ctx \in Contexts(Macs) \cup {NoContext}
      BY <2>3 DEF Lmks
    <3> QED
      BY <2>2, <3>1, <3>2
  <2>6. \A u, v \in Lmks(Macs) :
          u.gx = v.gx /\ u.gy = v.gy /\ u.ctx = v.ctx /\ u.flipped = v.flipped => u = v
    BY DEF Lmks
  <2> QED
    BY <2>3, <2>4, <2>5, <2>6
<1> QED
  BY <1>1, <1>2, <1>3, CallerInvariant, PTL DEF Spec
=============================================================================
