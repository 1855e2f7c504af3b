---------------------------- MODULE PairingProofs ----------------------------
(***************************************************************************)
(* Proofs about Pairing for any number of boots, any queue length, any     *)
(* delivery, faults, builds and stray frames.                              *)
(***************************************************************************)
EXTENDS Pairing, TLAPS

-----------------------------------------------------------------------------
(* The Lakers calls: every answer is a status, a session and a body. *)

Answers == [status : Statuses, session : Sessions(Boards), out : Bodies]

\* Session::Empty is a session.
LEMMA EmptySessionType == EmptySession \in Sessions(Boards)
BY DEF EmptySession, Sessions, PhasesOf, Phases, Roles, Identities, Credentials,
       Contexts, NoContext

\* A refusal answers with the session it was given.
LEMMA RefuseType ==
  ASSUME NEW s \in Sessions(Boards), NEW refusal \in Statuses
  PROVE  Refuse(s, refusal) \in Answers
BY DEF Refuse, Answer, Answers, NoBody, Body, Bodies, Kinds, Identities

\* A protocol failure answers with a failed session.
LEMMA ProtocolFailedType ==
  ASSUME NEW role \in Roles
  PROVE  ProtocolFailed(role) \in Answers
BY DEF ProtocolFailed, Answer, Answers, NoBody, Body, Bodies, Kinds, Identities,
       Credentials, EmptySession, Sessions, PhasesOf, Phases, Roles, NoContext,
       Statuses

\* A call answers with the session it was given, a failed one, or the next one.
LEMMA CallType ==
  ASSUME NEW s \in Sessions(Boards), NEW argument \in Statuses,
         NEW role \in Roles, NEW phase, NEW accepts,
         NEW next, s.role = role /\ s.phase = phase => next \in Sessions(Boards),
         NEW out \in Bodies
  PROVE  Call(s, argument, role, phase, accepts, next, out) \in Answers
<1>1. "WRONG_STATE" \in Statuses /\ "OK" \in Statuses
  BY DEF Statuses
<1>2. Refuse(s, argument) \in Answers /\ Refuse(s, "WRONG_STATE") \in Answers
  BY <1>1, RefuseType
<1>3. ProtocolFailed(role) \in Answers
  BY ProtocolFailedType
<1>4. s.role = role /\ s.phase = phase => Answer("OK", next, out) \in Answers
  BY <1>1 DEF Answer, Answers
<1> QED
  BY <1>2, <1>3, <1>4 DEF Call

\* What a session of the right role and phase answers.
LEMMA CallInPhase ==
  ASSUME NEW s, NEW argument, NEW role, NEW phase, NEW accepts, NEW next, NEW out,
         s.role = role, s.phase = phase, argument # "WRONG_STATE"
  PROVE  LET r == Call(s, argument, role, phase, accepts, next, out)
         IN /\ r.status # "WRONG_STATE"
            /\ r.status = "OK" => argument = "OK" /\ r.session = next
            /\ r.status # "OK" =>
                 r.session = s \/ r.session = ProtocolFailed(role).session
BY DEF Call, Refuse, Answer, ProtocolFailed

\* The argument checks never answer WRONG_STATE.
LEMMA ArgumentType ==
  ASSUME NEW buffer, NEW input
  PROVE  /\ ArgumentStatus(buffer, input) \in Statuses
         /\ ArgumentStatus(buffer, input) # "WRONG_STATE"
BY DEF ArgumentStatus, Statuses

\* The three messages built from the fields of a session are bodies.
LEMMA BodyTypes ==
  ASSUME NEW gx \in Nat, NEW gy \in Nat, NEW as \in Identities
  PROVE  /\ Body("m1", gx, gy, as) \in Bodies
         /\ Body("m2", gx, gy, as) \in Bodies
         /\ Body("m3", gx, gy, as) \in Bodies
BY DEF Body, Bodies, Kinds

\* So are an empty output and the fixed texts of the application.
LEMMA FixedBodies == NoBody \in Bodies /\ Text \in Bodies
BY DEF NoBody, Text, Body, Bodies, Kinds, Identities

\* A session moved to a phase of its role is a session.
LEMMA MovedType ==
  ASSUME NEW s \in Sessions(Boards), NEW phase \in PhasesOf(s.role),
         NEW gx \in Nat, NEW gy \in Nat
  PROVE  Moved(s, phase, gx, gy) \in Sessions(Boards)
BY DEF Moved, Sessions, PhasesOf, Phases

\* What a session holds besides its phase.
LEMMA SessionFields ==
  ASSUME NEW s \in Sessions(Boards)
  PROVE  s.gx \in Nat /\ s.gy \in Nat /\ s.as \in Identities
BY DEF Sessions

\* session_init answers with the old session or a new one.
LEMMA SessionInitType ==
  ASSUME NEW s \in Sessions(Boards), NEW role \in Roles, NEW own \in Boards,
         NEW peer \in Boards, NEW channel \in Nat, NEW credential \in Credentials,
         NEW key, NEW fresh \in Nat
  PROVE  SessionInit(s, role, own, peer, channel, credential, key, fresh) \in Answers
<1> DEFINE ctx == IF role = "initiator"
                  THEN BuildExporterContext(own, peer, channel)
                  ELSE BuildExporterContext(peer, own, channel)
           created ==
             [role |-> role, phase |-> "Start", ctx |-> ctx,
              gx |-> IF role = "initiator" THEN fresh ELSE 0,
              gy |-> IF role = "responder" THEN fresh ELSE 0,
              as |-> Identity(credential, key)]
<1>1. Identity(credential, key) \in Identities
  BY DEF Identity, Identities
<1>2. ctx \in Contexts(Boards)
  BY DEF BuildExporterContext, Contexts
<1>3. created \in Sessions(Boards)
  BY <1>1, <1>2 DEF Sessions, PhasesOf, Phases, Roles
<1>4. Answer("OK", created, NoBody) \in Answers
  BY <1>3, FixedBodies DEF Answer, Answers, Statuses
<1>5. /\ Refuse(s, "INVALID_ARGUMENT") \in Answers
      /\ Refuse(s, "CREDENTIAL_ERROR") \in Answers
  BY RefuseType DEF Statuses
<1> QED
  BY <1>4, <1>5 DEF SessionInit

\* The four message calls, on any session and any input.
LEMMA MessageTypes ==
  ASSUME NEW s \in Sessions(Boards), NEW buffer, NEW m \in Bodies, NEW expected,
         NEW prepared
  PROVE  /\ MakeMessage1(s, buffer, prepared) \in Answers
         /\ ProcessMessage1(s, buffer, m) \in Answers
         /\ ProcessMessage2(s, buffer, m, expected) \in Answers
         /\ ProcessMessage3(s, m, expected) \in Answers
<1> DEFINE I == "initiator"
           R == "responder"
<1>1. /\ I \in Roles /\ R \in Roles
      /\ s.gx \in Nat /\ s.gy \in Nat /\ s.as \in Identities
      /\ m.gx \in Nat /\ m.gy \in Nat
      /\ "nobody" \in Identities
  BY SessionFields DEF Roles, Bodies, Identities
<1>2. s.role = I => /\ Moved(s, "WaitM2", s.gx, 0) \in Sessions(Boards)
                    /\ Moved(s, "Done", s.gx, m.gy) \in Sessions(Boards)
  BY <1>1, MovedType DEF PhasesOf
<1>3. s.role = R => /\ Moved(s, "WaitM3", m.gx, s.gy) \in Sessions(Boards)
                    /\ Moved(s, "Done", s.gx, s.gy) \in Sessions(Boards)
  BY <1>1, MovedType DEF PhasesOf
<1>4. MakeMessage1(s, buffer, prepared) \in Answers
  BY <1>1, <1>2, CallType, ArgumentType, BodyTypes DEF MakeMessage1
<1>5. ProcessMessage1(s, buffer, m) \in Answers
  BY <1>1, <1>3, CallType, ArgumentType, BodyTypes DEF ProcessMessage1
<1>6. ProcessMessage2(s, buffer, m, expected) \in Answers
  BY <1>1, <1>2, CallType, ArgumentType, BodyTypes DEF ProcessMessage2
<1>7. ProcessMessage3(s, m, expected) \in Answers
  BY <1>1, <1>3, CallType, ArgumentType, FixedBodies DEF ProcessMessage3
<1> QED
  BY <1>4, <1>5, <1>6, <1>7

\* An exported key is an LMK, corrupted or not.
LEMMA ExportType ==
  ASSUME NEW s \in Sessions(Boards), NEW flipped \in BOOLEAN
  PROVE  /\ ExportStatus(s, "ok") \in {"OK", "WRONG_STATE"}
         /\ [ExportLmk(s) EXCEPT !.flipped = flipped] \in LmkTypes
         /\ [ExportLmk(s) EXCEPT !.flipped = flipped].flipped = flipped
BY DEF ExportStatus, ExportLmk, LmkTypes, Lmks, Sessions

-----------------------------------------------------------------------------
(* Queues. *)

\* A queue that has taken packets holds what it held and the new packet.
LEMMA PushFacts ==
  ASSUME NEW q \in Seq(Packets), NEW p \in Packets, Len(q) <= QueueLen
  PROVE  /\ Push(q, p) \in Seq(Packets)
         /\ Len(Push(q, p)) <= QueueLen
         /\ \A i \in 1 .. Len(Push(q, p)) :
              \/ Push(q, p)[i] = p
              \/ i \in 1 .. Len(q) /\ Push(q, p)[i] = q[i]
<1>1. QueueLen \in Nat
  BY PairingAssumption
<1> QED
  BY <1>1 DEF Push

\* The same for none, one or two copies of a packet on the air.
LEMMA DeliverFacts ==
  ASSUME NEW q \in Seq(Packets), NEW p \in Packets, NEW n, Len(q) <= QueueLen
  PROVE  /\ Deliver(q, p, n) \in Seq(Packets)
         /\ Len(Deliver(q, p, n)) <= QueueLen
         /\ \A i \in 1 .. Len(Deliver(q, p, n)) :
              \/ n # 0 /\ Deliver(q, p, n)[i] = p
              \/ i \in 1 .. Len(q) /\ Deliver(q, p, n)[i] = q[i]
<1> DEFINE once == Push(q, p)
           twice == Push(once, p)
<1>1. /\ once \in Seq(Packets) /\ Len(once) <= QueueLen
      /\ \A i \in 1 .. Len(once) :
           once[i] = p \/ (i \in 1 .. Len(q) /\ once[i] = q[i])
  BY PushFacts
<1>2. /\ twice \in Seq(Packets) /\ Len(twice) <= QueueLen
      /\ \A i \in 1 .. Len(twice) :
           twice[i] = p \/ (i \in 1 .. Len(once) /\ twice[i] = once[i])
  BY <1>1, PushFacts
<1>3. \A i \in 1 .. Len(twice) :
        twice[i] = p \/ (i \in 1 .. Len(q) /\ twice[i] = q[i])
  BY <1>1, <1>2
<1> HIDE DEF once, twice
<1>4. CASE n = 0
  BY <1>4 DEF Deliver
<1>5. CASE n = 1
  <2>1. Deliver(q, p, n) = once
    BY <1>5 DEF Deliver, once
  <2> QED
    BY <2>1, <1>5, <1>1
<1>6. CASE n # 0 /\ n # 1
  <2>1. Deliver(q, p, n) = twice
    BY <1>6 DEF Deliver, once, twice
  <2> QED
    BY <2>1, <1>6, <1>2, <1>3
<1> QED
  BY <1>4, <1>5, <1>6

\* Taking the head off a queue.
LEMMA TailFacts ==
  ASSUME NEW S, NEW q \in Seq(S), q # <<>>
  PROVE  /\ Head(q) \in S /\ Head(q) = q[1] /\ 1 \in 1 .. Len(q)
         /\ Tail(q) \in Seq(S)
         /\ Len(Tail(q)) = Len(q) - 1
         /\ Len(q) \in Nat
         /\ \A i \in 1 .. Len(Tail(q)) :
              i + 1 \in 1 .. Len(q) /\ Tail(q)[i] = q[i + 1]
OBVIOUS

\* Appending to a queue.
LEMMA AppendFacts ==
  ASSUME NEW S, NEW q \in Seq(S), NEW e \in S
  PROVE  /\ Append(q, e) \in Seq(S)
         /\ \A i \in 1 .. Len(Append(q, e)) :
              \/ Append(q, e)[i] = e
              \/ i \in 1 .. Len(q) /\ Append(q, e)[i] = q[i]
OBVIOUS

-----------------------------------------------------------------------------
(* Types. *)

\* What edhoc_transport_send builds is a frame.
LEMMA FrameType ==
  ASSUME NEW type \in Types, NEW body \in Bodies
  PROVE  Frame(type, body) \in Frames
BY DEF Frame, Frames, SessionIds

\* A peer without a key is a value of the driver's key field.
LEMMA PlainType == Plain \in LmkTypes
BY DEF Plain, NoLmk, LmkTypes, Lmks

\* Each board is the other's other, and starts in one of the states.
LEMMA BoardFacts ==
  /\ "initiator" \in Boards /\ "responder" \in Boards
  /\ \A b \in Boards : /\ Other(b) \in Boards /\ Other(b) # b
                      /\ Other(Other(b)) = b
                      /\ FirstState(b) \in States
BY DEF Boards, Roles, Other, FirstState, States

\* Before the first boot every variable has its type.
LEMMA TypeInit == Init => TypeOK
<1> SUFFICES ASSUME Init PROVE TypeOK
  OBVIOUS
<1>1. \A b \in Boards : Len(rxq[b]) <= QueueLen
  BY PairingAssumption DEF Init
<1>2. build \in [Boards -> BuildTypes] /\ boot \in [Boards -> 0 .. MaxBoots]
  BY PairingAssumption DEF Init
<1>3. session \in [Boards -> Sessions(Boards)]
  BY EmptySessionType DEF Init
<1>4. state \in [Boards -> States] /\ lmk \in [Boards -> LmkTypes]
  BY BoardFacts, PlainType DEF Init
<1> QED
  BY <1>1, <1>2, <1>3, <1>4 DEF Init, TypeOK, Tasks, Statuses

\* The head of a receive queue is a packet, and taking it leaves a queue.
LEMMA TakenType ==
  ASSUME TypeOK, NEW b \in Boards, Received(b), Taken(b)
  PROVE  /\ Msg(b) \in Frames
         /\ rxq' \in [Boards -> Seq(Packets)]
         /\ \A c \in Boards : Len(rxq'[c]) <= QueueLen
<1>1. rxq[b] \in Seq(Packets) /\ rxq[b] # <<>> /\ Len(rxq[b]) <= QueueLen
  BY DEF TypeOK, Received
<1>2. /\ Head(rxq[b]) \in Packets /\ Tail(rxq[b]) \in Seq(Packets)
      /\ Len(Tail(rxq[b])) = Len(rxq[b]) - 1 /\ Len(rxq[b]) \in Nat
  BY <1>1, TailFacts
<1>3. Msg(b) \in Frames
  BY <1>2 DEF Msg, Packets
<1>4. Len(Tail(rxq[b])) <= QueueLen
  BY <1>1, <1>2, PairingAssumption
<1> QED
  BY <1>2, <1>3, <1>4 DEF TypeOK, Taken

\* Sending a frame leaves a queue of frames.
LEMMA SendType ==
  ASSUME TypeOK, NEW b \in Boards, NEW f \in Frames, Send(b, f)
  PROVE  txq' \in [Boards -> Seq(Frames)]
BY AppendFacts DEF TypeOK, Send

\* A handler's Lakers call, its answer and its failure path.
LEMMA CallAndAnswerType ==
  ASSUME TypeOK, NEW b \in Boards, NEW r \in Answers, NEW f \in Frames,
         NEW next \in States, CallAndAnswer(b, r, f, next)
  PROVE  /\ session' \in [Boards -> Sessions(Boards)]
         /\ status' \in [Boards -> Statuses]
         /\ state' \in [Boards -> States]
         /\ txq' \in [Boards -> Seq(Frames)]
<1>1. txq' \in [Boards -> Seq(Frames)]
  BY SendType DEF TypeOK, CallAndAnswer
<1> QED
  BY <1>1 DEF TypeOK, CallAndAnswer, Set, Answers, States

\* derive_and_install_lmk on a typed state.
LEMMA InstallType ==
  ASSUME TypeOK, NEW b \in Boards, NEW outcome, NEW next \in States,
         DeriveAndInstall(b, outcome, next)
  PROVE  /\ status' \in [Boards -> Statuses]
         /\ derived' \in [Boards -> SUBSET LmkTypes]
         /\ lmk' \in [Boards -> LmkTypes]
         /\ state' \in [Boards -> States]
<1> DEFINE key == [ExportLmk(session[b]) EXCEPT !.flipped = build[b].corrupt]
<1>1. build[b].corrupt \in BOOLEAN
  BY DEF TypeOK, BuildTypes
<1>2. key \in LmkTypes /\ ExportStatus(session[b], "ok") \in Statuses
  BY <1>1, ExportType DEF TypeOK, Statuses
<1>3. lmk' \in [Boards -> LmkTypes]
  BY <1>2 DEF TypeOK, DeriveAndInstall, Install, Set
<1>4. derived' \in [Boards -> SUBSET LmkTypes]
  BY <1>2 DEF TypeOK, DeriveAndInstall, Record
<1> QED
  BY <1>2, <1>3, <1>4 DEF TypeOK, DeriveAndInstall, Set, States

\* Every action keeps the types.
LEMMA TypeStep == TypeOK /\ [Next]_vars => TypeOK'
<1> SUFFICES ASSUME TypeOK, [Next]_vars PROVE TypeOK'
  OBVIOUS
<1> USE DEF TypeOK
<1>0. /\ {"initiator", "responder"} \subseteq Boards
      /\ "OK" \in Statuses /\ Text \in Bodies /\ Plain \in LmkTypes
  BY BoardFacts, FixedBodies, PlainType DEF Statuses
<1>1. ASSUME NEW b \in Boards, Listen(b) PROVE TypeOK'
  BY <1>1, PairingAssumption DEF Listen, Set, Tasks, history
<1>2. ASSUME NEW b \in Boards, PowerDown(b), UNCHANGED <<build, boot, history>>
      PROVE  TypeOK'
  BY <1>0, <1>2, EmptySessionType, BoardFacts, PairingAssumption
     DEF PowerDown, Set, Tasks, history
<1>3. ASSUME NEW b \in Boards, StartApp(b) PROVE TypeOK'
  <2> DEFINE r == SessionInit(session[b], b, b, Other(b), 1,
                              build[b].cred[b], build[b].key[b], boot[b])
  <2>1. r \in Answers
    <3>1. b \in Roles /\ Other(b) \in Boards /\ 1 \in Nat /\ boot[b] \in Nat
      BY BoardFacts, PairingAssumption DEF Boards
    <3>2. build[b].cred[b] \in Credentials
      BY <3>1 DEF BuildTypes
    <3> QED
      BY <3>1, <3>2, SessionInitType
  <2>2. CASE ~build[b].peerSet
    BY <1>3, <2>2 DEF StartApp, Set, Tasks, history
  <2>3. CASE build[b].peerSet /\ r.status # "OK"
    BY <1>2, <1>3, <2>3 DEF StartApp
  <2>4. CASE build[b].peerSet /\ r.status = "OK"
    <3> HIDE DEF r
    <3>1. /\ task' = Set(task, b, "loop")
          /\ session' = Set(session, b, r.session)
          /\ status' = Set(status, b, r.status)
          /\ UNCHANGED <<build, boot, history, state, started, lmk, rxq, txq>>
      BY <1>3, <2>4 DEF StartApp, r
    <3> QED
      BY <3>1, <2>1 DEF Set, Tasks, Answers, history
  <2> QED
    BY <2>2, <2>3, <2>4
<1>4. ASSUME NEW b \in Boards, Restart(b) PROVE TypeOK'
  BY <1>2, <1>4 DEF Restart
<1>5. ASSUME NEW b \in Boards, Transmit(b) PROVE TypeOK'
  <2> DEFINE o == Other(b)
             p == [frame |-> Head(txq[b]), key |-> lmk[b]]
  <2>1. /\ txq[b] \in Seq(Frames) /\ txq[b] # <<>> /\ o \in Boards
        /\ rxq[o] \in Seq(Packets) /\ Len(rxq[o]) <= QueueLen
    BY <1>5, BoardFacts DEF Transmit
  <2>2. Tail(txq[b]) \in Seq(Frames) /\ p \in Packets
    BY <2>1, TailFacts DEF Packets
  <2>3. PICK n : rxq' = [rxq EXCEPT ![o] = Deliver(@, p, n)]
    BY <1>5 DEF Transmit
  <2>4. /\ Deliver(rxq[o], p, n) \in Seq(Packets)
        /\ Len(Deliver(rxq[o], p, n)) <= QueueLen
    BY <2>1, <2>2, DeliverFacts
  <2> HIDE DEF o, p
  <2>5. rxq' \in [Boards -> Seq(Packets)] /\ \A c \in Boards : Len(rxq'[c]) <= QueueLen
    BY <2>1, <2>3, <2>4
  <2>6. txq' \in [Boards -> Seq(Frames)]
    BY <1>5, <2>2 DEF Transmit
  <2> QED
    BY <1>5, <2>5, <2>6 DEF Transmit, history
<1>6. ASSUME NEW b \in Boards, NEW f \in Strays, StrayArrives(b, f) PROVE TypeOK'
  <2> DEFINE p == [frame |-> f, key |-> Plain]
  <2>1. p \in Packets
    BY <1>0, StraysAssumption DEF Packets
  <2>2. Push(rxq[b], p) \in Seq(Packets) /\ Len(Push(rxq[b], p)) <= QueueLen
    BY <2>1, PushFacts
  <2>3. rxq' = [rxq EXCEPT ![b] = Push(@, p)]
    BY <1>6 DEF StrayArrives
  <2> HIDE DEF p
  <2>4. rxq' \in [Boards -> Seq(Packets)] /\ \A c \in Boards : Len(rxq'[c]) <= QueueLen
    BY <2>2, <2>3
  <2> QED
    BY <1>6, <2>4 DEF StrayArrives, history
<1>7. ASSUME NEW b \in Boards, BadSession(b) PROVE TypeOK'
  BY <1>7, TakenType DEF BadSession, Set, States, history
<1>8. ASSUME NEW b \in Boards, Ignore(b) PROVE TypeOK'
  BY <1>8, TakenType DEF Ignore, history
<1>9. ASSUME NEW prepared, StartHandshake(prepared) PROVE TypeOK'
  <2> DEFINE b == "initiator"
             r == MakeMessage1(session[b], "ok", prepared)
  <2>1. r \in Answers
    BY <1>0, FixedBodies, MessageTypes
  <2>2. Frame("M1", r.out) \in Frames /\ "WAIT_M2" \in States
    BY <2>1, FrameType DEF Answers, Types, States
  <2> HIDE DEF r
  <2>3. CallAndAnswer(b, r, Frame("M1", r.out), "WAIT_M2")
    BY <1>9 DEF StartHandshake, r
  <2>4. /\ session' \in [Boards -> Sessions(Boards)]
        /\ status' \in [Boards -> Statuses] /\ state' \in [Boards -> States]
        /\ txq' \in [Boards -> Seq(Frames)]
    BY <1>0, <2>1, <2>2, <2>3, CallAndAnswerType
  <2> QED
    BY <1>0, <1>9, <2>4 DEF StartHandshake, Set, history
<1>10. ASSUME ProcessM1 PROVE TypeOK'
  <2> DEFINE b == "responder"
             r == ProcessMessage1(session[b], "ok", Msg(b).body)
  <2>1. Received(b) /\ Taken(b)
    BY <1>10 DEF ProcessM1, Handling
  <2>2. Msg(b).body \in Bodies
    BY <1>0, <2>1, TakenType DEF Frames
  <2>3. r \in Answers
    BY <1>0, <2>2, MessageTypes
  <2>4. Frame("M2", r.out) \in Frames /\ "WAIT_M3" \in States
    BY <2>3, FrameType DEF Answers, Types, States
  <2> HIDE DEF r
  <2>5. CallAndAnswer(b, r, Frame("M2", r.out), "WAIT_M3")
    BY <1>10 DEF ProcessM1, r
  <2>6. /\ session' \in [Boards -> Sessions(Boards)]
        /\ status' \in [Boards -> Statuses] /\ state' \in [Boards -> States]
        /\ txq' \in [Boards -> Seq(Frames)]
    BY <1>0, <2>3, <2>4, <2>5, CallAndAnswerType
  <2> QED
    BY <1>0, <1>10, <2>1, <2>6, TakenType DEF ProcessM1, history
<1>11. ASSUME ProcessM2 PROVE TypeOK'
  <2> DEFINE b == "initiator"
             r == ProcessMessage2(session[b], "ok", Msg(b).body,
                                  build[b].cred["responder"])
  <2>1. Received(b) /\ Taken(b)
    BY <1>11 DEF ProcessM2, Handling
  <2>2. Msg(b).body \in Bodies
    BY <1>0, <2>1, TakenType DEF Frames
  <2>3. r \in Answers
    BY <1>0, <2>2, MessageTypes
  <2>4. Frame("M3", r.out) \in Frames /\ "WAIT_EDHOC_ACK" \in States
    BY <2>3, FrameType DEF Answers, Types, States
  <2> HIDE DEF r
  <2>5. /\ CallAndAnswer(b, r, Frame("M3", r.out), "WAIT_EDHOC_ACK")
        /\ Record(accepted, b, Transcript(r.session), r.status = "OK")
    BY <1>11 DEF ProcessM2, r
  <2>6. /\ session' \in [Boards -> Sessions(Boards)]
        /\ status' \in [Boards -> Statuses] /\ state' \in [Boards -> States]
        /\ txq' \in [Boards -> Seq(Frames)]
    BY <1>0, <2>3, <2>4, <2>5, CallAndAnswerType
  <2>7. accepted' \in [Boards -> SUBSET [gx : Nat, gy : Nat]]
    <3>1. Transcript(r.session) \in [gx : Nat, gy : Nat]
      BY <2>3, SessionFields DEF Transcript, Answers
    <3> QED
      BY <3>1, <2>5 DEF Record
  <2> QED
    BY <1>0, <1>11, <2>1, <2>6, <2>7, TakenType DEF ProcessM2
<1>12. ASSUME ProcessM3 PROVE TypeOK'
  <2> DEFINE b == "responder"
             r == ProcessMessage3(session[b], Msg(b).body, build[b].cred["initiator"])
  <2>1. Received(b) /\ Taken(b)
    BY <1>12 DEF ProcessM3, Handling
  <2>2. Msg(b).body \in Bodies
    BY <1>0, <2>1, TakenType DEF Frames
  <2>3. r \in Answers
    BY <1>0, <2>2, MessageTypes
  <2>4. Frame("ACK", Text) \in Frames /\ state[b] \in States
    BY <1>0, FrameType DEF Types
  <2> HIDE DEF r
  <2>5. /\ CallAndAnswer(b, r, Frame("ACK", Text), state[b])
        /\ task' = Set(task, b, IF r.status = "OK" THEN "switchDelay" ELSE "loop")
        /\ Record(accepted, b, Transcript(r.session), r.status = "OK")
    BY <1>12 DEF ProcessM3, r
  <2>6. /\ session' \in [Boards -> Sessions(Boards)]
        /\ status' \in [Boards -> Statuses] /\ state' \in [Boards -> States]
        /\ txq' \in [Boards -> Seq(Frames)]
    BY <1>0, <2>3, <2>4, <2>5, CallAndAnswerType
  <2>7. accepted' \in [Boards -> SUBSET [gx : Nat, gy : Nat]]
    <3>1. Transcript(r.session) \in [gx : Nat, gy : Nat]
      BY <2>3, SessionFields DEF Transcript, Answers
    <3> QED
      BY <3>1, <2>5 DEF Record
  <2>8. task' \in [Boards -> Tasks]
    BY <2>5 DEF Set, Tasks
  <2> QED
    BY <1>0, <1>12, <2>1, <2>6, <2>7, <2>8, TakenType DEF ProcessM3
<1>13. ASSUME NEW outcome, InstallAfterDelay(outcome) PROVE TypeOK'
  <2>1. "WAIT_KEY_TEST" \in States /\ "responder" \in Boards
    BY <1>0 DEF States
  <2>2. DeriveAndInstall("responder", outcome, "WAIT_KEY_TEST")
    BY <1>13 DEF InstallAfterDelay
  <2> QED
    BY <1>13, <2>1, <2>2, InstallType DEF InstallAfterDelay, Set, Tasks
<1>14. ASSUME NEW outcome, ProcessAck(outcome) PROVE TypeOK'
  <2> DEFINE b == "initiator"
  <2>1. Received(b) /\ Taken(b) /\ b \in Boards /\ "WAIT_KEY_TEST_ACK" \in States
    BY <1>0, <1>14 DEF ProcessAck, Handling, States
  <2>2. /\ status' \in [Boards -> Statuses]
        /\ derived' \in [Boards -> SUBSET LmkTypes]
        /\ lmk' \in [Boards -> LmkTypes]
        /\ state' \in [Boards -> States]
    <3>1. CASE Verified(b)
      BY <1>14, <3>1, <2>1, InstallType DEF ProcessAck
    <3>2. CASE ~Verified(b)
      BY <1>14, <3>2 DEF ProcessAck, Set, States
    <3> QED
      BY <3>1, <3>2
  <2> QED
    BY <1>14, <2>1, <2>2, TakenType DEF ProcessAck, Set, Tasks
<1>15. ASSUME SendKeyTest PROVE TypeOK'
  <2>1. Frame("KEY_TEST", Text) \in Frames
    BY <1>0, FrameType DEF Types
  <2>2. txq' \in [Boards -> Seq(Frames)]
    BY <1>0, <1>15, <2>1, SendType DEF SendKeyTest
  <2> QED
    BY <1>15, <2>2 DEF SendKeyTest, Set, Tasks, history
<1>16. ASSUME ProcessKeyTest PROVE TypeOK'
  <2> DEFINE b == "responder"
  <2>1. Received(b) /\ Taken(b) /\ b \in Boards
    BY <1>0, <1>16 DEF ProcessKeyTest, Handling
  <2>2. Frame("KEY_TEST_ACK", Text) \in Frames
    BY <1>0, FrameType DEF Types
  <2>3. txq' \in [Boards -> Seq(Frames)]
    BY <1>16, <2>1, <2>2, SendType DEF ProcessKeyTest
  <2>4. confirmed' \in [Boards -> SUBSET LmkTypes]
    BY <1>16, <2>1 DEF ProcessKeyTest, Record
  <2> QED
    BY <1>16, <2>1, <2>3, <2>4, TakenType DEF ProcessKeyTest, Set, States
<1>17. ASSUME ProcessKeyTestAck PROVE TypeOK'
  <2> DEFINE b == "initiator"
  <2>1. Received(b) /\ Taken(b) /\ b \in Boards
    BY <1>0, <1>17 DEF ProcessKeyTestAck, Handling
  <2>2. confirmed' \in [Boards -> SUBSET LmkTypes]
    BY <1>17, <2>1 DEF ProcessKeyTestAck, Record
  <2> QED
    BY <1>17, <2>1, <2>2, TakenType DEF ProcessKeyTestAck, Set, States
<1>18. CASE UNCHANGED vars
  BY <1>18 DEF vars, ram, history
<1> QED
  BY <1>1, <1>3, <1>4, <1>5, <1>6, <1>7, <1>8, <1>9, <1>10, <1>11, <1>12, <1>13,
     <1>14, <1>15, <1>16, <1>17, <1>18 DEF Next

\* Every variable keeps its type, and no receive queue outgrows its length.
THEOREM TypeCorrect == Spec => []TypeOK
<1>1. Init => TypeOK
  BY TypeInit
<1>2. TypeOK /\ [Next]_vars => TypeOK'
  BY TypeStep
<1> QED
  BY <1>1, <1>2, PTL DEF Spec

-----------------------------------------------------------------------------
(***************************************************************************)
(* The inductive invariant.  ConfirmedInOrder is about what happened, KeyTestSealed *)
(* about what is queued; each needs the other, and both need to know which *)
(* states can hold an installed key.                                       *)
(***************************************************************************)

\* Before app_task runs its variables are fresh; the two delays are taken in one
\* state each; only IDLE and FAILED precede the initiator's start.
TaskStates ==
  \A b \in Boards :
    /\ task[b] \in {"down", "listening", "halted"} =>
         state[b] = FirstState(b) /\ ~started[b]
    /\ task[b] = "switchDelay" => b = "responder" /\ state[b] = "WAIT_M3"
    /\ task[b] = "keyTestDelay" => b = "initiator" /\ state[b] = "WAIT_KEY_TEST_ACK"
    /\ b = "initiator" /\ state[b] \notin {"IDLE", "FAILED"} => started[b]

\* A live session of either board carries the one context both boards build.
PairContext == BuildExporterContext("initiator", "responder", 1)
SessionContext ==
  \A b \in Boards :
    session[b].phase \notin {"Empty", "Failed"} => session[b].ctx = PairContext

\* Exported keys are built from that context and carry the board's corruption.
DerivedKeys ==
  \A b \in Boards : \A k \in derived[b] :
    k.ctx = PairContext /\ k.flipped = build[b].corrupt

\* No key is installed before the handshake is over, and an installed key was
\* exported on this board.
InstalledKey ==
  \A b \in Boards :
    /\ lmk[b] # Plain => lmk[b] \in derived[b]
    /\ state[b] \in {"IDLE", "WAIT_M1", "WAIT_M2", "WAIT_M3", "WAIT_EDHOC_ACK"} =>
         lmk[b] = Plain
    /\ b = "initiator" /\ ~started[b] => lmk[b] = Plain
    /\ task[b] = "keyTestDelay" => lmk[b] # Plain

\* The key tests the driver still has to send will be sealed.
TestsToSend ==
  \A b \in Boards : \A i \in 1 .. Len(txq[b]) :
    /\ txq[b][i].type \in {"KEY_TEST", "KEY_TEST_ACK"} => lmk[b] # Plain
    /\ txq[b][i].type = "KEY_TEST_ACK" => lmk[b] \in confirmed["responder"]

\* An acknowledgement that has arrived was sent after the responder had verified
\* a KEY_TEST under the key it came in under.
TestAcks ==
  \A b \in Boards : \A i \in 1 .. Len(rxq[b]) :
    IsKeyTest(rxq[b][i].frame) /\ rxq[b][i].frame.type = "KEY_TEST_ACK" =>
      rxq[b][i].key \in confirmed["responder"]

CallInv == TaskStates /\ PhaseInStep /\ NeverWrongState /\ SessionContext
KeyInv ==
  /\ DerivedKeys
  /\ InstalledKey
  /\ TestsToSend
  /\ KeyTestSealed
  /\ TestAcks
  /\ ConfirmedInOrder

-----------------------------------------------------------------------------
(* The calls are made in order. *)

\* Boards that have not booted make no calls.
LEMMA CallInit == Init => CallInv
BY BoardFacts DEF Init, CallInv, TaskStates, PhaseInStep, NeverWrongState,
                  SessionContext, EmptySession, FirstState

\* What the session is created with, if it is created.
LEMMA SessionInitFacts ==
  ASSUME NEW b \in Boards, NEW s, NEW credential, NEW key, NEW fresh
  PROVE  LET r == SessionInit(s, b, b, Other(b), 1, credential, key, fresh)
         IN r.status = "OK" => /\ r.session.role = b
                               /\ r.session.phase = "Start"
                               /\ r.session.ctx = PairContext
BY DEF SessionInit, Refuse, Answer, Boards, Roles, Other, PairContext,
       BuildExporterContext

\* A handler that calls in the right role and phase.
LEMMA HandlerFacts ==
  ASSUME NEW s \in Sessions(Boards), NEW m, NEW expected, NEW prepared,
         NEW buffer
  PROVE  LET Fine(r, phase) ==
               /\ r.status # "WRONG_STATE"
               /\ r.session.role = s.role
               /\ r.status = "OK" => r.session.phase = phase
               /\ r.session.phase \notin {"Empty", "Failed"} =>
                    r.session.ctx = s.ctx
         IN /\ s.role = "initiator" /\ s.phase = "Start" =>
                 Fine(MakeMessage1(s, buffer, prepared), "WaitM2")
            /\ s.role = "responder" /\ s.phase = "Start" =>
                 Fine(ProcessMessage1(s, buffer, m), "WaitM3")
            /\ s.role = "initiator" /\ s.phase = "WaitM2" =>
                 Fine(ProcessMessage2(s, buffer, m, expected), "Done")
            /\ s.role = "responder" /\ s.phase = "WaitM3" =>
                 Fine(ProcessMessage3(s, m, expected), "Done")
BY ArgumentType
   DEF MakeMessage1, ProcessMessage1, ProcessMessage2, ProcessMessage3, Call,
       Refuse, Answer, ProtocolFailed, Moved

\* What a handler's call does to one board.
LEMMA AnswerFacts ==
  ASSUME TypeOK, NEW b \in Boards, NEW r, NEW f, NEW next,
         CallAndAnswer(b, r, f, next)
  PROVE  /\ session'[b] = r.session /\ status'[b] = r.status
         /\ state'[b] = IF r.status = "OK" THEN next ELSE "FAILED"
         /\ \A c \in Boards \ {b} : /\ session'[c] = session[c]
                                    /\ status'[c] = status[c]
                                    /\ state'[c] = state[c]
BY DEF TypeOK, CallAndAnswer, Set

\* Exporting from a finished session succeeds; the state follows the outcome.
LEMMA InstallFacts ==
  ASSUME TypeOK, NEW b \in Boards, NEW outcome, NEW next,
         session[b].phase = "Done", DeriveAndInstall(b, outcome, next)
  PROVE  /\ status'[b] = "OK"
         /\ state'[b] = IF outcome = "ok" THEN next ELSE "FAILED"
         /\ \A c \in Boards \ {b} : status'[c] = status[c] /\ state'[c] = state[c]
BY DEF TypeOK, DeriveAndInstall, Set, ExportStatus

\* Every action keeps the C state and the Rust session in step.
LEMMA CallStep == TypeOK /\ CallInv /\ [Next]_vars => CallInv'
<1> SUFFICES ASSUME TypeOK, CallInv, [Next]_vars PROVE CallInv'
  OBVIOUS
<1> USE DEF CallInv, TaskStates, PhaseInStep, NeverWrongState, SessionContext
<1>0. /\ "initiator" \in Boards /\ "responder" \in Boards
      /\ "initiator" # "responder"
      /\ \A b \in Boards : b = "initiator" \/ b = "responder"
  BY DEF Boards, Roles
<1>00. \A b \in Boards : session[b] \in Sessions(Boards)
  BY DEF TypeOK
<1>1. ASSUME NEW b \in Boards, Listen(b) PROVE CallInv'
  BY <1>1 DEF TypeOK, Listen, Set, PhaseOf
<1>2. ASSUME NEW b \in Boards, PowerDown(b) PROVE CallInv'
  BY <1>2 DEF TypeOK, PowerDown, Set, PhaseOf, EmptySession, FirstState
<1>3. ASSUME NEW b \in Boards, StartApp(b) PROVE CallInv'
  <2> DEFINE r == SessionInit(session[b], b, b, Other(b), 1,
                              build[b].cred[b], build[b].key[b], boot[b])
  <2>1. CASE ~build[b].peerSet
    BY <1>3, <2>1 DEF TypeOK, StartApp, Set, PhaseOf
  <2>2. CASE build[b].peerSet /\ r.status # "OK"
    BY <1>2, <1>3, <2>2 DEF StartApp
  <2>3. CASE build[b].peerSet /\ r.status = "OK"
    <3>1. /\ r.session.role = b /\ r.session.phase = "Start"
          /\ r.session.ctx = PairContext
      BY <2>3, SessionInitFacts
    <3> HIDE DEF r
    <3>2. /\ task' = Set(task, b, "loop")
          /\ session' = Set(session, b, r.session)
          /\ status' = Set(status, b, r.status)
          /\ UNCHANGED <<state, started>>
      BY <1>3, <2>3 DEF StartApp, r
    <3>3. state[b] = FirstState(b) /\ task[b] = "listening"
      BY <1>3 DEF StartApp
    <3> QED
      BY <2>3, <3>1, <3>2, <3>3 DEF TypeOK, Set, PhaseOf, FirstState
  <2> QED
    BY <2>1, <2>2, <2>3
<1>4. ASSUME NEW b \in Boards, Restart(b) PROVE CallInv'
  BY <1>2, <1>4 DEF Restart
<1>5. ASSUME UNCHANGED <<task, state, started, session, status>> PROVE CallInv'
  BY <1>5 DEF PhaseOf
<1>6. ASSUME NEW b \in Boards, BadSession(b) PROVE CallInv'
  BY <1>6 DEF TypeOK, BadSession, Received, Set, PhaseOf
<1>7. ASSUME NEW prepared, StartHandshake(prepared) PROVE CallInv'
  <2> DEFINE b == "initiator"
             r == MakeMessage1(session[b], "ok", prepared)
  <2>1. session[b].role = b /\ session[b].phase = "Start" /\ task[b] = "loop"
    BY <1>0, <1>7 DEF StartHandshake
  <2>2. /\ r.status # "WRONG_STATE" /\ r.session.role = b
        /\ r.status = "OK" => r.session.phase = "WaitM2"
        /\ r.session.phase \notin {"Empty", "Failed"} =>
             r.session.ctx = session[b].ctx
    BY <1>0, <1>00, <2>1, HandlerFacts
  <2> HIDE DEF r
  <2>3. /\ CallAndAnswer(b, r, Frame("M1", r.out), "WAIT_M2")
        /\ started' = Set(started, b, TRUE)
        /\ UNCHANGED task
    BY <1>7 DEF StartHandshake, r
  <2>4. /\ session'[b] = r.session /\ status'[b] = r.status
        /\ state'[b] = IF r.status = "OK" THEN "WAIT_M2" ELSE "FAILED"
        /\ \A c \in Boards \ {b} : /\ session'[c] = session[c]
                                   /\ status'[c] = status[c]
                                   /\ state'[c] = state[c]
    BY <1>0, <2>3, AnswerFacts
  <2>5. /\ task' = task
        /\ started'[b]
        /\ \A c \in Boards \ {b} : started'[c] = started[c]
    BY <1>0, <2>3 DEF TypeOK, Set
  <2>6. TaskStates'
    BY <1>0, <2>1, <2>4, <2>5 DEF FirstState
  <2>7. PhaseInStep'
    <3>1. r.status = "OK" => PhaseOf(b)' = "WaitM2"
      BY <2>4 DEF PhaseOf
    <3>2. \A c \in Boards \ {b} : PhaseOf(c)' = PhaseOf(c)
      BY <2>4, <2>5 DEF PhaseOf
    <3> QED
      BY <1>0, <2>1, <2>2, <2>4, <2>5, <3>1, <3>2
  <2>8. SessionContext'
    <3>1. session[b].ctx = PairContext
      BY <1>0, <2>1
    <3> QED
      BY <1>0, <2>2, <2>4, <3>1
  <2>9. NeverWrongState'
    BY <1>0, <2>2, <2>4
  <2> QED
    BY <2>6, <2>7, <2>8, <2>9 DEF CallInv
<1>8. ASSUME ProcessM1 PROVE CallInv'
  <2> DEFINE b == "responder"
             r == ProcessMessage1(session[b], "ok", Msg(b).body)
  <2>1. task[b] = "loop" /\ state[b] = "WAIT_M1"
    BY <1>8 DEF ProcessM1, Handling, Received, Expected
  <2>2. session[b].role = b /\ session[b].phase = "Start"
    BY <1>0, <2>1 DEF PhaseOf
  <2>3. /\ r.status # "WRONG_STATE" /\ r.session.role = b
        /\ r.status = "OK" => r.session.phase = "WaitM3"
        /\ r.session.phase \notin {"Empty", "Failed"} =>
             r.session.ctx = session[b].ctx
    BY <1>0, <1>00, <2>2, HandlerFacts
  <2> HIDE DEF r
  <2>4. /\ CallAndAnswer(b, r, Frame("M2", r.out), "WAIT_M3")
        /\ UNCHANGED <<started, task>>
    BY <1>8 DEF ProcessM1, r
  <2>5. /\ session'[b] = r.session /\ status'[b] = r.status
        /\ state'[b] = IF r.status = "OK" THEN "WAIT_M3" ELSE "FAILED"
        /\ \A c \in Boards \ {b} : /\ session'[c] = session[c]
                                   /\ status'[c] = status[c]
                                   /\ state'[c] = state[c]
    BY <1>0, <2>4, AnswerFacts
  <2> QED
    BY <1>0, <2>1, <2>2, <2>3, <2>4, <2>5 DEF PhaseOf
<1>9. ASSUME ProcessM2 PROVE CallInv'
  <2> DEFINE b == "initiator"
             r == ProcessMessage2(session[b], "ok", Msg(b).body,
                                  build[b].cred["responder"])
  <2>1. task[b] = "loop" /\ state[b] = "WAIT_M2"
    BY <1>9 DEF ProcessM2, Handling, Received, Expected
  <2>2. session[b].role = b /\ session[b].phase = "WaitM2" /\ started[b]
    BY <1>0, <2>1 DEF PhaseOf
  <2>3. /\ r.status # "WRONG_STATE" /\ r.session.role = b
        /\ r.status = "OK" => r.session.phase = "Done"
        /\ r.session.phase \notin {"Empty", "Failed"} =>
             r.session.ctx = session[b].ctx
    BY <1>0, <1>00, <2>2, HandlerFacts
  <2> HIDE DEF r
  <2>4. /\ CallAndAnswer(b, r, Frame("M3", r.out), "WAIT_EDHOC_ACK")
        /\ UNCHANGED <<started, task>>
    BY <1>9 DEF ProcessM2, r
  <2>5. /\ session'[b] = r.session /\ status'[b] = r.status
        /\ state'[b] = IF r.status = "OK" THEN "WAIT_EDHOC_ACK" ELSE "FAILED"
        /\ \A c \in Boards \ {b} : /\ session'[c] = session[c]
                                   /\ status'[c] = status[c]
                                   /\ state'[c] = state[c]
    BY <1>0, <2>4, AnswerFacts
  <2> QED
    BY <1>0, <2>1, <2>2, <2>3, <2>4, <2>5 DEF PhaseOf
<1>10. ASSUME ProcessM3 PROVE CallInv'
  <2> DEFINE b == "responder"
             r == ProcessMessage3(session[b], Msg(b).body, build[b].cred["initiator"])
  <2>1. task[b] = "loop" /\ state[b] = "WAIT_M3"
    BY <1>10 DEF ProcessM3, Handling, Received, Expected
  <2>2. session[b].role = b /\ session[b].phase = "WaitM3"
    BY <1>0, <2>1 DEF PhaseOf
  <2>3. /\ r.status # "WRONG_STATE" /\ r.session.role = b
        /\ r.status = "OK" => r.session.phase = "Done"
        /\ r.session.phase \notin {"Empty", "Failed"} =>
             r.session.ctx = session[b].ctx
    BY <1>0, <1>00, <2>2, HandlerFacts
  <2> HIDE DEF r
  <2>4. /\ CallAndAnswer(b, r, Frame("ACK", Text), state[b])
        /\ task' = Set(task, b, IF r.status = "OK" THEN "switchDelay" ELSE "loop")
        /\ UNCHANGED started
    BY <1>10 DEF ProcessM3, r
  <2>5. /\ session'[b] = r.session /\ status'[b] = r.status
        /\ state'[b] = IF r.status = "OK" THEN state[b] ELSE "FAILED"
        /\ \A c \in Boards \ {b} : /\ session'[c] = session[c]
                                   /\ status'[c] = status[c]
                                   /\ state'[c] = state[c]
    BY <1>0, <2>4, AnswerFacts
  <2>6. /\ task'[b] = IF r.status = "OK" THEN "switchDelay" ELSE "loop"
        /\ \A c \in Boards \ {b} : task'[c] = task[c]
    BY <1>0, <2>4 DEF TypeOK, Set
  <2> QED
    BY <1>0, <2>1, <2>2, <2>3, <2>4, <2>5, <2>6 DEF PhaseOf
<1>11. ASSUME NEW outcome, InstallAfterDelay(outcome) PROVE CallInv'
  <2> DEFINE b == "responder"
  <2>1. task[b] = "switchDelay" /\ state[b] = "WAIT_M3" /\ session[b].phase = "Done"
    BY <1>0, <1>11 DEF InstallAfterDelay, PhaseOf
  <2>2. /\ DeriveAndInstall(b, outcome, "WAIT_KEY_TEST")
        /\ task' = Set(task, b, "loop")
        /\ UNCHANGED <<started, session>>
    BY <1>11 DEF InstallAfterDelay
  <2>3. /\ status'[b] = "OK"
        /\ state'[b] = IF outcome = "ok" THEN "WAIT_KEY_TEST" ELSE "FAILED"
        /\ \A c \in Boards \ {b} : status'[c] = status[c] /\ state'[c] = state[c]
    BY <1>0, <2>1, <2>2, InstallFacts
  <2> QED
    BY <1>0, <2>1, <2>2, <2>3 DEF TypeOK, Set, PhaseOf
<1>12. ASSUME NEW outcome, ProcessAck(outcome) PROVE CallInv'
  <2> DEFINE b == "initiator"
  <2>1. task[b] = "loop" /\ state[b] = "WAIT_EDHOC_ACK"
    BY <1>12 DEF ProcessAck, Handling, Received, Expected
  <2>2. session[b].phase = "Done" /\ session[b].role = b /\ started[b]
    BY <1>0, <2>1 DEF PhaseOf
  <2>3. /\ task' = Set(task, b, IF Verified(b) /\ outcome = "ok"
                                THEN "keyTestDelay" ELSE "loop")
        /\ UNCHANGED <<started, session>>
    BY <1>12 DEF ProcessAck
  <2>4. /\ status'[b] # "WRONG_STATE"
        /\ state'[b] = IF Verified(b) /\ outcome = "ok"
                       THEN "WAIT_KEY_TEST_ACK" ELSE "FAILED"
        /\ \A c \in Boards \ {b} : status'[c] = status[c] /\ state'[c] = state[c]
    <3>1. CASE Verified(b)
      BY <1>0, <1>12, <2>2, <3>1, InstallFacts DEF ProcessAck
    <3>2. CASE ~Verified(b)
      BY <1>0, <1>12, <3>2 DEF ProcessAck, TypeOK, Set
    <3> QED
      BY <3>1, <3>2
  <2> QED
    BY <1>0, <2>1, <2>2, <2>3, <2>4 DEF TypeOK, Set, PhaseOf
<1>13. ASSUME SendKeyTest PROVE CallInv'
  BY <1>0, <1>13 DEF TypeOK, SendKeyTest, Set, PhaseOf
<1>14. ASSUME ProcessKeyTest PROVE CallInv'
  BY <1>0, <1>14 DEF TypeOK, ProcessKeyTest, Handling, Received, Expected, Set,
                     PhaseOf
<1>15. ASSUME ProcessKeyTestAck PROVE CallInv'
  BY <1>0, <1>15 DEF TypeOK, ProcessKeyTestAck, Handling, Received, Expected, Set,
                     PhaseOf
<1>16. CASE \/ \E b \in Boards : Transmit(b)
            \/ \E b \in Boards, f \in Strays : StrayArrives(b, f)
            \/ \E b \in Boards : Ignore(b)
            \/ UNCHANGED vars
  BY <1>5, <1>16 DEF Transmit, StrayArrives, Ignore, vars, ram
<1> QED
  BY <1>1, <1>3, <1>4, <1>6, <1>7, <1>8, <1>9, <1>10, <1>11, <1>12, <1>13, <1>14,
     <1>15, <1>16 DEF Next

\* app_task makes its Lakers calls in order: the first half of the invariant.
THEOREM CallsCorrect == Spec => [](TypeOK /\ CallInv)
<1>1. Init => TypeOK /\ CallInv
  BY TypeInit, CallInit
<1>2. TypeOK /\ CallInv /\ [Next]_vars => TypeOK' /\ CallInv'
  BY TypeStep, CallStep
<1> QED
  BY <1>1, <1>2, PTL DEF Spec

\* The C state machine and the Rust session stay in step.
THEOREM StepsCorrect == Spec => []PhaseInStep
<1>1. CallInv => PhaseInStep
  BY DEF CallInv
<1> QED
  BY <1>1, CallsCorrect, PTL

\* No call of app_task is refused because it comes at the wrong time.
THEOREM StatesCorrect == Spec => []NeverWrongState
<1>1. CallInv => NeverWrongState
  BY DEF CallInv
<1> QED
  BY <1>1, CallsCorrect, PTL

-----------------------------------------------------------------------------
(* Keys are confirmed in order. *)

\* Boards that have not booted hold, send and have confirmed no key.
LEMMA KeyInit == Init => KeyInv
BY BoardFacts DEF Init, KeyInv, DerivedKeys, InstalledKey, TestsToSend,
                  KeyTestSealed, TestAcks, ConfirmedInOrder, Tasks

\* A step after which a receive queue holds nothing new, and one after which a
\* transmit queue holds no new key test.
RxKept ==
  \A c \in Boards : \A i \in 1 .. Len(rxq'[c]) :
    \E j \in 1 .. Len(rxq[c]) : rxq'[c][i] = rxq[c][j]
NoNewTest ==
  \A c \in Boards : \A i \in 1 .. Len(txq'[c]) :
    \/ txq'[c][i].type \notin {"KEY_TEST", "KEY_TEST_ACK"}
    \/ \E j \in 1 .. Len(txq[c]) : txq'[c][i] = txq[c][j]

\* A queue that is left alone gains nothing.
LEMMA KeptIfUnchanged ==
  /\ UNCHANGED rxq => RxKept
  /\ UNCHANGED txq => NoNewTest
BY DEF RxKept, NoNewTest

\* Taking a message off the receive queue adds nothing to it.
LEMMA TakenKept ==
  ASSUME TypeOK, NEW b \in Boards, Received(b), Taken(b)
  PROVE  RxKept
<1> SUFFICES ASSUME NEW c \in Boards, NEW i \in 1 .. Len(rxq'[c])
             PROVE  \E j \in 1 .. Len(rxq[c]) : rxq'[c][i] = rxq[c][j]
  BY DEF RxKept
<1>1. CASE c = b
  <2>1. rxq[b] \in Seq(Packets) /\ rxq[b] # <<>> /\ rxq'[b] = Tail(rxq[b])
    BY DEF TypeOK, Received, Taken
  <2>2. i + 1 \in 1 .. Len(rxq[b]) /\ rxq'[b][i] = rxq[b][i + 1]
    BY <1>1, <2>1, TailFacts
  <2> QED
    BY <1>1, <2>2
<1>2. CASE c # b
  BY <1>2 DEF TypeOK, Taken
<1> QED
  BY <1>1, <1>2

\* What Send adds.
LEMMA SendFacts ==
  ASSUME TypeOK, NEW b \in Boards, NEW f \in Frames, Send(b, f)
  PROVE  \A c \in Boards : \A i \in 1 .. Len(txq'[c]) :
           \/ c = b /\ txq'[c][i] = f
           \/ \E j \in 1 .. Len(txq[c]) : txq'[c][i] = txq[c][j]
<1> SUFFICES ASSUME NEW c \in Boards, NEW i \in 1 .. Len(txq'[c])
             PROVE  \/ c = b /\ txq'[c][i] = f
                    \/ \E j \in 1 .. Len(txq[c]) : txq'[c][i] = txq[c][j]
  OBVIOUS
<1>1. CASE c = b
  <2>1. txq[b] \in Seq(Frames) /\ txq'[b] = Append(txq[b], f)
    BY DEF TypeOK, Send
  <2> QED
    BY <1>1, <2>1, AppendFacts
<1>2. CASE c # b
  BY <1>2 DEF TypeOK, Send
<1> QED
  BY <1>1, <1>2

\* Sending anything but a key test adds no key test.
LEMMA SendNoTest ==
  ASSUME TypeOK, NEW b \in Boards, NEW type \in Types, NEW body \in Bodies,
         type \notin {"KEY_TEST", "KEY_TEST_ACK"}, Send(b, Frame(type, body))
  PROVE  NoNewTest
<1>1. Frame(type, body) \in Frames /\ Frame(type, body).type = type
  BY FrameType DEF Frame
<1> QED
  BY <1>1, SendFacts DEF NoNewTest

\* Nor does a handler that answers with anything but a key test, or fails.
LEMMA AnswerNoTest ==
  ASSUME TypeOK, NEW b \in Boards, NEW type \in Types, NEW r \in Answers,
         NEW body \in Bodies, NEW next,
         type \notin {"KEY_TEST", "KEY_TEST_ACK"},
         CallAndAnswer(b, r, Frame(type, body), next)
  PROVE  NoNewTest
BY SendNoTest, KeptIfUnchanged DEF CallAndAnswer

\* Queues that gain nothing of interest keep their invariants.
LEMMA QueuesKept ==
  ASSUME KeyInv, RxKept, NoNewTest, UNCHANGED <<lmk, derived, confirmed>>
  PROVE  TestsToSend' /\ KeyTestSealed' /\ TestAcks' /\ ConfirmedInOrder'
<1>1. TestsToSend'
  BY DEF KeyInv, TestsToSend, NoNewTest
<1>2. KeyTestSealed'
  BY DEF KeyInv, KeyTestSealed, RxKept
<1>3. TestAcks'
  BY DEF KeyInv, TestAcks, RxKept, IsKeyTest
<1>4. ConfirmedInOrder'
  BY DEF KeyInv, ConfirmedInOrder
<1> QED
  BY <1>1, <1>2, <1>3, <1>4

\* An exported key is not Plain: its context has a real channel.
LEMMA ExportedKey ==
  ASSUME TypeOK, CallInv, NEW b \in Boards, session[b].phase = "Done"
  PROVE  LET key == [ExportLmk(session[b]) EXCEPT !.flipped = build[b].corrupt]
         IN key.ctx = PairContext /\ key.flipped = build[b].corrupt /\ key # Plain
<1>1. session[b].ctx = PairContext
  BY DEF CallInv, SessionContext
<1>2. PairContext # NoContext
  <2>1. PairContext.channel = 1 /\ NoContext.channel = 0
    BY DEF PairContext, BuildExporterContext, NoContext
  <2> QED
    BY <2>1
<1> QED
  BY <1>1, <1>2 DEF ExportLmk, Plain, NoLmk

\* Installing the first key of a boot.
LEMMA InstallKeys ==
  ASSUME TypeOK, CallInv, KeyInv, RxKept, NoNewTest, UNCHANGED <<build, confirmed>>,
         NEW b \in Boards, NEW outcome, NEW next,
         session[b].phase = "Done", lmk[b] = Plain,
         DeriveAndInstall(b, outcome, next)
  PROVE  /\ DerivedKeys' /\ TestsToSend' /\ KeyTestSealed' /\ TestAcks'
         /\ ConfirmedInOrder'
         /\ \A c \in Boards : lmk'[c] # Plain => lmk'[c] \in derived'[c]
         /\ outcome = "ok" => lmk'[b] # Plain
         /\ \A c \in Boards \ {b} : lmk'[c] = lmk[c]
<1> DEFINE key == [ExportLmk(session[b]) EXCEPT !.flipped = build[b].corrupt]
<1>1. key.ctx = PairContext /\ key.flipped = build[b].corrupt /\ key # Plain
  BY ExportedKey
<1>2. /\ derived' = [derived EXCEPT ![b] = @ \cup {key}]
      /\ lmk' = IF outcome = "refused" THEN lmk ELSE [lmk EXCEPT ![b] = key]
  BY DEF DeriveAndInstall, ExportStatus, Record, Install, Set
<1> HIDE DEF key
<1>3. /\ derived'[b] = derived[b] \cup {key}
      /\ lmk'[b] = IF outcome = "refused" THEN Plain ELSE key
      /\ \A c \in Boards \ {b} : lmk'[c] = lmk[c] /\ derived'[c] = derived[c]
  BY <1>2 DEF TypeOK
<1>4. \A c \in Boards : derived[c] \subseteq derived'[c]
  BY <1>3
<1>5. DerivedKeys'
  BY <1>1, <1>3 DEF KeyInv, DerivedKeys
<1>6. \A c \in Boards : lmk[c] # Plain => lmk'[c] = lmk[c]
  BY <1>3
<1>7. TestsToSend'
  BY <1>6 DEF KeyInv, TestsToSend, NoNewTest
<1>8. KeyTestSealed'
  <2>1. \A c \in Boards : Other(c) \in Boards
    BY BoardFacts
  <2> SUFFICES ASSUME NEW c \in Boards, NEW i \in 1 .. Len(rxq'[c]),
                      IsKeyTest(rxq'[c][i].frame)
               PROVE  /\ rxq'[c][i].key # Plain
                      /\ rxq'[c][i].key = lmk'[c]
                      /\ rxq'[c][i].key \in derived'[Other(c)]
    BY DEF KeyTestSealed, IsKeyTest
  <2>2. PICK j \in 1 .. Len(rxq[c]) : rxq'[c][i] = rxq[c][j]
    BY DEF RxKept
  <2>3. /\ rxq[c][j].key # Plain /\ rxq[c][j].key = lmk[c]
        /\ rxq[c][j].key \in derived[Other(c)]
    BY <2>2 DEF KeyInv, KeyTestSealed
  <2> QED
    BY <1>4, <1>6, <2>1, <2>2, <2>3
<1>9. TestAcks'
  BY DEF KeyInv, TestAcks, RxKept, IsKeyTest
<1>10. ConfirmedInOrder'
  BY <1>4, BoardFacts DEF KeyInv, ConfirmedInOrder
<1>11. \A c \in Boards : lmk'[c] # Plain => lmk'[c] \in derived'[c]
  BY <1>3 DEF KeyInv, InstalledKey
<1>12. outcome = "ok" => lmk'[b] # Plain
  BY <1>1, <1>3
<1> QED
  BY <1>3, <1>5, <1>7, <1>8, <1>9, <1>10, <1>11, <1>12

\* A step that gives the queues nothing of interest and leaves the keys alone
\* keeps KeyInv if it keeps the part that speaks of states.
LEMMA KeyKept ==
  ASSUME KeyInv, RxKept, NoNewTest, UNCHANGED <<build, lmk, derived, confirmed>>,
         InstalledKey'
  PROVE  KeyInv'
<1>1. DerivedKeys'
  BY DEF KeyInv, DerivedKeys
<1> QED
  BY <1>1, QueuesKept DEF KeyInv

\* A key test at the head of the receive queue came under the installed key.
LEMMA HeadSealed ==
  ASSUME TypeOK, KeyInv, NEW b \in Boards, Received(b), IsKeyTest(Msg(b))
  PROVE  /\ lmk[b] # Plain /\ lmk[b] \in derived[b] /\ lmk[b] \in derived[Other(b)]
         /\ Msg(b).type = "KEY_TEST_ACK" => lmk[b] \in confirmed["responder"]
<1>1. /\ rxq[b] \in Seq(Packets) /\ rxq[b] # <<>>
  BY DEF TypeOK, Received
<1>2. 1 \in 1 .. Len(rxq[b]) /\ Head(rxq[b]) = rxq[b][1]
  BY <1>1, TailFacts
<1>3. Msg(b) = rxq[b][1].frame
  BY <1>2 DEF Msg
<1>4. /\ rxq[b][1].key # Plain /\ rxq[b][1].key = lmk[b]
      /\ rxq[b][1].key \in derived[Other(b)]
  BY <1>2, <1>3 DEF KeyInv, KeyTestSealed
<1>5. Msg(b).type = "KEY_TEST_ACK" => rxq[b][1].key \in confirmed["responder"]
  BY <1>2, <1>3 DEF KeyInv, TestAcks
<1> QED
  BY <1>4, <1>5 DEF KeyInv, InstalledKey

\* Every action keeps the order in which keys are confirmed.
LEMMA KeyStep == TypeOK /\ CallInv /\ KeyInv /\ [Next]_vars => KeyInv'
<1> SUFFICES ASSUME TypeOK, CallInv, KeyInv, [Next]_vars PROVE KeyInv'
  OBVIOUS
<1>0. /\ "initiator" \in Boards /\ "responder" \in Boards
      /\ "initiator" # "responder"
      /\ \A b \in Boards : b = "initiator" \/ b = "responder"
      /\ Text \in Bodies /\ NoBody \in Bodies
  BY FixedBodies DEF Boards, Roles
<1>1. ASSUME NEW b \in Boards, Listen(b) PROVE KeyInv'
  <2>1. InstalledKey'
    BY <1>1 DEF Listen, Set, history, KeyInv, InstalledKey, TypeOK
  <2> QED
    BY <1>1, <2>1, KeyKept, KeptIfUnchanged DEF Listen, history
<1>2. ASSUME NEW b \in Boards, PowerDown(b), UNCHANGED <<build, boot, history>>
      PROVE  KeyInv'
  <2>1. /\ lmk'[b] = Plain /\ rxq'[b] = <<>> /\ txq'[b] = <<>> /\ task'[b] = "down"
        /\ \A c \in Boards \ {b} :
             /\ lmk'[c] = lmk[c] /\ rxq'[c] = rxq[c] /\ txq'[c] = txq[c]
             /\ state'[c] = state[c] /\ task'[c] = task[c]
             /\ started'[c] = started[c]
        /\ UNCHANGED <<build, derived, confirmed>>
    BY <1>2 DEF TypeOK, PowerDown, Set, history
  <2>2. DerivedKeys' /\ ConfirmedInOrder'
    BY <2>1 DEF KeyInv, DerivedKeys, ConfirmedInOrder
  <2>3. InstalledKey'
    BY <2>1 DEF KeyInv, InstalledKey
  <2>4. TestsToSend'
    BY <2>1 DEF KeyInv, TestsToSend
  <2>5. KeyTestSealed'
    BY <2>1 DEF KeyInv, KeyTestSealed, IsKeyTest
  <2>6. TestAcks'
    BY <2>1 DEF KeyInv, TestAcks, IsKeyTest
  <2> QED
    BY <2>2, <2>3, <2>4, <2>5, <2>6 DEF KeyInv
<1>3. ASSUME NEW b \in Boards, StartApp(b) PROVE KeyInv'
  <2> DEFINE r == SessionInit(session[b], b, b, Other(b), 1,
                              build[b].cred[b], build[b].key[b], boot[b])
  <2>1. CASE build[b].peerSet /\ r.status # "OK"
    BY <1>2, <1>3, <2>1 DEF StartApp
  <2>2. CASE ~(build[b].peerSet /\ r.status # "OK")
    <3>1. /\ UNCHANGED <<build, state, started, lmk, rxq, txq, derived, confirmed>>
          /\ task' = Set(task, b, "halted") \/ task' = Set(task, b, "loop")
      BY <1>3, <2>2 DEF StartApp, history
    <3>2. InstalledKey'
      BY <3>1 DEF KeyInv, InstalledKey, TypeOK, Set
    <3> QED
      BY <3>1, <3>2, KeyKept, KeptIfUnchanged
  <2> QED
    BY <2>1, <2>2
<1>4. ASSUME NEW b \in Boards, Restart(b) PROVE KeyInv'
  BY <1>2, <1>4 DEF Restart
<1>5. ASSUME NEW b \in Boards, Transmit(b) PROVE KeyInv'
  <2> DEFINE o == Other(b)
             p == [frame |-> Head(txq[b]), key |-> lmk[b]]
  <2>1. /\ txq[b] \in Seq(Frames) /\ txq[b] # <<>>
        /\ o \in Boards /\ o # b /\ Other(o) = b
        /\ rxq[o] \in Seq(Packets) /\ Len(rxq[o]) <= QueueLen
    BY <1>5, BoardFacts DEF Transmit, TypeOK
  <2>2. /\ Head(txq[b]) \in Frames /\ Head(txq[b]) = txq[b][1]
        /\ 1 \in 1 .. Len(txq[b])
        /\ \A i \in 1 .. Len(Tail(txq[b])) :
             i + 1 \in 1 .. Len(txq[b]) /\ Tail(txq[b])[i] = txq[b][i + 1]
    BY <2>1, TailFacts
  <2>3. p \in Packets /\ p.frame = txq[b][1] /\ p.key = lmk[b]
    BY <2>2 DEF Packets, TypeOK
  <2>4. PICK n \in Arrivals(o, lmk[b]) : rxq' = [rxq EXCEPT ![o] = Deliver(@, p, n)]
    BY <1>5 DEF Transmit
  <2>5. n # 0 => lmk[b] \in {Plain, lmk[o]}
    BY <2>4 DEF Arrivals, Hears
  <2>6. \A i \in 1 .. Len(Deliver(rxq[o], p, n)) :
          \/ n # 0 /\ Deliver(rxq[o], p, n)[i] = p
          \/ i \in 1 .. Len(rxq[o]) /\ Deliver(rxq[o], p, n)[i] = rxq[o][i]
    BY <2>1, <2>3, DeliverFacts
  <2> HIDE DEF p, o
  <2>7. \A c \in Boards : \A i \in 1 .. Len(rxq'[c]) :
          \/ c = o /\ n # 0 /\ rxq'[c][i] = p
          \/ i \in 1 .. Len(rxq[c]) /\ rxq'[c][i] = rxq[c][i]
    BY <2>1, <2>4, <2>6 DEF TypeOK
  <2>8. UNCHANGED <<build, task, state, started, lmk, derived, confirmed>>
    BY <1>5 DEF Transmit, history
  <2>9. DerivedKeys' /\ InstalledKey' /\ ConfirmedInOrder'
    BY <2>8 DEF KeyInv, DerivedKeys, InstalledKey, ConfirmedInOrder
  <2>10. NoNewTest
    <3>1. txq' = [txq EXCEPT ![b] = Tail(@)]
      BY <1>5 DEF Transmit
    <3> QED
      BY <2>2, <3>1 DEF NoNewTest, TypeOK
  <2>11. TestsToSend'
    BY <2>8, <2>10 DEF KeyInv, TestsToSend, NoNewTest
  <2>12. IsKeyTest(p.frame) =>
           /\ p.key # Plain
           /\ p.frame.type = "KEY_TEST_ACK" => p.key \in confirmed["responder"]
    BY <2>2, <2>3 DEF KeyInv, TestsToSend, IsKeyTest
  <2>13. n # 0 /\ IsKeyTest(p.frame) => p.key = lmk[o] /\ p.key \in derived[Other(o)]
    BY <2>1, <2>3, <2>5, <2>12 DEF KeyInv, InstalledKey
  <2>14. KeyTestSealed'
    BY <2>1, <2>7, <2>8, <2>12, <2>13 DEF KeyInv, KeyTestSealed, IsKeyTest
  <2>15. TestAcks'
    BY <2>1, <2>7, <2>8, <2>12 DEF KeyInv, TestAcks, IsKeyTest
  <2> QED
    BY <2>9, <2>11, <2>14, <2>15 DEF KeyInv
<1>6. ASSUME NEW b \in Boards, NEW f \in Strays, StrayArrives(b, f) PROVE KeyInv'
  <2> DEFINE p == [frame |-> f, key |-> Plain]
  <2>1. f \in Frames /\ ~IsKeyTest(f)
    BY StraysAssumption DEF IsKeyTest, Text, Body
  <2>2. p \in Packets /\ p.frame = f
    BY <2>1, PlainType DEF Packets
  <2>3. \A i \in 1 .. Len(Push(rxq[b], p)) :
          \/ Push(rxq[b], p)[i] = p
          \/ i \in 1 .. Len(rxq[b]) /\ Push(rxq[b], p)[i] = rxq[b][i]
    BY <2>2, PushFacts DEF TypeOK
  <2>4. rxq' = [rxq EXCEPT ![b] = Push(@, p)]
    BY <1>6 DEF StrayArrives
  <2> HIDE DEF p
  <2>5. \A c \in Boards : \A i \in 1 .. Len(rxq'[c]) :
          \/ rxq'[c][i] = p
          \/ i \in 1 .. Len(rxq[c]) /\ rxq'[c][i] = rxq[c][i]
    BY <2>3, <2>4 DEF TypeOK
  <2>6. UNCHANGED <<build, task, state, started, lmk, txq, derived, confirmed>>
    BY <1>6 DEF StrayArrives, history
  <2>7. DerivedKeys' /\ InstalledKey' /\ ConfirmedInOrder' /\ TestsToSend'
    BY <2>6 DEF KeyInv, DerivedKeys, InstalledKey, ConfirmedInOrder, TestsToSend
  <2>8. KeyTestSealed'
    BY <2>1, <2>2, <2>5, <2>6 DEF KeyInv, KeyTestSealed, IsKeyTest
  <2>9. TestAcks'
    BY <2>1, <2>2, <2>5, <2>6 DEF KeyInv, TestAcks, IsKeyTest
  <2> QED
    BY <2>7, <2>8, <2>9 DEF KeyInv
<1>7. ASSUME NEW b \in Boards, BadSession(b) PROVE KeyInv'
  <2>1. /\ Received(b) /\ Taken(b) /\ state' = Set(state, b, "FAILED")
        /\ UNCHANGED <<build, task, started, lmk, txq, derived, confirmed>>
    BY <1>7 DEF BadSession, history
  <2>2. InstalledKey'
    BY <2>1 DEF KeyInv, InstalledKey, TypeOK, Set
  <2> QED
    BY <2>1, <2>2, KeyKept, KeptIfUnchanged, TakenKept
<1>8. ASSUME NEW b \in Boards, Ignore(b) PROVE KeyInv'
  <2>1. /\ Received(b) /\ Taken(b)
        /\ UNCHANGED <<build, task, state, started, lmk, txq, derived, confirmed>>
    BY <1>8 DEF Ignore, history
  <2>2. InstalledKey'
    BY <2>1 DEF KeyInv, InstalledKey
  <2> QED
    BY <2>1, <2>2, KeyKept, KeptIfUnchanged, TakenKept
<1>9. ASSUME NEW prepared, StartHandshake(prepared) PROVE KeyInv'
  <2> DEFINE b == "initiator"
             r == MakeMessage1(session[b], "ok", prepared)
  <2>1. r \in Answers
    BY <1>0, MessageTypes DEF TypeOK
  <2> HIDE DEF r
  <2>2. /\ CallAndAnswer(b, r, Frame("M1", r.out), "WAIT_M2") /\ ~started[b]
        /\ started' = Set(started, b, TRUE)
        /\ UNCHANGED <<build, task, lmk, rxq, derived, confirmed>>
    BY <1>9 DEF StartHandshake, r, history
  <2>3. /\ state'[b] \in {"WAIT_M2", "FAILED"}
        /\ \A c \in Boards \ {b} : state'[c] = state[c]
    BY <1>0, <2>2, AnswerFacts
  <2>4. NoNewTest
    BY <1>0, <2>1, <2>2, AnswerNoTest DEF Answers, Types
  <2>5. lmk[b] = Plain /\ task[b] # "keyTestDelay"
    BY <1>0, <1>9, <2>2 DEF StartHandshake, KeyInv, InstalledKey
  <2>6. \A c \in Boards \ {b} : started'[c] = started[c]
    BY <2>2 DEF TypeOK, Set
  <2>7. InstalledKey'
    BY <1>0, <2>2, <2>3, <2>5, <2>6 DEF KeyInv, InstalledKey
  <2> QED
    BY <2>2, <2>4, <2>7, KeyKept, KeptIfUnchanged
<1>10. ASSUME ProcessM1 PROVE KeyInv'
  <2> DEFINE b == "responder"
             r == ProcessMessage1(session[b], "ok", Msg(b).body)
  <2>1. Received(b) /\ Taken(b) /\ state[b] = "WAIT_M1"
    BY <1>10 DEF ProcessM1, Handling, Expected
  <2>2. r \in Answers
    <3>1. Msg(b).body \in Bodies
      BY <1>0, <2>1, TakenType DEF Frames
    <3> QED
      BY <1>0, <3>1, MessageTypes DEF TypeOK
  <2> HIDE DEF r
  <2>3. /\ CallAndAnswer(b, r, Frame("M2", r.out), "WAIT_M3")
        /\ UNCHANGED <<build, task, started, lmk, derived, confirmed>>
    BY <1>10 DEF ProcessM1, r, history
  <2>4. /\ state'[b] \in {"WAIT_M3", "FAILED"}
        /\ \A c \in Boards \ {b} : state'[c] = state[c]
    BY <1>0, <2>3, AnswerFacts
  <2>5. NoNewTest
    BY <1>0, <2>2, <2>3, AnswerNoTest DEF Answers, Types
  <2>6. InstalledKey'
    BY <1>0, <2>1, <2>3, <2>4 DEF KeyInv, InstalledKey
  <2> QED
    BY <1>0, <2>1, <2>3, <2>5, <2>6, KeyKept, TakenKept
<1>11. ASSUME ProcessM2 PROVE KeyInv'
  <2> DEFINE b == "initiator"
             r == ProcessMessage2(session[b], "ok", Msg(b).body,
                                  build[b].cred["responder"])
  <2>1. Received(b) /\ Taken(b) /\ state[b] = "WAIT_M2"
    BY <1>11 DEF ProcessM2, Handling, Expected
  <2>2. r \in Answers
    <3>1. Msg(b).body \in Bodies
      BY <1>0, <2>1, TakenType DEF Frames
    <3> QED
      BY <1>0, <3>1, MessageTypes DEF TypeOK
  <2> HIDE DEF r
  <2>3. /\ CallAndAnswer(b, r, Frame("M3", r.out), "WAIT_EDHOC_ACK")
        /\ UNCHANGED <<build, task, started, lmk, derived, confirmed>>
    BY <1>11 DEF ProcessM2, r
  <2>4. /\ state'[b] \in {"WAIT_EDHOC_ACK", "FAILED"}
        /\ \A c \in Boards \ {b} : state'[c] = state[c]
    BY <1>0, <2>3, AnswerFacts
  <2>5. NoNewTest
    BY <1>0, <2>2, <2>3, AnswerNoTest DEF Answers, Types
  <2>6. InstalledKey'
    BY <1>0, <2>1, <2>3, <2>4 DEF KeyInv, InstalledKey
  <2> QED
    BY <1>0, <2>1, <2>3, <2>5, <2>6, KeyKept, TakenKept
<1>12. ASSUME ProcessM3 PROVE KeyInv'
  <2> DEFINE b == "responder"
             r == ProcessMessage3(session[b], Msg(b).body, build[b].cred["initiator"])
  <2>1. Received(b) /\ Taken(b) /\ state[b] = "WAIT_M3"
    BY <1>12 DEF ProcessM3, Handling, Expected
  <2>2. r \in Answers
    <3>1. Msg(b).body \in Bodies
      BY <1>0, <2>1, TakenType DEF Frames
    <3> QED
      BY <1>0, <3>1, MessageTypes DEF TypeOK
  <2> HIDE DEF r
  <2>3. /\ CallAndAnswer(b, r, Frame("ACK", Text), state[b])
        /\ task' = Set(task, b, IF r.status = "OK" THEN "switchDelay" ELSE "loop")
        /\ UNCHANGED <<build, started, lmk, derived, confirmed>>
    BY <1>12 DEF ProcessM3, r
  <2>4. /\ state'[b] \in {"WAIT_M3", "FAILED"}
        /\ \A c \in Boards \ {b} : state'[c] = state[c]
    BY <1>0, <2>1, <2>3, AnswerFacts
  <2>5. /\ task'[b] # "keyTestDelay"
        /\ \A c \in Boards \ {b} : task'[c] = task[c]
    BY <1>0, <2>3 DEF TypeOK, Set
  <2>6. NoNewTest
    BY <1>0, <2>2, <2>3, AnswerNoTest DEF Types
  <2>7. InstalledKey'
    BY <1>0, <2>1, <2>3, <2>4, <2>5 DEF KeyInv, InstalledKey
  <2> QED
    BY <1>0, <2>1, <2>3, <2>6, <2>7, KeyKept, TakenKept
<1>13. ASSUME NEW outcome, InstallAfterDelay(outcome) PROVE KeyInv'
  <2> DEFINE b == "responder"
  <2>1. task[b] = "switchDelay" /\ state[b] = "WAIT_M3"
    BY <1>0, <1>13 DEF InstallAfterDelay, CallInv, TaskStates
  <2>2. session[b].phase = "Done"
    BY <1>0, <2>1 DEF CallInv, PhaseInStep, PhaseOf
  <2>3. lmk[b] = Plain
    BY <1>0, <2>1 DEF KeyInv, InstalledKey
  <2>4. /\ DeriveAndInstall(b, outcome, "WAIT_KEY_TEST")
        /\ task' = Set(task, b, "loop")
        /\ UNCHANGED <<build, started, rxq, txq, confirmed>>
    BY <1>13 DEF InstallAfterDelay
  <2>5. /\ DerivedKeys' /\ TestsToSend' /\ KeyTestSealed' /\ TestAcks'
        /\ ConfirmedInOrder'
        /\ \A c \in Boards : lmk'[c] # Plain => lmk'[c] \in derived'[c]
        /\ \A c \in Boards \ {b} : lmk'[c] = lmk[c]
    BY <1>0, <2>2, <2>3, <2>4, KeptIfUnchanged, InstallKeys
  <2>6. /\ state'[b] \in {"WAIT_KEY_TEST", "FAILED"}
        /\ \A c \in Boards \ {b} : state'[c] = state[c]
    BY <1>0, <2>2, <2>4, InstallFacts
  <2>7. /\ task'[b] = "loop"
        /\ \A c \in Boards \ {b} : task'[c] = task[c]
    BY <1>0, <2>4 DEF TypeOK, Set
  <2>8. InstalledKey'
    BY <1>0, <2>4, <2>5, <2>6, <2>7 DEF KeyInv, InstalledKey
  <2> QED
    BY <2>5, <2>8 DEF KeyInv
<1>14. ASSUME NEW outcome, ProcessAck(outcome) PROVE KeyInv'
  <2> DEFINE b == "initiator"
  <2>1. /\ Received(b) /\ Taken(b) /\ state[b] = "WAIT_EDHOC_ACK"
        /\ task[b] = "loop"
    BY <1>14 DEF ProcessAck, Handling, Expected, Received
  <2>2. session[b].phase = "Done" /\ started[b]
    BY <1>0, <2>1 DEF CallInv, PhaseInStep, TaskStates, PhaseOf
  <2>3. lmk[b] = Plain
    BY <1>0, <2>1 DEF KeyInv, InstalledKey
  <2>4. RxKept /\ NoNewTest /\ UNCHANGED <<build, started, txq, confirmed>>
    BY <1>0, <1>14, <2>1, TakenKept, KeptIfUnchanged DEF ProcessAck
  <2>5. CASE Verified(b)
    <3>1. /\ DeriveAndInstall(b, outcome, "WAIT_KEY_TEST_ACK")
          /\ task' = Set(task, b, IF outcome = "ok" THEN "keyTestDelay" ELSE "loop")
      BY <1>14, <2>5 DEF ProcessAck
    <3>2. /\ DerivedKeys' /\ TestsToSend' /\ KeyTestSealed' /\ TestAcks'
          /\ ConfirmedInOrder'
          /\ \A c \in Boards : lmk'[c] # Plain => lmk'[c] \in derived'[c]
          /\ outcome = "ok" => lmk'[b] # Plain
          /\ \A c \in Boards \ {b} : lmk'[c] = lmk[c]
      BY <1>0, <2>2, <2>3, <2>4, <3>1, InstallKeys
    <3>3. /\ state'[b] \in {"WAIT_KEY_TEST_ACK", "FAILED"}
          /\ \A c \in Boards \ {b} : state'[c] = state[c]
      BY <1>0, <2>2, <3>1, InstallFacts
    <3>4. /\ task'[b] = "keyTestDelay" => outcome = "ok"
          /\ \A c \in Boards \ {b} : task'[c] = task[c]
      BY <1>0, <3>1 DEF TypeOK, Set
    <3>5. started' = started
      BY <2>4
    <3>6. InstalledKey'
      BY <1>0, <2>2, <3>2, <3>3, <3>4, <3>5 DEF KeyInv, InstalledKey
    <3> QED
      BY <3>2, <3>6 DEF KeyInv
  <2>6. CASE ~Verified(b)
    <3>1. /\ state' = Set(state, b, "FAILED") /\ task' = Set(task, b, "loop")
          /\ UNCHANGED <<build, started, lmk, derived, confirmed>>
      BY <1>14, <2>6 DEF ProcessAck
    <3>2. InstalledKey'
      BY <1>0, <2>3, <3>1 DEF KeyInv, InstalledKey, TypeOK, Set
    <3> QED
      BY <2>4, <3>1, <3>2, KeyKept
  <2> QED
    BY <2>5, <2>6
<1>15. ASSUME SendKeyTest PROVE KeyInv'
  <2> DEFINE b == "initiator"
             f == Frame("KEY_TEST", Text)
  <2>1. /\ task[b] = "keyTestDelay" /\ Send(b, f) /\ task' = Set(task, b, "loop")
        /\ UNCHANGED <<build, state, started, lmk, rxq, derived, confirmed>>
    BY <1>15 DEF SendKeyTest, history
  <2>2. lmk[b] # Plain
    BY <1>0, <2>1 DEF KeyInv, InstalledKey
  <2>3. f \in Frames /\ f.type = "KEY_TEST"
    BY <1>0, FrameType DEF Types, Frame
  <2> HIDE DEF f
  <2>4. \A c \in Boards : \A i \in 1 .. Len(txq'[c]) :
          \/ c = b /\ txq'[c][i] = f
          \/ \E j \in 1 .. Len(txq[c]) : txq'[c][i] = txq[c][j]
    BY <1>0, <2>1, <2>3, SendFacts
  <2>5. TestsToSend'
    BY <2>1, <2>2, <2>3, <2>4 DEF KeyInv, TestsToSend
  <2>6. KeyTestSealed' /\ TestAcks'
    BY <2>1 DEF KeyInv, KeyTestSealed, TestAcks, IsKeyTest
  <2>7. DerivedKeys' /\ ConfirmedInOrder'
    BY <2>1 DEF KeyInv, DerivedKeys, ConfirmedInOrder
  <2>8. InstalledKey'
    BY <1>0, <2>1 DEF KeyInv, InstalledKey, TypeOK, Set
  <2> QED
    BY <2>5, <2>6, <2>7, <2>8 DEF KeyInv
<1>16. ASSUME ProcessKeyTest PROVE KeyInv'
  <2> DEFINE b == "responder"
             i == "initiator"
             f == Frame("KEY_TEST_ACK", Text)
  <2>1. /\ Received(b) /\ Taken(b) /\ Msg(b).sid = "ours" /\ Msg(b).type = "KEY_TEST"
        /\ task[b] = "loop" /\ state[b] = "WAIT_KEY_TEST"
        /\ state' = Set(state, b, IF Verified(b) THEN "COMPLETE" ELSE "FAILED")
        /\ IF Verified(b) THEN Send(b, f) ELSE UNCHANGED txq
        /\ Record(confirmed, b, lmk[b], Verified(b))
        /\ UNCHANGED <<build, task, started, lmk, derived>>
    BY <1>16 DEF ProcessKeyTest, Handling, Received, Expected
  <2>2. RxKept
    BY <1>0, <2>1, TakenKept
  <2>3. InstalledKey'
    BY <1>0, <2>1 DEF KeyInv, InstalledKey, TypeOK, Set
  <2>4. DerivedKeys'
    BY <2>1 DEF KeyInv, DerivedKeys
  <2>5. KeyTestSealed'
    BY <2>1, <2>2 DEF KeyInv, KeyTestSealed, RxKept, IsKeyTest
  <2>6. /\ confirmed'[b] = IF Verified(b) THEN confirmed[b] \cup {lmk[b]} ELSE confirmed[b]
        /\ confirmed'[i] = confirmed[i]
    BY <1>0, <2>1 DEF Record, TypeOK
  <2>7. TestAcks'
    BY <2>2, <2>6 DEF KeyInv, TestAcks, RxKept, IsKeyTest
  <2>8. Verified(b) => /\ lmk[b] # Plain
                       /\ lmk[b] \in derived[i] \cap derived[b]
    <3>1. Verified(b) => IsKeyTest(Msg(b))
      BY <2>1 DEF Verified, IsKeyTest
    <3>2. Other(b) = i
      BY DEF Other
    <3> QED
      BY <1>0, <2>1, <3>1, <3>2, HeadSealed
  <2>9. ConfirmedInOrder'
    BY <2>1, <2>6, <2>8 DEF KeyInv, ConfirmedInOrder
  <2>10. TestsToSend'
    <3>1. CASE Verified(b)
      <4>1. f \in Frames
        BY <1>0, FrameType DEF Types
      <4> HIDE DEF f
      <4>2. \A c \in Boards : \A j \in 1 .. Len(txq'[c]) :
              \/ c = b /\ txq'[c][j] = f
              \/ \E k \in 1 .. Len(txq[c]) : txq'[c][j] = txq[c][k]
        BY <1>0, <2>1, <3>1, <4>1, SendFacts
      <4>3. lmk[b] # Plain /\ lmk[b] \in confirmed'[b]
        BY <2>6, <2>8, <3>1
      <4> QED
        BY <2>1, <2>6, <4>2, <4>3 DEF KeyInv, TestsToSend
    <3>2. CASE ~Verified(b)
      BY <2>1, <2>6, <3>2 DEF KeyInv, TestsToSend
    <3> QED
      BY <3>1, <3>2
  <2> QED
    BY <2>3, <2>4, <2>5, <2>7, <2>9, <2>10 DEF KeyInv
<1>17. ASSUME ProcessKeyTestAck PROVE KeyInv'
  <2> DEFINE b == "initiator"
             r == "responder"
  <2>1. /\ Received(b) /\ Taken(b)
        /\ Msg(b).sid = "ours" /\ Msg(b).type = "KEY_TEST_ACK"
        /\ task[b] = "loop" /\ state[b] = "WAIT_KEY_TEST_ACK"
        /\ state' = Set(state, b, IF Verified(b) THEN "COMPLETE" ELSE "FAILED")
        /\ Record(confirmed, b, lmk[b], Verified(b))
        /\ UNCHANGED <<build, task, started, lmk, txq, derived>>
    BY <1>17 DEF ProcessKeyTestAck, Handling, Received, Expected
  <2>2. started[b] /\ RxKept
    BY <1>0, <2>1, TakenKept DEF CallInv, TaskStates
  <2>3. InstalledKey'
    BY <1>0, <2>1, <2>2 DEF KeyInv, InstalledKey, TypeOK, Set
  <2>4. DerivedKeys'
    BY <2>1 DEF KeyInv, DerivedKeys
  <2>5. KeyTestSealed'
    BY <2>1, <2>2 DEF KeyInv, KeyTestSealed, RxKept, IsKeyTest
  <2>6. /\ confirmed'[b] = IF Verified(b) THEN confirmed[b] \cup {lmk[b]} ELSE confirmed[b]
        /\ confirmed'[r] = confirmed[r]
    BY <1>0, <2>1 DEF Record, TypeOK
  <2>7. TestAcks'
    BY <2>2, <2>6 DEF KeyInv, TestAcks, RxKept, IsKeyTest
  <2>8. TestsToSend'
    BY <2>1, <2>6 DEF KeyInv, TestsToSend
  <2>9. Verified(b) => lmk[b] \in confirmed[r]
    <3>1. Verified(b) => IsKeyTest(Msg(b))
      BY <2>1 DEF Verified, IsKeyTest
    <3> QED
      BY <1>0, <2>1, <3>1, HeadSealed
  <2>10. ConfirmedInOrder'
    BY <2>1, <2>6, <2>9 DEF KeyInv, ConfirmedInOrder
  <2> QED
    BY <2>3, <2>4, <2>5, <2>7, <2>8, <2>10 DEF KeyInv
<1>18. CASE UNCHANGED vars
  <2>1. UNCHANGED <<build, task, state, started, lmk, rxq, txq, derived, confirmed>>
    BY <1>18 DEF vars, ram, history
  <2>2. InstalledKey'
    BY <2>1 DEF KeyInv, InstalledKey
  <2> QED
    BY <2>1, <2>2, KeyKept, KeptIfUnchanged
<1> QED
  BY <1>1, <1>3, <1>4, <1>5, <1>6, <1>7, <1>8, <1>9, <1>10, <1>11, <1>12, <1>13,
     <1>14, <1>15, <1>16, <1>17, <1>18 DEF Next

\* The inductive invariant holds.
THEOREM KeysCorrect == Spec => [](TypeOK /\ CallInv /\ KeyInv)
<1>1. Init => TypeOK /\ CallInv /\ KeyInv
  BY TypeInit, CallInit, KeyInit
<1>2. TypeOK /\ CallInv /\ KeyInv /\ [Next]_vars => TypeOK' /\ CallInv' /\ KeyInv'
  BY TypeStep, CallStep, KeyStep
<1> QED
  BY <1>1, <1>2, PTL DEF Spec

\* The initiator verifies a KEY_TEST_ACK only under keys the responder verified a
\* KEY_TEST under, and both derived those.
THEOREM KeysConfirmedInOrder == Spec => []ConfirmedInOrder
<1>1. KeyInv => ConfirmedInOrder
  BY DEF KeyInv
<1> QED
  BY <1>1, KeysCorrect, PTL

\* A key test that waits in a receive queue came in under the installed key.
THEOREM TestsSealed == Spec => []KeyTestSealed
<1>1. KeyInv => KeyTestSealed
  BY DEF KeyInv
<1> QED
  BY <1>1, KeysCorrect, PTL

\* With the LMK corrupted on exactly one board neither verifies a key test.
THEOREM CorruptionExcluded == Spec => []CorruptionNeverPasses
<1>1. KeyInv => CorruptionNeverPasses
  <2> SUFFICES ASSUME KeyInv, NEW b \in Boards, NEW k \in confirmed[b]
               PROVE  build["initiator"].corrupt = build["responder"].corrupt
    BY DEF CorruptionNeverPasses
  <2>1. k \in derived["initiator"] /\ k \in derived["responder"]
    BY DEF KeyInv, ConfirmedInOrder, Boards, Roles
  <2> QED
    BY <2>1, BoardFacts DEF KeyInv, DerivedKeys
<1> QED
  BY <1>1, KeysCorrect, PTL

-----------------------------------------------------------------------------
(* FAILED. *)

\* Only a reset or the initiator's one start leaves FAILED.
THEOREM FailedStays == Spec => FailedSticky
<1> DEFINE Sticks ==
      \A b \in Boards : state[b] = "FAILED" /\ state'[b] # "FAILED" =>
        \/ task'[b] = "down"
        \/ b = "initiator" /\ ~started[b] /\ state'[b] = "WAIT_M2"
<1>1. TypeOK /\ CallInv /\ KeyInv /\ [Next]_vars => [Sticks]_vars
  <2> SUFFICES ASSUME TypeOK, CallInv, [Next]_vars PROVE Sticks \/ UNCHANGED vars
    OBVIOUS
  <2>0. "initiator" \in Boards /\ "responder" \in Boards
    BY DEF Boards, Roles
  <2>1. ASSUME UNCHANGED state PROVE Sticks
    BY <2>1
  <2>2. ASSUME NEW b \in Boards, PowerDown(b) PROVE Sticks
    BY <2>2 DEF TypeOK, PowerDown, Set
  <2>3. ASSUME NEW b \in Boards, StartApp(b) PROVE Sticks
    BY <2>1, <2>2, <2>3 DEF StartApp
  <2>4. ASSUME NEW prepared, StartHandshake(prepared) PROVE Sticks
    <3> DEFINE b == "initiator"
               r == MakeMessage1(session[b], "ok", prepared)
    <3> HIDE DEF r
    <3>1. CallAndAnswer(b, r, Frame("M1", r.out), "WAIT_M2") /\ ~started[b]
      BY <2>4 DEF StartHandshake, r
    <3>2. /\ state'[b] \in {"WAIT_M2", "FAILED"}
          /\ \A c \in Boards \ {b} : state'[c] = state[c]
      BY <2>0, <3>1, AnswerFacts
    <3> QED
      BY <3>1, <3>2
  <2>5. ASSUME NEW b \in Boards, state[b] # "FAILED",
               \A c \in Boards \ {b} : state'[c] = state[c]
        PROVE  Sticks
    BY <2>5
  <2>6. ASSUME NEW b \in Boards, NEW type, Handling(b, type)
        PROVE  state[b] # "FAILED"
    BY <2>6 DEF Handling, Expected
  <2>7. CASE ProcessM1
    BY <2>0, <2>5, <2>6, <2>7 DEF ProcessM1, CallAndAnswer, Set, TypeOK
  <2>8. CASE ProcessM2
    BY <2>0, <2>5, <2>6, <2>8 DEF ProcessM2, CallAndAnswer, Set, TypeOK
  <2>9. CASE ProcessM3
    BY <2>0, <2>5, <2>6, <2>9 DEF ProcessM3, CallAndAnswer, Set, TypeOK
  <2>10. CASE ProcessKeyTest
    BY <2>0, <2>5, <2>6, <2>10 DEF ProcessKeyTest, Set, TypeOK
  <2>11. CASE ProcessKeyTestAck
    BY <2>0, <2>5, <2>6, <2>11 DEF ProcessKeyTestAck, Set, TypeOK
  <2>12. ASSUME NEW outcome, InstallAfterDelay(outcome) PROVE Sticks
    <3>1. state["responder"] = "WAIT_M3"
      BY <2>0, <2>12 DEF InstallAfterDelay, CallInv, TaskStates
    <3> QED
      BY <2>0, <2>5, <2>12, <3>1 DEF InstallAfterDelay, DeriveAndInstall, Set, TypeOK
  <2>13. ASSUME NEW outcome, ProcessAck(outcome) PROVE Sticks
    BY <2>0, <2>5, <2>6, <2>13 DEF ProcessAck, DeriveAndInstall, Set, TypeOK
  <2>14. CASE \E b \in Boards : BadSession(b)
    BY <2>14 DEF BadSession, Set, TypeOK
  <2>15. CASE \/ \E b \in Boards : Listen(b) \/ Transmit(b) \/ Ignore(b)
              \/ \E b \in Boards, f \in Strays : StrayArrives(b, f)
              \/ SendKeyTest
              \/ UNCHANGED vars
    BY <2>1, <2>15 DEF Listen, Transmit, Ignore, StrayArrives, SendKeyTest, vars, ram
  <2>16. CASE \E b \in Boards : Restart(b)
    BY <2>2, <2>16 DEF Restart
  <2> HIDE DEF Sticks
  <2> QED
    BY <2>3, <2>4, <2>7, <2>8, <2>9, <2>10, <2>11, <2>12, <2>13, <2>14, <2>15,
       <2>16 DEF Next
<1> QED
  BY <1>1, KeysCorrect, PTL DEF Spec, FailedSticky
=============================================================================
