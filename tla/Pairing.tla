------------------------------- MODULE Pairing -------------------------------
(***************************************************************************)
(* The two boards of main/main.c pairing over ESP-NOW: boot, the handshake *)
(* state machine of app_task and handle_received_message, the Rust session *)
(* it drives (module LakersFfi), the ESP-NOW driver's transmit queue and   *)
(* peer key, and the receive queue the Wi-Fi callback fills.               *)
(*                                                                         *)
(* Each board is one application task, which runs a handler to its end or  *)
(* to a vTaskDelay inside it, and a driver, which puts queued frames on    *)
(* the air later and calls back on reception.  Frames are lost or arrive   *)
(* twice, boards abort (every send is under ESP_ERROR_CHECK) or lose power *)
(* and come back with an empty RAM.                                        *)
(***************************************************************************)
EXTENDS LakersFfi, Sequences

CONSTANTS
  MaxBoots,   \* bound: how often a board may boot
  QueueLen,   \* ESPNOW_TRANSPORT_RX_QUEUE_LEN
  Copies,     \* how many copies of a frame on the air may reach the peer
  Faults,     \* ways in which Lakers or key_manager may fail
  Timely,     \* whether the delays of device_config.h are long enough
  Strays,     \* frames of other firmware the board may overhear
  Builds      \* what was compiled into the two boards

Boards == Roles
Other(b) == IF b = "initiator" THEN "responder" ELSE "initiator"

States == {"IDLE", "WAIT_M1", "WAIT_M2", "WAIT_M3", "WAIT_EDHOC_ACK",
           "WAIT_KEY_TEST", "WAIT_KEY_TEST_ACK", "COMPLETE", "FAILED"}

\* Where a board is: not running, before app_task exists (frames are already
\* queued), halted for want of a peer MAC, at the top of the app_task loop, or
\* asleep in one of the two delays inside a handler.
Tasks == {"down", "listening", "halted", "loop", "switchDelay", "keyTestDelay"}

\* edhoc_transport_msg_type_t; "unparsable" is what edhoc_transport_parse_rx
\* refuses.  Headers carry the session ID; seq is written and never read.
Types == {"M1", "M2", "M3", "ACK", "KEY_TEST", "KEY_TEST_ACK", "unparsable"}
SessionIds == {"ours", "theirs"}
Frames == [type : Types, sid : SessionIds, body : Bodies]
Frame(type, body) == [type |-> type, sid |-> "ours", body |-> body]

\* The fixed texts of ACK, KEY_TEST and KEY_TEST_ACK.
Text == Body("text", 0, 0, "nobody")

LmkTypes == Lmks(Boards)
\* A peer that is not encrypted, and the key of a frame sent in the clear.
Plain == NoLmk
Packets == [frame : Frames, key : LmkTypes]

BuildTypes ==
  [cred : [Roles -> Credentials], key : [Roles -> {"original", "altered"}],
   corrupt : BOOLEAN, peerSet : BOOLEAN]

ASSUME PairingAssumption ==
  /\ MaxBoots \in Nat \ {0}
  /\ QueueLen \in Nat \ {0}
  /\ Copies \subseteq {0, 1, 2}
  /\ Faults \subseteq {"prepare", "refused", "unread"}
  /\ Timely \in BOOLEAN
  /\ Builds \subseteq [Boards -> BuildTypes]

\* A frame of other firmware is not one of this pair's: it does not parse,
\* carries another session ID, or its payload is no message of this protocol.
ASSUME StraysAssumption ==
  /\ Strays \subseteq Frames
  /\ \A f \in Strays : \/ f.type = "unparsable"
                       \/ f.sid = "theirs"
                       \/ f.body.kind \in {"garbage", "none"}

VARIABLES
  build,      \* the constants compiled into each board
  boot,       \* how often each board has booted
  task, state, started, session,   \* app_main's and app_task's RAM
  lmk,        \* the peer's key in the ESP-NOW driver, Plain if encrypt=false
  rxq, txq,   \* s_rx_queue, and the frames the driver has accepted to send
  status,     \* what the last Lakers call of this boot returned
  accepted, derived, confirmed   \* history: what each board has ever logged:
              \* transcripts it authenticated, LMKs it exported, and LMKs under
              \* which it verified a KEY_TEST or KEY_TEST_ACK (main.c:253-258)

ram == <<task, state, started, session, lmk, rxq, txq, status>>
history == <<accepted, derived, confirmed>>
vars == <<build, boot, ram, history>>

-----------------------------------------------------------------------------
FirstState(b) == IF b = "initiator" THEN "IDLE" ELSE "WAIT_M1"

Init ==
  /\ build \in Builds
  /\ boot = [b \in Boards |-> 0]
  /\ task = [b \in Boards |-> "down"]
  /\ state = [b \in Boards |-> FirstState(b)]
  /\ started = [b \in Boards |-> FALSE]
  /\ session = [b \in Boards |-> EmptySession]
  /\ lmk = [b \in Boards |-> Plain]
  /\ rxq = [b \in Boards |-> <<>>]
  /\ txq = [b \in Boards |-> <<>>]
  /\ status = [b \in Boards |-> "OK"]
  /\ accepted = [b \in Boards |-> {}]
  /\ derived = [b \in Boards |-> {}]
  /\ confirmed = [b \in Boards |-> {}]

Set(f, b, v) == [f EXCEPT ![b] = v]

\* A reset: nothing of a pairing is kept in flash.
PowerDown(b) ==
  /\ task' = Set(task, b, "down")
  /\ state' = Set(state, b, FirstState(b))
  /\ started' = Set(started, b, FALSE)
  /\ session' = Set(session, b, EmptySession)
  /\ lmk' = Set(lmk, b, Plain)
  /\ rxq' = Set(rxq, b, <<>>)
  /\ txq' = Set(txq, b, <<>>)
  /\ status' = Set(status, b, "OK")

\* app_main up to espnow_transport_init, which creates the receive queue and
\* registers the callback that fills it.
Listen(b) ==
  /\ task[b] = "down"
  /\ boot[b] < MaxBoots
  /\ boot' = [boot EXCEPT ![b] = @ + 1]
  /\ task' = Set(task, b, "listening")
  /\ UNCHANGED <<build, state, started, session, lmk, rxq, txq, status, history>>

\* The rest of app_main: halt without a peer MAC, add the peer unencrypted,
\* create the Lakers session (abort if it is refused) and app_task.
StartApp(b) ==
  /\ task[b] = "listening"
  /\ UNCHANGED <<build, boot, history>>
  /\ LET r == SessionInit(session[b], b, b, Other(b), 1,
                          build[b].cred[b], build[b].key[b], boot[b])
     IN IF ~build[b].peerSet
        THEN /\ task' = Set(task, b, "halted")
             /\ UNCHANGED <<state, started, session, lmk, rxq, txq, status>>
        ELSE IF r.status # "OK" THEN PowerDown(b)
        ELSE /\ task' = Set(task, b, "loop")
             /\ session' = Set(session, b, r.session)
             /\ status' = Set(status, b, r.status)
             /\ UNCHANGED <<state, started, lmk, rxq, txq>>

\* Power loss at any moment, or abort() in ESP_ERROR_CHECK when a send is refused.
\* A handler logs what it learnt of transcripts and keys before it sends, and
\* after its send changes only this board's RAM.  So a board cut off inside one
\* is a board reset before the handler if it had logged nothing yet, and else a
\* board reset right after it, its frame lost (Restart drops txq) or on the air
\* already (Transmit first).  What the log says after the send, PASS above all,
\* may then be missing: confirmed is not "printed PASS".
Restart(b) ==
  /\ task[b] # "down"
  /\ boot[b] < MaxBoots
  /\ PowerDown(b)
  /\ UNCHANGED <<build, boot, history>>

-----------------------------------------------------------------------------
\* The driver.  esp_now_send only queues; the frame leaves later, under the key
\* the peer entry has by then.  A board that runs hears it if it is in the clear
\* or sealed with the key its own peer entry has; whether a board whose peer is
\* encrypted still takes frames in the clear is up to the driver.
Hears(b, key) == task[b] # "down" /\ key \in {Plain, lmk[b]}

\* Mutants: one packet more than the queue holds; xQueueSendToFront.
PushOneTooMany(q, packet) == IF Len(q) <= QueueLen THEN Append(q, packet) ELSE q
PushFront(q, packet) == IF Len(q) < QueueLen THEN <<packet>> \o q ELSE q

\* espnow_recv_cb: xQueueSend with timeout 0 drops the packet when full.
Push(q, packet) == IF Len(q) < QueueLen THEN Append(q, packet) ELSE q

Deliver(q, packet, n) ==
  IF n = 0 THEN q
  ELSE IF n = 1 THEN Push(q, packet) ELSE Push(Push(q, packet), packet)

Arrivals(b, key) ==
  IF ~Hears(b, key) THEN {0}
  ELSE IF key # lmk[b] THEN Copies \cup {0} ELSE Copies

Transmit(b) ==
  /\ txq[b] # <<>>
  /\ txq' = [txq EXCEPT ![b] = Tail(@)]
  /\ \E n \in Arrivals(Other(b), lmk[b]) :
       rxq' = [rxq EXCEPT ![Other(b)] =
                 Deliver(@, [frame |-> Head(txq[b]), key |-> lmk[b]], n)]
  /\ UNCHANGED <<build, boot, task, state, started, session, lmk, status, history>>

\* A frame of other firmware on the same channel.
StrayArrives(b, f) ==
  /\ Hears(b, Plain)
  /\ rxq' = [rxq EXCEPT ![b] = Push(@, [frame |-> f, key |-> Plain])]
  /\ UNCHANGED <<build, boot, task, state, started, session, lmk, txq, status,
                 history>>

-----------------------------------------------------------------------------
\* app_task.  A message is taken off the receive queue only at the top of the
\* loop; edhoc_transport_parse_rx drops what does not parse, and the session ID
\* is compared before anything else.
Msg(b) == Head(rxq[b]).frame
Received(b) == task[b] = "loop" /\ rxq[b] # <<>>
Taken(b) == rxq' = [rxq EXCEPT ![b] = Tail(@)]

\* The messages handle_received_message acts on; it ignores all others.
Expected == {<<"initiator", "WAIT_M2", "M2">>,
             <<"initiator", "WAIT_EDHOC_ACK", "ACK">>,
             <<"initiator", "WAIT_KEY_TEST_ACK", "KEY_TEST_ACK">>,
             <<"responder", "WAIT_M1", "M1">>,
             <<"responder", "WAIT_M3", "M3">>,
             <<"responder", "WAIT_KEY_TEST", "KEY_TEST">>}

\* Mutant: only the type of the message decides, not the state.
HandlingInAnyState(b, type) ==
  /\ Received(b)
  /\ Msg(b).sid = "ours"
  /\ Msg(b).type = type
  /\ \E s \in States : <<b, s, type>> \in Expected

Handling(b, type) ==
  /\ Received(b)
  /\ Msg(b).sid = "ours"
  /\ Msg(b).type = type
  /\ <<b, state[b], type>> \in Expected

\* A parsed frame of another session fails the pairing in any state.
BadSession(b) ==
  /\ Received(b)
  /\ Msg(b).type # "unparsable"
  /\ Msg(b).sid # "ours"
  /\ Taken(b)
  /\ state' = Set(state, b, "FAILED")
  /\ UNCHANGED <<build, boot, task, started, session, lmk, txq, status, history>>

\* Not parsed, or "Unexpected message": a log line and nothing else.
Ignore(b) ==
  /\ Received(b)
  /\ \/ Msg(b).type = "unparsable"
     \/ Msg(b).sid = "ours" /\ <<b, state[b], Msg(b).type>> \notin Expected
  /\ Taken(b)
  /\ UNCHANGED <<build, boot, task, state, started, session, lmk, txq, status,
                 history>>

Send(b, frame) == txq' = [txq EXCEPT ![b] = Append(@, frame)]

\* A handler's Lakers call: on OK send the answer and move on, else FAILED.
CallAndAnswer(b, r, answer, next) ==
  /\ session' = Set(session, b, r.session)
  /\ status' = Set(status, b, r.status)
  /\ IF r.status = "OK"
     THEN Send(b, answer) /\ state' = Set(state, b, next)
     ELSE UNCHANGED txq /\ state' = Set(state, b, "FAILED")

Transcript(s) == [gx |-> s.gx, gy |-> s.gy]
Record(f, b, v, condition) ==
  f' = [f EXCEPT ![b] = IF condition THEN @ \cup {v} ELSE @]

\* Mutant: no "continue" after a failed start.
StartHandshakeGoesOn(prepared) ==
  LET b == "initiator"
      r == MakeMessage1(session[b], "ok", prepared)
  IN /\ task[b] = "loop"
     /\ ~started[b]
     /\ Timely => task["responder"] # "down"
     /\ started' = Set(started, b, TRUE)
     /\ session' = Set(session, b, r.session)
     /\ status' = Set(status, b, r.status)
     /\ Send(b, Frame("M1", r.out))
     /\ state' = Set(state, b, "WAIT_M2")
     /\ UNCHANGED <<build, boot, task, lmk, rxq, history>>

\* Once, EDHOC_START_DELAY_MS after boot, whatever state the loop is in.  If the
\* delay is long enough the responder is up and listening by then.
StartHandshake(prepared) ==
  LET b == "initiator"
      r == MakeMessage1(session[b], "ok", prepared)
  IN /\ task[b] = "loop"
     /\ ~started[b]
     /\ Timely => task["responder"] # "down"
     /\ started' = Set(started, b, TRUE)
     /\ CallAndAnswer(b, r, Frame("M1", r.out), "WAIT_M2")
     /\ UNCHANGED <<build, boot, task, lmk, rxq, history>>

ProcessM1 ==
  LET b == "responder"
      r == ProcessMessage1(session[b], "ok", Msg(b).body)
  IN /\ Handling(b, "M1")
     /\ Taken(b)
     /\ CallAndAnswer(b, r, Frame("M2", r.out), "WAIT_M3")
     /\ UNCHANGED <<build, boot, task, started, lmk, history>>

ProcessM2 ==
  LET b == "initiator"
      r == ProcessMessage2(session[b], "ok", Msg(b).body,
                           build[b].cred["responder"])
  IN /\ Handling(b, "M2")
     /\ Taken(b)
     /\ CallAndAnswer(b, r, Frame("M3", r.out), "WAIT_EDHOC_ACK")
     /\ Record(accepted, b, Transcript(r.session), r.status = "OK")
     /\ UNCHANGED <<build, boot, task, started, lmk, derived, confirmed>>

\* The ACK is queued, and the handler sleeps before it exports and installs.
ProcessM3 ==
  LET b == "responder"
      r == ProcessMessage3(session[b], Msg(b).body, build[b].cred["initiator"])
  IN /\ Handling(b, "M3")
     /\ Taken(b)
     /\ CallAndAnswer(b, r, Frame("ACK", Text), state[b])
     /\ task' = Set(task, b, IF r.status = "OK" THEN "switchDelay" ELSE "loop")
     /\ Record(accepted, b, Transcript(r.session), r.status = "OK")
     /\ UNCHANGED <<build, boot, started, lmk, derived, confirmed>>

\* key_manager_enable_derived_espnow_encryption: the driver refuses before the
\* peer entry changed ("refused"), or the entry cannot be read back after it did
\* ("unread").
Outcomes == {"ok"} \cup (Faults \cap {"refused", "unread"})

\* Mutant: an existing peer is left as it is.
InstallOnlyNewPeer(b, key, outcome) == UNCHANGED lmk

Install(b, key, outcome) ==
  lmk' = IF outcome = "refused" THEN lmk ELSE Set(lmk, b, key)

\* Mutant: the corruption is lost.
DeriveAndInstallGenuine(b, outcome, next) ==
  LET exported == ExportStatus(session[b], "ok")
      key == ExportLmk(session[b])
  IN /\ status' = Set(status, b, exported)
     /\ Record(derived, b, key, exported = "OK")
     /\ IF exported = "OK" THEN Install(b, key, outcome) ELSE UNCHANGED lmk
     /\ state' = Set(state, b, next)

\* derive_and_install_lmk: export, log the key's digest, hand it to key_manager.
DeriveAndInstall(b, outcome, next) ==
  LET exported == ExportStatus(session[b], "ok")
      key == [ExportLmk(session[b]) EXCEPT !.flipped = build[b].corrupt]
  IN /\ status' = Set(status, b, exported)
     /\ Record(derived, b, key, exported = "OK")
     /\ IF exported = "OK" THEN Install(b, key, outcome) ELSE UNCHANGED lmk
     /\ state' = Set(state, b, IF exported = "OK" /\ outcome = "ok"
                               THEN next ELSE "FAILED")

\* RESPONDER_ENCRYPTION_SWITCH_DELAY_MS later.  If that is long enough the ACK
\* has left in the clear.
InstallAfterDelay(outcome) ==
  LET b == "responder"
  IN /\ task[b] = "switchDelay"
     /\ Timely => txq[b] = <<>>
     /\ DeriveAndInstall(b, outcome, "WAIT_KEY_TEST")
     /\ task' = Set(task, b, "loop")
     /\ UNCHANGED <<build, boot, started, session, rxq, txq, accepted, confirmed>>

\* verify_handshake_ack and verify_control_payload: a comparison with a fixed
\* text.  Mutant: only the type is looked at.
VerifiedByType(b) == Msg(b).type \in {"ACK", "KEY_TEST", "KEY_TEST_ACK"}
Verified(b) == Msg(b).body = Text

\* Mutant: no "return" after a failed installation.
ProcessAckGoesOn(outcome) ==
  LET b == "initiator"
      verified == Verified(b)
  IN /\ Handling(b, "ACK")
     /\ Taken(b)
     /\ IF verified
        THEN DeriveAndInstall(b, outcome, "WAIT_KEY_TEST_ACK")
        ELSE state' = Set(state, b, "FAILED") /\ UNCHANGED <<lmk, status, derived>>
     /\ task' = Set(task, b, IF verified THEN "keyTestDelay" ELSE "loop")
     /\ UNCHANGED <<build, boot, started, session, txq, accepted, confirmed>>

\* The ACK is one fixed text: it names neither session nor transcript.
ProcessAck(outcome) ==
  LET b == "initiator"
      verified == Verified(b)
  IN /\ Handling(b, "ACK")
     /\ Taken(b)
     /\ IF verified
        THEN DeriveAndInstall(b, outcome, "WAIT_KEY_TEST_ACK")
        ELSE state' = Set(state, b, "FAILED") /\ UNCHANGED <<lmk, status, derived>>
     /\ task' = Set(task, b, IF verified /\ outcome = "ok"
                             THEN "keyTestDelay" ELSE "loop")
     /\ UNCHANGED <<build, boot, started, session, txq, accepted, confirmed>>

\* INITIATOR_KEY_TEST_DELAY_MS later.  If that is long enough the responder is
\* through with its own delay.
SendKeyTest ==
  LET b == "initiator"
  IN /\ task[b] = "keyTestDelay"
     /\ Timely => task["responder"] # "switchDelay"
     /\ Send(b, Frame("KEY_TEST", Text))
     /\ task' = Set(task, b, "loop")
     /\ UNCHANGED <<build, boot, state, started, session, lmk, rxq, status, history>>

\* The responder verifies and logs that (main.c:430-435), answers (436), and at
\* once, whatever becomes of its answer, is COMPLETE and prints PASS (441-444).
\* The answer may be on the air before 441; nothing here but the responder's own
\* state, which nobody else reads, is set after it.
ProcessKeyTest ==
  LET b == "responder"
      verified == Verified(b)
  IN /\ Handling(b, "KEY_TEST")
     /\ Taken(b)
     /\ state' = Set(state, b, IF verified THEN "COMPLETE" ELSE "FAILED")
     /\ IF verified THEN Send(b, Frame("KEY_TEST_ACK", Text)) ELSE UNCHANGED txq
     /\ Record(confirmed, b, lmk[b], verified)
     /\ UNCHANGED <<build, boot, task, started, session, lmk, status, accepted,
                    derived>>

ProcessKeyTestAck ==
  LET b == "initiator"
      verified == Verified(b)
  IN /\ Handling(b, "KEY_TEST_ACK")
     /\ Taken(b)
     /\ state' = Set(state, b, IF verified THEN "COMPLETE" ELSE "FAILED")
     /\ Record(confirmed, b, lmk[b], verified)
     /\ UNCHANGED <<build, boot, task, started, session, lmk, txq, status, accepted,
                    derived>>

-----------------------------------------------------------------------------
Preparations == {TRUE} \cup {~("prepare" \in Faults)}

Boot(b) == Listen(b) \/ StartApp(b)

Next ==
  \/ \E b \in Boards : Listen(b)
  \/ \E b \in Boards : StartApp(b)
  \/ \E b \in Boards : Restart(b)
  \/ \E b \in Boards : Transmit(b)
  \/ \E b \in Boards, f \in Strays : StrayArrives(b, f)
  \/ \E b \in Boards : BadSession(b)
  \/ \E b \in Boards : Ignore(b)
  \/ \E prepared \in Preparations : StartHandshake(prepared)
  \/ ProcessM1
  \/ ProcessM2
  \/ ProcessM3
  \/ \E outcome \in Outcomes : InstallAfterDelay(outcome)
  \/ \E outcome \in Outcomes : ProcessAck(outcome)
  \/ SendKeyTest
  \/ ProcessKeyTest
  \/ ProcessKeyTestAck

\* app_task is the highest ready task whenever it has something to do: it polls
\* its queue, and its delays end.
Handle(b) ==
  \/ BadSession(b)
  \/ Ignore(b)
  \/ b = "responder" /\ (ProcessM1 \/ ProcessM3 \/ ProcessKeyTest)
  \/ b = "initiator" /\ (\/ ProcessM2 \/ ProcessKeyTestAck
                         \/ \E outcome \in Outcomes : ProcessAck(outcome))

Wake(b) ==
  \/ b = "responder" /\ \E outcome \in Outcomes : InstallAfterDelay(outcome)
  \/ b = "initiator" /\ SendKeyTest

Spec == Init /\ [][Next]_vars

Fairness ==
  /\ WF_vars(\E prepared \in Preparations : StartHandshake(prepared))
  /\ \A b \in Boards : WF_vars(Boot(b)) /\ WF_vars(Transmit(b))
                       /\ WF_vars(Handle(b)) /\ WF_vars(Wake(b))

FairSpec == Spec /\ Fairness

-----------------------------------------------------------------------------
(* Properties. *)

\* Types: what every variable may hold.
TypeOK ==
  /\ build \in [Boards -> BuildTypes]
  /\ boot \in [Boards -> 0 .. MaxBoots]
  /\ task \in [Boards -> Tasks]
  /\ state \in [Boards -> States]
  /\ started \in [Boards -> BOOLEAN]
  /\ session \in [Boards -> Sessions(Boards)]
  /\ lmk \in [Boards -> LmkTypes]
  /\ rxq \in [Boards -> Seq(Packets)]
  /\ \A b \in Boards : Len(rxq[b]) <= QueueLen
  /\ txq \in [Boards -> Seq(Frames)]
  /\ status \in [Boards -> Statuses]
  /\ accepted \in [Boards -> SUBSET [gx : Nat, gy : Nat]]
  /\ derived \in [Boards -> SUBSET LmkTypes]
  /\ confirmed \in [Boards -> SUBSET LmkTypes]

\* The C state machine and the Rust session are two state machines kept in step
\* only by the order of the calls in main.c: while app_task runs, its state says
\* which phase the session is in, whatever arrived, failed or was refused
\* before, except that FAILED says nothing.
PhaseOf(b) ==
  IF state[b] \in {"IDLE", "WAIT_M1"} THEN "Start"
  ELSE IF state[b] = "WAIT_M2" THEN "WaitM2"
  ELSE IF state[b] = "WAIT_M3" /\ task[b] = "loop" THEN "WaitM3"
  ELSE "Done"

PhaseInStep ==
  \A b \in Boards :
    task[b] \in {"loop", "switchDelay", "keyTestDelay"} =>
      /\ session[b].role = b
      /\ state[b] # "FAILED" => session[b].phase = PhaseOf(b)
      /\ b = "initiator" /\ ~started[b] => session[b].phase = "Start"

\* So app_task never makes a call the session refuses as WRONG_STATE
\* (main.c:269-281 would turn it into a failed pairing).
NeverWrongState == \A b \in Boards : status[b] # "WRONG_STATE"

\* The order in which keys come to be confirmed (main.c:330-353, 428-435): the
\* initiator verifies a KEY_TEST_ACK only under keys the responder has verified
\* a KEY_TEST under, and those are keys both boards derived, over all boots,
\* losses, duplicates and failed installs.  It says nothing of the responder's
\* own PASS: the power may fail between its answer (436) and its PASS (441-444),
\* and the initiator prints PASS all the same.
ConfirmedInOrder ==
  /\ confirmed["initiator"] \subseteq confirmed["responder"]
  /\ confirmed["responder"] \subseteq derived["initiator"] \cap derived["responder"]

\* A frame verify_control_payload takes for a key test.
IsKeyTest(f) ==
  f.type \in {"KEY_TEST", "KEY_TEST_ACK"} /\ f.sid = "ours" /\ f.body = Text

\* "Verified" of verify_control_payload compares a public text.  What makes a
\* KEY_TEST or KEY_TEST_ACK a test of the key is that it can only have come in
\* under the key this board has installed now, which the peer derived too.
KeyTestSealed ==
  \A b \in Boards : \A i \in 1 .. Len(rxq[b]) :
    LET p == rxq[b][i] IN
    IsKeyTest(p.frame) =>
      /\ p.key # Plain
      /\ p.key = lmk[b]
      /\ p.key \in derived[Other(b)]

\* Two boards that both show COMPLETE hold the same LMK, also after either of
\* them was reset and paired again (main.c:358, 441).
CompleteAgree ==
  (\A b \in Boards : state[b] = "COMPLETE") =>
    lmk["initiator"] = lmk["responder"] /\ lmk["initiator"] # Plain

\* FAILED is left only by a reset, or by the initiator's one start, which does
\* not look at the state the loop is in (main.c:473-501).
FailedSticky ==
  [][\A b \in Boards : state[b] = "FAILED" /\ state'[b] # "FAILED" =>
       \/ task'[b] = "down"
       \/ b = "initiator" /\ ~started[b] /\ state'[b] = "WAIT_M2"]_vars

\* Everything the boards ever log about transcripts and keys happens in the
\* order KeyConfirmation promises.  That the initiator derives no key before the
\* responder has authenticated message_3 is not checked by any code: the ACK
\* names no transcript (main.c:137-149), and only the order of the frames of one
\* sender keeps an old one away.
Boots == 1 .. MaxBoots
Confirmation ==
  INSTANCE KeyConfirmation WITH
    Transcripts <- [gx : Boots, gy : Boots],
    Keys <- [gx : Boots, gy : Boots,
             ctx : {BuildExporterContext("initiator", "responder", 1)},
             flipped : BOOLEAN]
ConfirmationOrder == Confirmation!Spec

-----------------------------------------------------------------------------
\* Builds: who can authenticate to whom with what was compiled in.
Own(b) == Identity(build[b].cred[b], build[b].key[b])
Authenticates(b) == Own(b) = build[Other(b)].cred[b]
CanBoot(b) == build[b].peerSet /\ build[b].cred[b] # "unparsable"
MutuallyAuthentic == \A b \in Boards : Authenticates(b) /\ CanBoot(b)

\* Unless each board holds the credential and key the other expects, neither
\* exports an LMK, let alone installs one: the initiator's own success with
\* message_2 is not enough (main.c:298-337, 402-418).
NoKeyWithoutMutualAuth ==
  ~MutuallyAuthentic => \A b \in Boards : derived[b] = {} /\ lmk[b] = Plain

\* With the LMK corrupted on exactly one board neither ever verifies a key test,
\* and so neither prints PASS (README.md:148-156).
CorruptionNeverPasses ==
  build["initiator"].corrupt # build["responder"].corrupt =>
    \A b \in Boards : confirmed[b] = {}

\* Without loss, resets and faults, and with delays that are long enough, boards
\* that authenticate each other and treat the LMK alike both reach COMPLETE.
PairingCompletes ==
  MutuallyAuthentic /\ build["initiator"].corrupt = build["responder"].corrupt =>
    <>[](\A b \in Boards : state[b] = "COMPLETE")

\* A board that boots but meets a peer it cannot authenticate ends in FAILED on
\* one side or the other, with PROTOCOL_ERROR (README.md:158-166).
ImpostorRejected ==
  (\A b \in Boards : CanBoot(b)) /\ (\E b \in Boards : ~Authenticates(b)) =>
    <>[](\E b \in Boards : state[b] = "FAILED" /\ status[b] = "PROTOCOL_ERROR")

\* With mismatched LMKs each board waits, for good, for a frame it cannot
\* decrypt: nothing times out (main.c:504, README.md:19).
CorruptionStalls ==
  MutuallyAuthentic /\ build["initiator"].corrupt # build["responder"].corrupt =>
    <>[](state["initiator"] = "WAIT_KEY_TEST_ACK"
         /\ state["responder"] = "WAIT_KEY_TEST")

\* Two freshly booted boards, nothing of an earlier attempt left in either
\* receive queue, complete the pairing unless one of them is reset again,
\* whatever happened before (main.c:459-501).  Resetting one board alone has no
\* such effect: the other takes no second M1.
Fresh(b) ==
  /\ task[b] \in {"listening", "loop"}
  /\ state[b] = FirstState(b)
  /\ ~started[b]
  /\ rxq[b] = <<>>
FreshPairCompletes ==
  (\A b \in Boards : Fresh(b)) ~>
    \/ \A b \in Boards : state[b] = "COMPLETE"
    \/ \E b \in Boards : task[b] = "down"

-----------------------------------------------------------------------------
\* Two statements of the documentation that the code does not meet.

\* README.md:158-166: a board rebuilt with one byte of a test credential or
\* static private key changed makes the handshake fail.
EditedNeverPasses ==
  (\E b \in Boards, r \in Roles :
     build[b].cred[r] # "original" \/ build[b].key[r] # "original") =>
    \A b \in Boards : state[b] # "COMPLETE"

\* components/lakers_ffi/README.md:111-118: PASS is printed only after a
\* successful KEY_TEST / KEY_TEST_ACK, so while neither board is reset a PASS on
\* the responder, which it prints with COMPLETE, means its KEY_TEST_ACK is on its
\* way or has been verified.
PassAfterRoundTrip ==
  state["responder"] = "COMPLETE" =>
    \/ lmk["responder"] \in confirmed["initiator"]
    \/ \E i \in 1 .. Len(txq["responder"]) :
         txq["responder"][i].type = "KEY_TEST_ACK"
    \/ \E i \in 1 .. Len(rxq["initiator"]) :
         rxq["initiator"][i].frame.type = "KEY_TEST_ACK"
=============================================================================
