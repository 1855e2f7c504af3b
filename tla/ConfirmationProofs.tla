------------------------- MODULE ConfirmationProofs -------------------------
(***************************************************************************)
(* Pairing implements KeyConfirmation, and what follows from the same       *)
(* invariant: two boards that show COMPLETE agree, and no key is exported   *)
(* without mutual authentication.  The code compares no transcript when it  *)
(* takes the ACK (main.c:137-149); the argument is the order of frames and  *)
(* of ephemeral keys, so the invariant is about what is on its way.         *)
(***************************************************************************)
EXTENDS PairingProofs

-----------------------------------------------------------------------------
(* Messages on their way. *)

\* What the driver of a board still has to send, and what a board has received
\* and not yet looked at.
Sending(b) == {txq[b][i] : i \in 1 .. Len(txq[b])}
Arrived(b) == {rxq[b][i].frame : i \in 1 .. Len(rxq[b])}
InFlight(b) == Sending(Other(b)) \cup Arrived(b)

\* The EDHOC messages of this pair among some frames.
Messages(frames, type, kind) ==
  {f \in frames : f.type = type /\ f.sid = "ours" /\ f.body.kind = kind}
SendingM1 == Messages(Sending("initiator"), "M1", "m1")
ArrivedM1 == Messages(Arrived("responder"), "M1", "m1")
ArrivedM2 == Messages(Arrived("initiator"), "M2", "m2")
M2s == Messages(InFlight("initiator"), "M2", "m2")
M3s == Messages(InFlight("responder"), "M3", "m3")
IsAck(f) == f.type = "ACK" /\ f.sid = "ours" /\ f.body = Text

-----------------------------------------------------------------------------
(***************************************************************************)
(* The inductive invariant.                                                *)
(***************************************************************************)

\* The transcripts the responder has committed to by answering a message_1, as
\* far as they still matter: in its session, in a message_2, or accepted.
Committed ==
  {p \in {Transcript(session["responder"])} :
     session["responder"].phase \in {"WaitM3", "Done"}}
Pairs ==
  accepted["initiator"] \cup {Transcript(f.body) : f \in M2s} \cup Committed

\* Outside app_task there is no session; a board that is down hears nothing, one
\* that runs has been booted, and nothing is sent before the first call on the
\* session.
Idle ==
  \A b \in Boards :
    /\ task[b] \in {"down", "listening", "halted"} => session[b] = EmptySession
    /\ task[b] = "down" => rxq[b] = <<>>
    /\ task[b] # "down" => boot[b] # 0
    /\ session[b].phase \in {"Empty", "Start"} => txq[b] = <<>>

\* A live session holds the ephemeral key drawn at this boot.
OwnKey ==
  \A b \in Boards :
    session[b].phase \notin {"Empty", "Failed"} =>
      /\ b = "initiator" => session[b].gx = boot[b]
      /\ b = "responder" => session[b].gy = boot[b]

\* The initiator's ephemeral keys that have left it.
Reached == {p.gx : p \in Pairs} \cup {f.body.gx : f \in ArrivedM1}

\* The key of this boot has not, while its message_1 is not made or not sent.
KeyAtHome ==
  \/ task["initiator"] # "down" /\ session["initiator"].phase \in {"Empty", "Start"}
  \/ SendingM1 # {}
KeysLeft ==
  /\ \A x \in Reached : x \in 1 .. boot["initiator"]
  /\ KeyAtHome => boot["initiator"] \notin Reached

\* Message_1 leaves before anything else, and carries the key of this boot.
FirstSent ==
  \A i \in 1 .. Len(txq["initiator"]) :
    txq["initiator"][i] \in SendingM1 =>
      i = 1 /\ txq["initiator"][i].body.gx = boot["initiator"]

\* Later keys of the initiator are never bound to earlier keys of the responder.
Ordered ==
  /\ \A p \in Pairs : p.gy \in 1 .. boot["responder"]
  /\ \A p, q \in Pairs : p.gx <= q.gx => p.gy <= q.gy

\* What binds the key of this boot comes from the one message_1 it answers.
Current ==
  \A p \in Pairs :
    p.gy = boot["responder"] /\ task["responder"] # "down" =>
      \/ session["responder"].phase = "Failed"
      \/ session["responder"].phase \in {"WaitM3", "Done"}
         /\ session["responder"].gx = p.gx

\* A message_1 that waits has been overtaken by no message_1 this responder
\* answered in an earlier boot.
Waiting ==
  \A f \in ArrivedM1, p \in Pairs :
    f.body.gx <= p.gx => p.gy = boot["responder"]

PairInv == Idle /\ OwnKey /\ KeysLeft /\ FirstSent /\ Ordered /\ Current /\ Waiting

\* Message_3 is sent for a transcript the initiator has accepted.
M3Accepted == \A f \in M3s : Transcript(f.body) \in accepted["initiator"]

\* A finished session is accepted, by the responder after the initiator.
Accepted ==
  /\ \A b \in Boards : session[b].phase = "Done" =>
                         Transcript(session[b]) \in accepted[b]
  /\ accepted["responder"] \subseteq accepted["initiator"]

\* A key is exported from what both have accepted.
DerivedAccepted ==
  \A b, c \in Boards : \A k \in derived[b] : Transcript(k) \in accepted[c]

\* The ACK names no transcript, but it is sent by a finished session, what comes
\* before it comes from that session, and one that a finished initiator finds
\* was sent after the message_2 it finished with.
AckSent ==
  \A f \in Sending("responder") : IsAck(f) => session["responder"].phase = "Done"
AckAfterM2 ==
  \A i, j \in 1 .. Len(rxq["initiator"]) :
    LET f == rxq["initiator"][i].frame IN
    i < j /\ f \in ArrivedM2 /\ f.body.gx = boot["initiator"]
          /\ IsAck(rxq["initiator"][j].frame) =>
      Transcript(f.body) \in accepted["responder"]
AckArrived ==
  session["initiator"].phase = "Done" /\ (\E f \in Arrived("initiator") : IsAck(f)) =>
    Transcript(session["initiator"]) \in accepted["responder"]

AckInv == M3Accepted /\ Accepted /\ AckSent /\ AckAfterM2 /\ AckArrived

\* An installed key is the finished session's; COMPLETE is entered with it.
SessionKey ==
  \A b \in Boards :
    /\ lmk[b] # Plain =>
         session[b].phase = "Done" /\ Transcript(lmk[b]) = Transcript(session[b])
    /\ state[b] = "COMPLETE" => lmk[b] # Plain /\ lmk[b] \in confirmed[b]

\* Whoever authenticates does so with what was compiled in.
AuthInv ==
  /\ \A b \in Boards : session[b].phase \notin {"Empty", "Failed"} =>
                         session[b].as = Own(b) /\ CanBoot(b)
  /\ \A f \in M2s : f.body.as = Own("responder") /\ CanBoot("responder")
  /\ \A f \in M3s : f.body.as = Own("initiator") /\ CanBoot("initiator")
  /\ \A b \in Boards : accepted[b] # {} =>
                         Authenticates(Other(b)) /\ CanBoot(Other(b))

ConfirmationInv == PairInv /\ AckInv /\ DerivedAccepted /\ SessionKey /\ AuthInv

-----------------------------------------------------------------------------
(* What the steps do to the messages on their way. *)

\* A step after which nothing new has arrived or is to be sent.
NothingArrived == \A c \in Boards : Arrived(c)' \subseteq Arrived(c)
NothingSent == \A c \in Boards : Sending(c)' \subseteq Sending(c)

\* Queues left alone hold what they held.
LEMMA FlightKept ==
  /\ UNCHANGED rxq => NothingArrived
  /\ UNCHANGED txq => NothingSent
BY DEF NothingArrived, NothingSent, Arrived, Sending

\* A handler takes the frame it looks at off its queue.
LEMMA TakenFlight ==
  ASSUME TypeOK, NEW b \in Boards, Received(b), Taken(b)
  PROVE  NothingArrived /\ Msg(b) \in Arrived(b)
<1>1. NothingArrived
  BY TakenKept DEF RxKept, NothingArrived, Arrived
<1>2. rxq[b] \in Seq(Packets) /\ rxq[b] # <<>>
  BY DEF TypeOK, Received
<1>3. 1 \in 1 .. Len(rxq[b]) /\ Head(rxq[b]) = rxq[b][1]
  BY <1>2, TailFacts
<1> QED
  BY <1>1, <1>3 DEF Msg, Arrived

\* Sending adds one frame to one queue.
LEMMA SendFlight ==
  ASSUME TypeOK, NEW b \in Boards, NEW f \in Frames, Send(b, f)
  PROVE  /\ Sending(b)' \subseteq Sending(b) \cup {f}
         /\ \A c \in Boards \ {b} : Sending(c)' \subseteq Sending(c)
<1>1. \A c \in Boards : \A i \in 1 .. Len(txq'[c]) :
        (c = b /\ txq'[c][i] = f) \/ (\E j \in 1 .. Len(txq[c]) : txq'[c][i] = txq[c][j])
  BY SendFacts
<1>2. \A c \in Boards : \A i \in 1 .. Len(txq'[c]) :
        (c = b /\ txq'[c][i] = f) \/ txq'[c][i] \in Sending(c)
  BY <1>1 DEF Sending
<1>3. \A c \in Boards : \A g \in Sending(c)' : \E i \in 1 .. Len(txq'[c]) : g = txq'[c][i]
  BY DEF Sending
<1> HIDE DEF Sending
<1>4. \A c \in Boards : \A g \in Sending(c)' : (c = b /\ g = f) \/ g \in Sending(c)
  BY <1>2, <1>3
<1> QED
  BY <1>4

\* A reset empties the queues of one board.
LEMMA PowerDownFlight ==
  ASSUME TypeOK, NEW b \in Boards, PowerDown(b)
  PROVE  /\ NothingArrived /\ NothingSent
         /\ Sending(b)' = {} /\ Arrived(b)' = {}
         /\ rxq'[b] = <<>> /\ txq'[b] = <<>>
<1>1. /\ rxq'[b] = <<>> /\ txq'[b] = <<>>
      /\ \A c \in Boards \ {b} : rxq'[c] = rxq[c] /\ txq'[c] = txq[c]
  BY DEF TypeOK, PowerDown, Set
<1>2. Sending(b)' = {} /\ Arrived(b)' = {}
  BY <1>1 DEF Sending, Arrived
<1>3. \A c \in Boards \ {b} : Arrived(c)' = Arrived(c) /\ Sending(c)' = Sending(c)
  BY <1>1 DEF Sending, Arrived
<1> QED
  BY <1>1, <1>2, <1>3 DEF NothingArrived, NothingSent

\* Copies of a packet land behind everything that was queued.
LEMMA DeliverOrder ==
  ASSUME NEW q \in Seq(Packets), NEW p \in Packets, NEW n
  PROVE  /\ Deliver(q, p, n) \in Seq(Packets)
         /\ \A i \in 1 .. Len(Deliver(q, p, n)) :
              \/ i \in 1 .. Len(q) /\ Deliver(q, p, n)[i] = q[i]
              \/ i > Len(q) /\ Deliver(q, p, n)[i] = p
<1> DEFINE once == Push(q, p)
           twice == Push(once, p)
<1>1. ASSUME NEW s \in Seq(Packets)
      PROVE  /\ Push(s, p) \in Seq(Packets) /\ Len(s) <= Len(Push(s, p))
             /\ Len(s) \in Nat
             /\ \A i \in 1 .. Len(Push(s, p)) :
                  \/ i \in 1 .. Len(s) /\ Push(s, p)[i] = s[i]
                  \/ i > Len(s) /\ Push(s, p)[i] = p
  BY PairingAssumption DEF Push
<1>2. /\ once \in Seq(Packets) /\ Len(q) <= Len(once) /\ Len(q) \in Nat
      /\ \A i \in 1 .. Len(once) :
           (i \in 1 .. Len(q) /\ once[i] = q[i]) \/ (i > Len(q) /\ once[i] = p)
  BY <1>1
<1>3. /\ twice \in Seq(Packets) /\ Len(once) \in Nat /\ Len(twice) \in Nat
      /\ \A i \in 1 .. Len(twice) :
           \/ i \in 1 .. Len(once) /\ twice[i] = once[i]
           \/ i > Len(once) /\ twice[i] = p
  BY <1>1, <1>2
<1> HIDE DEF once, twice
<1>4. \A i \in 1 .. Len(twice) :
        (i \in 1 .. Len(q) /\ twice[i] = q[i]) \/ (i > Len(q) /\ twice[i] = p)
  BY <1>2, <1>3
<1>5. CASE n = 0
  BY <1>2, <1>5 DEF Deliver
<1>6. CASE n = 1
  <2>1. Deliver(q, p, n) = once
    BY <1>6 DEF Deliver, once
  <2> QED
    BY <2>1, <1>2
<1>7. CASE n # 0 /\ n # 1
  <2>1. Deliver(q, p, n) = twice
    BY <1>7 DEF Deliver, once, twice
  <2> QED
    BY <2>1, <1>3, <1>4
<1> QED
  BY <1>5, <1>6, <1>7

\* A frame leaves the head of one queue; copies of it are added behind the other.
LEMMA TransmitFlight ==
  ASSUME TypeOK, NEW b \in Boards, Transmit(b)
  PROVE  LET f == Head(txq[b])
             c == Other(b)
         IN /\ txq[b] # <<>> /\ f = txq[b][1] /\ f \in Sending(b)
            /\ txq'[b] = Tail(txq[b]) /\ txq'[c] = txq[c] /\ rxq'[b] = rxq[b]
            /\ NothingSent
            /\ Arrived(c)' \subseteq Arrived(c) \cup {f}
            /\ Arrived(b)' = Arrived(b)
            /\ \A i \in 1 .. Len(rxq'[c]) :
                 \/ i \in 1 .. Len(rxq[c]) /\ rxq'[c][i] = rxq[c][i]
                 \/ i > Len(rxq[c]) /\ rxq'[c][i].frame = f
<1> DEFINE f == Head(txq[b])
           c == Other(b)
           p == [frame |-> f, key |-> lmk[b]]
<1>0. c \in Boards /\ c # b /\ \A d \in Boards : d = b \/ d = c
  BY DEF Boards, Roles, Other
<1>1. txq[b] \in Seq(Frames) /\ txq[b] # <<>> /\ rxq[c] \in Seq(Packets)
  BY <1>0 DEF TypeOK, Transmit
<1>2. /\ f \in Frames /\ f = txq[b][1] /\ 1 \in 1 .. Len(txq[b])
      /\ \A i \in 1 .. Len(Tail(txq[b])) :
           i + 1 \in 1 .. Len(txq[b]) /\ Tail(txq[b])[i] = txq[b][i + 1]
  BY <1>1, TailFacts
<1>3. p \in Packets
  BY <1>2 DEF Packets, TypeOK
<1>4. /\ txq'[b] = Tail(txq[b]) /\ txq'[c] = txq[c] /\ rxq'[b] = rxq[b]
      /\ \E n : rxq'[c] = Deliver(rxq[c], p, n)
  BY <1>0 DEF TypeOK, Transmit
<1>5. \A i \in 1 .. Len(rxq'[c]) :
        \/ i \in 1 .. Len(rxq[c]) /\ rxq'[c][i] = rxq[c][i]
        \/ i > Len(rxq[c]) /\ rxq'[c][i] = p
  BY <1>1, <1>3, <1>4, DeliverOrder
<1>6. p.frame = f
  OBVIOUS
<1>7. f \in Sending(b)
  BY <1>2 DEF Sending
<1>8. NothingSent
  <2>1. Sending(b)' \subseteq Sending(b)
    BY <1>2, <1>4 DEF Sending
  <2>2. Sending(c)' = Sending(c)
    BY <1>4 DEF Sending
  <2> QED
    BY <2>1, <2>2, <1>0 DEF NothingSent
<1> HIDE DEF p, f, c
<1>9. Arrived(c)' \subseteq Arrived(c) \cup {f}
  BY <1>5, <1>6 DEF Arrived
<1>10. Arrived(b)' = Arrived(b)
  BY <1>4 DEF Arrived
<1>11. \A i \in 1 .. Len(rxq'[c]) :
         \/ i \in 1 .. Len(rxq[c]) /\ rxq'[c][i] = rxq[c][i]
         \/ i > Len(rxq[c]) /\ rxq'[c][i].frame = f
  BY <1>5, <1>6
<1> QED
  BY <1>1, <1>2, <1>4, <1>7, <1>8, <1>9, <1>10, <1>11 DEF f, c

\* A frame of other firmware is neither an EDHOC message of this pair nor an ACK.
LEMMA StrayFlight ==
  ASSUME TypeOK, NEW b \in Boards, NEW f \in Strays, StrayArrives(b, f)
  PROVE  /\ \A type, kind : type # "unparsable" /\ kind \in {"m1", "m2", "m3"} =>
              f \notin Messages(Arrived(b)', type, kind)
         /\ ~IsAck(f)
         /\ Arrived(b)' \subseteq Arrived(b) \cup {f}
         /\ \A c \in Boards \ {b} : rxq'[c] = rxq[c] /\ Arrived(c)' = Arrived(c)
         /\ \A i \in 1 .. Len(rxq'[b]) :
              \/ i \in 1 .. Len(rxq[b]) /\ rxq'[b][i] = rxq[b][i]
              \/ i > Len(rxq[b]) /\ rxq'[b][i].frame = f
<1> DEFINE p == [frame |-> f, key |-> Plain]
<1>1. f \in Frames /\ p \in Packets
  BY StraysAssumption, PlainType DEF Packets
<1>2. f.type = "unparsable" \/ f.sid = "theirs" \/ f.body.kind \in {"garbage", "none"}
  BY StraysAssumption
<1>3. \A type, kind : type # "unparsable" /\ kind \in {"m1", "m2", "m3"} =>
        f \notin Messages(Arrived(b)', type, kind)
  BY <1>2 DEF Messages
<1>4. ~IsAck(f)
  BY <1>2 DEF IsAck, Text, Body
<1>5. /\ rxq[b] \in Seq(Packets) /\ rxq'[b] = Push(rxq[b], p)
      /\ \A c \in Boards \ {b} : rxq'[c] = rxq[c]
  BY DEF TypeOK, StrayArrives
<1>6. Push(rxq[b], p) = Deliver(rxq[b], p, 1)
  BY DEF Deliver
<1> HIDE DEF p
<1>7. \A i \in 1 .. Len(rxq'[b]) :
        \/ i \in 1 .. Len(rxq[b]) /\ rxq'[b][i] = rxq[b][i]
        \/ i > Len(rxq[b]) /\ rxq'[b][i] = p
  <2> DEFINE q == rxq[b]
             d == Deliver(q, p, 1)
  <2>1. q \in Seq(Packets) /\ rxq'[b] = d
    BY <1>5, <1>6
  <2> HIDE DEF q
  <2>2. \A i \in 1 .. Len(d) :
          \/ i \in 1 .. Len(q) /\ d[i] = q[i]
          \/ i > Len(q) /\ d[i] = p
    BY <1>1, <2>1, DeliverOrder
  <2> QED
    BY <2>1, <2>2 DEF q
<1>8. p.frame = f
  BY DEF p
<1>9. Arrived(b)' \subseteq Arrived(b) \cup {f}
  BY <1>7, <1>8 DEF Arrived
<1>10. \A c \in Boards \ {b} : Arrived(c)' = Arrived(c)
  BY <1>5 DEF Arrived
<1> QED
  BY <1>3, <1>4, <1>5, <1>7, <1>8, <1>9, <1>10

\* A step that sends at most one frame and on which nothing arrives adds at most
\* that frame to the messages on their way.
LEMMA MessageSets ==
  ASSUME NothingArrived, NEW b \in Boards, NEW f,
         Sending(b)' \subseteq Sending(b) \cup {f},
         \A c \in Boards \ {b} : Sending(c)' \subseteq Sending(c)
  PROVE  /\ ArrivedM1' \subseteq ArrivedM1
         /\ f.type # "M1" => SendingM1' \subseteq SendingM1
         /\ M2s' \subseteq M2s \cup {f} /\ (f.type # "M2" => M2s' \subseteq M2s)
         /\ M3s' \subseteq M3s \cup {f} /\ (f.type # "M3" => M3s' \subseteq M3s)
<1>0. "initiator" \in Boards /\ "responder" \in Boards
      /\ Other("initiator") = "responder" /\ Other("responder") = "initiator"
  BY DEF Boards, Roles, Other
<1>1. \A c \in Boards : Arrived(c)' \subseteq Arrived(c)
                        /\ Sending(c)' \subseteq Sending(c) \cup {f}
  BY DEF NothingArrived
<1>2. \A c \in Boards : InFlight(c)' \subseteq InFlight(c) \cup {f}
  BY <1>0, <1>1 DEF InFlight, Boards, Roles
<1> QED
  BY <1>0, <1>1, <1>2
     DEF Messages, ArrivedM1, SendingM1, M2s, M3s

\* A step that sends nothing and on which nothing arrives adds none.
LEMMA MessagesKept ==
  ASSUME NothingArrived, NothingSent
  PROVE  /\ ArrivedM1' \subseteq ArrivedM1 /\ SendingM1' \subseteq SendingM1
         /\ M2s' \subseteq M2s /\ M3s' \subseteq M3s
<1>0. "initiator" \in Boards /\ "responder" \in Boards
      /\ Other("initiator") = "responder" /\ Other("responder") = "initiator"
  BY DEF Boards, Roles, Other
<1>1. /\ Arrived("initiator")' \subseteq Arrived("initiator")
      /\ Arrived("responder")' \subseteq Arrived("responder")
      /\ Sending("initiator")' \subseteq Sending("initiator")
      /\ Sending("responder")' \subseteq Sending("responder")
  BY <1>0 DEF NothingArrived, NothingSent
<1>2. /\ InFlight("initiator")' \subseteq InFlight("initiator")
      /\ InFlight("responder")' \subseteq InFlight("responder")
  BY <1>0, <1>1 DEF InFlight
<1> QED
  BY <1>1, <1>2 DEF Messages, ArrivedM1, SendingM1, M2s, M3s

\* Neither a transmission nor a stray frame puts an EDHOC message on its way.
LEMMA AirMessages ==
  ASSUME TypeOK, NEW b \in Boards,
         Transmit(b) \/ (\E f \in Strays : StrayArrives(b, f))
  PROVE  /\ NothingSent
         /\ SendingM1' \subseteq SendingM1
         /\ ArrivedM1' \subseteq ArrivedM1 \cup SendingM1
         /\ b = "responder" => ArrivedM1' \subseteq ArrivedM1
         /\ M2s' \subseteq M2s /\ M3s' \subseteq M3s
<1>0. /\ "initiator" \in Boards /\ "responder" \in Boards
      /\ Other("initiator") = "responder" /\ Other("responder") = "initiator"
      /\ "initiator" # "responder"
      /\ \A c \in Boards : c = "initiator" \/ c = "responder"
  BY DEF Boards, Roles, Other
<1>1. CASE Transmit(b)
  <2>1. /\ Head(txq[b]) \in Sending(b) /\ NothingSent
        /\ Arrived(Other(b))' \subseteq Arrived(Other(b)) \cup {Head(txq[b])}
        /\ Arrived(b)' = Arrived(b)
    BY <1>1, TransmitFlight
  <2>2. \A c \in Boards : InFlight(c)' \subseteq InFlight(c)
    BY <1>0, <2>1 DEF InFlight, NothingSent
  <2>3. SendingM1' \subseteq SendingM1 /\ M2s' \subseteq M2s /\ M3s' \subseteq M3s
    BY <1>0, <2>1, <2>2 DEF SendingM1, M2s, M3s, Messages, NothingSent
  <2>4. ArrivedM1' \subseteq ArrivedM1 \cup SendingM1
    BY <1>0, <2>1 DEF ArrivedM1, SendingM1, Messages
  <2>5. b = "responder" => ArrivedM1' \subseteq ArrivedM1
    BY <1>0, <2>1 DEF ArrivedM1, Messages
  <2> QED
    BY <2>1, <2>3, <2>4, <2>5
<1>2. CASE \E f \in Strays : StrayArrives(b, f)
  <2>1. PICK f \in Strays : StrayArrives(b, f)
    BY <1>2
  <2>2. /\ \A type, kind : type # "unparsable" /\ kind \in {"m1", "m2", "m3"} =>
             f \notin Messages(Arrived(b)', type, kind)
        /\ Arrived(b)' \subseteq Arrived(b) \cup {f}
        /\ \A c \in Boards \ {b} : Arrived(c)' = Arrived(c)
    BY <2>1, StrayFlight
  <2>3. \A c \in Boards : Sending(c)' = Sending(c)
    BY <2>1 DEF StrayArrives, Sending
  <2>4. \A c \in Boards : \A type, kind :
          type # "unparsable" /\ kind \in {"m1", "m2", "m3"} =>
          Messages(Arrived(c)', type, kind) \subseteq Messages(Arrived(c), type, kind)
    BY <2>2 DEF Messages
  <2>5. M2s' \subseteq M2s /\ M3s' \subseteq M3s
    BY <1>0, <2>3, <2>4 DEF M2s, M3s, InFlight, Messages
  <2>6. ArrivedM1' \subseteq ArrivedM1 /\ SendingM1' = SendingM1
    BY <1>0, <2>3, <2>4 DEF ArrivedM1, SendingM1
  <2> QED
    BY <2>3, <2>5, <2>6 DEF NothingSent
<1> QED
  BY <1>1, <1>2

-----------------------------------------------------------------------------
(* What the handlers do, in terms of these messages. *)

\* The four message calls: accepted, or the session is kept or has failed.
LEMMA MakeM1Shape ==
  ASSUME NEW s, NEW prepared
  PROVE  LET r == MakeMessage1(s, "ok", prepared) IN
         /\ r.status = "OK" => /\ r.session = Moved(s, "WaitM2", s.gx, 0)
                               /\ r.out = Body("m1", s.gx, 0, "nobody")
         /\ r.status # "OK" => r.session = s \/ r.session.phase = "Failed"
BY DEF MakeMessage1, Call, Refuse, Answer, ProtocolFailed

LEMMA ProcessM1Shape ==
  ASSUME NEW s, NEW m
  PROVE  LET r == ProcessMessage1(s, "ok", m) IN
         /\ r.status = "OK" => /\ m.kind = "m1"
                               /\ r.session = Moved(s, "WaitM3", m.gx, s.gy)
                               /\ r.out = Body("m2", m.gx, s.gy, s.as)
         /\ r.status # "OK" => r.session = s \/ r.session.phase = "Failed"
BY DEF ProcessMessage1, Call, Refuse, Answer, ProtocolFailed

LEMMA ProcessM2Shape ==
  ASSUME NEW s, NEW m, NEW expected
  PROVE  LET r == ProcessMessage2(s, "ok", m, expected) IN
         /\ r.status = "OK" => /\ m.kind = "m2" /\ m.gx = s.gx /\ m.as = expected
                               /\ r.session = Moved(s, "Done", s.gx, m.gy)
                               /\ r.out = Body("m3", s.gx, m.gy, s.as)
         /\ r.status # "OK" => r.session = s \/ r.session.phase = "Failed"
BY DEF ProcessMessage2, Call, Refuse, Answer, ProtocolFailed

LEMMA ProcessM3Shape ==
  ASSUME NEW s, NEW m, NEW expected
  PROVE  LET r == ProcessMessage3(s, m, expected) IN
         /\ r.status = "OK" => /\ m.kind = "m3" /\ m.gx = s.gx /\ m.gy = s.gy
                               /\ m.as = expected
                               /\ r.session = Moved(s, "Done", s.gx, s.gy)
         /\ r.status # "OK" => r.session = s \/ r.session.phase = "Failed"
BY DEF ProcessMessage3, Call, Refuse, Answer, ProtocolFailed

\* What the two boards are, and that one of them is the other's other.
LEMMA TwoBoards ==
  /\ "initiator" \in Boards /\ "responder" \in Boards /\ "initiator" # "responder"
  /\ Other("initiator") = "responder" /\ Other("responder") = "initiator"
  /\ \A b \in Boards : b = "initiator" \/ b = "responder"
BY DEF Boards, Roles, Other

\* A handler that answers with a frame, or fails and sends nothing.
LEMMA AnswerFlight ==
  ASSUME TypeOK, NEW b \in Boards, NEW type \in Types, NEW r \in Answers,
         NEW body \in Bodies, NEW next, CallAndAnswer(b, r, Frame(type, body), next)
  PROVE  /\ session'[b] = r.session
         /\ \A c \in Boards \ {b} : session'[c] = session[c] /\ txq'[c] = txq[c]
         /\ r.status # "OK" => txq' = txq /\ NothingSent
         /\ r.status = "OK" =>
              /\ txq'[b] = Append(txq[b], Frame(type, body))
              /\ Sending(b)' \subseteq Sending(b) \cup {Frame(type, body)}
              /\ \A c \in Boards \ {b} : Sending(c)' \subseteq Sending(c)
<1>1. Frame(type, body) \in Frames
  BY FrameType
<1>2. /\ session'[b] = r.session
      /\ \A c \in Boards \ {b} : session'[c] = session[c]
  BY AnswerFacts
<1>3. CASE r.status = "OK"
  <2>1. Send(b, Frame(type, body))
    BY <1>3 DEF CallAndAnswer
  <2>2. /\ txq'[b] = Append(txq[b], Frame(type, body))
        /\ \A c \in Boards \ {b} : txq'[c] = txq[c]
    BY <2>1 DEF TypeOK, Send
  <2> QED
    BY <1>1, <1>2, <1>3, <2>1, <2>2, SendFlight
<1>4. CASE r.status # "OK"
  <2>1. txq' = txq
    BY <1>4 DEF CallAndAnswer
  <2> QED
    BY <1>2, <1>4, <2>1, FlightKept
<1> QED
  BY <1>3, <1>4

\* The initiator makes message_1 from a session that has sent nothing.
LEMMA StartEffect ==
  ASSUME TypeOK, CallInv, NEW prepared, StartHandshake(prepared)
  PROVE  LET s == session["initiator"]
             f == Frame("M1", Body("m1", s.gx, 0, "nobody"))
         IN /\ task["initiator"] = "loop" /\ s.phase = "Start"
            /\ UNCHANGED <<build, boot, task, lmk, rxq, history>>
            /\ NothingArrived
            /\ session'["responder"] = session["responder"]
            /\ txq'["responder"] = txq["responder"]
            /\ \/ /\ session'["initiator"] = s \/ session'["initiator"].phase = "Failed"
                  /\ txq' = txq /\ NothingSent
               \/ /\ session'["initiator"] = Moved(s, "WaitM2", s.gx, 0)
                  /\ txq'["initiator"] = Append(txq["initiator"], f)
                  /\ Sending("initiator")' \subseteq Sending("initiator") \cup {f}
                  /\ Sending("responder")' \subseteq Sending("responder")
<1> DEFINE b == "initiator"
           s == session[b]
           r == MakeMessage1(s, "ok", prepared)
<1>1. /\ task[b] = "loop" /\ CallAndAnswer(b, r, Frame("M1", r.out), "WAIT_M2")
      /\ UNCHANGED <<build, boot, task, lmk, rxq, history>>
  BY DEF StartHandshake
<1>2. s.phase = "Start" /\ s \in Sessions(Boards) /\ NoBody \in Bodies
  BY <1>1, TwoBoards, FixedBodies DEF CallInv, PhaseInStep, StartHandshake, TypeOK
<1>3. r \in Answers /\ r.out \in Bodies /\ "M1" \in Types
  <2>1. r \in Answers
    BY <1>2, MessageTypes
  <2> QED
    BY <2>1 DEF Answers, Types
<1>4. NothingArrived
  BY <1>1, FlightKept
<1>5. /\ r.status = "OK" => /\ r.session = Moved(s, "WaitM2", s.gx, 0)
                            /\ r.out = Body("m1", s.gx, 0, "nobody")
      /\ r.status # "OK" => r.session = s \/ r.session.phase = "Failed"
  BY MakeM1Shape
<1> HIDE DEF r, s
<1>6. /\ session'[b] = r.session
      /\ \A c \in Boards \ {b} : session'[c] = session[c] /\ txq'[c] = txq[c]
      /\ r.status # "OK" => txq' = txq /\ NothingSent
      /\ r.status = "OK" =>
           /\ txq'[b] = Append(txq[b], Frame("M1", r.out))
           /\ Sending(b)' \subseteq Sending(b) \cup {Frame("M1", r.out)}
           /\ \A c \in Boards \ {b} : Sending(c)' \subseteq Sending(c)
  BY <1>1, <1>3, TwoBoards, AnswerFlight
<1> QED
  BY <1>1, <1>2, <1>4, <1>5, <1>6, TwoBoards DEF s

\* The responder answers a message_1 that has arrived, or gives up.
LEMMA M1Effect ==
  ASSUME TypeOK, CallInv, ProcessM1
  PROVE  LET s == session["responder"]
         IN /\ task["responder"] = "loop" /\ s.phase = "Start"
            /\ UNCHANGED <<build, boot, task, lmk, history>>
            /\ NothingArrived /\ rxq'["initiator"] = rxq["initiator"]
            /\ session'["initiator"] = session["initiator"]
            /\ txq'["initiator"] = txq["initiator"]
            /\ \/ /\ session'["responder"] = s \/ session'["responder"].phase = "Failed"
                  /\ txq' = txq /\ NothingSent
               \/ \E m \in ArrivedM1 :
                  LET f == Frame("M2", Body("m2", m.body.gx, s.gy, s.as))
                  IN /\ session'["responder"] = Moved(s, "WaitM3", m.body.gx, s.gy)
                     /\ Sending("responder")' \subseteq Sending("responder") \cup {f}
                     /\ Sending("initiator")' \subseteq Sending("initiator")
<1> DEFINE b == "responder"
           s == session[b]
           m == Msg(b)
           r == ProcessMessage1(s, "ok", m.body)
<1>1. /\ Received(b) /\ Taken(b) /\ task[b] = "loop" /\ state[b] = "WAIT_M1"
      /\ m.type = "M1" /\ m.sid = "ours"
      /\ CallAndAnswer(b, r, Frame("M2", r.out), "WAIT_M3")
      /\ UNCHANGED <<build, boot, task, lmk, history>>
  BY DEF ProcessM1, Handling, Received, Expected, history
<1>2. s.phase = "Start" /\ s \in Sessions(Boards)
  BY <1>1, TwoBoards DEF CallInv, PhaseInStep, PhaseOf, TypeOK
<1>3. NothingArrived /\ m \in Arrived(b) /\ m \in Frames
  BY <1>1, TwoBoards, TakenFlight, TakenType
<1>4. r \in Answers /\ r.out \in Bodies /\ "M2" \in Types
  <2>1. m.body \in Bodies
    BY <1>3 DEF Frames
  <2>2. r \in Answers
    BY <1>2, <2>1, MessageTypes
  <2> QED
    BY <2>2 DEF Answers, Types
<1>5. /\ r.status = "OK" => /\ m.body.kind = "m1"
                            /\ r.session = Moved(s, "WaitM3", m.body.gx, s.gy)
                            /\ r.out = Body("m2", m.body.gx, s.gy, s.as)
      /\ r.status # "OK" => r.session = s \/ r.session.phase = "Failed"
  BY ProcessM1Shape
<1>6. rxq'["initiator"] = rxq["initiator"]
  BY <1>1, TwoBoards DEF Taken, TypeOK
<1> HIDE DEF r, s, m
<1>7. /\ session'[b] = r.session
      /\ \A c \in Boards \ {b} : session'[c] = session[c] /\ txq'[c] = txq[c]
      /\ r.status # "OK" => txq' = txq /\ NothingSent
      /\ r.status = "OK" =>
           /\ Sending(b)' \subseteq Sending(b) \cup {Frame("M2", r.out)}
           /\ \A c \in Boards \ {b} : Sending(c)' \subseteq Sending(c)
  BY <1>1, <1>4, TwoBoards, AnswerFlight
<1>8. r.status = "OK" => m \in ArrivedM1
  BY <1>1, <1>3, <1>5 DEF ArrivedM1, Messages
<1> QED
  BY <1>1, <1>2, <1>3, <1>5, <1>6, <1>7, <1>8, TwoBoards DEF s

\* The initiator accepts the message_2 at the head of its queue, or gives up.
LEMMA M2Effect ==
  ASSUME TypeOK, CallInv, ProcessM2
  PROVE  LET s == session["initiator"]
             m == Msg("initiator")
             f == Frame("M3", Body("m3", s.gx, m.body.gy, s.as))
         IN /\ task["initiator"] = "loop" /\ s.phase = "WaitM2"
            /\ UNCHANGED <<build, boot, task, lmk, derived, confirmed>>
            /\ NothingArrived
            /\ rxq["initiator"] # <<>>
            /\ rxq'["initiator"] = Tail(rxq["initiator"])
            /\ session'["responder"] = session["responder"]
            /\ txq'["responder"] = txq["responder"]
            /\ accepted'["responder"] = accepted["responder"]
            /\ \/ /\ session'["initiator"] = s \/ session'["initiator"].phase = "Failed"
                  /\ txq' = txq /\ NothingSent /\ accepted' = accepted
               \/ /\ m \in M2s /\ m.body.gx = s.gx
                  /\ m.body.as = build["initiator"].cred["responder"]
                  /\ session'["initiator"] = Moved(s, "Done", s.gx, m.body.gy)
                  /\ txq'["initiator"] = Append(txq["initiator"], f)
                  /\ Sending("initiator")' \subseteq Sending("initiator") \cup {f}
                  /\ Sending("responder")' \subseteq Sending("responder")
                  /\ accepted'["initiator"] =
                       accepted["initiator"] \cup {Transcript(m.body)}
<1> DEFINE b == "initiator"
           s == session[b]
           m == Msg(b)
           expected == build[b].cred["responder"]
           r == ProcessMessage2(s, "ok", m.body, expected)
<1>1. /\ Received(b) /\ Taken(b) /\ task[b] = "loop" /\ state[b] = "WAIT_M2"
      /\ m.type = "M2" /\ m.sid = "ours"
      /\ CallAndAnswer(b, r, Frame("M3", r.out), "WAIT_EDHOC_ACK")
      /\ accepted' = [accepted EXCEPT ![b] =
                        IF r.status = "OK" THEN @ \cup {Transcript(r.session)} ELSE @]
      /\ UNCHANGED <<build, boot, task, lmk, derived, confirmed>>
  BY DEF ProcessM2, Handling, Received, Expected, Record
<1>2. s.phase = "WaitM2" /\ s \in Sessions(Boards)
  BY <1>1, TwoBoards DEF CallInv, PhaseInStep, PhaseOf, TypeOK
<1>3. NothingArrived /\ m \in Arrived(b) /\ m \in Frames
  BY <1>1, TwoBoards, TakenFlight, TakenType
<1>4. r \in Answers /\ r.out \in Bodies /\ "M3" \in Types
  <2>1. m.body \in Bodies
    BY <1>3 DEF Frames
  <2>2. r \in Answers
    BY <1>2, <2>1, MessageTypes
  <2> QED
    BY <2>2 DEF Answers, Types
<1>5. /\ r.status = "OK" => /\ m.body.kind = "m2" /\ m.body.gx = s.gx
                            /\ m.body.as = expected
                            /\ r.session = Moved(s, "Done", s.gx, m.body.gy)
                            /\ r.out = Body("m3", s.gx, m.body.gy, s.as)
      /\ r.status # "OK" => r.session = s \/ r.session.phase = "Failed"
  BY ProcessM2Shape
<1>6. rxq'[b] = Tail(rxq[b]) /\ rxq[b] # <<>>
  BY <1>1, TwoBoards DEF Taken, TypeOK, Received
<1> HIDE DEF r, s, m
<1>7. /\ session'[b] = r.session
      /\ \A c \in Boards \ {b} : session'[c] = session[c] /\ txq'[c] = txq[c]
      /\ r.status # "OK" => txq' = txq /\ NothingSent
      /\ r.status = "OK" =>
           /\ txq'[b] = Append(txq[b], Frame("M3", r.out))
           /\ Sending(b)' \subseteq Sending(b) \cup {Frame("M3", r.out)}
           /\ \A c \in Boards \ {b} : Sending(c)' \subseteq Sending(c)
  BY <1>1, <1>4, TwoBoards, AnswerFlight
<1>8. r.status = "OK" => m \in M2s
  BY <1>1, <1>3, <1>5 DEF M2s, Messages, InFlight
<1>9. /\ accepted'["responder"] = accepted["responder"]
      /\ r.status # "OK" => accepted' = accepted
      /\ r.status = "OK" => accepted'[b] = accepted[b] \cup {Transcript(r.session)}
  BY <1>1, TwoBoards DEF TypeOK
<1>10. r.status = "OK" => Transcript(r.session) = Transcript(m.body)
  BY <1>5 DEF Transcript, Moved
<1> QED
  BY <1>1, <1>2, <1>3, <1>5, <1>6, <1>7, <1>8, <1>9, <1>10, TwoBoards DEF s, m

\* The responder accepts a message_3 that has arrived, or gives up.
LEMMA M3Effect ==
  ASSUME TypeOK, CallInv, ProcessM3
  PROVE  LET s == session["responder"]
         IN /\ task["responder"] = "loop" /\ s.phase = "WaitM3"
            /\ UNCHANGED <<build, boot, lmk, derived, confirmed>>
            /\ task'["initiator"] = task["initiator"]
            /\ task'["responder"] \in {"loop", "switchDelay"}
            /\ NothingArrived /\ rxq'["initiator"] = rxq["initiator"]
            /\ session'["initiator"] = session["initiator"]
            /\ txq'["initiator"] = txq["initiator"]
            /\ accepted'["initiator"] = accepted["initiator"]
            /\ \/ /\ session'["responder"] = s \/ session'["responder"].phase = "Failed"
                  /\ NothingSent /\ accepted' = accepted
               \/ /\ \E m \in M3s : /\ Transcript(m.body) = Transcript(s)
                                    /\ m.body.as = build["responder"].cred["initiator"]
                  /\ session'["responder"] = Moved(s, "Done", s.gx, s.gy)
                  /\ Sending("responder")' \subseteq
                       Sending("responder") \cup {Frame("ACK", Text)}
                  /\ Sending("initiator")' \subseteq Sending("initiator")
                  /\ accepted'["responder"] =
                       accepted["responder"] \cup {Transcript(s)}
<1> DEFINE b == "responder"
           s == session[b]
           m == Msg(b)
           expected == build[b].cred["initiator"]
           r == ProcessMessage3(s, m.body, expected)
<1>1. /\ Received(b) /\ Taken(b) /\ task[b] = "loop" /\ state[b] = "WAIT_M3"
      /\ m.type = "M3" /\ m.sid = "ours"
      /\ CallAndAnswer(b, r, Frame("ACK", Text), state[b])
      /\ task' = Set(task, b, IF r.status = "OK" THEN "switchDelay" ELSE "loop")
      /\ accepted' = [accepted EXCEPT ![b] =
                        IF r.status = "OK" THEN @ \cup {Transcript(r.session)} ELSE @]
      /\ UNCHANGED <<build, boot, lmk, derived, confirmed>>
  BY DEF ProcessM3, Handling, Received, Expected, Record
<1>2. s.phase = "WaitM3" /\ s \in Sessions(Boards)
  BY <1>1, TwoBoards DEF CallInv, PhaseInStep, PhaseOf, TypeOK
<1>3. NothingArrived /\ m \in Arrived(b) /\ m \in Frames
  BY <1>1, TwoBoards, TakenFlight, TakenType
<1>4. r \in Answers /\ Text \in Bodies /\ "ACK" \in Types
  <2>1. m.body \in Bodies
    BY <1>3 DEF Frames
  <2>2. r \in Answers
    BY <1>2, <2>1, MessageTypes
  <2> QED
    BY <2>2, FixedBodies DEF Types
<1>5. /\ r.status = "OK" => /\ m.body.kind = "m3" /\ m.body.gx = s.gx
                            /\ m.body.gy = s.gy /\ m.body.as = expected
                            /\ r.session = Moved(s, "Done", s.gx, s.gy)
      /\ r.status # "OK" => r.session = s \/ r.session.phase = "Failed"
  BY ProcessM3Shape
<1>6. rxq'["initiator"] = rxq["initiator"]
  BY <1>1, TwoBoards DEF Taken, TypeOK
<1> HIDE DEF r, s, m
<1>7. /\ session'[b] = r.session
      /\ \A c \in Boards \ {b} : session'[c] = session[c] /\ txq'[c] = txq[c]
      /\ r.status # "OK" => NothingSent
      /\ r.status = "OK" =>
           /\ Sending(b)' \subseteq Sending(b) \cup {Frame("ACK", Text)}
           /\ \A c \in Boards \ {b} : Sending(c)' \subseteq Sending(c)
  BY <1>1, <1>4, TwoBoards, AnswerFlight
<1>8. r.status = "OK" => m \in M3s
  BY <1>1, <1>3, <1>5 DEF M3s, Messages, InFlight
<1>9. /\ accepted'["initiator"] = accepted["initiator"]
      /\ r.status # "OK" => accepted' = accepted
      /\ r.status = "OK" => accepted'[b] = accepted[b] \cup {Transcript(r.session)}
  BY <1>1, TwoBoards DEF TypeOK
<1>10. r.status = "OK" => /\ Transcript(r.session) = Transcript(s)
                          /\ Transcript(m.body) = Transcript(s)
  BY <1>5 DEF Transcript, Moved
<1>11. /\ task'["initiator"] = task["initiator"]
       /\ task'["responder"] \in {"loop", "switchDelay"}
  BY <1>1, TwoBoards DEF TypeOK, Set
<1> QED
  BY <1>1, <1>2, <1>3, <1>5, <1>6, <1>7, <1>8, <1>9, <1>10, <1>11, TwoBoards DEF s, m

\* The steps of an application that leave sessions and transcripts alone: they
\* send at most a key test, and only once the handshake is over.
Running == {"loop", "switchDelay", "keyTestDelay"}
Quiet ==
  /\ UNCHANGED <<build, boot, session, accepted>>
  /\ NothingArrived
  /\ \A b \in Boards : task'[b] = task[b] \/ {task[b], task'[b]} \subseteq Running
  /\ \A b \in Boards : \/ rxq'[b] = rxq[b]
                       \/ rxq[b] # <<>> /\ rxq'[b] = Tail(rxq[b])
  /\ \/ txq' = txq
     \/ \E b \in Boards, type \in {"KEY_TEST", "KEY_TEST_ACK"} :
          session[b].phase = "Done" /\ Send(b, Frame(type, Text))

\* What a handler that takes a frame does to the receive queues.
LEMMA TakenQueues ==
  ASSUME TypeOK, NEW b \in Boards, Received(b), Taken(b)
  PROVE  /\ NothingArrived
         /\ \A c \in Boards : \/ rxq'[c] = rxq[c]
                              \/ rxq[c] # <<>> /\ rxq'[c] = Tail(rxq[c])
BY TakenFlight DEF TypeOK, Received, Taken

\* These are the steps that install and test keys, drop a frame or give up.
LEMMA QuietActions ==
  ASSUME TypeOK, CallInv,
         \/ \E b \in Boards : BadSession(b) \/ Ignore(b)
         \/ \E outcome : InstallAfterDelay(outcome) \/ ProcessAck(outcome)
         \/ SendKeyTest \/ ProcessKeyTest \/ ProcessKeyTestAck
         \/ UNCHANGED vars
  PROVE  Quiet
<1>1. CASE \E b \in Boards : BadSession(b) \/ Ignore(b)
  <2>1. PICK b \in Boards : BadSession(b) \/ Ignore(b)
    BY <1>1
  <2>2. /\ Received(b) /\ Taken(b)
        /\ UNCHANGED <<build, boot, task, session, txq, accepted>>
    BY <2>1 DEF BadSession, Ignore, history
  <2> QED
    BY <2>2, TakenQueues DEF Quiet
<1>2. CASE \E outcome : InstallAfterDelay(outcome)
  <2>1. /\ UNCHANGED <<build, boot, session, rxq, txq, accepted>>
        /\ task["responder"] = "switchDelay" /\ task' = Set(task, "responder", "loop")
    BY <1>2 DEF InstallAfterDelay
  <2>2. \A b \in Boards : task'[b] = task[b] \/ {task[b], task'[b]} \subseteq Running
    BY <2>1 DEF TypeOK, Set, Running
  <2> QED
    BY <2>1, <2>2, FlightKept DEF Quiet
<1>3. CASE \E outcome : ProcessAck(outcome)
  <2>1. PICK outcome : ProcessAck(outcome)
    BY <1>3
  <2>2. /\ Received("initiator") /\ Taken("initiator") /\ task["initiator"] = "loop"
        /\ UNCHANGED <<build, boot, session, txq, accepted>>
        /\ task' = Set(task, "initiator",
                       IF Verified("initiator") /\ outcome = "ok"
                       THEN "keyTestDelay" ELSE "loop")
    BY <2>1 DEF ProcessAck, Handling, Received
  <2>3. \A b \in Boards : task'[b] = task[b] \/ {task[b], task'[b]} \subseteq Running
    BY <2>2 DEF TypeOK, Set, Running
  <2> QED
    BY <2>2, <2>3, TakenQueues, TwoBoards DEF Quiet
<1>4. CASE SendKeyTest
  <2>1. /\ UNCHANGED <<build, boot, session, rxq, accepted>>
        /\ task["initiator"] = "keyTestDelay" /\ task' = Set(task, "initiator", "loop")
        /\ Send("initiator", Frame("KEY_TEST", Text))
    BY <1>4 DEF SendKeyTest, history
  <2>2. \A b \in Boards : task'[b] = task[b] \/ {task[b], task'[b]} \subseteq Running
    BY <2>1 DEF TypeOK, Set, Running
  <2>3. session["initiator"].phase = "Done"
    BY <2>1, TwoBoards DEF CallInv, TaskStates, PhaseInStep, PhaseOf
  <2> QED
    BY <2>1, <2>2, <2>3, FlightKept, TwoBoards DEF Quiet
<1>5. CASE ProcessKeyTest
  <2>1. /\ Received("responder") /\ Taken("responder") /\ task["responder"] = "loop"
        /\ state["responder"] = "WAIT_KEY_TEST"
        /\ UNCHANGED <<build, boot, task, session, accepted>>
        /\ txq' = txq \/ Send("responder", Frame("KEY_TEST_ACK", Text))
    BY <1>5 DEF ProcessKeyTest, Handling, Received, Expected
  <2>2. session["responder"].phase = "Done"
    BY <2>1, TwoBoards DEF CallInv, TaskStates, PhaseInStep, PhaseOf
  <2> QED
    BY <2>1, <2>2, TakenQueues, TwoBoards DEF Quiet
<1>6. CASE ProcessKeyTestAck
  <2>1. /\ Received("initiator") /\ Taken("initiator")
        /\ UNCHANGED <<build, boot, task, session, accepted, txq>>
    BY <1>6 DEF ProcessKeyTestAck, Handling, Received
  <2> QED
    BY <2>1, TakenQueues, TwoBoards DEF Quiet
<1>7. CASE UNCHANGED vars
  BY <1>7, FlightKept DEF Quiet, vars, ram, history
<1> QED
  BY <1>1, <1>2, <1>3, <1>4, <1>5, <1>6, <1>7

\* They put no EDHOC message and no ACK on its way.
LEMMA QuietMessages ==
  ASSUME TypeOK, Quiet
  PROVE  /\ ArrivedM1' \subseteq ArrivedM1 /\ SendingM1' \subseteq SendingM1
         /\ M2s' \subseteq M2s /\ M3s' \subseteq M3s
         /\ \A b \in Boards : \A f \in Sending(b)' :
              f \in Sending(b) \/ f.type \in {"KEY_TEST", "KEY_TEST_ACK"}
<1>1. CASE txq' = txq
  <2>1. NothingArrived /\ NothingSent
    BY <1>1, FlightKept DEF Quiet
  <2> QED
    BY <2>1, MessagesKept DEF NothingSent
<1>2. CASE txq' # txq
  <2>1. PICK b \in Boards, type \in {"KEY_TEST", "KEY_TEST_ACK"} :
          Send(b, Frame(type, Text))
    BY <1>2 DEF Quiet
  <2>2. Frame(type, Text) \in Frames /\ Frame(type, Text).type = type
    BY FrameType, FixedBodies DEF Types, Frame
  <2>3. /\ Sending(b)' \subseteq Sending(b) \cup {Frame(type, Text)}
        /\ \A c \in Boards \ {b} : Sending(c)' \subseteq Sending(c)
    BY <2>1, <2>2, SendFlight
  <2>4. /\ ArrivedM1' \subseteq ArrivedM1 /\ SendingM1' \subseteq SendingM1
        /\ M2s' \subseteq M2s /\ M3s' \subseteq M3s
    BY <2>2, <2>3, MessageSets DEF Quiet
  <2> QED
    BY <2>2, <2>3, <2>4
<1> QED
  BY <1>1, <1>2

-----------------------------------------------------------------------------
(* The order of ephemeral keys. *)

\* Frames on their way are frames, and what is bound in them are numbers.
LEMMA PairTypes ==
  ASSUME TypeOK
  PROVE  /\ \A b \in Boards : Sending(b) \subseteq Frames /\ Arrived(b) \subseteq Frames
         /\ Pairs \subseteq [gx : Nat, gy : Nat]
         /\ Reached \subseteq Nat
         /\ \A f \in ArrivedM1 \cup M2s \cup M3s : f.body.gx \in Nat /\ f.body.gy \in Nat
         /\ \A b \in Boards : boot[b] \in Nat
<1>1. \A b \in Boards : Sending(b) \subseteq Frames
  BY DEF TypeOK, Sending
<1>2. \A b \in Boards : Arrived(b) \subseteq Frames
  <2>1. \A b \in Boards : \A i \in 1 .. Len(rxq[b]) : rxq[b][i] \in Packets
    BY DEF TypeOK
  <2>2. \A p \in Packets : p.frame \in Frames
    BY DEF Packets
  <2> QED
    BY <2>1, <2>2 DEF Arrived
<1>3. ArrivedM1 \subseteq Frames /\ M2s \subseteq Frames /\ M3s \subseteq Frames
  BY <1>1, <1>2, TwoBoards DEF ArrivedM1, M2s, M3s, Messages, InFlight
<1>4. \A f \in Frames : f.body.gx \in Nat /\ f.body.gy \in Nat
  BY DEF Frames, Bodies
<1>5. session["responder"].gx \in Nat /\ session["responder"].gy \in Nat
  BY TwoBoards, SessionFields DEF TypeOK
<1>6. accepted["initiator"] \subseteq [gx : Nat, gy : Nat]
  BY TwoBoards DEF TypeOK
<1>7. Pairs \subseteq [gx : Nat, gy : Nat]
  BY <1>3, <1>4, <1>5, <1>6 DEF Pairs, Committed, Transcript
<1>8. Reached \subseteq Nat
  BY <1>3, <1>4, <1>7 DEF Reached
<1>9. \A b \in Boards : boot[b] \in Nat
  BY PairingAssumption DEF TypeOK
<1> QED
  BY <1>1, <1>2, <1>3, <1>4, <1>7, <1>8, <1>9

\* Nothing new is bound by a step that adds no message_2 and leaves the responder
\* and what the initiator accepted alone.
LEMMA PairsKept ==
  ASSUME M2s' \subseteq M2s, accepted'["initiator"] = accepted["initiator"],
         session'["responder"].phase \in {"WaitM3", "Done"} =>
           /\ session["responder"].phase \in {"WaitM3", "Done"}
           /\ Transcript(session'["responder"]) = Transcript(session["responder"])
  PROVE  Pairs' \subseteq Pairs
<1>1. Committed' \subseteq Committed
  BY DEF Committed
<1> QED
  BY <1>1 DEF Pairs

\* The order stays when nothing is added to what is bound or has arrived.
LEMMA OrderKept ==
  ASSUME PairInv, Pairs' \subseteq Pairs, ArrivedM1' \subseteq ArrivedM1,
         UNCHANGED boot
  PROVE  Ordered' /\ Waiting' /\ Reached' \subseteq Reached
<1>1. Ordered'
  BY DEF PairInv, Ordered
<1>2. Waiting'
  BY DEF PairInv, Waiting
<1>3. Reached' \subseteq Reached
  BY DEF Reached
<1> QED
  BY <1>1, <1>2, <1>3

\* The same with the key of this boot still at home, if it was.
LEMMA LeftKept ==
  ASSUME PairInv, Reached' \subseteq Reached, UNCHANGED boot, KeyAtHome' => KeyAtHome
  PROVE  KeysLeft'
BY DEF PairInv, KeysLeft

\* Message_1 stays first when anything else is queued behind it.
LEMMA FirstKept ==
  ASSUME TypeOK, FirstSent, boot'["initiator"] = boot["initiator"],
         \/ txq'["initiator"] = txq["initiator"]
         \/ \E f \in Frames : /\ f.type # "M1"
                              /\ txq'["initiator"] = Append(txq["initiator"], f)
  PROVE  FirstSent'
<1> DEFINE q == txq["initiator"]
<1>1. q \in Seq(Frames)
  BY TwoBoards DEF TypeOK
<1>2. \A i : txq'["initiator"][i] \in SendingM1' =>
               txq'["initiator"][i].type = "M1" /\ txq'["initiator"][i].sid = "ours"
               /\ txq'["initiator"][i].body.kind = "m1"
  BY DEF SendingM1, Messages
<1>3. \A i \in 1 .. Len(q) :
        q[i].type = "M1" /\ q[i].sid = "ours" /\ q[i].body.kind = "m1" =>
          i = 1 /\ q[i].body.gx = boot["initiator"]
  BY DEF FirstSent, SendingM1, Messages, Sending
<1>4. CASE txq'["initiator"] = q
  BY <1>2, <1>3, <1>4 DEF FirstSent
<1>5. CASE \E f \in Frames : f.type # "M1" /\ txq'["initiator"] = Append(q, f)
  <2>1. PICK f \in Frames : f.type # "M1" /\ txq'["initiator"] = Append(q, f)
    BY <1>5
  <2>2. \A i \in 1 .. Len(txq'["initiator"]) :
          \/ txq'["initiator"][i].type # "M1"
          \/ i \in 1 .. Len(q) /\ txq'["initiator"][i] = q[i]
    BY <1>1, <2>1
  <2> QED
    BY <1>2, <1>3, <2>2 DEF FirstSent
<1> QED
  BY <1>4, <1>5

\* Boards that have not booted have nothing on its way.
LEMMA PairStart == Init => PairInv
<1> SUFFICES ASSUME Init PROVE PairInv
  OBVIOUS
<1>1. /\ \A b \in Boards : /\ task[b] = "down" /\ session[b] = EmptySession
                           /\ rxq[b] = <<>> /\ txq[b] = <<>>
      /\ accepted["initiator"] = {}
  BY TwoBoards DEF Init
<1>2. \A b \in Boards : Sending(b) = {} /\ Arrived(b) = {}
  BY <1>1 DEF Sending, Arrived
<1>3. M2s = {} /\ ArrivedM1 = {} /\ SendingM1 = {}
  BY <1>2, TwoBoards DEF M2s, ArrivedM1, SendingM1, Messages, InFlight
<1>4. Committed = {}
  BY <1>1, TwoBoards DEF Committed, EmptySession
<1>5. Pairs = {} /\ Reached = {}
  BY <1>1, <1>3, <1>4 DEF Pairs, Reached
<1>6. Idle /\ OwnKey
  BY <1>1 DEF Idle, OwnKey, EmptySession
<1>7. KeysLeft /\ FirstSent
  BY <1>1, <1>5, TwoBoards DEF KeysLeft, FirstSent
<1>8. Ordered /\ Current /\ Waiting
  BY <1>3, <1>5 DEF Ordered, Current, Waiting
<1> QED
  BY <1>6, <1>7, <1>8 DEF PairInv

\* The quiet steps.
LEMMA PairQuiet == ASSUME TypeOK, PairInv, Quiet PROVE PairInv'
<1>1. UNCHANGED <<session, boot, accepted>>
  BY DEF Quiet
<1>2. /\ M2s' \subseteq M2s /\ ArrivedM1' \subseteq ArrivedM1
      /\ SendingM1' \subseteq SendingM1
  BY QuietMessages
<1>3. \A b \in Boards :
        /\ task'[b] \notin Running => task'[b] = task[b]
        /\ task'[b] # "down" <=> task[b] # "down"
  BY DEF Quiet, Running
<1>4. Pairs' \subseteq Pairs
  BY <1>1, <1>2, PairsKept
<1>5. Ordered' /\ Waiting' /\ Reached' \subseteq Reached
  BY <1>1, <1>2, <1>4, OrderKept
<1>6. KeysLeft'
  BY <1>1, <1>2, <1>3, <1>5, LeftKept, TwoBoards DEF KeyAtHome
<1>7. Current'
  BY <1>1, <1>3, <1>4, TwoBoards DEF PairInv, Current
<1>8. OwnKey'
  BY <1>1 DEF PairInv, OwnKey
<1>9. \/ txq' = txq
      \/ \E b \in Boards, f \in Frames :
           /\ f.type # "M1" /\ session[b].phase = "Done"
           /\ txq' = [txq EXCEPT ![b] = Append(@, f)]
  <2>1. \A type \in {"KEY_TEST", "KEY_TEST_ACK"} :
          Frame(type, Text) \in Frames /\ Frame(type, Text).type # "M1"
    BY FrameType, FixedBodies DEF Types, Frame
  <2> QED
    BY <2>1 DEF Quiet, Send
<1>10. Idle'
  <2>1. \A b \in Boards : task'[b] \in {"down", "listening", "halted"} =>
          task'[b] = task[b]
    BY <1>3 DEF Running
  <2>2. \A b \in Boards : session[b].phase \in {"Empty", "Start"} => txq'[b] = txq[b]
    BY <1>9 DEF TypeOK
  <2>3. \A b \in Boards : rxq[b] = <<>> => rxq'[b] = <<>>
    BY DEF Quiet
  <2> QED
    BY <1>1, <1>3, <2>1, <2>2, <2>3 DEF PairInv, Idle
<1>11. FirstSent'
  <2>1. \/ txq'["initiator"] = txq["initiator"]
        \/ \E f \in Frames : /\ f.type # "M1"
                             /\ txq'["initiator"] = Append(txq["initiator"], f)
    BY <1>9, TwoBoards DEF TypeOK
  <2> QED
    BY <1>1, <2>1, FirstKept DEF PairInv
<1> QED
  BY <1>5, <1>6, <1>7, <1>8, <1>10, <1>11 DEF PairInv

\* A frame leaves or a stray frame arrives.
LEMMA PairAir ==
  ASSUME TypeOK, PairInv, NEW b \in Boards,
         Transmit(b) \/ (\E f \in Strays : StrayArrives(b, f))
  PROVE  PairInv'
<1>1. UNCHANGED <<session, boot, task, accepted>>
  BY DEF Transmit, StrayArrives, history
<1>2. /\ M2s' \subseteq M2s /\ SendingM1' \subseteq SendingM1
      /\ ArrivedM1' \subseteq ArrivedM1 \cup SendingM1
      /\ b = "responder" => ArrivedM1' \subseteq ArrivedM1
  BY AirMessages
<1>3. Pairs' \subseteq Pairs
  BY <1>1, <1>2, PairsKept
<1>4. OwnKey' /\ Current' /\ Ordered'
  BY <1>1, <1>3 DEF PairInv, OwnKey, Current, Ordered
<1>5. \A c \in Boards : task[c] = "down" => rxq'[c] = <<>>
  <2>1. \A c \in Boards : rxq'[c] = rxq[c] \/ task[c] # "down"
    <3>1. CASE Transmit(b)
      <4>1. PICK n \in Arrivals(Other(b), lmk[b]) :
              rxq' = [rxq EXCEPT ![Other(b)] =
                        Deliver(@, [frame |-> Head(txq[b]), key |-> lmk[b]], n)]
        BY <3>1 DEF Transmit
      <4>2. CASE task[Other(b)] = "down"
        <5>1. n = 0
          BY <4>2, <4>1 DEF Arrivals, Hears
        <5> QED
          BY <4>1, <5>1 DEF Deliver, TypeOK
      <4>3. CASE task[Other(b)] # "down"
        BY <4>1, <4>3 DEF TypeOK
      <4> QED
        BY <4>2, <4>3
    <3>2. CASE \E f \in Strays : StrayArrives(b, f)
      BY <3>2 DEF StrayArrives, Hears, TypeOK
    <3> QED
      BY <3>1, <3>2
  <2> QED
    BY <2>1 DEF PairInv, Idle
<1>6. Idle'
  <2>1. \A c \in Boards : txq[c] = <<>> => txq'[c] = <<>>
    BY DEF Transmit, StrayArrives, TypeOK
  <2> QED
    BY <1>1, <1>5, <2>1 DEF PairInv, Idle
<1>7. CASE SendingM1 # {} /\ Transmit(b) /\ b = "initiator"
  <2> DEFINE q == txq["initiator"]
             m == q[1]
  <2>1. q \in Seq(Frames) /\ q # <<>> /\ txq'["initiator"] = Tail(q)
    BY <1>7, TwoBoards, TransmitFlight DEF TypeOK
  <2>2. \A i \in 1 .. Len(q) :
          q[i] \in SendingM1 => i = 1 /\ q[i].body.gx = boot["initiator"]
    BY DEF PairInv, FirstSent
  <2>3. /\ SendingM1 \subseteq {m} /\ m.body.gx = boot["initiator"]
    BY <1>7, <2>2 DEF SendingM1, Messages, Sending
  <2>4. boot["initiator"] \notin Reached
    BY <1>7 DEF PairInv, KeysLeft, KeyAtHome
  <2>5. \A i \in 1 .. Len(Tail(q)) : i + 1 \in 1 .. Len(q) /\ Tail(q)[i] = q[i + 1]
                                     /\ i + 1 # 1
    BY <2>1, TailFacts
  <2>6. \A i \in 1 .. Len(Tail(q)) : Tail(q)[i] \notin SendingM1
    BY <2>2, <2>5
  <2>7. SendingM1' = {}
    BY <1>2, <2>1, <2>6 DEF SendingM1, Messages, Sending
  <2>8. FirstSent'
    BY <2>7 DEF FirstSent
  <2>9. session["initiator"].phase \notin {"Empty", "Start"}
    BY <2>1, TwoBoards DEF PairInv, Idle
  <2>10. ~KeyAtHome'
    BY <1>1, <2>7, <2>9 DEF KeyAtHome
  <2>11. Reached' \subseteq Reached \cup {boot["initiator"]}
    BY <1>2, <1>3, <2>3 DEF Reached
  <2>12. boot["initiator"] \in 1 .. boot["initiator"]
    <3>1. boot["initiator"] # 0
      BY <2>9, TwoBoards DEF PairInv, Idle, EmptySession
    <3> QED
      BY <3>1, PairTypes, TwoBoards
  <2>13. KeysLeft'
    BY <1>1, <2>10, <2>11, <2>12 DEF PairInv, KeysLeft
  <2>14. Waiting'
    <3>1. \A p \in Pairs : p.gx \in Reached /\ p.gx \in 1 .. boot["initiator"]
                           /\ p.gx # boot["initiator"]
      BY <2>4 DEF Reached, PairInv, KeysLeft
    <3>2. \A p \in Pairs : ~(boot["initiator"] <= p.gx)
      BY <3>1, PairTypes, TwoBoards
    <3>3. \A f \in ArrivedM1' : f \in ArrivedM1 \/ f.body.gx = boot["initiator"]
      BY <1>2, <2>3
    <3> QED
      BY <1>1, <1>3, <3>2, <3>3 DEF PairInv, Waiting
  <2> QED
    BY <1>4, <1>6, <2>8, <2>13, <2>14 DEF PairInv
<1>8. CASE ~(SendingM1 # {} /\ Transmit(b) /\ b = "initiator")
  <2>1. ArrivedM1' \subseteq ArrivedM1
    <3>1. CASE Transmit(b)
      BY <1>2, <1>8, <3>1, TwoBoards
    <3>2. CASE \E f \in Strays : StrayArrives(b, f)
      <4>1. PICK f \in Strays : StrayArrives(b, f)
        BY <3>2
      <4>2. /\ f \notin Messages(Arrived(b)', "M1", "m1")
            /\ Arrived(b)' \subseteq Arrived(b) \cup {f}
            /\ \A c \in Boards \ {b} : Arrived(c)' = Arrived(c)
        BY <4>1, StrayFlight
      <4> QED
        BY <4>2, TwoBoards DEF ArrivedM1, Messages
    <3> QED
      BY <3>1, <3>2
  <2>2. Waiting' /\ Reached' \subseteq Reached
    BY <1>1, <1>3, <2>1, OrderKept
  <2>3. KeysLeft'
    BY <1>1, <1>2, <2>2, LeftKept DEF KeyAtHome
  <2>4. FirstSent'
    <3>1. CASE txq'["initiator"] = txq["initiator"]
      BY <1>1, <3>1, FirstKept DEF PairInv
    <3>2. CASE txq'["initiator"] # txq["initiator"]
      <4>1. Transmit(b)
        BY <3>2 DEF StrayArrives
      <4>2. b = "initiator"
        BY <3>2, <4>1, TwoBoards, TransmitFlight
      <4>3. SendingM1' = {}
        BY <1>2, <1>8, <4>1, <4>2
      <4> QED
        BY <4>3 DEF FirstSent
    <3> QED
      BY <3>1, <3>2
  <2> QED
    BY <1>4, <1>6, <2>2, <2>3, <2>4 DEF PairInv
<1> QED
  BY <1>7, <1>8

\* A board begins to boot.
LEMMA PairListen == ASSUME TypeOK, PairInv, NEW b \in Boards, Listen(b) PROVE PairInv'
<1>1. /\ task[b] = "down" /\ session[b] = EmptySession /\ rxq[b] = <<>> /\ txq[b] = <<>>
  BY DEF PairInv, Idle, Listen, EmptySession
<1>2. /\ task' = [task EXCEPT ![b] = "listening"]
      /\ boot' = [boot EXCEPT ![b] = @ + 1]
      /\ UNCHANGED <<session, rxq, txq, accepted>>
  BY DEF Listen, Set, history
<1>3. NothingArrived /\ NothingSent
  BY <1>2, FlightKept
<1>4. M2s' \subseteq M2s /\ ArrivedM1' \subseteq ArrivedM1 /\ SendingM1' \subseteq SendingM1
  BY <1>3, MessagesKept
<1>5. Pairs' \subseteq Pairs
  BY <1>2, <1>4, PairsKept
<1>6. Reached' \subseteq Reached
  BY <1>4, <1>5 DEF Reached
<1>7. /\ boot[b] \in Nat /\ boot'[b] = boot[b] + 1
      /\ task'[b] = "listening"
      /\ \A c \in Boards \ {b} : boot'[c] = boot[c] /\ task'[c] = task[c]
  BY <1>2, PairTypes DEF TypeOK
<1>8. Idle'
  BY <1>1, <1>2, <1>7 DEF PairInv, Idle
<1>9. OwnKey'
  <2>1. session[b].phase = "Empty"
    BY <1>1 DEF EmptySession
  <2> QED
    BY <1>2, <1>7, <2>1 DEF PairInv, OwnKey
<1>10. CASE b = "initiator"
  <2>1. Ordered' /\ Current' /\ Waiting'
    BY <1>2, <1>4, <1>5, <1>7, <1>10, TwoBoards
       DEF PairInv, Ordered, Current, Waiting
  <2>2. FirstSent'
    BY <1>1, <1>2, <1>10 DEF FirstSent
  <2>3. \A x \in Reached' : x \in 1 .. boot[b]
    BY <1>6, <1>10 DEF PairInv, KeysLeft
  <2>4. KeysLeft'
    BY <1>7, <1>10, <2>3 DEF KeysLeft
  <2> QED
    BY <1>8, <1>9, <2>1, <2>2, <2>4 DEF PairInv
<1>11. CASE b = "responder"
  <2>1. boot'["initiator"] = boot["initiator"] /\ task'["initiator"] = task["initiator"]
    BY <1>7, <1>11, TwoBoards
  <2>2. KeysLeft'
    BY <1>2, <1>4, <1>6, <2>1 DEF PairInv, KeysLeft, KeyAtHome
  <2>3. FirstSent'
    BY <1>2, <2>1, FirstKept DEF PairInv
  <2>4. ArrivedM1' = {}
    <3>1. Arrived("responder") = {}
      BY <1>1, <1>11 DEF Arrived
    <3> QED
      BY <1>4, <3>1 DEF ArrivedM1, Messages
  <2>5. \A p \in Pairs' : p.gy \in 1 .. boot[b]
    BY <1>5, <1>11 DEF PairInv, Ordered
  <2>6. Ordered'
    <3>1. \A p, q \in Pairs' : p.gx <= q.gx => p.gy <= q.gy
      BY <1>5 DEF PairInv, Ordered
    <3> QED
      BY <1>7, <1>11, <2>5, <3>1 DEF Ordered
  <2>7. Current'
    <3>1. \A p \in Pairs' : p.gy # boot'["responder"]
      BY <1>7, <1>11, <2>5
    <3> QED
      BY <3>1 DEF Current
  <2>8. Waiting'
    BY <2>4 DEF Waiting
  <2> QED
    BY <1>8, <1>9, <2>2, <2>3, <2>6, <2>7, <2>8 DEF PairInv
<1> QED
  BY <1>10, <1>11, TwoBoards

\* A board is reset.
LEMMA PairDown ==
  ASSUME TypeOK, PairInv, NEW b \in Boards, PowerDown(b), UNCHANGED <<boot, accepted>>
  PROVE  PairInv'
<1>1. /\ NothingArrived /\ NothingSent /\ Sending(b)' = {} /\ Arrived(b)' = {}
      /\ rxq'[b] = <<>> /\ txq'[b] = <<>>
  BY PowerDownFlight
<1>2. /\ task'[b] = "down" /\ session'[b] = EmptySession
      /\ \A c \in Boards \ {b} : /\ task'[c] = task[c] /\ session'[c] = session[c]
                                 /\ rxq'[c] = rxq[c] /\ txq'[c] = txq[c]
  BY DEF TypeOK, PowerDown, Set
<1>3. M2s' \subseteq M2s /\ ArrivedM1' \subseteq ArrivedM1 /\ SendingM1' \subseteq SendingM1
  BY <1>1, MessagesKept
<1>4. EmptySession.phase = "Empty"
  BY DEF EmptySession
<1>5. Pairs' \subseteq Pairs
  <2>1. session'["responder"].phase \in {"WaitM3", "Done"} =>
          session'["responder"] = session["responder"]
    BY <1>2, <1>4, TwoBoards
  <2> QED
    BY <1>3, <2>1, PairsKept
<1>6. Ordered' /\ Waiting' /\ Reached' \subseteq Reached
  BY <1>3, <1>5, OrderKept
<1>7. KeyAtHome' => KeyAtHome
  <2>1. CASE b = "initiator"
    <3>1. SendingM1' = {}
      BY <1>1, <2>1 DEF SendingM1, Messages
    <3> QED
      BY <1>2, <2>1, <3>1 DEF KeyAtHome
  <2>2. CASE b # "initiator"
    BY <1>2, <1>3, <2>2, TwoBoards DEF KeyAtHome
  <2> QED
    BY <2>1, <2>2
<1>8. KeysLeft'
  BY <1>6, <1>7, LeftKept
<1>9. Idle'
  BY <1>1, <1>2 DEF PairInv, Idle
<1>10. OwnKey'
  BY <1>2, <1>4 DEF PairInv, OwnKey
<1>11. FirstSent'
  <2>1. CASE b = "initiator"
    BY <1>1, <2>1 DEF FirstSent
  <2>2. CASE b # "initiator"
    BY <1>2, <2>2, TwoBoards, FirstKept DEF PairInv
  <2> QED
    BY <2>1, <2>2
<1>12. Current'
  BY <1>2, <1>5, TwoBoards DEF PairInv, Current
<1> QED
  BY <1>6, <1>8, <1>9, <1>10, <1>11, <1>12 DEF PairInv

\* What app_main leaves behind when it creates app_task.
LEMMA StartAppFacts ==
  ASSUME TypeOK, NEW b \in Boards, StartApp(b), ~PowerDown(b)
  PROVE  /\ task[b] = "listening" /\ task'[b] \in {"halted", "loop"}
         /\ UNCHANGED <<build, boot, state, lmk, rxq, txq, history>>
         /\ \A c \in Boards \ {b} : task'[c] = task[c] /\ session'[c] = session[c]
         /\ task'[b] = "halted" => session' = session
         /\ task'[b] = "loop" =>
              /\ session'[b].phase = "Start"
              /\ session'[b].gx = (IF b = "initiator" THEN boot[b] ELSE 0)
              /\ session'[b].gy = (IF b = "responder" THEN boot[b] ELSE 0)
              /\ session'[b].as = Own(b) /\ CanBoot(b)
<1> DEFINE r == SessionInit(session[b], b, b, Other(b), 1,
                            build[b].cred[b], build[b].key[b], boot[b])
<1>1. CASE ~build[b].peerSet
  BY <1>1 DEF TypeOK, StartApp, Set
<1>2. CASE build[b].peerSet
  <2>1. r.status = "OK"
    BY <1>2 DEF StartApp
  <2>2. /\ build[b].cred[b] # "unparsable"
        /\ r.session.phase = "Start"
        /\ r.session.gx = (IF b = "initiator" THEN boot[b] ELSE 0)
        /\ r.session.gy = (IF b = "responder" THEN boot[b] ELSE 0)
        /\ r.session.as = Identity(build[b].cred[b], build[b].key[b])
    BY <2>1 DEF SessionInit, Refuse, Answer, Boards, Roles
  <2> HIDE DEF r
  <2>3. /\ task[b] = "listening" /\ task' = Set(task, b, "loop")
        /\ session' = Set(session, b, r.session)
        /\ UNCHANGED <<build, boot, state, lmk, rxq, txq, history>>
    BY <1>2, <2>1 DEF StartApp, r
  <2>4. /\ task'[b] = "loop" /\ session'[b] = r.session
        /\ \A c \in Boards \ {b} : task'[c] = task[c] /\ session'[c] = session[c]
    BY <2>3 DEF TypeOK, Set
  <2> QED
    BY <1>2, <2>2, <2>3, <2>4 DEF Own, CanBoot
<1> QED
  BY <1>1, <1>2

\* app_task is created, or the board halts.
LEMMA PairApp ==
  ASSUME TypeOK, PairInv, NEW b \in Boards, StartApp(b), ~PowerDown(b)
  PROVE  PairInv'
<1>1. /\ task[b] = "listening" /\ task'[b] \in {"halted", "loop"}
      /\ UNCHANGED <<boot, rxq, txq, accepted>>
      /\ \A c \in Boards \ {b} : task'[c] = task[c] /\ session'[c] = session[c]
      /\ \/ session'[b] = session[b] /\ task'[b] = "halted"
         \/ /\ session'[b].phase = "Start" /\ task'[b] = "loop"
            /\ b = "initiator" => session'[b].gx = boot[b]
            /\ b = "responder" => session'[b].gy = boot[b]
  BY StartAppFacts DEF history
<1>2. session[b] = EmptySession /\ session[b].phase = "Empty"
      /\ txq[b] = <<>> /\ boot[b] # 0
  BY <1>1 DEF PairInv, Idle, EmptySession
<1>3. M2s' \subseteq M2s /\ ArrivedM1' \subseteq ArrivedM1 /\ SendingM1' \subseteq SendingM1
  BY <1>1, FlightKept, MessagesKept
<1>4. Pairs' \subseteq Pairs
  <2>1. session'["responder"].phase \in {"WaitM3", "Done"} =>
          session'["responder"] = session["responder"]
    BY <1>1, <1>2, TwoBoards
  <2> QED
    BY <1>1, <1>3, <2>1, PairsKept
<1>5. Ordered' /\ Waiting' /\ Reached' \subseteq Reached
  BY <1>1, <1>3, <1>4, OrderKept
<1>6. KeyAtHome' => KeyAtHome
  BY <1>1, <1>2, <1>3, TwoBoards DEF KeyAtHome
<1>7. KeysLeft'
  BY <1>1, <1>5, <1>6, LeftKept
<1>8. Idle'
  BY <1>1, <1>2 DEF PairInv, Idle
<1>9. OwnKey'
  BY <1>1, <1>2 DEF PairInv, OwnKey
<1>10. FirstSent'
  BY <1>1, FirstKept DEF PairInv
<1>11. Current'
  BY <1>1, <1>2, <1>4, TwoBoards DEF PairInv, Current
<1> QED
  BY <1>5, <1>7, <1>8, <1>9, <1>10, <1>11 DEF PairInv

\* Message_1 is queued: the key of this boot gets ready to leave.
LEMMA PairHandshake ==
  ASSUME TypeOK, CallInv, PairInv, NEW prepared, StartHandshake(prepared)
  PROVE  PairInv'
<1> DEFINE s == session["initiator"]
           f == Frame("M1", Body("m1", s.gx, 0, "nobody"))
           sent == txq'["initiator"] = Append(txq["initiator"], f)
<1>1. /\ task["initiator"] = "loop" /\ s.phase = "Start"
      /\ UNCHANGED <<boot, task, rxq, accepted>>
      /\ NothingArrived
      /\ session'["responder"] = session["responder"]
      /\ txq'["responder"] = txq["responder"]
      /\ \/ /\ session'["initiator"] = s \/ session'["initiator"].phase = "Failed"
            /\ txq' = txq /\ NothingSent
         \/ /\ session'["initiator"] = Moved(s, "WaitM2", s.gx, 0)
            /\ sent
            /\ Sending("initiator")' \subseteq Sending("initiator") \cup {f}
            /\ Sending("responder")' \subseteq Sending("responder")
  BY StartEffect DEF history
<1>2. s.gx = boot["initiator"] /\ txq["initiator"] = <<>> /\ s # EmptySession
  BY <1>1, TwoBoards DEF PairInv, OwnKey, Idle, EmptySession
<1>3. f.type = "M1" /\ f.body.gx = s.gx
  BY DEF Frame, Body
<1> HIDE DEF f
<1>4. M2s' \subseteq M2s /\ ArrivedM1' \subseteq ArrivedM1
  <2>1. /\ Sending("initiator")' \subseteq Sending("initiator") \cup {f}
        /\ \A c \in Boards \ {"initiator"} : Sending(c)' \subseteq Sending(c)
    BY <1>1, TwoBoards DEF NothingSent
  <2> QED
    BY <1>1, <1>3, <2>1, MessageSets, TwoBoards
<1>5. Pairs' \subseteq Pairs
  BY <1>1, <1>4, PairsKept
<1>6. Ordered' /\ Waiting' /\ Reached' \subseteq Reached
  BY <1>1, <1>4, <1>5, OrderKept
<1>7. KeysLeft'
  BY <1>1, <1>6, LeftKept DEF KeyAtHome
<1>8. Current'
  BY <1>1, <1>5 DEF PairInv, Current
<1>9. OwnKey'
  <2>1. \/ session'["initiator"] = s
        \/ session'["initiator"].phase = "Failed"
        \/ session'["initiator"].gx = s.gx
    BY <1>1 DEF Moved
  <2> QED
    BY <1>1, <1>2, <2>1, TwoBoards DEF PairInv, OwnKey
<1>10. Idle'
  <2>1. \/ session'["initiator"] = s /\ txq' = txq
        \/ session'["initiator"].phase \in {"Failed", "WaitM2"}
    BY <1>1 DEF Moved
  <2> QED
    BY <1>1, <2>1, TwoBoards DEF PairInv, Idle
<1>11. FirstSent'
  <2>1. CASE txq' = txq
    BY <1>1, <2>1, FirstKept DEF PairInv
  <2>2. CASE sent
    <3>1. Len(txq'["initiator"]) = 1 /\ txq'["initiator"][1] = f
      BY <1>2, <2>2
    <3> QED
      BY <1>1, <1>2, <1>3, <3>1 DEF FirstSent
  <2> QED
    BY <1>1, <2>1, <2>2
<1> QED
  BY <1>6, <1>7, <1>8, <1>9, <1>10, <1>11 DEF PairInv

\* The responder binds its key to a message_1.
LEMMA PairM1 == ASSUME TypeOK, CallInv, PairInv, ProcessM1 PROVE PairInv'
<1> DEFINE s == session["responder"]
           gy == boot["responder"]
           F(m) == Frame("M2", Body("m2", m.body.gx, s.gy, s.as))
<1>1. /\ task["responder"] = "loop" /\ s.phase = "Start"
      /\ UNCHANGED <<boot, task, accepted>>
      /\ NothingArrived /\ rxq'["initiator"] = rxq["initiator"]
      /\ session'["initiator"] = session["initiator"]
      /\ txq'["initiator"] = txq["initiator"]
      /\ \/ /\ session'["responder"] = s \/ session'["responder"].phase = "Failed"
            /\ txq' = txq /\ NothingSent
         \/ \E m \in ArrivedM1 :
              /\ session'["responder"] = Moved(s, "WaitM3", m.body.gx, s.gy)
              /\ Sending("responder")' \subseteq Sending("responder") \cup {F(m)}
              /\ Sending("initiator")' \subseteq Sending("initiator")
  BY M1Effect DEF history
<1>2. s.gy = gy /\ s # EmptySession /\ gy \in Nat /\ gy # 0
  BY <1>1, TwoBoards, PairTypes DEF PairInv, OwnKey, Idle, EmptySession
<1>3. \/ session'["responder"] = s /\ txq' = txq
      \/ session'["responder"].phase = "Failed"
      \/ session'["responder"].phase = "WaitM3" /\ session'["responder"].gy = s.gy
  <2>1. \A m : LET t == Moved(s, "WaitM3", m.body.gx, s.gy)
              IN t.phase = "WaitM3" /\ t.gy = s.gy
    BY DEF Moved
  <2> HIDE DEF F
  <2> QED
    BY <1>1, <2>1
<1>4. Idle' /\ OwnKey'
  <2>1. Idle'
    BY <1>1, <1>3, TwoBoards DEF PairInv, Idle
  <2>2. OwnKey'
    BY <1>1, <1>2, <1>3, TwoBoards DEF PairInv, OwnKey
  <2> QED
    BY <2>1, <2>2
<1>5. FirstSent'
  BY <1>1, FirstKept DEF PairInv
<1>6. CASE (session'["responder"] = s \/ session'["responder"].phase = "Failed")
           /\ NothingSent
  <2>1. M2s' \subseteq M2s /\ ArrivedM1' \subseteq ArrivedM1 /\ SendingM1' \subseteq SendingM1
    BY <1>1, <1>6, MessagesKept
  <2>2. Pairs' \subseteq Pairs
    BY <1>1, <1>6, <2>1, PairsKept
  <2>3. Ordered' /\ Waiting' /\ Reached' \subseteq Reached
    BY <1>1, <2>1, <2>2, OrderKept
  <2>4. KeysLeft'
    BY <1>1, <2>1, <2>3, LeftKept DEF KeyAtHome
  <2>5. Current'
    BY <1>1, <1>6, <2>2 DEF PairInv, Current
  <2> QED
    BY <1>4, <1>5, <2>3, <2>4, <2>5 DEF PairInv
<1>7. CASE \E m \in ArrivedM1 :
             /\ session'["responder"] = Moved(s, "WaitM3", m.body.gx, s.gy)
             /\ Sending("responder")' \subseteq Sending("responder") \cup {F(m)}
             /\ Sending("initiator")' \subseteq Sending("initiator")
  <2>1. PICK m \in ArrivedM1 :
          /\ session'["responder"] = Moved(s, "WaitM3", m.body.gx, s.gy)
          /\ Sending("responder")' \subseteq Sending("responder") \cup {F(m)}
          /\ Sending("initiator")' \subseteq Sending("initiator")
    BY <1>7
  <2> DEFINE new == [gx |-> m.body.gx, gy |-> gy]
  <2>2. F(m).type = "M2" /\ Transcript(F(m).body) = new
    BY <1>2 DEF Frame, Body, Transcript
  <2>3. /\ M2s' \subseteq M2s \cup {F(m)} /\ ArrivedM1' \subseteq ArrivedM1
        /\ SendingM1' \subseteq SendingM1
    <3>1. \A c \in Boards \ {"responder"} : Sending(c)' \subseteq Sending(c)
      BY <2>1, TwoBoards
    <3>2. F(m).type # "M1"
      BY <2>2
    <3> HIDE DEF F
    <3> QED
      BY <1>1, <2>1, <3>1, <3>2, MessageSets, TwoBoards
  <2>4. /\ session'["responder"].phase = "WaitM3"
        /\ session'["responder"].gx = m.body.gx
        /\ Transcript(session'["responder"]) = new
    BY <1>2, <2>1 DEF Moved, Transcript
  <2>5. Pairs' \subseteq Pairs \cup {new}
    <3>1. Committed' \subseteq {new}
      BY <2>4 DEF Committed
    <3> HIDE DEF F, new
    <3> QED
      BY <1>1, <2>2, <2>3, <3>1 DEF Pairs
  <2>6. new.gx = m.body.gx /\ new.gy = gy /\ m.body.gx \in Reached /\ m.body.gx \in Nat
    BY PairTypes DEF Reached
  <2> HIDE DEF new
  <2>7. Reached' \subseteq Reached
    BY <2>3, <2>5, <2>6 DEF Reached
  <2>8. KeysLeft'
    BY <1>1, <2>3, <2>7, LeftKept DEF KeyAtHome
  <2>9. \A p \in Pairs : p.gx \in Nat /\ p.gy \in 1 .. gy /\ p.gy # gy
    BY <1>1, PairTypes DEF PairInv, Ordered, Current
  <2>10. \A p \in Pairs : ~(m.body.gx <= p.gx)
    BY <2>9 DEF PairInv, Waiting
  <2>11. Ordered'
    <3>1. \A p \in Pairs' : p.gy \in 1 .. gy
      BY <1>2, <2>5, <2>6, <2>9
    <3>2. \A p, q \in Pairs' : p.gx <= q.gx => p.gy <= q.gy
      <4> SUFFICES ASSUME NEW p \in Pairs', NEW q \in Pairs', p.gx <= q.gx
                   PROVE  p.gy <= q.gy
        OBVIOUS
      <4>1. CASE q \in Pairs
        <5>1. p \in Pairs
          BY <2>5, <2>6, <2>10, <4>1
        <5> QED
          BY <4>1, <5>1 DEF PairInv, Ordered
      <4>2. CASE q = new
        BY <1>2, <2>6, <3>1, <4>2
      <4> QED
        BY <2>5, <4>1, <4>2
    <3> QED
      BY <1>1, <3>1, <3>2 DEF Ordered
  <2>12. Current'
    BY <1>1, <2>4, <2>5, <2>6, <2>9 DEF Current
  <2>13. Waiting'
    BY <1>1, <2>3, <2>5, <2>6 DEF PairInv, Waiting
  <2> QED
    BY <1>4, <1>5, <2>8, <2>11, <2>12, <2>13 DEF PairInv
<1> QED
  BY <1>1, <1>6, <1>7

\* The initiator accepts what the responder was bound to already.
LEMMA PairM2 == ASSUME TypeOK, CallInv, PairInv, ProcessM2 PROVE PairInv'
<1> DEFINE s == session["initiator"]
           m == Msg("initiator")
           f == Frame("M3", Body("m3", s.gx, m.body.gy, s.as))
<1>1. /\ task["initiator"] = "loop" /\ s.phase = "WaitM2"
      /\ UNCHANGED <<boot, task>>
      /\ NothingArrived
      /\ rxq["initiator"] # <<>>
      /\ rxq'["initiator"] = Tail(rxq["initiator"])
      /\ session'["responder"] = session["responder"]
      /\ txq'["responder"] = txq["responder"]
      /\ \/ /\ session'["initiator"] = s \/ session'["initiator"].phase = "Failed"
            /\ txq' = txq /\ NothingSent /\ accepted' = accepted
         \/ /\ m \in M2s /\ m.body.gx = s.gx
            /\ session'["initiator"] = Moved(s, "Done", s.gx, m.body.gy)
            /\ txq'["initiator"] = Append(txq["initiator"], f)
            /\ Sending("initiator")' \subseteq Sending("initiator") \cup {f}
            /\ Sending("responder")' \subseteq Sending("responder")
            /\ accepted'["initiator"] = accepted["initiator"] \cup {Transcript(m.body)}
  BY M2Effect
<1>2. f.type = "M3"
  BY DEF Frame
<1>3. txq'["initiator"] # txq["initiator"] => f \in Frames
  <2>1. s.gx \in Nat /\ s.as \in Identities
    BY TwoBoards, SessionFields DEF TypeOK
  <2>2. txq'["initiator"] # txq["initiator"] => m \in M2s
    BY <1>1
  <2>3. m \in M2s => m.body.gy \in Nat
    BY PairTypes
  <2> QED
    BY <2>1, <2>2, <2>3, BodyTypes, FrameType DEF Types
<1>4. \/ session'["initiator"] = s
      \/ session'["initiator"].phase = "Failed"
      \/ session'["initiator"].phase = "Done" /\ session'["initiator"].gx = s.gx
  BY <1>1 DEF Moved
<1>5. Sending("initiator")' \subseteq Sending("initiator") \cup {f}
      /\ \A c \in Boards \ {"initiator"} : Sending(c)' \subseteq Sending(c)
  BY <1>1, TwoBoards DEF NothingSent
<1> HIDE DEF f, m
<1>6. M2s' \subseteq M2s /\ ArrivedM1' \subseteq ArrivedM1 /\ SendingM1' \subseteq SendingM1
  BY <1>1, <1>2, <1>5, MessageSets, TwoBoards
<1>7. Pairs' \subseteq Pairs
  <2>1. Committed' = Committed
    BY <1>1 DEF Committed
  <2>2. accepted'["initiator"] \subseteq
          accepted["initiator"] \cup {Transcript(g.body) : g \in M2s}
    BY <1>1
  <2> QED
    BY <1>6, <2>1, <2>2 DEF Pairs
<1>8. Ordered' /\ Waiting' /\ Reached' \subseteq Reached
  BY <1>1, <1>6, <1>7, OrderKept
<1>9. KeysLeft'
  BY <1>1, <1>4, <1>6, <1>8, LeftKept DEF KeyAtHome
<1>10. Current'
  BY <1>1, <1>7 DEF PairInv, Current
<1>11. OwnKey'
  BY <1>1, <1>4, TwoBoards DEF PairInv, OwnKey
<1>12. Idle'
  <2>1. \A c \in Boards : task[c] = "down" => rxq'[c] = <<>>
    <3>1. ProcessM2 => Received("initiator") /\ Taken("initiator")
      BY DEF ProcessM2, Handling
    <3> QED
      BY <1>1, <3>1, TwoBoards DEF PairInv, Idle, Taken, TypeOK
  <2> QED
    BY <1>1, <1>4, <2>1, TwoBoards DEF PairInv, Idle
<1>13. FirstSent'
  BY <1>1, <1>2, <1>3, FirstKept DEF PairInv
<1> QED
  BY <1>8, <1>9, <1>10, <1>11, <1>12, <1>13 DEF PairInv

\* The responder finishes with the transcript it was bound to.
LEMMA PairM3 == ASSUME TypeOK, CallInv, PairInv, ProcessM3 PROVE PairInv'
<1> DEFINE s == session["responder"]
<1>1. /\ task["responder"] = "loop" /\ s.phase = "WaitM3"
      /\ UNCHANGED boot
      /\ task'["initiator"] = task["initiator"]
      /\ task'["responder"] \in {"loop", "switchDelay"}
      /\ NothingArrived /\ rxq'["initiator"] = rxq["initiator"]
      /\ session'["initiator"] = session["initiator"]
      /\ txq'["initiator"] = txq["initiator"]
      /\ accepted'["initiator"] = accepted["initiator"]
      /\ \/ /\ session'["responder"] = s \/ session'["responder"].phase = "Failed"
            /\ NothingSent
         \/ /\ session'["responder"] = Moved(s, "Done", s.gx, s.gy)
            /\ Sending("responder")' \subseteq
                 Sending("responder") \cup {Frame("ACK", Text)}
            /\ Sending("initiator")' \subseteq Sending("initiator")
  BY M3Effect
<1>2. /\ \/ session'["responder"] = s
         \/ session'["responder"].phase = "Failed"
         \/ /\ session'["responder"].phase = "Done"
            /\ session'["responder"].gx = s.gx /\ session'["responder"].gy = s.gy
      /\ session'["responder"].phase \in {"WaitM3", "Done"} =>
           Transcript(session'["responder"]) = Transcript(s)
  BY <1>1 DEF Moved, Transcript
<1>3. /\ Sending("responder")' \subseteq Sending("responder") \cup {Frame("ACK", Text)}
      /\ \A c \in Boards \ {"responder"} : Sending(c)' \subseteq Sending(c)
  BY <1>1, TwoBoards DEF NothingSent
<1>4. Frame("ACK", Text).type = "ACK"
  BY DEF Frame
<1>5. M2s' \subseteq M2s /\ ArrivedM1' \subseteq ArrivedM1 /\ SendingM1' \subseteq SendingM1
  BY <1>1, <1>3, <1>4, MessageSets, TwoBoards
<1>6. Pairs' \subseteq Pairs
  BY <1>1, <1>2, <1>5, PairsKept
<1>7. Ordered' /\ Waiting' /\ Reached' \subseteq Reached
  BY <1>1, <1>5, <1>6, OrderKept
<1>8. KeysLeft'
  BY <1>1, <1>5, <1>7, LeftKept DEF KeyAtHome
<1>9. Current'
  BY <1>1, <1>2, <1>6 DEF PairInv, Current
<1>10. OwnKey'
  BY <1>1, <1>2, TwoBoards DEF PairInv, OwnKey
<1>11. Idle'
  BY <1>1, <1>2, TwoBoards DEF PairInv, Idle
<1>12. FirstSent'
  BY <1>1, FirstKept DEF PairInv
<1> QED
  BY <1>7, <1>8, <1>9, <1>10, <1>11, <1>12 DEF PairInv

\* Every action keeps the order of ephemeral keys.
LEMMA PairStep == TypeOK /\ CallInv /\ PairInv /\ [Next]_vars => PairInv'
<1> SUFFICES ASSUME TypeOK, CallInv, PairInv, [Next]_vars PROVE PairInv'
  OBVIOUS
<1>1. ASSUME NEW b \in Boards, Listen(b) PROVE PairInv'
  BY <1>1, PairListen
<1>2. ASSUME NEW b \in Boards, StartApp(b) PROVE PairInv'
  <2>1. UNCHANGED <<boot, accepted>>
    BY <1>2 DEF StartApp, history
  <2> QED
    BY <1>2, <2>1, PairDown, PairApp
<1>3. ASSUME NEW b \in Boards, Restart(b) PROVE PairInv'
  BY <1>3, PairDown DEF Restart, history
<1>4. ASSUME NEW b \in Boards,
             Transmit(b) \/ (\E f \in Strays : StrayArrives(b, f))
      PROVE  PairInv'
  BY <1>4, PairAir
<1>5. ASSUME NEW prepared, StartHandshake(prepared) PROVE PairInv'
  BY <1>5, PairHandshake
<1>6. ASSUME \/ \E b \in Boards : BadSession(b) \/ Ignore(b)
             \/ \E outcome : InstallAfterDelay(outcome) \/ ProcessAck(outcome)
             \/ SendKeyTest \/ ProcessKeyTest \/ ProcessKeyTestAck
             \/ UNCHANGED vars
      PROVE  PairInv'
  BY <1>6, QuietActions, PairQuiet
<1> QED
  BY <1>1, <1>2, <1>3, <1>4, <1>5, <1>6, PairM1, PairM2, PairM3 DEF Next

-----------------------------------------------------------------------------
(* The ACK and the transcripts. *)

\* Exporting and installing a key, which the initiator does on an ACK only.
LEMMA InstallEffect ==
  ASSUME TypeOK, CallInv, NEW b \in Boards, NEW outcome,
         \/ b = "responder" /\ InstallAfterDelay(outcome)
         \/ b = "initiator" /\ ProcessAck(outcome)
  PROVE  /\ session[b].phase = "Done" /\ state'[b] # "COMPLETE"
         /\ UNCHANGED <<build, session, accepted, confirmed>>
         /\ \A c \in Boards \ {b} : /\ derived'[c] = derived[c] /\ lmk'[c] = lmk[c]
                                    /\ state'[c] = state[c]
         /\ \/ derived'[b] = derived[b] /\ lmk'[b] = lmk[b]
            \/ \E key \in LmkTypes :
                 /\ Transcript(key) = Transcript(session[b]) /\ key # Plain
                 /\ key.ctx = PairContext /\ key.flipped = build[b].corrupt
                 /\ derived'[b] = derived[b] \cup {key}
                 /\ lmk'[b] \in {lmk[b], key}
                 /\ b = "initiator" => \E f \in Arrived("initiator") : IsAck(f)
<1> DEFINE key == [ExportLmk(session[b]) EXCEPT !.flipped = build[b].corrupt]
           next == IF b = "responder" THEN "WAIT_KEY_TEST" ELSE "WAIT_KEY_TEST_ACK"
<1>1. session[b].phase = "Done"
  BY TwoBoards DEF CallInv, TaskStates, PhaseInStep, PhaseOf, InstallAfterDelay,
                   ProcessAck, Handling, Received, Expected
<1>2. UNCHANGED <<build, session, accepted, confirmed>>
  BY DEF InstallAfterDelay, ProcessAck
<1>3. build[b].corrupt \in BOOLEAN /\ session[b] \in Sessions(Boards)
  BY DEF TypeOK, BuildTypes
<1>4. key \in LmkTypes /\ key.flipped = build[b].corrupt
  BY <1>3, ExportType
<1>5. key.ctx = PairContext /\ key # Plain
  BY <1>1, ExportedKey
<1>6. Transcript(key) = Transcript(session[b])
  BY DEF Transcript, ExportLmk
<1>7. CASE DeriveAndInstall(b, outcome, next)
           /\ (b = "initiator" => \E f \in Arrived("initiator") : IsAck(f))
  <2>1. /\ derived' = [derived EXCEPT ![b] = @ \cup {key}]
        /\ lmk' = IF outcome = "refused" THEN lmk ELSE [lmk EXCEPT ![b] = key]
        /\ state' = [state EXCEPT ![b] = IF outcome = "ok" THEN next ELSE "FAILED"]
    BY <1>1, <1>7 DEF DeriveAndInstall, ExportStatus, Record, Install, Set
  <2> HIDE DEF key
  <2>2. /\ derived'[b] = derived[b] \cup {key} /\ lmk'[b] \in {lmk[b], key}
        /\ state'[b] # "COMPLETE"
        /\ \A c \in Boards \ {b} : /\ derived'[c] = derived[c] /\ lmk'[c] = lmk[c]
                                   /\ state'[c] = state[c]
    BY <2>1 DEF TypeOK
  <2> QED
    BY <1>1, <1>2, <1>4, <1>5, <1>6, <1>7, <2>2
<1>8. CASE state' = Set(state, b, "FAILED") /\ UNCHANGED <<lmk, derived>>
  BY <1>1, <1>2, <1>8 DEF Set, TypeOK
<1>9. CASE b = "responder" /\ InstallAfterDelay(outcome)
  BY <1>7, <1>9 DEF InstallAfterDelay
<1>10. CASE b = "initiator" /\ ProcessAck(outcome)
  <2>1. /\ Received(b) /\ Taken(b) /\ Msg(b).sid = "ours" /\ Msg(b).type = "ACK"
    BY <1>10 DEF ProcessAck, Handling
  <2>2. Msg(b) \in Arrived(b)
    BY <2>1, TakenFlight
  <2>3. Verified(b) => IsAck(Msg(b))
    BY <2>1 DEF Verified, IsAck
  <2>4. CASE Verified(b)
    BY <1>7, <1>10, <2>2, <2>3, <2>4, TwoBoards DEF ProcessAck
  <2>5. CASE ~Verified(b)
    BY <1>8, <1>10, <2>5 DEF ProcessAck
  <2> QED
    BY <2>4, <2>5
<1> QED
  BY <1>9, <1>10

\* While the responder's session is finished, the initiator's key of this boot is
\* bound to nothing but its transcript.
LEMMA SamePair ==
  ASSUME TypeOK, PairInv, session["responder"].phase = "Done",
         NEW p \in Pairs, p.gx = boot["initiator"]
  PROVE  p = Transcript(session["responder"])
<1> DEFINE s == session["responder"]
           t == Transcript(s)
           r == boot["responder"]
<1>1. t \in Pairs
  BY DEF Pairs, Committed
<1>2. t.gx = s.gx /\ t.gy = s.gy
  BY DEF Transcript
<1>3. s.gy = r /\ task["responder"] # "down"
  BY TwoBoards DEF PairInv, OwnKey, Idle, EmptySession
<1>4. t.gx \in 1 .. boot["initiator"]
  BY <1>1 DEF PairInv, KeysLeft, Reached
<1> HIDE DEF t
<1>5. /\ p \in [gx : Nat, gy : Nat] /\ t \in [gx : Nat, gy : Nat]
      /\ r \in Nat /\ boot["initiator"] \in Nat
  BY <1>1, PairTypes, TwoBoards
<1>6. t.gx <= p.gx
  BY <1>4, <1>5
<1>7. p.gy \in 1 .. r /\ t.gy <= p.gy
  BY <1>1, <1>6 DEF PairInv, Ordered
<1>8. p.gy = r
  BY <1>2, <1>3, <1>5, <1>7
<1>9. s.gx = p.gx
  BY <1>3, <1>8 DEF PairInv, Current
<1>10. \A u, v \in [gx : Nat, gy : Nat] : u.gx = v.gx /\ u.gy = v.gy => u = v
  OBVIOUS
<1>11. p = t
  BY <1>2, <1>3, <1>5, <1>8, <1>9, <1>10
<1> QED
  BY <1>11 DEF t

\* So an ACK still to be sent speaks of it.
LEMMA AckSource ==
  ASSUME TypeOK, PairInv, AckInv, NEW f \in Sending("responder"), IsAck(f),
         NEW p \in Pairs, p.gx = boot["initiator"]
  PROVE  p \in accepted["responder"]
<1>1. session["responder"].phase = "Done"
  BY DEF AckInv, AckSent
<1>2. p = Transcript(session["responder"])
  BY <1>1, SamePair
<1> QED
  BY <1>1, <1>2, TwoBoards DEF AckInv, Accepted

\* What waits in the initiator's queue keeps its order.
LEMMA AfterKept ==
  ASSUME TypeOK, AckAfterM2, boot'["initiator"] = boot["initiator"],
         accepted["responder"] \subseteq accepted'["responder"],
         \/ rxq'["initiator"] = rxq["initiator"]
         \/ rxq["initiator"] # <<>> /\ rxq'["initiator"] = Tail(rxq["initiator"])
  PROVE  AckAfterM2'
<1> DEFINE q == rxq["initiator"]
<1>1. q \in Seq(Packets)
  BY TwoBoards DEF TypeOK
<1>2. \E d \in {0, 1} : \A i \in 1 .. Len(rxq'["initiator"]) :
        i + d \in 1 .. Len(q) /\ rxq'["initiator"][i] = q[i + d]
  <2>1. CASE rxq'["initiator"] = q
    <3>1. \A i \in 1 .. Len(q) : i + 0 = i
      BY <1>1
    <3> QED
      BY <2>1, <3>1
  <2>2. CASE q # <<>> /\ rxq'["initiator"] = Tail(q)
    BY <1>1, <2>2, TailFacts
  <2> QED
    BY <2>1, <2>2
<1>3. PICK d \in {0, 1} : \A i \in 1 .. Len(rxq'["initiator"]) :
        i + d \in 1 .. Len(q) /\ rxq'["initiator"][i] = q[i + d]
  BY <1>2
<1> SUFFICES ASSUME NEW i \in 1 .. Len(rxq'["initiator"]),
                    NEW j \in 1 .. Len(rxq'["initiator"]),
                    i < j, rxq'["initiator"][i].frame \in ArrivedM2',
                    rxq'["initiator"][i].frame.body.gx = boot'["initiator"],
                    IsAck(rxq'["initiator"][j].frame)
             PROVE  Transcript(rxq'["initiator"][i].frame.body) \in accepted'["responder"]
  BY DEF AckAfterM2, IsAck
<1>4. /\ i + d \in 1 .. Len(q) /\ rxq'["initiator"][i] = q[i + d]
      /\ j + d \in 1 .. Len(q) /\ rxq'["initiator"][j] = q[j + d]
  BY <1>3
<1>5. i + d < j + d
  OBVIOUS
<1>6. q[i + d].frame \in ArrivedM2
  BY <1>4 DEF ArrivedM2, Messages, Arrived
<1>7. Transcript(q[i + d].frame.body) \in accepted["responder"]
  BY <1>4, <1>5, <1>6 DEF AckAfterM2
<1> QED
  BY <1>4, <1>7

\* Boards that have not booted have accepted, exported and acknowledged nothing.
LEMMA AckStart == Init => AckInv /\ DerivedAccepted
<1> SUFFICES ASSUME Init PROVE AckInv /\ DerivedAccepted
  OBVIOUS
<1>1. /\ \A b \in Boards : /\ session[b] = EmptySession /\ accepted[b] = {}
                           /\ derived[b] = {} /\ rxq[b] = <<>> /\ txq[b] = <<>>
  BY TwoBoards DEF Init
<1>2. \A b \in Boards : Sending(b) = {} /\ Arrived(b) = {}
  BY <1>1 DEF Sending, Arrived
<1>3. M3s = {}
  BY <1>2, TwoBoards DEF M3s, Messages, InFlight
<1>4. M3Accepted /\ AckSent /\ AckArrived
  BY <1>2, <1>3, TwoBoards DEF M3Accepted, AckSent, AckArrived
<1>5. Accepted /\ DerivedAccepted
  BY <1>1, TwoBoards DEF Accepted, DerivedAccepted, EmptySession
<1>6. AckAfterM2
  BY <1>1, TwoBoards DEF AckAfterM2
<1> QED
  BY <1>4, <1>5, <1>6 DEF AckInv

\* A step that leaves the initiator's queue in order, adds no message_3 and no ACK
\* and finishes no session.
LEMMA AckKept ==
  ASSUME TypeOK, AckInv, UNCHANGED <<boot, accepted>>,
         M3s' \subseteq M3s,
         \A f \in Sending("responder")' : IsAck(f) => f \in Sending("responder"),
         Arrived("initiator")' \subseteq Arrived("initiator"),
         \/ rxq'["initiator"] = rxq["initiator"]
         \/ rxq["initiator"] # <<>> /\ rxq'["initiator"] = Tail(rxq["initiator"]),
         \A b \in Boards : session'[b].phase = "Done" => session'[b] = session[b],
         session["responder"].phase = "Done" =>
           session'["responder"] = session["responder"] \/ Sending("responder")' = {}
  PROVE  AckInv'
<1>1. M3Accepted'
  BY DEF AckInv, M3Accepted
<1>2. Accepted'
  BY TwoBoards DEF AckInv, Accepted
<1>3. AckSent'
  BY DEF AckInv, AckSent
<1>4. AckAfterM2'
  BY AfterKept DEF AckInv
<1>5. AckArrived'
  BY TwoBoards DEF AckInv, AckArrived
<1> QED
  BY <1>1, <1>2, <1>3, <1>4, <1>5 DEF AckInv

\* The quiet steps.
LEMMA AckQuiet == ASSUME TypeOK, AckInv, Quiet PROVE AckInv'
<1>1. M3s' \subseteq M3s
      /\ \A f \in Sending("responder")' :
           f \in Sending("responder") \/ f.type \in {"KEY_TEST", "KEY_TEST_ACK"}
  BY QuietMessages, TwoBoards
<1>2. \A f \in Sending("responder")' : IsAck(f) => f \in Sending("responder")
  BY <1>1 DEF IsAck
<1>3. Arrived("initiator")' \subseteq Arrived("initiator")
  BY TwoBoards DEF Quiet, NothingArrived
<1> QED
  BY <1>1, <1>2, <1>3, AckKept, TwoBoards DEF Quiet

\* A board begins to boot.
LEMMA AckListen ==
  ASSUME TypeOK, PairInv, AckInv, NEW b \in Boards, Listen(b) PROVE AckInv'
<1>1. /\ task[b] = "down" /\ session[b] = EmptySession /\ rxq[b] = <<>> /\ txq[b] = <<>>
      /\ UNCHANGED <<session, rxq, txq, accepted>>
      /\ \A c \in Boards \ {b} : boot'[c] = boot[c]
  BY DEF PairInv, Idle, Listen, EmptySession, history, TypeOK
<1>2. NothingArrived /\ NothingSent
  BY <1>1, FlightKept
<1>3. M3s' \subseteq M3s
  BY <1>2, MessagesKept
<1>4. M3Accepted' /\ Accepted'
  BY <1>1, <1>3 DEF AckInv, M3Accepted, Accepted
<1>5. AckSent'
  BY <1>1, <1>2, TwoBoards DEF AckInv, AckSent, NothingSent
<1>6. AckArrived'
  BY <1>1, <1>2, TwoBoards DEF AckInv, AckArrived, NothingArrived
<1>7. AckAfterM2'
  <2>1. CASE b = "initiator"
    BY <1>1, <2>1 DEF AckAfterM2
  <2>2. CASE b # "initiator"
    BY <1>1, <2>2, AfterKept, TwoBoards DEF AckInv
  <2> QED
    BY <2>1, <2>2
<1> QED
  BY <1>4, <1>5, <1>6, <1>7 DEF AckInv

\* A board is reset.
LEMMA AckDown ==
  ASSUME TypeOK, AckInv, NEW b \in Boards, PowerDown(b), UNCHANGED <<boot, accepted>>
  PROVE  AckInv'
<1>1. /\ NothingArrived /\ NothingSent /\ Sending(b)' = {} /\ Arrived(b)' = {}
      /\ rxq'[b] = <<>> /\ txq'[b] = <<>>
  BY PowerDownFlight
<1>2. /\ session'[b].phase = "Empty"
      /\ \A c \in Boards \ {b} : session'[c] = session[c] /\ rxq'[c] = rxq[c]
  BY DEF TypeOK, PowerDown, Set, EmptySession
<1>3. M3s' \subseteq M3s
  BY <1>1, MessagesKept
<1>4. M3Accepted' /\ Accepted'
  BY <1>2, <1>3 DEF AckInv, M3Accepted, Accepted
<1>5. AckSent'
  BY <1>1, <1>2, TwoBoards DEF AckInv, AckSent, NothingSent
<1>6. AckArrived'
  BY <1>1, <1>2, TwoBoards DEF AckInv, AckArrived, NothingArrived
<1>7. AckAfterM2'
  <2>1. CASE b = "initiator"
    BY <1>1, <2>1 DEF AckAfterM2
  <2>2. CASE b # "initiator"
    BY <1>2, <2>2, AfterKept, TwoBoards DEF AckInv
  <2> QED
    BY <2>1, <2>2
<1> QED
  BY <1>4, <1>5, <1>6, <1>7 DEF AckInv

\* app_task is created, or the board halts.
LEMMA AckApp ==
  ASSUME TypeOK, PairInv, AckInv, NEW b \in Boards, StartApp(b), ~PowerDown(b)
  PROVE  AckInv'
<1>1. /\ task[b] = "listening"
      /\ UNCHANGED <<boot, rxq, txq, accepted>>
      /\ \A c \in Boards \ {b} : session'[c] = session[c]
      /\ session'[b] = session[b] \/ session'[b].phase = "Start"
  BY StartAppFacts DEF history
<1>2. session[b].phase = "Empty"
  BY <1>1 DEF PairInv, Idle, EmptySession
<1>3. NothingArrived /\ NothingSent
  BY <1>1, FlightKept
<1>4. M3s' \subseteq M3s
  BY <1>3, MessagesKept
<1>5. /\ \A c \in Boards : session'[c].phase = "Done" => session'[c] = session[c]
      /\ session["responder"].phase = "Done" =>
           session'["responder"] = session["responder"]
  BY <1>1, <1>2, TwoBoards
<1> QED
  BY <1>1, <1>3, <1>4, <1>5, AckKept, TwoBoards DEF NothingArrived, NothingSent

\* An ACK arrives behind the message_2 that carries its transcript.
LEMMA AckAir ==
  ASSUME TypeOK, PairInv, AckInv, NEW b \in Boards,
         Transmit(b) \/ (\E f \in Strays : StrayArrives(b, f))
  PROVE  AckInv'
<1>1. UNCHANGED <<session, boot, accepted>>
  BY DEF Transmit, StrayArrives, history
<1>2. NothingSent /\ M2s' \subseteq M2s /\ M3s' \subseteq M3s
  BY AirMessages
<1>3. M3Accepted' /\ Accepted'
  BY <1>1, <1>2 DEF AckInv, M3Accepted, Accepted
<1>4. AckSent'
  BY <1>1, <1>2, TwoBoards DEF AckInv, AckSent, NothingSent
<1>5. CASE b = "initiator" /\ Transmit(b)
  <2>1. rxq'["initiator"] = rxq["initiator"] /\ Arrived("initiator")' = Arrived("initiator")
    BY <1>5, TransmitFlight
  <2>2. AckAfterM2'
    BY <1>1, <2>1, AfterKept DEF AckInv
  <2>3. AckArrived'
    BY <1>1, <2>1 DEF AckInv, AckArrived
  <2> QED
    BY <1>3, <1>4, <2>2, <2>3 DEF AckInv
<1>6. CASE b = "responder" /\ ~Transmit(b)
  <2>1. rxq'["initiator"] = rxq["initiator"]
    BY <1>6, StrayFlight, TwoBoards
  <2>2. Arrived("initiator")' = Arrived("initiator")
    BY <2>1 DEF Arrived
  <2>3. AckAfterM2'
    BY <1>1, <2>1, AfterKept DEF AckInv
  <2>4. AckArrived'
    BY <1>1, <2>2 DEF AckInv, AckArrived
  <2> QED
    BY <1>3, <1>4, <2>3, <2>4 DEF AckInv
<1>7. CASE ~(b = "initiator" /\ Transmit(b)) /\ ~(b = "responder" /\ ~Transmit(b))
  <2> DEFINE q == rxq["initiator"]
  <2>1. PICK f :
          /\ IsAck(f) => f \in Sending("responder")
          /\ \A i \in 1 .. Len(rxq'["initiator"]) :
               \/ i \in 1 .. Len(q) /\ rxq'["initiator"][i] = q[i]
               \/ i > Len(q) /\ rxq'["initiator"][i].frame = f
    <3>1. CASE b = "responder" /\ Transmit(b)
      BY <3>1, TransmitFlight, TwoBoards
    <3>2. CASE b = "initiator" /\ (\E f \in Strays : StrayArrives(b, f))
      BY <3>2, StrayFlight
    <3> QED
      BY <1>7, <3>1, <3>2, TwoBoards
  <2>2. ASSUME IsAck(f), NEW p \in Pairs, p.gx = boot["initiator"]
        PROVE  p \in accepted["responder"]
    BY <2>1, <2>2, AckSource
  <2>3. q \in Seq(Packets) /\ Len(q) \in Nat
    BY TwoBoards DEF TypeOK
  <2>4. AckAfterM2'
    <3> SUFFICES ASSUME NEW i \in 1 .. Len(rxq'["initiator"]),
                        NEW j \in 1 .. Len(rxq'["initiator"]),
                        i < j, rxq'["initiator"][i].frame \in ArrivedM2',
                        rxq'["initiator"][i].frame.body.gx = boot'["initiator"],
                        IsAck(rxq'["initiator"][j].frame)
                 PROVE  Transcript(rxq'["initiator"][i].frame.body)
                          \in accepted'["responder"]
      BY DEF AckAfterM2, IsAck
    <3> DEFINE g == rxq'["initiator"][i].frame
    <3>1. CASE j \in 1 .. Len(q) /\ rxq'["initiator"][j] = q[j]
      <4>1. i \in 1 .. Len(q) /\ rxq'["initiator"][i] = q[i]
        BY <2>1, <2>3, <3>1
      <4>2. g \in ArrivedM2
        BY <4>1 DEF ArrivedM2, Messages, Arrived
      <4> QED
        BY <1>1, <3>1, <4>1, <4>2 DEF AckInv, AckAfterM2
    <3>2. CASE rxq'["initiator"][j].frame = f
      <4>1. g \in M2s'
        BY DEF ArrivedM2, M2s, Messages, InFlight
      <4>2. Transcript(g.body) \in Pairs /\ Transcript(g.body).gx = boot["initiator"]
        BY <1>1, <1>2, <4>1 DEF Pairs, Transcript
      <4> QED
        BY <1>1, <2>2, <3>2, <4>2
    <3> QED
      BY <2>1, <3>1, <3>2
  <2>5. AckArrived'
    <3> SUFFICES ASSUME session["initiator"].phase = "Done",
                        NEW g \in Arrived("initiator")', IsAck(g)
                 PROVE  Transcript(session["initiator"]) \in accepted["responder"]
      BY <1>1 DEF AckArrived, IsAck
    <3>1. g = f \/ g \in Arrived("initiator")
      BY <2>1 DEF Arrived
    <3>2. CASE g \in Arrived("initiator")
      BY <3>2 DEF AckInv, AckArrived
    <3>3. CASE g = f
      <4>1. /\ Transcript(session["initiator"]) \in Pairs
            /\ session["initiator"].gx = boot["initiator"]
        BY TwoBoards DEF AckInv, Accepted, Pairs, PairInv, OwnKey
      <4>2. Transcript(session["initiator"]).gx = boot["initiator"]
        BY <4>1 DEF Transcript
      <4> QED
        BY <2>2, <3>3, <4>1, <4>2
    <3> QED
      BY <3>1, <3>2, <3>3
  <2> QED
    BY <1>3, <1>4, <2>4, <2>5 DEF AckInv
<1> QED
  BY <1>5, <1>6, <1>7

\* Message_1 is queued.
LEMMA AckHandshake ==
  ASSUME TypeOK, CallInv, AckInv, NEW prepared, StartHandshake(prepared)
  PROVE  AckInv'
<1> DEFINE s == session["initiator"]
           f == Frame("M1", Body("m1", s.gx, 0, "nobody"))
<1>1. /\ s.phase = "Start"
      /\ UNCHANGED <<boot, task, rxq, accepted>>
      /\ NothingArrived
      /\ session'["responder"] = session["responder"]
      /\ session'["initiator"] = s
         \/ session'["initiator"].phase \in {"Failed", "WaitM2"}
      /\ Sending("initiator")' \subseteq Sending("initiator") \cup {f}
      /\ Sending("responder")' \subseteq Sending("responder")
  BY StartEffect, TwoBoards DEF history, Moved, NothingSent
<1>2. f.type = "M1"
  BY DEF Frame
<1> HIDE DEF f
<1>3. M3s' \subseteq M3s
  <2>1. \A c \in Boards \ {"initiator"} : Sending(c)' \subseteq Sending(c)
    BY <1>1, TwoBoards
  <2> QED
    BY <1>1, <1>2, <2>1, MessageSets, TwoBoards
<1>4. \A b \in Boards : session'[b].phase = "Done" => session'[b] = session[b]
  BY <1>1, TwoBoards
<1> QED
  BY <1>1, <1>3, <1>4, AckKept, TwoBoards DEF NothingArrived

\* The responder binds its key to a message_1; it has sent no ACK before.
LEMMA AckM1 == ASSUME TypeOK, CallInv, PairInv, AckInv, ProcessM1 PROVE AckInv'
<1> DEFINE s == session["responder"]
           F(m) == Frame("M2", Body("m2", m.body.gx, s.gy, s.as))
<1>1. /\ s.phase = "Start"
      /\ UNCHANGED <<boot, task, accepted>>
      /\ NothingArrived /\ rxq'["initiator"] = rxq["initiator"]
      /\ session'["initiator"] = session["initiator"]
      /\ \/ /\ session'["responder"] = s \/ session'["responder"].phase = "Failed"
            /\ NothingSent
         \/ \E m \in ArrivedM1 :
              /\ session'["responder"] = Moved(s, "WaitM3", m.body.gx, s.gy)
              /\ Sending("responder")' \subseteq Sending("responder") \cup {F(m)}
              /\ Sending("initiator")' \subseteq Sending("initiator")
  BY M1Effect DEF history
<1>2. \A m : F(m).type = "M2" /\ ~IsAck(F(m))
  BY DEF Frame, IsAck
<1>3. \A m : Moved(s, "WaitM3", m.body.gx, s.gy).phase = "WaitM3"
  BY DEF Moved
<1> HIDE DEF F
<1>4. /\ M3s' \subseteq M3s
      /\ \A f \in Sending("responder")' : IsAck(f) => f \in Sending("responder")
      /\ session'["responder"] = s \/ session'["responder"].phase \in {"Failed", "WaitM3"}
  <2>1. CASE (session'["responder"] = s \/ session'["responder"].phase = "Failed")
             /\ NothingSent
    BY <1>1, <2>1, MessagesKept, TwoBoards DEF NothingSent
  <2>2. CASE \E m \in ArrivedM1 :
               /\ session'["responder"] = Moved(s, "WaitM3", m.body.gx, s.gy)
               /\ Sending("responder")' \subseteq Sending("responder") \cup {F(m)}
               /\ Sending("initiator")' \subseteq Sending("initiator")
    <3>1. PICK m \in ArrivedM1 :
            /\ session'["responder"] = Moved(s, "WaitM3", m.body.gx, s.gy)
            /\ Sending("responder")' \subseteq Sending("responder") \cup {F(m)}
            /\ Sending("initiator")' \subseteq Sending("initiator")
      BY <2>2
    <3>2. \A c \in Boards \ {"responder"} : Sending(c)' \subseteq Sending(c)
      BY <3>1, TwoBoards
    <3>3. F(m).type # "M3"
      BY <1>2
    <3>4. M3s' \subseteq M3s
      BY <1>1, <3>1, <3>2, <3>3, MessageSets, TwoBoards
    <3> QED
      BY <1>2, <1>3, <3>1, <3>4
  <2> QED
    BY <1>1, <2>1, <2>2
<1>5. \A b \in Boards : session'[b].phase = "Done" => session'[b] = session[b]
  BY <1>1, <1>4, TwoBoards
<1> QED
  BY <1>1, <1>4, <1>5, AckKept, TwoBoards DEF NothingArrived

\* The initiator accepts a message_2: an ACK behind it was sent for it.
LEMMA AckM2 == ASSUME TypeOK, CallInv, PairInv, AckInv, ProcessM2 PROVE AckInv'
<1> DEFINE s == session["initiator"]
           m == Msg("initiator")
           f == Frame("M3", Body("m3", s.gx, m.body.gy, s.as))
           q == rxq["initiator"]
<1>1. /\ s.phase = "WaitM2"
      /\ UNCHANGED <<boot, task>>
      /\ NothingArrived
      /\ q # <<>> /\ rxq'["initiator"] = Tail(q)
      /\ session'["responder"] = session["responder"]
      /\ accepted'["responder"] = accepted["responder"]
      /\ \/ /\ session'["initiator"] = s \/ session'["initiator"].phase = "Failed"
            /\ NothingSent /\ accepted' = accepted
         \/ /\ m \in M2s /\ m.body.gx = s.gx
            /\ session'["initiator"] = Moved(s, "Done", s.gx, m.body.gy)
            /\ Sending("initiator")' \subseteq Sending("initiator") \cup {f}
            /\ Sending("responder")' \subseteq Sending("responder")
            /\ accepted'["initiator"] = accepted["initiator"] \cup {Transcript(m.body)}
  BY M2Effect
<1>2. CASE (session'["initiator"] = s \/ session'["initiator"].phase = "Failed")
           /\ NothingSent /\ accepted' = accepted
  <2>1. M3s' \subseteq M3s
    BY <1>1, <1>2, MessagesKept
  <2>2. \A b \in Boards : session'[b].phase = "Done" => session'[b] = session[b]
    BY <1>1, <1>2, TwoBoards
  <2>3. /\ Sending("responder")' \subseteq Sending("responder")
        /\ Arrived("initiator")' \subseteq Arrived("initiator")
    BY <1>1, <1>2, TwoBoards DEF NothingSent, NothingArrived
  <2> QED
    BY <1>1, <1>2, <2>1, <2>2, <2>3, AckKept
<1>3. CASE /\ m \in M2s /\ m.body.gx = s.gx
           /\ session'["initiator"] = Moved(s, "Done", s.gx, m.body.gy)
           /\ Sending("initiator")' \subseteq Sending("initiator") \cup {f}
           /\ Sending("responder")' \subseteq Sending("responder")
           /\ accepted'["initiator"] = accepted["initiator"] \cup {Transcript(m.body)}
  <2> DEFINE t == Transcript(m.body)
  <2>1. f.type = "M3" /\ Transcript(f.body) = t
    BY <1>3 DEF Frame, Body, Transcript
  <2>2. Transcript(session'["initiator"]) = t
    BY <1>3 DEF Moved, Transcript
  <2>3. M3s' \subseteq M3s \cup {f}
    <3>1. \A c \in Boards \ {"initiator"} : Sending(c)' \subseteq Sending(c)
      BY <1>3, TwoBoards
    <3> HIDE DEF f
    <3> QED
      BY <1>1, <1>3, <3>1, MessageSets, TwoBoards
  <2> HIDE DEF f
  <2>4. M3Accepted'
    BY <1>3, <2>1, <2>3 DEF AckInv, M3Accepted
  <2>5. Accepted'
    BY <1>1, <1>3, <2>2, TwoBoards DEF AckInv, Accepted
  <2>6. AckSent'
    BY <1>1, <1>3 DEF AckInv, AckSent
  <2>7. AckAfterM2'
    BY <1>1, AfterKept DEF AckInv
  <2>8. AckArrived'
    <3> SUFFICES ASSUME NEW g \in Arrived("initiator")', IsAck(g)
                 PROVE  t \in accepted["responder"]
      BY <1>1, <2>2 DEF AckArrived, IsAck
    <3>1. q \in Seq(Packets) /\ q # <<>>
      BY <1>1, TwoBoards DEF TypeOK
    <3>2. /\ Head(q) = q[1] /\ 1 \in 1 .. Len(q)
          /\ \A i \in 1 .. Len(Tail(q)) :
               i + 1 \in 1 .. Len(q) /\ Tail(q)[i] = q[i + 1] /\ 1 < i + 1
      BY <3>1, TailFacts
    <3>3. PICK i \in 1 .. Len(Tail(q)) : g = Tail(q)[i].frame
      BY <1>1 DEF Arrived
    <3>4. i + 1 \in 1 .. Len(q) /\ g = q[i + 1].frame /\ 1 < i + 1
      BY <3>2, <3>3
    <3>5. m = q[1].frame /\ m \in ArrivedM2
      BY <1>3, <3>2 DEF Msg, M2s, ArrivedM2, Messages, Arrived
    <3>6. m.body.gx = boot["initiator"]
      BY <1>1, <1>3, TwoBoards DEF PairInv, OwnKey
    <3> QED
      BY <3>2, <3>4, <3>5, <3>6 DEF AckInv, AckAfterM2
  <2> QED
    BY <2>4, <2>5, <2>6, <2>7, <2>8 DEF AckInv
<1> QED
  BY <1>1, <1>2, <1>3

\* The responder accepts a message_3 and sends the ACK.
LEMMA AckM3 == ASSUME TypeOK, CallInv, AckInv, ProcessM3 PROVE AckInv'
<1> DEFINE s == session["responder"]
           f == Frame("ACK", Text)
<1>1. /\ s.phase = "WaitM3"
      /\ UNCHANGED boot
      /\ NothingArrived /\ rxq'["initiator"] = rxq["initiator"]
      /\ session'["initiator"] = session["initiator"]
      /\ accepted'["initiator"] = accepted["initiator"]
      /\ \/ /\ session'["responder"] = s \/ session'["responder"].phase = "Failed"
            /\ NothingSent /\ accepted' = accepted
         \/ /\ \E m \in M3s : Transcript(m.body) = Transcript(s)
            /\ session'["responder"] = Moved(s, "Done", s.gx, s.gy)
            /\ Sending("responder")' \subseteq Sending("responder") \cup {f}
            /\ Sending("initiator")' \subseteq Sending("initiator")
            /\ accepted'["responder"] = accepted["responder"] \cup {Transcript(s)}
  BY M3Effect
<1>2. f.type = "ACK"
  BY DEF Frame
<1>3. CASE (session'["responder"] = s \/ session'["responder"].phase = "Failed")
           /\ NothingSent /\ accepted' = accepted
  <2>1. M3s' \subseteq M3s
    BY <1>1, <1>3, MessagesKept
  <2>2. \A b \in Boards : session'[b].phase = "Done" => session'[b] = session[b]
    BY <1>1, <1>3, TwoBoards
  <2>3. /\ Sending("responder")' \subseteq Sending("responder")
        /\ Arrived("initiator")' \subseteq Arrived("initiator")
    BY <1>1, <1>3, TwoBoards DEF NothingSent, NothingArrived
  <2> QED
    BY <1>1, <1>3, <2>1, <2>2, <2>3, AckKept
<1>4. CASE /\ \E m \in M3s : Transcript(m.body) = Transcript(s)
           /\ session'["responder"] = Moved(s, "Done", s.gx, s.gy)
           /\ Sending("responder")' \subseteq Sending("responder") \cup {f}
           /\ Sending("initiator")' \subseteq Sending("initiator")
           /\ accepted'["responder"] = accepted["responder"] \cup {Transcript(s)}
  <2>1. Transcript(s) \in accepted["initiator"]
    BY <1>4 DEF AckInv, M3Accepted
  <2>2. /\ session'["responder"].phase = "Done"
        /\ Transcript(session'["responder"]) = Transcript(s)
    BY <1>4 DEF Moved, Transcript
  <2>3. M3s' \subseteq M3s
    <3>1. \A c \in Boards \ {"responder"} : Sending(c)' \subseteq Sending(c)
      BY <1>4, TwoBoards
    <3> HIDE DEF f
    <3> QED
      BY <1>1, <1>2, <1>4, <3>1, MessageSets, TwoBoards
  <2>4. M3Accepted'
    BY <1>1, <2>3 DEF AckInv, M3Accepted
  <2>5. Accepted'
    BY <1>1, <1>4, <2>1, <2>2, TwoBoards DEF AckInv, Accepted
  <2>6. AckSent'
    BY <2>2 DEF AckSent
  <2>7. AckAfterM2'
    BY <1>1, <1>4, AfterKept DEF AckInv
  <2>8. AckArrived'
    <3>1. Arrived("initiator")' = Arrived("initiator")
      BY <1>1 DEF Arrived
    <3> QED
      BY <1>1, <1>4, <3>1 DEF AckInv, AckArrived
  <2> QED
    BY <2>4, <2>5, <2>6, <2>7, <2>8 DEF AckInv
<1> QED
  BY <1>1, <1>3, <1>4

\* Every action keeps the ACK to its transcript.
LEMMA AckStep == TypeOK /\ CallInv /\ PairInv /\ AckInv /\ [Next]_vars => AckInv'
<1> SUFFICES ASSUME TypeOK, CallInv, PairInv, AckInv, [Next]_vars PROVE AckInv'
  OBVIOUS
<1>1. ASSUME NEW b \in Boards, Listen(b) PROVE AckInv'
  BY <1>1, AckListen
<1>2. ASSUME NEW b \in Boards, StartApp(b) PROVE AckInv'
  <2>1. UNCHANGED <<boot, accepted>>
    BY <1>2 DEF StartApp, history
  <2> QED
    BY <1>2, <2>1, AckDown, AckApp
<1>3. ASSUME NEW b \in Boards, Restart(b) PROVE AckInv'
  BY <1>3, AckDown DEF Restart, history
<1>4. ASSUME NEW b \in Boards,
             Transmit(b) \/ (\E f \in Strays : StrayArrives(b, f))
      PROVE  AckInv'
  BY <1>4, AckAir
<1>5. ASSUME NEW prepared, StartHandshake(prepared) PROVE AckInv'
  BY <1>5, AckHandshake
<1>6. ASSUME \/ \E b \in Boards : BadSession(b) \/ Ignore(b)
             \/ \E outcome : InstallAfterDelay(outcome) \/ ProcessAck(outcome)
             \/ SendKeyTest \/ ProcessKeyTest \/ ProcessKeyTestAck
             \/ UNCHANGED vars
      PROVE  AckInv'
  BY <1>6, QuietActions, AckQuiet
<1> QED
  BY <1>1, <1>2, <1>3, <1>4, <1>5, <1>6, AckM1, AckM2, AckM3 DEF Next

\* Which steps change what the boards have accepted, exported or confirmed.
LEMMA HistorySteps ==
  ASSUME [Next]_vars
  PROVE  \/ UNCHANGED <<accepted, derived, confirmed>>
         \/ ProcessM2 \/ ProcessM3
         \/ \E outcome : InstallAfterDelay(outcome) \/ ProcessAck(outcome)
         \/ ProcessKeyTest \/ ProcessKeyTestAck
BY DEF Next, vars, history, Listen, StartApp, Restart, Transmit, StrayArrives,
       BadSession, Ignore, StartHandshake, ProcessM1, SendKeyTest

\* No transcript is ever taken back.
LEMMA AcceptedGrows ==
  ASSUME TypeOK, CallInv, [Next]_vars, NEW b \in Boards
  PROVE  accepted[b] \subseteq accepted'[b]
<1>1. CASE ProcessM2
  BY <1>1, M2Effect, TwoBoards
<1>2. CASE ProcessM3
  BY <1>2, M3Effect, TwoBoards
<1>3. CASE UNCHANGED accepted
  BY <1>3
<1> QED
  BY <1>1, <1>2, <1>3, HistorySteps
     DEF InstallAfterDelay, ProcessAck, ProcessKeyTest, ProcessKeyTestAck

\* Every action exports only what both boards have accepted.
LEMMA DerivedStep ==
  TypeOK /\ CallInv /\ AckInv /\ DerivedAccepted /\ [Next]_vars => DerivedAccepted'
<1> SUFFICES ASSUME TypeOK, CallInv, AckInv, DerivedAccepted, [Next]_vars
             PROVE  DerivedAccepted'
  OBVIOUS
<1>1. \A b \in Boards : accepted[b] \subseteq accepted'[b]
  BY AcceptedGrows
<1>2. CASE UNCHANGED derived
  BY <1>1, <1>2 DEF DerivedAccepted
<1>3. ASSUME NEW b \in Boards, NEW outcome,
             \/ b = "responder" /\ InstallAfterDelay(outcome)
             \/ b = "initiator" /\ ProcessAck(outcome)
      PROVE  DerivedAccepted'
  <2>1. /\ session[b].phase = "Done"
        /\ \A c \in Boards \ {b} : derived'[c] = derived[c]
        /\ \/ derived'[b] = derived[b]
           \/ \E key \in LmkTypes :
                /\ Transcript(key) = Transcript(session[b])
                /\ derived'[b] = derived[b] \cup {key}
                /\ b = "initiator" => \E f \in Arrived("initiator") : IsAck(f)
    BY <1>3, InstallEffect
  <2>2. CASE derived'[b] = derived[b]
    BY <1>1, <2>1, <2>2 DEF DerivedAccepted
  <2>3. CASE \E key \in LmkTypes :
               /\ Transcript(key) = Transcript(session[b])
               /\ derived'[b] = derived[b] \cup {key}
               /\ b = "initiator" => \E f \in Arrived("initiator") : IsAck(f)
    <3>1. Transcript(session[b]) \in accepted["responder"]
      BY <2>1, <2>3, TwoBoards DEF AckInv, AckArrived, Accepted
    <3>2. Transcript(session[b]) \in accepted["initiator"]
      BY <3>1 DEF AckInv, Accepted
    <3>3. \A c \in Boards : Transcript(session[b]) \in accepted'[c]
      BY <1>1, <3>1, <3>2, TwoBoards
    <3> QED
      BY <1>1, <2>1, <2>3, <3>3 DEF DerivedAccepted
  <2> QED
    BY <2>1, <2>2, <2>3
<1>4. CASE ProcessM2 \/ ProcessM3 \/ ProcessKeyTest \/ ProcessKeyTestAck
  BY <1>2, <1>4 DEF ProcessM2, ProcessM3, ProcessKeyTest, ProcessKeyTestAck
<1> QED
  BY <1>2, <1>3, <1>4, HistorySteps, TwoBoards

-----------------------------------------------------------------------------
(* Installed keys and complete pairings. *)

\* Before the first boot there is no key.
LEMMA SessionKeyStart == Init => SessionKey
BY TwoBoards DEF Init, SessionKey, FirstState

\* A handler's message call is made by a session that is not finished, on a board
\* that has no key yet, and does not complete the pairing.
LEMMA CallKeepsKey ==
  ASSUME TypeOK, SessionKey, NEW b \in Boards, NEW r, NEW f, NEW next,
         CallAndAnswer(b, r, f, next), next # "COMPLETE",
         session[b].phase # "Done", UNCHANGED <<lmk, confirmed>>
  PROVE  SessionKey'
<1>1. /\ state'[b] # "COMPLETE"
      /\ \A c \in Boards \ {b} : session'[c] = session[c] /\ state'[c] = state[c]
  BY AnswerFacts
<1>2. lmk[b] = Plain
  BY DEF SessionKey
<1> QED
  BY <1>1, <1>2 DEF SessionKey

\* Every action keeps installed keys to their sessions.
LEMMA SessionKeyStep ==
  TypeOK /\ CallInv /\ KeyInv /\ PairInv /\ SessionKey /\ [Next]_vars => SessionKey'
<1> SUFFICES ASSUME TypeOK, CallInv, KeyInv, PairInv, SessionKey, [Next]_vars
             PROVE  SessionKey'
  OBVIOUS
<1>1. ASSUME UNCHANGED <<state, session, lmk, confirmed>> PROVE SessionKey'
  BY <1>1 DEF SessionKey
<1>2. ASSUME NEW b \in Boards, PowerDown(b), UNCHANGED confirmed PROVE SessionKey'
  BY <1>2 DEF TypeOK, PowerDown, Set, FirstState, SessionKey
<1>3. ASSUME NEW b \in Boards, StartApp(b) PROVE SessionKey'
  <2>1. CASE PowerDown(b)
    BY <1>2, <1>3, <2>1 DEF StartApp, history
  <2>2. CASE ~PowerDown(b)
    <3>1. /\ task[b] = "listening" /\ UNCHANGED <<state, lmk, confirmed>>
          /\ \A c \in Boards \ {b} : session'[c] = session[c]
      BY <1>3, <2>2, StartAppFacts DEF history
    <3>2. session[b].phase = "Empty"
      BY <3>1 DEF PairInv, Idle, EmptySession
    <3> QED
      BY <3>1, <3>2 DEF SessionKey
  <2> QED
    BY <2>1, <2>2
<1>4. ASSUME NEW b \in Boards, BadSession(b) PROVE SessionKey'
  BY <1>4 DEF TypeOK, BadSession, Set, SessionKey, history
<1>5. ASSUME NEW prepared, StartHandshake(prepared) PROVE SessionKey'
  <2>1. session["initiator"].phase = "Start"
    BY <1>5, StartEffect
  <2> QED
    BY <1>5, <2>1, CallKeepsKey, TwoBoards DEF StartHandshake, history
<1>6. CASE ProcessM1
  <2>1. session["responder"].phase = "Start"
    BY <1>6, M1Effect
  <2> QED
    BY <1>6, <2>1, CallKeepsKey, TwoBoards DEF ProcessM1, history
<1>7. CASE ProcessM2
  <2>1. session["initiator"].phase = "WaitM2"
    BY <1>7, M2Effect
  <2> QED
    BY <1>7, <2>1, CallKeepsKey, TwoBoards DEF ProcessM2
<1>8. CASE ProcessM3
  <2>1. session["responder"].phase = "WaitM3" /\ state["responder"] = "WAIT_M3"
    BY <1>8, M3Effect DEF ProcessM3, Handling, Expected
  <2> QED
    BY <1>8, <2>1, CallKeepsKey, TwoBoards DEF ProcessM3
<1>9. ASSUME NEW b \in Boards, NEW outcome,
             \/ b = "responder" /\ InstallAfterDelay(outcome)
             \/ b = "initiator" /\ ProcessAck(outcome)
      PROVE  SessionKey'
  <2>1. /\ session[b].phase = "Done" /\ state'[b] # "COMPLETE"
        /\ UNCHANGED <<session, confirmed>>
        /\ \A c \in Boards \ {b} : lmk'[c] = lmk[c] /\ state'[c] = state[c]
        /\ \/ lmk'[b] = lmk[b]
           \/ \E key \in LmkTypes : /\ Transcript(key) = Transcript(session[b])
                                    /\ lmk'[b] \in {lmk[b], key}
    BY <1>9, InstallEffect
  <2>2. lmk'[b] = lmk[b] \/ Transcript(lmk'[b]) = Transcript(session[b])
    BY <2>1
  <2> QED
    BY <2>1, <2>2 DEF SessionKey
<1>10. CASE ProcessKeyTest
  <2> DEFINE b == "responder"
  <2>1. /\ Received(b) /\ Msg(b).type = "KEY_TEST" /\ Msg(b).sid = "ours"
        /\ UNCHANGED <<session, lmk>>
        /\ state' = Set(state, b, IF Verified(b) THEN "COMPLETE" ELSE "FAILED")
        /\ confirmed' = [confirmed EXCEPT ![b] = IF Verified(b) THEN @ \cup {lmk[b]} ELSE @]
    BY <1>10 DEF ProcessKeyTest, Handling, Record
  <2>2. Verified(b) => lmk[b] # Plain
    BY <2>1, HeadSealed, TwoBoards DEF Verified, IsKeyTest
  <2> QED
    BY <2>1, <2>2, TwoBoards DEF TypeOK, Set, SessionKey
<1>11. CASE ProcessKeyTestAck
  <2> DEFINE b == "initiator"
  <2>1. /\ Received(b) /\ Msg(b).type = "KEY_TEST_ACK" /\ Msg(b).sid = "ours"
        /\ UNCHANGED <<session, lmk>>
        /\ state' = Set(state, b, IF Verified(b) THEN "COMPLETE" ELSE "FAILED")
        /\ confirmed' = [confirmed EXCEPT ![b] = IF Verified(b) THEN @ \cup {lmk[b]} ELSE @]
    BY <1>11 DEF ProcessKeyTestAck, Handling, Record
  <2>2. Verified(b) => lmk[b] # Plain
    BY <2>1, HeadSealed, TwoBoards DEF Verified, IsKeyTest
  <2> QED
    BY <2>1, <2>2, TwoBoards DEF TypeOK, Set, SessionKey
<1>12. CASE \/ \E b \in Boards : Listen(b) \/ Transmit(b) \/ Ignore(b)
            \/ \E b \in Boards, f \in Strays : StrayArrives(b, f)
            \/ SendKeyTest \/ UNCHANGED vars
  BY <1>1, <1>12 DEF Listen, Transmit, Ignore, StrayArrives, SendKeyTest, vars, ram,
                     history
<1>13. ASSUME NEW b \in Boards, Restart(b) PROVE SessionKey'
  BY <1>2, <1>13 DEF Restart, history
<1> QED
  BY <1>3, <1>4, <1>5, <1>6, <1>7, <1>8, <1>9, <1>10, <1>11, <1>12, <1>13, TwoBoards
     DEF Next

-----------------------------------------------------------------------------
(* Who authenticated to whom. *)

\* Before the first boot nobody has.
LEMMA AuthStart == Init => AuthInv
<1> SUFFICES ASSUME Init PROVE AuthInv
  OBVIOUS
<1>1. \A b \in Boards : /\ session[b].phase = "Empty" /\ accepted[b] = {}
                        /\ rxq[b] = <<>> /\ txq[b] = <<>>
  BY TwoBoards DEF Init, EmptySession
<1>2. \A b \in Boards : Sending(b) = {} /\ Arrived(b) = {}
  BY <1>1 DEF Sending, Arrived
<1>3. M2s = {} /\ M3s = {}
  BY <1>2, TwoBoards DEF M2s, M3s, Messages, InFlight
<1> QED
  BY <1>1, <1>3 DEF AuthInv

\* A step that adds no message_2 and no message_3, accepts nothing, and leaves each
\* session as it was, ended, or with the identity it had.
LEMMA AuthKept ==
  ASSUME AuthInv, UNCHANGED <<build, accepted>>, M2s' \subseteq M2s, M3s' \subseteq M3s,
         \A b \in Boards :
           session'[b].phase \notin {"Empty", "Failed"} =>
             \/ session'[b].as = Own(b) /\ CanBoot(b)
             \/ session[b].phase \notin {"Empty", "Failed"}
                /\ session'[b].as = session[b].as
  PROVE  AuthInv'
<1>1. \A b \in Boards : /\ Own(b)' = Own(b) /\ (CanBoot(b)' <=> CanBoot(b))
                        /\ (Authenticates(b)' <=> Authenticates(b))
  BY DEF Own, CanBoot, Authenticates
<1>2. \A b \in Boards : session'[b].phase \notin {"Empty", "Failed"} =>
                          session'[b].as = Own(b)' /\ CanBoot(b)'
  BY <1>1 DEF AuthInv
<1>3. \A b \in Boards : Other(b) \in Boards
  BY BoardFacts
<1> QED
  BY <1>1, <1>2, <1>3, TwoBoards DEF AuthInv

\* Every action keeps what the boards know of each other.
LEMMA AuthStep == TypeOK /\ CallInv /\ PairInv /\ AuthInv /\ [Next]_vars => AuthInv'
<1> SUFFICES ASSUME TypeOK, CallInv, PairInv, AuthInv, [Next]_vars PROVE AuthInv'
  OBVIOUS
<1>0. UNCHANGED build => 
        \A b \in Boards : /\ Own(b)' = Own(b) /\ (CanBoot(b)' <=> CanBoot(b))
                          /\ (Authenticates(b)' <=> Authenticates(b))
  BY DEF Own, CanBoot, Authenticates
<1>1. ASSUME UNCHANGED <<build, accepted, session>>, M2s' \subseteq M2s,
             M3s' \subseteq M3s
      PROVE  AuthInv'
  BY <1>1, AuthKept
<1>2. ASSUME NEW b \in Boards, PowerDown(b), UNCHANGED <<build, accepted>>
      PROVE  AuthInv'
  <2>1. M2s' \subseteq M2s /\ M3s' \subseteq M3s
    BY <1>2, PowerDownFlight, MessagesKept
  <2>2. /\ session'[b].phase = "Empty"
        /\ \A c \in Boards \ {b} : session'[c] = session[c]
    BY <1>2 DEF TypeOK, PowerDown, Set, EmptySession
  <2> QED
    BY <1>2, <2>1, <2>2, AuthKept
<1>3. ASSUME NEW b \in Boards, StartApp(b) PROVE AuthInv'
  <2>1. CASE PowerDown(b)
    BY <1>2, <1>3, <2>1 DEF StartApp, history
  <2>2. CASE ~PowerDown(b)
    <3>1. /\ UNCHANGED <<build, rxq, txq, accepted>>
          /\ \A c \in Boards \ {b} : session'[c] = session[c]
          /\ session'[b] = session[b] \/ (session'[b].as = Own(b) /\ CanBoot(b))
      BY <1>3, <2>2, StartAppFacts DEF history
    <3>2. M2s' \subseteq M2s /\ M3s' \subseteq M3s
      BY <3>1, FlightKept, MessagesKept
    <3> QED
      BY <3>1, <3>2, AuthKept
  <2> QED
    BY <2>1, <2>2
<1>4. ASSUME NEW b \in Boards, Listen(b) PROVE AuthInv'
  <2>1. UNCHANGED <<build, accepted, session, rxq, txq>>
    BY <1>4 DEF Listen, history
  <2> QED
    BY <1>1, <2>1, FlightKept, MessagesKept
<1>5. ASSUME NEW b \in Boards,
             Transmit(b) \/ (\E f \in Strays : StrayArrives(b, f))
      PROVE  AuthInv'
  <2>1. UNCHANGED <<build, accepted, session>>
    BY <1>5 DEF Transmit, StrayArrives, history
  <2> QED
    BY <1>1, <1>5, <2>1, AirMessages
<1>6. ASSUME \/ \E b \in Boards : BadSession(b) \/ Ignore(b)
             \/ \E outcome : InstallAfterDelay(outcome) \/ ProcessAck(outcome)
             \/ SendKeyTest \/ ProcessKeyTest \/ ProcessKeyTestAck
             \/ UNCHANGED vars
      PROVE  AuthInv'
  <2>1. Quiet
    BY <1>6, QuietActions
  <2> QED
    BY <1>1, <2>1, QuietMessages DEF Quiet
<1>7. ASSUME NEW prepared, StartHandshake(prepared) PROVE AuthInv'
  <2> DEFINE s == session["initiator"]
             f == Frame("M1", Body("m1", s.gx, 0, "nobody"))
  <2>1. /\ s.phase = "Start" /\ NothingArrived
        /\ UNCHANGED <<build, accepted>>
        /\ session'["responder"] = session["responder"]
        /\ \/ session'["initiator"] = s \/ session'["initiator"].phase = "Failed"
           \/ session'["initiator"].as = s.as
        /\ Sending("initiator")' \subseteq Sending("initiator") \cup {f}
        /\ Sending("responder")' \subseteq Sending("responder")
    BY <1>7, StartEffect, TwoBoards DEF history, Moved, NothingSent
  <2>2. f.type = "M1"
    BY DEF Frame
  <2> HIDE DEF f
  <2>3. \A c \in Boards \ {"initiator"} : Sending(c)' \subseteq Sending(c)
    BY <2>1, TwoBoards
  <2>4. M2s' \subseteq M2s /\ M3s' \subseteq M3s
    BY <2>1, <2>2, <2>3, MessageSets, TwoBoards
  <2> QED
    BY <2>1, <2>4, AuthKept, TwoBoards
<1>8. CASE ProcessM1
  <2> DEFINE s == session["responder"]
             F(m) == Frame("M2", Body("m2", m.body.gx, s.gy, s.as))
  <2>1. /\ s.phase = "Start" /\ NothingArrived
        /\ UNCHANGED <<build, accepted>>
        /\ session'["initiator"] = session["initiator"]
        /\ \/ /\ session'["responder"] = s \/ session'["responder"].phase = "Failed"
              /\ NothingSent
           \/ \E m \in ArrivedM1 :
                /\ session'["responder"] = Moved(s, "WaitM3", m.body.gx, s.gy)
                /\ Sending("responder")' \subseteq Sending("responder") \cup {F(m)}
                /\ Sending("initiator")' \subseteq Sending("initiator")
    BY <1>8, M1Effect DEF history
  <2>2. s.as = Own("responder") /\ CanBoot("responder")
    BY <2>1, TwoBoards DEF AuthInv
  <2>3. CASE (session'["responder"] = s \/ session'["responder"].phase = "Failed")
             /\ NothingSent
    BY <2>1, <2>3, MessagesKept, AuthKept, TwoBoards
  <2>4. CASE \E m \in ArrivedM1 :
               /\ session'["responder"] = Moved(s, "WaitM3", m.body.gx, s.gy)
               /\ Sending("responder")' \subseteq Sending("responder") \cup {F(m)}
               /\ Sending("initiator")' \subseteq Sending("initiator")
    <3>1. PICK m \in ArrivedM1 :
            /\ session'["responder"] = Moved(s, "WaitM3", m.body.gx, s.gy)
            /\ Sending("responder")' \subseteq Sending("responder") \cup {F(m)}
            /\ Sending("initiator")' \subseteq Sending("initiator")
      BY <2>4
    <3>2. F(m).type = "M2" /\ F(m).body.as = s.as
      BY DEF Frame, Body
    <3>3. session'["responder"].as = s.as
      BY <3>1 DEF Moved
    <3> HIDE DEF F
    <3>4. \A c \in Boards \ {"responder"} : Sending(c)' \subseteq Sending(c)
      BY <3>1, TwoBoards
    <3>5. F(m).type # "M3"
      BY <3>2
    <3>6. M2s' \subseteq M2s \cup {F(m)} /\ M3s' \subseteq M3s
      BY <2>1, <3>1, <3>4, <3>5, MessageSets, TwoBoards
    <3>7. \A f \in M2s' : f.body.as = Own("responder")' /\ CanBoot("responder")'
      BY <1>0, <2>1, <2>2, <3>2, <3>6, TwoBoards DEF AuthInv
    <3>8. \A f \in M3s' : f.body.as = Own("initiator")' /\ CanBoot("initiator")'
      BY <1>0, <2>1, <3>6, TwoBoards DEF AuthInv
    <3>9. \A b \in Boards : session'[b].phase \notin {"Empty", "Failed"} =>
                              session'[b].as = Own(b)' /\ CanBoot(b)'
      BY <1>0, <2>1, <2>2, <3>3, TwoBoards DEF AuthInv
    <3>10. \A b \in Boards : accepted'[b] # {} =>
                               Authenticates(Other(b))' /\ CanBoot(Other(b))'
      BY <1>0, <2>1, BoardFacts DEF AuthInv
    <3> QED
      BY <3>7, <3>8, <3>9, <3>10 DEF AuthInv
  <2> QED
    BY <2>1, <2>3, <2>4
<1>9. CASE ProcessM2
  <2> DEFINE s == session["initiator"]
             m == Msg("initiator")
             f == Frame("M3", Body("m3", s.gx, m.body.gy, s.as))
  <2>1. /\ s.phase = "WaitM2" /\ NothingArrived
        /\ UNCHANGED build
        /\ session'["responder"] = session["responder"]
        /\ accepted'["responder"] = accepted["responder"]
        /\ \/ /\ session'["initiator"] = s \/ session'["initiator"].phase = "Failed"
              /\ NothingSent /\ accepted' = accepted
           \/ /\ m \in M2s
              /\ m.body.as = build["initiator"].cred["responder"]
              /\ session'["initiator"] = Moved(s, "Done", s.gx, m.body.gy)
              /\ Sending("initiator")' \subseteq Sending("initiator") \cup {f}
              /\ Sending("responder")' \subseteq Sending("responder")
    BY <1>9, M2Effect
  <2>2. s.as = Own("initiator") /\ CanBoot("initiator")
    BY <2>1, TwoBoards DEF AuthInv
  <2>3. f.type = "M3" /\ f.body.as = s.as
    BY DEF Frame, Body
  <2> HIDE DEF f, m
  <2>4. CASE (session'["initiator"] = s \/ session'["initiator"].phase = "Failed")
             /\ NothingSent /\ accepted' = accepted
    BY <2>1, <2>4, MessagesKept, AuthKept, TwoBoards
  <2>5. CASE /\ m \in M2s
             /\ m.body.as = build["initiator"].cred["responder"]
             /\ session'["initiator"] = Moved(s, "Done", s.gx, m.body.gy)
             /\ Sending("initiator")' \subseteq Sending("initiator") \cup {f}
             /\ Sending("responder")' \subseteq Sending("responder")
    <3>1. \A c \in Boards \ {"initiator"} : Sending(c)' \subseteq Sending(c)
      BY <2>5, TwoBoards
    <3>2. M2s' \subseteq M2s /\ M3s' \subseteq M3s \cup {f}
      BY <2>1, <2>3, <2>5, <3>1, MessageSets, TwoBoards
    <3>3. Authenticates("responder") /\ CanBoot("responder")
      BY <2>5, TwoBoards DEF AuthInv, Authenticates
    <3>4. session'["initiator"].as = s.as
      BY <2>5 DEF Moved
    <3>5. \A g \in M2s' : g.body.as = Own("responder")' /\ CanBoot("responder")'
      BY <1>0, <2>1, <3>2, TwoBoards DEF AuthInv
    <3>6. \A g \in M3s' : g.body.as = Own("initiator")' /\ CanBoot("initiator")'
      BY <1>0, <2>1, <2>2, <2>3, <3>2, TwoBoards DEF AuthInv
    <3>7. \A b \in Boards : session'[b].phase \notin {"Empty", "Failed"} =>
                              session'[b].as = Own(b)' /\ CanBoot(b)'
      BY <1>0, <2>1, <2>2, <3>4, TwoBoards DEF AuthInv
    <3>8. \A b \in Boards : accepted'[b] # {} =>
                              Authenticates(Other(b))' /\ CanBoot(Other(b))'
      BY <1>0, <2>1, <3>3, TwoBoards DEF AuthInv
    <3> QED
      BY <3>5, <3>6, <3>7, <3>8 DEF AuthInv
  <2> QED
    BY <2>1, <2>4, <2>5
<1>10. CASE ProcessM3
  <2> DEFINE s == session["responder"]
             f == Frame("ACK", Text)
  <2>1. /\ s.phase = "WaitM3" /\ NothingArrived
        /\ UNCHANGED build
        /\ session'["initiator"] = session["initiator"]
        /\ accepted'["initiator"] = accepted["initiator"]
        /\ \/ /\ session'["responder"] = s \/ session'["responder"].phase = "Failed"
              /\ NothingSent /\ accepted' = accepted
           \/ /\ \E m \in M3s : m.body.as = build["responder"].cred["initiator"]
              /\ session'["responder"] = Moved(s, "Done", s.gx, s.gy)
              /\ Sending("responder")' \subseteq Sending("responder") \cup {f}
              /\ Sending("initiator")' \subseteq Sending("initiator")
    BY <1>10, M3Effect
  <2>2. s.as = Own("responder") /\ CanBoot("responder")
    BY <2>1, TwoBoards DEF AuthInv
  <2>3. f.type = "ACK"
    BY DEF Frame
  <2> HIDE DEF f
  <2>4. CASE (session'["responder"] = s \/ session'["responder"].phase = "Failed")
             /\ NothingSent /\ accepted' = accepted
    BY <2>1, <2>4, MessagesKept, AuthKept, TwoBoards
  <2>5. CASE /\ \E m \in M3s : m.body.as = build["responder"].cred["initiator"]
             /\ session'["responder"] = Moved(s, "Done", s.gx, s.gy)
             /\ Sending("responder")' \subseteq Sending("responder") \cup {f}
             /\ Sending("initiator")' \subseteq Sending("initiator")
    <3>1. \A c \in Boards \ {"responder"} : Sending(c)' \subseteq Sending(c)
      BY <2>5, TwoBoards
    <3>2. M2s' \subseteq M2s /\ M3s' \subseteq M3s
      BY <2>1, <2>3, <2>5, <3>1, MessageSets, TwoBoards
    <3>3. Authenticates("initiator") /\ CanBoot("initiator")
      BY <2>5, TwoBoards DEF AuthInv, Authenticates
    <3>4. session'["responder"].as = s.as
      BY <2>5 DEF Moved
    <3>5. \A g \in M2s' : g.body.as = Own("responder")' /\ CanBoot("responder")'
      BY <1>0, <2>1, <3>2, TwoBoards DEF AuthInv
    <3>6. \A g \in M3s' : g.body.as = Own("initiator")' /\ CanBoot("initiator")'
      BY <1>0, <2>1, <3>2, TwoBoards DEF AuthInv
    <3>7. \A b \in Boards : session'[b].phase \notin {"Empty", "Failed"} =>
                              session'[b].as = Own(b)' /\ CanBoot(b)'
      BY <1>0, <2>1, <2>2, <3>4, TwoBoards DEF AuthInv
    <3>8. \A b \in Boards : accepted'[b] # {} =>
                              Authenticates(Other(b))' /\ CanBoot(Other(b))'
      BY <1>0, <2>1, <3>3, TwoBoards DEF AuthInv
    <3> QED
      BY <3>5, <3>6, <3>7, <3>8 DEF AuthInv
  <2> QED
    BY <2>1, <2>4, <2>5
<1>11. ASSUME NEW b \in Boards, Restart(b) PROVE AuthInv'
  BY <1>2, <1>11 DEF Restart, history
<1> QED
  BY <1>3, <1>4, <1>5, <1>6, <1>7, <1>8, <1>9, <1>10, <1>11 DEF Next

-----------------------------------------------------------------------------
(* What follows. *)

\* The inductive invariant holds.
THEOREM TranscriptsCorrect == Spec => [](TypeOK /\ CallInv /\ KeyInv /\ ConfirmationInv)
<1>1. Init => TypeOK /\ CallInv /\ KeyInv /\ ConfirmationInv
  BY TypeInit, CallInit, KeyInit, PairStart, AckStart, SessionKeyStart, AuthStart
     DEF ConfirmationInv
<1>2. TypeOK /\ CallInv /\ KeyInv /\ ConfirmationInv /\ [Next]_vars =>
        TypeOK' /\ CallInv' /\ KeyInv' /\ ConfirmationInv'
  BY TypeStep, CallStep, KeyStep, PairStep, AckStep, DerivedStep, SessionKeyStep,
     AuthStep DEF ConfirmationInv
<1> QED
  BY <1>1, <1>2, PTL DEF Spec

\* Keys that both boards derived from one transcript are one key, unless exactly
\* one of the boards corrupts them.
LEMMA OneKey ==
  ASSUME TypeOK, KeyInv, NEW b \in Boards, NEW c \in Boards,
         NEW j \in derived[b], NEW k \in derived[c],
         Transcript(j) = Transcript(k), build[b].corrupt = build[c].corrupt
  PROVE  j = k
<1>1. j \in LmkTypes /\ k \in LmkTypes
  BY DEF TypeOK
<1>2. j.ctx = k.ctx /\ j.flipped = k.flipped
  BY DEF KeyInv, DerivedKeys
<1>3. j.gx = k.gx /\ j.gy = k.gy
  BY DEF Transcript
<1>4. \A u, v \in LmkTypes :
        u.gx = v.gx /\ u.gy = v.gy /\ u.ctx = v.ctx /\ u.flipped = v.flipped => u = v
  BY DEF LmkTypes, Lmks
<1> QED
  BY <1>1, <1>2, <1>3, <1>4

\* Two boards that both show COMPLETE hold the same LMK.
THEOREM CompletePairsAgree == Spec => []CompleteAgree
<1>1. TypeOK /\ CallInv /\ KeyInv /\ ConfirmationInv => CompleteAgree
  <2> SUFFICES ASSUME TypeOK, KeyInv, PairInv, AckInv, DerivedAccepted, SessionKey,
                      \A b \in Boards : state[b] = "COMPLETE"
               PROVE  lmk["initiator"] = lmk["responder"] /\ lmk["initiator"] # Plain
    BY DEF ConfirmationInv, CompleteAgree
  <2> DEFINE i == lmk["initiator"]
             r == lmk["responder"]
  <2>1. /\ i # Plain /\ i \in confirmed["initiator"]
        /\ r # Plain /\ r \in confirmed["responder"]
        /\ session["initiator"].phase = "Done" /\ session["responder"].phase = "Done"
        /\ Transcript(i) = Transcript(session["initiator"])
        /\ Transcript(r) = Transcript(session["responder"])
    BY TwoBoards DEF SessionKey
  <2>2. /\ i \in derived["initiator"] /\ i \in derived["responder"]
        /\ r \in derived["responder"]
    BY <2>1 DEF KeyInv, ConfirmedInOrder
  <2>3. Transcript(i) \in Pairs
    BY <2>2, TwoBoards DEF DerivedAccepted, Pairs
  <2>4. Transcript(session["initiator"]).gx = boot["initiator"]
    BY <2>1, TwoBoards DEF PairInv, OwnKey, Transcript
  <2>5. Transcript(i) = Transcript(r)
    BY <2>1, <2>3, <2>4, SamePair
  <2>6. i = r
    BY <2>2, <2>5, OneKey, TwoBoards
  <2> QED
    BY <2>1, <2>6
<1> QED
  BY <1>1, TranscriptsCorrect, PTL

\* No board exports or installs a key unless each holds the credential and key
\* the other expects.
THEOREM KeysNeedMutualAuth == Spec => []NoKeyWithoutMutualAuth
<1>1. TypeOK /\ CallInv /\ KeyInv /\ ConfirmationInv => NoKeyWithoutMutualAuth
  <2> SUFFICES ASSUME KeyInv, DerivedAccepted, AuthInv, NEW b \in Boards,
                      derived[b] # {} \/ lmk[b] # Plain
               PROVE  MutuallyAuthentic
    BY DEF ConfirmationInv, NoKeyWithoutMutualAuth
  <2>1. derived[b] # {}
    BY DEF KeyInv, InstalledKey
  <2>2. \A c \in Boards : accepted[c] # {}
    BY <2>1 DEF DerivedAccepted
  <2>3. \A c \in Boards : Authenticates(Other(c)) /\ CanBoot(Other(c))
    BY <2>2 DEF AuthInv
  <2> QED
    BY <2>3, TwoBoards DEF MutuallyAuthentic
<1> QED
  BY <1>1, TranscriptsCorrect, PTL

-----------------------------------------------------------------------------
(* Pairing implements KeyConfirmation. *)

\* The transcripts and keys that occur are the ones KeyConfirmation is about.
LEMMA Occurring ==
  ASSUME TypeOK, PairInv
  PROVE  /\ Pairs \subseteq [gx : Boots, gy : Boots]
         /\ \A k \in LmkTypes :
              /\ Transcript(k) \in Pairs
              /\ k.ctx = PairContext
              => k \in [gx : Boots, gy : Boots,
                        ctx : {BuildExporterContext("initiator", "responder", 1)},
                        flipped : BOOLEAN]
<1>1. \A b \in Boards : \A n \in 1 .. boot[b] : n \in Boots
  <2>1. \A b \in Boards : boot[b] \in Nat /\ boot[b] <= MaxBoots
    BY PairingAssumption DEF TypeOK
  <2> QED
    BY <2>1, PairingAssumption DEF Boots
<1>2. \A p \in Pairs : p.gx \in 1 .. boot["initiator"] /\ p.gy \in 1 .. boot["responder"]
  BY DEF PairInv, KeysLeft, Reached, Ordered
<1>3. \A p \in Pairs : p.gx \in Boots /\ p.gy \in Boots
  BY <1>1, <1>2, TwoBoards
<1>4. Pairs \subseteq [gx : Nat, gy : Nat]
  BY PairTypes
<1>5. \A p \in [gx : Nat, gy : Nat] :
        p.gx \in Boots /\ p.gy \in Boots => p \in [gx : Boots, gy : Boots]
  OBVIOUS
<1>6. \A k \in LmkTypes : Transcript(k) \in Pairs => k.gx \in Boots /\ k.gy \in Boots
  BY <1>3 DEF Transcript
<1>7. \A k \in LmkTypes :
        k.gx \in Boots /\ k.gy \in Boots /\ k.ctx = PairContext =>
          k \in [gx : Boots, gy : Boots, ctx : {PairContext}, flipped : BOOLEAN]
  BY DEF LmkTypes, Lmks
<1> QED
  BY <1>3, <1>4, <1>5, <1>6, <1>7 DEF PairContext

\* What a board adds to its history, as the abstract specification writes it.
LEMMA Added ==
  ASSUME NEW S, NEW f \in [Boards -> S], NEW g \in [Boards -> S], NEW b \in Boards,
         NEW e, g[b] = f[b] \cup {e}, \A c \in Boards \ {b} : g[c] = f[c]
  PROVE  /\ g = [f EXCEPT ![b] = @ \cup {e}]
         /\ e \in f[b] => g = f
<1>1. g = [f EXCEPT ![b] = @ \cup {e}]
  OBVIOUS
<1>2. e \in f[b] => \A c \in Boards : g[c] = f[c]
  OBVIOUS
<1>3. (\A c \in Boards : g[c] = f[c]) => g = f
  OBVIOUS
<1> QED
  BY <1>1, <1>2, <1>3

\* Taking a message_2 or message_3 accepts its transcript.
LEMMA RefineAccept ==
  ASSUME TypeOK, TypeOK', CallInv, PairInv, AckInv, ProcessM2 \/ ProcessM3
  PROVE  Confirmation!Next \/ UNCHANGED Confirmation!vars
<1> DEFINE S == SUBSET [gx : Nat, gy : Nat]
<1>1. accepted \in [Boards -> S] /\ accepted' \in [Boards -> S]
  BY DEF TypeOK
<1> HIDE DEF S
<1>2. UNCHANGED <<derived, confirmed>>
  BY DEF ProcessM2, ProcessM3
<1>3. ASSUME NEW b \in Boards, NEW t \in Pairs,
             b = "responder" => t \in accepted["initiator"],
             accepted'[b] = accepted[b] \cup {t},
             \A c \in Boards \ {b} : accepted'[c] = accepted[c]
      PROVE  Confirmation!Next \/ UNCHANGED Confirmation!vars
  <2>1. /\ accepted' = [accepted EXCEPT ![b] = @ \cup {t}]
        /\ t \in accepted[b] => accepted' = accepted
    BY <1>1, <1>3, Added
  <2>2. t \in [gx : Boots, gy : Boots]
    BY Occurring
  <2>3. CASE t \in accepted[b]
    BY <1>2, <2>1, <2>3 DEF Confirmation!vars
  <2>4. CASE t \notin accepted[b]
    <3>1. Confirmation!Accept(b, t)
      BY <1>2, <1>3, <2>1, <2>4 DEF Confirmation!Accept
    <3> QED
      BY <2>2, <3>1 DEF Confirmation!Next, Confirmation!Sides, Boards, Roles
  <2> QED
    BY <2>3, <2>4
<1>4. ASSUME accepted' = accepted PROVE UNCHANGED Confirmation!vars
  BY <1>2, <1>4 DEF Confirmation!vars
<1>5. CASE ProcessM2
  <2> DEFINE m == Msg("initiator")
             t == Transcript(m.body)
  <2>1. /\ accepted'["responder"] = accepted["responder"]
        /\ \/ accepted' = accepted
           \/ m \in M2s /\ accepted'["initiator"] = accepted["initiator"] \cup {t}
    BY <1>5, M2Effect
  <2>2. m \in M2s => t \in Pairs
    BY DEF Pairs
  <2> HIDE DEF t, m
  <2> QED
    BY <1>3, <1>4, <2>1, <2>2, TwoBoards
<1>6. CASE ProcessM3
  <2> DEFINE t == Transcript(session["responder"])
  <2>1. /\ accepted'["initiator"] = accepted["initiator"]
        /\ session["responder"].phase = "WaitM3"
        /\ \/ accepted' = accepted
           \/ /\ \E m \in M3s : Transcript(m.body) = t
              /\ accepted'["responder"] = accepted["responder"] \cup {t}
    BY <1>6, M3Effect
  <2>2. t \in Pairs
    BY <2>1 DEF Pairs, Committed
  <2>3. (\E m \in M3s : Transcript(m.body) = t) => t \in accepted["initiator"]
    BY DEF AckInv, M3Accepted
  <2> HIDE DEF t
  <2> QED
    BY <1>3, <1>4, <2>1, <2>2, <2>3, TwoBoards
<1> QED
  BY <1>5, <1>6

\* Exporting a key derives it from a transcript both boards have accepted.
LEMMA RefineDerive ==
  ASSUME TypeOK, TypeOK', CallInv, KeyInv, PairInv, AckInv, DerivedAccepted,
         DerivedAccepted', NEW b \in Boards, NEW outcome,
         \/ b = "responder" /\ InstallAfterDelay(outcome)
         \/ b = "initiator" /\ ProcessAck(outcome)
  PROVE  Confirmation!Next \/ UNCHANGED Confirmation!vars
<1> DEFINE S == SUBSET LmkTypes
<1>1. derived \in [Boards -> S] /\ derived' \in [Boards -> S]
  BY DEF TypeOK
<1> HIDE DEF S
<1>2. /\ UNCHANGED <<build, session, accepted, confirmed>>
      /\ \A c \in Boards \ {b} : derived'[c] = derived[c]
      /\ \/ derived'[b] = derived[b]
         \/ \E key \in LmkTypes :
              /\ Transcript(key) = Transcript(session[b]) /\ key # Plain
              /\ key.ctx = PairContext /\ key.flipped = build[b].corrupt
              /\ derived'[b] = derived[b] \cup {key}
  BY InstallEffect
<1>3. CASE derived'[b] = derived[b]
  <2>1. \A c \in Boards : derived'[c] = derived[c]
    BY <1>2, <1>3
  <2>2. derived' = derived
    BY <1>1, <2>1
  <2> QED
    BY <1>2, <2>2 DEF Confirmation!vars
<1>4. ASSUME NEW k \in LmkTypes,
             k.ctx = PairContext, k.flipped = build[b].corrupt,
             derived'[b] = derived[b] \cup {k}
      PROVE  Confirmation!Next \/ UNCHANGED Confirmation!vars
  <2>1. /\ derived' = [derived EXCEPT ![b] = @ \cup {k}]
        /\ k \in derived[b] => derived' = derived
    BY <1>1, <1>2, <1>4, Added
  <2>2. \A c \in Boards : Transcript(k) \in accepted[c]
    <3>1. k \in derived'[b]
      BY <1>4
    <3> QED
      BY <1>2, <3>1 DEF DerivedAccepted
  <2>3. k \in [gx : Boots, gy : Boots,
               ctx : {BuildExporterContext("initiator", "responder", 1)},
               flipped : BOOLEAN]
    BY <1>4, <2>2, Occurring, TwoBoards DEF Pairs
  <2>4. CASE k \in derived[b]
    BY <1>2, <2>1, <2>4 DEF Confirmation!vars
  <2>5. CASE k \notin derived[b]
    <3>1. \A j \in derived[b] : Transcript(j) # Transcript(k)
      <4> SUFFICES ASSUME NEW j \in derived[b], Transcript(j) = Transcript(k)
                   PROVE  j = k
        BY <2>5
      <4>1. j \in LmkTypes /\ j.ctx = k.ctx /\ j.flipped = k.flipped
        BY <1>4 DEF TypeOK, KeyInv, DerivedKeys
      <4>2. j.gx = k.gx /\ j.gy = k.gy
        BY DEF Transcript
      <4>3. \A u, v \in LmkTypes :
              u.gx = v.gx /\ u.gy = v.gy /\ u.ctx = v.ctx /\ u.flipped = v.flipped => u = v
        BY DEF LmkTypes, Lmks
      <4> QED
        BY <1>4, <4>1, <4>2, <4>3
    <3>2. Confirmation!Derive(b, k)
      BY <1>2, <2>1, <2>2, <3>1
         DEF Confirmation!Derive, Confirmation!TranscriptOf, Transcript,
             Confirmation!Sides, Boards, Roles
    <3> QED
      BY <2>3, <3>2 DEF Confirmation!Next, Confirmation!Sides, Boards, Roles
  <2> QED
    BY <2>4, <2>5
<1> QED
  BY <1>2, <1>3, <1>4

\* A key test confirms the installed key.
LEMMA RefineConfirm ==
  ASSUME TypeOK, TypeOK', KeyInv, PairInv, DerivedAccepted,
         ProcessKeyTest \/ ProcessKeyTestAck
  PROVE  Confirmation!Next \/ UNCHANGED Confirmation!vars
<1> DEFINE S == SUBSET LmkTypes
<1>1. confirmed \in [Boards -> S] /\ confirmed' \in [Boards -> S]
  BY DEF TypeOK
<1> HIDE DEF S
<1>2. UNCHANGED <<accepted, derived>>
  BY DEF ProcessKeyTest, ProcessKeyTestAck
<1>3. ASSUME NEW b \in Boards, Received(b), Msg(b).sid = "ours",
             Msg(b).type \in {"KEY_TEST", "KEY_TEST_ACK"},
             b = "initiator" => Msg(b).type = "KEY_TEST_ACK",
             confirmed' = [confirmed EXCEPT ![b] = IF Verified(b) THEN @ \cup {lmk[b]} ELSE @]
      PROVE  Confirmation!Next \/ UNCHANGED Confirmation!vars
  <2> DEFINE k == lmk[b]
  <2>1. CASE ~Verified(b)
    <3>1. confirmed' = confirmed
      BY <1>1, <1>3, <2>1
    <3> QED
      BY <1>2, <3>1 DEF Confirmation!vars
  <2>2. CASE Verified(b)
    <3>1. IsKeyTest(Msg(b))
      BY <1>3, <2>2 DEF IsKeyTest, Verified
    <3>2. /\ k \in derived[b] /\ k \in derived[Other(b)]
          /\ Msg(b).type = "KEY_TEST_ACK" => k \in confirmed["responder"]
      BY <1>3, <3>1, HeadSealed
    <3>3. k \in LmkTypes /\ k.ctx = PairContext
      BY <3>2 DEF TypeOK, KeyInv, DerivedKeys
    <3>4. Transcript(k) \in Pairs
      BY <3>2, TwoBoards DEF DerivedAccepted, Pairs
    <3>5. k \in [gx : Boots, gy : Boots,
                 ctx : {BuildExporterContext("initiator", "responder", 1)},
                 flipped : BOOLEAN]
      BY <3>3, <3>4, Occurring
    <3>6. \A c \in Boards : k \in derived[c]
      BY <3>2, TwoBoards
    <3> HIDE DEF k
    <3>7. confirmed' = [confirmed EXCEPT ![b] = @ \cup {k}]
      BY <1>3, <2>2 DEF k
    <3>8. CASE k \in confirmed[b]
      <4>1. confirmed' = confirmed
        BY <1>1, <3>7, <3>8
      <4> QED
        BY <1>2, <4>1 DEF Confirmation!vars
    <3>9. CASE k \notin confirmed[b]
      <4>1. Confirmation!Confirm(b, k)
        BY <1>2, <1>3, <3>2, <3>6, <3>7, <3>9
           DEF Confirmation!Confirm, Confirmation!Sides, Boards, Roles
      <4> QED
        BY <3>5, <4>1 DEF Confirmation!Next, Confirmation!Sides, Boards, Roles
    <3> QED
      BY <3>8, <3>9
  <2> QED
    BY <2>1, <2>2
<1>4. CASE ProcessKeyTest
  BY <1>3, <1>4, TwoBoards DEF ProcessKeyTest, Handling, Record
<1>5. CASE ProcessKeyTestAck
  BY <1>3, <1>5, TwoBoards DEF ProcessKeyTestAck, Handling, Record
<1> QED
  BY <1>4, <1>5

\* What the boards log about transcripts and keys happens in the order that
\* KeyConfirmation promises.
THEOREM ImplementsConfirmation == Spec => ConfirmationOrder
<1>1. Init => Confirmation!Init
  BY DEF Init, Confirmation!Init, Confirmation!Sides, Boards, Roles
<1>2. /\ TypeOK /\ CallInv /\ KeyInv /\ ConfirmationInv
      /\ TypeOK' /\ ConfirmationInv' /\ [Next]_vars
      => [Confirmation!Next]_Confirmation!vars
  <2> SUFFICES ASSUME TypeOK, CallInv, KeyInv, ConfirmationInv, TypeOK',
                      ConfirmationInv', [Next]_vars
               PROVE  Confirmation!Next \/ UNCHANGED Confirmation!vars
    OBVIOUS
  <2>1. PairInv /\ AckInv /\ DerivedAccepted /\ DerivedAccepted'
    BY DEF ConfirmationInv
  <2>2. CASE UNCHANGED <<accepted, derived, confirmed>>
    BY <2>2 DEF Confirmation!vars
  <2> QED
    BY <2>1, <2>2, HistorySteps, RefineAccept, RefineDerive, RefineConfirm, TwoBoards
<1> QED
  BY <1>1, <1>2, TranscriptsCorrect, PTL DEF Spec, ConfirmationOrder, Confirmation!Spec
=============================================================================
