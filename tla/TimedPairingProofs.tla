------------------------- MODULE TimedPairingProofs -------------------------
(***************************************************************************)
(* The three delays do what their comments in device_config.h say, for all *)
(* delays and bounds that meet DelayAssumption: the responder changes its  *)
(* key when the ACK has left and the initiator tests the key when the      *)
(* responder has it, over any number of resets; and where boards boot once *)
(* TimedPairing implements Pairing with Timely = TRUE.                     *)
(***************************************************************************)
EXTENDS TimedPairing, ConfirmationProofs

-----------------------------------------------------------------------------
(***************************************************************************)
(* The inductive invariant.  The first part speaks of Pairing alone: when  *)
(* the responder goes to sleep its driver has nothing else to send, and    *)
(* the initiator is not asleep over a key of an earlier boot.              *)
(***************************************************************************)

\* What the responder sends; its tests are covered by TestsToSend.
ResponderFrames ==
  \A i \in 1 .. Len(txq["responder"]) :
    LET f == txq["responder"][i] IN
    f.type \in {"M2", "KEY_TEST", "KEY_TEST_ACK"} \/ IsAck(f)

\* Nothing is bound to the responder's key of this boot before its message_2 has
\* left, and nothing it sends precedes that.
ArrivedM2Keys == {f.body.gy : f \in ArrivedM2}
M2First ==
  \A i \in 1 .. Len(txq["responder"]) :
    txq["responder"][i].type = "M2" =>
      /\ i = 1
      /\ boot["responder"] \notin ArrivedM2Keys
      /\ \A p \in accepted["initiator"] : p.gy # boot["responder"]

\* Nor has a responder that waits for message_3 accepted anything with that key.
Unfinished(b) == task[b] # "down" /\ session[b].phase \in {"Empty", "Start", "WaitM3"}
NotYetAccepted ==
  Unfinished("responder") => \A p \in accepted["responder"] : p.gy # boot["responder"]

ResponderInv == ResponderFrames /\ M2First /\ NotYetAccepted

\* The clocks are numbers.
ClockTypes ==
  /\ left \in [Boards -> Nat]
  /\ queued \in [Boards -> Nat]
  /\ ready \in [Boards -> Nat]

\* What is due is not overdue, and a board that sleeps has nothing to do.
Asleep == {"switchDelay", "keyTestDelay"}
ClockBounds ==
  \A b \in Boards :
    /\ task[b] = "switchDelay" => left[b] <= SwitchDelay
    /\ txq[b] # <<>> => queued[b] <= MaxTx
    /\ ready[b] <= MaxRun
    /\ task[b] \in Asleep /\ left[b] > 0 => ready[b] = 0

\* While the responder sleeps its driver has at most the ACK to send, which has
\* been there for as long as the responder has slept.
AckLeaves ==
  task["responder"] = "switchDelay" =>
    /\ Len(txq["responder"]) <= 1
    /\ txq["responder"] # <<>> =>
         left["responder"] + queued["responder"] = SwitchDelay

\* While both sleep, what the responder has slept and is late makes up for what
\* is over of the initiator's delay.
SwitchedFirst ==
  task["initiator"] = "keyTestDelay" /\ task["responder"] = "switchDelay" =>
    left["initiator"] + SwitchDelay + ready["responder"] >= TestDelay + left["responder"]

ClockInv == ClockTypes /\ ClockBounds /\ AckLeaves /\ SwitchedFirst

\* Boards that boot once, with a responder that can create its session.  It comes
\* up before the initiator starts, and stays up.
OneBoot ==
  MaxBoots = 1 /\ \A c \in Builds : c["responder"].cred["responder"] # "unparsable"
UpInTime ==
  /\ build["responder"].cred["responder"] # "unparsable"
  /\ task["responder"] = "down" =>
       /\ boot["responder"] = 0
       /\ task["initiator"] = "loop" /\ ~started["initiator"] =>
            left["initiator"] + MaxSkew >= StartDelay

-----------------------------------------------------------------------------
(* The responder's part. *)

\* When nothing arrives or only what is no message_2, none has arrived.
LEMMA ArrivedM2Kept ==
  /\ NothingArrived => ArrivedM2Keys' \subseteq ArrivedM2Keys
  /\ Arrived("initiator")' = Arrived("initiator") =>
       ArrivedM2Keys' \subseteq ArrivedM2Keys
BY TwoBoards DEF NothingArrived, ArrivedM2Keys, ArrivedM2, Messages

\* What the responder sends stays in order when it sends nothing, or an ACK or a
\* test, and nothing is bound to its key.
LEMMA SentKept ==
  ASSUME TypeOK, ResponderInv, boot'["responder"] = boot["responder"],
         ArrivedM2Keys' \subseteq ArrivedM2Keys,
         accepted'["initiator"] = accepted["initiator"],
         \/ txq'["responder"] = txq["responder"]
         \/ \E f \in Frames :
              /\ txq'["responder"] = Append(txq["responder"], f)
              /\ f.type \in {"KEY_TEST", "KEY_TEST_ACK"} \/ IsAck(f)
  PROVE  ResponderFrames' /\ M2First'
<1> DEFINE q == txq["responder"]
<1>1. q \in Seq(Frames)
  BY TwoBoards DEF TypeOK
<1>2. CASE txq'["responder"] = q
  BY <1>2 DEF ResponderInv, ResponderFrames, M2First, IsAck
<1>3. CASE \E f \in Frames : /\ txq'["responder"] = Append(q, f)
                             /\ f.type \in {"KEY_TEST", "KEY_TEST_ACK"} \/ IsAck(f)
  <2>1. PICK f \in Frames : /\ txq'["responder"] = Append(q, f)
                            /\ f.type \in {"KEY_TEST", "KEY_TEST_ACK"} \/ IsAck(f)
    BY <1>3
  <2>2. \A i \in 1 .. Len(txq'["responder"]) :
          \/ txq'["responder"][i] = f
          \/ i \in 1 .. Len(q) /\ txq'["responder"][i] = q[i]
    BY <1>1, <2>1
  <2>3. f.type # "M2"
    BY <2>1 DEF IsAck
  <2>4. ResponderFrames'
    BY <2>1, <2>2 DEF ResponderInv, ResponderFrames, IsAck
  <2>5. M2First'
    BY <2>2, <2>3 DEF ResponderInv, M2First
  <2> QED
    BY <2>4, <2>5
<1> QED
  BY <1>2, <1>3

\* A responder stays unfinished, or gets finished, without accepting anything.
LEMMA UnfinishedKept ==
  ASSUME ResponderInv, boot'["responder"] = boot["responder"],
         accepted'["responder"] = accepted["responder"],
         Unfinished("responder")' => Unfinished("responder")
  PROVE  NotYetAccepted'
BY DEF ResponderInv, NotYetAccepted

\* A reset.
LEMMA ResponderDown ==
  ASSUME TypeOK, ResponderInv, NEW b \in Boards, PowerDown(b),
         UNCHANGED <<boot, accepted>>
  PROVE  ResponderInv'
<1>1. NothingArrived /\ txq'[b] = <<>>
  BY PowerDownFlight
<1>2. /\ task'[b] = "down"
      /\ \A c \in Boards \ {b} : /\ task'[c] = task[c] /\ session'[c] = session[c]
                                 /\ txq'[c] = txq[c]
  BY DEF TypeOK, PowerDown, Set
<1>3. NotYetAccepted'
  BY <1>2, UnfinishedKept, TwoBoards DEF Unfinished
<1>4. CASE b = "responder"
  <2>1. ResponderFrames' /\ M2First'
    BY <1>1, <1>4 DEF ResponderFrames, M2First
  <2> QED
    BY <1>3, <2>1 DEF ResponderInv
<1>5. CASE b = "initiator"
  <2>1. ResponderFrames' /\ M2First'
    BY <1>1, <1>2, <1>5, TwoBoards, ArrivedM2Kept, SentKept
  <2> QED
    BY <1>3, <2>1 DEF ResponderInv
<1> QED
  BY <1>4, <1>5, TwoBoards

\* Every boot of the responder draws a key nothing is bound to yet.
LEMMA ResponderListen ==
  ASSUME TypeOK, PairInv, Accepted, ResponderInv, NEW b \in Boards, Listen(b)
  PROVE  ResponderInv'
<1>1. /\ task' = [task EXCEPT ![b] = "listening"]
      /\ boot' = [boot EXCEPT ![b] = @ + 1]
      /\ UNCHANGED <<session, rxq, txq, accepted>>
  BY DEF Listen, Set, history
<1>2. NothingArrived
  BY <1>1, FlightKept
<1>3. CASE b = "responder"
  <2>1. txq'[b] = <<>>
    BY <1>1 DEF PairInv, Idle, Listen, EmptySession
  <2>2. ResponderFrames' /\ M2First'
    BY <1>3, <2>1 DEF ResponderFrames, M2First
  <2>3. boot[b] \in Nat /\ boot'[b] = boot[b] + 1
    BY <1>1, PairTypes DEF TypeOK
  <2>4. \A p \in accepted["responder"] : p.gy \in 1 .. boot["responder"]
    BY DEF Accepted, Pairs, PairInv, Ordered
  <2>5. NotYetAccepted'
    BY <1>1, <1>3, <2>3, <2>4 DEF NotYetAccepted
  <2> QED
    BY <2>2, <2>5 DEF ResponderInv
<1>4. CASE b = "initiator"
  <2>1. task'["responder"] = task["responder"] /\ boot'["responder"] = boot["responder"]
    BY <1>1, <1>4, TwoBoards DEF TypeOK
  <2>2. ResponderFrames' /\ M2First'
    BY <1>1, <1>2, <2>1, ArrivedM2Kept, SentKept
  <2>3. NotYetAccepted'
    BY <1>1, <2>1, UnfinishedKept DEF Unfinished
  <2> QED
    BY <2>2, <2>3 DEF ResponderInv
<1> QED
  BY <1>3, <1>4, TwoBoards

\* app_task is created.
LEMMA ResponderApp ==
  ASSUME TypeOK, PairInv, ResponderInv, NEW b \in Boards, StartApp(b), ~PowerDown(b)
  PROVE  ResponderInv'
<1>1. /\ task[b] = "listening"
      /\ UNCHANGED <<boot, rxq, txq, accepted>>
      /\ \A c \in Boards \ {b} : task'[c] = task[c] /\ session'[c] = session[c]
  BY StartAppFacts DEF history
<1>2. session[b].phase = "Empty"
  BY <1>1 DEF PairInv, Idle, EmptySession
<1>3. NothingArrived
  BY <1>1, FlightKept
<1>4. ResponderFrames' /\ M2First'
  BY <1>1, <1>3, ArrivedM2Kept, SentKept
<1>5. NotYetAccepted'
  BY <1>1, <1>2, UnfinishedKept, TwoBoards DEF Unfinished
<1> QED
  BY <1>4, <1>5 DEF ResponderInv

\* A frame leaves, or a stray frame arrives.
LEMMA ResponderAir ==
  ASSUME TypeOK, ResponderInv, NEW b \in Boards,
         Transmit(b) \/ (\E f \in Strays : StrayArrives(b, f))
  PROVE  ResponderInv'
<1>1. UNCHANGED <<boot, task, session, accepted>>
  BY DEF Transmit, StrayArrives, history
<1>2. NotYetAccepted'
  BY <1>1, UnfinishedKept DEF Unfinished
<1>3. CASE \E f \in Strays : StrayArrives(b, f)
  <2>1. PICK f \in Strays : StrayArrives(b, f)
    BY <1>3
  <2>2. /\ f \notin Messages(Arrived(b)', "M2", "m2")
        /\ Arrived(b)' \subseteq Arrived(b) \cup {f}
        /\ \A c \in Boards \ {b} : Arrived(c)' = Arrived(c)
    BY <2>1, StrayFlight
  <2>3. ArrivedM2' \subseteq ArrivedM2
    BY <2>2, TwoBoards DEF ArrivedM2, Messages
  <2>4. ArrivedM2Keys' \subseteq ArrivedM2Keys
    BY <2>3 DEF ArrivedM2Keys
  <2>5. txq' = txq
    BY <2>1 DEF StrayArrives
  <2> QED
    BY <1>1, <1>2, <2>4, <2>5, SentKept DEF ResponderInv
<1>4. CASE Transmit(b) /\ b = "initiator"
  <2>1. txq'["responder"] = txq["responder"] /\ Arrived(b)' = Arrived(b)
    BY <1>4, TransmitFlight, TwoBoards
  <2> QED
    BY <1>1, <1>2, <1>4, <2>1, ArrivedM2Kept, SentKept DEF ResponderInv
<1>5. CASE Transmit(b) /\ b = "responder"
  <2> DEFINE q == txq[b]
  <2>1. /\ q \in Seq(Frames) /\ q # <<>> /\ txq'[b] = Tail(q)
        /\ Arrived("initiator")' \subseteq Arrived("initiator") \cup {q[1]}
    BY <1>5, TransmitFlight, TwoBoards DEF TypeOK
  <2>2. \A i \in 1 .. Len(Tail(q)) :
          /\ i \in Nat /\ i >= 1 /\ i + 1 \in 1 .. Len(q) /\ Tail(q)[i] = q[i + 1]
    BY <2>1, TailFacts
  <2>3. \A i \in 1 .. Len(Tail(q)) : Tail(q)[i].type # "M2"
    <3>1. \A i \in 1 .. Len(q) : q[i].type = "M2" => i = 1
      BY <1>5 DEF ResponderInv, M2First
    <3>2. \A i \in 1 .. Len(Tail(q)) : i + 1 # 1
      BY <2>2
    <3> QED
      BY <2>2, <3>1, <3>2
  <2>4. M2First'
    BY <1>5, <2>1, <2>3 DEF M2First
  <2>5. ResponderFrames'
    BY <1>5, <2>1, <2>2 DEF ResponderInv, ResponderFrames, IsAck
  <2> QED
    BY <1>2, <2>4, <2>5 DEF ResponderInv
<1> QED
  BY <1>3, <1>4, <1>5, TwoBoards

\* The steps that install and test keys, drop a frame or give up.
LEMMA ResponderQuiet == ASSUME TypeOK, ResponderInv, Quiet PROVE ResponderInv'
<1>1. UNCHANGED <<boot, session, accepted>> /\ NothingArrived
  BY DEF Quiet
<1>2. task'["responder"] # "down" => task["responder"] # "down"
  BY TwoBoards DEF Quiet, Running
<1>3. NotYetAccepted'
  BY <1>1, <1>2, UnfinishedKept DEF Unfinished
<1>4. \A type \in {"KEY_TEST", "KEY_TEST_ACK"} :
        Frame(type, Text) \in Frames /\ Frame(type, Text).type = type
  BY FrameType, FixedBodies DEF Types, Frame
<1>5. \/ txq'["responder"] = txq["responder"]
      \/ \E f \in Frames : /\ txq'["responder"] = Append(txq["responder"], f)
                           /\ f.type \in {"KEY_TEST", "KEY_TEST_ACK"}
  <2>1. CASE txq' = txq
    BY <2>1
  <2>2. CASE txq' # txq
    <3>1. PICK b \in Boards, type \in {"KEY_TEST", "KEY_TEST_ACK"} :
            txq' = [txq EXCEPT ![b] = Append(@, Frame(type, Text))]
      BY <2>2 DEF Quiet, Send
    <3>2. CASE b = "responder"
      BY <1>4, <3>1, <3>2, TwoBoards DEF TypeOK
    <3>3. CASE b # "responder"
      BY <3>1, <3>3, TwoBoards DEF TypeOK
    <3> QED
      BY <3>2, <3>3
  <2> QED
    BY <2>1, <2>2
<1>6. ResponderFrames' /\ M2First'
  BY <1>1, <1>5, ArrivedM2Kept, SentKept
<1> QED
  BY <1>3, <1>6 DEF ResponderInv

\* The initiator's start and its message_1 are nothing to the responder.
LEMMA ResponderHandshake ==
  ASSUME TypeOK, CallInv, ResponderInv, NEW prepared, StartHandshake(prepared)
  PROVE  ResponderInv'
<1>1. /\ UNCHANGED <<boot, task, accepted>> /\ NothingArrived
      /\ session'["responder"] = session["responder"]
      /\ txq'["responder"] = txq["responder"]
  BY StartEffect DEF history
<1>2. ResponderFrames' /\ M2First'
  BY <1>1, ArrivedM2Kept, SentKept
<1>3. NotYetAccepted'
  BY <1>1, UnfinishedKept DEF Unfinished
<1> QED
  BY <1>2, <1>3 DEF ResponderInv

\* Message_2 is the first frame of a session, and its key is new to everyone.
LEMMA ResponderM1 ==
  ASSUME TypeOK, CallInv, PairInv, ResponderInv, ProcessM1
  PROVE  ResponderInv'
<1> DEFINE s == session["responder"]
<1>1. /\ task["responder"] = "loop" /\ s.phase = "Start"
      /\ UNCHANGED <<boot, task, accepted>> /\ NothingArrived
  BY M1Effect DEF history
<1>2. txq["responder"] = <<>>
  BY <1>1, TwoBoards DEF PairInv, Idle
<1>3. ArrivedM2Keys' \subseteq ArrivedM2Keys
  BY <1>1, ArrivedM2Kept
<1>4. \A p \in Pairs : p.gy # boot["responder"]
  BY <1>1 DEF PairInv, Current
<1>5. \A p \in accepted["initiator"] : p.gy # boot["responder"]
  BY <1>4 DEF Pairs
<1>6. boot["responder"] \notin ArrivedM2Keys
  <2>1. \A f \in ArrivedM2 : Transcript(f.body) \in Pairs
    BY DEF ArrivedM2, Messages, M2s, InFlight, Pairs
  <2>2. \A f \in ArrivedM2 : Transcript(f.body).gy = f.body.gy
    BY DEF Transcript
  <2> QED
    BY <1>4, <2>1, <2>2 DEF ArrivedM2Keys
<1>7. \/ txq' = txq
      \/ \E body : txq' = [txq EXCEPT !["responder"] = Append(@, Frame("M2", body))]
  BY DEF ProcessM1, CallAndAnswer, Send
<1>8. \/ txq'["responder"] = <<>>
      \/ \E body : txq'["responder"] = <<Frame("M2", body)>>
  <2>1. CASE txq' = txq
    BY <1>2, <2>1
  <2>2. CASE txq' # txq
    <3>1. PICK body : txq' = [txq EXCEPT !["responder"] = Append(@, Frame("M2", body))]
      BY <1>7, <2>2
    <3>2. txq'["responder"] = Append(<<>>, Frame("M2", body))
      BY <1>2, <3>1, TwoBoards DEF TypeOK
    <3> QED
      BY <3>2
  <2> QED
    BY <2>1, <2>2
<1>9. \A i \in 1 .. Len(txq'["responder"]) : i = 1 /\ txq'["responder"][i].type = "M2"
  <2>1. CASE txq'["responder"] = <<>>
    <3>1. Len(txq'["responder"]) = 0
      BY <2>1
    <3> QED
      BY <3>1
  <2>2. CASE \E body : txq'["responder"] = <<Frame("M2", body)>>
    <3>1. PICK f : txq'["responder"] = <<f>> /\ f.type = "M2"
      BY <2>2 DEF Frame
    <3>2. Len(txq'["responder"]) = 1 /\ txq'["responder"][1] = f
      BY <3>1
    <3> QED
      BY <3>1, <3>2
  <2> QED
    BY <1>8, <2>1, <2>2
<1>10. ResponderFrames' /\ M2First'
  BY <1>1, <1>3, <1>5, <1>6, <1>9 DEF ResponderFrames, M2First
<1>11. NotYetAccepted'
  BY <1>1, UnfinishedKept DEF Unfinished
<1> QED
  BY <1>10, <1>11 DEF ResponderInv

\* What the initiator accepts has arrived, so it is no message_2 still to be sent.
LEMMA ResponderM2 ==
  ASSUME TypeOK, CallInv, ResponderInv, ProcessM2
  PROVE  ResponderInv'
<1> DEFINE m == Msg("initiator")
<1>1. /\ UNCHANGED <<boot, task>> /\ NothingArrived
      /\ session'["responder"] = session["responder"]
      /\ txq'["responder"] = txq["responder"]
      /\ accepted'["responder"] = accepted["responder"]
  BY M2Effect
<1>2. \/ accepted' = accepted
      \/ /\ m \in M2s
         /\ accepted'["initiator"] = accepted["initiator"] \cup {Transcript(m.body)}
  BY M2Effect
<1>5. NotYetAccepted'
  BY <1>1, UnfinishedKept DEF Unfinished
<1>3. CASE accepted' = accepted
  BY <1>1, <1>3, <1>5, ArrivedM2Kept, SentKept DEF ResponderInv
<1>4. CASE /\ m \in M2s
           /\ accepted'["initiator"] = accepted["initiator"] \cup {Transcript(m.body)}
  <2>1. m \in Arrived("initiator")
    BY TwoBoards, TakenFlight DEF ProcessM2, Handling
  <2>2. m.body.gy \in ArrivedM2Keys
    BY <1>4, <2>1 DEF M2s, Messages, ArrivedM2, ArrivedM2Keys
  <2>3. Transcript(m.body).gy = m.body.gy
    BY DEF Transcript
  <2>4. ArrivedM2Keys' \subseteq ArrivedM2Keys
    BY <1>1, ArrivedM2Kept
  <2>5. M2First'
    BY <1>1, <1>4, <2>2, <2>3, <2>4 DEF ResponderInv, M2First
  <2>6. ResponderFrames'
    BY <1>1 DEF ResponderInv, ResponderFrames, IsAck
  <2> QED
    BY <1>5, <2>5, <2>6 DEF ResponderInv
<1> QED
  BY <1>2, <1>3, <1>4

\* What accepting message_3 adds to the transmit queue.
LEMMA M3Sends ==
  ASSUME TypeOK, ProcessM3
  PROVE  /\ task'["responder"] # "switchDelay" => txq'["responder"] = txq["responder"]
         /\ task'["responder"] = "switchDelay" =>
              txq'["responder"] = Append(txq["responder"], Frame("ACK", Text))
<1> DEFINE r == ProcessMessage3(session["responder"], Msg("responder").body,
                                build["responder"].cred["initiator"])
<1>1. /\ task' = Set(task, "responder", IF r.status = "OK" THEN "switchDelay" ELSE "loop")
      /\ CallAndAnswer("responder", r, Frame("ACK", Text), state["responder"])
  BY DEF ProcessM3
<1> HIDE DEF r
<1>2. task'["responder"] = "switchDelay" <=> r.status = "OK"
  BY <1>1, TwoBoards DEF TypeOK, Set
<1>3. IF r.status = "OK" THEN Send("responder", Frame("ACK", Text)) ELSE UNCHANGED txq
  BY <1>1 DEF CallAndAnswer
<1> QED
  BY <1>2, <1>3, TwoBoards DEF TypeOK, Send

\* The responder accepts message_3, and is finished, or gives up.
LEMMA ResponderM3 ==
  ASSUME TypeOK, CallInv, ResponderInv, ProcessM3
  PROVE  ResponderInv'
<1>1. /\ task["responder"] = "loop"
      /\ UNCHANGED boot /\ NothingArrived
      /\ accepted'["initiator"] = accepted["initiator"]
      /\ session["responder"].phase = "WaitM3"
      /\ accepted' = accepted \/ session'["responder"].phase = "Done"
  BY M3Effect DEF Moved
<1>2. Frame("ACK", Text) \in Frames /\ IsAck(Frame("ACK", Text))
  BY FrameType, FixedBodies DEF Types, Frame, IsAck
<1>3. ResponderFrames' /\ M2First'
  BY <1>1, <1>2, M3Sends, ArrivedM2Kept, SentKept
<1>4. NotYetAccepted'
  <2>1. CASE session'["responder"].phase = "Done"
    BY <2>1 DEF NotYetAccepted, Unfinished
  <2>2. CASE accepted' = accepted
    BY <1>1, <2>2, UnfinishedKept DEF Unfinished
  <2> QED
    BY <1>1, <2>1, <2>2
<1> QED
  BY <1>3, <1>4 DEF ResponderInv

\* Every action keeps the responder's part.
LEMMA ResponderStep ==
  TypeOK /\ CallInv /\ PairInv /\ AckInv /\ ResponderInv /\ [Next]_vars => ResponderInv'
<1> SUFFICES ASSUME TypeOK, CallInv, PairInv, AckInv, ResponderInv, [Next]_vars
             PROVE  ResponderInv'
  OBVIOUS
<1>1. ASSUME NEW b \in Boards, Listen(b) PROVE ResponderInv'
  BY <1>1, ResponderListen DEF AckInv
<1>2. ASSUME NEW b \in Boards, StartApp(b) PROVE ResponderInv'
  <2>1. UNCHANGED <<boot, accepted>>
    BY <1>2 DEF StartApp, history
  <2> QED
    BY <1>2, <2>1, ResponderDown, ResponderApp
<1>3. ASSUME NEW b \in Boards, Restart(b) PROVE ResponderInv'
  BY <1>3, ResponderDown DEF Restart, history
<1>4. ASSUME NEW b \in Boards,
             Transmit(b) \/ (\E f \in Strays : StrayArrives(b, f))
      PROVE  ResponderInv'
  BY <1>4, ResponderAir
<1>5. ASSUME NEW prepared, StartHandshake(prepared) PROVE ResponderInv'
  BY <1>5, ResponderHandshake
<1>6. ASSUME \/ \E b \in Boards : BadSession(b) \/ Ignore(b)
             \/ \E outcome : InstallAfterDelay(outcome) \/ ProcessAck(outcome)
             \/ SendKeyTest \/ ProcessKeyTest \/ ProcessKeyTestAck
             \/ UNCHANGED vars
      PROVE  ResponderInv'
  BY <1>6, QuietActions, ResponderQuiet
<1> QED
  BY <1>1, <1>2, <1>3, <1>4, <1>5, <1>6, ResponderM1, ResponderM2, ResponderM3 DEF Next

\* When the responder goes to sleep its driver had nothing to send but the ACK, and
\* the initiator does not sleep: its key would be of this transcript, which the
\* responder has not accepted before, or of an earlier key of the responder's,
\* which the initiator cannot have bound later.
LEMMA GoesToSleep ==
  ASSUME TypeOK, CallInv, KeyInv, ConfirmationInv, ResponderInv, CallInv',
         ProcessM3, task'["responder"] = "switchDelay"
  PROVE  /\ txq["responder"] = <<>>
         /\ task["initiator"] # "keyTestDelay"
<1> DEFINE s == session["responder"]
           t == Transcript(s)
<1>1. session'["responder"].phase = "Done"
  BY TwoBoards DEF CallInv, TaskStates, PhaseInStep, PhaseOf
<1>2. /\ task["responder"] = "loop" /\ s.phase = "WaitM3"
      /\ \E m \in M3s : Transcript(m.body) = t
  BY <1>1, M3Effect
<1>3. t \in accepted["initiator"] /\ t.gy = boot["responder"]
  <2>1. s.gy = boot["responder"]
    BY <1>2, TwoBoards DEF ConfirmationInv, PairInv, OwnKey
  <2> QED
    BY <1>2, <2>1 DEF ConfirmationInv, AckInv, M3Accepted, Transcript
<1>4. lmk["responder"] = Plain
  BY <1>2, TwoBoards DEF ConfirmationInv, SessionKey
<1>5. \A i \in 1 .. Len(txq["responder"]) : FALSE
  <2> SUFFICES ASSUME NEW i \in 1 .. Len(txq["responder"]) PROVE FALSE
    OBVIOUS
  <2> DEFINE f == txq["responder"][i]
  <2>1. f.type # "M2"
    BY <1>3 DEF ResponderInv, M2First
  <2>2. f.type \notin {"KEY_TEST", "KEY_TEST_ACK"}
    BY <1>4, TwoBoards DEF KeyInv, TestsToSend
  <2>3. ~IsAck(f)
    BY <1>2 DEF ConfirmationInv, AckInv, AckSent, Sending
  <2> QED
    BY <2>1, <2>2, <2>3 DEF ResponderInv, ResponderFrames
<1>6. txq["responder"] = <<>>
  BY <1>5, TwoBoards DEF TypeOK
<1>7. ASSUME task["initiator"] = "keyTestDelay" PROVE FALSE
  <2> DEFINE u == Transcript(session["initiator"])
  <2>1. lmk["initiator"] # Plain /\ lmk["initiator"] \in derived["initiator"]
    BY <1>7, TwoBoards DEF KeyInv, InstalledKey
  <2>2. session["initiator"].phase = "Done" /\ Transcript(lmk["initiator"]) = u
    BY <2>1, TwoBoards DEF ConfirmationInv, SessionKey
  <2>3. u \in accepted["responder"] /\ u \in accepted["initiator"]
    BY <2>1, <2>2, TwoBoards DEF ConfirmationInv, DerivedAccepted
  <2>4. t \in Pairs /\ u \in Pairs
    BY <1>3, <2>3 DEF Pairs
  <2>5. u.gx = boot["initiator"]
    BY <2>2, TwoBoards DEF ConfirmationInv, PairInv, OwnKey, Transcript
  <2>6. t.gx <= u.gx
    BY <2>4, <2>5, PairTypes DEF ConfirmationInv, PairInv, KeysLeft, Reached
  <2>7. t.gy <= u.gy /\ u.gy \in 1 .. boot["responder"]
    BY <2>4, <2>6 DEF ConfirmationInv, PairInv, Ordered
  <2> HIDE DEF t, u
  <2>8. u.gy = boot["responder"]
    BY <1>3, <2>4, <2>7, PairTypes
  <2>9. Unfinished("responder")
    BY <1>2 DEF Unfinished
  <2> QED
    BY <2>3, <2>8, <2>9 DEF ResponderInv, NotYetAccepted
<1> QED
  BY <1>6, <1>7

-----------------------------------------------------------------------------
(* The clocks. *)

\* Message_3 is all that sends the responder to sleep.
LEMMA WhatSendsToSleep ==
  ASSUME TypeOK, Next, task["responder"] # "switchDelay",
         task'["responder"] = "switchDelay"
  PROVE  ProcessM3
<1>1. ASSUME NEW b \in Boards, Listen(b) \/ StartApp(b) \/ Restart(b) PROVE FALSE
  <2>1. \/ task' = task
        \/ \E t \in {"down", "listening", "halted", "loop"} : task' = [task EXCEPT ![b] = t]
    BY <1>1 DEF Listen, StartApp, Restart, PowerDown, Set
  <2> QED
    BY <2>1, TwoBoards DEF TypeOK
<1>2. ASSUME NEW b \in Boards, Transmit(b) \/ BadSession(b) \/ Ignore(b)
                               \/ (\E f \in Strays : StrayArrives(b, f))
      PROVE  FALSE
  BY <1>2 DEF Transmit, BadSession, Ignore, StrayArrives
<1>3. ASSUME \/ \E prepared : StartHandshake(prepared)
             \/ ProcessM1 \/ ProcessM2 \/ ProcessKeyTest \/ ProcessKeyTestAck
      PROVE  FALSE
  BY <1>3 DEF StartHandshake, ProcessM1, ProcessM2, ProcessKeyTest, ProcessKeyTestAck
<1>4. ASSUME NEW outcome, InstallAfterDelay(outcome) \/ ProcessAck(outcome) \/ SendKeyTest
      PROVE  FALSE
  BY <1>4, TwoBoards DEF InstallAfterDelay, ProcessAck, SendKeyTest, Set, TypeOK
<1> QED
  BY <1>1, <1>2, <1>3, <1>4 DEF Next

\* Delivering a packet takes nothing off a queue.
LEMMA DeliverGrows ==
  ASSUME NEW q \in Seq(Packets), NEW p \in Packets, NEW n
  PROVE  Len(Deliver(q, p, n)) >= Len(q)
<1>1. \A s \in Seq(Packets) : /\ Push(s, p) \in Seq(Packets)
                              /\ Len(s) \in Nat /\ Len(Push(s, p)) \in Nat
                              /\ Len(Push(s, p)) >= Len(s)
  BY PairingAssumption DEF Push
<1>2. Len(Push(q, p)) >= Len(q) /\ Len(Push(Push(q, p), p)) >= Len(q) /\ Len(q) \in Nat
  BY <1>1
<1> QED
  BY <1>2 DEF Deliver

\* While it sleeps its driver at most sends, and nobody empties its receive queue.
LEMMA WhileAsleep ==
  ASSUME TypeOK, Next, task["responder"] = "switchDelay",
         task'["responder"] = "switchDelay"
  PROVE  /\ \/ txq'["responder"] = txq["responder"]
            \/ txq["responder"] # <<>> /\ txq'["responder"] = Tail(txq["responder"])
         /\ started'["responder"] = started["responder"]
         /\ Len(rxq'["responder"]) >= Len(rxq["responder"])
<1> DEFINE Kept == /\ txq'["responder"] = txq["responder"]
                   /\ started'["responder"] = started["responder"]
                   /\ rxq'["responder"] = rxq["responder"]
<1>0. /\ \A b \in Boards : rxq[b] \in Seq(Packets) /\ Len(rxq[b]) \in Nat
      /\ Kept => Len(rxq'["responder"]) >= Len(rxq["responder"])
  <2>1. \A b \in Boards : rxq[b] \in Seq(Packets)
    BY DEF TypeOK
  <2> QED
    BY <2>1, TwoBoards
<1>1. ASSUME NEW b \in Boards, Listen(b) PROVE Kept
  BY <1>1 DEF Listen
<1>2. ASSUME NEW b \in Boards, StartApp(b) \/ Restart(b) PROVE Kept
  <2>1. b # "responder" \/ task'[b] # "switchDelay"
    BY <1>2 DEF StartApp, Restart, PowerDown, Set, TypeOK
  <2>2. b # "responder"
    BY <2>1
  <2> QED
    BY <1>2, <2>2, TwoBoards DEF StartApp, Restart, PowerDown, Set, TypeOK
<1>3. ASSUME NEW b \in Boards, BadSession(b) \/ Ignore(b) PROVE Kept
  <2>1. b # "responder"
    BY <1>3 DEF BadSession, Ignore, Received
  <2> QED
    BY <1>3, <2>1, TwoBoards DEF BadSession, Ignore, Taken, TypeOK
<1>4. ASSUME \/ \E prepared : StartHandshake(prepared)
             \/ ProcessM2
             \/ \E outcome : ProcessAck(outcome)
             \/ SendKeyTest \/ ProcessKeyTestAck
      PROVE  Kept
  <2>1. UNCHANGED rxq \/ Taken("initiator")
    BY <1>4 DEF StartHandshake, ProcessM2, ProcessAck, SendKeyTest, ProcessKeyTestAck
  <2>2. started' = started \/ started' = Set(started, "initiator", TRUE)
    BY <1>4 DEF StartHandshake, ProcessM2, ProcessAck, SendKeyTest, ProcessKeyTestAck
  <2>3. UNCHANGED txq \/ (\E f : Send("initiator", f))
    BY <1>4 DEF StartHandshake, ProcessM2, ProcessAck, SendKeyTest, ProcessKeyTestAck,
                CallAndAnswer
  <2> QED
    BY <2>1, <2>2, <2>3, TwoBoards DEF Taken, Set, Send, TypeOK
<1>5. ASSUME \/ ProcessM1 \/ ProcessM3 \/ ProcessKeyTest
             \/ \E outcome : InstallAfterDelay(outcome)
      PROVE  FALSE
  BY <1>5, TwoBoards DEF ProcessM1, ProcessM3, ProcessKeyTest, InstallAfterDelay, Handling,
                         Received, Set, TypeOK
<1>6. ASSUME NEW b \in Boards, Transmit(b)
      PROVE  /\ \/ txq'["responder"] = txq["responder"]
                \/ txq["responder"] # <<>> /\ txq'["responder"] = Tail(txq["responder"])
             /\ started' = started
             /\ Len(rxq'["responder"]) >= Len(rxq["responder"])
  <2>1. /\ started' = started /\ txq[b] # <<>>
        /\ txq' = [txq EXCEPT ![b] = Tail(@)]
        /\ \E n : rxq' = [rxq EXCEPT ![Other(b)] =
                    Deliver(@, [frame |-> Head(txq[b]), key |-> lmk[b]], n)]
    BY <1>6 DEF Transmit
  <2>2. [frame |-> Head(txq[b]), key |-> lmk[b]] \in Packets
    <3>1. Head(txq[b]) \in Frames
      BY <2>1, TailFacts DEF TypeOK
    <3> QED
      BY <3>1 DEF Packets, TypeOK
  <2>3. Len(rxq'["responder"]) >= Len(rxq["responder"])
    <3>1. CASE b = "responder"
      BY <1>0, <2>1, <3>1, TwoBoards DEF TypeOK
    <3>2. CASE b = "initiator"
      <4>1. PICK n : rxq'["responder"] = Deliver(rxq["responder"],
                       [frame |-> Head(txq[b]), key |-> lmk[b]], n)
        BY <2>1, <3>2, TwoBoards DEF TypeOK
      <4> QED
        BY <1>0, <2>2, <4>1, TwoBoards, DeliverGrows
    <3> QED
      BY <3>1, <3>2, TwoBoards
  <2> QED
    BY <2>1, <2>3, TwoBoards DEF TypeOK
<1>7. ASSUME NEW b \in Boards, NEW f \in Strays, StrayArrives(b, f)
      PROVE  /\ UNCHANGED <<txq, started>>
             /\ Len(rxq'["responder"]) >= Len(rxq["responder"])
  <2>1. /\ UNCHANGED <<txq, started>>
        /\ rxq' = [rxq EXCEPT ![b] = Push(@, [frame |-> f, key |-> Plain])]
    BY <1>7 DEF StrayArrives
  <2>2. [frame |-> f, key |-> Plain] \in Packets
    BY StraysAssumption, PlainType DEF Packets
  <2>3. Len(rxq'["responder"]) >= Len(rxq["responder"])
    <3>1. CASE b = "responder"
      <4>1. rxq'["responder"] = Deliver(rxq["responder"], [frame |-> f, key |-> Plain], 1)
        BY <2>1, <3>1, TwoBoards DEF TypeOK, Deliver
      <4> QED
        BY <1>0, <2>2, <4>1, TwoBoards, DeliverGrows
    <3>2. CASE b # "responder"
      BY <1>0, <2>1, <3>2, TwoBoards DEF TypeOK
    <3> QED
      BY <3>1, <3>2
  <2> QED
    BY <2>1, <2>3
<1> QED
  BY <1>0, <1>1, <1>2, <1>3, <1>4, <1>5, <1>6, <1>7 DEF Next

\* What DelayAssumption says, number by number.
LEMMA Delays ==
  /\ StartDelay \in Nat /\ SwitchDelay \in Nat /\ TestDelay \in Nat
  /\ MaxTx \in Nat /\ MaxRun \in Nat /\ MaxSkew \in Nat
  /\ MaxTx < SwitchDelay /\ SwitchDelay + MaxRun < TestDelay /\ MaxSkew < StartDelay
BY DelayAssumption

\* What a step of Pairing does to the clocks of one board.
LEMMA ActClocks ==
  ASSUME Act, NEW b \in Boards
  PROVE  /\ task'[b] = task[b] => left'[b] = left[b]
         /\ task'[b] # task[b] =>
              /\ left'[b] \in Nat
              /\ task'[b] = "switchDelay" => left'[b] = SwitchDelay
              /\ task'[b] = "keyTestDelay" => left'[b] = TestDelay
              /\ b = "initiator" /\ task'[b] = "loop" /\ ~started'[b] =>
                   left'[b] = StartDelay
         /\ txq[b] = <<>> => queued'[b] = 0
         /\ queued'[b] \in {0, queued[b]}
         /\ txq'[b] = txq[b] /\ txq[b] # <<>> /\ Len(txq[b]) \in Nat =>
              queued'[b] = queued[b]
         /\ ready'[b] = 0 \/ (ready'[b] = ready[b] /\ task'[b] = task[b])
         /\ task'[b] = task[b] /\ started'[b] = started[b] /\ Len(rxq'[b]) >= Len(rxq[b])
              /\ Len(rxq[b]) \in Nat /\ Len(rxq'[b]) \in Nat => ready'[b] = ready[b]
<1>0. /\ task'[b] = task[b] => left'[b] = left[b]
      /\ task'[b] # task[b] =>
           left'[b] = DelayAt(task'[b], b = "initiator" /\ ~started'[b])
  BY DEF Act
<1>1. /\ queued'[b] = IF txq[b] = <<>> \/ Len(txq'[b]) < Len(txq[b])
                       THEN 0 ELSE queued[b]
      /\ ready'[b] = IF task'[b] # task[b] \/ started'[b] # started[b]
                        \/ Len(rxq'[b]) < Len(rxq[b])
                     THEN 0 ELSE ready[b]
  BY DEF Act
<1>2. Len(rxq'[b]) >= Len(rxq[b]) /\ Len(rxq[b]) \in Nat /\ Len(rxq'[b]) \in Nat =>
        ~(Len(rxq'[b]) < Len(rxq[b]))
  OBVIOUS
<1>3. txq'[b] = txq[b] /\ Len(txq[b]) \in Nat => ~(Len(txq'[b]) < Len(txq[b]))
  OBVIOUS
<1>4. task'[b] # task[b] =>
        /\ left'[b] \in Nat
        /\ task'[b] = "switchDelay" => left'[b] = SwitchDelay
        /\ task'[b] = "keyTestDelay" => left'[b] = TestDelay
        /\ b = "initiator" /\ task'[b] = "loop" /\ ~started'[b] =>
             left'[b] = StartDelay
  BY <1>0, Delays DEF DelayAt
<1> QED
  BY <1>0, <1>1, <1>2, <1>3, <1>4

\* What the passing of one tick does to them.
LEMMA TickClocks ==
  ASSUME Tick, ClockTypes, NEW b \in Boards
  PROVE  /\ left[b] > 0 => left'[b] = left[b] - 1
         /\ left[b] = 0 => left'[b] = 0
         /\ txq[b] # <<>> => queued'[b] = queued[b] + 1 /\ queued[b] < MaxTx
         /\ txq[b] = <<>> => queued'[b] = 0
         /\ CanRun(b) => ready'[b] = ready[b] + 1 /\ ready[b] < MaxRun
         /\ ~CanRun(b) => ready'[b] = 0
BY DEF Tick, InTime, ClockTypes

LEMMA ClockNumbers ==
  ASSUME ClockTypes, NEW b \in Boards
  PROVE  left[b] \in Nat /\ queued[b] \in Nat /\ ready[b] \in Nat
BY DEF ClockTypes

\* The clocks stay numbers.
LEMMA ClockTypesKept == ClockTypes /\ TimedNext => ClockTypes'
<1>1. ASSUME ClockTypes, Act PROVE ClockTypes'
  <2>1. \A b \in Boards : left'[b] \in Nat /\ queued'[b] \in Nat /\ ready'[b] \in Nat
    BY <1>1, ActClocks, ClockNumbers
  <2>2. /\ left' = [b \in Boards |-> left'[b]]
        /\ queued' = [b \in Boards |-> queued'[b]]
        /\ ready' = [b \in Boards |-> ready'[b]]
    BY <1>1 DEF Act
  <2> QED
    BY <2>1, <2>2 DEF ClockTypes
<1>2. ASSUME ClockTypes, Tick PROVE ClockTypes'
  <2>1. \A b \in Boards : left'[b] \in Nat /\ queued'[b] \in Nat /\ ready'[b] \in Nat
    BY <1>2, TickClocks, ClockNumbers
  <2>2. /\ left' = [b \in Boards |-> left'[b]]
        /\ queued' = [b \in Boards |-> queued'[b]]
        /\ ready' = [b \in Boards |-> ready'[b]]
    BY <1>2 DEF Tick
  <2> QED
    BY <2>1, <2>2 DEF ClockTypes
<1> QED
  BY <1>1, <1>2 DEF TimedNext

\* Bounds hold, since no delay is set longer than it is and no tick passes one.
LEMMA ClockBoundsKept == ClockTypes /\ ClockBounds /\ TimedNext => ClockBounds'
<1> SUFFICES ASSUME ClockTypes, ClockBounds, TimedNext, NEW b \in Boards
             PROVE  /\ task'[b] = "switchDelay" => left'[b] <= SwitchDelay
                    /\ txq'[b] # <<>> => queued'[b] <= MaxTx
                    /\ ready'[b] <= MaxRun
                    /\ task'[b] \in Asleep /\ left'[b] > 0 => ready'[b] = 0
  BY DEF ClockBounds
<1>1. /\ left[b] \in Nat /\ queued[b] \in Nat /\ ready[b] \in Nat
      /\ task[b] = "switchDelay" => left[b] <= SwitchDelay
      /\ txq[b] # <<>> => queued[b] <= MaxTx
      /\ ready[b] <= MaxRun
      /\ task[b] \in Asleep /\ left[b] > 0 => ready[b] = 0
  BY ClockNumbers DEF ClockBounds
<1>2. CASE Act
  BY <1>1, <1>2, ActClocks, Delays
<1>3. CASE Tick
  <2>1. task' = task /\ txq' = txq
    BY <1>3 DEF Tick, vars, ram
  <2>2. task[b] \in Asleep => (CanRun(b) <=> left[b] = 0)
    BY <1>1 DEF CanRun, Asleep
  <2>3. /\ left[b] > 0 => left'[b] = left[b] - 1
        /\ left[b] = 0 => left'[b] = 0
        /\ txq[b] # <<>> => queued'[b] = queued[b] + 1 /\ queued[b] < MaxTx
        /\ CanRun(b) => ready'[b] = ready[b] + 1 /\ ready[b] < MaxRun
        /\ ~CanRun(b) => ready'[b] = 0
    BY <1>3, TickClocks
  <2> QED
    BY <1>1, <2>1, <2>2, <2>3, Delays
<1> QED
  BY <1>2, <1>3 DEF TimedNext

\* Nothing is behind the only frame of a queue.
LEMMA LastTaken ==
  ASSUME NEW S, NEW q \in Seq(S), q # <<>>, Len(q) <= 1
  PROVE  Tail(q) = <<>>
<1> DEFINE t == Tail(q)
<1>1. Len(q) \in Nat /\ Len(q) # 0
  OBVIOUS
<1>2. t \in Seq(S) /\ Len(t) = Len(q) - 1
  BY <1>1
<1>3. Len(t) = 0
  BY <1>1, <1>2
<1> HIDE DEF t
<1>4. t = <<>>
  BY <1>2, <1>3
<1> QED
  BY <1>4 DEF t

\* The ACK is on its way for as long as the responder sleeps.
LEMMA AckLeavesKept ==
  ASSUME TypeOK, CallInv, KeyInv, ConfirmationInv, ResponderInv, CallInv',
         ClockInv, TimedNext
  PROVE  AckLeaves'
<1> DEFINE b == "responder"
<1>0. b \in Boards /\ txq[b] \in Seq(Frames)
  BY TwoBoards DEF TypeOK
<1>1. left[b] \in Nat /\ queued[b] \in Nat
  BY <1>0, ClockNumbers DEF ClockInv
<1>2. CASE Tick
  <2>1. task' = task /\ txq' = txq
    BY <1>2 DEF Tick, vars, ram
  <2>2. /\ left[b] > 0 => left'[b] = left[b] - 1
        /\ txq[b] # <<>> => queued'[b] = queued[b] + 1 /\ queued[b] < MaxTx
    BY <1>0, <1>2, TickClocks DEF ClockInv
  <2>3. CASE task[b] = "switchDelay" /\ txq[b] # <<>>
    BY <1>1, <2>1, <2>2, <2>3, Delays DEF ClockInv, AckLeaves
  <2>4. CASE ~(task[b] = "switchDelay" /\ txq[b] # <<>>)
    BY <2>1, <2>4 DEF ClockInv, AckLeaves
  <2> QED
    BY <2>3, <2>4
<1>3. CASE Act /\ task'[b] = "switchDelay" /\ task[b] = "switchDelay"
  <2>1. Next
    BY <1>3 DEF Act
  <2>2. CASE txq'[b] = txq[b]
    <3>1. Len(txq[b]) \in Nat
      BY <1>0
    <3> QED
      BY <1>0, <1>3, <2>2, <3>1, ActClocks DEF ClockInv, AckLeaves
  <2>3. CASE txq[b] # <<>> /\ txq'[b] = Tail(txq[b])
    <3>1. Len(txq[b]) <= 1
      BY <1>3 DEF ClockInv, AckLeaves
    <3>2. Tail(txq[b]) = <<>>
      BY <1>0, <2>3, <3>1, LastTaken
    <3>3. txq'[b] = <<>>
      BY <2>3, <3>2
    <3>4. Len(txq'[b]) = 0
      BY <3>3
    <3> QED
      BY <3>3, <3>4 DEF AckLeaves
  <2> QED
    BY <1>3, <2>1, <2>2, <2>3, WhileAsleep
<1>4. CASE Act /\ task'[b] = "switchDelay" /\ task[b] # "switchDelay"
  <2>1. ProcessM3
    BY <1>4, WhatSendsToSleep DEF Act
  <2>2. txq[b] = <<>>
    BY <1>4, <2>1, GoesToSleep
  <2>3. txq'[b] = <<Frame("ACK", Text)>>
    BY <1>4, <2>1, <2>2, M3Sends
  <2>4. Len(txq'[b]) = 1
    BY <2>3
  <2>5. queued'[b] = 0 /\ left'[b] = SwitchDelay
    BY <1>0, <1>4, <2>2, ActClocks
  <2> QED
    BY <2>4, <2>5, Delays DEF AckLeaves
<1>5. CASE task'[b] # "switchDelay"
  BY <1>5 DEF AckLeaves
<1> QED
  BY <1>2, <1>3, <1>4, <1>5 DEF TimedNext

\* The initiator begins to sleep when the responder does already.
LEMMA SwitchedFirstKept ==
  ASSUME TypeOK, TypeOK', CallInv, KeyInv, ConfirmationInv, ResponderInv, CallInv',
         ClockInv, TimedNext
  PROVE  SwitchedFirst'
<1> DEFINE i == "initiator"
           r == "responder"
<1> SUFFICES ASSUME task'[i] = "keyTestDelay", task'[r] = "switchDelay"
             PROVE  left'[i] + SwitchDelay + ready'[r] >= TestDelay + left'[r]
  BY DEF SwitchedFirst
<1>0. i \in Boards /\ r \in Boards /\ i # r
  BY TwoBoards
<1>1. /\ left[i] \in Nat /\ left[r] \in Nat /\ ready[r] \in Nat
      /\ left'[i] \in Nat /\ left'[r] \in Nat /\ ready'[r] \in Nat
  BY <1>0, ClockNumbers, ClockTypesKept DEF ClockInv, ClockTypes
<1>2. CASE Tick
  <2>1. task' = task
    BY <1>2 DEF Tick, vars, ram
  <2>2. left[i] + SwitchDelay + ready[r] >= TestDelay + left[r]
    BY <2>1 DEF ClockInv, SwitchedFirst
  <2>3. CanRun(r) <=> left[r] = 0
    BY <1>1, <2>1 DEF CanRun
  <2>4. /\ left[i] > 0 => left'[i] = left[i] - 1
        /\ left[i] = 0 => left'[i] = 0
        /\ left[r] > 0 => left'[r] = left[r] - 1
        /\ left[r] = 0 => left'[r] = 0
        /\ CanRun(r) => ready'[r] = ready[r] + 1
        /\ ~CanRun(r) => ready'[r] = 0
    BY <1>0, <1>2, TickClocks DEF ClockInv
  <2>5. left[r] > 0 => ready[r] = 0
    BY <1>0, <2>1 DEF ClockInv, ClockBounds, Asleep
  <2> QED
    BY <1>1, <2>2, <2>3, <2>4, <2>5, Delays
<1>3. CASE Act /\ task[r] = "switchDelay"
  <2>1. /\ started'[r] = started[r] /\ Len(rxq'[r]) >= Len(rxq[r])
    BY <1>3, WhileAsleep DEF Act
  <2>2. Len(rxq[r]) \in Nat /\ Len(rxq'[r]) \in Nat
    <3>1. rxq[r] \in Seq(Packets) /\ rxq'[r] \in Seq(Packets)
      BY <1>0 DEF TypeOK
    <3> QED
      BY <3>1
  <2>3. ready'[r] = ready[r] /\ left'[r] = left[r]
    BY <1>0, <1>3, <2>1, <2>2, ActClocks
  <2>4. CASE task[i] = "keyTestDelay"
    <3>1. left'[i] = left[i]
      BY <1>0, <1>3, <2>4, ActClocks
    <3> QED
      BY <1>3, <2>3, <2>4, <3>1 DEF ClockInv, SwitchedFirst
  <2>5. CASE task[i] # "keyTestDelay"
    <3>1. left'[i] = TestDelay
      BY <1>0, <1>3, <2>5, ActClocks
    <3>2. left[r] <= SwitchDelay
      BY <1>0, <1>3 DEF ClockInv, ClockBounds
    <3> QED
      BY <1>1, <2>3, <3>1, <3>2, Delays
  <2> QED
    BY <2>4, <2>5
<1>4. CASE Act /\ task[r] # "switchDelay"
  <2>1. ProcessM3
    BY <1>4, WhatSendsToSleep DEF Act
  <2>2. task[i] # "keyTestDelay" /\ task'[i] = task[i]
    BY <2>1, GoesToSleep, M3Effect
  <2> QED
    BY <2>2
<1> QED
  BY <1>2, <1>3, <1>4 DEF TimedNext

\* No clock runs while no board has booted.
LEMMA ClockStart == TimedInit => ClockInv
<1> SUFFICES ASSUME TimedInit PROVE ClockInv
  OBVIOUS
<1>1. /\ \A b \in Boards : /\ task[b] = "down" /\ txq[b] = <<>>
                           /\ left[b] = 0 /\ queued[b] = 0 /\ ready[b] = 0
      /\ left = [b \in Boards |-> 0]
      /\ queued = [b \in Boards |-> 0]
      /\ ready = [b \in Boards |-> 0]
  BY DEF TimedInit, Init
<1>2. ClockTypes
  BY <1>1 DEF ClockTypes
<1>3. ClockBounds
  BY <1>1, Delays DEF ClockBounds, Asleep
<1>4. AckLeaves /\ SwitchedFirst
  BY <1>1, TwoBoards DEF AckLeaves, SwitchedFirst
<1> QED
  BY <1>2, <1>3, <1>4 DEF ClockInv

\* All boards start with the responder's part.
LEMMA ResponderStart == Init => ResponderInv
BY TwoBoards DEF Init, ResponderInv, ResponderFrames, M2First, NotYetAccepted, Unfinished

-----------------------------------------------------------------------------
(* Boards that boot once. *)

\* A responder that has come up stays up, if it can create its session.
LEMMA StaysUp ==
  ASSUME MaxBoots = 1, TypeOK, PairInv, Next,
         build["responder"].cred["responder"] # "unparsable",
         task'["responder"] = "down"
  PROVE  /\ task["responder"] = "down"
         /\ boot'["responder"] = boot["responder"]
<1> DEFINE r == "responder"
<1>0. \A b \in Boards : ~Restart(b)
  <2>1. \A b \in Boards : boot[b] \in Nat /\ (task[b] # "down" => boot[b] # 0)
    BY PairTypes DEF PairInv, Idle
  <2> QED
    BY <2>1 DEF Restart
<1>1. ASSUME NEW b \in Boards, Listen(b)
      PROVE  task[r] = "down" /\ boot'[r] = boot[r]
  <2>1. task' = [task EXCEPT ![b] = "listening"] /\ boot' = [boot EXCEPT ![b] = @ + 1]
    BY <1>1 DEF Listen, Set
  <2>2. b # r
    BY <2>1, TwoBoards DEF TypeOK
  <2> QED
    BY <2>1, <2>2, TwoBoards DEF TypeOK
<1>2. ASSUME NEW b \in Boards, StartApp(b)
      PROVE  task[r] = "down" /\ boot'[r] = boot[r]
  <2>1. UNCHANGED boot
    BY <1>2 DEF StartApp
  <2>2. CASE b = r
    <3>1. SessionInit(session[b], b, b, Other(b), 1, build[b].cred[b], build[b].key[b],
                      boot[b]).status = "OK"
      BY <2>2, TwoBoards DEF SessionInit, Answer, Boards
    <3>2. task' = Set(task, b, "halted") \/ task' = Set(task, b, "loop")
      BY <1>2, <3>1 DEF StartApp
    <3>3. task'[r] # "down"
      BY <2>2, <3>2, TwoBoards DEF Set, TypeOK
    <3> QED
      BY <3>3
  <2>3. CASE b # r
    BY <1>2, <2>1, <2>3, TwoBoards DEF StartApp, PowerDown, Set, TypeOK
  <2> QED
    BY <2>2, <2>3
<1>3. ASSUME NEW b \in Boards, \/ Transmit(b) \/ BadSession(b) \/ Ignore(b)
                               \/ \E f \in Strays : StrayArrives(b, f)
      PROVE  UNCHANGED <<boot, task>>
  BY <1>3 DEF Transmit, BadSession, Ignore, StrayArrives
<1>4. ASSUME \/ \E prepared : StartHandshake(prepared)
             \/ ProcessM1 \/ ProcessM2 \/ ProcessKeyTest \/ ProcessKeyTestAck
      PROVE  UNCHANGED <<boot, task>>
  BY <1>4 DEF StartHandshake, ProcessM1, ProcessM2, ProcessKeyTest, ProcessKeyTestAck
<1>5. ASSUME \/ \E outcome : InstallAfterDelay(outcome) \/ ProcessAck(outcome)
             \/ SendKeyTest \/ ProcessM3
      PROVE  task[r] = "down" /\ boot'[r] = boot[r]
  <2>1. /\ UNCHANGED boot
        /\ \E b \in Boards, t \in {"loop", "switchDelay", "keyTestDelay"} :
             task' = [task EXCEPT ![b] = t]
    BY <1>5, TwoBoards DEF InstallAfterDelay, ProcessAck, SendKeyTest, ProcessM3, Set
  <2> QED
    BY <2>1, TwoBoards DEF TypeOK
<1> QED
  BY <1>0, <1>1, <1>2, <1>3, <1>4, <1>5 DEF Next

\* Only its start marks the initiator as started, and only a reset undoes it.
LEMMA OnlyStartStarts ==
  ASSUME TypeOK, Next, started'["initiator"] # started["initiator"],
         task'["initiator"] # "down"
  PROVE  task["initiator"] = "loop" /\ ~started["initiator"]
<1>1. ASSUME NEW b \in Boards, Listen(b) \/ Transmit(b) \/ BadSession(b) \/ Ignore(b)
                               \/ (\E f \in Strays : StrayArrives(b, f))
      PROVE  UNCHANGED started
  BY <1>1 DEF Listen, Transmit, BadSession, Ignore, StrayArrives
<1>2. ASSUME \/ ProcessM1 \/ ProcessM2 \/ ProcessM3
             \/ \E outcome : InstallAfterDelay(outcome) \/ ProcessAck(outcome)
             \/ SendKeyTest \/ ProcessKeyTest \/ ProcessKeyTestAck
      PROVE  UNCHANGED started
  BY <1>2 DEF ProcessM1, ProcessM2, ProcessM3, InstallAfterDelay, ProcessAck, SendKeyTest,
              ProcessKeyTest, ProcessKeyTestAck
<1>3. ASSUME NEW b \in Boards, StartApp(b) \/ Restart(b)
      PROVE  started'["initiator"] = started["initiator"] \/ task'["initiator"] = "down"
  <2>1. UNCHANGED started \/ PowerDown(b)
    BY <1>3 DEF StartApp, Restart
  <2> QED
    BY <2>1, TwoBoards DEF PowerDown, Set, TypeOK
<1>4. ASSUME NEW prepared, StartHandshake(prepared)
      PROVE  task["initiator"] = "loop" /\ ~started["initiator"]
  BY <1>4 DEF StartHandshake
<1> QED
  BY <1>1, <1>2, <1>3, <1>4 DEF Next

\* What was compiled in stays, and the initiator's start is not undone while it
\* runs.
LEMMA StartStays ==
  ASSUME TypeOK, Next
  PROVE  /\ build' = build
         /\ task'["initiator"] = "loop" /\ ~started'["initiator"] => ~started["initiator"]
<1> DEFINE i == "initiator"
<1>1. ASSUME NEW b \in Boards, Listen(b) \/ Transmit(b) \/ BadSession(b) \/ Ignore(b)
                               \/ (\E f \in Strays : StrayArrives(b, f))
      PROVE  UNCHANGED <<build, started>>
  BY <1>1 DEF Listen, Transmit, BadSession, Ignore, StrayArrives
<1>2. ASSUME \/ ProcessM1 \/ ProcessM2 \/ ProcessM3
             \/ \E outcome : InstallAfterDelay(outcome) \/ ProcessAck(outcome)
             \/ SendKeyTest \/ ProcessKeyTest \/ ProcessKeyTestAck
      PROVE  UNCHANGED <<build, started>>
  BY <1>2 DEF ProcessM1, ProcessM2, ProcessM3, InstallAfterDelay, ProcessAck, SendKeyTest,
              ProcessKeyTest, ProcessKeyTestAck
<1>3. ASSUME NEW prepared, StartHandshake(prepared)
      PROVE  UNCHANGED build /\ started'[i]
  BY <1>3, TwoBoards DEF StartHandshake, Set, TypeOK
<1>4. ASSUME NEW b \in Boards, StartApp(b) \/ Restart(b)
      PROVE  /\ UNCHANGED build
             /\ UNCHANGED started \/ task'[i] = "down" \/ started'[i] = started[i]
  <2>1. UNCHANGED build /\ (UNCHANGED started \/ PowerDown(b))
    BY <1>4 DEF StartApp, Restart
  <2> QED
    BY <2>1, TwoBoards DEF PowerDown, Set, TypeOK
<1> QED
  BY <1>1, <1>2, <1>3, <1>4 DEF Next

\* The responder of boards that boot once comes up before the initiator starts.
LEMMA UpInTimeKept ==
  ASSUME OneBoot, TypeOK, PairInv, ClockTypes, UpInTime, TimedNext
  PROVE  UpInTime'
<1> DEFINE i == "initiator"
<1>0. left[i] \in Nat
  BY TwoBoards, ClockNumbers
<1>1. CASE Act
  <2>0. Next
    BY <1>1 DEF Act
  <2>1. build' = build
    BY <2>0, StartStays
  <2>2. ASSUME task'["responder"] = "down"
        PROVE  task["responder"] = "down" /\ boot'["responder"] = 0
    BY <2>0, <2>2, StaysUp DEF OneBoot, UpInTime
  <2>3. ASSUME task'["responder"] = "down", task'[i] = "loop", ~started'[i]
        PROVE  left'[i] + MaxSkew >= StartDelay
    <3>1. CASE task[i] = "loop"
      <4>1. left'[i] = left[i]
        BY <1>1, <2>3, <3>1, TwoBoards, ActClocks
      <4>2. ~started[i]
        BY <2>0, <2>3, StartStays
      <4> QED
        BY <2>2, <2>3, <3>1, <4>1, <4>2 DEF UpInTime
    <3>2. CASE task[i] # "loop"
      <4>1. left'[i] = StartDelay
        BY <1>1, <2>3, <3>2, TwoBoards, ActClocks
      <4> QED
        BY <4>1, Delays
    <3> QED
      BY <3>1, <3>2
  <2> QED
    BY <2>1, <2>2, <2>3 DEF UpInTime
<1>2. CASE Tick
  <2>1. UNCHANGED <<build, boot, task, started>>
    BY <1>2 DEF Tick, vars, ram
  <2>2. task[i] = "loop" /\ task["responder"] = "down" /\ ~started[i] =>
          StartDelay - left[i] < MaxSkew
    BY <1>2 DEF Tick, InTime, ToStart
  <2>3. left'[i] = left[i] \/ left'[i] = left[i] - 1
    BY <1>0, <1>2, TwoBoards, TickClocks
  <2> QED
    BY <1>0, <2>1, <2>2, <2>3, Delays DEF UpInTime
<1> QED
  BY <1>1, <1>2 DEF TimedNext

LEMMA UpInTimeStart == OneBoot /\ TimedInit => UpInTime
BY TwoBoards DEF OneBoot, TimedInit, Init, UpInTime

-----------------------------------------------------------------------------
(***************************************************************************)
(* TimedPairing implements Pairing with Timely = TRUE.  Promised is Pairing *)
(* once more, with copies of all its operators; only three guards differ.  *)
(***************************************************************************)

\* The initiator starts only when the responder listens (device_config.h:25-26).
StartsWhenUp ==
  started'["initiator"] # started["initiator"] /\ task'["initiator"] # "down" =>
    task["responder"] # "down"

\* The responder goes on from its delay only when its ACK has left the driver, so
\* the ACK leaves in the clear (device_config.h:28-29).
SwitchInTime ==
  \A outcome \in Outcomes : InstallAfterDelay(outcome) => txq["responder"] = <<>>

\* The initiator sends KEY_TEST only when the responder has left the delay before
\* its installation (device_config.h:31-32).
TestInTime == SendKeyTest => task["responder"] # "switchDelay"

\* Boots, resets and the air.
LEMMA PromisedBoot ==
  ASSUME NEW b \in Boards, Listen(b) \/ StartApp(b) \/ Restart(b)
  PROVE  Promised!Listen(b) \/ Promised!StartApp(b) \/ Promised!Restart(b)
<1> USE DEF Set, Promised!Set, history, Promised!history
<1>1. Listen(b) => Promised!Listen(b)
  BY DEF Listen, Promised!Listen
<1>2. PowerDown(b) => Promised!PowerDown(b)
  BY DEF PowerDown, Promised!PowerDown, FirstState, Promised!FirstState, EmptySession,
         Promised!EmptySession, NoContext, Promised!NoContext, Plain, Promised!Plain,
         NoLmk, Promised!NoLmk
<1>3. Restart(b) => Promised!Restart(b)
  BY <1>2 DEF Restart, Promised!Restart
<1>4. \A credential, key, fresh :
        Promised!SessionInit(session[b], b, b, Promised!Other(b), 1, credential, key, fresh) =
        SessionInit(session[b], b, b, Other(b), 1, credential, key, fresh)
  BY DEF SessionInit, Promised!SessionInit, Refuse, Promised!Refuse, Answer,
         Promised!Answer, NoBody, Promised!NoBody, Body, Promised!Body, Roles,
         Promised!Roles, BuildExporterContext, Promised!BuildExporterContext, Identity,
         Promised!Identity, Other, Promised!Other
<1>5. StartApp(b) => Promised!StartApp(b)
  BY <1>2, <1>4 DEF StartApp, Promised!StartApp
<1> QED
  BY <1>1, <1>3, <1>5

LEMMA PromisedAir ==
  ASSUME NEW b \in Boards, Transmit(b) \/ (\E f \in Strays : StrayArrives(b, f))
  PROVE  Promised!Transmit(b) \/ (\E f \in Strays : Promised!StrayArrives(b, f))
<1> USE DEF history, Promised!history, Hears, Promised!Hears, Push, Promised!Push, Plain,
            Promised!Plain, NoLmk, Promised!NoLmk, NoContext, Promised!NoContext
<1>1. Transmit(b) => Promised!Transmit(b)
  BY DEF Transmit, Promised!Transmit, Arrivals, Promised!Arrivals, Deliver,
         Promised!Deliver, Other, Promised!Other
<1>2. \A f \in Strays : StrayArrives(b, f) => Promised!StrayArrives(b, f)
  BY DEF StrayArrives, Promised!StrayArrives
<1> QED
  BY <1>1, <1>2

\* The handlers that look at no delay.
LEMMA PromisedDrop ==
  ASSUME NEW b \in Boards, BadSession(b) \/ Ignore(b)
  PROVE  Promised!BadSession(b) \/ Promised!Ignore(b)
BY DEF BadSession, Promised!BadSession, Ignore, Promised!Ignore, Received,
       Promised!Received, Msg, Promised!Msg, Taken, Promised!Taken, Set, Promised!Set,
       Expected, Promised!Expected, history, Promised!history

\* What the message handlers share.
LEMMA PromisedOperators ==
  /\ \A b, type : Handling(b, type) => Promised!Handling(b, type)
  /\ \A b : Taken(b) => Promised!Taken(b)
  /\ \A b : Msg(b) = Promised!Msg(b)
  /\ \A b, type, body : Frame(type, body) = Promised!Frame(type, body)
  /\ Text = Promised!Text
  /\ \A s : Transcript(s) = Promised!Transcript(s)
  /\ \A b, r, f, next : CallAndAnswer(b, r, f, next) => Promised!CallAndAnswer(b, r, f, next)
BY DEF Handling, Promised!Handling, Received, Promised!Received, Msg, Promised!Msg,
       Expected, Promised!Expected, Taken, Promised!Taken, Frame, Promised!Frame, Text,
       Promised!Text, Body, Promised!Body, Transcript, Promised!Transcript,
       CallAndAnswer, Promised!CallAndAnswer, Set, Promised!Set, Send, Promised!Send

\* The calls on the session.
LEMMA PromisedCalls ==
  /\ \A s, prepared : MakeMessage1(s, "ok", prepared) = Promised!MakeMessage1(s, "ok", prepared)
  /\ \A s, m : ProcessMessage1(s, "ok", m) = Promised!ProcessMessage1(s, "ok", m)
  /\ \A s, m, expected :
       ProcessMessage2(s, "ok", m, expected) = Promised!ProcessMessage2(s, "ok", m, expected)
  /\ \A s, m, expected :
       ProcessMessage3(s, m, expected) = Promised!ProcessMessage3(s, m, expected)
BY DEF MakeMessage1, Promised!MakeMessage1, ProcessMessage1, Promised!ProcessMessage1,
       ProcessMessage2, Promised!ProcessMessage2, ProcessMessage3,
       Promised!ProcessMessage3, Call, Promised!Call, Refuse, Promised!Refuse, Answer,
       Promised!Answer, ProtocolFailed, Promised!ProtocolFailed, ArgumentStatus,
       Promised!ArgumentStatus, NoBody, Promised!NoBody, Body, Promised!Body, Moved,
       Promised!Moved, NoContext, Promised!NoContext

LEMMA PromisedMessages ==
  /\ ProcessM1 => Promised!ProcessM1
  /\ ProcessM2 => Promised!ProcessM2
  /\ ProcessM3 => Promised!ProcessM3
<1> USE DEF history, Promised!history, Record, Promised!Record, Set, Promised!Set
<1>1. ProcessM1 => Promised!ProcessM1
  BY PromisedOperators, PromisedCalls DEF ProcessM1, Promised!ProcessM1
<1>2. ProcessM2 => Promised!ProcessM2
  <2> DEFINE b == "initiator"
             r == ProcessMessage2(session[b], "ok", Msg(b).body, build[b].cred["responder"])
  <2> SUFFICES ASSUME ProcessM2 PROVE Promised!ProcessM2
    OBVIOUS
  <2>1. /\ Handling(b, "M2") /\ Taken(b)
        /\ CallAndAnswer(b, r, Frame("M3", r.out), "WAIT_EDHOC_ACK")
        /\ Record(accepted, b, Transcript(r.session), r.status = "OK")
        /\ UNCHANGED <<build, boot, task, started, lmk, derived, confirmed>>
    BY DEF ProcessM2
  <2>2. r = Promised!ProcessMessage2(session[b], "ok", Promised!Msg(b).body,
                                     build[b].cred["responder"])
    BY PromisedOperators, PromisedCalls
  <2> HIDE DEF r
  <2>3. /\ Promised!Handling(b, "M2") /\ Promised!Taken(b)
        /\ Promised!CallAndAnswer(b, r, Promised!Frame("M3", r.out), "WAIT_EDHOC_ACK")
        /\ Promised!Record(accepted, b, Promised!Transcript(r.session), r.status = "OK")
    BY <2>1, PromisedOperators
  <2> QED
    BY <2>1, <2>2, <2>3 DEF Promised!ProcessM2
<1>3. ProcessM3 => Promised!ProcessM3
  BY PromisedOperators, PromisedCalls DEF ProcessM3, Promised!ProcessM3
<1> QED
  BY <1>1, <1>2, <1>3

LEMMA PromisedTests ==
  /\ ProcessKeyTest => Promised!ProcessKeyTest
  /\ ProcessKeyTestAck => Promised!ProcessKeyTestAck
BY PromisedOperators
   DEF ProcessKeyTest, Promised!ProcessKeyTest, ProcessKeyTestAck,
       Promised!ProcessKeyTestAck, Verified, Promised!Verified, Record, Promised!Record,
       Set, Promised!Set, Send, Promised!Send

\* The installation of the key on either board.
LEMMA PromisedInstall ==
  \A b, outcome, next :
    DeriveAndInstall(b, outcome, next) => Promised!DeriveAndInstall(b, outcome, next)
BY DEF DeriveAndInstall, Promised!DeriveAndInstall, ExportStatus, Promised!ExportStatus,
       ExportLmk, Promised!ExportLmk, Record, Promised!Record, Install, Promised!Install,
       Set, Promised!Set

LEMMA PromisedAck == \A outcome : ProcessAck(outcome) => Promised!ProcessAck(outcome)
BY PromisedOperators, PromisedInstall
   DEF ProcessAck, Promised!ProcessAck, Verified, Promised!Verified, Set, Promised!Set

\* The three actions that wait, where the delays are long enough.
LEMMA PromisedWaits ==
  /\ \A prepared : StartHandshake(prepared) /\ task["responder"] # "down" =>
       Promised!StartHandshake(prepared)
  /\ \A outcome : InstallAfterDelay(outcome) /\ txq["responder"] = <<>> =>
       Promised!InstallAfterDelay(outcome)
  /\ SendKeyTest /\ task["responder"] # "switchDelay" => Promised!SendKeyTest
<1> USE DEF history, Promised!history, Set, Promised!Set
<1>1. \A prepared : StartHandshake(prepared) /\ task["responder"] # "down" =>
        Promised!StartHandshake(prepared)
  BY PromisedOperators, PromisedCalls DEF StartHandshake, Promised!StartHandshake
<1>2. \A outcome : InstallAfterDelay(outcome) /\ txq["responder"] = <<>> =>
        Promised!InstallAfterDelay(outcome)
  BY PromisedInstall DEF InstallAfterDelay, Promised!InstallAfterDelay
<1>3. SendKeyTest /\ task["responder"] # "switchDelay" => Promised!SendKeyTest
  BY PromisedOperators DEF SendKeyTest, Promised!SendKeyTest, Send, Promised!Send
<1> QED
  BY <1>1, <1>2, <1>3

\* All steps: where the delays are long enough, what a board does is a step of
\* Pairing that assumes so.
LEMMA PromisedStep ==
  ASSUME Next, StartsWhenUp, SwitchInTime, TestInTime, TypeOK
  PROVE  Promised!Next
<1> USE DEF Boards, Promised!Boards, Roles, Promised!Roles
<1>1. ASSUME NEW b \in Boards, Listen(b) \/ StartApp(b) \/ Restart(b)
      PROVE  Promised!Next
  BY <1>1, PromisedBoot DEF Promised!Next
<1>2. ASSUME NEW b \in Boards, Transmit(b) \/ (\E f \in Strays : StrayArrives(b, f))
      PROVE  Promised!Next
  BY <1>2, PromisedAir DEF Promised!Next
<1>3. ASSUME NEW b \in Boards, BadSession(b) \/ Ignore(b) PROVE Promised!Next
  BY <1>3, PromisedDrop DEF Promised!Next
<1>4. ASSUME NEW prepared \in Preparations, StartHandshake(prepared) PROVE Promised!Next
  <2>1. ~started["initiator"] /\ started'["initiator"] /\ task'["initiator"] # "down"
    BY <1>4 DEF StartHandshake, Set, TypeOK
  <2>2. task["responder"] # "down"
    BY <2>1 DEF StartsWhenUp
  <2> QED
    BY <1>4, <2>2, PromisedWaits DEF Promised!Next, Preparations, Promised!Preparations
<1>5. ASSUME ProcessM1 \/ ProcessM2 \/ ProcessM3 PROVE Promised!Next
  BY <1>5, PromisedMessages DEF Promised!Next
<1>6. ASSUME NEW outcome \in Outcomes, InstallAfterDelay(outcome) \/ ProcessAck(outcome)
      PROVE  Promised!Next
  BY <1>6, PromisedWaits, PromisedAck
     DEF SwitchInTime, Promised!Next, Outcomes, Promised!Outcomes
<1>7. ASSUME SendKeyTest \/ ProcessKeyTest \/ ProcessKeyTestAck PROVE Promised!Next
  BY <1>7, PromisedWaits, PromisedTests DEF TestInTime, Promised!Next
<1> QED
  BY <1>1, <1>2, <1>3, <1>4, <1>5, <1>6, <1>7 DEF Next

\* The initial states are the same.
LEMMA PromisedStart == Init => Promised!Init
BY DEF Init, Promised!Init, Boards, Promised!Boards, Roles, Promised!Roles, FirstState,
       Promised!FirstState, EmptySession, Promised!EmptySession, NoContext,
       Promised!NoContext, Plain, Promised!Plain, NoLmk, Promised!NoLmk

\* The ACK leaves within MaxTx, and the responder sleeps for longer.
LEMMA SwitchStep == TypeOK /\ ClockInv /\ [TimedNext]_timedVars => SwitchInTime
<1> SUFFICES ASSUME TypeOK, ClockInv, [TimedNext]_timedVars, NEW outcome \in Outcomes,
                    InstallAfterDelay(outcome), txq["responder"] # <<>>
             PROVE  FALSE
  BY DEF SwitchInTime
<1> DEFINE r == "responder"
<1>1. task[r] = "switchDelay" /\ task'[r] = "loop"
  BY TwoBoards DEF InstallAfterDelay, Set, TypeOK
<1>2. NotEarly
  BY <1>1 DEF TimedNext, Act, Tick, timedVars, vars, ram
<1>3. left[r] \in Nat /\ ~(left[r] > 0)
  BY <1>1, <1>2, TwoBoards, ClockNumbers DEF NotEarly, ClockInv
<1>4. left[r] + queued[r] = SwitchDelay /\ queued[r] <= MaxTx
  BY <1>1, TwoBoards DEF ClockInv, AckLeaves, ClockBounds
<1> QED
  BY <1>3, <1>4, TwoBoards, ClockNumbers, Delays DEF ClockInv

\* The responder wakes and runs before the initiator does.
LEMMA TestStep == TypeOK /\ ClockInv /\ [TimedNext]_timedVars => TestInTime
<1> SUFFICES ASSUME TypeOK, ClockInv, [TimedNext]_timedVars, SendKeyTest,
                    task["responder"] = "switchDelay"
             PROVE  FALSE
  BY DEF TestInTime
<1> DEFINE i == "initiator"
           r == "responder"
<1>1. task[i] = "keyTestDelay" /\ task'[i] = "loop"
  BY TwoBoards DEF SendKeyTest, Set, TypeOK
<1>2. NotEarly
  BY <1>1 DEF TimedNext, Act, Tick, timedVars, vars, ram
<1>3. left[i] \in Nat /\ ~(left[i] > 0) /\ left[r] \in Nat /\ ready[r] \in Nat
  BY <1>1, <1>2, TwoBoards, ClockNumbers DEF NotEarly, ClockInv
<1>4. /\ left[i] + SwitchDelay + ready[r] >= TestDelay + left[r]
      /\ ready[r] <= MaxRun
  BY <1>1, TwoBoards DEF ClockInv, SwitchedFirst, ClockBounds
<1> QED
  BY <1>3, <1>4, Delays

\* The responder is up before the initiator's delay is over.
LEMMA StartStep == TypeOK /\ ClockInv /\ UpInTime /\ Act => StartsWhenUp
<1> SUFFICES ASSUME TypeOK, ClockInv, UpInTime, Act,
                    started'["initiator"] # started["initiator"],
                    task'["initiator"] # "down", task["responder"] = "down"
             PROVE  FALSE
  BY DEF StartsWhenUp
<1> DEFINE i == "initiator"
<1>1. ~(left[i] > 0) /\ left[i] \in Nat
  BY TwoBoards, ClockNumbers DEF Act, NotEarly, ClockInv
<1>2. task[i] = "loop" /\ ~started[i]
  BY OnlyStartStarts DEF Act
<1>3. left[i] + MaxSkew >= StartDelay
  BY <1>2 DEF UpInTime
<1> QED
  BY <1>1, <1>3, Delays

-----------------------------------------------------------------------------
(* The theorems. *)

\* What the clock adds takes no step of Pairing's.
LEMMA TimedSteps == [TimedNext]_timedVars => [Next]_vars
BY DEF TimedNext, Act, Tick, timedVars

\* So everything proved of Pairing holds under the clock, by construction.
LEMMA PairingUnderClock == TimedSpec => Spec
<1>1. TimedInit => Init
  BY DEF TimedInit
<1> QED
  BY <1>1, TimedSteps, PTL DEF TimedSpec, Spec

\* The clock invariant: where the two boards sleep, what is over of a delay and
\* what is queued add up (device_config.h:28-32).
PairingInv == TypeOK /\ CallInv /\ KeyInv /\ ConfirmationInv
THEOREM ClocksCorrect == TimedSpec => [](ResponderInv /\ ClockInv)
<1>1. TimedInit => ResponderInv /\ ClockInv
  BY ResponderStart, ClockStart DEF TimedInit
<1>2. PairingInv /\ PairingInv' /\ ResponderInv /\ ClockInv /\ [TimedNext]_timedVars =>
        ResponderInv' /\ ClockInv'
  <2> SUFFICES ASSUME PairingInv, PairingInv', ResponderInv, ClockInv,
                      [TimedNext]_timedVars
               PROVE  ResponderInv' /\ ClockInv'
    OBVIOUS
  <2>1. ResponderInv'
    BY TimedSteps, ResponderStep DEF PairingInv, ConfirmationInv
  <2>2. CASE TimedNext
    <3>1. ClockTypes' /\ ClockBounds'
      BY <2>2, ClockTypesKept, ClockBoundsKept DEF ClockInv
    <3>2. AckLeaves'
      BY <2>2, AckLeavesKept DEF PairingInv
    <3>3. SwitchedFirst'
      BY <2>2, SwitchedFirstKept DEF PairingInv
    <3> QED
      BY <2>1, <3>1, <3>2, <3>3 DEF ClockInv
  <2>3. CASE UNCHANGED timedVars
    <3>1. UNCHANGED <<task, txq, left, queued, ready>>
      BY <2>3 DEF timedVars, vars, ram, clocks
    <3>2. ClockInv'
      BY <3>1 DEF ClockInv, ClockTypes, ClockBounds, AckLeaves, SwitchedFirst
    <3> QED
      BY <2>1, <3>2
  <2> QED
    BY <2>2, <2>3
<1>3. Spec => []PairingInv
  BY TranscriptsCorrect DEF PairingInv
<1> QED
  BY <1>1, <1>2, <1>3, PairingUnderClock, PTL DEF TimedSpec

\* The responder changes its key only when the ACK has left in the clear, over
\* any number of resets (device_config.h:28-29, main.c:412-418).
THEOREM AckLeavesFirst == TimedSpec => [][SwitchInTime]_timedVars
<1>1. TypeOK /\ ClockInv /\ [TimedNext]_timedVars => SwitchInTime
  BY SwitchStep
<1> QED
  BY <1>1, TypeCorrect, PairingUnderClock, ClocksCorrect, PTL DEF TimedSpec

\* The initiator tests the key only when the responder has left its own delay,
\* over any number of resets (device_config.h:31-32, main.c:345-347).
THEOREM SwitchBeforeTest == TimedSpec => [][TestInTime]_timedVars
<1>1. TypeOK /\ ClockInv /\ [TimedNext]_timedVars => TestInTime
  BY TestStep
<1> QED
  BY <1>1, TypeCorrect, PairingUnderClock, ClocksCorrect, PTL DEF TimedSpec

\* Where boards boot once and the responder can create its session, the delays do
\* all that Timely assumes of them.
THEOREM DelaysAreEnough == OneBoot => (TimedSpec => DelaysSuffice)
<1> SUFFICES ASSUME OneBoot PROVE TimedSpec => DelaysSuffice
  OBVIOUS
<1>1. TimedInit => UpInTime /\ Promised!Init
  BY UpInTimeStart, PromisedStart DEF TimedInit
<1>2. TypeOK /\ PairInv /\ ClockInv /\ UpInTime /\ [TimedNext]_timedVars => UpInTime'
  <2> SUFFICES ASSUME TypeOK, PairInv, ClockInv, UpInTime, [TimedNext]_timedVars
               PROVE  UpInTime'
    OBVIOUS
  <2>1. CASE TimedNext
    BY <2>1, UpInTimeKept DEF ClockInv
  <2>2. CASE UNCHANGED timedVars
    BY <2>2 DEF timedVars, vars, ram, clocks, UpInTime
  <2> QED
    BY <2>1, <2>2
<1>3. TypeOK /\ ClockInv /\ UpInTime /\ [TimedNext]_timedVars => [Promised!Next]_vars
  <2> SUFFICES ASSUME TypeOK, ClockInv, UpInTime, [TimedNext]_timedVars
               PROVE  [Promised!Next]_vars
    OBVIOUS
  <2>1. CASE Act
    <3>1. Next /\ StartsWhenUp
      BY <2>1, StartStep DEF Act
    <3> QED
      BY <3>1, SwitchStep, TestStep, PromisedStep
  <2>2. CASE Tick \/ UNCHANGED timedVars
    BY <2>2 DEF Tick, timedVars
  <2> QED
    BY <2>1, <2>2 DEF TimedNext
<1>4. PairingInv => TypeOK /\ PairInv
  BY DEF PairingInv, ConfirmationInv
<1>5. Spec => []PairingInv
  BY TranscriptsCorrect DEF PairingInv
<1> QED
  BY <1>1, <1>2, <1>3, <1>4, <1>5, PairingUnderClock, ClocksCorrect, PTL
     DEF TimedSpec, DelaysSuffice

=============================================================================
