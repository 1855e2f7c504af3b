---------------------------- MODULE FramingProofs ----------------------------
(***************************************************************************)
(* Proofs about EdhocTransport, for every message, every frame of other    *)
(* firmware and every pair of size limits.  The four properties follow     *)
(* from one invariant, which says that the packet is a copy of the frame,  *)
(* an own frame the encoding of its message, and status the verdict; what  *)
(* encoding and parsing do is the business of the lemmas.                  *)
(***************************************************************************)
EXTENDS EdhocTransport, TLAPS

USE DEF HeaderLen, Magic, Version

\* A uint16_t is what its two bytes say.
LEMMA Halves ==
  \A w \in Word : Lo(w) \in Byte /\ Hi(w) \in Byte /\ U16(Lo(w), Hi(w)) = w
BY DEF Word, Byte, Lo, Hi, U16

\* Where the parts of a concatenation are.
LEMMA Concatenated ==
  ASSUME NEW S, NEW s \in Seq(S), NEW t \in Seq(S)
  PROVE  /\ s \o t \in Seq(S)
         /\ Len(s \o t) = Len(s) + Len(t)
         /\ \A i \in 1 .. Len(s) : (s \o t)[i] = s[i]
         /\ \A i \in 1 .. Len(t) : (s \o t)[Len(s) + i] = t[i]
OBVIOUS

\* A payload that is sent has a length a uint16_t holds.
LEMMA ShortPayload ==
  \A m \in Messages : Sendable(m) => m.payload \in Seq(Byte) /\ Len(m.payload) \in Word
<1> SUFFICES ASSUME NEW m \in Messages, Sendable(m)
             PROVE  m.payload \in Seq(Byte) /\ Len(m.payload) \in Word
  OBVIOUS
<1>1. m.payload \in Seq(Byte)
  BY DEF Messages
<1>2. Len(m.payload) \in Nat
  BY <1>1
<1>3. MaxPayload \in Nat /\ MaxPayload < 65536
  BY TransportAssumption DEF Word
<1> QED
  BY <1>1, <1>2, <1>3 DEF Sendable, Word

\* The header is twelve bytes.
LEMMA HeaderBytes ==
  ASSUME NEW m \in Messages, Sendable(m)
  PROVE  Header(m) \in Seq(Byte) /\ Len(Header(m)) = 12
<1>1. m.type \in Byte /\ m.sid \in Word /\ m.seq \in Word /\ Len(m.payload) \in Word
  BY ShortPayload DEF Messages
<1>2. /\ Lo(m.sid) \in Byte /\ Hi(m.sid) \in Byte
      /\ Lo(m.seq) \in Byte /\ Hi(m.seq) \in Byte
      /\ Lo(Len(m.payload)) \in Byte /\ Hi(Len(m.payload)) \in Byte
  BY <1>1, Halves
<1>3. 231 \in Byte /\ 1 \in Byte /\ 0 \in Byte
  BY DEF Byte
<1> QED
  BY <1>1, <1>2, <1>3 DEF Header

\* A frame is its header followed by its payload.
LEMMA Encoded ==
  ASSUME NEW m \in Messages, Sendable(m)
  PROVE  /\ Encode(m) \in Seq(Byte)
         /\ Len(Encode(m)) = 12 + Len(m.payload)
         /\ Len(m.payload) \in Nat
         /\ \A i \in 1 .. 12 : Encode(m)[i] = Header(m)[i]
         /\ \A i \in 1 .. Len(m.payload) : Encode(m)[12 + i] = m.payload[i]
<1>1. m.payload \in Seq(Byte) /\ Len(m.payload) \in Nat
  BY ShortPayload DEF Word
<1>2. Header(m) \in Seq(Byte) /\ Len(Header(m)) = 12
  BY HeaderBytes
<1>3. /\ Header(m) \o m.payload \in Seq(Byte)
      /\ Len(Header(m) \o m.payload) = Len(Header(m)) + Len(m.payload)
      /\ \A i \in 1 .. Len(Header(m)) : (Header(m) \o m.payload)[i] = Header(m)[i]
      /\ \A i \in 1 .. Len(m.payload) :
            (Header(m) \o m.payload)[Len(Header(m)) + i] = m.payload[i]
  <2> DEFINE h == Header(m)
             t == m.payload
  <2>1. h \in Seq(Byte) /\ t \in Seq(Byte)
    BY <1>1, <1>2
  <2> HIDE DEF h, t
  <2>2. /\ h \o t \in Seq(Byte)
        /\ Len(h \o t) = Len(h) + Len(t)
        /\ \A i \in 1 .. Len(h) : (h \o t)[i] = h[i]
        /\ \A i \in 1 .. Len(t) : (h \o t)[Len(h) + i] = t[i]
    BY <2>1, Concatenated
  <2> QED BY <2>2 DEF h, t
<1> QED
  BY <1>1, <1>2, <1>3 DEF Encode

\* An own frame received whole is accepted and read as it was meant.
LEMMA DecodedAsSent ==
  ASSUME NEW m \in Messages, Sendable(m)
  PROVE  Accepts(Packet(Encode(m))) /\ Parsed(Packet(Encode(m))) = Meaning(m)
<1> DEFINE p == Packet(Encode(m))
<1>1. Len(m.payload) \in Word /\ m.sid \in Word /\ m.seq \in Word
  BY ShortPayload DEF Messages
<1>2. Len(m.payload) <= MaxPayload /\ 12 + Len(m.payload) <= MaxFrame
      /\ MaxFrame \in Nat /\ MaxPayload \in Nat
  BY TransportAssumption DEF Sendable, Word
<1>3. p.len = 12 + Len(m.payload)
  BY Encoded DEF Packet
<1>4. \A i \in 1 .. 12 : p.data[i] = Header(m)[i]
  <2>1. ASSUME NEW i \in 1 .. 12 PROVE p.data[i] = Header(m)[i]
    <3>1. i \in 1 .. MaxFrame /\ i <= Len(Encode(m))
      BY <1>2, Encoded
    <3>2. p.data[i] = Encode(m)[i]
      BY <3>1 DEF Packet
    <3> QED BY <3>2, Encoded
  <2> QED BY <2>1
<1>5. /\ p.data[1] = 231 /\ p.data[2] = 1 /\ p.data[3] = m.type /\ p.data[4] = 0
      /\ p.data[5] = Lo(m.sid) /\ p.data[6] = Hi(m.sid)
      /\ p.data[7] = Lo(m.seq) /\ p.data[8] = Hi(m.seq)
      /\ p.data[9] = 0 /\ p.data[10] = 1
      /\ p.data[11] = Lo(Len(m.payload)) /\ p.data[12] = Hi(Len(m.payload))
  <2> HIDE DEF p
  <2> QED BY <1>4 DEF Header
<1>6. PayloadLen(p) = Len(m.payload)
  <2> HIDE DEF p
  <2> QED BY <1>1, <1>5, Halves DEF PayloadLen
<1>7. U16(p.data[5], p.data[6]) = m.sid /\ U16(p.data[7], p.data[8]) = m.seq
  <2> HIDE DEF p
  <2> QED BY <1>1, <1>5, Halves
<1>8. Accepts(p)
  <2> HIDE DEF p
  <2> QED BY <1>1, <1>2, <1>3, <1>5, <1>6 DEF Accepts, Word
<1>9. [i \in 1 .. PayloadLen(p) |-> p.data[12 + i]] = m.payload
  <2>1. ASSUME NEW i \in 1 .. Len(m.payload)
        PROVE  p.data[12 + i] = m.payload[i]
    <3>1. 12 + i \in 1 .. MaxFrame /\ 12 + i <= p.len
      <4> HIDE DEF p
      <4> QED BY <1>1, <1>2, <1>3 DEF Word
    <3>2. p.data[12 + i] = Encode(m)[12 + i]
      BY <3>1 DEF Packet
    <3> QED BY <3>2, Encoded
  <2>2. m.payload = [i \in 1 .. Len(m.payload) |-> m.payload[i]]
    BY DEF Messages
  <2> HIDE DEF p
  <2> QED BY <1>6, <2>1, <2>2
<1>10. Parsed(p) = Meaning(m)
  <2> HIDE DEF p
  <2> QED BY <1>5, <1>7, <1>9 DEF Parsed, Meaning
<1> QED
  BY <1>8, <1>10

\* Cut short, it is refused.
LEMMA CutShort ==
  ASSUME NEW m \in Messages, Sendable(m), NEW n \in 1 .. Len(Encode(m)) - 1
  PROVE  ~Accepts(Packet(SubSeq(Encode(m), 1, n)))
<1> DEFINE bs == SubSeq(Encode(m), 1, n)
           p == Packet(bs)
<1>1. n \in Nat /\ n < 12 + Len(m.payload) /\ Len(m.payload) \in Nat
  BY Encoded
<1>2. Len(bs) = n /\ \A i \in 1 .. n : bs[i] = Encode(m)[i]
  BY Encoded
<1>3. p.len = n
  <2> HIDE DEF bs
  <2> QED BY <1>2 DEF Packet
<1>4. ASSUME n < 12 PROVE ~Accepts(p)
  <2> HIDE DEF p
  <2> QED BY <1>1, <1>3, <1>4 DEF Accepts
<1>5. ASSUME n >= 12 PROVE ~Accepts(p)
  <2>1. MaxFrame \in Nat /\ MaxFrame >= 12
    BY <1>1, TransportAssumption DEF Sendable
  <2>2. bs[11] = Header(m)[11] /\ bs[12] = Header(m)[12]
    <3>1. bs[11] = Encode(m)[11] /\ bs[12] = Encode(m)[12]
      <4> HIDE DEF bs
      <4> QED BY <1>1, <1>2, <1>5
    <3> HIDE DEF bs
    <3> QED BY <3>1, Encoded
  <2>3. p.data[11] = Header(m)[11] /\ p.data[12] = Header(m)[12]
    <3> HIDE DEF bs
    <3> QED BY <1>1, <1>2, <1>5, <2>1, <2>2 DEF Packet
  <2>4. PayloadLen(p) = Len(m.payload)
    <3>1. p.data[11] = Lo(Len(m.payload)) /\ p.data[12] = Hi(Len(m.payload))
      <4> HIDE DEF p
      <4> QED BY <2>3 DEF Header
    <3> HIDE DEF p
    <3> QED BY <3>1, ShortPayload, Halves DEF PayloadLen
  <2> HIDE DEF p
  <2> QED BY <1>1, <1>3, <2>4 DEF Accepts
<1> QED
  BY <1>1, <1>4, <1>5

\* What any received frame that is accepted claims, it has.
LEMMA ClaimHonoured ==
  ASSUME NEW bs \in Seq(Byte), Len(bs) <= MaxFrame, Accepts(Packet(bs))
  PROVE  /\ PayloadLen(Packet(bs)) <= MaxPayload
         /\ HeaderLen + PayloadLen(Packet(bs)) <= Len(bs)
         /\ Parsed(Packet(bs)).payload = SubSeq(bs, 13, 12 + PayloadLen(Packet(bs)))
<1> DEFINE p == Packet(bs)
           n == PayloadLen(p)
<1>1. MaxFrame \in Nat /\ Len(bs) \in Nat
  BY TransportAssumption
<1>2. p.len = Len(bs) /\ \A i \in 1 .. Len(bs) : p.data[i] = bs[i]
  BY <1>1 DEF Packet
<1>3. Len(bs) >= 12 /\ n <= MaxPayload /\ 12 + n <= Len(bs)
  <2>1. p.len >= 12 /\ n <= MaxPayload /\ 12 + n <= p.len
    <3> HIDE DEF p
    <3> QED BY DEF Accepts, p
  <2> HIDE DEF p, n
  <2> QED BY <1>2, <2>1
<1>4. n \in Nat
  <2>1. p.data[11] = bs[11] /\ p.data[12] = bs[12] /\ bs[11] \in Byte /\ bs[12] \in Byte
    <3> HIDE DEF p, n
    <3> QED BY <1>1, <1>2, <1>3
  <2> HIDE DEF p
  <2> QED BY <2>1 DEF PayloadLen, U16, Byte
<1>5. [i \in 1 .. n |-> p.data[12 + i]] = SubSeq(bs, 13, 12 + n)
  <2> HIDE DEF n, p
  <2>1. \A i \in 1 .. n : p.data[12 + i] = bs[12 + i]
    BY <1>1, <1>2, <1>3, <1>4
  <2>2. SubSeq(bs, 13, 12 + n) = [i \in 1 .. n |-> bs[12 + i]]
    BY <1>1, <1>3, <1>4
  <2> QED BY <2>1, <2>2
<1> QED
  BY <1>3, <1>5 DEF Parsed

\* The buffer behind the received bytes has no say.
LEMMA RestIgnored ==
  ASSUME NEW bs \in Seq(Byte), Len(bs) <= MaxFrame, NEW b
  PROVE  Accepts(Refilled(Packet(bs), b)) <=> Accepts(Packet(bs))
<1> DEFINE p == Packet(bs)
           q == Refilled(p, b)
<1>1. MaxFrame \in Nat /\ Len(bs) \in Nat
  BY TransportAssumption
<1>2. p.len = Len(bs) /\ q.len = Len(bs)
  BY DEF Packet, Refilled
<1>3. \A i \in 1 .. Len(bs) : p.data[i] = bs[i] /\ q.data[i] = bs[i]
  BY <1>1 DEF Packet, Refilled
<1> HIDE DEF p, q
<1>4. CASE Len(bs) < 12
  BY <1>1, <1>2, <1>4 DEF Accepts, p, q
<1>5. CASE Len(bs) >= 12
  <2>1. \A i \in 1 .. 12 : p.data[i] = q.data[i]
    BY <1>1, <1>3, <1>5
  <2>2. PayloadLen(p) = PayloadLen(q)
    BY <2>1 DEF PayloadLen
  <2>3. Accepts(p) <=> Accepts(q)
    BY <1>2, <2>1, <2>2 DEF Accepts
  <2> QED BY <2>3 DEF p, q
<1> QED
  BY <1>1, <1>4, <1>5

-----------------------------------------------------------------------------
(* The inductive invariant. *)
Copied ==
  /\ at \in {"nowhere", "air", "queue", "taken"}
  /\ bytes \in Seq(Byte)
  /\ at \in {"queue", "taken"} => packet = Packet(bytes) /\ Len(bytes) <= MaxFrame
OwnFrame ==
  \A m \in sent : m \in Messages /\ Sendable(m) /\ bytes = Encode(m)
Verdict ==
  at = "taken" => (status = "accepted" <=> Accepts(packet))
FrameInv == Copied /\ OwnFrame /\ Verdict

LEMMA FrameInit == Init => FrameInv
BY DEF Init, FrameInv, Copied, OwnFrame, Verdict

LEMMA FrameStep == FrameInv /\ [Next]_vars => FrameInv'
<1> SUFFICES ASSUME FrameInv, [Next]_vars PROVE FrameInv'
  OBVIOUS
<1> USE DEF FrameInv
<1>1. ASSUME NEW m \in Inputs, Send(m) PROVE FrameInv'
  <2>1. m \in Messages
    BY TransportAssumption
  <2>2. CASE Sendable(m)
    BY <1>1, <2>1, <2>2, Encoded DEF Send, Copied, OwnFrame, Verdict
  <2>3. CASE ~Sendable(m)
    BY <1>1, <2>3 DEF Send, Copied, OwnFrame, Verdict
  <2> QED BY <2>2, <2>3
<1>2. ASSUME NEW frame \in Noise, NoiseArrives(frame) PROVE FrameInv'
  BY <1>2, TransportAssumption DEF NoiseArrives, Copied, OwnFrame, Verdict
<1>3. ASSUME Receive PROVE FrameInv'
  <2>1. CASE Queued(bytes)
    BY <1>3, <2>1 DEF Receive, Queued, Copied, OwnFrame, Verdict
  <2>2. CASE ~Queued(bytes)
    BY <1>3, <2>2 DEF Receive, Copied, OwnFrame, Verdict
  <2> QED BY <2>1, <2>2
<1>4. ASSUME Take PROVE FrameInv'
  BY <1>4 DEF Take, Copied, OwnFrame, Verdict
<1>5. ASSUME Done PROVE FrameInv'
  BY <1>5 DEF Done, Copied, OwnFrame, Verdict
<1>6. ASSUME UNCHANGED vars PROVE FrameInv'
  BY <1>6 DEF vars, Copied, OwnFrame, Verdict
<1> QED
  BY <1>1, <1>2, <1>3, <1>4, <1>5, <1>6 DEF Next

LEMMA FrameCorrect == Spec => []FrameInv
BY FrameInit, FrameStep, PTL DEF Spec

-----------------------------------------------------------------------------
\* Every message app_task can send is read back field for field, whatever the
\* two limits are (edhoc_transport.c:63-78 keeps out what would not be).
THEOREM FramesRoundTrip == Spec => []RoundTrip
<1>1. FrameInv => RoundTrip
  BY DecodedAsSent DEF FrameInv, Copied, OwnFrame, Verdict, RoundTrip
<1> QED BY <1>1, FrameCorrect, PTL

\* The copy of edhoc_transport.c:164 stays inside both buffers, for any frame.
THEOREM CopyInBounds == Spec => []PayloadReceived
<1>1. FrameInv => PayloadReceived
  BY ClaimHonoured DEF FrameInv, Copied, Verdict, PayloadReceived
<1> QED BY <1>1, FrameCorrect, PTL

\* Reading the header of a short frame from the buffer never decides.
THEOREM OnlyReceivedDecides == Spec => []VerdictFromReceived
<1>1. FrameInv => VerdictFromReceived
  BY RestIgnored DEF FrameInv, Copied, Verdict, VerdictFromReceived
<1> QED BY <1>1, FrameCorrect, PTL

\* No proper prefix of an own frame passes for a frame.
THEOREM PrefixesRefused == Spec => []TruncatedRefused
<1>1. FrameInv => TruncatedRefused
  BY CutShort DEF FrameInv, OwnFrame, TruncatedRefused
<1> QED BY <1>1, FrameCorrect, PTL
=============================================================================
