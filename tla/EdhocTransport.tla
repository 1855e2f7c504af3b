--------------------------- MODULE EdhocTransport ---------------------------
(***************************************************************************)
(* The path of one frame: edhoc_transport_send writes a 12-byte header     *)
(* before the payload, the driver carries bytes (ours, or those of other   *)
(* firmware), espnow_recv_cb copies them into a zeroed packet of fixed     *)
(* size, and edhoc_transport_parse_rx reads lengths and fields from it.    *)
(***************************************************************************)
EXTENDS Integers, Sequences

CONSTANTS
  MaxPayload,   \* EDHOC_TRANSPORT_MAX_PAYLOAD_LEN
  MaxFrame,     \* ESPNOW_TRANSPORT_MAX_PAYLOAD_LEN
  Inputs,       \* messages app_task may send
  Noise         \* frames of other firmware

Byte == {b \in Nat : b < 256}
Word == {w \in Nat : w < 65536}
Messages == [type : Byte, sid : Word, seq : Word, payload : Seq(Byte)]

\* payload_len is a uint16_t and its parsed value is what the copy is bounded by.
ASSUME TransportAssumption ==
  /\ MaxPayload \in Word
  /\ MaxFrame \in Nat
  /\ Inputs \subseteq Messages
  /\ Noise \subseteq Seq(Byte)

HeaderLen == 12
Magic == 231
Version == 1

\* A uint16_t in a packed struct on the little-endian ESP32.
Lo(w) == w % 256
Hi(w) == w \div 256
U16(lo, hi) == lo + 256 * hi

Header(m) ==
  <<Magic, Version, m.type, 0, Lo(m.sid), Hi(m.sid), Lo(m.seq), Hi(m.seq), 0, 1,
    Lo(Len(m.payload)), Hi(Len(m.payload))>>
Encode(m) == Header(m) \o m.payload

\* Mutant: only the frame size is checked.
SendableByFrame(m) == HeaderLen + Len(m.payload) <= MaxFrame
Sendable(m) ==
  Len(m.payload) <= MaxPayload /\ HeaderLen + Len(m.payload) <= MaxFrame

\* espnow_rx_packet_t: a buffer of fixed size and how much of it was received.
Packet(bytes) ==
  [data |-> [i \in 1 .. MaxFrame |-> IF i <= Len(bytes) THEN bytes[i] ELSE 0],
   len |-> Len(bytes)]

\* What espnow_recv_cb queues at all.
Queued(bytes) == 0 < Len(bytes) /\ Len(bytes) <= MaxFrame

PayloadLen(p) == U16(p.data[11], p.data[12])

\* Mutants: the header may lack its last byte; the payload only has to start
\* within what was received; magic and version alone decide.
AcceptsShortHeader(p) ==
  /\ p.len >= HeaderLen - 1
  /\ p.data[1] = Magic /\ p.data[2] = Version
  /\ p.data[10] # 0 /\ p.data[9] < p.data[10]
  /\ PayloadLen(p) <= MaxPayload
  /\ HeaderLen - 1 + PayloadLen(p) <= p.len
AcceptsStarted(p) ==
  /\ p.len >= HeaderLen
  /\ p.data[1] = Magic /\ p.data[2] = Version
  /\ p.data[10] # 0 /\ p.data[9] < p.data[10]
  /\ PayloadLen(p) <= MaxPayload
  /\ PayloadLen(p) <= p.len

\* edhoc_transport_parse_rx returns true.  It looks neither at the type nor at
\* flags, takes any fragment of several, and ignores what follows the payload.
Accepts(p) ==
  /\ p.len >= HeaderLen
  /\ p.data[1] = Magic /\ p.data[2] = Version
  /\ p.data[10] # 0 /\ p.data[9] < p.data[10]
  /\ PayloadLen(p) <= MaxPayload
  /\ HeaderLen + PayloadLen(p) <= p.len

\* The edhoc_transport_msg_t it fills.
Parsed(p) ==
  [type |-> p.data[3], flags |-> p.data[4], sid |-> U16(p.data[5], p.data[6]),
   seq |-> U16(p.data[7], p.data[8]), fragIdx |-> p.data[9],
   fragCount |-> p.data[10],
   payload |-> [i \in 1 .. PayloadLen(p) |-> p.data[HeaderLen + i]]]

-----------------------------------------------------------------------------
VARIABLES
  at,       \* where the frame is: "nowhere", "air", "queue", "taken"
  bytes,    \* the frame
  packet,   \* the copy in the receive queue
  sent,     \* history: the one message the frame was made of, {} for noise
  status    \* what edhoc_transport_send or parse_rx returned last

vars == <<at, bytes, packet, sent, status>>

Init ==
  /\ at = "nowhere" /\ bytes = <<>> /\ packet = Packet(<<>>) /\ sent = {}
  /\ status = "none"

Send(m) ==
  /\ at = "nowhere"
  /\ IF Sendable(m)
     THEN at' = "air" /\ bytes' = Encode(m) /\ sent' = {m} /\ status' = "OK"
     ELSE status' = "INVALID_SIZE" /\ UNCHANGED <<at, bytes, sent>>
  /\ UNCHANGED packet

NoiseArrives(frame) ==
  /\ at = "nowhere"
  /\ at' = "air" /\ bytes' = frame /\ sent' = {}
  /\ UNCHANGED <<packet, status>>

Receive ==
  /\ at = "air"
  /\ IF Queued(bytes)
     THEN at' = "queue" /\ packet' = Packet(bytes) /\ UNCHANGED <<bytes, sent>>
     ELSE at' = "nowhere" /\ bytes' = <<>> /\ sent' = {} /\ UNCHANGED packet
  /\ UNCHANGED status

Take ==
  /\ at = "queue"
  /\ at' = "taken"
  /\ status' = IF Accepts(packet) THEN "accepted" ELSE "refused"
  /\ UNCHANGED <<bytes, packet, sent>>

Done ==
  /\ at = "taken"
  /\ at' = "nowhere" /\ bytes' = <<>> /\ packet' = Packet(<<>>) /\ sent' = {}
  /\ UNCHANGED status

Next ==
  \/ \E m \in Inputs : Send(m)
  \/ \E frame \in Noise : NoiseArrives(frame)
  \/ Receive \/ Take \/ Done

Spec == Init /\ [][Next]_vars

-----------------------------------------------------------------------------
\* What is sent is what is received: an own frame that arrives is accepted, and
\* every field and the payload read from it are those it was made of.  This is
\* what module Pairing means by a frame of a type, session ID and body.
Meaning(m) ==
  [type |-> m.type, flags |-> 0, sid |-> m.sid, seq |-> m.seq, fragIdx |-> 0,
   fragCount |-> 1, payload |-> m.payload]
RoundTrip ==
  at = "taken" =>
    \A m \in sent : status = "accepted" /\ Parsed(packet) = Meaning(m)

\* Whoever sent it, the payload of an accepted frame fits the message's buffer
\* and lies within the bytes received (edhoc_transport.c:139-151).
PayloadReceived ==
  at = "taken" /\ status = "accepted" =>
    /\ PayloadLen(packet) <= MaxPayload
    /\ HeaderLen + PayloadLen(packet) <= Len(bytes)
    /\ Parsed(packet).payload = SubSeq(bytes, 13, 12 + PayloadLen(packet))

\* Nothing beyond the received length has a say in the verdict: the buffer behind
\* it could hold anything (edhoc_transport.c:118-151).
Refilled(p, b) ==
  [p EXCEPT !.data = [i \in 1 .. MaxFrame |-> IF i <= p.len THEN p.data[i] ELSE b]]
VerdictFromReceived ==
  at = "taken" =>
    \A b \in {0, 1, 255} :
      Accepts(Refilled(packet, b)) <=> status = "accepted"

\* An own frame that lost its tail is refused, however little is missing.
TruncatedRefused ==
  at = "taken" /\ sent # {} =>
    \A n \in 1 .. Len(bytes) - 1 : ~Accepts(Packet(SubSeq(bytes, 1, n)))
=============================================================================
