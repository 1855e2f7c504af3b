-------------------------- MODULE MCEdhocTransport --------------------------
(* Frames at the edges of every length, with the sizes of the source. *)
EXTENDS EdhocTransport

Bytes(n) == [i \in 1 .. n |-> (7 * i) % 256]

SomeInputs ==
  [type : {16, 33}, sid : {4660}, seq : {1, 255, 256, 65535},
   payload : {Bytes(n) : n \in {0, 1, 21, 191, 192, 193, 239}}]

\* A header with the given fields and a payload of any length behind it.
Foreign(magic, version, idx, count, claimed, n) ==
  SubSeq(<<magic, version, 16, 3, 52, 18, 9, 0, idx, count, Lo(claimed), Hi(claimed)>>
           \o Bytes(251), 1, n)
SomeNoise ==
  {Foreign(magic, version, idx, count, claimed, n) :
     magic \in {Magic, 0}, version \in {1, 2}, idx \in {0, 1}, count \in {0, 1, 2},
     claimed \in {0, 1, 192, 193, 238, 239, 65535},
     n \in {0, 1, 11, 12, 13, 203, 204, 205, 250, 251}}
=============================================================================
