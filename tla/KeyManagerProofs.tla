-------------------------- MODULE KeyManagerProofs --------------------------
(***************************************************************************)
(* Proofs about KeyManager for any set of keys, any failing driver calls   *)
(* and any number of resets.  The invariant follows the entry through the  *)
(* function: in the clear until the put, under the fixed PMK after it.     *)
(***************************************************************************)
EXTENDS KeyManager, TLAPS

InClear == {[encrypt |-> FALSE, lmk |-> NoKey, under |-> "default"]}
Installed == {[encrypt |-> TRUE, lmk |-> lmk, under |-> "static"]}

EntryInv ==
  /\ at \in {"boot", "idle", "set_pmk", "put_peer", "get_peer", "returned"}
  /\ at = "boot" => peer = {} /\ pmk = "default"
  /\ at \in {"idle", "set_pmk"} => peer = InClear /\ pmk = "default"
  /\ at = "put_peer" => peer = InClear /\ pmk = "static"
  /\ at \in {"get_peer", "returned"} => peer = InClear \/ peer = Installed
  /\ at \notin {"boot", "idle"} => lmk \in Keys /\ before = InClear
ResultInv ==
  /\ at = "returned" => (result = "OK" /\ peer = Installed) \/ result = "FAIL"
  /\ at = "returned" /\ result = "FAIL" => failed
  /\ at = "get_peer" /\ peer = InClear => failed
LeftInv ==
  /\ \A p \in left : p \in InClear \/ p \in Installed
  /\ (\E p \in left : p \notin InClear) => at \in {"get_peer", "returned"}
KeyInv == EntryInv /\ ResultInv /\ LeftInv

LEMMA KeyInit == Init => KeyInv
BY DEF Init, KeyInv, EntryInv, ResultInv, LeftInv

LEMMA KeyStep == KeyInv /\ [Next]_vars => KeyInv'
<1> SUFFICES ASSUME KeyInv, [Next]_vars PROVE KeyInv'
  OBVIOUS
<1> USE DEF KeyInv
<1>1. ASSUME PowerLoss PROVE KeyInv'
  BY <1>1 DEF PowerLoss, EntryInv, ResultInv, LeftInv
<1>2. ASSUME Transmit PROVE KeyInv'
  BY <1>2 DEF Transmit, EntryInv, ResultInv, LeftInv, InClear, Installed
<1>3. ASSUME AddClearPeer PROVE KeyInv'
  BY <1>3 DEF AddClearPeer, AddPeer, EspNow, Fits, Entry, EntryInv, ResultInv,
              LeftInv, InClear, Installed
<1>4. ASSUME NEW key \in Keys, Call(key) PROVE KeyInv'
  BY <1>4 DEF Call, EntryInv, ResultInv, LeftInv, InClear, Installed
<1>5. ASSUME NEW status \in {"OK", "FAIL"}, SetPmk(status) PROVE KeyInv'
  BY <1>5 DEF SetPmk, Return, EntryInv, ResultInv, LeftInv, InClear, Installed
<1>6. ASSUME NEW status \in {"OK", "FAIL"}, PutPeer(status) PROVE KeyInv'
  <2>1. at = "put_peer" /\ peer = InClear /\ pmk = "static" /\ lmk \in Keys /\ before = InClear
    BY <1>6 DEF PutPeer, EntryInv
  <2>2. /\ peer' = IF status = "OK" THEN {Entry(TRUE, lmk)} ELSE peer
        /\ failed' = (failed \/ status = "FAIL")
        /\ at' = IF status = "OK" THEN "get_peer" ELSE "returned"
        /\ result' = IF status = "OK" THEN result ELSE status
        /\ UNCHANGED <<pmk, lmk, before, left>>
    BY <1>6, <2>1 DEF PutPeer, AddPeer, EspNow, Fits, Return, InClear
  <2>3. CASE status = "OK"
    <3>1. peer' = Installed' /\ peer' # InClear /\ at' = "get_peer"
      <4>1. peer' = {Entry(TRUE, lmk)} /\ lmk' = lmk /\ at' = "get_peer"
        BY <2>2, <2>3
      <4>2. Entry(TRUE, lmk) = [encrypt |-> TRUE, lmk |-> lmk, under |-> "static"]
        BY <2>1 DEF Entry
      <4>3. \A p \in InClear : p.encrypt = FALSE
        BY DEF InClear
      <4>4. Entry(TRUE, lmk) \notin InClear
        <5>1. Entry(TRUE, lmk).encrypt = TRUE
          BY DEF Entry
        <5> QED BY <4>3, <5>1
      <4> QED BY <4>1, <4>2, <4>4 DEF Installed
    <3>2. EntryInv' /\ ResultInv'
      BY <2>1, <2>2, <2>3, <3>1 DEF EntryInv, ResultInv, InClear
    <3>3. LeftInv'
      BY <2>1, <2>2, <2>3, <3>1 DEF LeftInv, InClear, Installed
    <3> QED BY <3>2, <3>3
  <2>4. CASE status = "FAIL"
    BY <2>1, <2>2, <2>4 DEF EntryInv, ResultInv, LeftInv, InClear, Installed
  <2> QED BY <2>3, <2>4
<1>7. ASSUME PutIgnored PROVE KeyInv'
  BY <1>7 DEF PutIgnored, EntryInv, ResultInv, LeftInv, InClear, Installed
<1>8. ASSUME NEW status \in {"OK", "FAIL"}, ReadBack(status) PROVE KeyInv'
  <2>1. /\ at = "get_peer" /\ lmk \in Keys /\ before = InClear
        /\ peer = InClear \/ peer = Installed
        /\ at' = "returned"
        /\ result' = IF status = "OK" /\ \E p \in peer : p.encrypt THEN "OK" ELSE "FAIL"
        /\ failed' = (failed \/ status = "FAIL")
        /\ UNCHANGED <<pmk, peer, lmk, before, left>>
    BY <1>8 DEF ReadBack, EntryInv
  <2>2. CASE status = "OK" /\ peer = Installed
    <3>1. \E p \in peer : p.encrypt
      BY <2>2 DEF Installed
    <3>2. result' = "OK"
      BY <2>1, <2>2, <3>1
    <3> QED BY <2>1, <2>2, <3>2 DEF EntryInv, ResultInv, LeftInv, InClear, Installed
  <2>3. CASE peer = InClear
    <3>1. ~ \E p \in peer : p.encrypt
      BY <2>3 DEF InClear
    <3>2. result' = "FAIL" /\ failed
      BY <2>1, <2>3, <3>1 DEF ResultInv
    <3> QED BY <2>1, <2>3, <3>2 DEF EntryInv, ResultInv, LeftInv, InClear, Installed
  <2>4. CASE status = "FAIL"
    BY <2>1, <2>4 DEF EntryInv, ResultInv, LeftInv, InClear, Installed
  <2> QED BY <2>1, <2>2, <2>3, <2>4
<1>9. ASSUME UNCHANGED vars PROVE KeyInv'
  BY <1>9 DEF vars, EntryInv, ResultInv, LeftInv, InClear, Installed
<1> QED
  BY <1>1, <1>2, <1>3, <1>4, <1>5, <1>6, <1>7, <1>8, <1>9 DEF Next

LEMMA KeyCorrect == Spec => []KeyInv
BY KeyInit, KeyStep, PTL DEF Spec

\* The function has the three outcomes of Pairing!Install, whichever of its driver
\* calls fails or lies (key_manager.c:46-75).
THEOREM OutcomesOfInstall == Spec => []PairingOutcomes
<1>1. KeyInv => PairingOutcomes
  BY DEF KeyInv, EntryInv, ResultInv, PairingOutcomes, InClear, Installed
<1> QED BY <1>1, KeyCorrect, PTL

\* No frame leaves under a key the fixed PMK does not protect.
THEOREM FramesProtected == Spec => []FramesUnderLmk
<1>1. KeyInv => FramesUnderLmk
  BY DEF KeyInv, EntryInv, LeftInv, FramesUnderLmk, InClear, Installed
<1> QED BY <1>1, KeyCorrect, PTL

\* Adding or modifying is always the right one of the two.
THEOREM NoSpuriousFailure == Spec => []OnlyFaultsFail
<1>1. KeyInv => OnlyFaultsFail
  BY DEF KeyInv, ResultInv, OnlyFaultsFail
<1> QED BY <1>1, KeyCorrect, PTL
=============================================================================
