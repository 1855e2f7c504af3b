----------------------------- MODULE KeyManager -----------------------------
(***************************************************************************)
(* key_manager_enable_derived_espnow_encryption driver call by driver call:*)
(* set the PMK, put the peer entry, read it back.  The Wi-Fi task sends    *)
(* with whatever the entry holds between two calls, each call may fail,    *)
(* and the board may be reset.  Module Pairing takes the whole function as *)
(* one step, Install, with three outcomes; this module says why it may.    *)
(***************************************************************************)
EXTENDS Naturals

CONSTANTS
  Keys,       \* LMKs a session may derive
  Faults,     \* driver calls that may fail; "ignored": a put that changes nothing
  MaxBoots

ASSUME KeyManagerAssumption ==
  Faults \subseteq {"set_pmk", "put_peer", "ignored", "get_peer"}

VARIABLES
  pmk,      \* the driver's PMK: its "default" or ESPNOW_STATIC_PMK ("static")
  peer,     \* the entry of PEER_MAC: none yet, or one
  at,       \* the next call, "idle" or "returned"
  lmk,      \* the argument
  result,   \* what the function returned
  before,   \* history: the entry when it was called
  failed,   \* history: a driver call failed in this boot
  left,     \* history: the entries frames of this boot left under
  boots

vars == <<pmk, peer, at, lmk, result, before, failed, left, boots>>

NoKey == "zero"
Entry(encrypt, key) == [encrypt |-> encrypt, lmk |-> key, under |-> pmk]

Init ==
  /\ pmk = "default" /\ peer = {} /\ at = "boot" /\ lmk = NoKey /\ result = "none"
  /\ before = {} /\ failed = FALSE /\ left = {} /\ boots = 1

PowerLoss ==
  /\ boots < MaxBoots
  /\ pmk' = "default" /\ peer' = {} /\ at' = "boot" /\ lmk' = NoKey
  /\ result' = "none" /\ before' = {} /\ failed' = FALSE /\ left' = {}
  /\ boots' = boots + 1

\* The Wi-Fi task sends a queued frame (module Pairing's Transmit).
Transmit ==
  /\ peer # {}
  /\ left' = left \cup peer
  /\ UNCHANGED <<pmk, peer, at, lmk, result, before, failed, boots>>

\* esp_now_add_peer knows no old entry, esp_now_mod_peer no new one.
Fits(call) == (call = "add") <=> (peer = {})
EspNow(call, entry, status) ==
  /\ IF Fits(call)
     THEN status = "FAIL" => "put_peer" \in Faults
     ELSE status = "FAIL"
  /\ peer' = IF status = "OK" THEN {entry} ELSE peer
  /\ failed' = (failed \/ (status = "FAIL" /\ Fits(call)))

\* Mutant: the entry is always added.
AddPeerOnly(entry, status) == EspNow("add", entry, status)
\* espnow_transport_add_peer.
AddPeer(entry, status) ==
  EspNow(IF peer = {} THEN "add" ELSE "mod", entry, status)

\* app_main adds the peer in the clear; a refusal aborts (that is PowerLoss).
AddClearPeer ==
  /\ at = "boot"
  /\ AddPeer(Entry(FALSE, NoKey), "OK")
  /\ at' = "idle"
  /\ UNCHANGED <<pmk, lmk, result, before, left, boots>>

\* derive_and_install_lmk, once in a boot (Pairing's states see to that).
Call(key) ==
  /\ at = "idle"
  /\ at' = "set_pmk" /\ lmk' = key /\ before' = peer
  /\ UNCHANGED <<pmk, peer, result, failed, left, boots>>

\* ESP_RETURN_ON_ERROR.
Return(status, next) ==
  /\ at' = IF status = "OK" THEN next ELSE "returned"
  /\ result' = IF status = "OK" THEN result ELSE status

\* Mutant: the status of espnow_transport_set_pmk is not looked at.
SetPmkUnchecked(status) ==
  /\ at = "set_pmk"
  /\ status = "FAIL" => "set_pmk" \in Faults
  /\ pmk' = IF status = "OK" THEN "static" ELSE pmk
  /\ at' = "put_peer" /\ failed' = (failed \/ status = "FAIL")
  /\ UNCHANGED <<result, peer, lmk, before, left, boots>>
SetPmk(status) ==
  /\ at = "set_pmk"
  /\ status = "FAIL" => "set_pmk" \in Faults
  /\ pmk' = IF status = "OK" THEN "static" ELSE pmk
  /\ Return(status, "put_peer")
  /\ failed' = (failed \/ status = "FAIL")
  /\ UNCHANGED <<peer, lmk, before, left, boots>>

PutPeer(status) ==
  /\ at = "put_peer"
  /\ AddPeer(Entry(TRUE, lmk), status)
  /\ Return(status, "get_peer")
  /\ UNCHANGED <<pmk, lmk, before, left, boots>>

\* The driver says OK and leaves the entry alone: what the read-back is for.
PutIgnored ==
  /\ at = "put_peer" /\ "ignored" \in Faults
  /\ at' = "get_peer" /\ failed' = TRUE
  /\ UNCHANGED <<pmk, peer, lmk, result, before, left, boots>>

\* Mutant: esp_now_get_peer's status is all that counts.
ReadBackUnchecked(status) ==
  /\ at = "get_peer"
  /\ status = "FAIL" => "get_peer" \in Faults
  /\ at' = "returned" /\ result' = status
  /\ failed' = (failed \/ status = "FAIL")
  /\ UNCHANGED <<pmk, peer, lmk, before, left, boots>>
ReadBack(status) ==
  /\ at = "get_peer"
  /\ status = "FAIL" => "get_peer" \in Faults
  /\ at' = "returned"
  /\ result' = IF status = "OK" /\ \E p \in peer : p.encrypt THEN "OK" ELSE "FAIL"
  /\ failed' = (failed \/ status = "FAIL")
  /\ UNCHANGED <<pmk, peer, lmk, before, left, boots>>

Next ==
  \/ PowerLoss \/ Transmit \/ AddClearPeer \/ PutIgnored
  \/ \E key \in Keys : Call(key)
  \/ \E status \in {"OK", "FAIL"} : SetPmk(status) \/ PutPeer(status) \/ ReadBack(status)

Spec == Init /\ [][Next]_vars

-----------------------------------------------------------------------------
\* The outcomes of Pairing!Install and no others: OK with the requested key in
\* the entry ("ok"), or failure with the entry as it was ("refused") or with the
\* requested key ("unread").  The read-back looks at the flag alone; that is
\* enough because the entry it changes is one in the clear.
PairingOutcomes ==
  at = "returned" =>
    \/ result = "OK" /\ peer = {[encrypt |-> TRUE, lmk |-> lmk, under |-> "static"]}
    \/ result = "FAIL" /\ peer = before
    \/ result = "FAIL" /\ peer = {[encrypt |-> TRUE, lmk |-> lmk, under |-> "static"]}

\* Whenever the Wi-Fi task sends, between two driver calls too, the frame leaves
\* in the clear or under the derived key, which the fixed PMK protects
\* (key_manager.c:42-45).
FramesUnderLmk ==
  \A p \in left : p.encrypt => p.under = "static" /\ p.lmk = lmk /\ lmk \in Keys

\* The function fails only if a driver call did: the entry is added or modified
\* as the peer table needs it (espnow_transport.c:119-125).
OnlyFaultsFail == at = "returned" /\ result # "OK" => failed
=============================================================================
