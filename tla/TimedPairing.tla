---------------------------- MODULE TimedPairing ----------------------------
(***************************************************************************)
(* Pairing with a clock: the three delays of device_config.h as numbers of *)
(* ticks, a radio and a scheduler that keep bounds, and nothing assumed of *)
(* their order.  It implements Pairing with Timely = TRUE: what Timely     *)
(* assumes of the delays follows from how long they are.                   *)
(***************************************************************************)
EXTENDS Pairing

CONSTANTS          \* all in ticks of one length
  StartDelay,      \* EDHOC_START_DELAY_MS
  SwitchDelay,     \* RESPONDER_ENCRYPTION_SWITCH_DELAY_MS
  TestDelay,       \* INITIATOR_KEY_TEST_DELAY_MS
  MaxTx,           \* a frame at the head of the driver's queue leaves within this
  MaxRun,          \* a handler that can run has run within this
  MaxSkew          \* the responder listens within this of the initiator's start

\* The margins: without the first the ACK may leave under the new key, without
\* the second KEY_TEST may meet a responder that has none, without the third M1
\* may meet nobody.
ASSUME DelayAssumption ==
  /\ {StartDelay, SwitchDelay, TestDelay, MaxTx, MaxRun, MaxSkew} \subseteq Nat
  /\ MaxTx < SwitchDelay
  /\ SwitchDelay + MaxRun < TestDelay
  /\ MaxSkew < StartDelay

VARIABLES
  left,     \* ticks until the delay a board is in is over
  queued,   \* ticks the head of its driver's queue has been there
  ready     \* ticks its app_task has had something to do

clocks == <<left, queued, ready>>
timedVars == <<vars, clocks>>

TimedInit ==
  /\ Init
  /\ left = [b \in Boards |-> 0]
  /\ queued = [b \in Boards |-> 0]
  /\ ready = [b \in Boards |-> 0]

\* Mutants: the two delays of the handlers swapped; app_task does not wait for
\* its start.
SwappedDelay(t, waitsToStart) ==
  IF t = "switchDelay" THEN TestDelay
  ELSE IF t = "keyTestDelay" THEN SwitchDelay
  ELSE IF t = "loop" /\ waitsToStart THEN StartDelay ELSE 0
NoStartDelay(t, waitsToStart) ==
  IF t = "switchDelay" THEN SwitchDelay
  ELSE IF t = "keyTestDelay" THEN TestDelay ELSE 0

\* How long app_task waits where it has just arrived.
DelayAt(t, waitsToStart) ==
  IF t = "switchDelay" THEN SwitchDelay
  ELSE IF t = "keyTestDelay" THEN TestDelay
  ELSE IF t = "loop" /\ waitsToStart THEN StartDelay ELSE 0

ToStart(b) == b = "initiator" /\ ~started[b]

\* app_task has something to do: a delay is over, or a packet is waiting.
CanRun(b) ==
  \/ task[b] \in {"switchDelay", "keyTestDelay"} /\ left[b] = 0
  \/ task[b] = "loop" /\ (rxq[b] # <<>> \/ (ToStart(b) /\ left[b] = 0))

\* vTaskDelay and the comparison with boot_tick: nobody is early, though a reset
\* waits for nothing.
NotEarly ==
  \A b \in Boards : left[b] > 0 /\ task'[b] # "down" =>
    /\ started'[b] = started[b]
    /\ task[b] \in {"switchDelay", "keyTestDelay"} => task'[b] = task[b]

\* A step of Pairing, which takes no time.
Act ==
  /\ Next
  /\ NotEarly
  /\ left' = [b \in Boards |->
       IF task'[b] # task[b]
       THEN DelayAt(task'[b], b = "initiator" /\ ~started'[b]) ELSE left[b]]
  /\ queued' = [b \in Boards |->
       IF txq[b] = <<>> \/ Len(txq'[b]) < Len(txq[b]) THEN 0 ELSE queued[b]]
  /\ ready' = [b \in Boards |->
       IF task'[b] # task[b] \/ started'[b] # started[b]
          \/ Len(rxq'[b]) < Len(rxq[b])
       THEN 0 ELSE ready[b]]

\* Time does not pass over a bound that is due.
InTime ==
  /\ \A b \in Boards :
       /\ txq[b] # <<>> => queued[b] < MaxTx
       /\ CanRun(b) => ready[b] < MaxRun
  /\ task["initiator"] = "loop" /\ ToStart("initiator") /\ task["responder"] = "down" =>
       StartDelay - left["initiator"] < MaxSkew

Tick ==
  /\ InTime
  /\ left' = [b \in Boards |-> IF left[b] > 0 THEN left[b] - 1 ELSE 0]
  /\ queued' = [b \in Boards |-> IF txq[b] # <<>> THEN queued[b] + 1 ELSE 0]
  /\ ready' = [b \in Boards |-> IF CanRun(b) THEN ready[b] + 1 ELSE 0]
  /\ UNCHANGED vars

TimedNext == Act \/ Tick

\* The only fairness: something goes on happening, if only time.
TimedSpec == TimedInit /\ [][TimedNext]_timedVars /\ WF_timedVars(TimedNext)

-----------------------------------------------------------------------------
\* The delays of device_config.h:28-32 do what their comments say: "Allow the
\* responder's final unencrypted ACK to leave before peer modification", "Give
\* the responder time to install its LMK before the encrypted KEY_TEST".
Promised == INSTANCE Pairing WITH Timely <- TRUE
DelaysSuffice == Promised!Init /\ [][Promised!Next]_vars
=============================================================================
