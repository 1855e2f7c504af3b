# Verification of the EDHOC over ESP-NOW pairing

Two ESP32 boards run the firmware of this repository: one built as initiator,
one as responder. They run an EDHOC handshake (the Lakers Rust library) over
unencrypted ESP-NOW, export one link key (LMK) each, install it in the ESP-NOW
driver and prove to each other with one encrypted round trip that the keys are
equal. This directory holds TLA+ models of that firmware, the TLC
configurations that check them on small instances, and TLAPS proofs of their
main safety properties for all instances. All line numbers are those of the
files under `src/`.

## 1. The system

| Part | Source | State | Operations |
|---|---|---|---|
| Pairing application | `main/main.c`, `main/device_config.h` | `state` (9 values), `initiator_started`, the position of `app_task` | `app_main`, the `app_task` loop, `handle_received_message` (six accepted messages), `derive_and_install_lmk` |
| Lakers FFI | `components/lakers_ffi/rust/src/lib.rs` | one static `Session`: empty, or a role with a typed phase and an exporter context | `session_init`, `make_message_1`, `process_message_1/2/3`, `export_espnow_lmk` |
| Lakers component glue | `components/lakers_ffi/lakers_ffi_component.c` | a job on the caller's stack, a task notification | boot probe, `__wrap_lakers_edhoc_session_init` and its worker task |
| ESP-NOW transport | `main/espnow_transport.c` | `s_rx_queue` (10 packets); in the driver: frames accepted for sending, the peer entry with its key | `init`, `add_peer`, `send`, `recv`, receive and send callbacks |
| EDHOC framing | `main/edhoc_transport.c` | none | `edhoc_transport_send`, `edhoc_transport_parse_rx` |
| Key manager | `main/key_manager.c` | none of its own: it changes the peer entry | `key_manager_enable_derived_espnow_encryption`, and a static-key function nothing calls |
| LMK summary, trace vectors, host reference | `main/edhoc_exporter.c`, `main/edhoc_trace_vectors.c`, `tools/lakers_reference` | none | logging, tables, a sequential host program |

How they interact. `app_main` initialises the transport (which creates the
receive queue and registers the callback), adds the peer unencrypted, creates
the Lakers session through the worker task and starts `app_task`. From then on
the Wi-Fi task and `app_task` share only the receive queue: the callback appends
with timeout 0 and drops when full, the task takes one packet at the top of its
loop, parses it and handles it to the end. A handler makes at most one Lakers
call, queues at most one frame, and two handlers sleep in the middle: the
responder 250 ms between its ACK and its key, the initiator 750 ms between its
key and its KEY_TEST. The two boards share nothing but frames.

What is hard here:

* *Loss, duplication, restart.* No state has a timeout, nothing is sent twice
  and nothing is kept in flash. A board may be reset while the other still waits
  in the middle of an older handshake, with old frames in its queues.
* *Two state machines in step.* The C state and the phase of the Rust session
  are kept together only by the order of calls and early returns.
* *Messages that prove little.* The ACK, KEY_TEST and KEY_TEST_ACK are fixed
  public texts. The ACK names no transcript, and a key test is one only because
  of the key it came in under.
* *Changing the key under queued frames.* `esp_now_send` only queues. Which key
  a frame leaves under is decided by the peer entry at that later time.
* *Many tasks in one boot.* `app_main`, the init worker, the Wi-Fi task, the idle
  task and at last `app_task` share the heap, a job on a stack and a session cell
  without a lock.
* *Delays instead of handshakes.* Three fixed delays stand for "the ACK has left",
  "the other board has its key" and "the other board listens".
* *Partial failure.* The responder acknowledges message 3 before it tries to
  install its key; the key manager can change the peer entry and still report an
  error.

What makes each part correct:

* *pairing*: key confirmation happens in order and between the same two
  transcripts, on every path, over every reset; the two state machines stay in
  step; genuine boards do pair; builds that differ do not;
* *Lakers FFI*: a refused call leaves the session as it was, a failed one ends
  it; an ephemeral key answers once; both ends export the same LMK;
* *transport*: the receive queue is bounded and FIFO;
* *framing*: what is parsed is what was sent, and no length read from the air
  leads outside the packet;
* *glue and boot*: the job outlives its worker, one task at a time is in the
  library, the queue exists before the callback, a boot ends;
* *key manager*: it fails or it installs the key it was given, and nothing
  leaves under any other.

## 2. Modules

| Module | What it is |
|---|---|
| `LakersFfi` | Operators only: each FFI call is a function from a session and its arguments to the status, the session left behind and the output. Cryptography is symbolic. |
| `LakersSessions` | State machine: the session cells of several boards under *any* sequence of calls, bad arguments, replayed messages. What the library promises any caller. |
| `KeyConfirmation` | The abstract specification of a pairing: in which order transcripts are accepted, keys derived and keys confirmed. |
| `Pairing` | State machine: two boards, their drivers, the air, resets. Uses the operators of `LakersFfi` for the Rust session and implements `KeyConfirmation`. |
| `TimedPairing` | `Pairing` with a clock and the three delays as numbers. Implements `Pairing` with the assumption `Timely`. |
| `BoardBoot` | The abstract specification of a boot: what `Pairing` takes it for, for one board. |
| `BootSequence` | State machine: one board from power-on to `app_task`, its tasks interleaved. Implements `BoardBoot`. |
| `EdhocTransport` | The byte layout of a frame: encoder, receive callback, parser, and a state machine that sends frames through them. |
| `KeyManager` | State machine: the key manager driver call by driver call. Justifies the one step `Pairing` makes of it. |
| `MCPairing`, `MCLakersSessions`, `MCTimedPairing`, `MCBootSequence`, `MCEdhocTransport` | Instances for TLC (`KeyManager` needs none). |
| `PairingProofs`, `BootProofs`, `FramingProofs`, `KeyManagerProofs`, `LakersSessionsProofs` | The theorems about these modules and their proofs. |
| `ConfirmationProofs` | On top of `PairingProofs`: which transcript is where, and that `Pairing` implements `KeyConfirmation`. |
| `TimedPairingProofs` | On top of `ConfirmationProofs`: what the three delays guarantee. |

The modules fit together where one abstracts what another details: `Pairing`
has boots (`Listen`, `StartApp`, `Restart`) that `BootSequence` refines, frames
with a type, a session ID and a body that `EdhocTransport` shows to be read as
they were meant, an `Install` with three outcomes that `KeyManager` shows to be
all there are, an assumption `Timely` that `TimedPairing` discharges, and
serialised Lakers calls, which `BootSequence` shows.

### Pairing and the code

| Variable | In the code |
|---|---|
| `build[b]` | what was edited before flashing: both credentials and private keys in `lib.rs`, `MILESTONE9_CORRUPT_LMK_FOR_TEST`, whether `PEER_MAC` is set |
| `boot[b]` | number of resets; also names the ephemeral key of that boot |
| `task[b]` | where `app_main`/`app_task` is: not running, listening before `app_task` exists, halted without a peer MAC, at the top of the loop, or asleep in one of the two `vTaskDelay`s |
| `state[b]`, `started[b]` | `pairing_state_t state`, `initiator_started` |
| `session[b]`, `status[b]` | the Rust session cell, the status of the last call |
| `lmk[b]` | the key of the peer entry in the driver (`Plain`: `encrypt=false`) |
| `rxq[b]`, `txq[b]` | `s_rx_queue`; the frames `esp_now_send` has accepted |
| `accepted`, `derived`, `confirmed` | history: transcripts a board authenticated, keys it exported, keys under which it verified a KEY_TEST or KEY_TEST_ACK ("ENCRYPTED APP RX verified", main.c:253-258) |

One action per handler. A handler is atomic up to a `vTaskDelay` inside it,
where it is split in two (`ProcessM3` / `InstallAfterDelay`, `ProcessAck` /
`SendKeyTest`): `app_task` is the only task that touches this state, the Wi-Fi
task only appends to the queue, and appending commutes with everything a handler
does after it has taken its packet. Everything the handler does besides is in
the action, in its order: the Lakers call and its refusals, the send, the state
assignment, the failure path.

A handler goes on after its send, and the frame may be on the air, or received,
before it ends. What it still does then is set this board's state and print it,
which no other task or board reads; everything it logs about transcripts and keys
it has logged before the send. So the frame leaving after the action stands for
its leaving in the middle of the handler.

Power loss inside a handler, and the `abort()` of `ESP_ERROR_CHECK` when a send is
refused, need no action of their own for the same reason. A board cut off before it
has logged anything is `Restart` before the handler. One cut off later is the
handler followed by `Restart`, which loses the frame it queued, or by `Transmit` and
`Restart` if the frame had left. What such a board may lack is the log lines after
its send. The one that matters is PASS: the responder hands KEY_TEST_ACK to the
driver at main.c:436 and prints PASS at 443-444, so the initiator can print PASS for
a key the responder never printed PASS for. This is why `confirmed` records the
verification (main.c:430-435, 353), which precedes the send, and not PASS, and no
property says that the responder's PASS precedes the initiator's.

The environment is as general as the property allows. A frame on the air reaches
the other board in any number of copies from `Copies` (0 is loss; 2 is a link
layer retransmission whose acknowledgement was lost), if that board runs, and if
the frame is in the clear or sealed with the key the receiver has installed. A
board whose peer is encrypted may or may not get frames in the clear. Frames of
one board are not reordered: the driver sends them in order, one at a time.
`Strays` are frames of other firmware: they do not parse, carry another session
ID, or hold no message of this protocol. Frames made to imitate the protocol are
outside this model.

Abstractions: the transport sequence number, which nothing reads; payload bytes;
logging. The MAC of a board is its name. A payload body says which ephemeral
keys it is bound to and as whom its sender can authenticate.

The 250 ms, 750 ms and 2 s delays appear as the constant `Timely`. When TRUE the
ACK has left before the responder changes its key, the responder has left its
delay before the initiator sends KEY_TEST, and the responder listens before the
initiator starts. When FALSE they guarantee nothing. No safety result needs
`Timely`.

### LakersSessions and the code

Each of the six actions is one `extern "C"` function with every argument class
it distinguishes (null MACs, null or short buffer, empty input, each message ever
produced, a role that is none, channels on both sides of 1 and of 14). `last` is
the latest status. Calls are serialised, as `lib.rs:147` requires of the caller,
and the caller names another board as its peer: the library does not compare the
two MACs.

### TimedPairing and the code

`TimedPairing` extends `Pairing` with three clocks per board and a `Tick`. A step
of `Pairing` takes no time. `left` counts down the `vTaskDelay` or the start delay
a board is in, and `NotEarly` keeps it there until it is zero, unless it is reset:
a power loss waits for nothing. `queued` and
`ready` count how long the present head of the driver's queue has been there (a
frame appended behind it changes nothing) and how long `app_task` could have run, and `InTime` stops the clock before one of them
passes its bound. The bounds `MaxTx`, `MaxRun` and `MaxSkew` are properties of
radio, scheduler and operator, not of the source; `MaxSkew` bounds how long the
responder may be down while the initiator counts to its start, and nothing after
that.

### BootSequence and the code

| Variable | In the code or around it |
|---|---|
| `env` | the board at hand: room for 32 KiB stacks on the heap, which Rust library is linked, `PEER_MAC`, which steps fail |
| `flash` | the condition of the NVS partition; survives a reset |
| `main`, `up` | the next step of `app_main` and those done in this boot |
| `worker`, `app` | the tasks `lakers_init` and `milestone9_app` |
| `job`, `notice` | `job.result` on the stack of the main task; its task notification |
| `session`, `callers` | the Rust session cell; history: which tasks called the library |
| `rx` | how full `s_rx_queue` is |

One action per step of `app_main` and of the worker, since each ends in a call of
the operating system at which another task may run, on either core. `InitFlash`
takes the erase of a full partition and its second initialisation as two steps,
because power may fail between them. `Probe` is the constructor that runs before
the scheduler. `AppCalls` and `AppReturns` stand for all that `app_task` does in
the library, which `Pairing` details.

### EdhocTransport and the code

The wire layout of `edhoc_transport_hdr_t` byte by byte, as the little-endian ESP32
lays out a packed struct. `Packet` is the copy `espnow_recv_cb` queues: zeroed
behind the received bytes and with their number. `Accepts` is every check of
`edhoc_transport_parse_rx`, `Parsed` the message it fills. The parser accepts some
frames that no board sends: any type, any flags, one fragment of several, bytes
behind the payload.

### KeyManager and the code

`pmk` and `peer` are the driver's; `at` is the next driver call. Each call may fail
(`Faults`), and `PutIgnored` is a put that reports success and changes nothing,
the case `key_manager.c:69` checks for. Between any two calls the Wi-Fi task may
send (`Transmit`) under the entry of that moment. The driver's add refuses an
existing peer and its modify a missing one.

## 3. What the runs show

| Run | Question | Bounds |
|---|---|---|
| `pairing_faults` | Do key confirmation and the two state machines survive loss, duplicates, resets, failed installs and short delays? Does `Pairing` implement `KeyConfirmation`? | 3 boots per board, 0 to 2 copies per frame, both install faults, `Timely = FALSE`, 52 907 states |
| `pairing_strays` | Is every error branch harmless, and what does FAILED mean? | 1 boot, receive queue of 2, seven stray frames at any time, `prepare` fault, 353 230 states |
| `pairing_builds` | Which builds pair, which fail and where, which wait for good? (liveness) | every single edit on either board, 1 boot, 1 or 2 copies, `Timely` |
| `pairing_reset` | After any history, do two fresh boards pair? (liveness) | 2 boots per board, `Timely` |
| `lakers_calls` | What does the library promise any caller? | 2 boards, 3 sessions in either role, channels 0, 1, 14 and 15, every other argument valid and invalid; 74 182 states |
| `boot` | Does every boot end, and is it the boot `Pairing` assumes, whatever fails and however the tasks interleave? | 2 boots, receive queue of 2, room for 0 to 2 stacks, both libraries, 4 peer MACs, no or all faults, 4 conditions of the flash; 2 114 states |
| `timed_pairing` | Are the three delays long enough, and does progress of time alone complete a pairing? | 50 ms ticks: delays 40, 5, 15; a frame leaves within 4 ticks, a handler runs within 9, the responder listens within 39; 1 or 2 copies; 3 200 states |
| `framing` | Is every frame read as it was meant, and no byte that was not received? | payloads of 0 to 239 bytes, foreign frames of 0 to 251 bytes with good and bad headers, the sizes of the source; 11 402 states |
| `keys` | Which outcomes has the key manager, and what leaves meanwhile? | 3 keys, 3 boots, every call failing; 207 states |
| `boot_one_task` | *violated:* all calls of the Rust library come from one task (lib.rs:147) | 1 boot |
| `pairing_negative_tests` | *violated:* an edited credential or key never leads to PASS (README.md:158-166) | single key edits |
| `pairing_round_trip` | *violated:* PASS means the round trip succeeded (components/lakers_ffi/README.md:111-118) | lossy radio |

Why the bounds are enough. With three boots of a board there are two earlier
incarnations whose frames and keys can meet a third; the history of any pair of
incarnations is then already possible, and one more adds names but no new
combination of guards. A queue of ten is never full in `pairing_faults` (the
source's own value); `pairing_strays` takes two so that overflow happens in most
behaviours. Copies beyond two repeat what two do: the state after the first copy
refuses the second. Every fault is exercised in each of its places. The proofs
of section 4 are for all values of these bounds.

The other bounds: the second boot of `boot` meets what the first left in the
flash, and nothing else survives. Two is all the stacks a board ever needs at
once. In `timed_pairing` the bounds are the largest the delays allow: with any of
the three one tick longer (`MaxTx = 5`, `MaxRun = 10` or `MaxSkew = 40`, the
assumption `DelayAssumption` left out) TLC finds `DelaysSuffice` violated. So the
firmware tolerates less than 250 ms to get the ACK out, less than 500 ms between
the two delays, and a responder that listens less than 2 s after the initiator's
`app_task` has started. Boots are not repeated there: a responder that is reset
just before the initiator's start is down at that moment, however long the delay.
What the other two delays guarantee over resets is proved (section 4). In `framing` the lengths sit on both sides of every
comparison (12, 192, 205, 250), and the proofs cover all others. In `keys` the
boots are independent of each other.

Deadlock is not checked in the runs of `Pairing`: a board that waits for a frame
which never comes polls for ever (main.c:504), which changes nothing, and resets
are bounded by `MaxBoots`. For the same reason `boot`, `timed_pairing` and `keys` do not
check it: a board in `app_task` without a frame, a halted one and an installed key
are at rest. `lakers_calls` and `framing` check it.

The properties, by hazard:

* `PhaseInStep`, `NeverWrongState`: while `app_task` runs, its state determines
  the phase of the Rust session, so no call is ever refused as `WRONG_STATE`.
* `ConfirmedInOrder`: the initiator verifies a KEY_TEST_ACK only under keys the
  responder has verified a KEY_TEST under, which both derived. `KeyTestSealed`: a key
  test in a receive queue came in under exactly the key installed there, which the
  peer derived too.
* `CompleteAgree`: two boards in COMPLETE have the same key, also after resets.
* `ConfirmationOrder`: `Pairing` implements `KeyConfirmation` (refinement by
  the history variables). The delicate part is `Derive`: the initiator exports
  on an ACK that names no transcript, and the abstract specification demands
  that the responder has accepted *this* transcript.
* `FailedSticky`: FAILED is left by a reset only, or by the initiator's start,
  which does not look at the state (main.c:473).
* `NoKeyWithoutMutualAuth`, `CorruptionNeverPasses`, `ImpostorRejected`,
  `CorruptionStalls`, `PairingCompletes`: the negative tests and the acceptance
  checklist of the repository's README, over all single edits.
* `FreshPairCompletes`: two fresh boards pair whatever came before, unless one
  of them is reset again. Resetting one board alone has no such effect, because
  the other takes no second M1.
* `DelaysSuffice`: `TimedPairing` implements `Pairing` with `Timely = TRUE`.
  `PairingCompletes` holds there from the progress of time alone.
* `JobOutlivesWorker`, `StatusTrue`, `OneTaskInLibrary`: the worker writes a job
  that lives on another task's stack; the session is what its status says; and no
  lock protects it, so the notification has to be what orders the two tasks.
* `BootOrder`: the queue before the callback, the radio before the session draws
  its key. `BootImplementsBoard`: nothing of the detailed boot shows that the
  boot in `Pairing` does not have.
* `BootEnds`, `BootCompletes`: `app_main` waits for ever only after a panic of the
  library; and a board without faults comes up, over a power loss at any step.
  With memory for one stack it need not: the idle task has to free the worker's
  stack before `app_main` asks for the next one, and the assumption
  `env.room >= 2` says so.
* `RoundTrip`, `PayloadReceived`, `VerdictFromReceived`, `TruncatedRefused`:
  encoder against parser, and the parser against any bytes.
* `PairingOutcomes`, `FramesUnderLmk`, `OnlyFaultsFail`: the key manager.
  `PairingOutcomes` needs that the entry was in the clear before, since the
  read-back looks at the flag and not at the key; a board installs once in a boot.
* `FailedCallsKeepOrKill`: a call refused leaves every session as it was; a protocol
  error ends the caller's session, which was under way, keeps only its role, and
  touches no other. `PhasesInOrder`, `OneAnswerPerEphemeral`,
  `ResponderFollowsInitiator`, `ExportsAgree`: the library alone.

### Fairness

`FairSpec` is used only where liveness is checked. It has weak fairness of

* each board's boot (`app_main` has nothing to wait for but its own worker);
* each driver's transmission (a queued frame leaves);
* each board's message handling (the task polls its queue with a 100 ms timeout,
  main.c:504, and is the highest application task);
* the end of the two delays, and the initiator's start (tick counts).

`boot` has weak fairness of power-on, of `app_main`'s next step, of the worker, of
the idle task and of `app_task`'s return from the library: each is a ready task
with nothing above it but the Wi-Fi task, and a task that spins after a panic
takes one core of two. There is none on power loss or on faults. `timed_pairing` has
weak fairness of its whole next-state relation only: something goes on happening,
if only time. That frames leave and handlers run follows from `InTime`.

There is none on resets and none on stray frames. That every frame arrives is
not fairness but the choice `Copies = {1, 2}` of those two runs; the code
retries nothing, so with loss it does not complete, which is what
`pairing_round_trip` ends in.

## 4. What is proved

`PairingProofs` proves, from `PairingAssumption` and `StraysAssumption` alone
(the bounds are positive, the sets are what their comments say, strays are not
frames of this protocol), for every number of boots, queue length, delivery,
fault, build and stray:

| Theorem | Property |
|---|---|
| `TypeCorrect` | `TypeOK`, with the bound on the receive queue |
| `StepsCorrect` | `PhaseInStep` |
| `StatesCorrect` | `NeverWrongState` |
| `KeysConfirmedInOrder` | `ConfirmedInOrder` |
| `TestsSealed` | `KeyTestSealed` |
| `CorruptionExcluded` | `CorruptionNeverPasses` |
| `FailedStays` | `FailedSticky` |

The inductive invariant is `TypeOK /\ CallInv /\ KeyInv` (theorem
`KeysCorrect`).

`CallInv` adds to `PhaseInStep` and `NeverWrongState` where `app_task` can be in
which state (`TaskStates`) and which context a live session carries
(`SessionContext`). It is inductive by itself: each handler is entered in one
state, which fixes the phase, so the call it makes is in phase
(`HandlerFacts`) and leaves the phase the next state stands for.

`ConfirmedInOrder` says what happened and `KeyTestSealed` what is queued. Neither is
inductive: the responder confirms a key because of the packet at the head of its queue,
and that packet is sealed because its sender had installed a key when it left.
`KeyInv` therefore follows a key test from the driver's queue (`TestsToSend`:
a queued key test will leave sealed) over the air to the receive queue
(`KeyTestSealed`, `TestAcks`), and says in which states a key can be installed
at all (`InstalledKey`), so that installing one never changes the key under a
test that is already queued. `DerivedKeys` says what exported keys look like:
their context has a real channel, so no exported key is taken for `Plain`, and
they carry their board's corruption, which with `ConfirmedInOrder` gives
`CorruptionExcluded`.

`ConfirmationProofs` goes on from there, under the same two assumptions:

| Theorem | Property |
|---|---|
| `ImplementsConfirmation` | `ConfirmationOrder`: every step of `Pairing` is one of `KeyConfirmation` or a stutter |
| `CompletePairsAgree` | `CompleteAgree` |
| `KeysNeedMutualAuth` | `NoKeyWithoutMutualAuth` |

The step that matters is the initiator's export. It exports when it takes an ACK,
and the ACK is a fixed text: the code compares no transcript there
(main.c:137-149). That the ACK still belongs to *this* run follows from the order
in which things leave and arrive, so the inductive invariant (theorem
`TranscriptsCorrect`: `TypeOK /\ CallInv /\ KeyInv /\ ConfirmationInv`) is about
what is on its way.

* `PairInv` orders the pairs of ephemeral keys that anything in the system is
  bound to. Keys are numbered by boots. A message_1 leaves first and carries the
  key of its boot (`FirstSent`, `KeysLeft`), so later keys of the initiator are
  never bound to earlier keys of the responder (`Ordered`), and what binds the
  responder's present key comes from the one message_1 it answered (`Current`).
  `Waiting` keeps that so for a message_1 that still lies in a queue while the
  responder is reset.
* `AckInv` follows the ACK: it is sent by a finished session (`AckSent`), so the
  responder has accepted what a message_2 before it in the queue offers
  (`AckAfterM2`), and hence what a finished initiator that finds an ACK has
  accepted itself (`AckArrived`).
* `DerivedAccepted` and `SessionKey` tie exported and installed keys to accepted
  transcripts; with `PairInv` two boards in COMPLETE can only hold keys of one
  transcript. `AuthInv` carries the credentials along: whatever can authenticate
  does so with what was compiled in.

`LakersSessionsProofs` proves, from the assumptions of `LakersSessions` alone, what
the library promises *any* caller, for any number of boards and sessions:

| Theorem | Property |
|---|---|
| `CallerTypes` | `TypeOK` |
| `FailuresKeepOrKill` | `FailedCallsKeepOrKill` |
| `SessionsInOrder` | `PhasesInOrder` |
| `EphemeralsAnswerOnce` | `OneAnswerPerEphemeral` |
| `RespondersFollow` | `ResponderFollowsInitiator` |
| `TwoBoardsExportAlike` | `ExportsAgree`, for at most two boards |

Each call is first reduced to its cases (turned away, ended, carried out). Its
invariant (`CallerInvariant`) says that an ephemeral key is drawn once and held by
one live session (`KeysDrawn`), and that message_2, message_3 and a completed run
use up theirs (`M2Drawn`, `M3Done`, `DoneDrawn`); `ExportInv` adds the boards that
the contexts name. `ExportsAgree` needs the hypothesis `AtMostTwoBoards`: the peer
in the exporter context is what the caller said at `session_init`, and with three
boards the two ends of a run may have been told different peers, whose exports
then differ, as they should. The firmware knows two boards.

`TimedPairingProofs` proves what the delays of `device_config.h:25-32` are for, from
`DelayAssumption` and the assumptions of `Pairing`:

| Theorem | What it says |
|---|---|
| `AckLeavesFirst` | the responder leaves its delay only when its ACK has left the driver |
| `SwitchBeforeTest` | the initiator sends KEY_TEST only when the responder is not in that delay |
| `DelaysAreEnough` | `DelaysSuffice`: `TimedPairing` implements `Pairing` with `Timely = TRUE`, where boards boot once (`OneBoot`) |

By construction a behaviour of `TimedPairing` is one of `Pairing` (lemma
`PairingUnderClock`), so all of the above holds there. The first two theorems hold
over any number of resets. The invariant
(`ClocksCorrect`) compares clocks: while the responder sleeps its driver has at most
the ACK to send, which has been there as long as the responder has slept
(`AckLeaves`), and what the responder has slept and is late makes up for what is
over of the initiator's delay (`SwitchedFirst`). That both hold when the responder
goes to sleep is a fact about `Pairing` (`ResponderInv`): its message_2 has left
then, and the initiator cannot be asleep. Over a key of this responder boot it
cannot, since nothing of this boot has been accepted yet; and had it finished with
an earlier boot, the order of keys (`Ordered`) would leave no message_3 for the
responder to take. `OneBoot` also asks that
the responder's own credential parses: with one that does not, it aborts in
`session_init` and is down when the initiator starts, and so it is after a reset at
that moment. No delay prevents either, which is why the third promise of `Timely`,
and with it `DelaysAreEnough`, is for boards that boot once and come up.

`BootProofs` proves, from `BootAssumption`, the type invariant (`BootTypeCorrect`),
`JobSafe`, `StatusCorrect`, `CallsSerialized` and `BootOrdered`, and that
`BootSequence` implements `BoardBoot` (`BootRefines`: the initial states and every
step). The inductive invariant `BootInv` adds to the types which steps are done
where `app_main` is (`UpInv`) and how far the worker can be there (`TasksInv`):
the notification is given only by a worker that has written its result, so
`app_main` leaves its wait only when the worker is out of the library, and only
then can `app_task` exist.

`FramingProofs` proves, from `TransportAssumption`, all four properties of
`EdhocTransport` for every message, foreign frame and pair of limits
(`FramesRoundTrip`, `CopyInBounds`, `OnlyReceivedDecides`, `PrefixesRefused`). Its
invariant `FrameInv` says that the packet is a copy of the frame and an own frame
the encoding of its message; the work is in the lemmas `DecodedAsSent`,
`ClaimHonoured`, `RestIgnored` and `CutShort` about the operators.

`KeyManagerProofs` proves the three properties of `KeyManager`
(`OutcomesOfInstall`, `FramesProtected`, `NoSpuriousFailure`) for every set of keys
and faults; `KeyInv` follows the entry through the function, in the clear until
the put and under the fixed PMK after it.

Every invariant and every action property of a passing run is thus proved, and so
are the three refinements. Only model-checked is liveness, which the prover does
not do: `PairingCompletes`, `FreshPairCompletes`, `ImpostorRejected`,
`CorruptionStalls`, `BootEnds` and `BootCompletes`. What the three violated runs show
are counterexamples, and need no proof.

## 5. Where the documentation and the code differ

* `README.md:158-166` asks for a change of "one byte of one test credential or
  static private key" on one board and expects `PROTOCOL_ERROR`. A board uses
  only the private key of its own role (lib.rs:187, 198); a change of the other
  one has no effect and both boards pass. Run `pairing_negative_tests`.
* `components/lakers_ffi/README.md:123` says "Calls must be serialized through one
  task", and `lib.rs:147` that all calls are serialised by one application task.
  `session_init` runs on the worker task `lakers_init` and everything else on
  `milestone9_app`. They are serialised all the same (`OneTaskInLibrary`). Run
  `boot_one_task`. Line 124 of that README gives the task's stack as 24 KiB; it is
  32 768 bytes in `device_config.h` and `lakers_ffi_component.c`.
* `components/lakers_ffi/README.md:111-118` says PASS is printed only after the
  successful KEY_TEST / KEY_TEST_ACK round trip. The responder prints it when it
  has handed its KEY_TEST_ACK to the driver (main.c:436-444); if that frame is
  lost the initiator waits for good. Run `pairing_round_trip`.

## 6. Not modelled

* The Lakers protocol itself and its cryptography: external, symbolic.
* `key_manager_enable_static_espnow_encryption`: no caller. Calling it would be a
  state the program is never in.
* What Wi-Fi, NVS and the ESP-NOW driver do inside: external. Their calls are the
  steps of `BootSequence` and `KeyManager`.
* The checks for null arguments in the C code, which no caller meets, and
  everything that only logs: status and type names, the send callback, the
  summary of the LMK (whose moment is the history variable `derived`).
* The trace vectors (not compiled into the firmware) and the host reference, a
  sequential program in one process.

## 7. Plan

Done: `LakersFfi`, `KeyConfirmation`, `Pairing`, `LakersSessions` and
`PairingProofs` up to `KeyInv`; then `BootSequence` with `BoardBoot`,
`TimedPairing` (which took the place of a module of its own for the key switch:
the delays matter to the whole pairing), `EdhocTransport` and `KeyManager`, with
their proofs; then `ConfirmationProofs`, `LakersSessionsProofs` and
`TimedPairingProofs`, which left no safety property unproved.

What could follow:

1. Safety facts behind the liveness results, as theorems: what a board waits for in
   each state, so that a pairing that stops can only have stopped by loss, reset,
   a failed installation or builds that differ.
2. The interfaces between modules that are argued in section 2 and not proved: that
   the three outcomes of `Install` in `Pairing` are those of `KeyManager`, and that
   the frames of `Pairing` are read by `EdhocTransport` as they were meant.
