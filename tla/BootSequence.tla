---------------------------- MODULE BootSequence ----------------------------
(***************************************************************************)
(* One board from power-on to app_task: the boot probe, app_main on        *)
(* ESP-IDF's main task, the worker task in which the Lakers session is     *)
(* built, the Wi-Fi task that queues frames, and the idle task that frees  *)
(* the stacks of deleted tasks.  The ESP32 has two cores, so the tasks     *)
(* interleave freely.  ESP_ERROR_CHECK and abort() reset the board.        *)
(***************************************************************************)
EXTENDS Naturals, FiniteSets, Sequences

CONSTANTS
  MaxBoots,   \* bound: how often the board may boot
  QueueLen,   \* ESPNOW_TRANSPORT_RX_QUEUE_LEN
  Rooms,      \* how many 32 KiB task stacks the heap may have room for
  Libraries,  \* what may be linked: the "matching" Rust library or "another"
  PeerMacs,   \* what PEER_MAC may be
  FaultSets,  \* sets of steps that may fail
  Flashes     \* in what condition the NVS partition may be

Byte == 0 .. 255
Macs == [1 .. 6 -> Byte]

\* The steps that can fail by themselves; "session" is a refused session and
\* "panic" a panic in the Rust library.
Fallible == {"erase", "wifi", "queue", "espnow", "callback", "peer", "session",
             "panic"}

ASSUME BootAssumption ==
  /\ MaxBoots \in Nat \ {0}
  /\ QueueLen \in Nat \ {0}
  /\ Rooms \subseteq Nat
  /\ Libraries \subseteq {"matching", "another"}
  /\ PeerMacs \subseteq Macs
  /\ FaultSets \subseteq SUBSET Fallible
  /\ Flashes \subseteq {"good", "blank", "full", "newer", "broken"}

VARIABLES
  env,      \* the board at hand: room, library, peerMac, faults
  flash,    \* the NVS partition, which outlives a reset
  boot,     \* how often it has booted
  main,     \* the step app_main is about to take
  up,       \* the steps done that set something up, in this boot
  worker,   \* the task "lakers_init"
  app,      \* the task "milestone9_app"
  job,      \* result in the lakers_init_job_t on the caller's stack
  notice,   \* the notification of the main task
  session,  \* the Rust session cell
  rx,       \* how many packets are in s_rx_queue
  callers   \* history: the tasks that called the session functions, this boot

ram == <<main, up, worker, app, job, notice, session, rx, callers>>
vars == <<env, flash, boot, ram>>

\* The order of app_main and espnow_transport_init; after "wait" the wrapper has
\* returned.  Mutant: the callback is registered before its queue exists.
AfterCallbackFirst ==
  [probe |-> "nvs", nvs |-> "wifi", wifi |-> "espnow", espnow |-> "callback",
   callback |-> "queue", queue |-> "peer", peer |-> "worker", worker |-> "wait",
   wait |-> "app", app |-> "done"]
After ==
  [probe |-> "nvs", nvs |-> "wifi", wifi |-> "queue", queue |-> "espnow",
   espnow |-> "callback", callback |-> "peer", peer |-> "worker", worker |-> "wait",
   wait |-> "app", app |-> "done"]

Steps == {"probe", "nvs", "wifi", "queue", "espnow", "callback", "peer", "worker",
          "wait", "app"}

Init ==
  /\ env \in [room : Rooms, library : Libraries, peerMac : PeerMacs,
              faults : FaultSets]
  /\ flash \in Flashes
  /\ boot = 0
  /\ main = "off" /\ up = {} /\ worker = "none" /\ app = "none"
  /\ job = "none" /\ notice = FALSE /\ session = "Empty" /\ rx = 0
  /\ callers = {}

PowerDown ==
  /\ main' = "off" /\ up' = {} /\ worker' = "none" /\ app' = "none"
  /\ job' = "none" /\ notice' = FALSE /\ session' = "Empty" /\ rx' = 0
  /\ callers' = {}

PowerOn ==
  /\ main = "off"
  /\ boot < MaxBoots
  /\ boot' = boot + 1
  /\ main' = "probe"
  /\ UNCHANGED <<env, flash, up, worker, app, job, notice, session, rx, callers>>

PowerLoss ==
  /\ main # "off"
  /\ boot < MaxBoots
  /\ PowerDown
  /\ UNCHANGED <<env, flash, boot>>

MayFail(step) == step \in env.faults

Done == main' = After[main] /\ up' = up \cup {main}

\* The constructor that runs before the scheduler: ABI version and transform.
Probe ==
  /\ main = "probe"
  /\ IF env.library = "matching"
     THEN Done /\ UNCHANGED <<worker, app, job, notice, session, rx, callers>>
     ELSE PowerDown
  /\ UNCHANGED <<env, flash, boot>>

\* nvs_init.  Mutant: an unusable partition is not erased.
InitFlashOnce ==
  /\ main = "nvs"
  /\ UNCHANGED <<env, boot, flash>>
  /\ IF flash \in {"good", "blank"}
     THEN Done /\ UNCHANGED <<worker, app, job, notice, session, rx, callers>>
     ELSE PowerDown

InitFlash ==
  /\ main = "nvs"
  /\ UNCHANGED <<env, boot>>
  /\ \/ /\ flash \in {"good", "blank"}
        /\ flash' = "good"
        /\ Done
        /\ UNCHANGED <<worker, app, job, notice, session, rx, callers>>
     \/ flash \in {"full", "newer"} /\ flash' = "blank" /\ UNCHANGED ram
     \/ flash = "broken" /\ UNCHANGED flash /\ PowerDown

\* espnow_transport_init, whose caller is under ESP_ERROR_CHECK: Wi-Fi, the queue,
\* ESP-NOW, the callback.
TransportSteps == {"wifi", "queue", "espnow", "callback"}
SetUp ==
  /\ main \in TransportSteps
  /\ Done
  /\ UNCHANGED <<env, flash, boot, worker, app, job, notice, session, rx, callers>>

TransportFails ==
  /\ main \in TransportSteps
  /\ MayFail(main)
  /\ PowerDown
  /\ UNCHANGED <<env, flash, boot>>

\* nvs_flash_erase is itself under ESP_ERROR_CHECK.
EraseFails ==
  /\ main = "nvs"
  /\ flash \in {"full", "newer"}
  /\ MayFail("erase")
  /\ PowerDown
  /\ UNCHANGED <<env, flash, boot>>

\* peer_mac_is_configured: neither all 0x00 nor all 0xFF, and not a group address.
Configured(mac) ==
  /\ \E i \in 1 .. 6 : mac[i] # 0
  /\ \E i \in 1 .. 6 : mac[i] # 255
  /\ mac[1] % 2 = 0

AddPeer ==
  /\ main = "peer"
  /\ \/ /\ ~Configured(env.peerMac)
        /\ main' = "halted"
        /\ UNCHANGED <<up, worker, app, job, notice, session, rx, callers>>
     \/ /\ Configured(env.peerMac)
        /\ Done
        /\ UNCHANGED <<worker, app, job, notice, session, rx, callers>>
     \/ Configured(env.peerMac) /\ MayFail("peer") /\ PowerDown
  /\ UNCHANGED <<env, flash, boot>>

\* Each task holds a 32 KiB stack, the worker until the idle task has freed it.
StackFree ==
  (IF worker = "none" THEN 0 ELSE 1) + (IF app = "none" THEN 0 ELSE 1) < env.room

\* __wrap_lakers_edhoc_session_init: the job goes on the caller's stack.
\* Mutant: a worker that could not be created is taken for a success.
CreateWorkerUnchecked ==
  /\ main = "worker"
  /\ IF StackFree
     THEN /\ Done /\ worker' = "calling" /\ job' = "PROTOCOL_ERROR"
          /\ callers' = callers \cup {"worker"}
          /\ UNCHANGED <<app, notice, session, rx>>
     ELSE /\ main' = "app"
          /\ UNCHANGED <<up, worker, app, job, notice, session, rx, callers>>
  /\ UNCHANGED <<env, flash, boot>>

CreateWorker ==
  /\ main = "worker"
  /\ IF StackFree
     THEN /\ Done /\ worker' = "calling" /\ job' = "PROTOCOL_ERROR"
          /\ callers' = callers \cup {"worker"}
          /\ UNCHANGED <<app, notice, session, rx>>
     ELSE PowerDown
  /\ UNCHANGED <<env, flash, boot>>

\* Mutant: the caller is notified before the result is in its job.
WorkerReturnsNotified ==
  /\ worker = "calling"
  /\ worker' = "written"
  /\ notice' = TRUE
  /\ \/ job' = "OK" /\ session' = "Live"
     \/ MayFail("session") /\ job' = "CREDENTIAL_ERROR" /\ UNCHANGED session
  /\ UNCHANGED <<env, flash, boot, main, up, app, rx, callers>>

\* The real session_init returns into the job.
WorkerReturns ==
  /\ worker = "calling"
  /\ worker' = "written"
  /\ \/ job' = "OK" /\ session' = "Live"
     \/ MayFail("session") /\ job' = "CREDENTIAL_ERROR" /\ UNCHANGED session
  /\ UNCHANGED <<env, flash, boot, main, up, app, notice, rx, callers>>

\* Mutant: the task is deleted without the notification.
WorkerLeaves ==
  /\ worker = "written"
  /\ worker' = "notified"
  /\ UNCHANGED <<env, flash, boot, main, up, app, job, notice, session, rx, callers>>

WorkerNotifies ==
  /\ worker = "written"
  /\ worker' = "notified"
  /\ notice' = TRUE
  /\ UNCHANGED <<env, flash, boot, main, up, app, job, session, rx, callers>>

WorkerDeletesItself ==
  /\ worker = "notified"
  /\ worker' = "deleted"
  /\ UNCHANGED <<env, flash, boot, main, up, app, job, notice, session, rx, callers>>

IdleFreesStack ==
  /\ worker = "deleted"
  /\ worker' = "none"
  /\ UNCHANGED <<env, flash, boot, main, up, app, job, notice, session, rx, callers>>

\* The wrapper returns job.result; app_main aborts unless it is OK.  Mutants: a
\* finite timeout; the status is not looked at.
MainWakesByTimeout ==
  /\ main = "wait"
  /\ notice' = FALSE
  /\ main' = "app" /\ up' = up \cup {"wait"}
  /\ UNCHANGED <<env, flash, boot, worker, app, job, session, rx, callers>>
MainWakesUnchecked ==
  /\ main = "wait"
  /\ notice
  /\ notice' = FALSE
  /\ Done
  /\ UNCHANGED <<env, flash, boot, worker, app, job, session, rx, callers>>

MainWakes ==
  /\ main = "wait"
  /\ notice
  /\ IF job = "OK"
     THEN /\ Done /\ notice' = FALSE
          /\ UNCHANGED <<worker, app, job, session, rx, callers>>
     ELSE PowerDown
  /\ UNCHANGED <<env, flash, boot>>

CreateApp ==
  /\ main = "app"
  /\ IF StackFree
     THEN /\ Done /\ app' = "loop"
          /\ UNCHANGED <<worker, job, notice, session, rx, callers>>
     ELSE PowerDown
  /\ UNCHANGED <<env, flash, boot>>

\* Mutant: one packet more than the queue holds.
FrameArrivesOneMore ==
  /\ "callback" \in up
  /\ rx <= QueueLen
  /\ rx' = rx + 1
  /\ UNCHANGED <<env, flash, boot, main, up, worker, app, job, notice, session,
                 callers>>

\* espnow_recv_cb on the Wi-Fi task; a full queue drops the frame.
FrameArrives ==
  /\ "callback" \in up
  /\ rx < QueueLen
  /\ rx' = rx + 1
  /\ UNCHANGED <<env, flash, boot, main, up, worker, app, job, notice, session,
                 callers>>

\* app_task takes a packet, or starts the handshake, and calls the library.
AppCalls ==
  /\ app = "loop"
  /\ app' = "calling"
  /\ \E n \in {0, 1} : n <= rx /\ rx' = rx - n
  /\ callers' = callers \cup {"app"}
  /\ UNCHANGED <<env, flash, boot, main, up, worker, job, notice, session>>

AppReturns ==
  /\ app = "calling"
  /\ app' = "loop"
  /\ UNCHANGED <<env, flash, boot, main, up, worker, job, notice, session, rx, callers>>

\* The panic handler of the Rust library spins for ever in the calling task.
Panics ==
  /\ MayFail("panic")
  /\ \/ worker = "calling" /\ worker' = "spinning" /\ UNCHANGED app
     \/ app = "calling" /\ app' = "spinning" /\ UNCHANGED worker
  /\ UNCHANGED <<env, flash, boot, main, up, job, notice, session, rx, callers>>

MainStep ==
  Probe \/ InitFlash \/ SetUp \/ AddPeer \/ CreateWorker \/ MainWakes \/ CreateApp

WorkerStep == WorkerReturns \/ WorkerNotifies \/ WorkerDeletesItself

Next ==
  \/ PowerOn \/ PowerLoss
  \/ Probe \/ InitFlash \/ SetUp \/ TransportFails \/ EraseFails \/ AddPeer
  \/ CreateWorker \/ MainWakes \/ CreateApp
  \/ WorkerReturns \/ WorkerNotifies \/ WorkerDeletesItself \/ IdleFreesStack
  \/ FrameArrives \/ AppCalls \/ AppReturns \/ Panics

Spec == Init /\ [][Next]_vars

\* Every task that is ready gets a core at last: the Wi-Fi task above them does
\* little, and a spinning task takes only one of the two.
Fairness ==
  /\ WF_vars(PowerOn) /\ WF_vars(MainStep) /\ WF_vars(WorkerStep)
  /\ WF_vars(IdleFreesStack) /\ WF_vars(AppReturns)

FairSpec == Spec /\ Fairness

-----------------------------------------------------------------------------
(* Properties. *)

TypeOK ==
  /\ env \in [room : Rooms, library : Libraries, peerMac : PeerMacs,
              faults : FaultSets]
  /\ flash \in {"good", "blank", "full", "newer", "broken"}
  /\ boot \in 0 .. MaxBoots
  /\ main \in Steps \cup {"off", "halted", "done"}
  /\ up \subseteq Steps
  /\ worker \in {"none", "calling", "written", "notified", "deleted", "spinning"}
  /\ app \in {"none", "loop", "calling", "spinning"}
  /\ job \in {"none", "OK", "PROTOCOL_ERROR", "CREDENTIAL_ERROR"}
  /\ notice \in BOOLEAN
  /\ session \in {"Empty", "Live"}
  /\ rx \in 0 .. QueueLen
  /\ callers \subseteq {"worker", "app"}

\* While the worker may still touch the job, the stack frame that holds it is
\* alive: the caller is inside the wrapper (component.c:70-88, 106-129).
JobOutlivesWorker == worker \in {"calling", "written"} => main = "wait"

\* What app_main learns is what the real session_init did: it goes on only with
\* a live session, also when a task could not be created (component.c:120-129,
\* main.c:558-563).
StatusTrue == main \in {"app", "done"} => session = "Live"

\* The session cell is declared Sync and has no lock (lib.rs:145-150): no two
\* tasks are inside the library at once.
OneTaskInLibrary ==
  ~(worker \in {"calling", "spinning"} /\ app \in {"calling", "spinning"})

\* Frames are queued as soon as the callback is registered, so its queue exists
\* by then (espnow_transport.c:74-81); and session_init draws its ephemeral key
\* from the hardware generator, which is random only with the radio on.
BootOrder ==
  /\ "callback" \in up => "queue" \in up
  /\ callers # {} => {"wifi", "peer"} \subseteq up

\* The many steps are one abstract boot: nothing of a session is seen before
\* app_task is, and a failure anywhere is a plain reset.
BoardTask ==
  IF main = "halted" THEN "halted"
  ELSE IF main = "done" THEN "loop"
  ELSE IF "callback" \in up THEN "listening" ELSE "down"
Board == INSTANCE BoardBoot WITH
  task <- BoardTask, session <- IF main = "done" THEN session ELSE "Empty"
BootImplementsBoard == Board!Spec

\* app_main waits with portMAX_DELAY (component.c:128): a boot that has begun
\* still ends, in app_task, a halt or a reset, unless the library has panicked.
BootEnds ==
  main # "off" ~> main \in {"off", "halted", "done"} \/ worker = "spinning"

\* Without faults, a configured board with memory for two stacks ends up running
\* app_task with the worker's stack freed, also when its NVS partition was full
\* and power failed after it was erased.  With memory for one it may not: the
\* idle task has to free the worker's stack before app_main asks for the next.
BootCompletes ==
  (/\ env.faults = {} /\ env.library = "matching" /\ env.room >= 2
   /\ flash # "broken" /\ Configured(env.peerMac)) =>
    <>[](main = "done" /\ app # "none" /\ worker = "none")

-----------------------------------------------------------------------------
\* components/lakers_ffi/README.md:123 and lib.rs:147: "All calls are serialized
\* by one ESP-IDF application task."
CallsFromOneTask == Cardinality(callers) <= 1
=============================================================================
