----------------------------- MODULE BootProofs -----------------------------
(***************************************************************************)
(* Theorems about BootSequence, for every number of boots, heap, library,  *)
(* PEER_MAC, flash and set of faults.                                      *)
(***************************************************************************)
EXTENDS BootSequence, TLAPS

\* What has been set up when app_main is about to take each of its steps.
Later == {"worker", "wait", "app", "done"}
Listening == {"peer", "halted"} \cup Later

UpInv ==
  /\ main = "off" => up = {}
  /\ "wifi" \in up <=> main \in {"queue", "espnow", "callback"} \cup Listening
  /\ "queue" \in up <=> main \in {"espnow", "callback"} \cup Listening
  /\ "callback" \in up <=> main \in Listening
  /\ "peer" \in up <=> main \in Later

\* Where the other tasks can be while app_main is where it is, and what the job
\* and the session cell then hold.
TasksInv ==
  /\ worker \in {"calling", "written", "spinning"} => main = "wait" /\ ~notice
  /\ worker # "none" => main \in {"wait", "app", "done"}
  /\ notice => main = "wait"
  /\ app # "none" => main = "done"
  /\ main = "wait" /\ job = "OK" => session = "Live"
  /\ main \in {"app", "done"} => session = "Live"
  /\ callers # {} => main \in {"wait", "app", "done"}

BootInv == TypeOK /\ UpInv /\ TasksInv

\* The types, by what changes together.
EnvOK ==
  /\ env \in [room : Rooms, library : Libraries, peerMac : PeerMacs,
              faults : FaultSets]
  /\ flash \in {"good", "blank", "full", "newer", "broken"}
  /\ boot \in 0 .. MaxBoots
MainOK == main \in Steps \cup {"off", "halted", "done"} /\ up \subseteq Steps
TasksOK ==
  /\ worker \in {"none", "calling", "written", "notified", "deleted", "spinning"}
  /\ app \in {"none", "loop", "calling", "spinning"}
  /\ job \in {"none", "OK", "PROTOCOL_ERROR", "CREDENTIAL_ERROR"}
  /\ notice \in BOOLEAN
  /\ session \in {"Empty", "Live"}
  /\ rx \in 0 .. QueueLen
  /\ callers \subseteq {"worker", "app"}

LEMMA Bounds == MaxBoots \in Nat /\ QueueLen \in Nat
  BY BootAssumption

LEMMA TypeParts == TypeOK <=> EnvOK /\ MainOK /\ TasksOK
  BY DEF TypeOK, EnvOK, MainOK, TasksOK

LEMMA InitBoot == Init => BootInv
<1> SUFFICES ASSUME Init PROVE BootInv
  OBVIOUS
<1>1. EnvOK
  BY BootAssumption DEF Init, EnvOK
<1>2. MainOK
  BY DEF Init, MainOK, Steps
<1>3. TasksOK
  <2>1. rx \in 0 .. QueueLen
    BY Bounds DEF Init
  <2>2. QED
    BY <2>1, Zenon DEF Init, TasksOK
<1>4. UpInv
  BY DEF Init, UpInv, Listening, Later
<1>5. TasksInv
  BY DEF Init, TasksInv
<1>6. QED
  BY <1>1, <1>2, <1>3, <1>4, <1>5, TypeParts DEF BootInv

\* No step touches the board or boots it beyond its bound.
LEMMA StepEnv == EnvOK /\ [Next]_vars => EnvOK'
<1> SUFFICES ASSUME EnvOK, [Next]_vars PROVE EnvOK'
  OBVIOUS
<1>1. env' = env
  BY DEF Next, PowerOn, PowerLoss, Probe, InitFlash, SetUp, TransportFails,
         EraseFails, AddPeer,
         CreateWorker, MainWakes, CreateApp, WorkerReturns, WorkerNotifies,
         WorkerDeletesItself, IdleFreesStack, FrameArrives, AppCalls, AppReturns,
         Panics, vars
<1>2. flash' \in {"good", "blank", "full", "newer", "broken"}
  BY DEF EnvOK, Next, PowerOn, PowerLoss, Probe, InitFlash, SetUp, TransportFails,
         EraseFails,
         AddPeer, CreateWorker, MainWakes, CreateApp, WorkerReturns, WorkerNotifies,
         WorkerDeletesItself, IdleFreesStack, FrameArrives, AppCalls, AppReturns,
         Panics, vars
<1>3. boot' \in 0 .. MaxBoots
  BY Bounds
     DEF EnvOK, Next, PowerOn, PowerLoss, Probe, InitFlash, SetUp, TransportFails,
         EraseFails,
         AddPeer, CreateWorker, MainWakes, CreateApp, WorkerReturns, WorkerNotifies,
         WorkerDeletesItself, IdleFreesStack, FrameArrives, AppCalls, AppReturns,
         Panics, vars
<1>4. QED
  BY <1>1, <1>2, <1>3 DEF EnvOK

RamInv == MainOK /\ TasksOK /\ UpInv /\ TasksInv

\* A reset, from wherever it comes, leaves the state of a board that is off.
LEMMA PowerDownRam == PowerDown => RamInv'
<1> SUFFICES ASSUME PowerDown PROVE RamInv'
  OBVIOUS
<1>1. MainOK'
  BY DEF PowerDown, MainOK, Steps
<1>2. TasksOK'
  <2>1. rx' \in 0 .. QueueLen
    BY Bounds DEF PowerDown
  <2>2. QED
    BY <2>1, Zenon DEF PowerDown, TasksOK
<1>3. UpInv'
  BY DEF PowerDown, UpInv, Listening, Later
<1>4. TasksInv'
  BY DEF PowerDown, TasksInv
<1>5. QED
  BY <1>1, <1>2, <1>3, <1>4 DEF RamInv

\* A step of app_main that is done keeps the order.
LEMMA DoneOrdered ==
  ASSUME MainOK, UpInv, main \in Steps, Done
  PROVE  MainOK' /\ UpInv' /\ main' \notin {"off", "probe", "halted"}
<1>1. main' \in Steps \cup {"done"} /\ main' \notin {"off", "probe", "halted"}
  BY DEF Done, Steps, After
<1>2. up' \subseteq Steps
  BY DEF Done, MainOK
<1>3. UpInv'
  BY DEF Done, UpInv, Steps, After, Listening, Later
<1>4. QED
  BY <1>1, <1>2, <1>3 DEF MainOK

\* Steps of the other tasks leave app_main where it is.
LEMMA SameMainOrdered ==
  ASSUME MainOK, UpInv, main' = main, up' = up
  PROVE  MainOK' /\ UpInv'
  BY DEF MainOK, UpInv

LEMMA StepRam == RamInv /\ [Next]_vars => RamInv'
<1> SUFFICES ASSUME RamInv, [Next]_vars PROVE RamInv'
  OBVIOUS
<1> USE DEF RamInv
<1>0. CASE PowerDown
  BY <1>0, PowerDownRam
<1>1. CASE PowerOn
  <2>1. MainOK' /\ UpInv'
    BY <1>1 DEF PowerOn, MainOK, UpInv, Steps, Listening, Later
  <2>2. QED
    BY <1>1, <2>1 DEF PowerOn, TasksOK, TasksInv
<1>2. CASE ~PowerDown /\ (Probe \/ SetUp)
  <2>1. Done /\ main \in {"probe", "wifi", "queue", "espnow", "callback"}
        /\ UNCHANGED <<worker, app, job, notice, session, rx, callers>>
    BY <1>2 DEF Probe, SetUp, TransportSteps
  <2>2. main' \notin {"wait", "app", "done"}
    BY <2>1 DEF Done, After
  <2>3. QED
    BY <2>1, <2>2, DoneOrdered DEF TasksOK, TasksInv, Steps
<1>3. CASE ~PowerDown /\ InitFlash
  <2>1. CASE Done /\ UNCHANGED <<worker, app, job, notice, session, rx, callers>>
    <3>1. main = "nvs" /\ main' = "wifi"
      BY <1>3, <2>1 DEF InitFlash, Done, After
    <3>2. QED
      BY <2>1, <3>1, DoneOrdered DEF TasksOK, TasksInv, Steps
  <2>2. CASE UNCHANGED ram
    BY <2>2, SameMainOrdered DEF ram, TasksOK, TasksInv
  <2>3. QED
    BY <1>3, <2>1, <2>2 DEF InitFlash
<1>4. CASE ~PowerDown /\ AddPeer
  <2>1. CASE Done /\ UNCHANGED <<worker, app, job, notice, session, rx, callers>>
    <3>1. main = "peer" /\ main' = "worker"
      BY <1>4, <2>1 DEF AddPeer, Done, After
    <3>2. QED
      BY <2>1, <3>1, DoneOrdered DEF TasksOK, TasksInv, Steps
  <2>2. CASE /\ main = "peer" /\ main' = "halted"
             /\ UNCHANGED <<up, worker, app, job, notice, session, rx, callers>>
    <3>1. MainOK' /\ UpInv'
      BY <2>2 DEF MainOK, UpInv, Listening, Later
    <3>2. QED
      BY <2>2, <3>1 DEF TasksOK, TasksInv
  <2>3. QED
    BY <1>4, <2>1, <2>2 DEF AddPeer
<1>5. CASE ~PowerDown /\ CreateWorker
  <2>1. main = "worker" /\ main' = "wait" /\ Done
    BY <1>5 DEF CreateWorker, Done, After
  <2>2. QED
    BY <1>5, <2>1, DoneOrdered DEF CreateWorker, TasksOK, TasksInv, Steps
<1>6. CASE ~PowerDown /\ MainWakes
  <2>1. main = "wait" /\ main' = "app" /\ Done
    BY <1>6 DEF MainWakes, Done, After
  <2>2. QED
    BY <1>6, <2>1, DoneOrdered DEF MainWakes, TasksOK, TasksInv, Steps
<1>7. CASE ~PowerDown /\ CreateApp
  <2>1. main = "app" /\ main' = "done" /\ Done
    BY <1>7 DEF CreateApp, Done, After
  <2>2. QED
    BY <1>7, <2>1, DoneOrdered DEF CreateApp, TasksOK, TasksInv, Steps
<1>8. CASE WorkerReturns
  BY <1>8, SameMainOrdered DEF WorkerReturns, TasksOK, TasksInv
<1>9. CASE WorkerNotifies
  BY <1>9, SameMainOrdered DEF WorkerNotifies, TasksOK, TasksInv
<1>10. CASE WorkerDeletesItself \/ IdleFreesStack
  <2>1. TasksOK'
    BY <1>10 DEF WorkerDeletesItself, IdleFreesStack, TasksOK
  <2>2. TasksInv'
    BY <1>10 DEF WorkerDeletesItself, IdleFreesStack, TasksInv
  <2>3. QED
    BY <1>10, <2>1, <2>2, SameMainOrdered DEF WorkerDeletesItself, IdleFreesStack
<1>11. CASE FrameArrives
  BY <1>11, SameMainOrdered, Bounds DEF FrameArrives, TasksOK, TasksInv
<1>12. CASE AppCalls \/ AppReturns
  <2>1. rx' \in 0 .. QueueLen
    BY <1>12, Bounds DEF AppCalls, AppReturns, TasksOK
  <2>2. TasksOK'
    BY <1>12, <2>1 DEF AppCalls, AppReturns, TasksOK
  <2>3. TasksInv'
    BY <1>12 DEF AppCalls, AppReturns, TasksInv
  <2>4. QED
    BY <1>12, <2>2, <2>3, SameMainOrdered DEF AppCalls, AppReturns
<1>13. CASE Panics
  BY <1>13, SameMainOrdered DEF Panics, TasksOK, TasksInv
<1>14. CASE UNCHANGED vars
  BY <1>14, SameMainOrdered DEF vars, ram, TasksOK, TasksInv
<1>15. QED
  BY <1>0, <1>1, <1>2, <1>3, <1>4, <1>5, <1>6, <1>7, <1>8, <1>9, <1>10, <1>11, <1>12,
     <1>13, <1>14 DEF Next, PowerLoss, TransportFails, EraseFails

LEMMA StepBoot == BootInv /\ [Next]_vars => BootInv'
  BY StepEnv, StepRam, TypeParts DEF BootInv, RamInv, EnvOK, MainOK, TasksOK, TypeOK

\* The inductive invariant: types, the order of the steps, and where each task
\* can be (main.c:514-576, lakers_ffi_component.c:68-129).
THEOREM BootCorrect == Spec => []BootInv
<1>1. QED
  BY InitBoot, StepBoot, PTL DEF Spec

\* Every variable keeps its type; the receive queue stays within its length.
THEOREM BootTypeCorrect == Spec => []TypeOK
<1>1. BootInv => TypeOK
  BY DEF BootInv
<1>2. QED
  BY <1>1, BootCorrect, PTL

\* The worker never touches a job whose stack frame is gone
\* (lakers_ffi_component.c:106-129).
THEOREM JobSafe == Spec => []JobOutlivesWorker
<1>1. BootInv => JobOutlivesWorker
  BY DEF BootInv, TasksInv, JobOutlivesWorker
<1>2. QED
  BY <1>1, BootCorrect, PTL

\* app_main goes on only with a live session (main.c:558-563).
THEOREM StatusCorrect == Spec => []StatusTrue
<1>1. BootInv => StatusTrue
  BY DEF BootInv, TasksInv, StatusTrue
<1>2. QED
  BY <1>1, BootCorrect, PTL

\* The unlocked session cell is in one task's hands at a time (lib.rs:145-150).
THEOREM CallsSerialized == Spec => []OneTaskInLibrary
<1>1. BootInv => OneTaskInLibrary
  BY DEF BootInv, TasksInv, OneTaskInLibrary
<1>2. QED
  BY <1>1, BootCorrect, PTL

\* The queue exists before the callback, radio and peer before the session
\* (espnow_transport.c:72-81, main.c:538-559).
THEOREM BootOrdered == Spec => []BootOrder
<1>1. BootInv => BootOrder
  BY DEF BootInv, TypeOK, UpInv, TasksInv, BootOrder, Listening, Later, Steps
<1>2. QED
  BY <1>1, BootCorrect, PTL

-----------------------------------------------------------------------------
\* The abstract state of a board whose steps are done in order.
LEMMA BoardTaskIs ==
  ASSUME BootInv
  PROVE  /\ main \in {"off", "probe", "nvs", "wifi", "queue", "espnow", "callback"}
              => BoardTask = "down"
         /\ main \in {"peer", "worker", "wait", "app"} => BoardTask = "listening"
         /\ main = "halted" => BoardTask = "halted"
         /\ main = "done" => BoardTask = "loop"
  BY DEF BootInv, UpInv, BoardTask, Listening, Later

\* The abstract view after a reset, and after a step that leaves main alone.
LEMMA ResetMaps ==
  ASSUME BootInv, BootInv', PowerDown
  PROVE  [Board!Next]_(Board!vars)
<1>1. BoardTask' = "down" /\ main' = "off"
  BY DEF PowerDown, BoardTask
<1>2. CASE BoardTask = "down"
  BY <1>1, <1>2, BoardTaskIs DEF BootInv, TypeOK, Board!vars, BoardTask
<1>3. CASE BoardTask # "down"
  BY <1>1, <1>3 DEF Board!Next, Board!Restart
<1>4. QED
  BY <1>2, <1>3

LEMMA SameMainMaps ==
  ASSUME main' = main, up' = up, main = "done" => session' = session
  PROVE  UNCHANGED Board!vars
  BY DEF Board!vars, BoardTask

\* Each step of app_main is a step of the abstract boot or is hidden by it.
LEMMA MainStepMaps ==
  ASSUME BootInv, BootInv', main \in Steps, main' = After[main],
         session' = session, up' = up \cup {main}
  PROVE  [Board!Next]_(Board!vars)
<1>1. CASE main \in {"probe", "nvs", "wifi", "queue", "espnow"}
  BY <1>1 DEF BootInv, UpInv, BoardTask, Listening, Later, After, Board!vars
<1>2. CASE main = "callback"
  BY <1>2 DEF BootInv, UpInv, BoardTask, Listening, Later, After, Board!Next, Board!Listen
<1>3. CASE main \in {"peer", "worker", "wait"}
  BY <1>3 DEF BootInv, UpInv, BoardTask, Listening, Later, After, Board!vars
<1>4. CASE main = "app"
  <2>1. BoardTask = "listening" /\ BoardTask' = "loop"
    BY <1>4 DEF BootInv, UpInv, BoardTask, Listening, Later, After
  <2>2. main' = "done" /\ session' = "Live"
    BY <1>4 DEF BootInv, TasksInv, After
  <2>3. QED
    BY <1>4, <2>1, <2>2 DEF Board!Next, Board!StartApp
<1>5. QED
  BY <1>1, <1>2, <1>3, <1>4 DEF Steps

LEMMA StepMaps == BootInv /\ BootInv' /\ [Next]_vars => [Board!Next]_(Board!vars)
<1> SUFFICES ASSUME BootInv, BootInv', [Next]_vars
             PROVE  [Board!Next]_(Board!vars)
  OBVIOUS
<1>1. CASE PowerDown
  BY <1>1, ResetMaps
<1>2. CASE PowerOn
  BY <1>2 DEF PowerOn, BootInv, UpInv, BoardTask, Listening, Later, Board!vars
<1>3. CASE ~PowerDown /\ (Probe \/ SetUp \/ CreateWorker \/ MainWakes \/ CreateApp)
  BY <1>3, MainStepMaps
     DEF Probe, SetUp, TransportSteps, CreateWorker, MainWakes, CreateApp, Done, Steps
<1>4. CASE ~PowerDown /\ InitFlash
  <2>1. CASE Done /\ UNCHANGED session
    BY <1>4, <2>1, MainStepMaps DEF InitFlash, Done, Steps
  <2>2. CASE UNCHANGED ram
    BY <2>2, SameMainMaps DEF ram
  <2>3. QED
    BY <1>4, <2>1, <2>2 DEF InitFlash, BootInv, TypeOK
<1>5. CASE ~PowerDown /\ AddPeer
  <2>1. CASE Done /\ UNCHANGED session
    BY <1>5, <2>1, MainStepMaps DEF AddPeer, Done, Steps
  <2>2. CASE main' = "halted" /\ up' = up
    BY <1>5, <2>2
       DEF AddPeer, BootInv, UpInv, BoardTask, Listening, Later, Board!Next, Board!Halt
  <2>3. QED
    BY <1>5, <2>1, <2>2 DEF AddPeer
<1>6. CASE WorkerReturns
  BY <1>6, SameMainMaps DEF WorkerReturns, BootInv, TasksInv
<1>7. CASE \/ WorkerNotifies \/ WorkerDeletesItself \/ IdleFreesStack
           \/ FrameArrives \/ AppCalls \/ AppReturns \/ Panics
  BY <1>7, SameMainMaps
     DEF WorkerNotifies, WorkerDeletesItself, IdleFreesStack, FrameArrives, AppCalls,
         AppReturns, Panics
<1>8. CASE UNCHANGED vars
  BY <1>8, SameMainMaps DEF vars, ram
<1>9. QED
  BY <1>1, <1>2, <1>3, <1>4, <1>5, <1>6, <1>7, <1>8
     DEF Next, PowerLoss, TransportFails, EraseFails

\* The boot of the code is the boot module Pairing works with: nothing of a
\* session is seen before app_task is, and every failure is a plain reset.
THEOREM BootRefines == Spec => BootImplementsBoard
<1>1. Init => Board!Init
  BY DEF Init, Board!Init, BoardTask
<1>2. QED
  BY <1>1, BootCorrect, StepMaps, PTL DEF Spec, BootImplementsBoard, Board!Spec
=============================================================================
