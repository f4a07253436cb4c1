--------------------------- MODULE SessionProofs ---------------------------
(***************************************************************************)
(* Session's type correctness, and that the first close() of a session     *)
(* accounts for everything it owns, proved for any set of devices, any of  *)
(* them made safe when disconnected, and any number of drivers that hang.  *)
(***************************************************************************)
EXTENDS Session, TLAPS

(* The session is being closed, and the closing has come to one of these labels. *)
Later(labels) == closer[Home].part = "session" /\ closer[Home].at \in labels

AfterWalk == {"devices", "waiting"}
AfterPolling == {"stopped"} \cup AfterWalk
AfterRecording == {"finalising", "exports", "polling", "stopping"} \cup AfterPolling
AfterRun == {"recording", "stopping_recording"} \cup AfterRecording

(* A screen's action that goes on is that of the open screen, or was overtaken. *)
WorkerInv ==
  worker.on => \/ overtaken
               \/ "operation" \in screens /\ closer[Home].at = "idle" /\ closer[Screen].at = "idle"

(* What a later step of closing may count on, unless it has something to report. *)
RunInv == Later(AfterRun) => run = "off" \/ problems

RecordingInv == Later(AfterRecording) => ~recording \/ problems

PollingInv == Later(AfterPolling) => polling = "off" \/ overtaken

Joined(d) == closer[Home].at = "waiting" /\ d = current /\ disconnecting[d] # "done"

WalkInv ==
  Later(AfterWalk) =>
    \A d \in Devices : connected[d] => d \in todo \/ d \in reported \/ Joined(d) \/ overtaken

(* Nothing is left on that disconnecting makes safe, unless it is still connected. *)
OnInv == \A d \in on \cap SafeOnDisconnect : connected[d]

(* Only a session's closing goes to the devices, and it waits for one of them. *)
WaitInv ==
  /\ closer[Home].at \in AfterWalk => closer[Home].part = "session"
  /\ closer[Home].at = "waiting" => current \in Devices

IInv ==
  /\ TypeOK /\ WaitInv /\ (worker.todo # {} => worker.on)
  /\ WorkerInv /\ RunInv /\ RecordingInv /\ PollingInv /\ WalkInv /\ OnInv
(***************************************************************************)
(* Types.                                                                  *)
(***************************************************************************)

Places == [at : ClosingLabels, part : {"screen", "session"}, force : BOOLEAN]

CloserOK == closer \in [Closers -> Places] /\ closer[Screen].part = "screen"

HomeOK ==
  /\ screens \in {{}, {"operation"}, {"setup"}} /\ closed \in BOOLEAN
  /\ over \in {"no", "exited", "kept", "leaked"} /\ why \in {"replace", "setup", "exit"}

WalkOK == todo \subseteq Devices /\ current \in Devices \cup {Nobody}

FailureOK == reported \subseteq Devices /\ problems \in BOOLEAN

RunOK == run \in {"off", "started", "steps", "ending", "refused", "exporting"}

RecorderOK == recording \in BOOLEAN /\ finalising \subseteq Closers \cup {"run"}

PollOK == polling \in {"off", "on", "stopping"} /\ blocked \in BOOLEAN

WorkerOK == worker.on \in BOOLEAN /\ worker.todo \subseteq Devices

DeviceOK ==
  /\ connected \in [Devices -> BOOLEAN] /\ on \subseteq Watched
  /\ disconnecting \in [Devices -> {"no", "thread", "done", "failed"}] /\ hung \subseteq Devices

RestOK ==
  /\ HomeOK /\ WalkOK /\ FailureOK /\ RunOK /\ RecorderOK /\ PollOK /\ WorkerOK /\ DeviceOK
  /\ overtaken \in BOOLEAN

LEMMA TypesAre == TypeOK <=> CloserOK /\ RestOK
  BY DEF TypeOK, CloserOK, RestOK, Places, HomeOK, WalkOK, FailureOK, RunOK, RecorderOK, PollOK, WorkerOK,
         DeviceOK

LEMMA ClosersAre == Home \in Closers /\ Screen \in Closers /\ Home # Screen
                    /\ \A c \in Closers : c = Home \/ c = Screen
  BY SessionAssumption DEF Closers

LEMMA PlaceMade ==
  ASSUME NEW l \in ClosingLabels, NEW p \in {"screen", "session"}, NEW f \in BOOLEAN
  PROVE  [at |-> l, part |-> p, force |-> f] \in Places
  BY Zenon DEF Places

LEMMA PlaceFields ==
  ASSUME NEW x \in Places
  PROVE  x.at \in ClosingLabels /\ x.part \in {"screen", "session"} /\ x.force \in BOOLEAN
  BY DEF Places

(* A closer that goes on keeps the rest, and the other is where it was. *)
LEMMA GoesOn ==
  ASSUME CloserOK, NEW c \in Closers, NEW l \in ClosingLabels, Goto(c, l)
  PROVE  /\ CloserOK'
         /\ closer'[c].at = l /\ closer'[c].part = closer[c].part
         /\ \A o \in Closers \ {c} : closer'[o] = closer[o]
  BY ClosersAre DEF CloserOK, Goto, Places

LEMMA PutAt ==
  ASSUME CloserOK, NEW c \in Closers, NEW l \in ClosingLabels, NEW p \in {"screen", "session"},
         NEW f \in BOOLEAN, c = Screen => p = "screen",
         closer' = [closer EXCEPT ![c] = [at |-> l, part |-> p, force |-> f]]
  PROVE  /\ CloserOK'
         /\ closer'[c].at = l /\ closer'[c].part = p
         /\ \A o \in Closers \ {c} : closer'[o] = closer[o]
  <1>1. PICK x \in Places : x = [at |-> l, part |-> p, force |-> f] /\ x.at = l /\ x.part = p
    <2>1. [at |-> l, part |-> p, force |-> f] \in Places
      BY PlaceMade
    <2> QED
      BY <2>1
  <1>2. closer' = [closer EXCEPT ![c] = x]
    BY <1>1
  <1> QED
    BY <1>1, <1>2, ClosersAre DEF CloserOK

LEMMA OthersMove ==
  ASSUME CloserOK, PollingEnds
  PROVE  /\ CloserOK'
         /\ \A c \in Closers : closer'[c].part = closer[c].part
         /\ \A c \in Closers : \/ closer'[c].at = closer[c].at
                               \/ closer[c].at = "stopping" /\ closer'[c].at = "stopped"
  <1>1. \A c \in Closers : [closer[c] EXCEPT !.at = "stopped"] \in Places
        /\ [closer[c] EXCEPT !.at = "stopped"].part = closer[c].part
        /\ [closer[c] EXCEPT !.at = "stopped"].at = "stopped"
    BY DEF CloserOK, Places, ClosingLabels
  <1>2. closer' = [c \in Closers |->
                    IF closer[c].at = "stopping" THEN [closer[c] EXCEPT !.at = "stopped"] ELSE closer[c]]
    BY DEF PollingEnds
  <1>3. closer' \in [Closers -> Places]
    BY <1>1, <1>2 DEF CloserOK
  <1>4. \A c \in Closers : /\ closer'[c].part = closer[c].part
                           /\ \/ closer'[c].at = closer[c].at
                              \/ closer[c].at = "stopping" /\ closer'[c].at = "stopped"
    BY <1>1, <1>2
  <1> QED
    BY <1>3, <1>4, ClosersAre DEF CloserOK
(* The actions that leave both closers where they are. *)
Beside ==
  \/ OpenOperation \/ Connect \/ StartRecording \/ StartRun
  \/ \E ok \in BOOLEAN : CloseSetup(ok)
  \/ \E d \in Devices : Calling(d)
  \/ WorkerDone \/ Running

(* The next-state relation, action by action. *)
LEMMA NextIs ==
  ASSUME [Next]_vars
  PROVE  \/ Beside
         \/ \E c \in Closers : Closing(c)
         \/ Replace \/ OpenSetup \/ Exit
         \/ \E force \in BOOLEAN : RequestClose(force)
         \/ Walking \/ OperationClosed \/ PollingEnds
         \/ UNCHANGED vars
  BY Zenon DEF Next, Using, Beside

LEMMA BesideKeeps ==
  ASSUME Beside
  PROVE  UNCHANGED closer
  BY Zenon DEF Beside, OpenOperation, Connect, StartRecording, StartRun, CloseSetup, Calling, WorkerCalls,
               RunCalls, Disconnects, ReadBlocks, Hang, WorkerDone, Running, RunOpensRecording,
               RunStopsItsSteps, RunClosesRecording, RunOver

(* Where closing goes on to. *)
LEMMA ClosingGoes ==
  ASSUME NEW c \in Closers, Closing(c)
  PROVE  \E l \in ClosingLabels : Goto(c, l)
  <1> USE DEF ClosingLabels
  <1>1. CASE StopRun(c) \/ JoinRun(c) \/ CheckRecording(c) \/ StopPolling(c)
    BY <1>1 DEF StopRun, JoinRun, CheckRecording, StopPolling
  <1>2. CASE StopRecording(c) \/ AwaitExports(c) \/ \E ok \in BOOLEAN : Finalised(c, ok)
    BY <1>2 DEF StopRecording, AwaitExports, Finalised
  <1> QED
    BY <1>1, <1>2, Zenon DEF Closing

LEMMA CloserStep ==
  ASSUME CloserOK, [Next]_vars
  PROVE  CloserOK'
  <1> USE ClosersAre
  <1>0. {"idle", "start", "run", "stopped", "devices", "waiting", "leaving"} \subseteq ClosingLabels
    BY DEF ClosingLabels
  <1>1. CASE UNCHANGED closer
    BY <1>1 DEF CloserOK
  <1>2. CASE \E c \in Closers : Closing(c)
    BY <1>2, ClosingGoes, GoesOn
  <1>3. CASE Replace \/ OpenSetup \/ Exit
    <2>1. PICK l \in {"run", "start"}, p \in {"screen", "session"} :
             closer' = [closer EXCEPT ![Home] = [at |-> l, part |-> p, force |-> TRUE]]
      BY <1>3 DEF Replace, OpenSetup, Exit, Begin
    <2> QED
      BY <1>0, <2>1, PutAt
  <1>4. CASE \E force \in BOOLEAN : RequestClose(force)
    <2>1. PICK force \in BOOLEAN :
             closer' = [closer EXCEPT ![Screen] = [at |-> "run", part |-> "screen", force |-> force]]
      BY <1>4 DEF RequestClose
    <2> QED
      BY <1>0, <2>1, PutAt
  <1>5. CASE OperationClosed
    <2>1. closer' = [closer EXCEPT ![Screen] = [closer[Screen] EXCEPT !.at = "idle", !.force = FALSE]]
      BY <1>5 DEF OperationClosed
    <2>2. [closer[Screen] EXCEPT !.at = "idle", !.force = FALSE] \in Places
          /\ [closer[Screen] EXCEPT !.at = "idle", !.force = FALSE].part = closer[Screen].part
      BY <1>0 DEF CloserOK, Places
    <2> QED
      BY <2>1, <2>2 DEF CloserOK
  <1>6. CASE PollingEnds
    BY <1>6, OthersMove
  <1>7. CASE Walking
    <2>1. CASE FeaturesClosed
      <3>1. closer' = [closer EXCEPT ![Home] = [closer[Home] EXCEPT !.at = "start", !.part = "session"]]
        BY <2>1 DEF FeaturesClosed
      <3>2. [closer[Home] EXCEPT !.at = "start", !.part = "session"] \in Places
        BY <1>0 DEF CloserOK, Places
      <3> QED
        BY <3>1, <3>2 DEF CloserOK
    <2>2. CASE Leave
      <3>1. closer' = [closer EXCEPT ![Home] = [at |-> "idle", part |-> "session", force |-> FALSE]]
        BY <2>2 DEF Leave
      <3> QED
        BY <1>0, <3>1, PutAt
    <2>3. CASE ~FeaturesClosed /\ ~Leave
      <3>1. \E l \in ClosingLabels : Goto(Home, l)
        BY <1>0, <1>7, <2>3 DEF Walking, CloseSession, DisconnectAll, StartDisconnecting, JoinDisconnect, Closed
      <3> QED
        BY <3>1, GoesOn
    <2> QED
      BY <2>1, <2>2, <2>3
  <1>8. CASE UNCHANGED vars
    BY <1>1, <1>8 DEF vars
  <1> QED
    BY <1>1, <1>2, <1>3, <1>4, <1>5, <1>6, <1>7, <1>8, NextIs, BesideKeeps, Zenon

LEMMA Unchanged ==
  ASSUME RestOK
  PROVE  /\ UNCHANGED homeVars => HomeOK'
         /\ UNCHANGED walkVars => WalkOK'
         /\ UNCHANGED failureVars => FailureOK'
         /\ UNCHANGED run => RunOK'
         /\ UNCHANGED recorderVars => RecorderOK'
         /\ UNCHANGED pollVars => PollOK'
         /\ UNCHANGED worker => WorkerOK'
         /\ UNCHANGED deviceVars => DeviceOK'
         /\ UNCHANGED overtaken => (overtaken \in BOOLEAN)'
  BY DEF RestOK, HomeOK, WalkOK, FailureOK, RunOK, RecorderOK, PollOK, WorkerOK, DeviceOK, homeVars,
         walkVars, failureVars, recorderVars, pollVars, deviceVars

LEMMA BesideTypes ==
  ASSUME RestOK, Beside
  PROVE  RestOK'
  <1> USE Unchanged DEF RestOK
  <1>1. CASE OpenOperation
    BY <1>1 DEF OpenOperation, HomeOK
  <1>2. CASE Connect
    BY <1>2 DEF Connect, WorkerOK
  <1>3. CASE StartRecording
    BY <1>3 DEF StartRecording, RecorderOK
  <1>4. CASE StartRun
    BY <1>4 DEF StartRun, RunOK
  <1>5. CASE \E ok \in BOOLEAN : CloseSetup(ok)
    BY <1>5 DEF CloseSetup, Renew, HomeOK, DeviceOK
  <1>6. ASSUME NEW d \in Devices, Calling(d) PROVE RestOK'
    <2>1. CASE \E ok \in BOOLEAN : WorkerCalls(d, ok)
      BY <2>1 DEF WorkerCalls, WorkerOK, DeviceOK
    <2>2. CASE \E ok \in BOOLEAN : RunCalls(d, ok)
      BY <2>2 DEF RunCalls, RunOK, DeviceOK
    <2>3. CASE \E ok \in BOOLEAN : Disconnects(d, ok)
      BY <2>3 DEF Disconnects, DeviceOK
    <2>4. CASE ReadBlocks(d)
      BY <2>4 DEF ReadBlocks, PollOK
    <2>5. CASE \E polls \in BOOLEAN : Hang(d, polls)
      BY <2>5 DEF Hang, PollOK, DeviceOK
    <2> QED
      BY <1>6, <2>1, <2>2, <2>3, <2>4, <2>5, Zenon DEF Calling
  <1>7. CASE WorkerDone
    BY <1>7 DEF WorkerDone, IdleWorker, WorkerOK, PollOK
  <1>8. CASE RunOpensRecording \/ RunStopsItsSteps
    BY <1>8 DEF RunOpensRecording, RunStopsItsSteps, RunOK, RecorderOK
  <1>9. CASE RunClosesRecording \/ RunOver
    BY <1>9 DEF RunClosesRecording, RunOver, RunOK, RecorderOK
  <1> QED
    BY <1>1, <1>2, <1>3, <1>4, <1>5, <1>6, <1>7, <1>8, <1>9, Zenon DEF Beside, Running

LEMMA RestStep ==
  ASSUME CloserOK, RestOK, WaitInv, [Next]_vars
  PROVE  RestOK'
  <1> USE Unchanged DEF RestOK
  <1>1. ASSUME NEW c \in Closers, Closing(c) PROVE RestOK'
    <2>1. CASE StopRun(c) \/ CheckRecording(c) \/ AwaitExports(c)
      BY <2>1 DEF StopRun, CheckRecording, AwaitExports
    <2>2. CASE JoinRun(c)
      BY <2>2 DEF JoinRun, Fails, FailureOK
    <2>3. CASE StopRecording(c)
      BY <2>3 DEF StopRecording, Fails, FailureOK, RecorderOK
    <2>4. CASE \E ok \in BOOLEAN : Finalised(c, ok)
      BY <2>4 DEF Finalised, Fails, FailureOK, RecorderOK
    <2>5. CASE StopPolling(c)
      BY <2>5 DEF StopPolling, PollOK
    <2> QED
      BY <1>1, <2>1, <2>2, <2>3, <2>4, <2>5, Zenon DEF Closing
  <1>2. CASE Replace \/ OpenSetup \/ Exit
    BY <1>2 DEF Replace, OpenSetup, Exit, Begin, HomeOK, WorkerOK
  <1>3. CASE OperationClosed \/ \E force \in BOOLEAN : RequestClose(force)
    BY <1>3 DEF OperationClosed, RequestClose, HomeOK, WorkerOK
  <1>4. CASE Walking
    <2>1. CASE FeaturesClosed \/ CloseSession \/ DisconnectAll
      BY <2>1 DEF FeaturesClosed, CloseSession, DisconnectAll, FailureOK, WalkOK
    <2>2. CASE \E d \in Devices : StartDisconnecting(d)
      BY <2>2 DEF StartDisconnecting, WalkOK, DeviceOK
    <2>3. CASE JoinDisconnect
      BY <2>3 DEF JoinDisconnect, WaitInv, At, WalkOK, DeviceOK, FailureOK
    <2>4. CASE \E problem \in BOOLEAN : Closed(problem)
      BY <2>4 DEF Closed, HomeOK, FailureOK
    <2>5. CASE Leave
      BY <2>5 DEF Leave, Renew, HomeOK, FailureOK, WorkerOK, DeviceOK
    <2> QED
      BY <1>4, <2>1, <2>2, <2>3, <2>4, <2>5, Zenon DEF Walking
  <1>5. CASE PollingEnds
    BY <1>5 DEF PollingEnds, PollOK
  <1>6. CASE UNCHANGED vars
    BY <1>6, Zenon DEF vars
  <1> QED
    BY <1>1, <1>2, <1>3, <1>4, <1>5, <1>6, BesideTypes, NextIs, Zenon

LEMMA TypeStep ==
  ASSUME TypeOK, WaitInv, [Next]_vars
  PROVE  TypeOK'
  <1>1. (CloserOK /\ RestOK)' => TypeOK'
    BY DEF TypeOK, CloserOK, RestOK, Places, HomeOK, WalkOK, FailureOK, RunOK, RecorderOK, PollOK, WorkerOK,
           DeviceOK
  <1> QED
    BY <1>1, TypesAre, CloserStep, RestStep

LEMMA TypeInitial ==
  ASSUME Init
  PROVE  TypeOK
  BY ClosersAre DEF Init, TypeOK, Closers, ClosingLabels, IdleWorker

(***************************************************************************)
(* Closing.                                                                *)
(***************************************************************************)

Tidy == WaitInv /\ WorkerInv /\ RunInv /\ RecordingInv /\ PollingInv /\ WalkInv

Acting == worker.todo # {} => worker.on

LEMMA TidyInitial ==
  ASSUME Init
  PROVE  Tidy /\ Acting /\ OnInv
  <1>1. closer[Home].at = "idle" /\ closer[Screen].at = "idle"
    BY ClosersAre DEF Init
  <1>2. ~worker.on /\ worker.todo = {} /\ on = {}
    BY DEF Init, IdleWorker
  <1> QED
    BY <1>1, <1>2 DEF Tidy, Acting, OnInv, WaitInv, WorkerInv, RunInv, RecordingInv, PollingInv, WalkInv, Later,
                      AfterRun, AfterRecording, AfterPolling, AfterWalk

(* The worker is the screen's. *)
LEMMA WorkerMoves ==
  ASSUME [Next]_vars
  PROVE  \/ UNCHANGED worker \/ Connect \/ WorkerDone
         \/ \E d \in Devices, ok \in BOOLEAN : WorkerCalls(d, ok)
  <1>1. CASE Beside
    BY <1>1, Zenon DEF Beside, OpenOperation, StartRecording, StartRun, CloseSetup, Calling,
                       RunCalls, Disconnects, ReadBlocks, Hang, Running, RunOpensRecording,
                       RunStopsItsSteps, RunClosesRecording, RunOver
  <1>2. ASSUME NEW c \in Closers, Closing(c) PROVE UNCHANGED worker
    BY <1>2, Zenon DEF Closing, StopRun, JoinRun, CheckRecording, StopRecording, Finalised, AwaitExports,
                       StopPolling
  <1>3. CASE Replace \/ OpenSetup \/ Exit \/ OperationClosed \/ PollingEnds
    BY <1>3, Zenon DEF Replace, OpenSetup, Exit, Begin, OperationClosed, PollingEnds
  <1>4. CASE \E force \in BOOLEAN : RequestClose(force)
    BY <1>4, Zenon DEF RequestClose
  <1>5. CASE Walking
    BY <1>5, Zenon DEF Walking, FeaturesClosed, CloseSession, DisconnectAll, StartDisconnecting,
                       JoinDisconnect, Closed, Leave
  <1>6. CASE UNCHANGED vars
    BY <1>6, Zenon DEF vars
  <1> QED
    BY <1>1, <1>2, <1>3, <1>4, <1>5, <1>6, NextIs, Zenon

LEMMA ActingStep ==
  ASSUME Acting, [Next]_vars
  PROVE  Acting'
  <1>1. CASE UNCHANGED worker
    BY <1>1 DEF Acting
  <1>2. CASE Connect \/ WorkerDone
    BY <1>2 DEF Connect, WorkerDone, IdleWorker, Acting
  <1>3. ASSUME NEW d \in Devices, NEW ok \in BOOLEAN, WorkerCalls(d, ok) PROVE Acting'
    BY <1>3 DEF WorkerCalls, Acting
  <1> QED
    BY <1>1, <1>2, <1>3, WorkerMoves

(* Everything closing relies on is about where the home screen is in it. *)
LEMMA TidyBeside ==
  ASSUME TypeOK, Acting, Tidy, Beside
  PROVE  Tidy'
  <1>0. closer' = closer /\ RestOK
    BY BesideKeeps, TypesAre
  <1> USE <1>0 DEF Tidy, WaitInv, WorkerInv, RunInv, RecordingInv, PollingInv, WalkInv, Later, Joined,
               AfterRun, AfterRecording, AfterPolling, AfterWalk, homeVars, walkVars,
               failureVars, recorderVars, pollVars, deviceVars
  <1>1. CASE OpenOperation \/ StartRecording \/ StartRun
    BY <1>1 DEF OpenOperation, StartRecording, StartRun, Listening
  <1>2. CASE Connect
    BY <1>2 DEF Connect, Listening
  <1>3. CASE \E ok \in BOOLEAN : CloseSetup(ok)
    BY <1>3 DEF CloseSetup, Listening, RestOK, HomeOK
  <1>4. ASSUME NEW d \in Devices, Calling(d) PROVE Tidy'
    <2>1. CASE \E ok \in BOOLEAN : WorkerCalls(d, ok)
      BY <2>1 DEF WorkerCalls, Acting, RestOK, DeviceOK
    <2>2. CASE \E ok \in BOOLEAN : RunCalls(d, ok)
      BY <2>2 DEF RunCalls
    <2>3. CASE \E ok \in BOOLEAN : Disconnects(d, ok)
      BY <2>3 DEF Disconnects, RestOK, DeviceOK
    <2>4. CASE ReadBlocks(d)
      BY <2>4 DEF ReadBlocks
    <2>5. CASE \E polls \in BOOLEAN : Hang(d, polls)
      BY <2>5 DEF Hang
    <2> QED
      BY <1>4, <2>1, <2>2, <2>3, <2>4, <2>5, Zenon DEF Calling
  <1>5. CASE WorkerDone
    BY <1>5 DEF WorkerDone, IdleWorker
  <1>6. CASE Running
    BY <1>6 DEF Running, RunOpensRecording, RunStopsItsSteps, RunClosesRecording, RunOver
  <1> QED
    BY <1>1, <1>2, <1>3, <1>4, <1>5, <1>6, Zenon DEF Beside

(* Operation's own closing reports nothing, and only takes from what is going. *)
LEMMA TidyScreen ==
  ASSUME TypeOK, Tidy, Closing(Screen)
  PROVE  Tidy'
  <1>0. CloserOK /\ RestOK /\ Home # Screen /\ Home \in Closers /\ Screen \in Closers
    BY TypesAre, ClosersAre
  <1>1. PICK l \in ClosingLabels : Goto(Screen, l)
    BY <1>0, ClosingGoes
  <1>2. closer'[Home] = closer[Home] /\ closer[Screen].part = "screen" /\ closer[Screen].at # "idle"
    <2>1. closer[Screen].at # "idle"
      BY DEF Closing, StopRun, JoinRun, CheckRecording, StopRecording, Finalised, AwaitExports, StopPolling, At
    <2>2. closer'[Home] = closer[Home]
      BY <1>0, <1>1, GoesOn
    <2> QED
      BY <1>0, <2>1, <2>2 DEF CloserOK
  <1>3. UNCHANGED <<screens, current, todo, reported, problems, run, worker, overtaken, connected,
                    disconnecting>>
    <2>1. (problems \/ FALSE) = problems
      BY <1>0 DEF RestOK, FailureOK
    <2> QED
      BY <1>2, <2>1 DEF Closing, StopRun, JoinRun, CheckRecording, StopRecording, Finalised, AwaitExports,
                        StopPolling, Fails, homeVars, walkVars, failureVars, deviceVars
  <1>4. (recording' = recording \/ recording' = FALSE) /\ (polling = "off" => polling' = "off")
    BY DEF Closing, StopRun, JoinRun, CheckRecording, StopRecording, Finalised, AwaitExports, StopPolling,
           recorderVars, pollVars
  <1> QED
    BY <1>2, <1>3, <1>4 DEF Tidy, WaitInv, WorkerInv, RunInv, RecordingInv, PollingInv, WalkInv, Later, Joined

(* The session's closing has what it does not get done to report. *)
LEMMA TidyHome ==
  ASSUME TypeOK, Tidy, Closing(Home)
  PROVE  Tidy'
  <1>0. CloserOK /\ RestOK /\ Home # Screen /\ Home \in Closers /\ Screen \in Closers
    BY TypesAre, ClosersAre
  <1>1. PICK l \in ClosingLabels : Goto(Home, l)
    BY <1>0, ClosingGoes
  <1>2. closer'[Home].at = l /\ closer'[Home].part = closer[Home].part /\ closer'[Screen] = closer[Screen]
    BY <1>0, <1>1, GoesOn
  <1>3. Goto(Home, l) /\ \A m \in ClosingLabels : Goto(Home, m) => m = l
    <2>1. ASSUME NEW m \in ClosingLabels, Goto(Home, m) PROVE m = l
      BY <1>0, <1>2, <2>1, GoesOn
    <2> QED
      BY <1>1, <2>1
  <1>4. closer[Home].at # "idle" /\ UNCHANGED <<screens, todo, current, reported, worker, overtaken, connected, disconnecting, run>>
    BY DEF Closing, StopRun, JoinRun, CheckRecording, StopRecording, Finalised, AwaitExports,
           StopPolling, Fails, At, homeVars, walkVars, failureVars, deviceVars
  <1>5. l \notin {"devices", "waiting"} /\ (WorkerInv /\ WaitInv /\ WalkInv)'
    <2>1. l \notin {"devices", "waiting"}
      <3>1. CASE StopRun(Home) \/ JoinRun(Home) \/ CheckRecording(Home)
        BY <1>2, <1>3, <3>1 DEF StopRun, JoinRun, CheckRecording, ClosingLabels
      <3>2. CASE StopRecording(Home) \/ (\E ok \in BOOLEAN : Finalised(Home, ok))
        BY <1>2, <1>3, <3>2 DEF StopRecording, Finalised, ClosingLabels
      <3>3. CASE AwaitExports(Home) \/ StopPolling(Home)
        BY <1>2, <1>3, <3>3 DEF AwaitExports, StopPolling, ClosingLabels
      <3> QED
        BY <3>1, <3>2, <3>3 DEF Closing
    <2> QED
      BY <1>2, <1>4, <2>1 DEF Tidy, WorkerInv, WaitInv, WalkInv, Later, AfterWalk
  <1>6. ASSUME NEW m \in ClosingLabels, Goto(Home, m) PROVE closer'[Home].at = m
    BY <1>2, <1>3, <1>6
  <1>7. closer[Home].part \in {"screen", "session"} /\ problems \in BOOLEAN
    BY <1>0, PlaceFields DEF CloserOK, RestOK, FailureOK
  <1> USE <1>0, <1>2, <1>4, <1>5, <1>7 DEF Tidy, RunInv, RecordingInv, PollingInv, Later,
               AfterRun, AfterRecording, AfterPolling, AfterWalk, recorderVars, pollVars, failureVars, At
  <1>8. CASE StopRun(Home)
    <2>1. closer'[Home].at = (IF run = "off" THEN "recording" ELSE "joining")
      BY <1>6, <1>8 DEF StopRun, ClosingLabels
    <2> QED
      BY <1>8, <2>1 DEF StopRun
  <1>9. CASE JoinRun(Home)
    <2>1. closer'[Home].at = "recording"
      BY <1>6, <1>9 DEF JoinRun, ClosingLabels
    <2> QED
      BY <1>9, <2>1 DEF JoinRun, Fails
  <1>10. CASE CheckRecording(Home)
    <2>1. closer'[Home].at = (IF recording THEN "stopping_recording" ELSE "exports")
      BY <1>6, <1>10 DEF CheckRecording, ClosingLabels
    <2> QED
      BY <1>10, <2>1 DEF CheckRecording
  <1>11. CASE StopRecording(Home)
    <2>1. closer'[Home].at = (IF recording THEN "finalising" ELSE "exports")
      BY <1>6, <1>11 DEF StopRecording, ClosingLabels
    <2> QED
      BY <1>11, <2>1 DEF StopRecording, Fails
  <1>12. CASE \E ok \in BOOLEAN : Finalised(Home, ok)
    <2>1. closer'[Home].at = "exports"
      BY <1>6, <1>12 DEF Finalised, ClosingLabels
    <2> QED
      BY <1>12, <2>1 DEF Finalised, Fails
  <1>13. CASE AwaitExports(Home)
    <2>1. closer'[Home].at = "polling"
      BY <1>6, <1>13 DEF AwaitExports, ClosingLabels
    <2> QED
      BY <1>13, <2>1 DEF AwaitExports
  <1>14. CASE StopPolling(Home)
    <2>1. closer'[Home].at = (IF polling = "off" THEN "stopped" ELSE "stopping")
      BY <1>6, <1>14 DEF StopPolling, ClosingLabels
    <2> QED
      BY <1>14, <2>1 DEF StopPolling
  <1> QED
    BY <1>8, <1>9, <1>10, <1>11, <1>12, <1>13, <1>14, Zenon DEF Closing

LEMMA TidyBegin ==
  ASSUME TypeOK, Tidy,
         \/ Replace \/ OpenSetup \/ Exit \/ OperationClosed \/ PollingEnds
         \/ \E force \in BOOLEAN : RequestClose(force)
  PROVE  Tidy'
  <1>0. CloserOK /\ RestOK /\ Home # Screen /\ Home \in Closers /\ Screen \in Closers
    BY TypesAre, ClosersAre
  <1> USE <1>0 DEF Tidy, WaitInv, WorkerInv, RunInv, RecordingInv, PollingInv, WalkInv, Later, Joined,
               AfterRun, AfterRecording, AfterPolling, AfterWalk, homeVars, walkVars,
               failureVars, recorderVars, pollVars, deviceVars
  <1>1. CASE Replace \/ OpenSetup \/ Exit
    <2>1. PICK l \in {"run", "start"}, p \in {"screen", "session"} :
             closer' = [closer EXCEPT ![Home] = [at |-> l, part |-> p, force |-> TRUE]]
      BY <1>1 DEF Replace, OpenSetup, Exit, Begin
    <2>2. closer'[Home].at = l
      BY <2>1, PutAt DEF ClosingLabels
    <2>3. closer[Home].at = "idle" /\ (worker.on => overtaken') /\ UNCHANGED worker
      BY <1>1 DEF Replace, OpenSetup, Exit, Begin, Listening
    <2> QED
      BY <2>1, <2>2, <2>3
  <1>2. CASE \E force \in BOOLEAN : RequestClose(force)
    <2>1. PICK force \in BOOLEAN : RequestClose(force)
      BY <1>2
    <2>2. closer' = [closer EXCEPT ![Screen] = [at |-> "run", part |-> "screen", force |-> force]]
      BY <2>1 DEF RequestClose
    <2>3. closer'[Home] = closer[Home]
      BY <2>2, PutAt DEF ClosingLabels
    <2>4. closer[Home].at = "idle" /\ (worker.on => overtaken') /\ UNCHANGED <<worker, screens>>
      BY <2>1 DEF RequestClose, Listening
    <2> QED
      BY <2>3, <2>4
  <1>3. CASE OperationClosed
    <2>1. closer'[Home] = closer[Home] /\ closer[Home].at = "idle" /\ closer[Screen].at = "stopped"
          /\ UNCHANGED <<worker, overtaken>>
      BY <1>3 DEF OperationClosed, Listening, At
    <2> QED
      BY <2>1
  <1>4. CASE PollingEnds
    <2>1. /\ closer'[Home].part = closer[Home].part
          /\ \/ closer'[Home].at = closer[Home].at
             \/ closer[Home].at = "stopping" /\ closer'[Home].at = "stopped"
          /\ closer[Screen].at = "idle" => closer'[Screen].at = "idle"
      BY <1>4, OthersMove
    <2> QED
      BY <1>4, <2>1 DEF PollingEnds
  <1> QED
    BY <1>1, <1>2, <1>3, <1>4

LEMMA TidyWalking ==
  ASSUME TypeOK, Tidy, Walking
  PROVE  Tidy'
  <1>0. CloserOK /\ RestOK /\ Home # Screen /\ Home \in Closers /\ Screen \in Closers
    BY TypesAre, ClosersAre
  <1>1. {"idle", "start", "run", "devices", "waiting", "leaving"} \subseteq ClosingLabels
    BY DEF ClosingLabels
  <1>2. ASSUME NEW l \in ClosingLabels, Goto(Home, l)
        PROVE  /\ closer'[Home].at = l /\ closer'[Home].part = closer[Home].part
               /\ closer'[Screen] = closer[Screen]
    BY <1>0, <1>2, GoesOn
  <1> USE <1>0, <1>1 DEF Tidy, WaitInv, WorkerInv, RunInv, RecordingInv, PollingInv, WalkInv, Later, Joined,
               AfterRun, AfterRecording, AfterPolling, AfterWalk, homeVars, walkVars,
               failureVars, recorderVars, pollVars, deviceVars, At
  <1>3. CASE FeaturesClosed
    <2>1. closer'[Home].at = "start" /\ closer[Home].at # "idle"
      BY <1>3 DEF FeaturesClosed, CloserOK, Places
    <2> QED
      BY <1>3, <2>1 DEF FeaturesClosed
  <1>4. CASE CloseSession
    <2>1. closer'[Home].at \in {"leaving", "run"} /\ closer[Home].at # "idle"
      BY <1>2, <1>4 DEF CloseSession
    <2> QED
      BY <1>4, <2>1 DEF CloseSession
  <1>5. CASE DisconnectAll
    <2>1. closer'[Home].at = "devices" /\ closer[Home].at = "stopped"
          /\ closer'[Home].part = closer[Home].part
      BY <1>2, <1>5 DEF DisconnectAll
    <2> QED
      BY <1>5, <2>1 DEF DisconnectAll
  <1>6. ASSUME NEW d \in Devices, StartDisconnecting(d) PROVE Tidy'
    <2>1. closer'[Home].at = "waiting" /\ closer[Home].at = "devices"
          /\ closer'[Home].part = closer[Home].part
      BY <1>2, <1>6 DEF StartDisconnecting
    <2>2. disconnecting'[d] = "thread" /\ current' = d
      BY <1>6 DEF StartDisconnecting, RestOK, DeviceOK
    <2> QED
      BY <1>6, <2>1, <2>2 DEF StartDisconnecting
  <1>7. CASE JoinDisconnect
    <2>1. closer'[Home].at = "devices" /\ closer[Home].at = "waiting"
          /\ closer'[Home].part = closer[Home].part
      BY <1>2, <1>7 DEF JoinDisconnect
    <2> QED
      BY <1>7, <2>1 DEF JoinDisconnect
  <1>8. CASE \E problem \in BOOLEAN : Closed(problem)
    <2>1. closer'[Home].at = "leaving" /\ closer[Home].at = "devices"
      BY <1>2, <1>8 DEF Closed
    <2> QED
      BY <1>8, <2>1 DEF Closed
  <1>9. CASE Leave
    <2>1. closer'[Home].at = "idle" /\ overtaken' = worker.on /\ UNCHANGED worker
      BY <1>9, PutAt DEF Leave
    <2> QED
      BY <2>1
  <1> QED
    BY <1>3, <1>4, <1>5, <1>6, <1>7, <1>8, <1>9, Zenon DEF Walking

LEMMA TidyStep ==
  ASSUME TypeOK, Acting, Tidy, [Next]_vars
  PROVE  Tidy'
  <1>1. CASE UNCHANGED vars
    BY <1>1 DEF vars, homeVars, walkVars, failureVars, recorderVars, pollVars, deviceVars, Tidy, WaitInv,
           WorkerInv, RunInv, RecordingInv, PollingInv, WalkInv, Later, Joined
  <1>2. ASSUME NEW c \in Closers, Closing(c) PROVE Tidy'
    BY <1>2, ClosersAre, TidyScreen, TidyHome
  <1> QED
    BY <1>1, <1>2, TidyBeside, TidyBegin, TidyWalking, NextIs, Zenon

(* Only a device that is connected is left on by a step, and disconnecting it
   turns it off where that makes it safe. *)
LEMMA OnStep ==
  ASSUME TypeOK, OnInv, [Next]_vars
  PROVE  OnInv'
  <1>0. RestOK /\ SafeOnDisconnect \subseteq Devices
    BY TypesAre, SessionAssumption
  <1>1. CASE UNCHANGED <<on, connected>>
    BY <1>1 DEF OnInv
  <1>2. ASSUME NEW d \in Devices, NEW ok \in BOOLEAN,
               WorkerCalls(d, ok) \/ RunCalls(d, ok) \/ Disconnects(d, ok)
        PROVE  OnInv'
    <2>1. CASE WorkerCalls(d, ok)
      BY <1>0, <2>1 DEF WorkerCalls, OnInv, RestOK, DeviceOK
    <2>2. CASE RunCalls(d, ok)
      BY <1>0, <2>2 DEF RunCalls, OnInv
    <2>3. CASE Disconnects(d, ok)
      BY <1>0, <2>3 DEF Disconnects, OnInv, RestOK, DeviceOK
    <2> QED
      BY <1>2, <2>1, <2>2, <2>3
  <1>3. \/ UNCHANGED <<on, connected>>
        \/ \E d \in Devices, ok \in BOOLEAN : WorkerCalls(d, ok) \/ RunCalls(d, ok) \/ Disconnects(d, ok)
    <2>1. CASE Beside
      BY <2>1, Zenon DEF Beside, OpenOperation, Connect, StartRecording, StartRun, CloseSetup, Calling,
                         ReadBlocks, Hang, WorkerDone, Running, RunOpensRecording,
                         RunStopsItsSteps, RunClosesRecording, RunOver, deviceVars
    <2>2. ASSUME NEW c \in Closers, Closing(c) PROVE UNCHANGED deviceVars
      BY <2>2, Zenon DEF Closing, StopRun, JoinRun, CheckRecording, StopRecording, Finalised, AwaitExports,
                         StopPolling
    <2>3. CASE Replace \/ OpenSetup \/ Exit \/ OperationClosed \/ PollingEnds
      BY <2>3, Zenon DEF Replace, OpenSetup, Exit, Begin, OperationClosed, PollingEnds, deviceVars
    <2>4. CASE \E force \in BOOLEAN : RequestClose(force)
      BY <2>4, Zenon DEF RequestClose, deviceVars
    <2>5. CASE Walking
      BY <2>5, Zenon DEF Walking, FeaturesClosed, CloseSession, DisconnectAll, StartDisconnecting,
                         JoinDisconnect, Closed, Leave, deviceVars
    <2>6. CASE UNCHANGED vars
      BY <2>6, Zenon DEF vars, deviceVars
    <2> QED
      BY <2>1, <2>2, <2>3, <2>4, <2>5, <2>6, NextIs, Zenon DEF deviceVars
  <1> QED
    BY <1>1, <1>2, <1>3

LEMMA Invariance == Spec => []IInv
  <1>1. Init => IInv
    BY TypeInitial, TidyInitial DEF IInv, Tidy, Acting
  <1>2. IInv /\ [Next]_vars => IInv'
    BY TypeStep, TidyStep, ActingStep, OnStep DEF IInv, Tidy, Acting
  <1> QED
    BY <1>1, <1>2, PTL DEF Spec

(* Every variable keeps to its type, with Device Setup alone on the screen,
   whatever hangs and whoever closes. *)
THEOREM TypeCorrect == Spec => []TypeOK
  <1>1. IInv => TypeOK
    BY DEF IInv
  <1> QED
    BY <1>1, Invariance, PTL

(* The first close() of a session answers for everything the session owns, for
   any devices: each is disconnected or named among the failures; when none is
   reported, the run is over, nothing is recorded or polled, and no device that
   its disconnect makes safe was left on. *)
THEOREM ClosingAccounts == Spec => CloseAccountsForAll
  <1> DEFINE Accounted == /\ \A d \in Devices : connected'[d] => d \in reported'
                          /\ ~Failures' => /\ run' = "off" /\ ~recording' /\ polling' = "off"
                                           /\ on' \cap SafeOnDisconnect = {}
  <1>1. IInv /\ [Next]_vars => [~closed /\ closed' /\ ~overtaken => Accounted]_vars
    <2>1. SUFFICES ASSUME IInv, [Next]_vars, ~closed, closed', ~overtaken PROVE Accounted
      OBVIOUS
    <2>2. PICK problem \in BOOLEAN : Closed(problem)
      <3>1. CASE Beside
        BY <2>1, <3>1 DEF Beside, OpenOperation, Connect, StartRecording, StartRun, CloseSetup, Renew, Calling,
                 WorkerCalls, RunCalls, Disconnects, ReadBlocks, Hang, WorkerDone, Running, RunOpensRecording,
                 RunStopsItsSteps, RunClosesRecording, RunOver, homeVars
      <3>2. ASSUME NEW c \in Closers, Closing(c) PROVE UNCHANGED closed
        BY <3>2, Zenon DEF Closing, StopRun, JoinRun, CheckRecording, StopRecording, Finalised, AwaitExports,
                           StopPolling, homeVars
      <3>3. CASE Replace \/ OpenSetup \/ Exit \/ OperationClosed \/ PollingEnds
        BY <2>1, <3>3 DEF Replace, OpenSetup, Exit, Begin, OperationClosed, PollingEnds, homeVars
      <3>4. CASE \E force \in BOOLEAN : RequestClose(force)
        BY <2>1, <3>4 DEF RequestClose, homeVars
      <3>5. CASE Walking
        <4>1. CASE Leave
          <5>1. why \in {"replace", "setup", "exit"}
            BY <2>1 DEF IInv, TypeOK
          <5>2. why = "exit" \/ (why # "exit" /\ Failures) \/ (why = "replace" /\ ~Failures)
                \/ (why = "setup" /\ ~Failures)
            BY <5>1
          <5>3. closed' = FALSE \/ closed' = closed
            BY <4>1, <5>2 DEF Leave, Renew
          <5> QED
            BY <2>1, <5>3
        <4>2. CASE FeaturesClosed \/ CloseSession \/ DisconnectAll \/ JoinDisconnect
          BY <2>1, <4>2 DEF FeaturesClosed, CloseSession, DisconnectAll, JoinDisconnect, homeVars
        <4>3. ASSUME NEW d \in Devices, StartDisconnecting(d) PROVE UNCHANGED closed
          BY <4>3 DEF StartDisconnecting, homeVars
        <4> QED
          BY <2>1, <3>5, <4>1, <4>2, <4>3 DEF Walking
      <3>6. CASE UNCHANGED vars
        BY <2>1, <3>6 DEF vars, homeVars
      <3> QED
        BY <2>1, <3>1, <3>2, <3>3, <3>4, <3>5, <3>6, NextIs
    <2>3. /\ closer[Home].at = "devices" /\ todo = {} /\ problems' = (problems \/ problem)
          /\ UNCHANGED <<connected, reported, run, recording, polling, on>>
      BY <2>2, Zenon DEF Closed, At, recorderVars, pollVars, deviceVars
    <2>4. Later(AfterWalk) /\ Later(AfterPolling) /\ Later(AfterRecording) /\ Later(AfterRun)
      BY <2>1, <2>3 DEF IInv, WaitInv, Later, AfterWalk, AfterPolling, AfterRecording, AfterRun
    <2>5. \A d \in Devices : connected[d] => d \in reported
      BY <2>1, <2>3, <2>4 DEF IInv, WalkInv, Joined
    <2>6. ASSUME ~Failures' PROVE run = "off" /\ ~recording /\ polling = "off" /\ reported = {}
      BY <2>1, <2>3, <2>4, <2>6 DEF IInv, RunInv, RecordingInv, PollingInv, Failures
    <2>7. ASSUME reported = {} PROVE on \cap SafeOnDisconnect = {}
      BY <2>1, <2>5, <2>7, SessionAssumption DEF IInv, OnInv
    <2> QED
      BY <2>3, <2>5, <2>6, <2>7
  <1> QED
    BY <1>1, Invariance, PTL DEF Spec, CloseAccountsForAll

=============================================================================
