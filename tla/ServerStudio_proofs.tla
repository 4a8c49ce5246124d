------------------------- MODULE ServerStudio_proofs -------------------------
(* The designer's server.  The ends of the runtime are clean and it serves what *)
(* it was started with, for any set of files and any number of edits; while it  *)
(* runs no refused certificate is lost, and rules and simulation drive its      *)
(* variables as designed, for any project, clients and certificates.           *)
EXTENDS ServerStudio, RuntimeEngines, SequenceTheorems, TLAPS

Controllers == [state : States, endpoint : BOOLEAN, stopRequested : BOOLEAN,
                control : BOOLEAN, counts : BOOLEAN]
Outputs     == Seq({"READY", "CONTROL"})
Fresh       == ~ctl.endpoint /\ ~ctl.control /\ ~ctl.counts

(* A process that has not come to serve has written nothing and nothing of the  *)
(* previous one is left; without the executable there is never a process.       *)
EndInv ==
  /\ EndedIsClean
  /\ proc \in {"starting", "loading"} => out = <<>> /\ Fresh
  /\ ~installed => proc = "none"

-----------------------------------------------------------------------------
(* What the output says, piece by piece.                                     *)

LEMMA DrainType ==
  ASSUME NEW c \in Controllers, NEW lines
  PROVE  /\ Drain(c, lines) \in Controllers
         /\ Drain(c, lines).state \in {c.state, "Running"}
         /\ Drain(c, lines).state # c.state => Drain(c, lines).endpoint
         /\ c.endpoint => Drain(c, lines).endpoint
  <1>. DEFINE ready   == Contains(lines, "READY")
              control == Contains(lines, "CONTROL")
  <1>1. ready \in BOOLEAN /\ control \in BOOLEAN
    BY DEF Contains
  <1>2. Drain(c, lines) = [c EXCEPT !.state    = IF ready THEN "Running" ELSE @,
                                    !.endpoint = @ \/ ready,
                                    !.control  = @ \/ control,
                                    !.counts   = @ /\ ~(control /\ c.control)]
    BY DEF Drain
  <1>. HIDE DEF ready, control
  <1>. QED  BY <1>1, <1>2 DEF Controllers, States

LEMMA EndedType ==
  ASSUME NEW state \in States
  PROVE  /\ Ended(state) \in Controllers
         /\ Ended(state).state = state
         /\ ~Ended(state).endpoint /\ ~Ended(state).control /\ ~Ended(state).counts
  BY DEF Ended, Controllers, States

LEMMA TypeNames ==
  TypeOK <=> /\ ctl \in Controllers
             /\ call \in {"idle", "graceful", "kill"}
             /\ after \in {"none", "start", "close"} /\ (call = "idle" => after = "none")
             /\ proc \in {"none", "starting", "loading", "serving", "closing", "dead"}
             /\ out \in Outputs
             /\ path \in Paths \cup {NoPath} /\ snapshot \in Paths \cup {Temp}
             /\ ~hasProject => project = 0 /\ ~dirty
  BY DEF TypeOK, Controllers, Outputs

-----------------------------------------------------------------------------
(* What a step must still show when it leaves the editor alone, or the        *)
(* controller and its process.                                              *)

EditorTypes == /\ path \in Paths \cup {NoPath} /\ snapshot \in Paths \cup {Temp}
               /\ ~hasProject => project = 0 /\ ~dirty
CallTypes == /\ call \in {"idle", "graceful", "kill"}
             /\ after \in {"none", "start", "close"} /\ (call = "idle" => after = "none")
RuntimeClean ==
  /\ ctl \in Controllers
  /\ proc \in {"none", "starting", "loading", "serving", "closing", "dead"}
  /\ out \in Outputs
  /\ ctl.state \in {"Stopped", "Crashed"} => proc = "none" /\ ~ctl.endpoint
  /\ proc = "none" => Fresh
  /\ ctl.state = "Running" => ctl.endpoint /\ proc # "none"
  /\ proc \in {"starting", "loading"} => out = <<>> /\ Fresh
  /\ ~installed => proc = "none"

LEMMA Parts == EndInv <=> EditorTypes /\ CallTypes /\ RuntimeClean
  BY TypeNames DEF EndInv, EndedIsClean, EditorTypes, CallTypes, RuntimeClean, Fresh

LEMMA PartsNext == EndInv' <=> EditorTypes' /\ CallTypes' /\ RuntimeClean'
  BY Parts, PTL

LEMMA EndInvInit == ASSUME StudioInit PROVE EndInv
  <1>. USE DEF StudioInit, RuntimeInit
  <1>1. EditorTypes /\ CallTypes
    BY DEF EditorTypes, CallTypes
  <1>2. RuntimeClean
    BY EndedType DEF RuntimeClean, Fresh, Outputs, States
  <1>. QED  BY <1>1, <1>2, Parts

(* The controller's own steps.                                              *)
LEMMA ControllerKeeps ==
  ASSUME RuntimeClean, ControllerStep
  PROVE  RuntimeClean'
  <1>1. CASE DrainProcessOutput
    <2>1. PICK n \in 1 .. Len(out) : /\ ctl' = Drain(ctl, SubSeq(out, 1, n))
                                    /\ out' = SubSeq(out, n + 1, Len(out))
      BY <1>1 DEF DrainProcessOutput
    <2>2. out' \in Outputs /\ out # <<>>
      BY <2>1 DEF RuntimeClean, Outputs
    <2>3. proc' = proc /\ proc # "none" /\ installed' = installed
      BY <1>1 DEF DrainProcessOutput
    <2>4. /\ ctl' \in Controllers
          /\ ctl'.state \in {ctl.state, "Running"}
          /\ ctl'.state # ctl.state => ctl'.endpoint
          /\ ctl.endpoint => ctl'.endpoint
      BY <2>1, DrainType DEF RuntimeClean
    <2>. QED  BY <2>2, <2>3, <2>4 DEF RuntimeClean, Fresh
  <1>2. CASE Finished
    <2>1. PICK state \in States : ctl' = Ended(state)
      BY <1>2 DEF Finished, HandleFinished, States
    <2>2. proc' = "none" /\ out' = <<>> /\ installed' = installed
      BY <1>2 DEF Finished
    <2>3. state \in {"Stopped", "Crashed"}
      BY <1>2, <2>1, EndedType DEF Finished, HandleFinished, States
    <2>. QED  BY <2>1, <2>2, <2>3, EndedType DEF RuntimeClean, Fresh, Outputs
  <1>3. CASE FailsToStart
    BY <1>3 DEF FailsToStart, RuntimeClean, Fresh, Controllers, States
  <1>4. CASE ControlReadyRead
    BY <1>4 DEF ControlReadyRead, processVars, RuntimeClean, Fresh, Controllers, States
  <1>5. CASE ControlDisconnected
    BY <1>5 DEF ControlDisconnected, processVars, RuntimeClean, Fresh, Controllers, States
  <1>6. CASE GracefulTimeout
    BY <1>6 DEF GracefulTimeout, RuntimeClean, Fresh
  <1>. QED  BY <1>1, <1>2, <1>3, <1>4, <1>5, <1>6 DEF ControllerStep

LEMMA ProcessKeeps ==
  ASSUME RuntimeClean, ProcessStep
  PROVE  RuntimeClean'
  <1>. USE DEF RuntimeClean, Fresh
  <1>1. CASE Spawned
    BY <1>1 DEF Spawned, Becomes
  <1>2. CASE ReadStop
    BY <1>2 DEF ReadStop, Becomes
  <1>3. CASE ExitClean
    BY <1>3 DEF ExitClean, Exit
  <1>4. CASE ExitCrash
    BY <1>4 DEF ExitCrash, Exit, Alive
  <1>5. CASE KilledExit
    BY <1>5 DEF KilledExit, Exit
  <1>. QED  BY <1>1, <1>2, <1>3, <1>4, <1>5 DEF ProcessStep

(* start(): while the last process still lives none of its traces count.       *)
LEMMA StartRuntimeKeeps ==
  ASSUME RuntimeClean, StartRuntime
  PROVE  RuntimeClean'
  <1>1. CASE UNCHANGED <<ctl, processVars>>
    BY <1>1 DEF processVars, RuntimeClean, Fresh
  <1>2. CASE ~installed /\ ctl' = [ctl EXCEPT !.state = "Crashed"] /\ UNCHANGED processVars
    BY <1>2 DEF processVars, RuntimeClean, Fresh, Controllers, States
  <1>3. CASE /\ installed
             /\ ctl' = [ctl EXCEPT !.state = "Starting", !.endpoint = FALSE,
                                   !.stopRequested = FALSE, !.counts = FALSE]
    <2>1. /\ ctl' \in Controllers
          /\ ctl'.state = "Starting" /\ ~ctl'.endpoint /\ ~ctl'.counts
          /\ ctl'.control = ctl.control
      BY <1>3 DEF RuntimeClean, Controllers, States
    <2>2. CASE proc # "none" /\ UNCHANGED processVars
      BY <2>1, <2>2 DEF processVars, RuntimeClean, Fresh
    <2>3. CASE proc = "none" /\ proc' = "starting" /\ out' = <<>> /\ UNCHANGED installed
      BY <1>3, <2>1, <2>3 DEF RuntimeClean, Fresh, Outputs
    <2>. QED  BY <1>1, <1>3, <2>2, <2>3 DEF StartRuntime
  <1>. QED  BY <1>1, <1>2, <1>3 DEF StartRuntime

-----------------------------------------------------------------------------
(* The content that is served.  What the process will load is the content it    *)
(* was started with or a later one of the same file, so the invariant follows    *)
(* the file from the start until it is loaded.                              *)
Files == Paths \cup {Temp}
ServedInv ==
  /\ disk \in [Files -> Nat] /\ project \in Nat /\ edits \in Nat
  /\ hasProject /\ path # NoPath /\ ~dirty => disk[path] = project
  /\ hasProject /\ proc # "none" => project \in since
  /\ proc \in {"starting", "loading"} => disk[snapshot] \in since
  /\ proc = "serving" => served \in since
StudioInv == EndInv /\ ServedInv

(* Steps of the runtime alone bring no process to serve and start none.        *)
LEMMA RuntimeLeavesServed ==
  ASSUME ServedInv, UNCHANGED <<projectVars, servedVars>>,
         \/ proc' \in {proc, "none", "closing", "dead"} /\ (proc = "none" => proc' = "none")
         \/ proc = "starting" /\ proc' = "loading"
  PROVE  ServedInv'
  BY DEF ServedInv, projectVars, servedVars

LEMMA ServedInvInit == ASSUME StudioInit PROVE ServedInv
  BY DEF StudioInit, RuntimeInit, ServedInv, Files

(* startServer() stores a snapshot of the project unless the file holds it.    *)
LEMMA StartServerKeeps ==
  ASSUME EditorTypes, RuntimeClean, ServedInv, StartServer
  PROVE  EditorTypes' /\ RuntimeClean' /\ ServedInv'
  <1>1. CASE UNCHANGED <<ctl, processVars, projectVars, servedVars>>
    BY <1>1 DEF EditorTypes, RuntimeClean, Fresh, ServedInv, processVars, projectVars, servedVars
  <1>2. CASE hasProject /\ ~ UNCHANGED <<ctl, processVars, projectVars, servedVars>>
    <2>. DEFINE file == IF path # NoPath /\ ~dirty THEN path ELSE Temp
    <2>1. /\ disk' = (IF file = Temp THEN [disk EXCEPT ![Temp] = project] ELSE disk)
          /\ IF Spawns THEN snapshot' = file /\ served' = 0 /\ since' = {project}
             ELSE UNCHANGED servedVars
          /\ StartRuntime
          /\ UNCHANGED <<hasProject, project, path, dirty, edits>>
      BY <1>2 DEF StartServer
    <2>2. file \in Files
      BY DEF EditorTypes, Files
    <2>3. /\ disk' \in [Files -> Nat] /\ disk'[file] = project
          /\ \A f \in Files : f # Temp => disk'[f] = disk[f]
          /\ disk'[Temp] \in {disk[Temp], project}
      BY <2>1, <2>2, <1>2 DEF ServedInv, Files
    <2>4. RuntimeClean'
      BY <2>1, StartRuntimeKeeps
    <2>5. EditorTypes'
      BY <2>1, <2>2 DEF EditorTypes, servedVars, Files
    <2>6. hasProject /\ path # NoPath /\ ~dirty => disk'[path] = project
      BY <2>3, StudioAssumption DEF StudioAssumption, EditorTypes, ServedInv, Files
    <2>7. CASE Spawns
      <3>1. snapshot' = file /\ since' = {project} /\ proc' = "starting"
        BY <2>1, <2>7 DEF Spawns, StartRuntime
      <3>. QED  BY <2>1, <2>3, <2>4, <2>5, <2>6, <3>1 DEF ServedInv
    <2>8. CASE ~Spawns
      <3>1. UNCHANGED servedVars /\ proc' = proc
        BY <2>1, <2>8 DEF Spawns, StartRuntime, processVars
      <3>2. proc \in {"starting", "loading"} => disk'[snapshot] \in since
        BY <1>2, <2>3 DEF ServedInv, EditorTypes, Files
      <3>. QED  BY <2>1, <2>3, <2>4, <2>5, <2>6, <3>1, <3>2 DEF ServedInv, servedVars
    <2>. QED  BY <2>7, <2>8
  <1>. QED  BY <1>1, <1>2 DEF StartServer

LEMMA ContinueKeeps ==
  ASSUME EditorTypes, RuntimeClean, ServedInv, NEW what, Continue(what)
  PROVE  EditorTypes' /\ RuntimeClean' /\ ServedInv'
  <1>1. CASE UNCHANGED <<ctl, processVars, projectVars, servedVars>>
    BY <1>1 DEF EditorTypes, RuntimeClean, Fresh, ServedInv, processVars, projectVars, servedVars
  <1>2. CASE StartServer
    BY <1>2, StartServerKeeps
  <1>3. CASE ForgetProject
    BY <1>3 DEF ForgetProject, EditorTypes, RuntimeClean, Fresh, ServedInv, processVars, servedVars
  <1>. QED  BY <1>1, <1>2, <1>3 DEF Continue

(* stop() of a process, and what waits for it.                              *)
LEMMA StopThenKeeps ==
  ASSUME StudioInv, NEW what \in {"none", "start", "close"}, StopThen(what)
  PROVE  StudioInv'
  <1>1. EditorTypes /\ CallTypes /\ RuntimeClean /\ ServedInv
    BY Parts DEF StudioInv
  <1>2. CASE Continue(what) /\ UNCHANGED <<call, after>>
    <2>1. EditorTypes' /\ RuntimeClean' /\ ServedInv'
      BY <1>1, <1>2, ContinueKeeps
    <2>2. CallTypes'
      BY <1>1, <1>2 DEF CallTypes
    <2>. QED  BY <2>1, <2>2, PartsNext DEF StudioInv
  <1>3. CASE proc # "none" /\ StopRuntime /\ after' = what /\ UNCHANGED <<projectVars, servedVars>>
    <2>1. RuntimeClean'
      BY <1>1, <1>3 DEF StopRuntime, RuntimeClean, Fresh, Controllers, States
    <2>2. EditorTypes'
      BY <1>1, <1>3 DEF EditorTypes, projectVars, servedVars
    <2>3. CallTypes'
      BY <1>3 DEF StopRuntime, CallTypes
    <2>4. ServedInv'
      BY <1>1, <1>3, RuntimeLeavesServed DEF StopRuntime
    <2>. QED  BY <2>1, <2>2, <2>3, <2>4, PartsNext DEF StudioInv
  <1>. QED  BY <1>2, <1>3 DEF StopThen

(* Steps of the editor: the runtime goes on with what it has.                *)
LEMMA EditorKeeps ==
  ASSUME StudioInv, NewProject \/ Edit \/ OpenProject \/ SaveProject
  PROVE  StudioInv'
  <1>1. EditorTypes /\ CallTypes /\ RuntimeClean /\ ServedInv
    BY Parts DEF StudioInv
  <1>2. UNCHANGED <<runtimeVars, after, snapshot, served>>
    BY DEF NewProject, Edit, OpenProject, SaveProject, servedVars
  <1>3. RuntimeClean' /\ CallTypes'
    BY <1>1, <1>2 DEF runtimeVars, RuntimeClean, CallTypes, Fresh
  <1>4. CASE NewProject \/ Edit
    <2>1. /\ project' = edits + 1 /\ edits' = edits + 1 /\ since' = since \cup {edits + 1}
          /\ dirty' = TRUE /\ disk' = disk
      BY <1>4 DEF NewProject, Edit, NewContent, SetDirty
    <2>2. EditorTypes'
      BY <1>1, <1>2, <1>4 DEF NewProject, Edit, EditorTypes
    <2>3. ServedInv'
      BY <1>1, <1>2, <2>1 DEF ServedInv, runtimeVars
    <2>. QED  BY <1>3, <2>2, <2>3, PartsNext DEF StudioInv
  <1>5. CASE OpenProject
    <2>1. PICK p \in Paths :
            /\ project' = disk[p] /\ path' = p /\ hasProject' = TRUE /\ dirty' = FALSE
            /\ since' = since \cup {disk[p]}
      BY <1>5 DEF OpenProject
    <2>2. disk' = disk /\ edits' = edits
      BY <1>5 DEF OpenProject
    <2>3. EditorTypes'
      BY <1>1, <1>2, <2>1 DEF EditorTypes
    <2>4. ServedInv'
      BY <1>1, <1>2, <2>1, <2>2 DEF ServedInv, runtimeVars, Files
    <2>. QED  BY <1>3, <2>3, <2>4, PartsNext DEF StudioInv
  <1>6. CASE SaveProject
    <2>1. PICK p \in Paths : disk' = [disk EXCEPT ![p] = project] /\ path' = p /\ dirty' = FALSE
      BY <1>6 DEF SaveProject
    <2>2. hasProject /\ UNCHANGED <<hasProject, project, edits, since>>
      BY <1>6 DEF SaveProject, servedVars
    <2>3. EditorTypes'
      BY <1>1, <1>2, <2>1, <2>2 DEF EditorTypes
    <2>4. disk' \in [Files -> Nat] /\ disk'[p] = project
      BY <1>1, <2>1 DEF ServedInv, Files
    <2>5. disk'[snapshot] \in {disk[snapshot], project}
      BY <1>1, <2>1 DEF ServedInv, EditorTypes, Files
    <2>6. ServedInv'
      BY <1>1, <1>2, <2>1, <2>2, <2>4, <2>5 DEF ServedInv, runtimeVars
    <2>. QED  BY <1>3, <2>3, <2>6, PartsNext DEF StudioInv
  <1>. QED  BY <1>4, <1>5, <1>6

LEMMA StudioInvKept == ASSUME StudioInv, [StudioNext]_studioVars PROVE StudioInv'
  <1>1. EditorTypes /\ CallTypes /\ RuntimeClean /\ ServedInv
    BY Parts DEF StudioInv
  <1>2. CASE NewProject \/ Edit \/ OpenProject \/ SaveProject
    BY <1>2, EditorKeeps
  <1>3. CASE Start
    <2>1. EditorTypes' /\ RuntimeClean' /\ ServedInv'
      BY <1>1, <1>3, StartServerKeeps DEF Start
    <2>2. CallTypes'
      BY <1>1, <1>3 DEF Start, CallTypes
    <2>. QED  BY <2>1, <2>2, PartsNext DEF StudioInv
  <1>4. CASE Stop \/ Restart \/ CloseProject
    <2>1. PICK what \in {"none", "start", "close"} : StopThen(what)
      BY <1>4 DEF Stop, Restart, CloseProject
    <2>. QED  BY <2>1, StopThenKeeps
  <1>5. CASE Kill
    <2>1. RuntimeClean'
      BY <1>1, <1>5 DEF Kill, KillRuntime, RuntimeClean, Fresh, Controllers, States
    <2>2. EditorTypes' /\ CallTypes'
      BY <1>1, <1>5 DEF Kill, KillRuntime, EditorTypes, CallTypes, projectVars, servedVars
    <2>3. ServedInv'
      BY <1>1, <1>5, RuntimeLeavesServed DEF Kill, KillRuntime
    <2>. QED  BY <2>1, <2>2, <2>3, PartsNext DEF StudioInv
  <1>6. CASE CallReturns
    <2>1. EditorTypes' /\ RuntimeClean' /\ ServedInv'
      BY <1>1, <1>6, ContinueKeeps DEF CallReturns
    <2>2. CallTypes'
      BY <1>6 DEF CallReturns, Returns, CallTypes
    <2>. QED  BY <2>1, <2>2, PartsNext DEF StudioInv
  <1>7. CASE Load
    <2>1. /\ proc = "loading" /\ proc' = "serving"
          /\ UNCHANGED <<ctl, call, installed, projectVars, snapshot, since, after>>
          /\ served' = disk[snapshot]
      BY <1>7 DEF Load, Serve, Becomes
    <2>2. out' \in Outputs
      <3>1. out \in Seq({"READY", "CONTROL"})
        BY <1>1 DEF RuntimeClean, Outputs
      <3>2. out' = out \o <<"READY", "CONTROL">> \/ out' = Append(out, "READY")
        BY <1>7 DEF Load, Serve
      <3>3. <<"READY", "CONTROL">> \in Seq({"READY", "CONTROL"})
        OBVIOUS
      <3>. DEFINE S == {"READY", "CONTROL"}
      <3>4. "READY" \in S
        OBVIOUS
      <3>. HIDE DEF S
      <3>5. Append(out, "READY") \in Seq(S)
        BY <3>1, <3>4 DEF S
      <3>6. out \o <<"READY", "CONTROL">> \in Seq(S)
        BY <3>1, <3>3 DEF S
      <3>. QED  BY <3>2, <3>5, <3>6 DEF Outputs, S
    <2>3. RuntimeClean'
      <3>1. ctl.state \notin {"Stopped", "Crashed", "Running"} /\ installed
        BY <1>1, <2>1 DEF RuntimeClean, Fresh
      <3>2. ctl' = ctl /\ installed' = installed
        BY <2>1
      <3>. QED  BY <1>1, <2>1, <2>2, <3>1, <3>2 DEF RuntimeClean, Fresh
    <2>4. EditorTypes' /\ CallTypes'
      BY <1>1, <2>1 DEF EditorTypes, CallTypes, projectVars
    <2>5. ServedInv'
      BY <1>1, <2>1 DEF ServedInv, projectVars
    <2>. QED  BY <2>3, <2>4, <2>5, PartsNext DEF StudioInv
  <1>8. CASE (ControllerStep \/ ProcessStep) /\ UNCHANGED <<projectVars, servedVars, after>>
    <2>1. RuntimeClean'
      BY <1>1, <1>8, ControllerKeeps, ProcessKeeps
    <2>2. EditorTypes'
      BY <1>1, <1>8 DEF EditorTypes, projectVars, servedVars
    <2>3. CallTypes'
      <3>1. call' = call \/ (call' = "kill")
        BY <1>8 DEF ControllerStep, DrainProcessOutput, Finished, FailsToStart, ControlReadyRead,
              ControlDisconnected, GracefulTimeout, ProcessStep, Spawned, ReadStop, Becomes,
              ExitClean, ExitCrash, KilledExit, Exit
      <3>. QED  BY <1>1, <1>8, <3>1 DEF CallTypes
    <2>4. \/ proc' \in {proc, "none", "closing", "dead"} /\ (proc = "none" => proc' = "none")
          \/ proc = "starting" /\ proc' = "loading"
      <3>1. CASE ControllerStep
        BY <3>1 DEF ControllerStep, DrainProcessOutput, Finished, FailsToStart, ControlReadyRead,
              ControlDisconnected, GracefulTimeout, processVars
      <3>2. CASE ProcessStep
        BY <3>2 DEF ProcessStep, Spawned, ReadStop, Becomes, ExitClean, ExitCrash, KilledExit,
              Exit, Alive
      <3>. QED  BY <1>8, <3>1, <3>2
    <2>5. ServedInv'
      BY <1>1, <1>8, <2>4, RuntimeLeavesServed
    <2>. QED  BY <2>1, <2>2, <2>3, <2>5, PartsNext DEF StudioInv
  <1>9. CASE UNCHANGED studioVars
    BY <1>1, <1>9, PartsNext DEF StudioInv, studioVars, runtimeVars, projectVars, servedVars,
       EditorTypes, CallTypes, RuntimeClean, Fresh, ServedInv
  <1>. QED  BY <1>2, <1>3, <1>4, <1>5, <1>6, <1>7, <1>8, <1>9 DEF StudioNext, UserStep

-----------------------------------------------------------------------------
(* "Stopped: no process is running", "Crashed: process exited abnormally or     *)
(* failed to start": however starts, stops, kills and their timeouts interleave   *)
(* with what the process writes and how it ends (ServerRuntimeController).        *)
THEOREM EndsAreClean == StudioSpec => []EndedIsClean
  <1>1. StudioInv => EndedIsClean
    BY DEF StudioInv, EndInv
  <1>2. StudioInit => StudioInv
    BY EndInvInit, ServedInvInit DEF StudioInv
  <1>. QED  BY <1>1, <1>2, StudioInvKept, PTL DEF StudioSpec

(* A runtime serves the content it was started with or a later one, never an      *)
(* older file (ServerStudio::startServer, writeRuntimeSnapshot).                *)
THEOREM ServesNothingOlder == StudioSpec => []ServesWhatWasStarted
  <1>1. StudioInv => ServesWhatWasStarted
    BY DEF StudioInv, ServedInv, ServesWhatWasStarted
  <1>2. StudioInit => StudioInv
    BY EndInvInit, ServedInvInit DEF StudioInv
  <1>. QED  BY <1>1, <1>2, StudioInvKept, PTL DEF StudioSpec

-----------------------------------------------------------------------------
(* The certificates of the running server (RuntimeEngines).                    *)

(* The list read at the start must be covered by the two stores as well: a      *)
(* certificate that is accepted by it is written to neither, and the stores     *)
(* may have changed since.                                                  *)
PkiInv == offered \cup loaded \subseteq rejected \cup trusted

(* Only three actions touch the stores.                                      *)
LEMMA PkiInvInit == ASSUME EngineInit PROVE PkiInv
  BY DEF EngineInit, PkiInv

LEMMA PkiInvKept == ASSUME PkiInv, [EngineNext]_engineVars PROVE PkiInv'
  <1>. USE DEF PkiInv
  <1>1. ASSUME NEW cert \in Certs, ClientOffers(cert) PROVE PkiInv'
    BY <1>1 DEF ClientOffers
  <1>2. ASSUME NEW cert \in Certs, TrustRejected(cert) PROVE PkiInv'
    <2>1. UNCHANGED <<offered, loaded>>
      BY <1>2 DEF TrustRejected
    <2>2. CASE trusted' = trusted \cup {cert} /\ rejected' = rejected \ {cert}
      BY <2>1, <2>2
    <2>3. CASE trusted' = trusted \ {cert} /\ UNCHANGED rejected
      <3>1. cert \in rejected
        BY <1>2 DEF TrustRejected
      <3>. QED  BY <2>1, <2>3, <3>1
    <2>. QED  BY <1>2, <2>2, <2>3 DEF TrustRejected
  <1>3. CASE RuntimeRestart
    BY <1>3 DEF RuntimeRestart
  <1>4. ASSUME UNCHANGED <<trusted, rejected, loaded, offered>> PROVE PkiInv'
    BY <1>4
  <1>5. ASSUME NEW id \in VariableIds(design), NEW v \in WriteValues, ClientWrite(id, v)
        PROVE  PkiInv'
    BY <1>4, <1>5 DEF ClientWrite
  <1>6. CASE PerformAction
    BY <1>4, <1>6 DEF PerformAction
  <1>7. CASE TimerFires
    BY <1>4, <1>7 DEF TimerFires
  <1>8. CASE Tick
    BY <1>4, <1>8 DEF Tick
  <1>9. CASE SimulatedWrite
    BY <1>4, <1>9 DEF SimulatedWrite
  <1>10. CASE TimePasses
    BY <1>4, <1>10 DEF TimePasses
  <1>11. CASE UNCHANGED engineVars
    BY <1>4, <1>11 DEF engineVars
  <1>. QED  BY <1>1, <1>2, <1>3, <1>5, <1>6, <1>7, <1>8, <1>9, <1>10, <1>11 DEF EngineNext

(* A certificate a strict server refused is among the rejected or the trusted   *)
(* ones, however trusting it fails and however often the runtime restarts        *)
(* (ServerStudio::trustRejectedCertificate, saveRejectedCertificate).          *)
THEOREM OfferedNeverLost == EngineSpec => []OfferedIsKept
  <1>1. PkiInv => OfferedIsKept
    BY DEF PkiInv, OfferedIsKept
  <1>. QED  BY <1>1, PkiInvInit, PkiInvKept, PTL DEF EngineSpec

-----------------------------------------------------------------------------
(* What the project drives (RuntimeEngines): the nodes, rules and simulated   *)
(* variables of a project in which an id means one node.                     *)

ServedOne == design \in Served0

LEMMA VarIs ==
  ASSUME ServedOne, NEW n \in ToSet(design.nodes)
  PROVE  Var(n.id) = n
  <1>1. PICK i \in DOMAIN design.nodes : n = design.nodes[i]
    BY DEF ToSet
  <1>2. \A m \in ToSet(design.nodes) : m.id = n.id => m = n
    BY <1>1, ServedAssumption DEF ToSet, ServedOne
  <1>. QED  BY <1>2 DEF Var

LEMMA VarOfId ==
  ASSUME ServedOne, NEW id \in VariableIds(design)
  PROVE  Var(id) \in ToSet(design.nodes) /\ Var(id).id = id /\ Variable(Var(id))
  <1>1. PICK n \in ToSet(design.nodes) : n.id = id /\ Variable(n)
    BY DEF VariableIds
  <1>. QED  BY <1>1, VarIs

LEMMA SimulatedIs ==
  ASSUME ServedOne, NEW n \in Simulated(design)
  PROVE  /\ n \in ToSet(design.nodes) /\ n.id \in VariableIds(design) /\ n.id \in SimIds
         /\ Var(n.id) = n
         /\ n.sim.min \in Int /\ n.sim.max \in Int /\ n.sim.step \in Int /\ n.sim.interval \in Int
  <1>1. n \in ToSet(design.nodes) /\ Variable(n)
    BY DEF Simulated
  <1>2. n.id \in VariableIds(design) /\ n.id \in SimIds
    BY <1>1 DEF VariableIds, SimIds
  <1>3. n.sim.min \in Int /\ n.sim.max \in Int /\ n.sim.step \in Int /\ n.sim.interval \in Int
    BY <1>1, ServedAssumption DEF ServedOne
  <1>. QED  BY <1>1, <1>2, <1>3, VarIs

LEMMA RuleIs ==
  ASSUME ServedOne, NEW at \in DOMAIN Rules
  PROVE  /\ Rules[at].trigger \in VariableIds(design) /\ Rules[at].target \in VariableIds(design)
         /\ Rules[at].delay \in Int
         /\ Rules[at] \in AllActions
  <1>. DEFINE Trig(x) == design.rules[x[1]].trigger
              Actn(x) == design.rules[x[1]].actions[x[2]]
  <1>1. at \in ActionsAt(design) /\ {Trig(at), Actn(at).target} \subseteq VariableIds(design)
    BY DEF Rules, Compile
  <1>2. /\ Rules[at].trigger = Trig(at) /\ Rules[at].target = Actn(at).target
        /\ Rules[at].delay = Actn(at).delay
    BY DEF Rules, Compile
  <1>3. PICK i \in DOMAIN design.rules : at \in {i} \X DOMAIN design.rules[i].actions
    BY <1>1 DEF ActionsAt
  <1>4. at[1] = i /\ at[2] \in DOMAIN design.rules[i].actions
    BY <1>3
  <1>5. design.rules[i] \in ToSet(design.rules) /\ Actn(at) \in ToSet(design.rules[i].actions)
    BY <1>4 DEF ToSet
  <1>6. Actn(at).delay \in Int
    BY <1>5, ServedAssumption DEF ServedOne
  <1>. QED  BY <1>1, <1>2, <1>6 DEF AllActions

-----------------------------------------------------------------------------
(* The invariant.  What is still to be done refers to the project, and the       *)
(* timers are in the order of their times.                                     *)

TimersFor(id) == {i \in DOMAIN timers : timers[i].target = id}
SimStates      == [counter : Int, toggle : BOOLEAN, since : Int]

FiredOK == \A f \in fired : /\ f.at \in DOMAIN Rules
                            /\ f.data.type = WireType(Var(Rules[f.at].trigger))
DueOK   == \A i \in due : i \in DOMAIN design.nodes /\ design.nodes[i] \in Simulated(design)
TimersOK ==
  /\ timers \in Seq(ToSet(timers))
  /\ \A i \in DOMAIN timers : /\ timers[i].left \in Int
                              /\ \E a \in AllActions : timers[i].target = a.target
  /\ \A i, j \in DOMAIN timers : i < j => timers[i].left <= timers[j].left

ShapeOK == /\ ServedOne /\ DOMAIN value = VariableIds(design)
           /\ sims \in [SimIds -> SimStates]
           /\ FiredOK /\ DueOK /\ TimersOK

(* The value a copying action is to bring to its target is on its way or has     *)
(* arrived: it is that of an action still to perform; or of the last of the      *)
(* timers for the target; or the target has it and no timer is left that         *)
(* would write it again.  A later copy never overtakes an earlier one, as no      *)
(* timer for the target has more time left than a new one gets.                 *)
Owed(a)     == \E f \in fired : Rules[f.at] = a
OnItsWay(a) == \E i \in TimersFor(a.target) : /\ timers[i].data.v = value[a.trigger].v
                                           /\ \A j \in TimersFor(a.target) : j <= i
Reached(a)  == TimersFor(a.target) = {} /\ value[a.target].v = value[a.trigger].v
Following(a) ==
  /\ \A f \in fired : Rules[f.at] = a => f.data.v = value[a.trigger].v
  /\ \A i \in TimersFor(a.target) : /\ timers[i].left <= a.delay /\ a.delay > 0
                                  /\ timers[i].data.type = WireType(Var(a.trigger))
  /\ Owed(a) \/ OnItsWay(a) \/ Reached(a)

(* A counter starts in its range and only leaves it for its lower bound; what     *)
(* only the simulation writes is what nextValue() gave.                        *)
Bounded(n) == n.sim.step >= 0 /\ n.sim.min <= n.sim.max
Alone(n)   == ~n.writable /\ \A a \in AllActions : a.target # n.id
Ranged(n)  ==
  /\ sims[n.id].counter \in n.sim.min .. n.sim.max
  /\ Alone(n) => \/ value[n.id].v = 0
                 \/ \E v \in n.sim.min .. n.sim.max : value[n.id].v = Coerced(n.type, v)

EngineInv ==
  /\ ShapeOK
  /\ \A a \in AllActions : Copies(a) => Following(a)
  /\ \A n \in Simulated(design) : Bounded(n) => Ranged(n)

(* With nothing to perform and no timer for the target, the value has arrived.  *)
LEMMA InvIsDriven == ASSUME EngineInv PROVE DrivenAsDesigned
  <1>1. CopiesFollow
    <2>. SUFFICES ASSUME NEW a \in AllActions, Copies(a), fired = {},
                         \A i \in DOMAIN timers : timers[i].target # a.target
                  PROVE  value[a.target].v = value[a.trigger].v
      BY DEF CopiesFollow
    <2>1. Following(a)
      BY DEF EngineInv
    <2>. QED  BY <2>1 DEF Following, Owed, OnItsWay, Reached, TimersFor
  <1>2. SimulatedInRange
    <2>. SUFFICES ASSUME NEW n \in Simulated(design), Bounded(n), Alone(n), value[n.id].v # 0
                  PROVE  \E v \in n.sim.min .. n.sim.max : value[n.id].v = Coerced(n.type, v)
      BY DEF SimulatedInRange, Bounded, Alone
    <2>1. Ranged(n)
      BY DEF EngineInv
    <2>. QED  BY <2>1 DEF Ranged
  <1>. QED  BY <1>1, <1>2 DEF DrivenAsDesigned

(* The id of a simulated variable means that variable.                        *)
LEMMA SimIdIs ==
  ASSUME ServedOne, NEW id \in SimIds
  PROVE  \E n \in Simulated(design) : n.id = id /\ Var(id) = n
  <1>1. PICK n \in Simulated(design) : n.id = id
    BY DEF SimIds
  <1>. QED  BY <1>1, SimulatedIs

(* As it starts.                                                           *)
Started == /\ ServedOne
           /\ value = InitialValues(design) /\ sims = InitialSims(design)
           /\ fired = {} /\ due = {} /\ timers = <<>>

(* Every value is 0 and every counter at its lower bound.                      *)
LEMMA StartedInv == ASSUME Started PROVE EngineInv
  <1>. USE DEF Started
  <1>1. \A id \in VariableIds(design) : value[id].v = 0
    BY DEF InitialValues, Typed
  <1>2. SimIds = {n.id : n \in Simulated(design)}
    BY DEF SimIds
  <1>3. \A id \in SimIds : /\ sims[id] = [counter |-> Var(id).sim.min, toggle |-> FALSE, since |-> 0]
    BY <1>2 DEF InitialSims, Var
  <1>4. ShapeOK
    <2>1. DOMAIN value = VariableIds(design)
      BY DEF InitialValues
    <2>2. sims \in [SimIds -> SimStates]
      <3>1. \A id \in SimIds : Var(id).sim.min \in Int
        BY SimIdIs, SimulatedIs
      <3>2. sims = [id \in SimIds |-> sims[id]]
        BY <1>2 DEF InitialSims
      <3>3. ASSUME NEW id \in SimIds PROVE sims[id] \in SimStates
        <4>1. PICK c \in Int : c = Var(id).sim.min
          BY <3>1
        <4>2. sims[id] = [counter |-> c, toggle |-> FALSE, since |-> 0]
          BY <1>3, <4>1
        <4>. QED  BY <4>2 DEF SimStates
      <3>. QED  BY <3>2, <3>3
    <2>3. TimersOK
      BY DEF TimersOK, ToSet
    <2>. QED  BY <2>1, <2>2, <2>3 DEF ShapeOK, FiredOK, DueOK
  <1>5. ASSUME NEW a \in AllActions, Copies(a) PROVE Following(a)
    <2>1. PICK at \in DOMAIN Rules : a = Rules[at]
      BY DEF AllActions
    <2>2. a.target \in VariableIds(design) /\ a.trigger \in VariableIds(design)
      BY <2>1, RuleIs
    <2>. QED  BY <1>1, <2>2 DEF Following, Reached, TimersFor
  <1>6. ASSUME NEW n \in Simulated(design), Bounded(n) PROVE Ranged(n)
    <2>1. /\ n.id \in VariableIds(design) /\ n.id \in SimIds /\ Var(n.id) = n
          /\ n.sim.min \in Int /\ n.sim.max \in Int
      BY SimulatedIs
    <2>2. PICK c \in Int : c = n.sim.min
      BY <2>1
    <2>3. sims[n.id] = [counter |-> c, toggle |-> FALSE, since |-> 0]
      BY <1>3, <2>1, <2>2
    <2>. QED  BY <1>1, <1>6, <2>1, <2>2, <2>3 DEF Ranged, Bounded
  <1>. QED  BY <1>4, <1>5, <1>6 DEF EngineInv

-----------------------------------------------------------------------------
(* What a write does, of the kind that fires rules and of the other, and what   *)
(* it fires.                                                                *)

LEMMA SameDesign ==
  ASSUME UNCHANGED design
  PROVE  /\ Rules' = Rules /\ AllActions' = AllActions /\ SimIds' = SimIds
         /\ \A id : Var(id)' = Var(id)
         /\ Simulated(design)' = Simulated(design)
         /\ VariableIds(design)' = VariableIds(design)
         /\ ServedOne' = ServedOne
         /\ \A a : Copies(a)' = Copies(a)
  <1>1. Rules' = Rules /\ SimIds' = SimIds /\ \A id : Var(id)' = Var(id)
    BY DEF Rules, SimIds, Var
  <1>2. AllActions' = AllActions
    BY <1>1 DEF AllActions
  <1>. QED  BY <1>1, <1>2 DEF ServedOne, Copies

LEMMA FiringWrite ==
  ASSUME NEW id, NEW data, Write(id, data, FALSE, {})
  PROVE  /\ DOMAIN value' = DOMAIN value
         /\ \A x \in DOMAIN value : x # id => value'[x] = value[x]
         /\ Takes(id, data) => /\ id \in DOMAIN value => value'[id] = data
                              /\ fired' = Fired(id, data)
         /\ ~Takes(id, data) => value' = value /\ fired' = {}
  BY DEF Write

LEMMA QuietWrite ==
  ASSUME NEW id, NEW data, NEW rest, Write(id, data, TRUE, rest)
  PROVE  /\ DOMAIN value' = DOMAIN value
         /\ \A x \in DOMAIN value : x # id => value'[x] = value[x]
         /\ Takes(id, data) /\ id \in DOMAIN value => value'[id] = data
         /\ ~Takes(id, data) => value' = value
         /\ fired' = rest
  BY DEF Write

LEMMA FiredAre ==
  ASSUME NEW id, NEW data
  PROVE  /\ \A f \in Fired(id, data) : f.at \in DOMAIN Rules /\ f.data = data /\ Rules[f.at].trigger = id
         /\ \A at \in DOMAIN Rules : Rules[at].trigger = id =>
              \E f \in Fired(id, data) : f.at = at
  <1>1. ASSUME NEW f \in Fired(id, data)
        PROVE  f.at \in DOMAIN Rules /\ f.data = data /\ Rules[f.at].trigger = id
    <2>1. PICK at \in DOMAIN Rules : Rules[at].trigger = id /\ f = [at |-> at, data |-> data]
      BY DEF Fired
    <2>. QED  BY <2>1
  <1>2. ASSUME NEW at \in DOMAIN Rules, Rules[at].trigger = id
        PROVE  \E f \in Fired(id, data) : f.at = at
    <2>. DEFINE f == [at |-> at, data |-> data]
    <2>1. f \in Fired(id, data) /\ f.at = at
      BY <1>2 DEF Fired
    <2>. QED  BY <2>1
  <1>. QED  BY <1>1, <1>2

(* A write that fires: by a client, or by the simulation.                    *)
LEMMA FiringFollows ==
  ASSUME ShapeOK, UNCHANGED <<design, timers>>, fired = {}, NEW id, NEW data, Write(id, data, FALSE, {}),
         NEW a \in AllActions, Copies(a), Following(a), id # a.target
  PROVE  Following(a)'
  <1>. DEFINE t == a.target
              g == a.trigger
  <1>1. PICK at \in DOMAIN Rules : a = Rules[at]
    BY DEF AllActions
  <1>2. t \in DOMAIN value /\ g \in DOMAIN value
    BY <1>1, RuleIs DEF ShapeOK
  <1>3. Rules' = Rules /\ (\A x : Var(x)' = Var(x)) /\ TimersFor(t)' = TimersFor(t)
    BY SameDesign DEF TimersFor
  <1>4. value'[t] = value[t]
    BY <1>2, FiringWrite
  <1>5. \A i \in TimersFor(t)' : /\ timers'[i].left <= a.delay /\ a.delay > 0
                                /\ timers'[i].data.type = WireType(Var(g)')
    BY <1>3 DEF Following
  <1>6. CASE Takes(id, data) /\ id = g
    <2>1. fired' = Fired(id, data) /\ value'[id] = data
      BY <1>2, <1>6, FiringWrite
    <2>2. Owed(a)'
      BY <1>1, <1>3, <1>6, <2>1, FiredAre DEF Owed
    <2>3. \A f \in fired' : f.data.v = value'[g].v
      BY <1>6, <2>1, FiredAre
    <2>. QED  BY <1>3, <1>5, <2>2, <2>3 DEF Following
  <1>7. CASE ~(Takes(id, data) /\ id = g)
    <2>1. value'[g] = value[g]
      BY <1>2, <1>7, FiringWrite
    <2>2. ASSUME NEW f \in fired' PROVE Rules[f.at] # a
      <3>1. f \in Fired(id, data) /\ Takes(id, data)
        BY <2>2, FiringWrite
      <3>. QED  BY <1>7, <3>1, FiredAre
    <2>3. OnItsWay(a) \/ Reached(a)
      BY DEF Following, Owed
    <2>4. OnItsWay(a)' \/ Reached(a)'
      BY <1>3, <1>4, <2>1, <2>3 DEF OnItsWay, Reached
    <2>. QED  BY <1>3, <1>5, <2>2, <2>4 DEF Following
  <1>. QED  BY <1>6, <1>7

(* Insertion into a sequence, position by position.                          *)
LEMMA InsertAtIs ==
  ASSUME NEW S, NEW s \in Seq(S), NEW k \in 1 .. Len(s) + 1, NEW e
  PROVE  /\ InsertAt(s, k, e) \in Seq(S \cup {e})
         /\ Len(InsertAt(s, k, e)) = Len(s) + 1
         /\ \A i \in 1 .. Len(s) + 1 :
              InsertAt(s, k, e)[i] = IF i < k THEN s[i] ELSE IF i = k THEN e ELSE s[i - 1]
  <1>. DEFINE T == S \cup {e}
              b == SubSeq(s, 1, k - 1)
              c == SubSeq(s, k, Len(s))
  <1>1. s \in Seq(T) /\ k \in Int /\ Len(s) \in Nat
    BY SeqMonotonic, LenProperties
  <1>2. b \in Seq(T) /\ Len(b) = k - 1 /\ \A i \in 1 .. k - 1 : b[i] = s[i]
    BY <1>1, SubSeqProperties
  <1>3. c \in Seq(T) /\ Len(c) = Len(s) - k + 1 /\ \A i \in 1 .. Len(s) - k + 1 : c[i] = s[k + i - 1]
    BY <1>1, SubSeqProperties
  <1>4. InsertAt(s, k, e) = (b \o <<e>>) \o c
    BY DEF InsertAt
  <1>. HIDE DEF b, c
  <1>5. /\ b \o <<e>> \in Seq(T) /\ Len(b \o <<e>>) = k
        /\ \A i \in 1 .. k : (b \o <<e>>)[i] = IF i < k THEN b[i] ELSE e
    BY <1>1, <1>2
  <1>. DEFINE d == b \o <<e>>
  <1>. HIDE DEF d
  <1>6. /\ d \o c \in Seq(T) /\ Len(d \o c) = Len(s) + 1
        /\ \A i \in 1 .. Len(s) + 1 : (d \o c)[i] = IF i <= k THEN d[i] ELSE c[i - k]
    <2>1. d \in Seq(T) /\ Len(d) = k
      BY <1>5 DEF d
    <2>2. /\ d \o c \in Seq(T) /\ Len(d \o c) = Len(d) + Len(c)
          /\ \A i \in 1 .. Len(d) + Len(c) : (d \o c)[i] = IF i <= Len(d) THEN d[i] ELSE c[i - Len(d)]
      BY ONLY <1>3, <2>1, ConcatProperties
    <2>3. Len(d) + Len(c) = Len(s) + 1
      BY <1>1, <1>3, <2>1
    <2>. QED  BY ONLY <2>1, <2>2, <2>3
  <1>. QED  BY <1>1, <1>2, <1>3, <1>4, <1>5, <1>6 DEF d

(* A sequence is one of its own elements.                                    *)
LEMMA SelfSeq ==
  ASSUME NEW S, NEW s \in Seq(S)
  PROVE  s \in Seq(ToSet(s)) /\ Len(s) \in Nat /\ DOMAIN s = 1 .. Len(s)
  <1>1. Len(s) \in Nat /\ s \in [1 .. Len(s) -> S] /\ DOMAIN s = 1 .. Len(s)
    BY LenProperties
  <1>2. \A i \in 1 .. Len(s) : s[i] \in ToSet(s)
    BY <1>1 DEF ToSet
  <1>3. s \in [1 .. Len(s) -> ToSet(s)]
    BY <1>1, <1>2
  <1>. QED  BY <1>1, <1>3, SeqDef

TimerOf(a, data) == [target |-> a.target, data |-> Built(a, data), left |-> a.delay]

(* Where a new timer comes to stand: the order is kept.                       *)
LEMMA ScheduleEffect ==
  ASSUME TimersOK, UNCHANGED design, NEW a \in AllActions, a.delay \in Int, NEW data,
         Schedule(a, data)
  PROVE  \E k \in 1 .. Len(timers) + 1 :
           /\ Len(timers) \in Nat /\ DOMAIN timers = 1 .. Len(timers)
           /\ DOMAIN timers' = 1 .. Len(timers) + 1
           /\ \A i \in DOMAIN timers : timers[i].left <= a.delay <=> i < k
           /\ \A i \in DOMAIN timers' :
                timers'[i] = IF i < k THEN timers[i]
                             ELSE IF i = k THEN TimerOf(a, data) ELSE timers[i - 1]
           /\ TimersOK'
  <1>. DEFINE t == TimerOf(a, data)
              n == Len(timers)
  <1>1. PICK k \in 1 .. n + 1 : /\ \A i \in DOMAIN timers : timers[i].left <= a.delay <=> i < k
                                /\ timers' = InsertAt(timers, k, t)
    BY DEF Schedule, TimerOf
  <1>2. timers \in Seq(ToSet(timers)) /\ n \in Nat /\ DOMAIN timers = 1 .. n
    BY LenProperties DEF TimersOK
  <1>0. \A i \in 1 .. n : timers[i].left <= a.delay <=> i < k
    <2>1. \A i \in DOMAIN timers : timers[i].left <= a.delay <=> i < k
      BY <1>1
    <2>. QED  BY ONLY <2>1, <1>2
  <1>. HIDE DEF t
  <1>3. /\ timers' \in Seq(ToSet(timers) \cup {t}) /\ Len(timers') = n + 1
        /\ \A i \in 1 .. n + 1 : timers'[i] = IF i < k THEN timers[i] ELSE IF i = k THEN t ELSE timers[i - 1]
    <2>1. timers' = InsertAt(timers, k, t)
      BY <1>1
    <2>2. k \in 1 .. Len(timers) + 1
      BY <1>1
    <2>. HIDE DEF n
    <2>3. /\ InsertAt(timers, k, t) \in Seq(ToSet(timers) \cup {t})
          /\ Len(InsertAt(timers, k, t)) = Len(timers) + 1
          /\ \A i \in 1 .. Len(timers) + 1 : InsertAt(timers, k, t)[i]
                 = IF i < k THEN timers[i] ELSE IF i = k THEN t ELSE timers[i - 1]
      BY ONLY <1>2, <2>2, InsertAtIs
    <2>. QED  BY ONLY <2>1, <2>3 DEF n
  <1>4. timers' \in Seq(ToSet(timers')) /\ DOMAIN timers' = 1 .. n + 1
    BY <1>3, SelfSeq
  <1>5. t.left = a.delay /\ t.target = a.target
    BY DEF t, TimerOf
  <1>6. \A i \in 1 .. n : timers[i].left \in Int /\ \E b \in AllActions : timers[i].target = b.target
    BY <1>2 DEF TimersOK
  <1>7. \A i \in 1 .. n + 1 : timers'[i].left \in Int /\ \E b \in AllActions : timers'[i].target = b.target
    <2>. TAKE i \in 1 .. n + 1
    <2>1. CASE i < k
      BY <1>2, <1>3, <1>6, <2>1
    <2>2. CASE i = k
      BY <1>3, <1>5, <2>2
    <2>3. CASE i > k
      <3>1. i - 1 \in 1 .. n /\ timers'[i] = timers[i - 1]
        BY <1>2, <1>3, <2>3
      <3>. QED  BY <1>6, <3>1
    <2>. QED  BY <1>2, <2>1, <2>2, <2>3
  <1>8. ASSUME NEW i \in 1 .. n + 1, NEW j \in 1 .. n + 1, i < j
        PROVE  timers'[i].left <= timers'[j].left
    <2>1. \A x, y \in 1 .. n : x < y => timers[x].left <= timers[y].left
      BY <1>2 DEF TimersOK
    <2>2. \A x \in 1 .. n : timers[x].left <= a.delay <=> x < k
      BY <1>0
    <2>3. CASE i < k /\ j < k
      BY <1>2, <1>3, <1>8, <2>1, <2>3
    <2>4. CASE i < k /\ j = k
      BY <1>2, <1>3, <1>5, <2>2, <2>4
    <2>5. CASE i < k /\ j > k
      <3>1. /\ timers'[i] = timers[i] /\ timers'[j] = timers[j - 1]
            /\ i \in 1 .. n /\ j - 1 \in 1 .. n /\ (i < j - 1 \/ i = j - 1)
        BY <1>2, <1>3, <2>5
      <3>2. CASE i < j - 1
        BY <2>1, <2>5, <3>1, <3>2, <1>2
      <3>3. CASE i = j - 1
        BY <2>5, <3>1, <3>3, <1>2
      <3>. QED  BY <1>2, <1>8, <3>2, <3>3
    <2>6. CASE i = k /\ j > k
      <3>1. timers'[i] = t /\ timers'[j] = timers[j - 1] /\ j - 1 \in 1 .. n /\ ~(j - 1 < k)
        BY <1>2, <1>3, <2>6
      <3>2. ~(timers[j - 1].left <= a.delay) /\ timers[j - 1].left \in Int
        BY <1>6, <2>2, <3>1
      <3>. QED  BY <1>5, <3>1, <3>2
    <2>7. CASE i > k /\ j > k
      <3>1. /\ timers'[i] = timers[i - 1] /\ timers'[j] = timers[j - 1]
            /\ i - 1 \in 1 .. n /\ j - 1 \in 1 .. n /\ i - 1 < j - 1
        BY <1>2, <1>3, <1>8, <2>7
      <3>. QED  BY <2>1, <3>1
    <2>. QED  BY <1>2, <1>8, <2>3, <2>4, <2>5, <2>6, <2>7
  <1>9. TimersOK'
    BY <1>4, <1>7, <1>8, SameDesign DEF TimersOK
  <1>10. \A i \in DOMAIN timers' :
            timers'[i] = IF i < k THEN timers[i] ELSE IF i = k THEN t ELSE timers[i - 1]
    BY <1>3, <1>4
  <1>. QED  BY <1>1, <1>2, <1>4, <1>9, <1>10 DEF t

(* An action of a rule.                                                      *)
LEMMA PerformFollows ==
  ASSUME ShapeOK, UNCHANGED design, NEW f \in fired, Perform(f),
         NEW a \in AllActions, Copies(a), Following(a)
  PROVE  Following(a)'
  <1>. DEFINE t == a.target
              g == a.trigger
              r == Rules[f.at]
  <1>1. PICK at \in DOMAIN Rules : a = Rules[at]
    BY DEF AllActions
  <1>2. /\ t \in DOMAIN value /\ g \in DOMAIN value /\ a.delay \in Int
    BY <1>1, RuleIs DEF ShapeOK
  <1>3. /\ r \in AllActions /\ r.delay \in Int /\ r.target \in DOMAIN value
        /\ f.data.type = WireType(Var(r.trigger))
    BY RuleIs DEF ShapeOK, FiredOK
  <1>4. Rules' = Rules /\ \A x : Var(x)' = Var(x)
    BY SameDesign
  <1>5. r.target # g /\ (r # a => r.target # t)
    BY <1>3 DEF Copies
  <1>6. \A h \in fired : Rules[h.at] = a => h.data.v = value[g].v
    BY DEF Following
  <1>7. \A i \in TimersFor(t) : /\ timers[i].left <= a.delay /\ a.delay > 0
                              /\ timers[i].data.type = WireType(Var(g))
    BY DEF Following
  <1>8. CASE r.delay <= 0
    <2>1. Write(r.target, Built(r, f.data), TRUE, fired \ {f}) /\ UNCHANGED timers
      BY <1>8 DEF Perform
    <2>2. /\ fired' = fired \ {f} /\ value'[g] = value[g]
          /\ r # a => value'[t] = value[t]
          /\ TimersFor(t)' = TimersFor(t)
      BY <1>2, <1>5, <2>1, QuietWrite DEF TimersFor
    <2>3. Owed(a)' \/ OnItsWay(a)' \/ Reached(a)'
      <3>1. CASE r # a
        <4>1. Owed(a) => Owed(a)'
          BY <1>4, <2>2, <3>1 DEF Owed
        <4>2. OnItsWay(a) => OnItsWay(a)'
          BY <2>1, <2>2 DEF OnItsWay
        <4>3. Reached(a) => Reached(a)'
          BY <2>2, <3>1 DEF Reached
        <4>. QED  BY <4>1, <4>2, <4>3 DEF Following
      <3>2. CASE r = a
        <4>1. TimersFor(t) = {}
          BY <1>2, <1>7, <1>8, <3>2
        <4>2. Built(r, f.data) = f.data
          BY <3>2 DEF Built, Copies
        <4>3. Takes(r.target, f.data)
          BY <1>3, <3>2 DEF Takes, Copies
        <4>4. value'[t] = f.data
          BY <1>2, <2>1, <3>2, <4>2, <4>3, QuietWrite
        <4>5. f.data.v = value[g].v
          BY <1>6, <3>2
        <4>. QED  BY <2>2, <4>1, <4>4, <4>5 DEF Reached
      <3>. QED  BY <3>1, <3>2
    <2>. QED  BY <1>4, <1>6, <1>7, <2>1, <2>2, <2>3 DEF Following
  <1>9. CASE r.delay > 0
    <2>1. Schedule(r, f.data) /\ fired' = fired \ {f} /\ value' = value
      <3>1. ~(r.delay <= 0)
        BY <1>3, <1>9
      <3>. QED  BY <3>1 DEF Perform
    <2>2. PICK k \in 1 .. Len(timers) + 1 :
            /\ Len(timers) \in Nat /\ DOMAIN timers = 1 .. Len(timers)
            /\ DOMAIN timers' = 1 .. Len(timers) + 1
            /\ \A i \in DOMAIN timers : timers[i].left <= r.delay <=> i < k
            /\ \A i \in DOMAIN timers' :
                 timers'[i] = IF i < k THEN timers[i]
                              ELSE IF i = k THEN TimerOf(r, f.data) ELSE timers[i - 1]
            /\ TimersOK'
      BY <1>3, <2>1, ScheduleEffect DEF ShapeOK
    <2>3. TimerOf(r, f.data).target = r.target /\ TimerOf(r, f.data).left = r.delay
          /\ TimerOf(r, f.data).data = Built(r, f.data)
      BY DEF TimerOf
    <2>4. ASSUME NEW i \in DOMAIN timers', timers'[i].target = t
          PROVE  \/ i < k /\ i \in TimersFor(t) /\ timers'[i] = timers[i]
                 \/ (i = k /\ r = a)
                 \/ (i > k /\ i - 1 \in TimersFor(t) /\ timers'[i] = timers[i - 1])
      <3>1. CASE i < k
        BY <2>2, <2>4, <3>1 DEF TimersFor
      <3>2. CASE i = k
        BY <1>5, <2>2, <2>3, <2>4, <3>2
      <3>3. CASE i > k
        <4>1. i - 1 \in DOMAIN timers /\ timers'[i] = timers[i - 1]
          BY <2>2, <3>3
        <4>. QED  BY <2>4, <3>3, <4>1 DEF TimersFor
      <3>. QED  BY <2>2, <3>1, <3>2, <3>3
    <2>5. ASSUME r = a
          PROVE  Built(r, f.data) = f.data /\ f.data.type = WireType(Var(g)) /\ f.data.v = value[g].v
      BY <1>3, <1>6, <2>5 DEF Built, Copies
    <2>6. ASSUME NEW i \in DOMAIN timers', timers'[i].target = t
          PROVE  /\ timers'[i].left <= a.delay /\ a.delay > 0
                 /\ timers'[i].data.type = WireType(Var(g))
      <3>1. CASE i = k /\ r = a
        <4>1. timers'[i] = TimerOf(r, f.data)
          BY <2>2, <3>1
        <4>. QED  BY <1>2, <1>9, <2>3, <2>5, <3>1, <4>1
      <3>. QED  BY <1>7, <2>4, <2>6, <3>1
    <2>7. Owed(a)' \/ OnItsWay(a)' \/ Reached(a)'
      <3>1. CASE r = a
        <4>1. k \in DOMAIN timers' /\ timers'[k] = TimerOf(r, f.data)
          BY <2>2
        <4>2. timers'[k].target = t /\ timers'[k].data.v = value'[g].v
          BY <2>1, <2>3, <2>5, <3>1, <4>1
        <4>3. ASSUME NEW j \in DOMAIN timers', timers'[j].target = t PROVE j <= k
          <5>1. SUFFICES ASSUME j > k PROVE FALSE
            BY <2>2
          <5>2. j - 1 \in TimersFor(t) /\ j - 1 \in DOMAIN timers
            BY <2>2, <2>4, <4>3, <5>1 DEF TimersFor
          <5>3. timers[j - 1].left <= r.delay
            BY <1>7, <3>1, <5>2
          <5>. QED  BY <2>2, <5>1, <5>2, <5>3
        <4>. QED  BY <4>1, <4>2, <4>3 DEF OnItsWay, TimersFor
      <3>2. CASE r # a
        <4>1. Owed(a) => Owed(a)'
          BY <1>4, <2>1, <3>2 DEF Owed
        <4>2. ASSUME OnItsWay(a) PROVE OnItsWay(a)'
          <5>1. PICK i \in TimersFor(t) : /\ timers[i].data.v = value[g].v
                                        /\ \A j \in TimersFor(t) : j <= i
            BY <4>2 DEF OnItsWay
          <5>. DEFINE m == IF i < k THEN i ELSE i + 1
          <5>2. i \in DOMAIN timers /\ timers[i].target = t
            BY <5>1 DEF TimersFor
          <5>3. m \in DOMAIN timers' /\ timers'[m] = timers[i]
            BY <2>2, <5>2
          <5>4. ASSUME NEW j \in DOMAIN timers', timers'[j].target = t PROVE j <= m
            BY <2>2, <2>4, <3>2, <5>1, <5>2, <5>4
          <5>. HIDE DEF m
          <5>5. m \in TimersFor(t)' /\ timers'[m].data.v = value'[g].v
            BY <2>1, <5>1, <5>2, <5>3 DEF TimersFor
          <5>6. \A j \in TimersFor(t)' : j <= m
            BY <5>4 DEF TimersFor
          <5>. QED  BY <5>5, <5>6 DEF OnItsWay
        <4>3. ASSUME Reached(a) PROVE Reached(a)'
          <5>1. \A i \in DOMAIN timers' : timers'[i].target # t
            BY <2>4, <3>2, <4>3 DEF Reached
          <5>. QED  BY <2>1, <4>3, <5>1 DEF Reached, TimersFor
        <4>. QED  BY <4>1, <4>2, <4>3 DEF Following
      <3>. QED  BY <3>1, <3>2
    <2>8. \A i \in TimersFor(t)' : /\ timers'[i].left <= a.delay /\ a.delay > 0
                                 /\ timers'[i].data.type = WireType(Var(g)')
      BY <1>4, <2>6 DEF TimersFor
    <2>. QED  BY <1>4, <1>6, <2>1, <2>7, <2>8 DEF Following
  <1>. QED  BY <1>3, <1>8, <1>9

(* Its target is all it may write.                                          *)
LEMMA PerformShape ==
  ASSUME ShapeOK, UNCHANGED <<design, due, sims>>, NEW f \in fired, Perform(f)
  PROVE  /\ ShapeOK'
         /\ \A x \in DOMAIN value : x # Rules[f.at].target => value'[x] = value[x]
  <1>. DEFINE r == Rules[f.at]
  <1>1. r \in AllActions /\ r.delay \in Int
    BY RuleIs DEF ShapeOK, FiredOK
  <1>2. /\ fired' = fired \ {f} /\ DOMAIN value' = DOMAIN value /\ TimersOK'
        /\ \A x \in DOMAIN value : x # r.target => value'[x] = value[x]
    <2>1. CASE r.delay <= 0
      <3>1. Write(r.target, Built(r, f.data), TRUE, fired \ {f}) /\ UNCHANGED timers
        BY <2>1 DEF Perform
      <3>2. TimersOK'
        BY <3>1, SameDesign DEF TimersOK, ShapeOK
      <3>. QED  BY <3>1, <3>2, QuietWrite
    <2>2. CASE r.delay > 0
      <3>1. Schedule(r, f.data) /\ fired' = fired \ {f} /\ value' = value
        <4>1. ~(r.delay <= 0)
          BY <1>1, <2>2
        <4>. QED  BY <4>1 DEF Perform
      <3>2. TimersOK'
        BY <1>1, <3>1, ScheduleEffect DEF ShapeOK
      <3>. QED  BY <3>1, <3>2
    <2>. QED  BY <1>1, <2>1, <2>2
  <1>3. FiredOK'
    BY <1>2, SameDesign DEF FiredOK, ShapeOK
  <1>4. DueOK'
    BY SameDesign DEF DueOK, ShapeOK
  <1>. QED  BY <1>2, <1>3, <1>4, SameDesign DEF ShapeOK

-----------------------------------------------------------------------------
(* The simulation.                                                         *)

(* nextValue() stays between its bounds if its counter does.                   *)
LEMMA NextValueIs ==
  ASSUME ServedOne, sims \in [SimIds -> SimStates], NEW n \in Simulated(design),
         NEW next \in NextValues(n.id)
  PROVE  /\ next[2] \in SimStates
         /\ Bounded(n) /\ sims[n.id].counter \in n.sim.min .. n.sim.max =>
              /\ next[1] \in n.sim.min .. n.sim.max
              /\ next[2].counter \in n.sim.min .. n.sim.max
  <1>. DEFINE s  == n.sim
              st == sims[n.id]
  <1>1. /\ Var(n.id) = n /\ n.id \in SimIds
        /\ s.min \in Int /\ s.max \in Int /\ s.step \in Int
    BY SimulatedIs
  <1>2. st \in SimStates /\ st.counter \in Int
    BY <1>1 DEF SimStates
  <1>3. \/ s.kind = "Constant" /\ next = <<s.min, st>>
        \/ s.kind = "Counter" /\ LET c == NextCounter(s, st.counter)
                                 IN  next = <<c, [st EXCEPT !.counter = c]>>
        \/ s.kind = "Toggle" /\ next = <<IF st.toggle THEN s.min ELSE s.max,
                                         [st EXCEPT !.toggle = ~st.toggle]>>
        \/ \E v \in s.min .. s.max : next = <<v, st>>
    BY <1>1 DEF NextValues
  <1>4. CASE next = <<s.min, st>>
    BY <1>1, <1>2, <1>4 DEF Bounded
  <1>5. CASE LET c == NextCounter(s, st.counter) IN next = <<c, [st EXCEPT !.counter = c]>>
    <2>. DEFINE c == NextCounter(s, st.counter)
    <2>1. c \in Int /\ (Bounded(n) /\ st.counter \in s.min .. s.max => c \in s.min .. s.max)
      BY <1>1, <1>2 DEF NextCounter, Bounded
    <2>2. next[1] = c /\ next[2] = [st EXCEPT !.counter = c]
      BY <1>5
    <2>. HIDE DEF c
    <2>3. next[2] \in SimStates /\ next[2].counter = c
      BY <1>2, <2>1, <2>2 DEF SimStates
    <2>. QED  BY <2>1, <2>2, <2>3
  <1>6. CASE next = <<IF st.toggle THEN s.min ELSE s.max, [st EXCEPT !.toggle = ~st.toggle]>>
    <2>1. next[1] \in {s.min, s.max} /\ next[2] = [st EXCEPT !.toggle = ~st.toggle]
      BY <1>6
    <2>2. next[2] \in SimStates /\ next[2].counter = st.counter
      BY <1>2, <2>1 DEF SimStates
    <2>. QED  BY <1>1, <2>1, <2>2 DEF Bounded
  <1>7. CASE \E v \in s.min .. s.max : next = <<v, st>>
    BY <1>2, <1>7
  <1>. QED  BY <1>3, <1>4, <1>5, <1>6, <1>7

(* The same for the state a restart leaves.                                  *)
LEMMA StartedAgain == Started' => EngineInv'
  <1>1. Started => EngineInv
    BY StartedInv
  <1>. QED  BY <1>1, PTL

(* What a write that fires rules leaves as it was.                            *)
LEMMA FiringShape ==
  ASSUME ShapeOK, UNCHANGED <<design, timers>>, fired = {}, NEW id, NEW data,
         Write(id, data, FALSE, {})
  PROVE  /\ DOMAIN value' = VariableIds(design) /\ FiredOK' /\ TimersOK'
         /\ \A x \in DOMAIN value : x # id => value'[x] = value[x]
         /\ id \in DOMAIN value => value'[id] \in {value[id], data}
  <1>1. DOMAIN value' = VariableIds(design)
    BY FiringWrite DEF ShapeOK
  <1>2. ASSUME NEW f \in fired'
        PROVE  f.at \in DOMAIN Rules /\ f.data.type = WireType(Var(Rules[f.at].trigger))
    <2>1. f \in Fired(id, data) /\ Takes(id, data)
      BY <1>2, FiringWrite
    <2>2. f.at \in DOMAIN Rules /\ f.data = data /\ Rules[f.at].trigger = id
      BY <2>1, FiredAre
    <2>. QED  BY <2>1, <2>2 DEF Takes
  <1>3. FiredOK'
    BY <1>2, SameDesign DEF FiredOK
  <1>4. TimersOK'
    BY SameDesign DEF TimersOK, ShapeOK
  <1>5. id \in DOMAIN value => value'[id] \in {value[id], data}
    BY FiringWrite
  <1>. QED  BY <1>1, <1>3, <1>4, <1>5, FiringWrite

(* What a step must show, action by action.                                  *)
LEMMA Enough ==
  ASSUME UNCHANGED design, ShapeOK',
         \A a \in AllActions : Copies(a) => Following(a)',
         \A n \in Simulated(design) : Bounded(n) => Ranged(n)'
  PROVE  EngineInv'
  BY SameDesign DEF EngineInv, Bounded

(* Nothing the simulation has is touched, and only x is written.             *)
LEMMA RangedKept ==
  ASSUME ShapeOK, UNCHANGED <<design, sims>>, NEW x,
         \A y \in DOMAIN value : y # x => value'[y] = value[y],
         NEW n \in Simulated(design), Alone(n) => x # n.id, Ranged(n)
  PROVE  Ranged(n)'
  <1>1. n.id \in DOMAIN value
    BY SimulatedIs DEF ShapeOK
  <1>2. Alone(n) => value'[n.id] = value[n.id]
    BY <1>1
  <1>3. Alone(n)' => Alone(n)
    BY SameDesign DEF Alone
  <1>. QED  BY <1>2, <1>3 DEF Ranged

LEMMA ClientWriteInv ==
  ASSUME EngineInv, NEW id \in VariableIds(design), NEW v \in WriteValues, ClientWrite(id, v)
  PROVE  EngineInv'
  <1>. DEFINE data == Typed(WireType(Var(id)), v)
  <1>1. /\ ShapeOK /\ fired = {} /\ Var(id).writable
        /\ Write(id, data, FALSE, {}) /\ UNCHANGED <<design, due, timers, sims>>
    BY DEF EngineInv, ClientWrite, IdleEngine
  <1>. HIDE DEF data
  <1>2. ShapeOK'
    <2>1. DueOK'
      BY <1>1 DEF ShapeOK, DueOK
    <2>. QED  BY <1>1, <2>1, FiringShape, SameDesign DEF ShapeOK
  <1>3. ASSUME NEW a \in AllActions, Copies(a) PROVE Following(a)'
    <2>1. id # a.target /\ Following(a)
      BY <1>1, <1>3 DEF Copies, EngineInv
    <2>. QED  BY <1>1, <1>3, <2>1, FiringFollows
  <1>4. ASSUME NEW n \in Simulated(design), Bounded(n) PROVE Ranged(n)'
    <2>1. Alone(n) => id # n.id
      BY <1>1, SimulatedIs DEF Alone, ShapeOK
    <2>2. Ranged(n)
      BY <1>4 DEF EngineInv
    <2>3. \A y \in DOMAIN value : y # id => value'[y] = value[y]
      <3>1. Write(id, data, FALSE, {})
        BY <1>1
      <3>. QED  BY ONLY <3>1, FiringWrite
    <2>. QED  BY <1>1, <2>1, <2>2, <2>3, RangedKept
  <1>. QED  BY <1>1, <1>2, <1>3, <1>4, Enough

LEMMA PerformActionInv == ASSUME EngineInv, PerformAction PROVE EngineInv'
  <1>1. PICK f \in fired : IsNext(f) /\ Perform(f)
    BY DEF PerformAction
  <1>2. ShapeOK /\ UNCHANGED <<design, due, sims>>
    BY DEF PerformAction, EngineInv
  <1>3. ShapeOK' /\ \A x \in DOMAIN value : x # Rules[f.at].target => value'[x] = value[x]
    BY <1>1, <1>2, PerformShape
  <1>4. ASSUME NEW a \in AllActions, Copies(a) PROVE Following(a)'
    <2>1. Following(a)
      BY <1>4 DEF EngineInv
    <2>. QED  BY <1>1, <1>2, <1>4, <2>1, PerformFollows
  <1>5. ASSUME NEW n \in Simulated(design), Bounded(n) PROVE Ranged(n)'
    <2>1. Rules[f.at] \in AllActions
      BY <1>2, RuleIs DEF ShapeOK, FiredOK
    <2>2. Alone(n) => Rules[f.at].target # n.id
      BY <2>1 DEF Alone
    <2>3. Ranged(n)
      BY <1>5 DEF EngineInv
    <2>. QED  BY <1>2, <1>3, <2>2, <2>3, RangedKept
  <1>. QED  BY <1>2, <1>3, <1>4, <1>5, Enough

LEMMA TickInv == ASSUME EngineInv, Tick PROVE EngineInv'
  <1>1. /\ ShapeOK /\ UNCHANGED <<design, value, fired, timers>>
        /\ due' = {i \in DOMAIN design.nodes :
                     design.nodes[i].id \in SimIds /\ Due(design.nodes[i].id)}
        /\ sims' = [id \in SimIds |-> IF Due(id) THEN [sims[id] EXCEPT !.since = 0] ELSE sims[id]]
    BY DEF Tick, EngineInv
  <1>2. \A id \in SimIds : sims'[id] \in SimStates /\ sims'[id].counter = sims[id].counter
    <2>. TAKE id \in SimIds
    <2>1. sims[id] \in SimStates
      BY <1>1 DEF ShapeOK
    <2>2. sims'[id] \in {sims[id], [sims[id] EXCEPT !.since = 0]}
      BY <1>1
    <2>. QED  BY <2>1, <2>2 DEF SimStates
  <1>3. sims' \in [SimIds -> SimStates]
    BY <1>1, <1>2
  <1>4. DueOK'
    <2>. SUFFICES ASSUME NEW i \in due'
                  PROVE  i \in DOMAIN design.nodes /\ design.nodes[i] \in Simulated(design)
      BY <1>1, SameDesign DEF DueOK
    <2>1. i \in DOMAIN design.nodes /\ design.nodes[i].id \in SimIds
      BY <1>1
    <2>2. design.nodes[i] \in ToSet(design.nodes)
      BY <2>1 DEF ToSet
    <2>3. PICK n \in Simulated(design) : n.id = design.nodes[i].id /\ Var(design.nodes[i].id) = n
      BY <1>1, <2>1, SimIdIs DEF ShapeOK
    <2>. QED  BY <1>1, <2>1, <2>2, <2>3, VarIs DEF ShapeOK
  <1>5. ShapeOK'
    <2>1. FiredOK' /\ TimersOK'
      BY <1>1, SameDesign DEF ShapeOK, FiredOK, TimersOK
    <2>. QED  BY <1>1, <1>3, <1>4, <2>1, SameDesign DEF ShapeOK
  <1>6. ASSUME NEW a \in AllActions, Copies(a) PROVE Following(a)'
    <2>1. Following(a)
      BY <1>6 DEF EngineInv
    <2>. QED  BY <1>1, <2>1, SameDesign DEF Following, Owed, OnItsWay, Reached, TimersFor
  <1>7. ASSUME NEW n \in Simulated(design), Bounded(n) PROVE Ranged(n)'
    <2>1. Ranged(n) /\ sims'[n.id].counter = sims[n.id].counter
      BY <1>1, <1>2, <1>7, SimulatedIs DEF EngineInv, ShapeOK
    <2>2. Alone(n)' => Alone(n)
      BY <1>1, SameDesign DEF Alone
    <2>. QED  BY <1>1, <2>1, <2>2 DEF Ranged
  <1>. QED  BY <1>1, <1>5, <1>6, <1>7, Enough

LEMMA SimulatedWriteInv == ASSUME EngineInv, SimulatedWrite PROVE EngineInv'
  <1>1. /\ ShapeOK /\ fired = {} /\ UNCHANGED <<design, timers>>
    BY DEF SimulatedWrite, EngineInv
  <1>2. PICK i \in due :
          /\ LET id == design.nodes[i].id
             IN  \E next \in NextValues(id) :
                   /\ sims' = [sims EXCEPT ![id] = next[2]]
                   /\ Write(id, Typed(Var(id).type, Coerced(Var(id).type, next[1])), FALSE, {})
          /\ due' = due \ {i}
    BY DEF SimulatedWrite
  <1>. DEFINE n  == design.nodes[i]
              id == n.id
  <1>3. /\ n \in Simulated(design) /\ Var(id) = n /\ id \in SimIds /\ id \in DOMAIN value
    BY <1>1, SimulatedIs DEF ShapeOK, DueOK
  <1>4. PICK next \in NextValues(id) :
          /\ sims' = [sims EXCEPT ![id] = next[2]]
          /\ Write(id, Typed(n.type, Coerced(n.type, next[1])), FALSE, {})
    BY <1>2, <1>3
  <1>. DEFINE data == Typed(n.type, Coerced(n.type, next[1]))
  <1>5. /\ next[2] \in SimStates
        /\ Bounded(n) /\ sims[id].counter \in n.sim.min .. n.sim.max =>
              next[1] \in n.sim.min .. n.sim.max /\ next[2].counter \in n.sim.min .. n.sim.max
    BY <1>1, <1>3, NextValueIs DEF ShapeOK
  <1>6. data.v = Coerced(n.type, next[1])
    BY DEF Typed
  <1>7. due' \subseteq due
    BY <1>2
  <1>8. /\ sims' \in [SimIds -> SimStates] /\ sims'[id] = next[2]
        /\ \A x \in SimIds : x # id => sims'[x] = sims[x]
    BY <1>1, <1>3, <1>4, <1>5 DEF ShapeOK
  <1>9. Write(id, data, FALSE, {})
    BY <1>4
  <1>. HIDE DEF data, n
  <1>10. ShapeOK'
    <2>1. DueOK'
      BY <1>1, <1>7, SameDesign DEF ShapeOK, DueOK
    <2>. QED  BY <1>1, <1>8, <1>9, <2>1, FiringShape, SameDesign DEF ShapeOK
  <1>11. ASSUME NEW a \in AllActions, Copies(a) PROVE Following(a)'
    <2>1. id # a.target /\ Following(a)
      BY <1>3, <1>11 DEF Copies, EngineInv
    <2>. QED  BY <1>1, <1>9, <1>11, <2>1, FiringFollows
  <1>12. ASSUME NEW m \in Simulated(design), Bounded(m) PROVE Ranged(m)'
    <2>1. Ranged(m) /\ m.id \in SimIds /\ Var(m.id) = m /\ m.id \in DOMAIN value
      BY <1>1, <1>12, SimulatedIs DEF EngineInv, ShapeOK
    <2>2. Alone(m)' => Alone(m)
      BY <1>1, SameDesign DEF Alone
    <2>3. CASE m = n
      <3>1. sims'[m.id].counter \in m.sim.min .. m.sim.max /\ next[1] \in m.sim.min .. m.sim.max
        BY <1>5, <1>8, <1>12, <2>1, <2>3 DEF Ranged
      <3>2. value'[id] \in {value[id], data}
        BY <1>3, <1>9, FiringWrite
      <3>3. value'[m.id] = value[m.id] \/ value'[m.id].v = Coerced(m.type, next[1])
        BY <1>6, <2>3, <3>2
      <3>. QED  BY <2>1, <2>2, <3>1, <3>3 DEF Ranged
    <2>4. CASE m # n
      <3>1. m.id # id
        BY <1>3, <2>1, <2>4
      <3>2. sims'[m.id] = sims[m.id] /\ value'[m.id] = value[m.id]
        BY <1>8, <1>9, <2>1, <3>1, FiringWrite
      <3>. QED  BY <2>1, <2>2, <3>2 DEF Ranged
    <2>. QED  BY <2>3, <2>4
  <1>. QED  BY <1>1, <1>10, <1>11, <1>12, Enough

(* The first of the timers fires.                                            *)
LEMMA TailTimers ==
  ASSUME TimersOK, UNCHANGED design, timers # <<>>, timers' = Tail(timers)
  PROVE  /\ TimersOK' /\ 1 \in DOMAIN timers /\ Head(timers) = timers[1]
         /\ \A i \in DOMAIN timers' : i + 1 \in DOMAIN timers /\ timers'[i] = timers[i + 1]
         /\ \A i \in DOMAIN timers : i # 1 => i - 1 \in DOMAIN timers' /\ timers'[i - 1] = timers[i]
         /\ \A i \in DOMAIN timers : i \in Nat \ {0}
  <1>. DEFINE S == ToSet(timers)
  <1>1. timers \in Seq(S) /\ Len(timers) \in Nat \ {0} /\ DOMAIN timers = 1 .. Len(timers)
    BY LenProperties, EmptySeq DEF TimersOK
  <1>. HIDE DEF S
  <1>2. /\ timers' \in Seq(S) /\ Len(timers') = Len(timers) - 1
        /\ \A i \in 1 .. Len(timers') : timers'[i] = timers[i + 1]
    BY <1>1, HeadTailProperties
  <1>3. timers' \in Seq(ToSet(timers')) /\ DOMAIN timers' = 1 .. Len(timers')
    BY <1>2, SelfSeq
  <1>4. \A i \in DOMAIN timers' : i + 1 \in DOMAIN timers /\ timers'[i] = timers[i + 1]
    BY <1>1, <1>2, <1>3
  <1>5. TimersOK'
    <2>1. \A i, j \in DOMAIN timers' : i < j => timers'[i].left <= timers'[j].left
      <3>. TAKE i, j \in DOMAIN timers'
      <3>1. /\ i \in Int /\ j \in Int /\ i + 1 \in DOMAIN timers /\ j + 1 \in DOMAIN timers
            /\ timers'[i] = timers[i + 1] /\ timers'[j] = timers[j + 1]
        BY <1>3, <1>4
      <3>2. i < j => i + 1 < j + 1
        BY <3>1
      <3>. QED  BY <3>1, <3>2 DEF TimersOK
    <2>2. \A i \in DOMAIN timers' : /\ timers'[i].left \in Int
                                    /\ \E a \in AllActions : timers'[i].target = a.target
      BY <1>4 DEF TimersOK
    <2>. QED  BY <1>3, <2>1, <2>2, SameDesign DEF TimersOK
  <1>6. \A i \in DOMAIN timers : i # 1 => i - 1 \in DOMAIN timers' /\ timers'[i - 1] = timers[i]
    BY <1>1, <1>2, <1>3
  <1>. QED  BY <1>1, <1>4, <1>5, <1>6

(* If the timer that fires is the last for the target its value arrives; if not   *)
(* the last is still to come.                                                *)
LEMMA FiresFollows ==
  ASSUME EngineInv, TimerFires, NEW a \in AllActions, Copies(a)
  PROVE  Following(a)'
  <1>. DEFINE t == a.target
              g == a.trigger
              h == timers[1]
  <1>1. /\ ShapeOK /\ fired = {} /\ timers # <<>> /\ timers' = Tail(timers)
        /\ Write(Head(timers).target, Head(timers).data, TRUE, {}) /\ UNCHANGED <<design, due, sims>>
    BY DEF EngineInv, TimerFires, IdleEngine
  <1>2. Following(a)
    BY DEF EngineInv
  <1>3. /\ 1 \in DOMAIN timers /\ Head(timers) = h
        /\ \A i \in DOMAIN timers' : i + 1 \in DOMAIN timers /\ timers'[i] = timers[i + 1]
        /\ \A i \in DOMAIN timers : i # 1 => i - 1 \in DOMAIN timers' /\ timers'[i - 1] = timers[i]
        /\ \A i \in DOMAIN timers : i \in Nat \ {0}
    BY <1>1, TailTimers DEF ShapeOK
  <1>4. PICK b \in AllActions : h.target = b.target
    BY <1>1, <1>3 DEF ShapeOK, TimersOK
  <1>5. t \in DOMAIN value /\ g \in DOMAIN value /\ h.target # g
    <2>1. PICK at \in DOMAIN Rules : a = Rules[at]
      BY DEF AllActions
    <2>. QED  BY <1>1, <1>4, <2>1, RuleIs DEF ShapeOK, Copies
  <1>6. /\ value'[g] = value[g] /\ fired' = {} /\ (h.target # t => value'[t] = value[t])
        /\ (Takes(h.target, h.data) /\ h.target = t) => value'[t] = h.data
    <2>1. Write(h.target, h.data, TRUE, {})
      BY <1>1, <1>3
    <2>. HIDE DEF t, g, h
    <2>. QED  BY ONLY <1>5, <2>1, QuietWrite
  <1>7. \A i \in DOMAIN timers' : timers'[i].target = t => i + 1 \in TimersFor(t) /\ timers'[i] = timers[i + 1]
    BY <1>3 DEF TimersFor
  <1>8. \A i \in TimersFor(t)' : /\ timers'[i].left <= a.delay /\ a.delay > 0
                               /\ timers'[i].data.type = WireType(Var(g)')
    BY <1>1, <1>2, <1>7, SameDesign DEF Following, TimersFor
  <1>9. OnItsWay(a)' \/ Reached(a)'
    <2>1. CASE Reached(a)
      <3>1. h.target # t
        BY <1>3, <2>1 DEF Reached, TimersFor
      <3>2. TimersFor(t)' = {}
        BY <1>7, <2>1 DEF Reached, TimersFor
      <3>. QED  BY <1>6, <2>1, <3>1, <3>2 DEF Reached
    <2>2. CASE OnItsWay(a)
      <3>1. PICK i \in TimersFor(t) : timers[i].data.v = value[g].v /\ \A j \in TimersFor(t) : j <= i
        BY <2>2 DEF OnItsWay
      <3>2. i \in DOMAIN timers /\ timers[i].target = t /\ i \in Nat \ {0}
        BY <1>3, <3>1 DEF TimersFor
      <3>3. CASE i = 1
        <4>1. Takes(t, h.data)
          <5>1. h.data.type = WireType(Var(g))
            BY <1>2, <3>1, <3>3 DEF Following
          <5>. QED  BY <5>1 DEF Takes, Copies
        <4>2. value'[t].v = value'[g].v
          BY <1>6, <3>1, <3>2, <3>3, <4>1
        <4>3. \A j \in DOMAIN timers' : timers'[j].target # t
          <5>. SUFFICES ASSUME NEW j \in DOMAIN timers', timers'[j].target = t PROVE FALSE
            OBVIOUS
          <5>1. j + 1 \in TimersFor(t) /\ j + 1 \in DOMAIN timers
            BY <1>3, <1>7
          <5>2. j + 1 <= 1
            BY <3>1, <3>3, <5>1
          <5>3. timers[j + 1] = timers'[j] /\ j + 1 \in Nat \ {0}
            BY <1>3, <5>1
          <5>4. j \in Nat \ {0}
            BY <1>1, TailTimers, LenProperties DEF ShapeOK, TimersOK
          <5>. QED  BY <5>2, <5>4
        <4>. QED  BY <4>2, <4>3 DEF Reached, TimersFor
      <3>4. CASE i # 1
        <4>1. i - 1 \in DOMAIN timers' /\ timers'[i - 1] = timers[i]
          BY <1>3, <3>2, <3>4
        <4>2. ASSUME NEW j \in DOMAIN timers', timers'[j].target = t PROVE j <= i - 1
          <5>1. j + 1 \in TimersFor(t)
            BY <1>7, <4>2
          <5>2. j \in Int
            BY <1>1, TailTimers, LenProperties DEF ShapeOK, TimersOK
          <5>. QED  BY <3>1, <3>2, <5>1, <5>2
        <4>. QED  BY <1>6, <3>1, <3>2, <4>1, <4>2 DEF OnItsWay, TimersFor
      <3>. QED  BY <3>3, <3>4
    <2>. QED  BY <1>1, <1>2, <2>1, <2>2 DEF Following, Owed
  <1>. QED  BY <1>6, <1>8, <1>9 DEF Following

LEMMA TimerFiresInv == ASSUME EngineInv, TimerFires PROVE EngineInv'
  <1>1. /\ ShapeOK /\ fired = {} /\ timers # <<>> /\ timers' = Tail(timers)
        /\ UNCHANGED <<design, due, sims>>
    BY DEF EngineInv, TimerFires, IdleEngine
  <1>2. PICK h : h = Head(timers)
    OBVIOUS
  <1>3. Write(h.target, h.data, TRUE, {})
    BY <1>2 DEF TimerFires
  <1>4. TimersOK' /\ 1 \in DOMAIN timers /\ h = timers[1]
    BY <1>1, <1>2, TailTimers DEF ShapeOK
  <1>5. PICK b \in AllActions : h.target = b.target
    BY <1>1, <1>4 DEF ShapeOK, TimersOK
  <1>6. /\ DOMAIN value' = DOMAIN value /\ fired' = {}
        /\ \A x \in DOMAIN value : x # h.target => value'[x] = value[x]
    BY <1>3, QuietWrite
  <1>7. ShapeOK'
    BY <1>1, <1>4, <1>6, SameDesign DEF ShapeOK, FiredOK, DueOK
  <1>8. ASSUME NEW a \in AllActions, Copies(a) PROVE Following(a)'
    BY <1>8, FiresFollows
  <1>9. ASSUME NEW n \in Simulated(design), Bounded(n) PROVE Ranged(n)'
    <2>1. Alone(n) => h.target # n.id
      BY <1>5 DEF Alone
    <2>2. Ranged(n)
      BY <1>9 DEF EngineInv
    <2>. QED  BY <1>1, <1>6, <2>1, <2>2, RangedKept
  <1>. QED  BY <1>1, <1>7, <1>8, <1>9, Enough

LEMMA TimePassesInv == ASSUME EngineInv, TimePasses PROVE EngineInv'
  <1>1. /\ ShapeOK /\ UNCHANGED <<design, value, fired, due>>
        /\ timers' = [i \in DOMAIN timers |-> [timers[i] EXCEPT !.left = @ - 1]]
        /\ sims' = [id \in SimIds |-> [sims[id] EXCEPT !.since = @ + 1]]
    BY DEF TimePasses, EngineInv
  <1>2. /\ timers \in Seq(ToSet(timers)) /\ Len(timers) \in Nat /\ DOMAIN timers = 1 .. Len(timers)
        /\ \A i \in DOMAIN timers : timers[i].left \in Int /\ \E a \in AllActions : timers[i].target = a.target
        /\ \A i, j \in DOMAIN timers : i < j => timers[i].left <= timers[j].left
    BY <1>1, LenProperties DEF ShapeOK, TimersOK
  <1>3. DOMAIN timers' = DOMAIN timers
    BY <1>1
  <1>4. ASSUME NEW i \in DOMAIN timers
        PROVE  /\ timers'[i].target = timers[i].target /\ timers'[i].data = timers[i].data
               /\ timers'[i].left = timers[i].left - 1
    <2>1. timers'[i] = [timers[i] EXCEPT !.left = @ - 1]
      BY <1>1
    <2>. QED  BY <2>1
  <1>5. TimersOK'
    <2>1. timers' \in [1 .. Len(timers) -> ToSet(timers')]
      BY <1>1, <1>2, <1>3 DEF ToSet
    <2>2. timers' \in Seq(ToSet(timers'))
      BY <1>2, <2>1, SeqDef
    <2>3. \A i, j \in DOMAIN timers' : i < j => timers'[i].left <= timers'[j].left
      BY <1>2, <1>3, <1>4
    <2>4. \A i \in DOMAIN timers' : /\ timers'[i].left \in Int
                                    /\ \E a \in AllActions : timers'[i].target = a.target
      BY <1>2, <1>3, <1>4
    <2>. QED  BY <1>1, <2>2, <2>3, <2>4, SameDesign DEF TimersOK
  <1>6. \A id \in SimIds : sims'[id] \in SimStates /\ sims'[id].counter = sims[id].counter
    <2>. TAKE id \in SimIds
    <2>1. sims[id] \in SimStates
      BY <1>1 DEF ShapeOK
    <2>2. sims'[id] = [sims[id] EXCEPT !.since = @ + 1]
      BY <1>1
    <2>. QED  BY <2>1, <2>2 DEF SimStates
  <1>7. sims' \in [SimIds -> SimStates]
    BY <1>1, <1>6
  <1>8. ShapeOK'
    BY <1>1, <1>5, <1>7, SameDesign DEF ShapeOK, FiredOK, DueOK
  <1>9. ASSUME NEW a \in AllActions, Copies(a) PROVE Following(a)'
    <2>1. Following(a) /\ a.delay \in Int
      <3>1. PICK at \in DOMAIN Rules : a = Rules[at]
        BY DEF AllActions
      <3>. QED  BY <1>1, <1>9, <3>1, RuleIs DEF EngineInv, ShapeOK
    <2>2. TimersFor(a.target)' = TimersFor(a.target)
      BY <1>3, <1>4 DEF TimersFor
    <2>3. \A i \in TimersFor(a.target) :
            /\ i \in DOMAIN timers /\ timers[i].left \in Int /\ timers'[i].data = timers[i].data
            /\ timers'[i].left = timers[i].left - 1
      BY <1>2, <1>4 DEF TimersFor
    <2>4. Owed(a) => Owed(a)'
      BY <1>1, SameDesign DEF Owed
    <2>5. OnItsWay(a) => OnItsWay(a)'
      BY <1>1, <2>2, <2>3 DEF OnItsWay
    <2>6. Reached(a) => Reached(a)'
      BY <1>1, <2>2 DEF Reached
    <2>7. \A i \in TimersFor(a.target)' : /\ timers'[i].left <= a.delay /\ a.delay > 0
                                       /\ timers'[i].data.type = WireType(Var(a.trigger)')
      <3>1. \A i \in TimersFor(a.target) : /\ timers[i].left <= a.delay /\ a.delay > 0
                                        /\ timers[i].data.type = WireType(Var(a.trigger))
        BY <2>1 DEF Following
      <3>2. Var(a.trigger)' = Var(a.trigger)
        BY <1>1, SameDesign
      <3>3. ASSUME NEW i \in TimersFor(a.target) PROVE timers'[i].left <= a.delay
        <4>1. timers[i].left \in Int /\ timers'[i].left = timers[i].left - 1 /\ timers[i].left <= a.delay
          BY <2>3, <3>1
        <4>. QED  BY <2>1, <4>1
      <3>. QED  BY <2>2, <2>3, <3>1, <3>2, <3>3
    <2>. QED  BY <1>1, <2>1, <2>4, <2>5, <2>6, <2>7, SameDesign DEF Following
  <1>10. ASSUME NEW n \in Simulated(design), Bounded(n) PROVE Ranged(n)'
    <2>1. Ranged(n) /\ sims'[n.id].counter = sims[n.id].counter
      BY <1>1, <1>6, <1>10, SimulatedIs DEF EngineInv, ShapeOK
    <2>2. Alone(n)' => Alone(n)
      BY <1>1, SameDesign DEF Alone
    <2>. QED  BY <1>1, <2>1, <2>2 DEF Ranged
  <1>. QED  BY <1>1, <1>8, <1>9, <1>10, Enough

LEMMA EngineInvKept == ASSUME EngineInv, [EngineNext]_engineVars PROVE EngineInv'
  <1>1. CASE RuntimeRestart
    <2>1. Started'
      BY <1>1, SameDesign DEF RuntimeRestart, Started, IdleEngine, EngineInv, ShapeOK
    <2>. QED  BY <2>1, StartedAgain
  <1>2. ASSUME UNCHANGED <<design, value, fired, due, timers, sims>> PROVE EngineInv'
    BY <1>2, SameDesign DEF EngineInv, ShapeOK, FiredOK, DueOK, TimersOK, Following, Owed, OnItsWay,
         Reached, TimersFor, Ranged, Alone, Bounded
  <1>3. ASSUME NEW cert \in Certs, ClientOffers(cert) PROVE EngineInv'
    BY <1>2, <1>3 DEF ClientOffers
  <1>4. ASSUME NEW cert \in Certs, TrustRejected(cert) PROVE EngineInv'
    BY <1>2, <1>4 DEF TrustRejected
  <1>5. CASE UNCHANGED engineVars
    BY <1>2, <1>5 DEF engineVars
  <1>. QED  BY <1>1, <1>3, <1>4, <1>5, ClientWriteInv, PerformActionInv, TimerFiresInv, TickInv,
                SimulatedWriteInv, TimePassesInv DEF EngineNext

(* What the project drives by itself holds what the design says, for any project     *)
(* in which no two nodes have one id: copies follow however many delayed writes       *)
(* are under way, simulated values keep their range (RuleEngine::performAction,       *)
(* SimulationEngine::nextValue).                                                *)
THEOREM AlwaysDrivenAsDesigned == EngineSpec => []DrivenAsDesigned
  <1>1. EngineInit => EngineInv
    <2>1. EngineInit => Started
      BY DEF EngineInit, Started, ServedOne
    <2>. QED  BY <2>1, StartedInv
  <1>. QED  BY <1>1, EngineInvKept, InvIsDriven, PTL DEF EngineSpec
=============================================================================
