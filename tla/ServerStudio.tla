---------------------------- MODULE ServerStudio ----------------------------
(***************************************************************************)
(* The life cycle of a server project in Server Studio                      *)
(* (src/qmlapi/serverstudio.cpp) around the runtime that serves it.         *)
(*                                                                         *)
(* The content of a project is a number: every edit makes a new one.  The    *)
(* runtime loads a file, the project's own when it has no unsaved change and *)
(* a temporary one otherwise, some time after it was started.               *)
(***************************************************************************)
EXTENDS ServerRuntime

CONSTANTS
  Paths,      \* files a project may be saved to
  Temp,       \* the runtime's snapshot file
  NoPath,     \* no file yet
  MaxEdits    \* contents made so far

ASSUME StudioAssumption ==
  /\ Temp \notin Paths /\ NoPath \notin Paths /\ Temp # NoPath
  /\ MaxEdits \in Nat

VARIABLES
  hasProject, project,   \* the editor's project
  path, dirty,           \* its file and whether it differs from it
  disk,                  \* content of the files, 0 when absent
  edits,                 \* the last content made
  changed,               \* m_configChangedSinceStart
  snapshot,              \* the file the process was told to serve
  served,                \* the content it serves, 0 before it has loaded one
  since,                 \* history: the project's contents since the process was started
  after                  \* what follows the blocking call: "none", "start" or "close"

projectVars == <<hasProject, project, path, dirty, disk, edits, changed>>
servedVars  == <<snapshot, served, since>>
studioVars  == <<runtimeVars, projectVars, servedVars, after>>

-----------------------------------------------------------------------------
(* Editing and files.                                                      *)

(* setDirty(true).                                                          *)
SetDirty ==
  /\ dirty' = TRUE
  /\ changed' = (changed \/ ctl.state = "Running")

(* The project gets a new content.                                          *)
NewContent ==
  /\ edits < MaxEdits
  /\ edits' = edits + 1 /\ project' = edits + 1
  /\ since' = since \cup {edits + 1}

Idle == call = "idle"

NewProject ==
  /\ Idle
  /\ NewContent
  /\ SetDirty
  /\ hasProject' = TRUE /\ path' = NoPath
  /\ UNCHANGED <<disk, snapshot, served, runtimeVars, after>>

Edit ==
  /\ Idle /\ hasProject
  /\ NewContent
  /\ SetDirty
  /\ UNCHANGED <<hasProject, path, disk, snapshot, served, runtimeVars, after>>

OpenProject ==
  /\ Idle
  /\ \E p \in Paths :
       /\ disk[p] # 0
       /\ project' = disk[p] /\ path' = p /\ hasProject' = TRUE /\ dirty' = FALSE
       /\ since' = since \cup {disk[p]}
  /\ UNCHANGED <<disk, edits, changed, snapshot, served, runtimeVars, after>>

(* saveProject() or saveProjectAs().                                         *)
SaveProject_KeepsPath ==   \* mutant: save-as forgets the new file
  /\ Idle /\ hasProject
  /\ \E p \in Paths :
       /\ disk' = [disk EXCEPT ![p] = project]
       /\ path' = IF path = NoPath THEN p ELSE path
       /\ dirty' = FALSE
  /\ UNCHANGED <<hasProject, project, edits, changed, servedVars, runtimeVars, after>>

SaveProject ==
  /\ Idle /\ hasProject
  /\ \E p \in Paths : disk' = [disk EXCEPT ![p] = project] /\ path' = p /\ dirty' = FALSE
  /\ UNCHANGED <<hasProject, project, edits, changed, servedVars, runtimeVars, after>>

-----------------------------------------------------------------------------
(* Running the server.                                                     *)

(* startServer() of a project the validator accepts or not, up to             *)
(* writeRuntimeSnapshot().                                                  *)
StartServer ==
  \E valid \in BOOLEAN :
    IF ~(hasProject /\ valid)
    THEN UNCHANGED <<ctl, processVars, projectVars, servedVars>>
    ELSE LET file == IF path # NoPath /\ ~dirty THEN path ELSE Temp
         IN /\ disk' = IF file = Temp THEN [disk EXCEPT ![Temp] = project] ELSE disk
            /\ changed' = FALSE
            /\ IF Spawns THEN snapshot' = file /\ served' = 0 /\ since' = {project}
               ELSE UNCHANGED servedVars
            /\ StartRuntime
            /\ UNCHANGED <<hasProject, project, path, dirty, edits>>

(* The rest of closeProject().                                              *)
ForgetProject ==
  /\ hasProject' = FALSE /\ project' = 0 /\ path' = NoPath /\ dirty' = FALSE
  /\ UNCHANGED <<disk, edits, changed, servedVars, ctl, processVars>>

Continue(what) ==
  CASE what = "start" -> StartServer
    [] what = "close" -> ForgetProject
    [] OTHER -> UNCHANGED <<ctl, processVars, projectVars, servedVars>>

(* stop() of the controller, then "what".                                    *)
StopThen(what) ==
  IF proc = "none" THEN Continue(what) /\ UNCHANGED <<call, after>>
  ELSE StopRuntime /\ after' = what /\ UNCHANGED <<projectVars, servedVars>>

Busy == ctl.state \in {"Starting", "Running", "Stopping"}

Start        == Idle /\ ~Busy /\ StartServer /\ UNCHANGED <<call, after>>
Stop         == Idle /\ Busy /\ StopThen("none")
Restart      == Idle /\ Busy /\ StopThen("start")
CloseProject == Idle /\ hasProject /\ StopThen("close")

Kill ==
  /\ Idle /\ Busy /\ proc # "none"
  /\ KillRuntime
  /\ after' = "none"
  /\ UNCHANGED <<projectVars, servedVars>>

CallReturns ==
  /\ Returns
  /\ Continue(after)
  /\ after' = "none"

(* The process loads the file it was told to serve.                          *)
Load ==
  /\ Serve
  /\ disk[snapshot] # 0
  /\ served' = disk[snapshot]
  /\ UNCHANGED <<projectVars, snapshot, since, after>>

-----------------------------------------------------------------------------
StudioInit ==
  /\ RuntimeInit
  /\ hasProject = FALSE /\ project = 0 /\ path = NoPath /\ dirty = FALSE
  /\ disk = [p \in Paths \cup {Temp} |-> 0]
  /\ edits = 0 /\ changed = FALSE
  /\ snapshot = Temp /\ served = 0 /\ since = {}
  /\ after = "none"

UserStep == NewProject \/ Edit \/ OpenProject \/ SaveProject \/ Start \/ Stop \/ Restart \/ Kill
            \/ CloseProject

StudioNext ==
  \/ UserStep
  \/ CallReturns
  \/ Load
  \/ (ControllerStep \/ ProcessStep) /\ UNCHANGED <<projectVars, servedVars, after>>

StudioFairness == RuntimeFairness /\ WF_studioVars(CallReturns)

StudioSpec == StudioInit /\ [][StudioNext]_studioVars /\ StudioFairness

-----------------------------------------------------------------------------
(* Properties.                                                             *)

TypeOK ==
  /\ ctl \in [state : States, endpoint : BOOLEAN, stopRequested : BOOLEAN, control : BOOLEAN,
              counts : BOOLEAN]
  /\ call \in {"idle", "graceful", "kill"}
  /\ after \in {"none", "start", "close"} /\ (call = "idle" => after = "none")
  /\ proc \in {"none", "starting", "loading", "serving", "closing", "dead"}
  /\ out \in Seq({"READY", "CONTROL"})
  /\ path \in Paths \cup {NoPath} /\ snapshot \in Paths \cup {Temp}
  /\ ~hasProject => project = 0 /\ ~dirty

(* "Stopped: no process is running" and "Crashed: process exited abnormally   *)
(* or failed to start": the user may start again only then, and no endpoint, *)
(* socket or counter of the old process is left; an endpoint is only         *)
(* announced by a process that was not yet reported to have ended.           *)
EndedIsClean ==
  /\ TypeOK
  /\ ctl.state \in {"Stopped", "Crashed"} => proc = "none" /\ ~ctl.endpoint
  /\ proc = "none" => ~ctl.endpoint /\ ~ctl.control /\ ~ctl.counts
  /\ ctl.state = "Running" => ctl.endpoint /\ proc # "none"

(* A runtime serves the project it was started with, or a later content of    *)
(* it, never an older file.                                                 *)
ServesWhatWasStarted == proc = "serving" => served \in since

(* A stop ends: the controller leaves Stopping although the runtime may       *)
(* ignore the request.                                                      *)
StopEnds == ctl.state = "Stopping" ~> ctl.state # "Stopping"

(* restartRequired(): "whether the running server's started configuration     *)
(* diverges from the current in-memory project, i.e. edits are pending a     *)
(* restart to apply".                                                       *)
RestartWhenStale ==
  ctl.state = "Running" /\ proc = "serving" /\ hasProject /\ served # project => changed
=============================================================================
