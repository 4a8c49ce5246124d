------------------------------ MODULE AppShell ------------------------------
(***************************************************************************)
(* The application around the project manager: the guards, prompts and dialogs *)
(* of Main.qml that decide when unsaved work may be given up, and the start, the   *)
(* end and a crash of the program (app/main.cpp).                             *)
(*                                                                         *)
(*   pm      the project manager's state (ProjectManager.tla); disk and ini      *)
(*           outlive the process                                             *)
(*   ui      prompt, pending    the client's unsaved-changes prompt and the        *)
(*           action deferred behind it; studioPrompt, studioPending the same      *)
(*           for the server project; dialog the form or file dialog that is open; *)
(*           studioDirty the server project's mark; quitting a Qt.quit() on its    *)
(*           way; waived whether the user chose Discard on the way to what is open *)
(*   process, runs, edits   the process, its starts, the changes made so far      *)
(***************************************************************************)
EXTENDS ProjectManager

CONSTANTS
  Beside,           \* whether an earlier version left its settings by the executable
  Picks,            \* the paths the user picks in the dialogs
  Found,            \* the project files and settings the first start may find
  MaxRuns, MaxEdits \* bounds: starts of the program, pieces of work

(* The settings were written by this program or by none.                       *)
ASSUME ShellAssumption ==
  /\ Picks \subseteq Paths /\ Beside \in BOOLEAN
  /\ Found \subseteq [disk : [Keys -> FileContents], ini : Settings]

VARIABLES pm, ui, process, runs, edits
vars == <<pm, ui, process, runs, edits>>

running == process = "running"

NoAction == [op |-> "none", index |-> 0]
Act(op)  == [op |-> op, index |-> 0]
Requests == {Act(op) : op \in {"new", "open", "close", "update"}}

InitUi == [prompt |-> FALSE, pending |-> NoAction, studioPrompt |-> FALSE,
           studioPending |-> "none", dialog |-> "none", studioDirty |-> FALSE,
           quitting |-> FALSE, waived |-> FALSE]

Modal == ui.prompt \/ ui.studioPrompt \/ ui.dialog # "none"
Free  == running /\ ~Modal /\ ~ui.quitting

-----------------------------------------------------------------------------
(* Main.qml.  A state <<m, u>> holds both records; each operator gives the states  *)
(* the handler can leave behind.                                            *)

(* runServerStudioGuarded() for the two actions that end the program: Qt.quit(),  *)
(* and installUpdate(), which asks for it when the Maintenance Tool started.        *)
PerformStudio(op, m, u) ==
  IF op = "quit" THEN {<<m, [u EXCEPT !.quitting = TRUE]>>}
  ELSE {<<m, [u EXCEPT !.quitting = started]>> : started \in BOOLEAN}
RunServerStudioGuarded(op, m, u) ==
  IF u.studioDirty
    THEN {<<m, [u EXCEPT !.studioPrompt = TRUE, !.studioPending = op]>>}
    ELSE PerformStudio(op, m, u)

Perform(a, m, u) ==
  CASE a.op \in {"new", "open"} -> {<<m, [u EXCEPT !.dialog = a.op]>>}
    [] a.op = "recent"  -> {<<OpenRecent(m, a.index, kept), u>> : kept \in BOOLEAN}
    [] a.op = "close"   -> {<<CloseProject(m, kept), u>> : kept \in BOOLEAN}
    [] a.op = "quit"    -> RunServerStudioGuarded("quit", m, u)
    [] a.op = "update"  -> RunServerStudioGuarded("install", m, u)
    [] OTHER            -> {<<m, u>>}

(* A request made while the prompt is open takes the single slot of the one the  *)
(* prompt was opened for.                                                    *)
RunGuarded(a, m, u) ==
  IF m.dirty THEN {<<m, [u EXCEPT !.prompt = TRUE, !.pending = a]>>}
  ELSE Perform(a, m, u)

Becomes(states) ==
  \E s \in states : pm' = s[1] /\ ui' = s[2]

Request(a) ==
  /\ Free
  /\ Becomes(RunGuarded(a, pm, [ui EXCEPT !.waived = FALSE]))
  /\ UNCHANGED <<process, runs, edits>>

RequestMenu   == \E a \in Requests : (a.op = "close" => pm.active # None) /\ Request(a)
RequestRecent == \E i \in DOMAIN pm.recent : Request([op |-> "recent", index |-> i])

(* The client's prompt.                                                    *)
Answered == [ui EXCEPT !.prompt = FALSE, !.pending = NoAction]

(* Mutant: the deferred action runs even when the save failed.                   *)
SaveSucceeds_Ignored(written) == TRUE
SaveSucceeds(written) == written
PromptSave ==
  /\ ui.prompt
  /\ \E written \in BOOLEAN :
       LET saved == IF written THEN WriteActiveProjectTo(pm, pm.active) ELSE pm
       IN Becomes(IF SaveSucceeds(written) THEN Perform(ui.pending, saved, Answered)
                  ELSE {<<saved, Answered>>})
  /\ UNCHANGED <<process, runs, edits>>

PromptDiscard ==
  /\ ui.prompt
  /\ Becomes(Perform(ui.pending, pm, [Answered EXCEPT !.waived = TRUE]))
  /\ UNCHANGED <<process, runs, edits>>

PromptCancel ==
  /\ ui.prompt
  /\ ui' = Answered
  /\ UNCHANGED <<pm, process, runs, edits>>

(* The server project's prompt.                                            *)
StudioAnswered == [ui EXCEPT !.studioPrompt = FALSE, !.studioPending = "none"]

StudioPromptSave ==
  /\ ui.studioPrompt
  /\ \E written \in BOOLEAN :
       Becomes(IF written
                 THEN PerformStudio(ui.studioPending, pm,
                                    [StudioAnswered EXCEPT !.studioDirty = FALSE])
                 ELSE {<<pm, StudioAnswered>>})
  /\ UNCHANGED <<process, runs, edits>>

StudioPromptDiscard ==
  /\ ui.studioPrompt
  /\ Becomes(PerformStudio(ui.studioPending, pm, StudioAnswered))
  /\ UNCHANGED <<process, runs, edits>>

StudioPromptCancel ==
  /\ ui.studioPrompt
  /\ ui' = StudioAnswered
  /\ UNCHANGED <<pm, process, runs, edits>>

-----------------------------------------------------------------------------
(* The dialogs.                                                            *)

DialogClosed == [ui EXCEPT !.dialog = "none", !.waived = FALSE]

(* The create form opens again when the project could not be created.           *)
NewDialogAccepted ==
  /\ ui.dialog = "new" /\ ~ui.prompt /\ ~ui.studioPrompt
  /\ \E path \in Picks, written, kept \in BOOLEAN :
       IF CanCreate(pm, path, written)
         THEN pm' = CreateProject(pm, path, kept) /\ ui' = DialogClosed
         ELSE UNCHANGED <<pm, ui>>
  /\ UNCHANGED <<process, runs, edits>>

OpenDialogAccepted ==
  /\ ui.dialog = "open"
  /\ \E path \in Picks, kept \in BOOLEAN : pm' = OpenProject(pm, path, kept)
  /\ ui' = DialogClosed
  /\ UNCHANGED <<process, runs, edits>>

SaveAsRequested ==
  /\ Free /\ pm.active # None
  /\ ui' = [ui EXCEPT !.dialog = "saveAs"]
  /\ UNCHANGED <<pm, process, runs, edits>>

SaveAsAccepted ==
  /\ ui.dialog = "saveAs"
  /\ \E path \in Picks, written \in BOOLEAN :
       pm' = IF written THEN WriteActiveProjectTo(pm, path) ELSE pm
  /\ ui' = DialogClosed
  /\ UNCHANGED <<process, runs, edits>>

DialogCancelled ==
  /\ ui.dialog # "none" /\ ~ui.prompt /\ ~ui.studioPrompt
  /\ ui' = DialogClosed
  /\ UNCHANGED <<pm, process, runs, edits>>

-----------------------------------------------------------------------------
(* The user at work, the worker, the table's timer, other programs.              *)

Works(m) == pm' = m /\ UNCHANGED <<ui, process, runs, edits>>

SaveProject == Free /\ pm.active # None /\ Works(WriteActiveProjectTo(pm, pm.active))

RemoveFromLauncher ==
  /\ Free /\ pm.active = None /\ pm.session.state # "on"
  /\ \E i \in DOMAIN pm.recent : Works(RemoveRecent(pm, i))

Edit ==
  /\ Free /\ edits < MaxEdits
  /\ edits' = edits + 1
  /\ pm' = EditWork(pm, edits + 2)
  /\ UNCHANGED <<ui, process, runs>>

Connect ==
  /\ Free /\ pm.session = Off
  /\ \E s \in Servers : Works([pm EXCEPT !.session = Connecting(s)])

StudioEdit ==
  /\ Free /\ ~ui.studioDirty
  /\ ui' = [ui EXCEPT !.studioDirty = TRUE]
  /\ UNCHANGED <<pm, process, runs, edits>>

Session ==
  /\ running
  /\ \/ pm.session.state = "connecting" /\ Works(SessionStarts(pm))
     \/ pm.session.state # "off" /\ Works([pm EXCEPT !.session = Off])

SampleLayout ==
  /\ running /\ edits < MaxEdits
  /\ \E layout \in Layouts : pm' = SetDataViewState(pm, layout)
  /\ edits' = edits + 1
  /\ UNCHANGED <<ui, process, runs>>

(* Other programs leave the open project's file alone.                         *)
OutsideChange ==
  /\ edits < MaxEdits /\ edits' = edits + 1
  /\ \E k \in Keys, file \in {NoFile, Broken} :
       /\ running /\ pm.active # None => KeyOf[pm.active] # k
       /\ pm.disk[k].kind = "project"
       /\ pm' = [pm EXCEPT !.disk[k] = file]
  /\ UNCHANGED <<ui, process, runs>>

-----------------------------------------------------------------------------
(* The end of the program.                                                 *)

(* saveUiLayout() writes the settings file before anything is asked.            *)
LayoutSaved(m) == [m EXCEPT !.ini.written = TRUE]
Ended(m)       == [LayoutSaved(m) EXCEPT !.live = Empty, !.active = None, !.dirty = FALSE,
                                         !.session = Off]

MayClose == ~pm.dirty /\ ~ui.studioDirty
Closing ==
  IF MayClose
    THEN /\ process' = "ended" /\ pm' = Ended(pm)
         /\ ui' = InitUi
         /\ UNCHANGED <<runs, edits>>
    ELSE /\ Becomes(RunGuarded(Act("quit"), LayoutSaved(pm),
                               [ui EXCEPT !.quitting = FALSE,
                                          !.waived = @ /\ ui.dialog # "none"]))
         /\ UNCHANGED <<process, runs, edits>>

(* The window's own button works while a prompt or the create form is open, not   *)
(* while a dialog of the system is.  A queued Qt.quit() asks the windows to close  *)
(* again before it ends the program.                                        *)
CloseWindow == running /\ ~ui.quitting /\ ui.dialog \notin {"open", "saveAs"} /\ Closing
QuitArrives == running /\ ui.quitting /\ Closing

Crash ==
  /\ running /\ runs < MaxRuns
  /\ process' = "crashed"
  /\ pm' = [pm EXCEPT !.live = Empty, !.active = None, !.dirty = FALSE, !.session = Off]
  /\ ui' = InitUi
  /\ UNCHANGED <<runs, edits>>

Start ==
  /\ ~running /\ runs < MaxRuns
  /\ process' = "running" /\ runs' = runs + 1
  /\ \E copied, written \in BOOLEAN :
       pm' = Started(pm.disk, pm.ini, Beside, copied, written)
  /\ UNCHANGED <<ui, edits>>

-----------------------------------------------------------------------------
Init ==
  /\ \E found \in Found :
       pm = [disk |-> found.disk, live |-> Empty, active |-> None, dirty |-> FALSE,
             recent |-> <<>>, ini |-> found.ini, session |-> Off]
  /\ ui = InitUi
  /\ process = "ended" /\ runs = 0 /\ edits = 0

Next ==
  \/ RequestMenu \/ RequestRecent \/ PromptSave \/ PromptDiscard \/ PromptCancel
  \/ StudioPromptSave \/ StudioPromptDiscard \/ StudioPromptCancel
  \/ NewDialogAccepted \/ OpenDialogAccepted \/ SaveAsRequested \/ SaveAsAccepted
  \/ DialogCancelled \/ SaveProject \/ RemoveFromLauncher \/ Edit \/ Connect
  \/ StudioEdit \/ Session \/ SampleLayout \/ OutsideChange
  \/ CloseWindow \/ QuitArrives \/ Crash \/ Start

Spec == Init /\ [][Next]_vars

-----------------------------------------------------------------------------
(* The list of recent projects names each file once, holds no more than its      *)
(* limit, has the open project at its head, and is what the next start will find  *)
(* in the settings: an index the menu captured keeps its meaning behind a prompt.  *)
RecentsInOrder ==
  /\ Cardinality({KeyOf[p] : p \in ToSet(pm.recent)}) = Len(pm.recent)
  /\ Len(pm.recent) <= MaxRecent
  /\ running => pm.ini.recent = pm.recent
  /\ pm.active # None => pm.recent # <<>> /\ Head(pm.recent) = pm.active

(* A project without the unsaved mark is, as a later open would read it, what its  *)
(* file holds: no order of sessions that start, layouts that are pushed and saves   *)
(* that fail leaves a change unmarked.                                       *)
SavedMeansInFile ==
  pm.active # None /\ ~pm.dirty =>
    LET file == pm.disk[KeyOf[pm.active]]
    IN Loadable(file) /\ FromJson(file) = pm.live

(* The work in an open project is given up only when its file holds it or the     *)
(* user chose Discard for this very request, whatever was asked in between, also at *)
(* an end of the program that is no crash; and the program replaces an existing     *)
(* project file only with the open project, which was or then is that file's:       *)
(* creating and migrating never take the place of one.                        *)
LosesNoWork ==
  LET file == pm'.disk[KeyOf[pm.active]]
  IN process' # "crashed" /\ pm.active # None /\ ~Edit /\ pm'.live.work # pm.live.work
       => ui'.waived \/ ui.waived \/ (file.kind = "project" /\ file.data.work = pm.live.work)
KeepsOtherFiles ==
  \A k \in Keys :
    LET file == pm'.disk[k]
    IN pm.disk[k] # NoFile /\ file # pm.disk[k] /\ file \notin {NoFile, Broken}
         => /\ pm.active # None /\ file = ToJson(pm.live)
            /\ \E path \in {pm.active, pm'.active} \ {None} : KeyOf[path] = k
NothingLostUnasked == [][LosesNoWork /\ KeepsOtherFiles]_vars

(* Main.qml:768 says of the prompt's Discard "Discard changes and continue with the *)
(* deferred action", and Main.qml:274-276 of leaving the program "Resolve the client *)
(* project first, then the Server Studio project, then quit": when the user gave up  *)
(* the changes on the way to it, the program ends with the quit.                *)
DiscardQuits == [][QuitArrives /\ ui.waived => process' = "ended"]_vars
=============================================================================
