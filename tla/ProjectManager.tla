--------------------------- MODULE ProjectManager ---------------------------
(***************************************************************************)
(* The client's projects: ProjectManager (src/qmlapi/projectmanager.cpp), the *)
(* .uaproj files (src/project/projectserializer.cpp), the part of OpcUaManager  *)
(* a project is applied to and exported from, and what a start finds on disk    *)
(* (src/core/apppaths.cpp, src/persistence/nodedatabase.cpp).                   *)
(*                                                                         *)
(* A state of the component is one record, and every operation maps such a      *)
(* record to the next, because Main.qml runs several of them in one handler:     *)
(*   disk    what each project file holds                                      *)
(*   live    the project data the facade holds: connection, the user's work      *)
(*           (monitored nodes, focus node, value format) and the table's layout  *)
(*   active, dirty   the open project and its unsaved mark                       *)
(*   recent  the paths of the recent projects, newest first                     *)
(*   ini     the settings file: its own copy of that list, and whether it holds  *)
(*           the state of a version that had no projects                        *)
(*   session what the facade's mirrors say of the connection                    *)
(***************************************************************************)
EXTENDS Integers, Sequences, FiniteSets, SequencesExt

CONSTANTS
  Paths,         \* the spellings of project files the user can pick
  KeyOf,         \* the file each spelling names: canonicalKey()
  DefaultPath,   \* Default.uaproj in the projects directory
  Servers,       \* servers a connection can be made to
  Layouts,       \* column layouts of the Data Access table
  MaxRecent,     \* kMaxRecentProjects
  None           \* no path, no server, the default layout

ASSUME PathsAssumption ==
  /\ KeyOf \in [Paths -> STRING] /\ DefaultPath \in Paths /\ None \notin Paths
  /\ Servers # {}
ASSUME RecentAssumption == MaxRecent \in Nat \ {0}

Keys == {KeyOf[p] : p \in Paths}

Empty   == [conn |-> None, work |-> 0, layout |-> None]
NoFile  == [kind |-> "none"]
Broken  == [kind |-> "broken"]     \* no JSON, no object or no formatVersion
Project(version, data) == [kind |-> "project", version |-> version, data |-> data]

ProjectData  == [conn : Servers \cup {None}, work : Nat, layout : Layouts \cup {None}]
FileContents == {NoFile, Broken} \cup [kind : {"project"}, version : Int, data : ProjectData]

Off            == [state |-> "off", server |-> None]
Connecting(s)  == [state |-> "connecting", server |-> s]
Connected(s)   == [state |-> "on", server |-> s]
Ending         == [state |-> "ending", server |-> None]   \* still connected or busy to the mirrors

(* The recent list names each file once.                                     *)
RecentLists ==
  {list \in Seq(Paths) :
     /\ Len(list) <= MaxRecent
     /\ \A i, j \in DOMAIN list : KeyOf[list[i]] = KeyOf[list[j]] => i = j}

Settings == [written : BOOLEAN, recent : RecentLists, legacy : BOOLEAN]
NoIni == [written |-> FALSE, recent |-> <<>>, legacy |-> FALSE]

-----------------------------------------------------------------------------
(* The project file.                                                       *)

FormatVersion == 2

(* save() replaces a file only as a whole (QSaveFile); exportProject() always   *)
(* writes the current version.                                              *)
ToJson(data) == Project(FormatVersion, data)

(* load() refuses an absent or broken file and a version it does not know; what *)
(* an older version does not have gets its default.                          *)
Loadable(file) == file.kind = "project" /\ file.version \in 1 .. FormatVersion
FromJson(file) == IF file.version = 1 THEN [file.data EXCEPT !.layout = None] ELSE file.data

-----------------------------------------------------------------------------
(* The facade.                                                             *)

(* A project-relevant change marks the open project, if there is one.          *)
ProjectStateChanged(m, data) ==
  [m EXCEPT !.live = data, !.dirty = @ \/ m.active # None]

(* Disconnecting only asks the worker: until it answers the mirrors say         *)
(* connected.  A connection being made is not cancelled; when it was a          *)
(* reconnect run that still has steps to take, it takes none of them (~kept)    *)
(* but stays busy until the answer it waits for.                             *)
ClearRuntimeState(m, kept) ==
  [m EXCEPT !.live = Empty,
            !.session = CASE @.state = "on" -> Ending
                          [] @.state = "connecting" /\ ~kept -> Ending
                          [] OTHER -> @]

ApplyProject(m, data) == [m EXCEPT !.live = data]

(* connectUsingConfig() gives up while the mirrors say connected or busy.      *)
ConnectToProjectConnection(m) ==
  IF m.live.conn # None /\ m.session.state = "off"
    THEN [m EXCEPT !.session = Connecting(m.live.conn)]
    ELSE m

(* Mutant: a session that starts changes the connection and marks nothing.        *)
UpdateConnectionFromLiveState_Silent(m) == [m EXCEPT !.live.conn = m.session.server]

UpdateConnectionFromLiveState(m) ==
  IF m.live.conn = m.session.server THEN m
  ELSE ProjectStateChanged(m, [m.live EXCEPT !.conn = m.session.server])

SessionStarts(m) == UpdateConnectionFromLiveState([m EXCEPT !.session.state = "on"])

(* setDataViewState(): the table pushes what it shows, also when a sampling     *)
(* timer and no user makes it.                                               *)
SetDataViewState(m, layout) ==
  IF m.live.layout = layout THEN m
  ELSE ProjectStateChanged(m, [m.live EXCEPT !.layout = layout])

(* setNodeMonitored(), removeNode(), setSamplingInterval(), setFocusNode(),      *)
(* setValueFormat() and their like: the user's next piece of work.             *)
EditWork(m, work) == ProjectStateChanged(m, [m.live EXCEPT !.work = work])

-----------------------------------------------------------------------------
(* ProjectManager.                                                         *)

SetActiveProject(m, path) == [m EXCEPT !.active = path, !.dirty = FALSE]

(* Every change of the list is written to the settings at once.                *)
SaveRecentProjects(m, list) ==
  [m EXCEPT !.recent = list, !.ini.recent = list, !.ini.written = TRUE]

(* Mutant: an entry is the same only in the same spelling.                       *)
AddOrUpdateRecent_BySpelling(m, path) ==
  LET all == <<path>> \o SelectSeq(m.recent, LAMBDA p : p # path)
  IN SaveRecentProjects(m, SubSeq(all, 1, IF Len(all) > MaxRecent THEN MaxRecent ELSE Len(all)))

(* The entries of other files, in their order.                               *)
OfOtherFiles(list, key) ==
  LET others == {i \in DOMAIN list : KeyOf[list[i]] # key}
  IN [n \in 1..Cardinality(others) |->
        list[CHOOSE i \in others : Cardinality({j \in others : j <= i}) = n]]

AddOrUpdateRecent(m, path) ==
  LET all == <<path>> \o OfOtherFiles(m.recent, KeyOf[path])
  IN SaveRecentProjects(m, IF Len(all) > MaxRecent THEN SubSeq(all, 1, MaxRecent) ELSE all)

Exists(m, path) == m.disk[KeyOf[path]] # NoFile
Save(m, path, data) == [m EXCEPT !.disk[KeyOf[path]] = ToJson(data)]

(* createProjectAtPath() after its checks and a save that succeeded.            *)
CanCreate(m, path, written) == written /\ ~Exists(m, path)
CreateProject(m, path, kept) ==
  LET cleared == ClearRuntimeState(Save(m, path, Empty), kept)
  IN AddOrUpdateRecent(SetActiveProject(ApplyProject(cleared, Empty), path), path)

(* openProject(): the file is read before anything is given up.                 *)
OpenProject(m, path, kept) ==
  IF ~Loadable(m.disk[KeyOf[path]]) THEN m
  ELSE LET data    == FromJson(m.disk[KeyOf[path]])
           applied == ApplyProject(ClearRuntimeState(m, kept), data)
       IN ConnectToProjectConnection(AddOrUpdateRecent(SetActiveProject(applied, path), path))

OpenRecent(m, index, kept) ==
  IF index \in DOMAIN m.recent THEN OpenProject(m, m.recent[index], kept) ELSE m

(* saveProject(), saveProjectAs(): nothing changes when the write fails.        *)
WriteActiveProjectTo(m, path) ==
  AddOrUpdateRecent(SetActiveProject(Save(m, path, m.live), path), path)

CloseProject(m, kept) ==
  [ClearRuntimeState(m, kept) EXCEPT !.active = None, !.dirty = FALSE]

RemoveRecent(m, index) == SaveRecentProjects(m, RemoveAt(m.recent, index))

-----------------------------------------------------------------------------
(* A start of the program.                                                 *)

(* exportLegacyState(): the last connection and the monitored nodes of a        *)
(* version without projects.                                                *)
LegacyData == [conn |-> CHOOSE s \in Servers : TRUE, work |-> 1, layout |-> None]

(* ensureSeededOnFirstRun(): the settings file an earlier version kept beside    *)
(* the executable is copied only while there is none in its new place.          *)
EnsureSeeded(ini, beside, copied) ==
  IF ~ini.written /\ beside /\ copied
    THEN [written |-> TRUE, recent |-> <<>>, legacy |-> TRUE]
    ELSE ini

(* maybeMigrateLegacyState(): a Default project of an earlier migration is        *)
(* listed, never written again.                                              *)
MigrateLegacyState(m, written) ==
  IF m.recent # <<>> \/ ~m.ini.legacy THEN m
  ELSE IF Exists(m, DefaultPath) THEN AddOrUpdateRecent(m, DefaultPath)
  ELSE IF written THEN AddOrUpdateRecent(Save(m, DefaultPath, LegacyData), DefaultPath)
  ELSE m

(* main(), setSettings(): no project is open until the launcher opens one.       *)
Started(disk, ini, beside, copied, written) ==
  LET seeded == EnsureSeeded(ini, beside, copied)
  IN MigrateLegacyState(
       [disk |-> disk, live |-> Empty, active |-> None, dirty |-> FALSE,
        recent |-> seeded.recent, ini |-> seeded, session |-> Off], written)
=============================================================================
