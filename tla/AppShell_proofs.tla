--------------------------- MODULE AppShell_proofs ---------------------------
(***************************************************************************)
(* What the application keeps of the user's work, for any files, servers, dialogs  *)
(* and any number of starts: the unsaved mark, the recent list, the prompts and     *)
(* the end of the program.  The project manager's operators come first, then the    *)
(* invariant of the shell around them; last the update the shell offers, a state    *)
(* machine of its own (UpdateController).                                       *)
(***************************************************************************)
EXTENDS AppShell, UpdateController, FiniteSetTheorems, SequenceTheorems, WellFoundedInduction, TLAPS

-----------------------------------------------------------------------------
(* The recent list.                                                        *)

(* Every rank is taken in a finite set of numbers.                              *)
LEMMA RankTaken ==
  ASSUME NEW S \in SUBSET Nat, IsFiniteSet(S), NEW n \in 1..Cardinality(S)
  PROVE  \E i \in S : Cardinality({j \in S : j <= i}) = n
  <1>. DEFINE upto(i) == {j \in S : j <= i}
              rank    == [i \in S |-> Cardinality(upto(i))]
              places  == 1..Cardinality(S)
  <1>1. Cardinality(S) \in Nat
    BY FS_CardinalityType
  <1>2. ASSUME NEW i \in S
        PROVE  IsFiniteSet(upto(i)) /\ Cardinality(upto(i)) \in places
    <2>1. IsFiniteSet(upto(i)) /\ Cardinality(upto(i)) <= Cardinality(S)
      BY FS_Subset
    <2>2. i \in upto(i)
      BY <1>2
    <2>3. Cardinality(upto(i)) \in Nat /\ Cardinality(upto(i)) # 0
      BY <2>1, <2>2, FS_CardinalityType, FS_EmptySet
    <2>. QED  BY <1>1, <2>1, <2>3
  <1>3. ASSUME NEW i \in S, NEW k \in S, i < k
        PROVE  Cardinality(upto(i)) < Cardinality(upto(k))
    <2>1. IsFiniteSet(upto(k)) /\ upto(i) \subseteq upto(k)
      <3>1. ASSUME NEW j \in S, j <= i  PROVE j <= k
        BY <1>3, <3>1
      <3>. QED  BY <1>2, <3>1
    <2>2. k \in upto(k) /\ k \notin upto(i)
      BY <1>3
    <2>3. /\ Cardinality(upto(i)) <= Cardinality(upto(k))
          /\ Cardinality(upto(i)) = Cardinality(upto(k)) => upto(i) = upto(k)
      BY <2>1, FS_Subset
    <2>4. Cardinality(upto(i)) # Cardinality(upto(k))
      BY <2>2, <2>3
    <2>. QED  BY <1>2, <2>3, <2>4
  <1>4. rank \in Injection(S, places)
    <2>1. rank \in [S -> places]
      BY <1>2
    <2>2. ASSUME NEW i \in S, NEW k \in S, rank[i] = rank[k]  PROVE i = k
      <3>1. ~(i < k) /\ ~(k < i)
        BY <1>2, <1>3, <2>2
      <3>. QED  BY <3>1
    <2>. QED  BY <2>1, <2>2 DEF Injection, IsInjective
  <1>5. IsFiniteSet(places) /\ Cardinality(places) = Cardinality(S)
    BY <1>1, FS_Interval
  <1>. HIDE DEF rank, places
  <1>6. rank \in Surjection(S, places)
    BY <1>4, <1>5, FS_Injection
  <1>7. \E i \in S : rank[i] = n
    BY <1>6 DEF Surjection, places
  <1>. QED  BY <1>7 DEF rank

LEMMA OthersKept ==
  ASSUME NEW list \in RecentLists, NEW key
  PROVE  LET rest == OfOtherFiles(list, key)
         IN  /\ rest \in Seq(Paths)
             /\ \A n \in DOMAIN rest : KeyOf[rest[n]] # key
             /\ \A n, k \in DOMAIN rest : KeyOf[rest[n]] = KeyOf[rest[k]] => n = k
  <1>. DEFINE others   == {i \in DOMAIN list : KeyOf[list[i]] # key}
              upto(i)  == {j \in others : j <= i}
              place(n) == CHOOSE i \in others : Cardinality(upto(i)) = n
              rest     == OfOtherFiles(list, key)
  <1>1. /\ list \in Seq(Paths) /\ Len(list) \in Nat /\ DOMAIN list = 1..Len(list)
        /\ \A i, j \in DOMAIN list : KeyOf[list[i]] = KeyOf[list[j]] => i = j
    BY DEF RecentLists
  <1>2. others \in SUBSET Nat /\ IsFiniteSet(others)
    <2>1. IsFiniteSet(1..Len(list))
      BY <1>1, FS_Interval
    <2>2. others \subseteq 1..Len(list)
      BY <1>1
    <2>3. 1..Len(list) \subseteq Nat
      BY <1>1
    <2>. HIDE DEF others
    <2>. QED  BY <2>1, <2>2, <2>3, FS_Subset
  <1>3. Cardinality(others) \in Nat
    BY <1>2, FS_CardinalityType
  <1>4. rest = [n \in 1..Cardinality(others) |-> list[place(n)]]
    BY DEF OfOtherFiles
  <1>5. ASSUME NEW n \in 1..Cardinality(others)
        PROVE  place(n) \in others /\ Cardinality(upto(place(n))) = n
    <2>. HIDE DEF others
    <2>1. \E i \in others : Cardinality(upto(i)) = n
      BY <1>2, RankTaken
    <2>. QED  BY <2>1
  <1>6. ASSUME NEW n \in 1..Cardinality(others)
        PROVE  list[place(n)] \in Paths /\ KeyOf[list[place(n)]] # key
    <2>1. place(n) \in DOMAIN list /\ KeyOf[list[place(n)]] # key
      BY <1>5
    <2>. HIDE DEF place
    <2>. QED  BY <1>1, <2>1
  <1>7. ASSUME NEW n \in 1..Cardinality(others), NEW k \in 1..Cardinality(others),
               KeyOf[list[place(n)]] = KeyOf[list[place(k)]]
        PROVE  n = k
    <2>1. place(n) \in DOMAIN list /\ place(k) \in DOMAIN list
      BY <1>5
    <2>2. place(n) = place(k)
      BY <1>1, <1>7, <2>1
    <2>. QED  BY <1>5, <2>2
  <1>. HIDE DEF others, place
  <1>8. rest \in Seq(Paths) /\ DOMAIN rest = 1..Cardinality(others)
    BY <1>3, <1>4, <1>6
  <1>. QED  BY <1>4, <1>6, <1>7, <1>8

(* addOrUpdateRecent() puts the path at the head of a list of such lists.         *)
LEMMA Listed ==
  ASSUME NEW m, m.recent \in RecentLists, NEW path \in Paths
  PROVE  \E list \in RecentLists :
           /\ list # <<>> /\ list[1] = path
           /\ AddOrUpdateRecent(m, path) = SaveRecentProjects(m, list)
  <1>. DEFINE rest == OfOtherFiles(m.recent, KeyOf[path])
              all  == <<path>> \o rest
              list == IF Len(all) > MaxRecent THEN SubSeq(all, 1, MaxRecent) ELSE all
  <1>1. /\ rest \in Seq(Paths)
        /\ \A n \in DOMAIN rest : KeyOf[rest[n]] # KeyOf[path]
        /\ \A n, k \in DOMAIN rest : KeyOf[rest[n]] = KeyOf[rest[k]] => n = k
    BY OthersKept
  <1>2. AddOrUpdateRecent(m, path) = SaveRecentProjects(m, list)
    BY DEF AddOrUpdateRecent
  <1>. HIDE DEF rest
  <1>3. /\ all \in Seq(Paths) /\ Len(all) = 1 + Len(rest) /\ all[1] = path
        /\ \A n \in 2..Len(all) : n - 1 \in DOMAIN rest /\ all[n] = rest[n - 1]
    BY <1>1
  <1>. HIDE DEF all
  <1>4. ASSUME NEW n \in 1..Len(all), NEW k \in 1..Len(all), KeyOf[all[n]] = KeyOf[all[k]]
        PROVE  n = k
    <2>1. CASE n = 1 /\ k # 1
      BY <1>1, <1>3, <1>4, <2>1
    <2>2. CASE n # 1 /\ k = 1
      BY <1>1, <1>3, <1>4, <2>2
    <2>3. CASE n # 1 /\ k # 1
      <3>1. n \in 2..Len(all) /\ k \in 2..Len(all)
        BY <1>3, <2>3
      <3>2. n - 1 = k - 1
        BY <1>1, <1>3, <1>4, <3>1
      <3>. QED  BY <3>1, <3>2
    <2>. QED  BY <2>1, <2>2, <2>3
  <1>5. MaxRecent \in Nat /\ MaxRecent >= 1
    BY RecentAssumption DEF RecentAssumption
  <1>6. /\ list \in Seq(Paths) /\ Len(list) \in 1..Len(all) /\ Len(list) <= MaxRecent
        /\ \A n \in 1..Len(list) : list[n] = all[n]
    BY <1>1, <1>3, <1>5
  <1>. HIDE DEF list
  <1>7. list \in RecentLists
    BY <1>4, <1>6 DEF RecentLists
  <1>8. list # <<>> /\ list[1] = path
    BY <1>3, <1>6
  <1>. QED  BY <1>2, <1>7, <1>8

LEMMA OneRemoved ==
  ASSUME NEW list \in RecentLists, NEW i \in DOMAIN list
  PROVE  RemoveAt(list, i) \in RecentLists
  <1>. DEFINE front == SubSeq(list, 1, i - 1)
              back  == SubSeq(list, i + 1, Len(list))
              rest  == front \o back
              old(n) == IF n < i THEN n ELSE n + 1
  <1>1. /\ list \in Seq(Paths) /\ Len(list) \in Nat /\ DOMAIN list = 1..Len(list)
        /\ Len(list) <= MaxRecent
        /\ \A n, k \in DOMAIN list : KeyOf[list[n]] = KeyOf[list[k]] => n = k
    BY DEF RecentLists
  <1>2. RemoveAt(list, i) = rest
    BY DEF RemoveAt
  <1>3. /\ front \in Seq(Paths) /\ Len(front) = i - 1
        /\ \A n \in 1..i - 1 : front[n] = list[n]
    BY <1>1
  <1>4. /\ back \in Seq(Paths) /\ Len(back) = Len(list) - i
        /\ \A n \in 1..Len(list) - i : back[n] = list[i + n]
    BY <1>1
  <1>. HIDE DEF front, back
  <1>5. /\ rest \in Seq(Paths) /\ Len(rest) = Len(list) - 1
        /\ \A n \in 1..Len(rest) : rest[n] = list[old(n)] /\ old(n) \in 1..Len(list)
    <2>1. /\ rest \in Seq(Paths) /\ Len(rest) = Len(list) - 1
          /\ \A n \in 1..Len(rest) : rest[n] = IF n < i THEN front[n] ELSE back[n - (i - 1)]
      <3>1. Len(front) \in Nat /\ Len(back) \in Nat
        BY <1>1, <1>3, <1>4
      <3>2. /\ rest \in Seq(Paths) /\ Len(rest) = Len(front) + Len(back)
            /\ \A n \in 1..Len(front) + Len(back) :
                 rest[n] = IF n <= Len(front) THEN front[n] ELSE back[n - Len(front)]
        BY <1>3, <1>4, <3>1, ConcatProperties
      <3>. HIDE DEF rest
      <3>3. \A n \in Int : n <= i - 1 <=> n < i
        BY <1>1
      <3>. QED  BY <1>1, <1>3, <1>4, <3>2, <3>3
    <2>2. ASSUME NEW n \in 1..Len(rest)
          PROVE  rest[n] = list[old(n)] /\ old(n) \in 1..Len(list)
      <3>. HIDE DEF rest
      <3>1. CASE n < i
        <4>1. n \in 1..i - 1 /\ old(n) = n
          BY <1>1, <2>1, <3>1
        <4>2. rest[n] = front[n] /\ front[n] = list[n]
          BY <1>3, <2>1, <3>1, <4>1
        <4>. QED  BY <1>1, <4>1, <4>2
      <3>2. CASE ~(n < i)
        <4>1. n - (i - 1) \in 1..Len(list) - i /\ i + (n - (i - 1)) = n + 1
          BY <1>1, <2>1, <3>2
        <4>2. rest[n] = back[n - (i - 1)]
          BY <2>1, <3>2
        <4>3. back[n - (i - 1)] = list[n + 1]
          BY <1>4, <4>1
        <4>. QED  BY <1>1, <2>1, <3>2, <4>2, <4>3
      <3>. QED  BY <3>1, <3>2
    <2>. QED  BY <2>1, <2>2
  <1>. HIDE DEF rest
  <1>6. ASSUME NEW n \in 1..Len(rest), NEW k \in 1..Len(rest), KeyOf[rest[n]] = KeyOf[rest[k]]
        PROVE  n = k
    <2>1. /\ old(n) \in DOMAIN list /\ old(k) \in DOMAIN list
          /\ rest[n] = list[old(n)] /\ rest[k] = list[old(k)]
      BY <1>1, <1>5
    <2>2. old(n) = old(k)
      <3>. HIDE DEF old
      <3>. QED  BY <1>1, <1>6, <2>1
    <2>. QED  BY <1>1, <1>5, <2>2
  <1>7. MaxRecent \in Nat
    BY RecentAssumption DEF RecentAssumption
  <1>. QED  BY <1>1, <1>2, <1>5, <1>6, <1>7 DEF RecentLists

-----------------------------------------------------------------------------
(* Projects and their files.                                                *)

Sessions == [state : {"off", "connecting", "on", "ending"}, server : Servers \cup {None}]
Projects ==
  [disk : [Keys -> FileContents], live : ProjectData, active : Paths \cup {None}, dirty : BOOLEAN,
   recent : RecentLists, ini : Settings,
   session : Sessions]

FileOf(m) == m.disk[KeyOf[m.active]]
WorkInFile(m) == FileOf(m).kind = "project" /\ FileOf(m).data.work = m.live.work
InFile(m) == Loadable(FileOf(m)) /\ FromJson(FileOf(m)) = m.live

(* A state in which the unsaved mark and the recent list are right.               *)
Sound(m) ==
  /\ m \in Projects
  /\ m.active # None => m.recent # <<>> /\ m.recent[1] = m.active
  /\ m.dirty => m.active # None
  /\ m.active # None /\ ~m.dirty => InFile(m)

(* What of a project outlives a step that leaves files, list and settings alone.   *)
SameStore(m, s) == s.disk = m.disk /\ s.recent = m.recent /\ s.ini = m.ini

LEMMA FileIsRead ==
  ASSUME NEW file \in FileContents, Loadable(file)
  PROVE  /\ FromJson(file) \in ProjectData /\ file.kind = "project"
         /\ FromJson(file).work = file.data.work
  <1>1. file.kind = "project"
    BY DEF Loadable
  <1>2. file \in [kind : {"project"}, version : Int, data : ProjectData]
    BY <1>1 DEF FileContents, NoFile, Broken
  <1>3. file.data \in ProjectData
    BY <1>2
  <1>. QED  BY <1>1, <1>3 DEF FromJson, ProjectData

LEMMA FileIsWritten ==
  ASSUME NEW data \in ProjectData
  PROVE  /\ ToJson(data) \in FileContents /\ Loadable(ToJson(data))
         /\ FromJson(ToJson(data)) = data
         /\ ToJson(data).kind = "project" /\ ToJson(data).data = data
  <1>1. ToJson(data) = [kind |-> "project", version |-> 2, data |-> data]
    BY DEF ToJson, Project, FormatVersion
  <1>. QED  BY <1>1 DEF FileContents, Loadable, FromJson, FormatVersion

LEMMA EmptyIsData == Empty \in ProjectData
BY DEF Empty, ProjectData

LEMMA KeysOf == \A path \in Paths : KeyOf[path] \in Keys
BY DEF Keys

LEMMA SavedFile ==
  ASSUME NEW m \in Projects, NEW path \in Paths, NEW data \in ProjectData
  PROVE  LET s == Save(m, path, data)
         IN  /\ s \in Projects
             /\ s = [m EXCEPT !.disk = [m.disk EXCEPT ![KeyOf[path]] = ToJson(data)]]
             /\ s.disk[KeyOf[path]] = ToJson(data)
  <1>1. ToJson(data) \in FileContents /\ KeyOf[path] \in Keys
    BY FileIsWritten, KeysOf
  <1>2. Save(m, path, data) = [m EXCEPT !.disk = [m.disk EXCEPT ![KeyOf[path]] = ToJson(data)]]
    BY DEF Save
  <1>3. m.disk \in [Keys -> FileContents]
    BY DEF Projects
  <1>. QED  BY <1>1, <1>2, <1>3 DEF Projects

LEMMA ListSaved ==
  ASSUME NEW m \in Projects, NEW list \in RecentLists
  PROVE  LET s == SaveRecentProjects(m, list)
         IN  /\ s \in Projects /\ s.recent = list /\ s.ini.recent = list
             /\ s.disk = m.disk /\ s.live = m.live /\ s.active = m.active
             /\ s.dirty = m.dirty /\ s.session = m.session
  <1>. DEFINE kept == [m.ini EXCEPT !.recent = list, !.written = TRUE]
  <1>1. m.ini \in Settings
    BY DEF Projects
  <1>2. SaveRecentProjects(m, list) = [m EXCEPT !.recent = list, !.ini = kept]
    BY DEF SaveRecentProjects, Projects
  <1>3. kept \in Settings /\ kept.recent = list
    BY <1>1 DEF Settings
  <1>. HIDE DEF kept
  <1>. QED  BY <1>2, <1>3 DEF Projects

LEMMA SessionCleared ==
  ASSUME NEW m \in Projects, NEW kept \in BOOLEAN
  PROVE  LET s == ClearRuntimeState(m, kept)
         IN  /\ s \in Projects /\ SameStore(m, s)
             /\ s.live = Empty /\ s.active = m.active /\ s.dirty = m.dirty
  <1>. DEFINE next == CASE m.session.state = "on" -> Ending
                        [] m.session.state = "connecting" /\ ~kept -> Ending
                        [] OTHER -> m.session
  <1>1. ClearRuntimeState(m, kept) = [m EXCEPT !.live = Empty, !.session = next]
    BY DEF ClearRuntimeState, Projects
  <1>2. next \in Sessions
    BY DEF Projects, Sessions, Ending
  <1>. HIDE DEF next
  <1>. QED  BY <1>1, <1>2, EmptyIsData DEF Projects, SameStore

LEMMA ConnectionAsked ==
  ASSUME NEW m \in Projects
  PROVE  LET s == ConnectToProjectConnection(m)
         IN  /\ s \in Projects /\ SameStore(m, s)
             /\ s.live = m.live /\ s.active = m.active /\ s.dirty = m.dirty
  <1>1. CASE ConnectToProjectConnection(m) = m
    BY <1>1 DEF SameStore
  <1>2. CASE /\ m.live.conn # None
             /\ ConnectToProjectConnection(m) = [m EXCEPT !.session = Connecting(m.live.conn)]
    <2>1. m.live.conn \in Servers
      BY <1>2 DEF Projects, ProjectData
    <2>2. Connecting(m.live.conn) \in Sessions
      BY <2>1 DEF Connecting, Sessions
    <2>. QED  BY <1>2, <2>2 DEF Projects, SameStore
  <1>. QED  BY <1>1, <1>2 DEF ConnectToProjectConnection

(* setActiveProject() and addOrUpdateRecent(): the path becomes the open project's.   *)
LEMMA Activated ==
  ASSUME NEW m \in Projects, NEW path \in Paths
  PROVE  LET s == AddOrUpdateRecent(SetActiveProject(m, path), path)
         IN  /\ s \in Projects /\ s.active = path /\ ~s.dirty
             /\ s.recent # <<>> /\ s.recent[1] = path /\ s.ini.recent = s.recent
             /\ s.disk = m.disk /\ s.live = m.live
  <1>. DEFINE a == SetActiveProject(m, path)
  <1>1. /\ a \in Projects /\ a.active = path /\ ~a.dirty
        /\ a.disk = m.disk /\ a.live = m.live
    BY DEF SetActiveProject, Projects
  <1>. HIDE DEF a
  <1>2. a.recent \in RecentLists
    BY <1>1 DEF Projects
  <1>3. PICK list \in RecentLists :
          /\ list # <<>> /\ list[1] = path
          /\ AddOrUpdateRecent(a, path) = SaveRecentProjects(a, list)
    BY <1>2, Listed
  <1>4. LET s == SaveRecentProjects(a, list)
        IN  /\ s \in Projects /\ s.recent = list /\ s.ini.recent = list
            /\ s.disk = a.disk /\ s.live = a.live /\ s.active = a.active /\ s.dirty = a.dirty
    BY <1>1, ListSaved
  <1>. QED  BY <1>1, <1>3, <1>4 DEF a

LEMMA ProjectOpened ==
  ASSUME NEW m, Sound(m), NEW path \in Paths, NEW kept \in BOOLEAN
  PROVE  LET s == OpenProject(m, path, kept)
         IN  /\ Sound(s) /\ s.disk = m.disk
             /\ m.ini.recent = m.recent => s.ini.recent = s.recent
             /\ s = m \/ (s.active = path /\ WorkInFile(s))
  <1>. DEFINE file    == m.disk[KeyOf[path]]
              data    == FromJson(file)
              applied == ApplyProject(ClearRuntimeState(m, kept), data)
              active  == AddOrUpdateRecent(SetActiveProject(applied, path), path)
              s       == OpenProject(m, path, kept)
  <1>1. CASE ~Loadable(file)
    <2>1. s = m
      BY <1>1 DEF OpenProject
    <2>. QED  BY <2>1
  <1>2. CASE Loadable(file)
    <2>1. s = ConnectToProjectConnection(active)
      BY <1>2 DEF OpenProject
    <2>2. m \in Projects /\ path # None
      BY PathsAssumption DEF Sound, PathsAssumption
    <2>3. file \in FileContents
      BY <2>2, KeysOf DEF Projects
    <2>4. data \in ProjectData /\ file.kind = "project" /\ data.work = file.data.work
      BY <1>2, <2>3, FileIsRead
    <2>. HIDE DEF data
    <2>5. /\ applied \in Projects /\ applied.disk = m.disk /\ applied.live = data
      <3>1. LET c == ClearRuntimeState(m, kept) IN c \in Projects /\ c.disk = m.disk
        BY <2>2, SessionCleared DEF SameStore
      <3>. QED  BY <2>4, <3>1 DEF ApplyProject, Projects
    <2>. HIDE DEF applied
    <2>6. /\ active \in Projects /\ active.active = path /\ ~active.dirty
          /\ active.recent # <<>> /\ active.recent[1] = path /\ active.ini.recent = active.recent
          /\ active.disk = m.disk /\ active.live = data
      BY <2>5, Activated
    <2>. HIDE DEF active
    <2>7. /\ s \in Projects /\ s.active = path /\ ~s.dirty
          /\ s.recent # <<>> /\ s.recent[1] = path /\ s.ini.recent = s.recent
          /\ s.disk = m.disk /\ s.live = data
      BY <2>1, <2>6, ConnectionAsked DEF SameStore
    <2>. HIDE DEF s
    <2>8. FileOf(s) = file
      BY <2>7 DEF FileOf
    <2>. HIDE DEF file
    <2>9. InFile(s) /\ WorkInFile(s)
      BY <1>2, <2>4, <2>7, <2>8 DEF InFile, WorkInFile, data
    <2>. QED  BY <2>7, <2>9 DEF Sound, s
  <1>. QED  BY <1>1, <1>2

LEMMA ProjectWritten ==
  ASSUME NEW m \in Projects, NEW path \in Paths
  PROVE  LET s == WriteActiveProjectTo(m, path)
         IN  /\ Sound(s) /\ s.ini.recent = s.recent /\ ~s.dirty
             /\ s.active = path /\ s.live = m.live
             /\ s.disk = [m.disk EXCEPT ![KeyOf[path]] = ToJson(m.live)]
             /\ s.disk[KeyOf[path]] = ToJson(m.live)
  <1>. DEFINE saved == Save(m, path, m.live)
              s     == WriteActiveProjectTo(m, path)
  <1>1. m.live \in ProjectData
    BY DEF Projects
  <1>2. /\ saved \in Projects /\ saved.live = m.live
        /\ saved.disk = [m.disk EXCEPT ![KeyOf[path]] = ToJson(m.live)]
        /\ saved.disk[KeyOf[path]] = ToJson(m.live)
    <2>1. /\ saved \in Projects
          /\ saved = [m EXCEPT !.disk = [m.disk EXCEPT ![KeyOf[path]] = ToJson(m.live)]]
          /\ saved.disk[KeyOf[path]] = ToJson(m.live)
      BY <1>1, SavedFile
    <2>. HIDE DEF saved
    <2>. QED  BY <2>1 DEF Projects
  <1>3. s = AddOrUpdateRecent(SetActiveProject(saved, path), path)
    BY DEF WriteActiveProjectTo
  <1>. HIDE DEF saved, s
  <1>4. /\ s \in Projects /\ s.active = path /\ ~s.dirty
        /\ s.recent # <<>> /\ s.recent[1] = path /\ s.ini.recent = s.recent
        /\ s.disk = saved.disk /\ s.live = saved.live
    BY <1>2, <1>3, Activated
  <1>5. FileOf(s) = ToJson(m.live)
    BY <1>2, <1>4 DEF FileOf
  <1>6. InFile(s)
    BY <1>1, <1>2, <1>4, <1>5, FileIsWritten DEF InFile
  <1>. QED  BY <1>2, <1>4, <1>6 DEF Sound, s

LEMMA ProjectCreated ==
  ASSUME NEW m \in Projects, NEW path \in Paths, NEW kept \in BOOLEAN
  PROVE  LET s == CreateProject(m, path, kept)
         IN  /\ Sound(s) /\ s.ini.recent = s.recent /\ s.active = path /\ s.live = Empty
             /\ s.disk = [m.disk EXCEPT ![KeyOf[path]] = ToJson(Empty)]
  <1>. DEFINE saved   == Save(m, path, Empty)
              cleared == ClearRuntimeState(saved, kept)
              applied == ApplyProject(cleared, Empty)
              s       == CreateProject(m, path, kept)
  <1>1. /\ saved \in Projects
        /\ saved.disk = [m.disk EXCEPT ![KeyOf[path]] = ToJson(Empty)]
        /\ saved.disk[KeyOf[path]] = ToJson(Empty)
    <2>1. /\ saved \in Projects
          /\ saved = [m EXCEPT !.disk = [m.disk EXCEPT ![KeyOf[path]] = ToJson(Empty)]]
          /\ saved.disk[KeyOf[path]] = ToJson(Empty)
      BY EmptyIsData, SavedFile
    <2>. HIDE DEF saved
    <2>. QED  BY <2>1 DEF Projects
  <1>2. s = AddOrUpdateRecent(SetActiveProject(applied, path), path)
    BY DEF CreateProject
  <1>. HIDE DEF saved, s
  <1>3. cleared \in Projects /\ cleared.disk = saved.disk
    BY <1>1, SessionCleared DEF SameStore
  <1>. HIDE DEF cleared
  <1>4. applied \in Projects /\ applied.disk = saved.disk /\ applied.live = Empty
    BY <1>3, EmptyIsData DEF ApplyProject, Projects
  <1>. HIDE DEF applied
  <1>5. /\ s \in Projects /\ s.active = path /\ ~s.dirty
        /\ s.recent # <<>> /\ s.recent[1] = path /\ s.ini.recent = s.recent
        /\ s.disk = saved.disk /\ s.live = Empty
    BY <1>2, <1>4, Activated
  <1>6. FileOf(s) = ToJson(Empty)
    BY <1>1, <1>5 DEF FileOf
  <1>7. InFile(s)
    BY <1>5, <1>6, EmptyIsData, FileIsWritten DEF InFile
  <1>. QED  BY <1>1, <1>5, <1>7 DEF Sound, s

LEMMA ProjectClosed ==
  ASSUME NEW m \in Projects, NEW kept \in BOOLEAN
  PROVE  LET s == CloseProject(m, kept)
         IN  Sound(s) /\ SameStore(m, s) /\ s.active = None
  <1>. DEFINE c == ClearRuntimeState(m, kept)
  <1>1. c \in Projects /\ SameStore(m, c)
    BY SessionCleared
  <1>2. CloseProject(m, kept) = [c EXCEPT !.active = None, !.dirty = FALSE]
    BY DEF CloseProject
  <1>. HIDE DEF c
  <1>. QED  BY <1>1, <1>2 DEF Projects, SameStore, Sound

(* A project-relevant change: marked, if a project is open.                       *)
LEMMA ProjectChanged ==
  ASSUME NEW m, Sound(m), NEW data \in ProjectData
  PROVE  LET s == ProjectStateChanged(m, data)
         IN  Sound(s) /\ SameStore(m, s) /\ s.active = m.active /\ s.live = data
  <1>. DEFINE s == ProjectStateChanged(m, data)
  <1>1. s = [m EXCEPT !.live = data, !.dirty = m.dirty \/ m.active # None]
    BY DEF ProjectStateChanged, Sound, Projects
  <1>2. m \in Projects
    BY DEF Sound
  <1>. HIDE DEF s
  <1>3. s \in Projects /\ SameStore(m, s) /\ s.active = m.active /\ s.live = data
    BY <1>1, <1>2 DEF Projects, SameStore
  <1>4. s.dirty <=> m.dirty \/ m.active # None
    BY <1>1, <1>2 DEF Projects
  <1>5. m.active # None => m.recent # <<>> /\ m.recent[1] = m.active
    BY DEF Sound
  <1>6. m.dirty => m.active # None
    BY DEF Sound
  <1>7. Sound(s)
    BY <1>3, <1>4, <1>5, <1>6 DEF Sound, SameStore
  <1>. QED  BY <1>3, <1>7 DEF s

(* A layout the settings keep, and a project's data changed in one field.          *)
LEMMA SettingsWritten ==
  ASSUME NEW m, Sound(m)
  PROVE  /\ Sound(LayoutSaved(m))
         /\ LayoutSaved(m).disk = m.disk /\ LayoutSaved(m).live = m.live
         /\ LayoutSaved(m).active = m.active /\ LayoutSaved(m).dirty = m.dirty
         /\ LayoutSaved(m).recent = m.recent /\ LayoutSaved(m).ini.recent = m.ini.recent
  <1>. DEFINE ini == [m.ini EXCEPT !.written = TRUE]
              s   == LayoutSaved(m)
  <1>1. m \in Projects
    BY DEF Sound
  <1>2. ini \in Settings /\ ini.recent = m.ini.recent
    BY <1>1 DEF Projects, Settings
  <1>3. s = [m EXCEPT !.ini = ini]
    BY <1>1 DEF LayoutSaved, Projects
  <1>. HIDE DEF ini, s
  <1>4. /\ s \in Projects /\ s.disk = m.disk /\ s.live = m.live /\ s.active = m.active
        /\ s.dirty = m.dirty /\ s.recent = m.recent /\ s.ini.recent = m.ini.recent
    BY <1>1, <1>2, <1>3 DEF Projects
  <1>5. Sound(s)
    BY <1>4 DEF Sound, InFile, FileOf
  <1>. QED  BY <1>4, <1>5 DEF s

LEMMA NothingOpen ==
  ASSUME NEW m, Sound(m), NEW s,
         s = [m EXCEPT !.live = Empty, !.active = None, !.dirty = FALSE, !.session = Off]
  PROVE  Sound(s) /\ s.active = None /\ s.disk = m.disk
  <1>1. m \in Projects
    BY DEF Sound
  <1>2. Off \in Sessions
    BY DEF Off, Sessions
  <1>. QED  BY <1>1, <1>2, EmptyIsData DEF Projects, Sound

LEMMA SessionChanged ==
  ASSUME NEW m, Sound(m), NEW session,
         session \in Sessions
  PROVE  LET s == [m EXCEPT !.session = session]
         IN  /\ Sound(s) /\ SameStore(m, s) /\ s.active = m.active /\ s.live = m.live
             /\ s.session = session
  <1>. DEFINE s == [m EXCEPT !.session = session]
  <1>1. m \in Projects
    BY DEF Sound
  <1>2. /\ s \in Projects /\ SameStore(m, s) /\ s.active = m.active /\ s.live = m.live
        /\ s.dirty = m.dirty /\ s.session = session
    BY <1>1 DEF Projects, SameStore
  <1>. HIDE DEF s
  <1>3. Sound(s)
    BY <1>2 DEF Sound, InFile, FileOf, SameStore
  <1>. QED  BY <1>2, <1>3 DEF s

(* A session that starts, and a layout that is pushed, leave the work alone.        *)
LEMMA SessionStarted ==
  ASSUME NEW m, Sound(m)
  PROVE  LET s == SessionStarts(m)
         IN  /\ Sound(s) /\ SameStore(m, s) /\ s.active = m.active
             /\ s.live.work = m.live.work
  <1>. DEFINE session == [m.session EXCEPT !.state = "on"]
              on      == [m EXCEPT !.session = session]
              data    == [m.live EXCEPT !.conn = m.session.server]
  <1>1. m \in Projects /\ m.live \in ProjectData
    BY DEF Sound, Projects
  <1>2. /\ session \in Sessions
        /\ session.server = m.session.server
    BY <1>1 DEF Projects, Sessions
  <1>3. data \in ProjectData /\ data.work = m.live.work
    BY <1>1 DEF Projects, ProjectData, Sessions
  <1>. HIDE DEF session
  <1>4. /\ Sound(on) /\ SameStore(m, on) /\ on.active = m.active /\ on.live = m.live
        /\ on.session = session
    BY <1>2, SessionChanged
  <1>5. SessionStarts(m) = UpdateConnectionFromLiveState(on)
    BY <1>1 DEF SessionStarts, Projects, session
  <1>. HIDE DEF on
  <1>6. UpdateConnectionFromLiveState(on) \in {on, ProjectStateChanged(on, data)}
    BY <1>2, <1>4 DEF UpdateConnectionFromLiveState
  <1>. HIDE DEF data
  <1>7. LET s == ProjectStateChanged(on, data)
        IN  Sound(s) /\ SameStore(on, s) /\ s.active = on.active /\ s.live = data
    BY <1>3, <1>4, ProjectChanged
  <1>. QED  BY <1>3, <1>4, <1>5, <1>6, <1>7 DEF SameStore

LEMMA LayoutPushed ==
  ASSUME NEW m, Sound(m), NEW layout \in Layouts
  PROVE  LET s == SetDataViewState(m, layout)
         IN  /\ Sound(s) /\ SameStore(m, s) /\ s.active = m.active
             /\ s.live.work = m.live.work
  <1>. DEFINE data == [m.live EXCEPT !.layout = layout]
  <1>1. data \in ProjectData /\ data.work = m.live.work
    BY DEF Sound, Projects, ProjectData
  <1>2. SetDataViewState(m, layout) \in {m, ProjectStateChanged(m, data)}
    BY DEF SetDataViewState
  <1>. HIDE DEF data
  <1>3. LET s == ProjectStateChanged(m, data)
        IN  Sound(s) /\ SameStore(m, s) /\ s.active = m.active /\ s.live = data
    BY <1>1, ProjectChanged
  <1>. QED  BY <1>1, <1>2, <1>3 DEF SameStore

(* A start: no project is open, and the migration writes only where no file was.    *)
LEMMA ProjectsAtStart ==
  ASSUME NEW disk \in [Keys -> FileContents], NEW ini \in Settings,
         NEW copied \in BOOLEAN, NEW written \in BOOLEAN
  PROVE  LET s == Started(disk, ini, Beside, copied, written)
         IN  /\ Sound(s) /\ s.active = None /\ s.ini.recent = s.recent
             /\ \A k \in Keys : s.disk[k] = disk[k] \/ disk[k] = NoFile
  <1>. DEFINE seeded == EnsureSeeded(ini, Beside, copied)
              m      == [disk |-> disk, live |-> Empty, active |-> None, dirty |-> FALSE,
                         recent |-> seeded.recent, ini |-> seeded, session |-> Off]
              saved  == Save(m, DefaultPath, LegacyData)
  <1>1. DefaultPath \in Paths /\ KeyOf[DefaultPath] \in Keys
    BY PathsAssumption, KeysOf DEF PathsAssumption
  <1>2. LegacyData \in ProjectData
    BY PathsAssumption DEF PathsAssumption, LegacyData, ProjectData
  <1>3. seeded \in Settings
    <2>1. <<>> \in RecentLists
      BY RecentAssumption DEF RecentAssumption, RecentLists
    <2>2. [written |-> TRUE, recent |-> <<>>, legacy |-> TRUE] \in Settings
      BY <2>1 DEF Settings
    <2>. QED  BY <2>2 DEF EnsureSeeded
  <1>. HIDE DEF seeded
  <1>4. m \in Projects
    BY <1>3, EmptyIsData DEF Projects, Settings, Off, Sessions
  <1>5. m.active = None /\ ~m.dirty /\ m.ini.recent = m.recent /\ m.disk = disk
    OBVIOUS
  <1>6. Started(disk, ini, Beside, copied, written) = MigrateLegacyState(m, written)
    BY DEF Started, seeded
  <1>. HIDE DEF m
  <1>7. /\ saved \in Projects /\ saved.active = None /\ ~saved.dirty
        /\ saved.disk = [disk EXCEPT ![KeyOf[DefaultPath]] = ToJson(LegacyData)]
    <2>1. /\ saved \in Projects
          /\ saved = [m EXCEPT !.disk = [m.disk EXCEPT ![KeyOf[DefaultPath]] = ToJson(LegacyData)]]
      BY <1>1, <1>2, <1>4, SavedFile
    <2>. HIDE DEF saved
    <2>. QED  BY <1>4, <1>5, <2>1 DEF Projects
  <1>8. ASSUME NEW p \in Projects, p.active = None, ~p.dirty
        PROVE  LET s == AddOrUpdateRecent(p, DefaultPath)
               IN  /\ Sound(s) /\ s.active = None /\ s.ini.recent = s.recent
                   /\ s.disk = p.disk
    <2>1. p.recent \in RecentLists
      BY DEF Projects
    <2>2. PICK list \in RecentLists : AddOrUpdateRecent(p, DefaultPath) = SaveRecentProjects(p, list)
      BY <1>1, <2>1, Listed
    <2>3. LET s == SaveRecentProjects(p, list)
          IN  /\ s \in Projects /\ s.recent = list /\ s.ini.recent = list
              /\ s.disk = p.disk /\ s.active = p.active /\ s.dirty = p.dirty
      BY ListSaved
    <2>. QED  BY <1>8, <2>2, <2>3 DEF Sound
  <1>9. Sound(m)
    BY <1>4, <1>5 DEF Sound
  <1>. HIDE DEF saved
  <1>10. CASE MigrateLegacyState(m, written) = m
    BY <1>5, <1>6, <1>9, <1>10
  <1>11. CASE MigrateLegacyState(m, written) = AddOrUpdateRecent(m, DefaultPath)
    BY <1>4, <1>5, <1>6, <1>8, <1>11
  <1>12. CASE /\ ~Exists(m, DefaultPath)
              /\ MigrateLegacyState(m, written) = AddOrUpdateRecent(saved, DefaultPath)
    <2>1. disk[KeyOf[DefaultPath]] = NoFile
      BY <1>5, <1>12 DEF Exists
    <2>2. LET s == AddOrUpdateRecent(saved, DefaultPath)
          IN  /\ Sound(s) /\ s.active = None /\ s.ini.recent = s.recent
              /\ s.disk = saved.disk
      BY <1>7, <1>8
    <2>. QED  BY <1>6, <1>7, <1>12, <2>1, <2>2
  <1>13. \/ MigrateLegacyState(m, written) = m
         \/ MigrateLegacyState(m, written) = AddOrUpdateRecent(m, DefaultPath)
         \/ /\ ~Exists(m, DefaultPath)
            /\ MigrateLegacyState(m, written) = AddOrUpdateRecent(saved, DefaultPath)
    <2>1. CASE m.recent # <<>> \/ ~m.ini.legacy
      BY <2>1 DEF MigrateLegacyState
    <2>2. CASE ~(m.recent # <<>> \/ ~m.ini.legacy) /\ Exists(m, DefaultPath)
      BY <2>2 DEF MigrateLegacyState
    <2>3. CASE ~(m.recent # <<>> \/ ~m.ini.legacy) /\ ~Exists(m, DefaultPath)
      BY <2>3 DEF MigrateLegacyState, saved
    <2>. QED  BY <2>1, <2>2, <2>3
  <1>. QED  BY <1>10, <1>11, <1>12, <1>13

-----------------------------------------------------------------------------
(* The shell: what a deferred or direct request leaves behind.                  *)

Deferred ==
  [op : {"none", "new", "open", "close", "update", "quit", "recent"}, index : Nat]
Uis ==
  [prompt : BOOLEAN, pending : Deferred, studioPrompt : BOOLEAN,
   studioPending : {"none", "quit", "install"}, dialog : {"none", "new", "open", "saveAs"},
   studioDirty : BOOLEAN, quitting : BOOLEAN, waived : BOOLEAN]

(* The work of the open project may be given up.                               *)
MayGo(m, u) == u.waived \/ m.active = None \/ WorkInFile(m)

(* A prompt is about an open project; a form that will replace it is open only      *)
(* when its work may be given up; and nothing else goes on behind a dialog for a      *)
(* new file name.                                                           *)
Guarded(m, u) ==
  /\ Sound(m) /\ m.ini.recent = m.recent
  /\ u \in Uis
  /\ u.prompt => m.active # None
  /\ u.dialog \in {"new", "open"} => MayGo(m, u)
  /\ u.dialog = "saveAs" => /\ m.active # None
                            /\ ~u.prompt /\ ~u.studioPrompt /\ ~u.quitting

ShellInv ==
  /\ edits \in Nat
  /\ IF running THEN Guarded(pm, ui) ELSE Sound(pm) /\ pm.active = None /\ ui = InitUi

(* A step that leaves the files alone and gives up no work unasked.               *)
Leads(m, u, s) ==
  /\ Guarded(s[1], s[2])
  /\ s[1].disk = m.disk
  /\ m.active # None /\ s[1].live.work # m.live.work => s[2].waived \/ WorkInFile(m)

LEMMA InitUiTyped == InitUi \in Uis
  <1>1. NoAction \in Deferred
    BY DEF NoAction, Deferred
  <1>. QED  BY <1>1 DEF InitUi, Uis

LEMMA SavedMayGo ==
  ASSUME NEW m, Sound(m), ~m.dirty, NEW u
  PROVE  MayGo(m, u)
  <1>1. m.active # None => InFile(m)
    BY DEF Sound
  <1>2. ASSUME m.active # None  PROVE WorkInFile(m)
    <2>1. Loadable(FileOf(m)) /\ FromJson(FileOf(m)) = m.live
      BY <1>1, <1>2 DEF InFile
    <2>2. m.disk \in [Keys -> FileContents] /\ m.active \in Paths
      BY <1>2 DEF Sound, Projects
    <2>3. FileOf(m) \in FileContents
      BY <2>2, KeysOf DEF FileOf
    <2>4. FileOf(m).kind = "project" /\ FromJson(FileOf(m)).work = FileOf(m).data.work
      BY <2>1, <2>3, FileIsRead
    <2>. QED  BY <2>1, <2>4 DEF WorkInFile
  <1>. QED  BY <1>2 DEF MayGo

LEMMA StudioPerformed ==
  ASSUME NEW m, NEW u, Guarded(m, u), u.dialog # "saveAs", NEW op,
         NEW s \in PerformStudio(op, m, u)
  PROVE  Leads(m, u, s)
  <1>1. PICK quitting \in BOOLEAN : s = <<m, [u EXCEPT !.quitting = quitting]>>
    BY DEF PerformStudio
  <1>. DEFINE v == [u EXCEPT !.quitting = quitting]
  <1>2. s[1] = m /\ s[2] = v
    BY <1>1
  <1>3. /\ v \in Uis /\ v.prompt = u.prompt /\ v.dialog = u.dialog /\ v.waived = u.waived
    BY DEF Guarded, Uis
  <1>. HIDE DEF v
  <1>4. Guarded(m, v)
    BY <1>3 DEF Guarded, MayGo
  <1>. QED  BY <1>2, <1>4 DEF Leads

LEMMA StudioGuarded ==
  ASSUME NEW m, NEW u, Guarded(m, u), u.dialog # "saveAs", NEW op \in {"quit", "install"},
         NEW s \in RunServerStudioGuarded(op, m, u)
  PROVE  Leads(m, u, s)
  <1>1. CASE ~u.studioDirty
    <2>1. s \in PerformStudio(op, m, u)
      BY <1>1 DEF RunServerStudioGuarded
    <2>. QED  BY <2>1, StudioPerformed
  <1>2. CASE u.studioDirty
    <2>. DEFINE v == [u EXCEPT !.studioPrompt = TRUE, !.studioPending = op]
    <2>1. s = <<m, v>>
      BY <1>2 DEF RunServerStudioGuarded
    <2>2. /\ v \in Uis /\ v.prompt = u.prompt /\ v.dialog = u.dialog /\ v.waived = u.waived
      BY DEF Guarded, Uis
    <2>. HIDE DEF v
    <2>3. s[1] = m /\ s[2] = v
      BY <2>1
    <2>4. Guarded(m, v)
      BY <2>2 DEF Guarded, MayGo
    <2>. QED  BY <2>3, <2>4 DEF Leads
  <1>. QED  BY <1>1, <1>2

LEMMA ActionPerformed ==
  ASSUME NEW m, NEW u, Guarded(m, u), u.dialog # "saveAs", MayGo(m, u),
         NEW a \in Deferred, u.prompt => a.op = "quit",
         NEW s \in Perform(a, m, u)
  PROVE  Leads(m, u, s)
  <1>1. m \in Projects /\ Sound(m) /\ m.ini.recent = m.recent /\ u \in Uis
    BY DEF Guarded, Sound
  <1>2. CASE a.op \in {"new", "open"}
    <2>. DEFINE v == [u EXCEPT !.dialog = a.op]
    <2>1. s = <<m, v>>
      BY <1>2 DEF Perform
    <2>2. /\ v \in Uis /\ v.prompt = u.prompt /\ v.dialog \in {"new", "open"}
          /\ v.waived = u.waived
      BY <1>1, <1>2 DEF Uis
    <2>. HIDE DEF v
    <2>3. s[1] = m /\ s[2] = v
      BY <2>1
    <2>4. Guarded(m, v)
      BY <2>2 DEF Guarded, MayGo
    <2>. QED  BY <2>3, <2>4 DEF Leads
  <1>3. CASE a.op = "recent"
    <2>1. PICK kept \in BOOLEAN : s = <<OpenRecent(m, a.index, kept), u>>
      BY <1>3 DEF Perform
    <2>. DEFINE r == OpenRecent(m, a.index, kept)
    <2>2. ~u.prompt
      BY <1>3
    <2>3. /\ Sound(r) /\ r.disk = m.disk /\ r.ini.recent = r.recent
          /\ r = m \/ (r.active \in Paths /\ WorkInFile(r))
      <3>1. CASE a.index \in DOMAIN m.recent
        <4>1. m.recent[a.index] \in Paths
          BY <1>1, <3>1 DEF Projects, RecentLists
        <4>2. r = OpenProject(m, m.recent[a.index], kept)
          BY <3>1 DEF OpenRecent
        <4>. QED  BY <1>1, <4>1, <4>2, ProjectOpened
      <3>2. CASE a.index \notin DOMAIN m.recent
        BY <1>1, <3>2 DEF OpenRecent
      <3>. QED  BY <3>1, <3>2
    <2>4. s[1] = r /\ s[2] = u
      BY <2>1
    <2>. HIDE DEF r
    <2>5. MayGo(r, u)
      BY <2>3 DEF MayGo
    <2>6. Guarded(r, u)
      BY <1>1, <2>2, <2>3, <2>5 DEF Guarded
    <2>. QED  BY <2>3, <2>4, <2>6 DEF Leads, MayGo
  <1>4. CASE a.op = "close"
    <2>1. PICK kept \in BOOLEAN : s = <<CloseProject(m, kept), u>>
      BY <1>4 DEF Perform
    <2>. DEFINE r == CloseProject(m, kept)
    <2>2. ~u.prompt
      BY <1>4
    <2>3. Sound(r) /\ SameStore(m, r) /\ r.active = None
      BY <1>1, ProjectClosed
    <2>4. s[1] = r /\ s[2] = u
      BY <2>1
    <2>. HIDE DEF r
    <2>5. Guarded(r, u)
      BY <1>1, <2>2, <2>3 DEF Guarded, MayGo, SameStore
    <2>. QED  BY <2>3, <2>4, <2>5 DEF Leads, MayGo, SameStore
  <1>5. CASE a.op = "quit"
    <2>1. s \in RunServerStudioGuarded("quit", m, u)
      BY <1>5 DEF Perform
    <2>. QED  BY <2>1, StudioGuarded
  <1>6. CASE a.op = "update"
    <2>1. s \in RunServerStudioGuarded("install", m, u)
      BY <1>6 DEF Perform
    <2>. QED  BY <2>1, StudioGuarded
  <1>7. CASE a.op = "none"
    <2>1. s = <<m, u>>
      BY <1>7 DEF Perform
    <2>. QED  BY <2>1 DEF Leads
  <1>. QED  BY <1>2, <1>3, <1>4, <1>5, <1>6, <1>7 DEF Deferred

LEMMA RequestGuarded ==
  ASSUME NEW m, NEW u, Guarded(m, u), u.dialog # "saveAs",
         NEW a \in Deferred, u.prompt => a.op = "quit",
         NEW s \in RunGuarded(a, m, u)
  PROVE  Leads(m, u, s)
  <1>1. CASE ~m.dirty
    <2>1. s \in Perform(a, m, u)
      BY <1>1 DEF RunGuarded
    <2>2. MayGo(m, u)
      BY <1>1, SavedMayGo DEF Guarded
    <2>. QED  BY <2>1, <2>2, ActionPerformed
  <1>2. CASE m.dirty
    <2>. DEFINE v == [u EXCEPT !.prompt = TRUE, !.pending = a]
    <2>1. s = <<m, v>>
      BY <1>2 DEF RunGuarded
    <2>2. /\ v \in Uis /\ v.dialog = u.dialog /\ v.waived = u.waived
      BY DEF Guarded, Uis
    <2>. HIDE DEF v
    <2>3. s[1] = m /\ s[2] = v
      BY <2>1
    <2>4. m.active # None
      BY <1>2 DEF Guarded, Sound
    <2>5. Guarded(m, v)
      BY <2>2, <2>4 DEF Guarded, MayGo
    <2>. QED  BY <2>3, <2>5 DEF Leads
  <1>. QED  BY <1>1, <1>2

-----------------------------------------------------------------------------
(* Each step keeps the invariant, gives up no work unasked and keeps other files.   *)

StepKeeps == LosesNoWork /\ KeepsOtherFiles

LEMMA Led ==
  ASSUME running, running', edits \in Nat, UNCHANGED edits,
         NEW u, NEW s, Leads(pm, u, s), pm' = s[1], ui' = s[2]
  PROVE  ShellInv' /\ StepKeeps
  <1>1. Guarded(pm', ui') /\ pm'.disk = pm.disk
    BY DEF Leads
  <1>2. ShellInv'
    BY <1>1 DEF ShellInv
  <1>3. pm.active # None /\ pm'.live.work # pm.live.work => ui'.waived \/ WorkInFile(pm)
    BY DEF Leads
  <1>4. LosesNoWork
    BY <1>1, <1>3 DEF LosesNoWork, WorkInFile, FileOf
  <1>5. KeepsOtherFiles
    BY <1>1 DEF KeepsOtherFiles
  <1>. QED  BY <1>2, <1>4, <1>5 DEF StepKeeps

LEMMA Stays ==
  ASSUME running', edits' \in Nat, Guarded(pm', ui'),
         pm'.disk = pm.disk, pm'.live.work = pm.live.work \/ Edit
  PROVE  ShellInv' /\ StepKeeps
  <1>1. ShellInv'
    BY DEF ShellInv
  <1>2. LosesNoWork
    BY DEF LosesNoWork
  <1>3. KeepsOtherFiles
    BY DEF KeepsOtherFiles
  <1>. QED  BY <1>1, <1>2, <1>3 DEF StepKeeps

(* The open project is written to its own file or to the one it moves to.          *)
LEMMA WroteOwnFile ==
  ASSUME NEW path \in Paths, pm.active # None, path \in {pm.active, pm'.active},
         pm \in Projects, pm'.disk = [pm.disk EXCEPT ![KeyOf[path]] = ToJson(pm.live)]
  PROVE  KeepsOtherFiles
  <1>1. path # None /\ pm.disk \in [Keys -> FileContents]
    BY PathsAssumption DEF PathsAssumption, Projects
  <1>2. ASSUME NEW k \in Keys, pm'.disk[k] # pm.disk[k]
        PROVE  KeyOf[path] = k /\ pm'.disk[k] = ToJson(pm.live)
    BY <1>1, <1>2
  <1>3. path \in {pm.active, pm'.active} \ {None}
    BY <1>1
  <1>. QED  BY <1>2, <1>3 DEF KeepsOtherFiles

(* An open prompt or dialog belongs to a running program.                        *)
LEMMA Asking ==
  ASSUME ShellInv, ui.prompt \/ ui.studioPrompt \/ ui.dialog # "none"
  PROVE  running /\ Guarded(pm, ui) /\ edits \in Nat
BY DEF ShellInv, InitUi

LEMMA FreeIs ==
  ASSUME ShellInv, Free
  PROVE  /\ running /\ Guarded(pm, ui) /\ edits \in Nat
         /\ ~ui.prompt /\ ~ui.studioPrompt /\ ~ui.quitting /\ ui.dialog = "none"
BY DEF ShellInv, Free, Modal

LEMMA RequestKeeps ==
  ASSUME ShellInv, NEW a \in Deferred, Request(a)
  PROVE  ShellInv' /\ StepKeeps
  <1>. DEFINE u == [ui EXCEPT !.waived = FALSE]
  <1>1. /\ running /\ Guarded(pm, ui) /\ edits \in Nat
        /\ ~ui.prompt /\ ~ui.quitting /\ ui.dialog = "none"
    BY FreeIs DEF Request
  <1>2. /\ Becomes(RunGuarded(a, pm, u)) /\ UNCHANGED <<process, edits>>
    BY DEF Request
  <1>3. u \in Uis /\ ~u.prompt /\ u.dialog = "none"
    BY <1>1 DEF Guarded, Uis
  <1>. HIDE DEF u
  <1>4. PICK s \in RunGuarded(a, pm, u) : pm' = s[1] /\ ui' = s[2]
    BY <1>2 DEF Becomes
  <1>5. Guarded(pm, u)
    BY <1>1, <1>3 DEF Guarded
  <1>6. Leads(pm, u, s)
    BY <1>3, <1>5, RequestGuarded
  <1>7. running'
    BY <1>1, <1>2 DEF running
  <1>. QED  BY <1>1, <1>2, <1>4, <1>6, <1>7, Led

LEMMA RequestsKeep ==
  ASSUME ShellInv, RequestMenu \/ RequestRecent
  PROVE  ShellInv' /\ StepKeeps
  <1>1. CASE RequestMenu
    <2>1. PICK a \in Requests : Request(a)
      BY <1>1 DEF RequestMenu
    <2>2. a \in Deferred
      BY DEF Requests, Act, Deferred
    <2>. QED  BY <2>1, <2>2, RequestKeeps
  <1>2. CASE RequestRecent
    <2>1. PICK i \in DOMAIN pm.recent : Request([op |-> "recent", index |-> i])
      BY <1>2 DEF RequestRecent
    <2>2. pm.recent \in Seq(Paths)
      BY DEF ShellInv, Guarded, Sound, Projects, RecentLists
    <2>3. [op |-> "recent", index |-> i] \in Deferred
      BY <2>1, <2>2 DEF Deferred
    <2>. QED  BY <2>1, <2>3, RequestKeeps
  <1>. QED  BY <1>1, <1>2

LEMMA AnsweredTyped ==
  ASSUME Guarded(pm, ui)
  PROVE  /\ Answered \in Uis /\ ~Answered.prompt /\ Answered.dialog = ui.dialog
         /\ Answered.waived = ui.waived /\ Answered.quitting = ui.quitting
         /\ Answered.studioPrompt = ui.studioPrompt
  <1>1. ui \in Uis /\ NoAction \in Deferred
    BY DEF Guarded, NoAction, Deferred
  <1>. QED  BY <1>1 DEF Answered, Uis

LEMMA PromptSaveKeeps ==
  ASSUME ShellInv, PromptSave
  PROVE  ShellInv' /\ StepKeeps
  <1>1. running /\ Guarded(pm, ui) /\ edits \in Nat /\ ui.prompt
    BY Asking DEF PromptSave
  <1>2. UNCHANGED <<process, edits>> /\ running'
    BY <1>1 DEF PromptSave, running
  <1>3. pm \in Projects /\ pm.active \in Paths /\ pm.active # None /\ ui.pending \in Deferred
    BY <1>1 DEF Guarded, Sound, Projects, Uis
  <1>4. ui.dialog # "saveAs"
    BY <1>1 DEF Guarded
  <1>. DEFINE saved == WriteActiveProjectTo(pm, pm.active)
  <1>5. CASE Becomes(Perform(ui.pending, saved, Answered))
    <2>1. PICK s \in Perform(ui.pending, saved, Answered) : pm' = s[1] /\ ui' = s[2]
      BY <1>5 DEF Becomes
    <2>2. /\ Sound(saved) /\ saved.ini.recent = saved.recent
          /\ saved.active = pm.active /\ saved.live = pm.live
          /\ saved.disk = [pm.disk EXCEPT ![KeyOf[pm.active]] = ToJson(pm.live)]
          /\ saved.disk[KeyOf[pm.active]] = ToJson(pm.live)
      BY <1>3, ProjectWritten
    <2>. HIDE DEF saved
    <2>3. ToJson(pm.live).kind = "project" /\ ToJson(pm.live).data = pm.live
      BY <1>3, FileIsWritten DEF Projects
    <2>4. WorkInFile(saved)
      BY <2>2, <2>3 DEF WorkInFile, FileOf
    <2>5. Guarded(saved, Answered)
      BY <1>1, <1>4, <2>2, <2>4, AnsweredTyped DEF Guarded, MayGo
    <2>6. Leads(saved, Answered, s)
      <3>1. /\ Answered.dialog # "saveAs" /\ MayGo(saved, Answered)
            /\ Answered.prompt => ui.pending.op = "quit"
        BY <1>1, <1>4, <2>4, AnsweredTyped DEF MayGo
      <3>. QED  BY <1>3, <2>5, <3>1, ActionPerformed
    <2>7. Guarded(pm', ui') /\ pm'.disk = saved.disk
      BY <2>1, <2>6 DEF Leads
    <2>8. ShellInv'
      BY <1>1, <1>2, <2>7 DEF ShellInv
    <2>9. LosesNoWork
      BY <2>2, <2>3, <2>7 DEF LosesNoWork
    <2>10. KeepsOtherFiles
      BY <1>3, <2>2, <2>7, WroteOwnFile
    <2>. QED  BY <2>8, <2>9, <2>10 DEF StepKeeps
  <1>6. CASE pm' = pm /\ ui' = Answered
    <2>1. Guarded(pm, Answered)
      BY <1>1, <1>4, AnsweredTyped DEF Guarded, MayGo
    <2>. QED  BY <1>1, <1>2, <1>6, <2>1, Stays
  <1>7. PICK written \in BOOLEAN :
          LET result == IF written THEN saved ELSE pm
          IN Becomes(IF SaveSucceeds(written) THEN Perform(ui.pending, result, Answered)
                     ELSE {<<result, Answered>>})
    BY DEF PromptSave
  <1>. HIDE DEF saved
  <1>8. CASE written
    BY <1>5, <1>7, <1>8 DEF SaveSucceeds
  <1>9. CASE ~written
    <2>1. Becomes({<<pm, Answered>>})
      BY <1>7, <1>9 DEF SaveSucceeds
    <2>2. pm' = pm /\ ui' = Answered
      BY <2>1 DEF Becomes
    <2>. QED  BY <1>6, <2>2
  <1>. QED  BY <1>8, <1>9

LEMMA PromptLeft ==
  ASSUME ShellInv, PromptDiscard \/ PromptCancel
  PROVE  ShellInv' /\ StepKeeps
  <1>1. running /\ Guarded(pm, ui) /\ edits \in Nat /\ ui.prompt
    BY Asking DEF PromptDiscard, PromptCancel
  <1>2. UNCHANGED <<process, edits>> /\ running'
    BY <1>1 DEF PromptDiscard, PromptCancel, running
  <1>3. ui.dialog # "saveAs" /\ ui.pending \in Deferred
    BY <1>1 DEF Guarded, Uis
  <1>4. CASE PromptDiscard
    <2>. DEFINE u == [Answered EXCEPT !.waived = TRUE]
    <2>1. Becomes(Perform(ui.pending, pm, u))
      BY <1>4 DEF PromptDiscard
    <2>2. u \in Uis /\ ~u.prompt /\ u.dialog = ui.dialog /\ u.waived
      BY <1>1, AnsweredTyped DEF Uis
    <2>. HIDE DEF u
    <2>3. PICK s \in Perform(ui.pending, pm, u) : pm' = s[1] /\ ui' = s[2]
      BY <2>1 DEF Becomes
    <2>4. Guarded(pm, u) /\ MayGo(pm, u)
      BY <1>1, <1>3, <2>2 DEF Guarded, MayGo
    <2>5. Leads(pm, u, s)
      <3>1. u.dialog # "saveAs" /\ (u.prompt => ui.pending.op = "quit")
        BY <1>3, <2>2
      <3>. QED  BY <1>3, <2>4, <3>1, ActionPerformed
    <2>. QED  BY <1>1, <1>2, <2>3, <2>5, Led
  <1>5. CASE PromptCancel
    <2>1. pm' = pm /\ ui' = Answered
      BY <1>5 DEF PromptCancel
    <2>2. Guarded(pm, Answered)
      BY <1>1, <1>3, AnsweredTyped DEF Guarded, MayGo
    <2>. QED  BY <1>1, <1>2, <2>1, <2>2, Stays
  <1>. QED  BY <1>4, <1>5

LEMMA StudioPromptKeeps ==
  ASSUME ShellInv, StudioPromptSave \/ StudioPromptDiscard \/ StudioPromptCancel
  PROVE  ShellInv' /\ StepKeeps
  <1>1. running /\ Guarded(pm, ui) /\ edits \in Nat /\ ui.studioPrompt
    BY Asking DEF StudioPromptSave, StudioPromptDiscard, StudioPromptCancel
  <1>2. UNCHANGED <<process, edits>> /\ running'
    BY <1>1 DEF StudioPromptSave, StudioPromptDiscard, StudioPromptCancel, running
  <1>3. ui.dialog # "saveAs" /\ ui \in Uis
    BY <1>1 DEF Guarded
  <1>. DEFINE Answers(u) == /\ u \in Uis /\ u.prompt = ui.prompt /\ u.dialog = ui.dialog
                            /\ u.waived = ui.waived
              v == StudioAnswered
              w == [StudioAnswered EXCEPT !.studioDirty = FALSE]
  <1>4. Answers(v) /\ Answers(w)
    BY <1>3 DEF StudioAnswered, Uis
  <1>5. ASSUME NEW u, Answers(u)  PROVE Guarded(pm, u) /\ u.dialog # "saveAs"
    BY <1>1, <1>3, <1>5 DEF Guarded, MayGo
  <1>6. ASSUME NEW u, Answers(u), Becomes(PerformStudio(ui.studioPending, pm, u))
        PROVE  ShellInv' /\ StepKeeps
    <2>1. PICK s \in PerformStudio(ui.studioPending, pm, u) : pm' = s[1] /\ ui' = s[2]
      BY <1>6 DEF Becomes
    <2>2. Leads(pm, u, s)
      BY <1>5, <1>6, StudioPerformed
    <2>. QED  BY <1>1, <1>2, <2>1, <2>2, Led
  <1>7. ASSUME pm' = pm, ui' = v  PROVE ShellInv' /\ StepKeeps
    BY <1>1, <1>2, <1>4, <1>5, <1>7, Stays
  <1>. HIDE DEF Answers, v, w
  <1>8. CASE StudioPromptSave
    <2>1. PICK written \in BOOLEAN :
            Becomes(IF written THEN PerformStudio(ui.studioPending, pm, w) ELSE {<<pm, v>>})
      BY <1>8 DEF StudioPromptSave, v, w
    <2>2. CASE written
      BY <1>4, <1>6, <2>1, <2>2
    <2>3. CASE ~written
      <3>1. pm' = pm /\ ui' = v
        BY <2>1, <2>3 DEF Becomes
      <3>. QED  BY <1>7, <3>1
    <2>. QED  BY <2>2, <2>3
  <1>9. CASE StudioPromptDiscard
    <2>1. Becomes(PerformStudio(ui.studioPending, pm, v))
      BY <1>9 DEF StudioPromptDiscard, v
    <2>. QED  BY <1>4, <1>6, <2>1
  <1>10. CASE StudioPromptCancel
    BY <1>7, <1>10 DEF StudioPromptCancel, v
  <1>. QED  BY <1>8, <1>9, <1>10

LEMMA DialogClosedTyped ==
  ASSUME Guarded(pm, ui)
  PROVE  DialogClosed \in Uis /\ DialogClosed.prompt = ui.prompt /\ DialogClosed.dialog = "none"
  <1>1. ui \in Uis
    BY DEF Guarded
  <1>. QED  BY <1>1 DEF DialogClosed, Uis

LEMMA NewDialogKeeps ==
  ASSUME ShellInv, NewDialogAccepted
  PROVE  ShellInv' /\ StepKeeps
  <1>1. running /\ Guarded(pm, ui) /\ edits \in Nat /\ ~ui.prompt /\ ui.dialog = "new"
    BY Asking DEF NewDialogAccepted
  <1>2. UNCHANGED <<process, edits>> /\ running'
    BY <1>1 DEF NewDialogAccepted, running
  <1>3. MayGo(pm, ui) /\ pm \in Projects
    BY <1>1 DEF Guarded, Sound
  <1>4. CASE UNCHANGED <<pm, ui>>
    BY <1>1, <1>2, <1>4, Stays
  <1>5. ASSUME NEW path \in Picks, NEW kept \in BOOLEAN, NEW written,
               CanCreate(pm, path, written),
               pm' = CreateProject(pm, path, kept), ui' = DialogClosed
        PROVE  ShellInv' /\ StepKeeps
    <2>1. path \in Paths /\ path # None /\ KeyOf[path] \in Keys
      BY ShellAssumption, PathsAssumption, KeysOf DEF ShellAssumption, PathsAssumption
    <2>2. /\ Sound(pm') /\ pm'.ini.recent = pm'.recent /\ pm'.active = path
          /\ pm'.disk = [pm.disk EXCEPT ![KeyOf[path]] = ToJson(Empty)]
      BY <1>3, <1>5, <2>1, ProjectCreated
    <2>3. Guarded(pm', ui')
      BY <1>1, <1>5, <2>1, <2>2, DialogClosedTyped DEF Guarded
    <2>4. ShellInv'
      BY <1>1, <1>2, <2>3 DEF ShellInv
    <2>5. pm.disk \in [Keys -> FileContents] /\ pm.disk[KeyOf[path]] = NoFile
      BY <1>3, <1>5 DEF CanCreate, Exists, Projects
    <2>6. \A k \in Keys : pm'.disk[k] # pm.disk[k] => pm.disk[k] = NoFile
      BY <2>2, <2>5
    <2>7. KeepsOtherFiles
      BY <2>6 DEF KeepsOtherFiles
    <2>8. ASSUME pm.active # None, WorkInFile(pm)
          PROVE  pm'.disk[KeyOf[pm.active]] = FileOf(pm)
      <3>1. KeyOf[pm.active] \in Keys
        BY <1>3, <2>8, KeysOf DEF Projects
      <3>2. FileOf(pm) # NoFile
        BY <2>8 DEF WorkInFile, NoFile
      <3>. QED  BY <2>6, <3>1, <3>2 DEF FileOf
    <2>9. LosesNoWork
      BY <1>3, <2>8 DEF LosesNoWork, MayGo, WorkInFile
    <2>. QED  BY <2>4, <2>7, <2>9 DEF StepKeeps
  <1>. QED  BY <1>4, <1>5 DEF NewDialogAccepted

LEMMA OpenDialogKeeps ==
  ASSUME ShellInv, OpenDialogAccepted
  PROVE  ShellInv' /\ StepKeeps
  <1>1. running /\ Guarded(pm, ui) /\ edits \in Nat /\ ui.dialog = "open"
    BY Asking DEF OpenDialogAccepted
  <1>2. UNCHANGED <<process, edits>> /\ running' /\ ui' = DialogClosed
    BY <1>1 DEF OpenDialogAccepted, running
  <1>3. MayGo(pm, ui) /\ Sound(pm) /\ pm.ini.recent = pm.recent
    BY <1>1 DEF Guarded
  <1>4. PICK path \in Picks, kept \in BOOLEAN : pm' = OpenProject(pm, path, kept)
    BY DEF OpenDialogAccepted
  <1>5. path \in Paths /\ path # None
    BY ShellAssumption, PathsAssumption DEF ShellAssumption, PathsAssumption
  <1>6. /\ Sound(pm') /\ pm'.disk = pm.disk /\ pm'.ini.recent = pm'.recent
        /\ pm' = pm \/ pm'.active = path
    BY <1>3, <1>4, <1>5, ProjectOpened
  <1>7. Guarded(pm', ui')
    BY <1>1, <1>2, <1>5, <1>6, DialogClosedTyped DEF Guarded
  <1>8. ShellInv'
    BY <1>1, <1>2, <1>7 DEF ShellInv
  <1>9. LosesNoWork
    BY <1>3, <1>6 DEF LosesNoWork, MayGo, WorkInFile, FileOf
  <1>10. KeepsOtherFiles
    BY <1>6 DEF KeepsOtherFiles
  <1>. QED  BY <1>8, <1>9, <1>10 DEF StepKeeps

LEMMA Wrote ==
  ASSUME running, running', edits \in Nat, UNCHANGED edits, Guarded(pm, ui), pm.active # None,
         NEW path \in Paths, pm' = WriteActiveProjectTo(pm, path), Guarded(pm', ui')
  PROVE  ShellInv' /\ StepKeeps
  <1>1. pm \in Projects
    BY DEF Guarded, Sound
  <1>2. /\ pm'.active = path /\ pm'.live = pm.live
        /\ pm'.disk = [pm.disk EXCEPT ![KeyOf[path]] = ToJson(pm.live)]
    BY <1>1, ProjectWritten
  <1>3. ShellInv'
    BY DEF ShellInv
  <1>4. LosesNoWork
    BY <1>2 DEF LosesNoWork
  <1>5. KeepsOtherFiles
    BY <1>1, <1>2, WroteOwnFile
  <1>. QED  BY <1>3, <1>4, <1>5 DEF StepKeeps

LEMMA SaveAsKeeps ==
  ASSUME ShellInv, SaveAsRequested \/ SaveAsAccepted \/ SaveProject
  PROVE  ShellInv' /\ StepKeeps
  <1>1. running /\ Guarded(pm, ui) /\ edits \in Nat
    BY Asking, FreeIs DEF SaveAsRequested, SaveAsAccepted, SaveProject
  <1>2. UNCHANGED <<process, edits>> /\ running'
    BY <1>1 DEF SaveAsRequested, SaveAsAccepted, SaveProject, Works, running
  <1>3. pm \in Projects /\ ui \in Uis
    BY <1>1 DEF Guarded, Sound
  <1>4. CASE SaveAsRequested
    <2>1. /\ ~ui.prompt /\ ~ui.studioPrompt /\ ~ui.quitting
          /\ pm.active # None /\ pm' = pm /\ ui' = [ui EXCEPT !.dialog = "saveAs"]
      BY <1>4, FreeIs DEF SaveAsRequested
    <2>2. /\ ui' \in Uis /\ ui'.prompt = ui.prompt /\ ui'.studioPrompt = ui.studioPrompt
          /\ ui'.quitting = ui.quitting /\ ui'.dialog = "saveAs"
      BY <1>3, <2>1 DEF Uis
    <2>3. Guarded(pm', ui')
      BY <1>1, <2>1, <2>2 DEF Guarded
    <2>. QED  BY <1>1, <1>2, <2>1, <2>3, Stays
  <1>5. CASE SaveAsAccepted
    <2>1. PICK path \in Picks, written \in BOOLEAN :
            pm' = IF written THEN WriteActiveProjectTo(pm, path) ELSE pm
      BY <1>5 DEF SaveAsAccepted
    <2>2. ui' = DialogClosed /\ pm.active # None /\ ~ui.prompt
      BY <1>1, <1>5 DEF SaveAsAccepted, Guarded
    <2>3. path \in Paths
      BY ShellAssumption DEF ShellAssumption
    <2>4. CASE written
      <3>1. pm' = WriteActiveProjectTo(pm, path)
        BY <2>1, <2>4
      <3>2. Sound(pm') /\ pm'.ini.recent = pm'.recent
        BY <1>3, <2>3, <3>1, ProjectWritten
      <3>3. Guarded(pm', ui')
        BY <1>1, <2>2, <3>2, DialogClosedTyped DEF Guarded
      <3>. QED  BY <1>1, <1>2, <2>2, <2>3, <3>1, <3>3, Wrote
    <2>5. CASE ~written
      <3>1. Guarded(pm', ui') /\ pm' = pm
        BY <1>1, <2>1, <2>2, <2>5, DialogClosedTyped DEF Guarded
      <3>. QED  BY <1>1, <1>2, <3>1, Stays
    <2>. QED  BY <2>4, <2>5
  <1>6. CASE SaveProject
    <2>1. /\ ~ui.prompt /\ ui.dialog = "none" /\ pm.active # None
          /\ pm' = WriteActiveProjectTo(pm, pm.active) /\ ui' = ui
      BY <1>6, FreeIs DEF SaveProject, Works
    <2>2. pm.active \in Paths
      BY <1>3, <2>1 DEF Projects
    <2>3. Sound(pm') /\ pm'.ini.recent = pm'.recent
      BY <1>3, <2>1, <2>2, ProjectWritten
    <2>4. Guarded(pm', ui')
      BY <1>3, <2>1, <2>3 DEF Guarded
    <2>. QED  BY <1>1, <1>2, <2>1, <2>2, <2>4, Wrote
  <1>. QED  BY <1>4, <1>5, <1>6

LEMMA DialogCancelledKeeps ==
  ASSUME ShellInv, DialogCancelled
  PROVE  ShellInv' /\ StepKeeps
  <1>1. running /\ Guarded(pm, ui) /\ edits \in Nat
    BY Asking DEF DialogCancelled
  <1>2. UNCHANGED <<process, edits>> /\ running' /\ pm' = pm /\ ui' = DialogClosed
    BY <1>1 DEF DialogCancelled, running
  <1>3. Guarded(pm', ui')
    BY <1>1, <1>2, DialogClosedTyped DEF Guarded
  <1>. QED  BY <1>1, <1>2, <1>3, Stays

(* A change of the project that leaves the files, the list and the open path alone.  *)
LEMMA GuardedStays ==
  ASSUME NEW m, NEW u, Guarded(m, u), NEW s, Sound(s), SameStore(m, s), s.active = m.active,
         s.live.work = m.live.work \/ u.dialog \notin {"new", "open"}
  PROVE  Guarded(s, u)
BY DEF Guarded, SameStore, MayGo, WorkInFile, FileOf

LEMMA WorkKeeps ==
  ASSUME ShellInv, RemoveFromLauncher \/ Edit \/ Connect \/ StudioEdit
  PROVE  ShellInv' /\ StepKeeps
  <1>1. /\ running /\ Guarded(pm, ui) /\ edits \in Nat
        /\ ~ui.prompt /\ ui.dialog = "none"
    BY FreeIs DEF RemoveFromLauncher, Edit, Connect, StudioEdit
  <1>2. UNCHANGED process /\ running'
    BY <1>1 DEF RemoveFromLauncher, Edit, Connect, StudioEdit, Works, running
  <1>3. Sound(pm) /\ pm \in Projects /\ pm.live \in ProjectData /\ ui \in Uis
    BY <1>1 DEF Guarded, Sound, Projects
  <1>4. CASE RemoveFromLauncher
    <2>1. PICK i \in DOMAIN pm.recent : pm' = RemoveRecent(pm, i)
      BY <1>4 DEF RemoveFromLauncher, Works
    <2>2. pm.active = None /\ ui' = ui /\ edits' = edits
      BY <1>4 DEF RemoveFromLauncher, Works
    <2>3. RemoveAt(pm.recent, i) \in RecentLists
      BY <1>3, OneRemoved DEF Projects
    <2>4. pm' = SaveRecentProjects(pm, RemoveAt(pm.recent, i))
      BY <2>1 DEF RemoveRecent
    <2>5. /\ pm' \in Projects /\ pm'.ini.recent = pm'.recent /\ pm'.disk = pm.disk
          /\ pm'.live = pm.live /\ pm'.active = pm.active /\ pm'.dirty = pm.dirty
      BY <1>3, <2>3, <2>4, ListSaved
    <2>6. Sound(pm')
      BY <1>3, <2>2, <2>5 DEF Sound
    <2>7. Guarded(pm', ui')
      BY <1>1, <1>3, <2>2, <2>5, <2>6 DEF Guarded
    <2>. QED  BY <1>1, <1>2, <2>2, <2>5, <2>7, Stays
  <1>5. CASE Edit
    <2>. DEFINE data == [pm.live EXCEPT !.work = edits + 2]
    <2>1. data \in ProjectData
      BY <1>1, <1>3 DEF ProjectData
    <2>2. pm' = ProjectStateChanged(pm, data) /\ ui' = ui /\ edits' = edits + 1
      BY <1>5 DEF Edit, EditWork
    <2>. HIDE DEF data
    <2>3. Sound(pm') /\ SameStore(pm, pm') /\ pm'.active = pm.active
      BY <1>3, <2>1, <2>2, ProjectChanged
    <2>4. Guarded(pm', ui')
      BY <1>1, <2>2, <2>3, GuardedStays
    <2>5. pm'.disk = pm.disk /\ edits' \in Nat
      BY <1>1, <2>2, <2>3 DEF SameStore
    <2>. QED  BY <1>2, <1>5, <2>4, <2>5, Stays
  <1>6. CASE Connect
    <2>1. PICK server \in Servers : pm' = [pm EXCEPT !.session = Connecting(server)]
      BY <1>6 DEF Connect, Works
    <2>2. ui' = ui /\ edits' = edits
      BY <1>6 DEF Connect, Works
    <2>3. Connecting(server) \in Sessions
      BY DEF Connecting, Sessions
    <2>4. Sound(pm') /\ SameStore(pm, pm') /\ pm'.active = pm.active /\ pm'.live = pm.live
      BY <1>3, <2>1, <2>3, SessionChanged
    <2>5. Guarded(pm', ui')
      BY <1>1, <2>2, <2>4, GuardedStays
    <2>. QED  BY <1>1, <1>2, <2>2, <2>4, <2>5, Stays DEF SameStore
  <1>7. CASE StudioEdit
    <2>1. pm' = pm /\ edits' = edits /\ ui' = [ui EXCEPT !.studioDirty = TRUE]
      BY <1>7 DEF StudioEdit
    <2>2. ui' \in Uis /\ ui'.prompt = ui.prompt /\ ui'.dialog = ui.dialog
      BY <1>3, <2>1 DEF Uis
    <2>3. Guarded(pm', ui')
      BY <1>1, <2>1, <2>2 DEF Guarded
    <2>. QED  BY <1>1, <1>2, <2>1, <2>3, Stays
  <1>. QED  BY <1>4, <1>5, <1>6, <1>7

LEMMA BehindTheUser ==
  ASSUME ShellInv, Session \/ SampleLayout
  PROVE  ShellInv' /\ StepKeeps
  <1>1. running /\ Guarded(pm, ui) /\ edits \in Nat
    BY DEF Session, SampleLayout, ShellInv
  <1>2. running' /\ ui' = ui /\ edits' \in Nat
    BY <1>1 DEF Session, SampleLayout, Works, running
  <1>3. Sound(pm)
    BY <1>1 DEF Guarded
  <1>4. CASE Session
    <2>1. pm' = SessionStarts(pm) \/ pm' = [pm EXCEPT !.session = Off]
      BY <1>4 DEF Session, Works
    <2>2. Off \in Sessions
      BY DEF Off, Sessions
    <2>3. /\ Sound(pm') /\ SameStore(pm, pm') /\ pm'.active = pm.active
          /\ pm'.live.work = pm.live.work
      <3>1. CASE pm' = SessionStarts(pm)
        BY <1>3, <3>1, SessionStarted
      <3>2. CASE pm' = [pm EXCEPT !.session = Off]
        BY <1>3, <2>2, <3>2, SessionChanged
      <3>. QED  BY <2>1, <3>1, <3>2
    <2>4. Guarded(pm', ui')
      BY <1>1, <1>2, <2>3, GuardedStays
    <2>. QED  BY <1>2, <2>3, <2>4, Stays DEF SameStore
  <1>5. CASE SampleLayout
    <2>1. PICK layout \in Layouts : pm' = SetDataViewState(pm, layout)
      BY <1>5 DEF SampleLayout
    <2>2. /\ Sound(pm') /\ SameStore(pm, pm') /\ pm'.active = pm.active
          /\ pm'.live.work = pm.live.work
      BY <1>3, <2>1, LayoutPushed
    <2>3. Guarded(pm', ui')
      BY <1>1, <1>2, <2>2, GuardedStays
    <2>. QED  BY <1>2, <2>2, <2>3, Stays DEF SameStore
  <1>. QED  BY <1>4, <1>5

(* Another program takes or breaks a file that is not the open project's.          *)
LEMMA OutsideKeeps ==
  ASSUME ShellInv, OutsideChange
  PROVE  ShellInv' /\ StepKeeps
  <1>1. PICK k \in Keys, file \in {NoFile, Broken} :
          /\ running /\ pm.active # None => KeyOf[pm.active] # k
          /\ pm' = [pm EXCEPT !.disk[k] = file]
    BY DEF OutsideChange
  <1>2. ui' = ui /\ edits' \in Nat /\ process' = process
    BY DEF OutsideChange, ShellInv
  <1>3. Sound(pm) /\ pm \in Projects
    BY DEF ShellInv, Guarded, Sound
  <1>4. running \/ pm.active = None
    BY DEF ShellInv
  <1>. DEFINE disk == [pm.disk EXCEPT ![k] = file]
  <1>5. pm' = [pm EXCEPT !.disk = disk]
    BY <1>1
  <1>6. /\ disk \in [Keys -> FileContents]
        /\ \A j \in Keys : disk[j] = pm.disk[j] \/ disk[j] \in {NoFile, Broken}
        /\ pm.active # None => disk[KeyOf[pm.active]] = pm.disk[KeyOf[pm.active]]
    <2>1. pm.disk \in [Keys -> FileContents] /\ file \in FileContents
      BY <1>3 DEF Projects, FileContents
    <2>. QED  BY <1>1, <1>4, <2>1
  <1>. HIDE DEF disk
  <1>7. /\ pm' \in Projects /\ pm'.disk = disk /\ pm'.live = pm.live /\ pm'.active = pm.active
        /\ pm'.dirty = pm.dirty /\ pm'.recent = pm.recent /\ pm'.ini = pm.ini
    BY <1>3, <1>5, <1>6 DEF Projects
  <1>8. pm.active # None => FileOf(pm') = FileOf(pm)
    BY <1>6, <1>7 DEF FileOf
  <1>9. Sound(pm')
    BY <1>3, <1>7, <1>8 DEF Sound, InFile
  <1>10. ASSUME running  PROVE ShellInv'
    <2>1. Guarded(pm, ui)
      BY <1>10 DEF ShellInv
    <2>2. MayGo(pm, ui) => MayGo(pm', ui)
      BY <1>7, <1>8 DEF MayGo, WorkInFile
    <2>3. Guarded(pm', ui')
      BY <1>2, <1>7, <1>9, <2>1, <2>2 DEF Guarded
    <2>4. running'
      BY <1>2, <1>10 DEF running
    <2>. QED  BY <1>2, <2>3, <2>4 DEF ShellInv
  <1>11. ASSUME ~running  PROVE ShellInv'
    <2>1. ~running' /\ pm'.active = None /\ ui' = InitUi
      BY <1>2, <1>7, <1>11 DEF ShellInv, running
    <2>. QED  BY <1>2, <1>9, <2>1 DEF ShellInv, InitUi
  <1>12. LosesNoWork
    BY <1>7 DEF LosesNoWork
  <1>13. KeepsOtherFiles
    BY <1>6, <1>7 DEF KeepsOtherFiles
  <1>. QED  BY <1>10, <1>11, <1>12, <1>13 DEF StepKeeps

LEMMA EndKeeps ==
  ASSUME ShellInv, running, process' # "running", UNCHANGED edits, ui' = InitUi,
         Sound(pm'), pm'.active = None, pm'.disk = pm.disk,
         process' = "crashed" \/ ~pm.dirty
  PROVE  ShellInv' /\ StepKeeps
  <1>1. ~running'
    BY DEF running
  <1>2. ShellInv'
    BY <1>1 DEF ShellInv, running, InitUi
  <1>3. ASSUME pm.active # None, ~pm.dirty
        PROVE  FileOf(pm).kind = "project" /\ FileOf(pm).data.work = pm.live.work
    <2>1. Sound(pm)
      BY DEF ShellInv, Guarded
    <2>2. Loadable(FileOf(pm)) /\ FromJson(FileOf(pm)) = pm.live
      BY <1>3, <2>1 DEF Sound, InFile
    <2>3. FileOf(pm) \in FileContents
      BY <1>3, <2>1, KeysOf DEF Sound, Projects, FileOf
    <2>. QED  BY <2>2, <2>3, FileIsRead
  <1>4. LosesNoWork
    BY <1>3 DEF LosesNoWork, FileOf
  <1>5. KeepsOtherFiles
    BY DEF KeepsOtherFiles
  <1>. QED  BY <1>2, <1>4, <1>5 DEF StepKeeps

LEMMA CloseKeeps ==
  ASSUME ShellInv, CloseWindow \/ QuitArrives
  PROVE  ShellInv' /\ StepKeeps
  <1>1. running /\ Guarded(pm, ui) /\ edits \in Nat
    BY DEF CloseWindow, QuitArrives, ShellInv
  <1>2. Closing /\ ui.dialog # "saveAs"
    BY <1>1 DEF CloseWindow, QuitArrives, Guarded
  <1>. DEFINE m == LayoutSaved(pm)
  <1>3. /\ Sound(m) /\ m.disk = pm.disk /\ m.live = pm.live /\ m.active = pm.active
        /\ m.dirty = pm.dirty /\ m.recent = pm.recent /\ m.ini.recent = pm.ini.recent
    BY <1>1, SettingsWritten DEF Guarded
  <1>4. CASE MayClose
    <2>1. process' = "ended" /\ pm' = Ended(pm) /\ ui' = InitUi /\ edits' = edits
      BY <1>2, <1>4 DEF Closing
    <2>2. pm' = [m EXCEPT !.live = Empty, !.active = None, !.dirty = FALSE, !.session = Off]
      BY <2>1 DEF Ended
    <2>. HIDE DEF m
    <2>3. Sound(pm') /\ pm'.active = None /\ pm'.disk = pm.disk
      BY <1>3, <2>2, NothingOpen
    <2>4. process' # "running" /\ ~pm.dirty
      BY <1>4, <2>1 DEF MayClose
    <2>. QED  BY <1>1, <2>1, <2>3, <2>4, EndKeeps
  <1>5. CASE ~MayClose
    <2>. DEFINE u == [ui EXCEPT !.quitting = FALSE,
                                !.waived = ui.waived /\ ui.dialog # "none"]
    <2>1. Becomes(RunGuarded(Act("quit"), m, u)) /\ UNCHANGED <<process, edits>>
      BY <1>2, <1>5 DEF Closing, Guarded, Uis
    <2>2. /\ u \in Uis /\ u.prompt = ui.prompt /\ u.dialog = ui.dialog
          /\ u.waived <=> ui.waived /\ ui.dialog # "none"
      BY <1>1 DEF Guarded, Uis
    <2>. HIDE DEF m, u
    <2>3. PICK s \in RunGuarded(Act("quit"), m, u) : pm' = s[1] /\ ui' = s[2]
      BY <2>1 DEF Becomes
    <2>4. ui.dialog \in {"new", "open"} => MayGo(m, u)
      BY <1>1, <1>3, <2>2 DEF Guarded, MayGo, WorkInFile, FileOf
    <2>5. Guarded(m, u)
      BY <1>1, <1>2, <1>3, <2>2, <2>4 DEF Guarded
    <2>6. Act("quit") \in Deferred /\ Act("quit").op = "quit"
      BY DEF Act, Deferred
    <2>7. Leads(m, u, s)
      BY <1>2, <2>2, <2>5, <2>6, RequestGuarded
    <2>8. Leads(pm, u, s)
      BY <1>3, <2>7 DEF Leads, WorkInFile, FileOf
    <2>9. running'
      BY <1>1, <2>1 DEF running
    <2>. QED  BY <1>1, <2>1, <2>3, <2>8, <2>9, Led
  <1>. QED  BY <1>4, <1>5

LEMMA CrashKeeps ==
  ASSUME ShellInv, Crash
  PROVE  ShellInv' /\ StepKeeps
  <1>1. running /\ process' = "crashed" /\ ui' = InitUi /\ edits' = edits
    BY DEF Crash
  <1>2. Sound(pm)
    BY DEF ShellInv, Guarded
  <1>3. pm' = [pm EXCEPT !.live = Empty, !.active = None, !.dirty = FALSE, !.session = Off]
    BY DEF Crash
  <1>4. Sound(pm') /\ pm'.active = None /\ pm'.disk = pm.disk
    BY <1>2, <1>3, NothingOpen
  <1>5. process' # "running"
    BY <1>1
  <1>. QED  BY <1>1, <1>4, <1>5, EndKeeps

LEMMA StartKeeps ==
  ASSUME ShellInv, Start
  PROVE  ShellInv' /\ StepKeeps
  <1>1. ~running /\ running' /\ ui' = ui /\ edits' = edits
    BY DEF Start, running
  <1>2. pm \in Projects /\ pm.active = None /\ ui = InitUi /\ edits \in Nat
    BY <1>1 DEF ShellInv, Sound
  <1>3. PICK copied \in BOOLEAN, written \in BOOLEAN :
          pm' = Started(pm.disk, pm.ini, Beside, copied, written)
    BY DEF Start
  <1>4. pm.disk \in [Keys -> FileContents] /\ pm.ini \in Settings
    BY <1>2 DEF Projects
  <1>5. /\ Sound(pm') /\ pm'.active = None /\ pm'.ini.recent = pm'.recent
        /\ \A k \in Keys : pm'.disk[k] = pm.disk[k] \/ pm.disk[k] = NoFile
    BY <1>3, <1>4, ProjectsAtStart
  <1>6. Guarded(pm', ui')
    <2>1. ~ui'.prompt /\ ui'.dialog = "none"
      BY <1>1, <1>2 DEF InitUi
    <2>2. ui' \in Uis
      BY <1>1, <1>2, InitUiTyped
    <2>. QED  BY <1>5, <2>1, <2>2 DEF Guarded
  <1>7. ShellInv'
    BY <1>1, <1>2, <1>6 DEF ShellInv
  <1>8. LosesNoWork
    BY <1>2 DEF LosesNoWork
  <1>9. KeepsOtherFiles
    BY <1>5 DEF KeepsOtherFiles
  <1>. QED  BY <1>7, <1>8, <1>9 DEF StepKeeps

LEMMA ShellInvInit ==
  ASSUME Init
  PROVE  ShellInv
  <1>1. PICK found \in Found :
          pm = [disk |-> found.disk, live |-> Empty, active |-> None, dirty |-> FALSE,
                recent |-> <<>>, ini |-> found.ini, session |-> Off]
    BY DEF Init
  <1>2. found.disk \in [Keys -> FileContents] /\ found.ini \in Settings
    BY ShellAssumption DEF ShellAssumption
  <1>3. <<>> \in RecentLists
    BY RecentAssumption DEF RecentAssumption, RecentLists
  <1>4. Off \in Sessions
    BY DEF Off, Sessions
  <1>5. pm \in Projects /\ pm.active = None /\ ~pm.dirty
    BY <1>1, <1>2, <1>3, <1>4, EmptyIsData DEF Projects
  <1>6. Sound(pm)
    BY <1>5 DEF Sound
  <1>7. ~running /\ ui = InitUi /\ edits \in Nat
    BY DEF Init, running
  <1>. QED  BY <1>5, <1>6, <1>7 DEF ShellInv

LEMMA ShellInvKept ==
  ASSUME ShellInv, [Next]_vars
  PROVE  ShellInv' /\ [StepKeeps]_vars
  <1>1. CASE UNCHANGED vars
    BY <1>1 DEF vars, ShellInv, running
  <1>2. CASE RequestMenu \/ RequestRecent
    BY <1>2, RequestsKeep
  <1>3. CASE PromptSave
    BY <1>3, PromptSaveKeeps
  <1>4. CASE PromptDiscard \/ PromptCancel
    BY <1>4, PromptLeft
  <1>5. CASE StudioPromptSave \/ StudioPromptDiscard \/ StudioPromptCancel
    BY <1>5, StudioPromptKeeps
  <1>6. CASE NewDialogAccepted
    BY <1>6, NewDialogKeeps
  <1>7. CASE OpenDialogAccepted
    BY <1>7, OpenDialogKeeps
  <1>8. CASE SaveAsRequested \/ SaveAsAccepted \/ SaveProject
    BY <1>8, SaveAsKeeps
  <1>9. CASE DialogCancelled
    BY <1>9, DialogCancelledKeeps
  <1>10. CASE RemoveFromLauncher \/ Edit \/ Connect \/ StudioEdit
    BY <1>10, WorkKeeps
  <1>11. CASE Session \/ SampleLayout
    BY <1>11, BehindTheUser
  <1>12. CASE OutsideChange
    BY <1>12, OutsideKeeps
  <1>13. CASE CloseWindow \/ QuitArrives
    BY <1>13, CloseKeeps
  <1>14. CASE Crash
    BY <1>14, CrashKeeps
  <1>15. CASE Start
    BY <1>15, StartKeeps
  <1>. QED
    BY <1>1, <1>2, <1>3, <1>4, <1>5, <1>6, <1>7, <1>8, <1>9, <1>10, <1>11, <1>12, <1>13,
       <1>14, <1>15 DEF Next

THEOREM ShellInvariant == Spec => []ShellInv
BY ShellInvInit, ShellInvKept, PTL DEF Spec

-----------------------------------------------------------------------------
(* The properties.                                                         *)

(* A project without the unsaved mark is what its file holds (Main.qml's guards and   *)
(* OpcUaManager's marking rest on it): sessions that start, layouts that are pushed,  *)
(* saves that fail and files that vanish included.                              *)
THEOREM SavedAlwaysInFile == Spec => []SavedMeansInFile
  <1>1. ShellInv => SavedMeansInFile
    BY DEF ShellInv, Guarded, Sound, InFile, FileOf, SavedMeansInFile
  <1>. QED  BY <1>1, ShellInvariant, PTL

(* The recent list names each file once, stays within its limit, agrees with the      *)
(* settings and has the open project at its head (addOrUpdateRecent()).            *)
THEOREM RecentsAlwaysInOrder == Spec => []RecentsInOrder
  <1>1. ASSUME ShellInv  PROVE RecentsInOrder
    <2>. DEFINE list == pm.recent
                keys == {KeyOf[p] : p \in ToSet(list)}
                key  == [i \in 1..Len(list) |-> KeyOf[list[i]]]
    <2>1. Sound(pm) /\ (running => pm.ini.recent = pm.recent)
      BY <1>1 DEF ShellInv, Guarded
    <2>2. /\ list \in Seq(Paths) /\ Len(list) <= MaxRecent /\ Len(list) \in Nat
          /\ DOMAIN list = 1..Len(list)
          /\ \A i, j \in DOMAIN list : KeyOf[list[i]] = KeyOf[list[j]] => i = j
      BY <2>1 DEF Sound, Projects, RecentLists
    <2>3. keys = {KeyOf[list[i]] : i \in 1..Len(list)}
      BY <2>2 DEF ToSet
    <2>4. ExistsBijection(1..Len(list), keys)
      <3>1. key \in [1..Len(list) -> keys] /\ \A k \in keys : \E i \in 1..Len(list) : key[i] = k
        BY <2>3
      <3>2. \A i, j \in 1..Len(list) : key[i] = key[j] => i = j
        BY <2>2
      <3>3. key \in Bijection(1..Len(list), keys)
        BY <3>1, <3>2 DEF Bijection, Injection, Surjection, IsInjective
      <3>. QED  BY <3>3 DEF ExistsBijection
    <2>5. Cardinality(keys) = Len(list)
      <3>. HIDE DEF keys
      <3>. QED  BY <2>2, <2>4, FS_CountingElements
    <2>6. pm.active # None => list # <<>> /\ Head(list) = pm.active
      BY <2>1, <2>2 DEF Sound
    <2>. QED  BY <2>1, <2>2, <2>5, <2>6 DEF RecentsInOrder
  <1>. QED  BY <1>1, ShellInvariant, PTL

(* Work is given up only when its file holds it or the user chose Discard, also when  *)
(* the program ends, and an existing file is replaced only by the open project        *)
(* (runGuarded(), the prompts and dialogs of Main.qml, its onClosing,              *)
(* createProjectAtPath(), maybeMigrateLegacyState()).                          *)
THEOREM WorkNeverLostUnasked == Spec => NothingLostUnasked
  <1>1. StepKeeps <=> LosesNoWork /\ KeepsOtherFiles
    BY DEF StepKeeps
  <1>. QED  BY <1>1, ShellInvariant, ShellInvKept, PTL DEF Spec, NothingLostUnasked

-----------------------------------------------------------------------------
(* The update: what is offered is newer, for all versions and all releases the    *)
(* server may answer with.                                                    *)

(* A set of places has a first: what CompareVersions chooses exists.         *)
LEMMA FirstExists ==
  ASSUME NEW D, D \subseteq Nat, D # {}
  PROVE  \E i \in D : \A j \in D : i <= j
  <1>. DEFINE R == OpToRel(<, Nat)
  <1>1. \A x, y \in Nat : <<y, x>> \in R <=> y < x
    BY DEF OpToRel
  <1>2. IsWellFoundedOn(R, Nat)
    BY NatLessThanWellFounded
  <1>. HIDE DEF R
  <1>3. PICK x \in D : \A y \in D : ~ (<<y, x>> \in R)
    BY <1>2, WFMin
  <1>4. \A y \in D : ~ (y < x)
    BY <1>1, <1>3
  <1>. QED  BY <1>4

(* A comparison that comes out positive has a first place that decides it,    *)
(* and the place is one of the left-hand version.                          *)
LEMMA NewerDecided ==
  ASSUME NEW a \in Seq(Nat), NEW b \in Seq(Nat), CompareVersions(a, b) > 0
  PROVE  \E i \in DOMAIN a : /\ a[i] > Part(b, i)
                             /\ \A j \in 1 .. (i - 1) : a[j] = Part(b, j)
  <1>. DEFINE D == {i \in DOMAIN a \cup DOMAIN b : Part(a, i) # Part(b, i)}
              first == CHOOSE i \in D : \A j \in D : i <= j
  <1>1. \A i \in Nat : Part(a, i) \in Nat /\ Part(b, i) \in Nat
    BY DEF Part
  <1>2. D \subseteq Nat /\ D # {}
    BY DEF CompareVersions
  <1>3. first \in D /\ \A j \in D : first <= j
    <2>. HIDE DEF D
    <2>. QED  BY <1>2, FirstExists
  <1>4. ~ (Part(a, first) < Part(b, first))
    BY <1>2 DEF CompareVersions
  <1>. HIDE DEF first
  <1>5. Part(a, first) > Part(b, first)
    <2>1. first \in Nat /\ Part(a, first) # Part(b, first)
      BY <1>2, <1>3
    <2>. QED  BY <1>1, <1>4, <2>1
  <1>6. first \in DOMAIN a
    BY <1>1, <1>2, <1>3, <1>5 DEF Part
  <1>7. \A j \in 1 .. (first - 1) : j \in DOMAIN a /\ Part(a, j) = Part(b, j)
    <2>. TAKE j \in 1 .. (first - 1)
    <2>1. j \in DOMAIN a
      BY <1>6
    <2>2. j \notin D
      BY <1>2, <1>3
    <2>. QED  BY <2>1, <2>2
  <1>. QED  BY <1>5, <1>6, <1>7 DEF Part

(* The types the invariant needs besides.                                   *)
UpdateStatuses == {"Idle", "NotConfigured", "Checking", "UpToDate", "UpdateAvailable", "Error"}
PageOf(r) == IF r.page = "" THEN ReleasesPage ELSE r.page
UpdateUrls     == {""} \cup {PageOf(r) : r \in Releases}
UpdateRecords  == [status : UpdateStatuses, asked : BOOLEAN, latest : Seq(Nat), url : UpdateUrls,
             failed : BOOLEAN, auto : BOOLEAN, quit : BOOLEAN]

(* What the property says of an offer, as a fact about a tag and a page.        *)
IsNewer(tag) == \E i \in DOMAIN tag : /\ tag[i] > Part(CurrentVersion, i)
                                      /\ \A j \in 1 .. (i - 1) : tag[j] = Part(CurrentVersion, j)
Offer(tag, page) == \E r \in Releases : r.tag = tag /\ page = PageOf(r) /\ IsNewer(r.tag)

UpdateInv == /\ update \in UpdateRecords
             /\ update.status = "UpdateAvailable" => Offer(update.latest, update.url)

LEMMA UpdateInvGivesProperty == ASSUME UpdateInv PROVE OfferedIsNewer
  BY Zenon DEF UpdateInv, OfferedIsNewer, Offer, IsNewer, PageOf

(* A step that does not touch the offer, or withdraws it, keeps the invariant.  *)
LEMMA OfferKept ==
  ASSUME UpdateInv, update' \in UpdateRecords,
         \/ update'.status # "UpdateAvailable"
         \/ /\ update'.status = update.status
            /\ update'.latest = update.latest
            /\ update'.url = update.url
  PROVE  UpdateInv'
  <1>1. update'.status = "UpdateAvailable" => Offer(update'.latest, update'.url)
    BY Zenon DEF UpdateInv
  <1>2. update'.status = "UpdateAvailable" => Offer(update.latest, update.url)'
    BY <1>1 DEF Offer, IsNewer, PageOf, Part
  <1>. QED  BY <1>2, Zenon DEF UpdateInv, UpdateRecords, UpdateUrls, UpdateStatuses, PageOf

LEMMA UpdateInitInv == ASSUME UpdateInit PROVE UpdateInv
  <1>1. PICK auto \in BOOLEAN :
          update = [status |-> "Idle", asked |-> FALSE, latest |-> <<>>, url |-> "",
                    failed |-> FALSE, auto |-> auto, quit |-> FALSE]
    BY Zenon DEF UpdateInit
  <1>2. <<>> \in Seq(Nat) /\ "" \in UpdateUrls
    BY DEF UpdateUrls
  <1>3. update \in UpdateRecords
    BY <1>1, <1>2 DEF UpdateRecords, UpdateStatuses
  <1>4. update.status # "UpdateAvailable"
    BY <1>1
  <1>. QED  BY <1>3, <1>4, Zenon DEF UpdateInv

(* Whatever release the answer names, what is stored of it is consistent.      *)
LEMMA PayloadKeepsInv ==
  ASSUME UpdateInv, NEW r \in Releases,
         update' = ApplyReleasePayload([update EXCEPT !.asked = FALSE], r)
  PROVE  UpdateInv'
  <1>. DEFINE page == PageOf(r)
              tag  == r.tag
              answered == [update EXCEPT !.asked = FALSE]
  <1>1. update \in UpdateRecords
    BY DEF UpdateInv
  <1>2. answered \in UpdateRecords
    BY <1>1 DEF UpdateRecords
  <1>3. tag \in Seq(Nat) /\ page \in UpdateUrls /\ CurrentVersion \in Seq(Nat)
    BY VersionAssumption DEF VersionAssumption, UpdateUrls
  <1>4. \/ /\ CompareVersions(tag, CurrentVersion) > 0
           /\ update' = [answered EXCEPT !.status = "UpdateAvailable", !.latest = tag, !.url = page]
        \/ update' = [answered EXCEPT !.status = "Error"]
        \/ update' = [answered EXCEPT !.status = "UpToDate", !.latest = tag]
    BY DEF ApplyReleasePayload, PageOf
  <1>5. CASE /\ CompareVersions(tag, CurrentVersion) > 0
             /\ update' = [answered EXCEPT !.status = "UpdateAvailable", !.latest = tag, !.url = page]
    <2>1. /\ update' \in UpdateRecords
          /\ update'.latest = tag
          /\ update'.url = page
      <3>. HIDE DEF page, answered, tag
      <3>. QED  BY <1>2, <1>3, <1>5 DEF UpdateRecords, UpdateStatuses
    <2>2. IsNewer(tag)
      <3>1. CompareVersions(tag, CurrentVersion) > 0
        BY <1>5
      <3>. HIDE DEF tag
      <3>. QED  BY <1>3, <3>1, NewerDecided, Zenon DEF IsNewer
    <2>3. Offer(tag, page)
      BY <2>2, Zenon DEF Offer
    <2>4. Offer(update'.latest, update'.url)
      BY <2>1, <2>3
    <2>. QED  BY <2>1, <2>4, Zenon DEF UpdateInv
  <1>6. CASE update' = [answered EXCEPT !.status = "Error"]
    <2>1. update' \in UpdateRecords /\ update'.status # "UpdateAvailable"
      <3>. HIDE DEF page, answered, tag
      <3>. QED  BY <1>2, <1>6 DEF UpdateRecords, UpdateStatuses
    <2>. QED  BY <2>1, OfferKept
  <1>7. CASE update' = [answered EXCEPT !.status = "UpToDate", !.latest = tag]
    <2>1. update' \in UpdateRecords /\ update'.status # "UpdateAvailable"
      <3>. HIDE DEF page, answered, tag
      <3>. QED  BY <1>2, <1>3, <1>7 DEF UpdateRecords, UpdateStatuses
    <2>. QED  BY <2>1, OfferKept
  <1>. QED  BY <1>4, <1>5, <1>6, <1>7

(* Every other step leaves the offer alone or withdraws it.                   *)
LEMMA UpdateKeepsInv == ASSUME UpdateInv, [UpdateNext]_updateVars PROVE UpdateInv'
  <1>0. update \in UpdateRecords
    BY DEF UpdateInv
  <1>1. CASE SetCheckAutomatically
    <2>1. /\ update' \in UpdateRecords /\ update'.status = update.status
          /\ update'.latest = update.latest /\ update'.url = update.url
      BY <1>0, <1>1 DEF SetCheckAutomatically, UpdateRecords
    <2>. QED  BY <2>1, OfferKept
  <1>2. ASSUME CheckNow PROVE UpdateInv'
    <2>1. CASE update' = update
      BY <1>0, <2>1, OfferKept
    <2>2. CASE update' = [update EXCEPT !.status = "NotConfigured"]
      <3>1. update' \in UpdateRecords /\ update'.status # "UpdateAvailable"
        BY <1>0, <2>2 DEF UpdateRecords, UpdateStatuses
      <3>. QED  BY <3>1, OfferKept
    <2>3. CASE update' = [update EXCEPT !.status = "Checking", !.asked = TRUE, !.failed = FALSE]
      <3>1. update' \in UpdateRecords /\ update'.status # "UpdateAvailable"
        BY <1>0, <2>3 DEF UpdateRecords, UpdateStatuses
      <3>. QED  BY <3>1, OfferKept
    <2>. QED  BY <1>2, <2>1, <2>2, <2>3 DEF CheckNow
  <1>3. CASE HandleReply
    <2>1. CASE update' = ReplyFails([update EXCEPT !.asked = FALSE])
      <3>1. update' \in UpdateRecords /\ update'.status # "UpdateAvailable"
        BY <1>0, <2>1 DEF ReplyFails, UpdateRecords, UpdateStatuses
      <3>. QED  BY <3>1, OfferKept
    <2>2. CASE \E r \in Releases :
                 update' = ApplyReleasePayload([update EXCEPT !.asked = FALSE], r)
      BY <2>2, PayloadKeepsInv
    <2>. QED  BY <1>3, <2>1, <2>2 DEF HandleReply
  <1>4. CASE InstallUpdate
    <2>1. \/ update' = [update EXCEPT !.failed = FALSE, !.quit = TRUE]
          \/ update' = [update EXCEPT !.failed = TRUE]
      BY <1>4 DEF InstallUpdate
    <2>2. /\ update' \in UpdateRecords /\ update'.status = update.status
          /\ update'.latest = update.latest /\ update'.url = update.url
      BY <1>0, <2>1 DEF UpdateRecords
    <2>. QED  BY <2>2, OfferKept
  <1>5. CASE OpenDownloadPage
    <2>1. \E b \in BOOLEAN : update' = [update EXCEPT !.failed = b]
      BY <1>5, Zenon DEF OpenDownloadPage
    <2>2. /\ update' \in UpdateRecords /\ update'.status = update.status
          /\ update'.latest = update.latest /\ update'.url = update.url
      BY <1>0, <2>1 DEF UpdateRecords
    <2>. QED  BY <2>2, OfferKept
  <1>6. CASE Startup
    BY <1>2, <1>6 DEF Startup
  <1>7. CASE UNCHANGED updateVars
    BY <1>0, <1>7, OfferKept DEF updateVars
  <1>. QED  BY <1>1, <1>2, <1>3, <1>4, <1>5, <1>6, <1>7 DEF UpdateNext

(* An update that is offered is newer by the ordinary order of version numbers  *)
(* and comes with its own page, for any releases and any number of checks       *)
(* (UpdateController::applyReleasePayload, compareVersions).                   *)
THEOREM OfferedAlwaysNewer == UpdateSpec => []OfferedIsNewer
  BY UpdateInvGivesProperty, UpdateInitInv, UpdateKeepsInv, PTL DEF UpdateSpec
=============================================================================
