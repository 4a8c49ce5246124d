--------------------------- MODULE ProjectEditor ---------------------------
(***************************************************************************)
(* The editing side of src/qmlapi/serverstudio.cpp: nodes, enumeration types,  *)
(* rules and security of a server project, its files, NodeSet2 import and      *)
(* export, the clone of the connected server, and the check before the start.  *)
(*                                                                         *)
(* A start is one step here, from the validator to the built server: what      *)
(* happens around the process is the subject of ServerStudio.                *)
(***************************************************************************)
EXTENDS ServerProject

CONSTANTS
  Paths, NoPath,      \* files a project may be saved to; none yet
  NodeSets,           \* NodeSet2 documents of other tools
  ServerNodes,        \* address spaces a clone may report, as sequences
  UriOf,              \* namespace URI of an index of the cloned server
  EnumNames, Types,   \* names and data types the user picks from
  MaxEdits            \* editing commands

ASSUME EditorAssumption == NoPath \notin Paths /\ MaxEdits \in Nat

(* A document of another tool is lists of data types and of elements with their  *)
(* ids.  Whatever it says of parents is imported: one that is missing, the node    *)
(* itself, a circle.                                                          *)
IsId(id) == id = NodeId(id[1], id[2], id[3])

ASSUME DocumentAssumption ==
  \A doc \in NodeSets :
    /\ doc.types \in Seq(ToSet(doc.types)) /\ doc.elements \in Seq(ToSet(doc.elements))
    /\ \A t \in ToSet(doc.types) : IsId(t.id) /\ DOMAIN t = {"id", "name", "entries", "definition"}
    /\ \A e \in ToSet(doc.elements) : IsId(e.id)

(* A clone reports a list of nodes with their ids.                            *)
ASSUME CloneAssumption ==
  \A nodes \in ServerNodes :
    nodes \in Seq(ToSet(nodes)) /\ \A c \in ToSet(nodes) : IsId(c.id)

VARIABLES
  project, hasProject, path, dirty, selected,   \* the studio's members
  disk,        \* project file at each path
  cloning,     \* [on, preserve]: m_cloneInProgress and m_clonePreserveIds
  cloneAnswers,     \* clone reports on their way
  outcome,     \* how the last start of this project ended
  edits        \* editing commands so far

editorVars == <<project, hasProject, path, dirty, selected, disk, cloning, cloneAnswers, outcome, edits>>

NoProject == NewProjectData
Outcomes == {"none", "refused", "exit 6", "exit 7", "exit 8", "serving"}

-----------------------------------------------------------------------------
(* What the editor's commands have in common.                              *)

Edit(p) ==
  /\ edits < MaxEdits /\ edits' = edits + 1
  /\ project' = p /\ dirty' = TRUE /\ outcome' = "none"

EditOnly(p) ==
  /\ hasProject
  /\ Edit(p)
  /\ UNCHANGED <<hasProject, path, selected, disk, cloning, cloneAnswers>>

Node(id) == CHOOSE n \in ToSet(project.nodes) : n.id = id

(* makeUniqueNodeId() looks among the nodes only.                            *)
FreshId(used, part) ==
  LET free == {k \in 1 .. Cardinality(used) + 1 : NodeId(1, part, k) \notin used}
  IN  NodeId(1, part, CHOOSE k \in free : \A j \in free : k <= j)

(* addFolder(), addObject(), addVariable(): below the selected node, which is   *)
(* the new one afterwards.                                                   *)
Add(node, part) ==
  LET id == FreshId(Ids(project.nodes), <<part>>)
  IN  /\ hasProject
      /\ Edit([project EXCEPT !.nodes = Append(@, [node EXCEPT !.id = id, !.parent = selected,
                                                               !.name = part])])
      /\ selected' = id
      /\ UNCHANGED <<hasProject, path, disk, cloning, cloneAnswers>>

AddFolder == Add(NewNode, "Folder")
AddObject == Add([NewNode EXCEPT !.kind = "Object"], "Object")
AddVariable ==
  Add([NewNode EXCEPT !.kind = "Variable", !.type = "Double", !.writable = TRUE], "Variable")

(* updateNode() with the fields the property panel sends together.            *)
EnumNamed(name) ==
  LET named == {i \in DOMAIN project.enums : project.enums[i].name = name}
  IN  IF named = {} THEN NoNode
      ELSE project.enums[CHOOSE i \in named : \A j \in named : i <= j].id

UpdateNode(type, rank, sim, enumName) ==
  LET Change(n) ==
        IF n.id # selected \/ ~Variable(n) THEN n
        ELSE [n EXCEPT !.type = IF type \in Builtin THEN type ELSE n.type, !.rank = rank,
                       !.sim = sim, !.enum = EnumNamed(enumName)]
  IN  /\ selected \in Ids(project.nodes)
      /\ EditOnly([project EXCEPT !.nodes = MapSeq(Change, @)])

(* removeNode(): the node with all below it, what the rules say of them, and     *)
(* every rule that has no action left.                                       *)
Subtree(id) == Hanging(Links(project.nodes), {id})

(* Mutant: a rule is kept when its trigger is removed.                         *)
PruneRules_KeepsTrigger(rules, gone) ==
  LET Stays(r) == {a \in ToSet(r.actions) : a.target \notin gone}
      pruned   == MapSeq(LAMBDA r : [r EXCEPT !.actions = Keep(@, Stays(r))], rules)
  IN  Keep(pruned, {r \in ToSet(pruned) : r.actions # <<>>})

PruneRules(rules, gone) ==
  LET Stays(r) == {a \in ToSet(r.actions) : a.target \notin gone}
      pruned   == MapSeq(LAMBDA r : [r EXCEPT !.actions = Keep(@, Stays(r))], rules)
  IN  Keep(pruned, {r \in ToSet(pruned) : r.trigger \notin gone /\ r.actions # <<>>})

RemoveNode ==
  LET gone == Subtree(selected)
      kept == {n \in ToSet(project.nodes) : n.id \notin gone}
  IN  /\ hasProject /\ selected # NoNode
      /\ Edit([project EXCEPT !.nodes = Keep(@, kept), !.rules = PruneRules(@, gone)])
      /\ selected' = NoNode
      /\ UNCHANGED <<hasProject, path, disk, cloning, cloneAnswers>>

Select(id) ==
  /\ selected # id
  /\ selected' = id
  /\ UNCHANGED <<project, hasProject, path, dirty, disk, cloning, cloneAnswers, outcome, edits>>

-----------------------------------------------------------------------------
(* Enumeration types.                                                      *)

AddEnumType(name) ==
  /\ \A e \in ToSet(project.enums) : e.name # name
  /\ EditOnly([project EXCEPT !.enums =
       Append(@, [name |-> name, entries |-> {},
                  id |-> FreshId(Ids(project.enums), <<"Enum", name>>)])])

AddEnumEntry(name, value) ==
  LET id == EnumNamed(name)
      Entered(e) == IF e.id = id THEN [e EXCEPT !.entries = @ \cup {value}] ELSE e
  IN  /\ id # NoNode
      /\ EditOnly([project EXCEPT !.enums = MapSeq(Entered, @)])

(* removeEnumType(): every type of that name goes, the variables of the first     *)
(* one are detached.                                                         *)
RemoveEnumType(name) ==
  LET id        == EnumNamed(name)
      kept      == {e \in ToSet(project.enums) : e.name # name}
      Detach(n) == IF n.enum = id
                   THEN [n EXCEPT !.enum = NoNode, !.type = IF @ = "" THEN "Int32" ELSE @] ELSE n
  IN  /\ id # NoNode
      /\ EditOnly([project EXCEPT !.enums = Keep(@, kept), !.nodes = MapSeq(Detach, @)])

-----------------------------------------------------------------------------
(* Rules.  The lists offer the variables of the project.                     *)

AddRule(id) ==
  EditOnly([project EXCEPT !.rules = Append(@, [trigger |-> id, actions |-> <<>>])])
RemoveRule(i) == EditOnly([project EXCEPT !.rules = RemoveAt(@, i)])
SetRuleTrigger(i, id) == EditOnly([project EXCEPT !.rules[i].trigger = id])

(* The literal is the zero of the target's type.                             *)
AddRuleAction(i, id) ==
  EditOnly([project EXCEPT !.rules[i].actions =
              Append(@, [NewAction EXCEPT !.target = id, !.literal = Node(id).type])])
RemoveRuleAction(i, j) == EditOnly([project EXCEPT !.rules[i].actions = RemoveAt(@, j)])
UpdateRuleAction(i, j, mode, delay) ==
  EditOnly([project EXCEPT !.rules[i].actions[j] = [@ EXCEPT !.mode = mode, !.delay = delay]])

EditRules ==
  \/ \E id \in VariableIds(project) : AddRule(id)
  \/ \E i \in DOMAIN project.rules :
       \/ RemoveRule(i)
       \/ \E id \in VariableIds(project) : SetRuleTrigger(i, id) \/ AddRuleAction(i, id)
       \/ \E j \in DOMAIN project.rules[i].actions :
            \/ RemoveRuleAction(i, j)
            \/ \E mode \in ValueModes : UpdateRuleAction(i, j, mode, 1)

-----------------------------------------------------------------------------
(* Security.                                                               *)

SetSecurityFlags(anonymous, none, secure) ==
  EditOnly([project EXCEPT !.security.anonymous = anonymous, !.security.none = none,
                           !.security.secure = secure])
SetAcceptAll(all) ==
  /\ project.security.acceptAll # all
  /\ EditOnly([project EXCEPT !.security.acceptAll = all])
AddUser(user) == user # "" /\ EditOnly([project EXCEPT !.security.users = @ \cup {user}])
RemoveUser(user) ==
  /\ user \in project.security.users
  /\ EditOnly([project EXCEPT !.security.users = @ \ {user}])

EditSecurity ==
  \/ \E a, n, s \in BOOLEAN : SetSecurityFlags(a, n, s)
  \/ \E all \in BOOLEAN : SetAcceptAll(all)
  \/ \E user \in {"user"} : AddUser(user) \/ RemoveUser(user)

-----------------------------------------------------------------------------
(* The project's life cycle and its files.                                  *)

NewProject ==
  /\ Edit([NewProjectData EXCEPT !.namespaces = <<"project">>])
  /\ hasProject' = TRUE /\ path' = NoPath /\ selected' = NoNode
  /\ UNCHANGED <<disk, cloning, cloneAnswers>>

OpenProject(f) ==
  /\ Loads(disk[f])
  /\ project' = FromJson(disk[f])
  /\ hasProject' = TRUE /\ path' = f /\ selected' = NoNode /\ dirty' = FALSE
  /\ outcome' = "none"
  /\ UNCHANGED <<disk, cloning, cloneAnswers, edits>>

SaveProjectAs(f) ==
  /\ hasProject
  /\ disk' = [disk EXCEPT ![f] = ToJson(project)]
  /\ path' = f /\ dirty' = FALSE
  /\ UNCHANGED <<project, hasProject, selected, cloning, cloneAnswers, outcome, edits>>
SaveProject == path # NoPath /\ SaveProjectAs(path)

CloseProject ==
  /\ hasProject
  /\ project' = NoProject /\ hasProject' = FALSE /\ path' = NoPath /\ selected' = NoNode
  /\ dirty' = FALSE /\ outcome' = "none"
  /\ UNCHANGED <<disk, cloning, cloneAnswers, edits>>

(* importNodeSet(): into a new project when there is none.                    *)
ImportNodeSet(doc) ==
  LET base == IF hasProject THEN project ELSE [NewProjectData EXCEPT !.namespaces = <<"project">>]
  IN  /\ Edit(WithImported(base, doc))
      /\ hasProject' = TRUE /\ selected' = NoNode
      /\ path' = IF hasProject THEN path ELSE NoPath
      /\ UNCHANGED <<disk, cloning, cloneAnswers>>

-----------------------------------------------------------------------------
(* Cloning.  The walk runs in the client and reports whenever it ends.         *)

CloneFromClient(preserve) ==
  /\ ~cloning.on
  /\ cloning' = [on |-> TRUE, preserve |-> preserve]
  /\ UNCHANGED <<project, hasProject, path, dirty, selected, disk, cloneAnswers, outcome, edits>>

CloneEnds ==
  /\ cloning.on /\ cloneAnswers = <<>>
  /\ \E nodes \in ServerNodes \cup {<<>>} : cloneAnswers' = <<nodes>>
  /\ UNCHANGED <<project, hasProject, path, dirty, selected, disk, cloning, outcome, edits>>

(* applyCloneSnapshot() replaces whatever project is open by then.             *)
ApplyCloneSnapshot ==
  /\ cloneAnswers # <<>>
  /\ cloneAnswers' = <<>> /\ cloning' = [on |-> FALSE, preserve |-> FALSE]
  /\ IF Head(cloneAnswers) = <<>>
     THEN UNCHANGED <<project, hasProject, path, dirty, selected, outcome>>
     ELSE /\ project' = CloneToProject(Head(cloneAnswers), cloning.preserve, UriOf)
          /\ hasProject' = TRUE /\ path' = NoPath /\ selected' = NoNode /\ dirty' = TRUE
          /\ outcome' = "none"
  /\ UNCHANGED <<disk, edits>>

-----------------------------------------------------------------------------
(* startServer() and what main() of the runtime does with the file.           *)

RuntimeOutcome(file) ==
  IF ~Loads(file) THEN "exit 6"
  ELSE IF ~Validate(FromJson(file)) THEN "exit 7"
  ELSE IF ~Builds(FromJson(file)) THEN "exit 8"
  ELSE "serving"

Snapshot == IF path # NoPath /\ ~dirty THEN disk[path] ELSE ToJson(project)

StartServer ==
  /\ hasProject
  /\ outcome' = IF Validate(project) THEN RuntimeOutcome(Snapshot) ELSE "refused"
  /\ UNCHANGED <<project, hasProject, path, dirty, selected, disk, cloning, cloneAnswers, edits>>

-----------------------------------------------------------------------------
EditNodes ==
  \/ AddFolder \/ AddObject \/ AddVariable \/ RemoveNode
  \/ \E type \in Types, rank \in {-1, 1}, name \in EnumNames \cup {""} :
       \E sim \in {DefaultSim, [DefaultSim EXCEPT !.kind = "Counter"]} :
         UpdateNode(type, rank, sim, name)
  \/ \E id \in Ids(project.nodes) \cup {NoNode} : Select(id)

EditEnums ==
  \E name \in EnumNames :
    AddEnumType(name) \/ AddEnumEntry(name, 0) \/ RemoveEnumType(name)

Files ==
  \/ NewProject \/ SaveProject \/ CloseProject
  \/ \E f \in Paths : OpenProject(f) \/ SaveProjectAs(f)
  \/ \E doc \in NodeSets : ImportNodeSet(doc)

EditorNext ==
  \/ EditNodes \/ EditEnums \/ EditRules \/ EditSecurity \/ Files \/ StartServer
  \/ \E preserve \in BOOLEAN : CloneFromClient(preserve)
  \/ CloneEnds \/ ApplyCloneSnapshot

EditorInit ==
  /\ project = NoProject /\ hasProject = FALSE /\ path = NoPath /\ dirty = FALSE
  /\ selected = NoNode /\ disk = [f \in Paths |-> NoFile]
  /\ cloning = [on |-> FALSE, preserve |-> FALSE] /\ cloneAnswers = <<>>
  /\ outcome = "none" /\ edits = 0

EditorSpec == EditorInit /\ [][EditorNext]_editorVars

-----------------------------------------------------------------------------
(* Properties.                                                             *)

(* Whatever the project says of another part of it names a part it has.        *)
References(p) ==
  /\ \A n \in ToSet(p.nodes) : /\ n.parent \in Ids(p.nodes) \cup {NoNode}
                               /\ n.enum \in Ids(p.enums) \cup {NoNode}
  /\ \A r \in ToSet(p.rules) :
       /\ r.trigger \in VariableIds(p)
       /\ \A a \in ToSet(r.actions) : a.target \in VariableIds(p)

UniqueEnumNames(p) ==
  \A i, j \in DOMAIN p.enums : p.enums[i].name = p.enums[j].name => i = j

ShowsAll(p) == Shown(p) = Ids(p.nodes)

(* No edit leaves a parent, an enumeration, a trigger, a target or the selection *)
(* behind that names something removed, and the tree goes on showing every     *)
(* node: removing a node takes what is below it and what the rules say of it    *)
(* (ServerStudio::removeNode), removing a type detaches its variables.  The      *)
(* exceptions come with a document: a reference to what it leaves out, two types  *)
(* of one name, a circle of parents, which the tree does not show.              *)
KeepsReferences ==
  \/ References(project') /\ selected' \in Ids(project'.nodes) \cup {NoNode}
                          /\ ShowsAll(project')
  \/ ~(References(project) /\ UniqueEnumNames(project) /\ ShowsAll(project))
  \/ Files
EditsKeepReferences == [][KeepsReferences]_editorVars

(* What the validator accepts is served, and as it was designed: every rule is   *)
(* installed with all its actions and the endpoints are those asked for.  It      *)
(* looks neither for ids that fall together on the server nor for nodes whose     *)
(* parents lead round in a circle, or to themselves: with these, and only these,  *)
(* the runtime ends while it builds (Validator::validate against                 *)
(* ProjectBuilder::build, RuleEngine and SecuritySetup::apply).                  *)
Circular(p) ==
  \E S \in (SUBSET Ids(p.nodes)) \ {{}} :
    \A n \in ToSet(p.nodes) : n.id \in S => n.parent \in S
Installed(p) ==
  /\ DOMAIN Compile(p) = ActionsAt(p)
  /\ \A i \in DOMAIN p.rules : \E at \in ActionsAt(p) : at[1] = i
  /\ "None" \in Endpoints(p.security) <=> p.security.none
  /\ "Secure" \in Endpoints(p.security) <=> p.security.secure
AcceptedServes ==
  /\ outcome \in Outcomes \ {"exit 6", "exit 7"}
  /\ outcome = "exit 8" => Clashes(project) \/ Circular(project)
  /\ outcome = "serving" => Installed(project) /\ ~(Clashes(project) \/ Circular(project))

(* The files do not change what is served: a project read back is the project     *)
(* saved, a valid one keeps its address space through a NodeSet2 document, and   *)
(* a project shown as saved is the one in its file (Serializer, NodeSet,          *)
(* ServerStudio::setDirty).                                                     *)
AddressSpace(p) == {[ServedNode(p, n) EXCEPT !.writable = FALSE] : n \in ToSet(p.nodes)}
FilesKeepTheProject ==
  LET served == Served(project)
  IN  hasProject =>
        /\ IF dirty THEN Served(FromJson(ToJson(project))) = served
           ELSE path # NoPath /\ Served(FromJson(disk[path])) = served
        /\ Validate(project) =>
             AddressSpace(WithImported(project, ExportDocument(project))) = AddressSpace(project)
=============================================================================
