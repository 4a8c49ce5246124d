--------------------------- MODULE MCCloneBrowser ---------------------------
(* How a server becomes a server project, in three parts, one per behaviour: the *)
(* walk behind "clone server" (CloneBrowser), the reader of a structured value    *)
(* that ends by the same count of what is open (StructuredNodeReader), and the     *)
(* editor a walk reports to (ProjectEditor), with four documents of another tool   *)
(* and two servers to clone.                                                  *)
EXTENDS CloneBrowser, StructuredNodeReader, ProjectEditor

CONSTANTS R, A, V, W, B, C, f1

VARIABLE side

(* The clone: the servers of four nodes whose root has A but not W below it,     *)
(* with cycles and shared nodes of every kind; one of six whose last answer       *)
(* passes the node cap, and a deep one.                                        *)
Graph(r, a, b, v, w) == [n \in Nodes |-> CASE n = R -> r [] n = A -> a [] n = B -> b
                                          [] n = V -> v [] n = W -> w [] OTHER -> {}]

SmallGraphs == {Graph(r \cup {A}, a, {}, v, w) : r \in SUBSET {V}, a \in SUBSET {R, V, W},
                                           v \in SUBSET {R, A, W}, w \in {{}, {R}, {V}, {A, V}, {R, A, V}}}

MCGraphs == SmallGraphs \cup {Graph({A, V}, {B, R, V}, {}, {W, C}, {}),
                        Graph({A}, {B, R}, {V, A}, {W, C}, {R})}

(* The reader: a structure of an array whose elements come in the wrong order      *)
(* and of a member; an array of structures that hold it again; one too many nodes   *)
(* in the second of two answers.                                              *)
Is(kind, members) == [kind |-> kind, members |-> members]
Shape(r, a, v, w) == [n \in Nodes |->
                        CASE n = R -> r [] n = A -> a [] n = V -> v [] n = W -> w
                          [] n = B -> Is("inline", <<>>) [] OTHER -> Is("scalar", <<>>)]
Nested == Shape(Is("struct", <<A, C>>), Is("array", <<W, V>>), Is("scalar", <<>>), Is("inline", <<>>))
MCShapes == {Nested,
             Shape(Is("array", <<W, V>>), Is("scalar", <<>>), Is("struct", <<R>>), Is("struct", <<C>>)),
             Shape(Is("struct", <<A, V>>), Is("array", <<W, B>>), Is("struct", <<C, B>>), Is("scalar", <<>>))}
MCIndex == [n \in Nodes |-> CASE n = V -> 0 [] n = W -> 1 [] OTHER -> -1]

-----------------------------------------------------------------------------
(* The editor.                                                             *)

MCUri == [ns \in 1..5 |-> CASE ns = 2 -> "two" [] ns = 3 -> "three" [] OTHER -> "other"]

(* The base namespace of every server, as far as the instance can meet it.       *)
MCBaseIds == {NodeId(0, <<"Server">>, 1)}

Source(ns, called, under, class, folder) ==
  [id |-> NodeId(ns, <<called>>, 1), parent |-> under, class |-> class, name |-> called,
   type |-> "Double", rank |-> -1, folder |-> folder]
Line == Source(3, "Line", NoNode, "Object", TRUE)

(* A line with two speeds of one name and a method, and the same server with the   *)
(* Server object that every Objects folder holds.                              *)
Plain == << Line, Source(3, "Speed", Line.id, "Variable", FALSE),
            [Source(2, "Speed", Line.id, "Variable", FALSE) EXCEPT !.type = "Custom", !.rank = 1],
            Source(3, "Reset", Line.id, "Method", FALSE) >>
MCServerNodes == {Plain, Append(Plain, Source(0, "Server", NoNode, "Object", FALSE))}

(* A document with two enumerations of one name, a structure and a method; one more  *)
(* with a node below a folder it does not contain and the editor may add; and two    *)
(* whose parents lead round in a circle, or from a node to itself.                *)
Element(called, element, under, type) ==
  [id |-> NodeId(1, <<called>>, 1), name |-> called, element |-> element, parent |-> under,
   type |-> type, rank |-> 0, definition |-> "other", ref |-> "HasComponent"]
EnumDoc(ns) == [id |-> NodeId(ns, <<"Color">>, 1), name |-> "Color", entries |-> {0},
                definition |-> TRUE]
Complete ==
  [uris |-> <<"a", "b">>,
   types |-> <<EnumDoc(1), EnumDoc(2),
               [EnumDoc(1) EXCEPT !.id = NodeId(1, <<"Struct">>, 1), !.definition = FALSE]>>,
   elements |-> <<Element("Lamp", "UAVariable", Objects, EnumDoc(2).id),
                  Element("Run", "UAMethod", Objects, NoNode),
                  Element("Size", "UAVariable", Objects, BaseType("LocalizedText"))>>]
Partial ==
  [Complete EXCEPT !.elements = Append(@, Element("Part", "UAObject",
                                                  NodeId(1, <<"Folder">>, 1), NoNode))]
Round ==
  [Complete EXCEPT !.elements = <<Element("East", "UAObject", NodeId(1, <<"West">>, 1), NoNode),
                                  Element("West", "UAVariable", NodeId(1, <<"East">>, 1),
                                          BaseType("Double"))>>]
Alone ==
  [Complete EXCEPT !.elements = <<Element("Lamp", "UAVariable", NodeId(1, <<"Lamp">>, 1),
                                          EnumDoc(2).id)>>]
MCNodeSets == {Complete, Partial, Round, Alone}

(* A project as the studio has made and saved it: a line with a speed and a lamp,   *)
(* which has an enumeration and follows the speed.                              *)
Made(kind, called, k, under) ==
  [NewNode EXCEPT !.kind = kind, !.id = NodeId(1, <<called>>, k), !.parent = under, !.name = called,
                  !.type = IF kind = "Variable" THEN "Double" ELSE "",
                  !.writable = kind = "Variable"]
Folder == Made("Folder", "Folder", 1, NoNode)
Speed  == Made("Variable", "Variable", 1, Folder.id)
Lamp   == [Made("Variable", "Variable", 2, NoNode) EXCEPT !.enum = NodeId(1, <<"Enum", "Color">>, 1)]
Saved ==
  [NewProjectData EXCEPT
     !.namespaces = <<"project">>, !.nodes = <<Folder, Speed, Lamp>>,
     !.enums = <<[id |-> Lamp.enum, name |-> "Color", entries |-> {0}]>>,
     !.rules = <<[trigger |-> Speed.id, actions |->
                   <<[NewAction EXCEPT !.target = Lamp.id, !.mode = "CopyTrigger"]>>]>>]

Editing ==
  /\ path = NoPath /\ dirty = FALSE /\ selected = NoNode
  /\ project = NoProject /\ hasProject = FALSE
  /\ disk = [f \in Paths |-> ToJson(Saved)]
  /\ cloning = [on |-> FALSE, preserve |-> FALSE] /\ cloneAnswers = <<>>
  /\ outcome = "none" /\ edits = 0

-----------------------------------------------------------------------------
MCInit ==
  /\ Init /\ ReaderInit /\ Editing
  /\ \/ side = "clone" /\ shape = Nested
     \/ side = "reader" /\ refs = Graph({A}, {}, {}, {}, {})
     \/ side = "editor" /\ shape = Nested /\ refs = Graph({A}, {}, {}, {}, {})

CloneStep  == side = "clone" /\ Next /\ UNCHANGED <<readerVars, editorVars, side>>
ReaderStep == side = "reader" /\ ReaderNext /\ UNCHANGED <<vars, editorVars, side>>

(* The project stays small; a clone starts between the two edits, and a new project   *)
(* is the edit it may overlap with; security is edited first and by itself; after   *)
(* the last edit the project is not saved.                                        *)
Small ==
  /\ Len(project.nodes) <= 4 /\ Len(project.rules) <= 2 /\ Len(project.enums) <= 2
  /\ \A r \in ToSet(project.rules) : Len(r.actions) <= 2

EditorStep ==
  /\ side = "editor"
  /\ EditorNext
  /\ Small'
  /\ cloning'.on /\ ~cloning.on => edits = 1 /\ ~dirty
  /\ cloning.on => edits' = edits \/ project'.nodes = <<>>
  /\ edits = 1 /\ edits' = 2 => project.security \in {DefaultSecurity, project'.security}
                               \/ project'.nodes = project.nodes
  /\ edits = MaxEdits => disk' = disk /\ selected' \in {selected, NoNode}
  /\ UNCHANGED <<vars, readerVars, side>>

MCNext == CloneStep \/ ReaderStep \/ EditorStep
MCVars == <<vars, readerVars, editorVars, side>>
MCSpec == /\ MCInit /\ [][MCNext]_MCVars
          /\ WF_vars(side = "clone" /\ Timeout /\ UNCHANGED <<refs, readerVars, editorVars, side>>)
=============================================================================
