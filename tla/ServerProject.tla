--------------------------- MODULE ServerProject ---------------------------
(***************************************************************************)
(* The server project as data: its validator                               *)
(* (src/serverproject/serverprojectvalidator.cpp), its two files            *)
(* (serverprojectserializer.cpp, serverprojectnodeset.cpp), the clone of a    *)
(* server (serverstudio.cpp) and what the runtime makes of it               *)
(* (runtime/projectbuilder.cpp, ruleengine.cpp, securitysetup.cpp).          *)
(*                                                                         *)
(* A node id is <<ns, path, k>>: namespace index, the dotted name as the      *)
(* sequence of its parts, and the suffix that made it unique (1 for none).   *)
(* Texts, initial values and addresses of the server are left out.           *)
(***************************************************************************)
EXTENDS Integers, Sequences, FiniteSets, SequencesExt

CONSTANT BaseIds     \* identifiers the base namespace of every server has

NoNode == <<>>
NodeId(ns, path, k) == <<ns, path, k>>
IdNs(id) == id[1]

Quint16Size == 65536
Quint16 == 0 .. Quint16Size - 1

(* parseNodeId(): g= and b= identifiers and namespaces that are no quint16     *)
(* are not well formed.  A malformed id has namespace -1 here.                *)
ParsedOk(id) == id # NoNode /\ IdNs(id) \in Quint16

Builtin == {"Boolean", "SByte", "Byte", "Int16", "UInt16", "Int32", "UInt32",
            "Int64", "UInt64", "Float", "Double", "String"}
NodeKinds  == {"Folder", "Object", "Variable"}
SimKinds   == {"Manual", "Constant", "Counter", "Toggle", "Random", "Sine", "Ramp"}
ValueModes == {"Literal", "CopyTrigger"}

(* nodeKindFromString(), simulationKindFromString(),                         *)
(* ruleValueModeFromString(): anything else is the default.                  *)
KindOf(text) == IF text \in {"Variable", "Object"} THEN text ELSE "Folder"
SimOf(text)  == IF text \in SimKinds THEN text ELSE "Manual"
ModeOf(text) == IF text \in ValueModes THEN text ELSE "Literal"

DefaultSim == [kind |-> "Manual", interval |-> 1000, min |-> 0, max |-> 100,
               step |-> 1, period |-> 10000]
NewNode == [kind |-> "Folder", id |-> NoNode, parent |-> NoNode, name |-> "",
            type |-> "", enum |-> NoNode, rank |-> -1, writable |-> FALSE,
            sim |-> DefaultSim]
NewAction == [target |-> NoNode, mode |-> "Literal", literal |-> "none", delay |-> 0]
DefaultSecurity == [anonymous |-> TRUE, none |-> TRUE, secure |-> FALSE,
                    acceptAll |-> TRUE, users |-> {}]
DefaultPort == 4840
NewProjectData == [namespaces |-> <<>>, enums |-> <<>>, nodes |-> <<>>, rules |-> <<>>,
                   security |-> DefaultSecurity, port |-> DefaultPort]

Variable(n)   == n.kind = "Variable"
Ids(s)        == {s[i].id : i \in DOMAIN s}
VariableIds(p) == {n.id : n \in {m \in ToSet(p.nodes) : Variable(m)}}
Distinct(s)   == Cardinality(Ids(s)) = Len(s)

(* The elements of s that are in S, in their order.                          *)
Keep(s, S) ==
  LET f[k \in 0 .. Len(s)] ==
        IF k = 0 THEN <<>> ELSE IF s[k] \in S THEN Append(f[k - 1], s[k]) ELSE f[k - 1]
  IN  f[Len(s)]

(* What hangs below roots, link by link, with the roots: the code's loops over    *)
(* all nodes that end when nothing is added.  A link is a child and its parent.  *)
Closed(links, S) == \A l \in links : l[2] \in S => l[1] \in S
Hanging(links, roots) ==
  LET all == roots \cup {l[1] : l \in links}
  IN  {x \in all : \A S \in SUBSET all : roots \subseteq S /\ Closed(links, S) => x \in S}
Links(nodes) == {<<n.id, n.parent>> : n \in ToSet(nodes)}

-----------------------------------------------------------------------------
(* Validator::validate().                                                  *)

EnumsValid(p) ==
  /\ Distinct(p.enums)
  /\ \A e \in ToSet(p.enums) : ParsedOk(e.id) /\ e.entries # {}

SimValid(s) ==
  s.kind # "Manual" => /\ s.interval > 0
                       /\ s.kind \in {"Sine", "Ramp"} => s.period > 0

VariableValid(p, n) ==
  /\ IF n.enum # NoNode THEN n.enum \in Ids(p.enums) ELSE n.type \in Builtin
  /\ n.rank \in {-1, 1}
  /\ SimValid(n.sim)

NodesValid(p) ==
  /\ Distinct(p.nodes)
  /\ \A n \in ToSet(p.nodes) :
       /\ ParsedOk(n.id) /\ IdNs(n.id) <= Len(p.namespaces)
       /\ n.name # ""
       /\ Variable(n) => VariableValid(p, n)

(* Mutant: a parent that does not exist is not looked for.                    *)
ParentsValid_Unchecked(p) == TRUE

ParentsValid(p) ==
  \A n \in ToSet(p.nodes) : n.parent \in Ids(p.nodes) \cup {NoNode}

RulesValid(p) ==
  \A r \in ToSet(p.rules) :
    /\ r.trigger \in VariableIds(p)
    /\ r.actions # <<>>
    /\ \A a \in ToSet(r.actions) : a.target \in VariableIds(p) /\ a.delay >= 0

SecurityValid(p) ==
  /\ p.security.none \/ p.security.secure
  /\ p.security.anonymous \/ p.security.users # {}
  /\ "" \notin p.security.users

Validate(p) ==
  EnumsValid(p) /\ NodesValid(p) /\ ParentsValid(p) /\ RulesValid(p) /\ SecurityValid(p)

-----------------------------------------------------------------------------
(* The runtime: ProjectBuilder, the engines' constructors, SecuritySetup.    *)

(* registerNamespaces() and toRuntimeNodeId(): the same URI is the same       *)
(* namespace of the server, and an index the project does not declare is the  *)
(* base one.                                                                *)
RuntimeNs(p, ns) ==
  IF ns \in DOMAIN p.namespaces
  THEN CHOOSE k \in 1 .. ns : /\ p.namespaces[k] = p.namespaces[ns]
                              /\ \A j \in 1 .. k - 1 : p.namespaces[j] # p.namespaces[ns]
  ELSE 0
RuntimeId(p, id) == NodeId(RuntimeNs(p, IdNs(id)), id[2], id[3])

(* A parent that was already created: the passes of build() over the nodes    *)
(* still pending.                                                           *)
Created(p) == Hanging(Links(p.nodes), {NoNode}) \ {NoNode}

(* Ids that mean the same node to the server, or one it has from the start.   *)
Clashes(p) ==
  LET made == p.enums \o p.nodes
      ids  == [i \in DOMAIN made |-> RuntimeId(p, made[i].id)]
  IN  \E i \in DOMAIN made :
        \/ ids[i] \in BaseIds
        \/ \E j \in 1 .. i - 1 : ids[j] = ids[i]

(* build(): enumeration types first, then the nodes, each refused by the      *)
(* server when its id exists; nodes whose parents never appear are an error.  *)
Builds(p) ==
  /\ ~Clashes(p)
  /\ Created(p) = Ids(p.nodes)
  /\ \A n \in ToSet(p.nodes) : Variable(n) /\ n.enum = NoNode => n.type \in Builtin

(* What addNode() makes of a node.                                           *)
WireType(n) == IF n.enum # NoNode THEN "Int32" ELSE n.type
ServedNode(p, n) ==
  [id |-> RuntimeId(p, n.id), parent |-> n.parent, kind |-> n.kind, name |-> n.name,
   type |-> IF Variable(n) THEN WireType(n) ELSE "",
   rank |-> IF Variable(n) /\ n.enum = NoNode THEN n.rank ELSE -1,
   writable |-> Variable(n) /\ n.writable]

(* RuleEngine's constructor: the actions of the rules that are installed, by    *)
(* rule and place in it, which is their order.  Rules and actions about         *)
(* anything but variables are dropped, and the declared type is what a literal  *)
(* is coerced to.                                                           *)
ActionsAt(p) == UNION {{i} \X DOMAIN p.rules[i].actions : i \in DOMAIN p.rules}
Compile(p) ==
  LET TypeOf(id)  == (CHOOSE n \in ToSet(p.nodes) : n.id = id).type
      Trigger(at) == p.rules[at[1]].trigger
      Action(at)  == p.rules[at[1]].actions[at[2]]
  IN  [at \in {x \in ActionsAt(p) : {Trigger(x), Action(x).target} \subseteq VariableIds(p)} |->
        [trigger |-> Trigger(at), target |-> Action(at).target,
         type |-> TypeOf(Action(at).target), mode |-> Action(at).mode,
         literal |-> IF Action(at).mode = "Literal" THEN <<Action(at).literal>> ELSE <<>>,
         delay |-> Action(at).delay]]

(* SimulationEngine's constructor.                                           *)
Simulated(p) ==
  {n \in ToSet(p.nodes) : /\ Variable(n) /\ n.rank = -1
                          /\ n.sim.kind # "Manual" /\ n.type # "String"}

(* SecuritySetup::apply(): without encryption there is only the None endpoint  *)
(* whatever allowNone says; with it None is pruned when it is not allowed.    *)
Endpoints(s) ==
  IF s.secure THEN {"Secure"} \cup (IF s.none THEN {"None"} ELSE {}) ELSE {"None"}
Strict(s) == s.secure /\ ~s.acceptAll

Served(p) == [builds |-> Builds(p), nodes |-> {ServedNode(p, n) : n \in ToSet(p.nodes)},
              rules |-> Compile(p), sims |-> {<<n.id, n.sim>> : n \in Simulated(p)},
              endpoints |-> Endpoints(p.security), security |-> p.security, port |-> p.port]

-----------------------------------------------------------------------------
(* The project file.  An object has the keys toJson() writes; fromJson() takes *)
(* the default for one that is missing.                                      *)

Key(obj, key, default) == IF key \in DOMAIN obj THEN obj[key] ELSE default
Without(obj, keys) == [k \in DOMAIN obj \ keys |-> obj[k]]

NodeToJson(n) ==
  IF ~Variable(n) THEN Without(n, {"type", "enum", "rank", "writable", "sim"})
  ELSE Without(n, (IF n.enum = NoNode THEN {"enum"} ELSE {})
                  \cup (IF n.sim.kind = "Manual" THEN {"sim"} ELSE {}))

(* Mutant: the enumeration of a variable is not read back.                     *)
NodeFromJson_NoEnum(o) ==
  [NewNode EXCEPT !.kind = KindOf(o.kind), !.id = o.id, !.parent = o.parent, !.name = o.name,
                  !.type = Key(o, "type", ""), !.rank = Key(o, "rank", -1),
                  !.writable = Key(o, "writable", FALSE), !.sim = Key(o, "sim", DefaultSim)]

NodeFromJson(o) ==
  LET common == [NewNode EXCEPT !.kind = KindOf(o.kind), !.id = o.id, !.parent = o.parent,
                                !.name = o.name]
  IN  IF common.kind # "Variable" THEN common
      ELSE [common EXCEPT !.type = Key(o, "type", ""), !.enum = Key(o, "enum", NoNode),
                          !.rank = Key(o, "rank", -1), !.writable = Key(o, "writable", FALSE),
                          !.sim = Key(o, "sim", DefaultSim)]

ActionToJson(a) == IF a.mode = "Literal" /\ a.literal # "none" THEN a ELSE Without(a, {"literal"})
ActionFromJson(o) ==
  [NewAction EXCEPT !.target = o.target, !.mode = ModeOf(o.mode),
                    !.literal = Key(o, "literal", "none"), !.delay = o.delay]

MapSeq(Op(_), s) == [i \in DOMAIN s |-> Op(s[i])]

(* Serializer::save() and load(): a file has a version, which only the         *)
(* known ones pass.  Rules and security came later: older files lack them.     *)
FormatVersion == 1
ToJson(p) ==
  [version |-> FormatVersion,
   data |-> [p EXCEPT !.nodes = MapSeq(NodeToJson, p.nodes),
                      !.rules = MapSeq(LAMBDA r : [r EXCEPT !.actions =
                                                   MapSeq(ActionToJson, r.actions)], p.rules)]]
FromJson(file) ==
  LET d == file.data
  IN  [namespaces |-> d.namespaces, enums |-> d.enums, nodes |-> MapSeq(NodeFromJson, d.nodes),
       rules |-> MapSeq(LAMBDA r : [r EXCEPT !.actions = MapSeq(ActionFromJson, r.actions)],
                        Key(d, "rules", <<>>)),
       security |-> Key(d, "security", DefaultSecurity), port |-> Key(d, "port", DefaultPort) % Quint16Size]
NoFile == [version |-> 0]
Loads(file) == file.version \in 1 .. FormatVersion

-----------------------------------------------------------------------------
(* NodeSet2.  A document is the namespace URIs, the data types and the          *)
(* elements; a reference to a base type is <<0, name>>.                       *)

BaseType(name) == <<0, name>>
Objects == <<0, "Objects">>

ExportNode(n) ==
  [element |-> IF Variable(n) THEN "UAVariable" ELSE "UAObject", id |-> n.id, name |-> n.name,
   type |-> IF ~Variable(n) THEN NoNode
            ELSE IF n.enum # NoNode THEN n.enum ELSE BaseType(n.type),
   rank |-> IF Variable(n) /\ n.rank = 1 THEN 1 ELSE 0,
   definition |-> IF n.kind = "Folder" THEN "FolderType" ELSE "other",
   ref |-> IF n.kind = "Folder" THEN "Organizes" ELSE "HasComponent",
   parent |-> IF n.parent = NoNode THEN Objects ELSE n.parent]

ExportDocument(p) ==
  [uris |-> p.namespaces,
   types |-> MapSeq(LAMBDA e : [id |-> e.id, name |-> e.name, entries |-> e.entries,
                                definition |-> TRUE], p.enums),
   elements |-> MapSeq(ExportNode, p.nodes)]

(* importFromFile(): a data type of another namespace is taken for an            *)
(* enumeration, a base type that is not built in for Int32, and an alias the     *)
(* document does not explain, <<text>>, for the name of a type.               *)
Custom(t) == Len(t) = 3
ImportType(t) ==
  CASE Len(t) = 1 -> t[1]
    [] Len(t) = 2 /\ t[2] \in Builtin -> t[2]
    [] OTHER -> "Int32"
ImportNode(e) ==
  LET common == [NewNode EXCEPT !.id = e.id, !.name = e.name,
                                !.parent = IF e.parent = Objects THEN NoNode ELSE e.parent]
  IN  IF e.element = "UAObject"
      THEN [common EXCEPT !.kind = IF e.definition = "FolderType" \/ e.ref = "Organizes"
                                   THEN "Folder" ELSE "Object"]
      ELSE [common EXCEPT !.kind = "Variable", !.rank = IF e.rank = 1 THEN 1 ELSE -1,
                          !.enum = IF Custom(e.type) THEN e.type ELSE NoNode,
                          !.type = ImportType(e.type)]

Imported(doc) ==
  LET types    == Keep(doc.types, {t \in ToSet(doc.types) : t.definition})
      elements == Keep(doc.elements, {e \in ToSet(doc.elements) :
                                        e.element \in {"UAObject", "UAVariable"}})
  IN  [namespaces |-> doc.uris, enums |-> MapSeq(LAMBDA t : Without(t, {"definition"}), types),
       nodes |-> MapSeq(ImportNode, elements)]

(* importNodeSet() replaces the address space of p and drops its rules.        *)
WithImported(p, doc) ==
  LET r == Imported(doc)
  IN  [p EXCEPT !.namespaces = IF r.namespaces # <<>> THEN r.namespaces ELSE p.namespaces,
                !.enums = r.enums, !.nodes = r.nodes, !.rules = <<>>]

-----------------------------------------------------------------------------
(* applyCloneSnapshot(): the project made of the nodes of a connected server,   *)
(* parents first.                                                            *)

(* nsIndexMap: the namespaces in the order they are met.                      *)
MetNamespaces(nodes) ==
  LET f[k \in 0 .. Len(nodes)] ==
        IF k = 0 THEN <<>>
        ELSE LET met == f[k - 1]
                 ns  == IdNs(nodes[k].id)
             IN  IF ParsedOk(nodes[k].id) /\ ns # 0 /\ ns \notin ToSet(met)
                 THEN Append(met, ns) ELSE met
  IN  f[Len(nodes)]

(* remapId().                                                                *)
RemapId(met, id) ==
  IF ~ParsedOk(id) \/ IdNs(id) \notin ToSet(met) THEN id
  ELSE NodeId(CHOOSE k \in DOMAIN met : met[k] = IdNs(id), id[2], id[3])

(* Paths and ids of the renamed nodes: the parent's path and the name, made     *)
(* unique.                                                                   *)
ParentsAt(nodes, i) == {j \in 1 .. i - 1 : nodes[j].id = nodes[i].parent}
SlugIds(nodes) ==
  LET path[i \in DOMAIN nodes] ==
        LET above == ParentsAt(nodes, i)
        IN  IF above = {} THEN <<nodes[i].name>>
            ELSE Append(path[CHOOSE j \in above : TRUE], nodes[i].name)
  IN  [i \in DOMAIN nodes |->
        NodeId(1, path[i], Cardinality({j \in 1 .. i - 1 : path[j] = path[i]}) + 1)]

ClonedNode(c, id, parent) ==
  LET n == [NewNode EXCEPT !.id = id, !.name = c.name, !.parent = parent]
  IN  IF c.class = "Variable"
      THEN [n EXCEPT !.kind = "Variable", !.rank = IF c.rank >= 1 THEN 1 ELSE -1,
                     !.type = IF c.type \in Builtin THEN c.type ELSE "Int32",
                     !.writable = TRUE]
      ELSE [n EXCEPT !.kind = IF c.folder THEN "Folder" ELSE "Object"]

CloneToProject(source, preserve, uris) ==
  LET nodes  == Keep(source, {c \in ToSet(source) : c.class \in {"Object", "Variable"}})
      met    == MetNamespaces(source)
      slugs  == SlugIds(nodes)
      NewId(i) == IF preserve THEN RemapId(met, nodes[i].id) ELSE slugs[i]
      Parent(i) == IF ParentsAt(nodes, i) = {} THEN NoNode
                   ELSE NewId(CHOOSE j \in ParentsAt(nodes, i) : TRUE)
  IN  [NewProjectData EXCEPT
         !.namespaces = IF preserve THEN [k \in DOMAIN met |-> uris[met[k]]] ELSE <<"clone">>,
         !.nodes = [i \in DOMAIN nodes |-> ClonedNode(nodes[i], NewId(i), Parent(i))]]

-----------------------------------------------------------------------------
(* ServerNodeModel::setNodes(): a node whose parent is missing, or itself, is   *)
(* at the top.  Of two nodes with one id the later is the parent.            *)
ShownParent(p, n) == IF n.parent \in Ids(p.nodes) \ {n.id} THEN n.parent ELSE NoNode
Shown(p) ==
  Hanging({<<n.id, ShownParent(p, n)>> : n \in ToSet(p.nodes)}, {NoNode}) \ {NoNode}
=============================================================================
