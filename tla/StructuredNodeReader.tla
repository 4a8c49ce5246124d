------------------------ MODULE StructuredNodeReader ------------------------
(***************************************************************************)
(* The reader behind the View panel (src/core/structurednodereader.cpp): it  *)
(* reads a node, classifies it, goes on with the members of a structure or    *)
(* the elements of an array, and reports one tree of values when everything   *)
(* below the root is settled or its timeout strikes.                          *)
(*                                                                           *)
(* No node is remembered as visited, so a ReadNode is the path that leads to  *)
(* it.  A value is abstracted to the kind it is classified as; an "inline"    *)
(* array brings its elements with its value.  The backend answers each        *)
(* request when it likes or never, an attribute in several emissions.         *)
(***************************************************************************)
EXTENDS Integers, Sequences, FiniteSets, SequencesExt, FiniteSetsExt

CONSTANTS
  ReadRoot,      \* m_rootNodeId
  Shapes,        \* what a server may hold: kind and members of each node
  ElementIndex,  \* the index in a node's label, -1 where there is none
  Required,      \* Value, DataType and ValueRank
  MaxReadDepth,  \* kMaxDepth
  MaxReadNodes   \* kMaxNodes

(* What a browse of a structure or an array names, and a server names a member of  *)
(* a node once (a node reached twice is two ReadNodes, by two paths).         *)
Kinds == {"scalar", "inline", "struct", "array"}

ASSUME ReaderAssumption ==
  /\ Required # {} /\ MaxReadDepth \in Nat /\ MaxReadNodes \in Nat
  /\ \A s \in Shapes :
       /\ ReadRoot \in DOMAIN s
       /\ \A n \in DOMAIN s :
            /\ s[n].kind \in Kinds /\ s[n].members \in Seq(DOMAIN s)
            /\ \A k, l \in DOMAIN s[n].members : k # l => s[n].members[k] # s[n].members[l]
            /\ s[n].kind \in {"struct", "array"} \/ s[n].members = <<>>
            /\ ElementIndex[n] \in Int

VARIABLES
  shape,    \* the server: shape[n] = [kind, members]
  phase,    \* "new", "reading", "finished" (m_finished) or "deleted"
  tree,     \* the ReadNodes by their path
  resolved, \* m_totalNodes
  answers,  \* number of finished() signals
  answer,   \* the last of them
  missed    \* history: a node was refused, its read failed or its browse did

readerVars == <<shape, phase, tree, resolved, answers, answer, missed>>

ReadId(p)    == Last(p)
ParentOf(p) == Front(p)
ReadDepth(p) == Len(p) - 1
Below(t, p) == {q \in DOMAIN t : Len(q) = Len(p) + 1 /\ ParentOf(q) = p}
Chain(p)    == {SubSeq(p, 1, k) : k \in 1..Len(p)}   \* p and everything above it

NoTree == [tree |-> <<>>, whole |-> FALSE]

ReadNode == [at |-> "reading", got |-> {}, kind |-> "scalar", pendingChildren |-> 0,
             children |-> <<>>]

-----------------------------------------------------------------------------
(* emitResult(): also what the timeout has assembled so far is a success.    *)
EmitTree(t, whole) ==
  IF phase = "finished" THEN UNCHANGED <<phase, answers, answer>>
  ELSE /\ phase' = "finished"
       /\ answers' = answers + 1
       /\ answer' = [tree |-> t, whole |-> whole]

(* finalizeNode(): p, and each ancestor for which it is the last to wait for. *)
Finalized(t, p) ==
  {q \in Chain(p) : \A a \in Chain(p) : Len(q) <= Len(a) /\ a # p => t[a].pendingChildren = 1}

Finalize(t, p) ==
  LET closed == Finalized(t, p)
  IN /\ tree' = [q \in DOMAIN t |->
                   [t[q] EXCEPT !.at = IF q \in closed THEN "done" ELSE @,
                                !.pendingChildren =
                                  @ - Cardinality({c \in closed : Len(c) > 1 /\ ParentOf(c) = q})]]
     /\ IF <<ReadRoot>> \in closed THEN EmitTree(tree', TRUE)
        ELSE UNCHANGED <<phase, answers, answer>>

(* resolveNode(): read, or settled at once when the client refuses.          *)
Resolutions == {ReadNode, [ReadNode EXCEPT !.at = "done"]}

StartReader ==
  /\ phase = "new"
  /\ resolved' = 1
  /\ \E begin \in Resolutions :
       /\ tree' = [p \in {<<ReadRoot>>} |-> begin]
       /\ missed' = (begin.at = "done")
       /\ IF begin.at = "done" THEN EmitTree(tree', TRUE)
          ELSE phase' = "reading" /\ UNCHANGED <<answers, answer>>
  /\ UNCHANGED shape

Handles(p, at) == phase \in {"reading", "finished"} /\ tree[p].at = at

-----------------------------------------------------------------------------
(* handleAttributes(): classified once, when all it needs has arrived.  A     *)
(* value that could not be read is an empty scalar; the children of an array  *)
(* of scalars are there at once, those of any other structure are browsed.    *)
Classifiable_Early(got) == got # {}   \* mutant: with the first emission
Classifiable(got) == got = Required

(* Of an array whose value could not be read its rank may still be known.    *)
TakenFor(n) ==
  {shape[n].kind, "scalar"} \cup (IF shape[n].kind = "inline" THEN {"array"} ELSE {})

ReadAttributes(p, parts) ==
  /\ Handles(p, "reading")
  /\ LET got == tree[p].got \cup parts
         seen == [tree EXCEPT ![p].got = got]
     IN IF ~Classifiable(got)
        THEN tree' = seen /\ UNCHANGED <<phase, answers, answer, missed>>
        ELSE \E kind \in TakenFor(ReadId(p)) :
               LET t == [seen EXCEPT ![p].kind = IF Required \subseteq got THEN kind ELSE "scalar"]
                   browses == t[p].kind \in {"struct", "array"}
               IN /\ missed' = (missed \/ kind # shape[ReadId(p)].kind)
                  /\ \/ Finalize(t, p) /\ ~browses
                     \/ /\ browses
                        /\ tree' = [t EXCEPT ![p].at = "browsing"]
                        /\ UNCHANGED <<phase, answers, answer>>
  /\ UNCHANGED <<shape, resolved>>

(* browseChildren() is refused.                                            *)
BrowseRefused(p, parts) ==
  /\ Handles(p, "reading")
  /\ tree[p].got \cup parts = Required
  /\ shape[ReadId(p)].kind \in {"struct", "array"}
  /\ missed' = TRUE
  /\ Finalize([tree EXCEPT ![p].got = Required, ![p].kind = shape[ReadId(p)].kind], p)
  /\ UNCHANGED <<shape, resolved>>

(* The order of the children: std::sort() puts elements by their index, those of *)
(* one index in any order; members stay as they were browsed.                 *)
Ordered(kind, members) ==
  IF kind # "array" THEN {members}
  ELSE {s \in [DOMAIN members -> ToSet(members)] :
          /\ ToSet(s) = ToSet(members)
          /\ \A k, l \in DOMAIN s : k < l => ElementIndex[s[k]] <= ElementIndex[s[l]]}

(* handleBrowse(): nothing below the depth cap, nothing once the node cap is  *)
(* reached (it counts the nodes resolved, not those this answer adds).        *)
HandleChildren(p, found) ==
  /\ Handles(p, "browsing")
  /\ \E kids \in IF ReadDepth(p) >= MaxReadDepth \/ resolved >= MaxReadNodes THEN {<<>>}
                 ELSE Ordered(tree[p].kind, found) :
       LET new == {Append(p, kids[k]) : k \in DOMAIN kids}
       IN /\ resolved' = resolved + Len(kids)
          /\ \E begin \in [new -> Resolutions] :
               LET open == {q \in new : begin[q].at = "reading"}
                   t == [q \in DOMAIN tree \cup new |->
                           IF q \in new THEN begin[q]
                           ELSE IF q = p THEN [tree[p] EXCEPT !.at = "waiting", !.children = kids,
                                                              !.pendingChildren = Cardinality(open)]
                           ELSE tree[q]]
               IN /\ missed' = (missed \/ found # shape[ReadId(p)].members \/ open # new)
                  /\ IF open = {} THEN Finalize(t, p)
                     ELSE tree' = t /\ UNCHANGED <<phase, answers, answer>>
  /\ UNCHANGED shape

ReaderTimeout ==
  /\ phase = "reading"
  /\ EmitTree(tree, FALSE)
  /\ UNCHANGED <<shape, tree, resolved, missed>>

(* deleteLater(): answers queued before it are still handled.               *)
ReaderDeleted ==
  /\ phase = "finished"
  /\ phase' = "deleted"
  /\ UNCHANGED <<shape, tree, resolved, answers, answer, missed>>

-----------------------------------------------------------------------------
ReaderInit ==
  /\ shape \in Shapes
  /\ phase = "new" /\ tree = <<>> /\ resolved = 0
  /\ answers = 0 /\ answer = NoTree /\ missed = FALSE

ReaderNext ==
  \/ StartReader
  \/ \E p \in DOMAIN tree, parts \in SUBSET Required \ {{}} :
       ReadAttributes(p, parts) \/ BrowseRefused(p, parts)
  \/ \E p \in DOMAIN tree : \E found \in {shape[ReadId(p)].members, <<>>} : HandleChildren(p, found)
  \/ ReaderTimeout
  \/ ReaderDeleted

ReaderSpec == ReaderInit /\ [][ReaderNext]_readerVars

-----------------------------------------------------------------------------
(* One tree is reported, by the root or by the timeout, whichever is first.   *)
(* Unless the timeout cut it short, every node of it is settled; and unless   *)
(* something was refused or a cap was met, it is the server's structure: each *)
(* node as what it is, each with all its members, elements by their index.    *)
ValueTreeIsWhole ==
  /\ answers = (IF answer = NoTree THEN 0 ELSE 1)
  /\ phase = "reading" => tree[<<ReadRoot>>].at # "done"
  /\ \A p \in DOMAIN tree :
       tree[p].pendingChildren = Cardinality({q \in Below(tree, p) : tree[q].at # "done"})
  /\ answer # NoTree /\ answer.whole =>
       LET t == answer.tree
       IN \A p \in DOMAIN t :
            /\ t[p].at = "done"
            /\ \A k, l \in DOMAIN t[p].children :
                 t[p].kind = "array" /\ k < l =>
                   ElementIndex[t[p].children[k]] <= ElementIndex[t[p].children[l]]
            /\ ~missed =>
                 /\ t[p].kind = shape[ReadId(p)].kind
                 /\ \/ ToSet(t[p].children) = ToSet(shape[ReadId(p)].members)
                    \/ t[p].kind \in {"struct", "array"} /\ t[p].children = <<>>
                       /\ (ReadDepth(p) >= MaxReadDepth \/ resolved >= MaxReadNodes)
=============================================================================
