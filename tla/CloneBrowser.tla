---------------------------- MODULE CloneBrowser ----------------------------
(***************************************************************************)
(* The walk over a server's address space behind "clone server"            *)
(* (src/core/clonebrowser.cpp): browse a node, read the attributes of      *)
(* its variables, go on with what was found, and report once when the last *)
(* node of the last subtree is settled or the timeout strikes.             *)
(*                                                                         *)
(* m_visited admits a node id once, so a WorkNode is its node id.  The      *)
(* backend answers each request when it likes or never; a session that is   *)
(* lost half way is one that never answers again.                           *)
(***************************************************************************)
EXTENDS Naturals, FiniteSets

CONSTANTS
  Nodes,      \* node ids of the server
  Root,       \* m_rootNodeId
  Variables,  \* nodes of class Variable
  Graphs,     \* the hierarchical references a server may have, cycles included
  Parts,      \* the attributes read of a variable
  MaxDepth,   \* kMaxDepth
  MaxNodes,   \* kMaxNodes
  None

ASSUME WalkAssumption ==
  /\ IsFiniteSet(Nodes) /\ Root \in Nodes /\ None \notin Nodes
  /\ Variables \subseteq Nodes
  /\ Graphs \subseteq [Nodes -> SUBSET Nodes]
  /\ Parts # {} /\ MaxDepth \in Nat \ {0} /\ MaxNodes \in Nat \ {0}

VARIABLES
  refs,       \* the server's references: refs[n] is the set of n's targets
  stage,      \* "new", "walking", "finished" (m_finished) or "deleted"
  status,     \* of each WorkNode, "none" where there is none
  parent,     \* WorkNode::parent
  above,      \* the chain of parent pointers of each WorkNode
  received,   \* WorkNode::received
  pending,    \* WorkNode::pendingChildren
  truncated,  \* m_truncated
  reports,    \* number of finished() signals
  report,     \* the last of them
  failed      \* history: a browse was refused or answered with an error

treeVars == <<status, parent, above, received, pending, truncated, failed>>
vars     == <<refs, stage, treeVars, reports, report>>

Statuses == {"none", "reading", "browsing", "waiting", "done"}

Items(st) == {n \in Nodes : st[n] # "none"}
Depth(n)  == Cardinality(above[n])

-----------------------------------------------------------------------------
(* How a node starts: resolveNode() and browseNode() as far as they run at   *)
(* once.  A request that is refused, or a node the client does not yield,    *)
(* settles the node; a variable whose read is refused is browsed all the same. *)

BrowseStarts(depth) == IF depth >= MaxDepth THEN {"done"} ELSE {"browsing", "done"}

Starts(n, depth) ==
  BrowseStarts(depth) \cup (IF n \in Variables \ {Root} THEN {"reading"} ELSE {})

(* finalizeNode(n): n, and every ancestor whose last open child is the one   *)
(* below it.                                                                *)

FinalizeNode(n) ==
  {n} \cup {a \in above[n] :
              \A b \in above[n] : a = b \/ a \in above[b] => pending[b] = 1}

(* emitResult(): once, and only then is the timer stopped and the browser     *)
(* deleted.  "whole" tells the walk's own end from the timeout.              *)
EmitResult_Always(st, whole) ==   \* mutant: the m_finished guard is gone
  /\ stage' = IF stage = "walking" THEN "finished" ELSE stage
  /\ reports' = reports + 1
  /\ report' = [nodes |-> Items(st) \ {Root}, whole |-> whole,
                success |-> Items(st) \ {Root} # {}, truncated |-> truncated']

EmitResult(st, whole) ==
  IF stage = "finished" THEN UNCHANGED <<stage, reports, report>>
  ELSE /\ stage' = "finished"
       /\ reports' = reports + 1
       /\ report' = [nodes |-> Items(st) \ {Root}, whole |-> whole,
                     success |-> Items(st) \ {Root} # {}, truncated |-> truncated']

(* The nodes of "closed" are settled, each one less to wait for above it.    *)
Settle(closed, st, pend) ==
  /\ status' = [n \in Nodes |-> IF n \in closed THEN "done" ELSE st[n]]
  /\ pending' = [n \in Nodes |-> pend[n] - Cardinality({c \in closed : parent[c] = n})]
  /\ IF Root \in closed THEN EmitResult(st, TRUE) ELSE UNCHANGED <<stage, reports, report>>

-----------------------------------------------------------------------------
(* start(), called by OpcUaService::browseForClone() over a live session.    *)
Start ==
  /\ stage = "new"
  /\ UNCHANGED <<parent, above, received, truncated, pending>>
  /\ \E s \in Starts(Root, 0) :
       /\ status' = [status EXCEPT ![Root] = s]
       /\ failed' = (s = "done")
       /\ IF s = "done" THEN EmitResult(status', TRUE)
          ELSE stage' = "walking" /\ UNCHANGED <<reports, report>>

Alive == stage \in {"walking", "finished"}

(* handleAttributes() of an item that was classified before does nothing;     *)
(* some backends deliver the attributes in several emissions.                *)
HandleAttributes_Again(n, parts) ==   \* mutant: a repeated emission browses again
  /\ Alive /\ n \in Variables /\ status[n] \notin {"none", "done"}
  /\ received' = [received EXCEPT ![n] = @ \cup parts]
  /\ UNCHANGED <<parent, above, truncated>>
  /\ IF received'[n] # Parts
     THEN UNCHANGED <<stage, status, pending, reports, report, failed>>
     ELSE \E s \in BrowseStarts(Depth(n)) :
            /\ failed' = (failed \/ (s = "done" /\ Depth(n) < MaxDepth))
            /\ Settle(IF s = "done" THEN FinalizeNode(n) ELSE {},
                      [status EXCEPT ![n] = s], pending)

HandleAttributes(n, parts) ==
  /\ Alive /\ status[n] = "reading"
  /\ received' = [received EXCEPT ![n] = @ \cup parts]
  /\ UNCHANGED <<parent, above, truncated>>
  /\ IF received'[n] # Parts
     THEN UNCHANGED <<stage, status, pending, reports, report, failed>>
     ELSE \E s \in BrowseStarts(Depth(n)) :
            /\ failed' = (failed \/ (s = "done" /\ Depth(n) < MaxDepth))
            /\ Settle(IF s = "done" THEN FinalizeNode(n) ELSE {},
                      [status EXCEPT ![n] = s], pending)

(* The references of an answer that become children: none once the cap is     *)
(* reached, none that was visited.  m_totalNodes counts the nodes resolved,   *)
(* which are all that were created when an answer comes.                     *)
Full == Cardinality(Items(status)) >= MaxNodes

NewChildren(found) ==
  IF Full THEN {} ELSE {k \in found : status[k] = "none"}

Truncates(found) == Full /\ found # {}

(* browseFinished(): an answer with an error brings no references.          *)
HandleBrowse(n, found) ==
  /\ Alive /\ status[n] = "browsing"
  /\ truncated' = (truncated \/ Truncates(found))
  /\ LET kids == NewChildren(found)
     IN /\ parent' = [k \in Nodes |-> IF k \in kids THEN n ELSE parent[k]]
        /\ above' = [k \in Nodes |-> IF k \in kids THEN above[n] \cup {n} ELSE above[k]]
        /\ UNCHANGED received
        /\ \E begin \in [kids -> Statuses] :
             /\ \A k \in kids : begin[k] \in Starts(k, Depth(n) + 1)
             /\ LET open == {k \in kids : begin[k] # "done"}
                    st == [m \in Nodes |-> IF m \in kids THEN begin[m]
                                           ELSE IF m = n THEN "waiting" ELSE status[m]]
                IN /\ failed' = (failed \/ found # refs[n]
                                 \/ (open # kids /\ Depth(n) + 1 < MaxDepth))
                   /\ Settle(IF open = {} THEN FinalizeNode(n) ELSE {}, st,
                             [pending EXCEPT ![n] = Cardinality(open)])

Timeout_Assembled ==   \* mutant: a walk that found nothing is not reported
  /\ stage = "walking" /\ Items(status) # {Root}
  /\ UNCHANGED treeVars
  /\ EmitResult(status, FALSE)

(* "Emit whatever was assembled so the request is always answered."          *)
Timeout ==
  /\ stage = "walking"
  /\ UNCHANGED treeVars
  /\ EmitResult(status, FALSE)

(* deleteLater(): answers queued before it are still handled.               *)
Deleted ==
  /\ stage = "finished"
  /\ stage' = "deleted"
  /\ UNCHANGED <<treeVars, reports, report>>

-----------------------------------------------------------------------------
Init ==
  /\ refs \in Graphs
  /\ stage = "new"
  /\ status = [n \in Nodes |-> "none"]
  /\ parent = [n \in Nodes |-> None] /\ above = [n \in Nodes |-> {}]
  /\ received = [n \in Nodes |-> {}] /\ pending = [n \in Nodes |-> 0]
  /\ truncated = FALSE /\ failed = FALSE
  /\ reports = 0 /\ report = None

Answer ==
  \/ \E n \in Nodes, parts \in SUBSET Parts \ {{}} : HandleAttributes(n, parts)
  \/ \E n \in Nodes : \E found \in {refs[n], {}} : HandleBrowse(n, found)

Next == (Start \/ Answer \/ Timeout \/ Deleted) /\ UNCHANGED refs

(* The timer is real; no server owes an answer.                             *)
Spec == Init /\ [][Next]_vars /\ WF_vars(Timeout /\ UNCHANGED refs)

-----------------------------------------------------------------------------
(* Properties.                                                             *)

(* Types; the work nodes form a tree below the root.                        *)
TypeOK ==
  /\ stage \in {"new", "walking", "finished", "deleted"}
  /\ status \in [Nodes -> Statuses]
  /\ received \in [Nodes -> SUBSET Parts] /\ pending \in [Nodes -> Nat]
  /\ \A n \in Items(status) \ {Root} :
       parent[n] \in Items(status) /\ above[n] = above[parent[n]] \cup {parent[n]}
  /\ above[Root] = {}
  /\ truncated \in BOOLEAN /\ failed \in BOOLEAN /\ reports \in Nat

Children(n) == {c \in Items(status) : parent[c] = n}

(* "Finalize each node exactly once so a parent's pending-child count can     *)
(* never be decremented twice" (structurednodereader.cpp:360): a node waits   *)
(* for exactly its children that are not settled, and for nothing it has not  *)
(* browsed, however answers, refusals and repeated emissions interleave.     *)
PendingIsExact ==
  \A n \in Items(status) :
    /\ pending[n] = Cardinality({c \in Children(n) : status[c] # "done"})
    /\ status[n] = "waiting" <=> pending[n] > 0
    /\ status[n] \in {"reading", "browsing"} => Children(n) = {}

(* "Emitted once when the subtree is assembled" (clonebrowser.h): a walk is    *)
(* reported once, by its root or by its timeout, whichever is first.          *)
ReportedOnce ==
  /\ reports = (IF stage \in {"new", "walking"} THEN 0 ELSE 1)
  /\ status[Root] = "done" => reports = 1

(* The cap "guarding against runaway or cyclic address spaces" is passed by    *)
(* less than the new children of one answer, although answers to many other   *)
(* browses are still to come.                                               *)
CapHolds ==
  Cardinality(Items(status)) > MaxNodes =>
    \E n \in Items(status) : Cardinality(Items(status)) < MaxNodes + Cardinality(Children(n))

(* A walk that ended by itself leaves nothing open, and reports the whole of   *)
(* the subtree unless it says it was truncated, a browse failed, or the depth *)
(* cap stopped it; until then it waits for exactly what is open               *)
(* (PendingIsExact), and it stays within its cap (CapHolds).                 *)
WholeSubtree ==
  /\ TypeOK /\ PendingIsExact /\ CapHolds
  /\ report # None /\ report.whole =>
       /\ \A n \in Items(status) : status[n] = "done"
       /\ report.nodes = Items(status) \ {Root}
       /\ ~report.truncated /\ ~failed /\ (\A n \in Items(status) : Depth(n) < MaxDepth) =>
            \A n \in Items(status) : refs[n] \subseteq Items(status)

(* "So the request is always answered": a walk ends although servers may not   *)
(* answer.                                                                  *)
WalkEnds == stage = "walking" ~> stage # "walking"
=============================================================================
