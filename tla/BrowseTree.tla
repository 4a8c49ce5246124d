----------------------------- MODULE BrowseTree -----------------------------
(***************************************************************************)
(* The lazily loaded address-space trees: two OpcUaModel instances         *)
(* (src/models/opcuamodel.cpp), the routing of their browse requests in    *)
(* OpcUaManager, and the browse and attribute-enrichment part of           *)
(* OpcUaService.                                                           *)
(*                                                                         *)
(* GUI and service exchange the FIFOs "requests" and "signals".  The       *)
(* server answers browses and reads in any order.  A node's children are   *)
(* its Kids or, when the server's address space has changed, none; a node  *)
(* stands for its id and its display name.                                 *)
(***************************************************************************)
EXTENDS Naturals, Sequences, FiniteSets

CONSTANTS
  Nodes,          \* node ids
  Root,           \* the RootFolder
  Kids,           \* Kids[n]: the children of n
  Methods,        \* nodes of class Method, which have no children to fetch
  Chunks,         \* Chunks[n]: reads it takes to enrich the variables among n's children
  Paths,          \* paths, below Root, a row of the data view may ask to reveal
  Pinned,         \* focus nodes stored in projects
  SearchQueries,  \* search queries, each the set of the nodes it matches
  NoNode          \* an invalid index, or no focus node

Models == {"tree", "focus"}

ASSUME TreeAssumption ==
  /\ Root \in Nodes /\ NoNode \notin Nodes
  /\ Kids \in [Nodes -> SUBSET (Nodes \ {Root})]
  /\ \A n, k \in Nodes : n # k => Kids[n] \cap Kids[k] = {}
  /\ \A S \in (SUBSET Nodes) \ {{}} : \E top \in S : \A n \in S : top \notin Kids[n]   \* no cycles
  /\ \A n \in Methods : Kids[n] = {}
  /\ Chunks \in [Nodes -> Nat]
  /\ Paths \subseteq Seq(Nodes) \ {<<>>}
  /\ SearchQueries \subseteq SUBSET Nodes
  /\ Pinned \subseteq Nodes \cup {NoNode}

VARIABLES
  model,        \* model[m]: [active, root, items, pending, next, query, flagged]
  kick,         \* kick[m]: initial fetches of m waiting in the GUI's event loop
  reveal,       \* the tree's reveal: [active, path, depth, parent, wait, stale]; history:
                \* stale says the tree was reset since it began
  route,        \* m_browseRouting: browse id to [model, req]
  nextBrowse,   \* m_nextBrowseRequestId
  focusNode,    \* m_focusNodeId, NoNode when empty
  gConnected,   \* the facade's m_connected
  sConnected,   \* the service's m_clientConnected
  requests,     \* browse requests on their way to the service
  browsing,     \* browses the server works on
  enriching,    \* browse results whose variables are being read, in the order
                \* their handlers were connected: [id, node, kids, chunk]
  reads,        \* attribute reads the server works on: [id, node, chunk]
  signals       \* signals on their way to the GUI

guiVars == <<model, kick, reveal, route, nextBrowse, focusNode, gConnected>>
serviceVars == <<sConnected, browsing, enriching, reads>>
treeVars == <<model, kick, reveal, route, nextBrowse, focusNode, gConnected, sConnected,
              requests, browsing, enriching, reads, signals>>

-----------------------------------------------------------------------------
With(f, x, v) == [y \in DOMAIN f \cup {x} |-> IF y = x THEN v ELSE f[y]]
Without(f, x) == [y \in DOMAIN f \ {x} |-> f[y]]

(* OpcUaModel.                                                             *)

Loaded(t) == DOMAIN t.items

(* A method has nothing to fetch, unless a model is rooted at it.             *)
CanFetch(t, n) ==
  n \in Loaded(t) /\ (n \in Methods => n = t.root) /\ t.items[n] \in {"NotFetched", "Error"}

(* rebuildSearchMatches(): the invisible root never matches.                *)
Flag(t) == [t EXCEPT !.flagged = (Loaded(t) \ {t.root}) \cap t.query]

Rebuilt_Stale(t) == t   \* mutant: the matches are not rebuilt

Rebuilt(t) == Flag(t)

(* The model reset of setConnectionActive() and setRootNode().              *)

ResetModel(t, active) ==
  Rebuilt([t EXCEPT !.active = active,
                    !.pending = <<>>,
                    !.items = IF active THEN [n \in {t.root} |-> "NotFetched"] ELSE <<>>])

(* fetchMore(n) of a model, up to the signal it emits.                      *)
MarkFetching(t, n) ==
  [t EXCEPT !.items[n] = "Fetching",
            !.next = t.next + 1,
            !.pending = With(t.pending, t.next + 1, n)]

(* The rows a snapshot of n brings, or an error.                            *)
Applied(t, n, kids, good) ==
  IF ~good THEN [t EXCEPT !.items[n] = "Error"]
  ELSE Rebuilt([t EXCEPT !.items = [i \in Loaded(t) \cup kids |->
                                      IF i = n THEN "Fetched"
                                      ELSE IF i \in kids THEN "NotFetched" ELSE t.items[i]]])

RouteFetch_KeepsId(m, t, n, routes) ==   \* mutant: the models' ids are sent as they are
  /\ route' = With(routes, t.next, [model |-> m, req |-> t.next])
  /\ requests' = Append(requests, [id |-> t.next, node |-> n])
  /\ nextBrowse' = nextBrowse + 1

(* routeFetch() over the table "routes": a browse id of the manager's own     *)
(* stands for the request that model m, now t, has just made.               *)
RouteFetch(m, t, n, routes) ==
  /\ nextBrowse' = nextBrowse + 1
  /\ route' = With(routes, nextBrowse', [model |-> m, req |-> t.next])
  /\ requests' = Append(requests, [id |-> nextBrowse', node |-> n])

FetchMore(m, n) ==
  LET t == MarkFetching(model[m], n)
  IN model' = [model EXCEPT ![m] = t] /\ RouteFetch(m, t, n, route)

NoFetch(routes) == route' = routes /\ UNCHANGED <<nextBrowse, requests>>

-----------------------------------------------------------------------------
(* Revealing a node: advanceReveal() over the tree t.                      *)

Idle ==
  [active |-> FALSE, path |-> <<>>, depth |-> 0, parent |-> NoNode, wait |-> NoNode,
         stale |-> FALSE]

(* A model reset invalidates the saved parent, a persistent index, and leaves *)
(* the rest of the reveal as it is.                                         *)
Stranded(r) == IF r.active THEN [r EXCEPT !.parent = NoNode, !.stale = TRUE] ELSE r

(* How far the path is loaded below the saved parent and depth.             *)
LoadedDepth(r, t) ==
  LET above(j) == IF j > r.depth + 1 THEN r.path[j - 1]
                  ELSE IF r.parent = NoNode THEN t.root ELSE r.parent
      reached == {k \in r.depth..Len(r.path) :
                    \A j \in r.depth + 1..k : r.path[j] \in Loaded(t) \cap Kids[above(j)]}
  IN CHOOSE k \in reached : \A j \in reached : j <= k

(* The level that stops the reveal: its parent item is fetched, is waited    *)
(* for, or lacks the segment for good.                                      *)
AdvanceReveal(r, t, routes) ==
  LET d  == LoadedDepth(r, t)
      p  == IF d > r.depth THEN r.path[d] ELSE r.parent
      at == IF p = NoNode THEN t.root ELSE p
      waiting  == [r EXCEPT !.depth = d, !.parent = p, !.wait = at]
      fetching == MarkFetching(t, at)
  IN IF d < Len(r.path) /\ t.items[at] = "Fetching"
     THEN reveal' = waiting /\ model' = [model EXCEPT !["tree"] = t] /\ NoFetch(routes)
     ELSE IF d < Len(r.path) /\ CanFetch(t, at)
     THEN /\ reveal' = waiting
          /\ model' = [model EXCEPT !["tree"] = fetching]
          /\ RouteFetch("tree", fetching, at, routes)
     ELSE reveal' = Idle /\ model' = [model EXCEPT !["tree"] = t] /\ NoFetch(routes)

(* maybeResumeReveal() when the level waited for could not be browsed.      *)
FailReveal_Waits(r) == r   \* mutant: the reveal goes on waiting

FailReveal(r) == Idle

(* A row selected in the data view, whose node the tree does not show yet.  *)
RequestRevealPath ==
  /\ \E path \in Paths :
       LET t == model["tree"]
           r == [active |-> TRUE, path |-> path, depth |-> 0, parent |-> NoNode,
                 wait |-> NoNode, stale |-> FALSE]
       IN /\ path[Len(path)] \notin Loaded(t)
          /\ IF t.active THEN AdvanceReveal(r, t, route)
             ELSE reveal' = Idle /\ UNCHANGED model /\ NoFetch(route)
  /\ UNCHANGED <<kick, focusNode, gConnected, serviceVars, signals>>

-----------------------------------------------------------------------------
(* The user at the two trees.                                              *)

ExpandNode(m, n) ==
  /\ n # model[m].root /\ CanFetch(model[m], n)
  /\ FetchMore(m, n)
  /\ UNCHANGED <<kick, reveal, focusNode, gConnected, serviceVars, signals>>

SetSearchQuery(m) ==
  /\ \E q \in SearchQueries :
       /\ q # model[m].query
       /\ model' = [model EXCEPT ![m] = Rebuilt([@ EXCEPT !.query = q])]
  /\ UNCHANGED <<kick, reveal, route, nextBrowse, focusNode, gConnected,
                 serviceVars, requests, signals>>

(* applyFocusNodeToModel() with focus node n: setRootNode(), then             *)
(* setConnectionActive().                                                   *)
FocusOn(n, focus) ==
  IF n = NoNode \/ ~gConnected'
  THEN IF focus.active THEN ResetModel(focus, FALSE) ELSE focus
  ELSE ResetModel([focus EXCEPT !.root = n], TRUE)

SetFocusNode ==
  /\ \E m \in Models : \E n \in Loaded(model[m]) \ {model[m].root} :
       /\ focusNode' = n
       /\ UNCHANGED gConnected
       /\ model' = [model EXCEPT !["focus"] = FocusOn(n, @)]
       /\ kick' = IF gConnected THEN [kick EXCEPT !["focus"] = @ + 1] ELSE kick
  /\ UNCHANGED <<reveal, route, nextBrowse, serviceVars, requests, signals>>

ClearFocusNode ==
  /\ focusNode # NoNode
  /\ focusNode' = NoNode
  /\ UNCHANGED gConnected
  /\ model' = [model EXCEPT !["focus"] = FocusOn(NoNode, @)]
  /\ UNCHANGED <<kick, reveal, route, nextBrowse, serviceVars, requests, signals>>

(* The singleShot(0) of a model reset.                                      *)
InitialFetch(m) ==
  /\ kick[m] > 0
  /\ kick' = [kick EXCEPT ![m] = @ - 1]
  /\ LET t == model[m]
     IN IF t.active /\ CanFetch(t, t.root) THEN FetchMore(m, t.root)
        ELSE UNCHANGED model /\ NoFetch(route)
  /\ UNCHANGED <<reveal, focusNode, gConnected, serviceVars, signals>>

-----------------------------------------------------------------------------
(* Signals of the service.                                                 *)

Signal(kind) == signals # <<>> /\ Head(signals).kind = kind /\ signals' = Tail(signals)
Sent == Head(signals)

(* applyConnected() over both models.                                        *)
ApplyConnected ==
  /\ Signal("connected")
  /\ gConnected' = Sent.up
  /\ IF Sent.up = gConnected THEN UNCHANGED <<model, kick, reveal, route>>
     ELSE LET tree == model["tree"]
          IN /\ model' = [m \in Models |-> IF m = "focus" THEN FocusOn(focusNode, model[m])
                                           ELSE IF tree.active = Sent.up THEN tree
                                           ELSE ResetModel(tree, Sent.up)]
             /\ kick' = [m \in Models |-> IF Sent.up /\ model'[m].active THEN kick[m] + 1
                                          ELSE kick[m]]
             /\ reveal' = Stranded(reveal)
             /\ route' = IF Sent.up THEN route ELSE <<>>
  /\ UNCHANGED <<nextBrowse, focusNode, serviceVars, requests>>

(* applyBrowseChildren(), then applyChildrenSnapshot() of the model asked.   *)
ApplyBrowseChildren ==
  /\ Signal("browsed")
  /\ LET m       == route[Sent.id].model
         req     == route[Sent.id].req
         t       == model[m]
         settled == [t EXCEPT !.pending = Without(t.pending, req)]
         answer  == Applied(settled, Sent.node, Sent.kids, Sent.good)
         routes  == Without(route, Sent.id)
     IN IF Sent.id \notin DOMAIN route \/ ~t.active \/ req \notin DOMAIN t.pending
        THEN UNCHANGED <<model, reveal>> /\ NoFetch(routes)
        ELSE IF t.pending[req] # Sent.node
        THEN model' = [model EXCEPT ![m] = settled] /\ UNCHANGED reveal /\ NoFetch(routes)
        ELSE IF m = "tree" /\ reveal.active /\ reveal.wait = Sent.node /\ Sent.good
        THEN AdvanceReveal([reveal EXCEPT !.wait = NoNode], answer, routes)
        ELSE /\ model' = [model EXCEPT ![m] = answer]
             /\ reveal' = IF m = "tree" /\ reveal.active /\ reveal.wait = Sent.node
                          THEN FailReveal(reveal) ELSE reveal
             /\ NoFetch(routes)
  /\ UNCHANGED <<kick, focusNode, gConnected, serviceVars>>

(* A project opened over a session: clearRuntimeState(), which asks for the   *)
(* end of the session (SessionDown), then applyProject().                   *)
SwitchProject ==
  /\ model' = [m \in Models |-> IF model[m].active THEN ResetModel(model[m], FALSE) ELSE model[m]]
  /\ reveal' = Stranded(reveal)
  /\ focusNode' \in Pinned
  /\ UNCHANGED <<kick, route, nextBrowse, gConnected, serviceVars, requests, signals>>

-----------------------------------------------------------------------------
(* The service.                                                            *)

Browsed(b, kids, good) ==
  [kind |-> "browsed", id |-> b.id, node |-> b.node, kids |-> kids, good |-> good]

(* browseChildren(): without a session, or when the client refuses, the      *)
(* answer is a failure.                                                     *)
BrowseChildren ==
  /\ requests # <<>>
  /\ requests' = Tail(requests)
  /\ \/ sConnected /\ browsing' = browsing \cup {Head(requests)} /\ UNCHANGED signals
     \/ signals' = Append(signals, Browsed(Head(requests), {}, FALSE)) /\ UNCHANGED browsing
  /\ UNCHANGED <<guiVars, sConnected, enriching, reads>>

(* The members of es at the places "is", in their order.                     *)
At(es, is) ==
  [k \in 1..Cardinality(is) |-> es[CHOOSE i \in is : Cardinality({j \in is : j <= i}) = k]]

(* readNext() of the entries "es", in order: the next chunk is read, or the   *)
(* children are emitted, with what was read, when no chunk is left or the    *)
(* client refuses the reads.                                                *)
ReadNext(es, others, pending, refused) ==
  LET goes  == {i \in DOMAIN es : ~refused /\ es[i].chunk < Chunks[es[i].node]}
      going == At(es, goes)
      done  == At(es, DOMAIN es \ goes)
      next  == [i \in DOMAIN going |-> [going[i] EXCEPT !.chunk = @ + 1]]
  IN /\ enriching' = others \o next
     /\ reads' = pending \cup {[id |-> next[i].id, node |-> next[i].node, chunk |-> next[i].chunk] :
                                 i \in DOMAIN next}
     /\ signals' = signals \o [i \in DOMAIN done |-> Browsed(done[i], done[i].kids, TRUE)]

(* enrichAndEmitBrowseChildren(): children without variables need no read.  *)
Enrich(b, kids, refused) ==
  ReadNext(<<[id |-> b.id, node |-> b.node, kids |-> kids,
              chunk |-> IF kids = {} THEN Chunks[b.node] ELSE 0]>>, enriching, reads, refused)

(* The children are those of the node or, when the server's address space    *)
(* has changed, none.                                                       *)
BrowseFinishes ==
  /\ \E b \in browsing :
       /\ browsing' = browsing \ {b}
       /\ \/ \E kids \in {Kids[b.node], {}}, refused \in BOOLEAN : Enrich(b, kids, refused)
          \/ signals' = Append(signals, Browsed(b, {}, FALSE)) /\ UNCHANGED <<enriching, reads>>
  /\ UNCHANGED <<guiVars, sConnected, requests>>

(* The result of a read reaches the handlers that wait for that chunk.  A     *)
(* failed read names no nodes: every waiting handler takes it for its own.  *)
ReadFinishes ==
  /\ \E r \in reads, good, refused \in BOOLEAN :
       LET claims == {i \in DOMAIN enriching :
                        good => enriching[i].node = r.node /\ enriching[i].chunk = r.chunk}
       IN ReadNext(At(enriching, claims), At(enriching, DOMAIN enriching \ claims),
                   reads \ {r}, refused)
  /\ UNCHANGED <<guiVars, sConnected, requests, browsing>>

SessionUp ==
  /\ ~sConnected
  /\ sConnected' = TRUE
  /\ signals' = Append(signals, [kind |-> "connected", up |-> TRUE])
  /\ UNCHANGED <<guiVars, requests, browsing, enriching, reads>>

(* What the server still worked on is answered later or never.              *)
SessionDown ==
  /\ sConnected
  /\ sConnected' = FALSE
  /\ signals' = Append(signals, [kind |-> "connected", up |-> FALSE])
  /\ \/ UNCHANGED <<browsing, reads>>
     \/ browsing' = {} /\ reads' = {}
  /\ UNCHANGED <<guiVars, requests, enriching>>

-----------------------------------------------------------------------------
TreeInit ==
  /\ model = [m \in Models |-> [active |-> FALSE, root |-> Root, items |-> <<>>, pending |-> <<>>,
                                next |-> 0, query |-> {}, flagged |-> {}]]
  /\ kick = [m \in Models |-> 0]
  /\ reveal = Idle
  /\ route = <<>>
  /\ nextBrowse = 0
  /\ focusNode \in Pinned
  /\ gConnected = FALSE /\ sConnected = FALSE
  /\ requests = <<>> /\ browsing = {} /\ enriching = <<>> /\ reads = {} /\ signals = <<>>

UserStep ==
  \/ \E m \in Models : SetSearchQuery(m) \/ \E n \in Loaded(model[m]) : ExpandNode(m, n)
  \/ RequestRevealPath
  \/ SetFocusNode
  \/ ClearFocusNode
  \/ SwitchProject

GuiStep == ApplyConnected \/ ApplyBrowseChildren \/ \E m \in Models : InitialFetch(m)

ServiceStep == BrowseChildren \/ BrowseFinishes \/ ReadFinishes \/ SessionUp \/ SessionDown

TreeNext == UserStep \/ GuiStep \/ ServiceStep

TreeSpec == TreeInit /\ [][TreeNext]_treeVars

-----------------------------------------------------------------------------
(* Properties.                                                             *)

(* A tree holds its root, and children only below a fetched node; what it     *)
(* waits for is a loaded node; requests have ids of their own.              *)
TreeOK(t) ==
  /\ DOMAIN t = {"active", "root", "items", "pending", "next", "query", "flagged"}
  /\ t.active = (t.items # <<>>) /\ t.active = (t.root \in Loaded(t))
  /\ \A n \in Loaded(t) \ {t.root} :
       \E p \in Loaded(t) : n \in Kids[p] /\ t.items[p] = "Fetched"
  /\ \A q \in DOMAIN t.pending : q <= t.next /\ t.pending[q] \in Loaded(t)

TreesOK ==
  /\ \A m \in Models : TreeOK(model[m]) /\ kick[m] \in Nat
  /\ model["tree"].root = Root
  /\ focusNode \in Nodes \cup {NoNode}
  /\ gConnected \in BOOLEAN /\ sConnected \in BOOLEAN
  /\ \A b \in DOMAIN route : b <= nextBrowse /\ route[b].model \in Models
  /\ \A i \in DOMAIN enriching : enriching[i].chunk \in 1..Chunks[enriching[i].node]

(* Who still works on browse id.                                            *)
UnderWay(id) ==
  \/ \E i \in DOMAIN requests : requests[i].id = id
  \/ \E b \in browsing : b.id = id
  \/ \E i \in DOMAIN enriching :
       LET e == enriching[i]
       IN e.id = id /\ [id |-> id, node |-> e.node, chunk |-> e.chunk] \in reads
  \/ \E i \in DOMAIN signals : signals[i].kind = "browsed" /\ signals[i].id = id

SessionEnds == \E i \in DOMAIN signals : signals[i].kind = "connected" /\ ~signals[i].up

(* "The children are always emitted and the tree never stays stuck            *)
(* fetching": a node shown as fetching has a request of its own model, whose *)
(* answer is on its way and is routed to it, or the session's end is queued. *)
FetchingIsAnswered ==
  /\ TreesOK
  /\ \A m \in Models : \A n \in Loaded(model[m]) :
       model[m].items[n] = "Fetching" /\ ~SessionEnds =>
         \E id \in DOMAIN route :
           /\ route[id].model = m
           /\ route[id].req \in DOMAIN model[m].pending
           /\ model[m].pending[route[id].req] = n
           /\ UnderWay(id)

(* The search highlights the loaded nodes that match the query, whatever     *)
(* was loaded, reset or re-rooted since it was typed.                       *)
SearchFlagsLoaded ==
  \A m \in Models :
    model[m].flagged = (Loaded(model[m]) \ {model[m].root}) \cap model[m].query

(* A reveal of the present tree waits for a level that is being fetched, so    *)
(* that some answer resumes or ends it.                                     *)
RevealWaits ==
  reveal.active /\ ~reveal.stale /\ model["tree"].active =>
    reveal.wait \in Loaded(model["tree"]) /\ model["tree"].items[reveal.wait] = "Fetching"
=============================================================================
