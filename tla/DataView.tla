------------------------------ MODULE DataView ------------------------------
(***************************************************************************)
(* The GUI side of NodeService: the Data View's table of monitored nodes   *)
(* (src/models/dataaccessmodel.cpp) with its trend histories, and the      *)
(* Attributes and View panels of the selected node, driven by the facade   *)
(* (src/qmlapi/opcuamanager.cpp).                                          *)
(*                                                                         *)
(* A row belongs to a server and a node, but subscriptions, values and     *)
(* histories know the node id only.  A live value is abstracted to the     *)
(* server it came from.                                                    *)
(***************************************************************************)
EXTENDS NodeService

CONSTANTS
  StoredRows,     \* the tables project files may hold
  MaxUserSteps    \* bound: how many times the user acts

(* A project file holds the rows a table had: none has a value yet.         *)
ASSUME StoredRowsAssumption ==
  /\ StoredRows \subseteq Seq([server : Servers, node : Nodes, interval : Intervals, value : {None}])
  /\ \A rs \in StoredRows : \A i, j \in DOMAIN rs :
       rs[i].node = rs[j].node /\ rs[i].server = rs[j].server => i = j
ASSUME StepsAssumption == MaxUserSteps \in Nat \ {0}

VARIABLES
  gConnected,  \* m_connected
  asking,      \* a connect was asked for: the form is locked until it is settled
  current,     \* m_currentServer
  browsed,     \* the address-space trees are filled
  rows,        \* m_dataModel
  paused,      \* m_updatesPaused
  trend,       \* nodes with samples in m_trendModel
  selected,    \* m_selectedNodeId
  nextId,      \* m_nextAttributeRequestId
  pending,     \* m_pendingAttributeRequestId and m_pendingStructuredRequestId
  shown,       \* the node whose attributes and whose value are on display
  heard,       \* history: the request of each panel whose answer arrived in time
  cut,         \* history: the session ended since the last request
  contested,   \* history: nodes that two rows named at a time in this session
  userSteps    \* user actions so far

tableVars == <<rows, paused, trend, contested>>
panelVars == <<selected, nextId, pending, shown, heard, cut>>
linkVars  == <<gConnected, asking, current, browsed>>
guiVars   == <<linkVars, tableVars, panelVars, userSteps>>
vars      == <<svcVars, guiVars>>

Row(server, n) == [server |-> server, node |-> n, interval |-> 0, value |-> None]
RowsOf(rs, n)  == {i \in DOMAIN rs : rs[i].node = n}
Shared(rs)     == {n \in Nodes : Cardinality(RowsOf(rs, n)) > 1}

(* The ticked nodes of the trees: rows of the current server.              *)
Ticked == {n \in Nodes : \E i \in RowsOf(rows, n) : rows[i].server = current}

SetRows(rs) == rows' = rs /\ contested' = contested \cup Shared(rs)

Post(commands) == cmds' = cmds \o commands
Order(op, n)   == [op |-> op, node |-> n]
Subscribe(row) == [op |-> "subscribe", node |-> row.node, interval |-> row.interval]
UserActs       == userSteps < MaxUserSteps /\ userSteps' = userSteps + 1

(* The first read counts double against the bound: runs with reads branch most. *)
UserReads ==
  /\ userSteps' = userSteps + (IF nextId = 0 THEN 2 ELSE 1)
  /\ userSteps' <= MaxUserSteps

-----------------------------------------------------------------------------
(* The session as the user commands it and the facade learns of it.        *)

AskConnect(s) ==
  /\ UserActs /\ ~gConnected /\ ~asking
  /\ asking' = TRUE /\ current' = s
  /\ Post(<<[op |-> "connect", server |-> s]>>)
  /\ UNCHANGED <<gConnected, browsed, tableVars, panelVars, evts>>

AskDisconnect ==
  /\ UserActs /\ gConnected
  /\ Post(<<[op |-> "disconnect"]>>)
  /\ UNCHANGED <<linkVars, tableVars, panelVars, evts>>

(* clearRuntimeState() and applyProject().  The value in the View panel and *)
(* the requests under way are left alone.                                   *)
SwitchProject(rs) ==
  /\ UserActs
  /\ Post(IF gConnected THEN <<[op |-> "disconnect"]>> ELSE <<>>)
  /\ browsed' = FALSE
  /\ SetRows(rs) /\ trend' = {} /\ paused' = FALSE
  /\ selected' = None
  /\ shown' = [shown EXCEPT !["attributes"] = None]
  /\ UNCHANGED <<gConnected, asking, current, nextId, pending, heard, cut, evts>>

ApplyConnected_KeepsValues(up) ==   \* mutant: the rows of a lost session stay filled
  IF up
  THEN /\ Post([i \in DOMAIN rows |-> Subscribe(rows[i])])
       /\ contested' = Shared(rows)
       /\ UNCHANGED <<rows, trend, shown, cut>>
  ELSE /\ UNCHANGED <<rows, cmds, contested>>
       /\ trend' = {}
       /\ shown' = [shown EXCEPT !["attributes"] = None]
       /\ cut' = TRUE

ApplyConnected(up) ==
  IF up
  THEN /\ Post([i \in DOMAIN rows |-> Subscribe(rows[i])])
       /\ contested' = Shared(rows)
       /\ UNCHANGED <<rows, trend, shown, cut>>
  ELSE /\ rows' = [i \in DOMAIN rows |-> [rows[i] EXCEPT !.value = None]]
       /\ trend' = {}
       /\ shown' = [shown EXCEPT !["attributes"] = None]
       /\ cut' = TRUE
       /\ UNCHANGED <<cmds, contested>>

Delivering(sig) == evts # <<>> /\ Head(evts).sig = sig /\ evts' = Tail(evts)
Sig == Head(evts)

ConnectedChanged ==
  /\ Delivering("connected")
  /\ asking' = FALSE
  /\ LET up == Sig.server # None
     IN IF up = gConnected
        THEN UNCHANGED <<gConnected, browsed, rows, trend, contested, shown, cut, cmds>>
        ELSE gConnected' = up /\ browsed' = up /\ ApplyConnected(up)
  /\ UNCHANGED <<current, paused, selected, nextId, pending, heard, userSteps>>

-----------------------------------------------------------------------------
(* The table.                                                              *)

(* setNodeMonitored(on), monitorChildVariables() and monitorNodeById(): one *)
(* node or several unticked ones of a browsed tree.                         *)
Tick(nodes) ==
  /\ UserActs /\ browsed
  /\ nodes # {} /\ nodes \cap Ticked = {}
  /\ LET order == SetToSeq(nodes)
         added == [k \in DOMAIN order |-> Row(current, order[k])]
     IN /\ SetRows(rows \o added)
        /\ Post(IF gConnected THEN [k \in DOMAIN added |-> Subscribe(added[k])] ELSE <<>>)
  /\ UNCHANGED <<linkVars, paused, trend, panelVars, evts>>

First(is) == {i \in is : \A j \in is : i <= j}

(* setNodeMonitored(off) removes the first row of the node, whosever it is, *)
(* and leaves its history.                                                 *)
Untick(n) ==
  /\ UserActs /\ browsed
  /\ n \in Ticked
  /\ \E i \in First(RowsOf(rows, n)) : SetRows(RemoveAt(rows, i))
  /\ Post(<<Order("unsubscribe", n)>>)
  /\ UNCHANGED <<linkVars, paused, trend, panelVars, evts>>

(* The one enumeration of a set of indexes in ascending order.              *)
Ascending(is) == {s \in [1..Cardinality(is) -> is] :
                    \A k \in DOMAIN s : \A m \in 1..(k - 1) : s[m] < s[k]}

(* removeNode() and removeNodes(), from the highest index down.            *)
RemoveNodes(is) ==
  /\ UserActs
  /\ is # {} /\ is \subseteq DOMAIN rows
  /\ \E kept \in Ascending(DOMAIN rows \ is), gone \in Ascending(is) :
       /\ SetRows([k \in DOMAIN kept |-> rows[kept[k]]])
       /\ Post(Reverse([k \in DOMAIN gone |-> Order("unsubscribe", rows[gone[k]].node)]))
  /\ trend' = trend \ {rows[i].node : i \in is}
  /\ UNCHANGED <<linkVars, paused, panelVars, evts>>

Resubscribe_Retunes(row) == <<Subscribe(row)>>   \* mutant: relies on a retune

(* A live item cannot be retuned: drop it, then ask for a new one.         *)
Resubscribe(row) == <<Order("unsubscribe", row.node), Subscribe(row)>>

SetSamplingInterval(i, interval) ==
  /\ UserActs
  /\ rows[i].interval # interval
  /\ SetRows([rows EXCEPT ![i].interval = interval])
  /\ Post(IF gConnected THEN Resubscribe([rows[i] EXCEPT !.interval = interval]) ELSE <<>>)
  /\ UNCHANGED <<linkVars, paused, trend, panelVars, evts>>

PauseUpdates ==
  /\ UserActs
  /\ paused' = ~paused
  /\ UNCHANGED <<linkVars, rows, trend, contested, panelVars, cmds, evts>>

(* Of a row not known to be read-only.                                     *)
WriteValue(i) ==
  /\ UserActs
  /\ Cardinality({k \in DOMAIN cmds : cmds[k].op = "write"}) +
       FoldSet(LAMBDA n, sum : sum + writes["monitored"][n] + writes["transient"][n],
               0, Nodes) < MaxWrites
  /\ Post(<<Order("write", rows[i].node)>>)
  /\ UNCHANGED <<linkVars, tableVars, panelVars, evts>>

(* A value reaches the history always, the table unless it is paused: the   *)
(* first row of the node, if there is one.                                  *)
ApplyMonitoredValue ==
  /\ Delivering("value")
  /\ trend' = trend \cup {Sig.node}
  /\ IF paused \/ RowsOf(rows, Sig.node) = {} THEN UNCHANGED rows
     ELSE \E i \in First(RowsOf(rows, Sig.node)) :
            rows' = [rows EXCEPT ![i].value = Sig.server]
  /\ UNCHANGED <<linkVars, paused, contested, panelVars, userSteps, cmds>>

(* The result is shown as a notice or an error; both leave the table alone. *)
ApplyWriteCompleted ==
  /\ Delivering("written")
  /\ UNCHANGED <<linkVars, tableVars, panelVars, userSteps, cmds>>

-----------------------------------------------------------------------------
(* The selected node's panels.                                             *)

ReadOrder(op, n, id) == [op |-> op, req |-> [node |-> n, id |-> id]]

(* requestAttributes() of a tree node and selectDataRow() of a row.         *)
SelectNode(n) ==
  /\ UserReads
  /\ browsed \/ RowsOf(rows, n) # {}
  /\ nextId' = nextId + 1
  /\ pending' = [panel \in Panels |-> nextId']
  /\ selected' = n /\ cut' = FALSE
  /\ Post(<<ReadOrder("readAttributes", n, nextId'), ReadOrder("readStructured", n, nextId')>>)
  /\ UNCHANGED <<linkVars, tableVars, shown, heard, evts>>

RefreshStructuredValue ==
  /\ UserReads
  /\ selected # None
  /\ nextId' = nextId + 1
  /\ pending' = [pending EXCEPT !["value"] = nextId']
  /\ Post(<<ReadOrder("readStructured", selected, nextId')>>)
  /\ UNCHANGED <<linkVars, tableVars, selected, shown, heard, cut, evts>>

IsCurrent(sig) == sig.id = pending[sig.panel]

(* applyNodeAttributes() and applyStructuredValue(): answers of superseded  *)
(* requests are ignored, a failed read empties the panel.  A node without a *)
(* value leaves the View panel empty too.                                   *)
ApplyRead ==
  /\ Delivering("read")
  /\ heard' = IF Sig.id = pending[Sig.panel] THEN [heard EXCEPT ![Sig.panel] = Sig.id]
              ELSE heard
  /\ IF IsCurrent(Sig)
     THEN \/ Sig.good /\ shown' = [shown EXCEPT ![Sig.panel] = Sig.node]
          \/ /\ Sig.panel = "value" \/ ~Sig.good
             /\ shown' = [shown EXCEPT ![Sig.panel] = None]
     ELSE UNCHANGED shown
  /\ UNCHANGED <<linkVars, tableVars, selected, nextId, pending, cut, userSteps, cmds>>

-----------------------------------------------------------------------------
Init ==
  /\ ServiceInit
  /\ gConnected = FALSE /\ asking = FALSE /\ current = None /\ browsed = FALSE
  /\ rows \in StoredRows /\ paused = FALSE /\ trend = {}
  /\ selected = None /\ nextId = 0
  /\ pending = [panel \in Panels |-> 0] /\ heard = pending
  /\ shown = [panel \in Panels |-> None]
  /\ cut = FALSE /\ contested = {}
  /\ userSteps = IF rows = <<>> THEN 0 ELSE 1   \* opening the project is one

UserNext ==
  \/ \E s \in Servers : AskConnect(s)
  \/ AskDisconnect
  \/ \E rs \in StoredRows : SwitchProject(rs)
  \/ \E nodes \in SUBSET Nodes : Tick(nodes)
  \/ \E n \in Nodes : Untick(n)
  \/ \E is \in SUBSET DOMAIN rows : RemoveNodes(is)
  \/ \E i \in DOMAIN rows, interval \in Intervals : SetSamplingInterval(i, interval)
  \/ PauseUpdates
  \/ \E i \in DOMAIN rows : WriteValue(i)
  \/ \E n \in Nodes : SelectNode(n)
  \/ RefreshStructuredValue

GuiNext ==
  \/ ConnectedChanged
  \/ ApplyMonitoredValue
  \/ ApplyWriteCompleted
  \/ ApplyRead

Next ==
  \/ UserNext /\ UNCHANGED <<sessionVars, watchVars, readVars>>
  \/ GuiNext /\ UNCHANGED <<sessionVars, watchVars, readVars>>
  \/ ServiceNext /\ UNCHANGED guiVars

Spec == Init /\ [][Next]_vars

-----------------------------------------------------------------------------
TableRows == [server : Servers, node : Nodes, interval : Intervals,
              value : Servers \cup {None}]

(* State has its type, no two rows are of the same node of the same server, *)
(* and nothing of a session the service has lost is left with it.           *)
TypeOK ==
  /\ ServiceTypeOK
  /\ gConnected \in BOOLEAN /\ asking \in BOOLEAN /\ browsed \in BOOLEAN
  /\ current \in Servers \cup {None}
  /\ rows \in Seq(TableRows)
  /\ \A i, j \in DOMAIN rows :
       rows[i].node = rows[j].node /\ rows[i].server = rows[j].server => i = j
  /\ paused \in BOOLEAN /\ trend \subseteq Nodes /\ contested \subseteq Nodes
  /\ selected \in Nodes \cup {None} /\ nextId \in Nat
  /\ pending \in [Panels -> 0..nextId] /\ heard \in [Panels -> 0..nextId]
  /\ shown \in [Panels -> Nodes \cup {None}]
  /\ cut \in BOOLEAN /\ userSteps \in 0..MaxUserSteps

(* When every command and signal is dealt with, the service watches the     *)
(* nodes of the table and no others, each at its row's interval, whatever    *)
(* was ticked, removed, retuned, switched and lost before.  Node ids that    *)
(* two servers' rows share are exempt: one row's removal ends both.         *)
RowsWatched ==
  /\ TypeOK
  /\ cmds = <<>> /\ evts = <<>> /\ gConnected /\ ~closing =>
       \A n \in Nodes \ contested :
         IF RowsOf(rows, n) = {} THEN monitored[n] = None
         ELSE \A i \in RowsOf(rows, n) : monitored[n] = rows[i].interval

(* The table shows values, and the trend curves, of the session the facade  *)
(* believes in and of no earlier one, also over a lost session, a project    *)
(* switch and updates still queued (clearValues(), TrendModel::clear()).    *)
ValuesOfThisSession ==
  /\ \A i \in DOMAIN rows :
       rows[i].value # None => gConnected /\ rows[i].value = current
  /\ trend # {} => gConnected

(* A panel whose last request is answered shows the selected node or        *)
(* nothing, however fast the selection changed and however late the answers *)
(* of earlier requests came (m_pending...RequestId).                        *)
ShownIsSelected ==
  \A panel \in Panels :
    heard[panel] = pending[panel] /\ selected # None => shown[panel] \in {None, selected}

ReadOf == [attributes |-> "readAttributes", value |-> "readStructured"]

OnItsWay(panel) ==
  LET id == pending[panel]
  IN \/ \E k \in DOMAIN cmds : cmds[k].op = ReadOf[panel] /\ cmds[k].req.id = id
     \/ \E k \in DOMAIN reads : reads[k].panel = panel /\ reads[k].req.id = id
     \/ panel = "value" /\ reader # None /\ reader.id = id
     \/ \E k \in DOMAIN evts : \/ evts[k].sig = "connected" /\ evts[k].server = None
                               \/ /\ evts[k].sig = "read" /\ evts[k].panel = panel
                                  /\ evts[k].id = id

(* The last request of each panel is answered, or its answer is under way,   *)
(* or the session it was made in is over: no panel waits for ever, and none   *)
(* shows another node (ShownIsSelected).                                     *)
SelectionIsAnswered ==
  /\ ShownIsSelected
  /\ \A panel \in Panels : cut \/ heard[panel] = pending[panel] \/ OnItsWay(panel)

(* A write the server refuses is reported as an error (writeCompleted).     *)
RefusalsReported == ~unreported
=============================================================================
