---------------------------- MODULE NodeService ----------------------------
(***************************************************************************)
(* What the worker service (src/core/opcuaservice.cpp) does with single    *)
(* nodes while a session is up: subscriptions, writes, and the reads of    *)
(* the selected node for the Attributes and the View panel.                *)
(*                                                                         *)
(* How a session is established is the subject of OpcUaService; here it is *)
(* one step of the client.  Commands arrive and signals leave through the  *)
(* event queues of the two threads, in order.                              *)
(***************************************************************************)
EXTENDS Naturals, Sequences, FiniteSets, SequencesExt

CONSTANTS
  Nodes,      \* node ids; every server may have any of them
  Servers,    \* servers a session can be opened with
  Intervals,  \* sampling intervals a row can ask for, 0 the service default
  None,       \* no session, no node, not monitored
  InOrder,    \* whether the backend answers reads in the order they were sent
  MaxWrites,  \* bound: writes under way at a time
  MaxSignals  \* bound: data changes wait while this many signals are queued

Requests == [node : Nodes, id : Nat]

ASSUME NodeServiceAssumption ==
  /\ None \notin Nodes \cup Servers \cup Intervals \cup Requests
  /\ Intervals \subseteq Nat /\ 0 \in Intervals
  /\ IsFiniteSet(Nodes)
  /\ InOrder \in BOOLEAN
  /\ MaxWrites \in Nat /\ MaxSignals \in Nat

VARIABLES
  session,    \* the server of m_client's session while m_clientConnected
  opening,    \* the server a session is being opened with
  closing,    \* the client was told to disconnect
  monitored,  \* m_monitoredNodes: each node's interval, or None
  handlers,   \* attributeWritten handlers connected to each monitored node
  writes,     \* writes sent and not answered: bag of nodes, per kind of QOpcUaNode
  reads,      \* readAttributes() calls not answered, in the order sent
  reader,     \* m_structReader: the request it resolves, or None
  last,       \* m_lastStructuredNodeId and -RequestId, or None
  ready,      \* m_genericStructHandler->initialized()
  unreported, \* history: some write was refused and no signal said so
  cmds,       \* event queue of the worker thread
  evts        \* queued signals to the GUI thread

sessionVars == <<session, opening, closing>>
watchVars   == <<monitored, handlers, writes, unreported>>
readVars    == <<reads, reader, last, ready>>
svcVars     == <<sessionVars, watchVars, readVars, cmds, evts>>

Panels == {"attributes", "value"}
Holders == {"monitored", "transient"}   \* the kinds of node object a write uses

NoWrites == [h \in Holders |-> [n \in Nodes |-> 0]]

Up == session # None
Handling(op) == cmds # <<>> /\ Head(cmds).op = op /\ cmds' = Tail(cmds)
Cmd  == Head(cmds)
Emit(signals) == evts' = evts \o signals

ConnectedSig(server)      == [sig |-> "connected", server |-> server]
ValueSig(n)               == [sig |-> "value", node |-> n, server |-> session]
WrittenSig(n, ok)         == [sig |-> "written", node |-> n, ok |-> ok]
ReadSig(panel, req, good) == [sig |-> "read", panel |-> panel, node |-> req.node,
                              id |-> req.id, good |-> good]

-----------------------------------------------------------------------------
(* The session, as far as it matters here.                                 *)

Connect ==
  /\ Handling("connect")
  /\ opening' = IF Up THEN opening ELSE Cmd.server
  /\ UNCHANGED <<session, closing, watchVars, readVars, evts>>

Disconnect ==
  /\ Handling("disconnect")
  /\ closing' = Up
  /\ UNCHANGED <<session, opening, watchVars, readVars, evts>>

SessionOpens ==
  /\ opening # None
  /\ session' = opening /\ opening' = None
  /\ Emit(<<ConnectedSig(opening)>>)
  /\ UNCHANGED <<closing, watchVars, readVars, cmds>>

(* The attempt fails; its error is no concern of this module, but the form   *)
(* is unlocked by the service becoming idle.                                *)
OpeningFails ==
  /\ opening # None
  /\ opening' = None
  /\ Emit(<<ConnectedSig(None)>>)
  /\ UNCHANGED <<session, closing, watchVars, readVars, cmds>>

(* clearMonitoredNodes() and the rest of onClientDisconnected().  What the   *)
(* backend has not answered by now it never answers.                        *)
ForgetSession ==
  /\ reads' = <<>> /\ reader' = None /\ last' = None /\ ready' = FALSE
  /\ monitored' = [n \in Nodes |-> None]
  /\ handlers' = [n \in Nodes |-> 0]
  /\ writes' = NoWrites

SessionEnds ==
  /\ Up
  /\ session' = None /\ closing' = FALSE
  /\ ForgetSession
  /\ Emit(<<ConnectedSig(None)>>)
  /\ UNCHANGED <<opening, unreported, cmds>>

-----------------------------------------------------------------------------
(* Subscriptions.                                                          *)

SubscribeNode ==
  /\ Handling("subscribe")
  /\ monitored' = IF Up /\ monitored[Cmd.node] = None
                  THEN [monitored EXCEPT ![Cmd.node] = Cmd.interval] ELSE monitored
  /\ UNCHANGED <<sessionVars, handlers, writes, unreported, readVars, evts>>

(* The node object goes, and with it the answers to the writes it carries.  *)
UnsubscribeNode ==
  /\ Handling("unsubscribe")
  /\ monitored' = [monitored EXCEPT ![Cmd.node] = None]
  /\ handlers' = [handlers EXCEPT ![Cmd.node] = 0]
  /\ writes' = [writes EXCEPT !["monitored"][Cmd.node] = 0]
  /\ UNCHANGED <<sessionVars, unreported, readVars, evts>>

DataChange(n) ==
  /\ Up /\ monitored[n] # None
  /\ Len(evts) < MaxSignals
  /\ Emit(<<ValueSig(n)>>)
  /\ UNCHANGED <<sessionVars, watchVars, readVars, cmds>>

-----------------------------------------------------------------------------
(* Writes.  A monitored node's object is shared by all writes to it: each    *)
(* adds a handler, and a refused dispatch leaves its handler behind.  The first *)
(* handler an answer runs disconnects them all, itself included: the others  *)
(* no longer run for this answer, and none is left for the next.             *)

Holder(n) == IF monitored[n] # None THEN "monitored" ELSE "transient"

WriteNodeValue ==
  /\ Handling("write")
  /\ LET n == Cmd.node
         hooked == IF Up /\ monitored[n] # None
                   THEN [handlers EXCEPT ![n] = @ + 1] ELSE handlers
     IN /\ handlers' = hooked
        /\ \/ /\ Up
              /\ writes' = [writes EXCEPT ![Holder(n)][n] = @ + 1]
              /\ UNCHANGED evts
           \/ /\ Emit(<<WrittenSig(n, FALSE)>>)
              /\ UNCHANGED writes
  /\ UNCHANGED <<sessionVars, monitored, unreported, readVars>>

HandlerLeft(h, n) == h = "transient" \/ handlers[n] > 0

WriteAnswered(h, n, ok) ==
  /\ writes[h][n] > 0
  /\ writes' = [writes EXCEPT ![h][n] = @ - 1]
  /\ Emit(IF HandlerLeft(h, n) THEN <<WrittenSig(n, ok)>> ELSE <<>>)
  /\ unreported' = (unreported \/ (~ok /\ ~HandlerLeft(h, n)))
  /\ handlers' = IF h = "monitored" THEN [handlers EXCEPT ![n] = 0] ELSE handlers
  /\ UNCHANGED <<sessionVars, monitored, readVars, cmds>>

-----------------------------------------------------------------------------
(* Reads of the selected node.                                             *)

Outstanding(panel, req) == Append(reads, [panel |-> panel, req |-> req])

(* The dispatch is refused when there is no session, and may be otherwise.  *)
Read(panel, req) ==
  \/ Up /\ reads' = Outstanding(panel, req) /\ UNCHANGED evts
  \/ Emit(<<ReadSig(panel, req, FALSE)>>) /\ UNCHANGED reads

ReadNodeAttributes ==
  /\ Handling("readAttributes")
  /\ Read("attributes", Cmd.req)
  /\ UNCHANGED <<sessionVars, watchVars, reader, last, ready>>

ReadStructuredValue_Silent ==   \* mutant: no answer without a session
  /\ Handling("readStructured")
  /\ last' = Cmd.req
  /\ IF Up THEN Read("value", Cmd.req) ELSE UNCHANGED <<reads, evts>>
  /\ UNCHANGED <<sessionVars, watchVars, reader, ready>>

ReadStructuredValue ==
  /\ Handling("readStructured")
  /\ last' = Cmd.req
  /\ Read("value", Cmd.req)
  /\ UNCHANGED <<sessionVars, watchVars, reader, ready>>

Answerable == IF InOrder THEN {1} \cap DOMAIN reads ELSE DOMAIN reads

(* The value is decoded at once, or a StructuredNodeReader is started, which *)
(* replaces the one that may be at work.                                    *)
ReadAnswered(i) ==
  /\ i \in Answerable
  /\ reads' = RemoveAt(reads, i)
  /\ LET r == reads[i]
     IN \/ /\ Emit(<<ReadSig(r.panel, r.req, TRUE)>>)
           /\ UNCHANGED reader
        \/ /\ r.panel = "value"
           /\ reader' = r.req
           /\ UNCHANGED evts
  /\ UNCHANGED <<sessionVars, watchVars, last, ready, cmds>>

(* Completely, partly when its timeout strikes, or without a root.          *)
ReaderFinishes ==
  /\ reader # None
  /\ \E good \in BOOLEAN : Emit(<<ReadSig("value", reader, good)>>)
  /\ reader' = None
  /\ UNCHANGED <<sessionVars, watchVars, reads, last, ready, cmds>>

(* handleGenericStructHandlerInitFinished(TRUE) reads the last value again. *)
HandlerReady ==
  /\ Up /\ ~ready
  /\ ready' = TRUE
  /\ IF last = None THEN UNCHANGED <<reads, evts>> ELSE Read("value", last)
  /\ UNCHANGED <<sessionVars, watchVars, reader, last, cmds>>

-----------------------------------------------------------------------------
ServiceInit ==
  /\ session = None /\ opening = None /\ closing = FALSE
  /\ monitored = [n \in Nodes |-> None]
  /\ handlers = [n \in Nodes |-> 0]
  /\ writes = NoWrites
  /\ unreported = FALSE
  /\ reads = <<>> /\ reader = None /\ last = None /\ ready = FALSE
  /\ cmds = <<>> /\ evts = <<>>

ServiceNext ==
  \/ Connect \/ Disconnect \/ SessionOpens \/ OpeningFails \/ SessionEnds
  \/ SubscribeNode \/ UnsubscribeNode
  \/ \E n \in Nodes : DataChange(n)
  \/ WriteNodeValue
  \/ \E h \in Holders, n \in Nodes, ok \in BOOLEAN : WriteAnswered(h, n, ok)
  \/ ReadNodeAttributes \/ ReadStructuredValue
  \/ \E i \in DOMAIN reads : ReadAnswered(i)
  \/ ReaderFinishes \/ HandlerReady

ServiceTypeOK ==
  /\ session \in Servers \cup {None} /\ opening \in Servers \cup {None}
  /\ closing \in BOOLEAN /\ (closing => Up)
  /\ monitored \in [Nodes -> Intervals \cup {None}]
  /\ handlers \in [Nodes -> Nat]
  /\ writes \in [Holders -> [Nodes -> Nat]]
  /\ \A n \in Nodes : monitored[n] = None =>
       handlers[n] = 0 /\ writes["monitored"][n] = 0
  /\ unreported \in BOOLEAN
  /\ reads \in Seq([panel : Panels, req : Requests])
  /\ reader \in Requests \cup {None} /\ last \in Requests \cup {None}
  /\ ready \in BOOLEAN
  /\ ~Up => reads = <<>> /\ reader = None /\ ~ready
=============================================================================
