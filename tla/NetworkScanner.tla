--------------------------- MODULE NetworkScanner ---------------------------
(***************************************************************************)
(* The network scanner (src/core/networkscanner.cpp): a pool of TCP probes *)
(* followed by one OPC UA query at a time.  All handlers run in the GUI    *)
(* thread.  A client's backend answers a request from its own thread, long *)
(* after the scanner has given up waiting if need be; meanwhile the client *)
(* is retired and a new one takes the next query.                          *)
(*                                                                         *)
(* A target stands for its address, its port and the URL made of them.     *)
(* "rows" is the result model (src/models/networkscanmodel.cpp), which is  *)
(* keyed by address and port.                                              *)
(***************************************************************************)
EXTENDS Naturals, Sequences, FiniteSets

CONSTANTS
  Targets,      \* pairs of address and port
  Lists,        \* the lists of distinct targets a scan can be asked for
  SameAddress,  \* SameAddress[t]: the targets at the address of t
  MaxParallel,  \* m_maxParallelProbes
  Clients,      \* identities of OPC UA clients, enough for all that are alive
  NoOne         \* no target, no client, no request

Queries  == [target : Targets, answered : BOOLEAN]
Requests == [kind : {"find", "endpoints"}, url : Targets]

ASSUME ScannerAssumption ==
  /\ NoOne \notin Targets \cup Clients \cup Queries \cup Requests
  /\ MaxParallel \in Nat \ {0}
  /\ Lists \subseteq Seq(Targets)
  /\ SameAddress \in [Targets -> SUBSET Targets]
  /\ \A list \in Lists : list # <<>> /\ \A i, j \in DOMAIN list : list[i] = list[j] => i = j

VARIABLES
  state,        \* m_state
  targets,      \* m_targets
  nextTarget,   \* m_nextTarget: how many targets were given to a probe
  probes,       \* m_probes: targets whose socket is still connecting
  probed,       \* m_probed
  openPorts,    \* m_openPorts
  opcUaServers, \* m_opcUaServers
  queue,        \* m_queryQueue
  current,      \* m_current: [target, answered], or NoOne
  requestUrl,   \* m_currentRequestUrl
  timer,        \* m_opcUaTimer is running
  client,       \* m_client
  retired,      \* m_retiredClients
  pending,      \* pending[c]: the request client c's backend works on
  rows          \* rows[t]: status of the row of target t

probeVars  == <<targets, nextTarget, probes, probed, openPorts>>
queryVars  == <<queue, current, requestUrl, timer>>
clientVars == <<client, retired, pending>>
vars == <<state, targets, nextTarget, probes, probed, openPorts, opcUaServers, queue, current,
          requestUrl, timer, client, retired, pending, rows>>

-----------------------------------------------------------------------------
Elements(list) == {list[i] : i \in DOMAIN list}

(* NetworkScanModel::upsert() of every target of ts.                        *)
Upsert(table, ts, status) ==
  [t \in DOMAIN table \cup ts |-> IF t \in ts THEN status ELSE table[t]]

(* launchProbes(): fills the pool with the next targets of list.            *)
LaunchProbes(running, next, list) ==
  LET room == MaxParallel - Cardinality(running)
      left == Len(list) - next
      n    == IF room < left THEN room ELSE left
  IN /\ probes' = running \cup {list[next + i] : i \in 1..n}
     /\ nextTarget' = next + n

(* checkFinished(), on what the handler leaves.                             *)
CheckFinished ==
  state' = IF probed' < Len(targets') \/ queue' # <<>> \/ current' # NoOne
           THEN "Scanning" ELSE "Finished"

FinishProbe_NoRefill(t) ==   \* mutant: launchProbes() is not called
  probed' = probed + 1 /\ probes' = probes \ {t} /\ UNCHANGED <<targets, nextTarget>>

(* finishProbe(t) up to its checkFinished()                                 *)
FinishProbe(t) ==
  /\ probed' = probed + 1
  /\ LaunchProbes(probes \ {t}, nextTarget, targets)
  /\ UNCHANGED targets

(* queryNext() over the queue "waiting", the result model "table", the client *)
(* "own" and the clients' requests "work".  Queries the client refuses to     *)
(* dispatch, or all when no client can be created, are decided at once; the   *)
(* first one dispatched becomes current.                                    *)
QueryNext(waiting, table, own, work) ==
  \E n \in 0..Len(waiting), used \in Clients \ retired' :
    /\ used = IF own = NoOne THEN CHOOSE c \in Clients : c \notin retired' ELSE own
    /\ rows' = Upsert(table, {waiting[i] : i \in 1..n}, "NoOpcUaResponse")
    /\ queue' = SubSeq(waiting, n + 2, Len(waiting))
    /\ \/ /\ n = Len(waiting)
          /\ client' \in IF n = 0 THEN {own} ELSE {own, used}
          /\ current' = NoOne /\ requestUrl' = NoOne /\ timer' = FALSE
          /\ pending' = work
       \/ /\ n < Len(waiting)
          /\ client' = used
          /\ LET t == waiting[n + 1]
             IN /\ current' = [target |-> t, answered |-> FALSE]
                /\ requestUrl' = t
                /\ pending' = [work EXCEPT ![used] = [kind |-> "find", url |-> t]]
          /\ timer' = TRUE

AbortAll_KeepsClient ==   \* mutant: the client blocked in a request stays in use
  /\ queue' = <<>> /\ current' = NoOne /\ requestUrl' = NoOne /\ timer' = FALSE
  /\ UNCHANGED clientVars

(* abortAll() without the sockets; a client in a request is retired.        *)
AbortAll ==
  /\ queue' = <<>> /\ current' = NoOne /\ requestUrl' = NoOne /\ timer' = FALSE
  /\ IF current = NoOne THEN UNCHANGED <<client, retired>>
     ELSE client' = NoOne /\ retired' = retired \cup {client}
  /\ UNCHANGED pending

-----------------------------------------------------------------------------
(* NetworkScanController::start() clears the result model first.            *)
Start ==
  \E list \in Lists :
    /\ AbortAll
    /\ rows' = <<>>
    /\ targets' = list
    /\ probed' = 0 /\ openPorts' = 0 /\ opcUaServers' = 0
    /\ LaunchProbes({}, 0, list)
    /\ CheckFinished

Cancel ==
  /\ state = "Scanning"
  /\ AbortAll
  /\ probes' = {}
  /\ state' = "Cancelled"
  /\ UNCHANGED <<targets, nextTarget, probed, openPorts, opcUaServers, rows>>

(* errorOccurred() of the socket, or its timeout                            *)
ProbeFails(t) ==
  /\ t \in probes
  /\ FinishProbe(t)
  /\ UNCHANGED <<openPorts, opcUaServers, queryVars, clientVars, rows>>
  /\ CheckFinished

OnProbeConnected_FinishesFirst(t) ==   \* mutant: the port is queued after finishProbe()
  /\ t \in probes
  /\ openPorts' = openPorts + 1
  /\ FinishProbe(t)
  /\ state' = IF probed' < Len(targets) \/ queue # <<>> \/ current # NoOne
              THEN "Scanning" ELSE "Finished"
  /\ UNCHANGED <<retired, opcUaServers>>
  /\ IF current = NoOne /\ state' = "Scanning"
     THEN QueryNext(Append(queue, t), Upsert(rows, {t}, "PortOpen"), client, pending)
     ELSE /\ queue' = Append(queue, t)
          /\ rows' = Upsert(rows, {t}, "PortOpen")
          /\ UNCHANGED <<current, requestUrl, timer, client, pending>>

(* The port is queued before its probe is finished, so that the scan cannot  *)
(* end in between.                                                          *)
OnProbeConnected(t) ==
  /\ t \in probes
  /\ openPorts' = openPorts + 1
  /\ FinishProbe(t)
  /\ UNCHANGED <<retired, opcUaServers>>
  /\ LET waiting == Append(queue, t)  table == Upsert(rows, {t}, "PortOpen")
     IN \/ current = NoOne /\ QueryNext(waiting, table, client, pending)
        \/ /\ current # NoOne
           /\ queue' = waiting /\ rows' = table
           /\ UNCHANGED <<current, requestUrl, timer, client, pending>>
  /\ CheckFinished

-----------------------------------------------------------------------------
(* Answers of the OPC UA clients.                                          *)

CompleteQuery_CountsAll(status, own, work) ==   \* mutant: any decided row is counted
  /\ opcUaServers' = opcUaServers + 1
  /\ QueryNext(queue, Upsert(rows, {current.target}, status), own, work)
  /\ CheckFinished

(* completeQuery(), then queryNext() with client "own" and requests "work"   *)
CompleteQuery(status, own, work) ==
  /\ opcUaServers' = IF status = "OpcUa" THEN opcUaServers + 1 ELSE opcUaServers
  /\ QueryNext(queue, Upsert(rows, {current.target}, status), own, work)
  /\ CheckFinished

Ended(c) == [pending EXCEPT ![c] = NoOne]

(* The check on the request URL both handlers start with.                   *)
Stale == current = NoOne \/ pending[client].url # requestUrl

Ignore == pending' = Ended(client) /\ UNCHANGED <<state, opcUaServers, queryVars, client, rows>>

Finishes(kind) ==
  /\ client # NoOne /\ pending[client] # NoOne /\ pending[client].kind = kind
  /\ UNCHANGED <<probeVars, retired>>

(* A server that answers is asked for its endpoints, at its own address but   *)
(* perhaps at another port, even that of another target.  Its description     *)
(* may leave name and URI empty.                                            *)
OnFindServersFinished ==
  /\ Finishes("find")
  /\ \/ IF Stale THEN Ignore ELSE CompleteQuery("NoOpcUaResponse", client, Ended(client))
     \/ ~Stale /\ CompleteQuery("OpcUa", client, Ended(client))   \* dispatch refused
     \/ /\ ~Stale
        /\ \E url \in SameAddress[current.target], named \in BOOLEAN :
             /\ current' = [current EXCEPT !.answered = named]
             /\ requestUrl' = url
             /\ pending' = [pending EXCEPT ![client] = [kind |-> "endpoints", url |-> url]]
        /\ timer' = TRUE
        /\ UNCHANGED <<state, opcUaServers, queue, client, rows>>

OnEndpointsFinished ==
  /\ Finishes("endpoints")
  /\ IF Stale THEN Ignore ELSE CompleteQuery("OpcUa", client, Ended(client))

OnOpcUaTimeout ==
  /\ timer /\ current # NoOne
  /\ retired' = retired \cup {client}
  /\ UNCHANGED probeVars
  /\ CompleteQuery(IF current.answered THEN "OpcUa" ELSE "NoOpcUaResponse", NoOne, pending)

(* A retired client's backend ends its request; the client is deleted.      *)
ReleaseRetired(c) ==
  /\ c \in retired /\ pending[c] # NoOne
  /\ retired' = retired \ {c}
  /\ pending' = Ended(c)
  /\ UNCHANGED <<state, probeVars, opcUaServers, queryVars, client, rows>>

-----------------------------------------------------------------------------
Init ==
  /\ state = "Idle" /\ targets = <<>> /\ nextTarget = 0 /\ probes = {}
  /\ probed = 0 /\ openPorts = 0 /\ opcUaServers = 0
  /\ queue = <<>> /\ current = NoOne /\ requestUrl = NoOne /\ timer = FALSE
  /\ client = NoOne /\ retired = {} /\ pending = [c \in Clients |-> NoOne]
  /\ rows = <<>>

ScannerStep ==
  \/ \E t \in Targets : ProbeFails(t) \/ OnProbeConnected(t)
  \/ OnFindServersFinished \/ OnEndpointsFinished \/ OnOpcUaTimeout
  \/ \E c \in Clients : ReleaseRetired(c)

Next == Start \/ Cancel \/ ScannerStep
Spec == Init /\ [][Next]_vars

-----------------------------------------------------------------------------
(* Properties.                                                             *)

RowStatus == {"PortOpen", "OpcUa", "NoOpcUaResponse"}

(* Types; the pool stays within its limit.                                  *)
TypeOK ==
  /\ state \in {"Idle", "Scanning", "Finished", "Cancelled"}
  /\ targets \in Lists \cup {<<>>} /\ nextTarget \in 0..Len(targets)
  /\ probes \subseteq Targets /\ Cardinality(probes) <= MaxParallel
  /\ probed \in Nat /\ openPorts \in Nat /\ opcUaServers \in Nat
  /\ queue \in Seq(Targets)
  /\ current \in Queries \cup {NoOne}
  /\ requestUrl \in Targets \cup {NoOne} /\ timer \in BOOLEAN
  /\ client \in Clients \cup {NoOne} /\ retired \subseteq Clients
  /\ pending \in [Clients -> Requests \cup {NoOne}]
  /\ DOMAIN rows \subseteq Targets /\ \A t \in DOMAIN rows : rows[t] \in RowStatus

(* A "request stuck on a silent port" keeps its client busy long after the     *)
(* scanner stopped waiting (networkscanner.cpp:465): the client in use never   *)
(* works on anything but the current query, which has its timer running, and   *)
(* a retired client has a request whose end will delete it.                   *)
ClientServesCurrent ==
  /\ client \notin retired
  /\ \A c \in Clients :
       pending[c] # NoOne <=> c \in retired \/ (c = client /\ current # NoOne)
  /\ current # NoOne => client # NoOne /\ pending[client].url = requestUrl
  /\ timer <=> current # NoOne

(* The counters the view shows agree with its rows, however probes, answers,   *)
(* timeouts and a restart of the scan interleave.                            *)
CountersMatchRows ==
  /\ TypeOK
  /\ openPorts = Cardinality(DOMAIN rows)
  /\ opcUaServers = Cardinality({t \in DOMAIN rows : rows[t] = "OpcUa"})
  /\ state = "Scanning" => probed = nextTarget - Cardinality(probes)

(* The outcome of each target of the scan; a cancelled scan keeps its rows.   *)
Outcome ==
  IF state = "Cancelled" THEN rows
  ELSE [t \in Elements(targets) |->
          IF t \in DOMAIN rows THEN rows[t]
          ELSE IF t \in probes \cup {targets[i] : i \in nextTarget + 1..Len(targets)}
               THEN "waiting" ELSE "closed"]

Scan == INSTANCE NetworkScan WITH phase <- state, outcome <- Outcome

(* The scanner is a network scan: it finishes exactly when the last target    *)
(* gets its final outcome, no outcome is taken back, and answers that come    *)
(* after a cancel or belong to an earlier scan change nothing.               *)
ImplementsScan == Scan!ScanSpec
=============================================================================
