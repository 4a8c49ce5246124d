---------------------------- MODULE MCDiscovery ----------------------------
(* How servers are found and their nodes shown: three instances in one run, *)
(* told apart by "part".                                                    *)
(*   scan   NetworkScanner: t1 and t2 are two ports of one address; a scan  *)
(*          of three targets may be cancelled and replaced by one of two at *)
(*          any moment.                                                     *)
(*   input  ScanInput with addresses of four bits, octets of two and at     *)
(*          most five addresses a scan:  every range text, and every list   *)
(*          of two ports texts with a few range texts.                      *)
(*   tree   BrowseTree: the root has the object A, which has the method B   *)
(*          and the variable C.  Fetches, sessions and user steps are       *)
(*          bounded, sessions and user steps also together, but a node may  *)
(*          still be expanded under a reveal left over from the first one.  *)
EXTENDS NetworkScanner, ScanInput, BrowseTree

CONSTANTS t1, t2, t3, MaxScans, R, A, B, C, MaxFetches, MaxSessions, MaxUser, MaxTurns

VARIABLES
  part,
  scans,    \* scans started so far
  typed,    \* texts typed so far
  restarts, \* restarts of the program so far
  user,     \* the user's steps in the trees so far
  sessions  \* sessions the trees were shown so far

MCLists == {<<t3, t1, t2>>, <<t2, t1>>}

MCSameAddress == [t \in Targets |-> IF t = t3 THEN {t3} ELSE {t1, t2}]

MCDefaultPorts == <<[first |-> 2, last |-> 2]>>
MCRange == [form |-> "cidr", base |-> 5, n |-> 3]
MCFewRanges ==
  {MCRange, [form |-> "range", base |-> 14, n |-> 15],
   [form |-> "garbage", base |-> 0, n |-> 0]}
MCRangeTexts ==
  [form : {"cidr", "octet"}, base : 0..15, n : 0..5]
    \cup [form : {"range"}, base : 0..15, n : 0..15]
    \cup [form : {"single"}, base : 0..15, n : {0}] \cup MCFewRanges
MCParts == [first : 0..4, last : 0..5]   \* 0: no number
MCPortTexts == {<<>>} \cup [1..1 -> MCParts] \cup [1..2 -> MCParts]
MCEntries ==
  [kind : {"IPv4"}, address : {6, 7}, prefix : -1..4]
    \cup [kind : {"other"}, address : {6}, prefix : {2}]
MCInterfaceLists ==
  {<<>>} \cup {<<a>> : a \in MCEntries}
    \cup {<<a, b>> : a \in MCEntries, b \in [kind : {"IPv4"}, address : {5}, prefix : {1, 3}]}

MCStart ==
  /\ scans < MaxScans
  /\ Start
  /\ Len(targets') = IF scans = 0 THEN 3 ELSE 2
  /\ scans' = scans + 1

MCKids   == [n \in Nodes |-> IF n = R THEN {A} ELSE IF n = A THEN {B, C} ELSE {}]
MCChunks == [n \in Nodes |-> IF n = A THEN 2 ELSE 0]
MCPaths  == {<<A, C>>}
MCQueries == {{}, {A, C}}

MCInit ==
  /\ Init /\ InputInit /\ scans = 0 /\ typed = 0 /\ restarts = 0
  /\ TreeInit /\ user = 0 /\ sessions = 0
  /\ part \in {"scan", "input", "tree"}
  /\ part # "input" => interfaces = <<>>

treeSide == <<treeVars, user, sessions>>

ScanStep ==
  /\ part = "scan"
  /\ MCStart \/ ((Cancel \/ ScannerStep) /\ UNCHANGED scans)
  /\ UNCHANGED <<part, typed, restarts, inputVars, treeSide>>

(* On a PC without interfaces one text of the full variety is typed, with   *)
(* the other field at its default or at one range, and then one of a few    *)
(* ranges.                                                                  *)
MCType ==
  \/ /\ interfaces = <<>> /\ typed = 0
     /\ \E text \in RangeTexts : TypeRange(text)
  \/ /\ interfaces = <<>> /\ rangeText = MCRange /\ typed <= 1 /\ portsText = DefaultPorts
     /\ \E text \in PortTexts : TypePorts(text)
  \/ /\ typed <= 1
     /\ \E text \in MCFewRanges \cup ToSet(SubnetsFromInterfaces(interfaces)) : TypeRange(text)

InputStep ==
  /\ part = "input"
  /\ \/ (OpenDialog \/ CloseDialog \/ StartScan \/ ScanStops) /\ UNCHANGED <<typed, restarts>>
     \/ MCType /\ typed' = typed + 1 /\ UNCHANGED restarts
     \/ /\ Restarted /\ restarts = 0 /\ restarts' = 1
        /\ typed > 0 => interfaces' \in {interfaces, <<>>}
        /\ UNCHANGED typed
  /\ UNCHANGED <<part, scans, vars, treeSide>>

MCUserStep ==
  IF user + sessions < MaxTurns
    THEN UserStep
    ELSE reveal.active /\ \E n \in Loaded(model["tree"]) : ExpandNode("tree", n)

TreeStep ==
  /\ part = "tree"
  /\ \/ /\ user < MaxUser /\ nextBrowse < MaxFetches
        /\ MCUserStep /\ user' = user + 1 /\ UNCHANGED sessions
     \/ nextBrowse < MaxFetches /\ GuiStep /\ UNCHANGED <<user, sessions>>
     \/ /\ ServiceStep
        /\ IF ~sConnected /\ sConnected'
           THEN sessions < MaxSessions /\ user + sessions < MaxTurns /\ sessions' = sessions + 1
           ELSE UNCHANGED sessions
        /\ UNCHANGED user
  /\ UNCHANGED <<part, scans, typed, restarts, vars, inputVars>>

MCNext == ScanStep \/ InputStep \/ TreeStep

(* Every probe has a timeout and the query has one.  No server owes an answer. *)
MCFairness ==
  /\ \A t \in Targets : WF_vars(ProbeFails(t) \/ OnProbeConnected(t))
  /\ WF_vars(OnOpcUaTimeout)

MCVars == <<part, scans, typed, restarts, vars, inputVars, treeSide>>
MCSpec == MCInit /\ [][MCNext]_MCVars /\ MCFairness

(* A scan ends although servers may never answer.                           *)
ScanEnds == state = "Scanning" ~> state # "Scanning"
=============================================================================
