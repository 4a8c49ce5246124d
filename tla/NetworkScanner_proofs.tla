------------------------ MODULE NetworkScanner_proofs ------------------------
(* The scanner for any targets, lists, pool of probes and number of clients:   *)
(* its OPC UA clients, its counters, and that it implements NetworkScan.  And   *)
(* what it is asked to scan, for any size of addresses and any limits.          *)
EXTENDS NetworkScanner, ScanInput, FiniteSetTheorems, SequenceTheorems, WellFoundedInduction, TLAPS

(* The types of what the clients work on.                                    *)
QueryTypes ==
  /\ queue \in Seq(Targets)
  /\ current \in Queries \cup {NoOne}
  /\ requestUrl \in Targets \cup {NoOne} /\ timer \in BOOLEAN
  /\ client \in Clients \cup {NoOne} /\ retired \subseteq Clients
  /\ pending \in [Clients -> Requests \cup {NoOne}]

ClientInv == QueryTypes /\ ClientServesCurrent

(* The clients that work are the retired ones: what holds between two queries.  *)
NoneServes(work, gone) == \A c \in Clients : work[c] # NoOne <=> c \in gone

LEMMA ClientInvInit == ASSUME Init PROVE ClientInv
  <1>1. queue \in Seq(Targets)
    BY DEF Init
  <1>2. QueryTypes
    BY <1>1 DEF Init, QueryTypes
  <1>3. ClientServesCurrent
    BY DEF Init, ClientServesCurrent
  <1>. QED  BY <1>2, <1>3 DEF ClientInv

(* queryNext() gives the next query a client that is not retired and idle.     *)
LEMMA NextServed ==
  ASSUME NEW waiting \in Seq(Targets), NEW table, NEW own \in Clients \cup {NoOne},
         NEW work \in [Clients -> Requests \cup {NoOne}],
         retired' \subseteq Clients, own \notin retired', NoneServes(work, retired'),
         QueryNext(waiting, table, own, work)
  PROVE  ClientInv'
  <1>. USE ScannerAssumption DEF ScannerAssumption, NoneServes
  <1>1. PICK n \in 0 .. Len(waiting), used \in Clients \ retired' :
          /\ used = IF own = NoOne THEN CHOOSE c \in Clients : c \notin retired' ELSE own
          /\ queue' = SubSeq(waiting, n + 2, Len(waiting))
          /\ \/ /\ n = Len(waiting)
                /\ client' \in IF n = 0 THEN {own} ELSE {own, used}
                /\ current' = NoOne /\ requestUrl' = NoOne /\ timer' = FALSE
                /\ pending' = work
             \/ /\ n < Len(waiting)
                /\ client' = used
                /\ current' = [target |-> waiting[n + 1], answered |-> FALSE]
                /\ requestUrl' = waiting[n + 1]
                /\ pending' = [work EXCEPT ![used] = [kind |-> "find", url |-> waiting[n + 1]]]
                /\ timer' = TRUE
    BY Zenon DEF QueryNext
  <1>2. queue' \in Seq(Targets)
    BY <1>1
  <1>3. CASE /\ client' \in {own, used}
             /\ current' = NoOne /\ requestUrl' = NoOne /\ timer' = FALSE /\ pending' = work
    BY <1>2, <1>3 DEF ClientInv, QueryTypes, ClientServesCurrent
  <1>4. ASSUME NEW t \in Targets, client' = used,
               current' = [target |-> t, answered |-> FALSE], requestUrl' = t,
               pending' = [work EXCEPT ![used] = [kind |-> "find", url |-> t]], timer' = TRUE
        PROVE  ClientInv'
    <2>. DEFINE request == [kind |-> "find", url |-> t]
    <2>1. request \in Requests /\ request # NoOne /\ request.url = t
      BY DEF Requests
    <2>2. current' \in Queries /\ current' # NoOne
      <3>1. [target |-> t, answered |-> FALSE] \in Queries
        BY DEF Queries
      <3>. QED  BY <1>4, <3>1
    <2>3. /\ pending' \in [Clients -> Requests \cup {NoOne}]
          /\ pending'[used] = request
          /\ \A c \in Clients : c # used => pending'[c] = work[c]
      BY <1>4, <2>1
    <2>. HIDE DEF request
    <2>4. QueryTypes'
      BY <1>2, <1>4, <2>2, <2>3 DEF QueryTypes
    <2>5. used # NoOne /\ used \notin retired'
      BY <1>1
    <2>6. ClientServesCurrent'
      BY <1>4, <2>1, <2>2, <2>3, <2>5 DEF ClientServesCurrent
    <2>. QED  BY <2>4, <2>6 DEF ClientInv
  <1>5. n < Len(waiting) => waiting[n + 1] \in Targets
    OBVIOUS
  <1>. QED  BY <1>1, <1>3, <1>4, <1>5

(* abortAll(): a client in a request is retired with it.                      *)
LEMMA AbortKeeps == ASSUME ClientInv, AbortAll PROVE ClientInv'
  <1>1. /\ queue' = <<>> /\ current' = NoOne /\ requestUrl' = NoOne /\ timer' = FALSE
        /\ pending' = pending
    BY DEF AbortAll
  <1>2. queue' \in Seq(Targets)
    BY <1>1
  <1>3. CASE current = NoOne
    <2>1. client' = client /\ retired' = retired
      BY <1>3 DEF AbortAll
    <2>. QED  BY <1>1, <1>2, <1>3, <2>1 DEF ClientInv, QueryTypes, ClientServesCurrent
  <1>4. CASE current # NoOne
    <2>1. client' = NoOne /\ retired' = retired \cup {client}
      BY <1>4 DEF AbortAll
    <2>2. client \in Clients /\ NoOne \notin Clients
      BY <1>4, ScannerAssumption DEF ScannerAssumption, ClientInv, QueryTypes, ClientServesCurrent
    <2>. QED  BY <1>1, <1>2, <1>4, <2>1, <2>2 DEF ClientInv, QueryTypes, ClientServesCurrent
  <1>. QED  BY <1>3, <1>4

(* A request that ends is the current one's: no answer is ever stale.          *)
LEMMA EndedServes ==
  ASSUME ClientInv, client # NoOne, pending[client] # NoOne
  PROVE  /\ ~Stale
         /\ Ended(client) \in [Clients -> Requests \cup {NoOne}]
         /\ NoneServes(Ended(client), retired)
         /\ client \in Clients /\ current \in Queries
  <1>1. client \in Clients
    BY DEF ClientInv, QueryTypes
  <1>2. current # NoOne /\ client \notin retired
    BY <1>1 DEF ClientInv, ClientServesCurrent
  <1>3. ~Stale
    BY <1>2 DEF Stale, ClientInv, ClientServesCurrent
  <1>4. Ended(client) \in [Clients -> Requests \cup {NoOne}]
    BY DEF Ended, ClientInv, QueryTypes
  <1>5. NoneServes(Ended(client), retired)
    BY <1>1, <1>2 DEF Ended, NoneServes, ClientInv, QueryTypes, ClientServesCurrent
  <1>. QED  BY <1>1, <1>2, <1>3, <1>4, <1>5 DEF ClientInv, QueryTypes

LEMMA CompleteKeeps ==
  ASSUME ClientInv, client # NoOne, pending[client] # NoOne, UNCHANGED retired,
         NEW status, CompleteQuery(status, client, Ended(client))
  PROVE  ClientInv'
  <1>1. QueryNext(queue, Upsert(rows, {current.target}, status), client, Ended(client))
    BY DEF CompleteQuery
  <1>2. /\ queue \in Seq(Targets) /\ client \in Clients \cup {NoOne}
        /\ retired' \subseteq Clients /\ client \notin retired'
    BY DEF ClientInv, QueryTypes, ClientServesCurrent
  <1>3. NoneServes(Ended(client), retired')
    BY EndedServes
  <1>. QED  BY <1>1, <1>2, <1>3, EndedServes, NextServed

LEMMA ClientInvKept == ASSUME ClientInv, [Next]_vars PROVE ClientInv'
  <1>. USE ScannerAssumption DEF ScannerAssumption
  <1>1. ASSUME UNCHANGED <<queryVars, clientVars>> PROVE ClientInv'
    BY <1>1 DEF queryVars, clientVars, ClientInv, QueryTypes, ClientServesCurrent
  <1>2. CASE Start \/ Cancel
    BY <1>2, AbortKeeps DEF Start, Cancel
  <1>3. ASSUME NEW t \in Targets, ProbeFails(t) PROVE ClientInv'
    BY <1>1, <1>3 DEF ProbeFails
  <1>4. ASSUME NEW t \in Targets, OnProbeConnected(t) PROVE ClientInv'
    <2>. DEFINE waiting == Append(queue, t)
    <2>1. waiting \in Seq(Targets)
      BY DEF ClientInv, QueryTypes
    <2>2. retired' = retired
      BY <1>4 DEF OnProbeConnected
    <2>3. CASE current = NoOne
      <3>1. QueryNext(waiting, Upsert(rows, {t}, "PortOpen"), client, pending)
        BY <1>4, <2>3 DEF OnProbeConnected
      <3>2. NoneServes(pending, retired')
        BY <2>2, <2>3 DEF NoneServes, ClientInv, ClientServesCurrent
      <3>3. /\ client \in Clients \cup {NoOne} /\ client \notin retired' /\ retired' \subseteq Clients
            /\ pending \in [Clients -> Requests \cup {NoOne}]
        BY <2>2 DEF ClientInv, QueryTypes, ClientServesCurrent
      <3>. HIDE DEF waiting
      <3>. QED  BY <2>1, <3>1, <3>2, <3>3, NextServed
    <2>4. CASE current # NoOne
      <3>1. queue' = waiting /\ UNCHANGED <<current, requestUrl, timer, client, pending>>
        BY <1>4, <2>4 DEF OnProbeConnected
      <3>. HIDE DEF waiting
      <3>. QED  BY <2>1, <2>2, <3>1 DEF ClientInv, QueryTypes, ClientServesCurrent
    <2>. QED  BY <2>3, <2>4
  <1>5. CASE OnFindServersFinished
    <2>1. client # NoOne /\ pending[client] # NoOne /\ retired' = retired
      BY <1>5 DEF OnFindServersFinished, Finishes
    <2>2. ~Stale /\ client \in Clients /\ current \in Queries
      BY <2>1, EndedServes
    <2>3. CASE \/ CompleteQuery("NoOpcUaResponse", client, Ended(client))
               \/ CompleteQuery("OpcUa", client, Ended(client))
      BY <2>1, <2>3, CompleteKeeps
    <2>4. ASSUME NEW url \in SameAddress[current.target], NEW named \in BOOLEAN,
                 current' = [current EXCEPT !.answered = named], requestUrl' = url,
                 pending' = [pending EXCEPT ![client] = [kind |-> "endpoints", url |-> url]],
                 timer' = TRUE, UNCHANGED <<queue, client>>
          PROVE  ClientInv'
      <3>. DEFINE request == [kind |-> "endpoints", url |-> url]
      <3>1. url \in Targets
        BY <2>2 DEF Queries
      <3>2. request \in Requests /\ request # NoOne /\ request.url = url
        BY <3>1 DEF Requests
      <3>3. current' \in Queries /\ current' # NoOne /\ current # NoOne
        BY <2>2, <2>4 DEF Queries
      <3>4. /\ pending' \in [Clients -> Requests \cup {NoOne}]
            /\ pending'[client] = request
            /\ \A c \in Clients : c # client => pending'[c] = pending[c]
        BY <2>2, <2>4, <3>2 DEF ClientInv, QueryTypes
      <3>. HIDE DEF request
      <3>5. QueryTypes'
        BY <2>1, <2>4, <3>1, <3>3, <3>4 DEF ClientInv, QueryTypes
      <3>6. ClientServesCurrent'
        BY <2>1, <2>4, <3>2, <3>3, <3>4 DEF ClientInv, ClientServesCurrent
      <3>. QED  BY <3>5, <3>6 DEF ClientInv
    <2>. QED  BY <1>5, <2>2, <2>3, <2>4 DEF OnFindServersFinished
  <1>6. CASE OnEndpointsFinished
    <2>1. client # NoOne /\ pending[client] # NoOne /\ retired' = retired
      BY <1>6 DEF OnEndpointsFinished, Finishes
    <2>. QED  BY <1>6, <2>1, EndedServes, CompleteKeeps DEF OnEndpointsFinished
  <1>7. CASE OnOpcUaTimeout
    <2>1. current # NoOne /\ retired' = retired \cup {client} /\ client \in Clients
      BY <1>7 DEF OnOpcUaTimeout, ClientInv, QueryTypes, ClientServesCurrent
    <2>2. PICK status : CompleteQuery(status, NoOne, pending)
      BY <1>7 DEF OnOpcUaTimeout
    <2>3. NoneServes(pending, retired')
      BY <2>1 DEF NoneServes, ClientInv, ClientServesCurrent
    <2>4. QueryNext(queue, Upsert(rows, {current.target}, status), NoOne, pending)
      BY <2>2 DEF CompleteQuery
    <2>5. /\ queue \in Seq(Targets) /\ pending \in [Clients -> Requests \cup {NoOne}]
          /\ retired' \subseteq Clients /\ NoOne \notin retired'
      BY <2>1 DEF ClientInv, QueryTypes
    <2>. QED  BY <2>3, <2>4, <2>5, NextServed
  <1>8. ASSUME NEW c \in Clients, ReleaseRetired(c) PROVE ClientInv'
    BY <1>8 DEF ReleaseRetired, Ended, queryVars, ClientInv, QueryTypes, ClientServesCurrent
  <1>9. CASE UNCHANGED vars
    BY <1>1, <1>9 DEF vars, queryVars, clientVars
  <1>. QED  BY <1>2, <1>3, <1>4, <1>5, <1>6, <1>7, <1>8, <1>9 DEF Next, ScannerStep

(* The client in use never works on anything but the current query, and every    *)
(* retired client still has a request whose end deletes it, whatever servers       *)
(* answer late, never or for another scan (NetworkScanner::onOpcUaTimeout,         *)
(* abortAll, queryNext).                                                    *)
THEOREM ClientAlwaysServesCurrent == Spec => []ClientServesCurrent
  <1>1. ClientInv => ClientServesCurrent
    BY DEF ClientInv
  <1>. QED  BY <1>1, ClientInvInit, ClientInvKept, PTL DEF Spec

-----------------------------------------------------------------------------
(* The pool of probes: targets are given to probes in the order of the list,   *)
(* and each is counted when its probe ends.                                   *)
Given == {targets[i] : i \in 1..nextTarget}

PoolInv ==
  /\ targets \in Lists \cup {<<>>} /\ nextTarget \in 0..Len(targets)
  /\ probes \subseteq Given /\ IsFiniteSet(probes) /\ Cardinality(probes) <= MaxParallel
  /\ probed \in Nat
  /\ state # "Cancelled" => probed = nextTarget - Cardinality(probes)

(* The rows of a table in one status.                                        *)
InStatus(table, status) == {t \in DOMAIN table : table[t] = status}

(* A target whose probe has ended has a row if its port was open.             *)
RowInv ==
  /\ rows \in [DOMAIN rows -> RowStatus]
  /\ DOMAIN rows \subseteq Given \ probes /\ IsFiniteSet(DOMAIN rows)
  /\ openPorts = Cardinality(DOMAIN rows)
  /\ opcUaServers = Cardinality(InStatus(rows, "OpcUa"))

(* The open ports that are not decided are exactly those the query is about or   *)
(* the queue holds, each once.                                               *)
Distinct(s) == \A i, j \in 1..Len(s) : s[i] = s[j] => i = j
Asked == Elements(queue) \cup (IF current = NoOne THEN {} ELSE {current.target})

AskedInv ==
  /\ Distinct(queue)
  /\ current # NoOne => current.target \notin Elements(queue)
  /\ state # "Cancelled" => InStatus(rows, "PortOpen") = Asked

StateInv ==
  /\ state \in {"Idle", "Scanning", "Finished", "Cancelled"}
  /\ state = "Idle" => targets = <<>>
  /\ state # "Scanning" => probes = {} /\ queue = <<>> /\ current = NoOne
  /\ state = "Scanning" => probed < Len(targets) \/ queue # <<>> \/ current # NoOne
  /\ state = "Finished" => probed = Len(targets)

ScanInv == ClientInv /\ PoolInv /\ RowInv /\ AskedInv /\ StateInv

-----------------------------------------------------------------------------
(* launchProbes()                                                          *)

LEMMA SliceSize ==
  ASSUME NEW list \in Lists, NEW next \in Nat, NEW n \in Nat, next + n <= Len(list)
  PROVE  /\ IsFiniteSet({list[next + i] : i \in 1..n})
         /\ Cardinality({list[next + i] : i \in 1..n}) = n
  <1>. DEFINE S == {list[next + i] : i \in 1..n}
              f == [i \in 1..n |-> list[next + i]]
  <1>1. list \in Seq(Targets) /\ \A i, j \in DOMAIN list : list[i] = list[j] => i = j
    BY ScannerAssumption DEF ScannerAssumption
  <1>2. DOMAIN list = 1..Len(list) /\ Len(list) \in Nat
    BY <1>1
  <1>3. f \in Bijection(1..n, S)
    <2>1. f \in [1..n -> S] /\ \A y \in S : \E i \in 1..n : f[i] = y
      OBVIOUS
    <2>2. ASSUME NEW i \in 1..n, NEW j \in 1..n, f[i] = f[j]  PROVE i = j
      <3>1. next + i \in DOMAIN list /\ next + j \in DOMAIN list
        BY <1>2
      <3>2. next + i = next + j
        BY <1>1, <2>2, <3>1
      <3>. QED  BY <3>2
    <2>. QED  BY <2>1, <2>2 DEF Bijection, Injection, Surjection, IsInjective
  <1>4. ExistsBijection(1..n, S)
    BY <1>3 DEF ExistsBijection
  <1>. HIDE DEF S, f
  <1>5. IsFiniteSet(S)
    BY <1>4, FS_NatBijection
  <1>6. Cardinality(S) = n
    BY <1>4, FS_CountingElements
  <1>. QED  BY <1>5, <1>6 DEF S

LEMMA LaunchFills ==
  ASSUME NEW list \in Lists, NEW next \in 0..Len(list), NEW free,
         IsFiniteSet(free), Cardinality(free) <= MaxParallel,
         free \subseteq {list[i] : i \in 1..next},
         LaunchProbes(free, next, list)
  PROVE  /\ nextTarget' \in next..Len(list)
         /\ probes' = free \cup {list[i] : i \in next + 1 .. nextTarget'}
         /\ IsFiniteSet(probes') /\ Cardinality(probes') <= MaxParallel
         /\ Cardinality(probes') = Cardinality(free) + nextTarget' - next
  <1>. DEFINE room == MaxParallel - Cardinality(free)
              left == Len(list) - next
              n    == IF room < left THEN room ELSE left
              S    == {list[next + i] : i \in 1..n}
  <1>1. list \in Seq(Targets) /\ \A i, j \in DOMAIN list : list[i] = list[j] => i = j
    BY ScannerAssumption DEF ScannerAssumption
  <1>2. DOMAIN list = 1..Len(list) /\ Len(list) \in Nat
    BY <1>1
  <1>3. Cardinality(free) \in Nat /\ MaxParallel \in Nat
    BY FS_CardinalityType, ScannerAssumption DEF ScannerAssumption
  <1>4. n \in Nat /\ n <= room /\ next + n <= Len(list)
    BY <1>2, <1>3
  <1>5. probes' = free \cup S /\ nextTarget' = next + n
    BY DEF LaunchProbes
  <1>. HIDE DEF n
  <1>6. S = {list[i] : i \in next + 1 .. next + n}
    <2>1. ASSUME NEW i \in 1..n  PROVE next + i \in next + 1 .. next + n
      BY <1>4
    <2>2. ASSUME NEW j \in next + 1 .. next + n
          PROVE  j - next \in 1..n /\ next + (j - next) = j
      BY <1>4
    <2>. QED  BY <2>1, <2>2
  <1>7. IsFiniteSet(S) /\ Cardinality(S) = n
    <2>1. next \in Nat /\ n \in Nat /\ next + n <= Len(list)
      BY <1>2, <1>4
    <2>. QED  BY <2>1, SliceSize, Zenon
  <1>8. free \cap S = {}
    <2>1. ASSUME NEW i \in 1..next, NEW j \in 1..n, list[i] = list[next + j]  PROVE FALSE
      BY <1>1, <1>2, <1>4, <2>1
    <2>. QED  BY <2>1
  <1>. HIDE DEF S
  <1>9. IsFiniteSet(free \cup S) /\ Cardinality(free \cup S) = Cardinality(free) + n
    <2>1. /\ IsFiniteSet(free \cup S)
          /\ Cardinality(free \cup S) = Cardinality(free) + n - Cardinality(free \cap S)
      BY <1>7, FS_Union
    <2>2. Cardinality(free \cap S) = 0
      BY <1>8, FS_EmptySet
    <2>. QED  BY <1>3, <1>4, <2>1, <2>2
  <1>. QED  BY <1>3, <1>4, <1>5, <1>6, <1>9

(* A probe ends, and the pool takes the next targets.                         *)
LEMMA PoolRefilled ==
  ASSUME ScanInv, NEW t \in probes, FinishProbe(t)
  PROVE  /\ state = "Scanning" /\ targets' = targets /\ PoolInv'
         /\ nextTarget' >= nextTarget
         /\ probes' \subseteq probes \cup {targets[i] : i \in nextTarget + 1 .. Len(targets)}
         /\ probed' = nextTarget' - Cardinality(probes')
         /\ (Given \ probes) \cup {t} \subseteq Given' \ probes'
         /\ t \in Given
  <1>1. /\ state = "Scanning" /\ targets' = targets /\ t \in Given
        /\ probed' = probed + 1 /\ probed \in Nat
        /\ LaunchProbes(probes \ {t}, nextTarget, targets)
    BY DEF ScanInv, StateInv, PoolInv, FinishProbe
  <1>2. targets \in Lists /\ targets \in Seq(Targets)
    <2>1. targets # <<>>
      BY <1>1 DEF ScanInv, PoolInv, Given
    <2>. QED  BY <2>1, ScannerAssumption DEF ScanInv, PoolInv, ScannerAssumption
  <1>3. \A i, j \in 1..Len(targets) : targets[i] = targets[j] => i = j
    BY <1>2, ScannerAssumption DEF ScannerAssumption
  <1>4. Len(targets) \in Nat /\ nextTarget \in 0..Len(targets)
    BY <1>2 DEF ScanInv, PoolInv
  <1>. DEFINE free == probes \ {t}
  <1>5. /\ IsFiniteSet(free) /\ Cardinality(free) = Cardinality(probes) - 1
        /\ Cardinality(free) \in Nat /\ Cardinality(free) <= MaxParallel
        /\ free \subseteq {targets[i] : i \in 1..nextTarget}
    <2>1. IsFiniteSet(probes) /\ Cardinality(probes) <= MaxParallel /\ probes \subseteq Given
      BY DEF ScanInv, PoolInv
    <2>2. IsFiniteSet(free) /\ Cardinality(free) = Cardinality(probes) - 1
      BY <2>1, FS_RemoveElement
    <2>3. Cardinality(free) \in Nat /\ Cardinality(probes) \in Nat /\ MaxParallel \in Nat
      BY <2>1, <2>2, FS_CardinalityType, ScannerAssumption DEF ScannerAssumption
    <2>. QED  BY <2>1, <2>2, <2>3 DEF Given
  <1>. HIDE DEF free
  <1>6. /\ nextTarget' \in nextTarget..Len(targets)
        /\ probes' = free \cup {targets[i] : i \in nextTarget + 1 .. nextTarget'}
        /\ IsFiniteSet(probes') /\ Cardinality(probes') <= MaxParallel
        /\ Cardinality(probes') = Cardinality(free) + nextTarget' - nextTarget
    BY <1>1, <1>2, <1>4, <1>5, LaunchFills DEF free
  <1>7. nextTarget' \in Nat /\ nextTarget' >= nextTarget /\ nextTarget' <= Len(targets)
    BY <1>4, <1>6
  <1>8. \A i \in nextTarget + 1 .. nextTarget' : targets[i] \notin Given
    BY <1>3, <1>4, <1>7 DEF Given
  <1>9. Given \subseteq Given' /\ \A i \in nextTarget + 1 .. nextTarget' : targets[i] \in Given'
    BY <1>1, <1>4, <1>7 DEF Given
  <1>10. probes' \subseteq Given' /\ (Given \ probes) \cup {t} \subseteq Given' \ probes'
    <2>1. free \subseteq Given /\ free = probes \ {t}
      BY <1>5 DEF Given, free
    <2>. QED  BY <1>1, <1>6, <1>8, <1>9, <2>1
  <1>11. probed' = nextTarget' - Cardinality(probes')
    <2>1. probed = nextTarget - Cardinality(probes) /\ Cardinality(probes) \in Nat
      BY <1>1, FS_CardinalityType DEF ScanInv, PoolInv
    <2>. QED  BY <1>1, <1>4, <1>5, <1>6, <1>7, <2>1
  <1>12. PoolInv'
    <2>1. nextTarget' \in 0..Len(targets')
      BY <1>1, <1>4, <1>7
    <2>2. probed' \in Nat
      BY <1>1
    <2>. QED  BY <1>1, <1>2, <1>6, <1>10, <1>11, <2>1, <2>2 DEF PoolInv
  <1>13. probes' \subseteq probes \cup {targets[i] : i \in nextTarget + 1 .. Len(targets)}
    <2>1. nextTarget + 1 .. nextTarget' \subseteq nextTarget + 1 .. Len(targets)
      BY <1>4, <1>7
    <2>. QED  BY <1>6, <2>1 DEF free
  <1>. QED  BY <1>1, <1>7, <1>10, <1>11, <1>12, <1>13

(* checkFinished()                                                        *)
LEMMA SettledByCheck ==
  ASSUME PoolInv', probed' = nextTarget' - Cardinality(probes'), CheckFinished
  PROVE  StateInv' /\ state' \in {"Scanning", "Finished"}
  <1>1. /\ nextTarget' \in 0..Len(targets') /\ IsFiniteSet(probes') /\ targets' \in Seq(Targets)
    <2>1. targets' \in Lists \/ targets' = <<>>
      BY DEF PoolInv
    <2>. QED  BY <2>1, EmptySeq, ScannerAssumption DEF PoolInv, ScannerAssumption
  <1>2. Len(targets') \in Nat /\ Cardinality(probes') \in Nat
    BY <1>1, FS_CardinalityType
  <1>3. CASE probed' < Len(targets') \/ queue' # <<>> \/ current' # NoOne
    BY <1>3 DEF CheckFinished, StateInv
  <1>4. CASE ~ (probed' < Len(targets') \/ queue' # <<>> \/ current' # NoOne)
    <2>1. Cardinality(probes') = 0 /\ probed' = Len(targets')
      BY <1>1, <1>2, <1>4
    <2>2. probes' = {}
      BY <1>1, <2>1, FS_EmptySet
    <2>. QED  BY <1>4, <2>1, <2>2 DEF CheckFinished, StateInv
  <1>. QED  BY <1>3, <1>4

(* queryNext() decides the queries that are not dispatched, each of a port that  *)
(* was open, and leaves the rest asked.                                       *)
LEMMA NextDecides ==
  ASSUME NEW waiting \in Seq(Targets), Distinct(waiting), NEW table, NEW own, NEW work,
         table \in [DOMAIN table -> RowStatus],
         InStatus(table, "PortOpen") = Elements(waiting),
         QueryNext(waiting, table, own, work)
  PROVE  /\ rows' \in [DOMAIN table -> RowStatus]
         /\ \A t \in DOMAIN table : rows'[t] = table[t] \/ table[t] = "PortOpen"
         /\ InStatus(rows', "OpcUa") = InStatus(table, "OpcUa")
         /\ InStatus(rows', "PortOpen") = Asked'
         /\ Distinct(queue')
         /\ current' # NoOne => current'.target \notin Elements(queue')
  <1>1. PICK n \in 0 .. Len(waiting) :
          /\ rows' = Upsert(table, {waiting[i] : i \in 1..n}, "NoOpcUaResponse")
          /\ queue' = SubSeq(waiting, n + 2, Len(waiting))
          /\ \/ n = Len(waiting) /\ current' = NoOne
             \/ /\ n < Len(waiting)
                /\ current' = [target |-> waiting[n + 1], answered |-> FALSE]
    BY Zenon DEF QueryNext
  <1>. DEFINE decided == {waiting[i] : i \in 1..n}
              ahead   == {waiting[i] : i \in n + 1 .. Len(waiting)}
  <1>2. /\ Len(waiting) \in Nat /\ DOMAIN waiting = 1..Len(waiting)
        /\ \A i \in 1..Len(waiting) : waiting[i] \in Targets
    OBVIOUS
  <1>3. decided \subseteq Elements(waiting) /\ Elements(waiting) \ decided = ahead
    <2>1. ASSUME NEW i \in 1..n, NEW j \in n + 1 .. Len(waiting)  PROVE waiting[i] # waiting[j]
      BY <1>2 DEF Distinct
    <2>2. 1..Len(waiting) = 1..n \cup n + 1 .. Len(waiting)
      BY <1>2
    <2>. QED  BY <1>2, <2>1, <2>2 DEF Elements
  <1>. HIDE DEF decided, ahead
  <1>4. /\ DOMAIN table \cup decided = DOMAIN table
        /\ \A t \in decided : table[t] = "PortOpen"
    BY <1>3 DEF InStatus
  <1>5. rows' = [t \in DOMAIN table |-> IF t \in decided THEN "NoOpcUaResponse" ELSE table[t]]
    BY <1>1, <1>4 DEF Upsert, decided
  <1>6. /\ rows' \in [DOMAIN table -> RowStatus]
        /\ \A t \in DOMAIN table : rows'[t] = table[t] \/ table[t] = "PortOpen"
        /\ InStatus(rows', "OpcUa") = InStatus(table, "OpcUa")
        /\ InStatus(rows', "PortOpen") = InStatus(table, "PortOpen") \ decided
    BY <1>4, <1>5 DEF RowStatus, InStatus
  <1>7. /\ queue' \in Seq(Targets)
        /\ Len(queue') = IF n + 2 <= Len(waiting) THEN Len(waiting) - (n + 1) ELSE 0
        /\ \A i \in 1..Len(queue') : queue'[i] = waiting[n + 1 + i]
    <2>. DEFINE a == n + 2  z == Len(waiting)
    <2>1. a \in Nat /\ a >= 1 /\ z \in Nat /\ a - 1 = n + 1 /\ waiting \in Seq(Targets)
      BY <1>2
    <2>2. queue' = SubSeq(waiting, a, z)
      BY <1>1
    <2>. HIDE DEF a
    <2>3. /\ queue' \in Seq(Targets)
          /\ Len(queue') = IF a <= z THEN z - (a - 1) ELSE 0
          /\ \A i \in 1..Len(queue') : queue'[i] = waiting[(a - 1) + i]
      BY <2>1, <2>2
    <2>. QED  BY <2>1, <2>3 DEF a
  <1>8. Distinct(queue')
    <2>. SUFFICES ASSUME NEW i \in 1..Len(queue'), NEW j \in 1..Len(queue'), queue'[i] = queue'[j]
                  PROVE  i = j
      BY DEF Distinct
    <2>1. waiting[n + 1 + i] = waiting[n + 1 + j]
      BY <1>7
    <2>2. n + 1 + i \in 1..Len(waiting) /\ n + 1 + j \in 1..Len(waiting)
      BY <1>2, <1>7
    <2>3. n + 1 + i = n + 1 + j
      BY <2>1, <2>2 DEF Distinct
    <2>. QED  BY <2>3
  <1>9. Elements(queue') = {waiting[i] : i \in n + 2 .. Len(waiting)}
    <2>1. DOMAIN queue' = 1..Len(queue')
      BY <1>7
    <2>2. ASSUME NEW i \in n + 2 .. Len(waiting)
          PROVE  i - (n + 1) \in 1..Len(queue') /\ queue'[i - (n + 1)] = waiting[i]
      <3>1. i - (n + 1) \in 1..Len(queue') /\ n + 1 + (i - (n + 1)) = i
        BY <1>2, <1>7
      <3>. QED  BY <1>7, <3>1
    <2>3. ASSUME NEW i \in 1..Len(queue')  PROVE n + 1 + i \in n + 2 .. Len(waiting)
      BY <1>2, <1>7
    <2>. QED  BY <1>7, <2>1, <2>2, <2>3 DEF Elements
  <1>10. CASE n = Len(waiting)
    <2>1. current' = NoOne /\ ahead = {} /\ Elements(queue') = {}
      BY <1>1, <1>2, <1>9, <1>10 DEF ahead
    <2>. QED  BY <1>3, <1>6, <1>8, <2>1 DEF Asked
  <1>11. CASE n < Len(waiting)
    <2>1. current' = [target |-> waiting[n + 1], answered |-> FALSE] /\ n + 1 \in 1..Len(waiting)
      BY <1>1, <1>2, <1>11
    <2>2. current' # NoOne /\ current'.target = waiting[n + 1]
      <3>1. [target |-> waiting[n + 1], answered |-> FALSE] \in Queries
        BY <1>2, <2>1 DEF Queries
      <3>. QED  BY <2>1, <3>1, ScannerAssumption DEF ScannerAssumption
    <2>3. waiting[n + 1] \notin Elements(queue')
      <3>1. \A i \in n + 2 .. Len(waiting) : waiting[i] # waiting[n + 1]
        BY <1>2, <2>1 DEF Distinct
      <3>. QED  BY <1>9, <3>1
    <2>4. ahead = Elements(queue') \cup {waiting[n + 1]}
      <3>1. n + 1 .. Len(waiting) = n + 2 .. Len(waiting) \cup {n + 1}
        BY <1>2, <1>11
      <3>. QED  BY <1>9, <3>1 DEF ahead
    <2>5. Asked' = ahead
      BY <2>2, <2>4 DEF Asked
    <2>. QED  BY <1>3, <1>6, <1>8, <2>2, <2>3, <2>5
  <1>. QED  BY <1>1, <1>10, <1>11

-----------------------------------------------------------------------------
(* What a step of a scan does to the outcomes: no row is lost, only open ports   *)
(* are decided, new rows come from probes and new probes from what is left.    *)
Forward ==
  /\ targets' = targets /\ nextTarget' >= nextTarget
  /\ \A t \in DOMAIN rows : t \in DOMAIN rows' /\ (rows'[t] = rows[t] \/ rows[t] = "PortOpen")
  /\ DOMAIN rows' \subseteq DOMAIN rows \cup probes
  /\ probes' \subseteq probes \cup {targets[i] : i \in nextTarget + 1 .. Len(targets)}

Goes == ScanInv' /\ state = "Scanning" /\ state' \in {"Scanning", "Finished"} /\ Forward

(* completeQuery()                                                          *)
LEMMA CompletedGoes ==
  ASSUME ScanInv, ClientInv', current # NoOne, UNCHANGED probeVars,
         NEW status \in {"OpcUa", "NoOpcUaResponse"}, NEW own, NEW work,
         CompleteQuery(status, own, work)
  PROVE  Goes
  <1>. DEFINE t == current.target
              table == Upsert(rows, {t}, status)
  <1>1. /\ QueryNext(queue, table, own, work) /\ CheckFinished
        /\ opcUaServers' = IF status = "OpcUa" THEN opcUaServers + 1 ELSE opcUaServers
    BY DEF CompleteQuery
  <1>2. /\ queue \in Seq(Targets) /\ Distinct(queue) /\ t \notin Elements(queue)
        /\ state = "Scanning" /\ InStatus(rows, "PortOpen") = Elements(queue) \cup {t}
        /\ rows \in [DOMAIN rows -> RowStatus]
    BY DEF ScanInv, ClientInv, QueryTypes, AskedInv, StateInv, RowInv, Asked
  <1>3. t \in DOMAIN rows /\ rows[t] = "PortOpen"
    BY <1>2 DEF InStatus
  <1>. HIDE DEF t
  <1>4. table = [x \in DOMAIN rows |-> IF x = t THEN status ELSE rows[x]]
    BY <1>3 DEF Upsert
  <1>5. DOMAIN table = DOMAIN rows /\ table \in [DOMAIN table -> RowStatus]
    BY <1>2, <1>4 DEF RowStatus
  <1>6. InStatus(table, "PortOpen") = Elements(queue)
    BY <1>2, <1>4 DEF InStatus
  <1>7. InStatus(table, "OpcUa")
          = InStatus(rows, "OpcUa") \cup (IF status = "OpcUa" THEN {t} ELSE {})
    BY <1>3, <1>4 DEF InStatus
  <1>. HIDE DEF table
  <1>8. /\ rows' \in [DOMAIN rows -> RowStatus]
        /\ \A x \in DOMAIN rows : rows'[x] = table[x] \/ table[x] = "PortOpen"
        /\ InStatus(rows', "OpcUa") = InStatus(table, "OpcUa")
        /\ InStatus(rows', "PortOpen") = Asked'
        /\ Distinct(queue')
        /\ current' # NoOne => current'.target \notin Elements(queue')
    BY <1>1, <1>2, <1>5, <1>6, NextDecides
  <1>9. UNCHANGED <<targets, nextTarget, probes, probed, openPorts>>
    BY DEF probeVars
  <1>10. probed' = nextTarget' - Cardinality(probes') /\ PoolInv'
    BY <1>2, <1>9 DEF ScanInv, PoolInv, Given
  <1>11. StateInv' /\ state' \in {"Scanning", "Finished"}
    BY <1>1, <1>10, SettledByCheck
  <1>12. RowInv'
    <2>1. opcUaServers' = Cardinality(InStatus(rows', "OpcUa"))
      <3>1. IsFiniteSet(InStatus(rows, "OpcUa")) /\ t \notin InStatus(rows, "OpcUa")
        <4>1. IsFiniteSet(DOMAIN rows) /\ InStatus(rows, "OpcUa") \in SUBSET DOMAIN rows
          BY DEF ScanInv, RowInv, InStatus
        <4>. QED  BY <1>3, <4>1, FS_Subset DEF InStatus
      <3>2. opcUaServers = Cardinality(InStatus(rows, "OpcUa"))
        BY DEF ScanInv, RowInv
      <3>3. CASE status = "OpcUa"
        BY <1>1, <1>7, <1>8, <3>1, <3>2, <3>3, FS_AddElement
      <3>4. CASE status # "OpcUa"
        BY <1>1, <1>7, <1>8, <3>2, <3>4
      <3>. QED  BY <3>3, <3>4
    <2>. QED  BY <1>8, <1>9, <2>1 DEF ScanInv, RowInv, Given
  <1>13. AskedInv'
    BY <1>8 DEF AskedInv
  <1>14. Forward
    <2>1. \A x \in DOMAIN rows : rows'[x] = rows[x] \/ rows[x] = "PortOpen"
      BY <1>3, <1>4, <1>8 DEF table
    <2>. QED  BY <1>8, <1>9, <2>1 DEF Forward, ScanInv, PoolInv
  <1>. QED  BY <1>2, <1>10, <1>11, <1>12, <1>13, <1>14 DEF Goes, ScanInv

LEMMA ProbeFailsGoes ==
  ASSUME ScanInv, ClientInv', NEW t \in Targets, ProbeFails(t)
  PROVE  Goes
  <1>1. /\ t \in probes /\ FinishProbe(t) /\ CheckFinished
        /\ UNCHANGED <<openPorts, opcUaServers, queue, current, rows>>
    BY DEF ProbeFails, queryVars
  <1>2. /\ state = "Scanning" /\ targets' = targets /\ PoolInv' /\ nextTarget' >= nextTarget
        /\ probes' \subseteq probes \cup {targets[i] : i \in nextTarget + 1 .. Len(targets)}
        /\ probed' = nextTarget' - Cardinality(probes')
        /\ (Given \ probes) \cup {t} \subseteq Given' \ probes'
    BY <1>1, PoolRefilled
  <1>3. StateInv' /\ state' \in {"Scanning", "Finished"}
    BY <1>1, <1>2, SettledByCheck
  <1>4. RowInv' /\ AskedInv'
    BY <1>1, <1>2 DEF ScanInv, RowInv, AskedInv, Asked
  <1>5. Forward
    BY <1>1, <1>2 DEF Forward
  <1>. QED  BY <1>2, <1>3, <1>4, <1>5 DEF Goes, ScanInv

LEMMA ProbeConnectedGoes ==
  ASSUME ScanInv, ClientInv', NEW t \in Targets, OnProbeConnected(t)
  PROVE  Goes
  <1>. DEFINE waiting == Append(queue, t)
              table == Upsert(rows, {t}, "PortOpen")
  <1>1. /\ t \in probes /\ FinishProbe(t) /\ CheckFinished
        /\ openPorts' = openPorts + 1 /\ opcUaServers' = opcUaServers
        /\ \/ current = NoOne /\ QueryNext(waiting, table, client, pending)
           \/ /\ current # NoOne /\ current' = current
              /\ queue' = waiting /\ rows' = table
    BY DEF OnProbeConnected
  <1>2. /\ state = "Scanning" /\ targets' = targets /\ PoolInv' /\ nextTarget' >= nextTarget
        /\ probes' \subseteq probes \cup {targets[i] : i \in nextTarget + 1 .. Len(targets)}
        /\ probed' = nextTarget' - Cardinality(probes')
        /\ (Given \ probes) \cup {t} \subseteq Given' \ probes'
    BY <1>1, PoolRefilled
  <1>3. StateInv' /\ state' \in {"Scanning", "Finished"}
    BY <1>1, <1>2, SettledByCheck
  <1>4. /\ t \notin DOMAIN rows /\ rows \in [DOMAIN rows -> RowStatus]
        /\ InStatus(rows, "PortOpen") = Asked /\ queue \in Seq(Targets) /\ Distinct(queue)
        /\ current # NoOne => current.target \notin Elements(queue)
    BY <1>1, <1>2 DEF ScanInv, RowInv, AskedInv, ClientInv, QueryTypes
  <1>5. t \notin Asked
    BY <1>4 DEF InStatus
  <1>6. /\ waiting \in Seq(Targets) /\ Elements(waiting) = Elements(queue) \cup {t}
        /\ Distinct(waiting)
    <2>1. /\ waiting \in Seq(Targets) /\ Len(waiting) = Len(queue) + 1 /\ Len(queue) \in Nat
          /\ \A i \in 1..Len(queue) : waiting[i] = queue[i]
          /\ waiting[Len(queue) + 1] = t
          /\ DOMAIN queue = 1..Len(queue) /\ DOMAIN waiting = 1..Len(queue) + 1
      BY <1>4, AppendProperties
    <2>. HIDE DEF waiting
    <2>2. 1..Len(queue) + 1 = 1..Len(queue) \cup {Len(queue) + 1}
      BY <2>1
    <2>3. Elements(waiting) = Elements(queue) \cup {t}
      BY <2>1, <2>2 DEF Elements
    <2>4. \A i \in 1..Len(queue) : queue[i] # t
      BY <1>5, <2>1 DEF Asked, Elements
    <2>5. Distinct(waiting)
      BY <1>4, <2>1, <2>2, <2>4 DEF Distinct
    <2>. QED  BY <2>1, <2>3, <2>5
  <1>7. table = [x \in DOMAIN rows \cup {t} |-> IF x = t THEN "PortOpen" ELSE rows[x]]
    BY DEF Upsert
  <1>8. /\ DOMAIN table = DOMAIN rows \cup {t} /\ table \in [DOMAIN table -> RowStatus]
        /\ InStatus(table, "OpcUa") = InStatus(rows, "OpcUa")
        /\ InStatus(table, "PortOpen") = Asked \cup {t}
        /\ \A x \in DOMAIN rows : table[x] = rows[x]
    BY <1>4, <1>7 DEF RowStatus, InStatus
  <1>. HIDE DEF waiting, table
  <1>9. /\ rows' \in [DOMAIN table -> RowStatus]
        /\ \A x \in DOMAIN table : rows'[x] = table[x] \/ table[x] = "PortOpen"
        /\ InStatus(rows', "OpcUa") = InStatus(table, "OpcUa")
        /\ InStatus(rows', "PortOpen") = Asked'
        /\ Distinct(queue')
        /\ current' # NoOne => current'.target \notin Elements(queue')
    <2>1. CASE current = NoOne
      <3>1. InStatus(table, "PortOpen") = Elements(waiting)
        BY <1>6, <1>8, <2>1 DEF Asked
      <3>2. QueryNext(waiting, table, client, pending)
        BY <1>1, <2>1
      <3>. QED  BY <1>6, <1>8, <3>1, <3>2, NextDecides
    <2>2. CASE current # NoOne
      <3>1. current' = current /\ queue' = waiting /\ rows' = table
        BY <1>1, <2>2
      <3>2. Asked' = Asked \cup {t}
        BY <1>6, <2>2, <3>1 DEF Asked
      <3>3. current.target \notin Elements(waiting)
        BY <1>4, <1>5, <1>6, <2>2 DEF Asked
      <3>. QED  BY <1>6, <1>8, <3>1, <3>2, <3>3
    <2>. QED  BY <2>1, <2>2
  <1>10. RowInv'
    <2>1. DOMAIN rows' = DOMAIN rows \cup {t}
      BY <1>8, <1>9
    <2>2. IsFiniteSet(DOMAIN rows) /\ openPorts = Cardinality(DOMAIN rows)
      BY DEF ScanInv, RowInv
    <2>3. IsFiniteSet(DOMAIN rows') /\ openPorts' = Cardinality(DOMAIN rows')
      BY <1>1, <1>4, <2>1, <2>2, FS_AddElement
    <2>4. DOMAIN rows' \subseteq Given' \ probes'
      BY <1>2, <2>1 DEF ScanInv, RowInv
    <2>5. opcUaServers' = Cardinality(InStatus(rows', "OpcUa"))
      BY <1>1, <1>8, <1>9 DEF ScanInv, RowInv
    <2>. QED  BY <1>8, <1>9, <2>1, <2>3, <2>4, <2>5 DEF RowInv
  <1>11. AskedInv'
    BY <1>9 DEF AskedInv
  <1>12. Forward
    BY <1>1, <1>2, <1>8, <1>9 DEF Forward
  <1>. QED  BY <1>2, <1>3, <1>10, <1>11, <1>12 DEF Goes, ScanInv

(* What the outcomes are computed from.                                       *)
Rests == UNCHANGED <<state, targets, nextTarget, probes, rows>>

LEMMA RestsKeeps ==
  ASSUME ScanInv, ClientInv', Rests,
         UNCHANGED <<probed, openPorts, opcUaServers, queue>>,
         current' = current \/ (current # NoOne /\ current' # NoOne /\ current'.target = current.target)
  PROVE  ScanInv'
  <1>1. PoolInv' /\ RowInv'
    BY DEF Rests, ScanInv, PoolInv, RowInv, Given
  <1>2. AskedInv' /\ StateInv'
    BY DEF Rests, ScanInv, AskedInv, StateInv, Asked
  <1>. QED  BY <1>1, <1>2 DEF ScanInv

LEMMA StepGoes ==
  ASSUME ScanInv, ClientInv', ScannerStep
  PROVE  Goes \/ (ScanInv' /\ Rests)
  <1>1. ASSUME NEW t \in Targets, ProbeFails(t) \/ OnProbeConnected(t)  PROVE Goes
    BY <1>1, ProbeFailsGoes, ProbeConnectedGoes
  <1>2. ASSUME client # NoOne, pending[client] # NoOne
        PROVE  /\ ~Stale /\ current # NoOne /\ current \in Queries
    BY <1>2, EndedServes DEF ScanInv, Stale
  <1>3. CASE OnFindServersFinished
    <2>1. client # NoOne /\ pending[client] # NoOne /\ UNCHANGED probeVars
      BY <1>3 DEF OnFindServersFinished, Finishes
    <2>2. ~Stale /\ current # NoOne /\ current \in Queries
      BY <1>2, <2>1
    <2>3. CASE CompleteQuery("NoOpcUaResponse", client, Ended(client))
      BY <2>1, <2>2, <2>3, CompletedGoes
    <2>4. CASE CompleteQuery("OpcUa", client, Ended(client))
      BY <2>1, <2>2, <2>4, CompletedGoes
    <2>5. ASSUME NEW named \in BOOLEAN, current' = [current EXCEPT !.answered = named],
                 UNCHANGED <<state, opcUaServers, queue, client, rows>>
          PROVE  ScanInv' /\ Rests
      <3>1. current' \in Queries /\ current'.target = current.target
        BY <2>2, <2>5 DEF Queries
      <3>2. current' # NoOne
        BY <3>1, ScannerAssumption DEF ScannerAssumption
      <3>3. Rests /\ UNCHANGED <<probed, openPorts, opcUaServers, queue>>
        BY <2>1, <2>5 DEF Rests, probeVars
      <3>. QED  BY <2>2, <3>1, <3>2, <3>3, RestsKeeps
    <2>. QED  BY <1>3, <2>2, <2>3, <2>4, <2>5 DEF OnFindServersFinished
  <1>4. CASE OnEndpointsFinished
    <2>1. client # NoOne /\ pending[client] # NoOne /\ UNCHANGED probeVars
      BY <1>4 DEF OnEndpointsFinished, Finishes
    <2>2. CompleteQuery("OpcUa", client, Ended(client)) /\ current # NoOne
      BY <1>2, <1>4, <2>1 DEF OnEndpointsFinished
    <2>. QED  BY <2>1, <2>2, CompletedGoes
  <1>5. CASE OnOpcUaTimeout
    <2>1. PICK status \in {"OpcUa", "NoOpcUaResponse"} : CompleteQuery(status, NoOne, pending)
      BY <1>5 DEF OnOpcUaTimeout
    <2>2. current # NoOne /\ UNCHANGED probeVars
      BY <1>5 DEF OnOpcUaTimeout
    <2>. QED  BY <2>1, <2>2, CompletedGoes
  <1>6. ASSUME NEW c \in Clients, ReleaseRetired(c)  PROVE ScanInv' /\ Rests
    <2>1. Rests /\ UNCHANGED <<probed, openPorts, opcUaServers, queue, current>>
      BY <1>6 DEF ReleaseRetired, Rests, probeVars, queryVars
    <2>. QED  BY <2>1, RestsKeeps
  <1>. QED  BY <1>1, <1>3, <1>4, <1>5, <1>6 DEF ScannerStep

LEMMA StartKeeps == ASSUME ScanInv, ClientInv', Start PROVE ScanInv'
  <1>1. PICK list \in Lists :
          /\ queue' = <<>> /\ current' = NoOne /\ rows' = <<>> /\ targets' = list
          /\ probed' = 0 /\ openPorts' = 0 /\ opcUaServers' = 0
          /\ LaunchProbes({}, 0, list) /\ CheckFinished
    BY DEF Start, AbortAll
  <1>2. /\ IsFiniteSet({}) /\ Cardinality({}) = 0
        /\ \A S : IsFiniteSet(S) => (Cardinality(S) = 0 <=> S = {})
    BY FS_EmptySet
  <1>3. /\ list \in Seq(Targets) /\ MaxParallel \in Nat /\ 0 \in 0..Len(list) /\ Len(list) \in Nat
    BY ScannerAssumption DEF ScannerAssumption
  <1>4. /\ nextTarget' \in 0..Len(list)
        /\ probes' = {list[i] : i \in 1 .. nextTarget'}
        /\ IsFiniteSet(probes') /\ Cardinality(probes') <= MaxParallel
        /\ Cardinality(probes') = nextTarget'
    <2>1. Cardinality({}) <= MaxParallel /\ {} \subseteq {list[i] : i \in 1..0}
      BY <1>2, <1>3
    <2>2. /\ nextTarget' \in 0..Len(list)
          /\ probes' = {} \cup {list[i] : i \in 0 + 1 .. nextTarget'}
          /\ IsFiniteSet(probes') /\ Cardinality(probes') <= MaxParallel
          /\ Cardinality(probes') = Cardinality({}) + nextTarget' - 0
      BY <1>1, <1>2, <1>3, <2>1, LaunchFills
    <2>. QED  BY <1>2, <1>3, <2>2
  <1>5. PoolInv' /\ probed' = nextTarget' - Cardinality(probes')
    <2>1. nextTarget' \in Nat /\ Cardinality(probes') = nextTarget' /\ probed' = 0
      BY <1>1, <1>3, <1>4
    <2>2. probed' = nextTarget' - Cardinality(probes')
      <3>1. \A n \in Nat : n - n = 0
        OBVIOUS
      <3>. QED  BY <2>1, <3>1
    <2>3. probed' \in Nat
      BY <2>1
    <2>. QED  BY <1>1, <1>4, <2>2, <2>3 DEF PoolInv, Given
  <1>6. StateInv' /\ state' \in {"Scanning", "Finished"}
    BY <1>1, <1>5, SettledByCheck
  <1>7. DOMAIN rows' = {}
    BY <1>1
  <1>8. RowInv'
    <2>1. rows' \in [DOMAIN rows' -> RowStatus]
      BY <1>1
    <2>2. InStatus(rows', "OpcUa") = {}
      BY <1>7 DEF InStatus
    <2>. QED  BY <1>1, <1>2, <1>7, <2>1, <2>2 DEF RowInv
  <1>9. AskedInv'
    <2>1. InStatus(rows', "PortOpen") = {}
      BY <1>7 DEF InStatus
    <2>2. DOMAIN queue' = {} /\ Len(queue') = 0
      BY <1>1
    <2>. QED  BY <1>1, <2>1, <2>2 DEF AskedInv, Asked, Elements, Distinct
  <1>. QED  BY <1>5, <1>6, <1>8, <1>9 DEF ScanInv

LEMMA CancelKeeps == ASSUME ScanInv, ClientInv', Cancel PROVE ScanInv'
  <1>1. /\ state' = "Cancelled" /\ queue' = <<>> /\ current' = NoOne /\ probes' = {}
        /\ UNCHANGED <<targets, nextTarget, probed, openPorts, opcUaServers, rows>>
    BY DEF Cancel, AbortAll
  <1>2. IsFiniteSet({}) /\ Cardinality({}) = 0 /\ MaxParallel \in Nat
    BY FS_EmptySet, ScannerAssumption DEF ScannerAssumption
  <1>3. PoolInv'
    BY <1>1, <1>2 DEF ScanInv, PoolInv, Given
  <1>4. RowInv'
    BY <1>1 DEF ScanInv, RowInv, Given
  <1>5. AskedInv' /\ StateInv'
    BY <1>1 DEF ScanInv, AskedInv, StateInv, Distinct
  <1>. QED  BY <1>3, <1>4, <1>5 DEF ScanInv

LEMMA ScanInvInit == ASSUME Init PROVE ScanInv
  <1>1. /\ targets = <<>> /\ rows = <<>> /\ nextTarget = 0 /\ probes = {} /\ probed = 0
        /\ openPorts = 0 /\ opcUaServers = 0 /\ queue = <<>> /\ current = NoOne /\ state = "Idle"
    BY DEF Init
  <1>2. IsFiniteSet({}) /\ Cardinality({}) = 0 /\ MaxParallel \in Nat
    BY FS_EmptySet, ScannerAssumption DEF ScannerAssumption
  <1>3. PoolInv
    BY <1>1, <1>2 DEF PoolInv
  <1>4. DOMAIN rows = {} /\ InStatus(rows, "OpcUa") = {} /\ InStatus(rows, "PortOpen") = {}
    BY <1>1 DEF InStatus
  <1>5. RowInv
    <2>1. rows \in [DOMAIN rows -> RowStatus]
      BY <1>1
    <2>. QED  BY <1>1, <1>2, <1>4, <2>1 DEF RowInv
  <1>6. AskedInv /\ StateInv
    BY <1>1, <1>4 DEF AskedInv, StateInv, Asked, Elements, Distinct
  <1>. QED  BY <1>3, <1>5, <1>6, ClientInvInit DEF ScanInv

LEMMA ScanInvKept == ASSUME ScanInv, [Next]_vars PROVE ScanInv'
  <1>1. ClientInv'
    BY ClientInvKept DEF ScanInv
  <1>2. CASE UNCHANGED vars
    BY <1>1, <1>2, RestsKeeps DEF Rests, vars
  <1>. QED  BY <1>1, <1>2, StartKeeps, CancelKeeps, StepGoes DEF Next, Goes

(* The invariant counts what the view counts.                                  *)
LEMMA ScanInvCounts == ASSUME ScanInv PROVE CountersMatchRows
  <1>1. openPorts \in Nat /\ opcUaServers \in Nat
    <2>1. IsFiniteSet(DOMAIN rows) /\ InStatus(rows, "OpcUa") \in SUBSET DOMAIN rows
      BY DEF ScanInv, RowInv, InStatus
    <2>2. IsFiniteSet(InStatus(rows, "OpcUa"))
      BY <2>1, FS_Subset
    <2>. QED  BY <2>1, <2>2, FS_CardinalityType DEF ScanInv, RowInv
  <1>2. Given \subseteq Targets
    <2>1. targets \in Lists \/ targets = <<>>
      BY DEF ScanInv, PoolInv
    <2>2. targets \in Seq(Targets) /\ nextTarget \in 0..Len(targets)
      BY <2>1, EmptySeq, ScannerAssumption DEF ScanInv, PoolInv, ScannerAssumption
    <2>. QED  BY <2>2 DEF Given
  <1>3. TypeOK
    BY <1>1, <1>2 DEF TypeOK, ScanInv, ClientInv, QueryTypes, PoolInv, RowInv, StateInv
  <1>. QED  BY <1>3 DEF CountersMatchRows, ScanInv, PoolInv, RowInv, InStatus

(* The counters the scan view shows count its rows, and every target given to    *)
(* the pool is either being probed or counted as probed, however probes, answers  *)
(* and timeouts interleave and whenever the scan is restarted                  *)
(* (NetworkScanner::onProbeConnected, finishProbe, completeQuery).             *)
THEOREM CountersAlwaysMatch == Spec => []CountersMatchRows
  BY ScanInvCounts, ScanInvInit, ScanInvKept, PTL DEF Spec

-----------------------------------------------------------------------------
(* The scanner implements NetworkScan.                                       *)

Remaining == {targets[i] : i \in nextTarget + 1 .. Len(targets)}

LEMMA OutcomeIs ==
  ASSUME ScanInv, state # "Cancelled"
  PROVE  /\ Outcome = [t \in Elements(targets) |->
                         IF t \in DOMAIN rows THEN rows[t]
                         ELSE IF t \in probes \cup Remaining THEN "waiting" ELSE "closed"]
         /\ targets \in Seq(Targets) /\ Len(targets) \in Nat /\ nextTarget \in 0..Len(targets)
         /\ Elements(targets) = Given \cup Remaining /\ Given \cap Remaining = {}
         /\ DOMAIN rows \subseteq Given /\ probes \subseteq Given /\ DOMAIN rows \cap probes = {}
  <1>1. targets \in Lists \/ targets = <<>>
    BY DEF ScanInv, PoolInv
  <1>2. /\ targets \in Seq(Targets) /\ nextTarget \in 0..Len(targets)
        /\ \A i, j \in 1..Len(targets) : targets[i] = targets[j] => i = j
    <2>1. CASE targets \in Lists
      BY <2>1, ScannerAssumption DEF ScanInv, PoolInv, ScannerAssumption
    <2>2. CASE targets = <<>>
      BY <2>2, EmptySeq DEF ScanInv, PoolInv
    <2>. QED  BY <1>1, <2>1, <2>2
  <1>3. DOMAIN targets = 1..Len(targets) /\ Len(targets) \in Nat
    BY <1>2
  <1>4. 1..Len(targets) = 1..nextTarget \cup nextTarget + 1 .. Len(targets)
    BY <1>2, <1>3
  <1>5. Elements(targets) = Given \cup Remaining
    BY <1>3, <1>4 DEF Elements, Given, Remaining
  <1>6. Given \cap Remaining = {}
    BY <1>2, <1>3 DEF Given, Remaining
  <1>7. DOMAIN rows \subseteq Given \ probes /\ probes \subseteq Given
    BY DEF ScanInv, PoolInv, RowInv
  <1>. QED  BY <1>2, <1>3, <1>5, <1>6, <1>7 DEF Outcome, Remaining

(* A scan is finished exactly when the outcome of each target is final.          *)
LEMMA FinishedIsFinal ==
  ASSUME ScanInv, state \in {"Scanning", "Finished"}
  PROVE  Scan!AllFinal(Outcome) <=> state = "Finished"
  <1>1. /\ DOMAIN Outcome = Elements(targets)
        /\ \A t \in Elements(targets) :
             Outcome[t] = IF t \in DOMAIN rows THEN rows[t]
                          ELSE IF t \in probes \cup Remaining THEN "waiting" ELSE "closed"
    BY OutcomeIs
  <1>2. Scan!AllFinal(Outcome)
          <=> \A t \in Elements(targets) : Outcome[t] \in {"closed", "OpcUa", "NoOpcUaResponse"}
    BY <1>1 DEF Scan!AllFinal, Scan!Final
  <1>3. /\ targets \in Seq(Targets) /\ Len(targets) \in Nat /\ nextTarget \in 0..Len(targets)
        /\ Elements(targets) = Given \cup Remaining /\ Given \cap Remaining = {}
        /\ DOMAIN rows \subseteq Given /\ probes \subseteq Given /\ DOMAIN rows \cap probes = {}
    BY OutcomeIs
  <1>4. /\ InStatus(rows, "PortOpen") = Asked /\ rows \in [DOMAIN rows -> RowStatus]
        /\ probed = nextTarget - Cardinality(probes) /\ Cardinality(probes) \in Nat
        /\ Cardinality(probes) = 0 <=> probes = {}
    BY FS_EmptySet, FS_CardinalityType DEF ScanInv, AskedInv, RowInv, PoolInv
  <1>5. CASE state = "Finished"
    <2>1. probes = {} /\ queue = <<>> /\ current = NoOne /\ probed = Len(targets)
      BY <1>5 DEF ScanInv, StateInv
    <2>2. Remaining = {}
      <3>1. nextTarget = Len(targets)
        BY <1>3, <1>4, <2>1
      <3>. QED  BY <1>3, <3>1 DEF Remaining
    <2>3. Asked = {}
      BY <2>1 DEF Asked, Elements
    <2>4. \A t \in DOMAIN rows : rows[t] \in {"OpcUa", "NoOpcUaResponse"}
      BY <1>4, <2>3 DEF InStatus, RowStatus
    <2>. QED  BY <1>1, <1>2, <1>5, <2>1, <2>2, <2>4
  <1>6. CASE state = "Scanning"
    <2>1. ASSUME NEW t \in Asked
          PROVE  t \in Elements(targets) /\ Outcome[t] = "PortOpen"
      BY <1>1, <1>3, <1>4, <2>1 DEF InStatus
    <2>2. CASE queue # <<>>
      <3>1. queue \in Seq(Targets)
        BY DEF ScanInv, ClientInv, QueryTypes
      <3>2. queue[1] \in Asked
        BY <2>2, <3>1 DEF Asked, Elements
      <3>. QED  BY <1>2, <1>6, <2>1, <3>2
    <2>3. CASE current # NoOne
      <3>1. current.target \in Asked
        BY <2>3 DEF Asked
      <3>. QED  BY <1>2, <1>6, <2>1, <3>1
    <2>4. CASE probed < Len(targets)
      <3>1. CASE probes # {}
        <4>1. PICK t \in probes : TRUE
          BY <3>1
        <4>2. t \in Elements(targets) /\ Outcome[t] = "waiting"
          BY <1>1, <1>3, <4>1
        <4>. QED  BY <1>2, <1>6, <4>2
      <3>2. CASE probes = {}
        <4>1. nextTarget < Len(targets)
          BY <1>3, <1>4, <2>4, <3>2
        <4>2. targets[Len(targets)] \in Remaining
          BY <1>3, <4>1 DEF Remaining
        <4>3. Outcome[targets[Len(targets)]] = "waiting"
          BY <1>1, <1>3, <4>2
        <4>. QED  BY <1>2, <1>3, <1>6, <4>2, <4>3
      <3>. QED  BY <3>1, <3>2
    <2>. QED  BY <1>6, <2>2, <2>3, <2>4 DEF ScanInv, StateInv
  <1>. QED  BY <1>5, <1>6

LEMMA GoesAdvances == ASSUME ScanInv, Goes PROVE Scan!Advance
  <1>1. /\ ScanInv' /\ state = "Scanning" /\ state' \in {"Scanning", "Finished"}
        /\ targets' = targets /\ nextTarget' >= nextTarget
        /\ \A t \in DOMAIN rows : t \in DOMAIN rows' /\ (rows'[t] = rows[t] \/ rows[t] = "PortOpen")
        /\ DOMAIN rows' \subseteq DOMAIN rows \cup probes
        /\ probes' \subseteq probes \cup Remaining
    BY DEF Goes, Forward, Remaining
  <1>2. /\ Outcome = [t \in Elements(targets) |->
                        IF t \in DOMAIN rows THEN rows[t]
                        ELSE IF t \in probes \cup Remaining THEN "waiting" ELSE "closed"]
        /\ Len(targets) \in Nat /\ nextTarget \in 0..Len(targets)
    BY <1>1, OutcomeIs
  <1>3. /\ Outcome' = [t \in Elements(targets') |->
                         IF t \in DOMAIN rows' THEN rows'[t]
                         ELSE IF t \in probes' \cup Remaining' THEN "waiting" ELSE "closed"]
        /\ nextTarget' \in 0..Len(targets')
    <2>1. (ScanInv /\ state # "Cancelled"
             => /\ Outcome = [t \in Elements(targets) |->
                                IF t \in DOMAIN rows THEN rows[t]
                                ELSE IF t \in probes \cup Remaining THEN "waiting" ELSE "closed"]
                /\ nextTarget \in 0..Len(targets))'
      BY OutcomeIs, PTL
    <2>. QED  BY <1>1, <2>1
  <1>4. Remaining' \subseteq Remaining
    <2>1. nextTarget' + 1 .. Len(targets) \subseteq nextTarget + 1 .. Len(targets)
      BY <1>1, <1>2, <1>3
    <2>. QED  BY <1>1, <2>1 DEF Remaining
  <1>5. \A t \in DOMAIN rows : rows[t] \in RowStatus
    BY DEF ScanInv, RowInv
  <1>6. \A t \in DOMAIN rows' : rows'[t] \in RowStatus
    BY <1>1 DEF ScanInv, RowInv
  <1>7. ASSUME NEW t \in Elements(targets)
        PROVE  Outcome'[t] \in Scan!Later(Outcome[t])
    <2>1. CASE t \in DOMAIN rows
      <3>1. Outcome[t] = rows[t] /\ Outcome'[t] = rows'[t]
        BY <1>1, <1>2, <1>3, <2>1
      <3>2. rows'[t] \in RowStatus /\ (rows'[t] = rows[t] \/ rows[t] = "PortOpen")
        BY <1>1, <1>6, <2>1
      <3>. QED  BY <3>1, <3>2 DEF Scan!Later, RowStatus
    <2>2. CASE t \notin DOMAIN rows /\ t \in probes \cup Remaining
      <3>1. Outcome[t] = "waiting"
        BY <1>2, <2>2
      <3>2. Outcome'[t] \in RowStatus \cup {"waiting", "closed"}
        BY <1>1, <1>3, <1>6
      <3>. QED  BY <3>1, <3>2 DEF Scan!Later, RowStatus
    <2>3. CASE t \notin DOMAIN rows /\ t \notin probes \cup Remaining
      <3>1. Outcome[t] = "closed"
        BY <1>2, <2>3
      <3>2. Outcome'[t] = "closed"
        BY <1>1, <1>3, <1>4, <2>3
      <3>. QED  BY <3>1, <3>2 DEF Scan!Later
    <2>. QED  BY <2>1, <2>2, <2>3
  <1>8. DOMAIN Outcome' = DOMAIN Outcome /\ DOMAIN Outcome = Elements(targets)
    BY <1>1, <1>2, <1>3
  <1>9. state' = IF Scan!AllFinal(Outcome') THEN "Finished" ELSE "Scanning"
    <2>1. (ScanInv /\ state \in {"Scanning", "Finished"}
             => (Scan!AllFinal(Outcome) <=> state = "Finished"))'
      BY FinishedIsFinal, PTL
    <2>. QED  BY <1>1, <2>1
  <1>. QED  BY <1>1, <1>7, <1>8, <1>9 DEF Scan!Advance

LEMMA StartBegins == ASSUME ScanInv', Start PROVE Scan!Begin
  <1>1. PICK list \in Lists : /\ rows' = <<>> /\ targets' = list /\ CheckFinished
                              /\ LaunchProbes({}, 0, list) /\ probed' = 0
    BY DEF Start
  <1>2. list \in Seq(Targets) /\ list # <<>> /\ Len(list) \in Nat \ {0}
    <2>1. list \in Seq(Targets) /\ list # <<>>
      BY ScannerAssumption DEF ScannerAssumption
    <2>. QED  BY <2>1, EmptySeq
  <1>3. state' = "Scanning"
    BY <1>1, <1>2 DEF CheckFinished
  <1>4. (ScanInv /\ state # "Cancelled"
           => /\ Outcome = [t \in Elements(targets) |->
                              IF t \in DOMAIN rows THEN rows[t]
                              ELSE IF t \in probes \cup Remaining THEN "waiting" ELSE "closed"]
              /\ nextTarget \in 0..Len(targets)
              /\ Elements(targets) = Given \cup Remaining)'
    BY OutcomeIs, PTL
  <1>5. DOMAIN rows' = {}
    BY <1>1
  <1>6. Elements(targets') \subseteq probes' \cup Remaining'
    <2>1. probes' = Given'
      <3>1. probed' = nextTarget' - Cardinality(probes') /\ nextTarget' \in 0..Len(targets')
        BY <1>3 DEF ScanInv, PoolInv
      <3>2. probes' = {list[0 + i] : i \in 1..nextTarget'}
        BY <1>1, <1>2, <3>1, FS_EmptySet, ScannerAssumption DEF LaunchProbes, ScannerAssumption
      <3>3. \A i \in 1..nextTarget' : list[0 + i] = list[i]
        BY <1>2, <3>1
      <3>. QED  BY <1>1, <3>2, <3>3 DEF Given
    <2>. QED  BY <1>3, <1>4, <2>1
  <1>7. Outcome' = [t \in Elements(list) |-> "waiting"]
    BY <1>1, <1>3, <1>4, <1>5, <1>6
  <1>. QED  BY <1>3, <1>7 DEF Scan!Begin, Elements

LEMMA CancelStops == ASSUME ScanInv, Cancel PROVE Scan!Stop
  <1>1. state = "Scanning" /\ state' = "Cancelled" /\ rows' = rows
    BY DEF Cancel
  <1>2. /\ Outcome = [t \in Elements(targets) |->
                        IF t \in DOMAIN rows THEN rows[t]
                        ELSE IF t \in probes \cup Remaining THEN "waiting" ELSE "closed"]
        /\ DOMAIN rows \subseteq Elements(targets)
    BY <1>1, OutcomeIs
  <1>3. rows \in [DOMAIN rows -> RowStatus]
    BY DEF ScanInv, RowInv
  <1>4. Outcome' = rows
    BY <1>1 DEF Outcome
  <1>5. {t \in DOMAIN Outcome : Outcome[t] \notin {"waiting", "closed"}} = DOMAIN rows
    <2>1. \A t \in DOMAIN rows : rows[t] \notin {"waiting", "closed"}
      BY <1>3 DEF RowStatus
    <2>. QED  BY <1>2, <2>1
  <1>6. \A t \in DOMAIN rows : Outcome[t] = rows[t]
    BY <1>2
  <1>7. rows = [t \in DOMAIN rows |-> Outcome[t]]
    BY <1>3, <1>6
  <1>. QED  BY <1>1, <1>4, <1>5, <1>7 DEF Scan!Stop

LEMMA StepImplements ==
  ASSUME ScanInv, ScanInv', [Next]_vars
  PROVE  [Scan!ScanNext]_(Scan!scanVars)
  <1>1. ASSUME Rests  PROVE UNCHANGED Scan!scanVars
    <2>1. Outcome' = Outcome
      BY <1>1 DEF Rests, Outcome, Elements
    <2>. QED  BY <1>1, <2>1 DEF Rests, Scan!scanVars
  <1>2. CASE Start
    BY <1>2, StartBegins DEF Scan!ScanNext
  <1>3. CASE Cancel
    BY <1>3, CancelStops DEF Scan!ScanNext
  <1>4. CASE ScannerStep
    <2>1. ClientInv'
      BY DEF ScanInv
    <2>. QED  BY <1>1, <1>4, <2>1, StepGoes, GoesAdvances DEF Scan!ScanNext
  <1>5. CASE UNCHANGED vars
    BY <1>1, <1>5 DEF Rests, vars
  <1>. QED  BY <1>2, <1>3, <1>4, <1>5 DEF Next

(* The scanner keeps what NetworkScan promises: it is finished exactly when each   *)
(* target has its final outcome, no outcome is taken back, and an answer after a   *)
(* cancel or to an earlier scan changes nothing (checkFinished, abortAll).       *)
THEOREM ScannerImplementsScan == Spec => ImplementsScan
  <1>1. ASSUME Init  PROVE Scan!ScanInit
    <2>1. targets = <<>> /\ state = "Idle"
      BY <1>1 DEF Init
    <2>2. Elements(targets) = {}
      BY <2>1 DEF Elements
    <2>3. Outcome = <<>>
      BY <2>1, <2>2 DEF Outcome
    <2>. QED  BY <2>1, <2>3 DEF Scan!ScanInit
  <1>. QED  BY <1>1, ScanInvInit, ScanInvKept, StepImplements, PTL
            DEF Spec, ImplementsScan, Scan!ScanSpec

-----------------------------------------------------------------------------
(* ScanInput: numbers, made one from another.                                *)

LEMMA LeastNumber ==
  ASSUME NEW D, D \subseteq Nat, D # {}
  PROVE  \E i \in D : \A j \in D : i <= j
  <1>. DEFINE R == OpToRel(<, Nat)
  <1>1. \A x, y \in Nat : <<y, x>> \in R <=> y < x
    BY DEF OpToRel
  <1>2. IsWellFoundedOn(R, Nat)
    BY NatLessThanWellFounded
  <1>. HIDE DEF R
  <1>3. PICK x \in D : \A y \in D : ~(<<y, x>> \in R)
    BY <1>2, WFMin
  <1>4. \A y \in D : ~(y < x)
    BY <1>1, <1>3
  <1>. QED  BY <1>4

(* What holds of 0 and of each next number, up to n, holds up to n.               *)
LEMMA UpTo ==
  ASSUME NEW n \in Nat, NEW H, 0 \in H, \A k \in 1..n : k - 1 \in H => k \in H
  PROVE  \A k \in 0..n : k \in H
  <1>. DEFINE D == {k \in 0..n : k \notin H}
  <1>1. SUFFICES ASSUME D # {} PROVE FALSE
    OBVIOUS
  <1>2. D \subseteq Nat
    OBVIOUS
  <1>3. PICK k \in D : \A j \in D : k <= j
    BY <1>1, <1>2, LeastNumber
  <1>4. k \in 1..n /\ k - 1 \in 0..n /\ k - 1 \notin D
    BY <1>3
  <1>. QED  BY <1>3, <1>4

LEMMA OnAndOn ==
  ASSUME NEW H, 0 \in H, \A k \in Nat : k \in H => k + 1 \in H
  PROVE  \A k \in Nat : k \in H
  <1>1. SUFFICES ASSUME NEW n \in Nat PROVE n \in H
    OBVIOUS
  <1>2. \A k \in 1..n : k - 1 \in H => k \in H
    <2>1. SUFFICES ASSUME NEW k \in 1..n, k - 1 \in H PROVE k \in H
      OBVIOUS
    <2>2. k - 1 \in Nat /\ (k - 1) + 1 = k
      OBVIOUS
    <2>. QED  BY <2>1, <2>2
  <1>3. \A k \in 0..n : k \in H
    BY <1>2, UpTo
  <1>. QED  BY <1>3

(* A value made again and again, each from the one before it.                    *)
Made(D, base, h, n, f) ==
  /\ f \in [0..n -> D] /\ f[0] = base
  /\ \A k \in 1..n : f[k] = h[f[k - 1]][k]

MadeOn(D, base, h, f) ==
  f \in [Nat -> D] /\ f[0] = base /\ \A k \in Nat : f[k + 1] = h[f[k]][k + 1]

SameUpTo(m, f, g) == \A k \in 0..m : f[k] = g[k]

LEMMA MadeOnce ==
  ASSUME NEW D, NEW base \in D, NEW h \in [D -> [Nat -> D]], NEW m \in Nat, NEW n \in Nat,
         NEW f, NEW g, Made(D, base, h, m, f), Made(D, base, h, n, g), m <= n
  PROVE  SameUpTo(m, f, g)
  <1>. DEFINE H == {k \in 0..m : f[k] = g[k]}
  <1>1. 0 \in H
    BY DEF Made
  <1>2. ASSUME NEW k \in 1..m, k - 1 \in H PROVE k \in H
    <2>1. k \in 1..n /\ k \in 0..m /\ f[k - 1] = g[k - 1]
      BY <1>2
    <2>2. f[k] = h[f[k - 1]][k] /\ g[k] = h[g[k - 1]][k]
      BY <2>1 DEF Made
    <2>. QED  BY <2>1, <2>2
  <1>. HIDE DEF H
  <1>3. \A k \in 0..m : k \in H
    BY <1>1, <1>2, UpTo
  <1>. QED  BY <1>3 DEF H, SameUpTo

LEMMA MadeUpTo ==
  ASSUME NEW D, NEW base \in D, NEW h \in [D -> [Nat -> D]], NEW n \in Nat
  PROVE  \E f : Made(D, base, h, n, f)
  <1>. DEFINE H == {m \in Nat : \E f : Made(D, base, h, m, f)}
  <1>1. 0 \in H
    <2>1. Made(D, base, h, 0, [k \in 0..0 |-> base])
      BY DEF Made
    <2>. QED  BY <2>1
  <1>2. ASSUME NEW m \in Nat, m \in H PROVE m + 1 \in H
    <2>1. PICK f : Made(D, base, h, m, f)
      BY <1>2
    <2>. DEFINE g == [k \in 0..m + 1 |-> IF k = m + 1 THEN h[f[m]][m + 1] ELSE f[k]]
    <2>2. f \in [0..m -> D] /\ f[0] = base /\ \A k \in 1..m : f[k] = h[f[k - 1]][k]
      BY <2>1 DEF Made
    <2>3. m \in 0..m /\ f[m] \in D /\ m + 1 \in Nat
      BY <2>2
    <2>4. h[f[m]][m + 1] \in D
      BY <2>3
    <2>5. g \in [0..m + 1 -> D]
      BY <2>2, <2>4
    <2>6. g[0] = base
      BY <2>2
    <2>7. ASSUME NEW k \in 1..m + 1 PROVE g[k] = h[g[k - 1]][k]
      <3>1. CASE k = m + 1
        <4>1. g[k] = h[f[m]][m + 1] /\ g[k - 1] = f[m]
          BY <3>1
        <4>. QED  BY <3>1, <4>1
      <3>2. CASE k # m + 1
        <4>1. k \in 1..m /\ g[k] = f[k] /\ g[k - 1] = f[k - 1]
          BY <3>2
        <4>. QED  BY <2>2, <4>1
      <3>. QED  BY <3>1, <3>2
    <2>. HIDE DEF g
    <2>8. Made(D, base, h, m + 1, g)
      BY <2>5, <2>6, <2>7 DEF Made
    <2>. QED  BY <2>8
  <1>. HIDE DEF H
  <1>3. n \in H
    BY <1>1, <1>2, OnAndOn
  <1>. QED  BY <1>3 DEF H

LEMMA MadeForAll ==
  ASSUME NEW D, NEW base \in D, NEW h \in [D -> [Nat -> D]]
  PROVE  \E f : MadeOn(D, base, h, f)
  <1>. DEFINE F(n) == CHOOSE f : Made(D, base, h, n, f)
              f == [n \in Nat |-> F(n)[n]]
  <1>1. ASSUME NEW n \in Nat PROVE Made(D, base, h, n, F(n))
    BY MadeUpTo
  <1>. HIDE DEF F
  <1>2. ASSUME NEW n \in Nat PROVE F(n)[n] \in D
    <2>1. F(n) \in [0..n -> D] /\ n \in 0..n
      BY <1>1 DEF Made
    <2>. QED  BY <2>1
  <1>3. f \in [Nat -> D]
    BY <1>2
  <1>4. f[0] = base
    BY <1>1 DEF Made
  <1>5. ASSUME NEW k \in Nat PROVE f[k + 1] = h[f[k]][k + 1]
    <2>1. /\ Made(D, base, h, k, F(k)) /\ Made(D, base, h, k + 1, F(k + 1))
          /\ k + 1 \in Nat /\ k <= k + 1 /\ k \in 0..k
      BY <1>1
    <2>2. F(k)[k] = F(k + 1)[k]
      <3>1. SameUpTo(k, F(k), F(k + 1))
        BY <2>1, MadeOnce
      <3>. QED  BY <2>1, <3>1 DEF SameUpTo
    <2>3. F(k + 1)[k + 1] = h[F(k + 1)[k]][k + 1]
      <3>1. k + 1 \in 1..k + 1 /\ (k + 1) - 1 = k
        OBVIOUS
      <3>. QED  BY <2>1, <3>1 DEF Made
    <2>. QED  BY <2>2, <2>3
  <1>. HIDE DEF f
  <1>6. MadeOn(D, base, h, f)
    BY <1>3, <1>4, <1>5 DEF MadeOn
  <1>. QED  BY <1>6

-----------------------------------------------------------------------------
(* Powers of two, and division by them.                                        *)

LEMMA PowStep == Pow2 \in [Nat -> Nat] /\ Pow2[0] = 1 /\ \A n \in Nat : Pow2[n + 1] = 2 * Pow2[n]
  <1>. DEFINE h == [x \in Nat |-> [k \in Nat |-> 2 * x]]
  <1>1. h \in [Nat -> [Nat -> Nat]]
    OBVIOUS
  <1>2. \A x, k \in Nat : h[x][k] = 2 * x
    OBVIOUS
  <1>. HIDE DEF h
  <1>0. PICK f : MadeOn(Nat, 1, h, f)
    BY <1>1, MadeForAll
  <1>3. f \in [Nat -> Nat] /\ f[0] = 1 /\ \A k \in Nat : f[k + 1] = h[f[k]][k + 1]
    BY <1>0 DEF MadeOn
  <1>4. \A n \in Nat : f[n] = IF n = 0 THEN 1 ELSE 2 * f[n - 1]
    <2>1. SUFFICES ASSUME NEW n \in Nat, n # 0 PROVE f[n] = 2 * f[n - 1]
      BY <1>3
    <2>2. n - 1 \in Nat /\ (n - 1) + 1 = n
      BY <2>1
    <2>. QED  BY <1>2, <1>3, <2>2
  <1>5. f = [n \in Nat |-> IF n = 0 THEN 1 ELSE 2 * f[n - 1]]
    BY <1>3, <1>4
  <1>6. Pow2 = [n \in Nat |-> IF n = 0 THEN 1 ELSE 2 * Pow2[n - 1]]
    BY <1>5 DEF Pow2
  <1>7. Pow2[0] = 1 /\ \A n \in Nat : Pow2[n + 1] = 2 * Pow2[n]
    <2>1. Pow2[0] = 1
      BY <1>6
    <2>2. ASSUME NEW n \in Nat PROVE Pow2[n + 1] = 2 * Pow2[n]
      <3>1. n + 1 \in Nat /\ n + 1 # 0 /\ (n + 1) - 1 = n
        OBVIOUS
      <3>. QED  BY <1>6, <3>1
    <2>. QED  BY <2>1, <2>2
  <1>. DEFINE H == {n \in Nat : Pow2[n] \in Nat}
  <1>8. 0 \in H /\ \A k \in Nat : k \in H => k + 1 \in H
    BY <1>7
  <1>. HIDE DEF H
  <1>9. \A n \in Nat : n \in H
    BY <1>8, OnAndOn
  <1>10. \A n \in Nat : Pow2[n] \in Nat
    BY <1>9 DEF H
  <1>11. Pow2 = [n \in Nat |-> Pow2[n]]
    BY <1>6
  <1>. QED  BY <1>7, <1>10, <1>11

LEMMA PowPositive == \A n \in Nat : Pow2[n] \in Nat /\ Pow2[n] >= 1
  <1>. DEFINE H == {n \in Nat : Pow2[n] >= 1}
  <1>1. 0 \in H /\ \A k \in Nat : k \in H => k + 1 \in H
    BY PowStep
  <1>. HIDE DEF H
  <1>2. \A n \in Nat : n \in H
    BY <1>1, OnAndOn
  <1>. QED  BY <1>2, PowStep DEF H

LEMMA PowSum == \A m, n \in Nat : Pow2[m + n] = Pow2[m] * Pow2[n]
  <1>1. SUFFICES ASSUME NEW m \in Nat PROVE \A n \in Nat : Pow2[m + n] = Pow2[m] * Pow2[n]
    OBVIOUS
  <1>. DEFINE H == {n \in Nat : Pow2[m + n] = Pow2[m] * Pow2[n]}
  <1>2. 0 \in H
    BY PowStep
  <1>3. ASSUME NEW k \in Nat, k \in H PROVE k + 1 \in H
    <2>1. Pow2[m + (k + 1)] = 2 * Pow2[m + k]
      <3>1. m + k \in Nat /\ m + (k + 1) = (m + k) + 1
        OBVIOUS
      <3>. QED  BY <3>1, PowStep
    <2>2. Pow2[k + 1] = 2 * Pow2[k] /\ Pow2[m + k] = Pow2[m] * Pow2[k]
      BY <1>3, PowStep
    <2>3. \A x, y \in Nat : 2 * (x * y) = x * (2 * y)
      BY SMT
    <2>4. Pow2[m] \in Nat /\ Pow2[k] \in Nat
      BY PowStep
    <2>. QED  BY <2>1, <2>2, <2>3, <2>4
  <1>. HIDE DEF H
  <1>4. \A n \in Nat : n \in H
    BY <1>2, <1>3, OnAndOn
  <1>. QED  BY <1>4 DEF H

LEMMA PowSmall ==
  ASSUME NEW n \in Nat
  PROVE  IF n >= 2 THEN Pow2[n] >= 4 ELSE Pow2[n] <= 2
  <1>1. Pow2[0] = 1 /\ Pow2[1] = 2 /\ Pow2[2] = 4
    <2>1. Pow2[0 + 1] = 2 * Pow2[0] /\ Pow2[1 + 1] = 2 * Pow2[1] /\ Pow2[0] = 1
      BY PowStep
    <2>. QED  BY <2>1
  <1>2. CASE n >= 2
    <2>. DEFINE m == n - 2
    <2>1. m \in Nat /\ n = 2 + m
      BY <1>2
    <2>. HIDE DEF m
    <2>2. Pow2[2 + m] = Pow2[2] * Pow2[m]
      BY <2>1, PowSum
    <2>3. Pow2[n] = 4 * Pow2[m] /\ Pow2[m] \in Nat /\ Pow2[m] >= 1
      BY <1>1, <2>1, <2>2, PowPositive
    <2>. QED  BY <1>2, <2>3
  <1>3. CASE n = 0 \/ n = 1
    BY <1>1, <1>3
  <1>. QED  BY <1>2, <1>3

(* Products keep the order.                                                     *)
LEMMA Times == ASSUME NEW b \in Nat, NEW x \in Int, NEW y \in Int, x <= y PROVE b * x <= b * y
  <1>. DEFINE d == y - x
  <1>1. d \in Nat /\ y = x + d
    OBVIOUS
  <1>. HIDE DEF d
  <1>2. b * d \in Nat
    BY <1>1
  <1>3. b * (x + d) = b * x + b * d
    BY <1>1
  <1>. QED  BY <1>1, <1>2, <1>3

LEMMA Division ==
  ASSUME NEW a \in Nat, NEW b \in Nat, b >= 1
  PROVE  /\ a \div b \in Nat /\ a % b \in Nat /\ a % b < b
         /\ a = b * (a \div b) + (a % b)
  <1>1. a % b \in 0..b - 1
    OBVIOUS
  <1>2. a \div b \in Int
    OBVIOUS
  <1>3. a = b * (a \div b) + (a % b)
    BY Z3
  <1>4. a \div b >= 0
    OBVIOUS
  <1>. QED  BY <1>1, <1>2, <1>3, <1>4

(* A number's block among blocks of b, and its place in it.                        *)
LEMMA Block ==
  ASSUME NEW a \in Nat, NEW b \in Nat, b >= 1, NEW q \in Int
  PROVE  /\ a \div b = q <=> (b * q <= a /\ a <= b * q + (b - 1))
         /\ a \div b = q => a % b = a - b * q
  <1>. DEFINE d == a \div b  r == a % b
  <1>1. d \in Nat /\ r \in Nat /\ r < b /\ a = b * d + r
    BY Division
  <1>. HIDE DEF d, r
  <1>2. ASSUME d < q PROVE b * d + b <= b * q
    <2>1. b * (d + 1) <= b * q
      BY <1>1, <1>2, Times
    <2>. QED  BY <1>1, <2>1
  <1>3. ASSUME d > q PROVE b * q + b <= b * d
    <2>1. b * (q + 1) <= b * d
      BY <1>1, <1>3, Times
    <2>. QED  BY <1>1, <2>1
  <1>4. b * q \in Int /\ b * d \in Int
    BY <1>1
  <1>5. d = q <=> (b * q <= a /\ a <= b * q + (b - 1))
    <2>1. CASE d = q
      BY <1>1, <1>4, <2>1
    <2>2. CASE d < q
      BY <1>1, <1>2, <1>4, <2>2
    <2>3. CASE d > q
      BY <1>1, <1>3, <1>4, <2>3
    <2>. QED  BY <1>1, <2>1, <2>2, <2>3
  <1>6. d = q => r = a - b * q
    BY <1>1, <1>4
  <1>. QED  BY <1>5, <1>6 DEF d, r

LEMMA InBlocks ==
  ASSUME NEW b \in Nat, b >= 1, NEW m \in Nat, NEW a \in 0..b * m - 1
  PROVE  a \div b \in 0..m - 1
  <1>1. a \div b \in Nat /\ b * (a \div b) <= a
    BY Division
  <1>2. ASSUME a \div b >= m PROVE FALSE
    <2>1. b * m <= b * (a \div b)
      BY <1>1, <1>2, Times
    <2>. QED  BY <1>1, <2>1
  <1>. QED  BY <1>1, <1>2

LEMMA Blocks ==   \* block q of m
  ASSUME NEW b \in Nat, b >= 1, NEW m \in Nat, NEW q \in 0..m - 1
  PROVE  b * q \in Nat /\ b * q + (b - 1) <= b * m - 1
  <1>1. b * (q + 1) <= b * m
    BY Times
  <1>2. b * (q + 1) = b * q + b
    OBVIOUS
  <1>3. b * q \in Nat /\ b * m \in Nat
    OBVIOUS
  <1>. QED  BY <1>1, <1>2, <1>3

(* Blocks of b lie in blocks of b * c.                                             *)
LEMMA BlockInBlock ==
  ASSUME NEW a \in Nat, NEW b \in Nat, NEW c \in Nat, b >= 1, c >= 1
  PROVE  a \div (b * c) = (a \div b) \div c
  <1>. DEFINE d == a \div b  e == d \div c  r == a % b  t == d % c
  <1>1. d \in Nat /\ r \in Nat /\ r < b /\ a = b * d + r
    BY Division
  <1>2. e \in Nat /\ t \in Nat /\ t < c /\ d = c * e + t
    BY <1>1, Division
  <1>. HIDE DEF d, e, r, t
  <1>3. b * d = (b * c) * e + b * t
    BY <1>2
  <1>4. b * t \in Nat /\ b * t + b <= b * c
    <2>1. b * (t + 1) <= b * c
      BY <1>2, Times
    <2>. QED  BY <1>2, <2>1
  <1>5. b * c \in Nat /\ b * c >= 1 /\ (b * c) * e \in Nat
    <2>1. b * 1 <= b * c
      BY Times
    <2>. QED  BY <1>2, <2>1
  <1>6. (b * c) * e <= a /\ a <= (b * c) * e + (b * c - 1)
    <2>1. b * d \in Nat
      BY <1>1
    <2>. QED  BY <1>1, <1>3, <1>4, <1>5, <2>1
  <1>7. a \div (b * c) = e
    BY <1>2, <1>5, <1>6, Block
  <1>. QED  BY <1>7 DEF e, d

-----------------------------------------------------------------------------
(* The ranges of addresses.                                                    *)

(* Networks of a prefix: their number times their size are all addresses.          *)
LEMMA Network ==
  ASSUME NEW p \in 0..AddressBits
  PROVE  /\ BlockSize(p) \in Nat /\ BlockSize(p) >= 1
         /\ Pow2[p] \in Nat /\ Pow2[p] >= 1
         /\ Pow2[AddressBits] = BlockSize(p) * Pow2[p]
         /\ IF p <= AddressBits - 2 THEN BlockSize(p) >= 4 ELSE BlockSize(p) <= 2
  <1>. USE InputAssumption DEF InputAssumption
  <1>1. AddressBits - p \in Nat /\ p \in Nat /\ (AddressBits - p) + p = AddressBits
    OBVIOUS
  <1>2. BlockSize(p) \in Nat /\ BlockSize(p) >= 1 /\ Pow2[p] \in Nat /\ Pow2[p] >= 1
    BY <1>1, PowPositive DEF BlockSize
  <1>3. Pow2[(AddressBits - p) + p] = Pow2[AddressBits - p] * Pow2[p]
    BY <1>1, PowSum
  <1>4. IF AddressBits - p >= 2 THEN BlockSize(p) >= 4 ELSE BlockSize(p) <= 2
    BY <1>1, PowSmall DEF BlockSize
  <1>. QED  BY <1>1, <1>2, <1>3, <1>4 DEF BlockSize

LEMMA AddressRange ==
  /\ Pow2[AddressBits] \in Nat /\ Pow2[AddressBits] >= 2
  /\ Addresses = 0..Pow2[AddressBits] - 1
  /\ Pow2[2 * AddressBits] = Pow2[AddressBits] * Pow2[AddressBits]
  <1>. USE InputAssumption DEF InputAssumption
  <1>1. AddressBits \in Nat /\ 2 * AddressBits = AddressBits + AddressBits
    OBVIOUS
  <1>2. Pow2[AddressBits + AddressBits] = Pow2[AddressBits] * Pow2[AddressBits]
    BY <1>1, PowSum
  <1>3. AddressBits - 1 \in Nat /\ AddressBits = (AddressBits - 1) + 1
    OBVIOUS
  <1>4. Pow2[(AddressBits - 1) + 1] = 2 * Pow2[AddressBits - 1] /\ Pow2[AddressBits - 1] >= 1
        /\ Pow2[AddressBits - 1] \in Nat
    BY <1>3, PowStep, PowPositive
  <1>5. Pow2[AddressBits] \in Nat /\ Pow2[AddressBits] >= 2
    BY <1>3, <1>4
  <1>. QED  BY <1>1, <1>2, <1>5 DEF Addresses

LEMMA NetworkIs ==
  ASSUME NEW a \in Addresses, NEW p \in 0..AddressBits, NEW B, B = BlockSize(p)
  PROVE  /\ B \in Nat /\ B >= 1 /\ a \div B \in 0..Pow2[p] - 1
         /\ NetworkOf(a, p) = B * (a \div B)
         /\ NetworkOf(a, p) \in Addresses /\ NetworkOf(a, p) + (B - 1) \in Addresses
         /\ NetworkOf(a, p) <= a /\ a <= NetworkOf(a, p) + (B - 1)
         /\ NetworkOf(a, p) \div B = a \div B
  <1>1. /\ B \in Nat /\ B >= 1 /\ Pow2[p] \in Nat
        /\ Pow2[AddressBits] = B * Pow2[p]
    BY Network
  <1>2. a \in Nat /\ a \in 0..B * Pow2[p] - 1
    BY <1>1, AddressRange
  <1>. DEFINE q == a \div B
  <1>3. q \in 0..Pow2[p] - 1
    BY <1>1, <1>2, InBlocks
  <1>4. a % B \in Nat /\ a % B < B /\ a = B * q + (a % B)
    BY <1>1, <1>2, Division
  <1>. HIDE DEF q
  <1>5. B * q \in Nat /\ B * q + (B - 1) <= B * Pow2[p] - 1
    BY <1>1, <1>3, Blocks
  <1>6. NetworkOf(a, p) = B * q
    BY <1>2, <1>4, <1>5 DEF NetworkOf
  <1>7. (B * q) \div B = q
    BY <1>1, <1>3, <1>5, Block
  <1>8. B * q \in Addresses /\ B * q + (B - 1) \in Addresses
    <2>1. \A z, n \in Nat : z + (B - 1) <= n - 1 => z \in 0..n - 1 /\ z + (B - 1) \in 0..n - 1
      BY <1>1
    <2>2. Pow2[AddressBits] \in Nat /\ B * q + (B - 1) <= Pow2[AddressBits] - 1
      BY <1>1, <1>5, AddressRange
    <2>. QED  BY <1>5, <2>1, <2>2, AddressRange
  <1>9. B * q <= a /\ a <= B * q + (B - 1)
    <2>1. \A z, r \in Nat : a = z + r /\ r < B => z <= a /\ a <= z + (B - 1)
      BY <1>1
    <2>. QED  BY <1>4, <1>5, <2>1
  <1>. QED  BY <1>1, <1>3, <1>6, <1>7, <1>8, <1>9 DEF q

(* The addresses of a network.                                                    *)
LEMMA NetworkHas ==
  ASSUME NEW a \in Addresses, NEW p \in 0..AddressBits, NEW B, B = BlockSize(p),
         NEW x \in Addresses
  PROVE  /\ x \div B = a \div B <=> x \in NetworkOf(a, p)..NetworkOf(a, p) + (B - 1)
         /\ x \div B = a \div B => x % B = x - NetworkOf(a, p)
  <1>1. B \in Nat /\ B >= 1 /\ a \div B \in Int /\ NetworkOf(a, p) = B * (a \div B)
        /\ NetworkOf(a, p) \in Int
    BY NetworkIs, AddressRange
  <1>2. x \in Nat
    BY AddressRange
  <1>. DEFINE q == a \div B
  <1>3. q \in Int /\ NetworkOf(a, p) = B * q
    BY <1>1
  <1>. HIDE DEF q
  <1>4. /\ x \div B = q <=> (B * q <= x /\ x <= B * q + (B - 1))
        /\ x \div B = q => x % B = x - B * q
    <2>1. B \in Nat /\ B >= 1
      BY <1>1
    <2>. QED  BY <1>2, <1>3, <2>1, Block
  <1>. QED  BY <1>1, <1>2, <1>3, <1>4 DEF q

IsText(text) ==
  /\ text.base \in Addresses /\ text.n \in Nat
  /\ text.form = "range" => text.n \in Addresses

(* A range text is refused as it stands, and means nothing, or is expanded from a  *)
(* first to a last address, and means those in between.                          *)
LEMMA RangeIsMeant ==
  ASSUME NEW text, IsText(text)
  PROVE  \/ ParseRange(text) = Refused /\ Meant(text) = {}
         \/ \E first, last \in Addresses :
              /\ first <= last
              /\ ParseRange(text) = Expand(first, last) /\ Meant(text) = first..last
  <1>. USE InputAssumption DEF InputAssumption
  <1>1. CASE text.form = "cidr"
    <2>1. CASE text.n \in 0..AddressBits
      <3>. DEFINE p == text.n  a == text.base  B == BlockSize(p)  net == NetworkOf(a, p)
      <3>1. a \in Addresses /\ p \in 0..AddressBits
        BY <2>1 DEF IsText
      <3>2. ParseRange(text) = ExpandCidr(net, p)
        BY <1>1, <2>1 DEF ParseRange
      <3>3. Meant(text) = {x \in Addresses : /\ x \div B = a \div B
                                             /\ B > 2 => HostPart(x, p) \notin {0, B - 1}}
        BY <1>1, <2>1 DEF Meant
      <3>. HIDE DEF p, a
      <3>4. /\ B \in Nat /\ B >= 1 /\ net \in Addresses /\ net + (B - 1) \in Addresses
            /\ net \in Nat
        <4>1. B \in Nat /\ B >= 1 /\ net \in Addresses /\ net + (B - 1) \in Addresses
          BY <3>1, NetworkIs
        <4>. QED  BY <4>1, AddressRange
      <3>5. ASSUME NEW x \in Addresses
            PROVE  /\ x \div B = a \div B <=> x \in net..net + (B - 1)
                   /\ x \div B = a \div B => x % B = x - net
        BY <3>1, NetworkHas
      <3>6. IF p <= AddressBits - 2 THEN B >= 4 ELSE B <= 2
        BY <3>1, Network
      <3>7. \A x \in net..net + (B - 1) : x \in Addresses
        BY <3>4, AddressRange
      <3>8. \A x : HostPart(x, p) = x % B
        BY DEF HostPart
      <3>9. net + B - 1 = net + (B - 1) /\ net + B - 1 - 1 = net + (B - 1) - 1
        BY <3>4
      <3>. HIDE DEF B, net
      <3>10. CASE p <= AddressBits - 2
        <4>1. B >= 4
          BY <3>6, <3>10
        <4>2. net + 1 \in Addresses /\ net + (B - 1) - 1 \in Addresses
              /\ net + 1 <= net + (B - 1) - 1
          <5>1. /\ net + 1 \in Nat /\ net + (B - 1) - 1 \in Nat
                /\ net + 1 <= net + (B - 1) - 1 /\ net + (B - 1) - 1 <= net + (B - 1)
            BY <3>4, <4>1
          <5>2. \A y, z \in Nat : y <= z /\ z \in Addresses => y \in Addresses
            BY AddressRange
          <5>3. net + (B - 1) \in Nat
            BY <3>4, AddressRange
          <5>4. net + (B - 1) - 1 \in Addresses
            BY <3>4, <5>1, <5>2, <5>3
          <5>. QED  BY <5>1, <5>2, <5>4
        <4>3. ExpandCidr(net, p) = Expand(net + 1, net + (B - 1) - 1)
          <5>1. ExpandCidr(net, p) = Expand(net + 1, net + B - 1 - 1)
            BY <3>4, <3>10 DEF ExpandCidr, B
          <5>. QED  BY <3>9, <5>1
        <4>4. ASSUME NEW x PROVE x \in Meant(text) <=> x \in net + 1..net + (B - 1) - 1
          <5>1. x \in Meant(text) <=> /\ x \in net..net + (B - 1)
                                      /\ x - net \notin {0, B - 1}
            <6>1. x \in Meant(text) <=> /\ x \in Addresses /\ x \div B = a \div B
                                        /\ x % B \notin {0, B - 1}
              BY <3>3, <3>4, <3>8, <4>1
            <6>. QED  BY <3>5, <3>7, <6>1
          <5>2. x \in net..net + (B - 1) => (x - net \notin {0, B - 1} <=>
                  net + 1 <= x /\ x <= net + (B - 1) - 1)
            BY <3>4
          <5>3. x \in net + 1..net + (B - 1) - 1 => x \in net..net + (B - 1)
            BY <3>4
          <5>. QED  BY <3>4, <5>1, <5>2, <5>3
        <4>5. Meant(text) = net + 1..net + (B - 1) - 1
          BY <4>4
        <4>. QED  BY <3>2, <4>2, <4>3, <4>5
      <3>11. CASE ~(p <= AddressBits - 2)
        <4>1. B <= 2
          BY <3>6, <3>11
        <4>2. ExpandCidr(net, p) = Expand(net, net + (B - 1))
          BY <3>9, <3>11 DEF ExpandCidr, B
        <4>3. Meant(text) = net..net + (B - 1)
          <5>1. Meant(text) = {x \in Addresses : x \div B = a \div B}
            BY <3>3, <3>4, <4>1
          <5>2. ASSUME NEW x PROVE x \in Meant(text) <=> x \in net..net + (B - 1)
            BY <3>5, <3>7, <5>1
          <5>. QED  BY <5>2
        <4>. QED  BY <3>2, <3>4, <4>2, <4>3
      <3>. QED  BY <3>10, <3>11
    <2>2. CASE text.n \notin 0..AddressBits
      <3>1. ~(text.n <= AddressBits)
        BY <2>2 DEF IsText
      <3>. QED  BY <1>1, <2>2, <3>1 DEF ParseRange, Meant
    <2>. QED  BY <2>1, <2>2
  <1>2. CASE text.form = "octet"
    <2>1. CASE text.n \in 0..Pow2[OctetBits] - 1
      <3>. DEFINE p == AddressBits - OctetBits  a == text.base  B == BlockSize(p)
                  net == NetworkOf(a, p)  n == text.n
      <3>1. a \in Addresses /\ p \in 0..AddressBits /\ n \in Nat /\ a \in Nat
        BY AddressRange DEF IsText
      <3>2. B = Pow2[OctetBits] /\ B \in Nat /\ B >= 1
        <4>1. AddressBits - (AddressBits - OctetBits) = OctetBits /\ OctetBits \in Nat
          OBVIOUS
        <4>. QED  BY <4>1, PowPositive DEF BlockSize
      <3>3. n <= B - 1 /\ n < B
        BY <2>1, <3>1, <3>2
      <3>4. ParseRange(text) = IF net + n < a THEN Refused ELSE Expand(a, net + n)
        BY <1>2, <2>1 DEF ParseRange
      <3>5. Meant(text) = {x \in Addresses : a <= x /\ x % B <= n /\ x \div B = a \div B}
        BY <1>2, <3>2, <3>3 DEF Meant
      <3>. HIDE DEF p, n, a
      <3>6. /\ net \in Addresses /\ net + (B - 1) \in Addresses /\ net \in Nat
            /\ net <= a /\ a <= net + (B - 1)
        <4>1. /\ net \in Addresses /\ net + (B - 1) \in Addresses
              /\ net <= a /\ a <= net + (B - 1)
          BY <3>1, NetworkIs
        <4>. QED  BY <4>1, AddressRange
      <3>7. ASSUME NEW x \in Addresses
            PROVE  /\ x \div B = a \div B <=> x \in net..net + (B - 1)
                   /\ x \div B = a \div B => x % B = x - net
        BY <3>1, NetworkHas
      <3>8. \A x \in net..net + (B - 1) : x \in Addresses
        <4>1. \A x \in net..net + (B - 1) : x \in Nat /\ x <= net + (B - 1)
          BY <3>2, <3>6
        <4>2. \A y \in Nat, z \in Addresses : y <= z => y \in Addresses
          BY AddressRange
        <4>. QED  BY <3>6, <4>1, <4>2
      <3>. HIDE DEF B, net
      <3>9. ASSUME NEW x PROVE x \in Meant(text) <=> x \in a..net + n
        <4>1. x \in Meant(text) <=> x \in net..net + (B - 1) /\ a <= x /\ x - net <= n
          BY <3>5, <3>7, <3>8
        <4>2. x \in net..net + (B - 1) /\ a <= x /\ x - net <= n <=> x \in a..net + n
          BY <3>1, <3>2, <3>3, <3>6
        <4>. QED  BY <4>1, <4>2
      <3>10. Meant(text) = a..net + n
        BY <3>9
      <3>11. CASE net + n < a
        <4>1. Meant(text) = {}
          BY <3>1, <3>6, <3>10, <3>11
        <4>. QED  BY <3>4, <3>11, <4>1
      <3>12. CASE ~(net + n < a)
        <4>1. net + n \in Addresses /\ a <= net + n
          <5>1. net + n \in Nat /\ net + n <= net + (B - 1) /\ a <= net + n
            BY <3>1, <3>2, <3>3, <3>6, <3>12
          <5>2. \A y \in Nat, z \in Addresses : y <= z => y \in Addresses
            BY AddressRange
          <5>. QED  BY <3>6, <5>1, <5>2
        <4>. QED  BY <3>1, <3>4, <3>10, <3>12, <4>1
      <3>. QED  BY <3>11, <3>12
    <2>2. CASE text.n \notin 0..Pow2[OctetBits] - 1
      <3>1. Pow2[OctetBits] \in Nat
        BY PowPositive
      <3>2. ~(text.n < Pow2[OctetBits])
        BY <2>2, <3>1 DEF IsText
      <3>. QED  BY <1>2, <2>2, <3>2 DEF ParseRange, Meant
    <2>. QED  BY <2>1, <2>2
  <1>3. CASE text.form \in {"range", "single"}
    <2>. DEFINE a == text.base  z == IF text.form = "range" THEN text.n ELSE text.base
    <2>1. a \in Addresses /\ z \in Addresses /\ a \in Nat /\ z \in Nat
      BY <1>3, AddressRange DEF IsText
    <2>2. ParseRange(text) = IF z < a THEN Refused ELSE Expand(a, z)
      BY <1>3, <2>1 DEF ParseRange
    <2>3. Meant(text) = {x \in Addresses : a <= x /\ x <= z}
      BY <1>3 DEF Meant
    <2>. HIDE DEF a, z
    <2>4. Meant(text) = a..z
      BY <2>1, <2>3, AddressRange
    <2>. QED  BY <2>1, <2>2, <2>4
  <1>4. CASE text.form \notin {"cidr", "octet", "range", "single"}
    BY <1>4 DEF ParseRange, Meant
  <1>. QED  BY <1>1, <1>2, <1>3, <1>4

-----------------------------------------------------------------------------
(* What is expanded: every address of the range, once.                            *)

LEMMA DistinctCount ==
  ASSUME NEW S, NEW s \in Seq(S), Distinct(s)
  PROVE  IsFiniteSet(ToSet(s)) /\ Cardinality(ToSet(s)) = Len(s)
  <1>. DEFINE n == Len(s)
  <1>1. n \in Nat /\ DOMAIN s = 1..n /\ s \in [1..n -> S]
    OBVIOUS
  <1>. HIDE DEF n
  <1>2. s \in Bijection(1..n, ToSet(s))
    <2>1. s \in [1..n -> ToSet(s)] /\ \A y \in ToSet(s) : \E i \in 1..n : s[i] = y
      BY <1>1 DEF ToSet
    <2>2. \A i, j \in 1..n : s[i] = s[j] => i = j
      BY <1>1 DEF Distinct
    <2>. QED  BY <2>1, <2>2 DEF Bijection, Injection, Surjection, IsInjective
  <1>3. ExistsBijection(1..n, ToSet(s))
    BY <1>2 DEF ExistsBijection
  <1>4. IsFiniteSet(ToSet(s)) /\ Cardinality(ToSet(s)) = n
    BY <1>1, <1>3, FS_NatBijection, FS_CountingElements
  <1>. QED  BY <1>4 DEF n

LEMMA ExpandIs ==
  ASSUME NEW first \in Addresses, NEW last \in Addresses, first <= last
  PROVE  LET result == Expand(first, last)  span == first..last
         IN /\ result.error \in BOOLEAN
            /\ IsFiniteSet(span)
            /\ result.error <=> Cardinality(span) \notin 1..MaxAddresses
            /\ ~result.error => /\ result.list \in Seq(Addresses) /\ Distinct(result.list)
                                /\ ToSet(result.list) = span
  <1>. DEFINE N == Pow2[AddressBits]  M == Pow2[2 * AddressBits]  n == last - first + 1
              list == [i \in 1..n |-> first + i - 1]
  <1>1. N \in Nat /\ N >= 2 /\ first \in 0..N - 1 /\ last \in 0..N - 1 /\ M = N * N
    BY AddressRange
  <1>. HIDE DEF N, M
  <1>2. n \in Nat /\ n >= 1 /\ n <= N
    BY <1>1
  <1>3. M \in Nat /\ n < M
    <2>1. N * 2 <= N * N
      BY <1>1, Times
    <2>2. N * N \in Nat
      BY <1>1
    <2>. QED  BY <1>1, <1>2, <2>1, <2>2
  <1>4. n % M = n
    BY <1>2, <1>3
  <1>5. IsFiniteSet(first..last) /\ Cardinality(first..last) = n
    <2>1. first \in Int /\ last \in Int /\ ~(first > last)
      BY <1>1
    <2>. QED  BY <2>1, FS_Interval
  <1>6. Expand(first, last) = IF n > MaxAddresses THEN Refused ELSE [error |-> FALSE, list |-> list]
    BY <1>4 DEF Expand, M
  <1>7. \A i \in 1..n : first + i - 1 \in first..last /\ first + i - 1 \in Addresses
    <2>1. \A i \in 1..n : first + i - 1 \in first..last /\ first + i - 1 \in 0..N - 1
      BY <1>1, <1>2
    <2>. QED  BY <2>1, AddressRange DEF N
  <1>8. list \in Seq(Addresses) /\ DOMAIN list = 1..n /\ Len(list) = n
    BY <1>2, <1>7
  <1>9. Distinct(list)
    <2>1. \A i, j \in 1..n : first + i - 1 = first + j - 1 => i = j
      BY <1>1, <1>2
    <2>. QED  BY <1>8, <2>1 DEF Distinct
  <1>10. ToSet(list) = first..last
    <2>1. ASSUME NEW x \in first..last PROVE x - first + 1 \in 1..n /\ first + (x - first + 1) - 1 = x
      BY <1>1
    <2>2. ASSUME NEW x \in first..last PROVE \E i \in 1..n : first + i - 1 = x
      BY <2>1
    <2>3. ToSet(list) = {first + i - 1 : i \in 1..n}
      BY <1>8 DEF ToSet
    <2>. HIDE DEF n, list
    <2>. QED  BY <1>7, <2>2, <2>3
  <1>. HIDE DEF n, list
  <1>11. n \notin 1..MaxAddresses <=> n > MaxAddresses
    BY <1>2, InputAssumption DEF InputAssumption
  <1>. QED  BY <1>5, <1>6, <1>8, <1>9, <1>10, <1>11 DEF Refused

LEMMA RangeScanned ==
  ASSUME NEW text, IsText(text)
  PROVE  LET result == ParseRange(text)
         IN /\ result.error \in BOOLEAN
            /\ IsFiniteSet(Meant(text))
            /\ result.error <=> Cardinality(Meant(text)) \notin 1..MaxAddresses
            /\ ~result.error => /\ result.list \in Seq(Addresses) /\ Distinct(result.list)
                                /\ ToSet(result.list) = Meant(text)
  <1>1. CASE ParseRange(text) = Refused /\ Meant(text) = {}
    BY <1>1, FS_EmptySet DEF Refused
  <1>2. ASSUME NEW first \in Addresses, NEW last \in Addresses, first <= last,
               ParseRange(text) = Expand(first, last), Meant(text) = first..last
        PROVE  LET result == ParseRange(text)
               IN /\ result.error \in BOOLEAN
                  /\ IsFiniteSet(Meant(text))
                  /\ result.error <=> Cardinality(Meant(text)) \notin 1..MaxAddresses
                  /\ ~result.error => /\ result.list \in Seq(Addresses) /\ Distinct(result.list)
                                      /\ ToSet(result.list) = Meant(text)
    BY <1>2, ExpandIs
  <1>. QED  BY <1>1, <1>2, RangeIsMeant

-----------------------------------------------------------------------------
(* The ports.                                                                  *)

LEMMA Appended ==
  ASSUME NEW S, NEW s \in Seq(S), Distinct(s), NEW x \in S, x \notin ToSet(s)
  PROVE  /\ Append(s, x) \in Seq(S) /\ Distinct(Append(s, x))
         /\ ToSet(Append(s, x)) = ToSet(s) \cup {x}
  <1>. DEFINE t == Append(s, x)  n == Len(s)
  <1>1. /\ n \in Nat /\ DOMAIN s = 1..n /\ t \in Seq(S) /\ DOMAIN t = 1..n + 1
        /\ t[n + 1] = x /\ \A i \in 1..n : t[i] = s[i]
    OBVIOUS
  <1>. HIDE DEF t, n
  <1>2. \A i \in 1..n : s[i] \in ToSet(s) /\ s[i] # x
    BY <1>1 DEF ToSet
  <1>3. ASSUME NEW i \in 1..n + 1, NEW j \in 1..n + 1, t[i] = t[j] PROVE i = j
    <2>1. \A k \in 1..n + 1 : k \in 1..n \/ k = n + 1
      BY <1>1
    <2>2. CASE i \in 1..n /\ j \in 1..n
      BY <1>1, <1>3, <2>2 DEF Distinct
    <2>3. CASE i = n + 1 \/ j = n + 1
      BY <1>1, <1>2, <1>3, <2>1, <2>3
    <2>. QED  BY <2>1, <2>2, <2>3
  <1>4. Distinct(t)
    BY <1>1, <1>3 DEF Distinct
  <1>5. ASSUME NEW y PROVE y \in ToSet(t) <=> y \in ToSet(s) \/ y = x
    <2>1. y \in ToSet(t) <=> \E i \in 1..n + 1 : y = t[i]
      BY <1>1 DEF ToSet
    <2>2. y \in ToSet(s) <=> \E i \in 1..n : y = s[i]
      BY <1>1 DEF ToSet
    <2>3. (\E i \in 1..n + 1 : y = t[i]) <=> (\E i \in 1..n : y = t[i]) \/ y = t[n + 1]
      BY <1>1
    <2>. QED  BY <1>1, <2>1, <2>2, <2>3
  <1>. QED  BY <1>1, <1>4, <1>5 DEF t

LEMMA PortsWith ==
  ASSUME NEW list \in Seq(Nat), Distinct(list), NEW first \in Nat, NEW count \in Nat
  PROVE  LET grown == WithPorts(list, first, count)
         IN /\ grown \in Seq(Nat) /\ Distinct(grown)
            /\ ToSet(grown) = ToSet(list) \cup first..first + count - 1
  <1>. DEFINE D == Seq(Nat)
              port(k) == first + k - 1
              step(x, k) == IF port(k) \in ToSet(x) THEN x ELSE Append(x, port(k))
              h == [x \in D |-> [k \in Nat |-> IF k = 0 THEN x ELSE step(x, k)]]
              grown[k \in 0..count] ==
                IF k = 0 THEN list
                ELSE LET next == first + k - 1
                     IN IF next \in ToSet(grown[k - 1]) THEN grown[k - 1]
                        ELSE Append(grown[k - 1], next)
  <1>1. \A k \in Nat \ {0} : port(k) \in Nat
    OBVIOUS
  <1>. HIDE DEF port
  <1>2. ASSUME NEW x \in D, NEW k \in Nat \ {0} PROVE step(x, k) \in D
    BY <1>1
  <1>3. h \in [D -> [Nat -> D]]
    BY <1>2
  <1>4. \A x \in D : \A k \in Nat \ {0} : h[x][k] = step(x, k)
    OBVIOUS
  <1>. HIDE DEF h, step
  <1>5. PICK f : Made(D, list, h, count, f)
    BY <1>3, MadeUpTo
  <1>6. /\ f \in [0..count -> D] /\ f[0] = list
        /\ \A k \in 1..count : k - 1 \in 0..count /\ f[k] = step(f[k - 1], k)
    <2>1. f \in [0..count -> D] /\ f[0] = list /\ \A k \in 1..count : f[k] = h[f[k - 1]][k]
      BY <1>5 DEF Made
    <2>2. \A k \in 1..count : k - 1 \in 0..count /\ k \in Nat \ {0}
      OBVIOUS
    <2>. QED  BY <1>4, <2>1, <2>2
  <1>7. grown = [k \in 0..count |-> IF k = 0 THEN list
                                   ELSE LET next == first + k - 1
                                        IN IF next \in ToSet(grown[k - 1]) THEN grown[k - 1]
                                           ELSE Append(grown[k - 1], next)]
    <2>1. \A k \in 0..count : k # 0 => k \in 1..count
      OBVIOUS
    <2>2. \A k \in 0..count : f[k] = IF k = 0 THEN list
                                    ELSE LET next == first + k - 1
                                         IN IF next \in ToSet(f[k - 1]) THEN f[k - 1]
                                            ELSE Append(f[k - 1], next)
      BY <1>6, <2>1 DEF step, port
    <2>3. f = [k \in 0..count |-> IF k = 0 THEN list
                                   ELSE LET next == first + k - 1
                                        IN IF next \in ToSet(f[k - 1]) THEN f[k - 1]
                                           ELSE Append(f[k - 1], next)]
      BY <1>6, <2>2
    <2>. QED  BY <2>3
  <1>8. WithPorts(list, first, count) = grown[count]
    BY DEF WithPorts
  <1>9. grown[0] = list /\ \A k \in 1..count : grown[k] = step(grown[k - 1], k)
    <2>1. \A k \in 1..count : k \in 0..count /\ k # 0
      OBVIOUS
    <2>2. 0 \in 0..count
      OBVIOUS
    <2>. HIDE DEF grown
    <2>. QED  BY <1>7, <2>1, <2>2 DEF step, port
  <1>. HIDE DEF grown
  <1>. DEFINE H == {k \in 0..count : /\ grown[k] \in Seq(Nat) /\ Distinct(grown[k])
                                     /\ ToSet(grown[k]) = ToSet(list) \cup first..first + k - 1}
  <1>10. 0 \in H
    <2>1. first..first + 0 - 1 = {} /\ 0 \in 0..count
      OBVIOUS
    <2>. QED  BY <1>9, <2>1
  <1>11. ASSUME NEW k \in 1..count, k - 1 \in H PROVE k \in H
    <2>. DEFINE s == grown[k - 1]
    <2>1. /\ s \in Seq(Nat) /\ Distinct(s)
          /\ ToSet(s) = ToSet(list) \cup first..first + (k - 1) - 1
      BY <1>11
    <2>2. /\ first..first + k - 1 = first..first + (k - 1) - 1 \cup {port(k)}
          /\ port(k) \in Nat /\ k \in 0..count
      BY DEF port
    <2>3. grown[k] = IF port(k) \in ToSet(s) THEN s ELSE Append(s, port(k))
      BY <1>9 DEF step
    <2>. HIDE DEF s
    <2>4. CASE port(k) \in ToSet(s)
      BY <2>1, <2>2, <2>3, <2>4
    <2>5. CASE port(k) \notin ToSet(s)
      <3>1. /\ Append(s, port(k)) \in Seq(Nat) /\ Distinct(Append(s, port(k)))
            /\ ToSet(Append(s, port(k))) = ToSet(s) \cup {port(k)}
        BY <2>1, <2>2, <2>5, Appended
      <3>. QED  BY <2>1, <2>2, <2>3, <2>5, <3>1
    <2>. QED  BY <2>4, <2>5
  <1>. HIDE DEF H
  <1>12. \A k \in 0..count : k \in H
    BY <1>10, <1>11, UpTo
  <1>13. count \in H
    BY <1>12
  <1>. QED  BY <1>8, <1>13 DEF H

(* What is read of some parts: whether they are well-formed and which ports they mean. *)
Parsed(result, formed, meant) ==
  /\ result \in [error : BOOLEAN, list : Seq(Nat)] /\ Distinct(result.list)
  /\ IsFiniteSet(meant)
  /\ result.error <=> ~formed \/ Cardinality(meant) > MaxPorts
  /\ IF result.error THEN result.list = <<>> ELSE ToSet(result.list) = meant

WellformedPart(part) == 1 <= part.first /\ part.first <= part.last /\ part.last <= LastPort

LEMMA RefusedIs ==
  Refused \in [error : BOOLEAN, list : Seq(Nat)] /\ Refused.error /\ Refused.list = <<>>
    /\ Distinct(Refused.list)
  <1>1. <<>> \in Seq(Nat) /\ DOMAIN <<>> = {}
    OBVIOUS
  <1>. QED  BY <1>1 DEF Refused, Distinct

LEMMA PartParsed ==
  ASSUME NEW sofar, NEW formed \in BOOLEAN, NEW meant, NEW part \in Parts,
         Parsed(sofar, formed, meant)
  PROVE  Parsed(ParsePart(sofar, part), formed /\ WellformedPart(part),
                meant \cup part.first..part.last)
  <1>. DEFINE span == part.first..part.last  all == meant \cup span
              count == part.last - part.first + 1
              list == WithPorts(sofar.list, part.first, count)
              result == ParsePart(sofar, part)
  <1>. USE InputAssumption DEF InputAssumption
  <1>1. part.first \in Nat /\ part.last \in Nat
    BY DEF Parts
  <1>2. /\ IsFiniteSet(span) /\ IsFiniteSet(meant) /\ IsFiniteSet(all)
        /\ Cardinality(span) = IF part.first > part.last THEN 0 ELSE count
    <2>1. /\ IsFiniteSet(span)
          /\ Cardinality(span) = IF part.first > part.last THEN 0 ELSE count
      <3>1. part.first \in Int /\ part.last \in Int
        BY <1>1
      <3>. QED  BY <3>1, FS_Interval
    <2>2. IsFiniteSet(meant)
      BY DEF Parsed
    <2>. QED  BY <2>1, <2>2, FS_Union
  <1>3. /\ Cardinality(span) \in Nat /\ Cardinality(meant) \in Nat /\ Cardinality(all) \in Nat
        /\ Cardinality(span) <= Cardinality(all) /\ Cardinality(meant) <= Cardinality(all)
    <2>1. span \in SUBSET all /\ meant \in SUBSET all
      OBVIOUS
    <2>. HIDE DEF span, all
    <2>. QED  BY <1>2, <2>1, FS_Subset, FS_CardinalityType
  <1>. DEFINE Bad == sofar.error \/ part.first < 1 \/ part.last > LastPort
                     \/ part.last < part.first \/ count > MaxPorts
  <1>4. WellformedPart(part) <=> ~(part.first < 1 \/ part.last > LastPort \/ part.last < part.first)
    BY <1>1 DEF WellformedPart
  <1>5. result = IF Bad \/ Len(list) > MaxPorts THEN Refused ELSE [error |-> FALSE, list |-> list]
    BY DEF ParsePart
  <1>6. sofar.error \in BOOLEAN /\ sofar.list \in Seq(Nat) /\ Distinct(sofar.list)
        /\ (sofar.error <=> ~formed \/ Cardinality(meant) > MaxPorts)
        /\ (~sofar.error => ToSet(sofar.list) = meant)
    BY DEF Parsed
  <1>. HIDE DEF span, all, list, result
  <1>7. CASE Bad
    <2>1. result = Refused
      BY <1>5, <1>7
    <2>2. ~(formed /\ WellformedPart(part)) \/ Cardinality(all) > MaxPorts
      BY <1>1, <1>2, <1>3, <1>4, <1>6, <1>7
    <2>. QED  BY <1>2, <2>1, <2>2, RefusedIs DEF Parsed, result, all, span
  <1>8. CASE ~Bad
    <2>1. count \in Nat /\ part.first + count - 1 = part.last
      BY <1>1, <1>8
    <2>2. list \in Seq(Nat) /\ Distinct(list)
          /\ ToSet(list) = ToSet(sofar.list) \cup part.first..part.first + count - 1
      <3>. DEFINE old == sofar.list  first == part.first  n == count
      <3>1. old \in Seq(Nat) /\ Distinct(old) /\ first \in Nat /\ n \in Nat
        BY <1>1, <1>6, <2>1
      <3>. HIDE DEF old, first, n
      <3>2. /\ WithPorts(old, first, n) \in Seq(Nat) /\ Distinct(WithPorts(old, first, n))
            /\ ToSet(WithPorts(old, first, n)) = ToSet(old) \cup first..first + n - 1
        BY <3>1, PortsWith
      <3>. QED  BY <3>2 DEF list, old, first, n
    <2>3. ToSet(list) = all /\ formed /\ WellformedPart(part)
      BY <1>4, <1>6, <1>8, <2>1, <2>2 DEF all, span
    <2>4. Len(list) = Cardinality(all)
      BY <2>2, <2>3, DistinctCount
    <2>5. CASE Len(list) > MaxPorts
      BY <1>2, <1>5, <2>3, <2>4, <2>5, RefusedIs DEF Parsed, result, all, span
    <2>6. CASE ~(Len(list) > MaxPorts)
      <3>1. result = [error |-> FALSE, list |-> list]
        BY <1>5, <1>8, <2>6
      <3>2. /\ result \in [error : BOOLEAN, list : Seq(Nat)] /\ ~result.error
            /\ result.list = list
        BY <2>2, <3>1
      <3>3. Parsed(result, formed /\ WellformedPart(part), all)
        BY <1>2, <2>2, <2>3, <2>4, <2>6, <3>2 DEF Parsed
      <3>. QED  BY <3>3 DEF result, all, span
    <2>. QED  BY <2>5, <2>6
  <1>. QED  BY <1>7, <1>8

LEMMA PartKeepsType ==
  ASSUME NEW sofar \in [error : BOOLEAN, list : Seq(Nat)], Distinct(sofar.list), NEW part \in Parts
  PROVE  /\ ParsePart(sofar, part) \in [error : BOOLEAN, list : Seq(Nat)]
         /\ Distinct(ParsePart(sofar, part).list)
  <1>. DEFINE count == part.last - part.first + 1
              list == WithPorts(sofar.list, part.first, count)
  <1>1. part.first \in Nat /\ part.last \in Nat
    BY DEF Parts
  <1>2. \/ ParsePart(sofar, part) = Refused
        \/ part.last >= part.first /\ ParsePart(sofar, part) = [error |-> FALSE, list |-> list]
    BY <1>1 DEF ParsePart
  <1>3. ASSUME part.last >= part.first PROVE list \in Seq(Nat) /\ Distinct(list)
    <2>1. count \in Nat
      BY <1>1, <1>3
    <2>. QED  BY <1>1, <2>1, PortsWith
  <1>. HIDE DEF list
  <1>4. CASE ParsePart(sofar, part) = Refused
    BY <1>4, RefusedIs
  <1>5. CASE part.last >= part.first /\ ParsePart(sofar, part) = [error |-> FALSE, list |-> list]
    BY <1>3, <1>5
  <1>. QED  BY <1>2, <1>4, <1>5

LEMMA PortsScanned ==
  ASSUME NEW parts \in Seq(Parts)
  PROVE  LET result == ParsePorts(parts)
         IN /\ result.error \in BOOLEAN
            /\ result.error <=> \/ ~Wellformed(parts)
                                \/ Cardinality(MeantPorts(parts)) \notin 1..MaxPorts
            /\ ~result.error => /\ result.list \in Seq(Nat) /\ Distinct(result.list)
                                /\ result.list # <<>>
                                /\ ToSet(result.list) = MeantPorts(parts)
  <1>. DEFINE n == Len(parts)
              D == {r \in [error : BOOLEAN, list : Seq(Nat)] : Distinct(r.list)}
              base == [error |-> FALSE, list |-> <<>>]
              h == [x \in D |-> [k \in Nat |-> IF k \in 1..n THEN ParsePart(x, parts[k]) ELSE x]]
              got[k \in 0..Len(parts)] ==
                IF k = 0 THEN [error |-> FALSE, list |-> <<>>] ELSE ParsePart(got[k - 1], parts[k])
              meant(k) == UNION {parts[i].first..parts[i].last : i \in 1..k}
              formed(k) == \A i \in 1..k : WellformedPart(parts[i])
  <1>1. n \in Nat /\ DOMAIN parts = 1..n /\ \A k \in 1..n : parts[k] \in Parts
    OBVIOUS
  <1>2. base \in D
    <2>1. <<>> \in Seq(Nat) /\ Distinct(<<>>)
      BY DEF Distinct
    <2>. QED  BY <2>1
  <1>3. ASSUME NEW x \in D, NEW k \in 1..n PROVE ParsePart(x, parts[k]) \in D
    BY <1>1, <1>3, PartKeepsType
  <1>. HIDE DEF D
  <1>4. h \in [D -> [Nat -> D]] /\ \A x \in D : \A k \in 1..n : h[x][k] = ParsePart(x, parts[k])
    BY <1>3
  <1>. HIDE DEF h, n
  <1>5. PICK f : Made(D, base, h, n, f)
    BY <1>1, <1>2, <1>4, MadeUpTo
  <1>6. /\ f \in [0..n -> D] /\ f[0] = base
        /\ \A k \in 1..n : f[k] = ParsePart(f[k - 1], parts[k])
    <2>1. f \in [0..n -> D] /\ f[0] = base /\ \A k \in 1..n : f[k] = h[f[k - 1]][k]
      BY <1>5 DEF Made
    <2>2. \A k \in 1..n : k - 1 \in 0..n
      BY <1>1
    <2>. QED  BY <1>4, <2>1, <2>2
  <1>7. got = [k \in 0..Len(parts) |->
                 IF k = 0 THEN [error |-> FALSE, list |-> <<>>] ELSE ParsePart(got[k - 1], parts[k])]
    <2>1. \A k \in 0..n : k # 0 => k \in 1..n
      BY <1>1
    <2>2. f = [k \in 0..n |->
                 IF k = 0 THEN [error |-> FALSE, list |-> <<>>] ELSE ParsePart(f[k - 1], parts[k])]
      BY <1>6, <2>1
    <2>3. n = Len(parts)
      BY DEF n
    <2>. QED  BY <2>2, <2>3
  <1>8. ParsePorts(parts) = IF got[Len(parts)].list = <<>> THEN Refused ELSE got[Len(parts)]
    BY DEF ParsePorts
  <1>9. got[0] = base /\ \A k \in 1..n : got[k] = ParsePart(got[k - 1], parts[k])
    <2>1. \A k \in 1..n : k \in 0..n /\ k # 0
      BY <1>1
    <2>2. 0 \in 0..n /\ n = Len(parts)
      BY <1>1 DEF n
    <2>. HIDE DEF got
    <2>. QED  BY <1>7, <2>1, <2>2
  <1>. HIDE DEF got
  <1>. DEFINE H == {k \in 0..n : Parsed(got[k], formed(k), meant(k))}
  <1>10. 0 \in H
    <2>1. meant(0) = {} /\ formed(0) /\ 0 \in 0..n
      BY <1>1
    <2>2. ToSet(<<>>) = {} /\ <<>> \in Seq(Nat) /\ Distinct(<<>>)
      BY DEF ToSet, Distinct
    <2>3. IsFiniteSet({}) /\ Cardinality({}) = 0
      BY FS_EmptySet
    <2>4. ~(0 > MaxPorts)
      BY InputAssumption DEF InputAssumption
    <2>. HIDE DEF formed, meant
    <2>5. Parsed(base, formed(0), meant(0))
      BY <2>1, <2>2, <2>3, <2>4 DEF Parsed
    <2>. QED  BY <1>9, <2>1, <2>5
  <1>11. ASSUME NEW k \in 1..n, k - 1 \in H PROVE k \in H
    <2>1. Parsed(got[k - 1], formed(k - 1), meant(k - 1)) /\ parts[k] \in Parts
      BY <1>1, <1>11
    <2>2. \A i : i \in 1..k <=> i \in 1..k - 1 \/ i = k
      OBVIOUS
    <2>3. formed(k) <=> formed(k - 1) /\ WellformedPart(parts[k])
      BY <2>2
    <2>4. meant(k) = meant(k - 1) \cup parts[k].first..parts[k].last
      BY <2>2
    <2>5. formed(k - 1) \in BOOLEAN
      OBVIOUS
    <2>. HIDE DEF formed, meant
    <2>6. Parsed(ParsePart(got[k - 1], parts[k]), formed(k - 1) /\ WellformedPart(parts[k]),
                 meant(k - 1) \cup parts[k].first..parts[k].last)
      BY <2>1, <2>5, PartParsed
    <2>7. Parsed(got[k], formed(k), meant(k))
      BY <1>9, <2>3, <2>4, <2>6 DEF Parsed
    <2>. QED  BY <2>7
  <1>. HIDE DEF H
  <1>12. \A k \in 0..n : k \in H
    BY <1>1, <1>10, <1>11, UpTo
  <1>13. n \in H
    BY <1>1, <1>12
  <1>14. meant(n) = MeantPorts(parts) /\ (formed(n) <=> Wellformed(parts))
    BY <1>1 DEF MeantPorts, Wellformed, WellformedPart
  <1>. DEFINE r == got[n]  all == MeantPorts(parts)
  <1>15. Parsed(r, formed(n), meant(n))
    BY <1>13 DEF H
  <1>. HIDE DEF formed, meant, got
  <1>16. /\ r \in [error : BOOLEAN, list : Seq(Nat)] /\ Distinct(r.list) /\ IsFiniteSet(all)
         /\ r.error <=> ~Wellformed(parts) \/ Cardinality(all) > MaxPorts
         /\ r.error => r.list = <<>>
         /\ ~r.error => ToSet(r.list) = all
    BY <1>14, <1>15 DEF Parsed
  <1>17. ParsePorts(parts) = IF r.list = <<>> THEN Refused ELSE r
    BY <1>8 DEF n
  <1>. HIDE DEF r, all
  <1>18. Cardinality(all) \in Nat
    BY <1>16, FS_CardinalityType
  <1>19. Cardinality(all) \notin 1..MaxPorts <=> Cardinality(all) = 0 \/ Cardinality(all) > MaxPorts
    BY <1>18, InputAssumption DEF InputAssumption
  <1>20. ~r.error => Cardinality(all) = Len(r.list)
    BY <1>16, DistinctCount
  <1>21. r.list \in Seq(Nat) /\ (Len(r.list) = 0 <=> r.list = <<>>)
    BY <1>16
  <1>22. CASE r.list = <<>>
    BY <1>16, <1>17, <1>19, <1>20, <1>21, <1>22, RefusedIs DEF all
  <1>23. CASE r.list # <<>>
    BY <1>16, <1>17, <1>19, <1>20, <1>21, <1>23 DEF all
  <1>. QED  BY <1>22, <1>23

-----------------------------------------------------------------------------
(* Every host with every port, once.                                               *)
LEMMA TargetsAre ==
  ASSUME NEW S, NEW T, NEW hosts \in Seq(S), NEW ports \in Seq(T),
         Distinct(hosts), Distinct(ports), ports # <<>>
  PROVE  LET all == TargetsOf(hosts, ports)
         IN /\ ToSet(all) = ToSet(hosts) \X ToSet(ports)
            /\ Len(all) = Cardinality(ToSet(all))
  <1>. DEFINE m == Len(hosts)  n == Len(ports)  all == TargetsOf(hosts, ports)
              host(i) == (i - 1) \div n + 1  port(i) == ((i - 1) % n) + 1
  <1>1. /\ m \in Nat /\ n \in Nat /\ n >= 1 /\ DOMAIN hosts = 1..m /\ DOMAIN ports = 1..n
        /\ Len(hosts) = m /\ Len(ports) = n
        /\ \A i \in 1..m : hosts[i] \in S
        /\ \A i \in 1..n : ports[i] \in T
    OBVIOUS
  <1>2. all = [i \in 1..m * n |-> <<hosts[host(i)], ports[port(i)]>>]
    BY DEF TargetsOf
  <1>. HIDE DEF m, n, all
  <1>3. ASSUME NEW i \in 1..m * n
        PROVE  host(i) \in 1..m /\ port(i) \in 1..n /\ i = n * (host(i) - 1) + port(i)
    <2>. DEFINE k == i - 1  q == k \div n  r == k % n
    <2>1. k \in Nat /\ k \in 0..n * m - 1
      <3>1. m * n = n * m /\ n * m \in Nat
        BY <1>1
      <3>. QED  BY <3>1
    <2>. HIDE DEF k
    <2>2. q \in 0..m - 1
      BY <1>1, <2>1, InBlocks
    <2>3. r \in Nat /\ r < n /\ k = n * q + r
      BY <1>1, <2>1, Division
    <2>. HIDE DEF q, r
    <2>4. q + 1 \in 1..m /\ r + 1 \in 1..n /\ (q + 1) - 1 = q
      BY <1>1, <2>2, <2>3
    <2>5. n * q \in Int /\ i = k + 1
      BY <1>1, <2>2 DEF k
    <2>6. i = n * q + (r + 1)
      BY <2>3, <2>5
    <2>7. host(i) = q + 1 /\ port(i) = r + 1
      BY DEF q, r, k
    <2>. HIDE DEF host, port
    <2>. QED  BY <2>4, <2>6, <2>7
  <1>4. ASSUME NEW x \in 1..m, NEW y \in 1..n
        PROVE  \E i \in 1..m * n : host(i) = x /\ port(i) = y
    <2>. DEFINE q == x - 1  k == n * q + (y - 1)
    <2>1. q \in 0..m - 1 /\ n * q \in Nat /\ n * q + (n - 1) <= n * m - 1
      <3>1. q \in 0..m - 1
        BY <1>1
      <3>. HIDE DEF q
      <3>. QED  BY <1>1, <3>1, Blocks
    <2>2. y - 1 \in Nat /\ y - 1 <= n - 1
      BY <1>1
    <2>. HIDE DEF q
    <2>3. k \in Nat /\ n * q <= k /\ k <= n * q + (n - 1)
      BY <1>1, <2>1, <2>2
    <2>4. k - n * q = y - 1 /\ k <= n * m - 1
      BY <1>1, <2>1, <2>2
    <2>. HIDE DEF k
    <2>5. k \div n = q /\ k % n = y - 1
      <3>1. q \in Int
        BY <2>1
      <3>2. /\ k \div n = q <=> (n * q <= k /\ k <= n * q + (n - 1))
            /\ k \div n = q => k % n = k - n * q
        <4>1. n \in Nat /\ n >= 1 /\ k \in Nat
          BY <1>1, <2>3
        <4>. QED  BY <3>1, <4>1, Block
      <3>. QED  BY <2>3, <2>4, <3>2
    <2>6. k + 1 \in 1..m * n /\ (k + 1) - 1 = k
      <3>1. m * n = n * m /\ n * m \in Nat
        BY <1>1
      <3>. QED  BY <2>3, <2>4, <3>1
    <2>7. q + 1 = x /\ (y - 1) + 1 = y
      BY <1>1 DEF q
    <2>8. host(k + 1) = x /\ port(k + 1) = y
      BY <2>5, <2>6, <2>7
    <2>. QED  BY <2>6, <2>8
  <1>. HIDE DEF host, port
  <1>5. m * n \in Nat
    BY <1>1
  <1>6. all \in Seq(S \X T) /\ DOMAIN all = 1..m * n /\ Len(all) = m * n
    <2>1. \A i \in 1..m * n : <<hosts[host(i)], ports[port(i)]>> \in S \X T
      BY <1>1, <1>3
    <2>. DEFINE k == m * n
    <2>. HIDE DEF k
    <2>2. k \in Nat /\ all = [i \in 1..k |-> <<hosts[host(i)], ports[port(i)]>>]
          /\ \A i \in 1..k : <<hosts[host(i)], ports[port(i)]>> \in S \X T
      BY <1>2, <1>5, <2>1 DEF k
    <2>3. all \in Seq(S \X T) /\ DOMAIN all = 1..k /\ Len(all) = k
      BY <2>2
    <2>. QED  BY <2>3 DEF k
  <1>7. Distinct(all)
    <2>1. ASSUME NEW i \in 1..m * n, NEW j \in 1..m * n, all[i] = all[j] PROVE i = j
      <3>1. hosts[host(i)] = hosts[host(j)] /\ ports[port(i)] = ports[port(j)]
        BY <1>2, <2>1
      <3>2. host(i) = host(j) /\ port(i) = port(j)
        BY <1>1, <1>3, <3>1 DEF Distinct
      <3>. QED  BY <1>3, <3>2
    <2>. QED  BY <1>6, <2>1 DEF Distinct
  <1>8. ToSet(all) = ToSet(hosts) \X ToSet(ports)
    <2>1. ASSUME NEW i \in 1..m * n PROVE all[i] \in ToSet(hosts) \X ToSet(ports)
      BY <1>1, <1>2, <1>3 DEF ToSet
    <2>2. ASSUME NEW x \in 1..m, NEW y \in 1..n PROVE <<hosts[x], ports[y]>> \in ToSet(all)
      BY <1>2, <1>4, <1>6 DEF ToSet
    <2>3. ToSet(all) = {all[i] : i \in 1..m * n}
      BY <1>6 DEF ToSet
    <2>4. ToSet(hosts) = {hosts[x] : x \in 1..m} /\ ToSet(ports) = {ports[y] : y \in 1..n}
      BY <1>1 DEF ToSet
    <2>5. \A z \in ToSet(all) : z \in ToSet(hosts) \X ToSet(ports)
      BY <2>1, <2>3
    <2>6. \A z \in ToSet(hosts) \X ToSet(ports) : z \in ToSet(all)
      <3>1. ASSUME NEW z \in ToSet(hosts) \X ToSet(ports) PROVE z \in ToSet(all)
        <4>1. PICK x \in 1..m, y \in 1..n : z = <<hosts[x], ports[y]>>
          BY <2>4
        <4>. QED  BY <2>2, <4>1
      <3>. QED  BY <3>1
    <2>. QED  BY <2>5, <2>6
  <1>9. Len(all) = Cardinality(ToSet(all))
    BY <1>6, <1>7, DistinctCount
  <1>. QED  BY <1>8, <1>9 DEF all

-----------------------------------------------------------------------------
(* The suggestions.                                                                *)

Entries == [kind : {"IPv4", "other"}, address : Addresses, prefix : Int]
Subnets == [form : {"cidr"}, base : Addresses, n : 0..AddressBits]

LEMMA Larger ==
  ASSUME NEW a \in Int, NEW b \in Int
  PROVE  Max({a, b}) = IF a >= b THEN a ELSE b
  <1>. DEFINE m == IF a >= b THEN a ELSE b
  <1>1. \A x \in {a, b} : (\A y \in {a, b} : x >= y) <=> x = m
    OBVIOUS
  <1>2. m \in {a, b}
    OBVIOUS
  <1>. HIDE DEF m
  <1>3. Max({a, b}) = m
    BY <1>1, <1>2 DEF Max
  <1>. QED  BY <1>3 DEF m

LEMMA SubnetIs ==
  ASSUME NEW entry \in Entries, entry.prefix \in 1..AddressBits
  PROVE  LET text == SubnetOf(entry)
         IN /\ text \in Subnets /\ text.n >= entry.prefix /\ text.n >= AddressBits - OctetBits
            /\ text.base = NetworkOf(entry.address, text.n)
  <1>. USE InputAssumption DEF InputAssumption
  <1>. DEFINE p == Max({entry.prefix, AddressBits - OctetBits})
  <1>1. p = IF entry.prefix >= AddressBits - OctetBits THEN entry.prefix
            ELSE AddressBits - OctetBits
    <2>1. entry.prefix \in Int /\ AddressBits - OctetBits \in Int
      OBVIOUS
    <2>. QED  BY <2>1, Larger
  <1>. HIDE DEF p
  <1>2. p \in 0..AddressBits /\ p >= entry.prefix /\ p >= AddressBits - OctetBits
    BY <1>1
  <1>3. entry.address \in Addresses
    BY DEF Entries
  <1>4. NetworkOf(entry.address, p) \in Addresses
    BY <1>2, <1>3, NetworkIs
  <1>5. SubnetOf(entry) = [form |-> "cidr", base |-> NetworkOf(entry.address, p), n |-> p]
    BY DEF SubnetOf, p
  <1>. QED  BY <1>2, <1>4, <1>5 DEF Subnets

LEMMA SubnetIsText == ASSUME NEW text \in Subnets PROVE IsText(text)
  BY InputAssumption DEF Subnets, IsText, InputAssumption

(* What is suggested for an address of the PC is accepted and lies in its network.   *)
LEMMA SubnetAccepted ==
  ASSUME NEW entry \in Entries, entry.prefix \in 1..AddressBits
  PROVE  LET text == SubnetOf(entry)
         IN /\ ~ParseRange(text).error
            /\ text.n >= entry.prefix
            /\ Meant(text) \subseteq {a \in Addresses :
                 NetworkOf(a, entry.prefix) = NetworkOf(entry.address, entry.prefix)}
            /\ entry.address \in Meant(text)
                 \/ HostPart(entry.address, text.n) \in {0, BlockSize(text.n) - 1}
  <1>0. AddressBits \in Nat /\ OctetBits \in 0..AddressBits /\ MaxAddresses \in Nat
        /\ Pow2[OctetBits] <= MaxAddresses
    BY InputAssumption DEF InputAssumption
  <1>. DEFINE text == SubnetOf(entry)  p == text.n  o == entry.prefix  addr == entry.address
              B == BlockSize(p)  C == BlockSize(o)  net == NetworkOf(addr, p)
  <1>1. /\ text \in Subnets /\ p >= o /\ p >= AddressBits - OctetBits /\ text.base = net
        /\ text.form = "cidr" /\ p \in 0..AddressBits /\ o \in 0..AddressBits
        /\ addr \in Addresses
    BY SubnetIs DEF Subnets, Entries
  <1>. HIDE DEF text, p
  <1>2. /\ B \in Nat /\ B >= 1 /\ net \in Addresses /\ net + (B - 1) \in Addresses
        /\ net <= addr /\ addr <= net + (B - 1) /\ net \div B = addr \div B
    BY <1>1, NetworkIs
  <1>3. Meant(text) = {a \in Addresses : /\ a \div B = addr \div B
                                         /\ B > 2 => HostPart(a, p) \notin {0, B - 1}}
    BY <1>1, <1>2 DEF Meant, p
  <1>4. ~ParseRange(text).error
    <2>1. /\ IsFiniteSet(Meant(text))
          /\ ParseRange(text).error <=> Cardinality(Meant(text)) \notin 1..MaxAddresses
      BY <1>1, SubnetIsText, RangeScanned
    <2>2. Meant(text) \subseteq net..net + (B - 1)
      BY <1>1, <1>3, NetworkHas
    <2>3. IsFiniteSet(net..net + (B - 1)) /\ Cardinality(net..net + (B - 1)) = B
      <3>. DEFINE last == net + (B - 1)
      <3>1. net \in Int /\ last \in Int /\ ~(net > last) /\ last - net + 1 = B
        <4>1. net \in Nat
          BY <1>2, AddressRange
        <4>. QED  BY <1>2, <4>1
      <3>. HIDE DEF last
      <3>2. IsFiniteSet(net..last) /\ Cardinality(net..last) = B
        BY <3>1, FS_Interval
      <3>. QED  BY <3>2 DEF last
    <2>4. Cardinality(Meant(text)) \in Nat /\ Cardinality(Meant(text)) <= B
      <3>1. Meant(text) \in SUBSET (net..net + (B - 1))
        BY <2>2
      <3>. QED  BY <2>1, <2>3, <3>1, FS_Subset, FS_CardinalityType
    <2>5. B <= Pow2[OctetBits] /\ Pow2[OctetBits] \in Nat
      <3>. DEFINE e == AddressBits - p  d == OctetBits - e
      <3>1. e \in Nat /\ d \in Nat /\ e + d = OctetBits
        <4>1. p \in Int /\ p <= AddressBits /\ p >= AddressBits - OctetBits
          BY <1>0, <1>1
        <4>. QED  BY <1>0, <4>1
      <3>. HIDE DEF d
      <3>2. Pow2[e + d] = Pow2[e] * Pow2[d] /\ Pow2[d] \in Nat /\ Pow2[d] >= 1
        BY <3>1, PowSum, PowPositive
      <3>3. B = Pow2[e]
        BY DEF BlockSize
      <3>. HIDE DEF e, B
      <3>4. B * 1 <= B * Pow2[d] /\ B * Pow2[d] \in Nat
        <4>1. B * 1 <= B * Pow2[d]
          BY <1>2, <3>2, Times
        <4>. QED  BY <1>2, <3>2, <4>1
      <3>5. Pow2[OctetBits] = B * Pow2[d] /\ B * 1 = B
        BY <1>2, <3>1, <3>2, <3>3
      <3>. QED  BY <3>4, <3>5
    <2>6. Meant(text) # {}
      <3>1. CASE B > 2
        <4>1. net + 1 \in Addresses /\ net + 1 \in net..net + (B - 1) /\ (net + 1) - net = 1
              /\ 1 \notin {0, B - 1}
          <5>1. net \in Nat /\ net + 1 \in Nat /\ net + 1 <= net + (B - 1)
            BY <1>2, <3>1, AddressRange
          <5>2. \A y \in Nat, z \in Addresses : y <= z => y \in Addresses
            BY AddressRange
          <5>. QED  BY <1>2, <3>1, <5>1, <5>2
        <4>2. (net + 1) \div B = addr \div B /\ (net + 1) % B = 1
          BY <1>1, <4>1, NetworkHas
        <4>3. net + 1 \in Meant(text)
          BY <1>3, <4>1, <4>2 DEF HostPart
        <4>. QED  BY <4>3
      <3>2. CASE ~(B > 2)
        BY <1>1, <1>3, <3>2
      <3>. QED  BY <3>1, <3>2
    <2>7. Cardinality(Meant(text)) # 0
      BY <2>1, <2>6, FS_EmptySet
    <2>8. Cardinality(Meant(text)) \in 1..MaxAddresses
      BY <1>0, <1>2, <2>4, <2>5, <2>7
    <2>. QED  BY <2>1, <2>8
  <1>5. \A a \in Addresses : a \div B = addr \div B => NetworkOf(a, o) = NetworkOf(addr, o)
    <2>. DEFINE c == Pow2[p - o]
    <2>1. c \in Nat /\ c >= 1 /\ C = B * c
      <3>1. AddressBits - p \in Nat /\ p - o \in Nat /\ AddressBits - o = (AddressBits - p) + (p - o)
        BY <1>0, <1>1
      <3>2. Pow2[(AddressBits - p) + (p - o)] = Pow2[AddressBits - p] * Pow2[p - o]
        BY <3>1, PowSum
      <3>3. c \in Nat /\ c >= 1
        BY <3>1, PowPositive
      <3>. QED  BY <3>1, <3>2, <3>3 DEF BlockSize
    <2>. HIDE DEF c
    <2>2. ASSUME NEW a \in Addresses PROVE a \div C = (a \div B) \div c
      <3>1. a \in Nat
        BY AddressRange
      <3>. QED  BY <1>2, <2>1, <3>1, BlockInBlock
    <2>3. ASSUME NEW a \in Addresses PROVE NetworkOf(a, o) = C * (a \div C)
      BY <1>1, NetworkIs
    <2>. HIDE DEF B, C
    <2>. QED  BY <1>1, <2>2, <2>3
  <1>6. addr \in Meant(text) \/ HostPart(addr, p) \in {0, B - 1}
    BY <1>1, <1>3
  <1>. QED  BY <1>1, <1>3, <1>4, <1>5, <1>6 DEF p, text

(* Every address of the PC has its suggestion.                                     *)
LEMMA AllSuggested ==
  ASSUME NEW entries \in Seq(Entries),
         \A i \in DOMAIN entries : entries[i].kind = "IPv4" => entries[i].prefix <= AddressBits
  PROVE  /\ SubnetsFromInterfaces(entries) \in Seq(Subnets)
         /\ \A i \in DOMAIN entries :
              entries[i].kind = "IPv4" /\ entries[i].prefix > 0 =>
                SubnetOf(entries[i]) \in ToSet(SubnetsFromInterfaces(entries))
  <1>. DEFINE n == Len(entries)
              D == Seq(Subnets)
              Refuses(entry) == entry.kind # "IPv4" \/ entry.prefix \notin 1..AddressBits
              seen[k \in 0..Len(entries)] ==
                IF k = 0 THEN <<>>
                ELSE IF Refuses(entries[k]) \/ Contains(seen[k - 1], SubnetOf(entries[k]))
                     THEN seen[k - 1] ELSE Append(seen[k - 1], SubnetOf(entries[k]))
              step(x, k) == IF Refuses(entries[k]) \/ Contains(x, SubnetOf(entries[k]))
                            THEN x ELSE Append(x, SubnetOf(entries[k]))
              h == [x \in D |-> [k \in Nat |-> IF k \in 1..n THEN step(x, k) ELSE x]]
  <1>1. n \in Nat /\ DOMAIN entries = 1..n /\ \A k \in 1..n : entries[k] \in Entries
    OBVIOUS
  <1>2. <<>> \in D
    OBVIOUS
  <1>3. ASSUME NEW x \in D, NEW k \in 1..n PROVE step(x, k) \in D
    <2>1. CASE Refuses(entries[k]) \/ Contains(x, SubnetOf(entries[k]))
      BY <2>1
    <2>2. CASE ~(Refuses(entries[k]) \/ Contains(x, SubnetOf(entries[k])))
      <3>1. entries[k] \in Entries /\ entries[k].prefix \in 1..AddressBits
        BY <1>1, <2>2
      <3>2. SubnetOf(entries[k]) \in Subnets
        BY <3>1, SubnetIs
      <3>. QED  BY <2>2, <3>2
    <2>. QED  BY <2>1, <2>2
  <1>. HIDE DEF D, step
  <1>4. h \in [D -> [Nat -> D]] /\ \A x \in D : \A k \in 1..n : h[x][k] = step(x, k)
    BY <1>3
  <1>. HIDE DEF h, n
  <1>5. PICK f : Made(D, <<>>, h, n, f)
    BY <1>1, <1>2, <1>4, MadeUpTo
  <1>6. /\ f \in [0..n -> D] /\ f[0] = <<>>
        /\ \A k \in 1..n : f[k] = step(f[k - 1], k)
    <2>1. f \in [0..n -> D] /\ f[0] = <<>> /\ \A k \in 1..n : f[k] = h[f[k - 1]][k]
      BY <1>5 DEF Made
    <2>2. \A k \in 1..n : k - 1 \in 0..n
      BY <1>1
    <2>. QED  BY <1>4, <2>1, <2>2
  <1>7. seen = [k \in 0..Len(entries) |->
                  IF k = 0 THEN <<>>
                  ELSE IF Refuses(entries[k]) \/ Contains(seen[k - 1], SubnetOf(entries[k]))
                       THEN seen[k - 1] ELSE Append(seen[k - 1], SubnetOf(entries[k]))]
    <2>1. \A k \in 0..n : k # 0 => k \in 1..n
      BY <1>1
    <2>2. f = [k \in 0..n |->
                  IF k = 0 THEN <<>>
                  ELSE IF Refuses(entries[k]) \/ Contains(f[k - 1], SubnetOf(entries[k]))
                       THEN f[k - 1] ELSE Append(f[k - 1], SubnetOf(entries[k]))]
      BY <1>6, <2>1 DEF step
    <2>3. n = Len(entries)
      BY DEF n
    <2>. QED  BY <2>2, <2>3
  <1>8. SubnetsFromInterfaces(entries) = seen[Len(entries)]
    BY DEF SubnetsFromInterfaces
  <1>9. seen[0] = <<>> /\ \A k \in 1..n : seen[k] = step(seen[k - 1], k)
    <2>1. \A k \in 1..n : k \in 0..n /\ k # 0
      BY <1>1
    <2>2. 0 \in 0..n /\ n = Len(entries)
      BY <1>1 DEF n
    <2>. HIDE DEF seen
    <2>. QED  BY <1>7, <2>1, <2>2 DEF step
  <1>. HIDE DEF seen
  <1>. DEFINE H == {k \in 0..n : /\ seen[k] \in D
                                 /\ \A i \in 1..k : ~Refuses(entries[i]) =>
                                      SubnetOf(entries[i]) \in ToSet(seen[k])}
  <1>10. 0 \in H
    BY <1>1, <1>2, <1>9
  <1>11. ASSUME NEW k \in 1..n, k - 1 \in H PROVE k \in H
    <2>. DEFINE s == seen[k - 1]  t == SubnetOf(entries[k])
    <2>1. s \in D /\ \A i \in 1..k - 1 : ~Refuses(entries[i]) => SubnetOf(entries[i]) \in ToSet(s)
      BY <1>11
    <2>2. seen[k] = IF Refuses(entries[k]) \/ Contains(s, t) THEN s ELSE Append(s, t)
      BY <1>9 DEF step
    <2>3. seen[k] \in D
      BY <1>3, <1>9, <2>1
    <2>. HIDE DEF s, t, Refuses
    <2>4. Contains(s, t) => t \in ToSet(s)
      <3>1. DOMAIN s = 1..Len(s)
        BY <2>1 DEF D
      <3>. QED  BY <3>1 DEF Contains, ToSet
    <2>5. ToSet(Append(s, t)) = ToSet(s) \cup {t}
      <3>1. /\ Len(s) \in Nat /\ DOMAIN s = 1..Len(s)
            /\ DOMAIN Append(s, t) = 1..Len(s) + 1 /\ Append(s, t)[Len(s) + 1] = t
            /\ \A i \in 1..Len(s) : Append(s, t)[i] = s[i]
        BY <2>1 DEF D
      <3>2. \A i : i \in 1..Len(s) + 1 <=> i \in 1..Len(s) \/ i = Len(s) + 1
        BY <3>1
      <3>. QED  BY <3>1, <3>2 DEF ToSet
    <2>6. \A i : i \in 1..k <=> i \in 1..k - 1 \/ i = k
      OBVIOUS
    <2>7. ~Refuses(entries[k]) => t \in ToSet(seen[k])
      BY <2>2, <2>4, <2>5
    <2>8. ToSet(s) \subseteq ToSet(seen[k])
      BY <2>2, <2>5
    <2>9. \A i \in 1..k : ~Refuses(entries[i]) => SubnetOf(entries[i]) \in ToSet(seen[k])
      BY <2>1, <2>6, <2>7, <2>8 DEF t
    <2>10. k \in 0..n
      BY <1>1
    <2>. QED  BY <2>3, <2>9, <2>10 DEF Refuses
  <1>. HIDE DEF H
  <1>12. \A k \in 0..n : k \in H
    BY <1>1, <1>10, <1>11, UpTo
  <1>13. n \in H
    BY <1>1, <1>12
  <1>14. /\ SubnetsFromInterfaces(entries) \in Seq(Subnets)
         /\ \A i \in 1..n : ~Refuses(entries[i]) =>
              SubnetOf(entries[i]) \in ToSet(SubnetsFromInterfaces(entries))
    BY <1>8, <1>13 DEF H, D, n
  <1>15. ASSUME NEW i \in 1..n, entries[i].kind = "IPv4", entries[i].prefix > 0
         PROVE  ~Refuses(entries[i])
    <2>1. entries[i].prefix \in Int /\ entries[i].prefix <= AddressBits
      BY <1>1, <1>15 DEF Entries
    <2>. QED  BY <1>15, <2>1, InputAssumption DEF InputAssumption
  <1>. QED  BY <1>1, <1>14, <1>15

-----------------------------------------------------------------------------
(* The dialog and the controller.                                               *)

InputTypes ==
  /\ interfaces \in InterfaceLists
  /\ IsText(rangeText) /\ IsText(lastRange)
  /\ portsText \in Seq(Parts) /\ lastPorts \in Seq(Parts)

FieldsChecked ==
  /\ rangeError = ParseRange(rangeText).error
  /\ portsError = ParsePorts(portsText).error

RememberedAccepted ==
  /\ ~ParsePorts(lastPorts).error
  /\ lastRange # NoText => ~ParseRange(lastRange).error

AskedFromRemembered ==
  asked # <<>> =>
    /\ ~ParseRange(lastRange).error
    /\ asked = TargetsOf(ParseRange(lastRange).list, ParsePorts(lastPorts).list)

InputInv == InputTypes /\ FieldsChecked /\ RememberedAccepted /\ AskedFromRemembered

LEMMA NoTextIs == IsText(NoText) /\ ParseRange(NoText).error
  <1>1. 0 \in Addresses
    BY AddressRange
  <1>2. NoText.form = "empty" /\ NoText.base = 0 /\ NoText.n = 0
    BY DEF NoText
  <1>. QED  BY <1>1, <1>2 DEF IsText, ParseRange, Refused

LEMMA NoPartsAre == <<>> \in Seq(Parts) /\ ParsePorts(<<>>).error
  <1>1. <<>> \in Seq(Parts) /\ MeantPorts(<<>>) = {}
    BY DEF MeantPorts
  <1>2. 0 \notin 1..MaxPorts
    BY InputAssumption DEF InputAssumption
  <1>3. ParsePorts(<<>>).error <=> \/ ~Wellformed(<<>>)
                                   \/ Cardinality(MeantPorts(<<>>)) \notin 1..MaxPorts
    BY <1>1, PortsScanned
  <1>. QED  BY <1>1, <1>2, <1>3, FS_EmptySet

LEMMA SuggestionsAreTexts ==
  ASSUME interfaces \in InterfaceLists
  PROVE  /\ interfaces \in Seq(Entries)
         /\ \A i \in DOMAIN interfaces :
              interfaces[i].kind = "IPv4" => interfaces[i].prefix <= AddressBits
         /\ SubnetsFromInterfaces(interfaces) \in Seq(Subnets)
         /\ \A text \in ToSet(SubnetsFromInterfaces(interfaces)) : IsText(text)
  <1>1. /\ interfaces \in Seq(Entries)
        /\ \A i \in DOMAIN interfaces :
             interfaces[i].kind = "IPv4" => interfaces[i].prefix <= AddressBits
    BY InputAssumption DEF InputAssumption, Entries
  <1>2. SubnetsFromInterfaces(interfaces) \in Seq(Subnets)
    BY <1>1, AllSuggested
  <1>3. \A text \in ToSet(SubnetsFromInterfaces(interfaces)) : text \in Subnets
    BY <1>2 DEF ToSet
  <1>. QED  BY <1>1, <1>2, <1>3, SubnetIsText

LEMMA InputInvInit == ASSUME InputInit PROVE InputInv
  <1>. USE InputAssumption DEF InputAssumption, InputInit
  <1>1. InputTypes
    BY NoTextIs, NoPartsAre DEF InputTypes
  <1>2. FieldsChecked
    <2>1. ParseRange(NoText).error \in BOOLEAN /\ ParsePorts(<<>>).error \in BOOLEAN
      BY NoTextIs, NoPartsAre, RangeScanned, PortsScanned
    <2>. QED  BY <2>1, NoTextIs, NoPartsAre DEF FieldsChecked
  <1>3. RememberedAccepted /\ AskedFromRemembered
    BY DEF RememberedAccepted, AskedFromRemembered
  <1>. QED  BY <1>1, <1>2, <1>3 DEF InputInv

LEMMA TypedTextIs ==
  ASSUME NEW text \in RangeTexts PROVE IsText(text)
  BY InputAssumption DEF InputAssumption, IsText

LEMMA InputInvKept == ASSUME InputInv, [InputNext]_inputVars PROVE InputInv'
  <1>. USE DEF InputInv
  <1>1. CASE OpenDialog
    <2>1. IsText(rangeText')
      <3>1. \A i \in DOMAIN SubnetsFromInterfaces(interfaces) :
              IsText(SubnetsFromInterfaces(interfaces)[i])
        BY SuggestionsAreTexts DEF InputTypes, ToSet
      <3>2. SubnetsFromInterfaces(interfaces) # <<>> =>
              1 \in DOMAIN SubnetsFromInterfaces(interfaces)
        <4>1. SubnetsFromInterfaces(interfaces) \in Seq(Subnets)
          BY SuggestionsAreTexts DEF InputTypes
        <4>. QED  BY <4>1
      <3>. QED  BY <1>1, <3>1, <3>2, NoTextIs DEF OpenDialog, InputTypes
    <2>2. InputTypes'
      BY <1>1, <2>1 DEF OpenDialog, InputTypes, IsText
    <2>. QED  BY <1>1, <2>2
         DEF OpenDialog, Validate, FieldsChecked, RememberedAccepted, AskedFromRemembered
  <1>2. CASE CloseDialog
    BY <1>2 DEF CloseDialog, InputTypes, FieldsChecked, RememberedAccepted, AskedFromRemembered
  <1>3. CASE StartScan
    <2>1. /\ ~ParseRange(rangeText).error /\ ~ParsePorts(portsText).error
          /\ asked' = TargetsOf(ParseRange(rangeText).list, ParsePorts(portsText).list)
          /\ lastRange' = rangeText /\ lastPorts' = portsText
          /\ UNCHANGED <<interfaces, open, rangeText, portsText, rangeError, portsError>>
      BY <1>3 DEF StartScan
    <2>. QED  BY <2>1 DEF InputTypes, FieldsChecked, RememberedAccepted, AskedFromRemembered, IsText
  <1>4. CASE ScanStops
    BY <1>4 DEF ScanStops, InputTypes, FieldsChecked, RememberedAccepted, AskedFromRemembered
  <1>5. CASE Restarted
    BY <1>5, NoTextIs, NoPartsAre
    DEF Restarted, Validate, InputTypes, FieldsChecked, RememberedAccepted, AskedFromRemembered
  <1>6. ASSUME NEW text \in RangeTexts \cup ToSet(SubnetsFromInterfaces(interfaces)),
               TypeRange(text)
        PROVE  InputInv'
    <2>1. IsText(text)
      BY <1>6, TypedTextIs, SuggestionsAreTexts DEF InputTypes
    <2>. QED  BY <1>6, <2>1
         DEF TypeRange, Validate, InputTypes, FieldsChecked, RememberedAccepted, AskedFromRemembered
  <1>7. ASSUME NEW text \in PortTexts, TypePorts(text) PROVE InputInv'
    <2>1. text \in Seq(Parts)
      BY InputAssumption DEF InputAssumption
    <2>. QED  BY <1>7, <2>1
         DEF TypePorts, Validate, InputTypes, FieldsChecked, RememberedAccepted, AskedFromRemembered
  <1>8. CASE UNCHANGED inputVars
    BY <1>8 DEF inputVars, InputTypes, FieldsChecked, RememberedAccepted, AskedFromRemembered
  <1>. QED  BY <1>1, <1>2, <1>3, <1>4, <1>5, <1>6, <1>7, <1>8 DEF InputNext

LEMMA InputInvMeans == ASSUME InputInv PROVE ScanIsWhatWasMeant
  <1>. USE DEF InputInv, InputTypes
  <1>1. rangeError <=> Cardinality(Meant(rangeText)) \notin 1..MaxAddresses
    BY RangeScanned DEF FieldsChecked
  <1>2. portsError <=> \/ ~Wellformed(portsText)
                       \/ Cardinality(MeantPorts(portsText)) \notin 1..MaxPorts
    BY PortsScanned DEF FieldsChecked
  <1>3. ASSUME asked # <<>>
        PROVE  /\ ToSet(asked) = Meant(lastRange) \X MeantPorts(lastPorts)
               /\ Len(asked) = Cardinality(ToSet(asked))
    <2>. DEFINE hosts == ParseRange(lastRange).list  ports == ParsePorts(lastPorts).list
    <2>1. asked = TargetsOf(hosts, ports) /\ ~ParseRange(lastRange).error
          /\ ~ParsePorts(lastPorts).error
      BY <1>3 DEF AskedFromRemembered, RememberedAccepted
    <2>2. hosts \in Seq(Addresses) /\ Distinct(hosts) /\ ToSet(hosts) = Meant(lastRange)
      BY <2>1, RangeScanned
    <2>3. ports \in Seq(Nat) /\ Distinct(ports) /\ ports # <<>>
          /\ ToSet(ports) = MeantPorts(lastPorts)
      BY <2>1, PortsScanned
    <2>. HIDE DEF hosts, ports
    <2>4. /\ ToSet(TargetsOf(hosts, ports)) = ToSet(hosts) \X ToSet(ports)
          /\ Len(TargetsOf(hosts, ports)) = Cardinality(ToSet(TargetsOf(hosts, ports)))
      BY <2>2, <2>3, TargetsAre
    <2>. QED  BY <2>1, <2>2, <2>3, <2>4
  <1>4. ASSUME NEW entry \in ToSet(interfaces), entry.kind = "IPv4", entry.prefix > 0
        PROVE  \E text \in ToSet(SubnetsFromInterfaces(interfaces)) :
                 /\ ~ParseRange(text).error
                 /\ text.n >= entry.prefix
                 /\ Meant(text) \subseteq {a \in Addresses :
                      NetworkOf(a, entry.prefix) = NetworkOf(entry.address, entry.prefix)}
                 /\ entry.address \in Meant(text)
                      \/ HostPart(entry.address, text.n) \in {0, BlockSize(text.n) - 1}
    <2>1. PICK i \in DOMAIN interfaces : entry = interfaces[i]
      BY DEF ToSet
    <2>2. /\ interfaces \in Seq(Entries) /\ entry.prefix <= AddressBits
          /\ \A k \in DOMAIN interfaces :
               interfaces[k].kind = "IPv4" => interfaces[k].prefix <= AddressBits
      BY <1>4, <2>1, SuggestionsAreTexts
    <2>3. entry \in Entries
      BY <2>1, <2>2
    <2>4. entry.prefix \in 1..AddressBits
      <3>1. entry.prefix \in Int
        BY <2>3 DEF Entries
      <3>. QED  BY <1>4, <2>2, <3>1, InputAssumption DEF InputAssumption
    <2>5. SubnetOf(entry) \in ToSet(SubnetsFromInterfaces(interfaces))
      BY <1>4, <2>1, <2>2, AllSuggested
    <2>6. LET text == SubnetOf(entry)
          IN /\ ~ParseRange(text).error
             /\ text.n >= entry.prefix
             /\ Meant(text) \subseteq {a \in Addresses :
                  NetworkOf(a, entry.prefix) = NetworkOf(entry.address, entry.prefix)}
             /\ entry.address \in Meant(text)
                  \/ HostPart(entry.address, text.n) \in {0, BlockSize(text.n) - 1}
      BY <2>3, <2>4, SubnetAccepted
    <2>. QED  BY <2>5, <2>6, Zenon
  <1>. QED  BY <1>1, <1>2, <1>3, <1>4, Zenon DEF ScanIsWhatWasMeant, RememberedAccepted

(* Whatever is typed, suggested, remembered and scanned: the errors are what the   *)
(* fields mean, a scan covers each address and port meant once, what is remembered  *)
(* stays acceptable, and each IPv4 address of the PC has an acceptable suggestion.   *)
THEOREM ScanIsAlwaysWhatWasMeant == InputSpec => []ScanIsWhatWasMeant
  <1>1. InputInit => InputInv
    BY InputInvInit
  <1>2. InputInv /\ [InputNext]_inputVars => InputInv'
    BY InputInvKept
  <1>3. InputInv => ScanIsWhatWasMeant
    BY InputInvMeans
  <1>. QED  BY <1>1, <1>2, <1>3, PTL DEF InputSpec
=============================================================================
