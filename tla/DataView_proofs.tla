--------------------------- MODULE DataView_proofs ---------------------------
(***************************************************************************)
(* The table and the panels of the selected node against the service, for    *)
(* any nodes, servers, tables and any length of the two queues; then the trend *)
(* that is drawn of the nodes' values and the table as it is sorted, filtered  *)
(* and edited, each a state machine of its own.                             *)
(***************************************************************************)
EXTENDS DataView, DataTable, TrendModel, FiniteSetTheorems, SequenceTheorems,
        WellFoundedInduction, TLAPS

-----------------------------------------------------------------------------
(* Queues.                                                                 *)

LEMMA AppendedQueue ==
  ASSUME NEW S, NEW q \in Seq(S), NEW t \in Seq(S)
  PROVE  /\ q \o t \in Seq(S) /\ Len(q \o t) = Len(q) + Len(t)
         /\ Len(q) \in Nat /\ Len(t) \in Nat
         /\ DOMAIN (q \o t) = 1..(Len(q) + Len(t)) /\ DOMAIN q = 1..Len(q) /\ DOMAIN t = 1..Len(t)
         /\ \A k \in 1..Len(q) : (q \o t)[k] = q[k]
         /\ \A k \in 1..Len(t) : (q \o t)[Len(q) + k] = t[k]
         /\ Range(q \o t) = Range(q) \cup Range(t)
  <1>1. /\ q \o t \in Seq(S) /\ Len(q \o t) = Len(q) + Len(t)
        /\ Len(q) \in Nat /\ Len(t) \in Nat
        /\ DOMAIN (q \o t) = 1..(Len(q) + Len(t)) /\ DOMAIN q = 1..Len(q) /\ DOMAIN t = 1..Len(t)
    BY ConcatProperties, LenProperties
  <1>2. /\ \A k \in 1..Len(q) : (q \o t)[k] = q[k]
        /\ \A k \in 1..Len(t) : (q \o t)[Len(q) + k] = t[k]
    BY <1>1, ConcatProperties
  <1>3. ASSUME NEW x \in Range(q \o t)  PROVE x \in Range(q) \cup Range(t)
    <2>1. PICK k \in 1..(Len(q) + Len(t)) : x = (q \o t)[k]
      BY <1>1, <1>3 DEF Range
    <2>2. CASE k <= Len(q)
      <3>1. k \in DOMAIN q /\ x = q[k]
        BY <1>1, <1>2, <2>1, <2>2
      <3>. QED  BY <3>1 DEF Range
    <2>3. CASE k > Len(q)
      <3>1. k - Len(q) \in DOMAIN t /\ x = t[k - Len(q)]
        BY <1>1, <1>2, <2>1, <2>3
      <3>. QED  BY <3>1 DEF Range
    <2>. QED  BY <1>1, <2>1, <2>2, <2>3
  <1>4. ASSUME NEW k \in DOMAIN q  PROVE q[k] \in Range(q \o t)
    <2>1. k \in DOMAIN (q \o t) /\ (q \o t)[k] = q[k]
      BY <1>1, <1>2, <1>4
    <2>. QED  BY <2>1 DEF Range
  <1>5. ASSUME NEW k \in DOMAIN t  PROVE t[k] \in Range(q \o t)
    <2>1. Len(q) + k \in DOMAIN (q \o t) /\ (q \o t)[Len(q) + k] = t[k]
      BY <1>1, <1>2, <1>5
    <2>. QED  BY <2>1 DEF Range
  <1>6. Range(q) \cup Range(t) \subseteq Range(q \o t)
    BY <1>4, <1>5 DEF Range
  <1>. QED  BY <1>1, <1>2, <1>3, <1>6

LEMMA SentOne ==
  ASSUME NEW S, NEW x \in S
  PROVE  /\ <<x>> \in Seq(S) /\ Len(<<x>>) = 1 /\ DOMAIN <<x>> = {1} /\ <<x>>[1] = x
         /\ Range(<<x>>) = {x}
  <1>1. <<x>> \in Seq(S) /\ Len(<<x>>) = 1 /\ DOMAIN <<x>> = {1} /\ <<x>>[1] = x
    OBVIOUS
  <1>. QED  BY <1>1 DEF Range

LEMMA SentOneMore ==
  ASSUME NEW S, NEW q \in Seq(S), NEW x \in S
  PROVE  /\ q \o <<x>> \in Seq(S) /\ Len(q \o <<x>>) = Len(q) + 1 /\ Len(q) \in Nat
         /\ DOMAIN (q \o <<x>>) = 1..(Len(q) + 1) /\ DOMAIN q = 1..Len(q)
         /\ \A k \in 1..Len(q) : (q \o <<x>>)[k] = q[k]
         /\ (q \o <<x>>)[Len(q) + 1] = x
         /\ Range(q \o <<x>>) = Range(q) \cup {x}
  <1>. DEFINE t == <<x>>
  <1>1. t \in Seq(S) /\ Len(t) = 1 /\ t[1] = x /\ Range(t) = {x}
    BY SentOne
  <1>. HIDE DEF t
  <1>2. t \in Seq(S)
    BY <1>1
  <1>3. /\ q \o t \in Seq(S) /\ Len(q \o t) = Len(q) + Len(t)
        /\ Len(q) \in Nat /\ Len(t) \in Nat
        /\ DOMAIN (q \o t) = 1..(Len(q) + Len(t)) /\ DOMAIN q = 1..Len(q) /\ DOMAIN t = 1..Len(t)
        /\ \A k \in 1..Len(q) : (q \o t)[k] = q[k]
        /\ \A k \in 1..Len(t) : (q \o t)[Len(q) + k] = t[k]
        /\ Range(q \o t) = Range(q) \cup Range(t)
    BY <1>2, AppendedQueue, ZenonT(40)
  <1>4. (q \o t)[Len(q) + 1] = x
    BY <1>1, <1>3
  <1>5. /\ q \o t \in Seq(S) /\ Len(q \o t) = Len(q) + 1 /\ Len(q) \in Nat
        /\ DOMAIN (q \o t) = 1..(Len(q) + 1) /\ DOMAIN q = 1..Len(q)
        /\ \A k \in 1..Len(q) : (q \o t)[k] = q[k]
        /\ (q \o t)[Len(q) + 1] = x
        /\ Range(q \o t) = Range(q) \cup {x}
    BY <1>1, <1>3, <1>4
  <1>. QED  BY <1>5 DEF t

LEMMA QueueTail ==
  ASSUME NEW S, NEW q \in Seq(S), q # <<>>
  PROVE  /\ Tail(q) \in Seq(S) /\ Len(Tail(q)) = Len(q) - 1 /\ Len(q) \in Nat \ {0}
         /\ DOMAIN Tail(q) = 1..(Len(q) - 1) /\ DOMAIN q = 1..Len(q)
         /\ \A k \in 1..(Len(q) - 1) : Tail(q)[k] = q[k + 1]
         /\ Head(q) = q[1] /\ Head(q) \in S
         /\ Range(q) = {Head(q)} \cup Range(Tail(q))
  <1>1. /\ Tail(q) \in Seq(S) /\ Len(Tail(q)) = Len(q) - 1 /\ Len(q) \in Nat \ {0}
        /\ DOMAIN Tail(q) = 1..(Len(q) - 1) /\ DOMAIN q = 1..Len(q)
        /\ \A k \in 1..(Len(q) - 1) : Tail(q)[k] = q[k + 1]
        /\ Head(q) = q[1] /\ Head(q) \in S
    <2>1. Len(q) \in Nat \ {0}
      BY EmptySeq, LenProperties
    <2>. QED  BY <2>1, HeadTailProperties, LenProperties
  <1>2. ASSUME NEW k \in DOMAIN q  PROVE q[k] \in {Head(q)} \cup Range(Tail(q))
    <2>1. CASE k = 1
      BY <1>1, <2>1
    <2>2. CASE k # 1
      <3>1. k - 1 \in DOMAIN Tail(q) /\ Tail(q)[k - 1] = q[k]
        BY <1>1, <1>2, <2>2
      <3>. QED  BY <3>1 DEF Range
    <2>. QED  BY <2>1, <2>2
  <1>3. ASSUME NEW k \in DOMAIN Tail(q)  PROVE Tail(q)[k] \in Range(q)
    <2>1. k + 1 \in DOMAIN q /\ q[k + 1] = Tail(q)[k]
      BY <1>1, <1>3
    <2>. QED  BY <2>1 DEF Range
  <1>4. Head(q) \in Range(q)
    BY <1>1 DEF Range
  <1>. QED  BY <1>1, <1>2, <1>3, <1>4 DEF Range

LEMMA TakenOut ==
  ASSUME NEW S, NEW q \in Seq(S), NEW i \in DOMAIN q
  PROVE  /\ RemoveAt(q, i) \in Seq(S) /\ Len(RemoveAt(q, i)) = Len(q) - 1 /\ Len(q) \in Nat \ {0}
         /\ DOMAIN RemoveAt(q, i) = 1..(Len(q) - 1) /\ DOMAIN q = 1..Len(q)
         /\ \A k \in 1..(Len(q) - 1) : RemoveAt(q, i)[k] = q[IF k < i THEN k ELSE k + 1]
         /\ Range(q) = {q[i]} \cup Range(RemoveAt(q, i))
  <1>. DEFINE a == SubSeq(q, 1, i - 1)
              b == SubSeq(q, i + 1, Len(q))
  <1>1. DOMAIN q = 1..Len(q) /\ Len(q) \in Nat \ {0} /\ i \in 1..Len(q)
    BY LenProperties
  <1>2. /\ a \in Seq(S) /\ Len(a) = i - 1 /\ \A k \in 1..(i - 1) : a[k] = q[k]
    BY <1>1, SubSeqProperties
  <1>3. /\ b \in Seq(S) /\ Len(b) = Len(q) - i /\ \A k \in 1..(Len(q) - i) : b[k] = q[i + k]
    BY <1>1, SubSeqProperties
  <1>. DEFINE c == a \o b
  <1>4. RemoveAt(q, i) = c
    BY DEF RemoveAt
  <1>. HIDE DEF a, b
  <1>5. /\ c \in Seq(S) /\ Len(c) = Len(a) + Len(b) /\ DOMAIN c = 1..(Len(a) + Len(b))
        /\ \A k \in 1..Len(a) : c[k] = a[k]
        /\ \A k \in 1..Len(b) : c[Len(a) + k] = b[k]
    <2>1. a \in Seq(S) /\ b \in Seq(S)
      BY <1>2, <1>3
    <2>. HIDE DEF c
    <2>2. \A S1 : \A q1, t1 \in Seq(S1) :
            /\ q1 \o t1 \in Seq(S1) /\ Len(q1 \o t1) = Len(q1) + Len(t1)
            /\ DOMAIN (q1 \o t1) = 1..(Len(q1) + Len(t1))
            /\ \A k \in 1..Len(q1) : (q1 \o t1)[k] = q1[k]
            /\ \A k \in 1..Len(t1) : (q1 \o t1)[Len(q1) + k] = t1[k]
      BY AppendedQueue
    <2>. QED  BY <2>1, <2>2 DEF c
  <1>. HIDE DEF c
  <1>6. ASSUME NEW k \in 1..(Len(q) - 1)  PROVE c[k] = q[IF k < i THEN k ELSE k + 1]
    <2>0. i \in Nat /\ k \in Nat /\ k <= Len(q) - 1 /\ 1 <= k /\ i <= Len(q) /\ Len(q) \in Nat
      BY <1>1, <1>6
    <2>1. CASE k < i
      <3>1. k \in 1..(i - 1)
        BY <2>0, <2>1
      <3>2. a[k] = q[k] /\ c[k] = a[k]
        BY <1>2, <1>5, <3>1
      <3>. QED  BY <2>1, <3>2
    <2>2. CASE k >= i
      <3>1. PICK m \in 1..Len(b) : k = Len(a) + m
        <4>. DEFINE d == k - (i - 1)
        <4>1. d \in 1..(Len(q) - i) /\ k = (i - 1) + d
          BY <2>0, <2>2
        <4>. HIDE DEF d
        <4>2. d \in 1..Len(b) /\ k = Len(a) + d
          BY <1>2, <1>3, <4>1
        <4>. QED  BY <4>2
      <3>2. i + m = k + 1
        BY <1>1, <1>2, <1>3, <3>1, SMTT(30)
      <3>. QED  BY <1>1, <1>3, <1>5, <2>2, <3>1, <3>2
    <2>. QED  BY <1>1, <2>1, <2>2
  <1>9. Len(c) = Len(q) - 1 /\ DOMAIN c = 1..(Len(q) - 1)
    BY <1>1, <1>2, <1>3, <1>5
  <1>7. ASSUME NEW k \in DOMAIN q  PROVE q[k] \in {q[i]} \cup Range(c)
    <2>1. CASE k < i
      <3>1. k \in DOMAIN c /\ c[k] = q[k]
        BY <1>1, <1>9, <1>6, <1>7, <2>1
      <3>. QED  BY <3>1 DEF Range
    <2>2. CASE k > i
      <3>1. k - 1 \in DOMAIN c /\ c[k - 1] = q[k]
        BY <1>1, <1>9, <1>6, <1>7, <2>2
      <3>. QED  BY <3>1 DEF Range
    <2>. QED  BY <1>1, <1>7, <2>1, <2>2
  <1>8. ASSUME NEW k \in DOMAIN c  PROVE c[k] \in Range(q)
    <2>1. (IF k < i THEN k ELSE k + 1) \in DOMAIN q
      BY <1>1, <1>9, <1>8
    <2>2. k \in 1..(Len(q) - 1)
      BY <1>8, <1>9
    <2>. QED  BY <1>6, <2>1, <2>2 DEF Range
  <1>10. Range(q) = {q[i]} \cup Range(c)
    <2>1. q[i] \in Range(q)
      BY DEF Range
    <2>. QED  BY <1>7, <1>8, <2>1 DEF Range
  <1>. QED  BY <1>1, <1>4, <1>5, <1>6, <1>9, <1>10

-----------------------------------------------------------------------------
(* The invariant.  What the two queues may hold:                            *)

Commands ==
  [op : {"connect"}, server : Servers] \cup [op : {"disconnect"}]
  \cup [op : {"subscribe"}, node : Nodes, interval : Intervals]
  \cup [op : {"unsubscribe", "write"}, node : Nodes]
  \cup [op : {"readAttributes", "readStructured"}, req : Requests]

Signals ==
  [sig : {"connected"}, server : Servers \cup {None}]
  \cup [sig : {"value"}, node : Nodes, server : Servers]
  \cup [sig : {"written"}, node : Nodes, ok : BOOLEAN]
  \cup [sig : {"read"}, panel : Panels, node : Nodes, id : Nat, good : BOOLEAN]

Types == TypeOK /\ cmds \in Seq(Commands) /\ evts \in Seq(Signals)

(* Session.  How far a session is on its way from the form to the service and  *)
(* back to the facade.                                                     *)

Calm(sig)     == sig.sig # "connected" /\ sig.sig # "value"
NoNews(q)     == \A sig \in Range(q) : Calm(sig)
Never(op, q)  == \A c \in Range(q) : c.op # op
Closed        == session = None /\ opening = None

(* One connect command, to server s, and no subscription behind it.         *)
OneConnect(q, s) ==
  \E k \in DOMAIN q :
    /\ q[k].op = "connect" /\ q[k].server = s
    /\ \A m \in DOMAIN q : /\ q[m].op = "connect" => m = k
                           /\ q[m].op = "subscribe" => m < k

OneEnd(q) ==
  \E j \in DOMAIN q : /\ q[j].sig = "connected" /\ q[j].server = None
                      /\ \A k \in DOMAIN q : k # j => Calm(q[k])

(* The news that the session with s began is signal i, or has arrived (0);    *)
(* that it ended is signal j, or still to come.  Every value is in between.  *)
Framed(q, s, i, j) ==
  /\ i \in 0..Len(q) /\ j \in 1..(Len(q) + 1) /\ i < j
  /\ \A k \in DOMAIN q :
       /\ q[k].sig = "connected" <=> k = i \/ k = j
       /\ q[k].sig = "value" => i < k /\ k < j /\ q[k].server = s
  /\ i > 0 => q[i].server = s
  /\ j <= Len(q) => q[j].server = None

Unasked == ~gConnected /\ ~asking /\ Closed /\ Never("connect", cmds) /\ NoNews(evts)
Asked   == ~gConnected /\ asking /\ Closed /\ OneConnect(cmds, current) /\ NoNews(evts)
Opening == /\ ~gConnected /\ asking /\ session = None /\ opening = current
           /\ Never("connect", cmds) /\ Never("subscribe", cmds) /\ NoNews(evts)
Failed  == ~gConnected /\ asking /\ Closed /\ Never("connect", cmds) /\ OneEnd(evts)
Open(i, j) ==
  /\ Framed(evts, current, i, j) /\ opening = None /\ Never("connect", cmds)
  /\ gConnected <=> i = 0
  /\ asking <=> i > 0
  /\ j > Len(evts) => session = current
  /\ j <= Len(evts) => session = None
  /\ i > 0 => Never("subscribe", cmds) /\ \A n \in Nodes : monitored[n] = None

SessionInv ==
  /\ gConnected \/ asking => current \in Servers
  /\ browsed => gConnected
  /\ ~Up => \A n \in Nodes : monitored[n] = None
  /\ Unasked \/ Asked \/ Opening \/ Failed \/ \E i, j \in 0..(Len(evts) + 1) : Open(i, j)

(* Requests.  Each is for the selected node unless it is superseded.         *)

Meant(panel, req) ==
  /\ req.id <= pending[panel]
  /\ req.id = pending[panel] /\ selected # None => req.node = selected

RequestsMeant ==
  /\ pending["value"] = nextId
  /\ \A panel \in Panels :
       /\ \A c \in Range(cmds) : c.op = ReadOf[panel] => Meant(panel, c.req)
       /\ \A r \in Range(reads) : r.panel = panel => Meant(panel, r.req)
       /\ \A sig \in Range(evts) : sig.sig = "read" /\ sig.panel = panel => Meant(panel, sig)
  /\ reader # None => Meant("value", reader)
  /\ last # None => Meant("value", last)

PanelInv == RequestsMeant /\ ShownIsSelected

OpenReads  == [panel : Panels, req : Requests]
Structured == {c \in Commands : c.op = "readStructured"}
OfValues   == {r \in OpenReads : r.panel = "value"}
InTurn(q, S) == \A k, m \in DOMAIN q :
                  k < m /\ q[k] \in S /\ q[m] \in S => q[k].req.id <= q[m].req.id

(* Structured reads are commanded, sent and decoded in the order of their    *)
(* ids: the reader never gives way to an older request.                     *)
ReadsInOrder ==
  /\ InTurn(cmds, Structured) /\ InTurn(reads, OfValues)
  /\ \A c \in Range(cmds) : c \in Structured /\ last # None => last.id <= c.req.id
  /\ \A r \in Range(reads) : r \in OfValues =>
       /\ last # None /\ r.req.id <= last.id
       /\ reader # None => reader.id <= r.req.id
  /\ reader # None => last # None /\ reader.id <= last.id

InFlight(panel) ==
  \/ \E c \in Range(cmds) : c.op = ReadOf[panel] /\ c.req.id = pending[panel]
  \/ \E r \in Range(reads) : r.panel = panel /\ r.req.id = pending[panel]
  \/ panel = "value" /\ reader # None /\ reader.id = pending[panel]
  \/ \E sig \in Range(evts) : sig.sig = "read" /\ sig.panel = panel /\ sig.id = pending[panel]

(* The end of a session the facade believes in, or will, is on its way.      *)
Losing ==
  /\ \E sig \in Range(evts) : sig.sig = "connected" /\ sig.server = None
  /\ gConnected \/ \E sig \in Range(evts) : sig.sig = "connected" /\ sig.server # None

Answered == \A panel \in Panels : cut \/ heard[panel] = pending[panel] \/ InFlight(panel) \/ Losing

AnswerInv == ReadsInOrder /\ Answered

(* Subscriptions.  What the commands under way make of a node's interval x.   *)

Effect(c, n, x) ==
  IF c.op = "subscribe" /\ c.node = n /\ x = None THEN c.interval
  ELSE IF c.op = "unsubscribe" /\ c.node = n THEN None ELSE x

Leads(q, n, x, y) ==
  \E f \in [0..Len(q) -> Intervals \cup {None}] :
    /\ f[0] = x /\ f[Len(q)] = y
    /\ \A k \in 1..Len(q) : f[k] = Effect(q[k], n, f[k - 1])

Named(rs, n) == {r \in Range(rs) : r.node = n}
Wanted(rs, n, y) == IF Named(rs, n) = {} THEN y = None
                    ELSE \A r \in Named(rs, n) : y = r.interval

(* The facade has its session, and nothing is under way that ends it.         *)
Live == gConnected /\ Up /\ ~closing /\ Never("disconnect", cmds)

(* The commands under way make the service watch the node as its rows want.   *)
Followed(n) == \E y \in Intervals \cup {None} :
                 Leads(cmds, n, monitored[n], y) /\ Wanted(rows, n, y)

WatchInv ==
  /\ gConnected => Shared(rows) \subseteq contested
  /\ Live => \A n \in Nodes \ contested : Followed(n)

-----------------------------------------------------------------------------
(* What commands and signals carry.                                         *)

LEMMA CommandFields ==
  ASSUME NEW c \in Commands
  PROVE  /\ c.op \in {"connect", "disconnect", "subscribe", "unsubscribe", "write",
                      "readAttributes", "readStructured"}
         /\ c.op = "connect" => c.server \in Servers
         /\ c.op = "subscribe" => c.node \in Nodes /\ c.interval \in Intervals
         /\ c.op \in {"unsubscribe", "write"} => c.node \in Nodes
         /\ c.op \in {"readAttributes", "readStructured"} => c.req \in Requests
  BY DEF Commands

LEMMA CommandsMade ==
  /\ \A s \in Servers : [op |-> "connect", server |-> s] \in Commands
  /\ [op |-> "disconnect"] \in Commands
  /\ \A n \in Nodes, interval \in Intervals :
       [op |-> "subscribe", node |-> n, interval |-> interval] \in Commands
  /\ \A n \in Nodes : Order("unsubscribe", n) \in Commands /\ Order("write", n) \in Commands
  /\ \A n \in Nodes, id \in Nat :
       /\ ReadOrder("readAttributes", n, id) \in Commands
       /\ ReadOrder("readStructured", n, id) \in Commands
  BY DEF Commands, Order, ReadOrder, Requests

LEMMA SignalFields ==
  ASSUME NEW sig \in Signals
  PROVE  /\ sig.sig \in {"connected", "value", "written", "read"}
         /\ sig.sig = "connected" => sig.server \in Servers \cup {None}
         /\ sig.sig = "value" => sig.node \in Nodes /\ sig.server \in Servers
         /\ sig.sig = "read" => /\ sig.panel \in Panels /\ sig.node \in Nodes /\ sig.id \in Nat
                                /\ sig.good \in BOOLEAN
  BY DEF Signals

LEMMA SignalsMade ==
  /\ \A s \in Servers \cup {None} : ConnectedSig(s) \in Signals
  /\ \A n \in Nodes : session \in Servers => ValueSig(n) \in Signals
  /\ \A n \in Nodes, ok \in BOOLEAN : WrittenSig(n, ok) \in Signals
  /\ \A panel \in Panels, req \in Requests, good \in BOOLEAN :
       ReadSig(panel, req, good) \in Signals
  BY DEF Signals, ConnectedSig, ValueSig, WrittenSig, ReadSig, Requests

-----------------------------------------------------------------------------
(* Queues on which something is never, once or between two signals.          *)

LEMMA NeverKept ==
  ASSUME NEW op
  PROVE  /\ \A q, t \in Seq(Commands) : Never(op, q) /\ Never(op, t) => Never(op, q \o t)
         /\ \A q \in Seq(Commands) : Never(op, q) /\ q # <<>> => Never(op, Tail(q)) /\ Head(q).op # op
  <1>1. ASSUME NEW q \in Seq(Commands), NEW t \in Seq(Commands), Never(op, q), Never(op, t)
        PROVE  Never(op, q \o t)
    <2>1. Range(q \o t) = Range(q) \cup Range(t)
      BY AppendedQueue
    <2>. QED  BY <1>1, <2>1 DEF Never
  <1>2. ASSUME NEW q \in Seq(Commands), Never(op, q), q # <<>>
        PROVE  Never(op, Tail(q)) /\ Head(q).op # op
    <2>1. Range(q) = {Head(q)} \cup Range(Tail(q))
      BY <1>2, QueueTail
    <2>. QED  BY <1>2, <2>1 DEF Never
  <1>. QED  BY <1>1, <1>2

LEMMA NoNewsKept ==
  /\ \A q, t \in Seq(Signals) : NoNews(q) /\ NoNews(t) => NoNews(q \o t)
  /\ \A q \in Seq(Signals) : NoNews(q) /\ q # <<>> => NoNews(Tail(q)) /\ Calm(Head(q))
  <1>1. ASSUME NEW q \in Seq(Signals), NEW t \in Seq(Signals), NoNews(q), NoNews(t)
        PROVE  NoNews(q \o t)
    <2>1. Range(q \o t) = Range(q) \cup Range(t)
      BY AppendedQueue
    <2>. QED  BY <1>1, <2>1 DEF NoNews
  <1>2. ASSUME NEW q \in Seq(Signals), NoNews(q), q # <<>>
        PROVE  NoNews(Tail(q)) /\ Calm(Head(q))
    <2>1. Range(q) = {Head(q)} \cup Range(Tail(q))
      BY <1>2, QueueTail
    <2>. QED  BY <1>2, <2>1 DEF NoNews
  <1>. QED  BY <1>1, <1>2

LEMMA OneConnectMade ==
  ASSUME NEW q \in Seq(Commands), NEW s \in Servers, Never("connect", q)
  PROVE  OneConnect(q \o <<[op |-> "connect", server |-> s]>>, s)
  <1>. DEFINE c == [op |-> "connect", server |-> s]
              r == q \o <<c>>
  <1>1. c \in Commands
    BY CommandsMade
  <1>. HIDE DEF c
  <1>2. /\ DOMAIN r = 1..(Len(q) + 1) /\ Len(q) \in Nat /\ r[Len(q) + 1] = c
        /\ DOMAIN q = 1..Len(q) /\ \A k \in 1..Len(q) : r[k] = q[k]
    BY <1>1, SentOneMore
  <1>3. \A k \in 1..Len(q) : r[k].op # "connect"
    BY <1>2 DEF Never, Range
  <1>. HIDE DEF r
  <1>4. c.op = "connect" /\ c.server = s
    BY DEF c
  <1>5. OneConnect(r, s)
    <2>1. Len(q) + 1 \in DOMAIN r
      BY <1>2
    <2>2. \A m \in DOMAIN r : m = Len(q) + 1 \/ m \in 1..Len(q)
      BY <1>2
    <2>3. \A m \in DOMAIN r : /\ r[m].op = "connect" => m = Len(q) + 1
                              /\ r[m].op = "subscribe" => m < Len(q) + 1
      BY <1>2, <1>3, <1>4, <2>2
    <2>. QED  BY <1>2, <1>4, <2>1, <2>3 DEF OneConnect
  <1>. QED  BY <1>5 DEF r, c

LEMMA OneConnectKept ==
  ASSUME NEW q \in Seq(Commands), NEW s, OneConnect(q, s)
  PROVE  /\ \A t \in Seq(Commands) :
              Never("connect", t) /\ Never("subscribe", t) => OneConnect(q \o t, s)
         /\ q # <<>>
         /\ Head(q).op # "connect" => OneConnect(Tail(q), s)
         /\ Head(q).op = "connect" =>
              Head(q).server = s /\ Never("connect", Tail(q)) /\ Never("subscribe", Tail(q))
  <1>1. PICK k \in DOMAIN q :
          /\ q[k].op = "connect" /\ q[k].server = s
          /\ \A m \in DOMAIN q : /\ q[m].op = "connect" => m = k
                                 /\ q[m].op = "subscribe" => m < k
    BY DEF OneConnect
  <1>2. DOMAIN q = 1..Len(q) /\ Len(q) \in Nat /\ q # <<>>
    BY LenProperties, EmptySeq
  <1>3. ASSUME NEW t \in Seq(Commands), Never("connect", t), Never("subscribe", t)
        PROVE  OneConnect(q \o t, s)
    <2>1. /\ DOMAIN (q \o t) = 1..(Len(q) + Len(t)) /\ DOMAIN t = 1..Len(t) /\ Len(t) \in Nat
          /\ \A m \in 1..Len(q) : (q \o t)[m] = q[m]
          /\ \A m \in 1..Len(t) : (q \o t)[Len(q) + m] = t[m]
      BY AppendedQueue
    <2>2. \A m \in 1..Len(t) : t[m].op # "connect" /\ t[m].op # "subscribe"
      BY <1>3, <2>1 DEF Never, Range
    <2>. DEFINE r == q \o t
    <2>. HIDE DEF r
    <2>3. ASSUME NEW m \in DOMAIN r
          PROVE  (r[m].op = "connect" => m = k) /\ (r[m].op = "subscribe" => m < k)
      <3>1. CASE m \in 1..Len(q)
        BY <1>1, <1>2, <2>1, <3>1 DEF r
      <3>2. CASE m \notin 1..Len(q)
        <4>1. m - Len(q) \in 1..Len(t) /\ m = Len(q) + (m - Len(q))
          BY <1>2, <2>1, <2>3, <3>2 DEF r
        <4>. QED  BY <2>1, <2>2, <4>1 DEF r
      <3>. QED  BY <3>1, <3>2
    <2>4. k \in DOMAIN r /\ r[k] = q[k]
      BY <1>1, <1>2, <2>1 DEF r
    <2>5. OneConnect(r, s)
      BY <1>1, <2>3, <2>4 DEF OneConnect
    <2>. QED  BY <2>5 DEF r
  <1>4. /\ DOMAIN Tail(q) = 1..(Len(q) - 1) /\ Head(q) = q[1]
        /\ \A m \in 1..(Len(q) - 1) : Tail(q)[m] = q[m + 1]
    BY <1>2, QueueTail
  <1>. DEFINE r == Tail(q)
  <1>. HIDE DEF r
  <1>5. \A m \in DOMAIN r : m + 1 \in DOMAIN q /\ r[m] = q[m + 1] /\ m \in Nat \ {0}
    BY <1>2, <1>4 DEF r
  <1>6. ASSUME Head(q).op # "connect"  PROVE OneConnect(r, s)
    <2>1. k - 1 \in DOMAIN r /\ r[k - 1] = q[k]
      BY <1>1, <1>2, <1>4, <1>6 DEF r
    <2>2. \A m \in DOMAIN r : /\ r[m].op = "connect" => m = k - 1
                              /\ r[m].op = "subscribe" => m < k - 1
      BY <1>1, <1>2, <1>5
    <2>. QED  BY <1>1, <2>1, <2>2 DEF OneConnect
  <1>7. ASSUME Head(q).op = "connect"
        PROVE  Head(q).server = s /\ Never("connect", r) /\ Never("subscribe", r)
    <2>1. k = 1
      BY <1>1, <1>2, <1>4, <1>7
    <2>2. \A m \in DOMAIN r : r[m].op # "connect" /\ r[m].op # "subscribe"
      <3>1. \A m \in DOMAIN r : m + 1 # 1 /\ ~(m + 1 < 1)
        BY <1>5
      <3>. QED  BY <1>1, <1>5, <2>1, <3>1
    <2>. QED  BY <1>1, <1>4, <2>1, <2>2 DEF Never, Range
  <1>. QED  BY <1>2, <1>3, <1>6, <1>7 DEF r

LEMMA OneEndMade ==
  ASSUME NEW q \in Seq(Signals), NoNews(q)
  PROVE  OneEnd(q \o <<ConnectedSig(None)>>)
  <1>. DEFINE c == ConnectedSig(None)
              r == q \o <<c>>
  <1>1. c \in Signals /\ c.sig = "connected" /\ c.server = None
    BY SignalsMade DEF ConnectedSig
  <1>. HIDE DEF c
  <1>2. /\ DOMAIN r = 1..(Len(q) + 1) /\ Len(q) \in Nat /\ r[Len(q) + 1] = c
        /\ DOMAIN q = 1..Len(q) /\ \A k \in 1..Len(q) : r[k] = q[k]
    BY <1>1, SentOneMore
  <1>3. \A k \in 1..Len(q) : Calm(r[k])
    BY <1>2 DEF NoNews, Range
  <1>. HIDE DEF r
  <1>4. \A k \in DOMAIN r : k # Len(q) + 1 => k \in 1..Len(q)
    BY <1>2
  <1>5. Len(q) + 1 \in DOMAIN r
    BY <1>2
  <1>6. OneEnd(r)
    BY <1>1, <1>2, <1>3, <1>4, <1>5 DEF OneEnd
  <1>. QED  BY <1>6 DEF r, c

LEMMA OneEndKept ==
  ASSUME NEW q \in Seq(Signals), OneEnd(q)
  PROVE  /\ \A t \in Seq(Signals) : NoNews(t) => OneEnd(q \o t)
         /\ q # <<>>
         /\ Calm(Head(q)) => OneEnd(Tail(q))
         /\ ~Calm(Head(q)) =>
              Head(q).sig = "connected" /\ Head(q).server = None /\ NoNews(Tail(q))
         /\ \A sig \in Range(q) : sig.sig = "connected" => sig.server = None
         /\ \A sig \in Range(q) : sig.sig # "value"
  <1>1. PICK j \in DOMAIN q :
          /\ q[j].sig = "connected" /\ q[j].server = None
          /\ \A k \in DOMAIN q : k # j => Calm(q[k])
    BY DEF OneEnd
  <1>2. DOMAIN q = 1..Len(q) /\ Len(q) \in Nat /\ q # <<>>
    BY LenProperties, EmptySeq
  <1>3. ASSUME NEW t \in Seq(Signals), NoNews(t)
        PROVE  OneEnd(q \o t)
    <2>1. /\ DOMAIN (q \o t) = 1..(Len(q) + Len(t)) /\ DOMAIN t = 1..Len(t) /\ Len(t) \in Nat
          /\ \A m \in 1..Len(q) : (q \o t)[m] = q[m]
          /\ \A m \in 1..Len(t) : (q \o t)[Len(q) + m] = t[m]
      BY AppendedQueue
    <2>2. \A m \in 1..Len(t) : Calm(t[m])
      BY <1>3, <2>1 DEF NoNews, Range
    <2>. DEFINE r == q \o t
    <2>. HIDE DEF r
    <2>3. ASSUME NEW m \in DOMAIN r, m # j
          PROVE  Calm(r[m])
      <3>1. CASE m \in 1..Len(q)
        BY <1>1, <1>2, <2>1, <2>3, <3>1 DEF r
      <3>2. CASE m \notin 1..Len(q)
        <4>1. m - Len(q) \in 1..Len(t) /\ m = Len(q) + (m - Len(q))
          BY <1>2, <2>1, <2>3, <3>2 DEF r
        <4>. QED  BY <2>1, <2>2, <4>1 DEF r
      <3>. QED  BY <3>1, <3>2
    <2>4. j \in DOMAIN r /\ r[j] = q[j]
      BY <1>1, <1>2, <2>1 DEF r
    <2>5. OneEnd(r)
      BY <1>1, <2>3, <2>4 DEF OneEnd
    <2>. QED  BY <2>5 DEF r
  <1>4. /\ DOMAIN Tail(q) = 1..(Len(q) - 1) /\ Head(q) = q[1]
        /\ \A m \in 1..(Len(q) - 1) : Tail(q)[m] = q[m + 1]
    BY <1>2, QueueTail
  <1>. DEFINE r == Tail(q)
  <1>. HIDE DEF r
  <1>5. \A m \in DOMAIN r : m + 1 \in DOMAIN q /\ r[m] = q[m + 1] /\ m \in Nat \ {0}
    BY <1>2, <1>4 DEF r
  <1>6. ASSUME Calm(Head(q))  PROVE OneEnd(r)
    <2>1. j # 1
      BY <1>1, <1>4, <1>6 DEF Calm
    <2>2. j - 1 \in DOMAIN r /\ r[j - 1] = q[j]
      BY <1>1, <1>2, <1>4, <2>1 DEF r
    <2>3. \A m \in DOMAIN r : m # j - 1 => m + 1 # j
      BY <1>1, <1>2, <1>5
    <2>4. \A m \in DOMAIN r : m # j - 1 => Calm(r[m])
      BY <1>1, <1>5, <2>3
    <2>. QED  BY <1>1, <2>2, <2>4 DEF OneEnd
  <1>7. ASSUME ~Calm(Head(q))
        PROVE  Head(q).sig = "connected" /\ Head(q).server = None /\ NoNews(r)
    <2>1. j = 1
      BY <1>1, <1>2, <1>4, <1>7
    <2>2. \A m \in DOMAIN r : m + 1 # 1
      BY <1>5
    <2>3. \A m \in DOMAIN r : Calm(r[m])
      BY <1>1, <1>5, <2>1, <2>2
    <2>. QED  BY <1>1, <1>4, <2>1, <2>3 DEF NoNews, Range
  <1>8. ASSUME NEW k \in DOMAIN q
        PROVE  (q[k].sig = "connected" => q[k].server = None) /\ q[k].sig # "value"
    BY <1>1 DEF Calm
  <1>9. ASSUME NEW sig \in Range(q)
        PROVE  (sig.sig = "connected" => sig.server = None) /\ sig.sig # "value"
    BY <1>8 DEF Range
  <1>. QED  BY <1>2, <1>3, <1>6, <1>7, <1>9 DEF r

LEMMA FramedMade ==
  ASSUME NEW q \in Seq(Signals), NoNews(q), NEW s \in Servers
  PROVE  LET r == q \o <<ConnectedSig(s)>>
         IN Framed(r, s, Len(q) + 1, Len(q) + 2) /\ Len(r) = Len(q) + 1 /\ Len(q) \in Nat
  <1>. DEFINE c == ConnectedSig(s)
              r == q \o <<c>>
  <1>1. c \in Signals /\ c.sig = "connected" /\ c.server = s
    BY SignalsMade DEF ConnectedSig
  <1>. HIDE DEF c
  <1>2. /\ DOMAIN r = 1..(Len(q) + 1) /\ Len(q) \in Nat /\ r[Len(q) + 1] = c
        /\ DOMAIN q = 1..Len(q) /\ \A k \in 1..Len(q) : r[k] = q[k]
        /\ Len(r) = Len(q) + 1
    BY <1>1, SentOneMore
  <1>3. \A k \in 1..Len(q) : r[k].sig # "connected" /\ r[k].sig # "value"
    BY <1>2 DEF NoNews, Range, Calm
  <1>. HIDE DEF r
  <1>. DEFINE i == Len(q) + 1
              j == Len(q) + 2
  <1>4. i \in 0..Len(r) /\ j \in 1..(Len(r) + 1) /\ i < j /\ ~(j <= Len(r)) /\ j \notin DOMAIN r
    BY <1>2
  <1>5. r[i].sig = "connected" /\ r[i].server = s
    BY <1>1, <1>2
  <1>6. \A k \in DOMAIN r : k # i => k \in 1..Len(q)
    BY <1>2
  <1>. HIDE DEF i, j
  <1>7. \A k \in DOMAIN r : /\ r[k].sig = "connected" <=> k = i \/ k = j
                            /\ r[k].sig # "value"
    BY <1>3, <1>4, <1>5, <1>6
  <1>8. Framed(r, s, i, j)
    BY <1>4, <1>5, <1>7 DEF Framed
  <1>. QED  BY <1>2, <1>8 DEF r, c, i, j

(* Signals behind those there are: calm ones anywhere, values until the end   *)
(* is announced, and the end.                                              *)
LEMMA FramedLonger ==
  ASSUME NEW q \in Seq(Signals), NEW s, NEW i, NEW j, Framed(q, s, i, j),
         NEW t \in Seq(Signals),
         \A k \in DOMAIN t : /\ t[k].sig # "connected"
                             /\ t[k].sig = "value" => j > Len(q) /\ t[k].server = s
  PROVE  LET r == q \o t
             e == IF j > Len(q) THEN Len(r) + 1 ELSE j
         IN /\ Framed(r, s, i, e) /\ (j > Len(q) <=> e > Len(r))
  <1>. DEFINE r == q \o t
              e == IF j > Len(q) THEN Len(r) + 1 ELSE j
  <1>1. /\ DOMAIN r = 1..(Len(q) + Len(t)) /\ DOMAIN t = 1..Len(t) /\ DOMAIN q = 1..Len(q)
        /\ Len(r) = Len(q) + Len(t) /\ Len(t) \in Nat /\ Len(q) \in Nat
        /\ \A m \in 1..Len(q) : r[m] = q[m]
        /\ \A m \in 1..Len(t) : r[Len(q) + m] = t[m]
    BY AppendedQueue
  <1>. HIDE DEF r
  <1>2. i \in 0..Len(q) /\ j \in 1..(Len(q) + 1) /\ i < j
    BY DEF Framed
  <1>3. i \in 0..Len(r) /\ e \in 1..(Len(r) + 1) /\ i < e /\ (j > Len(q) <=> e > Len(r)) /\ j <= e
    BY <1>1, <1>2
  <1>4. ASSUME NEW k \in 1..Len(q)
        PROVE  /\ r[k].sig = "connected" <=> k = i \/ k = e
               /\ r[k].sig = "value" => i < k /\ k < e /\ r[k].server = s
    <2>1. k = j <=> k = e
      BY <1>1, <1>2, <1>4
    <2>2. r[k] = q[k] /\ k \in DOMAIN q
      BY <1>1, <1>4
    <2>3. q[k].sig = "connected" <=> k = i \/ k = e
      BY <2>1, <2>2 DEF Framed
    <2>4. ASSUME q[k].sig = "value"  PROVE i < k /\ k < e /\ q[k].server = s
      <3>1. i < k /\ k < j /\ q[k].server = s
        BY <2>2, <2>4 DEF Framed
      <3>. QED  BY <1>2, <1>3, <1>4, <3>1
    <2>. QED  BY <2>2, <2>3, <2>4
  <1>5. ASSUME NEW m \in 1..Len(t)
        PROVE  LET k == Len(q) + m
               IN /\ r[k].sig = "connected" <=> k = i \/ k = e
                  /\ r[k].sig = "value" => i < k /\ k < e /\ r[k].server = s
    <2>. DEFINE k == Len(q) + m
    <2>1. r[k] = t[m] /\ m \in DOMAIN t
      BY <1>1
    <2>2. k # i /\ k # e /\ i < k /\ (j > Len(q) => k < e)
      BY <1>1, <1>2
    <2>. HIDE DEF k, e
    <2>3. t[m].sig # "connected" /\ (t[m].sig = "value" => j > Len(q) /\ t[m].server = s)
      BY <2>1
    <2>4. /\ r[k].sig = "connected" <=> k = i \/ k = e
          /\ r[k].sig = "value" => i < k /\ k < e /\ r[k].server = s
      BY <2>1, <2>2, <2>3
    <2>. QED  BY <2>4 DEF k
  <1>. HIDE DEF e
  <1>6. ASSUME NEW k \in DOMAIN r
        PROVE  /\ r[k].sig = "connected" <=> k = i \/ k = e
               /\ r[k].sig = "value" => i < k /\ k < e /\ r[k].server = s
    <2>1. CASE k \in 1..Len(q)
      BY <1>4, <2>1
    <2>2. CASE k \notin 1..Len(q)
      <3>1. k - Len(q) \in 1..Len(t) /\ k = Len(q) + (k - Len(q))
        BY <1>1, <1>6, <2>2
      <3>. QED  BY <1>5, <3>1
    <2>. QED  BY <2>1, <2>2
  <1>7. ASSUME i > 0  PROVE r[i].server = s
    <2>1. i \in 1..Len(q) /\ q[i].server = s
      BY <1>2, <1>7 DEF Framed
    <2>. QED  BY <1>1, <2>1
  <1>8. ASSUME e <= Len(r)  PROVE r[e].server = None
    <2>1. ~(e > Len(r))
      BY <1>1, <1>3, <1>8
    <2>2. ~(j > Len(q)) /\ e = j
      BY <1>3, <2>1 DEF e
    <2>3. j <= Len(q) /\ j \in 1..Len(q)
      BY <1>1, <1>2, <2>2
    <2>4. q[j].server = None
      BY <2>3 DEF Framed
    <2>. QED  BY <1>1, <2>2, <2>3, <2>4
  <1>9. Framed(r, s, i, e)
    BY <1>3, <1>6, <1>7, <1>8 DEF Framed
  <1>. QED  BY <1>3, <1>9 DEF r, e

LEMMA FramedEnds ==
  ASSUME NEW q \in Seq(Signals), NEW s, NEW i, NEW j, Framed(q, s, i, j), j > Len(q)
  PROVE  LET r == q \o <<ConnectedSig(None)>>
         IN Framed(r, s, i, j) /\ j <= Len(r)
  <1>. DEFINE c == ConnectedSig(None)
              r == q \o <<c>>
  <1>1. c \in Signals /\ c.sig = "connected" /\ c.server = None
    BY SignalsMade DEF ConnectedSig
  <1>. HIDE DEF c
  <1>2. /\ DOMAIN r = 1..(Len(q) + 1) /\ Len(q) \in Nat /\ r[Len(q) + 1] = c
        /\ DOMAIN q = 1..Len(q) /\ \A k \in 1..Len(q) : r[k] = q[k]
        /\ Len(r) = Len(q) + 1
    BY <1>1, SentOneMore
  <1>. HIDE DEF r
  <1>3. i \in 0..Len(q) /\ j = Len(q) + 1 /\ i < j
    BY <1>2 DEF Framed
  <1>4. ASSUME NEW k \in DOMAIN r
        PROVE  /\ r[k].sig = "connected" <=> k = i \/ k = j
               /\ r[k].sig = "value" => i < k /\ k < j /\ r[k].server = s
    <2>1. CASE k \in 1..Len(q)
      <3>1. r[k] = q[k] /\ k \in DOMAIN q
        BY <1>2, <2>1
      <3>. QED  BY <3>1 DEF Framed
    <2>2. CASE k \notin 1..Len(q)
      <3>1. k = j
        BY <1>2, <1>3, <1>4, <2>2
      <3>. QED  BY <1>1, <1>2, <1>3, <3>1
    <2>. QED  BY <2>1, <2>2
  <1>5. ASSUME i > 0  PROVE r[i].server = s
    <2>1. i \in 1..Len(q) /\ q[i].server = s
      BY <1>2, <1>3, <1>5 DEF Framed
    <2>. QED  BY <1>2, <2>1
  <1>6. i \in 0..Len(r) /\ j \in 1..(Len(r) + 1) /\ j <= Len(r)
    BY <1>2, <1>3
  <1>7. r[j].server = None
    BY <1>1, <1>2, <1>3
  <1>8. Framed(r, s, i, j)
    BY <1>3, <1>4, <1>5, <1>6, <1>7 DEF Framed
  <1>. QED  BY <1>6, <1>8 DEF r, c

LEMMA FramedShorter ==
  ASSUME NEW q \in Seq(Signals), q # <<>>, NEW s, NEW i, NEW j, Framed(q, s, i, j)
  PROVE  /\ Head(q).sig # "connected" =>
              \E e \in Nat : /\ Framed(Tail(q), s, e, j - 1) /\ (e = 0 <=> i = 0)
                             /\ (j > Len(q) <=> j - 1 > Len(Tail(q)))
         /\ Head(q).sig = "value" => i = 0 /\ Head(q).server = s
         /\ Head(q).sig = "connected" /\ i > 0 =>
              /\ Head(q).server = s /\ Framed(Tail(q), s, 0, j - 1)
              /\ (j > Len(q) <=> j - 1 > Len(Tail(q)))
         /\ Head(q).sig = "connected" /\ i = 0 =>
              Head(q).server = None /\ NoNews(Tail(q)) /\ j <= Len(q)
  <1>. DEFINE r == Tail(q)
  <1>1. /\ DOMAIN r = 1..(Len(q) - 1) /\ Len(r) = Len(q) - 1 /\ Len(q) \in Nat \ {0}
        /\ DOMAIN q = 1..Len(q) /\ Head(q) = q[1]
        /\ \A m \in 1..(Len(q) - 1) : r[m] = q[m + 1]
    BY QueueTail
  <1>. HIDE DEF r
  <1>2. i \in 0..Len(q) /\ j \in 1..(Len(q) + 1) /\ i < j
    BY DEF Framed
  <1>3. \A m \in DOMAIN r : m + 1 \in DOMAIN q /\ r[m] = q[m + 1] /\ m \in Nat \ {0}
    BY <1>1
  <1>4. \A k \in DOMAIN q :
          /\ q[k].sig = "connected" <=> k = i \/ k = j
          /\ q[k].sig = "value" => i < k /\ k < j /\ q[k].server = s
    BY DEF Framed
  <1>5. 1 \in DOMAIN q
    BY <1>1
  <1>6. j > Len(q) <=> j - 1 > Len(r)
    BY <1>1, <1>2
  <1>7. j <= Len(q) => q[j].server = None
    BY DEF Framed
  <1>8. i > 0 => q[i].server = s
    BY DEF Framed
  <1>9. \* what remains is framed, when the first signal is not the end
        ASSUME NEW e \in Nat, j # 1, e = 0 <=> i = 0 \/ i = 1, i > 0 => e = i - 1
        PROVE  Framed(r, s, e, j - 1)
    <2>1. e \in 0..Len(r) /\ j - 1 \in 1..(Len(r) + 1) /\ e < j - 1
      BY <1>1, <1>2, <1>9
    <2>2. ASSUME NEW m \in DOMAIN r
          PROVE  /\ r[m].sig = "connected" <=> m = e \/ m = j - 1
                 /\ r[m].sig = "value" => e < m /\ m < j - 1 /\ r[m].server = s
      <3>1. m \in Nat \ {0} /\ m + 1 \in DOMAIN q /\ r[m] = q[m + 1]
        BY <1>3
      <3>2. /\ (m + 1 = i \/ m + 1 = j) <=> (m = e \/ m = j - 1)
            /\ i < m + 1 /\ m + 1 < j => e < m /\ m < j - 1
        BY <1>2, <1>9, <3>1
      <3>3. /\ q[m + 1].sig = "connected" <=> m + 1 = i \/ m + 1 = j
            /\ q[m + 1].sig = "value" => i < m + 1 /\ m + 1 < j /\ q[m + 1].server = s
        BY <1>4, <3>1
      <3>. QED  BY <3>1, <3>2, <3>3
    <2>3. ASSUME e > 0  PROVE r[e].server = s
      <3>1. i > 0 /\ e + 1 = i /\ e \in 1..(Len(q) - 1)
        BY <1>1, <1>2, <1>9, <2>1, <2>3
      <3>. QED  BY <1>1, <1>8, <3>1
    <2>4. ASSUME j - 1 <= Len(r)  PROVE r[j - 1].server = None
      <3>1. j <= Len(q) /\ j - 1 \in 1..(Len(q) - 1) /\ (j - 1) + 1 = j
        BY <1>1, <1>2, <1>9, <2>4
      <3>2. r[j - 1] = q[(j - 1) + 1]
        BY <1>1, <3>1
      <3>. QED  BY <1>7, <3>1, <3>2
    <2>. QED  BY <2>1, <2>2, <2>3, <2>4 DEF Framed
  <1>10. ASSUME Head(q).sig # "connected"
         PROVE  \E e \in Nat : Framed(r, s, e, j - 1) /\ (e = 0 <=> i = 0)
    <2>1. i # 1 /\ j # 1
      BY <1>1, <1>4, <1>5, <1>10
    <2>2. CASE i = 0
      <3>1. Framed(r, s, 0, j - 1)
        BY <1>9, <2>1, <2>2
      <3>. QED  BY <2>2, <3>1
    <2>3. CASE i > 0
      <3>1. PICK e \in Nat : e = i - 1 /\ e # 0
        <4>1. i - 1 \in Nat /\ i - 1 # 0
          BY <1>1, <1>2, <2>1, <2>3
        <4>. QED  BY <4>1
      <3>2. e = 0 <=> i = 0 \/ i = 1
        BY <2>1, <2>3, <3>1
      <3>3. Framed(r, s, e, j - 1)
        BY <1>9, <2>1, <3>1, <3>2
      <3>4. e = 0 <=> i = 0
        BY <1>2, <2>3, <3>1
      <3>. QED  BY <3>3, <3>4
    <2>. QED  BY <1>2, <2>2, <2>3
  <1>11. ASSUME Head(q).sig = "value"  PROVE i = 0 /\ Head(q).server = s
    <2>1. i < 1 /\ q[1].server = s
      BY <1>1, <1>4, <1>5, <1>11
    <2>. QED  BY <1>1, <1>2, <2>1
  <1>12. ASSUME Head(q).sig = "connected", i > 0
         PROVE  Head(q).server = s /\ Framed(r, s, 0, j - 1)
    <2>1. i = 1 /\ j # 1
      <3>1. 1 = i \/ 1 = j
        BY <1>1, <1>4, <1>5, <1>12
      <3>. QED  BY <1>2, <1>12, <3>1
    <2>2. Framed(r, s, 0, j - 1)
      BY <1>9, <2>1
    <2>. QED  BY <1>1, <1>8, <2>1, <2>2
  <1>13. ASSUME Head(q).sig = "connected", i = 0
         PROVE  Head(q).server = None /\ NoNews(r) /\ j <= Len(q)
    <2>1. j = 1
      BY <1>1, <1>4, <1>5, <1>13
    <2>2. ASSUME NEW m \in DOMAIN r  PROVE Calm(r[m])
      <3>1. m + 1 \in DOMAIN q /\ r[m] = q[m + 1] /\ m + 1 # i /\ m + 1 # j /\ ~(m + 1 < j)
        BY <1>3, <1>13, <2>1
      <3>. QED  BY <1>4, <3>1 DEF Calm
    <2>3. NoNews(r)
      BY <2>2 DEF NoNews, Range
    <2>. QED  BY <1>1, <1>7, <2>1, <2>3
  <1>. QED  BY <1>6, <1>10, <1>11, <1>12, <1>13 DEF r

-----------------------------------------------------------------------------
(* What commands make of an interval.                                       *)

Interval == Intervals \cup {None}

LEMMA LeadsNowhere ==
  ASSUME NEW n, NEW x, NEW y, Leads(<<>>, n, x, y)
  PROVE  y = x
  <1>1. Len(<<>>) = 0
    OBVIOUS
  <1>. QED  BY <1>1 DEF Leads

LEMMA LeadsHead ==
  ASSUME NEW q \in Seq(Commands), q # <<>>, NEW n, NEW x, NEW y, Leads(q, n, x, y)
  PROVE  Leads(Tail(q), n, Effect(Head(q), n, x), y)
  <1>1. PICK f \in [0..Len(q) -> Interval] :
          /\ f[0] = x /\ f[Len(q)] = y
          /\ \A k \in 1..Len(q) : f[k] = Effect(q[k], n, f[k - 1])
    BY DEF Leads, Interval
  <1>. DEFINE r == Tail(q)
              g == [k \in 0..Len(r) |-> f[k + 1]]
  <1>2. /\ Len(r) = Len(q) - 1 /\ Len(q) \in Nat \ {0} /\ Head(q) = q[1]
        /\ \A m \in 1..(Len(q) - 1) : r[m] = q[m + 1]
    BY QueueTail
  <1>. HIDE DEF r
  <1>3. g \in [0..Len(r) -> Interval]
    BY <1>1, <1>2
  <1>4. g[Len(r)] = y
    BY <1>1, <1>2
  <1>5. g[0] = Effect(Head(q), n, x)
    <2>1. g[0] = f[1] /\ f[1] = Effect(q[1], n, f[1 - 1]) /\ 1 - 1 = 0
      BY <1>1, <1>2
    <2>. QED  BY <1>1, <1>2, <2>1
  <1>6. ASSUME NEW k \in 1..Len(r)  PROVE g[k] = Effect(r[k], n, g[k - 1])
    <2>1. k + 1 \in 1..Len(q) /\ (k + 1) - 1 = k /\ (k - 1) + 1 = k
          /\ k \in 0..Len(r) /\ k - 1 \in 0..Len(r) /\ k \in 1..(Len(q) - 1)
      BY <1>2, <1>6
    <2>2. f[k + 1] = Effect(q[k + 1], n, f[(k + 1) - 1])
      BY <1>1, <2>1
    <2>3. g[k] = f[k + 1] /\ g[k - 1] = f[k] /\ r[k] = q[k + 1]
      BY <1>2, <2>1
    <2>. QED  BY <2>1, <2>2, <2>3
  <1>. HIDE DEF g
  <1>7. Leads(r, n, Effect(Head(q), n, x), y)
    BY <1>3, <1>4, <1>5, <1>6 DEF Leads, Interval
  <1>. QED  BY <1>7 DEF r

LEMMA LeadsOn ==
  ASSUME NEW q \in Seq(Commands), NEW t \in Seq(Commands), NEW n, NEW x, NEW y, NEW z,
         Leads(q, n, x, y), Leads(t, n, y, z)
  PROVE  Leads(q \o t, n, x, z)
  <1>1. PICK f \in [0..Len(q) -> Interval] :
          /\ f[0] = x /\ f[Len(q)] = y
          /\ \A k \in 1..Len(q) : f[k] = Effect(q[k], n, f[k - 1])
    BY DEF Leads, Interval
  <1>2. PICK h \in [0..Len(t) -> Interval] :
          /\ h[0] = y /\ h[Len(t)] = z
          /\ \A k \in 1..Len(t) : h[k] = Effect(t[k], n, h[k - 1])
    BY DEF Leads, Interval
  <1>. DEFINE r == q \o t
              g == [k \in 0..Len(r) |-> IF k <= Len(q) THEN f[k] ELSE h[k - Len(q)]]
  <1>3. /\ Len(r) = Len(q) + Len(t) /\ Len(q) \in Nat /\ Len(t) \in Nat
        /\ \A m \in 1..Len(q) : r[m] = q[m]
        /\ \A m \in 1..Len(t) : r[Len(q) + m] = t[m]
    BY AppendedQueue
  <1>. HIDE DEF r
  <1>4. /\ \A k \in 0..Len(q) : g[k] = f[k]
        /\ \A m \in 0..Len(t) : g[Len(q) + m] = h[m]
    <2>1. \A k \in 0..Len(q) : g[k] = f[k]
      BY <1>3
    <2>2. ASSUME NEW m \in 0..Len(t)  PROVE g[Len(q) + m] = h[m]
      <3>1. CASE m = 0
        BY <1>1, <1>2, <1>3, <3>1
      <3>2. CASE m # 0
        <4>1. /\ Len(q) + m \in 0..Len(r) /\ ~(Len(q) + m <= Len(q))
              /\ (Len(q) + m) - Len(q) = m
          BY <1>3, <2>2, <3>2
        <4>. QED  BY <4>1
      <3>. QED  BY <3>1, <3>2
    <2>. QED  BY <2>1, <2>2
  <1>5. g \in [0..Len(r) -> Interval]
    <2>1. ASSUME NEW k \in 0..Len(r)  PROVE g[k] \in Interval
      <3>1. CASE k <= Len(q)
        <4>1. k \in 0..Len(q)
          BY <1>3, <2>1, <3>1
        <4>. QED  BY <1>1, <1>4, <4>1
      <3>2. CASE k > Len(q)
        <4>1. k - Len(q) \in 0..Len(t) /\ ~(k <= Len(q))
          BY <1>3, <2>1, <3>2
        <4>. QED  BY <1>2, <4>1
      <3>. QED  BY <1>3, <2>1, <3>1, <3>2
    <2>. QED  BY <2>1
  <1>. HIDE DEF g
  <1>6. g[0] = x /\ g[Len(r)] = z
    <2>1. 0 \in 0..Len(q) /\ Len(t) \in 0..Len(t)
      BY <1>3
    <2>. QED  BY <1>1, <1>2, <1>3, <1>4, <2>1
  <1>7. ASSUME NEW k \in 1..Len(r)  PROVE g[k] = Effect(r[k], n, g[k - 1])
    <2>1. CASE k <= Len(q)
      <3>1. k \in 1..Len(q) /\ k \in 0..Len(q) /\ k - 1 \in 0..Len(q)
        BY <1>3, <1>7, <2>1
      <3>2. r[k] = q[k] /\ g[k] = f[k] /\ g[k - 1] = f[k - 1]
        BY <1>3, <1>4, <3>1
      <3>. QED  BY <1>1, <3>1, <3>2
    <2>2. CASE k > Len(q)
      <3>1. PICK m \in 1..Len(t) : k = Len(q) + m
        <4>1. k - Len(q) \in 1..Len(t) /\ k = Len(q) + (k - Len(q))
          BY <1>3, <1>7, <2>2
        <4>. QED  BY <4>1
      <3>2. m \in 0..Len(t) /\ m - 1 \in 0..Len(t) /\ k - 1 = Len(q) + (m - 1)
        BY <1>3, <3>1
      <3>3. r[k] = t[m] /\ g[k] = h[m] /\ g[k - 1] = h[m - 1]
        BY <1>3, <1>4, <3>1, <3>2
      <3>. QED  BY <1>2, <3>1, <3>3
    <2>. QED  BY <1>3, <1>7, <2>1, <2>2
  <1>8. Leads(r, n, x, z)
    BY <1>5, <1>6, <1>7 DEF Leads, Interval
  <1>. QED  BY <1>8 DEF r

(* One command of t, at place p, is about the node.                         *)
LEMMA LeadsOnce ==
  ASSUME NEW t \in Seq(Commands), NEW n, NEW y \in Interval, NEW z \in Interval,
         NEW p \in DOMAIN t, Effect(t[p], n, y) = z,
         \A k \in DOMAIN t : /\ k < p => Effect(t[k], n, y) = y
                             /\ k > p => Effect(t[k], n, z) = z
  PROVE  Leads(t, n, y, z)
  <1>1. DOMAIN t = 1..Len(t) /\ Len(t) \in Nat /\ p \in 1..Len(t)
    BY LenProperties
  <1>. DEFINE f == [k \in 0..Len(t) |-> IF k < p THEN y ELSE z]
  <1>2. f \in [0..Len(t) -> Interval] /\ f[0] = y /\ f[Len(t)] = z
    BY <1>1
  <1>3. ASSUME NEW k \in 1..Len(t)  PROVE f[k] = Effect(t[k], n, f[k - 1])
    <2>1. k \in 0..Len(t) /\ k - 1 \in 0..Len(t) /\ k \in DOMAIN t
      BY <1>1, <1>3
    <2>2. CASE k < p
      <3>1. f[k] = y /\ f[k - 1] = y
        BY <1>1, <2>1, <2>2
      <3>. QED  BY <2>1, <2>2, <3>1
    <2>3. CASE k = p
      <3>1. f[k] = z /\ f[k - 1] = y
        BY <1>1, <2>1, <2>3
      <3>. QED  BY <2>3, <3>1
    <2>4. CASE k > p
      <3>1. f[k] = z /\ f[k - 1] = z
        BY <1>1, <2>1, <2>4
      <3>. QED  BY <2>1, <2>4, <3>1
    <2>. QED  BY <1>1, <2>1, <2>2, <2>3, <2>4
  <1>. HIDE DEF f
  <1>. QED  BY <1>2, <1>3 DEF Leads, Interval

LEMMA LeadsStill ==
  ASSUME NEW t \in Seq(Commands), NEW n, NEW y \in Interval,
         \A c \in Range(t) : Effect(c, n, y) = y
  PROVE  Leads(t, n, y, y)
  <1>1. DOMAIN t = 1..Len(t) /\ Len(t) \in Nat
    BY LenProperties
  <1>. DEFINE f == [k \in 0..Len(t) |-> y]
  <1>2. f \in [0..Len(t) -> Interval] /\ f[0] = y /\ f[Len(t)] = y
    BY <1>1
  <1>3. ASSUME NEW k \in 1..Len(t)  PROVE f[k] = Effect(t[k], n, f[k - 1])
    <2>1. k \in 0..Len(t) /\ k - 1 \in 0..Len(t) /\ k \in DOMAIN t
      BY <1>1, <1>3
    <2>2. Effect(t[k], n, y) = y
      BY <2>1 DEF Range
    <2>. QED  BY <2>1, <2>2
  <1>. HIDE DEF f
  <1>. QED  BY <1>2, <1>3 DEF Leads, Interval

-----------------------------------------------------------------------------
(* Types: the service.                                                     *)

LEMMA Handled ==
  ASSUME cmds \in Seq(Commands), NEW op, Handling(op)
  PROVE  /\ cmds # <<>> /\ Cmd \in Commands /\ Cmd.op = op
         /\ cmds' = Tail(cmds) /\ cmds' \in Seq(Commands)
         /\ Range(cmds) = {Cmd} \cup Range(cmds')
  <1>1. cmds # <<>> /\ Head(cmds).op = op /\ cmds' = Tail(cmds)
    BY DEF Handling
  <1>2. /\ Tail(cmds) \in Seq(Commands) /\ Head(cmds) \in Commands
        /\ Range(cmds) = {Head(cmds)} \cup Range(Tail(cmds))
    BY <1>1, QueueTail
  <1>. QED  BY <1>1, <1>2 DEF Cmd

LEMMA Delivered ==
  ASSUME evts \in Seq(Signals), NEW sig, Delivering(sig)
  PROVE  /\ evts # <<>> /\ Sig \in Signals /\ Sig.sig = sig /\ Sig = Head(evts)
         /\ evts' = Tail(evts) /\ evts' \in Seq(Signals)
         /\ Range(evts) = {Sig} \cup Range(evts')
  <1>1. evts # <<>> /\ Head(evts).sig = sig /\ evts' = Tail(evts)
    BY DEF Delivering
  <1>2. /\ Tail(evts) \in Seq(Signals) /\ Head(evts) \in Signals
        /\ Range(evts) = {Head(evts)} \cup Range(Tail(evts))
    BY <1>1, QueueTail
  <1>. QED  BY <1>1, <1>2 DEF Sig

LEMMA EmittedOne ==
  ASSUME evts \in Seq(Signals), NEW sig \in Signals, Emit(<<sig>>)
  PROVE  evts' \in Seq(Signals) /\ Range(evts') = Range(evts) \cup {sig}
  BY SentOneMore DEF Emit

LEMMA EmittedMany ==
  ASSUME evts \in Seq(Signals), NEW t \in Seq(Signals), Emit(t)
  PROVE  evts' \in Seq(Signals) /\ Range(evts') = Range(evts) \cup Range(t)
  BY AppendedQueue DEF Emit

QueueTypes == cmds \in Seq(Commands) /\ evts \in Seq(Signals)

(* Only the session, the subscriptions and the writes change.               *)
LEMMA SessionTypes ==
  ASSUME ServiceTypeOK, QueueTypes,
         Connect \/ Disconnect \/ SessionOpens \/ OpeningFails \/ SessionEnds
  PROVE  ServiceTypeOK' /\ QueueTypes'
  <1>. USE NodeServiceAssumption
  <1>1. CASE Connect
    <2>1. Cmd.server \in Servers /\ cmds' \in Seq(Commands)
      BY <1>1, Handled, CommandFields DEF Connect, QueueTypes
    <2>. QED
      BY <1>1, <2>1 DEF Connect, ServiceTypeOK, QueueTypes, Up, watchVars, readVars
  <1>2. CASE Disconnect
    <2>1. cmds' \in Seq(Commands)
      BY <1>2, Handled DEF Disconnect, QueueTypes
    <2>. QED
      BY <1>2, <2>1 DEF Disconnect, ServiceTypeOK, QueueTypes, Up, watchVars, readVars
  <1>3. CASE SessionOpens
    <2>1. ConnectedSig(opening) \in Signals
      BY SignalsMade DEF ServiceTypeOK
    <2>2. evts' \in Seq(Signals)
      BY <1>3, <2>1, EmittedOne DEF SessionOpens, QueueTypes
    <2>. QED
      BY <1>3, <2>2 DEF SessionOpens, ServiceTypeOK, QueueTypes, Up, watchVars, readVars
  <1>4. CASE OpeningFails
    <2>1. ConnectedSig(None) \in Signals
      BY SignalsMade
    <2>2. evts' \in Seq(Signals)
      BY <1>4, <2>1, EmittedOne DEF OpeningFails, QueueTypes
    <2>. QED
      BY <1>4, <2>2 DEF OpeningFails, ServiceTypeOK, QueueTypes, Up, watchVars, readVars
  <1>5. CASE SessionEnds
    <2>1. ConnectedSig(None) \in Signals
      BY SignalsMade
    <2>2. evts' \in Seq(Signals) /\ cmds' \in Seq(Commands)
      BY <1>5, <2>1, EmittedOne DEF SessionEnds, QueueTypes
    <2>3. /\ session' = None /\ opening' = opening /\ closing' = FALSE
          /\ monitored' = [n \in Nodes |-> None] /\ handlers' = [n \in Nodes |-> 0]
          /\ writes' = NoWrites /\ unreported' = unreported
          /\ reads' = <<>> /\ reader' = None /\ last' = None /\ ready' = FALSE
      BY <1>5 DEF SessionEnds, ForgetSession
    <2>4. NoWrites \in [Holders -> [Nodes -> Nat]] /\ \A n \in Nodes : NoWrites["monitored"][n] = 0
      BY DEF NoWrites, Holders
    <2>5. <<>> \in Seq(OpenReads)
      OBVIOUS
    <2>. QED
      BY <2>2, <2>3, <2>4, <2>5 DEF ServiceTypeOK, QueueTypes, Up, OpenReads
  <1>. QED  BY <1>1, <1>2, <1>3, <1>4, <1>5

LEMMA WatchTypes ==
  ASSUME ServiceTypeOK, QueueTypes,
         \/ SubscribeNode \/ UnsubscribeNode \/ \E n \in Nodes : DataChange(n)
         \/ WriteNodeValue
         \/ \E h \in Holders, n \in Nodes, ok \in BOOLEAN : WriteAnswered(h, n, ok)
  PROVE  ServiceTypeOK' /\ QueueTypes'
  <1>. USE NodeServiceAssumption
  <1>1. CASE SubscribeNode
    <2>1. Cmd.node \in Nodes /\ Cmd.interval \in Intervals /\ cmds' \in Seq(Commands)
      BY <1>1, Handled, CommandFields DEF SubscribeNode, QueueTypes
    <2>2. /\ monitored' \in [Nodes -> Intervals \cup {None}]
          /\ \A n \in Nodes : monitored'[n] = None => monitored[n] = None
      BY <1>1, <2>1 DEF SubscribeNode, ServiceTypeOK
    <2>. QED
      BY <1>1, <2>1, <2>2 DEF SubscribeNode, ServiceTypeOK, QueueTypes, Up, sessionVars, readVars
  <1>2. CASE UnsubscribeNode
    <2>1. Cmd.node \in Nodes /\ cmds' \in Seq(Commands)
      BY <1>2, Handled, CommandFields DEF UnsubscribeNode, QueueTypes
    <2>2. /\ monitored' = [monitored EXCEPT ![Cmd.node] = None]
          /\ handlers' = [handlers EXCEPT ![Cmd.node] = 0]
          /\ writes' = [writes EXCEPT !["monitored"] = [writes["monitored"] EXCEPT ![Cmd.node] = 0]]
      BY <1>2 DEF UnsubscribeNode
    <2>. DEFINE kept == [writes["monitored"] EXCEPT ![Cmd.node] = 0]
    <2>3. /\ kept \in [Nodes -> Nat] /\ kept[Cmd.node] = 0
          /\ \A n \in Nodes : n # Cmd.node => kept[n] = writes["monitored"][n]
      BY <2>1 DEF ServiceTypeOK, Holders
    <2>. HIDE DEF kept
    <2>4. writes' \in [Holders -> [Nodes -> Nat]] /\ writes'["monitored"] = kept
      BY <2>2, <2>3 DEF ServiceTypeOK, Holders, kept
    <2>5. /\ monitored' \in [Nodes -> Intervals \cup {None}] /\ handlers' \in [Nodes -> Nat]
          /\ \A n \in Nodes : monitored'[n] = None => handlers'[n] = 0 /\ writes'["monitored"][n] = 0
      BY <2>1, <2>2, <2>3, <2>4 DEF ServiceTypeOK
    <2>. QED
      BY <1>2, <2>1, <2>4, <2>5
         DEF UnsubscribeNode, ServiceTypeOK, QueueTypes, Up, sessionVars, readVars
  <1>3. ASSUME NEW n \in Nodes, DataChange(n)  PROVE ServiceTypeOK' /\ QueueTypes'
    <2>1. ValueSig(n) \in Signals
      BY <1>3, SignalsMade DEF DataChange, Up, ServiceTypeOK
    <2>2. evts' \in Seq(Signals)
      BY <1>3, <2>1, EmittedOne DEF DataChange, QueueTypes
    <2>. QED
      BY <1>3, <2>2 DEF DataChange, ServiceTypeOK, QueueTypes, Up, sessionVars, watchVars, readVars
  <1>4. CASE WriteNodeValue
    <2>. DEFINE n == Cmd.node
                more == [writes[Holder(n)] EXCEPT ![n] = writes[Holder(n)][n] + 1]
    <2>1. n \in Nodes /\ cmds' \in Seq(Commands)
      BY <1>4, Handled, CommandFields DEF WriteNodeValue, QueueTypes
    <2>2. /\ handlers' \in [Nodes -> Nat]
          /\ \A m \in Nodes : monitored[m] = None => handlers'[m] = 0
      BY <1>4, <2>1 DEF WriteNodeValue, ServiceTypeOK
    <2>3. Holder(n) \in Holders /\ (monitored[n] = None => Holder(n) = "transient")
      BY DEF Holder, Holders
    <2>4. /\ more \in [Nodes -> Nat]
          /\ \A m \in Nodes : m # n => more[m] = writes[Holder(n)][m]
      BY <2>1, <2>3 DEF ServiceTypeOK
    <2>5. CASE Up /\ writes' = [writes EXCEPT ![Holder(n)][n] = @ + 1] /\ UNCHANGED evts
      <3>. HIDE DEF more, n
      <3>1. writes' = [writes EXCEPT ![Holder(n)] = more]
        BY <2>5 DEF more
      <3>2. /\ writes' \in [Holders -> [Nodes -> Nat]]
            /\ \A h \in Holders : writes'[h] = IF h = Holder(n) THEN more ELSE writes[h]
        BY <2>3, <2>4, <3>1 DEF ServiceTypeOK
      <3>3. ASSUME NEW m \in Nodes, monitored[m] = None  PROVE writes'["monitored"][m] = 0
        <4>1. "monitored" \in Holders /\ writes["monitored"][m] = 0 /\ "monitored" # "transient"
          BY <3>3 DEF ServiceTypeOK, Holders
        <4>2. CASE Holder(n) = "monitored"
          BY <2>3, <2>4, <3>2, <3>3, <4>1, <4>2
        <4>3. CASE Holder(n) # "monitored"
          BY <3>2, <4>1, <4>3
        <4>. QED  BY <4>2, <4>3
      <3>. QED
        BY <1>4, <2>1, <2>2, <2>5, <3>2, <3>3
           DEF WriteNodeValue, ServiceTypeOK, QueueTypes, Up, sessionVars, readVars
    <2>6. CASE Emit(<<WrittenSig(n, FALSE)>>) /\ UNCHANGED writes
      <3>1. WrittenSig(n, FALSE) \in Signals
        BY <2>1, SignalsMade
      <3>2. evts' \in Seq(Signals)
        BY <2>6, <3>1, EmittedOne DEF QueueTypes
      <3>. QED
        BY <1>4, <2>1, <2>2, <2>6, <3>2
           DEF WriteNodeValue, ServiceTypeOK, QueueTypes, Up, sessionVars, readVars
    <2>. QED  BY <1>4, <2>5, <2>6 DEF WriteNodeValue
  <1>5. ASSUME NEW h \in Holders, NEW n \in Nodes, NEW ok \in BOOLEAN, WriteAnswered(h, n, ok)
        PROVE  ServiceTypeOK' /\ QueueTypes'
    <2>. DEFINE t    == IF HandlerLeft(h, n) THEN <<WrittenSig(n, ok)>> ELSE <<>>
                less == [writes[h] EXCEPT ![n] = writes[h][n] - 1]
    <2>1. WrittenSig(n, ok) \in Signals
      BY SignalsMade
    <2>2. t \in Seq(Signals) /\ Emit(t)
      BY <1>5, <2>1 DEF WriteAnswered
    <2>. HIDE DEF t
    <2>3. evts' \in Seq(Signals)
      BY <2>2, EmittedMany DEF QueueTypes
    <2>4. /\ less \in [Nodes -> Nat]
          /\ \A m \in Nodes : writes[h][m] = 0 => less[m] = 0
      BY <1>5 DEF WriteAnswered, ServiceTypeOK
    <2>. HIDE DEF less
    <2>5. writes' = [writes EXCEPT ![h] = less]
      BY <1>5 DEF WriteAnswered, less
    <2>6. /\ writes' \in [Holders -> [Nodes -> Nat]]
          /\ \A m \in Nodes : writes["monitored"][m] = 0 => writes'["monitored"][m] = 0
      BY <2>4, <2>5 DEF ServiceTypeOK, Holders
    <2>7. /\ handlers' \in [Nodes -> Nat] /\ unreported' \in BOOLEAN
          /\ \A m \in Nodes : handlers[m] = 0 => handlers'[m] = 0
      BY <1>5 DEF WriteAnswered, HandlerLeft, ServiceTypeOK
    <2>. QED
      BY <1>5, <2>3, <2>6, <2>7
         DEF WriteAnswered, ServiceTypeOK, QueueTypes, Up, sessionVars, readVars
  <1>. QED  BY <1>1, <1>2, <1>3, <1>4, <1>5

LEMMA ReadTypes ==
  ASSUME ServiceTypeOK, QueueTypes, NEW panel \in Panels, NEW req \in Requests,
         Read(panel, req), UNCHANGED session
  PROVE  /\ reads' \in Seq(OpenReads) /\ evts' \in Seq(Signals)
         /\ ~Up => reads' = <<>>
  <1>1. reads \in Seq(OpenReads) /\ (~Up => reads = <<>>)
    BY DEF ServiceTypeOK, OpenReads
  <1>2. CASE Up /\ reads' = Outstanding(panel, req) /\ UNCHANGED evts
    BY <1>1, <1>2 DEF Outstanding, OpenReads, QueueTypes
  <1>3. CASE Emit(<<ReadSig(panel, req, FALSE)>>) /\ UNCHANGED reads
    <2>1. ReadSig(panel, req, FALSE) \in Signals
      BY SignalsMade
    <2>. QED  BY <1>1, <1>3, <2>1, EmittedOne DEF QueueTypes
  <1>. QED  BY <1>2, <1>3 DEF Read

LEMMA ReadingTypes ==
  ASSUME ServiceTypeOK, QueueTypes,
         \/ ReadNodeAttributes \/ ReadStructuredValue
         \/ \E i \in DOMAIN reads : ReadAnswered(i)
         \/ ReaderFinishes \/ HandlerReady
  PROVE  ServiceTypeOK' /\ QueueTypes'
  <1>. USE NodeServiceAssumption
  <1>1. "attributes" \in Panels /\ "value" \in Panels
    BY DEF Panels
  <1>2. CASE ReadNodeAttributes
    <2>1. Cmd.req \in Requests /\ cmds' \in Seq(Commands)
      BY <1>2, Handled, CommandFields DEF ReadNodeAttributes, QueueTypes
    <2>2. reads' \in Seq(OpenReads) /\ evts' \in Seq(Signals) /\ (~Up => reads' = <<>>)
      BY <1>1, <1>2, <2>1, ReadTypes DEF ReadNodeAttributes, sessionVars
    <2>. QED
      BY <1>2, <2>1, <2>2
         DEF ReadNodeAttributes, ServiceTypeOK, QueueTypes, Up, sessionVars, watchVars, OpenReads
  <1>3. CASE ReadStructuredValue
    <2>1. Cmd.req \in Requests /\ cmds' \in Seq(Commands)
      BY <1>3, Handled, CommandFields DEF ReadStructuredValue, QueueTypes
    <2>2. reads' \in Seq(OpenReads) /\ evts' \in Seq(Signals) /\ (~Up => reads' = <<>>)
      BY <1>1, <1>3, <2>1, ReadTypes DEF ReadStructuredValue, sessionVars
    <2>. QED
      BY <1>3, <2>1, <2>2
         DEF ReadStructuredValue, ServiceTypeOK, QueueTypes, Up, sessionVars, watchVars, OpenReads
  <1>4. ASSUME NEW i \in DOMAIN reads, ReadAnswered(i)  PROVE ServiceTypeOK' /\ QueueTypes'
    <2>1. reads \in Seq(OpenReads)
      BY DEF ServiceTypeOK, OpenReads
    <2>2. reads[i] \in OpenReads /\ reads # <<>>
      BY <2>1
    <2>3. reads[i].panel \in Panels /\ reads[i].req \in Requests
      BY <2>2 DEF OpenReads
    <2>4. reads' \in Seq(OpenReads)
      BY <1>4, <2>1, TakenOut DEF ReadAnswered
    <2>5. Up /\ reader' \in Requests \cup {None} /\ evts' \in Seq(Signals)
      <3>1. Up
        BY <2>2 DEF ServiceTypeOK
      <3>2. CASE Emit(<<ReadSig(reads[i].panel, reads[i].req, TRUE)>>) /\ UNCHANGED reader
        <4>1. ReadSig(reads[i].panel, reads[i].req, TRUE) \in Signals
          BY <2>3, SignalsMade
        <4>. QED  BY <3>1, <3>2, <4>1, EmittedOne DEF QueueTypes, ServiceTypeOK
      <3>3. CASE reader' = reads[i].req /\ UNCHANGED evts
        BY <2>3, <3>1, <3>3 DEF QueueTypes
      <3>. QED  BY <1>4, <3>2, <3>3 DEF ReadAnswered
    <2>. QED
      BY <1>4, <2>4, <2>5
         DEF ReadAnswered, ServiceTypeOK, QueueTypes, Up, sessionVars, watchVars, OpenReads
  <1>5. CASE ReaderFinishes
    <2>1. PICK good \in BOOLEAN : Emit(<<ReadSig("value", reader, good)>>)
      BY <1>5 DEF ReaderFinishes
    <2>2. ReadSig("value", reader, good) \in Signals
      BY <1>1, <1>5, SignalsMade DEF ReaderFinishes, ServiceTypeOK
    <2>3. evts' \in Seq(Signals)
      BY <2>1, <2>2, EmittedOne DEF QueueTypes
    <2>. QED
      BY <1>5, <2>3 DEF ReaderFinishes, ServiceTypeOK, QueueTypes, Up, sessionVars, watchVars
  <1>6. CASE HandlerReady
    <2>1. reads' \in Seq(OpenReads) /\ evts' \in Seq(Signals)
      <3>1. CASE last = None
        BY <1>6, <3>1 DEF HandlerReady, ServiceTypeOK, QueueTypes, OpenReads
      <3>2. CASE last # None
        <4>1. last \in Requests /\ Read("value", last) /\ UNCHANGED session
          BY <1>6, <3>2 DEF HandlerReady, ServiceTypeOK, sessionVars
        <4>. QED  BY <1>1, <4>1, ReadTypes
      <3>. QED  BY <3>1, <3>2
    <2>. QED
      BY <1>6, <2>1
         DEF HandlerReady, ServiceTypeOK, QueueTypes, Up, sessionVars, watchVars, OpenReads
  <1>. QED  BY <1>2, <1>3, <1>4, <1>5, <1>6

-----------------------------------------------------------------------------
(* Tables.                                                                 *)

Distinct(rs) == \A i, j \in DOMAIN rs :
                  rs[i].node = rs[j].node /\ rs[i].server = rs[j].server => i = j
Table(rs)    == rs \in Seq(TableRows) /\ Distinct(rs)

LEMMA AppendedRows ==
  ASSUME NEW q \in Seq(TableRows), NEW t \in Seq(TableRows)
  PROVE  /\ q \o t \in Seq(TableRows) /\ Len(q \o t) = Len(q) + Len(t)
         /\ Len(q) \in Nat /\ Len(t) \in Nat
         /\ DOMAIN (q \o t) = 1..(Len(q) + Len(t)) /\ DOMAIN q = 1..Len(q) /\ DOMAIN t = 1..Len(t)
         /\ \A k \in 1..Len(q) : (q \o t)[k] = q[k]
         /\ \A k \in 1..Len(t) : (q \o t)[Len(q) + k] = t[k]
         /\ Range(q \o t) = Range(q) \cup Range(t)
  BY AppendedQueue, ZenonT(40)

(* A node that is not shared has one row.                                   *)
LEMMA OneRow ==
  ASSUME NEW rs \in Seq(TableRows), NEW n \in Nodes \ Shared(rs),
         NEW i \in DOMAIN rs, NEW j \in DOMAIN rs, rs[i].node = n, rs[j].node = n
  PROVE  i = j
  <1>. SUFFICES ASSUME i # j  PROVE FALSE
    OBVIOUS
  <1>1. IsFiniteSet(DOMAIN rs) /\ DOMAIN rs = 1..Len(rs) /\ Len(rs) \in Nat
    BY FS_Interval, LenProperties
  <1>2. RowsOf(rs, n) \subseteq DOMAIN rs /\ {i, j} \subseteq RowsOf(rs, n)
    BY DEF RowsOf
  <1>3. IsFiniteSet(RowsOf(rs, n)) /\ Cardinality(RowsOf(rs, n)) \in Nat
    BY <1>1, <1>2, FS_Subset, FS_CardinalityType
  <1>4. IsFiniteSet({i}) /\ Cardinality({i}) = 1
    BY FS_Singleton
  <1>5. Cardinality({i} \cup {j}) = 2
    <2>. DEFINE one == {i}
    <2>1. j \notin one /\ IsFiniteSet(one) /\ Cardinality(one) = 1
      BY <1>4
    <2>. HIDE DEF one
    <2>2. Cardinality(one \cup {j}) = Cardinality(one) + 1
      BY <2>1, FS_AddElement
    <2>3. Cardinality(one \cup {j}) = 2
      BY <2>1, <2>2
    <2>. QED  BY <2>3 DEF one
  <1>6. {i} \cup {j} \subseteq RowsOf(rs, n)
    BY <1>2
  <1>7. 2 <= Cardinality(RowsOf(rs, n))
    BY <1>3, <1>5, <1>6, FS_Subset
  <1>. QED  BY <1>3, <1>7 DEF Shared

LEMMA Enumerated ==
  ASSUME NEW S, IsFiniteSet(S)
  PROVE  LET s == SetToSeq(S)
         IN /\ s \in Seq(S) /\ DOMAIN s = 1..Len(s) /\ Len(s) \in Nat
            /\ \A k, m \in DOMAIN s : s[k] = s[m] => k = m
            /\ Range(s) = S
  <1>. DEFINE c == Cardinality(S)
  <1>1. c \in Nat /\ ExistsBijection(1..c, S)
    BY FS_CardinalityType
  <1>. DEFINE s == SetToSeq(S)
  <1>2. \E f \in [1..c -> S] : IsInjective(f)
    BY <1>1 DEF ExistsBijection, Bijection, Injection
  <1>3. s \in [1..c -> S] /\ IsInjective(s)
    BY <1>2 DEF SetToSeq
  <1>. HIDE DEF s
  <1>4. s \in Injection(1..c, S)
    BY <1>3 DEF Injection
  <1>5. IsFiniteSet(1..c) /\ Cardinality(1..c) = c
    BY <1>1, FS_Interval
  <1>6. s \in Surjection(1..c, S)
    BY <1>4, <1>5, FS_Injection
  <1>7. s \in Seq(S) /\ Len(s) = c /\ DOMAIN s = 1..c
    BY <1>1, <1>3
  <1>8. Range(s) = S
    BY <1>6, <1>7 DEF Surjection, Range
  <1>9. \A k, m \in DOMAIN s : s[k] = s[m] => k = m
    BY <1>3 DEF IsInjective
  <1>. QED  BY <1>1, <1>7, <1>8, <1>9 DEF s

LEMMA AscendingOnto ==
  ASSUME NEW rs \in Seq(TableRows), NEW is \in SUBSET DOMAIN rs, NEW s \in Ascending(is)
  PROVE  /\ DOMAIN s = 1..Len(s) /\ Len(s) \in Nat /\ s \in Seq(is)
         /\ \A k, m \in DOMAIN s : s[k] = s[m] => k = m
         /\ Range(s) = is
  <1>1. IsFiniteSet(DOMAIN rs) /\ DOMAIN rs = 1..Len(rs) /\ Len(rs) \in Nat
    BY FS_Interval, LenProperties
  <1>. DEFINE c == Cardinality(is)
  <1>2. IsFiniteSet(is) /\ c \in Nat /\ is \subseteq Nat
    BY <1>1, FS_Subset, FS_CardinalityType
  <1>3. s \in [1..c -> is] /\ \A k \in DOMAIN s : \A m \in 1..(k - 1) : s[m] < s[k]
    BY DEF Ascending
  <1>4. s \in Seq(is) /\ Len(s) = c /\ DOMAIN s = 1..c
    BY <1>2, <1>3
  <1>. HIDE DEF c
  <1>5. ASSUME NEW k \in DOMAIN s, NEW m \in DOMAIN s, s[k] = s[m]  PROVE k = m
    <2>1. s[k] \in Nat /\ k \in 1..c /\ m \in 1..c
      BY <1>2, <1>3, <1>4
    <2>2. ~(m < k)
      <3>1. ASSUME m < k  PROVE s[m] < s[k]
        <4>1. m \in 1..(k - 1)
          BY <1>2, <2>1, <3>1
        <4>. QED  BY <1>3, <4>1
      <3>. QED  BY <1>5, <2>1, <3>1
    <2>3. ~(k < m)
      <3>1. ASSUME k < m  PROVE s[k] < s[m]
        <4>1. k \in 1..(m - 1)
          BY <1>2, <2>1, <3>1
        <4>. QED  BY <1>3, <4>1
      <3>. QED  BY <1>5, <2>1, <3>1
    <2>. QED  BY <1>2, <2>1, <2>2, <2>3
  <1>6. s \in Injection(1..c, is)
    BY <1>3, <1>5 DEF Injection, IsInjective
  <1>7. IsFiniteSet(1..c) /\ Cardinality(1..c) = c
    BY <1>2, FS_Interval
  <1>8. s \in Surjection(1..c, is)
    BY <1>2, <1>6, <1>7, FS_Injection DEF c
  <1>9. Range(s) = is
    BY <1>4, <1>8 DEF Surjection, Range
  <1>. QED  BY <1>2, <1>4, <1>5, <1>9

(* Rows whose node and server come from distinct places of a table.          *)
LEMMA StillDistinct ==
  ASSUME NEW rs, Distinct(rs), NEW ts, NEW f \in [DOMAIN ts -> DOMAIN rs],
         \A k, m \in DOMAIN ts : f[k] = f[m] => k = m,
         \A k \in DOMAIN ts : ts[k].node = rs[f[k]].node /\ ts[k].server = rs[f[k]].server
  PROVE  Distinct(ts)
  <1>1. ASSUME NEW k \in DOMAIN ts, NEW m \in DOMAIN ts,
               ts[k].node = ts[m].node, ts[k].server = ts[m].server
        PROVE  k = m
    <2>1. f[k] \in DOMAIN rs /\ f[m] \in DOMAIN rs
      OBVIOUS
    <2>2. rs[f[k]].node = rs[f[m]].node /\ rs[f[k]].server = rs[f[m]].server
      BY <1>1
    <2>3. f[k] = f[m]
      BY <2>1, <2>2 DEF Distinct
    <2>. QED  BY <2>3
  <1>. QED  BY <1>1 DEF Distinct

(* What an action of the user's on the table does, with the commands t posted   *)
(* for it: the rows stay a table, no value is new, and a node that the service   *)
(* would watch as its row says is watched as its row says now.              *)
TableStep(t) ==
  /\ t \in Seq(Commands) /\ cmds' = cmds \o t
  /\ \A c \in Range(t) : /\ c.op \in {"subscribe", "unsubscribe"}
                         /\ c.op = "subscribe" => gConnected
  /\ Table(rows')
  /\ \A r \in Range(rows') : r.value = None \/ \E q \in Range(rows) : r.value = q.value
  /\ gConnected /\ Shared(rows) \subseteq contested =>
       \A n \in Nodes \ contested' : \A y \in Interval :
         Wanted(rows, n, y) => \E z \in Interval : Leads(t, n, y, z) /\ Wanted(rows', n, z)

LEMMA TickSteps ==
  ASSUME Table(rows), QueueTypes, current \in Servers, NEW nodes \in SUBSET Nodes, Tick(nodes)
  PROVE  \E t : TableStep(t)
  <1>. USE NodeServiceAssumption
  <1>. DEFINE order == SetToSeq(nodes)
              added == [k \in DOMAIN order |-> Row(current, order[k])]
              subs  == [k \in DOMAIN added |-> Subscribe(added[k])]
              t     == IF gConnected THEN subs ELSE <<>>
  <1>1. /\ rows' = rows \o added /\ contested' = contested \cup Shared(rows')
        /\ cmds' = cmds \o t /\ nodes \cap Ticked = {}
    BY DEF Tick, SetRows, Post
  <1>2. /\ order \in Seq(nodes) /\ DOMAIN order = 1..Len(order) /\ Len(order) \in Nat
        /\ \A k, m \in DOMAIN order : order[k] = order[m] => k = m
        /\ Range(order) = nodes
    <2>1. IsFiniteSet(nodes)
      BY FS_Subset
    <2>. QED  BY <2>1, Enumerated
  <1>. HIDE DEF order
  <1>3. \A k \in DOMAIN order : order[k] \in Nodes /\ order[k] \in nodes
    BY <1>2
  <1>4. /\ added \in Seq(TableRows) /\ Len(added) = Len(order) /\ DOMAIN added = DOMAIN order
        /\ \A k \in DOMAIN order : added[k] = Row(current, order[k])
    <2>1. \A k \in DOMAIN order : Row(current, order[k]) \in TableRows
      BY <1>3 DEF Row, TableRows
    <2>. QED  BY <1>2, <2>1
  <1>5. /\ subs \in Seq(Commands) /\ DOMAIN subs = DOMAIN order
        /\ \A k \in DOMAIN order : subs[k] = [op |-> "subscribe", node |-> order[k], interval |-> 0]
    <2>1. \A k \in DOMAIN order :
             Subscribe(added[k]) = [op |-> "subscribe", node |-> order[k], interval |-> 0]
      BY <1>4 DEF Subscribe, Row
    <2>2. \A k \in DOMAIN order : Subscribe(added[k]) \in Commands
      BY <1>3, <2>1, CommandsMade
    <2>. QED  BY <1>2, <1>4, <2>1, <2>2
  <1>. HIDE DEF added, subs
  <1>6. t \in Seq(Commands) /\ \A c \in Range(t) : c.op = "subscribe" /\ gConnected
    <2>1. CASE gConnected
      BY <1>5, <2>1 DEF Range
    <2>2. CASE ~gConnected
      BY <2>2 DEF Range
    <2>. QED  BY <2>1, <2>2
  <1>7. rows \in Seq(TableRows) /\ Distinct(rows)
    BY DEF Table
  <1>8. /\ rows' \in Seq(TableRows) /\ DOMAIN rows' = 1..(Len(rows) + Len(order))
        /\ DOMAIN rows = 1..Len(rows) /\ Len(rows) \in Nat
        /\ \A k \in 1..Len(rows) : rows'[k] = rows[k]
        /\ \A k \in 1..Len(order) : rows'[Len(rows) + k] = Row(current, order[k])
        /\ Range(rows') = Range(rows) \cup Range(added)
    <2>1. /\ rows' \in Seq(TableRows) /\ DOMAIN rows' = 1..(Len(rows) + Len(added))
          /\ DOMAIN rows = 1..Len(rows) /\ Len(rows) \in Nat
          /\ \A k \in 1..Len(rows) : rows'[k] = rows[k]
          /\ \A k \in 1..Len(added) : rows'[Len(rows) + k] = added[k]
          /\ Range(rows') = Range(rows) \cup Range(added)
      <3>1. rows' = rows \o added /\ added \in Seq(TableRows) /\ rows \in Seq(TableRows)
        BY <1>1, <1>4, <1>7
      <3>. QED  BY <3>1, AppendedRows
    <2>. QED  BY <1>2, <1>4, <2>1
  <1>9. \A r \in Range(added) : r.node \in nodes /\ r.interval = 0 /\ r.value = None
    BY <1>3, <1>4 DEF Range, Row
  <1>10. ASSUME NEW k \in DOMAIN rows'
         PROVE  \/ k \in DOMAIN rows /\ rows'[k] = rows[k]
                \/ \E m \in DOMAIN order : k = Len(rows) + m /\ rows'[k] = Row(current, order[m])
    <2>1. CASE k <= Len(rows)
      BY <1>8, <1>10, <2>1
    <2>2. CASE k > Len(rows)
      <3>1. k - Len(rows) \in 1..Len(order) /\ k = Len(rows) + (k - Len(rows))
        BY <1>2, <1>8, <1>10, <2>2
      <3>. QED  BY <1>2, <1>8, <3>1
    <2>. QED  BY <1>8, <1>10, <2>1, <2>2
  <1>11. ASSUME NEW i \in DOMAIN rows, NEW m \in DOMAIN order
         PROVE  ~(rows[i].node = order[m] /\ rows[i].server = current)
    BY <1>1, <1>3 DEF Ticked, RowsOf
  <1>12. Distinct(rows')
    <2>1. ASSUME NEW i \in DOMAIN rows', NEW j \in DOMAIN rows',
                 rows'[i].node = rows'[j].node, rows'[i].server = rows'[j].server
          PROVE  i = j
      <3>1. CASE i \in DOMAIN rows /\ rows'[i] = rows[i] /\ j \in DOMAIN rows /\ rows'[j] = rows[j]
        BY <1>7, <2>1, <3>1 DEF Distinct
      <3>2. ASSUME NEW a \in DOMAIN rows', NEW m \in DOMAIN order, a \in DOMAIN rows, rows'[a] = rows[a],
                   NEW b, rows'[b] = Row(current, order[m]),
                   rows'[a].node = rows'[b].node, rows'[a].server = rows'[b].server
            PROVE  FALSE
        BY <1>11, <3>2 DEF Row
      <3>3. ASSUME NEW m \in DOMAIN order, i = Len(rows) + m, rows'[i] = Row(current, order[m]),
                   NEW l \in DOMAIN order, j = Len(rows) + l, rows'[j] = Row(current, order[l])
            PROVE  i = j
        BY <1>2, <2>1, <3>3 DEF Row
      <3>. QED  BY <1>10, <2>1, <3>1, <3>2, <3>3
    <2>. QED  BY <2>1 DEF Distinct
  <1>13. ASSUME gConnected, NEW n \in Nodes \ contested', NEW y \in Interval,
                Wanted(rows, n, y)
         PROVE  \E z \in Interval : Leads(t, n, y, z) /\ Wanted(rows', n, z)
    <2>1. n \in Nodes \ Shared(rows')
      BY <1>1, <1>13
    <2>2. t = subs
      BY <1>13
    <2>. HIDE DEF t
    <2>3. CASE n \in nodes
      <3>1. PICK p \in DOMAIN order : order[p] = n
        BY <1>2, <2>3 DEF Range
      <3>2. Len(rows) + p \in DOMAIN rows' /\ rows'[Len(rows) + p].node = n
        <4>1. Len(rows) + p \in DOMAIN rows' /\ rows'[Len(rows) + p] = Row(current, order[p])
          BY <1>2, <1>8
        <4>. QED  BY <3>1, <4>1 DEF Row
      <3>3. ASSUME NEW i \in DOMAIN rows, rows[i].node = n  PROVE FALSE
        <4>1. i \in DOMAIN rows' /\ rows'[i].node = n /\ i < Len(rows) + p
          BY <1>2, <1>8, <3>3
        <4>2. i = Len(rows) + p
          BY <1>8, <2>1, <3>2, <4>1, OneRow
        <4>. QED  BY <1>2, <1>8, <4>1, <4>2
      <3>4. Named(rows, n) = {} /\ y = None
        <4>1. Named(rows, n) = {}
          BY <3>3 DEF Named, Range
        <4>. QED  BY <1>13, <4>1 DEF Wanted
      <3>5. Leads(t, n, y, 0)
        <4>1. p \in DOMAIN subs /\ Effect(subs[p], n, None) = 0
          BY <1>5, <3>1 DEF Effect
        <4>2. ASSUME NEW k \in DOMAIN subs, k # p, NEW x  PROVE Effect(subs[k], n, x) = x
          <5>1. order[k] # n
            BY <1>2, <1>5, <3>1, <4>2
          <5>. QED  BY <1>5, <5>1 DEF Effect
        <4>3. /\ \A k \in DOMAIN subs : /\ k < p => Effect(subs[k], n, None) = None
                                        /\ k > p => Effect(subs[k], n, 0) = 0
          <5>1. \A k \in DOMAIN subs : k < p \/ k > p => k # p
            BY <1>2, <1>5
          <5>. QED  BY <4>2, <5>1
        <4>. QED  BY <1>5, <2>2, <3>4, <4>1, <4>3, LeadsOnce DEF Interval
      <3>6. Wanted(rows', n, 0)
        <4>1. Named(rows', n) # {}
          BY <3>2 DEF Named, Range
        <4>2. \A r \in Named(rows', n) : r \in Range(added)
          BY <1>8, <3>4 DEF Named
        <4>. QED  BY <1>9, <4>1, <4>2 DEF Wanted
      <3>. QED  BY <3>5, <3>6 DEF Interval
    <2>4. CASE n \notin nodes
      <3>1. Named(rows', n) = Named(rows, n)
        BY <1>8, <1>9, <2>4 DEF Named
      <3>2. \A c \in Range(t) : Effect(c, n, y) = y
        <4>1. \A k \in DOMAIN subs : Effect(subs[k], n, y) = y
          <5>1. \A k \in DOMAIN order : order[k] # n
            BY <1>3, <2>4
          <5>. QED  BY <1>5, <5>1 DEF Effect
        <4>. QED  BY <2>2, <4>1 DEF Range
      <3>3. Leads(t, n, y, y)
        BY <1>6, <3>2, LeadsStill
      <3>4. Wanted(rows', n, y)
        BY <1>13, <3>1 DEF Wanted
      <3>. QED  BY <3>3, <3>4
    <2>. QED  BY <2>3, <2>4
  <1>14. ASSUME NEW r \in Range(rows')  PROVE r.value = None \/ \E q \in Range(rows) : r.value = q.value
    BY <1>8, <1>9, <1>14
  <1>15. TableStep(t)
    BY <1>1, <1>6, <1>8, <1>12, <1>13, <1>14 DEF TableStep, Table
  <1>. QED  BY <1>15

LEMMA LeadsOff ==
  ASSUME NEW t \in Seq(Commands), \A c \in Range(t) : c.op = "unsubscribe",
         NEW n, \E c \in Range(t) : c.node = n, NEW y \in Interval
  PROVE  Leads(t, n, y, None)
  <1>1. DOMAIN t = 1..Len(t) /\ Len(t) \in Nat
    BY LenProperties
  <1>2. \A k \in 1..Len(t) : t[k].op = "unsubscribe"
    BY <1>1 DEF Range
  <1>3. PICK p \in 1..Len(t) : t[p].node = n
    BY <1>1 DEF Range
  <1>. DEFINE off(k) == \E m \in 1..k : t[m].node = n
              f == [k \in 0..Len(t) |-> IF off(k) THEN None ELSE y]
  <1>4. f \in [0..Len(t) -> Interval] /\ f[0] = y
    <2>1. ~off(0)
      OBVIOUS
    <2>. HIDE DEF off
    <2>. QED  BY <1>1, <2>1 DEF Interval
  <1>5. f[Len(t)] = None
    <2>1. off(Len(t)) /\ Len(t) \in 0..Len(t)
      BY <1>1, <1>3
    <2>. HIDE DEF off
    <2>. QED  BY <2>1
  <1>6. ASSUME NEW k \in 1..Len(t)  PROVE f[k] = Effect(t[k], n, f[k - 1])
    <2>1. k \in 0..Len(t) /\ k - 1 \in 0..Len(t)
      BY <1>1, <1>6
    <2>2. off(k) <=> off(k - 1) \/ t[k].node = n
      <3>1. ASSUME NEW m \in 1..k, m # k  PROVE m \in 1..(k - 1)
        BY <1>6, <3>1
      <3>2. 1..(k - 1) \subseteq 1..k /\ k \in 1..k
        BY <1>6
      <3>. QED  BY <3>1, <3>2
    <2>3. Effect(t[k], n, f[k - 1]) = IF t[k].node = n THEN None ELSE f[k - 1]
      BY <1>2 DEF Effect
    <2>. HIDE DEF off
    <2>4. f[k] = (IF off(k) THEN None ELSE y) /\ f[k - 1] = (IF off(k - 1) THEN None ELSE y)
      BY <2>1
    <2>. HIDE DEF f
    <2>. QED  BY <2>2, <2>3, <2>4
  <1>. HIDE DEF f
  <1>. QED  BY <1>4, <1>5, <1>6 DEF Leads, Interval

LEMMA UntickSteps ==
  ASSUME Table(rows), QueueTypes, NEW node \in Nodes, Untick(node)
  PROVE  \E t : TableStep(t)
  <1>. USE NodeServiceAssumption
  <1>. DEFINE c == Order("unsubscribe", node)
              t == <<c>>
  <1>1. PICK i \in DOMAIN rows :
          rows[i].node = node /\ rows' = RemoveAt(rows, i) /\ contested' = contested \cup Shared(rows')
    BY DEF Untick, First, RowsOf, SetRows
  <1>2. cmds' = cmds \o t
    BY DEF Untick, Post
  <1>3. c \in Commands /\ c.op = "unsubscribe" /\ c.node = node
    BY CommandsMade DEF Order
  <1>4. t \in Seq(Commands) /\ Range(t) = {c}
    BY <1>3, SentOne
  <1>. HIDE DEF t, c
  <1>5. rows \in Seq(TableRows) /\ Distinct(rows)
    BY DEF Table
  <1>6. /\ rows' \in Seq(TableRows) /\ Len(rows) \in Nat \ {0}
        /\ DOMAIN rows' = 1..(Len(rows) - 1) /\ DOMAIN rows = 1..Len(rows)
        /\ \A k \in 1..(Len(rows) - 1) : rows'[k] = rows[IF k < i THEN k ELSE k + 1]
        /\ Range(rows) = {rows[i]} \cup Range(rows')
    <2>1. rows \in Seq(TableRows) /\ i \in DOMAIN rows /\ rows' = RemoveAt(rows, i)
      BY <1>1, <1>5
    <2>. QED  BY <2>1, TakenOut
  <1>. DEFINE from == [k \in DOMAIN rows' |-> IF k < i THEN k ELSE k + 1]
  <1>7. /\ from \in [DOMAIN rows' -> DOMAIN rows]
        /\ \A k, m \in DOMAIN rows' : from[k] = from[m] => k = m
        /\ \A k \in DOMAIN rows' : rows'[k] = rows[from[k]] /\ from[k] # i
    BY <1>6
  <1>. HIDE DEF from
  <1>8. Distinct(rows')
    <2>1. \A k \in DOMAIN rows' : /\ rows'[k].node = rows[from[k]].node
                                  /\ rows'[k].server = rows[from[k]].server
      BY <1>7
    <2>2. /\ Distinct(rows) /\ from \in [DOMAIN rows' -> DOMAIN rows]
          /\ \A k, m \in DOMAIN rows' : from[k] = from[m] => k = m
      BY <1>5, <1>7
    <2>. QED  BY <2>1, <2>2, StillDistinct
  <1>9. ASSUME gConnected, Shared(rows) \subseteq contested,
               NEW n \in Nodes \ contested', NEW y \in Interval, Wanted(rows, n, y)
        PROVE  \E z \in Interval : Leads(t, n, y, z) /\ Wanted(rows', n, z)
    <2>1. n \in Nodes \ Shared(rows)
      BY <1>1, <1>9
    <2>2. CASE n = node
      <3>1. ASSUME NEW k \in DOMAIN rows', rows'[k].node = n  PROVE FALSE
        <4>1. from[k] \in DOMAIN rows /\ rows[from[k]].node = n /\ from[k] # i
          BY <1>7, <3>1
        <4>. QED  BY <1>1, <1>5, <2>1, <2>2, <4>1, OneRow
      <3>2. Wanted(rows', n, None)
        BY <3>1 DEF Wanted, Named, Range
      <3>3. Leads(t, n, y, None)
        BY <1>3, <1>4, <2>2, LeadsOff
      <3>. QED  BY <3>2, <3>3 DEF Interval
    <2>3. CASE n # node
      <3>1. Named(rows', n) = Named(rows, n)
        BY <1>1, <1>6, <2>3 DEF Named
      <3>2. Leads(t, n, y, y)
        <4>1. Effect(c, n, y) = y
          BY <1>3, <2>3 DEF Effect
        <4>. QED  BY <1>4, <4>1, LeadsStill
      <3>3. Wanted(rows', n, y)
        BY <1>9, <3>1 DEF Wanted
      <3>. QED  BY <3>2, <3>3
    <2>. QED  BY <2>2, <2>3
  <1>10. ASSUME NEW r \in Range(rows')  PROVE \E q \in Range(rows) : r.value = q.value
    BY <1>6, <1>10
  <1>11. \A d \in Range(t) : d.op = "unsubscribe"
    BY <1>3, <1>4
  <1>12. TableStep(t)
    BY <1>2, <1>4, <1>6, <1>8, <1>9, <1>10, <1>11 DEF TableStep, Table
  <1>. QED  BY <1>12

LEMMA RemoveSteps ==
  ASSUME Table(rows), QueueTypes, NEW is \in SUBSET DOMAIN rows, RemoveNodes(is)
  PROVE  (\E t : TableStep(t)) /\ trend' \subseteq trend
  <1>. USE NodeServiceAssumption
  <1>1. PICK kept \in Ascending(DOMAIN rows \ is), gone \in Ascending(is) :
          /\ SetRows([k \in DOMAIN kept |-> rows[kept[k]]])
          /\ Post(Reverse([k \in DOMAIN gone |-> Order("unsubscribe", rows[gone[k]].node)]))
    BY DEF RemoveNodes
  <1>2. rows \in Seq(TableRows) /\ Distinct(rows) /\ DOMAIN rows = 1..Len(rows) /\ Len(rows) \in Nat
    BY LenProperties DEF Table
  <1>3. /\ DOMAIN kept = 1..Len(kept) /\ Len(kept) \in Nat
        /\ \A k, m \in DOMAIN kept : kept[k] = kept[m] => k = m
        /\ Range(kept) = DOMAIN rows \ is
    BY <1>2, AscendingOnto
  <1>4. /\ DOMAIN gone = 1..Len(gone) /\ Len(gone) \in Nat
        /\ Range(gone) = is
    BY <1>2, AscendingOnto
  <1>. DEFINE drops == [k \in DOMAIN gone |-> Order("unsubscribe", rows[gone[k]].node)]
              t     == Reverse(drops)
  <1>5. rows' = [k \in DOMAIN kept |-> rows[kept[k]]] /\ contested' = contested \cup Shared(rows')
        /\ cmds' = cmds \o t
    BY <1>1 DEF SetRows, Post
  <1>6. \A k \in DOMAIN kept : kept[k] \in DOMAIN rows \ is
    BY <1>3 DEF Range
  <1>7. \A k \in DOMAIN gone : gone[k] \in is /\ gone[k] \in DOMAIN rows
    BY <1>4 DEF Range
  <1>8. \A i \in DOMAIN rows : rows[i] \in TableRows /\ rows[i].node \in Nodes
    <2>1. \A i \in DOMAIN rows : rows[i] \in TableRows
      BY <1>2
    <2>. QED  BY <2>1 DEF TableRows
  <1>9. /\ rows' \in Seq(TableRows) /\ DOMAIN rows' = DOMAIN kept
        /\ \A k \in DOMAIN rows' : rows'[k] = rows[kept[k]]
    BY <1>3, <1>5, <1>6, <1>8
  <1>10. Range(rows') = {rows[i] : i \in DOMAIN rows \ is}
    BY <1>3, <1>9 DEF Range
  <1>11. Distinct(rows')
    <2>1. kept \in [DOMAIN rows' -> DOMAIN rows]
      <3>1. kept \in [DOMAIN kept -> DOMAIN rows]
        BY <1>1, <1>6 DEF Ascending
      <3>. QED  BY <1>9, <3>1
    <2>2. \A k \in DOMAIN rows' : /\ rows'[k].node = rows[kept[k]].node
                                  /\ rows'[k].server = rows[kept[k]].server
      BY <1>9
    <2>3. \A k, m \in DOMAIN rows' : kept[k] = kept[m] => k = m
      BY <1>3, <1>9
    <2>4. Distinct(rows)
      BY <1>2
    <2>. QED  BY <2>1, <2>2, <2>3, <2>4, StillDistinct
  <1>12. /\ t \in Seq(Commands) /\ \A d \in Range(t) : d.op = "unsubscribe"
         /\ \A n : (\E d \in Range(t) : d.node = n) <=> \E i \in is : rows[i].node = n
    <2>1. ASSUME NEW k \in DOMAIN gone
          PROVE  drops[k] \in Commands /\ drops[k].op = "unsubscribe" /\ drops[k].node = rows[gone[k]].node
      BY <1>7, <1>8, CommandsMade DEF Order
    <2>2. DOMAIN drops = 1..Len(gone) /\ Len(drops) = Len(gone) /\ drops \in Seq(Commands)
      BY <1>4, <2>1
    <2>. HIDE DEF drops
    <2>3. DOMAIN t = 1..Len(gone) /\ \A k \in 1..Len(gone) : t[k] = drops[(Len(gone) - k) + 1]
      BY <1>4, <2>2 DEF Reverse
    <2>4. \A k \in 1..Len(gone) : (Len(gone) - k) + 1 \in 1..Len(gone)
      BY <1>4
    <2>5. t \in Seq(Commands)
      <3>1. Len(drops) \in Nat /\ \A k \in 1..Len(drops) : drops[(Len(drops) - k) + 1] \in Commands
        BY <1>4, <2>1, <2>2, <2>4
      <3>2. t = [k \in 1..Len(drops) |-> drops[(Len(drops) - k) + 1]]
        BY DEF Reverse
      <3>. QED  BY <3>1, <3>2
    <2>. HIDE DEF t
    <2>6. Range(t) = Range(drops)
      <3>1. \A k \in 1..Len(gone) : t[(Len(gone) - k) + 1] = drops[k]
        <4>1. \A k \in 1..Len(gone) : (Len(gone) - ((Len(gone) - k) + 1)) + 1 = k
          BY <1>4
        <4>. QED  BY <2>3, <2>4, <4>1
      <3>. QED  BY <2>2, <2>3, <2>4, <3>1 DEF Range
    <2>7. \A d \in Range(t) : d.op = "unsubscribe"
      BY <1>4, <2>1, <2>2, <2>6 DEF Range
    <2>8. ASSUME NEW n
          PROVE  (\E d \in Range(t) : d.node = n) <=> \E i \in is : rows[i].node = n
      <3>1. (\E d \in Range(drops) : d.node = n) <=> \E k \in DOMAIN gone : rows[gone[k]].node = n
        BY <1>4, <2>1, <2>2 DEF Range
      <3>2. (\E k \in DOMAIN gone : rows[gone[k]].node = n) <=> \E i \in is : rows[i].node = n
        BY <1>4 DEF Range
      <3>. QED  BY <2>6, <3>1, <3>2
    <2>. QED  BY <2>5, <2>7, <2>8
  <1>. HIDE DEF t
  <1>13. ASSUME gConnected, Shared(rows) \subseteq contested,
                NEW n \in Nodes \ contested', NEW y \in Interval, Wanted(rows, n, y)
         PROVE  \E z \in Interval : Leads(t, n, y, z) /\ Wanted(rows', n, z)
    <2>1. n \in Nodes \ Shared(rows)
      BY <1>5, <1>13
    <2>2. CASE \E i \in is : rows[i].node = n
      <3>1. PICK i \in is : rows[i].node = n
        BY <2>2
      <3>2. \A m \in DOMAIN rows \ is : rows[m].node # n
        BY <1>2, <2>1, <3>1, OneRow
      <3>3. Wanted(rows', n, None)
        BY <1>10, <3>2 DEF Wanted, Named
      <3>4. Leads(t, n, y, None)
        BY <1>12, <2>2, LeadsOff
      <3>. QED  BY <3>3, <3>4 DEF Interval
    <2>3. CASE ~ \E i \in is : rows[i].node = n
      <3>1. Named(rows', n) = Named(rows, n)
        BY <1>10, <2>3 DEF Named, Range
      <3>2. \A d \in Range(t) : Effect(d, n, y) = y
        <4>1. \A d \in Range(t) : d.op = "unsubscribe" /\ d.node # n
          BY <1>12, <2>3
        <4>. QED  BY <4>1 DEF Effect
      <3>3. Leads(t, n, y, y)
        BY <1>12, <3>2, LeadsStill
      <3>4. Wanted(rows', n, y)
        BY <1>13, <3>1 DEF Wanted
      <3>. QED  BY <3>3, <3>4
    <2>. QED  BY <2>2, <2>3
  <1>14. ASSUME NEW r \in Range(rows')  PROVE \E q \in Range(rows) : r.value = q.value
    BY <1>10, <1>14 DEF Range
  <1>15. \A d \in Range(t) : d.op \in {"subscribe", "unsubscribe"} /\ (d.op = "subscribe" => gConnected)
    BY <1>12
  <1>16. TableStep(t)
    BY <1>5, <1>9, <1>11, <1>12, <1>13, <1>14, <1>15 DEF TableStep, Table
  <1>17. trend' \subseteq trend
    BY DEF RemoveNodes
  <1>. QED  BY <1>16, <1>17

LEMMA LeadsOne ==
  ASSUME NEW c \in Commands, NEW n, NEW y \in Interval, Effect(c, n, y) \in Interval
  PROVE  Leads(<<c>>, n, y, Effect(c, n, y))
  <1>. DEFINE t == <<c>>
              z == Effect(c, n, y)
  <1>1. t \in Seq(Commands) /\ DOMAIN t = {1} /\ t[1] = c
    BY SentOne
  <1>. HIDE DEF t
  <1>2. 1 \in DOMAIN t /\ \A k \in DOMAIN t : ~(k < 1) /\ ~(k > 1)
    BY <1>1
  <1>3. Effect(t[1], n, y) = z
    BY <1>1
  <1>. HIDE DEF z
  <1>4. z \in Interval
    BY DEF z
  <1>5. Leads(t, n, y, z)
    BY <1>1, <1>2, <1>3, <1>4, LeadsOnce
  <1>. QED  BY <1>5 DEF t, z

LEMMA RetuneSteps ==
  ASSUME Table(rows), QueueTypes, NEW i \in DOMAIN rows, NEW interval \in Intervals,
         SetSamplingInterval(i, interval)
  PROVE  \E t : TableStep(t)
  <1>. USE NodeServiceAssumption
  <1>. DEFINE node == rows[i].node
              new  == [rows[i] EXCEPT !.interval = interval]
              off  == Order("unsubscribe", node)
              on   == [op |-> "subscribe", node |-> node, interval |-> interval]
              t    == IF gConnected THEN <<off>> \o <<on>> ELSE <<>>
  <1>1. rows \in Seq(TableRows) /\ Distinct(rows) /\ DOMAIN rows = 1..Len(rows) /\ Len(rows) \in Nat
    BY LenProperties DEF Table
  <1>2. rows[i] \in TableRows
    BY <1>1
  <1>3. /\ node \in Nodes /\ new \in TableRows /\ new.node = node /\ new.server = rows[i].server
        /\ new.interval = interval /\ new.value = rows[i].value
    BY <1>2 DEF TableRows
  <1>4. rows' = [rows EXCEPT ![i] = new] /\ contested' = contested \cup Shared(rows')
    BY DEF SetSamplingInterval, SetRows
  <1>5. cmds' = cmds \o t
    <2>1. Subscribe(new) = on
      BY <1>3 DEF Subscribe
    <2>2. Resubscribe(new) = <<off, on>>
      BY <1>3, <2>1 DEF Resubscribe
    <2>3. <<off, on>> = <<off>> \o <<on>>
      OBVIOUS
    <2>. QED  BY <2>2, <2>3 DEF SetSamplingInterval, Post
  <1>6. /\ off \in Commands /\ off.op = "unsubscribe" /\ off.node = node
        /\ on \in Commands /\ on.op = "subscribe" /\ on.node = node /\ on.interval = interval
    BY <1>3, CommandsMade DEF Order
  <1>. HIDE DEF off, on, new, node
  <1>7. t \in Seq(Commands) /\ \A d \in Range(t) : d.op \in {"subscribe", "unsubscribe"} /\ gConnected
    <2>1. CASE gConnected
      <3>1. /\ <<off>> \in Seq(Commands) /\ Range(<<off>>) = {off}
            /\ <<on>> \in Seq(Commands) /\ Range(<<on>>) = {on}
        BY <1>6, SentOne
      <3>. DEFINE a == <<off>>
      <3>2. a \in Seq(Commands) /\ Range(a) = {off}
        BY <3>1
      <3>. HIDE DEF a
      <3>3. a \o <<on>> \in Seq(Commands) /\ Range(a \o <<on>>) = Range(a) \cup {on}
        BY <1>6, <3>2, SentOneMore
      <3>. QED  BY <1>6, <2>1, <3>2, <3>3 DEF a
    <2>2. CASE ~gConnected
      BY <2>2 DEF Range
    <2>. QED  BY <2>1, <2>2
  <1>8. /\ rows' \in Seq(TableRows) /\ DOMAIN rows' = DOMAIN rows
        /\ rows'[i] = new /\ \A k \in DOMAIN rows : k # i => rows'[k] = rows[k]
    BY <1>1, <1>3, <1>4
  <1>9. \A k \in DOMAIN rows : /\ rows'[k].node = rows[k].node
                               /\ rows'[k].server = rows[k].server
                               /\ rows'[k].value = rows[k].value
    BY <1>3, <1>8 DEF node
  <1>10. Distinct(rows')
    BY <1>1, <1>8, <1>9 DEF Distinct
  <1>11. ASSUME gConnected, Shared(rows) \subseteq contested,
                NEW n \in Nodes \ contested', NEW y \in Interval, Wanted(rows, n, y)
         PROVE  \E z \in Interval : Leads(t, n, y, z) /\ Wanted(rows', n, z)
    <2>1. n \in Nodes \ Shared(rows)
      BY <1>4, <1>11
    <2>2. t = <<off>> \o <<on>>
      BY <1>11
    <2>3. <<off>> \in Seq(Commands) /\ <<on>> \in Seq(Commands)
      BY <1>6, SentOne
    <2>. HIDE DEF t
    <2>4. CASE n = node
      <3>1. Effect(off, n, y) = None /\ Effect(on, n, None) = interval
        BY <1>6, <2>4 DEF Effect
      <3>2. None \in Interval /\ interval \in Interval
        BY DEF Interval
      <3>3. Leads(<<off>>, n, y, None) /\ Leads(<<on>>, n, None, interval)
        BY <1>6, <3>1, <3>2, LeadsOne
      <3>4. Leads(t, n, y, interval)
        BY <2>2, <2>3, <3>3, LeadsOn
      <3>5. ASSUME NEW k \in DOMAIN rows', rows'[k].node = n  PROVE rows'[k] = new
        <4>1. k \in DOMAIN rows /\ rows[k].node = n /\ rows[i].node = n
          BY <1>8, <1>9, <2>4, <3>5 DEF node
        <4>2. k = i
          BY <1>1, <2>1, <4>1, OneRow
        <4>. QED  BY <1>8, <4>2
      <3>6. Named(rows', n) = {new}
        <4>1. i \in DOMAIN rows' /\ rows'[i] = new /\ new.node = n
          BY <1>3, <1>8, <2>4
        <4>. QED  BY <3>5, <4>1 DEF Named, Range
      <3>7. Wanted(rows', n, interval)
        BY <1>3, <3>6 DEF Wanted
      <3>. QED  BY <3>2, <3>4, <3>7
    <2>5. CASE n # node
      <3>1. Effect(off, n, y) = y /\ Effect(on, n, y) = y
        BY <1>6, <2>5 DEF Effect
      <3>2. Leads(<<off>>, n, y, y) /\ Leads(<<on>>, n, y, y)
        BY <1>6, <3>1, LeadsOne
      <3>3. Leads(t, n, y, y)
        BY <2>2, <2>3, <3>2, LeadsOn
      <3>4. Named(rows', n) = Named(rows, n)
        <4>1. \A k \in DOMAIN rows : rows[k].node = n \/ rows'[k].node = n => rows'[k] = rows[k]
          <5>1. rows[i].node # n /\ rows'[i].node # n
            BY <1>3, <1>8, <2>5 DEF node
          <5>. QED  BY <1>8, <5>1
        <4>. QED  BY <1>8, <4>1 DEF Named, Range
      <3>5. Wanted(rows', n, y)
        BY <1>11, <3>4 DEF Wanted
      <3>. QED  BY <3>3, <3>5
    <2>. QED  BY <2>4, <2>5
  <1>12. ASSUME NEW r \in Range(rows')  PROVE \E q \in Range(rows) : r.value = q.value
    BY <1>8, <1>9, <1>12 DEF Range
  <1>13. TableStep(t)
    BY <1>5, <1>7, <1>8, <1>10, <1>11, <1>12 DEF TableStep, Table
  <1>. QED  BY <1>13

(* The facade learns that the session is up: every row is asked for.         *)
LEMMA AllAsked ==
  ASSUME Table(rows)
  PROVE  LET t == [i \in DOMAIN rows |-> Subscribe(rows[i])]
         IN /\ t \in Seq(Commands) /\ \A d \in Range(t) : d.op = "subscribe"
            /\ \A n \in Nodes \ Shared(rows) :
                 \E z \in Interval : Leads(t, n, None, z) /\ Wanted(rows, n, z)
  <1>. USE NodeServiceAssumption
  <1>. DEFINE t == [i \in DOMAIN rows |-> Subscribe(rows[i])]
  <1>1. rows \in Seq(TableRows) /\ DOMAIN rows = 1..Len(rows) /\ Len(rows) \in Nat
    BY LenProperties DEF Table
  <1>2. \A i \in DOMAIN rows : rows[i].node \in Nodes /\ rows[i].interval \in Intervals
    <2>1. \A i \in DOMAIN rows : rows[i] \in TableRows
      BY <1>1
    <2>. QED  BY <2>1 DEF TableRows
  <1>3. ASSUME NEW i \in DOMAIN rows
        PROVE  /\ Subscribe(rows[i]) \in Commands /\ Subscribe(rows[i]).op = "subscribe"
               /\ Subscribe(rows[i]).node = rows[i].node
               /\ Subscribe(rows[i]).interval = rows[i].interval
    BY <1>2, CommandsMade DEF Subscribe
  <1>4. /\ t \in Seq(Commands) /\ DOMAIN t = DOMAIN rows
        /\ \A i \in DOMAIN rows : t[i] = Subscribe(rows[i])
    BY <1>1, <1>3
  <1>. HIDE DEF t
  <1>5. \A d \in Range(t) : d.op = "subscribe"
    BY <1>3, <1>4 DEF Range
  <1>6. ASSUME NEW n \in Nodes \ Shared(rows)
        PROVE  \E z \in Interval : Leads(t, n, None, z) /\ Wanted(rows, n, z)
    <2>1. CASE \E i \in DOMAIN rows : rows[i].node = n
      <3>1. PICK p \in DOMAIN rows : rows[p].node = n
        BY <2>1
      <3>. DEFINE z == rows[p].interval
      <3>2. z \in Interval /\ None \in Interval
        BY <1>2 DEF Interval
      <3>3. \A k \in DOMAIN rows : k # p => rows[k].node # n
        BY <1>1, <1>6, <3>1, OneRow
      <3>4. Effect(t[p], n, None) = z
        BY <1>3, <1>4, <3>1 DEF Effect
      <3>5. ASSUME NEW k \in DOMAIN t, k # p, NEW x  PROVE Effect(t[k], n, x) = x
        BY <1>3, <1>4, <3>3, <3>5 DEF Effect
      <3>6. \A r \in Named(rows, n) : r = rows[p]
        BY <3>3 DEF Named, Range
      <3>7. Wanted(rows, n, z)
        <4>1. rows[p] \in Named(rows, n)
          BY <3>1 DEF Named, Range
        <4>. QED  BY <3>6, <4>1 DEF Wanted
      <3>. HIDE DEF z
      <3>8. p \in DOMAIN t /\ \A k \in DOMAIN t : k < p \/ k > p => k # p
        BY <1>1, <1>4
      <3>9. \A k \in DOMAIN t : /\ k < p => Effect(t[k], n, None) = None
                                /\ k > p => Effect(t[k], n, z) = z
        BY <3>5, <3>8
      <3>10. Leads(t, n, None, z)
        BY <1>4, <3>2, <3>4, <3>8, <3>9, LeadsOnce
      <3>. QED  BY <3>2, <3>7, <3>10
    <2>2. CASE ~ \E i \in DOMAIN rows : rows[i].node = n
      <3>1. Wanted(rows, n, None)
        BY <2>2 DEF Wanted, Named, Range
      <3>2. \A d \in Range(t) : Effect(d, n, None) = None
        <4>1. \A i \in DOMAIN t : Effect(t[i], n, None) = None
          BY <1>3, <1>4, <2>2 DEF Effect
        <4>. QED  BY <4>1 DEF Range
      <3>3. Leads(t, n, None, None)
        BY <1>4, <3>2, LeadsStill DEF Interval
      <3>. QED  BY <3>1, <3>3 DEF Interval
    <2>. QED  BY <2>1, <2>2
  <1>. QED  BY <1>4, <1>5, <1>6 DEF t

-----------------------------------------------------------------------------
(* Types: the facade.                                                      *)

TableAct ==
  \/ \E nodes \in SUBSET Nodes : Tick(nodes)
  \/ \E n \in Nodes : Untick(n)
  \/ \E is \in SUBSET DOMAIN rows : RemoveNodes(is)
  \/ \E i \in DOMAIN rows, interval \in Intervals : SetSamplingInterval(i, interval)

GuiTypes ==
  /\ gConnected \in BOOLEAN /\ asking \in BOOLEAN /\ browsed \in BOOLEAN
  /\ current \in Servers \cup {None}
  /\ Table(rows)
  /\ paused \in BOOLEAN /\ trend \subseteq Nodes /\ contested \subseteq Nodes
  /\ selected \in Nodes \cup {None} /\ nextId \in Nat
  /\ pending \in [Panels -> 0..nextId] /\ heard \in [Panels -> 0..nextId]
  /\ shown \in [Panels -> Nodes \cup {None}]
  /\ cut \in BOOLEAN /\ userSteps \in 0..MaxUserSteps

LEMMA TypesSplit == Types <=> ServiceTypeOK /\ GuiTypes /\ QueueTypes
  BY DEF Types, TypeOK, GuiTypes, QueueTypes, Table, Distinct

LEMMA TypesSplitNext == Types' <=> ServiceTypeOK' /\ GuiTypes' /\ QueueTypes'
  BY TypesSplit, PTL

LEMMA Acting ==
  ASSUME GuiTypes, UserActs \/ UserReads
  PROVE  userSteps' \in 0..MaxUserSteps
  <1>1. userSteps \in Nat /\ userSteps \in 0..MaxUserSteps /\ MaxUserSteps \in Nat /\ nextId \in Nat
    BY StepsAssumption DEF GuiTypes
  <1>. QED  BY <1>1 DEF UserActs, UserReads

LEMMA TableActs ==
  ASSUME GuiTypes, QueueTypes, SessionInv, TableAct
  PROVE  /\ \E t : TableStep(t)
         /\ evts' = evts /\ trend' \subseteq trend /\ paused' = paused
         /\ UNCHANGED <<linkVars, panelVars>>
         /\ contested' = contested \cup Shared(rows')
         /\ userSteps' \in 0..MaxUserSteps
  <1>1. Table(rows)
    BY DEF GuiTypes
  <1>2. ASSUME NEW nodes \in SUBSET Nodes, Tick(nodes)
        PROVE  /\ \E t : TableStep(t)
               /\ evts' = evts /\ trend' \subseteq trend /\ paused' = paused
               /\ UNCHANGED <<linkVars, panelVars>>
               /\ contested' = contested \cup Shared(rows')
               /\ UserActs
    <2>1. current \in Servers
      BY <1>2 DEF Tick, SessionInv
    <2>2. \E t : TableStep(t)
      BY <1>1, <1>2, <2>1, TickSteps
    <2>. QED  BY <1>2, <2>2 DEF Tick, SetRows
  <1>3. ASSUME NEW n \in Nodes, Untick(n)
        PROVE  /\ \E t : TableStep(t)
               /\ evts' = evts /\ trend' \subseteq trend /\ paused' = paused
               /\ UNCHANGED <<linkVars, panelVars>>
               /\ contested' = contested \cup Shared(rows')
               /\ UserActs
    <2>1. \E t : TableStep(t)
      BY <1>1, <1>3, UntickSteps
    <2>. QED  BY <1>3, <2>1 DEF Untick, SetRows
  <1>4. ASSUME NEW is \in SUBSET DOMAIN rows, RemoveNodes(is)
        PROVE  /\ \E t : TableStep(t)
               /\ evts' = evts /\ trend' \subseteq trend /\ paused' = paused
               /\ UNCHANGED <<linkVars, panelVars>>
               /\ contested' = contested \cup Shared(rows')
               /\ UserActs
    <2>1. (\E t : TableStep(t)) /\ trend' \subseteq trend
      BY <1>1, <1>4, RemoveSteps
    <2>. QED  BY <1>4, <2>1 DEF RemoveNodes, SetRows
  <1>5. ASSUME NEW i \in DOMAIN rows, NEW interval \in Intervals, SetSamplingInterval(i, interval)
        PROVE  /\ \E t : TableStep(t)
               /\ evts' = evts /\ trend' \subseteq trend /\ paused' = paused
               /\ UNCHANGED <<linkVars, panelVars>>
               /\ contested' = contested \cup Shared(rows')
               /\ UserActs
    <2>1. \E t : TableStep(t)
      BY <1>1, <1>5, RetuneSteps
    <2>. QED  BY <1>5, <2>1 DEF SetSamplingInterval, SetRows
  <1>6. /\ \E t : TableStep(t)
        /\ evts' = evts /\ trend' \subseteq trend /\ paused' = paused
        /\ UNCHANGED <<linkVars, panelVars>>
        /\ contested' = contested \cup Shared(rows')
        /\ UserActs
    BY <1>2, <1>3, <1>4, <1>5, Zenon DEF TableAct
  <1>. QED  BY <1>6, Acting

(* The commands of the other actions.                                       *)
LEMMA OneAndOne ==
  ASSUME NEW c, NEW d
  PROVE  <<c, d>> = <<c>> \o <<d>>
  <1>. DEFINE p == <<c, d>>
              r == <<c>> \o <<d>>
  <1>1. /\ p \in Seq({c, d}) /\ Len(p) = 2 /\ DOMAIN p = 1..2 /\ p[1] = c /\ p[2] = d
        /\ <<c>> \in Seq({c, d}) /\ Len(<<c>>) = 1 /\ DOMAIN <<c>> = {1} /\ <<c>>[1] = c
    OBVIOUS
  <1>2. /\ r \in Seq({c, d}) /\ Len(r) = Len(<<c>>) + 1
        /\ \A k \in 1..Len(<<c>>) : r[k] = <<c>>[k]
        /\ r[Len(<<c>>) + 1] = d
    <2>. DEFINE a == <<c>>
    <2>1. a \in Seq({c, d}) /\ d \in {c, d}
      BY <1>1
    <2>. HIDE DEF a
    <2>2. /\ a \o <<d>> \in Seq({c, d}) /\ Len(a \o <<d>>) = Len(a) + 1
          /\ \A k \in 1..Len(a) : (a \o <<d>>)[k] = a[k]
          /\ (a \o <<d>>)[Len(a) + 1] = d
      BY <2>1, SentOneMore
    <2>. QED  BY <2>2 DEF a
  <1>. HIDE DEF p, r
  <1>3. Len(r) = 2 /\ r[1] = c /\ r[2] = d
    BY <1>1, <1>2
  <1>4. p = r
    <2>1. \A i \in 1..Len(p) : p[i] = r[i]
      BY <1>1, <1>3
    <2>. QED  BY <1>1, <1>2, <1>3, <2>1, SeqEqual
  <1>. QED  BY <1>4 DEF p, r

LEMMA SentTwo ==
  ASSUME NEW q \in Seq(Commands), NEW c \in Commands, NEW d \in Commands
  PROVE  /\ <<c, d>> \in Seq(Commands) /\ Range(<<c, d>>) = {c, d}
         /\ DOMAIN <<c, d>> = {1, 2} /\ <<c, d>>[1] = c /\ <<c, d>>[2] = d
         /\ q \o <<c, d>> = (q \o <<c>>) \o <<d>>
  <1>1. <<c, d>> \in Seq(Commands) /\ DOMAIN <<c, d>> = {1, 2} /\ <<c, d>>[1] = c /\ <<c, d>>[2] = d
    OBVIOUS
  <1>2. q \o <<c, d>> = (q \o <<c>>) \o <<d>>
    <2>1. <<c, d>> = <<c>> \o <<d>>
      BY OneAndOne
    <2>2. <<c>> \in Seq(Commands) /\ <<d>> \in Seq(Commands)
      OBVIOUS
    <2>3. (q \o <<c>>) \o <<d>> = q \o (<<c>> \o <<d>>)
      BY <2>2, ConcatAssociative
    <2>. QED  BY <2>1, <2>3
  <1>. QED  BY <1>1, <1>2 DEF Range

AskTypes(t) == t \in Seq(Commands) /\ cmds' = cmds \o t /\ evts' = evts /\ GuiTypes'

LEMMA OneCommand ==
  ASSUME NEW c \in Commands
  PROVE  <<c>> \in Seq(Commands) /\ Range(<<c>>) = {c}
  BY SentOne

LEMMA ConnectAsked ==
  ASSUME GuiTypes, NEW s \in Servers, AskConnect(s)
  PROVE  AskTypes(<<[op |-> "connect", server |-> s]>>)
  <1>1. <<[op |-> "connect", server |-> s]>> \in Seq(Commands)
    BY CommandsMade, OneCommand
  <1>2. userSteps' \in 0..MaxUserSteps
    BY Acting DEF AskConnect
  <1>. QED
    BY <1>1, <1>2 DEF AskConnect, AskTypes, Post, GuiTypes, tableVars, panelVars, Table, Distinct

LEMMA DisconnectAsked ==
  ASSUME GuiTypes, AskDisconnect
  PROVE  AskTypes(<<[op |-> "disconnect"]>>)
  <1>1. <<[op |-> "disconnect"]>> \in Seq(Commands)
    BY CommandsMade, OneCommand
  <1>2. userSteps' \in 0..MaxUserSteps
    BY Acting DEF AskDisconnect
  <1>. QED
    BY <1>1, <1>2
       DEF AskDisconnect, AskTypes, Post, GuiTypes, linkVars, tableVars, panelVars, Table, Distinct

LEMMA StoredTable ==
  ASSUME NEW rs \in StoredRows
  PROVE  Table(rs) /\ \A i \in DOMAIN rs : rs[i].value = None
  <1>. DEFINE Empty == [server : Servers, node : Nodes, interval : Intervals, value : {None}]
  <1>1. rs \in Seq(Empty)
    BY StoredRowsAssumption
  <1>2. \A r \in Empty : r \in TableRows /\ r.value = None
    BY DEF TableRows
  <1>. HIDE DEF Empty
  <1>3. rs \in Seq(TableRows) /\ \A i \in DOMAIN rs : rs[i].value = None
    BY <1>1, <1>2
  <1>. QED  BY <1>2, <1>3, StoredRowsAssumption DEF Table, Distinct

LEMMA ProjectSwitched ==
  ASSUME GuiTypes, NEW rs \in StoredRows, SwitchProject(rs)
  PROVE  AskTypes(IF gConnected THEN <<[op |-> "disconnect"]>> ELSE <<>>)
  <1>1. (IF gConnected THEN <<[op |-> "disconnect"]>> ELSE <<>>) \in Seq(Commands)
    BY CommandsMade, OneCommand
  <1>2. userSteps' \in 0..MaxUserSteps
    BY Acting DEF SwitchProject
  <1>3. Table(rs)
    BY StoredTable
  <1>4. shown' \in [Panels -> Nodes \cup {None}]
    BY DEF SwitchProject, GuiTypes
  <1>5. contested' \subseteq Nodes
    BY DEF SwitchProject, SetRows, Shared, GuiTypes
  <1>. QED
    BY <1>1, <1>2, <1>3, <1>4, <1>5
       DEF SwitchProject, SetRows, AskTypes, Post, GuiTypes, Table, Distinct

LEMMA Paused ==
  ASSUME GuiTypes, PauseUpdates
  PROVE  cmds' = cmds /\ evts' = evts /\ GuiTypes'
  <1>1. userSteps' \in 0..MaxUserSteps
    BY Acting DEF PauseUpdates
  <1>. QED
    BY <1>1 DEF PauseUpdates, GuiTypes, linkVars, panelVars, Table, Distinct

LEMMA WriteAsked ==
  ASSUME GuiTypes, NEW i \in DOMAIN rows, WriteValue(i)
  PROVE  AskTypes(<<Order("write", rows[i].node)>>)
  <1>1. rows[i] \in TableRows
    BY DEF GuiTypes, Table
  <1>2. <<Order("write", rows[i].node)>> \in Seq(Commands)
    BY <1>1, CommandsMade, OneCommand DEF TableRows
  <1>3. userSteps' \in 0..MaxUserSteps
    BY Acting DEF WriteValue
  <1>. QED
    BY <1>2, <1>3
       DEF WriteValue, AskTypes, Post, GuiTypes, linkVars, tableVars, panelVars, Table, Distinct

LEMMA NodeSelected ==
  ASSUME GuiTypes, NEW n \in Nodes, SelectNode(n)
  PROVE  AskTypes(<<ReadOrder("readAttributes", n, nextId + 1), ReadOrder("readStructured", n, nextId + 1)>>)
  <1>. DEFINE id == nextId + 1
  <1>0. nextId \in Nat /\ id \in Nat
    BY DEF GuiTypes
  <1>1. nextId' = id
    BY DEF SelectNode
  <1>2. <<ReadOrder("readAttributes", n, id), ReadOrder("readStructured", n, id)>> \in Seq(Commands)
    <2>1. ReadOrder("readAttributes", n, id) \in Commands /\ ReadOrder("readStructured", n, id) \in Commands
      BY <1>0, CommandsMade
    <2>. QED  BY <2>1
  <1>3. userSteps' \in 0..MaxUserSteps
    BY Acting DEF SelectNode
  <1>4. pending' \in [Panels -> 0..nextId'] /\ heard' \in [Panels -> 0..nextId']
    BY <1>0 DEF SelectNode, GuiTypes
  <1>5. cmds' = cmds \o <<ReadOrder("readAttributes", n, id), ReadOrder("readStructured", n, id)>>
    BY <1>1 DEF SelectNode, Post
  <1>. HIDE DEF id
  <1>6. GuiTypes'
    BY <1>0, <1>1, <1>3, <1>4 DEF SelectNode, GuiTypes, linkVars, tableVars, Table, Distinct
  <1>. QED  BY <1>2, <1>5, <1>6 DEF SelectNode, AskTypes, id

LEMMA ValueRefreshed ==
  ASSUME GuiTypes, RefreshStructuredValue
  PROVE  AskTypes(<<ReadOrder("readStructured", selected, nextId + 1)>>)
  <1>. DEFINE id == nextId + 1
  <1>0. nextId \in Nat /\ id \in Nat /\ selected \in Nodes
    BY DEF GuiTypes, RefreshStructuredValue
  <1>1. nextId' = id
    BY DEF RefreshStructuredValue
  <1>2. <<ReadOrder("readStructured", selected, id)>> \in Seq(Commands)
    BY <1>0, CommandsMade, OneCommand
  <1>3. userSteps' \in 0..MaxUserSteps
    BY Acting DEF RefreshStructuredValue
  <1>4. pending' \in [Panels -> 0..nextId'] /\ heard' \in [Panels -> 0..nextId']
    <2>1. 0..nextId \subseteq 0..nextId' /\ nextId' \in 0..nextId'
      BY <1>0, <1>1
    <2>2. pending \in [Panels -> 0..nextId'] /\ heard \in [Panels -> 0..nextId']
      BY <2>1 DEF GuiTypes
    <2>3. pending' = [pending EXCEPT !["value"] = nextId'] /\ heard' = heard
      BY DEF RefreshStructuredValue
    <2>. QED  BY <2>1, <2>2, <2>3
  <1>5. cmds' = cmds \o <<ReadOrder("readStructured", selected, id)>>
    BY <1>1 DEF RefreshStructuredValue, Post
  <1>. HIDE DEF id
  <1>6. GuiTypes'
    BY <1>0, <1>1, <1>3, <1>4 DEF RefreshStructuredValue, GuiTypes, linkVars, tableVars, Table, Distinct
  <1>. QED  BY <1>2, <1>5, <1>6 DEF RefreshStructuredValue, AskTypes, id

(* Only values change: the table and what it asks of the service stay.       *)
Refilled ==
  /\ rows' \in Seq(TableRows) /\ DOMAIN rows' = DOMAIN rows
  /\ \A i \in DOMAIN rows : /\ rows'[i].node = rows[i].node /\ rows'[i].server = rows[i].server
                            /\ rows'[i].interval = rows[i].interval

LEMMA RefilledSame ==
  ASSUME Table(rows), Refilled
  PROVE  /\ Table(rows') /\ Shared(rows') = Shared(rows)
         /\ \A n, y : Wanted(rows, n, y) => Wanted(rows', n, y)
  <1>1. Table(rows')
    BY DEF Table, Distinct, Refilled
  <1>2. \A n : RowsOf(rows', n) = RowsOf(rows, n)
    BY DEF RowsOf, Refilled
  <1>3. Shared(rows') = Shared(rows)
    BY <1>2 DEF Shared
  <1>4. ASSUME NEW n, NEW y, Wanted(rows, n, y)  PROVE Wanted(rows', n, y)
    <2>1. ASSUME NEW r \in Named(rows', n)
          PROVE  \E q \in Named(rows, n) : q.interval = r.interval
      <3>1. PICK i \in DOMAIN rows : rows'[i] = r /\ r.node = n
        BY <2>1 DEF Named, Range, Refilled
      <3>2. rows[i] \in Named(rows, n) /\ rows[i].interval = r.interval
        BY <3>1 DEF Named, Range, Refilled
      <3>. QED  BY <3>2
    <2>2. ASSUME NEW q \in Named(rows, n)  PROVE Named(rows', n) # {}
      <3>1. PICK i \in DOMAIN rows : rows[i] = q /\ q.node = n
        BY <2>2 DEF Named, Range
      <3>2. rows'[i] \in Named(rows', n)
        BY <3>1 DEF Named, Range, Refilled
      <3>. QED  BY <3>2
    <2>3. CASE Named(rows, n) = {}
      <3>1. Named(rows', n) = {}
        BY <2>1, <2>3
      <3>. QED  BY <1>4, <2>3, <3>1 DEF Wanted
    <2>4. CASE Named(rows, n) # {}
      <3>1. Named(rows', n) # {}
        BY <2>2, <2>4
      <3>2. \A q \in Named(rows, n) : y = q.interval
        BY <1>4, <2>4 DEF Wanted
      <3>3. \A r \in Named(rows', n) : y = r.interval
        BY <2>1, <3>2
      <3>. QED  BY <3>1, <3>3 DEF Wanted
    <2>. QED  BY <2>3, <2>4
  <1>. QED  BY <1>1, <1>3, <1>4

LEMMA ValueShown ==
  ASSUME Table(rows), QueueTypes, ApplyMonitoredValue
  PROVE  /\ Refilled
         /\ \A i \in DOMAIN rows : rows'[i].value \in {rows[i].value, Sig.server}
         /\ Sig.node \in Nodes /\ Sig.server \in Servers
         /\ Sig = Head(evts) /\ Sig.sig = "value" /\ evts # <<>> /\ evts' = Tail(evts)
         /\ evts' \in Seq(Signals) /\ cmds' = cmds
  <1>1. /\ evts # <<>> /\ Sig \in Signals /\ Sig.sig = "value" /\ Sig = Head(evts)
        /\ evts' = Tail(evts) /\ evts' \in Seq(Signals)
    BY Delivered DEF ApplyMonitoredValue, QueueTypes
  <1>2. Sig.node \in Nodes /\ Sig.server \in Servers
    BY <1>1, SignalFields
  <1>3. rows \in Seq(TableRows) /\ \A i \in DOMAIN rows : rows[i] \in TableRows
    BY DEF Table
  <1>4. ASSUME rows' = rows
        PROVE  Refilled /\ \A i \in DOMAIN rows : rows'[i].value \in {rows[i].value, Sig.server}
    BY <1>3, <1>4 DEF Refilled
  <1>5. ASSUME NEW i \in First(RowsOf(rows, Sig.node)), rows' = [rows EXCEPT ![i].value = Sig.server]
        PROVE  Refilled /\ \A k \in DOMAIN rows : rows'[k].value \in {rows[k].value, Sig.server}
    <2>. DEFINE new == [rows[i] EXCEPT !.value = Sig.server]
    <2>1. i \in DOMAIN rows
      BY DEF First, RowsOf
    <2>2. /\ new \in TableRows /\ new.node = rows[i].node /\ new.server = rows[i].server
          /\ new.interval = rows[i].interval /\ new.value = Sig.server
      BY <1>2, <1>3, <2>1 DEF TableRows
    <2>3. rows' = [rows EXCEPT ![i] = new]
      BY <1>5
    <2>. HIDE DEF new
    <2>4. /\ rows' \in Seq(TableRows) /\ DOMAIN rows' = DOMAIN rows
          /\ rows'[i] = new /\ \A k \in DOMAIN rows : k # i => rows'[k] = rows[k]
      BY <1>3, <2>1, <2>2, <2>3
    <2>. QED  BY <2>2, <2>4 DEF Refilled
  <1>6. Refilled /\ \A i \in DOMAIN rows : rows'[i].value \in {rows[i].value, Sig.server}
    <2>1. rows' = rows \/ \E i \in First(RowsOf(rows, Sig.node)) :
                             rows' = [rows EXCEPT ![i].value = Sig.server]
      BY DEF ApplyMonitoredValue
    <2>2. CASE rows' = rows
      BY <1>4, <2>2
    <2>3. CASE \E i \in First(RowsOf(rows, Sig.node)) :
                  rows' = [rows EXCEPT ![i].value = Sig.server]
      BY <1>5, <2>3
    <2>. QED  BY <2>1, <2>2, <2>3
  <1>. QED  BY <1>1, <1>2, <1>6 DEF ApplyMonitoredValue

(* The facade takes up the news that the session is up, or down.            *)
LEMMA SessionNews ==
  ASSUME GuiTypes, QueueTypes, ConnectedChanged
  PROVE  /\ evts # <<>> /\ Sig = Head(evts) /\ Sig.sig = "connected"
         /\ Sig.server \in Servers \cup {None}
         /\ evts' = Tail(evts) /\ evts' \in Seq(Signals) /\ Range(evts) = {Sig} \cup Range(evts')
         /\ Refilled /\ cmds' \in Seq(Commands)
         /\ \A i \in DOMAIN rows : rows'[i].value \in {rows[i].value, None}
         /\ (Sig.server = None) /\ gConnected =>
              /\ cmds' = cmds /\ trend' = {} /\ ~gConnected' /\ ~browsed' /\ cut'
              /\ \A i \in DOMAIN rows : rows'[i].value = None
         /\ (Sig.server # None) /\ ~gConnected =>
              /\ cmds' = cmds \o [i \in DOMAIN rows |-> Subscribe(rows[i])]
              /\ rows' = rows /\ trend' = trend /\ shown' = shown /\ cut' = cut
              /\ contested' = Shared(rows) /\ gConnected' /\ browsed'
         /\ ~((Sig.server = None) /\ gConnected) /\ ~((Sig.server # None) /\ ~gConnected) =>
              UNCHANGED <<gConnected, browsed, rows, trend, contested, shown, cut, cmds>>
         /\ \A panel \in Panels : shown'[panel] \in {shown[panel], None}
         /\ shown' \in [Panels -> Nodes \cup {None}] /\ cut' \in BOOLEAN
         /\ contested' \subseteq Nodes /\ trend' \subseteq trend
  <1>1. /\ evts # <<>> /\ Sig \in Signals /\ Sig.sig = "connected" /\ Sig = Head(evts)
        /\ evts' = Tail(evts) /\ evts' \in Seq(Signals) /\ Range(evts) = {Sig} \cup Range(evts')
    BY Delivered DEF ConnectedChanged, QueueTypes
  <1>2. Sig.server \in Servers \cup {None}
    BY <1>1, SignalFields
  <1>. DEFINE up == Sig.server # None
  <1>3. rows \in Seq(TableRows) /\ \A i \in DOMAIN rows : rows[i] \in TableRows
    BY DEF Table, GuiTypes
  <1>4. gConnected \in BOOLEAN /\ up \in BOOLEAN
    BY DEF GuiTypes
  <1>5. rows' = rows => Refilled /\ \A i \in DOMAIN rows : rows'[i].value \in {rows[i].value, None}
    BY <1>3 DEF Refilled
  <1>6. CASE up = gConnected
    <2>1. UNCHANGED <<gConnected, browsed, rows, trend, contested, shown, cut, cmds>>
      BY <1>6 DEF ConnectedChanged
    <2>. QED  BY <1>1, <1>2, <1>4, <1>5, <1>6, <2>1 DEF GuiTypes, QueueTypes
  <1>7. CASE up /\ ~gConnected
    <2>1. gConnected' = up /\ browsed' = up /\ ApplyConnected(up)
      BY <1>7 DEF ConnectedChanged
    <2>. DEFINE t == [i \in DOMAIN rows |-> Subscribe(rows[i])]
    <2>2. /\ cmds' = cmds \o t /\ contested' = Shared(rows)
          /\ UNCHANGED <<rows, trend, shown, cut>> /\ gConnected' /\ browsed'
      BY <1>7, <2>1 DEF ApplyConnected, Post
    <2>3. t \in Seq(Commands)
      BY AllAsked DEF GuiTypes
    <2>. HIDE DEF t
    <2>4. cmds' \in Seq(Commands)
      BY <2>2, <2>3, AppendedQueue DEF QueueTypes
    <2>5. Shared(rows) \subseteq Nodes
      BY DEF Shared
    <2>. QED  BY <1>1, <1>2, <1>5, <1>7, <2>2, <2>4, <2>5 DEF GuiTypes, t
  <1>8. CASE ~up /\ gConnected
    <2>1. gConnected' = up /\ browsed' = up /\ ApplyConnected(up)
      BY <1>8 DEF ConnectedChanged
    <2>2. /\ rows' = [i \in DOMAIN rows |-> [rows[i] EXCEPT !.value = None]]
          /\ trend' = {} /\ shown' = [shown EXCEPT !["attributes"] = None]
          /\ cut' = TRUE /\ UNCHANGED <<cmds, contested>> /\ ~gConnected' /\ ~browsed'
      BY <1>8, <2>1 DEF ApplyConnected
    <2>3. ASSUME NEW i \in DOMAIN rows
          PROVE  LET r == [rows[i] EXCEPT !.value = None]
                 IN /\ r \in TableRows /\ r.node = rows[i].node /\ r.server = rows[i].server
                    /\ r.interval = rows[i].interval /\ r.value = None
      BY <1>3 DEF TableRows
    <2>4. Refilled /\ \A i \in DOMAIN rows : rows'[i].value = None
      <3>. DEFINE empty(i) == [rows[i] EXCEPT !.value = None]
      <3>1. /\ rows' = [i \in DOMAIN rows |-> empty(i)]
            /\ \A i \in DOMAIN rows :
                 /\ empty(i) \in TableRows /\ empty(i).node = rows[i].node
                 /\ empty(i).server = rows[i].server /\ empty(i).interval = rows[i].interval
                 /\ empty(i).value = None
        BY <2>2, <2>3
      <3>2. DOMAIN rows = 1..Len(rows) /\ Len(rows) \in Nat
        BY <1>3, LenProperties
      <3>. HIDE DEF empty
      <3>3. rows' \in Seq(TableRows) /\ DOMAIN rows' = DOMAIN rows
        BY <3>1, <3>2
      <3>. QED  BY <3>1, <3>3 DEF Refilled
    <2>5. /\ shown' \in [Panels -> Nodes \cup {None}]
          /\ \A panel \in Panels : shown'[panel] \in {shown[panel], None}
      BY <2>2 DEF GuiTypes
    <2>. QED  BY <1>1, <1>2, <1>8, <2>2, <2>4, <2>5 DEF GuiTypes, QueueTypes
  <1>. QED  BY <1>4, <1>6, <1>7, <1>8

LEMMA SignalTypes ==
  ASSUME GuiTypes, QueueTypes, GuiNext
  PROVE  GuiTypes' /\ QueueTypes'
  <1>1. CASE ConnectedChanged
    <2>1. Table(rows')
      BY <1>1, SessionNews, RefilledSame DEF GuiTypes
    <2>2. /\ evts' \in Seq(Signals) /\ cmds' \in Seq(Commands)
          /\ shown' \in [Panels -> Nodes \cup {None}] /\ cut' \in BOOLEAN
          /\ contested' \subseteq Nodes /\ trend' \subseteq trend
          /\ gConnected' \in BOOLEAN /\ browsed' \in BOOLEAN
      <3>1. gConnected' \in BOOLEAN /\ browsed' \in BOOLEAN
        BY <1>1 DEF ConnectedChanged, GuiTypes
      <3>. QED  BY <1>1, <3>1, SessionNews, Zenon
    <2>. QED  BY <1>1, <2>1, <2>2 DEF ConnectedChanged, GuiTypes, QueueTypes
  <1>2. CASE ApplyMonitoredValue
    <2>1. Table(rows') /\ evts' \in Seq(Signals) /\ cmds' = cmds /\ Sig.node \in Nodes
      BY <1>2, ValueShown, RefilledSame DEF GuiTypes
    <2>. QED
      BY <1>2, <2>1 DEF ApplyMonitoredValue, GuiTypes, QueueTypes, linkVars, panelVars
  <1>3. CASE ApplyWriteCompleted
    <2>1. evts' \in Seq(Signals)
      BY <1>3, Delivered DEF ApplyWriteCompleted, QueueTypes
    <2>. QED
      BY <1>3, <2>1 DEF ApplyWriteCompleted, GuiTypes, QueueTypes, linkVars, tableVars, panelVars,
                        Table, Distinct
  <1>4. CASE ApplyRead
    <2>1. evts' \in Seq(Signals) /\ Sig \in Signals /\ Sig.sig = "read"
      BY <1>4, Delivered DEF ApplyRead, QueueTypes
    <2>2. Sig.panel \in Panels /\ Sig.node \in Nodes
      BY <2>1, SignalFields
    <2>3. heard' \in [Panels -> 0..nextId]
      <3>1. Sig.id = pending[Sig.panel] => Sig.id \in 0..nextId
        BY <2>2 DEF GuiTypes
      <3>. QED  BY <1>4, <2>2, <3>1 DEF ApplyRead, GuiTypes
    <2>4. shown' \in [Panels -> Nodes \cup {None}]
      BY <1>4, <2>2 DEF ApplyRead, GuiTypes
    <2>. QED
      BY <1>4, <2>1, <2>3, <2>4 DEF ApplyRead, GuiTypes, QueueTypes, linkVars, tableVars,
                                    Table, Distinct
  <1>. QED  BY <1>1, <1>2, <1>3, <1>4 DEF GuiNext

OtherAct ==
  \/ \E s \in Servers : AskConnect(s)
  \/ AskDisconnect
  \/ \E rs \in StoredRows : SwitchProject(rs)
  \/ PauseUpdates
  \/ \E i \in DOMAIN rows : WriteValue(i)
  \/ \E n \in Nodes : SelectNode(n)
  \/ RefreshStructuredValue

LEMMA UserTypes ==
  ASSUME GuiTypes, QueueTypes, SessionInv, UserNext
  PROVE  GuiTypes' /\ QueueTypes'
  <1>1. CASE TableAct
    <2>1. PICK t : TableStep(t)
      BY <1>1, TableActs
    <2>2. Table(rows') /\ cmds' \in Seq(Commands)
      BY <2>1, AppendedQueue DEF TableStep, QueueTypes
    <2>3. /\ evts' = evts /\ trend' \subseteq trend /\ paused' = paused
          /\ UNCHANGED <<linkVars, panelVars>>
          /\ contested' = contested \cup Shared(rows')
          /\ userSteps' \in 0..MaxUserSteps
      BY <1>1, TableActs
    <2>4. Shared(rows') \subseteq Nodes
      BY DEF Shared
    <2>. QED  BY <2>2, <2>3, <2>4 DEF GuiTypes, QueueTypes, linkVars, panelVars
  <1>2. ASSUME NEW t, AskTypes(t)  PROVE GuiTypes' /\ QueueTypes'
    <2>1. cmds \o t \in Seq(Commands)
      BY <1>2, AppendedQueue DEF AskTypes, QueueTypes
    <2>. QED  BY <1>2, <2>1 DEF AskTypes, QueueTypes
  <1>3. CASE OtherAct
    <2>1. CASE PauseUpdates
      BY <2>1, Paused DEF QueueTypes
    <2>2. CASE ~PauseUpdates
      <3>1. \E t : AskTypes(t)
        BY <1>3, <2>2, ConnectAsked, DisconnectAsked, ProjectSwitched, WriteAsked, NodeSelected,
           ValueRefreshed DEF OtherAct
      <3>. QED  BY <1>2, <3>1
    <2>. QED  BY <2>1, <2>2
  <1>. QED  BY <1>1, <1>3 DEF UserNext, TableAct, OtherAct

LEMMA TypesKept ==
  ASSUME Types, SessionInv, [Next]_vars
  PROVE  Types'
  <1>1. ServiceTypeOK /\ GuiTypes /\ QueueTypes
    BY TypesSplit
  <1>2. CASE (UserNext \/ GuiNext) /\ UNCHANGED <<sessionVars, watchVars, readVars>>
    <2>1. ServiceTypeOK'
      BY <1>1, <1>2 DEF ServiceTypeOK, sessionVars, watchVars, readVars, Up
    <2>. QED  BY <1>1, <1>2, <2>1, UserTypes, SignalTypes, TypesSplitNext
  <1>3. CASE ServiceNext /\ UNCHANGED guiVars
    <2>1. ServiceTypeOK' /\ QueueTypes'
      BY <1>1, <1>3, SessionTypes, WatchTypes, ReadingTypes DEF ServiceNext
    <2>2. GuiTypes'
      BY <1>1, <1>3 DEF GuiTypes, guiVars, linkVars, tableVars, panelVars, Table, Distinct
    <2>. QED  BY <2>1, <2>2, TypesSplitNext
  <1>4. CASE UNCHANGED vars
    <2>1. ServiceTypeOK' /\ QueueTypes'
      BY <1>1, <1>4 DEF ServiceTypeOK, QueueTypes, vars, svcVars, sessionVars, watchVars, readVars, Up
    <2>2. GuiTypes'
      BY <1>1, <1>4 DEF GuiTypes, vars, guiVars, linkVars, tableVars, panelVars, Table, Distinct
    <2>. QED  BY <2>1, <2>2, TypesSplitNext
  <1>. QED  BY <1>2, <1>3, <1>4 DEF Next

-----------------------------------------------------------------------------
(* Session: steps that open and end none.                                   *)

QuietCmds ==
  \/ cmds' = cmds
  \/ \E t \in Seq(Commands) : /\ cmds' = cmds \o t /\ Never("connect", t)
                              /\ gConnected \/ Never("subscribe", t)
  \/ cmds # <<>> /\ cmds' = Tail(cmds) /\ Head(cmds).op # "connect"

QuietEvts ==
  \/ evts' = evts
  \/ \E t \in Seq(Signals) :
       /\ evts' = evts \o t
       /\ \A k \in DOMAIN t : /\ t[k].sig # "connected"
                              /\ t[k].sig = "value" => Up /\ t[k].server = session
  \/ evts # <<>> /\ evts' = Tail(evts) /\ Head(evts).sig # "connected"

LEMMA QuietCommands ==
  ASSUME QueueTypes, QuietCmds
  PROVE  /\ Never("connect", cmds) => Never("connect", cmds')
         /\ ~gConnected /\ Never("subscribe", cmds) => Never("subscribe", cmds')
         /\ \A s : ~gConnected /\ OneConnect(cmds, s) => OneConnect(cmds', s)
  <1>1. CASE cmds' = cmds
    BY <1>1
  <1>2. ASSUME NEW t \in Seq(Commands), cmds' = cmds \o t, Never("connect", t),
               gConnected \/ Never("subscribe", t)
        PROVE  /\ Never("connect", cmds) => Never("connect", cmds')
               /\ ~gConnected /\ Never("subscribe", cmds) => Never("subscribe", cmds')
               /\ \A s : ~gConnected /\ OneConnect(cmds, s) => OneConnect(cmds', s)
    <2>1. cmds \in Seq(Commands)
      BY DEF QueueTypes
    <2>2. Never("connect", cmds) => Never("connect", cmds')
      BY <1>2, <2>1, NeverKept
    <2>3. ~gConnected /\ Never("subscribe", cmds) => Never("subscribe", cmds')
      BY <1>2, <2>1, NeverKept
    <2>4. ASSUME NEW s, ~gConnected, OneConnect(cmds, s)  PROVE OneConnect(cmds', s)
      BY <1>2, <2>1, <2>4, OneConnectKept
    <2>. QED  BY <2>2, <2>3, <2>4
  <1>3. CASE cmds # <<>> /\ cmds' = Tail(cmds) /\ Head(cmds).op # "connect"
    <2>1. cmds \in Seq(Commands)
      BY DEF QueueTypes
    <2>2. Never("connect", cmds) => Never("connect", cmds')
      BY <1>3, <2>1, NeverKept
    <2>3. Never("subscribe", cmds) => Never("subscribe", cmds')
      BY <1>3, <2>1, NeverKept
    <2>4. ASSUME NEW s, OneConnect(cmds, s)  PROVE OneConnect(cmds', s)
      BY <1>3, <2>1, <2>4, OneConnectKept
    <2>. QED  BY <2>2, <2>3, <2>4
  <1>. QED  BY <1>1, <1>2, <1>3 DEF QuietCmds

(* How far the session with s is, as the signals tell.                      *)
Told(s, i, j) ==
  /\ Framed(evts, s, i, j)
  /\ j > Len(evts) => session = s
  /\ j <= Len(evts) => session = None

LEMMA FramedRange ==
  ASSUME NEW q \in Seq(Signals), NEW s, NEW i, NEW j, Framed(q, s, i, j)
  PROVE  /\ i \in Nat /\ j \in Nat /\ Len(q) \in Nat /\ (j > Len(q) <=> ~(j <= Len(q)))
         /\ i \in 0..(Len(q) + 1) /\ j \in 0..(Len(q) + 1)
  <1>1. Len(q) \in Nat
    BY LenProperties
  <1>2. i \in 0..Len(q) /\ j \in 1..(Len(q) + 1)
    BY DEF Framed
  <1>. QED  BY <1>1, <1>2

LEMMA QuietSignals ==
  ASSUME QueueTypes, QuietEvts, UNCHANGED session
  PROVE  /\ ~Up /\ NoNews(evts) => NoNews(evts')
         /\ ~Up /\ OneEnd(evts) => OneEnd(evts')
         /\ \A s \in Servers, i, j \in Nat :
              Told(s, i, j) => \E k, m \in Nat : Told(s, k, m)' /\ (k = 0 <=> i = 0)
  <1>. USE NodeServiceAssumption
  <1>0. evts \in Seq(Signals)
    BY DEF QueueTypes
  <1>1. CASE evts' = evts
    BY <1>1 DEF Told
  <1>2. ASSUME NEW t \in Seq(Signals), evts' = evts \o t,
               \A k \in DOMAIN t : /\ t[k].sig # "connected"
                                   /\ t[k].sig = "value" => Up /\ t[k].server = session
        PROVE  /\ ~Up /\ NoNews(evts) => NoNews(evts')
               /\ ~Up /\ OneEnd(evts) => OneEnd(evts')
               /\ \A s \in Servers, i, j \in Nat :
                    Told(s, i, j) => \E k, m \in Nat : Told(s, k, m)' /\ (k = 0 <=> i = 0)
    <2>1. ~Up => NoNews(t)
      BY <1>2 DEF NoNews, Calm, Range
    <2>2. ~Up /\ NoNews(evts) => NoNews(evts')
      BY <1>0, <1>2, <2>1, NoNewsKept
    <2>3. ASSUME ~Up, OneEnd(evts)  PROVE OneEnd(evts')
      BY <1>0, <1>2, <2>1, <2>3, OneEndKept
    <2>4. ASSUME NEW s \in Servers, NEW i \in Nat, NEW j \in Nat, Told(s, i, j)
          PROVE  \E k, m \in Nat : Told(s, k, m)' /\ (k = 0 <=> i = 0)
      <3>1. Framed(evts, s, i, j) /\ Len(evts) \in Nat /\ (j > Len(evts) <=> ~(j <= Len(evts)))
        BY <1>0, <2>4, FramedRange DEF Told
      <3>2. \A k \in DOMAIN t : /\ t[k].sig # "connected"
                                /\ t[k].sig = "value" => j > Len(evts) /\ t[k].server = s
        BY <1>2, <2>4, <3>1 DEF Told, Up
      <3>3. PICK e : Framed(evts', s, i, e) /\ (j > Len(evts) <=> e > Len(evts'))
        BY <1>0, <1>2, <3>1, <3>2, FramedLonger
      <3>4. e \in Nat /\ (e > Len(evts') <=> ~(e <= Len(evts')))
        <4>1. evts' \in Seq(Signals)
          BY <1>0, <1>2, AppendedQueue
        <4>. QED  BY <3>3, <4>1, FramedRange
      <3>5. Told(s, i, e)'
        BY <2>4, <3>1, <3>3, <3>4 DEF Told
      <3>. QED  BY <3>4, <3>5
    <2>. QED  BY <2>2, <2>3, <2>4
  <1>3. CASE evts # <<>> /\ evts' = Tail(evts) /\ Head(evts).sig # "connected"
    <2>2. NoNews(evts) => NoNews(evts')
      BY <1>0, <1>3, NoNewsKept
    <2>3. ASSUME OneEnd(evts)  PROVE OneEnd(evts')
      BY <1>0, <1>3, <2>3, OneEndKept
    <2>4. ASSUME NEW s \in Servers, NEW i \in Nat, NEW j \in Nat, Told(s, i, j)
          PROVE  \E k, m \in Nat : Told(s, k, m)' /\ (k = 0 <=> i = 0)
      <3>1. Framed(evts, s, i, j) /\ Len(evts) \in Nat /\ (j > Len(evts) <=> ~(j <= Len(evts)))
        BY <1>0, <2>4, FramedRange DEF Told
      <3>2. PICK k \in Nat : /\ Framed(evts', s, k, j - 1) /\ (k = 0 <=> i = 0)
                             /\ (j > Len(evts) <=> j - 1 > Len(evts'))
        BY <1>0, <1>3, <3>1, FramedShorter
      <3>3. j - 1 \in Nat /\ (j - 1 > Len(evts') <=> ~(j - 1 <= Len(evts')))
        <4>1. evts' \in Seq(Signals)
          BY <1>0, <1>3, QueueTail
        <4>. QED  BY <3>2, <4>1, FramedRange
      <3>4. Told(s, k, j - 1)'
        BY <2>4, <3>1, <3>2, <3>3 DEF Told
      <3>. QED  BY <3>2, <3>3, <3>4
    <2>. QED  BY <2>2, <2>3, <2>4
  <1>. QED  BY <1>1, <1>2, <1>3 DEF QuietEvts

(* A node that was not monitored is so still, unless it was asked for.       *)
QuietWatch ==
  \/ \A n \in Nodes : monitored'[n] \in {monitored[n], None}
  \/ Up /\ cmds # <<>> /\ Head(cmds).op = "subscribe"

Phase == Unasked \/ Asked \/ Opening \/ Failed \/ \E i, j \in Nat : Open(i, j)

LEMMA PhaseRange ==
  ASSUME QueueTypes
  PROVE  Phase <=> Unasked \/ Asked \/ Opening \/ Failed \/ \E i, j \in 0..(Len(evts) + 1) : Open(i, j)
  <1>1. evts \in Seq(Signals) /\ Len(evts) \in Nat
    BY LenProperties DEF QueueTypes
  <1>2. ASSUME NEW i, NEW j, Open(i, j)
        PROVE  i \in 0..(Len(evts) + 1) /\ j \in 0..(Len(evts) + 1) /\ i \in Nat /\ j \in Nat
    BY <1>1, <1>2, FramedRange DEF Open
  <1>. QED  BY <1>2 DEF Phase

LEMMA PhaseRangeNext ==
  ASSUME QueueTypes'
  PROVE  Phase' <=> (Unasked \/ Asked \/ Opening \/ Failed \/ \E i, j \in 0..(Len(evts) + 1) : Open(i, j))'
  <1>1. evts' \in Seq(Signals) /\ Len(evts') \in Nat
    BY LenProperties DEF QueueTypes
  <1>2. ASSUME NEW i, NEW j, Open(i, j)'
        PROVE  i \in 0..(Len(evts') + 1) /\ j \in 0..(Len(evts') + 1) /\ i \in Nat /\ j \in Nat
    BY <1>1, <1>2, FramedRange DEF Open
  <1>. QED  BY <1>2 DEF Phase

LEMMA QuietPhase ==
  ASSUME GuiTypes, QueueTypes, SessionInv, QuietCmds, QuietEvts, QuietWatch,
         UNCHANGED <<gConnected, asking, current, session, opening>>
  PROVE  Phase'
  <1>. USE NodeServiceAssumption
  <1>1. Phase
    BY PhaseRange DEF SessionInv
  <1>2. /\ Never("connect", cmds) => Never("connect", cmds')
        /\ ~gConnected /\ Never("subscribe", cmds) => Never("subscribe", cmds')
        /\ \A s : ~gConnected /\ OneConnect(cmds, s) => OneConnect(cmds', s)
    BY QuietCommands, Zenon
  <1>3. /\ ~Up /\ NoNews(evts) => NoNews(evts')
        /\ ~Up /\ OneEnd(evts) => OneEnd(evts')
        /\ \A s \in Servers, i, j \in Nat :
             Told(s, i, j) => \E k, m \in Nat : Told(s, k, m)' /\ (k = 0 <=> i = 0)
    BY QuietSignals, Zenon
  <1>4. CASE Unasked
    <2>1. Unasked'
      BY <1>2, <1>3, <1>4 DEF Unasked, Closed, Up
    <2>. QED  BY <2>1 DEF Phase
  <1>5. CASE Asked
    <2>1. Asked'
      BY <1>2, <1>3, <1>5 DEF Asked, Closed, Up
    <2>. QED  BY <2>1 DEF Phase
  <1>6. CASE Opening
    <2>1. Opening'
      BY <1>2, <1>3, <1>6 DEF Opening, Up
    <2>. QED  BY <2>1 DEF Phase
  <1>7. CASE Failed
    <2>1. Failed'
      BY <1>2, <1>3, <1>7 DEF Failed, Closed, Up
    <2>. QED  BY <2>1 DEF Phase
  <1>8. ASSUME NEW i \in Nat, NEW j \in Nat, Open(i, j)  PROVE Phase'
    <2>1. current \in Servers
      <3>1. gConnected \/ asking
        BY <1>8 DEF Open
      <3>. QED  BY <3>1 DEF SessionInv
    <2>2. Told(current, i, j)
      BY <1>8 DEF Open, Told
    <2>3. PICK k \in Nat, m \in Nat : Told(current, k, m)' /\ (k = 0 <=> i = 0)
      BY <1>3, <2>1, <2>2
    <2>4. k > 0 <=> i > 0
      BY <2>3
    <2>5. ASSUME k > 0
          PROVE  Never("subscribe", cmds') /\ \A n \in Nodes : monitored'[n] = None
      <3>1. ~gConnected /\ Never("subscribe", cmds) /\ \A n \in Nodes : monitored[n] = None
        BY <1>8, <2>4, <2>5 DEF Open
      <3>2. ~(cmds # <<>> /\ Head(cmds).op = "subscribe")
        BY <3>1, NeverKept DEF QueueTypes
      <3>. QED  BY <1>2, <3>1, <3>2 DEF QuietWatch
    <2>6. Open(k, m)'
      BY <1>2, <1>8, <2>3, <2>4, <2>5 DEF Open, Told
    <2>. QED  BY <2>6 DEF Phase
  <1>. QED  BY <1>1, <1>4, <1>5, <1>6, <1>7, <1>8 DEF Phase

QuietStep ==
  /\ QuietCmds /\ QuietEvts /\ QuietWatch
  /\ UNCHANGED <<gConnected, asking, current, session, opening>>
  /\ browsed' => browsed

LEMMA QuietSession ==
  ASSUME GuiTypes, QueueTypes, QueueTypes', SessionInv, QuietStep
  PROVE  SessionInv'
  <1>1. Phase'
    BY QuietPhase DEF QuietStep
  <1>2. (Unasked \/ Asked \/ Opening \/ Failed \/ \E i, j \in 0..(Len(evts) + 1) : Open(i, j))'
    BY <1>1, PhaseRangeNext
  <1>3. ~Up' => \A n \in Nodes : monitored'[n] = None
    BY DEF SessionInv, QuietStep, QuietWatch, Up
  <1>4. (gConnected \/ asking => current \in Servers)' /\ (browsed => gConnected)'
    BY DEF SessionInv, QuietStep
  <1>. QED  BY <1>2, <1>3, <1>4 DEF SessionInv

QuietAct ==
  \/ AskDisconnect \/ PauseUpdates \/ RefreshStructuredValue
  \/ \E rs \in StoredRows : SwitchProject(rs)
  \/ \E i \in DOMAIN rows : WriteValue(i)
  \/ \E n \in Nodes : SelectNode(n)

LEMMA QuietUser ==
  ASSUME GuiTypes, QueueTypes, SessionInv, TableAct \/ QuietAct,
         UNCHANGED <<sessionVars, watchVars, readVars>>
  PROVE  QuietStep
  <1>1. UNCHANGED <<session, opening, monitored>>
    BY DEF sessionVars, watchVars
  <1>2. CASE TableAct
    <2>1. PICK t : TableStep(t)
      BY <1>2, TableActs
    <2>2. UNCHANGED <<gConnected, asking, current, browsed, evts>>
      BY <1>2, TableActs DEF linkVars
    <2>3. QuietCmds
      <3>1. t \in Seq(Commands) /\ cmds' = cmds \o t
        BY <2>1 DEF TableStep
      <3>2. Never("connect", t) /\ (gConnected \/ Never("subscribe", t))
        BY <2>1 DEF TableStep, Never
      <3>. QED  BY <3>1, <3>2 DEF QuietCmds
    <2>. QED  BY <1>1, <2>2, <2>3 DEF QuietStep, QuietEvts, QuietWatch
  <1>3. CASE PauseUpdates
    BY <1>1, <1>3 DEF PauseUpdates, QuietStep, QuietCmds, QuietEvts, QuietWatch, linkVars
  <1>4. ASSUME NEW t, t \in Seq(Commands), cmds' = cmds \o t, evts' = evts,
               \A c \in Range(t) : c.op # "connect" /\ c.op # "subscribe"
        PROVE  QuietCmds /\ QuietEvts /\ QuietWatch
    BY <1>1, <1>4 DEF QuietCmds, QuietEvts, QuietWatch, Never
  <1>5. CASE AskDisconnect
    <2>1. AskTypes(<<[op |-> "disconnect"]>>)
      BY <1>5, DisconnectAsked
    <2>2. \A c \in Range(<<[op |-> "disconnect"]>>) : c.op # "connect" /\ c.op # "subscribe"
      BY CommandsMade, OneCommand
    <2>3. QuietCmds /\ QuietEvts /\ QuietWatch
      BY <1>4, <2>1, <2>2 DEF AskTypes
    <2>. QED  BY <1>1, <1>5, <2>3 DEF AskDisconnect, QuietStep, linkVars
  <1>6. ASSUME NEW rs \in StoredRows, SwitchProject(rs)  PROVE QuietStep
    <2>. DEFINE t == IF gConnected THEN <<[op |-> "disconnect"]>> ELSE <<>>
    <2>1. AskTypes(t)
      BY <1>6, ProjectSwitched
    <2>2. \A c \in Range(t) : c.op # "connect" /\ c.op # "subscribe"
      <3>1. \A c \in Range(<<[op |-> "disconnect"]>>) : c.op # "connect" /\ c.op # "subscribe"
        BY CommandsMade, OneCommand
      <3>2. Range(<<>>) = {}
        BY DEF Range
      <3>. QED  BY <3>1, <3>2
    <2>. HIDE DEF t
    <2>3. QuietCmds /\ QuietEvts /\ QuietWatch
      BY <1>4, <2>1, <2>2 DEF AskTypes
    <2>. QED  BY <1>1, <1>6, <2>3 DEF SwitchProject, QuietStep
  <1>7. ASSUME NEW i \in DOMAIN rows, WriteValue(i)  PROVE QuietStep
    <2>. DEFINE c == Order("write", rows[i].node)
    <2>1. AskTypes(<<c>>)
      BY <1>7, WriteAsked
    <2>2. c.op = "write"
      BY DEF Order
    <2>. HIDE DEF c
    <2>3. Range(<<c>>) = {c}
      BY OneCommand DEF Range
    <2>4. QuietCmds /\ QuietEvts /\ QuietWatch
      BY <1>4, <2>1, <2>2, <2>3 DEF AskTypes
    <2>. QED  BY <1>1, <1>7, <2>4 DEF WriteValue, QuietStep, linkVars
  <1>8. ASSUME NEW n \in Nodes, SelectNode(n)  PROVE QuietStep
    <2>. DEFINE c == ReadOrder("readAttributes", n, nextId + 1)
                d == ReadOrder("readStructured", n, nextId + 1)
    <2>1. AskTypes(<<c, d>>)
      BY <1>8, NodeSelected
    <2>2. c.op = "readAttributes" /\ d.op = "readStructured"
      BY DEF ReadOrder
    <2>. HIDE DEF c, d
    <2>3. Range(<<c, d>>) = {c, d}
      BY DEF Range
    <2>4. QuietCmds /\ QuietEvts /\ QuietWatch
      BY <1>4, <2>1, <2>2, <2>3 DEF AskTypes
    <2>. QED  BY <1>1, <1>8, <2>4 DEF SelectNode, QuietStep, linkVars
  <1>9. CASE RefreshStructuredValue
    <2>. DEFINE c == ReadOrder("readStructured", selected, nextId + 1)
    <2>1. AskTypes(<<c>>)
      BY <1>9, ValueRefreshed
    <2>2. c.op = "readStructured"
      BY DEF ReadOrder
    <2>. HIDE DEF c
    <2>3. Range(<<c>>) = {c}
      BY DEF Range
    <2>4. QuietCmds /\ QuietEvts /\ QuietWatch
      BY <1>4, <2>1, <2>2, <2>3 DEF AskTypes
    <2>. QED  BY <1>1, <1>9, <2>4 DEF RefreshStructuredValue, QuietStep, linkVars
  <1>. QED  BY <1>2, <1>3, <1>5, <1>6, <1>7, <1>8, <1>9 DEF QuietAct

LEMMA QuietDelivery ==
  ASSUME QueueTypes, ApplyMonitoredValue \/ ApplyWriteCompleted \/ ApplyRead,
         UNCHANGED <<sessionVars, watchVars, readVars>>
  PROVE  QuietStep
  <1>1. evts # <<>> /\ evts' = Tail(evts) /\ Head(evts).sig # "connected"
    BY Delivered DEF QueueTypes, ApplyMonitoredValue, ApplyWriteCompleted, ApplyRead
  <1>2. UNCHANGED <<cmds, linkVars>>
    BY DEF ApplyMonitoredValue, ApplyWriteCompleted, ApplyRead
  <1>. QED
    BY <1>1, <1>2 DEF QuietStep, QuietCmds, QuietEvts, QuietWatch, linkVars, sessionVars, watchVars

QuietService ==
  \/ Disconnect \/ SubscribeNode \/ UnsubscribeNode
  \/ \E n \in Nodes : DataChange(n)
  \/ WriteNodeValue
  \/ \E h \in Holders, n \in Nodes, ok \in BOOLEAN : WriteAnswered(h, n, ok)
  \/ ReadNodeAttributes \/ ReadStructuredValue
  \/ \E i \in DOMAIN reads : ReadAnswered(i)
  \/ ReaderFinishes \/ HandlerReady

(* Every signal of these is calm, or a value of the session.                *)
LEMMA SaidOne ==
  ASSUME NEW sig, Emit(<<sig>>), sig \in Signals,
         sig.sig # "connected", sig.sig = "value" => Up /\ sig.server = session
  PROVE  QuietEvts
  <1>. DEFINE t == <<sig>>
  <1>1. t \in Seq(Signals) /\ DOMAIN t = {1} /\ t[1] = sig
    BY SentOne
  <1>2. evts' = evts \o t
    BY DEF Emit
  <1>. HIDE DEF t
  <1>. QED  BY <1>1, <1>2 DEF QuietEvts

LEMMA TookOne ==
  ASSUME QueueTypes, NEW op, Handling(op), op # "connect"
  PROVE  QuietCmds
  BY Handled DEF QueueTypes, QuietCmds, Cmd

LEMMA QuietReading ==
  ASSUME NEW panel \in Panels, NEW req \in Requests, Read(panel, req)
  PROVE  QuietEvts
  <1>1. CASE UNCHANGED evts
    BY <1>1 DEF QuietEvts
  <1>2. CASE Emit(<<ReadSig(panel, req, FALSE)>>)
    <2>1. ReadSig(panel, req, FALSE) \in Signals /\ ReadSig(panel, req, FALSE).sig = "read"
      BY SignalsMade DEF ReadSig
    <2>. QED  BY <1>2, <2>1, SaidOne
  <1>. QED  BY <1>1, <1>2 DEF Read

LEMMA QuietServing ==
  ASSUME ServiceTypeOK, QueueTypes, QuietService, UNCHANGED guiVars
  PROVE  QuietStep
  <1>. USE NodeServiceAssumption
  <1>0. /\ UNCHANGED <<gConnected, asking, current, browsed>>
        /\ "attributes" \in Panels /\ "value" \in Panels
    BY DEF guiVars, linkVars, Panels
  <1>1. CASE Disconnect
    <2>1. QuietCmds
      BY <1>1, TookOne DEF Disconnect
    <2>. QED  BY <1>0, <1>1, <2>1 DEF Disconnect, QuietStep, QuietEvts, QuietWatch, watchVars
  <1>2. CASE SubscribeNode
    <2>1. QuietCmds /\ cmds # <<>> /\ Head(cmds).op = "subscribe"
      BY <1>2, TookOne, Handled DEF SubscribeNode, QueueTypes, Cmd
    <2>2. QuietWatch
      BY <1>2, <2>1 DEF SubscribeNode, QuietWatch
    <2>. QED  BY <1>0, <1>2, <2>1, <2>2 DEF SubscribeNode, QuietStep, QuietEvts, sessionVars
  <1>3. CASE UnsubscribeNode
    <2>1. QuietCmds
      BY <1>3, TookOne DEF UnsubscribeNode
    <2>2. QuietWatch
      BY <1>3 DEF UnsubscribeNode, QuietWatch, ServiceTypeOK
    <2>. QED  BY <1>0, <1>3, <2>1, <2>2 DEF UnsubscribeNode, QuietStep, QuietEvts, sessionVars
  <1>4. ASSUME NEW n \in Nodes, DataChange(n)  PROVE QuietStep
    <2>1. ValueSig(n) \in Signals /\ ValueSig(n).sig = "value" /\ ValueSig(n).server = session /\ Up
      BY <1>4, SignalsMade DEF DataChange, Up, ServiceTypeOK, ValueSig
    <2>2. QuietEvts
      BY <1>4, <2>1, SaidOne DEF DataChange
    <2>. QED
      BY <1>0, <1>4, <2>2 DEF DataChange, QuietStep, QuietCmds, QuietWatch, sessionVars, watchVars
  <1>5. CASE WriteNodeValue
    <2>1. QuietCmds /\ Cmd.node \in Nodes
      BY <1>5, TookOne, Handled, CommandFields DEF WriteNodeValue, QueueTypes
    <2>2. QuietEvts
      <3>1. WrittenSig(Cmd.node, FALSE) \in Signals /\ WrittenSig(Cmd.node, FALSE).sig = "written"
        BY <2>1, SignalsMade DEF WrittenSig
      <3>2. UNCHANGED evts \/ Emit(<<WrittenSig(Cmd.node, FALSE)>>)
        BY <1>5 DEF WriteNodeValue
      <3>3. CASE UNCHANGED evts
        BY <3>3 DEF QuietEvts
      <3>4. CASE Emit(<<WrittenSig(Cmd.node, FALSE)>>)
        BY <3>1, <3>4, SaidOne
      <3>. QED  BY <3>2, <3>3, <3>4
    <2>. QED  BY <1>0, <1>5, <2>1, <2>2 DEF WriteNodeValue, QuietStep, QuietWatch, sessionVars
  <1>6. ASSUME NEW h \in Holders, NEW n \in Nodes, NEW ok \in BOOLEAN, WriteAnswered(h, n, ok)
        PROVE  QuietStep
    <2>. DEFINE t == IF HandlerLeft(h, n) THEN <<WrittenSig(n, ok)>> ELSE <<>>
    <2>1. WrittenSig(n, ok) \in Signals /\ WrittenSig(n, ok).sig = "written"
      BY SignalsMade DEF WrittenSig
    <2>2. Emit(t)
      BY <1>6 DEF WriteAnswered
    <2>3. t \in Seq(Signals) /\ \A k \in DOMAIN t : t[k].sig = "written"
      BY <2>1
    <2>. HIDE DEF t
    <2>4. QuietEvts
      BY <2>2, <2>3 DEF QuietEvts, Emit
    <2>. QED
      BY <1>0, <1>6, <2>4 DEF WriteAnswered, QuietStep, QuietCmds, QuietWatch, sessionVars
  <1>7. CASE ReadNodeAttributes
    <2>1. QuietCmds /\ Cmd.req \in Requests
      BY <1>7, TookOne, Handled, CommandFields DEF ReadNodeAttributes, QueueTypes
    <2>2. QuietEvts
      BY <1>0, <1>7, <2>1, QuietReading DEF ReadNodeAttributes
    <2>. QED
      BY <1>0, <1>7, <2>1, <2>2 DEF ReadNodeAttributes, QuietStep, QuietWatch, sessionVars, watchVars
  <1>8. CASE ReadStructuredValue
    <2>1. QuietCmds /\ Cmd.req \in Requests
      BY <1>8, TookOne, Handled, CommandFields DEF ReadStructuredValue, QueueTypes
    <2>2. QuietEvts
      BY <1>0, <1>8, <2>1, QuietReading DEF ReadStructuredValue
    <2>. QED
      BY <1>0, <1>8, <2>1, <2>2 DEF ReadStructuredValue, QuietStep, QuietWatch, sessionVars, watchVars
  <1>9. ASSUME NEW i \in DOMAIN reads, ReadAnswered(i)  PROVE QuietStep
    <2>1. reads \in Seq(OpenReads)
      BY DEF ServiceTypeOK, OpenReads
    <2>2. reads[i].panel \in Panels /\ reads[i].req \in Requests
      <3>1. reads[i] \in OpenReads
        BY <2>1
      <3>. QED  BY <3>1 DEF OpenReads
    <2>. DEFINE sig == ReadSig(reads[i].panel, reads[i].req, TRUE)
    <2>3. sig \in Signals /\ sig.sig = "read"
      BY <2>2, SignalsMade DEF ReadSig
    <2>4. Emit(<<sig>>) \/ UNCHANGED evts
      BY <1>9 DEF ReadAnswered
    <2>. HIDE DEF sig
    <2>5. CASE Emit(<<sig>>)
      <3>1. QuietEvts
        BY <2>3, <2>5, SaidOne
      <3>. QED
        BY <1>0, <1>9, <3>1 DEF ReadAnswered, QuietStep, QuietCmds, QuietWatch, sessionVars, watchVars
    <2>6. CASE UNCHANGED evts
      BY <1>0, <1>9, <2>6
         DEF ReadAnswered, QuietStep, QuietCmds, QuietEvts, QuietWatch, sessionVars, watchVars
    <2>. QED  BY <2>4, <2>5, <2>6
  <1>10. CASE ReaderFinishes
    <2>1. PICK good \in BOOLEAN : Emit(<<ReadSig("value", reader, good)>>)
      BY <1>10 DEF ReaderFinishes
    <2>2. ReadSig("value", reader, good) \in Signals /\ ReadSig("value", reader, good).sig = "read"
      BY <1>0, <1>10, SignalsMade DEF ReaderFinishes, ServiceTypeOK, ReadSig
    <2>3. QuietEvts
      BY <2>1, <2>2, SaidOne
    <2>. QED
      BY <1>0, <1>10, <2>3 DEF ReaderFinishes, QuietStep, QuietCmds, QuietWatch, sessionVars, watchVars
  <1>11. CASE HandlerReady
    <2>1. QuietEvts
      <3>1. CASE last = None
        BY <1>11, <3>1 DEF HandlerReady, QuietEvts
      <3>2. CASE last # None
        BY <1>0, <1>11, <3>2, QuietReading DEF HandlerReady, ServiceTypeOK
      <3>. QED  BY <3>1, <3>2
    <2>. QED
      BY <1>0, <1>11, <2>1 DEF HandlerReady, QuietStep, QuietCmds, QuietWatch, sessionVars, watchVars
  <1>. QED
    BY <1>1, <1>2, <1>3, <1>4, <1>5, <1>6, <1>7, <1>8, <1>9, <1>10, <1>11 DEF QuietService

-----------------------------------------------------------------------------
(* Session: the steps that open and end one.                                *)

LEMMA ConnectAsks ==
  ASSUME GuiTypes, QueueTypes, QueueTypes', SessionInv, NEW s \in Servers, AskConnect(s),
         UNCHANGED <<sessionVars, watchVars, readVars>>
  PROVE  SessionInv'
  <1>1. Unasked
    <2>1. ~gConnected /\ ~asking
      BY DEF AskConnect
    <2>2. ASSUME NEW i, NEW j, Open(i, j)  PROVE FALSE
      <3>1. i \in Nat
        BY <2>2, FramedRange DEF Open, QueueTypes
      <3>. QED  BY <2>1, <2>2, <3>1 DEF Open
    <2>. QED  BY <2>1, <2>2 DEF SessionInv, Asked, Opening, Failed
  <1>2. OneConnect(cmds', s)
    BY <1>1, OneConnectMade DEF AskConnect, Post, Unasked, QueueTypes
  <1>3. Asked'
    BY <1>1, <1>2 DEF Asked, Unasked, Closed, AskConnect, sessionVars
  <1>. QED
    BY <1>3 DEF AskConnect, SessionInv, sessionVars, watchVars, Up

LEMMA ConnectTaken ==
  ASSUME GuiTypes, QueueTypes, QueueTypes', SessionInv, Connect, UNCHANGED guiVars
  PROVE  SessionInv'
  <1>1. /\ cmds # <<>> /\ Head(cmds).op = "connect" /\ cmds' = Tail(cmds) /\ cmds \in Seq(Commands)
        /\ Cmd = Head(cmds)
    BY DEF Connect, Handling, QueueTypes, Cmd
  <1>2. ~Never("connect", cmds)
    BY <1>1, NeverKept
  <1>3. Asked
    BY <1>2 DEF SessionInv, Unasked, Opening, Failed, Open
  <1>4. /\ Head(cmds).server = current /\ Never("connect", cmds') /\ Never("subscribe", cmds')
    BY <1>1, <1>3, OneConnectKept DEF Asked
  <1>5. Opening'
    BY <1>1, <1>3, <1>4 DEF Opening, Asked, Closed, Up, Connect, guiVars, linkVars
  <1>. QED
    BY <1>5 DEF Connect, SessionInv, guiVars, linkVars, watchVars, Up

LEMMA SessionMade ==
  ASSUME GuiTypes, QueueTypes, QueueTypes', SessionInv, SessionOpens, UNCHANGED guiVars
  PROVE  SessionInv'
  <1>. USE NodeServiceAssumption
  <1>1. Opening
    BY DEF SessionInv, SessionOpens, Unasked, Asked, Failed, Open, Closed
  <1>2. current \in Servers /\ opening = current /\ current # None
    BY <1>1 DEF Opening, SessionInv
  <1>3. /\ Framed(evts', current, Len(evts) + 1, Len(evts) + 2)
        /\ Len(evts') = Len(evts) + 1 /\ Len(evts) \in Nat
    BY <1>1, <1>2, FramedMade DEF SessionOpens, Emit, Opening, QueueTypes
  <1>4. PICK i \in Nat, j \in Nat :
          /\ Framed(evts', current, i, j)
          /\ i > 0 /\ i # 0 /\ j > Len(evts') /\ ~(j <= Len(evts'))
    <2>1. /\ Len(evts) + 1 \in Nat /\ Len(evts) + 2 \in Nat
          /\ Len(evts) + 1 > 0 /\ Len(evts) + 1 # 0
          /\ Len(evts) + 2 > Len(evts') /\ ~(Len(evts) + 2 <= Len(evts'))
      BY <1>3
    <2>. QED  BY <1>3, <2>1
  <1>5. \A n \in Nodes : monitored'[n] = None
    BY <1>1 DEF Opening, SessionInv, Up, SessionOpens, watchVars
  <1>6. Open(i, j)'
    BY <1>1, <1>2, <1>3, <1>4, <1>5 DEF Open, Opening, SessionOpens, guiVars, linkVars
  <1>7. Phase'
    BY <1>4, <1>6 DEF Phase
  <1>8. (Unasked \/ Asked \/ Opening \/ Failed \/ \E k, m \in 0..(Len(evts) + 1) : Open(k, m))'
    BY <1>7, PhaseRangeNext
  <1>. QED
    BY <1>2, <1>5, <1>8 DEF SessionOpens, SessionInv, guiVars, linkVars, Up

LEMMA SessionRefused ==
  ASSUME GuiTypes, QueueTypes, QueueTypes', SessionInv, OpeningFails, UNCHANGED guiVars
  PROVE  SessionInv'
  <1>1. Opening
    BY DEF SessionInv, OpeningFails, Unasked, Asked, Failed, Open, Closed
  <1>2. OneEnd(evts')
    BY <1>1, OneEndMade DEF OpeningFails, Emit, Opening, QueueTypes
  <1>3. Failed'
    BY <1>1, <1>2 DEF Failed, Opening, Closed, OpeningFails, guiVars, linkVars
  <1>. QED
    BY <1>1, <1>3 DEF OpeningFails, SessionInv, guiVars, linkVars, watchVars, Up

LEMMA SessionLost ==
  ASSUME GuiTypes, QueueTypes, QueueTypes', SessionInv, SessionEnds, UNCHANGED guiVars
  PROVE  SessionInv' /\ \E i, j \in Nat : Open(i, j) /\ Open(i, j)' /\ j > Len(evts) /\ j <= Len(evts')
  <1>. USE NodeServiceAssumption
  <1>1. PICK i \in Nat, j \in Nat : Open(i, j)
    BY PhaseRange DEF Phase, SessionEnds, SessionInv, Unasked, Asked, Opening, Failed, Closed, Up
  <1>2. j > Len(evts) /\ Framed(evts, current, i, j)
    <2>1. j > Len(evts) <=> ~(j <= Len(evts))
      BY <1>1, FramedRange DEF Open, QueueTypes
    <2>. QED  BY <1>1, <2>1 DEF Open, SessionEnds, Up
  <1>3. Framed(evts', current, i, j) /\ j <= Len(evts')
    BY <1>2, FramedEnds DEF SessionEnds, Emit, QueueTypes
  <1>4. j > Len(evts') <=> ~(j <= Len(evts'))
    BY <1>3, FramedRange DEF QueueTypes
  <1>5. \A n \in Nodes : monitored'[n] = None
    BY DEF SessionEnds, ForgetSession
  <1>6. Open(i, j)'
    BY <1>1, <1>3, <1>4, <1>5 DEF Open, SessionEnds, guiVars, linkVars
  <1>7. Phase'
    BY <1>6 DEF Phase
  <1>8. (Unasked \/ Asked \/ Opening \/ Failed \/ \E k, m \in 0..(Len(evts) + 1) : Open(k, m))'
    BY <1>7, PhaseRangeNext
  <1>9. SessionInv'
    BY <1>5, <1>8 DEF SessionEnds, SessionInv, guiVars, linkVars, Up
  <1>. QED  BY <1>1, <1>2, <1>3, <1>6, <1>9

(* The news that arrives: an attempt failed, the session is up, or it is over. *)
LEMMA NewsArrives ==
  ASSUME GuiTypes, QueueTypes, SessionInv, ConnectedChanged
  PROVE  \/ Failed /\ Sig.server = None /\ NoNews(evts')
         \/ \E i, j \in Nat : /\ Open(i, j) /\ i > 0 /\ Sig.server = current
                              /\ Framed(evts', current, 0, j - 1) /\ j - 1 \in Nat
                              /\ j > Len(evts) <=> j - 1 > Len(evts')
         \/ \E j \in Nat : Open(0, j) /\ Sig.server = None /\ NoNews(evts') /\ j <= Len(evts)
  <1>1. /\ evts # <<>> /\ Sig = Head(evts) /\ Sig.sig = "connected" /\ evts' = Tail(evts)
        /\ evts \in Seq(Signals) /\ evts' \in Seq(Signals)
    BY SessionNews DEF QueueTypes
  <1>2. ~Calm(Head(evts))
    BY <1>1 DEF Calm
  <1>3. ~NoNews(evts)
    BY <1>1, <1>2, NoNewsKept
  <1>4. Failed \/ \E i, j \in Nat : Open(i, j)
    BY <1>3, PhaseRange DEF SessionInv, Phase, Unasked, Asked, Opening
  <1>5. CASE Failed
    BY <1>1, <1>2, <1>5, OneEndKept DEF Failed
  <1>6. ASSUME NEW i \in Nat, NEW j \in Nat, Open(i, j), i > 0
        PROVE  /\ Sig.server = current /\ Framed(evts', current, 0, j - 1) /\ j - 1 \in Nat
               /\ j > Len(evts) <=> j - 1 > Len(evts')
    <2>1. /\ Sig.server = current /\ Framed(evts', current, 0, j - 1)
          /\ j > Len(evts) <=> j - 1 > Len(evts')
      BY <1>1, <1>6, FramedShorter DEF Open
    <2>2. j - 1 \in Nat
      BY <1>1, <2>1, FramedRange
    <2>. QED  BY <2>1, <2>2
  <1>7. ASSUME NEW j \in Nat, Open(0, j)
        PROVE  Sig.server = None /\ NoNews(evts') /\ j <= Len(evts)
    BY <1>1, <1>7, FramedShorter DEF Open
  <1>. QED
    <2>1. ASSUME NEW i \in Nat  PROVE i > 0 \/ i = 0
      OBVIOUS
    <2>. QED  BY <1>4, <1>5, <1>6, <1>7, <2>1

LEMMA NewsTaken ==
  ASSUME GuiTypes, QueueTypes, QueueTypes', SessionInv, ConnectedChanged,
         UNCHANGED <<sessionVars, watchVars, readVars>>
  PROVE  SessionInv'
  <1>. USE NodeServiceAssumption
  <1>1. UNCHANGED <<session, opening, monitored, current>> /\ asking' = FALSE
    BY DEF ConnectedChanged, sessionVars, watchVars
  <1>2. CASE Failed /\ Sig.server = None /\ NoNews(evts')
    <2>1. UNCHANGED <<gConnected, browsed, cmds>>
      BY <1>2, SessionNews DEF Failed
    <2>2. Unasked'
      BY <1>1, <1>2, <2>1 DEF Unasked, Failed, Closed
    <2>. QED  BY <1>1, <2>1, <2>2 DEF SessionInv, Up
  <1>3. ASSUME NEW i \in Nat, NEW j \in Nat, Open(i, j), i > 0, Sig.server = current,
               Framed(evts', current, 0, j - 1), j - 1 \in Nat, j > Len(evts) <=> j - 1 > Len(evts')
        PROVE  SessionInv'
    <2>1. asking /\ ~gConnected /\ current \in Servers /\ current # None
      <3>1. asking /\ ~gConnected
        <4>1. i # 0
          BY <1>3
        <4>. QED  BY <1>3, <4>1 DEF Open, GuiTypes
      <3>. QED  BY <3>1 DEF SessionInv
    <2>2. /\ cmds' = cmds \o [k \in DOMAIN rows |-> Subscribe(rows[k])] /\ gConnected' /\ browsed'
      BY <1>3, <2>1, SessionNews
    <2>3. Never("connect", cmds')
      <3>. DEFINE t == [k \in DOMAIN rows |-> Subscribe(rows[k])]
      <3>1. t \in Seq(Commands) /\ \A d \in Range(t) : d.op = "subscribe"
        BY AllAsked DEF GuiTypes
      <3>. HIDE DEF t
      <3>2. Never("connect", t) /\ Never("connect", cmds) /\ cmds \in Seq(Commands)
        BY <1>3, <3>1 DEF Never, Open, QueueTypes
      <3>3. Never("connect", cmds \o t)
        BY <3>1, <3>2, NeverKept
      <3>. QED  BY <2>2, <3>3 DEF t
    <2>4. /\ j > Len(evts) <=> ~(j <= Len(evts))
          /\ j - 1 > Len(evts') <=> ~(j - 1 <= Len(evts'))
      <3>1. Len(evts) \in Nat /\ Len(evts') \in Nat
        BY LenProperties DEF QueueTypes
      <3>. QED  BY <1>3, <3>1
    <2>. DEFINE m == j - 1
    <2>5. /\ m > Len(evts') => session' = current'
          /\ m <= Len(evts') => session' = None
      BY <1>1, <1>3, <2>4 DEF Open
    <2>6. Framed(evts', current', 0, m) /\ m \in Nat
      BY <1>1, <1>3
    <2>. HIDE DEF m
    <2>7. Open(0, m)'
      BY <1>1, <1>3, <2>2, <2>3, <2>5, <2>6 DEF Open
    <2>8. Phase'
      BY <2>6, <2>7 DEF Phase
    <2>9. (Unasked \/ Asked \/ Opening \/ Failed \/ \E k, p \in 0..(Len(evts) + 1) : Open(k, p))'
      BY <2>8, PhaseRangeNext
    <2>. QED  BY <1>1, <2>1, <2>2, <2>9 DEF SessionInv, Up
  <1>4. ASSUME NEW j \in Nat, Open(0, j), Sig.server = None, NoNews(evts'), j <= Len(evts)
        PROVE  SessionInv'
    <2>1. gConnected /\ session = None /\ opening = None /\ Never("connect", cmds)
      BY <1>4 DEF Open
    <2>2. cmds' = cmds /\ ~gConnected' /\ ~browsed'
      BY <1>4, <2>1, SessionNews
    <2>3. Unasked'
      BY <1>1, <1>4, <2>1, <2>2 DEF Unasked, Closed
    <2>. QED  BY <1>1, <2>2, <2>3 DEF SessionInv, Up
  <1>. QED  BY <1>2, <1>3, <1>4, NewsArrives

LEMMA UserActsAre ==
  UserNext <=> TableAct \/ QuietAct \/ \E s \in Servers : AskConnect(s)
  BY DEF UserNext, TableAct, QuietAct

LEMMA ServiceActsAre ==
  ServiceNext <=> QuietService \/ Connect \/ SessionOpens \/ OpeningFails \/ SessionEnds
  BY DEF ServiceNext, QuietService

LEMMA SessionKept ==
  ASSUME Types, SessionInv, [Next]_vars
  PROVE  SessionInv'
  <1>1. ServiceTypeOK /\ GuiTypes /\ QueueTypes /\ QueueTypes'
    BY TypesSplit, TypesSplitNext, TypesKept
  <1>2. CASE UserNext /\ UNCHANGED <<sessionVars, watchVars, readVars>>
    <2>1. CASE TableAct \/ QuietAct
      BY <1>1, <1>2, <2>1, QuietUser, QuietSession
    <2>2. CASE \E s \in Servers : AskConnect(s)
      BY <1>1, <1>2, <2>2, ConnectAsks
    <2>. QED  BY <1>2, <2>1, <2>2, UserActsAre
  <1>3. CASE GuiNext /\ UNCHANGED <<sessionVars, watchVars, readVars>>
    <2>1. CASE ConnectedChanged
      BY <1>1, <1>3, <2>1, NewsTaken
    <2>2. CASE ApplyMonitoredValue \/ ApplyWriteCompleted \/ ApplyRead
      BY <1>1, <1>3, <2>2, QuietDelivery, QuietSession
    <2>. QED  BY <1>3, <2>1, <2>2 DEF GuiNext
  <1>4. CASE ServiceNext /\ UNCHANGED guiVars
    <2>1. CASE QuietService
      BY <1>1, <1>4, <2>1, QuietServing, QuietSession
    <2>2. CASE Connect \/ SessionOpens \/ OpeningFails \/ SessionEnds
      BY <1>1, <1>4, <2>2, ConnectTaken, SessionMade, SessionRefused, SessionLost
    <2>. QED  BY <1>4, <2>1, <2>2, ServiceActsAre
  <1>5. CASE UNCHANGED vars
    <2>1. QuietStep
      BY <1>5 DEF QuietStep, QuietCmds, QuietEvts, QuietWatch, vars, svcVars, guiVars, linkVars,
                  sessionVars, watchVars
    <2>. QED  BY <1>1, <2>1, QuietSession
  <1>. QED  BY <1>2, <1>3, <1>4, <1>5 DEF Next

-----------------------------------------------------------------------------
(* Values and curves are of this session.                                   *)

LEMMA ValueOfSession ==
  ASSUME Types, SessionInv, ApplyMonitoredValue
  PROVE  gConnected /\ Sig.server = current
  <1>1. /\ evts # <<>> /\ Sig = Head(evts) /\ Sig.sig = "value" /\ evts \in Seq(Signals)
    BY TypesSplit, ValueShown DEF GuiTypes, QueueTypes
  <1>2. ~Calm(Head(evts))
    BY <1>1 DEF Calm
  <1>3. ~NoNews(evts)
    BY <1>1, <1>2, NoNewsKept
  <1>4. ~OneEnd(evts)
    BY <1>1, <1>2, OneEndKept
  <1>5. PICK i \in Nat, j \in Nat : Open(i, j)
    BY <1>3, <1>4, TypesSplit, PhaseRange DEF SessionInv, Phase, Unasked, Asked, Opening, Failed
  <1>6. i = 0 /\ Head(evts).server = current
    BY <1>1, <1>5, FramedShorter DEF Open
  <1>. QED  BY <1>1, <1>5, <1>6 DEF Open

LEMMA NoValues ==
  ASSUME GuiTypes, ValuesOfThisSession, ~gConnected
  PROVE  trend = {} /\ \A i \in DOMAIN rows : rows[i].value = None
  BY DEF ValuesOfThisSession

LEMMA ValuesKept ==
  ASSUME Types, SessionInv, ValuesOfThisSession, [Next]_vars
  PROVE  ValuesOfThisSession'
  <1>1. ServiceTypeOK /\ GuiTypes /\ QueueTypes
    BY TypesSplit
  <1>2. ASSUME UNCHANGED <<rows, trend, gConnected, current>>  PROVE ValuesOfThisSession'
    BY <1>2 DEF ValuesOfThisSession
  <1>3. CASE TableAct
    <2>1. PICK t : TableStep(t)
      BY <1>1, <1>3, TableActs
    <2>2. UNCHANGED <<gConnected, current>> /\ trend' \subseteq trend
      BY <1>1, <1>3, TableActs DEF linkVars
    <2>3. ASSUME NEW k \in DOMAIN rows', rows'[k].value # None
          PROVE  gConnected' /\ rows'[k].value = current'
      <3>1. rows'[k] \in Range(rows')
        BY DEF Range
      <3>2. PICK q \in Range(rows) : rows'[k].value = q.value
        BY <2>1, <2>3, <3>1 DEF TableStep
      <3>3. PICK i \in DOMAIN rows : rows[i] = q
        BY DEF Range
      <3>. QED  BY <2>2, <2>3, <3>2, <3>3 DEF ValuesOfThisSession
    <2>. QED  BY <2>2, <2>3 DEF ValuesOfThisSession
  <1>4. CASE QuietAct
    <2>1. ASSUME NEW rs \in StoredRows, SwitchProject(rs)  PROVE ValuesOfThisSession'
      BY <2>1, StoredTable DEF SwitchProject, SetRows, ValuesOfThisSession
    <2>2. CASE ~ \E rs \in StoredRows : SwitchProject(rs)
      <3>1. UNCHANGED <<rows, trend, gConnected, current>>
        BY <1>4, <2>2 DEF QuietAct, AskDisconnect, PauseUpdates, RefreshStructuredValue, WriteValue,
                          SelectNode, linkVars, tableVars
      <3>. QED  BY <1>2, <3>1
    <2>. QED  BY <2>1, <2>2
  <1>5. ASSUME NEW s \in Servers, AskConnect(s)  PROVE ValuesOfThisSession'
    <2>1. trend = {} /\ \A i \in DOMAIN rows : rows[i].value = None
      BY <1>1, <1>5, NoValues DEF AskConnect
    <2>. QED  BY <1>5, <2>1 DEF AskConnect, tableVars, ValuesOfThisSession
  <1>6. CASE ConnectedChanged
    <2>1. current' = current
      BY <1>6 DEF ConnectedChanged
    <2>2. CASE Sig.server = None /\ gConnected
      <3>1. /\ trend' = {} /\ \A i \in DOMAIN rows : rows'[i].value = None
            /\ DOMAIN rows' = DOMAIN rows
        BY <1>1, <1>6, <2>2, SessionNews DEF Refilled
      <3>. QED  BY <3>1 DEF ValuesOfThisSession
    <2>3. CASE Sig.server # None /\ ~gConnected
      <3>1. trend = {} /\ \A i \in DOMAIN rows : rows[i].value = None
        BY <1>1, <2>3, NoValues
      <3>2. rows' = rows /\ trend' = trend
        BY <1>1, <1>6, <2>3, SessionNews
      <3>. QED  BY <3>1, <3>2 DEF ValuesOfThisSession
    <2>4. CASE ~(Sig.server = None /\ gConnected) /\ ~(Sig.server # None /\ ~gConnected)
      <3>1. UNCHANGED <<rows, trend, gConnected>>
        BY <1>1, <1>6, <2>4, SessionNews
      <3>. QED  BY <1>2, <2>1, <3>1
    <2>. QED  BY <2>2, <2>3, <2>4
  <1>7. CASE ApplyMonitoredValue
    <2>1. gConnected /\ Sig.server = current
      BY <1>7, ValueOfSession
    <2>2. UNCHANGED <<gConnected, current>>
      BY <1>7 DEF ApplyMonitoredValue, linkVars
    <2>3. /\ DOMAIN rows' = DOMAIN rows
          /\ \A i \in DOMAIN rows : rows'[i].value \in {rows[i].value, Sig.server}
      BY <1>1, <1>7, ValueShown DEF GuiTypes, Refilled
    <2>. QED  BY <2>1, <2>2, <2>3 DEF ValuesOfThisSession
  <1>8. CASE ApplyWriteCompleted \/ ApplyRead
    BY <1>2, <1>8 DEF ApplyWriteCompleted, ApplyRead, linkVars, tableVars
  <1>9. CASE UNCHANGED guiVars
    BY <1>2, <1>9 DEF guiVars, linkVars, tableVars
  <1>10. CASE UNCHANGED vars
    BY <1>9, <1>10 DEF vars
  <1>. QED
    BY <1>3, <1>4, <1>5, <1>6, <1>7, <1>8, <1>9, <1>10, UserActsAre DEF Next, GuiNext

-----------------------------------------------------------------------------
(* Requests in turn.                                                        *)

LEMMA InTurnKept ==
  ASSUME NEW T, NEW q \in Seq(T), NEW S, InTurn(q, S)
  PROVE  /\ \A t \in Seq(T) : (\A x \in Range(t) : x \notin S) => InTurn(q \o t, S)
         /\ \A x \in T : (x \in S => \A y \in Range(q) : y \in S => y.req.id <= x.req.id)
                           => InTurn(q \o <<x>>, S)
         /\ q # <<>> =>
              /\ InTurn(Tail(q), S)
              /\ Head(q) \in S => \A y \in Range(Tail(q)) : y \in S => Head(q).req.id <= y.req.id
  <1>0. DOMAIN q = 1..Len(q) /\ Len(q) \in Nat
    BY LenProperties
  <1>1. ASSUME NEW t \in Seq(T), \A x \in Range(t) : x \notin S  PROVE InTurn(q \o t, S)
    <2>. DEFINE r == q \o t
    <2>1. /\ DOMAIN r = 1..(Len(q) + Len(t)) /\ DOMAIN t = 1..Len(t) /\ Len(t) \in Nat
          /\ \A m \in 1..Len(q) : r[m] = q[m]
          /\ \A m \in 1..Len(t) : r[Len(q) + m] = t[m]
      BY AppendedQueue
    <2>. HIDE DEF r
    <2>2. ASSUME NEW m \in DOMAIN r, r[m] \in S  PROVE m \in 1..Len(q)
      <3>. SUFFICES ASSUME m \notin 1..Len(q)  PROVE FALSE
        OBVIOUS
      <3>1. m - Len(q) \in 1..Len(t) /\ m = Len(q) + (m - Len(q))
        BY <1>0, <2>1, <2>2
      <3>2. t[m - Len(q)] \in S /\ m - Len(q) \in DOMAIN t
        BY <2>1, <2>2, <3>1
      <3>. QED  BY <1>1, <3>2 DEF Range
    <2>3. InTurn(r, S)
      BY <1>0, <2>1, <2>2 DEF InTurn
    <2>. QED  BY <2>3 DEF r
  <1>2. ASSUME NEW x \in T, x \in S => \A y \in Range(q) : y \in S => y.req.id <= x.req.id
        PROVE  InTurn(q \o <<x>>, S)
    <2>. DEFINE r == q \o <<x>>
    <2>1. DOMAIN r = 1..(Len(q) + 1) /\ \A m \in 1..Len(q) : r[m] = q[m]
      BY SentOneMore
    <2>2. r[Len(q) + 1] = x
      BY SentOneMore
    <2>. HIDE DEF r
    <2>3. ASSUME NEW k \in DOMAIN r, NEW m \in DOMAIN r, k < m, r[k] \in S, r[m] \in S
          PROVE  r[k].req.id <= r[m].req.id
      <3>1. k \in 1..Len(q)
        BY <1>0, <2>1, <2>3
      <3>2. CASE m \in 1..Len(q)
        BY <1>0, <2>1, <2>3, <3>1, <3>2 DEF InTurn
      <3>3. CASE m \notin 1..Len(q)
        <4>1. m = Len(q) + 1
          BY <1>0, <2>1, <2>3, <3>3
        <4>2. r[m] = x /\ r[k] = q[k] /\ q[k] \in Range(q)
          BY <1>0, <2>1, <2>2, <3>1, <4>1 DEF Range
        <4>. QED  BY <1>2, <2>3, <4>2
      <3>. QED  BY <3>2, <3>3
    <2>4. InTurn(r, S)
      BY <2>3 DEF InTurn
    <2>. QED  BY <2>4 DEF r
  <1>3. ASSUME q # <<>>
        PROVE  /\ InTurn(Tail(q), S)
               /\ Head(q) \in S => \A y \in Range(Tail(q)) : y \in S => Head(q).req.id <= y.req.id
    <2>. DEFINE r == Tail(q)
    <2>1. /\ DOMAIN r = 1..(Len(q) - 1) /\ Head(q) = q[1]
          /\ \A m \in 1..(Len(q) - 1) : r[m] = q[m + 1]
      BY <1>3, QueueTail
    <2>. HIDE DEF r
    <2>2. \A m \in DOMAIN r : m + 1 \in DOMAIN q /\ r[m] = q[m + 1] /\ 1 \in DOMAIN q /\ 1 < m + 1
      BY <1>0, <2>1
    <2>3. \A k, m \in DOMAIN r : k < m => k + 1 < m + 1
      BY <2>1
    <2>4. InTurn(r, S)
      BY <2>2, <2>3 DEF InTurn
    <2>5. ASSUME Head(q) \in S, NEW y \in Range(r), y \in S  PROVE Head(q).req.id <= y.req.id
      <3>1. PICK m \in DOMAIN r : y = r[m]
        BY <2>5 DEF Range
      <3>. QED  BY <2>1, <2>2, <2>5, <3>1 DEF InTurn
    <2>. QED  BY <2>4, <2>5 DEF r
  <1>. QED  BY <1>1, <1>2, <1>3

LEMMA FirstTaken ==
  ASSUME NEW T, NEW q \in Seq(T), 1 \in DOMAIN q
  PROVE  RemoveAt(q, 1) = Tail(q) /\ q # <<>> /\ q[1] = Head(q)
  <1>1. q # <<>>
    BY LenProperties
  <1>. DEFINE a == RemoveAt(q, 1)
              b == Tail(q)
  <1>2. /\ b \in Seq(T) /\ Len(b) = Len(q) - 1 /\ Len(q) \in Nat \ {0} /\ Head(q) = q[1]
        /\ \A k \in 1..(Len(q) - 1) : b[k] = q[k + 1]
    BY <1>1, QueueTail
  <1>3. /\ a \in Seq(T) /\ Len(a) = Len(q) - 1
        /\ \A k \in 1..(Len(q) - 1) : a[k] = q[IF k < 1 THEN k ELSE k + 1]
    BY TakenOut
  <1>. HIDE DEF a, b
  <1>4. \A k \in 1..Len(a) : a[k] = b[k]
    <2>1. \A k \in 1..(Len(q) - 1) : ~(k < 1)
      BY <1>2
    <2>. QED  BY <1>2, <1>3, <2>1
  <1>5. a = b
    BY <1>2, <1>3, <1>4, SeqEqual
  <1>. QED  BY <1>1, <1>2, <1>5 DEF a, b

LEMMA AppendIs ==
  ASSUME NEW T, NEW q \in Seq(T), NEW x \in T
  PROVE  Append(q, x) = q \o <<x>>
  <1>. DEFINE a == Append(q, x)
              b == q \o <<x>>
  <1>1. /\ b \in Seq(T) /\ Len(b) = Len(q) + 1 /\ Len(q) \in Nat
        /\ \A k \in 1..Len(q) : b[k] = q[k]
        /\ b[Len(q) + 1] = x
    BY SentOneMore
  <1>2. a \in Seq(T) /\ Len(a) = Len(q) + 1 /\ \A k \in 1..Len(q) : a[k] = q[k]
    BY AppendProperties
  <1>3. a[Len(q) + 1] = x
    BY AppendProperties
  <1>. HIDE DEF a, b
  <1>4. \A k \in 1..Len(a) : a[k] = b[k]
    BY <1>1, <1>2, <1>3
  <1>5. a = b
    BY <1>1, <1>2, <1>4, SeqEqual
  <1>. QED  BY <1>5 DEF a, b

IsRead(c) == c.op \in {"readAttributes", "readStructured"}

CmdsAside ==
  \/ cmds' = cmds
  \/ \E t \in Seq(Commands) : cmds' = cmds \o t /\ \A c \in Range(t) : ~IsRead(c)
  \/ cmds # <<>> /\ cmds' = Tail(cmds) /\ ~IsRead(Head(cmds))

EvtsAside ==
  \/ evts' = evts
  \/ \E t \in Seq(Signals) : evts' = evts \o t /\ \A sig \in Range(t) : sig.sig # "read"
  \/ evts # <<>> /\ evts' = Tail(evts) /\ Head(evts).sig # "read"

LEMMA CmdsAsideSame ==
  ASSUME QueueTypes, CmdsAside
  PROVE  /\ \A c : IsRead(c) => (c \in Range(cmds') <=> c \in Range(cmds))
         /\ InTurn(cmds, Structured) => InTurn(cmds', Structured)
  <1>0. cmds \in Seq(Commands)
    BY DEF QueueTypes
  <1>1. CASE cmds' = cmds
    BY <1>1
  <1>2. ASSUME NEW t \in Seq(Commands), cmds' = cmds \o t, \A c \in Range(t) : ~IsRead(c)
        PROVE  /\ \A c : IsRead(c) => (c \in Range(cmds') <=> c \in Range(cmds))
               /\ InTurn(cmds, Structured) => InTurn(cmds', Structured)
    <2>1. Range(cmds') = Range(cmds) \cup Range(t)
      BY <1>0, <1>2, AppendedQueue
    <2>2. \A c \in Range(t) : c \notin Structured
      BY <1>2 DEF Structured, IsRead
    <2>3. ASSUME InTurn(cmds, Structured)  PROVE InTurn(cmds', Structured)
      BY <1>0, <1>2, <2>2, <2>3, InTurnKept
    <2>. QED  BY <1>2, <2>1, <2>3
  <1>3. CASE cmds # <<>> /\ cmds' = Tail(cmds) /\ ~IsRead(Head(cmds))
    <2>1. Range(cmds) = {Head(cmds)} \cup Range(cmds')
      BY <1>0, <1>3, QueueTail
    <2>2. ASSUME InTurn(cmds, Structured)  PROVE InTurn(cmds', Structured)
      BY <1>0, <1>3, <2>2, InTurnKept
    <2>. QED  BY <1>3, <2>1, <2>2
  <1>. QED  BY <1>1, <1>2, <1>3 DEF CmdsAside

LEMMA EvtsAsideSame ==
  ASSUME QueueTypes, EvtsAside
  PROVE  \A sig : sig.sig = "read" => (sig \in Range(evts') <=> sig \in Range(evts))
  <1>0. evts \in Seq(Signals)
    BY DEF QueueTypes
  <1>1. CASE evts' = evts
    BY <1>1
  <1>2. ASSUME NEW t \in Seq(Signals), evts' = evts \o t, \A sig \in Range(t) : sig.sig # "read"
        PROVE  \A sig : sig.sig = "read" => (sig \in Range(evts') <=> sig \in Range(evts))
    <2>1. Range(evts') = Range(evts) \cup Range(t)
      BY <1>0, <1>2, AppendedQueue
    <2>. QED  BY <1>2, <2>1
  <1>3. CASE evts # <<>> /\ evts' = Tail(evts) /\ Head(evts).sig # "read"
    <2>1. Range(evts) = {Head(evts)} \cup Range(evts')
      BY <1>0, <1>3, QueueTail
    <2>. QED  BY <1>3, <2>1
  <1>. QED  BY <1>1, <1>2, <1>3 DEF EvtsAside

AsideStep ==
  /\ CmdsAside /\ EvtsAside
  /\ UNCHANGED <<reads, reader, last, nextId, pending, heard>>
  /\ selected' \in {selected, None}
  /\ \A panel \in Panels : shown'[panel] \in {shown[panel], None}

AsideAct ==
  \/ TableAct \/ PauseUpdates \/ AskDisconnect
  \/ \E s \in Servers : AskConnect(s)
  \/ \E rs \in StoredRows : SwitchProject(rs)
  \/ \E i \in DOMAIN rows : WriteValue(i)

LEMMA AsideUser ==
  ASSUME GuiTypes, QueueTypes, SessionInv, AsideAct, UNCHANGED <<sessionVars, watchVars, readVars>>
  PROVE  AsideStep /\ evts' = evts /\ UNCHANGED <<gConnected, cut>>
  <1>1. UNCHANGED <<reads, reader, last>>
    BY DEF readVars
  <1>2. ASSUME NEW t, t \in Seq(Commands), cmds' = cmds \o t, evts' = evts,
               \A c \in Range(t) : ~IsRead(c)
        PROVE  CmdsAside /\ EvtsAside
    BY <1>2 DEF CmdsAside, EvtsAside
  <1>3. ASSUME NEW c, AskTypes(<<c>>), c \in Commands, ~IsRead(c)
        PROVE  CmdsAside /\ EvtsAside /\ evts' = evts
    <2>1. Range(<<c>>) = {c}
      BY <1>3, OneCommand
    <2>. QED  BY <1>2, <1>3, <2>1 DEF AskTypes
  <1>4. CASE TableAct
    <2>1. PICK t : TableStep(t)
      BY <1>4, TableActs
    <2>2. evts' = evts /\ UNCHANGED <<linkVars, panelVars>>
      BY <1>4, TableActs
    <2>3. CmdsAside /\ EvtsAside
      BY <1>2, <2>1, <2>2 DEF TableStep, IsRead
    <2>. QED  BY <1>1, <2>2, <2>3 DEF AsideStep, linkVars, panelVars
  <1>5. CASE PauseUpdates
    BY <1>1, <1>5 DEF PauseUpdates, AsideStep, CmdsAside, EvtsAside, linkVars, panelVars
  <1>6. CASE AskDisconnect
    <2>. DEFINE c == [op |-> "disconnect"]
    <2>1. AskTypes(<<c>>)
      BY <1>6, DisconnectAsked
    <2>2. c \in Commands /\ ~IsRead(c)
      BY CommandsMade DEF IsRead
    <2>. HIDE DEF c
    <2>3. CmdsAside /\ EvtsAside /\ evts' = evts
      BY <1>3, <2>1, <2>2
    <2>. QED  BY <1>1, <1>6, <2>3 DEF AskDisconnect, AsideStep, linkVars, panelVars
  <1>7. ASSUME NEW s \in Servers, AskConnect(s)
        PROVE  AsideStep /\ evts' = evts /\ UNCHANGED <<gConnected, cut>>
    <2>. DEFINE c == [op |-> "connect", server |-> s]
    <2>1. AskTypes(<<c>>)
      BY <1>7, ConnectAsked
    <2>2. c \in Commands /\ ~IsRead(c)
      BY CommandsMade DEF IsRead
    <2>. HIDE DEF c
    <2>3. CmdsAside /\ EvtsAside /\ evts' = evts
      BY <1>3, <2>1, <2>2
    <2>. QED  BY <1>1, <1>7, <2>3 DEF AskConnect, AsideStep, panelVars
  <1>8. ASSUME NEW rs \in StoredRows, SwitchProject(rs)
        PROVE  AsideStep /\ evts' = evts /\ UNCHANGED <<gConnected, cut>>
    <2>. DEFINE c == [op |-> "disconnect"]
    <2>1. AskTypes(IF gConnected THEN <<c>> ELSE <<>>)
      BY <1>8, ProjectSwitched
    <2>2. c \in Commands /\ ~IsRead(c)
      BY CommandsMade DEF IsRead
    <2>. HIDE DEF c
    <2>3. CmdsAside /\ EvtsAside /\ evts' = evts
      <3>1. CASE gConnected
        BY <1>3, <2>1, <2>2, <3>1
      <3>2. CASE ~gConnected
        <4>1. \A d \in Range(<<>>) : ~IsRead(d)
          BY DEF Range
        <4>. QED  BY <1>2, <2>1, <3>2, <4>1 DEF AskTypes
      <3>. QED  BY <3>1, <3>2
    <2>4. \A panel \in Panels : shown'[panel] \in {shown[panel], None}
      BY <1>8 DEF SwitchProject, GuiTypes
    <2>. QED  BY <1>1, <1>8, <2>3, <2>4 DEF SwitchProject, AsideStep
  <1>9. ASSUME NEW i \in DOMAIN rows, WriteValue(i)
        PROVE  AsideStep /\ evts' = evts /\ UNCHANGED <<gConnected, cut>>
    <2>. DEFINE c == Order("write", rows[i].node)
    <2>1. AskTypes(<<c>>)
      BY <1>9, WriteAsked
    <2>2. rows[i].node \in Nodes
      <3>1. rows[i] \in TableRows
        BY DEF GuiTypes, Table
      <3>. QED  BY <3>1 DEF TableRows
    <2>3. c \in Commands /\ ~IsRead(c)
      BY <2>2, CommandsMade DEF IsRead, Order
    <2>. HIDE DEF c
    <2>4. CmdsAside /\ EvtsAside /\ evts' = evts
      BY <1>3, <2>1, <2>3
    <2>. QED  BY <1>1, <1>9, <2>4 DEF WriteValue, AsideStep, linkVars, panelVars
  <1>. QED  BY <1>4, <1>5, <1>6, <1>7, <1>8, <1>9 DEF AsideAct

LEMMA AsideDelivery ==
  ASSUME GuiTypes, QueueTypes, ConnectedChanged \/ ApplyMonitoredValue \/ ApplyWriteCompleted,
         UNCHANGED <<sessionVars, watchVars, readVars>>
  PROVE  AsideStep
  <1>1. UNCHANGED <<reads, reader, last>>
    BY DEF readVars
  <1>2. evts # <<>> /\ evts' = Tail(evts) /\ Head(evts).sig # "read"
    BY Delivered DEF QueueTypes, ApplyMonitoredValue, ApplyWriteCompleted, ConnectedChanged
  <1>3. CASE ConnectedChanged
    <2>1. CmdsAside
      <3>1. CASE Sig.server # None /\ ~gConnected
        <4>. DEFINE t == [k \in DOMAIN rows |-> Subscribe(rows[k])]
        <4>1. t \in Seq(Commands) /\ \A d \in Range(t) : d.op = "subscribe"
          BY AllAsked DEF GuiTypes
        <4>2. cmds' = cmds \o t
          BY <1>3, <3>1, SessionNews
        <4>. HIDE DEF t
        <4>. QED  BY <4>1, <4>2 DEF CmdsAside, IsRead
      <3>2. CASE ~(Sig.server # None /\ ~gConnected)
        <4>1. cmds' = cmds
          BY <1>3, <3>2, SessionNews
        <4>. QED  BY <4>1 DEF CmdsAside
      <3>. QED  BY <3>1, <3>2
    <2>2. \A panel \in Panels : shown'[panel] \in {shown[panel], None}
      BY <1>3, SessionNews
    <2>. QED  BY <1>1, <1>2, <1>3, <2>1, <2>2 DEF ConnectedChanged, AsideStep, EvtsAside
  <1>4. CASE ApplyMonitoredValue \/ ApplyWriteCompleted
    BY <1>1, <1>2, <1>4 DEF ApplyMonitoredValue, ApplyWriteCompleted, AsideStep, CmdsAside,
                            EvtsAside, panelVars
  <1>. QED  BY <1>3, <1>4

AsideService ==
  \/ Connect \/ Disconnect \/ SessionOpens \/ OpeningFails \/ SubscribeNode \/ UnsubscribeNode
  \/ \E n \in Nodes : DataChange(n)
  \/ WriteNodeValue
  \/ \E h \in Holders, n \in Nodes, ok \in BOOLEAN : WriteAnswered(h, n, ok)

(* Signals are only added.                                                  *)
LEMMA ToldOne ==
  ASSUME QueueTypes, NEW sig \in Signals, Emit(<<sig>>), sig.sig # "read"
  PROVE  EvtsAside /\ Range(evts) \subseteq Range(evts')
  <1>. DEFINE t == <<sig>>
  <1>1. t \in Seq(Signals) /\ Range(t) = {sig} /\ evts' = evts \o t
    BY SentOne DEF Emit
  <1>. HIDE DEF t
  <1>2. Range(evts') = Range(evts) \cup Range(t)
    BY <1>1, AppendedQueue DEF QueueTypes
  <1>. QED  BY <1>1, <1>2 DEF EvtsAside

LEMMA TookAside ==
  ASSUME QueueTypes, NEW op, Handling(op), op \notin {"readAttributes", "readStructured"}
  PROVE  CmdsAside
  BY Handled DEF QueueTypes, CmdsAside, Cmd, IsRead

LEMMA AsideServing ==
  ASSUME ServiceTypeOK, QueueTypes, AsideService, UNCHANGED guiVars
  PROVE  AsideStep /\ Range(evts) \subseteq Range(evts') /\ UNCHANGED <<gConnected, cut>>
  <1>0. /\ UNCHANGED <<gConnected, cut, nextId, pending, heard, selected, shown>>
    BY DEF guiVars, linkVars, panelVars
  <1>1. CASE Connect
    <2>1. CmdsAside
      BY <1>1, TookAside DEF Connect
    <2>. QED  BY <1>0, <1>1, <2>1 DEF Connect, AsideStep, EvtsAside, readVars
  <1>2. CASE Disconnect
    <2>1. CmdsAside
      BY <1>2, TookAside DEF Disconnect
    <2>. QED  BY <1>0, <1>2, <2>1 DEF Disconnect, AsideStep, EvtsAside, readVars
  <1>3. CASE SessionOpens
    <2>1. ConnectedSig(opening) \in Signals /\ ConnectedSig(opening).sig # "read"
      BY SignalsMade DEF ServiceTypeOK, ConnectedSig
    <2>2. EvtsAside /\ Range(evts) \subseteq Range(evts')
      BY <1>3, <2>1, ToldOne DEF SessionOpens
    <2>. QED  BY <1>0, <1>3, <2>2 DEF SessionOpens, AsideStep, CmdsAside, readVars
  <1>4. CASE OpeningFails
    <2>1. ConnectedSig(None) \in Signals /\ ConnectedSig(None).sig # "read"
      BY SignalsMade DEF ConnectedSig
    <2>2. EvtsAside /\ Range(evts) \subseteq Range(evts')
      BY <1>4, <2>1, ToldOne DEF OpeningFails
    <2>. QED  BY <1>0, <1>4, <2>2 DEF OpeningFails, AsideStep, CmdsAside, readVars
  <1>5. CASE SubscribeNode
    <2>1. CmdsAside
      BY <1>5, TookAside DEF SubscribeNode
    <2>. QED  BY <1>0, <1>5, <2>1 DEF SubscribeNode, AsideStep, EvtsAside, readVars
  <1>6. CASE UnsubscribeNode
    <2>1. CmdsAside
      BY <1>6, TookAside DEF UnsubscribeNode
    <2>. QED  BY <1>0, <1>6, <2>1 DEF UnsubscribeNode, AsideStep, EvtsAside, readVars
  <1>7. ASSUME NEW n \in Nodes, DataChange(n)
        PROVE  AsideStep /\ Range(evts) \subseteq Range(evts') /\ UNCHANGED <<gConnected, cut>>
    <2>1. ValueSig(n) \in Signals /\ ValueSig(n).sig # "read"
      BY <1>7, SignalsMade DEF DataChange, Up, ServiceTypeOK, ValueSig
    <2>2. EvtsAside /\ Range(evts) \subseteq Range(evts')
      BY <1>7, <2>1, ToldOne DEF DataChange
    <2>. QED  BY <1>0, <1>7, <2>2 DEF DataChange, AsideStep, CmdsAside, readVars
  <1>8. CASE WriteNodeValue
    <2>1. CmdsAside /\ Cmd.node \in Nodes
      BY <1>8, TookAside, Handled, CommandFields DEF WriteNodeValue, QueueTypes
    <2>2. EvtsAside /\ Range(evts) \subseteq Range(evts')
      <3>1. WrittenSig(Cmd.node, FALSE) \in Signals /\ WrittenSig(Cmd.node, FALSE).sig # "read"
        BY <2>1, SignalsMade DEF WrittenSig
      <3>2. UNCHANGED evts \/ Emit(<<WrittenSig(Cmd.node, FALSE)>>)
        BY <1>8 DEF WriteNodeValue
      <3>3. CASE UNCHANGED evts
        BY <3>3 DEF EvtsAside
      <3>4. CASE Emit(<<WrittenSig(Cmd.node, FALSE)>>)
        BY <3>1, <3>4, ToldOne
      <3>. QED  BY <3>2, <3>3, <3>4
    <2>. QED  BY <1>0, <1>8, <2>1, <2>2 DEF WriteNodeValue, AsideStep, readVars
  <1>9. ASSUME NEW h \in Holders, NEW n \in Nodes, NEW ok \in BOOLEAN, WriteAnswered(h, n, ok)
        PROVE  AsideStep /\ Range(evts) \subseteq Range(evts') /\ UNCHANGED <<gConnected, cut>>
    <2>. DEFINE t == IF HandlerLeft(h, n) THEN <<WrittenSig(n, ok)>> ELSE <<>>
    <2>1. WrittenSig(n, ok) \in Signals /\ WrittenSig(n, ok).sig = "written"
      BY SignalsMade DEF WrittenSig
    <2>2. evts' = evts \o t
      BY <1>9 DEF WriteAnswered, Emit
    <2>3. t \in Seq(Signals) /\ \A sig \in Range(t) : sig.sig # "read"
      BY <2>1 DEF Range
    <2>. HIDE DEF t
    <2>4. Range(evts') = Range(evts) \cup Range(t)
      BY <2>2, <2>3, AppendedQueue DEF QueueTypes
    <2>5. EvtsAside /\ Range(evts) \subseteq Range(evts')
      BY <2>2, <2>3, <2>4 DEF EvtsAside
    <2>. QED  BY <1>0, <1>9, <2>5 DEF WriteAnswered, AsideStep, CmdsAside, readVars
  <1>. QED  BY <1>1, <1>2, <1>3, <1>4, <1>5, <1>6, <1>7, <1>8, <1>9 DEF AsideService

-----------------------------------------------------------------------------
(* The panels: what is asked for is the selected node, and so is what is shown. *)

LEMMA RequestsKept ==
  ASSUME RequestsMeant, UNCHANGED <<nextId, pending>>, selected' \in {selected, None},
         \A c \in Range(cmds') : IsRead(c) => c \in Range(cmds),
         \A r \in Range(reads') : r \in Range(reads) \/ Meant(r.panel, r.req),
         \A sig \in Range(evts') : sig.sig = "read" => sig \in Range(evts) \/ Meant(sig.panel, sig),
         reader' \in {reader, None} \/ Meant("value", reader'),
         last' \in {last, None} \/ Meant("value", last')
  PROVE  RequestsMeant'
  <1>1. ASSUME NEW panel, NEW req, Meant(panel, req)
        PROVE  Meant(panel, req)'
    BY <1>1 DEF Meant
  <1>2. pending'["value"] = nextId'
    BY DEF RequestsMeant
  <1>3. ASSUME NEW panel \in Panels, NEW c \in Range(cmds'), c.op = ReadOf[panel]
        PROVE  Meant(panel, c.req)'
    <2>1. IsRead(c)
      BY <1>3 DEF IsRead, ReadOf, Panels
    <2>2. Meant(panel, c.req)
      BY <1>3, <2>1 DEF RequestsMeant
    <2>. QED  BY <1>1, <2>2
  <1>4. ASSUME NEW panel \in Panels, NEW r \in Range(reads'), r.panel = panel
        PROVE  Meant(panel, r.req)'
    <2>1. Meant(panel, r.req)
      BY <1>4 DEF RequestsMeant
    <2>. QED  BY <1>1, <2>1
  <1>5. ASSUME NEW panel \in Panels, NEW sig \in Range(evts'), sig.sig = "read", sig.panel = panel
        PROVE  Meant(panel, sig)'
    <2>1. Meant(panel, sig)
      BY <1>5 DEF RequestsMeant
    <2>. QED  BY <1>1, <2>1
  <1>6. ASSUME reader' # None  PROVE Meant("value", reader)'
    <2>1. Meant("value", reader')
      BY <1>6 DEF RequestsMeant
    <2>. QED  BY <2>1 DEF Meant
  <1>7. ASSUME last' # None  PROVE Meant("value", last)'
    <2>1. Meant("value", last')
      BY <1>7 DEF RequestsMeant
    <2>. QED  BY <2>1 DEF Meant
  <1>. QED  BY <1>2, <1>3, <1>4, <1>5, <1>6, <1>7 DEF RequestsMeant

LEMMA ReadMoves ==
  ASSUME ServiceTypeOK, QueueTypes, NEW panel \in Panels, NEW req \in Requests, Read(panel, req)
  PROVE  LET x == [panel |-> panel, req |-> req]
             sig == ReadSig(panel, req, FALSE)
         IN /\ x \in OpenReads /\ x.panel = panel /\ x.req = req
            /\ sig.sig = "read" /\ sig.panel = panel /\ sig.id = req.id /\ sig.node = req.node
            /\ \/ /\ reads' = reads \o <<x>> /\ Range(reads') = Range(reads) \cup {x}
                  /\ reads' \in Seq(OpenReads) /\ evts' = evts
               \/ reads' = reads /\ Range(evts') = Range(evts) \cup {sig}
  <1>. DEFINE x == [panel |-> panel, req |-> req]
              sig == ReadSig(panel, req, FALSE)
  <1>1. x \in OpenReads /\ x.panel = panel /\ x.req = req
    BY DEF OpenReads
  <1>2. sig \in Signals
    BY SignalsMade
  <1>3. sig.sig = "read" /\ sig.panel = panel /\ sig.id = req.id /\ sig.node = req.node
    BY DEF ReadSig
  <1>4. reads \in Seq(OpenReads)
    BY DEF ServiceTypeOK, OpenReads
  <1>5. CASE reads' = Outstanding(panel, req) /\ UNCHANGED evts
    <2>1. reads' = Append(reads, x)
      BY <1>5 DEF Outstanding
    <2>. HIDE DEF x
    <2>2. reads' = reads \o <<x>>
      BY <1>1, <1>4, <2>1, AppendIs
    <2>3. reads \o <<x>> \in Seq(OpenReads) /\ Range(reads \o <<x>>) = Range(reads) \cup {x}
      BY <1>1, <1>4, SentOneMore
    <2>. QED  BY <1>1, <1>3, <1>5, <2>2, <2>3 DEF x
  <1>6. CASE Emit(<<sig>>) /\ UNCHANGED reads
    <2>. HIDE DEF sig
    <2>1. Range(evts') = Range(evts) \cup {sig}
      BY <1>2, <1>6, EmittedOne DEF QueueTypes
    <2>. QED  BY <1>1, <1>3, <1>6, <2>1 DEF sig
  <1>. QED  BY <1>5, <1>6 DEF Read

LEMMA ReadsOpen ==
  ASSUME ServiceTypeOK
  PROVE  reads \in Seq(OpenReads) /\ \A i \in DOMAIN reads :
           /\ reads[i] \in OpenReads /\ reads[i] \in Range(reads)
           /\ reads[i].panel \in Panels /\ reads[i].req \in Requests
  <1>1. reads \in Seq(OpenReads)
    BY DEF ServiceTypeOK, OpenReads
  <1>2. \A i \in DOMAIN reads : reads[i] \in OpenReads /\ reads[i] \in Range(reads)
    BY <1>1 DEF Range
  <1>3. \A r \in OpenReads : r.panel \in Panels /\ r.req \in Requests
    BY DEF OpenReads
  <1>. QED  BY <1>1, <1>2, <1>3

ReadingService ==
  \/ ReadNodeAttributes \/ ReadStructuredValue
  \/ \E i \in DOMAIN reads : ReadAnswered(i)
  \/ ReaderFinishes \/ HandlerReady

LEMMA MeantRead ==
  ASSUME ServiceTypeOK, QueueTypes, NEW panel \in Panels, NEW req \in Requests,
         Read(panel, req), Meant(panel, req)
  PROVE  /\ \A r \in Range(reads') : r \in Range(reads) \/ Meant(r.panel, r.req)
         /\ \A sig \in Range(evts') :
              sig.sig = "read" => sig \in Range(evts) \/ Meant(sig.panel, sig)
  <1>. DEFINE x == [panel |-> panel, req |-> req]
              s == ReadSig(panel, req, FALSE)
  <1>1. /\ x.panel = panel /\ x.req = req
        /\ s.panel = panel /\ s.id = req.id /\ s.node = req.node
        /\ \/ Range(reads') = Range(reads) \cup {x} /\ evts' = evts
           \/ reads' = reads /\ Range(evts') = Range(evts) \cup {s}
    BY ReadMoves
  <1>. HIDE DEF x, s
  <1>2. Meant(x.panel, x.req) /\ Meant(s.panel, s)
    BY <1>1 DEF Meant
  <1>. QED  BY <1>1, <1>2

LEMMA MeantReading ==
  ASSUME ServiceTypeOK, QueueTypes, RequestsMeant, ReadingService, UNCHANGED guiVars
  PROVE  RequestsMeant'
  <1>. USE NodeServiceAssumption
  <1>0. /\ UNCHANGED <<nextId, pending, selected>>
        /\ "attributes" \in Panels /\ "value" \in Panels
        /\ ReadOf["attributes"] = "readAttributes" /\ ReadOf["value"] = "readStructured"
    BY DEF guiVars, panelVars, Panels, ReadOf
  <1>2. CASE ReadNodeAttributes
    <2>1. Cmd \in Commands /\ Cmd.op = "readAttributes" /\ Range(cmds) = {Cmd} \cup Range(cmds')
      BY <1>2, Handled DEF ReadNodeAttributes, QueueTypes
    <2>2. Cmd.req \in Requests /\ Meant("attributes", Cmd.req)
      BY <1>0, <2>1, CommandFields DEF RequestsMeant
    <2>3. /\ \A r \in Range(reads') : r \in Range(reads) \/ Meant(r.panel, r.req)
          /\ \A sig \in Range(evts') :
               sig.sig = "read" => sig \in Range(evts) \/ Meant(sig.panel, sig)
      BY <1>0, <1>2, <2>2, MeantRead DEF ReadNodeAttributes
    <2>. QED  BY <1>0, <1>2, <2>1, <2>3, RequestsKept DEF ReadNodeAttributes
  <1>3. CASE ReadStructuredValue
    <2>1. Cmd \in Commands /\ Cmd.op = "readStructured" /\ Range(cmds) = {Cmd} \cup Range(cmds')
      BY <1>3, Handled DEF ReadStructuredValue, QueueTypes
    <2>2. Cmd.req \in Requests /\ Meant("value", Cmd.req)
      BY <1>0, <2>1, CommandFields DEF RequestsMeant
    <2>3. /\ \A r \in Range(reads') : r \in Range(reads) \/ Meant(r.panel, r.req)
          /\ \A sig \in Range(evts') :
               sig.sig = "read" => sig \in Range(evts) \/ Meant(sig.panel, sig)
      BY <1>0, <1>3, <2>2, MeantRead DEF ReadStructuredValue
    <2>4. Meant("value", last') /\ reader' = reader
      BY <1>3, <2>2 DEF ReadStructuredValue
    <2>. QED  BY <1>0, <2>1, <2>3, <2>4, RequestsKept
  <1>4. ASSUME NEW i \in DOMAIN reads, ReadAnswered(i)  PROVE RequestsMeant'
    <2>. DEFINE r == reads[i]
                s == ReadSig(r.panel, r.req, TRUE)
    <2>1. /\ reads \in Seq(OpenReads) /\ r \in Range(reads)
          /\ r.panel \in Panels /\ r.req \in Requests
      BY ReadsOpen
    <2>2. Range(reads) = {r} \cup Range(reads')
      BY <1>4, <2>1, TakenOut DEF ReadAnswered
    <2>3. Meant(r.panel, r.req)
      BY <2>1 DEF RequestsMeant
    <2>4. s \in Signals /\ s.panel = r.panel /\ s.id = r.req.id /\ s.node = r.req.node
      BY <2>1, SignalsMade DEF ReadSig
    <2>5. /\ cmds' = cmds /\ last' = last
          /\ \/ Emit(<<s>>) /\ reader' = reader
             \/ r.panel = "value" /\ reader' = r.req /\ evts' = evts
      BY <1>4 DEF ReadAnswered
    <2>. HIDE DEF r, s
    <2>6. Meant(s.panel, s)
      BY <2>3, <2>4 DEF Meant
    <2>7. \A sig \in Range(evts') : sig \in Range(evts) \/ Meant(sig.panel, sig)
      <3>1. CASE Emit(<<s>>)
        <4>1. Range(evts') = Range(evts) \cup {s}
          BY <2>4, <3>1, EmittedOne DEF QueueTypes
        <4>. QED  BY <2>6, <4>1
      <3>2. CASE evts' = evts
        BY <3>2
      <3>. QED  BY <2>5, <3>1, <3>2
    <2>8. reader' = reader \/ Meant("value", reader')
      BY <2>3, <2>5
    <2>. QED  BY <1>0, <2>2, <2>5, <2>7, <2>8, RequestsKept
  <1>5. CASE ReaderFinishes
    <2>1. PICK good \in BOOLEAN : Emit(<<ReadSig("value", reader, good)>>)
      BY <1>5 DEF ReaderFinishes
    <2>. DEFINE s == ReadSig("value", reader, good)
    <2>2. s \in Signals /\ s.panel = "value" /\ s.id = reader.id /\ s.node = reader.node
      BY <1>0, <1>5, SignalsMade DEF ReaderFinishes, ServiceTypeOK, ReadSig
    <2>. HIDE DEF s
    <2>3. Meant(s.panel, s)
      BY <1>5, <2>2 DEF ReaderFinishes, RequestsMeant, Meant
    <2>4. Range(evts') = Range(evts) \cup {s}
      BY <2>1, <2>2, EmittedOne DEF QueueTypes, s
    <2>5. cmds' = cmds /\ reads' = reads /\ last' = last /\ reader' = None
      BY <1>5 DEF ReaderFinishes
    <2>. QED  BY <1>0, <2>3, <2>4, <2>5, RequestsKept
  <1>6. CASE HandlerReady
    <2>1. cmds' = cmds /\ reader' = reader /\ last' = last
      BY <1>6 DEF HandlerReady
    <2>2. CASE last = None
      <3>1. reads' = reads /\ evts' = evts
        BY <1>6, <2>2 DEF HandlerReady
      <3>. QED  BY <1>0, <2>1, <3>1, RequestsKept
    <2>3. CASE last # None
      <3>1. last \in Requests /\ Read("value", last) /\ Meant("value", last)
        BY <1>6, <2>3 DEF HandlerReady, ServiceTypeOK, RequestsMeant
      <3>2. /\ \A r \in Range(reads') : r \in Range(reads) \/ Meant(r.panel, r.req)
            /\ \A sig \in Range(evts') :
                 sig.sig = "read" => sig \in Range(evts) \/ Meant(sig.panel, sig)
        BY <1>0, <3>1, MeantRead
      <3>. QED  BY <1>0, <2>1, <3>2, RequestsKept
    <2>. QED  BY <2>2, <2>3
  <1>. QED  BY <1>2, <1>3, <1>4, <1>5, <1>6 DEF ReadingService

(* A new request supersedes what was asked for the panel before.             *)
LEMMA NewRequest ==
  ASSUME GuiTypes, QueueTypes, ServiceTypeOK, RequestsMeant, SelectNode(selected') \/ RefreshStructuredValue,
         selected' \in Nodes, UNCHANGED <<sessionVars, watchVars, readVars>>
  PROVE  /\ RequestsMeant'
         /\ nextId' = nextId + 1 /\ nextId \in Nat /\ pending'["value"] = nextId + 1
         /\ \A panel \in Panels : pending[panel] \in Nat /\ pending[panel] <= nextId /\ heard[panel] <= nextId
         /\ \A panel \in Panels :
              \/ pending'[panel] = nextId + 1 /\ \E c \in Range(cmds') :
                   c.op = ReadOf[panel] /\ c.req.id = pending'[panel]
              \/ pending'[panel] = pending[panel] /\ selected' = selected /\ cut' = cut
         /\ UNCHANGED <<gConnected, heard, shown, evts, reads, reader, last>>
         /\ \E d \in Structured :
              /\ d.req.id = nextId + 1
              /\ \/ cmds' = cmds \o <<d>>
                 \/ \E c \in Commands : /\ c.op = "readAttributes"
                                        /\ cmds' = (cmds \o <<c>>) \o <<d>>
         /\ cmds' \in Seq(Commands) /\ Range(cmds) \subseteq Range(cmds')
  <1>. DEFINE id == nextId + 1
              n == selected'
              c == ReadOrder("readAttributes", n, id)
              d == ReadOrder("readStructured", n, id)
  <1>0. /\ nextId \in Nat /\ id \in Nat /\ id > nextId /\ n \in Nodes
        /\ "attributes" \in Panels /\ "value" \in Panels
        /\ \A panel \in Panels : panel = "attributes" \/ panel = "value"
        /\ ReadOf["attributes"] = "readAttributes" /\ ReadOf["value"] = "readStructured"
    BY DEF GuiTypes, Panels, ReadOf
  <1>1. /\ c \in Commands /\ c.op = "readAttributes" /\ c.req.id = id /\ c.req.node = n
        /\ d \in Commands /\ d.op = "readStructured" /\ d.req.id = id /\ d.req.node = n
    BY <1>0, CommandsMade DEF ReadOrder
  <1>2. nextId' = id /\ UNCHANGED <<gConnected, heard, shown, evts, reads, reader, last>>
    BY DEF SelectNode, RefreshStructuredValue, linkVars, readVars
  <1>3. \/ /\ cmds' = cmds \o <<c, d>> /\ pending' = [panel \in Panels |-> id]
           /\ cut' = FALSE
        \/ /\ cmds' = cmds \o <<d>> /\ pending' = [pending EXCEPT !["value"] = id]
           /\ selected' = selected /\ cut' = cut
    BY <1>2 DEF SelectNode, RefreshStructuredValue, Post
  <1>. HIDE DEF id, c, d
  <1>4. cmds \in Seq(Commands)
    BY DEF QueueTypes
  <1>5. cmds \o <<c, d>> = (cmds \o <<c>>) \o <<d>>
    BY <1>1, <1>4, SentTwo
  <1>6. cmds \o <<d>> \in Seq(Commands) /\ Range(cmds \o <<d>>) = Range(cmds) \cup {d}
    BY <1>1, <1>4, SentOneMore
  <1>7. (cmds \o <<c, d>>) \in Seq(Commands) /\ Range(cmds \o <<c, d>>) = Range(cmds) \cup {c, d}
    <2>1. <<c, d>> \in Seq(Commands) /\ Range(<<c, d>>) = {c, d}
      <3>1. c \in Commands /\ d \in Commands
        BY <1>1
      <3>2. <<c, d>> \in Seq(Commands)
        BY <3>1
      <3>3. Range(<<c, d>>) = {c, d}
        BY DEF Range
      <3>. QED  BY <3>2, <3>3
    <2>. DEFINE t == <<c, d>>
    <2>2. t \in Seq(Commands) /\ Range(t) = {c, d}
      BY <2>1
    <2>. HIDE DEF t
    <2>3. cmds \o t \in Seq(Commands) /\ Range(cmds \o t) = Range(cmds) \cup Range(t)
      BY <1>4, <2>2, AppendedQueue
    <2>. QED  BY <2>2, <2>3 DEF t
  <1>8. /\ cmds' \in Seq(Commands) /\ Range(cmds) \subseteq Range(cmds')
        /\ d \in Range(cmds') /\ Range(cmds') \subseteq Range(cmds) \cup {c, d}
        /\ cmds' = cmds \o <<c, d>> => c \in Range(cmds')
    BY <1>3, <1>6, <1>7
  <1>9. \A panel \in Panels : /\ pending[panel] \in Nat /\ pending[panel] <= nextId
                              /\ heard[panel] <= nextId
    <2>1. ASSUME NEW panel \in Panels
          PROVE  pending[panel] \in 0..nextId /\ heard[panel] \in 0..nextId
      BY DEF GuiTypes
    <2>. QED  BY <1>0, <2>1
  <1>10. ASSUME NEW panel \in Panels
         PROVE  \/ /\ pending'[panel] = id
                   /\ \E e \in Range(cmds') : e.op = ReadOf[panel] /\ e.req.id = pending'[panel]
                \/ panel = "attributes" /\ pending'[panel] = pending[panel] /\ selected' = selected
                   /\ cut' = cut /\ c \notin Range(cmds') \ Range(cmds)
    <2>1. CASE cmds' = cmds \o <<c, d>> /\ pending' = [p \in Panels |-> id]
      <3>1. pending'[panel] = id
        BY <2>1
      <3>2. CASE panel = "attributes"
        BY <1>0, <1>1, <1>8, <2>1, <3>1, <3>2
      <3>3. CASE panel = "value"
        BY <1>0, <1>1, <1>8, <2>1, <3>1, <3>3
      <3>. QED  BY <1>0, <3>2, <3>3
    <2>2. CASE /\ cmds' = cmds \o <<d>> /\ pending' = [pending EXCEPT !["value"] = id]
               /\ selected' = selected /\ cut' = cut
      <3>1. pending \in [Panels -> 0..nextId]
        BY DEF GuiTypes
      <3>2. CASE panel = "attributes"
        <4>1. pending'[panel] = pending[panel]
          BY <2>2, <3>1, <3>2
        <4>2. c # d
          BY <1>1
        <4>. QED  BY <1>6, <2>2, <3>2, <4>1, <4>2
      <3>3. CASE panel = "value"
        <4>1. pending'[panel] = id
          BY <2>2, <3>1, <3>3
        <4>. QED  BY <1>0, <1>1, <1>8, <3>3, <4>1
      <3>. QED  BY <1>0, <3>2, <3>3
    <2>. QED  BY <1>3, <2>1, <2>2
  <1>11. pending'["value"] = id
    BY <1>0, <1>10
  <1>12. ASSUME NEW panel \in Panels, NEW req, Meant(panel, req), req.id \in Nat
         PROVE  Meant(panel, req)'
    <2>1. req.id <= pending[panel]
      BY <1>12 DEF Meant
    <2>2. CASE pending'[panel] = id
      <3>1. req.id <= id /\ req.id # id
        BY <1>0, <1>9, <1>12, <2>1
      <3>. QED  BY <2>2, <3>1 DEF Meant
    <2>3. CASE pending'[panel] = pending[panel] /\ selected' = selected
      BY <1>12, <2>3 DEF Meant
    <2>. QED  BY <1>10, <2>2, <2>3
  <1>13. ASSUME NEW panel \in Panels, NEW e \in Range(cmds'), e.op = ReadOf[panel]
         PROVE  Meant(panel, e.req)'
    <2>1. CASE e \in Range(cmds)
      <3>1. e \in Commands
        BY <1>4, <2>1 DEF Range
      <3>2. e.req \in Requests
        BY <1>0, <1>13, <3>1, CommandFields
      <3>3. Meant(panel, e.req) /\ e.req.id \in Nat
        BY <1>13, <2>1, <3>2 DEF RequestsMeant, Requests
      <3>. QED  BY <1>12, <3>3
    <2>2. CASE e \notin Range(cmds)
      <3>1. e \in {c, d} /\ e.req.id = id /\ e.req.node = selected'
        BY <1>1, <1>8, <1>13, <2>2
      <3>2. pending'[panel] = id
        <4>1. CASE panel = "value"
          BY <1>11, <4>1
        <4>2. CASE panel = "attributes"
          <5>1. e = c
            BY <1>0, <1>1, <1>13, <3>1, <4>2
          <5>. QED  BY <1>10, <1>13, <2>2, <5>1
        <4>. QED  BY <1>0, <4>1, <4>2
      <3>3. id <= id
        BY <1>0
      <3>. QED  BY <3>1, <3>2, <3>3 DEF Meant
    <2>. QED  BY <2>1, <2>2
  <1>14. ASSUME NEW panel \in Panels, NEW r \in Range(reads'), r.panel = panel
         PROVE  Meant(panel, r.req)'
    <2>1. r \in Range(reads)
      BY <1>2, <1>14
    <2>2. r.req \in Requests
      BY <2>1, ReadsOpen DEF Range
    <2>3. Meant(panel, r.req) /\ r.req.id \in Nat
      BY <1>14, <2>1, <2>2 DEF RequestsMeant, Requests
    <2>. QED  BY <1>12, <2>3
  <1>15. ASSUME NEW panel \in Panels, NEW sig \in Range(evts'), sig.sig = "read", sig.panel = panel
         PROVE  Meant(panel, sig)'
    <2>1. sig \in Range(evts) /\ sig \in Signals
      BY <1>2, <1>15 DEF QueueTypes, Range
    <2>2. Meant(panel, sig) /\ sig.id \in Nat
      BY <1>15, <2>1, SignalFields DEF RequestsMeant
    <2>. QED  BY <1>12, <2>2
  <1>16. ASSUME reader' # None  PROVE Meant("value", reader)'
    <2>1. Meant("value", reader) /\ reader.id \in Nat
      BY <1>2, <1>16 DEF RequestsMeant, ServiceTypeOK, Requests
    <2>2. reader.id <= pending["value"] /\ pending["value"] <= nextId
      BY <1>0, <1>9, <2>1 DEF Meant
    <2>3. reader.id <= id /\ reader.id # id
      BY <1>0, <1>9, <2>1, <2>2
    <2>. QED  BY <1>2, <1>11, <2>3 DEF Meant
  <1>17. ASSUME last' # None  PROVE Meant("value", last)'
    <2>1. Meant("value", last) /\ last.id \in Nat
      BY <1>2, <1>17 DEF RequestsMeant, ServiceTypeOK, Requests
    <2>2. last.id <= pending["value"] /\ pending["value"] <= nextId
      BY <1>0, <1>9, <2>1 DEF Meant
    <2>3. last.id <= id /\ last.id # id
      BY <1>0, <1>9, <2>1, <2>2
    <2>. QED  BY <1>2, <1>11, <2>3 DEF Meant
  <1>18. RequestsMeant'
    BY <1>2, <1>11, <1>13, <1>14, <1>15, <1>16, <1>17 DEF RequestsMeant
  <1>19. d \in Structured /\ d.req.id = id
    BY <1>1 DEF Structured
  <1>20. \/ cmds' = cmds \o <<d>>
         \/ c \in Commands /\ c.op = "readAttributes" /\ cmds' = (cmds \o <<c>>) \o <<d>>
    BY <1>1, <1>3, <1>5
  <1>. QED
    BY <1>0, <1>2, <1>8, <1>9, <1>10, <1>11, <1>18, <1>19, <1>20 DEF id

ReadAct == (\E n \in Nodes : SelectNode(n)) \/ RefreshStructuredValue

LEMMA ReadActs ==
  ASSUME GuiTypes, ReadAct
  PROVE  (SelectNode(selected') \/ RefreshStructuredValue) /\ selected' \in Nodes
  <1>1. ASSUME NEW n \in Nodes, SelectNode(n)  PROVE selected' = n
    BY <1>1 DEF SelectNode
  <1>2. CASE RefreshStructuredValue
    BY <1>2 DEF RefreshStructuredValue, GuiTypes
  <1>3. CASE \E n \in Nodes : SelectNode(n)
    BY <1>1, <1>3
  <1>. QED  BY <1>2, <1>3 DEF ReadAct

(* The answer at hand is for the panel's last request, or changes nothing.    *)
LEMMA AnswerTaken ==
  ASSUME GuiTypes, QueueTypes, PanelInv, ApplyRead, UNCHANGED <<sessionVars, watchVars, readVars>>
  PROVE  /\ PanelInv'
         /\ Sig \in Signals /\ Sig.sig = "read" /\ Range(evts) = {Sig} \cup Range(evts')
         /\ UNCHANGED <<cmds, reads, reader, last, pending, cut, gConnected>>
         /\ \A panel \in Panels :
              IF Sig.panel = panel /\ Sig.id = pending[panel]
              THEN heard'[panel] = pending[panel] ELSE heard'[panel] = heard[panel]
  <1>. USE NodeServiceAssumption
  <1>1. /\ Sig \in Signals /\ Sig.sig = "read" /\ Range(evts) = {Sig} \cup Range(evts')
    BY Delivered DEF ApplyRead, QueueTypes
  <1>2. /\ UNCHANGED <<cmds, reads, reader, last, pending, nextId, selected, cut, gConnected>>
    BY DEF ApplyRead, linkVars, readVars
  <1>3. Sig.panel \in Panels /\ Sig.node \in Nodes
    BY <1>1, SignalFields
  <1>4. RequestsMeant'
    BY <1>1, <1>2, RequestsKept DEF PanelInv
  <1>5. Meant(Sig.panel, Sig)
    BY <1>1, <1>3 DEF PanelInv, RequestsMeant
  <1>6. ASSUME NEW panel \in Panels
        PROVE  /\ IF Sig.panel = panel /\ Sig.id = pending[panel]
                  THEN /\ heard'[panel] = pending[panel]
                       /\ shown'[panel] \in {Sig.node, None}
                  ELSE heard'[panel] = heard[panel] /\ shown'[panel] = shown[panel]
    <2>1. heard \in [Panels -> 0..nextId] /\ shown \in [Panels -> Nodes \cup {None}]
      BY DEF GuiTypes
    <2>2. CASE Sig.id # pending[Sig.panel]
      <3>1. heard' = heard /\ shown' = shown
        BY <2>2 DEF ApplyRead, IsCurrent
      <3>. QED  BY <2>2, <3>1
    <2>3. CASE Sig.id = pending[Sig.panel]
      <3>1. /\ heard' = [heard EXCEPT ![Sig.panel] = Sig.id]
            /\ \/ shown' = [shown EXCEPT ![Sig.panel] = Sig.node]
               \/ shown' = [shown EXCEPT ![Sig.panel] = None]
        BY <2>3 DEF ApplyRead, IsCurrent
      <3>. QED  BY <1>3, <2>1, <2>3, <3>1
    <2>. QED  BY <2>2, <2>3
  <1>7. ShownIsSelected'
    <2>1. ASSUME NEW panel \in Panels, heard'[panel] = pending'[panel], selected' # None
          PROVE  shown'[panel] \in {None, selected'}
      <3>1. CASE Sig.panel = panel /\ Sig.id = pending[panel]
        <4>1. Sig.node = selected
          BY <1>2, <1>5, <2>1, <3>1 DEF Meant
        <4>. QED  BY <1>2, <1>6, <3>1, <4>1
      <3>2. CASE ~(Sig.panel = panel /\ Sig.id = pending[panel])
        BY <1>2, <1>6, <2>1, <3>2 DEF PanelInv, ShownIsSelected
      <3>. QED  BY <3>1, <3>2
    <2>. QED  BY <2>1 DEF ShownIsSelected
  <1>. QED  BY <1>1, <1>2, <1>4, <1>6, <1>7 DEF PanelInv

LEMMA SessionEndsPanel ==
  ASSUME GuiTypes, QueueTypes, PanelInv, SessionEnds, UNCHANGED guiVars
  PROVE  PanelInv'
  <1>1. /\ UNCHANGED <<nextId, pending, heard, selected, shown, cmds>>
        /\ reads' = <<>> /\ reader' = None /\ last' = None
    BY DEF guiVars, panelVars, SessionEnds, ForgetSession
  <1>2. ConnectedSig(None) \in Signals /\ ConnectedSig(None).sig # "read"
    BY SignalsMade DEF ConnectedSig
  <1>3. \A sig \in Range(evts') : sig.sig = "read" => sig \in Range(evts)
    <2>1. Range(evts') = Range(evts) \cup {ConnectedSig(None)}
      BY <1>2, EmittedOne DEF SessionEnds, QueueTypes
    <2>. QED  BY <1>2, <2>1
  <1>4. Range(reads') = {}
    BY <1>1 DEF Range
  <1>5. RequestsMeant'
    BY <1>1, <1>3, <1>4, RequestsKept DEF PanelInv
  <1>. QED  BY <1>1, <1>5 DEF PanelInv, ShownIsSelected

LEMMA AsidePanel ==
  ASSUME QueueTypes, PanelInv, AsideStep
  PROVE  PanelInv'
  <1>1. \A c : IsRead(c) => (c \in Range(cmds') <=> c \in Range(cmds))
    BY CmdsAsideSame DEF AsideStep
  <1>2. \A sig : sig.sig = "read" => (sig \in Range(evts') <=> sig \in Range(evts))
    BY EvtsAsideSame DEF AsideStep
  <1>3. RequestsMeant'
    BY <1>1, <1>2, RequestsKept DEF AsideStep, PanelInv
  <1>. QED  BY <1>3 DEF AsideStep, PanelInv, ShownIsSelected

LEMMA UserActsAside ==
  UserNext <=> AsideAct \/ ReadAct
  BY DEF UserNext, AsideAct, TableAct, ReadAct

LEMMA ServiceActsAside ==
  ServiceNext <=> AsideService \/ ReadingService \/ SessionEnds
  BY DEF ServiceNext, AsideService, ReadingService

LEMMA StutterAside ==
  ASSUME UNCHANGED vars
  PROVE  AsideStep
  BY DEF vars, svcVars, guiVars, linkVars, panelVars, readVars, AsideStep, CmdsAside, EvtsAside

LEMMA PanelKept ==
  ASSUME Types, SessionInv, PanelInv, [Next]_vars
  PROVE  PanelInv'
  <1>1. ServiceTypeOK /\ GuiTypes /\ QueueTypes
    BY TypesSplit
  <1>2. CASE UserNext /\ UNCHANGED <<sessionVars, watchVars, readVars>>
    <2>1. CASE AsideAct
      BY <1>1, <1>2, <2>1, AsideUser, AsidePanel
    <2>2. CASE ReadAct
      <3>1. /\ RequestsMeant' /\ nextId' = nextId + 1 /\ nextId \in Nat
            /\ UNCHANGED <<heard, shown>>
            /\ \A panel \in Panels :
                 /\ heard[panel] <= nextId
                 /\ pending'[panel] = nextId + 1 \/ (pending'[panel] = pending[panel] /\ selected' = selected)
        BY <1>1, <1>2, <2>2, ReadActs, NewRequest DEF PanelInv
      <3>2. \A panel \in Panels : pending'[panel] = nextId + 1 => heard[panel] # pending'[panel]
        <4>1. ASSUME NEW panel \in Panels  PROVE heard[panel] \in Nat /\ heard[panel] <= nextId
          <5>1. heard[panel] \in 0..nextId
            BY <1>1 DEF GuiTypes
          <5>. QED  BY <3>1, <5>1
        <4>. QED  BY <3>1, <4>1
      <3>3. ShownIsSelected'
        BY <3>1, <3>2 DEF PanelInv, ShownIsSelected
      <3>. QED  BY <3>1, <3>3 DEF PanelInv
    <2>. QED  BY <1>2, <2>1, <2>2, UserActsAside
  <1>3. CASE GuiNext /\ UNCHANGED <<sessionVars, watchVars, readVars>>
    <2>1. CASE ApplyRead
      BY <1>1, <1>3, <2>1, AnswerTaken
    <2>2. CASE ConnectedChanged \/ ApplyMonitoredValue \/ ApplyWriteCompleted
      BY <1>1, <1>3, <2>2, AsideDelivery, AsidePanel
    <2>. QED  BY <1>3, <2>1, <2>2 DEF GuiNext
  <1>4. CASE ServiceNext /\ UNCHANGED guiVars
    <2>1. CASE AsideService
      BY <1>1, <1>4, <2>1, AsideServing, AsidePanel
    <2>2. CASE ReadingService
      <3>1. RequestsMeant'
        BY <1>1, <1>4, <2>2, MeantReading DEF PanelInv
      <3>. QED  BY <1>4, <3>1 DEF PanelInv, ShownIsSelected, guiVars, panelVars
    <2>3. CASE SessionEnds
      BY <1>1, <1>4, <2>3, SessionEndsPanel
    <2>. QED  BY <1>4, <2>1, <2>2, <2>3, ServiceActsAside
  <1>5. CASE UNCHANGED vars
    BY <1>1, <1>5, StutterAside, AsidePanel
  <1>. QED  BY <1>2, <1>3, <1>4, <1>5 DEF Next

-----------------------------------------------------------------------------
(* The last request of each panel is answered.                              *)

LEMMA AsideAnswers ==
  ASSUME QueueTypes, ReadsInOrder, AsideStep
  PROVE  ReadsInOrder' /\ \A panel \in Panels : InFlight(panel) => InFlight(panel)'
  <1>1. /\ \A c : IsRead(c) => (c \in Range(cmds') <=> c \in Range(cmds))
        /\ InTurn(cmds, Structured) => InTurn(cmds', Structured)
    BY CmdsAsideSame DEF AsideStep
  <1>2. \A sig : sig.sig = "read" => (sig \in Range(evts') <=> sig \in Range(evts))
    BY EvtsAsideSame DEF AsideStep
  <1>3. UNCHANGED <<reads, reader, last, pending>>
    BY DEF AsideStep
  <1>4. \A c : c \in Structured => IsRead(c)
    BY DEF Structured, IsRead
  <1>5. ReadsInOrder'
    BY <1>1, <1>3, <1>4 DEF ReadsInOrder
  <1>6. ASSUME NEW panel \in Panels, InFlight(panel)  PROVE InFlight(panel)'
    <2>1. CASE \E c \in Range(cmds) : c.op = ReadOf[panel] /\ c.req.id = pending[panel]
      <3>1. PICK c \in Range(cmds) : c.op = ReadOf[panel] /\ c.req.id = pending[panel]
        BY <2>1
      <3>2. IsRead(c)
        BY <3>1 DEF IsRead, ReadOf, Panels
      <3>. QED  BY <1>1, <1>3, <3>1, <3>2 DEF InFlight
    <2>2. CASE ~ \E c \in Range(cmds) : c.op = ReadOf[panel] /\ c.req.id = pending[panel]
      BY <1>2, <1>3, <1>6, <2>2 DEF InFlight
    <2>. QED  BY <2>1, <2>2
  <1>. QED  BY <1>5, <1>6

LEMMA StillLosing ==
  ASSUME gConnected' = gConnected,
         \A sig \in Range(evts) : sig.sig = "connected" => sig \in Range(evts')
  PROVE  Losing => Losing'
  BY DEF Losing

LEMMA StillAnswered ==
  ASSUME Answered, UNCHANGED <<heard, pending, cut>>, Losing => Losing',
         \A panel \in Panels : InFlight(panel) => InFlight(panel)'
  PROVE  Answered'
  BY DEF Answered

LEMMA AnswersLost ==
  ASSUME Types, SessionInv, AnswerInv, SessionEnds, UNCHANGED guiVars
  PROVE  AnswerInv'
  <1>. USE NodeServiceAssumption
  <1>0. GuiTypes /\ QueueTypes /\ QueueTypes'
    BY TypesSplit, SessionTypes
  <1>1. UNCHANGED <<cmds, gConnected>> /\ reads' = <<>> /\ reader' = None /\ last' = None
    BY DEF SessionEnds, ForgetSession, guiVars, linkVars
  <1>2. Range(reads') = {} /\ DOMAIN reads' = {}
    BY <1>1 DEF Range
  <1>3. ReadsInOrder'
    BY <1>1, <1>2 DEF AnswerInv, ReadsInOrder, InTurn
  <1>4. PICK i \in Nat, j \in Nat : Open(i, j)' /\ j <= Len(evts')
    BY <1>0, SessionLost
  <1>5. evts' \in Seq(Signals) /\ Framed(evts', current', i, j) /\ Len(evts') \in Nat /\ DOMAIN evts' = 1..Len(evts')
    BY <1>0, <1>4, LenProperties DEF Open, QueueTypes
  <1>6. i \in 0..Len(evts') /\ j \in 1..(Len(evts') + 1)
    BY <1>5 DEF Framed
  <1>7. j \in DOMAIN evts' /\ evts'[j].sig = "connected" /\ evts'[j].server = None
    <2>1. j \in DOMAIN evts'
      BY <1>4, <1>5, <1>6
    <2>. QED  BY <1>4, <1>5, <2>1 DEF Framed
  <1>8. gConnected' \/ \E sig \in Range(evts') : sig.sig = "connected" /\ sig.server # None
    <2>1. CASE i = 0
      BY <1>4, <2>1 DEF Open
    <2>2. CASE i # 0
      <3>1. i > 0 /\ i \in DOMAIN evts'
        BY <1>5, <1>6, <2>2
      <3>2. evts'[i].sig = "connected" /\ evts'[i].server = current'
        BY <1>5, <3>1 DEF Framed
      <3>3. current' \in Servers
        <4>1. asking'
          BY <1>4, <3>1 DEF Open
        <4>2. SessionInv'
          BY <1>0, SessionLost
        <4>. QED  BY <4>1, <4>2 DEF SessionInv
      <3>. QED  BY <3>1, <3>2, <3>3 DEF Range
    <2>. QED  BY <2>1, <2>2
  <1>9. Losing'
    BY <1>7, <1>8 DEF Losing, Range
  <1>. QED  BY <1>3, <1>9 DEF AnswerInv, Answered

LEMMA AnswersNews ==
  ASSUME Types, SessionInv, AnswerInv, ConnectedChanged, UNCHANGED <<sessionVars, watchVars, readVars>>
  PROVE  AnswerInv'
  <1>. USE NodeServiceAssumption
  <1>0. GuiTypes /\ QueueTypes
    BY TypesSplit
  <1>1. AsideStep
    BY <1>0, AsideDelivery
  <1>2. ReadsInOrder' /\ \A panel \in Panels : InFlight(panel) => InFlight(panel)'
    BY <1>0, <1>1, AsideAnswers DEF AnswerInv
  <1>3. UNCHANGED <<heard, pending>> /\ Range(evts) = {Sig} \cup Range(evts')
    BY <1>0, SessionNews DEF ConnectedChanged
  <1>4. CASE Failed /\ Sig.server = None
    <2>1. cut' = cut
      BY <1>0, <1>4, SessionNews DEF Failed
    <2>2. ~Losing
      BY <1>0, <1>4, OneEndKept DEF Failed, Losing, QueueTypes
    <2>3. Answered'
      BY <1>2, <1>3, <2>1, <2>2, StillAnswered DEF AnswerInv
    <2>. QED  BY <1>2, <2>3 DEF AnswerInv
  <1>5. ASSUME NEW i \in Nat, NEW j \in Nat, Open(i, j), i > 0, Sig.server = current
        PROVE  AnswerInv'
    <2>1. ~gConnected /\ current \in Servers
      <3>1. i # 0
        BY <1>5
      <3>. QED  BY <1>5, <3>1 DEF Open, SessionInv
    <2>2. cut' = cut /\ gConnected'
      BY <1>0, <1>5, <2>1, SessionNews
    <2>3. Losing => Losing'
      BY <1>3, <1>5, <2>1, <2>2 DEF Losing
    <2>4. Answered'
      BY <1>2, <1>3, <2>2, <2>3, StillAnswered DEF AnswerInv
    <2>. QED  BY <1>2, <2>4 DEF AnswerInv
  <1>6. ASSUME NEW j \in Nat, Open(0, j), Sig.server = None  PROVE AnswerInv'
    <2>1. gConnected
      BY <1>6 DEF Open
    <2>2. cut'
      BY <1>0, <1>6, <2>1, SessionNews
    <2>. QED  BY <1>2, <2>2 DEF AnswerInv, Answered
  <1>. QED  BY <1>0, <1>4, <1>5, <1>6, NewsArrives

LEMMA AnswersAsked ==
  ASSUME GuiTypes, QueueTypes, ServiceTypeOK, RequestsMeant, AnswerInv, ReadAct,
         UNCHANGED <<sessionVars, watchVars, readVars>>
  PROVE  AnswerInv'
  <1>1. /\ nextId \in Nat /\ UNCHANGED <<gConnected, heard, evts, reads, reader, last>>
        /\ \A panel \in Panels :
              \/ pending'[panel] = nextId + 1 /\ \E c \in Range(cmds') :
                   c.op = ReadOf[panel] /\ c.req.id = pending'[panel]
              \/ pending'[panel] = pending[panel] /\ selected' = selected /\ cut' = cut
        /\ Range(cmds) \subseteq Range(cmds')
    BY ReadActs, NewRequest
  <1>2. PICK d \in Structured :
          /\ d.req.id = nextId + 1
          /\ \/ cmds' = cmds \o <<d>>
             \/ \E c \in Commands : /\ c.op = "readAttributes"
                                    /\ cmds' = (cmds \o <<c>>) \o <<d>>
    BY ReadActs, NewRequest
  <1>3. /\ cmds \in Seq(Commands) /\ d \in Commands /\ "value" \in Panels
        /\ ReadOf["value"] = "readStructured"
    BY DEF QueueTypes, Structured, Panels, ReadOf
  <1>4. ASSUME NEW y \in Range(cmds), y \in Structured  PROVE y.req.id <= d.req.id
    <2>1. y.op = "readStructured" /\ y \in Commands
      BY <1>4 DEF Structured
    <2>2. y.req \in Requests /\ Meant("value", y.req)
      BY <1>3, <2>1, CommandFields DEF RequestsMeant
    <2>3. y.req.id \in Nat /\ y.req.id <= nextId
      BY <2>2 DEF Meant, RequestsMeant, Requests
    <2>. QED  BY <1>1, <1>2, <2>3
  <1>5. last # None => last.id <= d.req.id
    <2>. SUFFICES ASSUME last # None  PROVE last.id <= d.req.id
      OBVIOUS
    <2>1. last.id \in Nat /\ last.id <= nextId
      BY DEF RequestsMeant, Meant, ServiceTypeOK, Requests
    <2>. QED  BY <1>1, <1>2, <2>1
  <1>6. InTurn(cmds', Structured) /\ \A c \in Range(cmds') : c \in Structured => c \in Range(cmds) \/ c = d
    <2>0. InTurn(cmds, Structured)
      BY DEF AnswerInv, ReadsInOrder
    <2>1. CASE cmds' = cmds \o <<d>>
      <3>1. InTurn(cmds \o <<d>>, Structured)
        BY <1>3, <1>4, <2>0, InTurnKept
      <3>2. Range(cmds \o <<d>>) = Range(cmds) \cup {d}
        BY <1>3, SentOneMore
      <3>. QED  BY <2>1, <3>1, <3>2
    <2>2. ASSUME NEW c \in Commands, c.op = "readAttributes", cmds' = (cmds \o <<c>>) \o <<d>>
          PROVE  /\ InTurn(cmds', Structured)
                 /\ \A e \in Range(cmds') : e \in Structured => e \in Range(cmds) \/ e = d
      <3>. DEFINE q == cmds \o <<c>>
      <3>1. c \notin Structured
        BY <2>2 DEF Structured
      <3>2. q \in Seq(Commands) /\ Range(q) = Range(cmds) \cup {c}
        BY <1>3, SentOneMore
      <3>3. InTurn(q, Structured)
        BY <1>3, <2>0, <3>1, InTurnKept
      <3>. HIDE DEF q
      <3>4. \A y \in Range(q) : y \in Structured => y.req.id <= d.req.id
        BY <1>4, <3>1, <3>2
      <3>5. InTurn(q \o <<d>>, Structured)
        BY <1>3, <3>2, <3>3, <3>4, InTurnKept
      <3>6. Range(q \o <<d>>) = Range(q) \cup {d}
        BY <1>3, <3>2, SentOneMore
      <3>7. cmds' = q \o <<d>>
        BY <2>2 DEF q
      <3>. QED  BY <3>1, <3>2, <3>5, <3>6, <3>7
    <2>. QED  BY <1>2, <2>1, <2>2
  <1>7. ReadsInOrder'
    BY <1>1, <1>5, <1>6 DEF AnswerInv, ReadsInOrder
  <1>8. Losing => Losing'
    BY <1>1 DEF Losing
  <1>9. ASSUME NEW panel \in Panels
        PROVE  (cut \/ heard[panel] = pending[panel] \/ InFlight(panel) \/ Losing)'
    <2>1. CASE \E c \in Range(cmds') : c.op = ReadOf[panel] /\ c.req.id = pending'[panel]
      BY <2>1 DEF InFlight
    <2>2. CASE pending'[panel] = pending[panel] /\ cut' = cut
      <3>1. InFlight(panel) => InFlight(panel)'
        BY <1>1, <2>2 DEF InFlight
      <3>. QED  BY <1>1, <1>8, <2>2, <3>1 DEF AnswerInv, Answered
    <2>. QED  BY <1>1, <2>1, <2>2
  <1>. QED  BY <1>7, <1>9 DEF AnswerInv, Answered

LEMMA AnswersHeard ==
  ASSUME GuiTypes, QueueTypes, PanelInv, AnswerInv, ApplyRead,
         UNCHANGED <<sessionVars, watchVars, readVars>>
  PROVE  AnswerInv'
  <1>1. /\ Sig.sig = "read" /\ Range(evts) = {Sig} \cup Range(evts')
        /\ UNCHANGED <<cmds, reads, reader, last, pending, cut, gConnected>>
        /\ \A panel \in Panels :
              IF Sig.panel = panel /\ Sig.id = pending[panel]
              THEN heard'[panel] = pending[panel] ELSE heard'[panel] = heard[panel]
    BY AnswerTaken
  <1>2. ReadsInOrder'
    BY <1>1 DEF AnswerInv, ReadsInOrder
  <1>3. Losing => Losing'
    BY <1>1 DEF Losing
  <1>4. ASSUME NEW panel \in Panels
        PROVE  (cut \/ heard[panel] = pending[panel] \/ InFlight(panel) \/ Losing)'
    <2>1. CASE Sig.panel = panel /\ Sig.id = pending[panel]
      BY <1>1, <2>1
    <2>2. CASE ~(Sig.panel = panel /\ Sig.id = pending[panel])
      <3>1. InFlight(panel) => InFlight(panel)'
        BY <1>1, <2>2 DEF InFlight
      <3>. QED  BY <1>1, <1>3, <2>2, <3>1 DEF AnswerInv, Answered
    <2>. QED  BY <2>1, <2>2
  <1>. QED  BY <1>2, <1>4 DEF AnswerInv, Answered

LEMMA ReadSent ==
  ASSUME ServiceTypeOK, QueueTypes, NEW panel \in Panels, NEW req \in Requests, Read(panel, req)
  PROVE  /\ Range(reads) \subseteq Range(reads') /\ Range(evts) \subseteq Range(evts')
         /\ \/ \E r \in Range(reads') : r.panel = panel /\ r.req.id = req.id
            \/ \E sig \in Range(evts') : sig.sig = "read" /\ sig.panel = panel /\ sig.id = req.id
  <1>. DEFINE x == [panel |-> panel, req |-> req]
              s == ReadSig(panel, req, FALSE)
  <1>1. /\ x.panel = panel /\ x.req = req /\ s.sig = "read" /\ s.panel = panel /\ s.id = req.id
        /\ \/ Range(reads') = Range(reads) \cup {x} /\ evts' = evts
           \/ reads' = reads /\ Range(evts') = Range(evts) \cup {s}
    BY ReadMoves
  <1>. HIDE DEF x, s
  <1>2. CASE Range(reads') = Range(reads) \cup {x} /\ evts' = evts
    BY <1>1, <1>2
  <1>3. CASE reads' = reads /\ Range(evts') = Range(evts) \cup {s}
    BY <1>1, <1>3
  <1>. QED  BY <1>1, <1>2, <1>3

(* Of what is on its way by its panel, nothing is lost.                      *)
LEMMA StillInFlight ==
  ASSUME NEW panel \in Panels, UNCHANGED pending, InFlight(panel),
         \A c \in Range(cmds) : c.op = ReadOf[panel] /\ c.req.id = pending[panel] =>
           c \in Range(cmds') \/ InFlight(panel)',
         \A r \in Range(reads) : r.panel = panel /\ r.req.id = pending[panel] =>
           r \in Range(reads') \/ InFlight(panel)',
         Range(evts) \subseteq Range(evts'),
         panel = "value" /\ reader # None /\ reader.id = pending[panel] =>
           reader' = reader \/ InFlight(panel)'
  PROVE  InFlight(panel)'
  BY DEF InFlight

(* The last structured request is read, for the first time or again.         *)
LEMMA ReadInOrder ==
  ASSUME ServiceTypeOK, QueueTypes, ReadsInOrder, NEW req \in Requests, Read("value", req),
         last' = req, reader' = reader, last # None => last.id <= req.id,
         InTurn(cmds', Structured),
         \A c \in Range(cmds') : c \in Structured => req.id <= c.req.id
  PROVE  ReadsInOrder'
  <1>. USE NodeServiceAssumption
  <1>. DEFINE x == [panel |-> "value", req |-> req]
  <1>0. /\ "value" \in Panels /\ last' # None /\ req.id \in Nat
        /\ reads \in Seq(OpenReads) /\ InTurn(reads, OfValues)
    BY ReadsOpen DEF Panels, Requests, ReadsInOrder
  <1>1. /\ x \in OpenReads /\ x.panel = "value" /\ x.req = req
        /\ \/ reads' = reads \o <<x>> /\ Range(reads') = Range(reads) \cup {x}
           \/ reads' = reads
    BY <1>0, ReadMoves
  <1>. HIDE DEF x
  <1>2. ASSUME NEW r \in Range(reads), r \in OfValues
        PROVE  r.req.id <= req.id /\ (reader # None => reader.id <= r.req.id)
    <2>1. /\ last # None /\ r.req.id <= last.id /\ last.id <= req.id
          /\ reader # None => reader.id <= r.req.id
      BY <1>2 DEF ReadsInOrder
    <2>2. r.req.id \in Nat /\ last.id \in Nat
      BY <1>2, <2>1 DEF OfValues, OpenReads, Requests, ServiceTypeOK
    <2>. QED  BY <1>0, <2>1, <2>2
  <1>3. reader # None => reader.id <= req.id
    <2>. SUFFICES ASSUME reader # None  PROVE reader.id <= req.id
      OBVIOUS
    <2>1. last # None /\ reader.id <= last.id /\ last.id <= req.id
      BY DEF ReadsInOrder
    <2>2. reader.id \in Nat /\ last.id \in Nat
      BY <2>1 DEF Requests, ServiceTypeOK
    <2>. QED  BY <1>0, <2>1, <2>2
  <1>4. InTurn(reads', OfValues) /\ \A r \in Range(reads') : r \in Range(reads) \/ r = x
    <2>1. InTurn(reads \o <<x>>, OfValues)
      BY <1>0, <1>1, <1>2, InTurnKept
    <2>. QED  BY <1>0, <1>1, <2>1
  <1>5. req.id <= req.id
    BY <1>0
  <1>6. \A r \in Range(reads') : r \in OfValues =>
          r.req.id <= req.id /\ (reader # None => reader.id <= r.req.id)
    BY <1>1, <1>2, <1>3, <1>4, <1>5
  <1>. QED  BY <1>0, <1>3, <1>4, <1>6 DEF ReadsInOrder

LEMMA AnswersSent ==
  ASSUME ServiceTypeOK, QueueTypes, AnswerInv, ReadNodeAttributes \/ ReadStructuredValue, UNCHANGED guiVars
  PROVE  AnswerInv'
  <1>. USE NodeServiceAssumption
  <1>0. /\ UNCHANGED <<heard, pending, cut, gConnected>> /\ ReadsInOrder
        /\ "attributes" \in Panels /\ "value" \in Panels
        /\ \A panel \in Panels : IF panel = "value" THEN ReadOf[panel] = "readStructured"
                                 ELSE ReadOf[panel] = "readAttributes" /\ panel = "attributes"
    BY DEF guiVars, panelVars, linkVars, Panels, ReadOf, AnswerInv
  <1>1. /\ cmds \in Seq(Commands) /\ Cmd \in Commands /\ Cmd.op \in {"readAttributes", "readStructured"}
        /\ cmds # <<>> /\ cmds' = Tail(cmds) /\ Range(cmds) = {Cmd} \cup Range(cmds')
        /\ Cmd.req \in Requests
    BY Handled, CommandFields DEF ReadNodeAttributes, ReadStructuredValue, QueueTypes
  <1>2. /\ InTurn(cmds', Structured)
        /\ Cmd \in Structured => \A c \in Range(cmds') : c \in Structured => Cmd.req.id <= c.req.id
    <2>1. InTurn(cmds, Structured)
      BY <1>0 DEF ReadsInOrder
    <2>. QED  BY <1>1, <2>1, InTurnKept DEF Cmd
  <1>3. PICK here \in Panels : /\ Read(here, Cmd.req) /\ reader' = reader /\ Cmd.op = ReadOf[here]
                               /\ IF here = "value" THEN last' = Cmd.req ELSE last' = last
    <2>1. CASE ReadNodeAttributes
      BY <1>0, <2>1 DEF ReadNodeAttributes, Handling, Cmd
    <2>2. CASE ReadStructuredValue
      BY <1>0, <2>2 DEF ReadStructuredValue, Handling, Cmd
    <2>. QED  BY <2>1, <2>2
  <1>4. /\ Range(reads) \subseteq Range(reads') /\ Range(evts) \subseteq Range(evts')
        /\ \/ \E r \in Range(reads') : r.panel = here /\ r.req.id = Cmd.req.id
           \/ \E sig \in Range(evts') : sig.sig = "read" /\ sig.panel = here /\ sig.id = Cmd.req.id
    BY <1>1, <1>3, ReadSent
  <1>5. ReadsInOrder'
    <2>1. CASE here = "value"
      <3>1. Cmd \in Structured
        BY <1>0, <1>1, <1>3, <2>1 DEF Structured
      <3>2. last # None => last.id <= Cmd.req.id
        BY <1>0, <1>1, <3>1 DEF ReadsInOrder
      <3>. QED  BY <1>0, <1>1, <1>2, <1>3, <2>1, <3>1, <3>2, ReadInOrder
    <2>2. CASE here # "value"
      <3>1. here = "attributes" /\ last' = last
        BY <1>0, <1>3, <2>2
      <3>. DEFINE x == [panel |-> here, req |-> Cmd.req]
      <3>a. here \in Panels /\ Cmd.req \in Requests /\ Read(here, Cmd.req)
        BY <1>1, <1>3
      <3>2. /\ x \in OpenReads /\ x.panel = here
            /\ \/ reads' = reads \o <<x>> /\ Range(reads') = Range(reads) \cup {x}
               \/ reads' = reads
        BY <3>a, ReadMoves
      <3>. HIDE DEF x
      <3>3. x \notin OfValues
        BY <3>1, <3>2 DEF OfValues
      <3>4. reads \in Seq(OpenReads) /\ InTurn(reads, OfValues)
        BY <1>0, ReadsOpen DEF ReadsInOrder
      <3>5. InTurn(reads \o <<x>>, OfValues)
        BY <3>2, <3>3, <3>4, InTurnKept
      <3>6. InTurn(reads', OfValues) /\ \A r \in Range(reads') : r \in OfValues => r \in Range(reads)
        BY <3>2, <3>3, <3>4, <3>5
      <3>. QED  BY <1>0, <1>1, <1>2, <1>3, <3>1, <3>6 DEF ReadsInOrder
    <2>. QED  BY <2>1, <2>2
  <1>6. ASSUME NEW panel \in Panels, InFlight(panel)  PROVE InFlight(panel)'
    <2>1. ASSUME NEW c \in Range(cmds), c.op = ReadOf[panel], c.req.id = pending[panel]
          PROVE  c \in Range(cmds') \/ InFlight(panel)'
      <3>1. CASE c \in Range(cmds')
        BY <3>1
      <3>2. CASE c = Cmd
        <4>1. here = panel
          BY <1>0, <1>3, <2>1, <3>2
        <4>. QED  BY <1>0, <1>4, <2>1, <3>2, <4>1 DEF InFlight
      <3>. QED  BY <1>1, <3>1, <3>2
    <2>. QED  BY <1>0, <1>3, <1>4, <1>6, <2>1, StillInFlight
  <1>7. Losing => Losing'
    BY <1>0, <1>4, StillLosing
  <1>8. Answered'
    BY <1>0, <1>6, <1>7, StillAnswered DEF AnswerInv
  <1>. QED  BY <1>5, <1>8 DEF AnswerInv

LEMMA AnswersAgain ==
  ASSUME ServiceTypeOK, QueueTypes, AnswerInv, HandlerReady, UNCHANGED guiVars
  PROVE  AnswerInv'
  <1>. USE NodeServiceAssumption
  <1>0. /\ UNCHANGED <<heard, pending, cut, gConnected>> /\ ReadsInOrder /\ "value" \in Panels
        /\ UNCHANGED <<reader, last, cmds>>
    BY DEF guiVars, panelVars, linkVars, Panels, AnswerInv, HandlerReady
  <1>1. /\ Range(reads) \subseteq Range(reads') /\ Range(evts) \subseteq Range(evts') /\ ReadsInOrder'
    <2>1. CASE last = None
      <3>1. reads' = reads /\ evts' = evts
        BY <2>1 DEF HandlerReady
      <3>. QED  BY <1>0, <3>1 DEF ReadsInOrder
    <2>2. CASE last # None
      <3>1. Read("value", last) /\ last \in Requests
        BY <2>2 DEF HandlerReady, ServiceTypeOK
      <3>2. last.id <= last.id
        BY <3>1 DEF Requests
      <3>3. InTurn(cmds', Structured) /\ \A c \in Range(cmds') : c \in Structured => last.id <= c.req.id
        BY <1>0, <2>2 DEF ReadsInOrder
      <3>4. ReadsInOrder'
        BY <1>0, <3>1, <3>2, <3>3, ReadInOrder
      <3>. QED  BY <1>0, <3>1, <3>4, ReadSent
    <2>. QED  BY <2>1, <2>2
  <1>2. ASSUME NEW panel \in Panels, InFlight(panel)  PROVE InFlight(panel)'
    BY <1>0, <1>1, <1>2, StillInFlight
  <1>3. Losing => Losing'
    BY <1>0, <1>1, StillLosing
  <1>4. Answered'
    BY <1>0, <1>2, <1>3, StillAnswered DEF AnswerInv
  <1>. QED  BY <1>1, <1>4 DEF AnswerInv

LEMMA AnswersDone ==
  ASSUME ServiceTypeOK, QueueTypes, AnswerInv, ReaderFinishes, UNCHANGED guiVars
  PROVE  AnswerInv'
  <1>. USE NodeServiceAssumption
  <1>0. /\ UNCHANGED <<heard, pending, cut, gConnected>> /\ ReadsInOrder /\ "value" \in Panels
        /\ UNCHANGED <<reads, last, cmds>> /\ reader # None /\ reader' = None
    BY DEF guiVars, panelVars, linkVars, Panels, AnswerInv, ReaderFinishes
  <1>1. PICK good \in BOOLEAN : Emit(<<ReadSig("value", reader, good)>>)
    BY DEF ReaderFinishes
  <1>. DEFINE s == ReadSig("value", reader, good)
  <1>2. s \in Signals /\ s.sig = "read" /\ s.panel = "value" /\ s.id = reader.id
    BY <1>0, SignalsMade DEF ServiceTypeOK, ReadSig
  <1>. HIDE DEF s
  <1>3. Range(evts') = Range(evts) \cup {s}
    BY <1>1, <1>2, EmittedOne DEF QueueTypes, s
  <1>4. ReadsInOrder'
    BY <1>0 DEF ReadsInOrder
  <1>5. ASSUME NEW panel \in Panels, InFlight(panel)  PROVE InFlight(panel)'
    <2>1. panel = "value" /\ reader.id = pending[panel] => InFlight(panel)'
      BY <1>0, <1>2, <1>3 DEF InFlight
    <2>. QED  BY <1>0, <1>3, <1>5, <2>1, StillInFlight
  <1>6. Losing => Losing'
    BY <1>0, <1>3, StillLosing
  <1>7. Answered'
    BY <1>0, <1>5, <1>6, StillAnswered DEF AnswerInv
  <1>. QED  BY <1>4, <1>7 DEF AnswerInv

(* In turn, no older request takes the place of a newer one.                 *)
LEMMA AnswersFound ==
  ASSUME InOrder, ServiceTypeOK, QueueTypes, RequestsMeant, AnswerInv,
         NEW i \in DOMAIN reads, ReadAnswered(i), UNCHANGED guiVars
  PROVE  AnswerInv'
  <1>. USE NodeServiceAssumption
  <1>0. /\ UNCHANGED <<heard, pending, cut, gConnected>> /\ ReadsInOrder /\ "value" \in Panels
        /\ UNCHANGED <<last, cmds>> /\ i = 1 /\ reads' = RemoveAt(reads, 1)
    BY DEF guiVars, panelVars, linkVars, Panels, AnswerInv, ReadAnswered, Answerable
  <1>. DEFINE r == reads[1]
              s == ReadSig(r.panel, r.req, TRUE)
  <1>1. /\ reads \in Seq(OpenReads) /\ r \in OpenReads /\ r \in Range(reads)
        /\ r.panel \in Panels /\ r.req \in Requests /\ r.req.id \in Nat
    BY <1>0, ReadsOpen DEF Requests
  <1>2. reads # <<>> /\ reads' = Tail(reads) /\ r = Head(reads)
    BY <1>0, <1>1, FirstTaken
  <1>3. Range(reads) = {r} \cup Range(reads')
    BY <1>1, <1>2, QueueTail
  <1>4. s \in Signals /\ s.sig = "read" /\ s.panel = r.panel /\ s.id = r.req.id
    BY <1>1, SignalsMade DEF ReadSig
  <1>5. \/ Emit(<<s>>) /\ reader' = reader
        \/ r.panel = "value" /\ reader' = r.req /\ evts' = evts
    BY <1>0 DEF ReadAnswered
  <1>6. Meant(r.panel, r.req)
    BY <1>1 DEF RequestsMeant
  <1>. HIDE DEF r, s
  <1>7. /\ InTurn(reads', OfValues)
        /\ r \in OfValues => \A y \in Range(reads') : y \in OfValues => r.req.id <= y.req.id
    <2>1. InTurn(reads, OfValues)
      BY <1>0 DEF ReadsInOrder
    <2>. QED  BY <1>1, <1>2, <2>1, InTurnKept
  <1>8. r.panel = "value" => /\ r \in OfValues /\ last # None /\ r.req.id <= last.id
                             /\ reader # None => reader.id <= r.req.id
    BY <1>0, <1>1 DEF ReadsInOrder, OfValues
  <1>9. \/ Range(evts') = Range(evts) \cup {s} /\ reader' = reader
        \/ r.panel = "value" /\ reader' = r.req /\ reader' # None /\ evts' = evts
    <2>1. CASE Emit(<<s>>) /\ reader' = reader
      BY <1>4, <2>1, EmittedOne DEF QueueTypes
    <2>2. CASE r.panel = "value" /\ reader' = r.req /\ evts' = evts
      BY <1>1, <2>2
    <2>. QED  BY <1>5, <2>1, <2>2
  <1>10. ReadsInOrder'
    <2>1. CASE reader' = reader
      BY <1>0, <1>3, <1>7, <2>1 DEF ReadsInOrder
    <2>2. CASE r.panel = "value" /\ reader' = r.req
      BY <1>0, <1>3, <1>7, <1>8, <2>2 DEF ReadsInOrder
    <2>. QED  BY <1>9, <2>1, <2>2
  <1>11. ASSUME NEW panel \in Panels, InFlight(panel)  PROVE InFlight(panel)'
    <2>1. r.panel = panel /\ r.req.id = pending[panel] => InFlight(panel)'
      BY <1>0, <1>4, <1>9 DEF InFlight
    <2>2. ASSUME panel = "value", reader # None, reader.id = pending[panel]
          PROVE  reader' = reader \/ InFlight(panel)'
      <3>1. CASE reader' = reader
        BY <3>1
      <3>2. CASE r.panel = "value" /\ reader' = r.req /\ reader' # None
        <4>1. pending[panel] <= r.req.id /\ r.req.id <= pending[panel] /\ pending[panel] \in Nat
          BY <1>6, <1>8, <2>2, <3>2 DEF Meant, ServiceTypeOK, Requests
        <4>2. r.req.id = pending[panel]
          BY <1>1, <4>1
        <4>. QED  BY <2>1, <2>2, <3>2, <4>2
      <3>. QED  BY <1>9, <3>1, <3>2
    <2>3. Range(evts) \subseteq Range(evts')
      BY <1>9
    <2>4. \A x \in Range(reads) : x.panel = panel /\ x.req.id = pending[panel] =>
            x \in Range(reads') \/ InFlight(panel)'
      BY <1>3, <2>1
    <2>. QED  BY <1>0, <1>11, <2>2, <2>3, <2>4, StillInFlight
  <1>12. Losing => Losing'
    BY <1>0, <1>9, StillLosing
  <1>13. Answered'
    BY <1>0, <1>11, <1>12, StillAnswered DEF AnswerInv
  <1>. QED  BY <1>10, <1>13 DEF AnswerInv

LEMMA AnswersKept ==
  ASSUME InOrder, Types, SessionInv, PanelInv, AnswerInv, [Next]_vars
  PROVE  AnswerInv'
  <1>0. ServiceTypeOK /\ GuiTypes /\ QueueTypes /\ RequestsMeant
    BY TypesSplit DEF PanelInv
  <1>1. ASSUME AsideStep, UNCHANGED <<gConnected, cut>>,
               \A sig \in Range(evts) : sig.sig = "connected" => sig \in Range(evts')
        PROVE  AnswerInv'
    <2>1. ReadsInOrder' /\ \A panel \in Panels : InFlight(panel) => InFlight(panel)'
      BY <1>0, <1>1, AsideAnswers DEF AnswerInv
    <2>2. Losing => Losing'
      BY <1>1, StillLosing
    <2>3. UNCHANGED <<heard, pending, cut>>
      BY <1>1 DEF AsideStep
    <2>4. Answered'
      BY <2>1, <2>2, <2>3, StillAnswered DEF AnswerInv
    <2>. QED  BY <2>1, <2>4 DEF AnswerInv
  <1>2. CASE UserNext /\ UNCHANGED <<sessionVars, watchVars, readVars>>
    <2>1. CASE AsideAct
      <3>1. AsideStep /\ evts' = evts /\ UNCHANGED <<gConnected, cut>>
        BY <1>0, <1>2, <2>1, AsideUser
      <3>. QED  BY <1>1, <3>1
    <2>2. CASE ReadAct
      BY <1>0, <1>2, <2>2, AnswersAsked
    <2>. QED  BY <1>2, <2>1, <2>2, UserActsAside
  <1>3. CASE GuiNext /\ UNCHANGED <<sessionVars, watchVars, readVars>>
    <2>1. CASE ApplyRead
      BY <1>0, <1>3, <2>1, AnswersHeard
    <2>2. CASE ConnectedChanged
      BY <1>3, <2>2, AnswersNews
    <2>3. CASE ApplyMonitoredValue \/ ApplyWriteCompleted
      <3>1. AsideStep
        BY <1>0, <1>3, <2>3, AsideDelivery
      <3>2. UNCHANGED <<gConnected, cut>>
        BY <2>3 DEF ApplyMonitoredValue, ApplyWriteCompleted, linkVars, panelVars
      <3>3. Sig.sig \in {"value", "written"} /\ Range(evts) = {Sig} \cup Range(evts')
        BY <1>0, <2>3, Delivered DEF QueueTypes, ApplyMonitoredValue, ApplyWriteCompleted
      <3>. QED  BY <1>1, <3>1, <3>2, <3>3
    <2>. QED  BY <1>3, <2>1, <2>2, <2>3 DEF GuiNext
  <1>4. CASE ServiceNext /\ UNCHANGED guiVars
    <2>1. CASE AsideService
      <3>1. AsideStep /\ Range(evts) \subseteq Range(evts') /\ UNCHANGED <<gConnected, cut>>
        BY <1>0, <1>4, <2>1, AsideServing
      <3>. QED  BY <1>1, <3>1
    <2>2. CASE ReadingService
      BY <1>0, <1>4, <2>2, AnswersSent, AnswersAgain, AnswersDone, AnswersFound DEF ReadingService
    <2>3. CASE SessionEnds
      BY <1>4, <2>3, AnswersLost
    <2>. QED  BY <1>4, <2>1, <2>2, <2>3, ServiceActsAside
  <1>5. CASE UNCHANGED vars
    <2>1. AsideStep
      BY <1>5, StutterAside
    <2>2. UNCHANGED <<gConnected, cut, evts>>
      BY <1>5 DEF vars, svcVars, guiVars, linkVars, panelVars
    <2>. QED  BY <1>1, <2>1, <2>2
  <1>. QED  BY <1>2, <1>3, <1>4, <1>5 DEF Next

-----------------------------------------------------------------------------
(* The service watches what the table wants.                                *)

(* Whatever the commands under way made of a node, they still make of it.     *)
PlanKept == \A n \in Nodes, y \in Interval :
              Leads(cmds, n, monitored[n], y) => Leads(cmds', n, monitored'[n], y)

Watching(c) == c.op \in {"subscribe", "unsubscribe"}

LEMMA WatchHeld ==
  ASSUME Table(rows), WatchInv, gConnected' = gConnected, rows' = rows \/ Refilled,
         contested' = contested, Live' => Live /\ PlanKept
  PROVE  WatchInv'
  <1>1. Shared(rows') = Shared(rows) /\ \A n, y : Wanted(rows, n, y) => Wanted(rows', n, y)
    <2>1. CASE rows' = rows
      BY <2>1
    <2>2. CASE Refilled
      BY <2>2, RefilledSame
    <2>. QED  BY <2>1, <2>2
  <1>2. ASSUME Live', NEW n \in Nodes \ contested'  PROVE Followed(n)'
    <2>1. Live /\ PlanKept /\ n \in Nodes \ contested
      BY <1>2
    <2>2. PICK y \in Interval : Leads(cmds, n, monitored[n], y) /\ Wanted(rows, n, y)
      BY <2>1 DEF WatchInv, Followed, Interval
    <2>3. Leads(cmds', n, monitored'[n], y)
      BY <2>1, <2>2 DEF PlanKept
    <2>4. Wanted(rows', n, y)
      BY <1>1, <2>2
    <2>. QED  BY <2>3, <2>4 DEF Followed, Interval
  <1>3. gConnected' => Shared(rows') \subseteq contested'
    BY <1>1 DEF WatchInv
  <1>. QED  BY <1>2, <1>3 DEF WatchInv

LEMMA PlanAppended ==
  ASSUME QueueTypes, NEW t \in Seq(Commands), cmds' = cmds \o t, \A c \in Range(t) : ~Watching(c),
         monitored' = monitored
  PROVE  PlanKept /\ (Never("disconnect", cmds') => Never("disconnect", cmds))
  <1>0. cmds \in Seq(Commands)
    BY DEF QueueTypes
  <1>1. Range(cmds') = Range(cmds) \cup Range(t)
    BY <1>0, AppendedQueue
  <1>2. ASSUME NEW n \in Nodes, NEW y \in Interval, Leads(cmds, n, monitored[n], y)
        PROVE  Leads(cmds', n, monitored'[n], y)
    <2>1. \A c \in Range(t) : Effect(c, n, y) = y
      BY DEF Effect, Watching
    <2>2. Leads(t, n, y, y)
      BY <2>1, LeadsStill
    <2>3. Leads(cmds \o t, n, monitored[n], y)
      BY <1>0, <1>2, <2>2, LeadsOn
    <2>. QED  BY <2>3
  <1>. QED  BY <1>1, <1>2 DEF PlanKept, Never

LEMMA PlanTaken ==
  ASSUME QueueTypes, cmds # <<>>, cmds' = Tail(cmds),
         \A n \in Nodes : monitored'[n] = Effect(Head(cmds), n, monitored[n])
  PROVE  PlanKept /\ (Head(cmds).op # "disconnect" =>
                        (Never("disconnect", cmds') => Never("disconnect", cmds)))
  <1>0. cmds \in Seq(Commands) /\ Range(cmds) = {Head(cmds)} \cup Range(cmds')
    BY QueueTail DEF QueueTypes
  <1>1. ASSUME NEW n \in Nodes, NEW y \in Interval, Leads(cmds, n, monitored[n], y)
        PROVE  Leads(cmds', n, monitored'[n], y)
    <2>1. Leads(Tail(cmds), n, Effect(Head(cmds), n, monitored[n]), y)
      BY <1>0, <1>1, LeadsHead
    <2>. QED  BY <2>1
  <1>. QED  BY <1>0, <1>1 DEF PlanKept, Never

LEMMA PlanSame ==
  ASSUME cmds' = cmds, monitored' = monitored
  PROVE  PlanKept
  BY DEF PlanKept

LEMMA WatchTable ==
  ASSUME GuiTypes, QueueTypes, SessionInv, WatchInv, TableAct,
         UNCHANGED <<sessionVars, watchVars, readVars>>
  PROVE  WatchInv'
  <1>1. PICK t : TableStep(t)
    BY TableActs
  <1>2. /\ UNCHANGED <<gConnected, session, closing, monitored>>
        /\ contested' = contested \cup Shared(rows')
    BY TableActs DEF linkVars, sessionVars, watchVars
  <1>3. /\ t \in Seq(Commands) /\ cmds' = cmds \o t /\ cmds \in Seq(Commands)
        /\ Range(cmds') = Range(cmds) \cup Range(t)
    BY <1>1, AppendedQueue DEF TableStep, QueueTypes
  <1>4. Live' => Live
    BY <1>2, <1>3 DEF Live, Never, Up
  <1>5. ASSUME Live', NEW n \in Nodes \ contested'  PROVE Followed(n)'
    <2>1. Live /\ n \in Nodes \ contested /\ gConnected
      BY <1>2, <1>4, <1>5 DEF Live
    <2>2. PICK y \in Interval : Leads(cmds, n, monitored[n], y) /\ Wanted(rows, n, y)
      BY <2>1 DEF WatchInv, Followed, Interval
    <2>3. Shared(rows) \subseteq contested
      BY <2>1 DEF WatchInv
    <2>4. PICK z \in Interval : Leads(t, n, y, z) /\ Wanted(rows', n, z)
      BY <1>1, <1>5, <2>1, <2>2, <2>3 DEF TableStep
    <2>5. Leads(cmds \o t, n, monitored[n], z)
      BY <1>3, <2>2, <2>4, LeadsOn
    <2>. QED  BY <1>2, <1>3, <2>4, <2>5 DEF Followed, Interval
  <1>. QED  BY <1>2, <1>5 DEF WatchInv

LEMMA WatchSwitched ==
  ASSUME QueueTypes, NEW rs \in StoredRows, SwitchProject(rs),
         UNCHANGED <<sessionVars, watchVars, readVars>>
  PROVE  WatchInv'
  <1>1. gConnected' = gConnected /\ contested' = contested \cup Shared(rows')
    BY DEF SwitchProject, SetRows
  <1>2. gConnected => ~Never("disconnect", cmds')
    <2>. SUFFICES ASSUME gConnected  PROVE ~Never("disconnect", cmds')
      OBVIOUS
    <2>. DEFINE c == [op |-> "disconnect"]
    <2>1. c \in Commands /\ c.op = "disconnect"
      BY CommandsMade
    <2>2. cmds' = cmds \o <<c>>
      BY DEF SwitchProject, Post
    <2>. HIDE DEF c
    <2>3. Range(cmds') = Range(cmds) \cup {c}
      BY <2>1, <2>2, SentOneMore DEF QueueTypes
    <2>. QED  BY <2>1, <2>3 DEF Never
  <1>. QED  BY <1>1, <1>2 DEF WatchInv, Live

OtherAsk ==
  \/ \E s \in Servers : AskConnect(s)
  \/ AskDisconnect \/ PauseUpdates \/ RefreshStructuredValue
  \/ \E i \in DOMAIN rows : WriteValue(i)
  \/ \E n \in Nodes : SelectNode(n)

LEMMA WatchAsked ==
  ASSUME GuiTypes, QueueTypes, WatchInv, OtherAsk, UNCHANGED <<sessionVars, watchVars, readVars>>
  PROVE  WatchInv'
  <1>0. UNCHANGED <<rows, contested, gConnected, session, closing, monitored>> /\ Table(rows)
    BY DEF OtherAsk, AskConnect, AskDisconnect, PauseUpdates, RefreshStructuredValue, WriteValue,
           SelectNode, tableVars, linkVars, sessionVars, watchVars, GuiTypes
  <1>1. cmds' = cmds \/ \E t \in Seq(Commands) : cmds' = cmds \o t /\ \A c \in Range(t) : ~Watching(c)
    <2>1. ASSUME NEW c \in Commands, AskTypes(<<c>>), ~Watching(c)
          PROVE  \E t \in Seq(Commands) : cmds' = cmds \o t /\ \A d \in Range(t) : ~Watching(d)
      <3>1. <<c>> \in Seq(Commands) /\ Range(<<c>>) = {c}
        BY OneCommand
      <3>. QED  BY <2>1, <3>1 DEF AskTypes
    <2>2. ASSUME NEW s \in Servers, AskConnect(s)
          PROVE  \E t \in Seq(Commands) : cmds' = cmds \o t /\ \A d \in Range(t) : ~Watching(d)
      <3>1. [op |-> "connect", server |-> s] \in Commands
        BY CommandsMade
      <3>. QED  BY <2>1, <2>2, <3>1, ConnectAsked DEF Watching
    <2>3. ASSUME AskDisconnect
          PROVE  \E t \in Seq(Commands) : cmds' = cmds \o t /\ \A d \in Range(t) : ~Watching(d)
      <3>1. [op |-> "disconnect"] \in Commands
        BY CommandsMade
      <3>. QED  BY <2>1, <2>3, <3>1, DisconnectAsked DEF Watching
    <2>4. ASSUME NEW i \in DOMAIN rows, WriteValue(i)
          PROVE  \E t \in Seq(Commands) : cmds' = cmds \o t /\ \A d \in Range(t) : ~Watching(d)
      <3>1. rows[i] \in TableRows
        BY <1>0 DEF Table
      <3>2. Order("write", rows[i].node) \in Commands /\ Order("write", rows[i].node).op = "write"
        BY <3>1, CommandsMade DEF TableRows, Order
      <3>. QED  BY <2>1, <2>4, <3>2, WriteAsked DEF Watching
    <2>5. ASSUME RefreshStructuredValue
          PROVE  \E t \in Seq(Commands) : cmds' = cmds \o t /\ \A d \in Range(t) : ~Watching(d)
      <3>. DEFINE c == ReadOrder("readStructured", selected, nextId + 1)
      <3>1. selected \in Nodes /\ nextId + 1 \in Nat
        BY <2>5 DEF GuiTypes, RefreshStructuredValue
      <3>2. c \in Commands /\ c.op = "readStructured"
        BY <3>1, CommandsMade DEF ReadOrder
      <3>3. AskTypes(<<c>>)
        BY <2>5, ValueRefreshed
      <3>. HIDE DEF c
      <3>. QED  BY <2>1, <3>2, <3>3 DEF Watching
    <2>6. ASSUME NEW n \in Nodes, SelectNode(n)
          PROVE  \E t \in Seq(Commands) : cmds' = cmds \o t /\ \A d \in Range(t) : ~Watching(d)
      <3>. DEFINE c == ReadOrder("readAttributes", n, nextId + 1)
                  d == ReadOrder("readStructured", n, nextId + 1)
      <3>1. nextId + 1 \in Nat
        BY DEF GuiTypes
      <3>2. c \in Commands /\ d \in Commands /\ c.op = "readAttributes" /\ d.op = "readStructured"
        BY <3>1, CommandsMade DEF ReadOrder
      <3>3. AskTypes(<<c, d>>)
        BY <2>6, NodeSelected
      <3>. HIDE DEF c, d
      <3>4. \A e \in Range(<<c, d>>) : e = c \/ e = d
        BY DEF Range
      <3>. QED  BY <3>2, <3>3, <3>4 DEF Watching, AskTypes
    <2>7. PauseUpdates => cmds' = cmds
      BY Paused
    <2>. QED  BY <2>2, <2>3, <2>4, <2>5, <2>6, <2>7 DEF OtherAsk
  <1>2. PlanKept /\ (Never("disconnect", cmds') => Never("disconnect", cmds))
    BY <1>0, <1>1, PlanAppended, PlanSame
  <1>3. Live' => Live /\ PlanKept
    BY <1>0, <1>2 DEF Live, Up
  <1>. QED  BY <1>0, <1>3, WatchHeld

(* A new session: every row is asked for, and nothing was asked before.       *)
LEMMA WatchNews ==
  ASSUME GuiTypes, QueueTypes, SessionInv, WatchInv, ConnectedChanged,
         UNCHANGED <<sessionVars, watchVars, readVars>>
  PROVE  WatchInv'
  <1>. USE NodeServiceAssumption
  <1>0. UNCHANGED <<session, closing, monitored>> /\ Table(rows)
    BY DEF sessionVars, watchVars, GuiTypes
  <1>1. CASE Failed /\ Sig.server = None
    <2>1. ~gConnected'
      BY <1>1, SessionNews DEF Failed
    <2>. QED  BY <2>1 DEF WatchInv, Live
  <1>2. ASSUME NEW j \in Nat, Open(0, j), Sig.server = None  PROVE WatchInv'
    <2>1. ~gConnected'
      BY <1>2, SessionNews DEF Open
    <2>. QED  BY <2>1 DEF WatchInv, Live
  <1>3. ASSUME NEW i \in Nat, NEW j \in Nat, Open(i, j), i > 0, Sig.server = current  PROVE WatchInv'
    <2>1. /\ ~gConnected /\ current \in Servers /\ current # None
          /\ Never("subscribe", cmds) /\ \A n \in Nodes : monitored[n] = None
      <3>1. asking /\ ~gConnected
        <4>1. i # 0
          BY <1>3
        <4>. QED  BY <1>3, <4>1 DEF Open, GuiTypes
      <3>. QED  BY <1>3, <3>1 DEF SessionInv, Open
    <2>. DEFINE t == [k \in DOMAIN rows |-> Subscribe(rows[k])]
    <2>2. cmds' = cmds \o t /\ rows' = rows /\ contested' = Shared(rows)
      BY <1>3, <2>1, SessionNews
    <2>3. /\ t \in Seq(Commands)
          /\ \A n \in Nodes \ Shared(rows) :
               \E z \in Interval : Leads(t, n, None, z) /\ Wanted(rows, n, z)
      BY <1>0, AllAsked
    <2>. HIDE DEF t
    <2>4. ASSUME NEW n \in Nodes \ contested'  PROVE Followed(n)'
      <3>1. PICK z \in Interval : Leads(t, n, None, z) /\ Wanted(rows, n, z)
        BY <2>2, <2>3, <2>4
      <3>2. \A c \in Range(cmds) : Effect(c, n, None) = None
        BY <2>1 DEF Effect, Never
      <3>3. cmds \in Seq(Commands) /\ None \in Interval
        BY DEF QueueTypes, Interval
      <3>4. Leads(cmds, n, None, None)
        BY <3>2, <3>3, LeadsStill
      <3>5. Leads(cmds \o t, n, None, z)
        BY <2>3, <3>1, <3>3, <3>4, LeadsOn
      <3>6. monitored'[n] = None
        BY <1>0, <2>1
      <3>. QED  BY <2>2, <3>1, <3>5, <3>6 DEF Followed, Interval
    <2>. QED  BY <2>2, <2>4 DEF WatchInv
  <1>. QED  BY <1>1, <1>2, <1>3, NewsArrives

LEMMA WatchDelivery ==
  ASSUME GuiTypes, QueueTypes, WatchInv, ApplyMonitoredValue \/ ApplyWriteCompleted \/ ApplyRead,
         UNCHANGED <<sessionVars, watchVars, readVars>>
  PROVE  WatchInv'
  <1>1. UNCHANGED <<session, closing, monitored, gConnected, contested, cmds>> /\ Table(rows)
    BY DEF sessionVars, watchVars, ApplyMonitoredValue, ApplyWriteCompleted, ApplyRead, linkVars,
           tableVars, GuiTypes
  <1>2. rows' = rows \/ Refilled
    BY <1>1, ValueShown DEF ApplyWriteCompleted, ApplyRead, tableVars
  <1>3. Live' => Live /\ PlanKept
    BY <1>1, PlanSame DEF Live, Up
  <1>. QED  BY <1>1, <1>2, <1>3, WatchHeld

LEMMA WatchServed ==
  ASSUME ServiceTypeOK, GuiTypes, QueueTypes, SessionInv, WatchInv, ServiceNext, UNCHANGED guiVars
  PROVE  WatchInv'
  <1>. USE NodeServiceAssumption
  <1>0. UNCHANGED <<rows, gConnected, contested>> /\ Table(rows)
    BY DEF guiVars, linkVars, tableVars, GuiTypes
  <1>1. SUFFICES Live' => Live /\ PlanKept
    BY <1>0, WatchHeld
  <1>2. ASSUME NEW op, Handling(op), op \notin {"disconnect"}, UNCHANGED <<session, closing>>,
               \A n \in Nodes : Up => monitored'[n] = Effect(Cmd, n, monitored[n])
        PROVE  Live' => Live /\ PlanKept
    <2>. SUFFICES ASSUME Live'  PROVE Live /\ PlanKept
      OBVIOUS
    <2>1. Up
      BY <1>2 DEF Live, Up
    <2>2. cmds # <<>> /\ cmds' = Tail(cmds) /\ Head(cmds).op = op /\ Cmd = Head(cmds)
      BY <1>2 DEF Handling, Cmd
    <2>3. PlanKept /\ (Never("disconnect", cmds') => Never("disconnect", cmds))
      BY <1>2, <2>1, <2>2, PlanTaken
    <2>. QED  BY <1>0, <1>2, <2>1, <2>3 DEF Live
  <1>3. ASSUME NEW op, Handling(op), op \notin {"disconnect", "subscribe", "unsubscribe"},
               UNCHANGED <<session, closing, monitored>>
        PROVE  Live' => Live /\ PlanKept
    <2>1. \A n \in Nodes : monitored'[n] = Effect(Cmd, n, monitored[n])
      BY <1>3 DEF Effect, Handling, Cmd
    <2>. QED  BY <1>2, <1>3, <2>1
  <1>4. ASSUME UNCHANGED <<session, closing, monitored, cmds>>
        PROVE  Live' => Live /\ PlanKept
    BY <1>0, <1>4, PlanSame DEF Live, Up
  <1>5. CASE Connect
    BY <1>3, <1>5 DEF Connect, watchVars
  <1>6. CASE Disconnect
    BY <1>6 DEF Disconnect, Live, Up, sessionVars
  <1>7. CASE SessionOpens
    <2>1. ~gConnected
      BY <1>7 DEF SessionInv, SessionOpens, Unasked, Asked, Opening, Failed, Open, Closed
    <2>. QED  BY <1>0, <2>1 DEF Live
  <1>8. CASE OpeningFails
    BY <1>4, <1>8 DEF OpeningFails, watchVars
  <1>9. CASE SessionEnds
    BY <1>9 DEF SessionEnds, Live, Up
  <1>10. CASE SubscribeNode
    <2>1. Cmd \in Commands /\ Cmd.op = "subscribe" /\ Cmd.node \in Nodes
      BY <1>10, Handled, CommandFields DEF SubscribeNode, QueueTypes
    <2>2. monitored \in [Nodes -> Interval]
      BY DEF ServiceTypeOK, Interval
    <2>3. \A n \in Nodes : Up => monitored'[n] = Effect(Cmd, n, monitored[n])
      BY <1>10, <2>1, <2>2 DEF SubscribeNode, Effect
    <2>. QED  BY <1>2, <1>10, <2>3 DEF SubscribeNode, sessionVars
  <1>11. CASE UnsubscribeNode
    <2>1. Cmd \in Commands /\ Cmd.op = "unsubscribe" /\ Cmd.node \in Nodes
      BY <1>11, Handled, CommandFields DEF UnsubscribeNode, QueueTypes
    <2>2. monitored \in [Nodes -> Interval]
      BY DEF ServiceTypeOK, Interval
    <2>3. \A n \in Nodes : monitored'[n] = Effect(Cmd, n, monitored[n])
      BY <1>11, <2>1, <2>2 DEF UnsubscribeNode, Effect
    <2>. QED  BY <1>2, <1>11, <2>3 DEF UnsubscribeNode, sessionVars
  <1>12. CASE WriteNodeValue
    BY <1>3, <1>12 DEF WriteNodeValue, sessionVars
  <1>13. CASE ReadNodeAttributes
    BY <1>3, <1>13 DEF ReadNodeAttributes, sessionVars, watchVars
  <1>14. CASE ReadStructuredValue
    BY <1>3, <1>14 DEF ReadStructuredValue, sessionVars, watchVars
  <1>15. CASE \/ \E n \in Nodes : DataChange(n)
              \/ \E h \in Holders, n \in Nodes, ok \in BOOLEAN : WriteAnswered(h, n, ok)
              \/ \E i \in DOMAIN reads : ReadAnswered(i)
              \/ ReaderFinishes \/ HandlerReady
    BY <1>4, <1>15 DEF DataChange, WriteAnswered, ReadAnswered, ReaderFinishes, HandlerReady,
                       sessionVars, watchVars
  <1>. QED
    BY <1>5, <1>6, <1>7, <1>8, <1>9, <1>10, <1>11, <1>12, <1>13, <1>14, <1>15 DEF ServiceNext

LEMMA WatchKept ==
  ASSUME Types, SessionInv, WatchInv, [Next]_vars
  PROVE  WatchInv'
  <1>0. ServiceTypeOK /\ GuiTypes /\ QueueTypes
    BY TypesSplit
  <1>1. CASE UserNext /\ UNCHANGED <<sessionVars, watchVars, readVars>>
    <2>1. CASE TableAct
      BY <1>0, <1>1, <2>1, WatchTable
    <2>2. CASE \E rs \in StoredRows : SwitchProject(rs)
      BY <1>0, <1>1, <2>2, WatchSwitched
    <2>3. CASE OtherAsk
      BY <1>0, <1>1, <2>3, WatchAsked
    <2>. QED  BY <1>1, <2>1, <2>2, <2>3 DEF UserNext, TableAct, OtherAsk
  <1>2. CASE GuiNext /\ UNCHANGED <<sessionVars, watchVars, readVars>>
    BY <1>0, <1>2, WatchNews, WatchDelivery DEF GuiNext
  <1>3. CASE ServiceNext /\ UNCHANGED guiVars
    BY <1>0, <1>3, WatchServed
  <1>4. CASE UNCHANGED vars
    <2>1. UNCHANGED <<session, closing, monitored, gConnected, contested, cmds, rows>> /\ Table(rows)
      BY <1>0, <1>4 DEF vars, svcVars, guiVars, sessionVars, watchVars, linkVars, tableVars, GuiTypes
    <2>2. Live' => Live /\ PlanKept
      BY <2>1, PlanSame DEF Live, Up
    <2>. QED  BY <2>1, <2>2, WatchHeld
  <1>. QED  BY <1>1, <1>2, <1>3, <1>4 DEF Next

-----------------------------------------------------------------------------
(* The first state.                                                         *)

LEMMA InitialTypes ==
  ASSUME Init
  PROVE  Types /\ cmds = <<>> /\ evts = <<>> /\ reads = <<>> /\ Range(cmds) = {}
         /\ Range(evts) = {} /\ Range(reads) = {}
  <1>. USE NodeServiceAssumption, StoredRowsAssumption, StepsAssumption
  <1>1. /\ cmds = <<>> /\ evts = <<>> /\ reads = <<>>
    BY DEF Init, ServiceInit
  <1>2. /\ <<>> \in Seq(Commands) /\ <<>> \in Seq(Signals)
        /\ <<>> \in Seq([panel : Panels, req : Requests])
        /\ Range(<<>>) = {}
    BY DEF Range
  <1>3. ServiceTypeOK
    <2>1. /\ monitored = [n \in Nodes |-> None] /\ handlers = [n \in Nodes |-> 0]
          /\ writes = [h \in Holders |-> [n \in Nodes |-> 0]] /\ unreported = FALSE
          /\ session = None /\ opening = None /\ closing = FALSE
          /\ reader = None /\ last = None /\ ready = FALSE
      BY DEF Init, ServiceInit, NoWrites
    <2>2. /\ monitored \in [Nodes -> Intervals \cup {None}] /\ handlers \in [Nodes -> Nat]
          /\ writes \in [Holders -> [Nodes -> Nat]]
      BY <2>1
    <2>3. \A n \in Nodes : handlers[n] = 0 /\ writes["monitored"][n] = 0
      BY <2>1 DEF Holders
    <2>. QED  BY <1>1, <1>2, <2>1, <2>2, <2>3 DEF ServiceTypeOK, Up
  <1>4. Table(rows)
    BY StoredTable DEF Init
  <1>5. GuiTypes
    <2>1. /\ nextId = 0 /\ pending = [panel \in Panels |-> 0] /\ heard = pending
          /\ shown = [panel \in Panels |-> None]
          /\ userSteps = IF rows = <<>> THEN 0 ELSE 1
      BY DEF Init
    <2>2. /\ pending \in [Panels -> 0..nextId] /\ heard \in [Panels -> 0..nextId]
          /\ shown \in [Panels -> Nodes \cup {None}] /\ nextId \in Nat
      BY <2>1
    <2>3. userSteps \in 0..MaxUserSteps
      BY <2>1
    <2>4. /\ gConnected = FALSE /\ asking = FALSE /\ current = None /\ browsed = FALSE
          /\ paused = FALSE /\ trend = {} /\ selected = None /\ cut = FALSE /\ contested = {}
      BY DEF Init
    <2>. QED  BY <1>4, <2>2, <2>3, <2>4 DEF GuiTypes
  <1>6. QueueTypes
    BY <1>1, <1>2 DEF QueueTypes
  <1>. QED  BY <1>1, <1>2, <1>3, <1>5, <1>6, TypesSplit

LEMMA InitialSession ==
  ASSUME Init
  PROVE  SessionInv /\ ValuesOfThisSession
  <1>. USE NodeServiceAssumption, StoredRowsAssumption
  <1>1. Range(cmds) = {} /\ Range(evts) = {}
    BY InitialTypes
  <1>2. Unasked
    BY <1>1 DEF Init, ServiceInit, Unasked, Closed, Never, NoNews
  <1>3. SessionInv
    BY <1>2 DEF SessionInv, Init, ServiceInit
  <1>4. \A i \in DOMAIN rows : rows[i].value = None
    BY StoredTable DEF Init
  <1>. QED  BY <1>3, <1>4 DEF ValuesOfThisSession, Init

LEMMA InitialWatch ==
  ASSUME Init
  PROVE  WatchInv
  BY DEF Init, WatchInv, Live

LEMMA InitialPanels ==
  ASSUME Init
  PROVE  PanelInv /\ AnswerInv
  <1>1. /\ Range(cmds) = {} /\ Range(evts) = {} /\ Range(reads) = {}
        /\ cmds = <<>> /\ reads = <<>> /\ reader = None /\ last = None /\ heard = pending
        /\ pending["value"] = nextId /\ selected = None
    BY InitialTypes DEF Init, ServiceInit, Panels
  <1>2. DOMAIN cmds = {} /\ DOMAIN reads = {}
    BY <1>1
  <1>3. PanelInv
    BY <1>1 DEF PanelInv, RequestsMeant, ShownIsSelected
  <1>4. ReadsInOrder
    BY <1>1, <1>2 DEF ReadsInOrder, InTurn
  <1>. QED  BY <1>1, <1>3, <1>4 DEF AnswerInv, Answered

LEMMA OnTheWay ==
  ASSUME PanelInv, AnswerInv
  PROVE  SelectionIsAnswered
  <1>1. ASSUME NEW panel \in Panels, InFlight(panel)  PROVE OnItsWay(panel)
    BY <1>1 DEF InFlight, OnItsWay, Range
  <1>2. ASSUME NEW panel \in Panels, Losing  PROVE OnItsWay(panel)
    BY <1>2 DEF Losing, OnItsWay, Range
  <1>. QED  BY <1>1, <1>2 DEF PanelInv, AnswerInv, Answered, SelectionIsAnswered

(* Once nothing is under way, what the commands make of a node is what is so.  *)
LEMMA AllFollowed ==
  ASSUME Types, SessionInv, WatchInv
  PROVE  RowsWatched
  <1>. USE NodeServiceAssumption
  <1>1. SUFFICES ASSUME cmds = <<>>, evts = <<>>, gConnected, ~closing, NEW n \in Nodes \ contested
                 PROVE  IF RowsOf(rows, n) = {} THEN monitored[n] = None
                        ELSE \A i \in RowsOf(rows, n) : monitored[n] = rows[i].interval
    BY DEF Types, RowsWatched
  <1>2. Live
    <2>1. PICK i \in 0..(Len(evts) + 1), j \in 0..(Len(evts) + 1) : Open(i, j)
      BY <1>1 DEF SessionInv, Unasked, Asked, Opening, Failed
    <2>2. Len(evts) = 0
      BY <1>1
    <2>3. j > Len(evts)
      <3>1. j \in 1..(Len(evts) + 1)
        BY <2>1 DEF Open, Framed
      <3>. QED  BY <2>2, <3>1
    <2>4. session = current /\ current \in Servers
      BY <1>1, <2>1, <2>3 DEF Open, SessionInv
    <2>5. Range(cmds) = {}
      BY <1>1 DEF Range
    <2>. QED  BY <1>1, <2>4, <2>5 DEF Live, Up, Never
  <1>3. PICK y : Leads(<<>>, n, monitored[n], y) /\ Wanted(rows, n, y)
    BY <1>1, <1>2 DEF WatchInv, Followed
  <1>4. y = monitored[n]
    BY <1>3, LeadsNowhere
  <1>5. CASE RowsOf(rows, n) = {}
    <2>1. Named(rows, n) = {}
      BY <1>5 DEF Named, RowsOf, Range
    <2>. QED  BY <1>3, <1>4, <1>5, <2>1 DEF Wanted
  <1>6. CASE RowsOf(rows, n) # {}
    <2>1. \A i \in RowsOf(rows, n) : rows[i] \in Named(rows, n)
      BY DEF Named, RowsOf, Range
    <2>2. \A i \in RowsOf(rows, n) : y = rows[i].interval
      BY <1>3, <1>6, <2>1 DEF Wanted
    <2>. QED  BY <1>4, <1>6, <2>2
  <1>. QED  BY <1>5, <1>6

-----------------------------------------------------------------------------
(* The theorems.                                                            *)

(* State and queues have their types, and the session is at one stage of its *)
(* way from the form to the service and back: no attempt is forgotten, no    *)
(* two are under way, and every value queued for the table lies between the   *)
(* news that the session it came from began and the news that it ended.      *)
THEOREM SessionAlwaysStaged == Spec => [](Types /\ SessionInv)
  <1>1. Init => Types /\ SessionInv
    BY InitialTypes, InitialSession
  <1>2. Types /\ SessionInv /\ [Next]_vars => (Types /\ SessionInv)'
    BY TypesKept, SessionKept
  <1>. QED  BY <1>1, <1>2, PTL DEF Spec

(* The Data View shows values, and the trend curves, of the session the      *)
(* facade believes in and of no other, whatever is still queued from an       *)
(* earlier one when it is lost and another opened.                          *)
THEOREM ValuesAlwaysOfThisSession == Spec => []ValuesOfThisSession
  <1>1. Init => ValuesOfThisSession
    BY InitialSession
  <1>2. Types /\ SessionInv /\ ValuesOfThisSession /\ [Next]_vars => ValuesOfThisSession'
    BY ValuesKept
  <1>. QED  BY <1>1, <1>2, SessionAlwaysStaged, PTL DEF Spec

(* Of a backend that answers reads in the order they were sent: the last      *)
(* request of each panel is answered, or its answer is under way, or its      *)
(* session is over; and an answered panel shows the selected node or nothing. *)
THEOREM SelectionAlwaysAnswered ==
  ASSUME InOrder
  PROVE  Spec => []SelectionIsAnswered
  <1>1. Init => PanelInv /\ AnswerInv
    BY InitialPanels
  <1>2. Types /\ SessionInv /\ PanelInv /\ AnswerInv /\ [Next]_vars => (PanelInv /\ AnswerInv)'
    BY PanelKept, AnswersKept
  <1>3. PanelInv /\ AnswerInv => SelectionIsAnswered
    BY OnTheWay
  <1>. QED  BY <1>1, <1>2, <1>3, SessionAlwaysStaged, PTL DEF Spec

(* Whatever was ticked, removed, retuned, switched and lost before: once every *)
(* command and signal is dealt with, the service watches each node that one   *)
(* row names at that row's interval, and no node that none does.             *)
THEOREM RowsAlwaysWatched == Spec => []RowsWatched
  <1>1. Init => WatchInv
    BY InitialWatch
  <1>2. Types /\ SessionInv /\ WatchInv /\ [Next]_vars => WatchInv'
    BY WatchKept
  <1>3. Types /\ SessionInv /\ WatchInv => RowsWatched
    BY AllFollowed
  <1>. QED  BY <1>1, <1>2, <1>3, SessionAlwaysStaged, PTL DEF Spec
-----------------------------------------------------------------------------
(* The trend: what is kept of a node is what it reported.                      *)

LEMMA SmallestNat ==
  ASSUME NEW D \in SUBSET Nat, D # {}
  PROVE  \E i \in D : \A j \in D : i <= j
  <1>. DEFINE R == OpToRel(<, Nat)
  <1>1. \A x, y \in Nat : <<y, x>> \in R <=> y < x
    BY DEF OpToRel
  <1>2. IsWellFoundedOn(R, Nat)
    BY NatLessThanWellFounded
  <1>. HIDE DEF R
  <1>3. PICK x \in D : \A y \in D : ~(<<y, x>> \in R)
    BY <1>2, WFMin
  <1>4. \A y \in D : ~(y < x)
    BY <1>1, <1>3
  <1>. QED  BY <1>4

(* A finite set of numbers has a largest and a smallest.                        *)
LEMMA FiniteExtremes ==
  ASSUME NEW S \in SUBSET Int, IsFiniteSet(S), S # {}
  PROVE  /\ Max(S) \in S /\ \A j \in S : j <= Max(S)
         /\ Min(S) \in S /\ \A j \in S : Min(S) <= j
  <1>. DEFINE upto(i) == {j \in S : j <= i}
              rank == [i \in S |-> Cardinality(upto(i))]
              n == Cardinality(S)
  <1>1. n \in Nat
    BY FS_CardinalityType
  <1>2. ASSUME NEW i \in S
        PROVE  IsFiniteSet(upto(i)) /\ Cardinality(upto(i)) <= n /\ Cardinality(upto(i)) \in Nat
    <2>1. upto(i) \in SUBSET S
      OBVIOUS
    <2>. QED  BY <2>1, FS_Subset, FS_CardinalityType
  <1>3. rank \in [S -> Nat] /\ \A i \in S : rank[i] <= n
    BY <1>2
  <1>4. ASSUME NEW i \in S, NEW k \in S, i < k  PROVE rank[i] < rank[k]
    <2>1. upto(i) \in SUBSET upto(k)
      <3>1. ASSUME NEW j \in S, j <= i  PROVE j <= k
        BY <1>4, <3>1
      <3>. QED  BY <3>1
    <2>2. k \in upto(k) /\ k \notin upto(i)
      BY <1>4
    <2>3. /\ Cardinality(upto(i)) <= Cardinality(upto(k))
          /\ Cardinality(upto(k)) = Cardinality(upto(i)) => upto(k) = upto(i)
      BY <1>2, <2>1, FS_Subset
    <2>. QED  BY <1>2, <2>2, <2>3
  <1>. HIDE DEF rank, n
  <1>5. \E i \in S : \A j \in S : rank[j] <= rank[i]
    <2>. DEFINE room == {n - rank[i] : i \in S}
    <2>1. room # {} /\ room \in SUBSET Nat
      <3>1. \A i \in S : n - rank[i] \in Nat
        BY <1>1, <1>3
      <3>. QED  BY <3>1
    <2>2. PICK k \in room : \A l \in room : k <= l
      <3>. HIDE DEF room
      <3>. QED  BY <2>1, SmallestNat
    <2>3. PICK m \in S : k = n - rank[m]
      OBVIOUS
    <2>4. \A j \in S : n - rank[m] <= n - rank[j]
      BY <2>2, <2>3
    <2>. QED  BY <1>1, <1>3, <2>4
  <1>6. \E i \in S : \A j \in S : rank[i] <= rank[j]
    <2>. DEFINE ranks == {rank[i] : i \in S}
    <2>1. ranks # {} /\ ranks \in SUBSET Nat
      BY <1>3
    <2>2. PICK k \in ranks : \A l \in ranks : k <= l
      <3>. HIDE DEF ranks
      <3>. QED  BY <2>1, SmallestNat
    <2>. QED  BY <2>2
  <1>7. \E i \in S : \A j \in S : j <= i
    <2>1. PICK i \in S : \A j \in S : rank[j] <= rank[i]
      BY <1>5
    <2>2. ASSUME NEW j \in S  PROVE j <= i
      <3>1. ~(rank[i] < rank[j])
        BY <1>3, <2>1
      <3>2. ~(i < j)
        BY <1>4, <3>1
      <3>. QED  BY <3>2
    <2>. QED  BY <2>2
  <1>8. \E i \in S : \A j \in S : i <= j
    <2>1. PICK i \in S : \A j \in S : rank[i] <= rank[j]
      BY <1>6
    <2>2. ASSUME NEW j \in S  PROVE i <= j
      <3>1. ~(rank[j] < rank[i])
        BY <1>3, <2>1
      <3>2. ~(j < i)
        BY <1>4, <3>1
      <3>. QED  BY <3>2
    <2>. QED  BY <2>2
  <1>9. Max(S) \in S /\ \A j \in S : j <= Max(S)
    BY <1>7 DEF Max
  <1>10. Min(S) \in S /\ \A j \in S : Min(S) <= j
    BY <1>8 DEF Min
  <1>. QED  BY <1>9, <1>10
LEMMA LargerOfTwo ==
  ASSUME NEW a \in Int, NEW b \in Int
  PROVE  Max({a, b}) \in {a, b} /\ a <= Max({a, b}) /\ b <= Max({a, b})
  <1>1. \E x \in {a, b} : \A y \in {a, b} : x >= y
    <2>1. CASE a >= b
      BY <2>1
    <2>2. CASE b >= a
      BY <2>2
    <2>. QED  BY <2>1, <2>2
  <1>. QED  BY <1>1 DEF Max

Samples == [t : 0..MaxClock, v : Levels]

Ordered(s) == \A i, j \in DOMAIN s : i <= j => s[i].t <= s[j].t

(* Each sample of s, none of them later than c, is what "told" says of the node     *)
(* from its time to the next sample's, the last one's up to c.                    *)
Remembers(s, told, c) ==
  \A i \in DOMAIN s :
    /\ s[i].t <= c
    /\ \A t \in s[i].t..c : (\A j \in DOMAIN s : i < j => t < s[j].t) => told[t] = s[i].v

TrendTypes ==
  /\ clock \in 0..MaxClock /\ frozen \in {-1} \cup 0..MaxClock /\ setBack \in BOOLEAN
  /\ series \in [Plotted -> Seq(Samples)]
  /\ reported \in [Plotted -> [0..MaxClock -> Levels \cup {Unheard}]]

TrendInv ==
  /\ TrendTypes
  /\ \A n \in Plotted : Ordered(series[n])
  /\ ~setBack => /\ frozen <= clock
                 /\ \A n \in Plotted : Remembers(series[n], reported[n], clock)

LEMMA SampleParts ==
  ASSUME NEW s \in Seq(Samples)
  PROVE  /\ Len(s) \in Nat /\ DOMAIN s = 1..Len(s)
         /\ \A i \in DOMAIN s : s[i] \in Samples /\ s[i].t \in 0..MaxClock /\ s[i].v \in Levels
  <1>1. /\ Len(s) \in Nat /\ DOMAIN s = 1..Len(s)
        /\ \A i \in DOMAIN s : s[i] \in Samples
    OBVIOUS
  <1>2. \A x \in Samples : x.t \in 0..MaxClock /\ x.v \in Levels
    BY DEF Samples
  <1>. QED  BY <1>1, <1>2

(* appendSample(): the oldest samples go, the new one comes last, and the others    *)
(* mean what they meant.                                                     *)
LEMMA SampleAppended ==
  ASSUME NEW s \in Seq(Samples), Ordered(s), NEW c \in 0..MaxClock, NEW v \in Levels,
         NEW told \in [0..MaxClock -> Levels \cup {Unheard}]
  PROVE  LET a == AppendSample(s, c, v)
         IN  /\ a \in Seq(Samples) /\ Ordered(a)
             /\ Remembers(s, told, c) => Remembers(a, [told EXCEPT ![c] = v], c)
  <1>. DEFINE drop == IF Len(s) < MaximumSamples THEN 0 ELSE Max({1, MaximumSamples \div 10})
              kept == SubSeq(s, drop + 1, Len(s))
              new  == [t |-> c, v |-> v]
              a    == AppendSample(s, c, v)
              then == [told EXCEPT ![c] = v]
  <1>1. /\ Len(s) \in Nat /\ DOMAIN s = 1..Len(s) /\ MaximumSamples \in Nat /\ MaxClock \in Nat
        /\ \A i \in 1..Len(s) : s[i] \in Samples /\ s[i].t \in 0..MaxClock
    BY SampleParts, TrendAssumption DEF TrendAssumption
  <1>2. drop \in Nat
    <2>. DEFINE tenth == MaximumSamples \div 10
    <2>1. tenth \in Nat
      BY <1>1
    <2>. HIDE DEF tenth
    <2>2. 1 \in Int /\ tenth \in Int
      BY <2>1
    <2>3. Max({1, tenth}) \in {1, tenth}
      BY ONLY <2>2, LargerOfTwo, Zenon
    <2>. QED  BY <2>1, <2>3 DEF tenth
  <1>. HIDE DEF drop
  <1>3. CASE s # <<>> /\ c < Last(s).t
    <2>1. a = s
      BY <1>3 DEF AppendSample
    <2>2. Len(s) \in DOMAIN s /\ c < s[Len(s)].t
      BY <1>1, <1>3 DEF Last
    <2>3. ~Remembers(s, told, c)
      BY <1>1, <2>2 DEF Remembers
    <2>. QED  BY <2>1, <2>3
  <1>4. CASE ~(s # <<>> /\ c < Last(s).t)
    <2>1. a = Append(kept, new)
      BY <1>4 DEF AppendSample, drop
    <2>2. /\ kept \in Seq(Samples) /\ Len(kept) \in Nat
          /\ \A i \in 1..Len(kept) : i + drop \in 1..Len(s) /\ kept[i] = s[i + drop]
          /\ Len(kept) # 0 => Len(kept) + drop = Len(s)
      BY <1>1, <1>2, SubSeqProperties
    <2>3. new \in Samples /\ new.t = c /\ new.v = v
      BY DEF Samples
    <2>. HIDE DEF a, kept, new
    <2>4. /\ a \in Seq(Samples) /\ DOMAIN a = 1..Len(kept) + 1
          /\ a[Len(kept) + 1] = new /\ \A i \in 1..Len(kept) : a[i] = s[i + drop]
      BY <2>1, <2>2, <2>3
    <2>5. \A i \in 1..Len(s) : s[i].t <= c
      <3>. TAKE i \in 1..Len(s)
      <3>1. s # <<>> /\ Len(s) \in DOMAIN s /\ i <= Len(s)
        BY <1>1
      <3>2. s[i].t <= s[Len(s)].t /\ ~(c < s[Len(s)].t)
        BY <1>1, <1>4, <3>1 DEF Ordered, Last
      <3>. QED  BY <1>1, <3>1, <3>2
    <2>6. Ordered(a)
      <3>. SUFFICES ASSUME NEW i \in DOMAIN a, NEW j \in DOMAIN a, i <= j  PROVE a[i].t <= a[j].t
        BY DEF Ordered
      <3>1. CASE j = Len(kept) + 1
        <4>1. CASE i = j
          BY <2>3, <2>4, <3>1, <4>1
        <4>2. CASE i # j
          <5>1. i \in 1..Len(kept)
            BY <2>2, <2>4, <3>1, <4>2
          <5>. QED  BY <2>2, <2>3, <2>4, <2>5, <3>1, <5>1
        <4>. QED  BY <4>1, <4>2
      <3>2. CASE j # Len(kept) + 1
        <4>1. i \in 1..Len(kept) /\ j \in 1..Len(kept) /\ i + drop <= j + drop
          BY <1>2, <2>2, <2>4, <3>2
        <4>. QED  BY <1>1, <2>2, <2>4, <4>1 DEF Ordered
      <3>. QED  BY <3>1, <3>2
    <2>7. ASSUME Remembers(s, told, c)  PROVE Remembers(a, then, c)
      <3>1. ASSUME NEW i \in DOMAIN a  PROVE a[i].t <= c
        BY <2>2, <2>3, <2>4, <2>5, <3>1
      <3>2. ASSUME NEW i \in DOMAIN a, NEW t \in a[i].t..c, \A j \in DOMAIN a : i < j => t < a[j].t
            PROVE  then[t] = a[i].v
        <4>1. CASE i = Len(kept) + 1
          <5>1. t = c
            BY <2>3, <2>4, <3>2, <4>1
          <5>. QED  BY <2>3, <2>4, <4>1, <5>1
        <4>2. CASE i # Len(kept) + 1
          <5>1. i \in 1..Len(kept) /\ Len(kept) + 1 \in DOMAIN a /\ i < Len(kept) + 1
            BY <2>2, <2>4, <4>2
          <5>2. t < c
            BY <2>3, <2>4, <3>2, <5>1
          <5>3. i + drop \in DOMAIN s /\ a[i] = s[i + drop] /\ s[i + drop].t \in 0..MaxClock
            BY <1>1, <2>2, <2>4, <5>1
          <5>4. \A j \in DOMAIN s : i + drop < j => t < s[j].t
            <6>. SUFFICES ASSUME NEW j \in DOMAIN s, i + drop < j  PROVE t < s[j].t
              OBVIOUS
            <6>a. j \in 1..Len(s) /\ Len(s) \in Nat /\ drop \in Nat /\ Len(kept) \in Nat
              BY <1>1, <1>2, <2>2
            <6>b. i \in Nat /\ i >= 1 /\ Len(kept) # 0
              BY ONLY <5>1, <6>a
            <6>c. Len(kept) + drop = Len(s)
              BY ONLY <2>2, <6>b
            <6>0. /\ j \in Nat /\ j <= Len(s) /\ drop \in Nat /\ i \in Nat /\ i >= 1
                  /\ Len(kept) \in Nat /\ Len(kept) + drop = Len(s)
              BY ONLY <6>a, <6>b, <6>c
            <6>1. j - drop \in 1..Len(kept) /\ i < j - drop /\ (j - drop) + drop = j
              BY ONLY <6>0, i + drop < j
            <6>2. j - drop \in DOMAIN a /\ a[j - drop] = s[j]
              BY <2>2, <2>4, <6>1
            <6>. QED  BY <3>2, <6>1, <6>2
          <5>5. t \in s[i + drop].t..c
            BY <5>3
          <5>6. told[t] = s[i + drop].v
            BY <2>7, <5>3, <5>4, <5>5 DEF Remembers
          <5>7. t \in 0..MaxClock /\ t # c
            BY <1>1, <5>2, <5>3, <5>5
          <5>. QED  BY <5>3, <5>6, <5>7
        <4>. QED  BY <4>1, <4>2
      <3>. HIDE DEF then
      <3>. QED  BY <3>1, <3>2 DEF Remembers
    <2>. QED  BY <2>4, <2>6, <2>7 DEF a
  <1>. QED  BY <1>3, <1>4

(* Time that passes without news says of each node what was said last.             *)
LEMMA TimeRemembered ==
  ASSUME NEW s \in Seq(Samples), NEW c \in 0..MaxClock, c < MaxClock,
         NEW told \in [0..MaxClock -> Levels \cup {Unheard}], Remembers(s, told, c)
  PROVE  Remembers(s, [told EXCEPT ![c + 1] = told[c]], c + 1)
  <1>. DEFINE later == [told EXCEPT ![c + 1] = told[c]]
  <1>1. /\ MaxClock \in Nat /\ DOMAIN s = 1..Len(s) /\ Len(s) \in Nat
        /\ \A i \in DOMAIN s : s[i].t \in 0..MaxClock
    BY SampleParts, TrendAssumption DEF TrendAssumption
  <1>2. ASSUME NEW i \in DOMAIN s  PROVE s[i].t <= c /\ s[i].t <= c + 1
    BY <1>1, <1>2 DEF Remembers
  <1>3. ASSUME NEW i \in DOMAIN s, NEW t \in s[i].t..c + 1, \A j \in DOMAIN s : i < j => t < s[j].t
        PROVE  later[t] = s[i].v
    <2>1. CASE t = c + 1
      <3>1. \A j \in DOMAIN s : i < j => c < s[j].t
        BY <1>1, <1>2, <1>3, <2>1
      <3>2. c \in s[i].t..c
        BY <1>1, <1>2
      <3>3. told[c] = s[i].v
        BY <3>1, <3>2 DEF Remembers
      <3>4. c + 1 \in 0..MaxClock
        BY <1>1
      <3>. QED  BY <2>1, <3>3, <3>4
    <2>2. CASE t # c + 1
      <3>1. t \in s[i].t..c /\ t \in 0..MaxClock
        BY <1>1, <1>2, <2>2
      <3>2. told[t] = s[i].v
        BY <1>3, <3>1 DEF Remembers
      <3>. QED  BY <2>2, <3>1, <3>2
    <2>. QED  BY <2>1, <2>2
  <1>. HIDE DEF later
  <1>4. Remembers(s, later, c + 1)
    BY <1>2, <1>3 DEF Remembers
  <1>. QED  BY <1>4 DEF later
-----------------------------------------------------------------------------
LEMMA TrendInitInv == ASSUME TrendInit PROVE TrendInv
  <1>1. /\ clock = 0 /\ frozen = -1 /\ setBack = FALSE
        /\ series = [n \in Plotted |-> <<>>]
        /\ reported = [n \in Plotted |-> [t \in 0..MaxClock |-> Unheard]]
    BY DEF TrendInit
  <1>2. MaxClock \in Nat
    BY TrendAssumption DEF TrendAssumption
  <1>3. <<>> \in Seq(Samples) /\ DOMAIN <<>> = {}
    OBVIOUS
  <1>4. series \in [Plotted -> Seq(Samples)] /\ \A n \in Plotted : series[n] = <<>>
    BY <1>1, <1>3
  <1>5. reported \in [Plotted -> [0..MaxClock -> Levels \cup {Unheard}]]
    BY <1>1
  <1>6. TrendTypes
    <2>1. clock \in 0..MaxClock
      <3>1. clock = 0
        BY DEF TrendInit
      <3>. QED  BY ONLY <1>2, <3>1
    <2>2. frozen \in {-1} \cup 0..MaxClock /\ setBack \in BOOLEAN
      <3>1. frozen = -1 /\ setBack = FALSE
        BY DEF TrendInit
      <3>. QED  BY ONLY <3>1
    <2>. QED  BY <1>4, <1>5, <2>1, <2>2 DEF TrendTypes
  <1>. QED  BY <1>1, <1>2, <1>3, <1>4, <1>6 DEF TrendInv, Ordered, Remembers

LEMMA TrendStepKeepsInv == ASSUME TrendInv, [TrendNext]_trendVars PROVE TrendInv'
  <1>0. /\ clock \in 0..MaxClock /\ frozen \in {-1} \cup 0..MaxClock /\ setBack \in BOOLEAN
        /\ series \in [Plotted -> Seq(Samples)]
        /\ reported \in [Plotted -> [0..MaxClock -> Levels \cup {Unheard}]]
        /\ MaxClock \in Nat
    BY TrendAssumption DEF TrendAssumption, TrendInv, TrendTypes
  <1>1. ASSUME NEW n \in Plotted, NEW v \in Levels, RecordTrendSample(n, v)  PROVE TrendInv'
    <2>. DEFINE a == AppendSample(series[n], clock, v)
                h == [reported[n] EXCEPT ![clock] = v]
    <2>1. /\ series' = [series EXCEPT ![n] = a] /\ reported' = [reported EXCEPT ![n] = h]
          /\ UNCHANGED <<clock, frozen, setBack>>
      BY <1>0, <1>1 DEF RecordTrendSample, Heard
    <2>2. /\ a \in Seq(Samples) /\ Ordered(a)
          /\ Remembers(series[n], reported[n], clock) => Remembers(a, h, clock)
      BY <1>0, SampleAppended DEF TrendInv
    <2>3. h \in [0..MaxClock -> Levels \cup {Unheard}]
      BY <1>0
    <2>. HIDE DEF a, h
    <2>4. \A k \in Plotted : /\ series'[k] = IF k = n THEN a ELSE series[k]
                             /\ reported'[k] = IF k = n THEN h ELSE reported[k]
      BY <1>0, <2>1
    <2>5. TrendTypes'
      BY <1>0, <2>1, <2>2, <2>3 DEF TrendTypes
    <2>6. \A k \in Plotted : Ordered(series'[k])
      BY <2>2, <2>4 DEF TrendInv
    <2>7. ~setBack => frozen <= clock /\ \A k \in Plotted : Remembers(series'[k], reported'[k], clock)
      BY <2>2, <2>4 DEF TrendInv
    <2>. QED  BY <2>1, <2>5, <2>6, <2>7 DEF TrendInv
  <1>2. ASSUME \A n \in Plotted : series'[n] = series[n] \/ series'[n] = <<>>,
               series' \in [Plotted -> Seq(Samples)], UNCHANGED <<clock, frozen, reported, setBack>>
        PROVE  TrendInv'
    <2>1. DOMAIN <<>> = {}
      OBVIOUS
    <2>2. TrendTypes'
      BY <1>0, <1>2 DEF TrendTypes
    <2>3. \A n \in Plotted : Ordered(series'[n])
      BY <1>2, <2>1 DEF TrendInv, Ordered
    <2>4. \A n \in Plotted : Remembers(<<>>, reported[n], clock)
      BY <2>1 DEF Remembers
    <2>5. ~setBack => frozen <= clock /\ \A n \in Plotted : Remembers(series'[n], reported[n], clock)
      BY <1>2, <2>4 DEF TrendInv
    <2>. QED  BY <1>2, <2>2, <2>3, <2>5 DEF TrendInv
  <1>3. CASE \E n \in Plotted : DropNode(n)
    <2>1. PICK n \in Plotted : series' = [series EXCEPT ![n] = <<>>] /\ UNCHANGED <<clock, frozen, reported, setBack>>
      BY <1>3 DEF DropNode
    <2>2. <<>> \in Seq(Samples)
      OBVIOUS
    <2>. QED  BY <1>0, <1>2, <2>1, <2>2
  <1>4. CASE ClearTrend
    <2>1. <<>> \in Seq(Samples)
      OBVIOUS
    <2>. QED  BY <1>2, <1>4, <2>1 DEF ClearTrend
  <1>5. CASE SetPaused
    <2>1. frozen' \in {-1, clock} /\ UNCHANGED <<clock, series, reported, setBack>>
      BY <1>5 DEF SetPaused
    <2>2. TrendTypes'
      BY <1>0, <2>1 DEF TrendTypes
    <2>3. frozen' <= clock
      BY <1>0, <2>1
    <2>. QED  BY <2>1, <2>2, <2>3 DEF TrendInv
  <1>6. CASE ClockTicks
    <2>. DEFINE later(n) == [reported[n] EXCEPT ![clock + 1] = reported[n][clock]]
    <2>1. /\ clock < MaxClock /\ clock' = clock + 1 /\ UNCHANGED <<series, frozen, setBack>>
          /\ reported' = [n \in Plotted |-> later(n)]
      BY <1>6 DEF ClockTicks
    <2>2. \A n \in Plotted : later(n) \in [0..MaxClock -> Levels \cup {Unheard}]
      BY <1>0
    <2>3. \A n \in Plotted : Remembers(series[n], reported[n], clock) => Remembers(series[n], later(n), clock + 1)
      BY <1>0, <2>1, TimeRemembered
    <2>. HIDE DEF later
    <2>4. TrendTypes'
      BY <1>0, <2>1, <2>2 DEF TrendTypes
    <2>5. ~setBack => frozen <= clock + 1
      BY <1>0 DEF TrendInv
    <2>6. ~setBack => \A n \in Plotted : Remembers(series[n], reported'[n], clock + 1)
      BY <2>1, <2>3 DEF TrendInv
    <2>. QED  BY <2>1, <2>4, <2>5, <2>6 DEF TrendInv
  <1>7. CASE ClockSetBack
    <2>1. clock' \in 0..MaxClock /\ setBack' = TRUE /\ UNCHANGED <<series, frozen, reported>>
      BY <1>0, <1>7 DEF ClockSetBack
    <2>. QED  BY <1>0, <2>1 DEF TrendInv, TrendTypes
  <1>8. CASE UNCHANGED trendVars
    BY <1>0, <1>2, <1>8 DEF trendVars
  <1>. QED  BY <1>1, <1>3, <1>4, <1>5, <1>6, <1>7, <1>8 DEF TrendNext
-----------------------------------------------------------------------------
(* What is drawn of what is kept.                                            *)

(* Where the curve starts: at the first sample kept, or at one from before the      *)
(* window.                                                                   *)
LEMMA StartsBefore ==
  ASSUME TrendInv, NEW n \in Plotted, series[n] # <<>>
  PROVE  /\ FirstIndex(n) \in DOMAIN series[n]
         /\ FirstIndex(n) = 1 \/ series[n][FirstIndex(n)].t < Start
  <1>. DEFINE s == series[n]
              W == InWindow(n)
              m == Min(W)
  <1>1. /\ Len(s) \in Nat /\ DOMAIN s = 1..Len(s) /\ Len(s) >= 1
        /\ \A i \in DOMAIN s : s[i].t \in 0..MaxClock
    BY SampleParts DEF TrendInv, TrendTypes
  <1>2. ReferenceTime \in Int /\ Start \in Int /\ MaxClock \in Nat
    BY TrendAssumption DEF TrendAssumption, TrendInv, TrendTypes, ReferenceTime, Start
  <1>3. W \in SUBSET (1..Len(s)) /\ \A i \in 1..Len(s) : i \in W <=> s[i].t >= Start
    BY <1>1 DEF InWindow
  <1>4. CASE W = {}
    <2>1. FirstIndex(n) = Len(s)
      BY <1>4 DEF FirstIndex
    <2>. QED  BY <1>1, <1>2, <1>3, <1>4, <2>1
  <1>5. CASE W # {}
    <2>1. FirstIndex(n) = Max({1, m - 1})
      BY <1>5 DEF FirstIndex
    <2>2. m \in W /\ \A j \in W : m <= j
      <3>. HIDE DEF W
      <3>1. IsFiniteSet(1..Len(s))
        BY <1>1, FS_Interval
      <3>2. IsFiniteSet(W)
        BY <1>3, <3>1, FS_Subset
      <3>3. W \in SUBSET Int
        BY <1>1, <1>3
      <3>. QED  BY <1>5, <3>2, <3>3, FiniteExtremes
    <2>. HIDE DEF m, W
    <2>3. m \in 1..Len(s)
      BY <1>3, <2>2
    <2>4. 1 \in Int /\ m - 1 \in Int
      BY <2>3
    <2>5. Max({1, m - 1}) \in {1, m - 1} /\ 1 <= Max({1, m - 1})
      BY ONLY <2>4, LargerOfTwo, Zenon
    <2>6. CASE Max({1, m - 1}) = 1
      BY <1>1, <2>1, <2>6
    <2>7. CASE Max({1, m - 1}) = m - 1
      <3>1. m - 1 \in 1..Len(s) /\ m - 1 \notin W
        BY <1>1, <2>2, <2>3, <2>5, <2>7
      <3>. QED  BY <1>1, <1>2, <1>3, <2>1, <2>7, <3>1
    <2>. QED  BY <2>5, <2>6, <2>7
  <1>. QED  BY <1>4, <1>5

(* rangeFor(): the values in the window fit a range that is not empty.             *)
LEMMA RangeFits ==
  ASSUME TrendInv, RangeFor.hasData
  PROVE  /\ RangeFor.min < RangeFor.max
         /\ \A n \in Plotted : \A i \in InWindow(n) : series[n][i].v \in RangeFor.min..RangeFor.max
  <1>. DEFINE seen == UNION {{series[n][i].v : i \in InWindow(n)} : n \in Plotted}
              range == IF Cardinality(seen) = 1
                       THEN [min |-> Min(seen) - 1, max |-> Max(seen) + 1, hasData |-> TRUE]
                       ELSE [min |-> Min(seen), max |-> Max(seen), hasData |-> TRUE]
  <1>1. RangeFor = IF seen = {} THEN [min |-> 0, max |-> 0, hasData |-> FALSE] ELSE range
    BY DEF RangeFor
  <1>2. \A n \in Plotted : \A i \in InWindow(n) : series[n][i].v \in seen
    OBVIOUS
  <1>3. seen \in SUBSET Levels
    <2>1. \A n \in Plotted : \A i \in DOMAIN series[n] : series[n][i].v \in Levels
      BY SampleParts DEF TrendInv, TrendTypes
    <2>. QED  BY <2>1 DEF InWindow
  <1>. HIDE DEF seen
  <1>4. seen # {} /\ RangeFor = range
    BY <1>1
  <1>5. seen \in SUBSET Int /\ IsFiniteSet(seen)
    BY <1>3, TrendAssumption, FS_Subset DEF TrendAssumption
  <1>. DEFINE lo == Min(seen)
              hi == Max(seen)
  <1>6. hi \in seen /\ lo \in seen /\ \A j \in seen : j \in Int /\ j <= hi /\ lo <= j
    BY <1>4, <1>5, FiniteExtremes
  <1>. HIDE DEF lo, hi
  <1>7. lo \in Int /\ hi \in Int /\ lo <= hi /\ (Cardinality(seen) # 1 => lo < hi)
    <2>1. CASE lo = hi
      <3>1. \A j \in seen : j = hi
        BY ONLY <1>6, <2>1
      <3>2. seen = {hi}
        BY <1>6, <3>1
      <3>. QED  BY <1>6, <3>2, FS_Singleton
    <2>2. CASE lo # hi
      BY ONLY <1>6, <2>2
    <2>. QED  BY <2>1, <2>2
  <1>8. RangeFor.min < RangeFor.max /\ \A v \in seen : v \in RangeFor.min..RangeFor.max
    <2>1. CASE Cardinality(seen) = 1
      <3>1. RangeFor.min = lo - 1 /\ RangeFor.max = hi + 1
        BY <1>4, <2>1 DEF lo, hi
      <3>. QED  BY <1>6, <1>7, <3>1
    <2>2. CASE Cardinality(seen) # 1
      <3>1. RangeFor.min = lo /\ RangeFor.max = hi
        BY <1>4, <2>2 DEF lo, hi
      <3>. QED  BY <1>6, <1>7, <2>2, <3>1
    <2>. QED  BY <2>1, <2>2
  <1>. QED  BY <1>2, <1>8
(* A square wave: each sample is a corner, with one more before the next sample.       *)
LEMMA WaveParts ==
  ASSUME NEW s \in Seq(Samples), s # <<>>
  PROVE  /\ SquareWave(s) \in Seq(Samples) /\ Len(SquareWave(s)) = 2 * Len(s) - 1
         /\ \A j \in 1..Len(s) : SquareWave(s)[2 * j - 1] = s[j]
         /\ \A j \in 1..Len(s) - 1 :
              SquareWave(s)[2 * j].t = s[j + 1].t /\ SquareWave(s)[2 * j].v = s[j].v
  <1>. DEFINE w == 2 * Len(s) - 1
              corner(i) == [t |-> s[i \div 2 + 1].t, v |-> s[(i + 1) \div 2].v]
  <1>1. /\ Len(s) \in Nat /\ Len(s) >= 1 /\ w \in Nat /\ DOMAIN s = 1..Len(s)
        /\ \A j \in 1..Len(s) : s[j] \in Samples
    OBVIOUS
  <1>2. SquareWave(s) = [i \in 1..w |-> corner(i)]
    BY DEF SquareWave
  <1>3. \A i \in 1..w : i \div 2 + 1 \in 1..Len(s) /\ (i + 1) \div 2 \in 1..Len(s)
    BY <1>1
  <1>4. \A x \in Samples, y \in Samples : [t |-> x.t, v |-> y.v] \in Samples
    BY DEF Samples
  <1>5. \A i \in 1..w : corner(i) \in Samples
    BY <1>1, <1>3, <1>4
  <1>. HIDE DEF corner
  <1>6. SquareWave(s) \in Seq(Samples) /\ Len(SquareWave(s)) = w
    BY <1>1, <1>2, <1>5
  <1>7. ASSUME NEW j \in 1..Len(s)  PROVE SquareWave(s)[2 * j - 1] = s[j]
    <2>1. 2 * j - 1 \in 1..w /\ (2 * j - 1) \div 2 + 1 = j /\ ((2 * j - 1) + 1) \div 2 = j
      BY <1>1
    <2>2. corner(2 * j - 1) = [t |-> s[j].t, v |-> s[j].v]
      BY <2>1 DEF corner
    <2>3. [t |-> s[j].t, v |-> s[j].v] = s[j]
      BY <1>1 DEF Samples
    <2>. QED  BY <1>2, <2>1, <2>2, <2>3
  <1>8. ASSUME NEW j \in 1..Len(s) - 1
        PROVE  SquareWave(s)[2 * j].t = s[j + 1].t /\ SquareWave(s)[2 * j].v = s[j].v
    <2>1. 2 * j \in 1..w /\ (2 * j) \div 2 + 1 = j + 1 /\ (2 * j + 1) \div 2 = j
      BY <1>1
    <2>. QED  BY <1>2, <2>1 DEF corner
  <1>. QED  BY <1>6, <1>7, <1>8

(* The place on a curve of the j-th sample drawn.                              *)
Place(stepped, j) == IF stepped THEN 2 * j - 1 ELSE j

(* polylineFor(): the samples from the first index on, a corner before each but the  *)
(* first when it is stepped, and the last one's level at the right edge.       *)
LEMMA CurveParts ==
  ASSUME TrendInv, NEW n \in Plotted, NEW stepped \in BOOLEAN, PolylineFor(n, stepped) # <<>>
  PROVE  LET s == series[n]
             f == FirstIndex(n)
             k == Len(s) - f + 1
             w == Place(stepped, k)
             points == PolylineFor(n, stepped)
         IN  /\ s # <<>> /\ RangeFor.hasData
             /\ Len(points) \in {w, w + 1} /\ DOMAIN points = 1..Len(points)
             /\ \A j \in 1..k : points[Place(stepped, j)] = s[f + j - 1]
             /\ stepped => \A j \in 1..k - 1 : points[2 * j].t = s[f + j].t /\ points[2 * j].v = s[f + j - 1].v
             /\ Len(points) = w => ~(s[Len(s)].t < ReferenceTime)
             /\ Len(points) = w + 1 => /\ s[Len(s)].t < ReferenceTime
                                     /\ points[w + 1].t = ReferenceTime /\ points[w + 1].v = s[Len(s)].v
  <1>. DEFINE s == series[n]
              f == FirstIndex(n)
              k == Len(s) - f + 1
              w == Place(stepped, k)
              kept == SubSeq(s, f, Len(s))
              drawn == IF stepped THEN SquareWave(kept) ELSE kept
              edge == [t |-> ReferenceTime, v |-> Last(drawn).v]
              points == PolylineFor(n, stepped)
  <1>1. s # <<>> /\ RangeFor.hasData
    BY DEF PolylineFor
  <1>2. points = drawn \o (IF Last(drawn).t < ReferenceTime THEN <<edge>> ELSE <<>>)
    BY <1>1 DEF PolylineFor
  <1>3. s \in Seq(Samples) /\ Len(s) \in Nat /\ DOMAIN s = 1..Len(s) /\ f \in 1..Len(s)
    BY <1>1, SampleParts, StartsBefore DEF TrendInv, TrendTypes
  <1>. HIDE DEF s, f, points, edge
  <1>4. /\ kept \in Seq(Samples) /\ Len(kept) = k /\ k \in Nat /\ k >= 1
        /\ \A j \in 1..k : kept[j] = s[f + j - 1]
    <2>1. \A i \in f..Len(s) : s[i] \in Samples
      BY <1>3
    <2>2. /\ kept \in Seq(Samples) /\ Len(kept) = IF f <= Len(s) THEN Len(s) - f + 1 ELSE 0
          /\ \A j \in 1..Len(s) - f + 1 : kept[j] = s[f + j - 1]
      BY <1>3, <2>1, SubSeqProperties
    <2>. QED  BY <1>3, <2>2
  <1>. HIDE DEF kept
  <1>5. /\ drawn \in Seq(Samples) /\ Len(drawn) = w /\ w \in Nat /\ w >= 1
        /\ \A j \in 1..k : Place(stepped, j) \in 1..w /\ drawn[Place(stepped, j)] = kept[j]
        /\ stepped => \A j \in 1..k - 1 : /\ 2 * j \in 1..w
                                         /\ drawn[2 * j].t = kept[j + 1].t /\ drawn[2 * j].v = kept[j].v
    <2>1. CASE stepped
      <3>1. kept # <<>> /\ drawn = SquareWave(kept) /\ kept \in Seq(Samples) /\ Len(kept) = k
        BY <1>4, <2>1
      <3>. HIDE DEF drawn, k
      <3>2. /\ drawn \in Seq(Samples) /\ Len(drawn) = 2 * k - 1
            /\ \A j \in 1..k : drawn[2 * j - 1] = kept[j]
            /\ \A j \in 1..k - 1 : drawn[2 * j].t = kept[j + 1].t /\ drawn[2 * j].v = kept[j].v
        BY ONLY <3>1, WaveParts
      <3>3. /\ w = 2 * k - 1 /\ k \in Nat /\ k >= 1
            /\ \A j \in 1..k : Place(stepped, j) = 2 * j - 1
        BY <1>4, <2>1 DEF Place
      <3>. HIDE DEF w
      <3>. QED  BY ONLY <3>2, <3>3
    <2>2. CASE ~stepped
      <3>1. drawn = kept
        BY <2>2
      <3>. HIDE DEF drawn, k
      <3>. QED  BY <1>4, <2>2, <3>1 DEF Place
    <2>. QED  BY <2>1, <2>2
  <1>. HIDE DEF drawn
  <1>6. Last(drawn) = s[Len(s)]
    <2>1. k \in 1..k /\ f + k - 1 = Len(s)
      BY <1>3, <1>4
    <2>. QED  BY <1>4, <1>5, <2>1 DEF Last
  <1>7. edge.t = ReferenceTime /\ edge.v = s[Len(s)].v
    BY <1>6 DEF edge
  <1>. DEFINE Point == Samples \cup {edge}
  <1>8. edge \in Point /\ drawn \in Seq(Point)
    BY <1>5
  <1>9. \A j \in 1..k : drawn[Place(stepped, j)] = s[f + j - 1]
    BY <1>4, <1>5
  <1>10. stepped => \A j \in 1..k - 1 : drawn[2 * j].t = s[f + j].t /\ drawn[2 * j].v = s[f + j - 1].v
    <2>. SUFFICES ASSUME stepped, NEW j \in 1..k - 1
                  PROVE  drawn[2 * j].t = s[f + j].t /\ drawn[2 * j].v = s[f + j - 1].v
      OBVIOUS
    <2>1. j \in 1..k /\ j + 1 \in 1..k /\ f + (j + 1) - 1 = f + j
      BY <1>3, <1>4
    <2>. QED  BY <1>4, <1>5, <2>1
  <1>. HIDE DEF k, w, Point
  <1>11. CASE Last(drawn).t < ReferenceTime
    <2>1. points = drawn \o <<edge>> /\ <<edge>> \in Seq(Point) /\ Len(<<edge>>) = 1
      BY <1>2, <1>8, <1>11
    <2>2. /\ points \in Seq(Point) /\ Len(points) = w + 1 /\ DOMAIN points = 1..Len(points)
          /\ \A i \in 1..w + 1 : points[i] = IF i <= w THEN drawn[i] ELSE <<edge>>[i - w]
      BY <1>5, <1>8, <2>1, ConcatProperties
    <2>3. points[w + 1] = edge /\ \A i \in 1..w : points[i] = drawn[i]
      BY <1>5, <2>2
    <2>4. /\ \A j \in 1..k : points[Place(stepped, j)] = s[f + j - 1]
          /\ stepped => \A j \in 1..k - 1 : points[2 * j].t = s[f + j].t /\ points[2 * j].v = s[f + j - 1].v
      BY <1>5, <1>9, <1>10, <2>3
    <2>5. w # w + 1 /\ s[Len(s)].t < ReferenceTime
      BY <1>5, <1>6, <1>11
    <2>. QED  BY <1>1, <1>7, <2>2, <2>3, <2>4, <2>5 DEF s, f, k, w, points
  <1>12. CASE ~(Last(drawn).t < ReferenceTime)
    <2>1. points = drawn
      BY <1>2, <1>5, <1>12, ConcatEmptySeq
    <2>2. DOMAIN points = 1..Len(points) /\ Len(points) = w /\ w # w + 1
      BY <1>5, <2>1
    <2>3. ~(s[Len(s)].t < ReferenceTime)
      BY <1>6, <1>12
    <2>. QED  BY <1>1, <1>9, <1>10, <2>1, <2>2, <2>3 DEF s, f, k, w, points
  <1>. QED  BY <1>11, <1>12

(* The curve as its samples' places: what holds of every sample drawn.           *)
LEMMA CurvePlaces ==
  ASSUME TrendInv, NEW n \in Plotted, NEW stepped \in BOOLEAN, PolylineFor(n, stepped) # <<>>
  PROVE  LET s == series[n]
             f == FirstIndex(n)
             k == Len(s) - f + 1
             w == Place(stepped, k)
         IN  /\ Len(s) \in Nat /\ DOMAIN s = 1..Len(s) /\ f \in 1..Len(s)
             /\ f = 1 \/ s[f].t < Start
             /\ \A i \in 1..Len(s) : s[i].t \in Int
             /\ Ordered(s)
             /\ k \in Nat /\ k >= 1 /\ f + k - 1 = Len(s) /\ w \in Nat /\ w >= 1
             /\ \A j \in 1..k : Place(stepped, j) \in 1..w /\ f + j - 1 \in 1..Len(s)
             /\ \A i \in 1..w : \E j \in 1..k :
                  i = Place(stepped, j) \/ (stepped /\ j < k /\ i = 2 * j)
             /\ ReferenceTime \in Int /\ Start \in Int /\ clock \in Int
             /\ ~setBack => ReferenceTime <= clock
  <1>. DEFINE s == series[n]
              f == FirstIndex(n)
              k == Len(s) - f + 1
              w == Place(stepped, k)
  <1>1. /\ Len(s) \in Nat /\ DOMAIN s = 1..Len(s) /\ f \in 1..Len(s)
        /\ f = 1 \/ s[f].t < Start
        /\ \A i \in 1..Len(s) : s[i].t \in Int
        /\ Ordered(s)
    <2>1. s \in Seq(Samples) /\ Ordered(s)
      BY DEF TrendInv, TrendTypes
    <2>2. f \in DOMAIN s /\ (f = 1 \/ s[f].t < Start)
      BY StartsBefore DEF PolylineFor
    <2>3. Len(s) \in Nat /\ DOMAIN s = 1..Len(s) /\ \A i \in DOMAIN s : s[i].t \in 0..MaxClock
      BY <2>1, SampleParts
    <2>. HIDE DEF s, f
    <2>. QED  BY <2>1, <2>2, <2>3
  <1>2. ReferenceTime \in Int /\ Start \in Int /\ clock \in Int /\ (~setBack => ReferenceTime <= clock)
    BY TrendAssumption DEF TrendAssumption, TrendInv, TrendTypes, ReferenceTime, Start
  <1>. HIDE DEF s, f
  <1>3. k \in Nat /\ k >= 1 /\ f + k - 1 = Len(s) /\ \A j \in 1..k : f + j - 1 \in 1..Len(s)
    BY <1>1
  <1>. HIDE DEF k
  <1>4. /\ w \in Nat /\ w >= 1 /\ \A j \in 1..k : Place(stepped, j) \in 1..w
        /\ \A i \in 1..w : \E j \in 1..k : i = Place(stepped, j) \/ (stepped /\ j < k /\ i = 2 * j)
    <2>1. CASE stepped
      <3>1. w = 2 * k - 1 /\ \A j \in 1..k : Place(stepped, j) = 2 * j - 1
        BY <2>1 DEF Place
      <3>2. ASSUME NEW i \in 1..w
            PROVE  \E j \in 1..k : i = Place(stepped, j) \/ (stepped /\ j < k /\ i = 2 * j)
        <4>. DEFINE j == (i + 1) \div 2
        <4>1. j \in 1..k /\ (i = 2 * j - 1 \/ (j < k /\ i = 2 * j))
          BY <1>3, <3>1
        <4>. QED  BY <2>1, <3>1, <4>1
      <3>3. w \in Nat /\ w >= 1 /\ \A j \in 1..k : 2 * j - 1 \in 1..w
        BY ONLY <1>3, <3>1
      <3>. QED  BY <3>1, <3>2, <3>3
    <2>2. CASE ~stepped
      BY <1>3, <2>2 DEF Place
    <2>. QED  BY <2>1, <2>2
  <1>. QED  BY <1>1, <1>2, <1>3, <1>4 DEF s, f, k

(* A curve never runs back in time, stepped it only goes level or straight up and      *)
(* down, and it reaches the right edge.                                       *)
LEMMA CurveRuns ==
  ASSUME TrendInv, NEW n \in Plotted, NEW stepped \in BOOLEAN, PolylineFor(n, stepped) # <<>>
  PROVE  LET points == PolylineFor(n, stepped)
         IN  /\ \A i \in 2..Len(points) :
                  /\ points[i - 1].t <= points[i].t
                  /\ stepped => points[i - 1].t = points[i].t \/ points[i - 1].v = points[i].v
             /\ ReferenceTime <= Last(points).t
  <1>. DEFINE s == series[n]
              f == FirstIndex(n)
              k == Len(s) - f + 1
              w == Place(stepped, k)
              points == PolylineFor(n, stepped)
              length == Len(points)
  <1>1. /\ length \in {w, w + 1} /\ DOMAIN points = 1..length
        /\ \A j \in 1..k : points[Place(stepped, j)] = s[f + j - 1]
        /\ stepped => \A j \in 1..k - 1 : points[2 * j].t = s[f + j].t /\ points[2 * j].v = s[f + j - 1].v
        /\ length = w => ~(s[Len(s)].t < ReferenceTime)
        /\ length = w + 1 => /\ s[Len(s)].t < ReferenceTime
                                /\ points[w + 1].t = ReferenceTime /\ points[w + 1].v = s[Len(s)].v
    BY CurveParts
  <1>2. /\ Len(s) \in Nat /\ DOMAIN s = 1..Len(s) /\ f \in 1..Len(s)
        /\ \A i \in 1..Len(s) : s[i].t \in Int
        /\ Ordered(s)
        /\ k \in Nat /\ k >= 1 /\ f + k - 1 = Len(s) /\ w \in Nat /\ w >= 1
        /\ \A j \in 1..k : Place(stepped, j) \in 1..w /\ f + j - 1 \in 1..Len(s)
        /\ \A i \in 1..w : \E j \in 1..k : i = Place(stepped, j) \/ (stepped /\ j < k /\ i = 2 * j)
        /\ ReferenceTime \in Int
    BY CurvePlaces
  <1>3. Place(stepped, k) = w
    OBVIOUS
  <1>. HIDE DEF s, f, k, w, points, length
  <1>num. /\ Len(s) \in Nat /\ f \in Nat /\ f >= 1 /\ f <= Len(s) /\ k \in Nat
          /\ f + k - 1 = Len(s) /\ 1 <= k
    <2>1. Len(s) \in Nat /\ f \in 1..Len(s) /\ k \in Nat /\ f + k - 1 = Len(s) /\ k >= 1
      BY <1>2
    <2>. QED  BY ONLY <2>1
  <1>len. /\ length \in Nat /\ w \in Nat /\ w >= 1 /\ w <= length /\ length <= w + 1
          /\ k \in Nat /\ k >= 1
    <2>1. length = w \/ length = w + 1
      BY <1>1
    <2>2. w \in Nat /\ w >= 1 /\ k \in Nat /\ k >= 1
      BY <1>2
    <2>. QED  BY ONLY <2>1, <2>2
  <1>4. k \in 1..k /\ points[w] = s[Len(s)] /\ Len(s) \in 1..Len(s)
    <2>1. k \in 1..k /\ Len(s) \in 1..Len(s)
      BY <1>2
    <2>2. points[Place(stepped, k)] = s[f + k - 1]
      BY ONLY <1>1, <2>1
    <2>. QED  BY <1>2, <1>3, <2>1, <2>2
  <1>5. \A j \in 1..k - 1 : /\ j \in 1..k /\ j + 1 \in 1..k /\ f + j \in 1..Len(s) /\ f + j - 1 \in 1..Len(s)
                            /\ s[f + j - 1].t <= s[f + j].t /\ points[Place(stepped, j + 1)] = s[f + j]
    <2>. TAKE j \in 1..k - 1
    <2>1. j \in 1..k /\ j + 1 \in 1..k /\ f + (j + 1) - 1 = f + j
      BY ONLY <1>num, j \in 1..k - 1
    <2>2. f + j \in 1..Len(s) /\ f + j - 1 \in 1..Len(s) /\ f + j - 1 <= f + j
      BY <1>2, <2>1
    <2>3. points[Place(stepped, j + 1)] = s[f + (j + 1) - 1]
      BY ONLY <1>1, <2>1
    <2>. QED  BY <1>2, <2>1, <2>2, <2>3 DEF Ordered
  <1>6. ASSUME NEW i \in 2..length
        PROVE  /\ points[i - 1].t <= points[i].t
               /\ stepped => points[i - 1].t = points[i].t \/ points[i - 1].v = points[i].v
    <2>1. CASE i <= w /\ stepped
      <3>0. i \in 1..w /\ \A j \in 1..k : Place(stepped, j) = 2 * j - 1
        BY <1>2, <2>1 DEF Place
      <3>1. PICK j \in 1..k : i = Place(stepped, j) \/ (j < k /\ i = 2 * j)
        BY <1>2, <3>0
      <3>2. CASE i = Place(stepped, j)
        <4>1. i = 2 * j - 1 /\ j - 1 \in 1..k - 1 /\ i - 1 = 2 * (j - 1) /\ (j - 1) + 1 = j
          BY <1>2, <3>0, <3>2
        <4>2. points[2 * (j - 1)].t = s[f + (j - 1)].t /\ points[Place(stepped, (j - 1) + 1)] = s[f + (j - 1)]
          BY <1>1, <1>5, <2>1, <4>1
        <4>3. s[f + (j - 1)].t \in Int
          BY <1>2, <1>5, <4>1
        <4>4. points[i].t = s[f + (j - 1)].t /\ points[i - 1].t = s[f + (j - 1)].t
          BY ONLY <3>2, <4>1, <4>2
        <4>. QED  BY ONLY <4>3, <4>4
      <3>3. CASE j < k /\ i = 2 * j
        <4>1. j \in 1..k - 1 /\ i - 1 = Place(stepped, j)
          BY <1>2, <3>0, <3>3
        <4>2. points[i].t = s[f + j].t /\ points[i].v = s[f + j - 1].v /\ points[i - 1] = s[f + j - 1]
          BY <1>1, <2>1, <3>3, <4>1
        <4>. QED  BY <1>5, <4>1, <4>2
      <3>. QED  BY <3>1, <3>2, <3>3
    <2>2. CASE i <= w /\ ~stepped
      <3>1. w = k /\ \A j \in 1..k : Place(stepped, j) = j
        BY <2>2 DEF Place, w
      <3>2. i - 1 \in 1..k - 1 /\ (i - 1) + 1 = i /\ i \in 1..k /\ i - 1 \in 1..k
        BY ONLY <1>len, <2>2, <3>1, i \in 2..length
      <3>3. points[i] = s[f + (i - 1)] /\ points[i - 1] = s[f + (i - 1) - 1]
        BY <1>1, <1>5, <3>1, <3>2
      <3>. QED  BY <1>5, <2>2, <3>2, <3>3
    <2>3. CASE ~(i <= w)
      <3>1. i = w + 1 /\ length = w + 1 /\ i - 1 = w
        BY ONLY <1>len, <2>3, i \in 2..length
      <3>2. s[Len(s)].t \in Int
        BY <1>2, <1>4
      <3>. QED  BY <1>1, <1>2, <1>4, <3>1, <3>2
    <2>. QED  BY <2>1, <2>2, <2>3
  <1>7. ReferenceTime <= Last(points).t
    <2>1. Last(points) = points[length]
      BY DEF Last, length
    <2>2. s[Len(s)].t \in Int /\ ReferenceTime \in Int
      BY <1>2, <1>4
    <2>3. CASE length = w
      <3>1. ~(s[Len(s)].t < ReferenceTime)
        BY <1>1, <2>3
      <3>. QED  BY ONLY <1>4, <2>1, <2>2, <2>3, <3>1
    <2>4. CASE length # w
      <3>1. length = w + 1
        BY ONLY <1>len, <2>4
      <3>2. points[w + 1].t = ReferenceTime
        BY <1>1, <3>1
      <3>. QED  BY ONLY <2>1, <2>2, <3>1, <3>2
    <2>. QED  BY <2>3, <2>4
  <1>. QED  BY <1>6, <1>7 DEF points, length

(* The last point of a curve at or before an instant of the window has the level the   *)
(* node reported then.                                                        *)
LEMMA CurveTells ==
  ASSUME TrendInv, NEW n \in Plotted, NEW stepped \in BOOLEAN, PolylineFor(n, stepped) # <<>>,
         NEW t \in Max({Start, series[n][1].t})..ReferenceTime, ~setBack
  PROVE  /\ \E i \in DOMAIN PolylineFor(n, stepped) : PolylineFor(n, stepped)[i].t <= t
         /\ PointAt(PolylineFor(n, stepped), t).v = reported[n][t]
  <1>. DEFINE s == series[n]
              f == FirstIndex(n)
              k == Len(s) - f + 1
              w == Place(stepped, k)
              points == PolylineFor(n, stepped)
              length == Len(points)
              until == {i \in DOMAIN points : points[i].t <= t}
              i == Max(until)
  <1>1. /\ length \in {w, w + 1} /\ DOMAIN points = 1..length
        /\ \A j \in 1..k : points[Place(stepped, j)] = s[f + j - 1]
        /\ stepped => \A j \in 1..k - 1 : points[2 * j].t = s[f + j].t /\ points[2 * j].v = s[f + j - 1].v
        /\ length = w + 1 => /\ s[Len(s)].t < ReferenceTime
                                /\ points[w + 1].t = ReferenceTime /\ points[w + 1].v = s[Len(s)].v
    BY CurveParts
  <1>2. /\ Len(s) \in Nat /\ DOMAIN s = 1..Len(s) /\ f \in 1..Len(s)
        /\ f = 1 \/ s[f].t < Start
        /\ \A m \in 1..Len(s) : s[m].t \in Int
        /\ Ordered(s)
        /\ k \in Nat /\ k >= 1 /\ f + k - 1 = Len(s) /\ w \in Nat /\ w >= 1
        /\ \A j \in 1..k : Place(stepped, j) \in 1..w /\ f + j - 1 \in 1..Len(s)
        /\ \A m \in 1..w : \E j \in 1..k : m = Place(stepped, j) \/ (stepped /\ j < k /\ m = 2 * j)
        /\ ReferenceTime \in Int /\ Start \in Int /\ clock \in Int /\ ReferenceTime <= clock
    BY CurvePlaces
  <1>3. Remembers(s, reported[n], clock)
    BY DEF TrendInv
  <1>4. Place(stepped, 1) = 1
    BY DEF Place
  <1>5. \A j, l \in 1..k : j < l => Place(stepped, j) < Place(stepped, l)
    <2>. HIDE DEF k
    <2>. QED  BY <1>2 DEF Place
  <1>. HIDE DEF s, f, k, w, points, length
  <1>num. /\ Len(s) \in Nat /\ f \in Nat /\ f >= 1 /\ f <= Len(s) /\ k \in Nat
          /\ f + k - 1 = Len(s) /\ 1 <= k
    <2>1. Len(s) \in Nat /\ f \in 1..Len(s) /\ k \in Nat /\ f + k - 1 = Len(s) /\ k >= 1
      BY <1>2
    <2>. QED  BY ONLY <2>1
  <1>len. /\ length \in Nat /\ w \in Nat /\ w >= 1 /\ w <= length /\ length <= w + 1
          /\ k \in Nat /\ k >= 1
    <2>1. length = w \/ length = w + 1
      BY <1>1
    <2>2. w \in Nat /\ w >= 1 /\ k \in Nat /\ k >= 1
      BY <1>2
    <2>. QED  BY ONLY <2>1, <2>2
  <1>6. t \in Int /\ Start <= t /\ s[1].t <= t /\ t <= ReferenceTime
    <2>1. s[1].t \in Int
      BY <1>2
    <2>2. Max({Start, s[1].t}) \in {Start, s[1].t} /\ Start <= Max({Start, s[1].t}) /\ s[1].t <= Max({Start, s[1].t})
      BY <1>2, <2>1, LargerOfTwo
    <2>3. t \in Max({Start, s[1].t})..ReferenceTime
      BY DEF s
    <2>4. Start \in Int /\ ReferenceTime \in Int
      BY <1>2
    <2>. QED  BY ONLY <2>1, <2>2, <2>3, <2>4
  <1>7. 1 \in until
    <2>1. 1 \in 1..k /\ f + 1 - 1 = f
      BY ONLY <1>num
    <2>2. points[Place(stepped, 1)] = s[f + 1 - 1]
      BY ONLY <1>1, <2>1
    <2>3. points[1] = s[f]
      BY <1>4, <2>1, <2>2
    <2>4. s[f].t <= t
      <3>1. s[f].t \in Int /\ Start \in Int /\ (f = 1 \/ s[f].t < Start)
        BY <1>2
      <3>. QED  BY ONLY <1>6, <3>1
    <2>5. 1 \in DOMAIN points
      <3>1. 1 \in 1..length
        BY ONLY <1>len
      <3>. QED  BY <1>1, <3>1
    <2>. QED  BY ONLY <2>3, <2>4, <2>5
  <1>8. i \in 1..length /\ points[i].t <= t /\ \A j \in 1..length : i < j => ~(points[j].t <= t)
    <2>1. IsFiniteSet(DOMAIN points)
      <3>1. IsFiniteSet(1..length)
        BY ONLY <1>len, FS_Interval
      <3>. QED  BY <1>1, <3>1
    <2>2. until \in SUBSET DOMAIN points /\ until \in SUBSET Int
      BY <1>1
    <2>. HIDE DEF until
    <2>3. IsFiniteSet(until)
      BY <2>1, <2>2, FS_Subset
    <2>4. i \in until /\ \A j \in until : j <= i
      BY <1>7, <2>2, <2>3, FiniteExtremes
    <2>. HIDE DEF i
    <2>5. i \in 1..length /\ points[i].t <= t
      BY <1>1, <2>4 DEF until
    <2>6. ASSUME NEW j \in 1..length, i < j  PROVE ~(points[j].t <= t)
      <3>1. ~(j <= i)
        BY <2>5, <2>6
      <3>. QED  BY <1>1, <2>4, <3>1 DEF until
    <2>. QED  BY <2>5, <2>6
  <1>9. PointAt(points, t) = points[i]
    BY DEF PointAt
  <1>. HIDE DEF i
  <1>10. points[i].v = reported[n][t]
    <2>1. CASE i <= w
      <3>1. PICK j \in 1..k : i = Place(stepped, j) \/ (stepped /\ j < k /\ i = 2 * j)
        <4>1. i \in 1..w
          BY <1>2, <1>8, <2>1
        <4>. QED  BY <1>2, <4>1
      <3>2. i = Place(stepped, j)
        <4>. SUFFICES ASSUME stepped, j < k, i = 2 * j  PROVE FALSE
          BY <3>1
        <4>1. j \in 1..k - 1 /\ j + 1 \in 1..k /\ f + (j + 1) - 1 = f + j /\ Place(stepped, j + 1) = i + 1
          BY <1>2 DEF Place
        <4>2. points[i].t = s[f + j].t /\ points[Place(stepped, j + 1)] = s[f + (j + 1) - 1]
          BY ONLY <1>1, <4>1, stepped, i = 2 * j
        <4>3. i + 1 \in 1..length /\ i < i + 1
          <5>1. Place(stepped, j + 1) \in 1..w
            BY ONLY <1>2, <4>1
          <5>2. i \in 1..length
            BY <1>8
          <5>. QED  BY ONLY <1>len, <4>1, <5>1, <5>2
        <4>4. ~(points[i + 1].t <= t)
          BY <1>8, <4>3
        <4>. QED  BY <1>8, <4>1, <4>2, <4>4
      <3>. DEFINE m == f + j - 1
      <3>3. m \in 1..Len(s) /\ points[i] = s[m] /\ s[m].t <= t
        BY <1>1, <1>2, <1>8, <3>2
      <3>4. \A l \in DOMAIN s : m < l => t < s[l].t
        <4>. SUFFICES ASSUME NEW l \in 1..Len(s), m < l  PROVE t < s[l].t
          BY <1>2
        <4>. DEFINE o == l - f + 1
        <4>1. o \in 1..k /\ f + o - 1 = l /\ j < o
          BY ONLY <1>num, m < l, l \in 1..Len(s), j \in 1..k
        <4>. HIDE DEF o
        <4>2. Place(stepped, o) \in 1..w /\ i < Place(stepped, o) /\ points[Place(stepped, o)] = s[l]
          BY <1>1, <1>2, <1>5, <3>2, <4>1
        <4>3. Place(stepped, o) \in 1..length
          BY ONLY <1>len, <4>2
        <4>4. ~(points[Place(stepped, o)].t <= t)
          BY <1>8, <4>2, <4>3
        <4>5. s[l].t \in Int /\ t \in Int /\ ~(s[l].t <= t)
          BY <1>2, <1>6, <4>2, <4>4
        <4>. QED  BY ONLY <4>5
      <3>. HIDE DEF m
      <3>5. m \in DOMAIN s /\ t \in s[m].t..clock
        BY <1>2, <1>6, <3>3
      <3>. QED  BY <1>3, <3>3, <3>4, <3>5 DEF Remembers
    <2>2. CASE ~(i <= w)
      <3>1. i = w + 1 /\ length = w + 1
        <4>1. i \in 1..length
          BY <1>8
        <4>. QED  BY ONLY <1>len, <2>2, <4>1
      <3>2. points[i].v = s[Len(s)].v /\ s[Len(s)].t < ReferenceTime /\ ReferenceTime <= t
        BY <1>1, <1>8, <3>1
      <3>3. Len(s) \in DOMAIN s /\ s[Len(s)].t \in Int /\ \A j \in DOMAIN s : ~(Len(s) < j)
        <4>1. Len(s) \in Nat /\ Len(s) >= 1 /\ DOMAIN s = 1..Len(s)
          BY <1>2
        <4>2. Len(s) \in 1..Len(s)
          BY ONLY <4>1
        <4>3. s[Len(s)].t \in Int
          BY <1>2, <4>2
        <4>4. \A j \in 1..Len(s) : ~(Len(s) < j)
          BY ONLY <4>1
        <4>. QED  BY <4>1, <4>2, <4>3, <4>4
      <3>4. t \in s[Len(s)].t..clock
        BY <1>2, <1>6, <3>2, <3>3
      <3>. QED  BY <1>3, <3>2, <3>3, <3>4 DEF Remembers
    <2>. QED  BY <2>1, <2>2
  <1>11. 1 \in DOMAIN points /\ points[1].t <= t
    BY <1>7
  <1>. QED  BY <1>9, <1>10, <1>11 DEF points

(* For any nodes, values, window and sample cap, through trims, drops and pauses: a    *)
(* curve, stepped or sloped, never runs back in time, fits the plot's range, reaches  *)
(* the right edge, and its last point at or before an instant of the window has the  *)
(* level the node reported then, unless the wall clock was set back; a stepped one   *)
(* is level between its jumps (TrendModel::appendSample, rangeFor, polylineFor).   *)
THEOREM CurvesAlwaysTrue == TrendSpec => []CurvesAreTrue
  <1>1. TrendInv => CurvesAreTrue
    <2>. SUFFICES ASSUME TrendInv, NEW n \in Plotted, NEW stepped \in BOOLEAN,
                         PolylineFor(n, stepped) # <<>>
                  PROVE  LET points == PolylineFor(n, stepped)
                         IN  /\ \A i \in 2..Len(points) :
                                  /\ points[i - 1].t <= points[i].t
                                  /\ stepped => \/ points[i - 1].t = points[i].t
                                                \/ points[i - 1].v = points[i].v
                             /\ RangeFor.min < RangeFor.max
                             /\ \A i \in InWindow(n) : series[n][i].v \in RangeFor.min..RangeFor.max
                             /\ ReferenceTime <= Last(points).t
                             /\ \A t \in Max({Start, series[n][1].t})..ReferenceTime :
                                  \/ setBack
                                  \/ /\ \E i \in DOMAIN points : points[i].t <= t
                                     /\ PointAt(points, t).v = reported[n][t]
      BY DEF CurvesAreTrue
    <2>1. RangeFor.hasData
      BY DEF PolylineFor
    <2>. QED  BY <2>1, RangeFits, CurveRuns, CurveTells
  <1>. QED  BY <1>1, TrendInitInv, TrendStepKeepsInv, PTL DEF TrendSpec

-----------------------------------------------------------------------------
(* The table: removeNodes() takes the rows from the last on.                *)

(* removeNodes() as it goes through the places of the table from the last on.     *)
GoneThrough(g, is, n, rest) ==
  rest = [k \in 0..n |->
           IF k = 0 THEN g
           ELSE LET i == Len(g) - k + 1
                IN IF i \in is THEN RemoveAt(rest[k - 1], i) ELSE rest[k - 1]]

LEMMA FirstNumber ==
  ASSUME NEW D, D \subseteq Nat, D # {}
  PROVE  \E i \in D : \A j \in D : i <= j
  <1>. DEFINE R == OpToRel(<, Nat)
  <1>1. \A x, y \in Nat : <<y, x>> \in R <=> y < x
    BY DEF OpToRel
  <1>2. IsWellFoundedOn(R, Nat)
    BY NatLessThanWellFounded
  <1>. HIDE DEF R
  <1>3. PICK x \in D : \A y \in D : ~(<<y, x>> \in R)
    BY <1>2, WFMin
  <1>4. \A y \in D : ~(y < x)
    BY <1>1, <1>3
  <1>. QED  BY <1>4

LEMMA GoneAt ==
  ASSUME NEW g, NEW is, NEW n \in Nat, NEW rest, GoneThrough(g, is, n, rest), NEW k \in 1..n
  PROVE  rest[k] = IF Len(g) - k + 1 \in is THEN RemoveAt(rest[k - 1], Len(g) - k + 1)
                   ELSE rest[k - 1]
  <1>1. k \in 0..n /\ k # 0
    OBVIOUS
  <1>. QED  BY <1>1, Zenon DEF GoneThrough

LEMMA GoneFurther ==
  ASSUME NEW g, NEW is, NEW n \in Nat, NEW rest, GoneThrough(g, is, n, rest)
  PROVE  \E next : GoneThrough(g, is, n + 1, next)
  <1>. DEFINE Without(r, k) == IF Len(g) - k + 1 \in is THEN RemoveAt(r, Len(g) - k + 1) ELSE r
              next == [k \in 0..n + 1 |-> IF k = n + 1 THEN Without(rest[n], k) ELSE rest[k]]
              body(k) == IF k = 0 THEN g ELSE Without(next[k - 1], k)
  <1>1. ASSUME NEW k \in 0..n + 1 PROVE next[k] = body(k)
    <2>1. CASE k = n + 1
      <3>1. next[k] = Without(rest[n], k) /\ next[k - 1] = rest[n]
        BY <2>1
      <3>. QED  BY <2>1, <3>1
    <2>2. CASE k \in 1..n
      <3>1. next[k] = rest[k] /\ next[k - 1] = rest[k - 1]
        BY <2>2
      <3>2. rest[k] = Without(rest[k - 1], k)
        BY <2>2, GoneAt
      <3>. QED  BY <2>2, <3>1, <3>2
    <2>3. CASE k = 0
      <3>1. next[k] = rest[0] /\ rest[0] = g
        BY <2>3 DEF GoneThrough
      <3>. QED  BY <2>3, <3>1
    <2>. QED  BY <2>1, <2>2, <2>3
  <1>2. next = [k \in 0..n + 1 |-> body(k)]
    BY <1>1
  <1>. HIDE DEF next
  <1>3. GoneThrough(g, is, n + 1, next)
    BY <1>2 DEF GoneThrough
  <1>. QED  BY <1>3

LEMMA GoneExists ==
  ASSUME NEW g, NEW is, NEW n \in Nat
  PROVE  \E rest : GoneThrough(g, is, n, rest)
  <1>. DEFINE D == {m \in Nat : ~ \E rest : GoneThrough(g, is, m, rest)}
  <1>1. SUFFICES ASSUME D # {} PROVE FALSE
    OBVIOUS
  <1>2. PICK m \in D : \A j \in D : m <= j
    BY <1>1, FirstNumber
  <1>3. CASE m = 0
    <2>1. GoneThrough(g, is, 0, [k \in 0..0 |-> g])
      BY DEF GoneThrough
    <2>. QED  BY <1>2, <1>3, <2>1
  <1>4. CASE m # 0
    <2>1. m - 1 \in Nat /\ m - 1 \notin D
      BY <1>2, <1>4
    <2>2. PICK rest : GoneThrough(g, is, m - 1, rest)
      BY <2>1
    <2>3. (m - 1) + 1 = m
      BY <1>2
    <2>4. \E next : GoneThrough(g, is, m, next)
      BY <2>1, <2>2, <2>3, GoneFurther
    <2>. QED  BY <1>2, <2>4
  <1>. QED  BY <1>3, <1>4

LEMMA RemovedByPlace ==
  ASSUME NEW g, NEW is, Len(g) \in Nat
  PROVE  \E rest : GoneThrough(g, is, Len(g), rest) /\ RemoveAll(g, is) = rest[Len(g)]
  <1>. DEFINE f == CHOOSE rest : GoneThrough(g, is, Len(g), rest)
  <1>1. GoneThrough(g, is, Len(g), f)
    BY GoneExists
  <1>2. RemoveAll(g, is) = f[Len(g)]
    BY DEF RemoveAll, GoneThrough
  <1>. HIDE DEF f
  <1>. QED  BY <1>1, <1>2

(* After k places the rows before them are untouched and stand first.          *)
ShortSoFar(g, is, r, n) ==
  /\ \E S : r \in Seq(S)
  /\ \E place \in [1..Len(r) -> 1..Len(g)] :
       /\ n <= Len(r)
       /\ \A m \in 1..n : place[m] = m
       /\ \A m \in 1..Len(r) : place[m] <= n \/ place[m] \notin is
       /\ \A p \in 1..Len(g) : p <= n \/ p \notin is => \E m \in 1..Len(r) : place[m] = p
       /\ \A m, l \in 1..Len(r) : m < l => place[m] < place[l]
       /\ \A m \in 1..Len(r) : r[m] = g[place[m]]

LEMMA ShortStep ==
  ASSUME NEW g, NEW is, NEW S, g \in Seq(S), NEW r, NEW n \in 1..Len(g),
         ShortSoFar(g, is, r, n)
  PROVE  ShortSoFar(g, is, IF n \in is THEN RemoveAt(r, n) ELSE r, n - 1)
  <1>1. PICK R : r \in Seq(R)
    BY DEF ShortSoFar
  <1>2. PICK place \in [1..Len(r) -> 1..Len(g)] :
       /\ n <= Len(r)
       /\ \A m \in 1..n : place[m] = m
       /\ \A m \in 1..Len(r) : place[m] <= n \/ place[m] \notin is
       /\ \A p \in 1..Len(g) : p <= n \/ p \notin is => \E m \in 1..Len(r) : place[m] = p
       /\ \A m, l \in 1..Len(r) : m < l => place[m] < place[l]
       /\ \A m \in 1..Len(r) : r[m] = g[place[m]]
    BY DEF ShortSoFar
  <1>3. Len(r) \in Nat /\ Len(g) \in Nat /\ n \in Nat /\ n >= 1
    BY <1>1
  <1>4. CASE n \notin is
    <2>1. \A m \in 1..n - 1 : place[m] = m
      BY <1>2, <1>3
    <2>2. \A m \in 1..Len(r) : place[m] <= n - 1 \/ place[m] \notin is
      <3>1. SUFFICES ASSUME NEW m \in 1..Len(r), place[m] \in is PROVE place[m] <= n - 1
        OBVIOUS
      <3>2. place[m] <= n /\ place[m] # n /\ place[m] \in Nat
        BY <1>2, <1>3, <1>4, <3>1
      <3>. QED  BY <1>3, <3>2
    <2>3. \A p \in 1..Len(g) : p <= n - 1 \/ p \notin is => \E m \in 1..Len(r) : place[m] = p
      BY <1>2, <1>3
    <2>4. n - 1 <= Len(r)
      BY <1>2, <1>3
    <2>5. \E q \in [1..Len(r) -> 1..Len(g)] :
            /\ n - 1 <= Len(r)
            /\ \A m \in 1..n - 1 : q[m] = m
            /\ \A m \in 1..Len(r) : q[m] <= n - 1 \/ q[m] \notin is
            /\ \A p \in 1..Len(g) : p <= n - 1 \/ p \notin is => \E m \in 1..Len(r) : q[m] = p
            /\ \A m, l \in 1..Len(r) : m < l => q[m] < q[l]
            /\ \A m \in 1..Len(r) : r[m] = g[q[m]]
      BY <1>2, <2>1, <2>2, <2>3, <2>4, Zenon
    <2>. QED  BY <1>1, <1>4, <2>5, ZenonT(40) DEF ShortSoFar
  <1>5. CASE n \in is
    <2>. DEFINE t == RemoveAt(r, n)
                q == [m \in 1..Len(r) - 1 |-> IF m < n THEN place[m] ELSE place[m + 1]]
    <2>1. t \in Seq(R) /\ Len(t) = Len(r) - 1
          /\ \A m \in 1..Len(r) - 1 : t[m] = IF m < n THEN r[m] ELSE r[m + 1]
      <3>1. /\ SubSeq(r, 1, n - 1) \in Seq(R) /\ SubSeq(r, n + 1, Len(r)) \in Seq(R)
            /\ Len(SubSeq(r, 1, n - 1)) = n - 1 /\ Len(SubSeq(r, n + 1, Len(r))) = Len(r) - n
            /\ \A m \in 1..n - 1 : SubSeq(r, 1, n - 1)[m] = r[m]
            /\ \A m \in 1..Len(r) - n : SubSeq(r, n + 1, Len(r))[m] = r[n + m]
        BY <1>1, <1>2, <1>3
      <3>. DEFINE a == SubSeq(r, 1, n - 1)
                  b == SubSeq(r, n + 1, Len(r))
      <3>2. t = a \o b
        BY DEF RemoveAt
      <3>. HIDE DEF a, b, t
      <3>3. a \in Seq(R) /\ b \in Seq(R) /\ Len(a) = n - 1 /\ Len(b) = Len(r) - n
            /\ (\A m \in 1..n - 1 : a[m] = r[m]) /\ \A m \in 1..Len(r) - n : b[m] = r[n + m]
        BY <3>1 DEF a, b
      <3>4. t \in Seq(R) /\ Len(t) = Len(r) - 1
        BY <1>3, <3>2, <3>3
      <3>5. ASSUME NEW m \in 1..Len(r) - 1 PROVE t[m] = IF m < n THEN r[m] ELSE r[m + 1]
        <4>1. CASE m < n
          BY <1>3, <3>2, <3>3, <4>1
        <4>2. CASE ~(m < n)
          <5>1. m - (n - 1) \in 1..Len(r) - n /\ n + (m - (n - 1)) = m + 1
            BY <1>3, <4>2
          <5>2. t[m] = b[m - (n - 1)]
            BY <1>3, <3>2, <3>3, <4>2, <5>1
          <5>. QED  BY <3>3, <4>2, <5>1, <5>2
        <4>. QED  BY <4>1, <4>2
      <3>. QED  BY <3>4, <3>5
    <2>. HIDE DEF t
    <2>2. \A m \in 1..Len(r) - 1 : m \in 1..Len(r) /\ m + 1 \in 1..Len(r)
      BY <1>3
    <2>3. q \in [1..Len(t) -> 1..Len(g)]
      BY <1>2, <2>1, <2>2
    <2>4. \A m \in 1..Len(t) : q[m] = IF m < n THEN place[m] ELSE place[m + 1]
      BY <2>1
    <2>. HIDE DEF q
    <2>5. n - 1 <= Len(t) /\ \A m \in 1..n - 1 : q[m] = m
      BY <1>2, <1>3, <2>1, <2>4
    <2>6. ASSUME NEW m \in 1..Len(t) PROVE q[m] <= n - 1 \/ q[m] \notin is
      <3>1. CASE m < n
        BY <1>2, <1>3, <2>4, <3>1
      <3>2. CASE ~(m < n)
        <4>1. m + 1 \in 1..Len(r) /\ n \in 1..Len(r) /\ n < m + 1 /\ n \in 1..n
          BY <1>2, <1>3, <2>1, <3>2
        <4>2. place[n] = n /\ place[n] < place[m + 1] /\ place[m + 1] \in Nat
          BY <1>2, <4>1
        <4>3. ~(place[m + 1] <= n)
          BY <1>3, <4>2
        <4>. QED  BY <1>2, <2>4, <3>2, <4>1, <4>3
      <3>. QED  BY <3>1, <3>2
    <2>7. ASSUME NEW p \in 1..Len(g), p <= n - 1 \/ p \notin is
          PROVE  \E m \in 1..Len(t) : q[m] = p
      <3>1. p # n /\ (p <= n \/ p \notin is)
        BY <1>3, <1>5, <2>7
      <3>2. PICK m \in 1..Len(r) : place[m] = p
        BY <1>2, <3>1
      <3>3. m # n
        BY <1>2, <1>3, <3>1, <3>2
      <3>4. CASE m < n
        <4>1. m \in 1..Len(t)
          BY <1>2, <1>3, <2>1, <3>4
        <4>. QED  BY <2>4, <3>2, <3>4, <4>1
      <3>5. CASE m > n
        <4>1. m - 1 \in 1..Len(t) /\ ~(m - 1 < n) /\ (m - 1) + 1 = m
          BY <1>2, <1>3, <2>1, <3>5
        <4>2. q[m - 1] = place[m]
          BY <2>4, <4>1
        <4>. QED  BY <3>2, <4>1, <4>2
      <3>. QED  BY <1>3, <3>3, <3>4, <3>5
    <2>8. ASSUME NEW m \in 1..Len(t), NEW l \in 1..Len(t), m < l PROVE q[m] < q[l]
      <3>1. m \in 1..Len(r) /\ l \in 1..Len(r) /\ m + 1 \in 1..Len(r) /\ l + 1 \in 1..Len(r)
        BY <2>1, <2>2
      <3>2. (m < l + 1) /\ (m + 1 < l + 1)
        BY <2>8
      <3>3. place[m] < place[l] /\ place[m] < place[l + 1] /\ place[m + 1] < place[l + 1]
        BY <1>2, <2>8, <3>1, <3>2
      <3>4. l < n => m < n
        BY <1>3, <2>8
      <3>. QED  BY <2>4, <3>3, <3>4
    <2>9. ASSUME NEW m \in 1..Len(t) PROVE t[m] = g[q[m]]
      <3>1. m \in 1..Len(r) - 1 /\ m \in 1..Len(r) /\ m + 1 \in 1..Len(r)
        BY <2>1, <2>2
      <3>. QED  BY <1>2, <2>1, <2>4, <3>1
    <2>10. ShortSoFar(g, is, t, n - 1)
      BY <2>1, <2>3, <2>5, <2>6, <2>7, <2>8, <2>9, Zenon DEF ShortSoFar
    <2>. QED  BY <1>5, <2>10 DEF t
  <1>. QED  BY <1>4, <1>5

LEMMA RemovedAreShort ==
  ASSUME NEW g, NEW S, g \in Seq(S), NEW is
  PROVE  /\ Shortened(g, RemoveAll(g, is), DOMAIN g \ is)
         /\ \E R : RemoveAll(g, is) \in Seq(R)
  <1>. DEFINE n == Len(g)
  <1>1. n \in Nat /\ DOMAIN g = 1..n
    OBVIOUS
  <1>2. PICK rest : GoneThrough(g, is, n, rest) /\ RemoveAll(g, is) = rest[n]
    BY <1>1, RemovedByPlace
  <1>. DEFINE D == {k \in 0..n : ~ShortSoFar(g, is, rest[k], n - k)}
  <1>. HIDE DEF n
  <1>3. D = {}
    <2>1. SUFFICES ASSUME D # {} PROVE FALSE
      OBVIOUS
    <2>0. D \subseteq Nat
      BY <1>1
    <2>2. PICK k \in D : \A j \in D : k <= j
      BY <2>0, <2>1, FirstNumber
    <2>3. CASE k = 0
      <3>1. rest[0] = g
        BY <1>1, <1>2 DEF GoneThrough
      <3>. DEFINE same == [m \in 1..n |-> m]
      <3>2. /\ same \in [1..n -> 1..n] /\ \A m \in 1..n : same[m] = m
        OBVIOUS
      <3>. HIDE DEF same
      <3>3. /\ n <= n /\ (\A m \in 1..n : same[m] <= n)
            /\ \A p \in 1..n : \E m \in 1..n : same[m] = p
            /\ \A m, l \in 1..n : m < l => same[m] < same[l]
            /\ \A m \in 1..n : g[m] = g[same[m]]
        BY <1>1, <3>2
      <3>4. ShortSoFar(g, is, g, n)
        BY <3>2, <3>3, Zenon DEF ShortSoFar, n
      <3>5. n - 0 = n
        BY <1>1
      <3>. QED  BY <2>2, <2>3, <3>1, <3>4, <3>5
    <2>4. CASE k # 0
      <3>1. k \in 1..n /\ k - 1 \in 0..n /\ k - 1 \notin D
        BY <1>1, <2>2, <2>4
      <3>. DEFINE i == n - k + 1
      <3>2. i \in 1..n /\ n - (k - 1) = i /\ i - 1 = n - k
        BY <1>1, <3>1
      <3>3. ShortSoFar(g, is, rest[k - 1], i)
        BY <3>1, <3>2
      <3>4. rest[k] = IF i \in is THEN RemoveAt(rest[k - 1], i) ELSE rest[k - 1]
        BY <1>1, <1>2, <3>1, GoneAt DEF n
      <3>. HIDE DEF i
      <3>5. ShortSoFar(g, is, rest[k], i - 1)
        BY <3>2, <3>3, <3>4, ShortStep DEF n
      <3>. QED  BY <2>2, <3>2, <3>5
    <2>. QED  BY <2>3, <2>4
  <1>4. ShortSoFar(g, is, RemoveAll(g, is), 0)
    <2>1. n \in 0..n /\ n - n = 0
      BY <1>1
    <2>. QED  BY <1>2, <1>3, <2>1
  <1>. DEFINE r == RemoveAll(g, is)
  <1>. HIDE DEF r
  <1>5. ShortSoFar(g, is, r, 0)
    BY <1>4 DEF r
  <1>6. PICK R : r \in Seq(R)
    BY <1>5 DEF ShortSoFar
  <1>7. PICK place \in [1..Len(r) -> 1..n] :
       /\ \A m \in 1..Len(r) : place[m] <= 0 \/ place[m] \notin is
       /\ \A p \in 1..n : p <= 0 \/ p \notin is => \E m \in 1..Len(r) : place[m] = p
       /\ \A m, l \in 1..Len(r) : m < l => place[m] < place[l]
       /\ \A m \in 1..Len(r) : r[m] = g[place[m]]
    BY <1>5 DEF ShortSoFar, n
  <1>8. DOMAIN r = 1..Len(r)
    BY <1>6
  <1>9. \A m \in 1..Len(r) : place[m] \in (1..n) \ is
    BY <1>1, <1>7
  <1>10. place \in [DOMAIN r -> DOMAIN g \ is]
    BY <1>1, <1>7, <1>8, <1>9
  <1>. QED  BY <1>1, <1>6, <1>7, <1>8, <1>10, ZenonT(40) DEF Shortened, r

-----------------------------------------------------------------------------
(* The table's rows, what is shown of them, and the open editor.            *)

GridRows == [node : GridNodes, value : Values \cup {NoValue}, interval : Periods \cup {0},
             access : AccessLevels \cup {"unknown"}]

(* What the handlers rely on: a node has one row, what is shown is there, and an   *)
(* open editor's row is still the one it was opened for.                       *)
RowsOk == /\ grid \in Seq(GridRows)
          /\ \A i, j \in DOMAIN grid : grid[i].node = grid[j].node => i = j
ViewOk == \A k \in DOMAIN view : view[k] \in DOMAIN grid
EditorOk ==
  editor # NoEdit =>
    /\ editor = [kind |-> editor.kind, row |-> editor.row, node |-> editor.node]
    /\ editor.row \in DOMAIN grid
    /\ editor.node = grid[editor.row].node
GridInv == RowsOk /\ ViewOk /\ EditorOk

LEMMA ArrangedAreThere ==
  ASSUME NEW g, NEW s, NEW v \in Arrangements(g, s)
  PROVE  \A k \in DOMAIN v : v[k] \in DOMAIN g
  <1>1. v \in SetToSeqs(Accepted(g, s))
    BY DEF Arrangements
  <1>2. \A k \in DOMAIN v : v[k] \in Accepted(g, s)
    BY <1>1 DEF SetToSeqs
  <1>. QED  BY <1>2 DEF Accepted

LEMMA ShownAreThere ==
  ASSUME NEW g, NEW s, NEW old, NEW touched, NEW v,
         v \in Follow(g, s, old, touched) \/ v \in Sorted(g, s)
  PROVE  \A k \in DOMAIN v : v[k] \in DOMAIN g
  <1>1. v \in Arrangements(g, s)
    BY DEF Follow, Sorted
  <1>. QED  BY <1>1, ArrangedAreThere

(* A step that leaves every row its place and its interval.                   *)
SameRows(g) == /\ g \in Seq(GridRows) /\ DOMAIN g = DOMAIN grid
               /\ \A i \in DOMAIN grid : g[i].node = grid[i].node

LEMMA OneRowChanged ==
  ASSUME RowsOk, NEW i, NEW row, i \in DOMAIN grid => row \in GridRows /\ row.node = grid[i].node
  PROVE  SameRows([grid EXCEPT ![i] = row])
  <1>. DEFINE g == [grid EXCEPT ![i] = row]
  <1>1. Len(grid) \in Nat /\ DOMAIN grid = 1..Len(grid) /\ DOMAIN g = DOMAIN grid
    BY DEF RowsOk
  <1>2. \A j \in DOMAIN grid : g[j] = IF j = i THEN row ELSE grid[j]
    BY <1>1
  <1>3. \A j \in DOMAIN grid : grid[j] \in GridRows
    BY DEF RowsOk
  <1>. HIDE DEF g
  <1>4. g = [j \in 1..Len(grid) |-> g[j]]
    BY <1>1, <1>2, Zenon DEF g
  <1>5. \A j \in 1..Len(grid) : g[j] \in GridRows
    BY <1>1, <1>2, <1>3
  <1>6. g \in Seq(GridRows)
    BY <1>1, <1>4, <1>5
  <1>. QED  BY <1>1, <1>2, <1>6 DEF SameRows, g

LEMMA ViewStays ==
  ASSUME NEW g, NEW s, NEW views, Shows(g, s, views), NEW old, NEW touched,
         views = Follow(g, s, old, touched) \/ views = Sorted(g, s)
  PROVE  ViewOk'
  <1>1. grid' = g /\ view' \in views
    BY DEF Shows
  <1>. QED  BY <1>1, ShownAreThere DEF ViewOk

LEMMA RowEdited ==
  ASSUME GridInv, NEW i, NEW row, Changed(i, row),
         i \in DOMAIN grid => row \in GridRows /\ row.node = grid[i].node
  PROVE  RowsOk' /\ ViewOk' /\ SameRows(grid') /\ grid' = [grid EXCEPT ![i] = row]
  <1>. DEFINE g == [grid EXCEPT ![i] = row]
  <1>1. SameRows(g)
    BY OneRowChanged DEF GridInv
  <1>2. grid' = g /\ ViewOk'
    BY ViewStays DEF Changed, Shows
  <1>3. RowsOk'
    BY <1>1, <1>2 DEF SameRows, RowsOk, GridInv
  <1>. QED  BY <1>1, <1>2, <1>3

LEMMA EditorStays ==
  ASSUME GridInv, SameRows(grid'), editor' \in {editor, NoEdit}
  PROVE  EditorOk'
  BY DEF GridInv, EditorOk, SameRows

(* What the property asks of a step besides a removal.                        *)
AsMeant(s, g) ==
  /\ s # NoEdit => grid[s.row].node = editor.node /\ grid[s.row].access # "readOnly"
  /\ \A i \in DOMAIN grid \cap DOMAIN g :
       grid[i].node = g[i].node /\ grid[i].interval # g[i].interval =>
         editor.node = grid[i].node \/ Idle

LEMMA UpdateValueKeeps ==
  ASSUME GridInv, NEW n, NEW x \in Values, UpdateValue(n, x)
  PROVE  GridInv' /\ AsMeant(sent', grid')
  <1>1. PICK i : /\ i = IndexForNodeId(n) /\ Changed(i, [grid[i] EXCEPT !.value = x])
    BY DEF UpdateValue
  <1>2. editor' = editor /\ sent' = NoEdit
    BY DEF UpdateValue, Quiet
  <1>. DEFINE row == [grid[i] EXCEPT !.value = x]
  <1>3. i \in DOMAIN grid => row \in GridRows /\ row.node = grid[i].node
                             /\ row.interval = grid[i].interval
    <2>1. SUFFICES ASSUME i \in DOMAIN grid
                   PROVE row \in GridRows /\ row.node = grid[i].node
                         /\ row.interval = grid[i].interval
      OBVIOUS
    <2>2. grid[i] \in GridRows
      BY <2>1 DEF GridInv, RowsOk
    <2>. QED  BY <2>2 DEF GridRows
  <1>. HIDE DEF row
  <1>4. Changed(i, row)
    BY <1>1 DEF row
  <1>5. RowsOk' /\ ViewOk' /\ SameRows(grid') /\ grid' = [grid EXCEPT ![i] = row]
    BY <1>3, <1>4, RowEdited
  <1>6. EditorOk'
    BY <1>2, <1>5, EditorStays
  <1>7. \A j \in DOMAIN grid : grid'[j].interval = grid[j].interval
    BY <1>3, <1>5
  <1>. QED  BY <1>2, <1>5, <1>6, <1>7 DEF GridInv, AsMeant

LEMMA ClearValuesKeeps ==
  ASSUME GridInv, ClearValues
  PROVE  GridInv' /\ AsMeant(sent', grid')
  <1>. DEFINE g == [i \in DOMAIN grid |-> [grid[i] EXCEPT !.value = NoValue]]
  <1>1. Shows(g, sorting, Follow(g, sorting, view, DOMAIN g)) /\ editor' = editor /\ sent' = NoEdit
    BY DEF ClearValues, Quiet
  <1>2. Len(grid) \in Nat /\ DOMAIN grid = 1..Len(grid) /\ \A i \in DOMAIN grid : grid[i] \in GridRows
    BY DEF GridInv, RowsOk
  <1>3. \A i \in DOMAIN grid : /\ g[i] \in GridRows /\ g[i].node = grid[i].node
                               /\ g[i].interval = grid[i].interval
    BY <1>2 DEF GridRows
  <1>4. DOMAIN g = 1..Len(grid) /\ g = [i \in 1..Len(grid) |-> g[i]]
    BY <1>2
  <1>. HIDE DEF g
  <1>5. g \in Seq(GridRows)
    BY <1>2, <1>3, <1>4
  <1>6. SameRows(g)
    BY <1>2, <1>3, <1>4, <1>5 DEF SameRows
  <1>7. grid' = g
    BY <1>1 DEF Shows
  <1>8. ViewOk'
    BY <1>1, ViewStays
  <1>9. RowsOk' /\ EditorOk'
    BY <1>1, <1>6, <1>7, EditorStays DEF SameRows, RowsOk, GridInv
  <1>. QED  BY <1>1, <1>3, <1>7, <1>8, <1>9 DEF GridInv, AsMeant

LEMMA AccessKeeps ==
  ASSUME GridInv, NEW n, NEW access \in AccessLevels, SetAccessLevelForNode(n, access)
  PROVE  GridInv' /\ AsMeant(sent', grid')
  <1>1. PICK i : i = IndexForNodeId(n) /\ grid' = [grid EXCEPT ![i].access = access]
    BY DEF SetAccessLevelForNode
  <1>2. editor' = editor /\ sent' = NoEdit /\ view' = view
    BY DEF SetAccessLevelForNode, Quiet
  <1>. DEFINE row == [grid[i] EXCEPT !.access = access]
  <1>3. i \in DOMAIN grid => row \in GridRows /\ row.node = grid[i].node
                             /\ row.interval = grid[i].interval
    <2>1. SUFFICES ASSUME i \in DOMAIN grid
                   PROVE row \in GridRows /\ row.node = grid[i].node
                         /\ row.interval = grid[i].interval
      OBVIOUS
    <2>2. grid[i] \in GridRows
      BY <2>1 DEF GridInv, RowsOk
    <2>. QED  BY <2>2 DEF GridRows
  <1>4. grid' = [grid EXCEPT ![i] = row]
    BY <1>1
  <1>. HIDE DEF row
  <1>5. SameRows(grid')
    BY <1>3, <1>4, OneRowChanged DEF GridInv
  <1>6. RowsOk' /\ ViewOk' /\ EditorOk'
    BY <1>2, <1>5, EditorStays DEF SameRows, RowsOk, GridInv, ViewOk
  <1>7. \A j \in DOMAIN grid : grid'[j].interval = grid[j].interval
    BY <1>3, <1>4
  <1>. QED  BY <1>2, <1>6, <1>7 DEF GridInv, AsMeant

-----------------------------------------------------------------------------
(* Every step of the table.                                                 *)

LEMMA NothingMeant ==
  ASSUME sent' = NoEdit, Idle \/ grid' = grid
  PROVE  AsMeant(sent', grid')
  BY DEF AsMeant

LEMMA NoEditorOpen == ASSUME editor' = NoEdit PROVE EditorOk'
  BY DEF EditorOk

LEMMA NewRow == ASSUME NEW n \in GridNodes PROVE GridRow(n) \in GridRows /\ GridRow(n).node = n
  BY DEF GridRow, GridRows

LEMMA AddRowKeeps ==
  ASSUME GridInv, NEW n \in GridNodes, AddRow(n)
  PROVE  GridInv' /\ AsMeant(sent', grid')
  <1>. DEFINE g == Append(grid, GridRow(n))
  <1>1. Shows(g, sorting, Follow(g, sorting, view, {Len(g)})) /\ Idle /\ sent' = NoEdit
        /\ editor' = editor
    BY DEF AddRow, Quiet
  <1>2. /\ Len(grid) \in Nat /\ DOMAIN grid = 1..Len(grid) /\ grid \in Seq(GridRows)
        /\ GridRow(n) \in GridRows /\ GridRow(n).node = n
        /\ \A i \in DOMAIN grid : grid[i].node # n
    BY NewRow DEF GridInv, RowsOk, AddRow
  <1>3. /\ g \in Seq(GridRows) /\ DOMAIN g = 1..Len(grid) + 1 /\ g[Len(grid) + 1] = GridRow(n)
        /\ \A i \in 1..Len(grid) : g[i] = grid[i]
    BY <1>2
  <1>4. grid' = g /\ ViewOk'
    BY <1>1, ViewStays DEF Shows
  <1>. HIDE DEF g
  <1>5. ASSUME NEW i \in DOMAIN g, NEW j \in DOMAIN g, g[i].node = g[j].node PROVE i = j
    <2>1. CASE i \in 1..Len(grid) /\ j \in 1..Len(grid)
      BY <1>2, <1>3, <1>5, <2>1 DEF GridInv, RowsOk
    <2>2. CASE i \notin 1..Len(grid) /\ j \notin 1..Len(grid)
      BY <1>2, <1>3, <2>2
    <2>3. CASE i \notin 1..Len(grid) /\ j \in 1..Len(grid)
      <3>1. g[i].node = n /\ g[j].node # n
        BY <1>2, <1>3, <2>3
      <3>. QED  BY <1>5, <3>1
    <2>4. CASE i \in 1..Len(grid) /\ j \notin 1..Len(grid)
      <3>1. g[j].node = n /\ g[i].node # n
        BY <1>2, <1>3, <2>4
      <3>. QED  BY <1>5, <3>1
    <2>. QED  BY <2>1, <2>2, <2>3, <2>4
  <1>6. RowsOk'
    BY <1>3, <1>4, <1>5 DEF RowsOk
  <1>7. EditorOk'
    BY <1>1, NoEditorOpen DEF Idle
  <1>. QED  BY <1>1, <1>4, <1>6, <1>7, NothingMeant DEF GridInv

(* setRecords() gives each node of the project one row.                        *)
LEMMA ListedOnce ==
  /\ SetToSeq(GridNodes) \in [1..Cardinality(GridNodes) -> GridNodes]
  /\ \A i, j \in 1..Cardinality(GridNodes) :
       SetToSeq(GridNodes)[i] = SetToSeq(GridNodes)[j] => i = j
  <1>. DEFINE n == Cardinality(GridNodes)
  <1>1. IsFiniteSet(GridNodes)
    BY GridAssumption
  <1>2. n \in Nat /\ ExistsBijection(1..n, GridNodes)
    BY <1>1, FS_CardinalityType
  <1>3. PICK f \in Bijection(1..n, GridNodes) : TRUE
    BY <1>2 DEF ExistsBijection
  <1>4. f \in [1..n -> GridNodes] /\ \A i, j \in DOMAIN f : f[i] = f[j] => i = j
    BY <1>3 DEF Bijection, Injection, IsInjective
  <1>5. SetToSeq(GridNodes) \in [1..n -> GridNodes] /\ IsInjective(SetToSeq(GridNodes))
    BY <1>4 DEF SetToSeq, IsInjective
  <1>. HIDE DEF n
  <1>6. DOMAIN SetToSeq(GridNodes) = 1..n
    BY <1>5
  <1>7. \A i, j \in 1..n : SetToSeq(GridNodes)[i] = SetToSeq(GridNodes)[j] => i = j
    BY <1>5, <1>6 DEF IsInjective
  <1>. QED  BY <1>5, <1>7 DEF n

LEMMA SetRecordsKeeps ==
  ASSUME GridInv, SetRecords(<<>>)
                  \/ SetRecords([i \in 1..Cardinality(GridNodes) |-> GridRow(SetToSeq(GridNodes)[i])])
  PROVE  GridInv' /\ AsMeant(sent', grid')
  <1>. DEFINE n == Cardinality(GridNodes)
              list == SetToSeq(GridNodes)
              g == [i \in 1..n |-> GridRow(list[i])]
  <1>1. ASSUME NEW h, SetRecords(h) PROVE /\ Idle /\ sent' = NoEdit /\ editor' = editor /\ grid' = h
                                          /\ view' \in Sorted(h, sorting)
    BY <1>1 DEF SetRecords, Quiet
  <1>2. n \in Nat
    BY GridAssumption, FS_CardinalityType
  <1>3. list \in [1..n -> GridNodes] /\ \A i, j \in 1..n : list[i] = list[j] => i = j
    BY ListedOnce
  <1>. HIDE DEF list, n
  <1>4. \A i \in 1..n : GridRow(list[i]) \in GridRows /\ GridRow(list[i]).node = list[i]
    BY <1>3, NewRow
  <1>5. /\ DOMAIN g = 1..n
        /\ \A i \in 1..n : g[i] = GridRow(list[i])
    OBVIOUS
  <1>6. g \in Seq(GridRows)
    BY <1>2, <1>4
  <1>7. grid' = <<>> \/ grid' = g
    BY <1>1, Zenon DEF n, list
  <1>8. \A i, j \in DOMAIN g : g[i].node = g[j].node => i = j
    BY <1>3, <1>4, <1>5
  <1>. HIDE DEF g
  <1>9. RowsOk'
    <2>1. CASE grid' = <<>>
      BY <2>1 DEF RowsOk
    <2>2. CASE grid' = g
      BY <1>6, <1>8, <2>2 DEF RowsOk
    <2>. QED  BY <1>7, <2>1, <2>2
  <1>10. Idle /\ sent' = NoEdit /\ editor' = editor /\ view' \in Sorted(grid', sorting)
    BY <1>1
  <1>11. ViewOk'
    BY <1>10, ShownAreThere DEF ViewOk
  <1>12. EditorOk'
    BY <1>10, NoEditorOpen DEF Idle
  <1>. QED  BY <1>9, <1>10, <1>11, <1>12, NothingMeant DEF GridInv

LEMMA SameGridKeeps ==
  ASSUME GridInv, grid' = grid, sent' = NoEdit, ViewOk', editor' = editor \/ EditorOk'
  PROVE  GridInv' /\ AsMeant(sent', grid')
  <1>1. RowsOk'
    BY DEF GridInv, RowsOk
  <1>2. EditorOk'
    BY DEF GridInv, EditorOk
  <1>. QED  BY <1>1, <1>2, NothingMeant DEF GridInv

LEMMA ToggleSortKeeps ==
  ASSUME GridInv, NEW col, ToggleSort(col)
  PROVE  GridInv' /\ AsMeant(sent', grid')
  <1>1. sent' = NoEdit /\ editor' = editor
    BY DEF ToggleSort, Quiet
  <1>2. ASSUME NEW c, NEW desc, ApplySort(c, desc) PROVE grid' = grid /\ ViewOk'
    <2>. DEFINE s == [sorting EXCEPT !.col = c, !.desc = desc]
    <2>1. CASE s = sorting
      BY <1>2, <2>1 DEF ApplySort, GridInv, ViewOk
    <2>2. CASE s # sorting
      <3>1. Shows(grid, s, Sorted(grid, s))
        BY <1>2, <2>2 DEF ApplySort
      <3>. QED  BY <3>1, ViewStays DEF Shows
    <2>. QED  BY <2>1, <2>2
  <1>3. ApplySort(col, FALSE) \/ ApplySort(col, TRUE) \/ ApplySort(NoColumn, FALSE)
    BY DEF ToggleSort
  <1>. QED  BY <1>1, <1>2, <1>3, SameGridKeeps

LEMMA SetFilterTextKeeps ==
  ASSUME GridInv, NEW f, SetFilterText(f)
  PROVE  GridInv' /\ AsMeant(sent', grid')
  <1>. DEFINE s == [sorting EXCEPT !.filter = f]
  <1>1. sent' = NoEdit /\ editor' = editor /\ Shows(grid, s, Follow(grid, s, view, {}))
    BY DEF SetFilterText, Quiet
  <1>2. grid' = grid /\ ViewOk'
    BY <1>1, ViewStays DEF Shows
  <1>. QED  BY <1>1, <1>2, SameGridKeeps

LEMMA SelectingKeeps ==
  ASSUME GridInv, (\E is : Select(is)) \/ (\E k : OpenMenu(k)) \/ CloseMenu \/ CancelEdit
  PROVE  GridInv' /\ AsMeant(sent', grid')
  <1>1. sent' = NoEdit /\ grid' = grid /\ view' = view /\ editor' \in {editor, NoEdit}
    BY DEF Select, OpenMenu, CloseMenu, CancelEdit, Quiet
  <1>2. ViewOk' /\ (editor' = editor \/ EditorOk')
    BY <1>1, NoEditorOpen DEF GridInv, ViewOk
  <1>. QED  BY <1>1, <1>2, SameGridKeeps

LEMMA EditKeeps ==
  ASSUME GridInv, NEW kind, NEW k, Edit(kind, k)
  PROVE  GridInv' /\ AsMeant(sent', grid')
  <1>. DEFINE row == ToSourceRow(k)
  <1>1. sent' = NoEdit /\ grid' = grid /\ view' = view
        /\ editor' = IF row = 0 \/ (kind = "value" /\ grid[row].access = "readOnly") THEN NoEdit
                     ELSE [kind |-> kind, row |-> row, node |-> grid[row].node]
    BY DEF Edit, Edits, Quiet
  <1>2. row # 0 => row \in DOMAIN grid
    BY DEF ToSourceRow, GridInv, ViewOk
  <1>. HIDE DEF row
  <1>3. CASE editor' = NoEdit
    BY <1>3, NoEditorOpen, <1>1, SameGridKeeps DEF GridInv, ViewOk
  <1>4. CASE row # 0 /\ editor' = [kind |-> kind, row |-> row, node |-> grid[row].node]
    <2>1. /\ editor'.kind = kind /\ editor'.row = row /\ editor'.node = grid[row].node
      BY <1>4
    <2>2. EditorOk'
      BY <1>1, <1>2, <1>4, <2>1 DEF EditorOk
    <2>. QED  BY <1>1, <2>2, SameGridKeeps DEF GridInv, ViewOk
  <1>. QED  BY <1>1, <1>3, <1>4, Zenon

LEMMA AcceptValueKeeps ==
  ASSUME GridInv, AcceptValue
  PROVE  GridInv' /\ AsMeant(sent', grid')
  <1>1. /\ editor' = NoEdit /\ grid' = grid /\ view' = view /\ editor.kind = "value"
        /\ sent' = IF Edited \notin DOMAIN grid \/ grid[Edited].access = "readOnly" THEN NoEdit
                   ELSE [editor EXCEPT !.row = Edited]
    BY DEF AcceptValue
  <1>2. editor # NoEdit
    BY <1>1 DEF NoEdit
  <1>3. /\ editor = [kind |-> editor.kind, row |-> editor.row, node |-> editor.node]
        /\ grid[editor.row].node = editor.node
    BY <1>2, Zenon DEF GridInv, EditorOk
  <1>4. [editor EXCEPT !.row = Edited].row = Edited /\ Edited = editor.row
    BY <1>3 DEF Edited
  <1>5. sent' # NoEdit => grid[sent'.row].node = editor.node /\ grid[sent'.row].access # "readOnly"
    BY <1>1, <1>3, <1>4, Zenon
  <1>6. RowsOk' /\ ViewOk' /\ EditorOk'
    BY <1>1, NoEditorOpen DEF GridInv, RowsOk, ViewOk
  <1>. QED  BY <1>1, <1>5, <1>6 DEF GridInv, AsMeant

LEMMA AcceptIntervalKeeps ==
  ASSUME GridInv, NEW period \in Periods, AcceptInterval(period)
  PROVE  GridInv' /\ AsMeant(sent', grid')
  <1>1. sent' = NoEdit /\ editor' = NoEdit /\ editor.kind = "interval"
    BY DEF AcceptInterval, Quiet
  <1>2. editor # NoEdit
    BY <1>1 DEF NoEdit
  <1>3. editor.row \in DOMAIN grid /\ grid[editor.row].node = editor.node /\ Edited = editor.row
    BY <1>2 DEF GridInv, EditorOk, Edited
  <1>. DEFINE i == editor.row
              row == [grid[i] EXCEPT !.interval = period]
  <1>4. Changed(i, row)
    BY <1>3 DEF AcceptInterval
  <1>5. row \in GridRows /\ row.node = grid[i].node
    <2>1. grid[i] \in GridRows
      BY <1>3 DEF GridInv, RowsOk
    <2>. QED  BY <2>1 DEF GridRows
  <1>. HIDE DEF row
  <1>6. RowsOk' /\ ViewOk' /\ SameRows(grid') /\ grid' = [grid EXCEPT ![i] = row]
    BY <1>4, <1>5, RowEdited
  <1>7. \A j \in DOMAIN grid : grid'[j].interval # grid[j].interval => j = i
    BY <1>6
  <1>. QED  BY <1>1, <1>3, <1>6, <1>7, NoEditorOpen DEF GridInv, AsMeant

LEMMA ShortenedRows ==
  ASSUME RowsOk, NEW g, NEW R, g \in Seq(R), NEW places \in SUBSET (DOMAIN grid),
         Shortened(grid, g, places)
  PROVE  /\ g \in Seq(GridRows)
         /\ \A i, j \in DOMAIN g : g[i].node = g[j].node => i = j
         /\ \A i \in DOMAIN grid \cap DOMAIN g :
              grid[i].node = g[i].node => grid[i].interval = g[i].interval
  <1>1. PICK place \in [DOMAIN g -> places] :
          /\ \A k, l \in DOMAIN g : k < l => place[k] < place[l]
          /\ \A k \in DOMAIN g : g[k] = grid[place[k]]
    BY DEF Shortened
  <1>2. DOMAIN g = 1..Len(g) /\ Len(g) \in Nat /\ g = [k \in 1..Len(g) |-> g[k]]
    OBVIOUS
  <1>3. \A k \in DOMAIN g : place[k] \in DOMAIN grid /\ place[k] \in Int
    BY <1>1 DEF RowsOk
  <1>4. \A k \in DOMAIN g : g[k] \in GridRows
    BY <1>1, <1>3 DEF RowsOk
  <1>5. g \in Seq(GridRows)
    BY <1>2, <1>4
  <1>6. ASSUME NEW i \in DOMAIN g, NEW j \in DOMAIN g, g[i].node = g[j].node PROVE i = j
    <2>1. place[i] = place[j]
      BY <1>1, <1>3, <1>6 DEF RowsOk
    <2>2. i \in Int /\ j \in Int
      BY <1>2
    <2>. QED  BY <1>1, <1>3, <2>1, <2>2
  <1>7. ASSUME NEW i \in DOMAIN grid \cap DOMAIN g, grid[i].node = g[i].node
        PROVE  grid[i].interval = g[i].interval
    <2>1. place[i] = i
      BY <1>1, <1>3, <1>7 DEF RowsOk
    <2>. QED  BY <1>1, <2>1
  <1>. QED  BY <1>5, <1>6, <1>7

LEMMA RemoveKeeps ==
  ASSUME GridInv, RemoveSelectedRows
  PROVE  /\ GridInv' /\ AsMeant(sent', grid')
         /\ Shortened(grid, grid', DOMAIN grid \ picked)
  <1>. DEFINE g == RemoveAll(grid, picked)
  <1>1. /\ editor = NoEdit /\ editor' = editor /\ sent' = NoEdit /\ grid' = g
        /\ \E old : view' \in Follow(g, sorting, old, {})
    BY DEF RemoveSelectedRows, Quiet
  <1>2. grid \in Seq(GridRows)
    BY DEF GridInv, RowsOk
  <1>3. Shortened(grid, g, DOMAIN grid \ picked)
    BY <1>2, RemovedAreShort
  <1>4. PICK R : g \in Seq(R)
    BY <1>2, RemovedAreShort
  <1>. HIDE DEF g
  <1>5. /\ g \in Seq(GridRows)
        /\ \A i, j \in DOMAIN g : g[i].node = g[j].node => i = j
        /\ \A i \in DOMAIN grid \cap DOMAIN g :
             grid[i].node = g[i].node => grid[i].interval = g[i].interval
    <2>1. DOMAIN grid \ picked \in SUBSET (DOMAIN grid)
      OBVIOUS
    <2>. QED  BY <1>3, <1>4, <2>1, ShortenedRows DEF GridInv
  <1>6. RowsOk'
    BY <1>1, <1>5 DEF RowsOk
  <1>7. ViewOk'
    BY <1>1, ShownAreThere DEF ViewOk
  <1>8. EditorOk'
    BY <1>1, NoEditorOpen
  <1>9. AsMeant(sent', grid')
    BY <1>1, <1>5 DEF AsMeant
  <1>. QED  BY <1>1, <1>3, <1>6, <1>7, <1>8, <1>9 DEF GridInv

LEMMA GridStarts == ASSUME GridInit PROVE GridInv
  BY DEF GridInit, GridInv, RowsOk, ViewOk, EditorOk

LEMMA GridStepKeeps ==
  ASSUME GridInv, [GridNext]_gridVars
  PROVE  GridInv' /\ (GridNext => AsMeant(sent', grid'))
  <1>1. CASE UNCHANGED gridVars /\ ~GridNext
    <2>1. grid' = grid /\ view' = view /\ editor' = editor
      BY <1>1 DEF gridVars
    <2>. QED  BY <1>1, <2>1 DEF GridInv, RowsOk, ViewOk, EditorOk
  <1>2. ASSUME NEW n \in GridNodes, AddRow(n) PROVE GridInv' /\ AsMeant(sent', grid')
    BY <1>2, AddRowKeeps
  <1>3. ASSUME NEW g \in {<<>>, [i \in 1..Cardinality(GridNodes) |-> GridRow(SetToSeq(GridNodes)[i])]},
               SetRecords(g)
        PROVE  GridInv' /\ AsMeant(sent', grid')
    BY <1>3, SetRecordsKeeps
  <1>4. ASSUME NEW n \in GridNodes, NEW x \in Values, UpdateValue(n, x)
        PROVE  GridInv' /\ AsMeant(sent', grid')
    BY <1>4, UpdateValueKeeps
  <1>5. ASSUME NEW n \in GridNodes, NEW access \in AccessLevels, SetAccessLevelForNode(n, access)
        PROVE  GridInv' /\ AsMeant(sent', grid')
    BY <1>5, AccessKeeps
  <1>6. ASSUME ClearValues PROVE GridInv' /\ AsMeant(sent', grid')
    BY <1>6, ClearValuesKeeps
  <1>7. ASSUME RemoveSelectedRows PROVE GridInv' /\ AsMeant(sent', grid')
    BY <1>7, RemoveKeeps
  <1>8. ASSUME NEW col \in Columns, ToggleSort(col) PROVE GridInv' /\ AsMeant(sent', grid')
    BY <1>8, ToggleSortKeeps
  <1>9. ASSUME NEW f \in Filters, SetFilterText(f) PROVE GridInv' /\ AsMeant(sent', grid')
    BY <1>9, SetFilterTextKeeps
  <1>10. ASSUME (\E is : Select(is)) \/ (\E k : OpenMenu(k)) \/ CloseMenu \/ CancelEdit
         PROVE  GridInv' /\ AsMeant(sent', grid')
    BY <1>10, SelectingKeeps
  <1>11. ASSUME NEW kind, NEW k, Edit(kind, k) PROVE GridInv' /\ AsMeant(sent', grid')
    BY <1>11, EditKeeps
  <1>12. ASSUME AcceptValue PROVE GridInv' /\ AsMeant(sent', grid')
    BY <1>12, AcceptValueKeeps
  <1>13. ASSUME NEW period \in Periods, AcceptInterval(period) PROVE GridInv' /\ AsMeant(sent', grid')
    BY <1>13, AcceptIntervalKeeps
  <1>14. ASSUME GridNext PROVE GridInv' /\ AsMeant(sent', grid')
    <2>. USE <1>14 DEF GridNext
    <2>. QED  BY <1>2, <1>3, <1>4, <1>5, <1>6, <1>7, <1>8, <1>9, <1>10, <1>11, <1>12, <1>13, Zenon
  <1>. QED  BY <1>1, <1>14

LEMMA StepReachesRows ==
  ASSUME GridInv, [GridNext]_gridVars
  PROVE  [RowsReached]_gridVars
  <1>1. SUFFICES ASSUME GridNext PROVE RowsReached
    OBVIOUS
  <1>2. AsMeant(sent', grid')
    BY <1>1, GridStepKeeps
  <1>3. RemoveSelectedRows => Shortened(grid, grid', DOMAIN grid \ picked)
    BY RemoveKeeps
  <1>. QED  BY <1>2, <1>3 DEF RowsReached, AsMeant

(* What the user does to rows reaches those rows, for any nodes, values, filters   *)
(* and any number of updates and steps: an accepted value or interval goes to the  *)
(* node its editor was opened for, however the table was sorted and filtered       *)
(* since, and a removal takes the selected rows and no other                    *)
(* (DataAccessModel, DataViewFilterModel, BsNodeDataView.qml).                    *)
THEOREM RowsAlwaysReached == GridSpec => RowsMeantAreReached
  <1>1. GridInit => GridInv
    BY GridStarts
  <1>2. GridInv /\ [GridNext]_gridVars => GridInv'
    BY GridStepKeeps
  <1>3. GridInv /\ [GridNext]_gridVars => [RowsReached]_gridVars
    BY StepReachesRows
  <1>. QED  BY <1>1, <1>2, <1>3, PTL DEF GridSpec, RowsMeantAreReached
=============================================================================
