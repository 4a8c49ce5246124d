------------------------ MODULE OpcUaManager_proofs -------------------------
(* The facade on top of the service, for any URLs, backends, stored projects  *)
(* and number of user actions: its types, that it uses the service as the      *)
(* service's own specification allows, that no change of the service's state    *)
(* is lost on the way to its mirrors, and that the session they show is real.    *)
EXTENDS OpcUaManager, OpcUaService_proofs, WellFoundedInduction

-----------------------------------------------------------------------------
(* The last signal of a name.                                              *)

LEMMA LargestExists ==
  ASSUME NEW n \in Nat, NEW D, D \subseteq 1 .. n, D # {}
  PROVE  \E i \in D : \A j \in D : j <= i
<1> DEFINE R == OpToRel(<, Nat)
<1> DEFINE Gaps == {n - i : i \in D}
<1>1. \A x, y \in Nat : <<y, x>> \in R <=> y < x
  BY DEF OpToRel
<1>2. IsWellFoundedOn(R, Nat)
  BY NatLessThanWellFounded
<1>3. Gaps \subseteq Nat /\ Gaps # {}
  <2>1. \A i \in D : n - i \in Nat
    OBVIOUS
  <2> QED
    BY <2>1
<1> HIDE DEF R
<1>4. PICK x \in Gaps : \A y \in Gaps : ~ (<<y, x>> \in R)
  BY <1>2, <1>3, WFMin
<1>5. \A y \in Gaps : ~ (y < x)
  BY <1>1, <1>3, <1>4
<1>6. PICK i \in D : x = n - i
  BY <1>4
<1>7. ASSUME NEW j \in D
      PROVE  j <= i
  <2>1. ~ (n - j < n - i)
    BY <1>5, <1>6
  <2>2. i \in 1 .. n /\ j \in 1 .. n
    OBVIOUS
  <2> QED
    BY <2>1, <2>2
<1> QED
  BY <1>7

(* The place LastOf reads: the largest of those with the name.              *)
LEMMA LastPlace ==
  ASSUME NEW S, NEW q \in Seq(S), NEW k, NEW x
  PROVE  \/ PlacesOf(k, q) = {} /\ LastOf(k, q, x) = x
         \/ \E i \in PlacesOf(k, q) : /\ \A j \in PlacesOf(k, q) : j <= i
                                      /\ LastOf(k, q, x) = q[i].val
<1>1. CASE PlacesOf(k, q) = {}
  BY <1>1 DEF LastOf
<1>2. CASE PlacesOf(k, q) # {}
  <2>1. PlacesOf(k, q) \subseteq 1 .. Len(q) /\ Len(q) \in Nat
    BY LenProperties DEF PlacesOf
  <2>2. \E i \in PlacesOf(k, q) : \A j \in PlacesOf(k, q) : j <= i
    BY <1>2, <2>1, LargestExists
  <2> QED
    BY <1>2, <2>2, Zenon DEF LastOf
<1> QED
  BY <1>1, <1>2

(* What a largest place determines.                                          *)
LEMMA LastIs ==
  ASSUME NEW S, NEW q \in Seq(S), NEW k, NEW x, NEW i \in 1 .. Len(q), q[i].sig = k,
         \A j \in 1 .. Len(q) : q[j].sig = k => j <= i
  PROVE  LastOf(k, q, x) = q[i].val
<1>1. DOMAIN q = 1 .. Len(q)
  BY LenProperties
<1>2. i \in PlacesOf(k, q) /\ \A j \in PlacesOf(k, q) : j <= i
  BY <1>1 DEF PlacesOf
<1>3. PICK l \in PlacesOf(k, q) : /\ \A j \in PlacesOf(k, q) : j <= l
                                  /\ LastOf(k, q, x) = q[l].val
  BY <1>2, LastPlace
<1>4. l \in 1 .. Len(q)
  BY <1>1 DEF PlacesOf
<1>5. l = i
  BY <1>2, <1>3, <1>4
<1> QED
  BY <1>3, <1>5

LEMMA NoneIs ==
  ASSUME NEW S, NEW q \in Seq(S), NEW k, NEW x, \A j \in 1 .. Len(q) : q[j].sig # k
  PROVE  LastOf(k, q, x) = x
<1>1. PlacesOf(k, q) = {}
  BY LenProperties DEF PlacesOf
<1> QED
  BY <1>1 DEF LastOf

(* Signals applied in two portions leave what they leave applied in one.      *)
LEMMA LastOfTwo ==
  ASSUME NEW S, NEW p \in Seq(S), NEW q \in Seq(S), NEW k, NEW x
  PROVE  LastOf(k, p \o q, x) = LastOf(k, q, LastOf(k, p, x))
<1> DEFINE both == p \o q
<1>1. /\ both \in Seq(S) /\ Len(both) = Len(p) + Len(q)
      /\ \A i \in 1 .. Len(p) + Len(q) : both[i] = IF i <= Len(p) THEN p[i] ELSE q[i - Len(p)]
  BY ConcatProperties
<1>2. Len(p) \in Nat /\ Len(q) \in Nat /\ DOMAIN p = 1 .. Len(p) /\ DOMAIN q = 1 .. Len(q)
  BY LenProperties
<1> HIDE DEF both
<1>3. /\ \A i \in 1 .. Len(p) : both[i] = p[i]
      /\ \A i \in 1 .. Len(q) : both[Len(p) + i] = q[i]
  BY <1>1, <1>2
<1>4. CASE PlacesOf(k, q) # {}
  <2>1. PICK i \in PlacesOf(k, q) : /\ \A j \in PlacesOf(k, q) : j <= i
                                    /\ LastOf(k, q, LastOf(k, p, x)) = q[i].val
    BY <1>4, LastPlace
  <2>2. i \in 1 .. Len(q) /\ q[i].sig = k
    BY <1>2 DEF PlacesOf
  <2>3. Len(p) + i \in 1 .. Len(both)
    BY <1>1, <1>2, <2>2
  <2>4. \A j \in 1 .. Len(both) : both[j].sig = k => j <= Len(p) + i
    <3> SUFFICES ASSUME NEW j \in 1 .. Len(both), both[j].sig = k, Len(p) < j
                 PROVE  j <= Len(p) + i
      BY <1>2, <2>2
    <3>1. j - Len(p) \in 1 .. Len(q) /\ both[j] = q[j - Len(p)]
      BY <1>1, <1>2
    <3>2. j - Len(p) \in PlacesOf(k, q)
      BY <1>2, <3>1 DEF PlacesOf
    <3>3. j - Len(p) <= i
      BY <2>1, <3>2
    <3> QED
      BY <1>2, <2>2, <3>3
  <2>5. both[Len(p) + i] = q[i]
    BY <1>3, <2>2
  <2>6. LastOf(k, both, x) = both[Len(p) + i].val
    <3>1. both \in Seq(S) /\ both[Len(p) + i].sig = k
      BY <1>1, <2>2, <2>5
    <3> QED
      BY <2>3, <2>4, <3>1, LastIs, Zenon
  <2> QED
    BY <2>1, <2>5, <2>6 DEF both
<1>5. CASE PlacesOf(k, q) = {} /\ PlacesOf(k, p) # {}
  <2>1. PICK i \in PlacesOf(k, p) : /\ \A j \in PlacesOf(k, p) : j <= i
                                    /\ LastOf(k, p, x) = p[i].val
    BY <1>5, LastPlace
  <2>2. i \in 1 .. Len(p) /\ p[i].sig = k
    BY <1>2 DEF PlacesOf
  <2>3. \A j \in 1 .. Len(both) : both[j].sig = k => j <= i
    <3> SUFFICES ASSUME NEW j \in 1 .. Len(both), both[j].sig = k
                 PROVE  j <= i
      OBVIOUS
    <3>1. CASE j <= Len(p)
      <4>1. j \in PlacesOf(k, p)
        BY <1>1, <1>2, <1>3, <3>1 DEF PlacesOf
      <4> QED
        BY <2>1, <4>1
    <3>2. CASE Len(p) < j
      <4>1. j - Len(p) \in 1 .. Len(q) /\ both[j] = q[j - Len(p)]
        BY <1>1, <1>2, <3>2
      <4>2. j - Len(p) \in PlacesOf(k, q)
        BY <1>2, <4>1 DEF PlacesOf
      <4> QED
        BY <1>5, <4>2
    <3> QED
      BY <1>2, <3>1, <3>2
  <2>4. i \in 1 .. Len(both) /\ both[i] = p[i]
    BY <1>1, <1>2, <1>3, <2>2
  <2>5. LastOf(k, both, x) = both[i].val
    <3>1. both \in Seq(S) /\ i \in 1 .. Len(both) /\ both[i].sig = k
      BY <1>1, <2>2, <2>4
    <3>2. \A l \in 1 .. Len(both) :
            /\ both[l].sig = k
            /\ \A j \in 1 .. Len(both) : both[j].sig = k => j <= l
            => LastOf(k, both, x) = both[l].val
      BY <3>1, LastIs
    <3> QED
      BY <2>3, <3>1, <3>2
  <2> QED
    BY <1>5, <2>1, <2>4, <2>5 DEF both, LastOf
<1>6. CASE PlacesOf(k, q) = {} /\ PlacesOf(k, p) = {}
  <2>1. \A j \in 1 .. Len(both) : both[j].sig # k
    <3> SUFFICES ASSUME NEW j \in 1 .. Len(both), both[j].sig = k
                 PROVE  FALSE
      OBVIOUS
    <3>1. \/ j \in 1 .. Len(p) /\ both[j] = p[j]
          \/ j - Len(p) \in 1 .. Len(q) /\ both[j] = q[j - Len(p)]
      BY <1>1, <1>2
    <3> QED
      BY <1>2, <1>6, <3>1 DEF PlacesOf
  <2>2. LastOf(k, both, x) = x
    BY <1>1, <2>1, NoneIs
  <2> QED
    BY <1>6, <2>2 DEF both, LastOf
<1> QED
  BY <1>4, <1>5, <1>6

LEMMA SpeaksOfTwo ==
  ASSUME NEW S, NEW p \in Seq(S), NEW q \in Seq(S), NEW k
  PROVE  PlacesOf(k, p \o q) # {} <=> PlacesOf(k, p) # {} \/ PlacesOf(k, q) # {}
<1> DEFINE both == p \o q
<1>1. /\ both \in Seq(S) /\ Len(both) = Len(p) + Len(q)
      /\ \A i \in 1 .. Len(p) + Len(q) : both[i] = IF i <= Len(p) THEN p[i] ELSE q[i - Len(p)]
  BY ConcatProperties
<1>2. /\ Len(p) \in Nat /\ Len(q) \in Nat /\ DOMAIN p = 1 .. Len(p) /\ DOMAIN q = 1 .. Len(q)
      /\ DOMAIN both = 1 .. Len(both)
  BY <1>1, LenProperties
<1> HIDE DEF both
<1>3. /\ \A i \in DOMAIN p : i \in DOMAIN both /\ both[i] = p[i]
      /\ \A i \in DOMAIN q : Len(p) + i \in DOMAIN both /\ both[Len(p) + i] = q[i]
  BY <1>1, <1>2
<1>4. \A i \in DOMAIN both : \/ i \in DOMAIN p /\ both[i] = p[i]
                             \/ i - Len(p) \in DOMAIN q /\ both[i] = q[i - Len(p)]
  BY <1>1, <1>2
<1>5. PlacesOf(k, both) # {} <=> PlacesOf(k, p) # {} \/ PlacesOf(k, q) # {}
  BY <1>3, <1>4 DEF PlacesOf
<1> QED
  BY <1>5 DEF both

(* One signal, and none.                                                    *)
LEMMA LastOfOne ==
  ASSUME NEW s, NEW v, NEW k, NEW x
  PROVE  /\ LastOf(k, Sig(s, v), x) = IF k = s THEN v ELSE x
         /\ LastOf(k, <<>>, x) = x
<1>1. LastOf(k, <<>>, x) = x
  <2>1. <<>> \in Seq({0}) /\ Len(<<>>) = 0
    BY EmptySeq
  <2>2. \A j \in 1 .. Len(<<>>) : (<<>>)[j].sig # k
    BY <2>1
  <2> QED
    BY <2>1, <2>2, NoneIs
<1>2. CASE k = s
  <2>1. /\ Sig(s, v) \in Seq({[sig |-> s, val |-> v]}) /\ Len(Sig(s, v)) = 1
        /\ Sig(s, v)[1].sig = s /\ Sig(s, v)[1].val = v
    BY DEF Sig
  <2>2. 1 \in 1 .. Len(Sig(s, v)) /\ \A j \in 1 .. Len(Sig(s, v)) : j <= 1
    BY <2>1
  <2>3. LastOf(s, Sig(s, v), x) = Sig(s, v)[1].val
    BY <2>1, <2>2, LastIs
  <2> QED
    BY <1>1, <1>2, <2>1, <2>3
<1>3. CASE k # s
  <2>1. /\ Sig(s, v) \in Seq({[sig |-> s, val |-> v]})
        /\ \A j \in 1 .. Len(Sig(s, v)) : Sig(s, v)[j].sig = s
    BY DEF Sig
  <2>2. \A j \in 1 .. Len(Sig(s, v)) : Sig(s, v)[j].sig # k
    BY <1>3, <2>1
  <2>3. LastOf(k, Sig(s, v), x) = x
    BY <2>1, <2>2, NoneIs
  <2> QED
    BY <1>1, <1>3, <2>3
<1> QED
  BY <1>2, <1>3

-----------------------------------------------------------------------------
(* What can be queued.                                                     *)

Errors == {NoError, "url", "server", "client", "certificate", "username", "index", "auth",
           "findDispatch", "findTimeout", "find", "endpointsDispatch", "endpointsTimeout",
           "endpoints", "connect", "client error"}

(* The signals of the service.                                              *)
Signals ==
  [sig : {"servers", "endpoints"}, val : Urls \cup {None}]
  \cup [sig : {"connected", "rewrite"}, val : BOOLEAN]
  \cup [sig : {"operationState"}, val : OperationStates]
  \cup [sig : {"lastError"}, val : Errors]
  \cup [sig : {"backend"}, val : Backends]
  \cup [sig : {"authMode"}, val : AuthModes]

Fetching == {"discover", "endpoints", "runFind", "findNotDispatched", "findReply",
             "runEndpoints", "endpointsNotDispatched", "endpointsReply"}
Joining  == {"connect", "runConnect", "clientConnected"}

(* A list is asked for, and shown, only once the facade remembers a discovery *)
(* URL, a session only once it remembers an endpoint.                        *)
Due   == {m \in Messages : /\ lastUrl = None => m.kind \notin Fetching
                           /\ lastEndpoint = None => m.kind \notin Joining}
Heard == {m \in Signals : /\ lastUrl = None /\ m.sig \in {"servers", "endpoints"} => m.val = None
                          /\ lastEndpoint = None /\ m.sig = "connected" => m.val = FALSE}

NothingYet ==
  /\ lastUrl = None => /\ servers = None /\ endpoints = None /\ inFlight = {}
                       /\ gServers = None /\ gEndpoints = None /\ lastEndpoint = None
  /\ lastEndpoint = None => cliState = "Disconnected" /\ ~connected /\ ~gConnected

(* The inductive invariant: it makes every connection that applyConnected()   *)
(* captures, and every one a run replays, complete.                          *)
ManagerInv ==
  /\ ManagerTypeOK
  /\ lastError \in Errors /\ gError \in Errors \cup {"local"}
  /\ inbox \in Seq(Due) /\ toGui \in Seq(Heard)
  /\ NothingYet
  /\ stage = "AwaitingPassword" => target \in Connections

LEMMA PieceTypes ==
  /\ \A v : v = None \/ (v \in Urls /\ lastUrl # None) =>
              [sig |-> "servers", val |-> v] \in Heard /\ [sig |-> "endpoints", val |-> v] \in Heard
  /\ \A v : v = FALSE \/ (v = TRUE /\ lastEndpoint # None) =>
              [sig |-> "connected", val |-> v] \in Heard
  /\ \A v \in OperationStates : [sig |-> "operationState", val |-> v] \in Heard
  /\ \A v \in Errors : [sig |-> "lastError", val |-> v] \in Heard
  /\ \A v \in Backends : [sig |-> "backend", val |-> v] \in Heard
  /\ \A v \in AuthModes : [sig |-> "authMode", val |-> v] \in Heard
  /\ \A v \in BOOLEAN : [sig |-> "rewrite", val |-> v] \in Heard
BY DEF Heard, Signals

(* A sequence of signals is one that can be heard; two are emitted one after  *)
(* the other.                                                               *)
Told(r)    == r \in Seq(Heard)
Then(p, q) == p \o q

LEMMA Pieces ==
  /\ Told(<<>>)
  /\ \A v : v = None \/ (v \in Urls /\ lastUrl # None) =>
              Told(Sig("servers", v)) /\ Told(Sig("endpoints", v))
  /\ \A v : v = FALSE \/ (v = TRUE /\ lastEndpoint # None) => Told(Sig("connected", v))
  /\ \A v \in OperationStates : Told(Sig("operationState", v)) /\ \A f : Told(OpSig(f, v))
  /\ \A v \in Errors : Told(Sig("lastError", v)) /\ \A f : Told(ErrSig(f, v))
  /\ \A v \in Backends : Told(Sig("backend", v))
  /\ \A v \in AuthModes : Told(Sig("authMode", v))
  /\ \A v \in BOOLEAN : Told(Sig("rewrite", v))
<1>1. Told(<<>>)
  BY EmptySeq DEF Told
<1>2. \A s, v : [sig |-> s, val |-> v] \in Heard => Told(Sig(s, v))
  BY DEF Sig, Told
<1>3. \A v \in OperationStates : Told(Sig("operationState", v)) /\ \A f : Told(OpSig(f, v))
  BY <1>1, <1>2, PieceTypes DEF OpSig
<1>4. \A v \in Errors : Told(Sig("lastError", v)) /\ \A f : Told(ErrSig(f, v))
  BY <1>1, <1>2, PieceTypes DEF ErrSig
<1> QED
  BY <1>1, <1>2, <1>3, <1>4, PieceTypes

(* What a sequence put together from pieces tells of a name: whether it has     *)
(* a signal of the name, and the value of the last one.                       *)
Speaks(k, r) == PlacesOf(k, r) # {}
Word(k, r)   == LastOf(k, r, None)

LEMMA Heeded ==
  ASSUME NEW k, NEW r, NEW x
  PROVE  LastOf(k, r, x) = IF Speaks(k, r) THEN Word(k, r) ELSE x
<1>1. CASE PlacesOf(k, r) = {}
  BY <1>1 DEF LastOf, Speaks
<1>2. CASE PlacesOf(k, r) # {}
  <2>1. \A y : LastOf(k, r, y) = r[CHOOSE i \in PlacesOf(k, r) :
                                     \A j \in PlacesOf(k, r) : j <= i].val
    BY <1>2, Zenon DEF LastOf
  <2> QED
    BY <1>2, <2>1, Zenon DEF Speaks, Word
<1> QED
  BY <1>1, <1>2

LEMMA Readings ==
  /\ \A k : ~Speaks(k, <<>>)
  /\ \A k, s, v : Speaks(k, Sig(s, v)) <=> k = s
  /\ \A s, v : Word(s, Sig(s, v)) = v
  /\ \A k, f, t : Speaks(k, OpSig(f, t)) <=> k = "operationState" /\ f # t
  /\ \A k, f, t : Speaks(k, OpSig(f, t)) => Word(k, OpSig(f, t)) = t
  /\ \A k, f, t : Speaks(k, ErrSig(f, t)) <=> k = "lastError" /\ f # t
  /\ \A k, f, t : Speaks(k, ErrSig(f, t)) => Word(k, ErrSig(f, t)) = t
<1>1. \A k : ~Speaks(k, <<>>)
  BY DEF Speaks, PlacesOf
<1>2. /\ \A k, s, v : Speaks(k, Sig(s, v)) <=> k = s
      /\ \A s, v : Word(s, Sig(s, v)) = v
  <2>1. \A k, s, v : Speaks(k, Sig(s, v)) <=> k = s
    BY DEF Speaks, PlacesOf, Sig
  <2>2. \A s, v : Word(s, Sig(s, v)) = v
    BY LastOfOne DEF Word
  <2> QED
    BY <2>1, <2>2
<1>3. /\ \A k, f, t : Speaks(k, OpSig(f, t)) <=> k = "operationState" /\ f # t
      /\ \A k, f, t : Speaks(k, OpSig(f, t)) => Word(k, OpSig(f, t)) = t
  BY <1>1, <1>2 DEF OpSig
<1>4. /\ \A k, f, t : Speaks(k, ErrSig(f, t)) <=> k = "lastError" /\ f # t
      /\ \A k, f, t : Speaks(k, ErrSig(f, t)) => Word(k, ErrSig(f, t)) = t
  BY <1>1, <1>2 DEF ErrSig
<1> QED
  BY <1>1, <1>2, <1>3, <1>4

LEMMA InTurn ==
  ASSUME NEW p, NEW q, Told(p), Told(q)
  PROVE  /\ Told(Then(p, q))
         /\ \A k : Speaks(k, Then(p, q)) <=> Speaks(k, p) \/ Speaks(k, q)
         /\ \A k : Word(k, Then(p, q)) = IF Speaks(k, q) THEN Word(k, q) ELSE Word(k, p)
<1>1. Told(Then(p, q))
  BY ConcatProperties DEF Told, Then
<1>2. \A k : Speaks(k, Then(p, q)) <=> Speaks(k, p) \/ Speaks(k, q)
  BY SpeaksOfTwo DEF Told, Then, Speaks
<1>3. \A k : Word(k, Then(p, q)) = LastOf(k, q, Word(k, p))
  BY LastOfTwo DEF Told, Then, Word
<1>4. \A k : Word(k, Then(p, q)) = IF Speaks(k, q) THEN Word(k, q) ELSE Word(k, p)
  BY <1>3, Heeded
<1> QED
  BY <1>1, <1>2, <1>4

-----------------------------------------------------------------------------
(* Every change the service makes to what it announces is in the signals it    *)
(* emits with it.                                                             *)

Names == {"servers", "endpoints", "connected", "operationState", "lastError", "backend",
          "authMode", "rewrite"}

(* What the service announces of its state, by the names of the signals.      *)
St(sv, ep, co, op, er, ba, au, re) ==
  [servers |-> sv, endpoints |-> ep, connected |-> co, operationState |-> op, lastError |-> er,
   backend |-> ba, authMode |-> au, rewrite |-> re]

Now == St(servers, endpoints, connected, opState, lastError, backend, auth, rewrite)

(* The signals r tell a listener that knows state a that it is now state b.     *)
Carries(r, a, b) ==
  /\ Told(r)
  /\ \A k \in Names : IF Speaks(k, r) THEN Word(k, r) = b[k] ELSE a[k] = b[k]

Announces(r) == Emit(r) /\ Carries(r, Now, Now')

LEMMA Nothing ==
  ASSUME NEW a
  PROVE  Carries(<<>>, a, a)
BY Pieces, Readings DEF Carries

LEMMA Carried ==
  ASSUME NEW p, NEW q, NEW a, NEW b, NEW c, Carries(p, a, b), Carries(q, b, c)
  PROVE  Carries(Then(p, q), a, c)
<1>1. Told(Then(p, q))
  BY InTurn DEF Carries
<1>2. ASSUME NEW k \in Names
      PROVE  IF Speaks(k, Then(p, q)) THEN Word(k, Then(p, q)) = c[k] ELSE a[k] = c[k]
  BY InTurn DEF Carries
<1> QED
  BY <1>1, <1>2 DEF Carries

LEMMA Says ==
  ASSUME NEW sv, NEW ep, NEW co, NEW op, NEW er, NEW ba, NEW au, NEW re, NEW v
  PROVE  /\ Told(Sig("servers", v)) =>
              Carries(Sig("servers", v), St(sv, ep, co, op, er, ba, au, re),
                      St(v, ep, co, op, er, ba, au, re))
         /\ Told(Sig("endpoints", v)) =>
              Carries(Sig("endpoints", v), St(sv, ep, co, op, er, ba, au, re),
                      St(sv, v, co, op, er, ba, au, re))
         /\ Told(Sig("connected", v)) =>
              Carries(Sig("connected", v), St(sv, ep, co, op, er, ba, au, re),
                      St(sv, ep, v, op, er, ba, au, re))
         /\ Told(Sig("backend", v)) =>
              Carries(Sig("backend", v), St(sv, ep, co, op, er, ba, au, re),
                      St(sv, ep, co, op, er, v, au, re))
         /\ Told(Sig("authMode", v)) =>
              Carries(Sig("authMode", v), St(sv, ep, co, op, er, ba, au, re),
                      St(sv, ep, co, op, er, ba, v, re))
         /\ Told(Sig("rewrite", v)) =>
              Carries(Sig("rewrite", v), St(sv, ep, co, op, er, ba, au, re),
                      St(sv, ep, co, op, er, ba, au, v))
         /\ Told(Sig("operationState", v)) =>
              Carries(Sig("operationState", v), St(sv, ep, co, op, er, ba, au, re),
                      St(sv, ep, co, v, er, ba, au, re))
         /\ Told(Sig("lastError", v)) =>
              Carries(Sig("lastError", v), St(sv, ep, co, op, er, ba, au, re),
                      St(sv, ep, co, op, v, ba, au, re))
         /\ Told(OpSig(op, v)) =>
              Carries(OpSig(op, v), St(sv, ep, co, op, er, ba, au, re),
                      St(sv, ep, co, v, er, ba, au, re))
         /\ Told(ErrSig(er, v)) =>
              Carries(ErrSig(er, v), St(sv, ep, co, op, er, ba, au, re),
                      St(sv, ep, co, op, v, ba, au, re))
<1> DEFINE a == St(sv, ep, co, op, er, ba, au, re)
<1>1. ASSUME Told(Sig("servers", v))
      PROVE  Carries(Sig("servers", v), a, St(v, ep, co, op, er, ba, au, re))
  BY <1>1, Readings DEF Carries, St, Names
<1>2. ASSUME Told(Sig("endpoints", v))
      PROVE  Carries(Sig("endpoints", v), a, St(sv, v, co, op, er, ba, au, re))
  BY <1>2, Readings DEF Carries, St, Names
<1>3. ASSUME Told(Sig("connected", v))
      PROVE  Carries(Sig("connected", v), a, St(sv, ep, v, op, er, ba, au, re))
  BY <1>3, Readings DEF Carries, St, Names
<1>4. ASSUME Told(Sig("backend", v))
      PROVE  Carries(Sig("backend", v), a, St(sv, ep, co, op, er, v, au, re))
  BY <1>4, Readings DEF Carries, St, Names
<1>5. ASSUME Told(Sig("authMode", v))
      PROVE  Carries(Sig("authMode", v), a, St(sv, ep, co, op, er, ba, v, re))
  BY <1>5, Readings DEF Carries, St, Names
<1>6. ASSUME Told(Sig("rewrite", v))
      PROVE  Carries(Sig("rewrite", v), a, St(sv, ep, co, op, er, ba, au, v))
  BY <1>6, Readings DEF Carries, St, Names
<1>7. ASSUME Told(Sig("operationState", v))
      PROVE  Carries(Sig("operationState", v), a, St(sv, ep, co, v, er, ba, au, re))
  BY <1>7, Readings DEF Carries, St, Names
<1>8. ASSUME Told(Sig("lastError", v))
      PROVE  Carries(Sig("lastError", v), a, St(sv, ep, co, op, v, ba, au, re))
  BY <1>8, Readings DEF Carries, St, Names
<1>9. ASSUME Told(OpSig(op, v))
      PROVE  Carries(OpSig(op, v), a, St(sv, ep, co, v, er, ba, au, re))
  BY <1>9, Readings DEF Carries, St, Names
<1>10. ASSUME Told(ErrSig(er, v))
       PROVE  Carries(ErrSig(er, v), a, St(sv, ep, co, op, v, ba, au, re))
  BY <1>10, Readings DEF Carries, St, Names
<1> QED
  BY <1>1, <1>2, <1>3, <1>4, <1>5, <1>6, <1>7, <1>8, <1>9, <1>10

(* Three, four and five pieces in turn.                                       *)
LEMMA CarriedThree ==
  ASSUME NEW p, NEW q, NEW r, NEW a, NEW b, NEW c, NEW d,
         Carries(p, a, b), Carries(q, b, c), Carries(r, c, d)
  PROVE  Carries(p \o q \o r, a, d)
BY Carried, Zenon DEF Then

LEMMA CarriedFour ==
  ASSUME NEW p, NEW q, NEW r, NEW s, NEW a, NEW b, NEW c, NEW d, NEW e,
         Carries(p, a, b), Carries(q, b, c), Carries(r, c, d), Carries(s, d, e)
  PROVE  Carries(p \o q \o r \o s, a, e)
BY CarriedThree, Carried, Zenon DEF Then

LEMMA CarriedFive ==
  ASSUME NEW p, NEW q, NEW r, NEW s, NEW t, NEW a, NEW b, NEW c, NEW d, NEW e, NEW f,
         Carries(p, a, b), Carries(q, b, c), Carries(r, c, d), Carries(s, d, e), Carries(t, e, f)
  PROVE  Carries(p \o q \o r \o s \o t, a, f)
BY CarriedFour, Carried, Zenon DEF Then

LEMMA Announced ==
  ASSUME NEW r, NEW s, Emit(r), Carries(r, Now, s), Now' = s
  PROVE  \E x : Announces(x)
BY Zenon DEF Announces

LEMMA Named ==
  /\ "Idle" \in OperationStates /\ "DiscoveringServers" \in OperationStates
  /\ "RequestingEndpoints" \in OperationStates /\ "Connecting" \in OperationStates
  /\ "Disconnecting" \in OperationStates
  /\ NoError \in Errors
BY Zenon DEF OperationStates, Errors

LEMMA DiscoveryAnnounces ==
  ASSUME DiscoverServers, lastError' \in Errors
  PROVE  \E r : Announces(r)
<1> DEFINE begun == St(servers, endpoints, connected, "DiscoveringServers", lastError, backend,
                       auth, rewrite)
           wiped == St(None, None, connected, "DiscoveringServers", NoError, backend, auth, rewrite)
           told(op, er) == St(None, None, connected, op, er, backend, auth, rewrite)
           cleared == ListsCleared \o ErrSig(lastError, NoError)
<1>1. Carries(OpSig(opState, "DiscoveringServers"), Now, begun)
  BY Says, Pieces, Named, Zenon DEF Now
<1>2. Carries(cleared, begun, wiped)
  <2> DEFINE listed(sv, ep, er) == St(sv, ep, connected, "DiscoveringServers", er, backend, auth,
                                    rewrite)
  <2>1. Carries(Sig("servers", None), begun, listed(None, endpoints, lastError))
    BY Says, Pieces, Zenon
  <2>2. Carries(Sig("endpoints", None), listed(None, endpoints, lastError),
                listed(None, None, lastError))
    BY Says, Pieces, Zenon
  <2>3. Carries(ErrSig(lastError, NoError), listed(None, None, lastError), wiped)
    BY Says, Pieces, Named, Zenon
  <2> QED
    BY <2>1, <2>2, <2>3, CarriedThree, Zenon DEF ListsCleared
<1>3. Now' = told(opState', lastError')
  BY DEF DiscoverServers, Now, setupVars
<1>5. CASE /\ Emit(OpSig(opState, "DiscoveringServers") \o cleared
                   \o Sig("lastError", lastError') \o Sig("operationState", "Idle"))
           /\ opState' = "Idle"
  <2>1. Carries(Sig("lastError", lastError'), wiped, told("DiscoveringServers", lastError'))
    BY Says, Pieces, Zenon
  <2>2. Carries(Sig("operationState", "Idle"), told("DiscoveringServers", lastError'),
                told("Idle", lastError'))
    BY Says, Pieces, Named, Zenon
  <2>3. Carries(OpSig(opState, "DiscoveringServers") \o cleared
                \o Sig("lastError", lastError') \o Sig("operationState", "Idle"),
                Now, told("Idle", lastError'))
    BY <1>1, <1>2, <2>1, <2>2, CarriedFour, Zenon
  <2> QED
    BY <1>3, <1>5, <2>3, Announced, Zenon
<1>6. CASE /\ Emit(OpSig(opState, "DiscoveringServers") \o cleared \o ErrSig(NoError, lastError'))
           /\ opState' = "DiscoveringServers"
  <2>1. Carries(ErrSig(NoError, lastError'), wiped, told("DiscoveringServers", lastError'))
    BY Says, Pieces, Zenon
  <2>2. Carries(OpSig(opState, "DiscoveringServers") \o cleared \o ErrSig(NoError, lastError'), Now,
                told("DiscoveringServers", lastError'))
    BY <1>1, <1>2, <2>1, CarriedThree, Zenon
  <2> QED
    BY <1>3, <1>6, <2>2, Announced, Zenon
<1> QED
  BY <1>5, <1>6, Zenon DEF DiscoverServers

(* The signals that only concern the operation and the error.                *)
LEMMA ProgressAnnounces ==
  ASSUME opState' \in OperationStates, lastError' \in Errors,
         UNCHANGED <<servers, endpoints, connected, setupVars>>,
         \/ Emit(OpSig(opState, opState') \o ErrSig(lastError, lastError'))
         \/ Emit(ErrSig(lastError, lastError') \o OpSig(opState, opState'))
         \/ Emit(OpSig(opState, opState')) /\ UNCHANGED lastError
         \/ Emit(ErrSig(lastError, lastError')) /\ UNCHANGED opState
  PROVE  \E r : Announces(r)
<1> DEFINE told(op, er) == St(servers, endpoints, connected, op, er, backend, auth, rewrite)
           op  == OpSig(opState, opState')
           err == ErrSig(lastError, lastError')
<1>1. Now = told(opState, lastError) /\ Now' = told(opState', lastError')
  BY DEF Now, setupVars
<1>2. \A er : Carries(op, told(opState, er), told(opState', er))
  BY Says, Pieces, Zenon
<1>3. \A os : Carries(err, told(os, lastError), told(os, lastError'))
  BY Says, Pieces, Zenon
<1> HIDE DEF told, op, err
<1>4. CASE Emit(op \o err)
  BY <1>1, <1>2, <1>3, <1>4, Carried, Announced, Zenon DEF Then
<1>5. CASE Emit(err \o op)
  BY <1>1, <1>2, <1>3, <1>5, Carried, Announced, Zenon DEF Then
<1>6. CASE Emit(op) /\ UNCHANGED lastError
  BY <1>1, <1>2, <1>6, Announced, Zenon
<1>7. CASE Emit(err) /\ UNCHANGED opState
  BY <1>1, <1>3, <1>7, Announced, Zenon
<1> QED
  BY <1>4, <1>5, <1>6, <1>7, Zenon DEF op, err

LEMMA SilentAnnounces ==
  ASSUME toGui \in Seq(Heard),
         UNCHANGED <<toGui, servers, endpoints, connected, opState, lastError, setupVars>>
  PROVE  \E r : Announces(r)
<1>1. Emit(<<>>)
  BY ConcatEmptySeq DEF Emit
<1>2. Now' = Now
  BY DEF Now, setupVars
<1> QED
  BY <1>1, <1>2, Nothing, Announced, Zenon

LEMMA SetupAnnounces ==
  ASSUME TypeOK, toGui \in Seq(Heard), opState' \in OperationStates, lastError' \in Errors,
         SetBackend \/ SetAuthentication \/ SetEndpointUrlRewriteEnabled
  PROVE  \E r : Announces(r)
<1>1. inbox \in Seq(Messages)
  BY DEF TypeOK
<1>2. CASE SetBackend /\ Arg # backend
  <2> DEFINE told(ep, co, op, er, ba) == St(servers, ep, co, op, er, ba, auth, rewrite)
             lost == IF connected /\ client # 0 THEN Sig("connected", FALSE) ELSE <<>>
  <2>1. Arg \in Backends
    BY <1>1, <1>2, ArgumentTypes DEF SetBackend
  <2>2. Carries(OpSig(opState, "Idle"), Now, told(endpoints, connected, "Idle", lastError, backend))
    BY Says, Pieces, Named, Zenon DEF Now
  <2>3. Carries(lost, told(endpoints, connected, "Idle", lastError, backend),
                      told(endpoints, connected', "Idle", lastError, backend))
    <3>1. connected' = (connected /\ client = 0)
      BY <1>2, Zenon DEF SetBackend
    <3>2. CASE connected /\ client # 0
      <4>1. connected' = FALSE /\ lost = Sig("connected", FALSE)
        BY <3>1, <3>2, Zenon
      <4>2. Carries(Sig("connected", FALSE), told(endpoints, connected, "Idle", lastError, backend),
                      told(endpoints, FALSE, "Idle", lastError, backend))
        BY Says, Pieces, Zenon
      <4> QED
        BY <4>1, <4>2, Zenon
    <3>3. CASE ~(connected /\ client # 0)
      <4>1. connected' = connected /\ lost = <<>>
        BY <3>1, <3>3, Zenon DEF TypeOK
      <4> QED
        BY <4>1, Nothing, Zenon
    <3> QED
      BY <3>2, <3>3, Zenon
  <2>4. Carries(Sig("endpoints", None), told(endpoints, connected', "Idle", lastError, backend),
                told(None, connected', "Idle", lastError, backend))
    BY Says, Pieces, Zenon
  <2>5. Carries(Sig("backend", Arg), told(None, connected', "Idle", lastError, backend),
                told(None, connected', "Idle", lastError, Arg))
    BY <2>1, Says, Pieces, Zenon
  <2>6. Carries(ErrSig(lastError, lastError'), told(None, connected', "Idle", lastError, Arg),
                told(None, connected', "Idle", lastError', Arg))
    BY Says, Pieces, Zenon
  <2>7. Emit(OpSig(opState, "Idle") \o lost \o Sig("endpoints", None) \o Sig("backend", Arg)
             \o ErrSig(lastError, lastError'))
    BY <1>2, Zenon DEF SetBackend
  <2>8. Now' = told(None, connected', "Idle", lastError', Arg)
    BY <1>2 DEF SetBackend, Now
  <2> HIDE DEF told, lost
  <2>9. Carries(OpSig(opState, "Idle") \o lost \o Sig("endpoints", None) \o Sig("backend", Arg)
                \o ErrSig(lastError, lastError'),
                Now, told(None, connected', "Idle", lastError', Arg))
    BY <2>2, <2>3, <2>4, <2>5, <2>6, CarriedFive, Zenon
  <2> QED
    BY <2>7, <2>8, <2>9, Announced, Zenon
<1>3. CASE SetAuthentication /\ Arg = "nameless"
  BY <1>3, ProgressAnnounces, Zenon DEF SetAuthentication, setupVars, AuthModes
<1>4. CASE SetAuthentication /\ Arg # "nameless"
  <2> DEFINE told(er, au) == St(servers, endpoints, connected, opState, er, backend, au, rewrite)
             mode  == Sig("authMode", Arg)
             error == ErrSig(lastError, lastError')
  <2>1. Arg \in AuthModes /\ (Emit(mode \o error) \/ Emit(error \o mode))
    BY <1>4, Zenon DEF SetAuthentication
  <2>2. Now = told(lastError, auth) /\ Now' = told(lastError', Arg)
    BY <1>4 DEF SetAuthentication, Now
  <2>3. \A er : Carries(mode, told(er, auth), told(er, Arg))
    BY <2>1, Says, Pieces, Zenon
  <2>4. \A au : Carries(error, told(lastError, au), told(lastError', au))
    BY Says, Pieces, Zenon
  <2> HIDE DEF told, mode, error
  <2> QED
    BY <2>1, <2>2, <2>3, <2>4, Carried, Announced, Zenon DEF Then
<1>5. CASE SetEndpointUrlRewriteEnabled
  <2>1. Arg \in BOOLEAN
    BY <1>1, <1>5, ArgumentTypes DEF SetEndpointUrlRewriteEnabled
  <2>2. CASE Arg = rewrite
    <3>1. toGui' = toGui
      BY <1>5, <2>2, ConcatEmptySeq DEF SetEndpointUrlRewriteEnabled, Emit
    <3> QED
      BY <1>5, <2>2, <3>1, SilentAnnounces DEF SetEndpointUrlRewriteEnabled, setupVars
  <2>3. CASE Arg # rewrite
    <3> DEFINE after == St(servers, endpoints, connected, opState, lastError, backend, auth, Arg)
    <3>1. Carries(Sig("rewrite", Arg), Now, after)
      BY <2>1, Says, Pieces, Zenon DEF Now
    <3>2. Emit(Sig("rewrite", Arg))
      BY <1>5, <2>3, Zenon DEF SetEndpointUrlRewriteEnabled
    <3>3. Now' = after
      BY <1>5 DEF SetEndpointUrlRewriteEnabled, Now
    <3> QED
      BY <3>1, <3>2, <3>3, Announced, Zenon
  <2> QED
    BY <2>2, <2>3
<1>6. CASE SetBackend /\ Arg = backend
  <2>1. UNCHANGED <<toGui, servers, endpoints, connected, opState, lastError, setupVars>>
    BY <1>6, Zenon DEF SetBackend, listVars
  <2> QED
    BY <2>1, SilentAnnounces, Zenon
<1> QED
  BY <1>2, <1>3, <1>4, <1>5, <1>6

(* The actions that change nothing a listener knows, and those that change     *)
(* only the operation and the error.                                         *)
LEMMA QuietAnnounces ==
  ASSUME toGui \in Seq(Heard),
         \/ RunFindServers \/ RunRequestEndpoints \/ RunConnect \/ RunDisconnect
         \/ \E request \in inFlight : BackendAnswers(request)
         \/ SessionOpens \/ SessionLost \/ SessionCloses
  PROVE  \E r : Announces(r)
<1> USE DEF clientVars, listVars
<1>1. CASE RunFindServers \/ RunRequestEndpoints
  BY <1>1, SilentAnnounces, Zenon DEF RunFindServers, RunRequestEndpoints
<1>2. CASE RunConnect \/ RunDisconnect
  BY <1>2, SilentAnnounces, Zenon DEF RunConnect, RunDisconnect
<1>3. CASE \E request \in inFlight : BackendAnswers(request)
  BY <1>3, SilentAnnounces, Zenon DEF BackendAnswers
<1>4. CASE SessionOpens \/ SessionLost \/ SessionCloses
  BY <1>4, SilentAnnounces, Zenon DEF SessionOpens, SessionLost, SessionCloses
<1> QED
  BY <1>1, <1>2, <1>3, <1>4, Zenon

LEMMA FailureAnnounces ==
  ASSUME toGui \in Seq(Heard), opState' \in OperationStates, lastError' \in Errors,
         \/ HandleFindServersDispatchResult \/ HandleFindServersTimeout
         \/ HandleEndpointsDispatchResult \/ HandleEndpointsTimeout
         \/ DisconnectFromServer \/ OnClientStateChanged \/ OnClientErrorChanged \/ SessionFails
  PROVE  \E r : Announces(r)
<1> USE DEF listVars
<1>1. CASE HandleFindServersDispatchResult
  BY <1>1, SilentAnnounces, ProgressAnnounces, Zenon DEF HandleFindServersDispatchResult
<1>2. CASE HandleFindServersTimeout
  BY <1>2, SilentAnnounces, ProgressAnnounces, Zenon DEF HandleFindServersTimeout
<1>3. CASE HandleEndpointsDispatchResult
  BY <1>3, SilentAnnounces, ProgressAnnounces, Zenon DEF HandleEndpointsDispatchResult
<1>4. CASE HandleEndpointsTimeout
  BY <1>4, SilentAnnounces, ProgressAnnounces, Zenon DEF HandleEndpointsTimeout
<1>5. CASE DisconnectFromServer
  BY <1>5, ProgressAnnounces, Zenon DEF DisconnectFromServer
<1>6. CASE OnClientStateChanged
  BY <1>6, ProgressAnnounces, Zenon DEF OnClientStateChanged
<1>7. CASE OnClientErrorChanged
  BY <1>7, ProgressAnnounces, Zenon DEF OnClientErrorChanged
<1>8. CASE SessionFails
  BY <1>8, ProgressAnnounces, Zenon DEF SessionFails
<1> QED
  BY <1>1, <1>2, <1>3, <1>4, <1>5, <1>6, <1>7, <1>8, Zenon

(* What stands in the queue tells what the facade has asked for before.        *)
LEMMA AskedBefore ==
  ASSUME inbox \in Seq(Due)
  PROVE  /\ \A k \in Fetching : Handling(k) => lastUrl # None
         /\ \A k \in Joining : Handling(k) => lastEndpoint # None
<1> SUFFICES ASSUME inbox # <<>>
             PROVE  /\ Head(inbox).kind \in Fetching => lastUrl # None
                    /\ Head(inbox).kind \in Joining => lastEndpoint # None
  BY DEF Handling
<1>1. Head(inbox) \in Due
  BY HeadTailProperties
<1> QED
  BY <1>1 DEF Due

LEMMA AnswersAreAsked ==
  ASSUME inbox \in Seq(Due)
  PROVE  /\ Handling("findReply") \/ Handling("endpoints") \/ Handling("endpointsReply")
            => lastUrl # None
         /\ Handling("clientConnected") => lastEndpoint # None
BY AskedBefore DEF Fetching, Joining

LEMMA FoundAnnounces ==
  ASSUME TypeOK, inbox \in Seq(Due), toGui \in Seq(Heard),
         opState' \in OperationStates, lastError' \in Errors, FindServersComplete
  PROVE  \E r : Announces(r)
<1>1. inbox \in Seq(Messages)
  BY DEF TypeOK
<1>2. Arg \in Urls /\ lastUrl # None
  BY <1>1, ArgumentTypes, AnswersAreAsked, Zenon DEF FindServersComplete
<1>3. CASE StaleFindReply
  BY <1>3, SilentAnnounces, Zenon DEF FindServersComplete
<1>4. CASE ~StaleFindReply /\ ~Head(inbox).good
  BY <1>4, ProgressAnnounces, Zenon DEF FindServersComplete
<1>5. CASE ~StaleFindReply /\ Head(inbox).good
  <2> DEFINE told(sv, op) == St(sv, endpoints, connected, op, lastError, backend, auth, rewrite)
  <2>1. Carries(OpSig(opState, "Idle"), Now, told(servers, "Idle"))
    BY Says, Pieces, Named, Zenon DEF Now
  <2>2. Carries(Sig("servers", Arg), told(servers, "Idle"), told(Arg, "Idle"))
    BY <1>2, Says, Pieces, Zenon
  <2>3. Emit(OpSig(opState, "Idle") \o Sig("servers", Arg))
    BY <1>5, Zenon DEF FindServersComplete
  <2>4. Now' = told(Arg, "Idle")
    BY <1>5 DEF FindServersComplete, Now, setupVars
  <2> HIDE DEF told
  <2> QED
    BY <2>1, <2>2, <2>3, <2>4, Carried, Announced, Zenon DEF Then
<1> QED
  BY <1>3, <1>4, <1>5

LEMMA RequestAnnounces ==
  ASSUME toGui \in Seq(Heard), lastUrl # None, NEW url \in Urls \cup {BadUrl},
         RequestEndpoints(url), lastError' \in Errors
  PROVE  \E r : Announces(r)
<1> DEFINE busy == "RequestingEndpoints"
           told(ep, op, er) == St(servers, ep, connected, op, er, backend, auth, rewrite)
           lost == IF endpoints = None THEN <<>> ELSE Sig("endpoints", None)
           cleared == OpSig(opState, busy) \o lost \o ErrSig(lastError, NoError)
           wiped == told(None, busy, NoError)
<1>1. Carries(cleared, Now, wiped)
  <2>1. Carries(OpSig(opState, busy), Now, told(endpoints, busy, lastError))
    BY Says, Pieces, Named, Zenon DEF Now
  <2>2. Carries(lost, told(endpoints, busy, lastError), told(None, busy, lastError))
    BY Says, Pieces, Nothing, Zenon
  <2>3. Carries(ErrSig(lastError, NoError), told(None, busy, lastError), wiped)
    BY Says, Pieces, Named, Zenon
  <2> HIDE DEF lost, told
  <2> QED
    BY <2>1, <2>2, <2>3, CarriedThree, Zenon
<1>2. Now' = told(endpoints', opState', lastError')
  BY DEF RequestEndpoints, Now, setupVars
<1>3. \/ /\ Emit(cleared \o Sig("lastError", lastError') \o Sig("operationState", "Idle"))
         /\ endpoints' = None /\ opState' = "Idle"
      \/ /\ Emit(cleared \o Sig("operationState", "Idle") \o Sig("endpoints", url))
         /\ endpoints' = url /\ opState' = "Idle" /\ lastError' = NoError /\ url # BadUrl
      \/ /\ Emit(cleared)
         /\ endpoints' = None /\ opState' = busy /\ lastError' = NoError
  BY Zenon DEF RequestEndpoints
<1> HIDE DEF cleared
<1>4. CASE /\ Emit(cleared \o Sig("lastError", lastError') \o Sig("operationState", "Idle"))
           /\ endpoints' = None /\ opState' = "Idle"
  <2>1. Carries(Sig("lastError", lastError'), wiped, told(None, busy, lastError'))
    BY Says, Pieces, Zenon
  <2>2. Carries(Sig("operationState", "Idle"), told(None, busy, lastError'),
                told(None, "Idle", lastError'))
    BY Says, Pieces, Named, Zenon
  <2>3. Carries(cleared \o Sig("lastError", lastError') \o Sig("operationState", "Idle"), Now,
                told(None, "Idle", lastError'))
    BY <1>1, <2>1, <2>2, CarriedThree, Zenon
  <2> QED
    BY <1>2, <1>4, <2>3, Announced, Zenon
<1>5. CASE /\ Emit(cleared \o Sig("operationState", "Idle") \o Sig("endpoints", url))
           /\ endpoints' = url /\ opState' = "Idle" /\ lastError' = NoError /\ url # BadUrl
  <2>1. Carries(Sig("operationState", "Idle"), wiped, told(None, "Idle", NoError))
    BY Says, Pieces, Named, Zenon
  <2>2. Carries(Sig("endpoints", url), told(None, "Idle", NoError), told(url, "Idle", NoError))
    BY <1>5, Says, Pieces, Zenon
  <2>3. Carries(cleared \o Sig("operationState", "Idle") \o Sig("endpoints", url), Now,
                told(url, "Idle", NoError))
    BY <1>1, <2>1, <2>2, CarriedThree, Zenon
  <2> QED
    BY <1>2, <1>5, <2>3, Announced, Zenon
<1>6. CASE /\ Emit(cleared)
           /\ endpoints' = None /\ opState' = busy /\ lastError' = NoError
  BY <1>1, <1>2, <1>6, Announced, Zenon
<1> QED
  BY <1>3, <1>4, <1>5, <1>6, Zenon

LEMMA EndpointsAnnounce ==
  ASSUME TypeOK, NothingYet, inbox \in Seq(Due), toGui \in Seq(Heard),
         opState' \in OperationStates, lastError' \in Errors,
         RequestEndpointsForUrl \/ RequestEndpointsForServer \/ GetEndpointsComplete
  PROVE  \E r : Announces(r)
<1>1. inbox \in Seq(Messages)
  BY DEF TypeOK
<1>2. CASE RequestEndpointsForUrl
  <2>1. Arg \in Urls \cup {BadUrl} /\ lastUrl # None
    BY <1>1, <1>2, ArgumentTypes, AnswersAreAsked, Zenon DEF RequestEndpointsForUrl
  <2> QED
    BY <1>2, <2>1, RequestAnnounces, Zenon DEF RequestEndpointsForUrl
<1>3. CASE RequestEndpointsForServer /\ servers = None
  BY <1>3, ProgressAnnounces, Zenon DEF RequestEndpointsForServer, RequestEndpoints, listVars
<1>4. CASE RequestEndpointsForServer /\ servers # None
  <2>1. servers \in Urls \cup {BadUrl} /\ lastUrl # None
    BY <1>4 DEF TypeOK, NothingYet
  <2> QED
    BY <1>4, <2>1, RequestAnnounces, Zenon DEF RequestEndpointsForServer
<1>5. CASE GetEndpointsComplete
  <2> DEFINE told(ep, op, er) == St(servers, ep, connected, op, er, backend, auth, rewrite)
             lost == IF endpoints = None THEN <<>> ELSE Sig("endpoints", None)
             cleared == OpSig(opState, "Idle") \o lost
  <2>1. Arg \in Urls /\ lastUrl # None
    BY <1>1, <1>5, ArgumentTypes, AnswersAreAsked, Zenon DEF GetEndpointsComplete
  <2>2. Carries(cleared, Now, told(None, "Idle", lastError))
    <3>1. Carries(OpSig(opState, "Idle"), Now, told(endpoints, "Idle", lastError))
      BY Says, Pieces, Named, Zenon DEF Now
    <3>2. Carries(lost, told(endpoints, "Idle", lastError), told(None, "Idle", lastError))
      BY Says, Pieces, Nothing, Zenon
    <3> HIDE DEF lost, told
    <3> QED
      BY <3>1, <3>2, Carried, Zenon DEF Then
  <2>3. Now' = told(endpoints', opState', lastError')
    BY <1>5 DEF GetEndpointsComplete, Now, setupVars
  <2>4. CASE ~epPending \/ Arg # epUrl
    BY <1>5, <2>4, SilentAnnounces, Zenon DEF GetEndpointsComplete
  <2>5. CASE ~(~epPending \/ Arg # epUrl) /\ Head(inbox).good
    <3>1. Carries(Sig("endpoints", Arg), told(None, "Idle", lastError),
                  told(Arg, "Idle", lastError))
      BY <2>1, Says, Pieces, Zenon
    <3>2. /\ Emit(cleared \o Sig("endpoints", Arg))
          /\ endpoints' = Arg /\ opState' = "Idle" /\ lastError' = lastError
      BY <1>5, <2>5, Zenon DEF GetEndpointsComplete
    <3> HIDE DEF cleared, told
    <3> QED
      BY <2>2, <2>3, <3>1, <3>2, Carried, Announced, Zenon DEF Then
  <2>6. CASE ~(~epPending \/ Arg # epUrl) /\ ~Head(inbox).good
    <3>1. Carries(ErrSig(lastError, "endpoints"), told(None, "Idle", lastError),
                  told(None, "Idle", "endpoints"))
      <4>1. "endpoints" \in Errors
        BY Zenon DEF Errors
      <4> QED
        BY <4>1, Says, Pieces, Zenon
    <3>2. /\ Emit(cleared \o ErrSig(lastError, "endpoints"))
          /\ endpoints' = None /\ opState' = "Idle" /\ lastError' = "endpoints"
      BY <1>5, <2>6, Zenon DEF GetEndpointsComplete
    <3> HIDE DEF cleared, told
    <3> QED
      BY <2>2, <2>3, <3>1, <3>2, Carried, Announced, Zenon DEF Then
  <2> QED
    BY <2>4, <2>5, <2>6
<1> QED
  BY <1>2, <1>3, <1>4, <1>5

LEMMA ConnectAnnounces ==
  ASSUME TypeOK, toGui \in Seq(Heard), lastError' \in Errors, ConnectToEndpoint
  PROVE  \E r : Announces(r)
<1> DEFINE told(op, er) == St(servers, endpoints, connected, op, er, backend, auth, rewrite)
<1>1. Carries(ConnectBegan, Now, told("Connecting", NoError))
  <2>1. Carries(ErrSig(lastError, NoError), Now, told(opState, NoError))
    BY Says, Pieces, Named, Zenon DEF Now
  <2>2. Carries(OpSig(opState, "Connecting"), told(opState, NoError), told("Connecting", NoError))
    BY Says, Pieces, Named, Zenon
  <2> QED
    BY <2>1, <2>2, Carried, Zenon DEF Then, ConnectBegan
<1>2. Now' = told(opState', lastError')
  BY DEF ConnectToEndpoint, Now, setupVars, listVars
<1>3. ASSUME NEW e0 \in Errors, NEW e \in Errors, RefuseConnect(e0, e)
      PROVE  \E r : Announces(r)
  <2>1. Carries(ErrSig(NoError, e0), told("Connecting", NoError), told("Connecting", e0))
    BY Says, Pieces, Zenon
  <2>2. Carries(ErrSig(e0, e), told("Connecting", e0), told("Connecting", e))
    BY Says, Pieces, Zenon
  <2>3. Carries(Sig("operationState", "Idle"), told("Connecting", e), told("Idle", e))
    BY Says, Pieces, Named, Zenon
  <2>4. /\ Emit(ConnectBegan \o ErrSig(NoError, e0) \o ErrSig(e0, e)
                 \o Sig("operationState", "Idle"))
        /\ lastError' = e /\ opState' = "Idle"
    BY <1>3, Zenon DEF RefuseConnect
  <2> HIDE DEF told
  <2> QED
    BY <1>1, <1>2, <2>1, <2>2, <2>3, <2>4, CarriedFour, Announced, Zenon
<1>4. ASSUME NEW err \in Errors,
             Emit(ConnectBegan \o ErrSig(NoError, err) \o Sig("operationState", "Disconnecting")),
             lastError' = err, opState' = "Disconnecting"
      PROVE  \E r : Announces(r)
  <2>1. Carries(ErrSig(NoError, err), told("Connecting", NoError), told("Connecting", err))
    BY Says, Pieces, Zenon
  <2>2. Carries(Sig("operationState", "Disconnecting"), told("Connecting", err),
                told("Disconnecting", err))
    BY Says, Pieces, Named, Zenon
  <2> HIDE DEF told
  <2> QED
    BY <1>1, <1>2, <1>4, <2>1, <2>2, CarriedThree, Announced, Zenon
<1>5. ASSUME Emit(ConnectBegan), lastError' = NoError, opState' = "Connecting"
      PROVE  \E r : Announces(r)
  BY <1>1, <1>2, <1>5, Announced, Zenon
<1>6. /\ NoError \in Errors /\ "certificate" \in Errors /\ "client" \in Errors
      /\ "index" \in Errors /\ "auth" \in Errors
  BY Zenon DEF Errors
<1> QED
  BY <1>3, <1>4, <1>5, <1>6, Zenon DEF ConnectToEndpoint

LEMMA SessionAnnounces ==
  ASSUME TypeOK, inbox \in Seq(Due), toGui \in Seq(Heard),
         OnClientConnected \/ OnClientDisconnected
  PROVE  \E r : Announces(r)
<1> DEFINE told(co, op, er) == St(servers, endpoints, co, op, er, backend, auth, rewrite)
<1>1. Carries(OpSig(opState, "Idle"), Now, told(connected, "Idle", lastError))
  BY Says, Pieces, Named, Zenon DEF Now
<1>2. CASE OnClientConnected
  <2>1. lastEndpoint # None
    BY <1>2, AnswersAreAsked, Zenon DEF OnClientConnected
  <2>2. Carries(ErrSig(lastError, NoError), told(connected, "Idle", lastError),
                told(connected, "Idle", NoError))
    BY Says, Pieces, Named, Zenon
  <2>3. Carries(Sig("connected", TRUE), told(connected, "Idle", NoError),
                told(TRUE, "Idle", NoError))
    BY <2>1, Says, Pieces, Zenon
  <2>4. Emit(OpSig(opState, "Idle") \o ErrSig(lastError, NoError) \o Sig("connected", TRUE))
    BY <1>2, Zenon DEF OnClientConnected
  <2>5. Now' = told(TRUE, "Idle", NoError)
    BY <1>2 DEF OnClientConnected, Now, setupVars, listVars
  <2> HIDE DEF told
  <2> QED
    BY <1>1, <2>2, <2>3, <2>4, <2>5, CarriedThree, Announced, Zenon
<1>3. CASE OnClientDisconnected
  <2>1. Carries(Sig("connected", FALSE), told(connected, "Idle", lastError),
                told(FALSE, "Idle", lastError))
    BY Says, Pieces, Zenon
  <2>2. Emit(OpSig(opState, "Idle") \o Sig("connected", FALSE))
    BY <1>3, Zenon DEF OnClientDisconnected
  <2>3. Now' = told(FALSE, "Idle", lastError)
    BY <1>3 DEF OnClientDisconnected, Now, setupVars, listVars
  <2> HIDE DEF told
  <2> QED
    BY <1>1, <2>1, <2>2, <2>3, Carried, Announced, Zenon DEF Then
<1> QED
  BY <1>2, <1>3

-----------------------------------------------------------------------------
(* A step of the service.                                                   *)

(* The error a step leaves.                                                 *)
LEMMA ErrorNamed ==
  ASSUME lastError \in Errors,
         ServiceStep
  PROVE  lastError' \in Errors
<1>1. CASE SetBackend \/ SetAuthentication \/ SetEndpointUrlRewriteEnabled
  BY <1>1, Zenon
  DEF SetBackend, SetAuthentication, SetEndpointUrlRewriteEnabled, Errors, listVars
<1>2. CASE DiscoverServers
  BY <1>2, Zenon
  DEF DiscoverServers, EnsureClient, ClientUnavailable, Errors, listVars
<1>3. CASE RunFindServers \/ HandleFindServersDispatchResult \/ FindServersComplete
  BY <1>3, Zenon
  DEF RunFindServers, HandleFindServersDispatchResult, FindServersComplete, Errors,
      listVars
<1>4. CASE RequestEndpointsForUrl \/ RequestEndpointsForServer
  BY <1>4, Zenon
  DEF RequestEndpointsForUrl, RequestEndpointsForServer, RequestEndpoints,
      EnsureClient, ClientUnavailable, Errors, listVars
<1>5. CASE RunRequestEndpoints \/ HandleEndpointsDispatchResult \/ GetEndpointsComplete
  BY <1>5, Zenon
  DEF RunRequestEndpoints, HandleEndpointsDispatchResult, GetEndpointsComplete,
      Errors, listVars
<1>6. CASE ConnectToEndpoint
  BY <1>6, Zenon
  DEF ConnectToEndpoint, RefuseConnect, EnsureClient, ClientUnavailable, Errors,
      listVars
<1>7. CASE DisconnectFromServer \/ RunConnect \/ RunDisconnect
  BY <1>7, Zenon
  DEF DisconnectFromServer, RunConnect, RunDisconnect, Errors, listVars
<1>8. CASE OnClientConnected \/ OnClientDisconnected \/ OnClientStateChanged \/
             OnClientErrorChanged
  BY <1>8, Zenon
  DEF OnClientConnected, OnClientDisconnected, OnClientStateChanged,
      OnClientErrorChanged, Errors, listVars
<1>9. CASE HandleFindServersTimeout \/ HandleEndpointsTimeout
  BY <1>9, Zenon
  DEF HandleFindServersTimeout, HandleEndpointsTimeout, Errors, listVars
<1>10. CASE SessionOpens \/ SessionFails \/ SessionLost \/ SessionCloses
  BY <1>10, Zenon
  DEF SessionOpens, SessionFails, SessionLost, SessionCloses, Errors, listVars
<1>11. CASE \E request \in inFlight : BackendAnswers(request)
  BY <1>11, Zenon DEF BackendAnswers, Errors, listVars
<1> QED
  BY <1>1, <1>2, <1>3, <1>4, <1>5, <1>6, <1>7, <1>8, <1>9, <1>10, <1>11, Zenon
  DEF ServiceStep, WorkerStep, TimerStep, BackendStep

(* Nothing is listed before a discovery URL is remembered, and no session is    *)
(* under way before an endpoint is.                                          *)
LEMMA ListsWait ==
  ASSUME inbox \in Seq(Due), lastUrl = None,
         servers = None, endpoints = None, inFlight = {},
         ServiceStep
  PROVE  servers' = None /\ endpoints' = None /\ inFlight' = {}
<1>1. \A k \in Fetching : ~Handling(k)
  BY AskedBefore
<1>2. /\ "discover" \in Fetching /\ "endpoints" \in Fetching /\ "runFind" \in Fetching
      /\ "findNotDispatched" \in Fetching /\ "findReply" \in Fetching
      /\ "runEndpoints" \in Fetching /\ "endpointsNotDispatched" \in Fetching
      /\ "endpointsReply" \in Fetching
  BY Zenon DEF Fetching
<1>3. CASE SetBackend \/ SetAuthentication \/ SetEndpointUrlRewriteEnabled
  BY <1>3, <1>1, <1>2, Zenon
  DEF SetBackend, SetAuthentication, SetEndpointUrlRewriteEnabled, listVars
<1>4. CASE DiscoverServers
  BY <1>4, <1>1, <1>2, Zenon
  DEF DiscoverServers, EnsureClient, ClientUnavailable, listVars
<1>5. CASE RunFindServers \/ HandleFindServersDispatchResult \/ FindServersComplete
  BY <1>5, <1>1, <1>2, Zenon
  DEF RunFindServers, HandleFindServersDispatchResult, FindServersComplete, listVars
<1>6. CASE RequestEndpointsForUrl \/ RequestEndpointsForServer
  BY <1>6, <1>1, <1>2, Zenon
  DEF RequestEndpointsForUrl, RequestEndpointsForServer, RequestEndpoints,
      EnsureClient, ClientUnavailable, listVars
<1>7. CASE RunRequestEndpoints \/ HandleEndpointsDispatchResult \/ GetEndpointsComplete
  BY <1>7, <1>1, <1>2, Zenon
  DEF RunRequestEndpoints, HandleEndpointsDispatchResult, GetEndpointsComplete,
      listVars
<1>8. CASE ConnectToEndpoint
  BY <1>8, <1>1, <1>2, Zenon
  DEF ConnectToEndpoint, RefuseConnect, EnsureClient, ClientUnavailable, listVars
<1>9. CASE DisconnectFromServer \/ RunConnect \/ RunDisconnect
  BY <1>9, <1>1, <1>2, Zenon
  DEF DisconnectFromServer, RunConnect, RunDisconnect, listVars
<1>10. CASE OnClientConnected \/ OnClientDisconnected \/ OnClientStateChanged \/
             OnClientErrorChanged
  BY <1>10, <1>1, <1>2, Zenon
  DEF OnClientConnected, OnClientDisconnected, OnClientStateChanged,
      OnClientErrorChanged, listVars
<1>11. CASE HandleFindServersTimeout \/ HandleEndpointsTimeout
  BY <1>11, <1>1, <1>2, Zenon
  DEF HandleFindServersTimeout, HandleEndpointsTimeout, listVars
<1>12. CASE SessionOpens \/ SessionFails \/ SessionLost \/ SessionCloses
  BY <1>12, <1>1, <1>2, Zenon
  DEF SessionOpens, SessionFails, SessionLost, SessionCloses, listVars
<1>13. CASE \E request \in inFlight : BackendAnswers(request)
  BY <1>13, <1>1, <1>2, Zenon DEF BackendAnswers, listVars
<1> QED
  BY <1>3, <1>4, <1>5, <1>6, <1>7, <1>8, <1>9, <1>10, <1>11, <1>12, <1>13, Zenon
  DEF ServiceStep, WorkerStep, TimerStep, BackendStep

LEMMA SessionWaits ==
  ASSUME inbox \in Seq(Due), lastEndpoint = None,
         cliState = "Disconnected", connected = FALSE,
         ServiceStep
  PROVE  cliState' = "Disconnected" /\ connected' = FALSE
<1>1. \A k \in Joining : ~Handling(k)
  BY AskedBefore
<1>2. "connect" \in Joining /\ "runConnect" \in Joining /\ "clientConnected" \in Joining
  BY Zenon DEF Joining
<1>3. "Disconnected" # "Connecting" /\ "Disconnected" # "Connected" /\ "Disconnected" # "Closing"
  OBVIOUS
<1>4. CASE SetBackend \/ SetAuthentication \/ SetEndpointUrlRewriteEnabled
  BY <1>4, <1>1, <1>2, <1>3, Zenon
  DEF SetBackend, SetAuthentication, SetEndpointUrlRewriteEnabled, clientVars
<1>5. CASE DiscoverServers
  BY <1>5, <1>1, <1>2, <1>3, Zenon
  DEF DiscoverServers, EnsureClient, ClientUnavailable, clientVars
<1>6. CASE RunFindServers \/ HandleFindServersDispatchResult \/ FindServersComplete
  BY <1>6, <1>1, <1>2, <1>3, Zenon
  DEF RunFindServers, HandleFindServersDispatchResult, FindServersComplete, clientVars
<1>7. CASE RequestEndpointsForUrl \/ RequestEndpointsForServer
  BY <1>7, <1>1, <1>2, <1>3, Zenon
  DEF RequestEndpointsForUrl, RequestEndpointsForServer, RequestEndpoints,
      EnsureClient, ClientUnavailable, clientVars
<1>8. CASE RunRequestEndpoints \/ HandleEndpointsDispatchResult \/ GetEndpointsComplete
  BY <1>8, <1>1, <1>2, <1>3, Zenon
  DEF RunRequestEndpoints, HandleEndpointsDispatchResult, GetEndpointsComplete,
      clientVars
<1>9. CASE ConnectToEndpoint
  BY <1>9, <1>1, <1>2, <1>3, Zenon
  DEF ConnectToEndpoint, RefuseConnect, EnsureClient, ClientUnavailable, clientVars
<1>10. CASE DisconnectFromServer \/ RunConnect \/ RunDisconnect
  BY <1>10, <1>1, <1>2, <1>3, Zenon
  DEF DisconnectFromServer, RunConnect, RunDisconnect, clientVars
<1>11. CASE OnClientConnected \/ OnClientDisconnected \/ OnClientStateChanged \/
             OnClientErrorChanged
  BY <1>11, <1>1, <1>2, <1>3, Zenon
  DEF OnClientConnected, OnClientDisconnected, OnClientStateChanged,
      OnClientErrorChanged, clientVars
<1>12. CASE HandleFindServersTimeout \/ HandleEndpointsTimeout
  BY <1>12, <1>1, <1>2, <1>3, Zenon
  DEF HandleFindServersTimeout, HandleEndpointsTimeout, clientVars
<1>13. CASE SessionOpens \/ SessionFails \/ SessionLost \/ SessionCloses
  BY <1>13, <1>1, <1>2, <1>3, Zenon
  DEF SessionOpens, SessionFails, SessionLost, SessionCloses, clientVars
<1>14. CASE \E request \in inFlight : BackendAnswers(request)
  BY <1>14, <1>1, <1>2, <1>3, Zenon DEF BackendAnswers, clientVars
<1> QED
  BY <1>4, <1>5, <1>6, <1>7, <1>8, <1>9, <1>10, <1>11, <1>12, <1>13, <1>14, Zenon
  DEF ServiceStep, WorkerStep, TimerStep, BackendStep

(* What the service posts, once what it answers was asked for.                *)
LEMMA PostedAreDue ==
  /\ lastUrl # None =>
       /\ \A u \in Urls, c \in Nat : /\ Task("runFind", u, c) \in Due
                                     /\ Task("runEndpoints", u, c) \in Due
                                     /\ Msg("findNotDispatched", u) \in Due
                                     /\ Msg("endpointsNotDispatched", u) \in Due
       /\ \A u \in Urls, good \in BOOLEAN : /\ Reply("findReply", u, good) \in Due
                                            /\ Reply("endpointsReply", u, good) \in Due
  /\ lastEndpoint # None =>
       /\ \A u \in Urls, c \in Nat : Task("runConnect", u, c) \in Due
       /\ Msg("clientConnected", None) \in Due
  /\ \A c \in Nat : Task("runDisconnect", None, c) \in Due
  /\ \A s \in ClientStates : Msg("clientState", s) \in Due
  /\ Msg("clientDisconnected", None) \in Due
  /\ Msg("clientError", None) \in Due
<1>1. /\ \A k, a, c : Task(k, a, c).kind = k
      /\ \A k, a : Msg(k, a).kind = k
      /\ \A k, a, good : Reply(k, a, good).kind = k
  BY DEF Task, Msg, Reply
<1>2. \A m \in Messages : m.kind \notin Fetching \cup Joining => m \in Due
  BY DEF Due
<1>3. \A m \in Messages : m.kind \notin Joining /\ lastUrl # None => m \in Due
  BY DEF Due
<1>4. \A m \in Messages : m.kind \notin Fetching /\ lastEndpoint # None => m \in Due
  BY DEF Due
<1>5. /\ "runDisconnect" \notin Fetching \cup Joining /\ "clientState" \notin Fetching \cup Joining
      /\ "clientDisconnected" \notin Fetching \cup Joining
      /\ "clientError" \notin Fetching \cup Joining
      /\ "runFind" \notin Joining /\ "runEndpoints" \notin Joining
      /\ "findNotDispatched" \notin Joining /\ "endpointsNotDispatched" \notin Joining
      /\ "findReply" \notin Joining /\ "endpointsReply" \notin Joining
      /\ "runConnect" \notin Fetching /\ "clientConnected" \notin Fetching
  BY DEF Fetching, Joining
<1> HIDE DEF Due
<1>6. ASSUME lastUrl # None
      PROVE  /\ \A u \in Urls, c \in Nat : /\ Task("runFind", u, c) \in Due
                                           /\ Task("runEndpoints", u, c) \in Due
                                           /\ Msg("findNotDispatched", u) \in Due
                                           /\ Msg("endpointsNotDispatched", u) \in Due
             /\ \A u \in Urls, good \in BOOLEAN : /\ Reply("findReply", u, good) \in Due
                                                  /\ Reply("endpointsReply", u, good) \in Due
  BY <1>1, <1>3, <1>5, <1>6, PostedTypes
<1>7. ASSUME lastEndpoint # None
      PROVE  /\ \A u \in Urls, c \in Nat : Task("runConnect", u, c) \in Due
             /\ Msg("clientConnected", None) \in Due
  BY <1>1, <1>4, <1>5, <1>7, PostedTypes
<1>8. /\ \A c \in Nat : Task("runDisconnect", None, c) \in Due
      /\ \A s \in ClientStates : Msg("clientState", s) \in Due
      /\ Msg("clientDisconnected", None) \in Due
      /\ Msg("clientError", None) \in Due
  BY <1>1, <1>2, <1>5, PostedTypes
<1> QED
  BY <1>6, <1>7, <1>8, Zenon

(* The shapes a step leaves the queue in.                                    *)
LEMMA QueueStaysDue ==
  ASSUME inbox \in Seq(Due), NEW l \in Due, NEW m \in Due, NEW n \in Due
  PROVE  /\ Append(inbox, l) \in Seq(Due)
         /\ inbox \o <<l, m>> \in Seq(Due)
         /\ inbox \o <<l, m, n>> \in Seq(Due)
         /\ inbox # <<>> => Append(Tail(inbox), l) \in Seq(Due)
<1>1. <<l, m>> \in Seq(Due) /\ <<l, m, n>> \in Seq(Due)
  OBVIOUS
<1>2. inbox # <<>> => Tail(inbox) \in Seq(Due)
  BY HeadTailProperties
<1> QED
  BY <1>1, <1>2, ConcatProperties, AppendProperties

LEMMA DueServed ==
  ASSUME TypeOK, TypeOK', NothingYet, inbox \in Seq(Due), ServiceStep
  PROVE  inbox' \in Seq(Due)
<1>1. inbox \in Seq(Messages) /\ client' \in Nat /\ client \in Nat
  BY DEF TypeOK
<1>2. inbox # <<>> => Tail(inbox) \in Seq(Due)
  BY HeadTailProperties
<1>3. CASE inbox # <<>> /\ Consume
  BY <1>2, <1>3 DEF Consume
<1>4. CASE inbox' = inbox
  BY <1>4
<1>5. ASSUME NEW m \in Due, inbox # <<>>, ConsumeAndPost(m)
      PROVE  inbox' \in Seq(Due)
  BY <1>5, QueueStaysDue DEF ConsumeAndPost
<1>6. \A k : Handling(k) => inbox # <<>>
  BY DEF Handling
<1>7. /\ Handling("discover") \/ Handling("endpoints") \/ Handling("runFind")
         \/ Handling("runEndpoints") => lastUrl # None
      /\ Handling("connect") \/ Handling("runConnect") => lastEndpoint # None
  BY AskedBefore DEF Fetching, Joining
<1>8. CASE SetBackend \/ SetAuthentication \/ SetEndpointUrlRewriteEnabled
  BY <1>3, <1>6, <1>8, Zenon DEF SetBackend, SetAuthentication, SetEndpointUrlRewriteEnabled
<1>9. CASE DiscoverServers
  BY <1>1, <1>3, <1>5, <1>6, <1>7, <1>9, PostedAreDue, Zenon DEF DiscoverServers
<1>10. CASE RunFindServers \/ RunRequestEndpoints
  <2>1. Arg \in Urls
    BY <1>1, <1>10, ArgumentTypes, Zenon DEF RunFindServers, RunRequestEndpoints
  <2> QED
    BY <1>3, <1>5, <1>6, <1>7, <1>10, <2>1, PostedAreDue, Zenon
    DEF RunFindServers, RunRequestEndpoints
<1>11. CASE HandleFindServersDispatchResult \/ FindServersComplete
            \/ HandleEndpointsDispatchResult \/ GetEndpointsComplete
  BY <1>3, <1>6, <1>11, Zenon DEF HandleFindServersDispatchResult, FindServersComplete,
                            HandleEndpointsDispatchResult, GetEndpointsComplete
<1>12. ASSUME NEW url \in Urls \cup {BadUrl}, lastUrl # None, inbox # <<>>, RequestEndpoints(url)
       PROVE  inbox' \in Seq(Due)
  <2>1. Consume \/ (url # BadUrl /\ ConsumeAndPost(Task("runEndpoints", url, client')))
    BY <1>12, Zenon DEF RequestEndpoints
  <2> QED
    BY <1>1, <1>3, <1>5, <1>12, <2>1, PostedAreDue
<1>13. CASE RequestEndpointsForUrl
  BY <1>1, <1>6, <1>7, <1>12, <1>13, ArgumentTypes, Zenon DEF RequestEndpointsForUrl
<1>14. CASE RequestEndpointsForServer
  <2>1. servers # None => servers \in Urls \cup {BadUrl} /\ lastUrl # None
    BY DEF TypeOK, NothingYet
  <2> QED
    BY <1>3, <1>6, <1>12, <1>14, <2>1, Zenon DEF RequestEndpointsForServer
<1>15. CASE ConnectToEndpoint \/ DisconnectFromServer
  <2>1. endpoints # None => endpoints \in Urls
    BY DEF TypeOK
  <2> QED
    BY <1>1, <1>3, <1>5, <1>6, <1>7, <1>15, <2>1, PostedAreDue, Zenon
    DEF ConnectToEndpoint, RefuseConnect, DisconnectFromServer
<1>16. CASE RunConnect \/ RunDisconnect
  <2>1. /\ "Connecting" \in ClientStates /\ "Disconnected" \in ClientStates
        /\ "Closing" \in ClientStates
    BY Zenon DEF ClientStates
  <2> QED
    BY <1>3, <1>5, <1>6, <1>16, <2>1, PostedAreDue, Zenon DEF RunConnect, RunDisconnect
<1>17. CASE OnClientConnected \/ OnClientDisconnected
            \/ OnClientStateChanged \/ OnClientErrorChanged
  BY <1>3, <1>6, <1>17, Zenon DEF OnClientConnected, OnClientDisconnected, OnClientStateChanged,
                            OnClientErrorChanged
<1>18. CASE HandleFindServersTimeout \/ HandleEndpointsTimeout
  BY <1>4, <1>18, Zenon DEF HandleFindServersTimeout, HandleEndpointsTimeout
<1>19. ASSUME NEW request \in inFlight, BackendAnswers(request)
       PROVE  inbox' \in Seq(Due)
  <2>1. request[2] \in Urls /\ lastUrl # None
    BY DEF TypeOK, NothingYet
  <2>2. PICK m \in Due : inbox' = Append(inbox, m)
    BY <1>19, <2>1, PostedAreDue, Zenon DEF BackendAnswers
  <2> QED
    BY <2>2, QueueStaysDue
<1>20. CASE SessionOpens
  <2>1. lastEndpoint # None
    BY <1>20 DEF NothingYet, SessionOpens
  <2>2. "Connected" \in ClientStates
    BY Zenon DEF ClientStates
  <2> QED
    BY <1>20, <2>1, <2>2, PostedAreDue, QueueStaysDue, Zenon DEF SessionOpens
<1>21. CASE SessionFails \/ SessionLost \/ SessionCloses
  <2>1. "Disconnected" \in ClientStates
    BY Zenon DEF ClientStates
  <2> QED
    BY <1>21, <2>1, PostedAreDue, QueueStaysDue, Zenon DEF SessionFails, SessionLost, SessionCloses
<1> QED
  BY <1>8, <1>9, <1>10, <1>11, <1>13, <1>14, <1>15, <1>16, <1>17, <1>18, <1>19, <1>20, <1>21, Zenon
  DEF ServiceStep, WorkerStep, TimerStep, BackendStep

LEMMA ServiceAnnounces ==
  ASSUME ManagerInv, TypeOK', ServiceStep
  PROVE  \E r : Announces(r)
<1>1. TypeOK /\ NothingYet /\ inbox \in Seq(Due) /\ toGui \in Seq(Heard) /\ lastError \in Errors
  BY Zenon DEF ManagerInv, ManagerTypeOK
<1>2. opState' \in OperationStates /\ lastError' \in Errors
  BY <1>1, ErrorNamed DEF TypeOK
<1>3. CASE WorkerStep
  BY <1>1, <1>2, <1>3, SetupAnnounces, DiscoveryAnnounces, QuietAnnounces, FailureAnnounces,
     FoundAnnounces, EndpointsAnnounce, ConnectAnnounces, SessionAnnounces, Zenon DEF WorkerStep
<1>4. CASE TimerStep \/ BackendStep
  BY <1>1, <1>2, <1>4, QuietAnnounces, FailureAnnounces, Zenon DEF TimerStep, BackendStep
<1> QED
  BY <1>3, <1>4, Zenon DEF ServiceStep

LEMMA ServiceKeeps ==
  ASSUME ManagerInv, ServiceActs
  PROVE  ManagerInv'
<1>1. /\ TypeOK /\ NothingYet /\ inbox \in Seq(Due) /\ toGui \in Seq(Heard) /\ lastError \in Errors
      /\ ServiceStep /\ UNCHANGED guiVars
  BY Zenon DEF ManagerInv, ManagerTypeOK, ServiceActs
<1>2. TypeOK'
  BY <1>1, ServiceTyped
<1>3. /\ UNCHANGED <<gServers, gEndpoints, gConnected, gOpState, gError, gBackend, gAuth, gRewrite>>
      /\ UNCHANGED <<stage, target, prompting, lastUrl, lastEndpoint, asked>>
      /\ UNCHANGED <<connection, project>>
  BY <1>1 DEF guiVars, mirrorVars, gSetup, runVars, projVars
<1>4. ManagerTypeOK'
  BY <1>2, <1>3 DEF ManagerInv, ManagerTypeOK
<1>5. lastError' \in Errors /\ gError' \in Errors \cup {"local"}
  BY <1>1, <1>3, ErrorNamed DEF ManagerInv
<1>6. Due' = Due /\ Heard' = Heard
  BY <1>3 DEF Due, Heard
<1>7. inbox' \in Seq(Due')
  BY <1>1, <1>2, <1>6, DueServed
<1>8. toGui' \in Seq(Heard')
  <2>1. PICK r : Announces(r)
    BY <1>2, <1>1, ServiceAnnounces
  <2>2. r \in Seq(Heard) /\ toGui' = toGui \o r
    BY <2>1 DEF Announces, Carries, Told, Emit
  <2> QED
    BY <1>1, <1>6, <2>2, ConcatProperties
<1>9. NothingYet'
  <2>1. lastUrl = None => servers' = None /\ endpoints' = None /\ inFlight' = {}
    BY <1>1, ListsWait DEF NothingYet
  <2>2. lastEndpoint = None => cliState' = "Disconnected" /\ connected' = FALSE
    <3>1. ~connected => connected = FALSE
      BY <1>1 DEF TypeOK
    <3> QED
      BY <1>1, <3>1, SessionWaits, Zenon DEF NothingYet
  <2> QED
    BY <1>1, <1>3, <2>1, <2>2 DEF NothingYet
<1>10. (stage = "AwaitingPassword" => target \in Connections)'
  BY <1>3 DEF ManagerInv
<1> QED
  BY <1>4, <1>5, <1>7, <1>8, <1>9, <1>10 DEF ManagerInv

-----------------------------------------------------------------------------
(* A step of the facade or of the user.                                     *)

LEMMA Delivered ==
  ASSUME toGui \in Seq(Heard)
  PROVE  /\ Delivering("servers") \/ Delivering("endpoints") =>
              Val \in Urls \cup {None} /\ (Val # None => lastUrl # None)
         /\ Delivering("connected") => Val \in BOOLEAN /\ (Val = TRUE => lastEndpoint # None)
         /\ Delivering("operationState") => Val \in OperationStates
         /\ Delivering("lastError") => Val \in Errors
         /\ Delivering("backend") => Val \in Backends
         /\ Delivering("authMode") => Val \in AuthModes
         /\ Delivering("rewrite") => Val \in BOOLEAN
<1> DEFINE h == Head(toGui)
<1> SUFFICES ASSUME toGui # <<>>
             PROVE  /\ h.sig \in {"servers", "endpoints"} =>
                        h.val \in Urls \cup {None} /\ (h.val # None => lastUrl # None)
                    /\ h.sig = "connected" =>
                        h.val \in BOOLEAN /\ (h.val = TRUE => lastEndpoint # None)
                    /\ h.sig = "operationState" => h.val \in OperationStates
                    /\ h.sig = "lastError" => h.val \in Errors
                    /\ h.sig = "backend" => h.val \in Backends
                    /\ h.sig = "authMode" => h.val \in AuthModes
                    /\ h.sig = "rewrite" => h.val \in BOOLEAN
  BY DEF Delivering, Val
<1>1. h \in Heard
  BY HeadTailProperties
<1> HIDE DEF h
<1> QED
  BY <1>1 DEF Heard, Signals

(* Commands posted in a step that leaves them due.                           *)
Orders(c) == c \in Seq(Commands \cap Due') /\ PostAll(c)

LEMMA OrdersAreDue ==
  /\ \A on \in BOOLEAN, b \in Backends :
       Msg("setRewrite", on) \in Commands \cap Due' /\ Msg("setBackend", b) \in Commands \cap Due'
  /\ \A m \in AuthModes : Msg("setAuth", m) \in Commands \cap Due'
  /\ Msg("endpointsForServer", None) \in Commands \cap Due'
  /\ Msg("disconnect", None) \in Commands \cap Due'
  /\ lastUrl' # None => \A u \in Urls : Msg("discover", u) \in Commands \cap Due'
  /\ lastEndpoint' # None => Msg("connect", None) \in Commands \cap Due'
<1>1. \A k, a : Msg(k, a).kind = k
  BY DEF Msg
<1>2. \A m \in Commands : m.kind \notin Fetching \cup Joining => m \in Due'
  BY CommandsAreMessages DEF Due
<1>3. \A m \in Commands : m.kind \notin Joining /\ lastUrl' # None => m \in Due'
  BY CommandsAreMessages DEF Due
<1>4. \A m \in Commands : m.kind \notin Fetching /\ lastEndpoint' # None => m \in Due'
  BY CommandsAreMessages DEF Due
<1>5. /\ "setRewrite" \notin Fetching \cup Joining /\ "setBackend" \notin Fetching \cup Joining
      /\ "setAuth" \notin Fetching \cup Joining /\ "disconnect" \notin Fetching \cup Joining
      /\ "endpointsForServer" \notin Fetching \cup Joining
      /\ "discover" \notin Joining /\ "connect" \notin Fetching
  BY DEF Fetching, Joining
<1>6. /\ \A on \in BOOLEAN : Msg("setRewrite", on) \in Commands
      /\ \A b \in Backends : Msg("setBackend", b) \in Commands
      /\ \A m \in AuthModes : Msg("setAuth", m) \in Commands
      /\ Msg("endpointsForServer", None) \in Commands
      /\ Msg("disconnect", None) \in Commands
      /\ \A u \in Urls : Msg("discover", u) \in Commands
      /\ Msg("connect", None) \in Commands
  BY Zenon DEF Commands
<1> HIDE DEF Due
<1>7. /\ \A on \in BOOLEAN : Msg("setRewrite", on) \in Due'
      /\ \A b \in Backends : Msg("setBackend", b) \in Due'
      /\ \A m \in AuthModes : Msg("setAuth", m) \in Due'
      /\ Msg("endpointsForServer", None) \in Due' /\ Msg("disconnect", None) \in Due'
  BY <1>1, <1>2, <1>5, <1>6
<1>8. lastUrl' # None => \A u \in Urls : Msg("discover", u) \in Due'
  BY <1>1, <1>3, <1>5, <1>6
<1>9. lastEndpoint' # None => Msg("connect", None) \in Due'
  BY <1>1, <1>4, <1>5, <1>6
<1> QED
  BY <1>6, <1>7, <1>8, <1>9

(* connectUsingConfig() on a stored connection.                              *)
LEMMA RunPosts ==
  ASSUME NEW config \in Connections, NEW at, NEW before \in Seq(Commands \cap Due'),
         ConnectUsingConfig(config, at, before)
  PROVE  \E c : Orders(c)
<1> DEFINE D == Commands \cap Due'
           setup == <<Msg("setRewrite", config.rewrite), Msg("setBackend", config.backend)>>
<1>1. /\ config.rewrite \in BOOLEAN /\ config.backend \in Backends /\ config.auth \in AuthModes
      /\ config.url \in Urls /\ config.url # None
  BY ServiceAssumption DEF Connections
<1>2. Msg("setRewrite", config.rewrite) \in D /\ Msg("setBackend", config.backend) \in D
      /\ Msg("setAuth", config.auth) \in D
  BY <1>1, OrdersAreDue
<1> HIDE DEF D
<1>3. setup \in Seq(D) /\ before \in Seq(D)
  BY <1>2 DEF D
<1>4. before \o setup \in Seq(D)
  BY <1>3, ConcatProperties
<1>5. before \o setup \o <<Msg("setAuth", config.auth)>> \in Seq(D)
  BY <1>2, <1>4, ConcatProperties, <<Msg("setAuth", config.auth)>> \in Seq(D)
<1>6. \/ PostAll(before)
      \/ PostAll(before \o setup)
      \/ AskDiscovery(before \o setup \o <<Msg("setAuth", config.auth)>>, config.url)
  BY Zenon DEF ConnectUsingConfig
<1>7. CASE PostAll(before) \/ PostAll(before \o setup)
  BY <1>3, <1>4, <1>7, Zenon DEF Orders, D
<1>8. CASE AskDiscovery(before \o setup \o <<Msg("setAuth", config.auth)>>, config.url)
  <2> DEFINE last == <<Msg("discover", config.url)>>
             first == before \o setup \o <<Msg("setAuth", config.auth)>>
  <2>1. lastUrl' # None /\ PostAll(first \o last)
    BY <1>1, <1>8 DEF AskDiscovery
  <2>2. Msg("discover", config.url) \in D
    BY <1>1, <2>1, OrdersAreDue DEF D
  <2>3. last \in Seq(D)
    BY <2>2
  <2> HIDE DEF first, last
  <2>4. first \o last \in Seq(D)
    BY <1>5, <2>3, ConcatProperties DEF first
  <2> QED
    BY <2>1, <2>4, Zenon DEF Orders, D
<1> QED
  BY <1>6, <1>7, <1>8

(* No command, one command, and those of a run.                              *)
LEMMA FewPosted ==
  ASSUME inbox \in Seq(Messages)
  PROVE  /\ UNCHANGED inbox => \E c : Orders(c)
         /\ PostAll(<<>>) => \E c : Orders(c)
         /\ \A m \in Commands \cap Due' : PostAll(<<m>>) => \E c : Orders(c)
         /\ \A m \in Commands \cap Due', n \in Commands \cap Due' :
              PostAll(<<m, n>>) => \E c : Orders(c)
<1>1. <<>> \in Seq(Commands \cap Due') /\ (UNCHANGED inbox => PostAll(<<>>))
  BY EmptySeq, ConcatEmptySeq DEF PostAll
<1>2. \A m \in Commands \cap Due', n \in Commands \cap Due' :
        <<m>> \in Seq(Commands \cap Due') /\ <<m, n>> \in Seq(Commands \cap Due')
  OBVIOUS
<1> QED
  BY <1>1, <1>2, Zenon DEF Orders

LEMMA FacadePosts ==
  ASSUME inbox \in Seq(Messages), toGui \in Seq(Heard), FacadeStep
  PROVE  /\ \E c : Orders(c)
         /\ toGui # <<>> /\ toGui' = Tail(toGui) /\ UNCHANGED svcOnly
<1> USE DEF Delivering
<1>1. CASE ApplyServers
  BY <1>1, FewPosted, OrdersAreDue, Zenon DEF ApplyServers
<1>2. CASE ApplyEndpoints
  <2>1. Val # None => lastEndpoint' # None \/ UNCHANGED inbox
    BY <1>2, Zenon DEF ApplyEndpoints, AskConnect
  <2> QED
    BY <1>2, <2>1, FewPosted, OrdersAreDue, Zenon DEF ApplyEndpoints, AskConnect
<1>3. CASE ApplyConnected
  BY <1>3, FewPosted, Zenon DEF ApplyConnected
<1>4. CASE ApplyOperationState \/ ApplyBackend \/ ApplyAuthMode \/ ApplyEndpointUrlRewriteEnabled
  BY <1>4, FewPosted, Zenon
  DEF ApplyOperationState, ApplyBackend, ApplyAuthMode, ApplyEndpointUrlRewriteEnabled
<1>5. CASE ApplyLastError
  BY <1>5, FewPosted, Zenon DEF ApplyLastError
<1> QED
  BY <1>1, <1>2, <1>3, <1>4, <1>5, Zenon DEF FacadeStep

LEMMA UserPosts ==
  ASSUME ManagerTypeOK, stage = "AwaitingPassword" => target \in Connections, UserStep
  PROVE  (\E c : Orders(c)) /\ UNCHANGED <<svcOnly, toGui>>
<1> USE ManagerAssumption, ServiceAssumption
<1>1. inbox \in Seq(Messages)
  BY DEF ManagerTypeOK, TypeOK
<1>2. <<>> \in Seq(Commands \cap Due') /\ ReleaseSession \in Seq(Commands \cap Due')
  <2>1. Msg("disconnect", None) \in Commands \cap Due'
    BY OrdersAreDue
  <2>2. \A m \in Commands \cap Due' : <<m>> \in Seq(Commands \cap Due')
    OBVIOUS
  <2>3. <<>> \in Seq(Commands \cap Due')
    BY EmptySeq
  <2> QED
    BY <2>1, <2>2, <2>3, Zenon DEF ReleaseSession
<1>3. CASE ConnectToLast
  <2>1. connection \in Connections
    BY <1>3, Zenon DEF ManagerTypeOK, ConnectToLast
  <2> QED
    BY <1>2, <1>3, <2>1, RunPosts, Zenon DEF ConnectToLast
<1>4. CASE ConnectToLocalEndpoint
  <2>1. Local \in Connections
    BY <1>4, Zenon DEF ConnectToLocalEndpoint
  <2> QED
    BY <1>2, <1>4, <2>1, RunPosts, Zenon DEF ConnectToLocalEndpoint
<1>5. CASE ProvideReconnectPassword
  <2>1. CASE stage = "AwaitingPassword"
    <3>1. target.url \in Urls /\ target.url # None
      BY <2>1 DEF ManagerTypeOK, Connections
    <3>2. lastUrl' = target.url
          /\ PostAll(<<Msg("setAuth", "username")>> \o <<Msg("discover", target.url)>>)
      BY <1>5, <2>1, Zenon DEF ProvideReconnectPassword, AskDiscovery
    <3>3. /\ Msg("setAuth", "username") \in Commands \cap Due'
          /\ Msg("discover", target.url) \in Commands \cap Due'
      <4>1. "username" \in AuthModes
        BY Zenon DEF AuthModes
      <4> QED
        BY <3>1, <3>2, <4>1, OrdersAreDue, Zenon
    <3> DEFINE first == <<Msg("setAuth", "username")>>
               last  == <<Msg("discover", target.url)>>
    <3>4. first \in Seq(Commands \cap Due') /\ last \in Seq(Commands \cap Due')
      BY <3>3
    <3> HIDE DEF first, last
    <3>5. first \o last \in Seq(Commands \cap Due')
      BY <3>4, ConcatProperties
    <3> QED
      BY <1>5, <3>2, <3>5, Zenon DEF ProvideReconnectPassword, Orders, first, last
  <2>2. CASE stage # "AwaitingPassword"
    BY <1>1, <1>5, <2>2, FewPosted, Zenon DEF ProvideReconnectPassword
  <2> QED
    BY <2>1, <2>2
<1>6. CASE CancelPassword
  BY <1>1, <1>6, FewPosted
  DEF CancelPassword, svcVars, svcOnly, setupVars, clientVars, findVars, epVars, listVars
<1>7. CASE UserDiscovers
  <2>1. PICK url \in Urls : AskDiscovery(<<>>, url)
    BY <1>7, Zenon DEF UserDiscovers
  <2>2. lastUrl' # None /\ PostAll(<<Msg("discover", url)>>)
    <3>1. <<>> \o <<Msg("discover", url)>> = <<Msg("discover", url)>>
      OBVIOUS
    <3>2. lastUrl' = url /\ PostAll(<<>> \o <<Msg("discover", url)>>)
      BY <2>1, Zenon DEF AskDiscovery
    <3> QED
      BY <3>1, <3>2
  <2> QED
    BY <1>1, <1>7, <2>2, FewPosted, OrdersAreDue, Zenon DEF UserDiscovers
<1>8. CASE UserRequestsEndpoints
  BY <1>1, <1>8, FewPosted, OrdersAreDue, Zenon DEF UserRequestsEndpoints
<1>9. CASE UserConnects
  <2>1. lastEndpoint' # None /\ PostAll(<<Msg("connect", None)>>)
    BY <1>9, Zenon DEF UserConnects, AskConnect
  <2> QED
    BY <1>1, <1>9, <2>1, FewPosted, OrdersAreDue, Zenon DEF UserConnects
<1>10. CASE UserDisconnects \/ UserPicksBackend
  BY <1>1, <1>10, FewPosted, OrdersAreDue, Zenon DEF UserDisconnects, UserPicksBackend
<1>11. CASE UserMeetsLocalError
  BY <1>1, <1>11, FewPosted
  DEF UserMeetsLocalError, svcVars, svcOnly, setupVars, clientVars, findVars, epVars, listVars
<1>12. ASSUME NEW p \in Projects, OpenProject(p)
       PROVE  (\E c : Orders(c)) /\ UNCHANGED <<svcOnly, toGui>>
  <2>1. Stored[p] = None \/ Stored[p] \in Connections
    BY <1>12
  <2> QED
    BY <1>1, <1>2, <1>12, <2>1, RunPosts, Zenon DEF OpenProject, Orders
<1>13. CASE CloseProject
  BY <1>1, <1>2, <1>13, Zenon DEF CloseProject, Orders
<1> QED
  BY <1>3, <1>4, <1>5, <1>6, <1>7, <1>8, <1>9, <1>10, <1>11, <1>12, <1>13, Zenon DEF UserStep

LEMMA OrdersAreGui ==
  ASSUME inbox \in Seq(Messages), NEW c, Orders(c), UNCHANGED svcOnly,
         toGui' = toGui \/ (toGui # <<>> /\ toGui' = Tail(toGui))
  PROVE  GuiStep
<1> DEFINE n == Len(inbox)
           k == Len(c)
<1>1. c \in Seq(Commands) /\ c \in Seq(Messages) /\ inbox' = inbox \o c
  <2>1. c \in Seq(Commands \cap Due')
    BY DEF Orders
  <2> QED
    BY <2>1, CommandsAreMessages, SeqMonotonic DEF Orders, PostAll
<1>2. /\ Len(inbox') = n + k /\ n \in Nat /\ k \in Nat
      /\ \A i \in 1 .. n + k : inbox'[i] = IF i <= n THEN inbox[i] ELSE c[i - n]
  BY <1>1, ConcatProperties, LenProperties
<1> DEFINE posted == SubSeq(inbox', n + 1, n + k)
<1>3. posted = c
  <2>1. CASE k = 0
    <3>1. posted = <<>>
      BY <1>2, <2>1, SubSeqEmpty
    <3>2. c = <<>>
      BY <1>1, <2>1, EmptySeq
    <3> QED
      BY <3>1, <3>2
  <2>2. CASE k # 0
    <3>1. n + 1 \in n + 1 .. n + k /\ n + k \in n + 1 .. n + k
      BY <1>2, <2>2
    <3>2. posted = SubSeq(c, n + 1 - n, n + k - n)
      BY <1>1, <3>1, SubSeqOfConcat2
    <3>3. n + 1 - n = 1 /\ n + k - n = k
      BY <1>2
    <3>4. SubSeq(c, 1, k) = c
      BY <1>1, SubSeqFull
    <3> QED
      BY <3>2, <3>3, <3>4
  <2> QED
    BY <2>1, <2>2
<1> HIDE DEF posted
<1>4. posted \in Seq(Commands) /\ inbox' = inbox \o posted
  BY <1>1, <1>3
<1> QED
  BY <1>2, <1>4 DEF GuiStep, svcOnly, posted

(* Every step of the facade and of the user is one the service allows.        *)
LEMMA ActsAsGui ==
  ASSUME ManagerInv, FacadeStep \/ UserStep
  PROVE  GuiStep
<1>1. /\ ManagerTypeOK /\ inbox \in Seq(Messages) /\ toGui \in Seq(Heard)
      /\ stage = "AwaitingPassword" => target \in Connections
  BY DEF ManagerInv, ManagerTypeOK, TypeOK
<1>2. /\ \E c : Orders(c)
      /\ UNCHANGED svcOnly /\ (toGui' = toGui \/ (toGui # <<>> /\ toGui' = Tail(toGui)))
  BY <1>1, FacadePosts, UserPosts, Zenon
<1> QED
  BY <1>1, <1>2, OrdersAreGui

(* The facade's own part of the invariant, and that it forgets no URL.        *)
FacadeTypes ==
  /\ gServers \in Urls \cup {None} /\ gEndpoints \in Urls \cup {None}
  /\ gConnected \in BOOLEAN /\ gOpState \in OperationStates /\ gError \in Errors \cup {"local"}
  /\ gBackend \in Backends /\ gAuth \in AuthModes /\ gRewrite \in BOOLEAN
  /\ stage \in Running \cup {"Idle", "AwaitingPassword"}
  /\ target \in Connections \cup {None} /\ prompting \in BOOLEAN
  /\ lastUrl \in Urls \cup {None} /\ lastEndpoint \in Urls \cup {None}
  /\ connection \in Connections \cup {None}
  /\ project \in Projects \cup {None} /\ asked \in Projects \cup {None}
  /\ lastUrl = None => gServers = None /\ gEndpoints = None /\ lastEndpoint = None
  /\ lastEndpoint = None => ~gConnected
  /\ stage = "AwaitingPassword" => target \in Connections

Remembers == (lastUrl # None => lastUrl' # None) /\ (lastEndpoint # None => lastEndpoint' # None)

LEMMA StagesNamed ==
  /\ "Idle" \in Running \cup {"Idle", "AwaitingPassword"}
  /\ "RequestingEndpoints" \in Running \cup {"Idle", "AwaitingPassword"}
  /\ "Connecting" \in Running \cup {"Idle", "AwaitingPassword"}
  /\ "DiscoveringServers" \in Running \cup {"Idle", "AwaitingPassword"}
  /\ "Idle" # "AwaitingPassword" /\ "RequestingEndpoints" # "AwaitingPassword"
  /\ "Connecting" # "AwaitingPassword" /\ "DiscoveringServers" # "AwaitingPassword"
BY DEF Running

LEMMA FacadeKeepsTypes ==
  ASSUME FacadeTypes, toGui \in Seq(Heard), FacadeStep
  PROVE  FacadeTypes' /\ Remembers
<1> USE DEF FacadeTypes, Remembers, projVars, gSetup, runVars
<1>1. CASE ApplyServers
  <2>1. Val \in Urls \cup {None} /\ (Val # None => lastUrl # None)
    BY <1>1, Delivered DEF ApplyServers
  <2>2. gServers' = Val /\ stage' \in {stage, "RequestingEndpoints"}
    BY <1>1 DEF ApplyServers
  <2> QED
    BY <1>1, <2>1, <2>2, StagesNamed DEF ApplyServers
<1>2. CASE ApplyEndpoints
  <2>1. Val \in Urls \cup {None} /\ (Val # None => lastUrl # None)
    BY <1>2, Delivered DEF ApplyEndpoints
  <2>2. /\ gEndpoints' = Val
        /\ \/ stage' = "Connecting" /\ Val # None /\ lastEndpoint' = Val /\ asked' = project
           \/ UNCHANGED <<stage, lastEndpoint, asked>>
    BY <1>2, Zenon DEF ApplyEndpoints, AskConnect
  <2> QED
    BY <1>2, <2>1, <2>2, StagesNamed DEF ApplyEndpoints
<1>3. CASE ApplyConnected
  <2>1. Val \in BOOLEAN /\ (Val = TRUE => lastEndpoint # None)
    BY <1>3, Delivered DEF ApplyConnected
  <2>2. /\ gConnected' = Val
        /\ \/ UNCHANGED <<stage, connection>>
           \/ /\ Val = TRUE /\ stage' = "Idle"
              /\ connection' = [url |-> lastUrl, endpoint |-> lastEndpoint, auth |-> gAuth,
                                backend |-> gBackend, rewrite |-> gRewrite]
    BY <1>3, <2>1 DEF ApplyConnected
  <2>3. Val = TRUE => [url |-> lastUrl, endpoint |-> lastEndpoint, auth |-> gAuth,
                       backend |-> gBackend, rewrite |-> gRewrite] \in Connections
    BY <2>1 DEF Connections
  <2> QED
    BY <1>3, <2>1, <2>2, <2>3, StagesNamed DEF ApplyConnected
<1>4. CASE ApplyOperationState \/ ApplyBackend \/ ApplyAuthMode \/ ApplyEndpointUrlRewriteEnabled
  BY <1>4, Delivered
  DEF ApplyOperationState, ApplyBackend, ApplyAuthMode, ApplyEndpointUrlRewriteEnabled
<1>5. CASE ApplyLastError
  <2>1. Val \in Errors
    BY <1>5, Delivered DEF ApplyLastError
  <2>2. gError' = Val /\ stage' \in {stage, "Idle"}
    BY <1>5 DEF ApplyLastError, ErrorEndsRun
  <2> QED
    BY <1>5, <2>1, <2>2, StagesNamed DEF ApplyLastError
<1> QED
  BY <1>1, <1>2, <1>3, <1>4, <1>5, Zenon DEF FacadeStep

(* connectUsingConfig() from a stage other than the password's.                *)
LEMMA RunKeepsTypes ==
  ASSUME FacadeTypes, NEW config \in Connections, NEW at, NEW before,
         at \in {stage, "Idle"}, ConnectUsingConfig(config, at, before),
         UNCHANGED <<mirrorVars, lastEndpoint, asked>>,
         connection' \in Connections \cup {None}, project' \in Projects \cup {None}
  PROVE  FacadeTypes' /\ Remembers
<1>1. config.url \in Urls /\ config.url # None
  BY ServiceAssumption DEF Connections
<1>2. \/ stage' = at /\ UNCHANGED <<target, lastUrl>>
      \/ /\ target' = config
         /\ \/ stage' = "AwaitingPassword" /\ UNCHANGED lastUrl
            \/ stage' = "DiscoveringServers" /\ lastUrl' = config.url
  BY Zenon DEF ConnectUsingConfig, AskDiscovery
<1>3. prompting' \in BOOLEAN
  <2>1. prompting' = prompting \/ prompting' = TRUE
    BY Zenon DEF ConnectUsingConfig
  <2> QED
    BY <2>1, Zenon DEF FacadeTypes
<1>4. UNCHANGED <<gServers, gEndpoints, gConnected, gOpState, gError, gBackend, gAuth, gRewrite>>
  BY Zenon DEF mirrorVars, gSetup
<1> QED
  BY <1>1, <1>2, <1>3, <1>4, StagesNamed DEF FacadeTypes, Remembers

LEMMA UserKeepsTypes ==
  ASSUME FacadeTypes, UserStep
  PROVE  FacadeTypes' /\ Remembers
<1> USE ManagerAssumption, ServiceAssumption
<1>0. stage \in {stage, "Idle"} /\ "Idle" \in {stage, "Idle"}
  OBVIOUS
<1>1. CASE ConnectToLast
  <2>1. connection \in Connections /\ UNCHANGED projVars
    BY <1>1, Zenon DEF FacadeTypes, ConnectToLast
  <2>2. connection' \in Connections \cup {None} /\ project' \in Projects \cup {None}
    BY <2>1 DEF FacadeTypes, projVars
  <2>3. UNCHANGED <<mirrorVars, lastEndpoint, asked>>
    BY <1>1, Zenon DEF ConnectToLast
  <2> QED
    <3>1. ConnectUsingConfig(connection, stage, <<>>)
      BY <1>1, Zenon DEF ConnectToLast
    <3> QED
      BY <1>0, <2>1, <2>2, <2>3, <3>1, RunKeepsTypes
<1>2. CASE ConnectToLocalEndpoint
  <2>1. Local \in Connections /\ UNCHANGED projVars
    BY <1>2, Zenon DEF ConnectToLocalEndpoint
  <2>2. connection' \in Connections \cup {None} /\ project' \in Projects \cup {None}
    BY <2>1 DEF FacadeTypes, projVars
  <2>3. UNCHANGED <<mirrorVars, lastEndpoint, asked>>
    BY <1>2, Zenon DEF ConnectToLocalEndpoint
  <2> QED
    <3>1. ConnectUsingConfig(Local, stage, <<>>)
      BY <1>2, Zenon DEF ConnectToLocalEndpoint
    <3> QED
      BY <1>0, <2>1, <2>2, <2>3, <3>1, RunKeepsTypes
<1>3. CASE ProvideReconnectPassword
  <2>1. \/ UNCHANGED <<stage, lastUrl>>
        \/ stage = "AwaitingPassword" /\ stage' = "DiscoveringServers" /\ lastUrl' = target.url
    BY <1>3, Zenon DEF ProvideReconnectPassword, AskDiscovery
  <2>2. target \in Connections => target.url \in Urls /\ target.url # None
    BY DEF Connections
  <2>3. prompting' \in BOOLEAN /\ UNCHANGED <<mirrorVars, target, lastEndpoint, asked, projVars>>
    BY <1>3, Zenon DEF ProvideReconnectPassword
  <2> QED
    BY <2>1, <2>2, <2>3, StagesNamed DEF FacadeTypes, Remembers, mirrorVars, gSetup, projVars
<1>4. CASE CancelPassword
  <2>1. /\ prompting' \in BOOLEAN
        /\ UNCHANGED <<mirrorVars, stage, target, lastUrl, lastEndpoint, asked, projVars>>
    BY <1>4, Zenon DEF CancelPassword
  <2> QED
    BY <2>1 DEF FacadeTypes, Remembers, mirrorVars, gSetup, projVars
<1>5. CASE UserDiscovers
  <2>1. lastUrl' \in Urls
    BY <1>5, Zenon DEF UserDiscovers, AskDiscovery
  <2> QED
    BY <1>5, <2>1 DEF FacadeTypes, Remembers, UserDiscovers, mirrorVars, gSetup, projVars
<1>6. CASE UserRequestsEndpoints \/ UserDisconnects \/ UserPicksBackend
  BY <1>6 DEF FacadeTypes, Remembers, UserRequestsEndpoints, UserDisconnects, UserPicksBackend,
              mirrorVars, gSetup, runVars, projVars
<1>7. CASE UserConnects
  <2>1. gEndpoints # None /\ lastEndpoint' = gEndpoints /\ asked' = project
    BY <1>7, Zenon DEF UserConnects, AskConnect
  <2> QED
    BY <1>7, <2>1 DEF FacadeTypes, Remembers, UserConnects, mirrorVars, gSetup, projVars
<1>8. CASE UserMeetsLocalError
  <2>1. gError' = "local" /\ stage' \in {stage, "Idle"}
    BY <1>8 DEF UserMeetsLocalError, ErrorEndsRun
  <2> QED
    BY <1>8, <2>1, StagesNamed DEF FacadeTypes, Remembers, UserMeetsLocalError, gSetup, projVars
<1>9. ASSUME NEW p \in Projects, OpenProject(p)
      PROVE  FacadeTypes' /\ Remembers
  <2>1. project' = p /\ connection' = Stored[p] /\ Stored[p] \in Connections \cup {None}
    BY <1>9 DEF OpenProject
  <2>2. UNCHANGED <<mirrorVars, lastEndpoint, asked>>
    BY <1>9, Zenon DEF OpenProject
  <2>3. CASE Stored[p] # None
    <3>1. ConnectUsingConfig(Stored[p], "Idle", ReleaseSession)
      BY <1>9, <2>3, Zenon DEF OpenProject
    <3> QED
      BY <1>0, <2>1, <2>2, <2>3, <3>1, RunKeepsTypes
  <2>4. CASE Stored[p] = None
    <3>1. stage' = "Idle" /\ UNCHANGED <<target, prompting, lastUrl>>
      BY <1>9, <2>4, Zenon DEF OpenProject
    <3> QED
      BY <2>1, <2>2, <3>1, StagesNamed DEF FacadeTypes, Remembers, mirrorVars, gSetup
  <2> QED
    BY <2>3, <2>4
<1>10. CASE CloseProject
  BY <1>10, StagesNamed DEF FacadeTypes, Remembers, CloseProject, mirrorVars, gSetup
<1> QED
  BY <1>1, <1>2, <1>3, <1>4, <1>5, <1>6, <1>7, <1>8, <1>9, <1>10, Zenon DEF UserStep

LEMMA GuiKeeps ==
  ASSUME ManagerInv, FacadeStep \/ UserStep
  PROVE  ManagerInv'
<1>1. TypeOK /\ NothingYet /\ inbox \in Seq(Due) /\ toGui \in Seq(Heard) /\ inbox \in Seq(Messages)
  BY DEF ManagerInv, ManagerTypeOK, TypeOK
<1>2. TypeOK'
  BY <1>1, ActsAsGui, GuiTyped
<1>3. FacadeTypes
  BY DEF ManagerInv, ManagerTypeOK, NothingYet, FacadeTypes
<1>4. FacadeTypes' /\ Remembers
  BY <1>1, <1>3, FacadeKeepsTypes, UserKeepsTypes
<1>5. /\ \E c : Orders(c)
      /\ UNCHANGED svcOnly /\ (toGui' = toGui \/ (toGui # <<>> /\ toGui' = Tail(toGui)))
  <2>1. ManagerTypeOK /\ (stage = "AwaitingPassword" => target \in Connections)
    BY DEF ManagerInv
  <2> QED
    BY <1>1, <2>1, FacadePosts, UserPosts, Zenon
<1>6. Due \subseteq Due' /\ Heard \subseteq Heard'
  BY <1>4 DEF Due, Heard, Remembers
<1>7. inbox' \in Seq(Due')
  <2>1. PICK c : Orders(c)
    BY <1>5
  <2>2. c \in Seq(Due') /\ inbox' = inbox \o c
    BY <2>1, SeqMonotonic DEF Orders, PostAll
  <2>3. inbox \in Seq(Due')
    BY <1>1, <1>6, SeqMonotonic
  <2> QED
    BY <2>2, <2>3, ConcatProperties
<1>8. toGui' \in Seq(Heard')
  <2>1. toGui \in Seq(Heard')
    BY <1>1, <1>6, SeqMonotonic
  <2> QED
    BY <1>5, <2>1, HeadTailProperties
<1>9. NothingYet' /\ lastError' \in Errors
  BY <1>4, <1>5 DEF ManagerInv, NothingYet, FacadeTypes, Remembers, svcOnly, listVars, clientVars
<1> QED
  BY <1>2, <1>4, <1>7, <1>8, <1>9 DEF ManagerInv, ManagerTypeOK, FacadeTypes

-----------------------------------------------------------------------------
(* The invariant, and how the facade uses the service.                       *)

LEMMA InvInit ==
  ASSUME ManagerInit
  PROVE  ManagerInv
<1> USE DEF ManagerInit
<1>1. TypeOK
  BY InitTyped
<1>2. inbox \in Seq(Due) /\ toGui \in Seq(Heard)
  BY EmptySeq DEF Init
<1>3. ManagerTypeOK
  <2>1. backend \in Backends /\ auth \in AuthModes /\ rewrite \in BOOLEAN
    BY <1>1 DEF TypeOK
  <2> QED
    BY <1>1, <2>1, StagesNamed, Named DEF ManagerTypeOK
<1>4. lastError \in Errors /\ gError \in Errors \cup {"local"}
  BY Named DEF Init
<1>5. NothingYet
  BY Zenon DEF Init, NothingYet
<1> QED
  BY <1>2, <1>3, <1>4, <1>5, StagesNamed DEF ManagerInv

LEMMA InvStep ==
  ASSUME ManagerInv, [ManagerNext]_vars
  PROVE  ManagerInv'
<1>1. CASE ManagerNext
  BY <1>1, ServiceKeeps, GuiKeeps, Zenon DEF ManagerNext
<1>2. CASE UNCHANGED vars
  <2>1. UNCHANGED svcVars /\ UNCHANGED <<mirrorVars, runVars, projVars>>
    BY <1>2, Zenon DEF vars, guiVars
  <2>2. TypeOK'
    BY <2>1 DEF ManagerInv, ManagerTypeOK, TypeOK, svcVars
  <2>3. Due' = Due /\ Heard' = Heard
    BY <2>1 DEF Due, Heard, runVars
  <2>4. ManagerTypeOK'
    BY <2>1, <2>2 DEF ManagerInv, ManagerTypeOK, mirrorVars, gSetup, runVars, projVars
  <2> QED
    BY <2>1, <2>3, <2>4 DEF ManagerInv, NothingYet, svcVars, mirrorVars, runVars
<1> QED
  BY <1>1, <1>2

(* The inductive invariant, which the other theorems use.                    *)
THEOREM ManagerInvariant == ManagerSpec => []ManagerInv
BY InvInit, InvStep, PTL DEF ManagerSpec

(* The facade's types: a captured connection is complete.                    *)
THEOREM ManagerTypes == ManagerSpec => []ManagerTypeOK
<1>1. ManagerInv => ManagerTypeOK
  BY DEF ManagerInv
<1> QED
  BY <1>1, ManagerInvariant, PTL

(* The facade, the user and the reconnect run post the service only commands    *)
(* it knows, with arguments of their types, and take its signals in order: all  *)
(* that is proved of the service holds under the facade.                       *)
THEOREM ManagerUsesService == ManagerSpec => Spec
<1>1. ManagerInit => Init
  BY DEF ManagerInit
<1>2. ManagerInv /\ [ManagerNext]_vars => [Next]_svcVars
  <2> SUFFICES ASSUME ManagerInv, [ManagerNext]_vars
               PROVE  Next \/ UNCHANGED svcVars
    BY Zenon
  <2>1. CASE ServiceActs
    BY <2>1, Zenon DEF ServiceActs, Next
  <2>2. CASE FacadeStep \/ UserStep
    BY <2>2, ActsAsGui, Zenon DEF Next
  <2>3. CASE UNCHANGED vars
    BY <2>3, Zenon DEF vars
  <2> QED
    BY <2>1, <2>2, <2>3, Zenon DEF ManagerNext
<1> QED
  BY <1>1, <1>2, ManagerInvariant, PTL DEF ManagerSpec, Spec

(* So a busy discovery or lookup is watched by its timer and the lists answer   *)
(* the latest request, whatever the facade does.                              *)
THEOREM ManagerKeepsService == ManagerSpec => [](BusyIsWatched /\ ListsAnswerLatestRequest)
BY ManagerUsesService, WatchedAlways, ListsAlwaysLatest, PTL

-----------------------------------------------------------------------------
(* What a waiting signal does to what a mirror will show.                     *)
LEMMA DeliveryReads ==
  ASSUME toGui \in Seq(Heard), toGui # <<>>, NEW k, NEW x
  PROVE  LastOf(k, toGui, x) = LastOf(k, Tail(toGui), IF Head(toGui).sig = k THEN Val ELSE x)
<1> DEFINE h == Head(toGui)
           first == <<h>>
<1>1. h \in Heard /\ Tail(toGui) \in Seq(Heard) /\ toGui = first \o Tail(toGui)
  BY HeadTailProperties
<1>2. first = Sig(h.sig, h.val) /\ first \in Seq(Heard)
  <2>1. h = [sig |-> h.sig, val |-> h.val]
    <3> HIDE DEF h
    <3> QED
      BY <1>1 DEF Heard, Signals
  <2> QED
    BY <1>1, <2>1 DEF Sig
<1>3. LastOf(k, Sig(h.sig, h.val), x) = IF k = h.sig THEN h.val ELSE x
  BY LastOfOne
<1> DEFINE rest == Tail(toGui)
<1> HIDE DEF first, h, rest
<1>4. LastOf(k, first \o rest, x) = LastOf(k, rest, LastOf(k, first, x))
  <2>1. first \in Seq(Heard) /\ rest \in Seq(Heard)
    BY <1>1, <1>2 DEF rest
  <2> QED
    BY <2>1, LastOfTwo
<1> QED
  BY <1>1, <1>2, <1>3, <1>4, Zenon DEF h, rest, Val

LEMMA DeliveryMirrors ==
  ASSUME toGui \in Seq(Heard), toGui # <<>>, toGui' = Tail(toGui), NEW k
  PROVE  /\ Head(toGui).sig = k => \A x : LastOf(k, toGui', Val) = LastOf(k, toGui, x)
         /\ Head(toGui).sig # k => \A x : LastOf(k, toGui', x) = LastOf(k, toGui, x)
BY DeliveryReads

(* What the mirrors will show once the queue is empty.                        *)
Shown == St(Latest("servers", gServers), Latest("endpoints", gEndpoints),
            Latest("connected", gConnected), Latest("operationState", gOpState),
            Latest("lastError", gError), Latest("backend", gBackend),
            Latest("authMode", gAuth), Latest("rewrite", gRewrite))

LEMMA FacadeMirrors ==
  ASSUME toGui \in Seq(Heard), FacadeStep
  PROVE  Shown' = Shown
<1>1. toGui # <<>> /\ toGui' = Tail(toGui)
  BY Zenon DEF FacadeStep, Delivering, ApplyServers, ApplyEndpoints, ApplyConnected,
               ApplyOperationState, ApplyLastError, ApplyBackend, ApplyAuthMode,
               ApplyEndpointUrlRewriteEnabled
<1>2. \A k : Head(toGui).sig = k => \A x : LastOf(k, toGui', Val) = LastOf(k, toGui, x)
  BY <1>1, DeliveryMirrors
<1>3. \A k : Head(toGui).sig # k => \A x : LastOf(k, toGui', x) = LastOf(k, toGui, x)
  BY <1>1, DeliveryMirrors
<1> USE DEF Shown, Latest, gSetup, Delivering
<1>4. CASE ApplyServers
  BY <1>2, <1>3, <1>4 DEF ApplyServers
<1>5. CASE ApplyEndpoints
  BY <1>2, <1>3, <1>5 DEF ApplyEndpoints
<1>6. CASE ApplyConnected
  BY <1>2, <1>3, <1>6 DEF ApplyConnected
<1>7. CASE ApplyOperationState
  BY <1>2, <1>3, <1>7 DEF ApplyOperationState
<1>8. CASE ApplyLastError
  BY <1>2, <1>3, <1>8 DEF ApplyLastError, ErrorEndsRun
<1>9. CASE ApplyBackend
  BY <1>2, <1>3, <1>9 DEF ApplyBackend
<1>10. CASE ApplyAuthMode
  BY <1>2, <1>3, <1>10 DEF ApplyAuthMode
<1>11. CASE ApplyEndpointUrlRewriteEnabled
  BY <1>2, <1>3, <1>11 DEF ApplyEndpointUrlRewriteEnabled
<1> QED
  BY <1>4, <1>5, <1>6, <1>7, <1>8, <1>9, <1>10, <1>11, Zenon DEF FacadeStep

(* A user action leaves them, but for an error of the facade's own.           *)
LEMMA UserMirrors ==
  ASSUME ManagerInv, UserStep
  PROVE  /\ UNCHANGED toGui
         /\ \/ UNCHANGED mirrorVars
            \/ gError' = "local" /\ UNCHANGED <<gServers, gEndpoints, gConnected, gOpState, gSetup>>
<1>1. UNCHANGED toGui
  BY UserPosts, Zenon DEF ManagerInv
<1> QED
  BY <1>1, Zenon
  DEF UserStep, ConnectToLast, ConnectToLocalEndpoint, ProvideReconnectPassword, CancelPassword,
      UserDiscovers, UserRequestsEndpoints, UserConnects, UserDisconnects, UserPicksBackend,
      UserMeetsLocalError, ErrorEndsRun, OpenProject, CloseProject

(* The service's signals bring the mirrors of its state along.               *)
LEMMA ServiceMirrors ==
  ASSUME ManagerInv, TypeOK', ServiceStep
  PROVE  \A k \in Names : \A x : \/ LastOf(k, toGui', x) = Now'[k]
                                 \/ LastOf(k, toGui', x) = LastOf(k, toGui, x) /\ Now'[k] = Now[k]
<1>1. PICK r : Announces(r)
  BY ServiceAnnounces
<1>2. /\ toGui' = toGui \o r /\ r \in Seq(Heard) /\ toGui \in Seq(Heard)
      /\ \A k \in Names : IF Speaks(k, r) THEN Word(k, r) = Now'[k] ELSE Now[k] = Now'[k]
  BY <1>1, Zenon DEF ManagerInv, Announces, Carries, Emit, Told
<1>3. \A k, x : LastOf(k, toGui \o r, x) = LastOf(k, r, LastOf(k, toGui, x))
  BY <1>2, LastOfTwo
<1>4. \A k, x : LastOf(k, toGui', x) = IF Speaks(k, r) THEN Word(k, r) ELSE LastOf(k, toGui, x)
  BY <1>2, <1>3, Heeded, Zenon
<1> QED
  BY <1>2, <1>4

LEMMA MirrorsStep ==
  ASSUME ManagerInv, MirrorsFollow, ManagerNext
  PROVE  MirrorsFollow'
<1>1. CASE ServiceActs
  <2>1. TypeOK'
    BY <1>1, ServiceTyped DEF ManagerInv, ManagerTypeOK, ServiceActs
  <2>2. \A k \in Names : \A x : \/ LastOf(k, toGui', x) = Now'[k]
                                \/ LastOf(k, toGui', x) = LastOf(k, toGui, x) /\ Now'[k] = Now[k]
    <3>1. ServiceStep
      BY <1>1, Zenon DEF ServiceActs
    <3> QED
      BY <2>1, <3>1, ServiceMirrors
  <2>3. UNCHANGED mirrorVars
    BY <1>1 DEF ServiceActs, guiVars
  <2> QED
    BY <2>2, <2>3 DEF MirrorsFollow, Latest, Now, St, Names, mirrorVars, gSetup
<1>2. CASE FacadeStep
  <2>1. Shown' = Shown
    BY <1>2, FacadeMirrors DEF ManagerInv
  <2>2. UNCHANGED svcOnly
    BY <1>2, FacadePosts, Zenon DEF ManagerInv, ManagerTypeOK, TypeOK
  <2> QED
    BY <2>1, <2>2
    DEF MirrorsFollow, Shown, St, svcOnly, setupVars, listVars
<1>3. CASE UserStep
  <2>1. UNCHANGED svcOnly
    BY <1>3, UserPosts, Zenon DEF ManagerInv
  <2>2. CASE UNCHANGED mirrorVars
    BY <1>3, <2>1, <2>2, UserMirrors
    DEF MirrorsFollow, Latest, mirrorVars, gSetup, svcOnly, setupVars, listVars
  <2>3. CASE gError' = "local" /\ UNCHANGED <<gServers, gEndpoints, gConnected, gOpState, gSetup>>
    <3>1. UNCHANGED toGui
      BY <1>3, UserMirrors
    <3>2. LastOf("lastError", toGui, "local") \in {LastOf("lastError", toGui, gError), "local"}
      BY Heeded, Zenon
    <3> QED
      BY <2>1, <2>3, <3>1, <3>2
      DEF MirrorsFollow, Latest, gSetup, svcOnly, setupVars, listVars
  <2> QED
    BY <1>3, <2>2, <2>3, UserMirrors
<1> QED
  BY <1>1, <1>2, <1>3, Zenon DEF ManagerNext

(* No change of what the service announces is lost on the way to the mirrors,  *)
(* whatever the commands, refusals, answers, losses and project switches.      *)
THEOREM MirrorsAlwaysFollow == ManagerSpec => []MirrorsFollow
<1>1. ManagerInit => MirrorsFollow
  <2>1. ASSUME ManagerInit
        PROVE  \A k, x : LastOf(k, toGui, x) = x
    BY <2>1, LastOfOne DEF ManagerInit, Init
  <2> QED
    BY <2>1, Zenon DEF ManagerInit, Init, MirrorsFollow, Latest
<1>2. ManagerInv /\ MirrorsFollow /\ [ManagerNext]_vars => MirrorsFollow'
  <2>1. MirrorsFollow /\ UNCHANGED vars => MirrorsFollow'
    <3> SUFFICES ASSUME MirrorsFollow, UNCHANGED vars
                 PROVE  MirrorsFollow'
      OBVIOUS
    <3>1. UNCHANGED svcVars /\ UNCHANGED mirrorVars
      BY Zenon DEF vars, guiVars
    <3> QED
      BY <3>1 DEF MirrorsFollow, Latest, svcVars, mirrorVars, gSetup
  <2> QED
    BY <2>1, MirrorsStep
<1> QED
  BY <1>1, <1>2, ManagerInvariant, PTL DEF ManagerSpec

-----------------------------------------------------------------------------
(* What a session is believed to be, and what it is.  The three kinds of events  *)
(* the client queues about it are worth more than the flag: the last of them,    *)
(* and not m_clientConnected, tells the state the client is in.                *)

OfKind(kinds)  == {m \in Messages : m.kind \in kinds}
Some(q, A)     == \E i \in DOMAIN q : q[i] \in A
After(q, A, B) == \A i \in DOMAIN q : q[i] \in A => \E j \in DOMAIN q : i < j /\ q[j] \in B

Opened   == OfKind({"clientConnected"})
Ended    == OfKind({"clientDisconnected"})
News     == OfKind({"clientState", "clientConnected", "clientDisconnected"})
Locking  == {m \in OfKind({"clientState"}) : m.arg \in {"Connecting", "Closing"}}
Runs     == OfKind({"runConnect", "runDisconnect"})
Wait     == {"Connecting", "Disconnecting"}
OnTheWay == {"Connecting", "Closing"}

OneBackend == \A a, b \in Backends : a = b

SessionInv ==
  /\ client = 0 => cliState = "Disconnected"
  /\ \A i \in DOMAIN inbox : inbox[i] \in Runs => client # 0 /\ inbox[i].from = client
  /\ cliState \in {"Disconnected", "Connecting"} =>
       After(inbox, Opened, Ended) /\ (connected => Some(inbox, Ended))
  /\ cliState = "Connected" =>
       After(inbox, Ended, Opened) /\ (~connected => Some(inbox, Opened))
  /\ cliState \notin OnTheWay => After(inbox, Locking, News)
  /\ opState \in Wait =>
       \/ cliState \in OnTheWay
       \/ Some(inbox, News \cup OfKind({"runDisconnect"}))
       \/ cliState = "Disconnected" /\ Some(inbox, OfKind({"runConnect"}))

(* d messages are taken off the queue and those of new put behind it.            *)
Moves(d, new) == inbox' = SubSeq(inbox, d + 1, Len(inbox)) \o new

LEMMA QueueMoved ==
  ASSUME inbox \in Seq(Messages), NEW d \in {0, 1}, d <= Len(inbox),
         NEW new \in Seq(Messages), Moves(d, new)
  PROVE  /\ \A i \in DOMAIN inbox' :
              \/ i + d \in DOMAIN inbox /\ inbox'[i] = inbox[i + d]
              \/ \E k \in DOMAIN new : inbox'[i] = new[k]
         /\ \A i \in DOMAIN inbox : i > d => i - d \in DOMAIN inbox' /\ inbox'[i - d] = inbox[i]
         /\ \A k \in DOMAIN new : \E i \in DOMAIN inbox' :
              /\ inbox'[i] = new[k]
              /\ \A j \in DOMAIN inbox : j > d => j - d < i
         /\ DOMAIN inbox = 1..Len(inbox) /\ Len(inbox) \in Nat
         /\ DOMAIN inbox' \subseteq Nat /\ inbox' \in Seq(Messages)
<1>. DEFINE rest == SubSeq(inbox, d + 1, Len(inbox))
<1>1. /\ rest \in Seq(Messages) /\ Len(rest) = Len(inbox) - d
      /\ \A i \in 1..Len(rest) : rest[i] = inbox[i + d]
      /\ Len(inbox) \in Nat /\ DOMAIN inbox = 1..Len(inbox)
  BY SubSeqProperties
<1>2. /\ inbox' = rest \o new /\ Len(new) \in Nat /\ DOMAIN new = 1..Len(new)
  BY DEF Moves
<1>. HIDE DEF rest
<1>3. /\ inbox' \in Seq(Messages) /\ Len(inbox') = Len(rest) + Len(new)
      /\ \A i \in 1..Len(rest) : inbox'[i] = rest[i]
      /\ \A i \in 1..Len(new) : inbox'[i + Len(rest)] = new[i]
  <2>1. /\ inbox' \in Seq(Messages) /\ Len(inbox') = Len(rest) + Len(new)
        /\ \A i \in 1..Len(rest) + Len(new) :
             inbox'[i] = IF i <= Len(rest) THEN rest[i] ELSE new[i - Len(rest)]
    BY <1>1, <1>2, ConcatProperties
  <2>2. Len(rest) \in Nat /\ Len(new) \in Nat
    BY <1>1, <1>2
  <2>3. ASSUME NEW i \in 1..Len(new)  PROVE  inbox'[i + Len(rest)] = new[i]
    <3>1. /\ i + Len(rest) \in 1..Len(rest) + Len(new) /\ ~(i + Len(rest) <= Len(rest))
          /\ (i + Len(rest)) - Len(rest) = i
      BY ONLY <2>2, i \in 1..Len(new)
    <3>. QED  BY <2>1, <3>1
  <2>4. ASSUME NEW i \in 1..Len(rest)  PROVE  inbox'[i] = rest[i]
    BY <2>1, <2>2
  <2>. QED  BY <2>1, <2>3, <2>4
<1>4. DOMAIN inbox' = 1..(Len(inbox) - d) + Len(new)
  BY <1>1, <1>3
<1>5. ASSUME NEW i \in DOMAIN inbox'
      PROVE  \/ i + d \in DOMAIN inbox /\ inbox'[i] = inbox[i + d]
             \/ \E k \in DOMAIN new : inbox'[i] = new[k]
  <2>1. CASE i <= Len(inbox) - d
    BY <1>1, <1>2, <1>3, <1>4, <2>1
  <2>2. CASE ~(i <= Len(inbox) - d)
    <3>1. i \in 1..(Len(inbox) - d) + Len(new) /\ Len(inbox) \in Nat /\ Len(new) \in Nat
      BY <1>1, <1>2, <1>4
    <3>2. Len(rest) = Len(inbox) - d /\ d \in {0, 1} /\ d <= Len(inbox)
      BY <1>1
    <3>3. i - Len(rest) \in 1..Len(new) /\ (i - Len(rest)) + Len(rest) = i
      BY ONLY <2>2, <3>1, <3>2
    <3>. QED  BY <1>2, <1>3, <3>3
  <2>. QED  BY <2>1, <2>2
<1>6. ASSUME NEW i \in DOMAIN inbox, i > d
      PROVE  i - d \in DOMAIN inbox' /\ inbox'[i - d] = inbox[i]
  <2>1. i - d \in 1..Len(rest) /\ (i - d) + d = i
    BY <1>1, <1>6
  <2>. QED  BY <1>1, <1>2, <1>3, <1>4, <2>1
<1>7. ASSUME NEW k \in DOMAIN new
      PROVE  \E i \in DOMAIN inbox' :
               inbox'[i] = new[k] /\ \A j \in DOMAIN inbox : j > d => j - d < i
  <2>1. /\ k + Len(rest) \in DOMAIN inbox' /\ inbox'[k + Len(rest)] = new[k]
        /\ \A j \in DOMAIN inbox : j > d => j - d < k + Len(rest)
    <3>1. /\ k \in 1..Len(new) /\ Len(inbox) \in Nat /\ Len(new) \in Nat /\ DOMAIN inbox = 1..Len(inbox)
          /\ Len(rest) = Len(inbox) - d /\ d \in {0, 1} /\ d <= Len(inbox)
      BY <1>1, <1>2
    <3>2. /\ k + Len(rest) \in 1..(Len(inbox) - d) + Len(new)
          /\ \A j \in DOMAIN inbox : j > d => j - d < k + Len(rest)
      BY ONLY <3>1
    <3>. QED  BY <1>3, <1>4, <3>1, <3>2
  <2>. QED  BY <2>1
<1>. QED  BY <1>1, <1>3, <1>4, <1>5, <1>6, <1>7

(* What follows still follows, what was queued still is, and behind what is put   *)
(* at the end there is nothing.                                              *)
LEMMA StillAfter ==
  ASSUME inbox \in Seq(Messages), NEW d \in {0, 1}, d <= Len(inbox),
         NEW new \in Seq(Messages), Moves(d, new), NEW A, NEW B,
         After(inbox, A, B), \A k \in DOMAIN new : new[k] \notin A
  PROVE  After(inbox', A, B)
<1>. SUFFICES ASSUME NEW i \in DOMAIN inbox', inbox'[i] \in A
              PROVE  \E j \in DOMAIN inbox' : i < j /\ inbox'[j] \in B
  BY DEF After
<1>1. i + d \in DOMAIN inbox /\ inbox'[i] = inbox[i + d] /\ i \in Nat
  BY QueueMoved
<1>2. PICK j \in DOMAIN inbox : i + d < j /\ inbox[j] \in B
  BY <1>1 DEF After
<1>3. j - d \in DOMAIN inbox' /\ inbox'[j - d] = inbox[j] /\ i < j - d
  <2>1. j > d /\ i < j - d
    BY <1>1, <1>2, QueueMoved
  <2>. QED  BY <2>1, QueueMoved
<1>. QED  BY <1>2, <1>3

LEMMA StillSome ==
  ASSUME inbox \in Seq(Messages), NEW d \in {0, 1}, d <= Len(inbox),
         NEW new \in Seq(Messages), Moves(d, new), NEW A,
         Some(inbox, A), d = 1 => inbox[1] \notin A
  PROVE  Some(inbox', A)
<1>1. PICK i \in DOMAIN inbox : inbox[i] \in A
  BY DEF Some
<1>2. i > d
  BY <1>1, QueueMoved
<1>. QED  BY <1>1, <1>2, QueueMoved DEF Some

LEMMA HeadFollowed ==
  ASSUME inbox \in Seq(Messages), 1 <= Len(inbox),
         NEW new \in Seq(Messages), Moves(1, new), NEW A, NEW B,
         After(inbox, A, B), inbox[1] \in A
  PROVE  Some(inbox', B)
<1>1. PICK j \in DOMAIN inbox : 1 < j /\ inbox[j] \in B
  BY QueueMoved DEF After
<1>. QED  BY <1>1, QueueMoved DEF Some

LEMMA NowSome ==
  ASSUME inbox \in Seq(Messages), NEW d \in {0, 1}, d <= Len(inbox),
         NEW new \in Seq(Messages), Moves(d, new), NEW A, NEW k \in DOMAIN new, new[k] \in A
  PROVE  Some(inbox', A)
BY QueueMoved DEF Some

(* What was queued before something is followed by it.                        *)
LEMMA NowAfter ==
  ASSUME inbox \in Seq(Messages), NEW d \in {0, 1}, d <= Len(inbox),
         NEW new \in Seq(Messages), Moves(d, new), NEW A, NEW B,
         NEW k \in DOMAIN new, new[k] \in B, \A l \in DOMAIN new : new[l] \notin A
  PROVE  After(inbox', A, B)
<1>. SUFFICES ASSUME NEW i \in DOMAIN inbox', inbox'[i] \in A
              PROVE  \E j \in DOMAIN inbox' : i < j /\ inbox'[j] \in B
  BY DEF After
<1>1. i + d \in DOMAIN inbox /\ i + d > d /\ (i + d) - d = i
  <2>1. i + d \in DOMAIN inbox /\ i \in Nat
    BY QueueMoved
  <2>2. i \in 1..Len(inbox')
    BY QueueMoved
  <2>. QED  BY <2>1, <2>2
<1>2. PICK j \in DOMAIN inbox' :
        inbox'[j] = new[k] /\ \A m \in DOMAIN inbox : m > d => m - d < j
  BY QueueMoved
<1>. QED  BY <1>1, <1>2

LEMMA TakenAndPut ==
  ASSUME inbox \in Seq(Messages)
  PROVE  /\ inbox # <<>> => 1 <= Len(inbox) /\ Head(inbox) = inbox[1] /\ inbox[1] \in Messages
         /\ inbox # <<>> /\ Consume => Moves(1, <<>>)
         /\ \A m \in Messages : inbox # <<>> /\ ConsumeAndPost(m) => Moves(1, <<m>>)
         /\ \A new \in Seq(Messages) : inbox' = inbox \o new => Moves(0, new)
         /\ inbox' = inbox => Moves(0, <<>>)
<1>1. Len(inbox) \in Nat /\ SubSeq(inbox, 1, Len(inbox)) = inbox
  <2>1. SubSeq(inbox, 1, Len(inbox)) \in Seq(Messages) /\ Len(SubSeq(inbox, 1, Len(inbox))) = Len(inbox)
    BY SubSeqProperties
  <2>2. \A i \in 1..Len(inbox) : SubSeq(inbox, 1, Len(inbox))[i] = inbox[i]
    BY SubSeqProperties
  <2>. QED  BY <2>1, <2>2, SeqEqual
<1>2. ASSUME inbox # <<>>
      PROVE  /\ 1 <= Len(inbox) /\ Head(inbox) = inbox[1] /\ inbox[1] \in Messages
             /\ Tail(inbox) = SubSeq(inbox, 2, Len(inbox)) /\ Tail(inbox) \in Seq(Messages)
  <2>1. 1 <= Len(inbox) /\ Head(inbox) = inbox[1] /\ inbox[1] \in Messages
    BY <1>2, <1>1, HeadTailProperties
  <2>2. /\ Tail(inbox) \in Seq(Messages) /\ Len(Tail(inbox)) = Len(inbox) - 1
        /\ \A i \in 1..Len(Tail(inbox)) : Tail(inbox)[i] = inbox[i + 1]
    BY <1>2, HeadTailProperties
  <2>3. /\ SubSeq(inbox, 2, Len(inbox)) \in Seq(Messages)
        /\ Len(SubSeq(inbox, 2, Len(inbox))) = Len(inbox) - 1
        /\ \A i \in 1..Len(Tail(inbox)) : SubSeq(inbox, 2, Len(inbox))[i] = inbox[i + 1]
    BY <1>1, <2>1, <2>2, SubSeqProperties
  <2>. QED  BY <2>1, <2>2, <2>3, SeqEqual
<1>3. ASSUME inbox # <<>>, Consume  PROVE  Moves(1, <<>>)
  <2>1. inbox' = Tail(inbox) \o <<>>
    BY <1>2, <1>3, ConcatEmptySeq DEF Consume
  <2>. QED  BY <1>2, <1>3, <2>1 DEF Moves
<1>4. ASSUME NEW m \in Messages, inbox # <<>>, ConsumeAndPost(m)  PROVE  Moves(1, <<m>>)
  <2>1. Append(Tail(inbox), m) = Tail(inbox) \o <<m>>
    BY <1>2, <1>4, AppendIsConcat
  <2>. QED  BY <1>2, <1>4, <2>1 DEF Moves, ConsumeAndPost
<1>5. ASSUME inbox' = inbox  PROVE  Moves(0, <<>>)
  BY <1>1, <1>5, ConcatEmptySeq DEF Moves
<1>6. ASSUME NEW new \in Seq(Messages), inbox' = inbox \o new  PROVE  Moves(0, new)
  BY <1>1, <1>6 DEF Moves
<1>. QED  BY <1>2, <1>3, <1>4, <1>5, <1>6

LEMMA KindsAre ==
  ASSUME NEW q \in Seq(Messages), NEW i \in DOMAIN q
  PROVE  /\ \A kinds : q[i] \in OfKind(kinds) <=> q[i].kind \in kinds
         /\ q[i] \in Locking <=> q[i].kind = "clientState" /\ q[i].arg \in {"Connecting", "Closing"}
<1>1. q[i] \in Messages
  BY DOMAIN q = 1..Len(q)
<1>. QED  BY <1>1 DEF OfKind, Locking

(* A handler that has nothing to do with the session, and what may run before     *)
(* another one, the creation of the client.                                  *)
Aside == UNCHANGED connected
         /\ \/ UNCHANGED <<client, cliState>>
            \/ client = 0 /\ client' # 0 /\ cliState' = "Disconnected"
SessionMail == OfKind({"clientState", "clientConnected", "clientDisconnected",
                       "runConnect", "runDisconnect"})

NoNewWait == opState' = opState \/ opState' \notin Wait

LEMMA QuietKeeps ==
  ASSUME inbox \in Seq(Messages), SessionInv, NEW d \in {0, 1}, d <= Len(inbox),
         NEW new \in Seq(Messages), Moves(d, new), Aside,
         d = 1 => inbox[1] \notin SessionMail,
         \A k \in DOMAIN new : new[k] \notin SessionMail, NoNewWait
  PROVE  SessionInv'
<1>1. /\ Opened \subseteq SessionMail /\ Ended \subseteq SessionMail /\ News \subseteq SessionMail
      /\ Locking \subseteq SessionMail /\ Runs \subseteq SessionMail
      /\ OfKind({"runDisconnect"}) \subseteq SessionMail /\ OfKind({"runConnect"}) \subseteq SessionMail
  BY DEF Opened, Ended, News, Locking, Runs, SessionMail, OfKind
<1>2. /\ client' = 0 => client = 0 /\ cliState' = "Disconnected"
      /\ cliState' = cliState /\ connected' = connected
  BY DEF SessionInv, Aside
<1>3. ASSUME NEW A, NEW B, A \subseteq SessionMail, After(inbox, A, B)
      PROVE  After(inbox', A, B)
  BY <1>3, StillAfter
<1>4. ASSUME NEW A, A \subseteq SessionMail, Some(inbox, A)
      PROVE  Some(inbox', A)
  BY <1>4, StillSome
<1>5. ASSUME NEW i \in DOMAIN inbox', inbox'[i] \in Runs
      PROVE  client' # 0 /\ inbox'[i].from = client'
  <2>1. i + d \in DOMAIN inbox /\ inbox'[i] = inbox[i + d]
    BY <1>1, <1>5, QueueMoved
  <2>2. client # 0 /\ inbox[i + d].from = client
    BY <1>5, <2>1 DEF SessionInv
  <2>. QED  BY <2>1, <2>2 DEF Aside
<1>6. News \cup OfKind({"runDisconnect"}) \subseteq SessionMail
  BY <1>1
<1>7. /\ cliState' \in {"Disconnected", "Connecting"} =>
           After(inbox', Opened, Ended) /\ (connected' => Some(inbox', Ended))
      /\ cliState' = "Connected" =>
           After(inbox', Ended, Opened) /\ (~connected' => Some(inbox', Opened))
      /\ cliState' \notin OnTheWay => After(inbox', Locking, News)
  BY <1>1, <1>2, <1>3, <1>4 DEF SessionInv
<1>8. opState' \in Wait =>
        \/ cliState' \in OnTheWay
        \/ Some(inbox', News \cup OfKind({"runDisconnect"}))
        \/ cliState' = "Disconnected" /\ Some(inbox', OfKind({"runConnect"}))
  BY <1>1, <1>2, <1>4, <1>6 DEF SessionInv, NoNewWait
<1>. QED  BY <1>2, <1>5, <1>7, <1>8 DEF SessionInv

SessionKinds == {"clientState", "clientConnected", "clientDisconnected", "runConnect", "runDisconnect"}

LEMMA QuietWork ==
  ASSUME TypeOK, SessionInv, Aside, NoNewWait,
         NEW kind, Handling(kind), kind \notin SessionKinds,
         NEW m \in Messages, m.kind \notin SessionKinds, Consume \/ ConsumeAndPost(m)
  PROVE  SessionInv'
<1>1. /\ inbox \in Seq(Messages) /\ inbox # <<>> /\ 1 <= Len(inbox)
      /\ inbox[1].kind = kind
  BY TakenAndPut DEF TypeOK, Handling
<1>2. inbox[1] \notin SessionMail /\ m \notin SessionMail
  BY <1>1 DEF SessionMail, OfKind, SessionKinds
<1>3. CASE Consume
  <2>1. Moves(1, <<>>) /\ <<>> \in Seq(Messages) /\ DOMAIN <<>> = {}
    BY <1>1, <1>3, TakenAndPut
  <2>. QED  BY <1>1, <1>2, <2>1, QuietKeeps
<1>4. CASE ConsumeAndPost(m)
  <2>1. Moves(1, <<m>>) /\ <<m>> \in Seq(Messages) /\ DOMAIN <<m>> = {1} /\ <<m>>[1] = m
    BY <1>1, <1>4, TakenAndPut
  <2>. HIDE DEF SessionMail
  <2>. QED  BY <1>1, <1>2, <2>1, QuietKeeps
<1>. QED  BY <1>3, <1>4

(* Requests and selections leave the session alone.                           *)
LEMMA RequestsKeepSession ==
  ASSUME TypeOK, SessionInv, OneBackend,
         \/ SetBackend \/ SetAuthentication \/ SetEndpointUrlRewriteEnabled
         \/ RunFindServers \/ HandleFindServersDispatchResult \/ FindServersComplete
         \/ RunRequestEndpoints \/ HandleEndpointsDispatchResult \/ GetEndpointsComplete
         \/ OnClientErrorChanged
  PROVE  SessionInv'
<1>1. inbox # <<>> /\ inbox \in Seq(Messages)
  BY DEF TypeOK, SetBackend, SetAuthentication, SetEndpointUrlRewriteEnabled, RunFindServers,
         HandleFindServersDispatchResult, FindServersComplete, RunRequestEndpoints,
         HandleEndpointsDispatchResult, GetEndpointsComplete, OnClientErrorChanged, Handling
<1>2. /\ Msg("clientError", None) \in Messages /\ Msg("clientError", None).kind = "clientError"
      /\ Handling("runFind") => /\ Msg("findNotDispatched", Arg) \in Messages
                                /\ Msg("findNotDispatched", Arg).kind = "findNotDispatched"
      /\ Handling("runEndpoints") => /\ Msg("endpointsNotDispatched", Arg) \in Messages
                                     /\ Msg("endpointsNotDispatched", Arg).kind = "endpointsNotDispatched"
  BY <1>1, PostedTypes, ArgumentTypes DEF Msg
<1>3. CASE SetBackend
  <2>1. Handling("setBackend") /\ Arg = backend
    BY <1>1, <1>3, ArgumentTypes DEF SetBackend, OneBackend, TypeOK
  <2>2. Aside /\ opState' = opState /\ Consume
    BY <1>3, <2>1 DEF SetBackend, Aside, clientVars
  <2>. QED  BY <1>2, <2>1, <2>2, QuietWork DEF NoNewWait, SessionKinds
<1>4. CASE SetAuthentication
  <2>1. Handling("setAuth") /\ Aside /\ opState' = opState /\ Consume
    BY <1>4, Zenon DEF SetAuthentication, Aside, clientVars
  <2>. QED  BY <1>2, <2>1, QuietWork DEF NoNewWait, SessionKinds
<1>5. CASE SetEndpointUrlRewriteEnabled
  <2>1. Handling("setRewrite") /\ Aside /\ opState' = opState /\ Consume
    BY <1>5, Zenon DEF SetEndpointUrlRewriteEnabled, Aside, clientVars
  <2>. QED  BY <1>2, <2>1, QuietWork DEF NoNewWait, SessionKinds
<1>6. CASE RunFindServers
  <2>1. /\ Handling("runFind") /\ Aside /\ opState' = opState
        /\ Consume \/ ConsumeAndPost(Msg("findNotDispatched", Arg))
    BY <1>6, Zenon DEF RunFindServers, Aside, clientVars
  <2>. QED  BY <1>2, <2>1, QuietWork DEF NoNewWait, SessionKinds
<1>7. CASE RunRequestEndpoints
  <2>1. /\ Handling("runEndpoints") /\ Aside /\ opState' = opState
        /\ Consume \/ ConsumeAndPost(Msg("endpointsNotDispatched", Arg))
    BY <1>7, Zenon DEF RunRequestEndpoints, Aside, clientVars
  <2>. QED  BY <1>2, <2>1, QuietWork DEF NoNewWait, SessionKinds
<1>8. CASE HandleFindServersDispatchResult \/ FindServersComplete
  <2>1. /\ Handling("findNotDispatched") \/ Handling("findReply")
        /\ Aside /\ (opState' = opState \/ opState' = "Idle") /\ Consume
    BY <1>8, Zenon DEF HandleFindServersDispatchResult, FindServersComplete, Aside, clientVars
  <2>2. NoNewWait
    BY <2>1 DEF Wait, NoNewWait
  <2>. QED  BY <1>2, <2>1, <2>2, QuietWork DEF NoNewWait, SessionKinds
<1>9. CASE HandleEndpointsDispatchResult \/ GetEndpointsComplete
  <2>1. /\ Handling("endpointsNotDispatched") \/ Handling("endpointsReply")
        /\ Aside /\ (opState' = opState \/ opState' = "Idle") /\ Consume
    BY <1>9, Zenon DEF HandleEndpointsDispatchResult, GetEndpointsComplete, Aside, clientVars
  <2>2. NoNewWait
    BY <2>1 DEF Wait, NoNewWait
  <2>. QED  BY <1>2, <2>1, <2>2, QuietWork DEF NoNewWait, SessionKinds
<1>10. CASE OnClientErrorChanged
  <2>1. /\ Handling("clientError") /\ Aside /\ opState' = "Idle" /\ Consume
    BY <1>10, Zenon DEF OnClientErrorChanged, Aside, clientVars
  <2>2. NoNewWait
    BY <2>1 DEF Wait, NoNewWait
  <2>. QED  BY <1>2, <2>1, <2>2, QuietWork DEF NoNewWait, SessionKinds
<1>. QED  BY <1>3, <1>4, <1>5, <1>6, <1>7, <1>8, <1>9, <1>10

LEMMA CreationAside ==
  ASSUME TypeOK, UNCHANGED connected, ClientUnavailable \/ (\E err : EnsureClient(err))
  PROVE  Aside /\ client' \in Nat /\ (~ClientUnavailable => client' # 0)
<1>1. \/ UNCHANGED clientVars
      \/ client = 0 /\ client' = lastClient + 1 /\ cliState' = "Disconnected"
  BY Zenon DEF EnsureClient, ClientUnavailable
<1>2. client' \in Nat
  BY <1>1 DEF TypeOK, clientVars
<1>3. CASE ~ClientUnavailable
  <2>1. PICK err : EnsureClient(err)
    BY <1>3
  <2>2. \/ client # 0 /\ UNCHANGED clientVars
        \/ client = 0 /\ client' = lastClient + 1 /\ cliState' = "Disconnected"
    BY <2>1, Zenon DEF EnsureClient
  <2>. QED  BY <1>2, <2>2 DEF TypeOK, clientVars, Aside
<1>4. CASE ClientUnavailable
  BY <1>2, <1>4 DEF ClientUnavailable, clientVars, Aside
<1>. QED  BY <1>3, <1>4

LEMMA LookupsKeepSession ==
  ASSUME TypeOK, SessionInv,
         DiscoverServers \/ RequestEndpointsForUrl \/ RequestEndpointsForServer
  PROVE  SessionInv'
<1>1. inbox # <<>> /\ inbox \in Seq(Messages)
  BY DEF TypeOK, DiscoverServers, RequestEndpointsForUrl, RequestEndpointsForServer, Handling
<1>2. /\ Msg("clientError", None) \in Messages /\ Msg("clientError", None).kind = "clientError"
      /\ \A u \in Urls, c \in Nat : /\ Task("runFind", u, c) \in Messages
                                    /\ Task("runFind", u, c).kind = "runFind"
                                    /\ Task("runEndpoints", u, c) \in Messages
                                    /\ Task("runEndpoints", u, c).kind = "runEndpoints"
  BY PostedTypes DEF Msg, Task
<1>3. CASE DiscoverServers
  <2>1. UNCHANGED connected /\ Handling("discover")
    BY <1>3, Zenon DEF DiscoverServers
  <2>2. CASE Aside /\ opState' = "Idle" /\ Consume
    BY <1>2, <2>1, <2>2, QuietWork DEF Wait, NoNewWait, SessionKinds
  <2>3. CASE /\ Arg \in Urls /\ \E err : EnsureClient(err)
             /\ opState' = "DiscoveringServers" /\ ConsumeAndPost(Task("runFind", Arg, client'))
    <3>1. Aside /\ client' \in Nat
      BY <2>1, <2>3, CreationAside
    <3>. QED  BY <1>2, <2>1, <2>3, <3>1, QuietWork DEF Wait, NoNewWait, SessionKinds
  <2>4. UNCHANGED clientVars => Aside
    BY <2>1 DEF clientVars, Aside
  <2>. QED  BY <1>3, <2>2, <2>3, <2>4, Zenon DEF DiscoverServers
<1>4. ASSUME NEW url, NEW kind \in {"endpoints", "endpointsForServer"}, Handling(kind),
             RequestEndpoints(url), url = BadUrl \/ url \in Urls
      PROVE  SessionInv'
  <2>1. UNCHANGED connected
    BY <1>4, Zenon DEF RequestEndpoints
  <2>2. CASE Aside /\ opState' = "Idle" /\ Consume
    BY <1>2, <1>4, <2>2, QuietWork DEF Wait, NoNewWait, SessionKinds
  <2>3. CASE /\ url \in Urls /\ \E err : EnsureClient(err)
             /\ opState' = "RequestingEndpoints" /\ ConsumeAndPost(Task("runEndpoints", url, client'))
    <3>1. Aside /\ client' \in Nat
      BY <2>1, <2>3, CreationAside
    <3>. QED  BY <1>2, <1>4, <2>3, <3>1, QuietWork DEF Wait, NoNewWait, SessionKinds
  <2>4. /\ UNCHANGED clientVars => Aside
        /\ ClientUnavailable => Aside
        /\ \A err : EnsureClient(err) => Aside
    BY <2>1, CreationAside DEF clientVars, Aside
  <2>. QED  BY <1>4, <2>2, <2>3, <2>4, Zenon DEF RequestEndpoints
<1>5. CASE RequestEndpointsForUrl
  BY <1>1, <1>4, <1>5, ArgumentTypes DEF RequestEndpointsForUrl
<1>6. CASE RequestEndpointsForServer
  <2>1. CASE servers = None
    <3>1. /\ Handling("endpointsForServer") /\ Aside /\ opState' = opState /\ Consume
      <4>1. \/ RequestEndpoints(servers) /\ servers # None
            \/ Consume /\ UNCHANGED <<setupVars, clientVars, opState, connected>>
        BY <1>6, Zenon DEF RequestEndpointsForServer
      <4>. QED  BY <1>6, <2>1, <4>1 DEF RequestEndpointsForServer, Aside, clientVars
    <3>. QED  BY <1>2, <3>1, QuietWork DEF NoNewWait, SessionKinds
  <2>2. CASE servers # None
    BY <1>4, <1>6, <2>2 DEF RequestEndpointsForServer, TypeOK
  <2>. QED  BY <2>1, <2>2
<1>. QED  BY <1>3, <1>5, <1>6

(* Time, answers of the backend and new commands.                             *)
LEMMA OthersKeepSession ==
  ASSUME TypeOK, SessionInv,
         TimerStep \/ (\E request \in inFlight : BackendAnswers(request)) \/ GuiStep
  PROVE  SessionInv'
<1>1. inbox \in Seq(Messages) /\ 0 <= Len(inbox)
  BY DEF TypeOK
<1>2. CASE TimerStep
  <2>1. Aside /\ inbox' = inbox /\ (opState' = opState \/ opState' = "Idle")
    BY <1>2, Zenon DEF TimerStep, HandleFindServersTimeout, HandleEndpointsTimeout, Aside, clientVars
  <2>2. PICK new \in Seq(Messages) : Moves(0, new) /\ DOMAIN new = {}
    <3>1. Moves(0, <<>>) /\ <<>> \in Seq(Messages)
      BY <1>1, <2>1, TakenAndPut
    <3>2. DOMAIN <<>> = {}
      OBVIOUS
    <3>. QED  BY <3>1, <3>2, Zenon
  <2>3. \A k \in DOMAIN new : new[k] \notin SessionMail
    BY <2>2
  <2>4. NoNewWait
    BY <2>1 DEF Wait, NoNewWait
  <2>5. Moves(0, new) /\ Aside
    BY <2>1, <2>2
  <2>. QED  BY <1>1, <2>3, <2>4, <2>5, QuietKeeps
<1>3. CASE \E request \in inFlight : BackendAnswers(request)
  <2>1. PICK request \in inFlight, good \in BOOLEAN :
          /\ inbox' = Append(inbox, Reply(IF request[1] = "find" THEN "findReply" ELSE "endpointsReply",
                                          request[2], good))
          /\ UNCHANGED <<setupVars, clientVars, opState, connected>>
    BY <1>3, Zenon DEF BackendAnswers
  <2>2. request[2] \in Urls
    BY DEF TypeOK
  <2>3. PICK m \in Messages : m.kind \in {"findReply", "endpointsReply"} /\ inbox' = Append(inbox, m)
    BY <2>1, <2>2, PostedTypes DEF Reply
  <2>4. PICK new \in Seq(Messages) : inbox' = inbox \o new /\ DOMAIN new = {1} /\ new[1] = m
    <3>1. Append(inbox, m) = inbox \o <<m>> /\ <<m>> \in Seq(Messages)
      BY <1>1, AppendIsConcat
    <3>2. DOMAIN <<m>> = {1} /\ <<m>>[1] = m
      OBVIOUS
    <3>. QED  BY <2>3, <3>1, <3>2, Zenon
  <2>5. Moves(0, new) /\ \A k \in DOMAIN new : new[k] \notin SessionMail
    <3>1. m \notin SessionMail
      BY <2>3 DEF SessionMail, OfKind
    <3>. QED  BY <1>1, <2>4, <3>1, TakenAndPut
  <2>6. Aside /\ NoNewWait
    BY <2>1 DEF Aside, NoNewWait, clientVars
  <2>. HIDE DEF SessionMail
  <2>. QED  BY <1>1, <2>4, <2>5, <2>6, QuietKeeps
<1>4. CASE GuiStep
  <2>1. PICK new \in Seq(Commands) : inbox' = inbox \o new
    BY <1>4 DEF GuiStep
  <2>2. new \in Seq(Messages) /\ \A k \in DOMAIN new : new[k] \in Commands
    BY <2>1, CommandsAreMessages, SeqMonotonic
  <2>3. \A m \in Commands : m \notin SessionMail
    BY DEF Commands, SessionMail, OfKind, Msg
  <2>4. Moves(0, new) /\ Aside /\ NoNewWait
    BY <1>1, <1>4, <2>1, <2>2, TakenAndPut DEF GuiStep, Aside, NoNewWait, clientVars
  <2>. QED  BY <1>1, <2>2, <2>3, <2>4, QuietKeeps
<1>. QED  BY <1>2, <1>3, <1>4

LEMMA Members ==
  ASSUME NEW m \in Messages
  PROVE  /\ m \in Opened <=> m.kind = "clientConnected"
         /\ m \in Ended <=> m.kind = "clientDisconnected"
         /\ m \in News <=> m.kind \in {"clientState", "clientConnected", "clientDisconnected"}
         /\ m \in Locking <=> m.kind = "clientState" /\ m.arg \in {"Connecting", "Closing"}
         /\ m \in Runs <=> m.kind \in {"runConnect", "runDisconnect"}
         /\ m \in News \cup OfKind({"runDisconnect"}) <=>
              m.kind \in {"clientState", "clientConnected", "clientDisconnected", "runDisconnect"}
         /\ m \in OfKind({"runConnect"}) <=> m.kind = "runConnect"
BY DEF Opened, Ended, News, Locking, Runs, OfKind

LEMMA Taken ==
  ASSUME inbox \in Seq(Messages), inbox # <<>>, NEW m \in Messages, Consume \/ ConsumeAndPost(m)
  PROVE  \E new \in Seq(Messages) :
           /\ Moves(1, new)
           /\ \/ Consume /\ DOMAIN new = {}
              \/ ConsumeAndPost(m) /\ DOMAIN new = {1} /\ new[1] = m
<1>1. CASE Consume
  <2>1. Moves(1, <<>>) /\ <<>> \in Seq(Messages)
    BY <1>1, TakenAndPut
  <2>2. DOMAIN <<>> = {}
    OBVIOUS
  <2>. QED  BY <1>1, <2>1, <2>2, Zenon
<1>2. CASE ConsumeAndPost(m)
  <2>1. Moves(1, <<m>>) /\ <<m>> \in Seq(Messages)
    BY <1>2, TakenAndPut
  <2>2. DOMAIN <<m>> = {1} /\ <<m>>[1] = m
    OBVIOUS
  <2>. QED  BY <1>2, <2>1, <2>2, Zenon
<1>. QED  BY <1>1, <1>2

LEMMA RunsMove ==
  ASSUME inbox \in Seq(Messages), SessionInv, NEW d \in {0, 1}, d <= Len(inbox),
         NEW new \in Seq(Messages), Moves(d, new), client' = client \/ client = 0,
         \A k \in DOMAIN new : new[k] \in Runs => client' # 0 /\ new[k].from = client'
  PROVE  \A i \in DOMAIN inbox' : inbox'[i] \in Runs => client' # 0 /\ inbox'[i].from = client'
<1>. SUFFICES ASSUME NEW i \in DOMAIN inbox', inbox'[i] \in Runs
              PROVE  client' # 0 /\ inbox'[i].from = client'
  OBVIOUS
<1>1. CASE i + d \in DOMAIN inbox /\ inbox'[i] = inbox[i + d]
  BY <1>1 DEF SessionInv
<1>2. CASE \E k \in DOMAIN new : inbox'[i] = new[k]
  BY <1>2
<1>. QED  BY <1>1, <1>2, QueueMoved

(* A command that asks the client for a session or for its end.                 *)
LEMMA AskedKeeps ==
  ASSUME TypeOK, SessionInv, Aside, NEW kind, Handling(kind), kind \notin SessionKinds,
         NEW m \in Messages, ConsumeAndPost(m), m.from = client', client' # 0,
         \/ m.kind = "runDisconnect"
         \/ m.kind = "runConnect" /\ ~connected
  PROVE  SessionInv'
<1>1. /\ inbox \in Seq(Messages) /\ inbox # <<>> /\ 1 <= Len(inbox)
      /\ inbox[1] \in Messages /\ inbox[1].kind = kind
  BY TakenAndPut DEF TypeOK, Handling
<1>2. PICK new \in Seq(Messages) : Moves(1, new) /\ DOMAIN new = {1} /\ new[1] = m
  <2>1. Moves(1, <<m>>) /\ <<m>> \in Seq(Messages)
    BY <1>1, TakenAndPut
  <2>2. DOMAIN <<m>> = {1} /\ <<m>>[1] = m
    OBVIOUS
  <2>. QED  BY <2>1, <2>2, Zenon
<1>3. /\ m \notin Opened /\ m \notin Ended /\ m \notin Locking
      /\ inbox[1] \notin Opened /\ inbox[1] \notin Ended
  BY <1>1, Members DEF SessionKinds
<1>4. \A A, B : m \notin A /\ After(inbox, A, B) => After(inbox', A, B)
  BY <1>1, <1>2, StillAfter
<1>5. \A A : inbox[1] \notin A /\ Some(inbox, A) => Some(inbox', A)
  BY <1>1, <1>2, StillSome
<1>6. \A A : m \in A => Some(inbox', A)
  BY <1>1, <1>2, NowSome
<1>7. /\ client' # 0 /\ cliState' = cliState /\ connected' = connected
      /\ client' = client \/ client = 0
  BY DEF SessionInv, Aside
<1>8. \A i \in DOMAIN inbox' : inbox'[i] \in Runs => client' # 0 /\ inbox'[i].from = client'
  BY <1>1, <1>2, <1>7, RunsMove
<1>9. /\ cliState' \in {"Disconnected", "Connecting"} =>
           After(inbox', Opened, Ended) /\ (connected' => Some(inbox', Ended))
      /\ cliState' = "Connected" =>
           After(inbox', Ended, Opened) /\ (~connected' => Some(inbox', Opened))
      /\ cliState' \notin OnTheWay => After(inbox', Locking, News)
  BY <1>3, <1>4, <1>5, <1>7 DEF SessionInv
<1>10. \/ cliState' \in OnTheWay
       \/ Some(inbox', News \cup OfKind({"runDisconnect"}))
       \/ cliState' = "Disconnected" /\ Some(inbox', OfKind({"runConnect"}))
  <2>1. CASE m.kind = "runDisconnect"
    BY <1>6, <2>1, Members
  <2>2. CASE m.kind = "runConnect" /\ ~connected
    <3>1. CASE cliState = "Connected"
      <4>1. Some(inbox', Opened)
        BY <1>3, <1>5, <2>2, <3>1 DEF SessionInv
      <4>2. Opened \subseteq News \cup OfKind({"runDisconnect"})
        BY DEF Opened, News, OfKind
      <4>. QED  BY <4>1, <4>2 DEF Some
    <3>2. CASE cliState # "Connected"
      <4>1. cliState \in OnTheWay \cup {"Disconnected"}
        BY <3>2 DEF TypeOK, ClientStates, OnTheWay
      <4>2. Some(inbox', OfKind({"runConnect"}))
        BY <1>6, <2>2, Members
      <4>. QED  BY <1>7, <4>1, <4>2
    <3>. QED  BY <3>1, <3>2
  <2>. QED  BY <2>1, <2>2
<1>. QED  BY <1>7, <1>8, <1>9, <1>10 DEF SessionInv

LEMMA ConnectKeepsSession ==
  ASSUME TypeOK, SessionInv, ConnectToEndpoint \/ DisconnectFromServer
  PROVE  SessionInv'
<1>1. inbox # <<>> /\ inbox \in Seq(Messages)
  BY DEF TypeOK, ConnectToEndpoint, DisconnectFromServer, Handling
<1>2. /\ Msg("clientError", None) \in Messages /\ Msg("clientError", None).kind = "clientError"
      /\ \A c \in Nat : LET m == Task("runDisconnect", None, c)
                        IN  m \in Messages /\ m.kind = "runDisconnect" /\ m.from = c
      /\ \A u \in Urls, c \in Nat : LET m == Task("runConnect", u, c)
                                    IN  m \in Messages /\ m.kind = "runConnect" /\ m.from = c
  BY PostedTypes DEF Msg, Task
<1>3. CASE ConnectToEndpoint
  <2>1. /\ UNCHANGED connected /\ Handling("connect")
        /\ \/ /\ ClientUnavailable \/ (\E err : EnsureClient(err))
              /\ opState' = "Idle" /\ Consume
           \/ /\ \E err : EnsureClient(err)
              /\ \/ ConsumeAndPost(Task("runDisconnect", None, client'))
                 \/ /\ ~connected /\ endpoints # None
                    /\ ConsumeAndPost(Task("runConnect", endpoints, client'))
    BY <1>3, Zenon DEF ConnectToEndpoint, RefuseConnect
  <2>2. CASE /\ ClientUnavailable \/ (\E err : EnsureClient(err))
             /\ opState' = "Idle" /\ Consume
    <3>1. Aside
      BY <2>1, <2>2, CreationAside
    <3>. QED  BY <1>2, <2>1, <2>2, <3>1, QuietWork DEF Wait, NoNewWait, SessionKinds
  <2>3. CASE /\ \E err : EnsureClient(err)
             /\ \/ ConsumeAndPost(Task("runDisconnect", None, client'))
                \/ /\ ~connected /\ endpoints # None
                   /\ ConsumeAndPost(Task("runConnect", endpoints, client'))
    <3>1. Aside /\ client' \in Nat /\ client' # 0
      <4>1. \E err : EnsureClient(err)
        BY <2>3
      <4>2. Aside /\ client' \in Nat
        BY <2>1, <4>1, CreationAside
      <4>3. client' # 0
        <5>1. \/ client # 0 /\ UNCHANGED clientVars
              \/ client' = lastClient + 1
          BY <4>1, Zenon DEF EnsureClient
        <5>. QED  BY <5>1 DEF TypeOK, clientVars
      <4>. QED  BY <4>2, <4>3
    <3>2. endpoints # None => endpoints \in Urls
      BY DEF TypeOK
    <3>. QED  BY <1>2, <2>1, <2>3, <3>1, <3>2, AskedKeeps DEF SessionKinds
  <2>. QED  BY <2>1, <2>2, <2>3
<1>4. CASE DisconnectFromServer
  <2>1. /\ Handling("disconnect") /\ Aside
        /\ \/ opState' = "Idle" /\ Consume
           \/ client # 0 /\ client' = client /\ ConsumeAndPost(Task("runDisconnect", None, client))
    BY <1>4, Zenon DEF DisconnectFromServer, Aside, clientVars
  <2>2. CASE opState' = "Idle" /\ Consume
    BY <1>2, <2>1, <2>2, QuietWork DEF Wait, NoNewWait, SessionKinds
  <2>3. CASE client # 0 /\ client' = client /\ ConsumeAndPost(Task("runDisconnect", None, client))
    <3>1. client \in Nat
      BY DEF TypeOK
    <3>. QED  BY <1>2, <2>1, <2>3, <3>1, AskedKeeps DEF SessionKinds
  <2>. QED  BY <2>1, <2>2, <2>3
<1>. QED  BY <1>3, <1>4

LEMMA RunsKeepSession ==
  ASSUME TypeOK, SessionInv, AnswersRedundantDisconnect, RunConnect \/ RunDisconnect
  PROVE  SessionInv'
<1>1. /\ inbox \in Seq(Messages) /\ inbox # <<>> /\ 1 <= Len(inbox) /\ 1 \in DOMAIN inbox
      /\ inbox[1] \in Messages /\ Head(inbox) = inbox[1]
      /\ inbox[1].kind = "runConnect" \/ inbox[1].kind = "runDisconnect"
      /\ RunConnect => inbox[1].kind = "runConnect"
      /\ RunDisconnect => inbox[1].kind = "runDisconnect"
  BY TakenAndPut DEF TypeOK, RunConnect, RunDisconnect, Handling
<1>2. client # 0 /\ Head(inbox).from = client
  BY <1>1, Members DEF SessionInv
<1>3. /\ UNCHANGED <<client, connected, opState>>
      /\ \/ Consume /\ cliState' = cliState /\ RunConnect /\ cliState # "Disconnected"
         \/ /\ ConsumeAndPost(Msg("clientState", "Connecting"))
            /\ cliState = "Disconnected" /\ cliState' = "Connecting"
         \/ Consume /\ cliState' = cliState /\ cliState = "Closing"
         \/ /\ ConsumeAndPost(Msg("clientState", "Disconnected"))
            /\ cliState' = cliState /\ cliState = "Disconnected"
         \/ ConsumeAndPost(Msg("clientState", "Closing")) /\ cliState' = "Closing"
  <2>1. CASE RunConnect
    BY <1>2, <2>1 DEF RunConnect, clientVars
  <2>2. CASE RunDisconnect
    BY <1>2, <2>2 DEF RunDisconnect, clientVars
  <2>. QED  BY <2>1, <2>2
<1>4. PICK m \in Messages, new \in Seq(Messages) :
        /\ m.kind = "clientState" /\ m.arg \in ClientStates /\ Moves(1, new)
        /\ \/ Consume /\ DOMAIN new = {}
           \/ ConsumeAndPost(m) /\ DOMAIN new = {1} /\ new[1] = m
        /\ \/ cliState' = cliState /\ RunConnect /\ cliState # "Disconnected" /\ DOMAIN new = {}
           \/ cliState = "Disconnected" /\ cliState' = "Connecting"
           \/ cliState' = cliState /\ cliState = "Closing"
           \/ /\ cliState' = cliState /\ cliState = "Disconnected"
              /\ DOMAIN new = {1} /\ m.arg = "Disconnected"
           \/ cliState' = "Closing"
  <2>1. \A s \in ClientStates : /\ Msg("clientState", s) \in Messages
                                /\ Msg("clientState", s).kind = "clientState"
                                /\ Msg("clientState", s).arg = s
    BY PostedTypes DEF Msg
  <2>2. {"Connecting", "Disconnected", "Closing"} \subseteq ClientStates
    BY DEF ClientStates
  <2>3. CASE Consume
    <3>1. PICK new \in Seq(Messages) : Moves(1, new) /\ DOMAIN new = {}
      <4>1. Moves(1, <<>>) /\ <<>> \in Seq(Messages)
        BY <1>1, <2>3, TakenAndPut
      <4>2. DOMAIN <<>> = {}
        OBVIOUS
      <4>. QED  BY <4>1, <4>2, Zenon
    <3>2. ~ConsumeAndPost(Msg("clientState", "Disconnected"))
      <4>1. Tail(inbox) \in Seq(Messages)
        BY <1>1, HeadTailProperties
      <4>2. Len(Append(Tail(inbox), Msg("clientState", "Disconnected"))) = Len(Tail(inbox)) + 1
            /\ Len(Tail(inbox)) \in Nat
        BY <2>1, <2>2, <4>1, AppendProperties
      <4>. QED  BY <2>3, <4>2 DEF Consume, ConsumeAndPost
    <3>. QED  BY <1>3, <2>1, <2>2, <2>3, <3>1, <3>2
  <2>4. ASSUME NEW s \in ClientStates, ConsumeAndPost(Msg("clientState", s))
        PROVE  \E new \in Seq(Messages) : Moves(1, new) /\ DOMAIN new = {1}
                                          /\ new[1] = Msg("clientState", s)
    <3>1. Moves(1, <<Msg("clientState", s)>>) /\ <<Msg("clientState", s)>> \in Seq(Messages)
      BY <1>1, <2>1, <2>4, TakenAndPut
    <3>2. DOMAIN <<Msg("clientState", s)>> = {1} /\ <<Msg("clientState", s)>>[1] = Msg("clientState", s)
      OBVIOUS
    <3>. QED  BY <3>1, <3>2, Zenon
  <2>5. CASE ~Consume
    BY <1>3, <2>1, <2>2, <2>4, <2>5
  <2>. QED  BY <2>3, <2>5
<1>. HIDE DEF Moves
<1>5. /\ inbox[1] \notin Opened /\ inbox[1] \notin Ended
      /\ RunConnect => inbox[1] \notin News \cup OfKind({"runDisconnect"})
      /\ m \notin Opened /\ m \notin Ended /\ m \notin Runs /\ m \in News
      /\ m \in News \cup OfKind({"runDisconnect"})
      /\ m.arg = "Disconnected" => m \notin Locking
  BY <1>1, <1>4, Members
<1>6. \A k \in DOMAIN new : k = 1 /\ new[k] = m
  BY <1>4
<1>7. \A A, B : m \notin A /\ After(inbox, A, B) => After(inbox', A, B)
  BY <1>1, <1>4, <1>6, StillAfter
<1>8. \A A : inbox[1] \notin A /\ Some(inbox, A) => Some(inbox', A)
  BY <1>1, <1>4, StillSome
<1>9. \A i \in DOMAIN inbox' : inbox'[i] \in Runs => client' # 0 /\ inbox'[i].from = client'
  BY <1>1, <1>3, <1>4, <1>5, <1>6, RunsMove
<1>10. CASE cliState' = "Closing"
  BY <1>2, <1>3, <1>9, <1>10 DEF SessionInv, OnTheWay
<1>11. CASE cliState = "Disconnected" /\ cliState' = "Connecting"
  BY <1>2, <1>3, <1>5, <1>7, <1>8, <1>9, <1>11 DEF SessionInv, OnTheWay
<1>12. CASE /\ cliState' = cliState /\ cliState = "Disconnected"
            /\ DOMAIN new = {1} /\ m.arg = "Disconnected"
  <2>1. Some(inbox', News \cup OfKind({"runDisconnect"}))
    BY <1>1, <1>4, <1>5, <1>12, NowSome
  <2>. QED  BY <1>2, <1>3, <1>5, <1>7, <1>8, <1>9, <1>12, <2>1 DEF SessionInv, OnTheWay
<1>13. CASE cliState' = cliState /\ RunConnect /\ cliState # "Disconnected" /\ DOMAIN new = {}
  <2>1. \A A, B : After(inbox, A, B) => After(inbox', A, B)
    BY <1>1, <1>4, <1>13, StillAfter
  <2>. QED  BY <1>2, <1>3, <1>5, <1>8, <1>9, <1>13, <2>1 DEF SessionInv, OnTheWay
<1>. QED  BY <1>4, <1>10, <1>11, <1>12, <1>13

(* The news of the client reaches the service.                                *)
LEMMA NewsKeepsSession ==
  ASSUME TypeOK, SessionInv,
         OnClientConnected \/ OnClientDisconnected \/ OnClientStateChanged
  PROVE  SessionInv'
<1>1. /\ inbox \in Seq(Messages) /\ inbox # <<>> /\ 1 <= Len(inbox) /\ Consume
      /\ inbox[1] \in Messages /\ Head(inbox) = inbox[1]
      /\ OnClientConnected => inbox[1].kind = "clientConnected"
      /\ OnClientDisconnected => inbox[1].kind = "clientDisconnected"
      /\ OnClientStateChanged => inbox[1].kind = "clientState"
      /\ client' = client /\ cliState' = cliState
  BY TakenAndPut DEF TypeOK, OnClientConnected, OnClientDisconnected, OnClientStateChanged, Handling,
                     clientVars
<1>2. PICK new \in Seq(Messages) : Moves(1, new) /\ DOMAIN new = {}
  <2>1. Moves(1, <<>>) /\ <<>> \in Seq(Messages)
    BY <1>1, TakenAndPut
  <2>2. DOMAIN <<>> = {}
    OBVIOUS
  <2>. QED  BY <2>1, <2>2, Zenon
<1>3. \A A, B : After(inbox, A, B) => After(inbox', A, B)
  BY <1>1, <1>2, StillAfter
<1>4. \A A : inbox[1] \notin A /\ Some(inbox, A) => Some(inbox', A)
  BY <1>1, <1>2, StillSome
<1>5. \A A, B : After(inbox, A, B) /\ inbox[1] \in A => Some(inbox', B)
  BY <1>1, <1>2, HeadFollowed
<1>6. \A i \in DOMAIN inbox' : inbox'[i] \in Runs => client' # 0 /\ inbox'[i].from = client'
  BY <1>1, <1>2, RunsMove
<1>7. /\ client' = 0 => cliState' = "Disconnected"
      /\ cliState' \notin OnTheWay => After(inbox', Locking, News)
      /\ cliState' \in {"Disconnected", "Connecting"} => After(inbox', Opened, Ended)
      /\ cliState' = "Connected" => After(inbox', Ended, Opened)
  BY <1>1, <1>3 DEF SessionInv
<1>8. CASE OnClientConnected
  <2>1. connected' = TRUE /\ opState' = "Idle"
    BY <1>8 DEF OnClientConnected
  <2>2. inbox[1] \in Opened
    BY <1>1, <1>8, Members
  <2>3. cliState' \in {"Disconnected", "Connecting"} => Some(inbox', Ended)
    BY <1>1, <1>5, <2>2 DEF SessionInv
  <2>. QED  BY <1>6, <1>7, <2>1, <2>3 DEF SessionInv, Wait
<1>9. CASE OnClientDisconnected
  <2>1. connected' = FALSE /\ opState' = "Idle"
    BY <1>9 DEF OnClientDisconnected
  <2>2. inbox[1] \in Ended
    BY <1>1, <1>9, Members
  <2>3. cliState' = "Connected" => Some(inbox', Opened)
    BY <1>1, <1>5, <2>2 DEF SessionInv
  <2>. QED  BY <1>6, <1>7, <2>1, <2>3 DEF SessionInv, Wait
<1>10. CASE OnClientStateChanged
  <2>1. /\ connected' = connected
        /\ opState' \in Wait => Arg \in {"Connecting", "Closing"}
    BY <1>10 DEF OnClientStateChanged, Wait
  <2>2. inbox[1] \notin Opened /\ inbox[1] \notin Ended
    BY <1>1, <1>10, Members
  <2>3. opState' \in Wait => inbox[1] \in Locking
    BY <1>1, <1>10, <2>1, Members DEF Arg
  <2>4. opState' \in Wait => cliState' \in OnTheWay \/ Some(inbox', News)
    BY <1>1, <1>5, <2>3 DEF SessionInv
  <2>5. Some(inbox', News) => Some(inbox', News \cup OfKind({"runDisconnect"}))
    BY DEF Some
  <2>6. /\ cliState' \in {"Disconnected", "Connecting"} => (connected' => Some(inbox', Ended))
        /\ cliState' = "Connected" => (~connected' => Some(inbox', Opened))
    BY <1>1, <1>4, <2>1, <2>2 DEF SessionInv
  <2>. QED  BY <1>6, <1>7, <2>4, <2>5, <2>6 DEF SessionInv
<1>. QED  BY <1>8, <1>9, <1>10

(* What the client does of itself.                                            *)
LEMMA ClientKeepsSession ==
  ASSUME TypeOK, SessionInv, SessionOpens \/ SessionFails \/ SessionLost \/ SessionCloses
  PROVE  SessionInv'
<1>1. inbox \in Seq(Messages) /\ 0 <= Len(inbox)
  BY DEF TypeOK
<1>2. /\ Msg("clientState", "Connected") \in Messages
      /\ Msg("clientState", "Disconnected") \in Messages
      /\ Msg("clientConnected", None) \in Messages /\ Msg("clientDisconnected", None) \in Messages
      /\ Msg("clientError", None) \in Messages
  BY PostedTypes DEF ClientStates
<1>3. ASSUME NEW new \in Seq(Messages), inbox' = inbox \o new,
             NEW k \in DOMAIN new, new[k] \in News,
             \A j \in DOMAIN new : new[j] \notin Locking /\ new[j] \notin Runs,
             UNCHANGED <<client, connected>>, client = 0 => cliState' = "Disconnected",
             \/ /\ cliState' = "Connected" /\ new[k] \in Opened
                /\ \A j \in DOMAIN new : new[j] \notin Ended
             \/ /\ cliState' = "Disconnected" /\ new[k] \in Ended
                /\ \A j \in DOMAIN new : new[j] \notin Opened
      PROVE  SessionInv'
  <2>1. Moves(0, new)
    BY <1>1, <1>3, TakenAndPut
  <2>2. \A A, B : new[k] \in B /\ (\A j \in DOMAIN new : new[j] \notin A) => After(inbox', A, B)
    BY <1>1, <2>1, NowAfter
  <2>3. \A A : new[k] \in A => Some(inbox', A)
    BY <1>1, <2>1, NowSome
  <2>4. \A i \in DOMAIN inbox' : inbox'[i] \in Runs => client' # 0 /\ inbox'[i].from = client'
    BY <1>1, <1>3, <2>1, RunsMove
  <2>5. After(inbox', Locking, News) /\ Some(inbox', News \cup OfKind({"runDisconnect"}))
    BY <1>3, <2>2, <2>3
  <2>6. /\ cliState' = "Connected" => After(inbox', Ended, Opened) /\ Some(inbox', Opened)
        /\ cliState' = "Disconnected" => After(inbox', Opened, Ended) /\ Some(inbox', Ended)
        /\ cliState' \in {"Connected", "Disconnected"}
    BY <1>3, <2>2, <2>3
  <2>. QED  BY <1>3, <2>4, <2>5, <2>6 DEF SessionInv
<1>4. CASE SessionOpens
  <2>1. PICK new \in Seq(Messages) :
          /\ inbox' = inbox \o new /\ DOMAIN new = {1, 2}
          /\ new[1] = Msg("clientState", "Connected") /\ new[2] = Msg("clientConnected", None)
    <3>1. <<Msg("clientState", "Connected"), Msg("clientConnected", None)>> \in Seq(Messages)
      BY <1>2
    <3>. DEFINE new == <<Msg("clientState", "Connected"), Msg("clientConnected", None)>>
    <3>2. /\ DOMAIN new = {1, 2} /\ new[1] = Msg("clientState", "Connected")
          /\ new[2] = Msg("clientConnected", None)
      OBVIOUS
    <3>3. inbox' = inbox \o new
      BY <1>4 DEF SessionOpens
    <3>. HIDE DEF new
    <3>. QED  BY <3>1, <3>2, <3>3, Zenon DEF new
  <2>2. /\ UNCHANGED <<client, connected>> /\ cliState' = "Connected" /\ client # 0
    BY <1>4 DEF SessionOpens, SessionInv
  <2>3. /\ new[2] \in News /\ new[2] \in Opened
        /\ \A j \in DOMAIN new : new[j] \notin Locking /\ new[j] \notin Runs /\ new[j] \notin Ended
    <3>1. /\ Msg("clientState", "Connected").kind = "clientState"
          /\ Msg("clientState", "Connected").arg = "Connected"
          /\ Msg("clientConnected", None).kind = "clientConnected"
      BY DEF Msg
    <3>. QED  BY <1>2, <2>1, <3>1, Members
  <2>. QED  BY <1>3, <2>1, <2>2, <2>3
<1>5. CASE SessionFails \/ SessionLost \/ SessionCloses
  <2>. DEFINE bad  == <<Msg("clientError", None), Msg("clientState", "Disconnected"),
                        Msg("clientDisconnected", None)>>
              good == <<Msg("clientState", "Disconnected"), Msg("clientDisconnected", None)>>
  <2>1. /\ bad \in Seq(Messages) /\ good \in Seq(Messages)
        /\ DOMAIN bad = {1, 2, 3} /\ DOMAIN good = {1, 2}
        /\ bad[1] = Msg("clientError", None) /\ bad[2] = Msg("clientState", "Disconnected")
        /\ bad[3] = Msg("clientDisconnected", None)
        /\ good[1] = Msg("clientState", "Disconnected") /\ good[2] = Msg("clientDisconnected", None)
    BY <1>2
  <2>2. /\ inbox' = inbox \o bad \/ inbox' = inbox \o good
        /\ UNCHANGED <<client, connected>> /\ cliState' = "Disconnected"
    BY <1>5, Zenon DEF SessionFails, SessionLost, SessionCloses
  <2>3. /\ Msg("clientState", "Disconnected").kind = "clientState"
        /\ Msg("clientState", "Disconnected").arg = "Disconnected"
        /\ Msg("clientDisconnected", None).kind = "clientDisconnected"
        /\ Msg("clientError", None).kind = "clientError"
    BY DEF Msg
  <2>. HIDE DEF bad, good
  <2>4. \A new \in {bad, good} : \A j \in DOMAIN new :
          new[j] \notin Locking /\ new[j] \notin Runs /\ new[j] \notin Opened
    BY <1>2, <2>1, <2>3, Members
  <2>5. /\ 3 \in DOMAIN bad /\ bad[3] \in News /\ bad[3] \in Ended
        /\ 2 \in DOMAIN good /\ good[2] \in News /\ good[2] \in Ended
    BY <1>2, <2>1, <2>3, Members
  <2>6. CASE inbox' = inbox \o bad
    BY <1>3, <2>1, <2>2, <2>4, <2>5, <2>6
  <2>7. CASE inbox' = inbox \o good
    BY <1>3, <2>1, <2>2, <2>4, <2>5, <2>7
  <2>. QED  BY <2>2, <2>6, <2>7
<1>. QED  BY <1>4, <1>5

LEMMA SessionStep ==
  ASSUME TypeOK, SessionInv, OneBackend, AnswersRedundantDisconnect, [Next]_svcVars
  PROVE  SessionInv'
<1>1. CASE UNCHANGED svcVars
  <2>1. UNCHANGED <<client, cliState, connected, opState, inbox>>
    BY <1>1, Zenon DEF svcVars
  <2>. QED  BY <2>1 DEF SessionInv, After, Some
<1>2. CASE WorkerStep
  BY <1>2, RequestsKeepSession, LookupsKeepSession, ConnectKeepsSession, RunsKeepSession,
     NewsKeepsSession, Zenon DEF WorkerStep
<1>3. CASE TimerStep \/ BackendStep \/ GuiStep
  BY <1>3, OthersKeepSession, ClientKeepsSession, Zenon DEF BackendStep
<1>. QED  BY <1>1, <1>2, <1>3, Zenon DEF Next, ServiceStep

LEMMA SessionTold ==
  ASSUME TypeOK, SessionInv
  PROVE  SessionBelievedIsReal
<1>1. /\ inbox \in Seq(Messages) /\ cliState \in ClientStates
      /\ \A i \in DOMAIN inbox : inbox[i] \in Messages
  BY DEF TypeOK
<1>2. \A A, kinds : Some(inbox, A) /\ (\A m \in Messages : m \in A => m.kind \in kinds) => Queued(kinds)
  BY <1>1 DEF Some, Queued
<1>3. /\ Some(inbox, Opened) => Queued({"clientConnected"})
      /\ Some(inbox, Ended) => Queued({"clientDisconnected"})
  BY <1>2, Members
<1>4. /\ Some(inbox, News \cup OfKind({"runDisconnect"})) =>
           Queued({"runConnect", "runDisconnect", "clientState", "clientConnected", "clientDisconnected"})
      /\ Some(inbox, OfKind({"runConnect"})) =>
           Queued({"runConnect", "runDisconnect", "clientState", "clientConnected", "clientDisconnected"})
  BY <1>2, Members
<1>. QED  BY <1>1, <1>3, <1>4 DEF SessionInv, SessionBelievedIsReal, SessionWaitEnds, ClientStates,
                                 OnTheWay, Wait

(* With one backend plugin, whose client answers a redundant disconnect, the     *)
(* session the mirrors are told of is the client's own but for the events under   *)
(* way, and no wait for one is without an end: for any URLs, authentication,      *)
(* projects, errors, losses and commands, however they interleave.             *)
THEOREM SessionAlwaysReal ==
  ASSUME OneBackend, AnswersRedundantDisconnect
  PROVE  ManagerSpec => []SessionBelievedIsReal
<1>1. Init => SessionInv
  <2> SUFFICES ASSUME Init  PROVE  SessionInv
    OBVIOUS
  <2>1. /\ client = 0 /\ cliState = "Disconnected" /\ opState = "Idle" /\ connected = FALSE
        /\ inbox = <<>>
    BY Zenon DEF Init
  <2>2. DOMAIN inbox = {}
    BY <2>1
  <2>. QED  BY <2>1, <2>2 DEF SessionInv, After, Wait
<1>2. TypeOK /\ SessionInv /\ [Next]_svcVars => SessionInv'
  BY SessionStep
<1>3. TypeOK /\ SessionInv => SessionBelievedIsReal
  BY SessionTold
<1>4. Spec => []SessionBelievedIsReal
  BY <1>1, <1>2, <1>3, ServiceTypes, PTL DEF Spec
<1>. QED  BY <1>4, ManagerUsesService, PTL
=============================================================================
