-------------------------- MODULE BrowseTree_proofs --------------------------
(***************************************************************************)
(* The address-space trees never stay stuck fetching, for any address space,  *)
(* any number of fetches and sessions and any order of answers; a reveal of the  *)
(* present tree waits for something; the search marks are those of what is       *)
(* loaded.                                                                  *)
(*                                                                         *)
(* First what holds of one tree, kept by each operation on it; then what holds   *)
(* between the trees, the routing table and the requests under way.             *)
(***************************************************************************)
EXTENDS BrowseTree, FiniteSetTheorems, WellFoundedInduction, SequenceTheorems, TLAPS

Status == {"NotFetched", "Fetching", "Fetched", "Error"}

Trees ==
  [active : BOOLEAN, root : Nodes, items : UNION {[S -> Status] : S \in SUBSET Nodes},
   pending : UNION {[S -> Nodes] : S \in SUBSET Nat}, next : Nat,
   query : SUBSET Nodes, flagged : SUBSET Nodes]

(* What is pending and what is shown as fetching is the same, one for one.    *)
PendingOK(t) ==
  /\ \A q \in DOMAIN t.pending :
       /\ q <= t.next
       /\ t.pending[q] \in Loaded(t) /\ t.items[t.pending[q]] = "Fetching"
  /\ \A q, r \in DOMAIN t.pending : t.pending[q] = t.pending[r] => q = r
  /\ \A n \in Loaded(t) :
       t.items[n] = "Fetching" => \E q \in DOMAIN t.pending : t.pending[q] = n

(* A tree holds its root, and children only below a fetched node.              *)
ShapeOK(t) ==
  /\ t.active = (t.root \in Loaded(t))
  /\ ~t.active => Loaded(t) = {}
  /\ \A n \in Loaded(t) \ {t.root} :
       \E p \in Loaded(t) : n \in Kids[p] /\ t.items[p] = "Fetched"

Flagged(t) == t.flagged = (Loaded(t) \ {t.root}) \cap t.query

ModelOK(t) == t \in Trees /\ ShapeOK(t) /\ PendingOK(t) /\ Flagged(t)

-----------------------------------------------------------------------------
(* The invariant between the parts.                                         *)

Requests == [id : Nat, node : Nodes]
Entries  == [id : Nat, node : Nodes, kids : SUBSET Nodes, chunk : Nat]
Reads    == [id : Nat, node : Nodes, chunk : Nat]
Signals  == [kind : {"connected"}, up : BOOLEAN] \cup
            [kind : {"browsed"}, id : Nat, node : Nodes, kids : SUBSET Nodes, good : BOOLEAN]
Reveals  == [active : BOOLEAN, path : Seq(Nodes), depth : Nat, parent : Nodes \cup {NoNode},
             wait : Nodes \cup {NoNode}, stale : BOOLEAN]
Routes   == UNION {[S -> [model : Models, req : Nat]] : S \in SUBSET Nat}

Types ==
  /\ model \in [Models -> Trees] /\ kick \in [Models -> Nat]
  /\ reveal \in Reveals /\ route \in Routes /\ nextBrowse \in Nat
  /\ focusNode \in Nodes \cup {NoNode}
  /\ gConnected \in BOOLEAN /\ sConnected \in BOOLEAN
  /\ requests \in Seq(Requests) /\ browsing \in SUBSET Requests
  /\ enriching \in Seq(Entries) /\ reads \in SUBSET Reads /\ signals \in Seq(Signals)

(* What is on its way between the GUI and the server, each about a node and       *)
(* under an id: an enrichment is answered when the read it waits for is.         *)
Posted == Range(requests) \cup browsing \cup {s \in Range(signals) : s.kind = "browsed"}

Asked == {a \in Nat \X Nodes :
            \E u \in Posted \cup Range(enriching) : u.id = a[1] /\ u.node = a[2]}

Answered(id) ==
  \/ \E u \in Posted : u.id = id
  \/ \E e \in Range(enriching) :
       e.id = id /\ [id |-> e.id, node |-> e.node, chunk |-> e.chunk] \in reads

Ends == \E s \in Range(signals) : s.kind = "connected" /\ ~s.up

Working == {id \in Nat : Ends \/ Answered(id)}

(* What is brought to the GUI are children of the node asked for.              *)
BringsKids ==
  /\ \A e \in Range(enriching) :
       e.kids \subseteq Kids[e.node] /\ e.chunk \in 1..Chunks[e.node]
  /\ \A s \in Range(signals) : s.kind = "browsed" => s.kids \subseteq Kids[s.node]

(* The trees "mods", of which none is active unless c, and the table "routes",   *)
(* when A are the ids and nodes under way and W the ids that will be answered.   *)
(* Ids are the manager's own and requests the models' own; an answer to a        *)
(* request that is still pending is about the node that was asked; every         *)
(* pending request has an id that will be answered.                            *)
Linked(mods, routes, nb, c, A, W) ==
  /\ mods \in [Models -> Trees] /\ routes \in Routes /\ nb \in Nat
  /\ \A m \in Models : ModelOK(mods[m]) /\ (mods[m].active => c)
  /\ mods["tree"].root = Root
  /\ \A b \in DOMAIN routes : b <= nb /\ routes[b].req <= mods[routes[b].model].next
  /\ \A id \in Nat, n \in Nodes : <<id, n>> \in A =>
       /\ id <= nb
       /\ id \in DOMAIN routes /\ routes[id].req \in DOMAIN mods[routes[id].model].pending =>
            mods[routes[id].model].pending[routes[id].req] = n
  /\ \A m \in Models : \A q \in DOMAIN mods[m].pending :
       \E id \in DOMAIN routes : routes[id].model = m /\ routes[id].req = q /\ id \in W

(* The reveal r over the tree t.                                              *)
RevealFits(r, t) ==
  /\ r.depth <= Len(r.path)
  /\ r.parent \in Loaded(t) \cup {NoNode}
  /\ ~r.active => r = Idle
  /\ r.active /\ ~r.stale /\ t.active =>
       r.wait \in Loaded(t) /\ t.items[r.wait] = "Fetching"

Inv ==
  /\ Types
  /\ BringsKids
  /\ Linked(model, route, nextBrowse, gConnected, Asked, Working)
  /\ RevealFits(reveal, model["tree"])

-----------------------------------------------------------------------------
(* Sequences, places and empty functions.                                    *)

(* Every rank is taken in a finite set of numbers.                              *)
LEMMA RankTaken ==
  ASSUME NEW S \in SUBSET Nat, IsFiniteSet(S), NEW n \in 1..Cardinality(S)
  PROVE  \E i \in S : Cardinality({j \in S : j <= i}) = n
  <1>. DEFINE upto(i) == {j \in S : j <= i}
              rank    == [i \in S |-> Cardinality(upto(i))]
              places  == 1..Cardinality(S)
  <1>1. Cardinality(S) \in Nat
    BY FS_CardinalityType
  <1>2. ASSUME NEW i \in S
        PROVE  IsFiniteSet(upto(i)) /\ Cardinality(upto(i)) \in places
    <2>1. IsFiniteSet(upto(i)) /\ Cardinality(upto(i)) <= Cardinality(S)
      BY FS_Subset
    <2>2. i \in upto(i)
      BY <1>2
    <2>3. Cardinality(upto(i)) \in Nat /\ Cardinality(upto(i)) # 0
      BY <2>1, <2>2, FS_CardinalityType, FS_EmptySet
    <2>. QED  BY <1>1, <2>1, <2>3
  <1>3. ASSUME NEW i \in S, NEW k \in S, i < k
        PROVE  Cardinality(upto(i)) < Cardinality(upto(k))
    <2>1. IsFiniteSet(upto(k)) /\ upto(i) \subseteq upto(k)
      <3>1. ASSUME NEW j \in S, j <= i  PROVE j <= k
        BY <1>3, <3>1
      <3>. QED  BY <1>2, <3>1
    <2>2. k \in upto(k) /\ k \notin upto(i)
      BY <1>3
    <2>3. /\ Cardinality(upto(i)) <= Cardinality(upto(k))
          /\ Cardinality(upto(i)) = Cardinality(upto(k)) => upto(i) = upto(k)
      BY <2>1, FS_Subset
    <2>4. Cardinality(upto(i)) # Cardinality(upto(k))
      BY <2>2, <2>3
    <2>. QED  BY <1>2, <2>3, <2>4
  <1>4. rank \in Injection(S, places)
    <2>1. rank \in [S -> places]
      BY <1>2
    <2>2. ASSUME NEW i \in S, NEW k \in S, rank[i] = rank[k]  PROVE i = k
      <3>1. ~(i < k) /\ ~(k < i)
        BY <1>2, <1>3, <2>2
      <3>. QED  BY <3>1
    <2>. QED  BY <2>1, <2>2 DEF Injection, IsInjective
  <1>5. IsFiniteSet(places) /\ Cardinality(places) = Cardinality(S)
    BY <1>1, FS_Interval
  <1>. HIDE DEF rank, places
  <1>6. rank \in Surjection(S, places)
    BY <1>4, <1>5, FS_Injection
  <1>7. \E i \in S : rank[i] = n
    BY <1>6 DEF Surjection, places
  <1>. QED  BY <1>7 DEF rank

(* The members at some places are these and no others.                        *)
LEMMA AtOnto ==
  ASSUME NEW S, NEW es \in Seq(S), NEW is \in SUBSET DOMAIN es
  PROVE  /\ At(es, is) \in Seq(S)
         /\ \A k \in DOMAIN At(es, is) : \E i \in is : At(es, is)[k] = es[i]
         /\ \A i \in is : \E k \in DOMAIN At(es, is) : At(es, is)[k] = es[i]
  <1>. DEFINE upto(i)  == {j \in is : j <= i}
              place(k) == CHOOSE i \in is : Cardinality(upto(i)) = k
              n        == Cardinality(is)
  <1>1. is \in SUBSET Nat /\ IsFiniteSet(is) /\ n \in Nat
    <2>1. DOMAIN es = 1..Len(es) /\ Len(es) \in Nat
      OBVIOUS
    <2>2. IsFiniteSet(DOMAIN es)
      BY <2>1, FS_Interval
    <2>. QED  BY <2>1, <2>2, FS_Subset, FS_CardinalityType
  <1>2. At(es, is) = [k \in 1..n |-> es[place(k)]]
    BY DEF At
  <1>3. ASSUME NEW k \in 1..n  PROVE place(k) \in is /\ Cardinality(upto(place(k))) = k
    BY <1>1, RankTaken
  <1>4. ASSUME NEW i \in is  PROVE \E k \in 1..n : place(k) = i
    <2>. DEFINE k == Cardinality(upto(i))
    <2>1. upto(i) \subseteq is /\ i \in upto(i)
      BY <1>1
    <2>2. IsFiniteSet(upto(i)) /\ k <= n /\ k \in Nat
      BY <1>1, <2>1, FS_Subset, FS_CardinalityType
    <2>3. k # 0
      BY <2>1, <2>2, FS_EmptySet
    <2>4. k \in 1..n
      BY <1>1, <2>2, <2>3
    <2>5. place(k) \in is /\ Cardinality(upto(place(k))) = Cardinality(upto(i))
      BY <1>3, <2>4
    <2>6. ASSUME NEW a \in is, NEW b \in is, a < b  PROVE Cardinality(upto(a)) # Cardinality(upto(b))
      <3>1. upto(a) \subseteq upto(b) /\ b \in upto(b) /\ b \notin upto(a)
        BY <1>1, <2>6
      <3>2. IsFiniteSet(upto(b))
        BY <1>1, FS_Subset
      <3>. QED  BY <3>1, <3>2, FS_Subset
    <2>. HIDE DEF k
    <2>7. place(k) = i
      <3>. DEFINE c == place(k)
      <3>1. c \in is /\ Cardinality(upto(c)) = Cardinality(upto(i)) /\ c \in Nat /\ i \in Nat
        BY <1>1, <2>5
      <3>. HIDE DEF c
      <3>2. ~(c < i) /\ ~(i < c)
        BY <2>6, <3>1
      <3>3. c = i
        BY <3>1, <3>2
      <3>. QED  BY <3>3 DEF c
    <2>. QED  BY <2>4, <2>7
  <1>. HIDE DEF place, n
  <1>5. At(es, is) \in Seq(S)
    <2>1. \A i \in is : es[i] \in S
      OBVIOUS
    <2>2. \A k \in 1..n : es[place(k)] \in S
      BY <1>3, <2>1
    <2>3. At(es, is) \in [1..n -> S]
      BY <1>2, <2>2
    <2>. QED  BY <1>1, <2>3
  <1>6. DOMAIN At(es, is) = 1..n /\ \A k \in 1..n : At(es, is)[k] = es[place(k)]
    BY <1>2
  <1>. QED  BY <1>3, <1>4, <1>5, <1>6

LEMMA EmptyFunction ==
  /\ DOMAIN <<>> = {}
  /\ \A S : <<>> \in [{} -> S]
  /\ \A S, T : \A f \in [S -> T] : S = {} => f = <<>>
  <1>1. DOMAIN <<>> = {}
    OBVIOUS
  <1>2. <<>> = [x \in {} |-> x]
    BY <1>1
  <1>. QED  BY <1>1, <1>2

(* A bounded set of numbers has a last.                                       *)
LEMMA LastExists ==
  ASSUME NEW m \in Nat, NEW D \in SUBSET (0..m), D # {}
  PROVE  \E i \in D : \A j \in D : j <= i
  <1>. DEFINE R == OpToRel(<, Nat)
              E == {k \in Nat : m - k \in D}
  <1>1. \A x, y \in Nat : <<y, x>> \in R <=> y < x
    BY DEF OpToRel
  <1>2. IsWellFoundedOn(R, Nat)
    BY NatLessThanWellFounded
  <1>. HIDE DEF R
  <1>3. E # {}
    <2>1. PICK d \in D : TRUE
      OBVIOUS
    <2>2. m - d \in Nat /\ m - (m - d) = d
      BY <2>1
    <2>. QED  BY <2>1, <2>2
  <1>4. PICK k \in E : \A l \in E : ~(<<l, k>> \in R)
    BY <1>2, <1>3, WFMin
  <1>5. \A j \in D : m - j \in E
    <2>. TAKE j \in D
    <2>1. m - j \in Nat /\ m - (m - j) = j
      OBVIOUS
    <2>. QED  BY <2>1
  <1>6. \A j \in D : j <= m - k
    <2>. TAKE j \in D
    <2>1. ~(m - j < k)
      BY <1>1, <1>4, <1>5
    <2>. QED  BY <1>4, <2>1
  <1>. QED  BY <1>4, <1>6

(* How far a reveal gets is a place of its path, and its nodes down to there    *)
(* are loaded.                                                              *)
LEMMA LoadedDepthReached ==
  ASSUME NEW r \in Reveals, NEW t \in Trees, r.depth <= Len(r.path)
  PROVE  /\ LoadedDepth(r, t) \in r.depth..Len(r.path)
         /\ \A j \in r.depth + 1..LoadedDepth(r, t) : r.path[j] \in Loaded(t)
  <1>. DEFINE above(j) == IF j > r.depth + 1 THEN r.path[j - 1]
                          ELSE IF r.parent = NoNode THEN t.root ELSE r.parent
              reached == {k \in r.depth..Len(r.path) :
                            \A j \in r.depth + 1..k : r.path[j] \in Loaded(t) \cap Kids[above(j)]}
              d == CHOOSE k \in reached : \A j \in reached : j <= k
  <1>1. r.depth \in Nat /\ Len(r.path) \in Nat
    BY DEF Reveals
  <1>2. r.depth \in reached
    BY <1>1
  <1>3. reached \in SUBSET (0..Len(r.path)) /\ reached # {}
    BY <1>1, <1>2
  <1>4. LoadedDepth(r, t) = d
    BY DEF LoadedDepth
  <1>5. d \in reached
    <2>. HIDE DEF reached
    <2>. QED  BY <1>1, <1>3, LastExists
  <1>. QED  BY <1>4, <1>5

-----------------------------------------------------------------------------
(* The operations on one tree.                                               *)

(* A tree is made of its parts.                                              *)
LEMMA TreeParts ==
  ASSUME NEW t \in Trees
  PROVE  /\ t.active \in BOOLEAN /\ t.root \in Nodes /\ Loaded(t) \subseteq Nodes
         /\ t.items \in [Loaded(t) -> Status]
         /\ DOMAIN t.pending \subseteq Nat /\ t.pending \in [DOMAIN t.pending -> Nodes]
         /\ t.next \in Nat /\ t.query \subseteq Nodes /\ t.flagged \subseteq Nodes
  <1>1. PICK S \in SUBSET Nodes : t.items \in [S -> Status]
    BY DEF Trees
  <1>2. PICK P \in SUBSET Nat : t.pending \in [P -> Nodes]
    BY DEF Trees
  <1>. QED  BY <1>1, <1>2 DEF Trees, Loaded

LEMMA TreeMade ==
  ASSUME NEW t \in Trees, NEW a \in BOOLEAN, NEW r \in Nodes,
         NEW S \in SUBSET Nodes, NEW i \in [S -> Status],
         NEW P \in SUBSET Nat, NEW p \in [P -> Nodes],
         NEW n \in Nat, NEW q \in SUBSET Nodes, NEW f \in SUBSET Nodes
  PROVE  [active |-> a, root |-> r, items |-> i, pending |-> p, next |-> n,
          query |-> q, flagged |-> f] \in Trees
  <1>1. i \in UNION {[X -> Status] : X \in SUBSET Nodes}
    OBVIOUS
  <1>2. p \in UNION {[X -> Nodes] : X \in SUBSET Nat}
    OBVIOUS
  <1>. QED  BY <1>1, <1>2 DEF Trees

(* fetchMore() of a node that can be fetched.                                  *)
LEMMA MarkFetchingOK ==
  ASSUME NEW t, ModelOK(t), NEW n, CanFetch(t, n)
  PROVE  LET f == MarkFetching(t, n)
         IN  /\ ModelOK(f) /\ n \in Loaded(t)
             /\ f.root = t.root /\ f.active = t.active /\ f.next = t.next + 1
             /\ Loaded(f) = Loaded(t) /\ f.items[n] = "Fetching"
             /\ \A k \in Loaded(t) : t.items[k] = "Fetching" => f.items[k] = "Fetching"
             /\ DOMAIN f.pending = DOMAIN t.pending \cup {f.next} /\ f.pending[f.next] = n
             /\ \A q \in DOMAIN t.pending : f.pending[q] = t.pending[q] /\ q # f.next
  <1>. DEFINE f     == MarkFetching(t, n)
              next  == t.next + 1
              items == [t.items EXCEPT ![n] = "Fetching"]
              pend  == With(t.pending, next, n)
  <1>1. t \in Trees /\ ShapeOK(t) /\ PendingOK(t) /\ Flagged(t)
    BY DEF ModelOK
  <1>2. n \in Loaded(t) /\ t.items[n] \in {"NotFetched", "Error"}
    BY DEF CanFetch
  <1>3. /\ t.items \in [Loaded(t) -> Status] /\ Loaded(t) \subseteq Nodes /\ next \in Nat /\ t.next \in Nat
        /\ DOMAIN t.pending \subseteq Nat /\ t.pending \in [DOMAIN t.pending -> Nodes]
    BY <1>1, TreeParts
  <1>4. /\ items \in [Loaded(t) -> Status] /\ items[n] = "Fetching"
        /\ \A k \in Loaded(t) : k # n => items[k] = t.items[k]
    BY <1>2, <1>3 DEF Status
  <1>5. next \notin DOMAIN t.pending /\ \A q \in DOMAIN t.pending : q <= next
    BY <1>1, <1>3 DEF PendingOK
  <1>6. /\ DOMAIN pend = DOMAIN t.pending \cup {next} /\ pend[next] = n
        /\ \A q \in DOMAIN t.pending : pend[q] = t.pending[q] /\ q # next
        /\ pend \in [DOMAIN pend -> Nodes]
    BY <1>2, <1>3, <1>5 DEF With
  <1>7. f = [active |-> t.active, root |-> t.root, items |-> items, pending |-> pend,
             next |-> next, query |-> t.query, flagged |-> t.flagged]
    <2>1. f = [t EXCEPT !.items = items, !.next = next, !.pending = pend]
      BY DEF MarkFetching
    <2>. HIDE DEF items, pend, next, f
    <2>. QED  BY <1>1, <2>1, Zenon DEF Trees
  <1>. HIDE DEF items, pend, next, f
  <1>8. f \in Trees
    <2>1. DOMAIN pend \in SUBSET Nat
      BY <1>3, <1>6
    <2>. QED  BY <1>1, <1>3, <1>4, <1>6, <1>7, <2>1, TreeParts, TreeMade
  <1>9. Loaded(f) = Loaded(t) /\ f.items = items /\ f.pending = pend /\ f.next = next
        /\ f.root = t.root /\ f.active = t.active
    BY <1>4, <1>7 DEF Loaded
  <1>10. ShapeOK(f)
    <2>. SUFFICES ASSUME NEW k \in Loaded(t) \ {t.root}
                  PROVE  \E p \in Loaded(t) : k \in Kids[p] /\ items[p] = "Fetched"
      BY <1>1, <1>9 DEF ShapeOK
    <2>1. PICK p \in Loaded(t) : k \in Kids[p] /\ t.items[p] = "Fetched"
      BY <1>1 DEF ShapeOK
    <2>. QED  BY <1>2, <1>4, <2>1
  <1>11. PendingOK(f)
    <2>1. \A q \in DOMAIN t.pending : t.pending[q] # n /\ t.pending[q] \in Loaded(t) /\ t.items[t.pending[q]] = "Fetching"
      BY <1>1, <1>2 DEF PendingOK
    <2>2. \A q \in DOMAIN pend : q <= next /\ pend[q] \in Loaded(t) /\ items[pend[q]] = "Fetching"
      BY <1>2, <1>3, <1>4, <1>5, <1>6, <2>1
    <2>3. \A q, r \in DOMAIN pend : pend[q] = pend[r] => q = r
      BY <1>1, <1>6, <2>1 DEF PendingOK
    <2>4. \A k \in Loaded(t) : items[k] = "Fetching" => \E q \in DOMAIN pend : pend[q] = k
      BY <1>1, <1>4, <1>6 DEF PendingOK
    <2>. QED  BY <1>9, <2>2, <2>3, <2>4 DEF PendingOK
  <1>12. Flagged(f)
    BY <1>1, <1>7, <1>9 DEF Flagged
  <1>. QED  BY <1>2, <1>4, <1>6, <1>7, <1>8, <1>9, <1>10, <1>11, <1>12 DEF ModelOK, f, next

(* The marks after rebuildSearchMatches().                                    *)
LEMMA FlagOK ==
  ASSUME NEW t \in Trees, ShapeOK(t), PendingOK(t)
  PROVE  LET f == Rebuilt(t)
         IN  /\ ModelOK(f)
             /\ f.root = t.root /\ f.active = t.active /\ f.next = t.next
             /\ f.items = t.items /\ f.pending = t.pending
  <1>. DEFINE f     == Rebuilt(t)
              marks == (Loaded(t) \ {t.root}) \cap t.query
  <1>1. f = [t EXCEPT !.flagged = marks]
    BY DEF Rebuilt, Flag
  <1>2. Loaded(t) \subseteq Nodes
    BY TreeParts
  <1>3. marks \in SUBSET Nodes
    BY <1>2
  <1>. HIDE DEF marks
  <1>4. f \in Trees
    BY <1>1, <1>3 DEF Trees
  <1>5. /\ f.flagged = marks /\ f.query = t.query
        /\ f.root = t.root /\ f.active = t.active /\ f.next = t.next
        /\ f.items = t.items /\ f.pending = t.pending
    BY <1>1 DEF Trees
  <1>6. ShapeOK(f) /\ PendingOK(f)
    BY <1>5 DEF ShapeOK, PendingOK, Loaded
  <1>7. Flagged(f)
    BY <1>5 DEF Flagged, Loaded, marks
  <1>. QED  BY <1>4, <1>5, <1>6, <1>7 DEF ModelOK

(* setConnectionActive() and setRootNode(): an inactive tree is empty, an active *)
(* one is its root.                                                         *)
LEMMA ResetOK ==
  ASSUME NEW t \in Trees, NEW a \in BOOLEAN
  PROVE  LET f == ResetModel(t, a)
         IN  /\ ModelOK(f) /\ f.root = t.root /\ f.active = a /\ f.next = t.next
             /\ DOMAIN f.pending = {} /\ (~a => Loaded(f) = {})
  <1>. DEFINE items == IF a THEN [n \in {t.root} |-> "NotFetched"] ELSE <<>>
              e     == [t EXCEPT !.active = a, !.pending = <<>>, !.items = items]
  <1>1. t.root \in Nodes
    BY TreeParts
  <1>2. \E S \in SUBSET Nodes : items \in [S -> Status] /\ DOMAIN items = S /\ S = (IF a THEN {t.root} ELSE {})
    BY <1>1, EmptyFunction DEF Status
  <1>3. /\ a => DOMAIN items = {t.root} /\ items[t.root] = "NotFetched"
        /\ ~a => DOMAIN items = {}
    BY EmptyFunction
  <1>4. <<>> \in UNION {[S -> Nodes] : S \in SUBSET Nat}
    <2>1. {} \in SUBSET Nat /\ <<>> \in [{} -> Nodes]
      BY EmptyFunction
    <2>. QED  BY <2>1
  <1>. HIDE DEF items
  <1>5. items \in UNION {[S -> Status] : S \in SUBSET Nodes}
    BY <1>2
  <1>6. e \in Trees /\ e.active = a /\ e.items = items /\ e.pending = <<>> /\ e.root = t.root /\ e.next = t.next
    BY <1>4, <1>5, Zenon DEF Trees
  <1>. HIDE DEF e
  <1>7. Loaded(e) = DOMAIN items /\ DOMAIN e.pending = {}
    BY <1>6, EmptyFunction DEF Loaded
  <1>8. ShapeOK(e)
    BY <1>3, <1>6, <1>7 DEF ShapeOK
  <1>9. PendingOK(e)
    BY <1>3, <1>6, <1>7 DEF PendingOK
  <1>10. ResetModel(t, a) = Rebuilt(e)
    BY DEF ResetModel, e, items
  <1>. HIDE DEF e
  <1>11. Loaded(Rebuilt(e)) = Loaded(e) /\ DOMAIN Rebuilt(e).pending = {}
    BY <1>6, <1>7, <1>8, <1>9, FlagOK DEF Loaded
  <1>. QED  BY <1>3, <1>6, <1>7, <1>8, <1>9, <1>10, <1>11, FlagOK

LEMMA SearchOK ==
  ASSUME NEW t, ModelOK(t), NEW q \in SearchQueries
  PROVE  LET f == Rebuilt([t EXCEPT !.query = q])
         IN  /\ ModelOK(f) /\ f.root = t.root /\ f.active = t.active /\ f.next = t.next
             /\ f.items = t.items /\ f.pending = t.pending
  <1>. DEFINE e == [t EXCEPT !.query = q]
  <1>1. q \in SUBSET Nodes
    BY TreeAssumption DEF TreeAssumption
  <1>2. /\ e \in Trees /\ e.root = t.root /\ e.active = t.active /\ e.next = t.next
        /\ e.items = t.items /\ e.pending = t.pending
    BY <1>1 DEF ModelOK, Trees
  <1>3. ShapeOK(e) /\ PendingOK(e)
    BY <1>2 DEF ModelOK, ShapeOK, PendingOK, Loaded
  <1>. HIDE DEF e
  <1>4. /\ ModelOK(Rebuilt(e)) /\ Rebuilt(e).root = t.root /\ Rebuilt(e).active = t.active
        /\ Rebuilt(e).next = t.next /\ Rebuilt(e).items = t.items /\ Rebuilt(e).pending = t.pending
    BY <1>2, <1>3, FlagOK
  <1>. QED  BY <1>4 DEF e

LEMMA FocusOnOK ==
  ASSUME NEW n \in Nodes \cup {NoNode}, NEW t, ModelOK(t), NEW up \in BOOLEAN, gConnected' = up
  PROVE  LET f == FocusOn(n, t)
         IN  /\ ModelOK(f) /\ (f.active => up) /\ f.next = t.next
             /\ DOMAIN f.pending = {}
  <1>1. t \in Trees
    BY DEF ModelOK
  <1>2. CASE n = NoNode \/ ~up
    <2>1. CASE t.active
      BY <1>1, <1>2, <2>1, ResetOK DEF FocusOn
    <2>2. CASE ~t.active
      <3>1. FocusOn(n, t) = t
        BY <1>2, <2>2 DEF FocusOn
      <3>2. DOMAIN t.pending = {}
        BY <2>2 DEF ModelOK, ShapeOK, PendingOK
      <3>. QED  BY <2>2, <3>1, <3>2
    <2>. QED  BY <2>1, <2>2
  <1>3. CASE ~(n = NoNode \/ ~up)
    <2>. DEFINE e == [t EXCEPT !.root = n]
    <2>1. e \in Trees /\ e.next = t.next
      BY <1>1, <1>3 DEF Trees
    <2>2. FocusOn(n, t) = ResetModel(e, TRUE)
      BY <1>3 DEF FocusOn
    <2>. HIDE DEF e
    <2>3. LET f == ResetModel(e, TRUE)
          IN  ModelOK(f) /\ f.next = e.next /\ DOMAIN f.pending = {}
      BY <2>1, ResetOK
    <2>. QED  BY <1>3, <2>1, <2>2, <2>3
  <1>. QED  BY <1>2, <1>3

(* The children of a node that is not fetched are not loaded, and the root is    *)
(* nobody's child.                                                          *)
LEMMA KidsAreNew ==
  ASSUME NEW t, ModelOK(t), NEW n \in Loaded(t), t.items[n] = "Fetching"
  PROVE  Kids[n] \cap Loaded(t) = {} /\ Kids[n] \subseteq Nodes
  <1>1. t \in Trees /\ ShapeOK(t) /\ Loaded(t) \subseteq Nodes
    BY TreeParts DEF ModelOK
  <1>2. Kids[n] \subseteq Nodes
    BY <1>1, TreeAssumption DEF TreeAssumption
  <1>3. ASSUME NEW k \in Kids[n] \cap Loaded(t)  PROVE FALSE
    <2>1. CASE k # t.root
      <3>1. PICK p \in Loaded(t) : k \in Kids[p] /\ t.items[p] = "Fetched"
        BY <1>1, <1>3, <2>1 DEF ShapeOK
      <3>2. p = n
        BY <1>1, <1>3, <3>1, TreeAssumption DEF TreeAssumption
      <3>. QED  BY <3>1, <3>2
    <2>2. CASE k = t.root
      <3>1. \A m \in Loaded(t) : \E p \in Loaded(t) : m \in Kids[p]
        <4>. TAKE m \in Loaded(t)
        <4>1. CASE m = t.root
          BY <1>3, <2>2, <4>1
        <4>2. CASE m # t.root
          BY <1>1, <4>2 DEF ShapeOK
        <4>. QED  BY <4>1, <4>2
      <3>2. Loaded(t) \in (SUBSET Nodes) \ {{}}
        BY <1>1
      <3>. QED  BY <3>1, <3>2, TreeAssumption DEF TreeAssumption
    <2>. QED  BY <2>1, <2>2
  <1>. QED  BY <1>2, <1>3

(* A request is settled and its answer applied.                                *)
Settled(t, q) == [t EXCEPT !.pending = Without(t.pending, q)]

LEMMA AppliedOK ==
  ASSUME NEW t, ModelOK(t), NEW q \in DOMAIN t.pending, NEW good \in BOOLEAN,
         NEW n, n = t.pending[q], NEW kids \in SUBSET Kids[n],
         NEW f, f = Applied(Settled(t, q), n, kids, good)
  PROVE  /\ ModelOK(f) /\ f.root = t.root /\ f.active = t.active /\ f.next = t.next
         /\ n \in Loaded(t) /\ t.items[n] = "Fetching" /\ Loaded(t) \subseteq Loaded(f)
         /\ DOMAIN f.pending = DOMAIN t.pending \ {q}
         /\ \A r \in DOMAIN f.pending : f.pending[r] = t.pending[r]
         /\ \A k \in Loaded(t) : k # n /\ t.items[k] = "Fetching" => f.items[k] = "Fetching"
  <1>. DEFINE pend  == Without(t.pending, q)
              s     == [t EXCEPT !.pending = pend]
              S     == IF good THEN Loaded(t) \cup kids ELSE Loaded(t)
              items == IF ~good THEN [t.items EXCEPT ![n] = "Error"]
                       ELSE [i \in Loaded(t) \cup kids |->
                               IF i = n THEN "Fetched" ELSE IF i \in kids THEN "NotFetched" ELSE t.items[i]]
              e     == [t EXCEPT !.pending = pend, !.items = items]
  <1>1. t \in Trees /\ ShapeOK(t) /\ PendingOK(t) /\ Flagged(t)
    BY DEF ModelOK
  <1>2. /\ t.items \in [Loaded(t) -> Status] /\ Loaded(t) \subseteq Nodes
        /\ DOMAIN t.pending \subseteq Nat /\ t.pending \in [DOMAIN t.pending -> Nodes]
    BY <1>1, TreeParts
  <1>3. n \in Loaded(t) /\ t.items[n] = "Fetching"
    BY <1>1 DEF PendingOK
  <1>4. kids \cap Loaded(t) = {} /\ kids \subseteq Nodes
    BY <1>3, KidsAreNew
  <1>5. /\ S \in SUBSET Nodes /\ items \in [S -> Status]
        /\ items[n] = (IF good THEN "Fetched" ELSE "Error")
        /\ \A k \in Loaded(t) : k # n => items[k] = t.items[k]
        /\ \A k \in S \ Loaded(t) : good /\ k \in kids /\ items[k] = "NotFetched"
    <2>1. CASE good
      BY <1>2, <1>3, <1>4, <2>1 DEF Status
    <2>2. CASE ~good
      BY <1>2, <1>3, <2>2 DEF Status
    <2>. QED  BY <2>1, <2>2
  <1>6. /\ DOMAIN pend = DOMAIN t.pending \ {q} /\ pend \in [DOMAIN pend -> Nodes]
        /\ \A r \in DOMAIN pend : pend[r] = t.pending[r]
    BY <1>2 DEF Without
  <1>7. s.items = t.items /\ Loaded(s) = Loaded(t)
    BY <1>1 DEF Trees, Loaded
  <1>8. f = IF good THEN Rebuilt(e) ELSE e
    <2>1. [s EXCEPT !.items = items] = e
      <3>. HIDE DEF pend, items
      <3>. QED  BY <1>1, Zenon DEF Trees
    <2>2. [s EXCEPT !.items[n] = "Error"] = [s EXCEPT !.items = [s.items EXCEPT ![n] = "Error"]]
      <3>. HIDE DEF s
      <3>. QED  OBVIOUS
    <2>3. f = Applied(s, n, kids, good)
      BY DEF Settled
    <2>. QED  BY <1>7, <2>1, <2>2, <2>3 DEF Applied
  <1>. HIDE DEF pend, items, S, s
  <1>9. items \in UNION {[X -> Status] : X \in SUBSET Nodes} /\ DOMAIN items = S
    BY <1>5
  <1>10. pend \in UNION {[X -> Nodes] : X \in SUBSET Nat}
    <2>1. DOMAIN pend \in SUBSET Nat
      BY <1>2, <1>6
    <2>. QED  BY <1>6, <2>1
  <1>11. /\ e \in Trees /\ e.items = items /\ e.pending = pend /\ e.root = t.root
         /\ e.active = t.active /\ e.next = t.next /\ e.flagged = t.flagged /\ e.query = t.query
    BY <1>1, <1>9, <1>10, Zenon DEF Trees
  <1>. HIDE DEF e
  <1>12. Loaded(e) = S /\ Loaded(t) \subseteq S
    BY <1>9, <1>11 DEF Loaded, S
  <1>13. t.active
    BY <1>1, <1>3 DEF ShapeOK
  <1>14. ShapeOK(e)
    <2>1. e.root \in Loaded(e) /\ e.active
      BY <1>1, <1>11, <1>12, <1>13 DEF ShapeOK
    <2>2. ASSUME NEW k \in S \ {t.root}
          PROVE  \E p \in S : k \in Kids[p] /\ items[p] = "Fetched"
      <3>1. CASE k \in Loaded(t)
        <4>1. PICK p \in Loaded(t) : k \in Kids[p] /\ t.items[p] = "Fetched"
          BY <1>1, <2>2, <3>1 DEF ShapeOK
        <4>. QED  BY <1>3, <1>5, <1>12, <4>1
      <3>2. CASE k \notin Loaded(t)
        BY <1>3, <1>5, <1>12, <2>2, <3>2
      <3>. QED  BY <3>1, <3>2
    <2>. QED  BY <1>11, <1>12, <2>1, <2>2 DEF ShapeOK
  <1>15. PendingOK(e)
    <2>1. \A r \in DOMAIN pend : pend[r] # n
      BY <1>1, <1>6 DEF PendingOK
    <2>2. \A r \in DOMAIN pend : r <= t.next /\ pend[r] \in S /\ items[pend[r]] = "Fetching"
      BY <1>1, <1>5, <1>6, <1>12, <2>1 DEF PendingOK
    <2>3. \A r, o \in DOMAIN pend : pend[r] = pend[o] => r = o
      BY <1>1, <1>6 DEF PendingOK
    <2>4. ASSUME NEW k \in S, items[k] = "Fetching"  PROVE \E r \in DOMAIN pend : pend[r] = k
      <3>1. k \in Loaded(t) /\ k # n /\ t.items[k] = "Fetching"
        BY <1>5, <2>4
      <3>2. PICK r \in DOMAIN t.pending : t.pending[r] = k
        BY <1>1, <3>1 DEF PendingOK
      <3>. QED  BY <1>6, <3>1, <3>2
    <2>. QED  BY <1>11, <1>12, <2>2, <2>3, <2>4 DEF PendingOK
  <1>16. CASE good
    <2>1. /\ ModelOK(f) /\ f.root = t.root /\ f.active = t.active /\ f.next = t.next
          /\ f.items = items /\ f.pending = pend
      BY <1>8, <1>11, <1>14, <1>15, <1>16, FlagOK
    <2>2. Loaded(f) = S
      BY <1>9, <2>1 DEF Loaded
    <2>. QED  BY <1>3, <1>5, <1>6, <1>12, <2>1, <2>2
  <1>17. CASE ~good
    <2>1. S = Loaded(t)
      BY <1>17 DEF S
    <2>2. Flagged(e)
      BY <1>1, <1>11, <1>12, <2>1 DEF Flagged
    <2>3. f = e /\ ModelOK(e)
      BY <1>8, <1>11, <1>14, <1>15, <1>17, <2>2 DEF ModelOK
    <2>. QED  BY <1>3, <1>5, <1>6, <1>11, <1>12, <2>1, <2>3
  <1>. QED  BY <1>16, <1>17

-----------------------------------------------------------------------------
(* The trees and the routing table.                                          *)

LEMMA RouteParts ==
  ASSUME NEW routes \in Routes
  PROVE  /\ DOMAIN routes \subseteq Nat
         /\ \A b \in DOMAIN routes : /\ routes[b] \in [model : Models, req : Nat]
                                     /\ routes[b].model \in Models /\ routes[b].req \in Nat
  <1>1. PICK S \in SUBSET Nat : routes \in [S -> [model : Models, req : Nat]]
    BY DEF Routes
  <1>. QED  BY <1>1

LEMMA RoutesMade ==
  ASSUME NEW S \in SUBSET Nat, NEW routes \in [S -> [model : Models, req : Nat]]
  PROVE  routes \in Routes
  BY DEF Routes

LEMMA LinkedWeaker ==
  ASSUME NEW mods, NEW routes, NEW nb, NEW c, NEW A, NEW W,
         Linked(mods, routes, nb, c, A, W), NEW B, NEW V, B \subseteq A, W \subseteq V
  PROVE  Linked(mods, routes, nb, c, B, V)
  BY DEF Linked

(* A fetch by m under a new id.                                               *)
LEMMA LinkedFetch ==
  ASSUME NEW mods, NEW routes, NEW nb, NEW c, NEW A, NEW W,
         Linked(mods, routes, nb, c, A, W),
         NEW m \in Models, NEW n, CanFetch(mods[m], n)
  PROVE  LET f == MarkFetching(mods[m], n)
         IN  Linked([mods EXCEPT ![m] = f], With(routes, nb + 1, [model |-> m, req |-> f.next]), nb + 1, c,
                    A \cup {<<nb + 1, n>>}, W \cup {nb + 1})
  <1>. DEFINE f    == MarkFetching(mods[m], n)
              mods2 == [mods EXCEPT ![m] = f]
              entry == [model |-> m, req |-> f.next]
              routes2 == With(routes, nb + 1, entry)
  <1>1. mods \in [Models -> Trees] /\ routes \in Routes /\ nb \in Nat
    BY DEF Linked
  <1>2. ModelOK(mods[m]) /\ (mods[m].active => c)
    BY DEF Linked
  <1>3. /\ ModelOK(f) /\ n \in Loaded(mods[m]) /\ f.root = mods[m].root /\ f.active = mods[m].active
        /\ f.next = mods[m].next + 1
        /\ DOMAIN f.pending = DOMAIN mods[m].pending \cup {f.next} /\ f.pending[f.next] = n
        /\ \A q \in DOMAIN mods[m].pending : f.pending[q] = mods[m].pending[q] /\ q # f.next
    BY <1>2, MarkFetchingOK
  <1>4. f \in Trees /\ f.next \in Nat /\ mods[m].next \in Nat
    BY <1>1, <1>3, TreeParts DEF ModelOK
  <1>5. /\ DOMAIN routes \subseteq Nat
        /\ \A b \in DOMAIN routes : /\ routes[b] \in [model : Models, req : Nat]
                                    /\ routes[b].model \in Models /\ routes[b].req \in Nat
    BY <1>1, RouteParts
  <1>6. \A b \in DOMAIN routes : b <= nb /\ routes[b].req <= mods[routes[b].model].next
    BY DEF Linked
  <1>7. nb + 1 \notin DOMAIN routes
    BY <1>1, <1>5, <1>6
  <1>. HIDE DEF f
  <1>8. /\ mods2 \in [Models -> Trees] /\ mods2[m] = f
        /\ \A k \in Models : k # m => mods2[k] = mods[k]
    BY <1>1, <1>4
  <1>9. /\ DOMAIN routes2 = DOMAIN routes \cup {nb + 1} /\ routes2[nb + 1] = entry
        /\ \A b \in DOMAIN routes : routes2[b] = routes[b]
    BY <1>7 DEF With
  <1>10. entry \in [model : Models, req : Nat] /\ entry.model = m /\ entry.req = f.next
    BY <1>4
  <1>11. routes2 \in Routes
    <2>1. DOMAIN routes2 \in SUBSET Nat
      BY <1>1, <1>5, <1>9
    <2>2. \A b \in DOMAIN routes2 : routes2[b] \in [model : Models, req : Nat]
      BY <1>5, <1>9, <1>10
    <2>3. routes2 = [b \in DOMAIN routes2 |-> routes2[b]]
      BY DEF With
    <2>. HIDE DEF routes2, entry
    <2>4. routes2 \in [DOMAIN routes2 -> [model : Models, req : Nat]]
      BY <2>2, <2>3
    <2>. QED  BY <2>1, <2>4, RoutesMade
  <1>. HIDE DEF mods2, entry, routes2
  <1>12. \A k \in Models : ModelOK(mods2[k]) /\ (mods2[k].active => c)
    <2>. TAKE k \in Models
    <2>1. ModelOK(mods[k]) /\ (mods[k].active => c)
      BY DEF Linked
    <2>. QED  BY <1>2, <1>3, <1>8, <2>1
  <1>13. mods2["tree"].root = Root
    <2>1. mods["tree"].root = Root /\ "tree" \in Models
      BY DEF Linked, Models
    <2>. QED  BY <1>3, <1>8, <2>1
  <1>14. \A b \in DOMAIN routes2 : b <= nb + 1 /\ routes2[b].req <= mods2[routes2[b].model].next
    <2>. TAKE b \in DOMAIN routes2
    <2>1. CASE b = nb + 1
      BY <1>1, <1>4, <1>8, <1>9, <1>10, <2>1
    <2>2. CASE b # nb + 1
      <3>1. b \in DOMAIN routes /\ routes2[b] = routes[b] /\ b <= nb /\ routes[b].model \in Models
            /\ b \in Nat /\ routes[b].req \in Nat
            /\ routes[b].req <= mods[routes[b].model].next
        BY <1>5, <1>6, <1>9, <2>2
      <3>2. mods[routes[b].model].next \in Nat
        BY <1>1, <3>1, TreeParts
      <3>3. CASE routes[b].model = m
        BY <1>1, <1>3, <1>8, <3>1, <3>2, <3>3
      <3>4. CASE routes[b].model # m
        BY <1>1, <1>8, <3>1, <3>4
      <3>. QED  BY <3>3, <3>4
    <2>. QED  BY <2>1, <2>2
  <1>15. ASSUME NEW id \in Nat, NEW k \in Nodes, <<id, k>> \in A \cup {<<nb + 1, n>>}
         PROVE  /\ id <= nb + 1
                /\ id \in DOMAIN routes2 /\ routes2[id].req \in DOMAIN mods2[routes2[id].model].pending =>
                     mods2[routes2[id].model].pending[routes2[id].req] = k
    <2>1. CASE <<id, k>> = <<nb + 1, n>>
      <3>1. id = nb + 1 /\ k = n
        BY <2>1
      <3>. QED  BY <1>1, <1>3, <1>8, <1>9, <1>10, <3>1
    <2>2. CASE <<id, k>> \in A
      <3>1. /\ id <= nb
            /\ id \in DOMAIN routes /\ routes[id].req \in DOMAIN mods[routes[id].model].pending =>
                 mods[routes[id].model].pending[routes[id].req] = k
        BY <2>2 DEF Linked
      <3>2. ASSUME id \in DOMAIN routes2, routes2[id].req \in DOMAIN mods2[routes2[id].model].pending
            PROVE  mods2[routes2[id].model].pending[routes2[id].req] = k
        <4>1. id \in DOMAIN routes /\ routes2[id] = routes[id] /\ routes[id].model \in Models
              /\ routes[id].req <= mods[routes[id].model].next
          BY <1>1, <1>5, <1>6, <1>9, <3>1, <3>2
        <4>2. CASE routes[id].model = m
          <5>1. routes[id].req # f.next
            BY <1>3, <1>4, <1>5, <4>1, <4>2
          <5>. QED  BY <1>3, <1>8, <3>1, <3>2, <4>1, <4>2, <5>1
        <4>3. CASE routes[id].model # m
          BY <1>8, <3>1, <3>2, <4>1, <4>3
        <4>. QED  BY <4>2, <4>3
      <3>. QED  BY <1>1, <3>1, <3>2
    <2>. QED  BY <1>15, <2>1, <2>2
  <1>16. ASSUME NEW k \in Models, NEW q \in DOMAIN mods2[k].pending
         PROVE  \E id \in DOMAIN routes2 :
                  routes2[id].model = k /\ routes2[id].req = q /\ id \in W \cup {nb + 1}
    <2>1. CASE k = m /\ q = f.next
      BY <1>9, <1>10, <2>1
    <2>2. CASE ~(k = m /\ q = f.next)
      <3>1. q \in DOMAIN mods[k].pending
        BY <1>3, <1>8, <1>16, <2>2
      <3>2. PICK id \in DOMAIN routes : routes[id].model = k /\ routes[id].req = q /\ id \in W
        BY <3>1 DEF Linked
      <3>. QED  BY <1>9, <3>2
    <2>. QED  BY <2>1, <2>2
  <1>17. Linked(mods2, routes2, nb + 1, c, A \cup {<<nb + 1, n>>}, W \cup {nb + 1})
    BY <1>1, <1>8, <1>11, <1>12, <1>13, <1>14, <1>15, <1>16 DEF Linked
  <1>. QED  BY <1>17 DEF f, mods2, routes2, entry

LEMMA WithoutRoute ==
  ASSUME NEW routes \in Routes, NEW id
  PROVE  LET rest == Without(routes, id)
         IN  /\ rest \in Routes /\ DOMAIN rest = DOMAIN routes \ {id}
             /\ \A b \in DOMAIN rest : rest[b] = routes[b]
  <1>. DEFINE rest == Without(routes, id)
  <1>1. /\ DOMAIN routes \subseteq Nat
        /\ \A b \in DOMAIN routes : routes[b] \in [model : Models, req : Nat]
    BY RouteParts
  <1>2. DOMAIN rest = DOMAIN routes \ {id} /\ \A b \in DOMAIN rest : rest[b] = routes[b]
    BY DEF Without
  <1>3. rest \in [DOMAIN rest -> [model : Models, req : Nat]]
    BY <1>1 DEF Without
  <1>. HIDE DEF rest
  <1>4. rest \in Routes
    BY <1>1, <1>2, <1>3, RoutesMade
  <1>. QED  BY <1>2, <1>4 DEF rest

(* An answer whose request is no longer pending.                               *)
LEMMA LinkedDrop ==
  ASSUME NEW mods, NEW routes, NEW nb, NEW c, NEW A, NEW W,
         Linked(mods, routes, nb, c, A, W), NEW id,
         id \in DOMAIN routes => routes[id].req \notin DOMAIN mods[routes[id].model].pending
  PROVE  Linked(mods, Without(routes, id), nb, c, A, W \ {id})
  <1>. DEFINE rest == Without(routes, id)
  <1>1. mods \in [Models -> Trees] /\ routes \in Routes /\ nb \in Nat
        /\ (\A m \in Models : ModelOK(mods[m]) /\ (mods[m].active => c)) /\ mods["tree"].root = Root
    BY DEF Linked
  <1>2. /\ rest \in Routes /\ DOMAIN rest = DOMAIN routes \ {id}
        /\ \A b \in DOMAIN rest : rest[b] = routes[b]
    BY <1>1, WithoutRoute
  <1>. HIDE DEF rest
  <1>3. \A b \in DOMAIN rest : b <= nb /\ rest[b].req <= mods[rest[b].model].next
    BY <1>2 DEF Linked
  <1>4. \A i \in Nat, n \in Nodes : <<i, n>> \in A =>
          /\ i <= nb
          /\ i \in DOMAIN rest /\ rest[i].req \in DOMAIN mods[rest[i].model].pending =>
               mods[rest[i].model].pending[rest[i].req] = n
    BY <1>2 DEF Linked
  <1>5. ASSUME NEW m \in Models, NEW q \in DOMAIN mods[m].pending
        PROVE  \E i \in DOMAIN rest : rest[i].model = m /\ rest[i].req = q /\ i \in W \ {id}
    <2>1. PICK i \in DOMAIN routes : routes[i].model = m /\ routes[i].req = q /\ i \in W
      BY DEF Linked
    <2>2. i # id
      BY <2>1
    <2>. QED  BY <1>2, <2>1, <2>2
  <1>6. Linked(mods, rest, nb, c, A, W \ {id})
    BY <1>1, <1>2, <1>3, <1>4, <1>5 DEF Linked
  <1>. QED  BY <1>6 DEF rest

(* An answer to a pending request, applied to its tree.                         *)
LEMMA LinkedSettle ==
  ASSUME NEW mods, NEW routes, NEW nb, NEW c, NEW A, NEW W,
         Linked(mods, routes, nb, c, A, W), NEW id \in DOMAIN routes,
         routes[id].req \in DOMAIN mods[routes[id].model].pending, NEW f,
         ModelOK(f), f.root = mods[routes[id].model].root, f.active = mods[routes[id].model].active,
         f.next = mods[routes[id].model].next,
         DOMAIN f.pending = DOMAIN mods[routes[id].model].pending \ {routes[id].req},
         \A r \in DOMAIN f.pending : f.pending[r] = mods[routes[id].model].pending[r]
  PROVE  Linked([mods EXCEPT ![routes[id].model] = f], Without(routes, id), nb, c, A, W \ {id})
  <1>. DEFINE rest == Without(routes, id)
              m    == routes[id].model
              req  == routes[id].req
              mods2 == [mods EXCEPT ![m] = f]
  <1>1. mods \in [Models -> Trees] /\ routes \in Routes /\ nb \in Nat /\ f \in Trees
        /\ (\A k \in Models : ModelOK(mods[k]) /\ (mods[k].active => c)) /\ mods["tree"].root = Root
    BY DEF Linked, ModelOK
  <1>2. /\ rest \in Routes /\ DOMAIN rest = DOMAIN routes \ {id}
        /\ \A b \in DOMAIN rest : rest[b] = routes[b]
    BY <1>1, WithoutRoute
  <1>3. m \in Models /\ \A b \in DOMAIN routes : routes[b].model \in Models
    BY <1>1, RouteParts
  <1>4. mods2 \in [Models -> Trees] /\ mods2[m] = f /\ \A k \in Models : k # m => mods2[k] = mods[k]
    BY <1>1, <1>3
  <1>5. /\ f.root = mods[m].root /\ f.active = mods[m].active /\ f.next = mods[m].next
        /\ DOMAIN f.pending = DOMAIN mods[m].pending \ {req}
        /\ \A r \in DOMAIN f.pending : f.pending[r] = mods[m].pending[r]
    OBVIOUS
  <1>. HIDE DEF rest, mods2
  <1>6. (\A k \in Models : ModelOK(mods2[k]) /\ (mods2[k].active => c)) /\ mods2["tree"].root = Root
    <2>1. "tree" \in Models
      BY DEF Models
    <2>. QED  BY <1>1, <1>3, <1>4, <1>5, <2>1
  <1>7. \A b \in DOMAIN rest : b <= nb /\ rest[b].req <= mods2[rest[b].model].next
    <2>. TAKE b \in DOMAIN rest
    <2>1. b <= nb /\ rest[b].req <= mods[rest[b].model].next /\ rest[b].model \in Models
      BY <1>2, <1>3 DEF Linked
    <2>. HIDE DEF m
    <2>. QED  BY <1>4, <1>5, <2>1
  <1>8. ASSUME NEW i \in Nat, NEW n \in Nodes, <<i, n>> \in A
        PROVE  /\ i <= nb
               /\ i \in DOMAIN rest /\ rest[i].req \in DOMAIN mods2[rest[i].model].pending =>
                    mods2[rest[i].model].pending[rest[i].req] = n
    <2>1. /\ i <= nb
          /\ i \in DOMAIN routes /\ routes[i].req \in DOMAIN mods[routes[i].model].pending =>
               mods[routes[i].model].pending[routes[i].req] = n
      BY <1>8 DEF Linked
    <2>2. ASSUME i \in DOMAIN rest, rest[i].req \in DOMAIN mods2[rest[i].model].pending
          PROVE  mods2[rest[i].model].pending[rest[i].req] = n
      <3>1. i \in DOMAIN routes /\ rest[i] = routes[i] /\ routes[i].model \in Models
        BY <1>2, <1>3, <2>2
      <3>2. CASE routes[i].model = m
        <4>. HIDE DEF m, req
        <4>. QED  BY <1>4, <1>5, <2>1, <2>2, <3>1, <3>2
      <3>3. CASE routes[i].model # m
        <4>. HIDE DEF m, req
        <4>. QED  BY <1>4, <2>1, <2>2, <3>1, <3>3
      <3>. QED  BY <3>2, <3>3
    <2>. QED  BY <2>1, <2>2
  <1>9. ASSUME NEW k \in Models, NEW q \in DOMAIN mods2[k].pending
        PROVE  \E i \in DOMAIN rest : rest[i].model = k /\ rest[i].req = q /\ i \in W \ {id}
    <2>1. q \in DOMAIN mods[k].pending /\ ~(k = m /\ q = req)
      <3>. HIDE DEF m, req
      <3>. QED  BY <1>4, <1>5, <1>9
    <2>2. PICK i \in DOMAIN routes : routes[i].model = k /\ routes[i].req = q /\ i \in W
      BY <2>1 DEF Linked
    <2>3. i # id
      BY <2>1, <2>2
    <2>. QED  BY <1>2, <2>2, <2>3
  <1>10. Linked(mods2, rest, nb, c, A, W \ {id})
    BY <1>1, <1>2, <1>4, <1>6, <1>7, <1>8, <1>9 DEF Linked
  <1>. QED  BY <1>10 DEF rest, mods2

(* Trees that are reset wait for nothing; the others are as they were.           *)
LEMMA LinkedReset ==
  ASSUME NEW mods, NEW routes, NEW nb, NEW c, NEW A, NEW W,
         Linked(mods, routes, nb, c, A, W), NEW up,
         NEW mods2 \in [Models -> Trees],
         \A m \in Models : /\ ModelOK(mods2[m]) /\ (mods2[m].active => up)
                           /\ mods2[m].next = mods[m].next
                           /\ \/ DOMAIN mods2[m].pending = {}
                              \/ mods2[m].pending = mods[m].pending,
         mods2["tree"].root = Root
  PROVE  Linked(mods2, routes, nb, up, A, W)
  <1>1. routes \in Routes /\ nb \in Nat
    BY DEF Linked
  <1>2. \A b \in DOMAIN routes : routes[b].model \in Models
    BY <1>1, RouteParts
  <1>3. \A b \in DOMAIN routes : b <= nb /\ routes[b].req <= mods2[routes[b].model].next
    BY <1>2 DEF Linked
  <1>4. \A id \in Nat, n \in Nodes : <<id, n>> \in A =>
          /\ id <= nb
          /\ id \in DOMAIN routes /\ routes[id].req \in DOMAIN mods2[routes[id].model].pending =>
               mods2[routes[id].model].pending[routes[id].req] = n
    BY <1>2 DEF Linked
  <1>5. \A m \in Models : \A q \in DOMAIN mods2[m].pending :
          \E id \in DOMAIN routes : routes[id].model = m /\ routes[id].req = q /\ id \in W
    BY DEF Linked
  <1>. QED  BY <1>1, <1>3, <1>4, <1>5 DEF Linked

(* The table is dropped when no tree waits for anything.                        *)
LEMMA LinkedDropAll ==
  ASSUME NEW mods, NEW routes, NEW nb, NEW c, NEW A, NEW W,
         Linked(mods, routes, nb, c, A, W), \A m \in Models : DOMAIN mods[m].pending = {}, NEW V
  PROVE  Linked(mods, <<>>, nb, c, A, V) /\ Linked(mods, routes, nb, c, A, V)
  <1>1. <<>> \in Routes /\ DOMAIN <<>> = {}
    <2>1. {} \in SUBSET Nat /\ <<>> \in [{} -> [model : Models, req : Nat]] /\ DOMAIN <<>> = {}
      BY EmptyFunction
    <2>. QED  BY <2>1, RoutesMade
  <1>2. Linked(mods, <<>>, nb, c, A, V)
    BY <1>1 DEF Linked
  <1>3. Linked(mods, routes, nb, c, A, V)
    BY DEF Linked
  <1>. QED  BY <1>2, <1>3

-----------------------------------------------------------------------------
(* The queues.                                                             *)

LEMMA RangeTail ==
  ASSUME NEW S, NEW q \in Seq(S), q # <<>>
  PROVE  Tail(q) \in Seq(S) /\ Head(q) \in S /\ Range(q) = {Head(q)} \cup Range(Tail(q))
  <1>1. /\ Tail(q) \in Seq(S) /\ Head(q) \in S /\ Head(q) = q[1] /\ Len(q) \in Nat /\ Len(q) >= 1
        /\ Len(Tail(q)) = Len(q) - 1 /\ DOMAIN q = 1..Len(q) /\ DOMAIN Tail(q) = 1..Len(q) - 1
        /\ \A i \in 1..Len(q) - 1 : Tail(q)[i] = q[i + 1]
    BY HeadTailProperties
  <1>2. \A i \in DOMAIN Tail(q) : i + 1 \in DOMAIN q /\ Tail(q)[i] = q[i + 1]
    BY <1>1
  <1>3. ASSUME NEW j \in DOMAIN q, j # 1  PROVE j - 1 \in DOMAIN Tail(q) /\ Tail(q)[j - 1] = q[j]
    <2>1. j - 1 \in 1..Len(q) - 1 /\ (j - 1) + 1 = j
      BY <1>1, <1>3
    <2>. QED  BY <1>1, <2>1
  <1>4. 1 \in DOMAIN q
    BY <1>1
  <1>5. Range(q) = {Head(q)} \cup Range(Tail(q))
    <2>1. Head(q) \in Range(q)
      BY <1>1, <1>4 DEF Range
    <2>2. \A e \in Range(Tail(q)) : e \in Range(q)
      BY <1>2 DEF Range
    <2>3. ASSUME NEW e \in Range(q)  PROVE e = Head(q) \/ e \in Range(Tail(q))
      <3>1. PICK j \in DOMAIN q : q[j] = e
        BY DEF Range
      <3>2. CASE j = 1
        BY <1>1, <3>1, <3>2
      <3>3. CASE j # 1
        <4>1. j - 1 \in DOMAIN Tail(q) /\ Tail(q)[j - 1] = e
          BY <1>3, <3>1, <3>3
        <4>. QED  BY <4>1 DEF Range
      <3>. QED  BY <3>2, <3>3
    <2>. QED  BY <2>1, <2>2, <2>3
  <1>. QED  BY <1>1, <1>5

LEMMA RangeAppend ==
  ASSUME NEW S, NEW q \in Seq(S), NEW x \in S
  PROVE  Append(q, x) \in Seq(S) /\ Range(Append(q, x)) = Range(q) \cup {x}
  <1>1. /\ Append(q, x) \in Seq(S) /\ Len(q) \in Nat /\ DOMAIN q = 1..Len(q)
        /\ DOMAIN Append(q, x) = 1..Len(q) + 1 /\ Append(q, x)[Len(q) + 1] = x
        /\ \A i \in 1..Len(q) : Append(q, x)[i] = q[i]
    BY AppendProperties
  <1>. QED  BY <1>1 DEF Range

LEMMA RangeConcat ==
  ASSUME NEW S, NEW q \in Seq(S), NEW r \in Seq(S)
  PROVE  q \o r \in Seq(S) /\ Range(q \o r) = Range(q) \cup Range(r)
  <1>1. /\ q \o r \in Seq(S) /\ Len(q) \in Nat /\ Len(r) \in Nat
        /\ DOMAIN q = 1..Len(q) /\ DOMAIN r = 1..Len(r)
        /\ DOMAIN (q \o r) = 1..Len(q) + Len(r)
        /\ \A i \in 1..Len(q) + Len(r) : (q \o r)[i] = IF i <= Len(q) THEN q[i] ELSE r[i - Len(q)]
    BY ConcatProperties
  <1>2. ASSUME NEW i \in DOMAIN (q \o r)  PROVE (q \o r)[i] \in Range(q) \cup Range(r)
    <2>1. CASE i <= Len(q)
      BY <1>1, <1>2, <2>1 DEF Range
    <2>2. CASE ~(i <= Len(q))
      <3>1. i - Len(q) \in DOMAIN r /\ (q \o r)[i] = r[i - Len(q)]
        BY <1>1, <1>2, <2>2
      <3>. QED  BY <3>1 DEF Range
    <2>. QED  BY <2>1, <2>2
  <1>3. \A j \in DOMAIN q : j \in DOMAIN (q \o r) /\ (q \o r)[j] = q[j]
    BY <1>1
  <1>4. ASSUME NEW j \in DOMAIN r  PROVE \E i \in DOMAIN (q \o r) : (q \o r)[i] = r[j]
    <2>1. /\ j + Len(q) \in 1..Len(q) + Len(r) /\ ~(j + Len(q) <= Len(q))
          /\ (j + Len(q)) - Len(q) = j
      BY <1>1, <1>4
    <2>2. (q \o r)[j + Len(q)] = r[j]
      BY <1>1, <2>1
    <2>. QED  BY <1>1, <2>1, <2>2
  <1>5. Range(q \o r) = Range(q) \cup Range(r)
    BY <1>2, <1>3, <1>4 DEF Range
  <1>. QED  BY <1>1, <1>5

LEMMA RangeAt ==
  ASSUME NEW S, NEW es \in Seq(S), NEW is \in SUBSET DOMAIN es
  PROVE  At(es, is) \in Seq(S) /\ Range(At(es, is)) = {es[i] : i \in is}
  <1>1. /\ At(es, is) \in Seq(S)
        /\ \A k \in DOMAIN At(es, is) : \E i \in is : At(es, is)[k] = es[i]
        /\ \A i \in is : \E k \in DOMAIN At(es, is) : At(es, is)[k] = es[i]
    BY AtOnto
  <1>2. Range(At(es, is)) = {At(es, is)[k] : k \in DOMAIN At(es, is)}
    BY DEF Range
  <1>. QED  BY <1>1, <1>2

LEMMA RangeInside ==
  ASSUME NEW S, NEW q \in Seq(S)
  PROVE  Range(q) \subseteq S
  BY DEF Range

(* A signal, by its kind.                                                    *)
LEMMA SignalParts ==
  /\ \A s \in Signals :
       \/ s.kind = "connected" /\ s.up \in BOOLEAN
       \/ /\ s.kind = "browsed" /\ s.id \in Nat /\ s.node \in Nodes
          /\ s.kids \subseteq Nodes /\ s.good \in BOOLEAN
  /\ \A up \in BOOLEAN : [kind |-> "connected", up |-> up] \in Signals
  /\ \A b : b.id \in Nat /\ b.node \in Nodes =>
       \A kids \in SUBSET Nodes, good \in BOOLEAN : Browsed(b, kids, good) \in Signals
  BY DEF Signals, Browsed

(* The requests a step of the GUI adds and the signal it takes.                 *)
GuiQueues(x) ==
  /\ requests' = requests \/ requests' = Append(requests, x)
  /\ signals' = signals \/ (signals # <<>> /\ signals' = Tail(signals))
  /\ UNCHANGED serviceVars

Takes(id) == signals # <<>> /\ signals' = Tail(signals) /\ Sent.kind = "browsed" /\ Sent.id = id

LEMMA GuiRanges ==
  ASSUME Types, NEW x \in Requests, GuiQueues(x)
  PROVE  /\ requests' \in Seq(Requests) /\ signals' \in Seq(Signals)
         /\ Range(requests) \subseteq Range(requests')
         /\ \/ Range(requests') = Range(requests)
            \/ requests' = Append(requests, x) /\ Range(requests') = Range(requests) \cup {x}
         /\ requests' = Append(requests, x) => x \in Range(requests')
         /\ Range(signals') \subseteq Range(signals)
         /\ \/ Range(signals) = Range(signals')
            \/ /\ signals # <<>> /\ signals' = Tail(signals)
               /\ Range(signals) = {Sent} \cup Range(signals')
  <1>1. requests \in Seq(Requests) /\ signals \in Seq(Signals)
    BY DEF Types
  <1>2. Append(requests, x) \in Seq(Requests) /\ Range(Append(requests, x)) = Range(requests) \cup {x}
    BY <1>1, RangeAppend
  <1>3. signals # <<>> => /\ Tail(signals) \in Seq(Signals)
                          /\ Range(signals) = {Sent} \cup Range(Tail(signals))
    BY <1>1, RangeTail DEF Sent
  <1>4. requests' \in Seq(Requests) /\ signals' \in Seq(Signals)
    BY <1>1, <1>2, <1>3 DEF GuiQueues
  <1>5. CASE requests' = Append(requests, x)
    BY <1>2, <1>3, <1>4, <1>5, Zenon DEF GuiQueues
  <1>6. CASE requests' = requests /\ requests' # Append(requests, x)
    BY <1>3, <1>4, <1>6, Zenon DEF GuiQueues
  <1>. QED  BY <1>5, <1>6 DEF GuiQueues

LEMMA GuiKeepsTypes ==
  ASSUME Types, BringsKids, NEW x \in Requests, GuiQueues(x)
  PROVE  /\ requests' \in Seq(Requests) /\ signals' \in Seq(Signals) /\ BringsKids'
         /\ sConnected' \in BOOLEAN /\ browsing' \in SUBSET Requests
         /\ enriching' \in Seq(Entries) /\ reads' \in SUBSET Reads
  <1>1. /\ requests' \in Seq(Requests) /\ signals' \in Seq(Signals)
        /\ Range(signals') \subseteq Range(signals)
    BY GuiRanges
  <1>2. UNCHANGED <<sConnected, browsing, enriching, reads>>
    BY DEF GuiQueues, serviceVars
  <1>3. BringsKids'
    BY <1>1, <1>2 DEF BringsKids
  <1>. QED  BY <1>1, <1>2, <1>3 DEF Types

LEMMA GuiKeepsWork ==
  ASSUME Types, NEW x \in Requests, GuiQueues(x)
  PROVE  /\ Asked' \subseteq Asked \cup (IF requests' = Append(requests, x) THEN {<<x.id, x.node>>} ELSE {})
         /\ \A id \in Nat : Answered(id) => Answered(id)' \/ Takes(id)
         /\ requests' = Append(requests, x) => Answered(x.id)'
         /\ Ends => \/ Ends'
                    \/ signals # <<>> /\ signals' = Tail(signals) /\ Sent.kind = "connected" /\ ~Sent.up
  <1>1. /\ Range(requests) \subseteq Range(requests')
        /\ \/ Range(requests') = Range(requests)
           \/ requests' = Append(requests, x) /\ Range(requests') = Range(requests) \cup {x}
        /\ requests' = Append(requests, x) => x \in Range(requests')
        /\ Range(signals') \subseteq Range(signals)
        /\ \/ Range(signals) = Range(signals')
           \/ /\ signals # <<>> /\ signals' = Tail(signals)
              /\ Range(signals) = {Sent} \cup Range(signals')
    BY GuiRanges
  <1>2. UNCHANGED <<browsing, enriching, reads>>
    BY DEF GuiQueues, serviceVars
  <1>3. /\ Posted' \subseteq Posted \cup {x}
        /\ requests' # Append(requests, x) => Posted' \subseteq Posted
    BY <1>1, <1>2 DEF Posted
  <1>4. ASSUME NEW u \in Posted
        PROVE  u \in Posted' \/ (signals # <<>> /\ signals' = Tail(signals) /\ u = Sent /\ Sent.kind = "browsed")
    BY <1>1, <1>2 DEF Posted
  <1>5. Asked' \subseteq Asked \cup (IF requests' = Append(requests, x) THEN {<<x.id, x.node>>} ELSE {})
    <2>. SUFFICES ASSUME NEW a \in Asked'
                  PROVE  a \in Asked \/ (requests' = Append(requests, x) /\ a = <<x.id, x.node>>)
      OBVIOUS
    <2>1. PICK u \in Posted' \cup Range(enriching) : u.id = a[1] /\ u.node = a[2]
      BY <1>2 DEF Asked
    <2>2. a \in Nat \X Nodes /\ a = <<a[1], a[2]>>
      BY DEF Asked
    <2>3. CASE u \in Posted \cup Range(enriching)
      BY <2>1, <2>2, <2>3 DEF Asked
    <2>4. CASE u = x /\ requests' = Append(requests, x)
      BY <2>1, <2>2, <2>4
    <2>. QED  BY <1>3, <2>1, <2>3, <2>4
  <1>6. ASSUME NEW id \in Nat, Answered(id)  PROVE Answered(id)' \/ Takes(id)
    <2>1. CASE \E u \in Posted : u.id = id
      BY <1>4, <2>1 DEF Answered, Takes
    <2>2. CASE \E e \in Range(enriching) :
                 e.id = id /\ [id |-> e.id, node |-> e.node, chunk |-> e.chunk] \in reads
      BY <1>2, <2>2 DEF Answered
    <2>. QED  BY <1>6, <2>1, <2>2 DEF Answered
  <1>7. requests' = Append(requests, x) => Answered(x.id)'
    BY <1>1 DEF Answered, Posted
  <1>8. Ends => \/ Ends'
                \/ signals # <<>> /\ signals' = Tail(signals) /\ Sent.kind = "connected" /\ ~Sent.up
    BY <1>1 DEF Ends
  <1>. QED  BY <1>5, <1>6, <1>7, <1>8

-----------------------------------------------------------------------------
(* The steps of the GUI.                                                     *)

(* The trees become "mods" and the table "routes", with or without a fetch.      *)
Stay(mods, routes) == model' = mods /\ NoFetch(routes)

Go(mods, routes) ==
  \E m \in Models, n \in Nodes :
    LET f == MarkFetching(mods[m], n)
    IN  CanFetch(mods[m], n) /\ model' = [mods EXCEPT ![m] = f] /\ RouteFetch(m, f, n, routes)

(* The signal a step takes, if any, and the ids that count on it.               *)
TakesNone(W) ==
  \/ signals' = signals
  \/ /\ signals # <<>> /\ signals' = Tail(signals)
     /\ Sent.kind = "browsed" => Sent.id \notin W
     /\ Sent.kind = "connected" => Sent.up \/ W = {}

LEMMA GuiLinked ==
  ASSUME Inv, NEW mods, NEW routes, NEW c, NEW W \in SUBSET Working,
         Linked(mods, routes, nextBrowse, c, Asked, W), gConnected' = c,
         Stay(mods, routes) \/ Go(mods, routes), TakesNone(W), UNCHANGED serviceVars
  PROVE  /\ Linked(model, route, nextBrowse, gConnected, Asked, Working)'
         /\ requests' \in Seq(Requests) /\ signals' \in Seq(Signals) /\ BringsKids'
         /\ sConnected' \in BOOLEAN /\ browsing' \in SUBSET Requests
         /\ enriching' \in Seq(Entries) /\ reads' \in SUBSET Reads
  <1>1. Types /\ BringsKids /\ nextBrowse \in Nat /\ mods \in [Models -> Trees]
    BY DEF Inv, Types, Linked
  <1>2. ASSUME NEW x \in Requests, GuiQueues(x)
        PROVE  /\ Asked' \subseteq Asked \cup (IF requests' = Append(requests, x) THEN {<<x.id, x.node>>} ELSE {})
               /\ W \subseteq Working'
               /\ requests' = Append(requests, x) => x.id \in Working'
    <2>1. /\ Asked' \subseteq Asked \cup (IF requests' = Append(requests, x) THEN {<<x.id, x.node>>} ELSE {})
          /\ \A id \in Nat : Answered(id) => Answered(id)' \/ Takes(id)
          /\ requests' = Append(requests, x) => Answered(x.id)'
          /\ Ends => \/ Ends'
                     \/ signals # <<>> /\ signals' = Tail(signals) /\ Sent.kind = "connected" /\ ~Sent.up
      BY <1>1, <1>2, GuiKeepsWork
    <2>2. \A id \in Nat : id \in Working' <=> Ends' \/ Answered(id)'
      BY DEF Working
    <2>3. ASSUME signals # <<>>, signals' = Tail(signals)  PROVE signals' # signals
      <3>1. signals \in Seq(Signals)
        BY <1>1 DEF Types
      <3>2. Len(Tail(signals)) = Len(signals) - 1 /\ Len(signals) \in Nat
        BY <2>3, <3>1, HeadTailProperties
      <3>3. Len(Tail(signals)) # Len(signals)
        BY <3>2
      <3>. QED  BY <2>3, <3>3, Zenon
    <2>4. ASSUME NEW id \in W  PROVE id \in Working'
      <3>1. id \in Nat /\ (Ends \/ Answered(id))
        BY DEF Working
      <3>2. ~Takes(id)
        BY <2>3 DEF TakesNone, Takes
      <3>3. Ends => Ends'
        BY <2>1, <2>3, <2>4 DEF TakesNone
      <3>. QED  BY <2>1, <2>2, <3>1, <3>2, <3>3
    <2>5. x.id \in Nat
      BY DEF Requests
    <2>. QED  BY <2>1, <2>2, <2>4, <2>5
  <1>3. CASE Stay(mods, routes)
    <2>. DEFINE x == [id |-> 0, node |-> Root]
    <2>1. x \in Requests
      BY TreeAssumption DEF TreeAssumption, Requests
    <2>2. model' = mods /\ route' = routes /\ nextBrowse' = nextBrowse /\ requests' = requests
      BY <1>3 DEF Stay, NoFetch
    <2>3. GuiQueues(x)
      BY <2>2 DEF GuiQueues, TakesNone
    <2>4. requests' # Append(requests, x)
      <3>1. requests \in Seq(Requests)
        BY <1>1 DEF Types
      <3>2. Len(Append(requests, x)) = Len(requests) + 1 /\ Len(requests) \in Nat
        BY <2>1, <3>1
      <3>. QED  BY <2>2, <3>2
    <2>. HIDE DEF x
    <2>5. Asked' \subseteq Asked /\ W \subseteq Working'
      BY <1>2, <2>1, <2>3, <2>4
    <2>6. Linked(mods, routes, nextBrowse, c, Asked', Working')
      BY <2>5, LinkedWeaker
    <2>. QED  BY <1>1, <2>1, <2>2, <2>3, <2>6, GuiKeepsTypes
  <1>4. CASE Go(mods, routes)
    <2>1. PICK m \in Models, n \in Nodes : /\ CanFetch(mods[m], n)
                                 /\ model' = [mods EXCEPT ![m] = MarkFetching(mods[m], n)]
                                 /\ RouteFetch(m, MarkFetching(mods[m], n), n, routes)
      BY <1>4 DEF Go
    <2>. DEFINE f == MarkFetching(mods[m], n)
                x == [id |-> nextBrowse + 1, node |-> n]
    <2>2. /\ nextBrowse' = nextBrowse + 1
          /\ route' = With(routes, nextBrowse + 1, [model |-> m, req |-> f.next])
          /\ requests' = Append(requests, x)
      BY <2>1 DEF RouteFetch
    <2>4. x \in Requests /\ x.id = nextBrowse + 1 /\ x.node = n
      BY <1>1 DEF Requests
    <2>5. GuiQueues(x)
      BY <2>2 DEF GuiQueues, TakesNone
    <2>6. Linked([mods EXCEPT ![m] = f], With(routes, nextBrowse + 1, [model |-> m, req |-> f.next]),
                 nextBrowse + 1, c, Asked \cup {<<nextBrowse + 1, n>>}, W \cup {nextBrowse + 1})
      BY <2>1, LinkedFetch
    <2>. HIDE DEF x, f
    <2>7. Asked' \subseteq Asked \cup {<<nextBrowse + 1, n>>} /\ W \cup {nextBrowse + 1} \subseteq Working'
      BY <1>2, <2>2, <2>4, <2>5
    <2>8. Linked(model', route', nextBrowse', c, Asked \cup {<<nextBrowse + 1, n>>}, W \cup {nextBrowse + 1})
      BY <2>1, <2>2, <2>6 DEF f
    <2>9. Linked(model', route', nextBrowse', c, Asked', Working')
      BY <2>7, <2>8, LinkedWeaker
    <2>. QED  BY <1>1, <2>4, <2>5, <2>9, GuiKeepsTypes
  <1>. QED  BY <1>3, <1>4

(* What a step of the GUI has still to show.                                   *)
LEMMA GuiKeepsInv ==
  ASSUME Inv, NEW mods, NEW routes, NEW c \in BOOLEAN, NEW W \in SUBSET Working,
         Linked(mods, routes, nextBrowse, c, Asked, W), gConnected' = c,
         Stay(mods, routes) \/ Go(mods, routes), TakesNone(W), UNCHANGED serviceVars,
         kick' \in [Models -> Nat], focusNode' \in Nodes \cup {NoNode},
         reveal' \in Reveals, RevealFits(reveal', model'["tree"])
  PROVE  Inv'
  <1>1. /\ Linked(model, route, nextBrowse, gConnected, Asked, Working)'
        /\ requests' \in Seq(Requests) /\ signals' \in Seq(Signals) /\ BringsKids'
        /\ sConnected' \in BOOLEAN /\ browsing' \in SUBSET Requests
        /\ enriching' \in Seq(Entries) /\ reads' \in SUBSET Reads
    BY GuiLinked
  <1>2. model' \in [Models -> Trees] /\ route' \in Routes /\ nextBrowse' \in Nat
    BY <1>1 DEF Linked
  <1>3. Types'
    BY <1>1, <1>2 DEF Types
  <1>4. RevealFits(reveal, model["tree"])'
    BY DEF RevealFits
  <1>. QED  BY <1>1, <1>3, <1>4 DEF Inv

(* A reveal fits a tree in which more is loaded or fetched.                     *)
LEMMA RevealStill ==
  ASSUME NEW r, NEW t, RevealFits(r, t), NEW f, f.active = t.active, Loaded(t) \subseteq Loaded(f),
         \A k \in Loaded(t) : t.items[k] = "Fetching" => f.items[k] = "Fetching"
  PROVE  RevealFits(r, f)
  BY DEF RevealFits

LEMMA GoKeepsReveal ==
  ASSUME NEW mods, NEW routes, Go(mods, routes), mods \in [Models -> Trees],
         \A m \in Models : ModelOK(mods[m]), NEW r, RevealFits(r, mods["tree"])
  PROVE  RevealFits(r, model'["tree"])
  <1>1. PICK m \in Models, n \in Nodes : /\ CanFetch(mods[m], n)
                               /\ model' = [mods EXCEPT ![m] = MarkFetching(mods[m], n)]
    BY DEF Go
  <1>2. "tree" \in Models
    BY DEF Models
  <1>3. CASE m = "tree"
    <2>. DEFINE f == MarkFetching(mods["tree"], n)
    <2>1. /\ f.active = mods["tree"].active /\ Loaded(f) = Loaded(mods["tree"])
          /\ \A k \in Loaded(mods["tree"]) : mods["tree"].items[k] = "Fetching" => f.items[k] = "Fetching"
      BY <1>1, <1>2, <1>3, MarkFetchingOK
    <2>2. model'["tree"] = f
      BY <1>1, <1>2, <1>3
    <2>. HIDE DEF f
    <2>. QED  BY <2>1, <2>2, RevealStill
  <1>4. CASE m # "tree"
    <2>1. model'["tree"] = mods["tree"]
      BY <1>1, <1>2, <1>4
    <2>. QED  BY <2>1
  <1>. QED  BY <1>3, <1>4

LEMMA IdleFits ==
  Idle \in Reveals /\ \A t : RevealFits(Idle, t)
  <1>1. Idle \in Reveals /\ ~Idle.active /\ Idle.depth = 0 /\ Idle.path = <<>> /\ Idle.parent = NoNode
    BY DEF Idle, Reveals
  <1>. QED  BY <1>1 DEF RevealFits

(* advanceReveal(): the reveal waits for a node being fetched, or ends.          *)
LEMMA AdvanceFits ==
  ASSUME NEW r \in Reveals, NEW routes, NEW t, ModelOK(t), t.active, model \in [Models -> Trees],
         r.active, r.depth <= Len(r.path), r.parent \in Loaded(t) \cup {NoNode},
         AdvanceReveal(r, t, routes)
  PROVE  LET mods == [model EXCEPT !["tree"] = t]
         IN  /\ Stay(mods, routes) \/ Go(mods, routes)
             /\ reveal' \in Reveals /\ RevealFits(reveal', model'["tree"])
  <1>. DEFINE mods == [model EXCEPT !["tree"] = t]
              d  == LoadedDepth(r, t)
              p  == IF d > r.depth THEN r.path[d] ELSE r.parent
              at == IF p = NoNode THEN t.root ELSE p
              waiting  == [r EXCEPT !.depth = d, !.parent = p, !.wait = at]
              fetching == MarkFetching(t, at)
  <1>1. \/ d < Len(r.path) /\ t.items[at] = "Fetching" /\ reveal' = waiting
           /\ model' = mods /\ NoFetch(routes)
        \/ CanFetch(t, at) /\ reveal' = waiting
           /\ model' = [model EXCEPT !["tree"] = fetching] /\ RouteFetch("tree", fetching, at, routes)
        \/ reveal' = Idle /\ model' = mods /\ NoFetch(routes)
    BY DEF AdvanceReveal
  <1>2. /\ d \in r.depth..Len(r.path)
        /\ \A j \in r.depth + 1..d : r.path[j] \in Loaded(t)
    BY LoadedDepthReached DEF ModelOK
  <1>3. r.depth \in Nat /\ Len(r.path) \in Nat /\ t.root \in Loaded(t) /\ Loaded(t) \subseteq Nodes
    BY TreeParts DEF Reveals, ModelOK, ShapeOK
  <1>4. "tree" \in Models /\ mods["tree"] = t /\ t \in Trees /\ mods \in [Models -> Trees]
    BY DEF Models, ModelOK
  <1>. HIDE DEF d
  <1>5. d \in Nat /\ d <= Len(r.path) /\ p \in Loaded(t) \cup {NoNode}
    <2>1. CASE d > r.depth
      <3>1. d \in r.depth + 1..d
        BY <1>2, <1>3, <2>1
      <3>. QED  BY <1>2, <1>3, <2>1, <3>1
    <2>2. CASE ~(d > r.depth)
      BY <1>2, <1>3, <2>2
    <2>. QED  BY <2>1, <2>2
  <1>. HIDE DEF p
  <1>6. at \in Loaded(t)
    BY <1>3, <1>5
  <1>. HIDE DEF at
  <1>7. /\ waiting \in Reveals /\ waiting.depth <= Len(waiting.path)
        /\ waiting.parent \in Loaded(t) \cup {NoNode} /\ waiting.active /\ waiting.wait = at
    BY <1>3, <1>5, <1>6 DEF Reveals
  <1>. HIDE DEF waiting
  <1>8. CASE /\ t.items[at] = "Fetching" /\ reveal' = waiting /\ model' = mods /\ NoFetch(routes)
    <2>1. Stay(mods, routes)
      BY <1>8 DEF Stay
    <2>2. RevealFits(waiting, t)
      BY <1>6, <1>7, <1>8 DEF RevealFits
    <2>. QED  BY <1>4, <1>7, <1>8, <2>1, <2>2
  <1>9. CASE /\ CanFetch(t, at) /\ reveal' = waiting /\ RouteFetch("tree", fetching, at, routes)
             /\ model' = [model EXCEPT !["tree"] = fetching]
    <2>1. Loaded(fetching) = Loaded(t) /\ fetching.items[at] = "Fetching"
      BY <1>9, MarkFetchingOK
    <2>. HIDE DEF fetching
    <2>2. model' = [mods EXCEPT !["tree"] = fetching] /\ model'["tree"] = fetching
      BY <1>4, <1>9
    <2>3. RevealFits(waiting, fetching)
      BY <1>6, <1>7, <2>1 DEF RevealFits
    <2>4. Go(mods, routes)
      <3>1. at \in Nodes
        BY <1>3, <1>6
      <3>. HIDE DEF mods
      <3>. QED  BY <1>4, <1>9, <2>2, <3>1 DEF Go, fetching
    <2>. QED  BY <1>7, <1>9, <2>2, <2>3, <2>4
  <1>10. CASE reveal' = Idle /\ model' = mods /\ NoFetch(routes)
    BY <1>10, IdleFits DEF Stay
  <1>. QED  BY <1>1, <1>8, <1>9, <1>10

(* Facts every step of the GUI starts from.                                    *)
LEMMA InvParts ==
  ASSUME Inv
  PROVE  /\ Types /\ BringsKids /\ RevealFits(reveal, model["tree"])
         /\ Linked(model, route, nextBrowse, gConnected, Asked, Working)
         /\ model \in [Models -> Trees] /\ (\A m \in Models : ModelOK(model[m]) /\ (model[m].active => gConnected))
         /\ model["tree"].root = Root /\ "tree" \in Models /\ "focus" \in Models
         /\ gConnected \in BOOLEAN /\ kick \in [Models -> Nat] /\ reveal \in Reveals
         /\ focusNode \in Nodes \cup {NoNode} /\ route \in Routes /\ nextBrowse \in Nat
         /\ requests \in Seq(Requests) /\ signals \in Seq(Signals)
  BY DEF Inv, Linked, Types, Models

LEMMA RequestRevealPathKeeps == ASSUME Inv, RequestRevealPath PROVE Inv'
  <1>0. /\ Linked(model, route, nextBrowse, gConnected, Asked, Working)
        /\ model \in [Models -> Trees] /\ ModelOK(model["tree"])
        /\ gConnected \in BOOLEAN /\ kick \in [Models -> Nat] /\ focusNode \in Nodes \cup {NoNode}
    BY InvParts
  <1>. DEFINE t == model["tree"]
  <1>1. PICK path \in Paths :
          LET r == [active |-> TRUE, path |-> path, depth |-> 0, parent |-> NoNode,
                    wait |-> NoNode, stale |-> FALSE]
          IN IF t.active THEN AdvanceReveal(r, t, route)
             ELSE reveal' = Idle /\ UNCHANGED model /\ NoFetch(route)
    BY DEF RequestRevealPath
  <1>2. UNCHANGED <<kick, focusNode, gConnected, serviceVars, signals>>
    BY DEF RequestRevealPath
  <1>. DEFINE r == [active |-> TRUE, path |-> path, depth |-> 0, parent |-> NoNode,
                    wait |-> NoNode, stale |-> FALSE]
  <1>3. path \in Seq(Nodes) /\ Len(path) \in Nat
    BY TreeAssumption DEF TreeAssumption
  <1>4. r \in Reveals /\ r.active /\ r.depth = 0 /\ r.path = path /\ r.parent = NoNode
    BY <1>3 DEF Reveals
  <1>. HIDE DEF r
  <1>5. /\ Stay(model, route) \/ Go(model, route)
        /\ reveal' \in Reveals /\ RevealFits(reveal', model'["tree"])
    <2>1. CASE t.active
      <3>1. AdvanceReveal(r, t, route)
        BY <1>1, <2>1 DEF r
      <3>2. LET mods == [model EXCEPT !["tree"] = t]
            IN  /\ Stay(mods, route) \/ Go(mods, route)
                /\ reveal' \in Reveals /\ RevealFits(reveal', model'["tree"])
        <4>1. r.depth <= Len(r.path) /\ r.parent \in Loaded(t) \cup {NoNode}
          BY <1>3, <1>4
        <4>2. ModelOK(t) /\ t.active
          BY <1>0, <2>1
        <4>. HIDE DEF t
        <4>. QED  BY <1>0, <1>4, <3>1, <4>1, <4>2, AdvanceFits
      <3>3. [model EXCEPT !["tree"] = t] = model
        BY <1>0
      <3>. QED  BY <3>2, <3>3
    <2>2. CASE ~t.active
      BY <1>1, <2>2, IdleFits DEF Stay
    <2>. QED  BY <2>1, <2>2
  <1>6. TakesNone(Working)
    BY <1>2 DEF TakesNone
  <1>. QED  BY <1>0, <1>2, <1>5, <1>6, GuiKeepsInv

LEMMA ExpandKeeps ==
  ASSUME Inv, NEW m \in Models, NEW n \in Loaded(model[m]), ExpandNode(m, n)
  PROVE  Inv'
  <1>0. /\ Linked(model, route, nextBrowse, gConnected, Asked, Working)
        /\ model \in [Models -> Trees] /\ (\A k \in Models : ModelOK(model[k]))
        /\ RevealFits(reveal, model["tree"]) /\ reveal \in Reveals
        /\ gConnected \in BOOLEAN /\ kick \in [Models -> Nat] /\ focusNode \in Nodes \cup {NoNode}
    BY InvParts
  <1>1. CanFetch(model[m], n) /\ FetchMore(m, n)
        /\ UNCHANGED <<kick, reveal, focusNode, gConnected, serviceVars, signals>>
    BY DEF ExpandNode
  <1>2. n \in Nodes
    BY <1>0, TreeParts
  <1>3. Go(model, route)
    BY <1>1, <1>2 DEF Go, FetchMore
  <1>4. RevealFits(reveal', model'["tree"])
    BY <1>0, <1>1, <1>3, GoKeepsReveal
  <1>5. TakesNone(Working)
    BY <1>1 DEF TakesNone
  <1>. QED  BY <1>0, <1>1, <1>3, <1>4, <1>5, GuiKeepsInv

LEMMA InitialFetchKeeps ==
  ASSUME Inv, NEW m \in Models, InitialFetch(m)
  PROVE  Inv'
  <1>0. /\ Linked(model, route, nextBrowse, gConnected, Asked, Working)
        /\ model \in [Models -> Trees] /\ (\A k \in Models : ModelOK(model[k]))
        /\ RevealFits(reveal, model["tree"]) /\ reveal \in Reveals
        /\ gConnected \in BOOLEAN /\ kick \in [Models -> Nat] /\ focusNode \in Nodes \cup {NoNode}
    BY InvParts
  <1>1. /\ kick[m] > 0 /\ kick' = [kick EXCEPT ![m] = @ - 1]
        /\ \/ CanFetch(model[m], model[m].root) /\ FetchMore(m, model[m].root)
           \/ model' = model /\ NoFetch(route)
        /\ UNCHANGED <<reveal, focusNode, gConnected, serviceVars, signals>>
    BY DEF InitialFetch
  <1>2. kick' \in [Models -> Nat]
    BY <1>0, <1>1
  <1>3. model[m].root \in Nodes
    BY <1>0, TreeParts
  <1>4. Stay(model, route) \/ Go(model, route)
    BY <1>1, <1>3 DEF Stay, Go, FetchMore
  <1>5. RevealFits(reveal', model'["tree"])
    BY <1>0, <1>1, <1>4, GoKeepsReveal DEF Stay
  <1>6. TakesNone(Working)
    BY <1>1 DEF TakesNone
  <1>. QED  BY <1>0, <1>1, <1>2, <1>4, <1>5, <1>6, GuiKeepsInv

LEMMA SetSearchQueryKeeps ==
  ASSUME Inv, NEW m \in Models, SetSearchQuery(m)
  PROVE  Inv'
  <1>0. /\ Linked(model, route, nextBrowse, gConnected, Asked, Working)
        /\ model \in [Models -> Trees] /\ (\A k \in Models : ModelOK(model[k]) /\ (model[k].active => gConnected))
        /\ model["tree"].root = Root /\ "tree" \in Models
        /\ RevealFits(reveal, model["tree"]) /\ reveal \in Reveals
        /\ gConnected \in BOOLEAN /\ kick \in [Models -> Nat] /\ focusNode \in Nodes \cup {NoNode}
    BY InvParts
  <1>1. PICK q \in SearchQueries : model' = [model EXCEPT ![m] = Rebuilt([@ EXCEPT !.query = q])]
    BY DEF SetSearchQuery
  <1>2. UNCHANGED <<kick, reveal, route, nextBrowse, focusNode, gConnected, serviceVars, requests, signals>>
    BY DEF SetSearchQuery
  <1>. DEFINE f == Rebuilt([model[m] EXCEPT !.query = q])
  <1>3. /\ ModelOK(f) /\ f.root = model[m].root /\ f.active = model[m].active /\ f.next = model[m].next
        /\ f.items = model[m].items /\ f.pending = model[m].pending
    BY <1>0, SearchOK
  <1>4. f \in Trees /\ Loaded(f) = Loaded(model[m])
    BY <1>3 DEF ModelOK, Loaded
  <1>5. model' = [model EXCEPT ![m] = f]
    BY <1>1
  <1>. HIDE DEF f
  <1>6. model' \in [Models -> Trees] /\ model'[m] = f /\ \A k \in Models : k # m => model'[k] = model[k]
    BY <1>0, <1>4, <1>5
  <1>7. Linked(model', route, nextBrowse, gConnected, Asked, Working)
    <2>1. \A k \in Models : /\ ModelOK(model'[k]) /\ (model'[k].active => gConnected)
                            /\ model'[k].next = model[k].next
                            /\ \/ DOMAIN model'[k].pending = {}
                               \/ model'[k].pending = model[k].pending
      BY <1>0, <1>3, <1>6
    <2>2. model'["tree"].root = Root
      BY <1>0, <1>3, <1>6
    <2>. QED  BY <1>0, <1>6, <2>1, <2>2, LinkedReset
  <1>8. RevealFits(reveal', model'["tree"])
    <2>1. CASE m = "tree"
      BY <1>0, <1>2, <1>3, <1>4, <1>6, <2>1, RevealStill
    <2>2. CASE m # "tree"
      BY <1>0, <1>2, <1>6, <2>2
    <2>. QED  BY <2>1, <2>2
  <1>9. Stay(model', route) /\ TakesNone(Working)
    BY <1>2 DEF Stay, NoFetch, TakesNone
  <1>. QED  BY <1>0, <1>2, <1>7, <1>8, <1>9, GuiKeepsInv

(* The focus tree gets another root, or none.                                  *)
LEMMA FocusKeeps ==
  ASSUME Inv, NEW n \in Nodes \cup {NoNode}, gConnected' = gConnected, focusNode' = n,
         model' = [model EXCEPT !["focus"] = FocusOn(n, @)], kick' \in [Models -> Nat],
         UNCHANGED <<reveal, route, nextBrowse, serviceVars, requests, signals>>
  PROVE  Inv'
  <1>0. /\ Linked(model, route, nextBrowse, gConnected, Asked, Working)
        /\ model \in [Models -> Trees] /\ (\A k \in Models : ModelOK(model[k]) /\ (model[k].active => gConnected))
        /\ model["tree"].root = Root /\ "tree" \in Models /\ "focus" \in Models
        /\ RevealFits(reveal, model["tree"]) /\ reveal \in Reveals /\ gConnected \in BOOLEAN
    BY InvParts
  <1>. DEFINE f == FocusOn(n, model["focus"])
  <1>1. ModelOK(f) /\ (f.active => gConnected) /\ f.next = model["focus"].next /\ DOMAIN f.pending = {}
    BY <1>0, FocusOnOK
  <1>2. f \in Trees
    BY <1>1 DEF ModelOK
  <1>3. model' = [model EXCEPT !["focus"] = f]
    OBVIOUS
  <1>. HIDE DEF f
  <1>4. model' \in [Models -> Trees] /\ model'["focus"] = f /\ \A k \in Models : k # "focus" => model'[k] = model[k]
    BY <1>0, <1>2, <1>3
  <1>5. model'["tree"] = model["tree"]
    BY <1>0, <1>4
  <1>6. \A k \in Models : /\ ModelOK(model'[k]) /\ (model'[k].active => gConnected)
                          /\ model'[k].next = model[k].next
                          /\ \/ DOMAIN model'[k].pending = {}
                             \/ model'[k].pending = model[k].pending
    BY <1>0, <1>1, <1>4
  <1>7. Linked(model', route, nextBrowse, gConnected, Asked, Working)
    BY <1>0, <1>4, <1>5, <1>6, LinkedReset
  <1>8. Stay(model', route) /\ TakesNone(Working)
    BY DEF Stay, NoFetch, TakesNone
  <1>. QED  BY <1>0, <1>5, <1>7, <1>8, GuiKeepsInv

LEMMA SetFocusNodeKeeps == ASSUME Inv, SetFocusNode PROVE Inv'
  <1>0. model \in [Models -> Trees] /\ kick \in [Models -> Nat] /\ "focus" \in Models
    BY InvParts
  <1>1. PICK m \in Models : \E n \in Loaded(model[m]) :
          /\ focusNode' = n
          /\ UNCHANGED gConnected
          /\ model' = [model EXCEPT !["focus"] = FocusOn(n, @)]
          /\ kick' = IF gConnected THEN [kick EXCEPT !["focus"] = @ + 1] ELSE kick
    BY DEF SetFocusNode
  <1>. PICK n \in Loaded(model[m]) :
          /\ focusNode' = n
          /\ UNCHANGED gConnected
          /\ model' = [model EXCEPT !["focus"] = FocusOn(n, @)]
          /\ kick' = IF gConnected THEN [kick EXCEPT !["focus"] = @ + 1] ELSE kick
    BY <1>1
  <1>2. n \in Nodes
    BY <1>0, TreeParts
  <1>3. kick' \in [Models -> Nat]
    BY <1>0
  <1>4. UNCHANGED <<reveal, route, nextBrowse, serviceVars, requests, signals>>
    BY DEF SetFocusNode
  <1>. QED  BY <1>2, <1>3, <1>4, FocusKeeps

LEMMA ClearFocusNodeKeeps == ASSUME Inv, ClearFocusNode PROVE Inv'
  <1>1. kick \in [Models -> Nat]
    BY InvParts
  <1>2. /\ focusNode' = NoNode /\ gConnected' = gConnected /\ kick' = kick
        /\ model' = [model EXCEPT !["focus"] = FocusOn(NoNode, @)]
        /\ UNCHANGED <<reveal, route, nextBrowse, serviceVars, requests, signals>>
    BY DEF ClearFocusNode
  <1>. QED  BY <1>1, <1>2, FocusKeeps

(* A reveal whose tree was reset fits any tree.                                 *)
LEMMA StrandedFits ==
  ASSUME NEW r \in Reveals, NEW t, RevealFits(r, t)
  PROVE  Stranded(r) \in Reveals /\ \A f : RevealFits(Stranded(r), f)
  <1>1. CASE r.active
    <2>1. Stranded(r) = [r EXCEPT !.parent = NoNode, !.stale = TRUE]
      BY <1>1 DEF Stranded
    <2>2. /\ Stranded(r) \in Reveals /\ Stranded(r).active /\ Stranded(r).stale
          /\ Stranded(r).parent = NoNode /\ Stranded(r).depth = r.depth /\ Stranded(r).path = r.path
      BY <1>1, <2>1 DEF Reveals
    <2>. QED  BY <1>1, <2>2 DEF RevealFits
  <1>2. CASE ~r.active
    BY <1>2, IdleFits DEF Stranded, RevealFits
  <1>. QED  BY <1>1, <1>2

LEMMA SwitchProjectKeeps == ASSUME Inv, SwitchProject PROVE Inv'
  <1>0. /\ Linked(model, route, nextBrowse, gConnected, Asked, Working)
        /\ model \in [Models -> Trees] /\ (\A k \in Models : ModelOK(model[k]) /\ (model[k].active => gConnected))
        /\ model["tree"].root = Root /\ "tree" \in Models
        /\ RevealFits(reveal, model["tree"]) /\ reveal \in Reveals
        /\ gConnected \in BOOLEAN /\ kick \in [Models -> Nat]
    BY InvParts
  <1>1. /\ model' = [m \in Models |-> IF model[m].active THEN ResetModel(model[m], FALSE) ELSE model[m]]
        /\ reveal' = Stranded(reveal) /\ focusNode' \in Pinned
        /\ UNCHANGED <<kick, route, nextBrowse, gConnected, serviceVars, requests, signals>>
    BY DEF SwitchProject
  <1>2. ASSUME NEW k \in Models
        PROVE  /\ ModelOK(model'[k]) /\ (model'[k].active => gConnected)
               /\ model'[k].next = model[k].next /\ model'[k].root = model[k].root
               /\ \/ DOMAIN model'[k].pending = {}
                  \/ model'[k].pending = model[k].pending
    <2>1. CASE model[k].active
      <3>1. model'[k] = ResetModel(model[k], FALSE)
        BY <1>1, <2>1
      <3>2. LET f == ResetModel(model[k], FALSE)
            IN  /\ ModelOK(f) /\ f.root = model[k].root /\ f.active = FALSE /\ f.next = model[k].next
                /\ DOMAIN f.pending = {}
        BY <1>0, ResetOK
      <3>. QED  BY <3>1, <3>2
    <2>2. CASE ~model[k].active
      BY <1>0, <1>1, <2>2
    <2>. QED  BY <2>1, <2>2
  <1>3. model' \in [Models -> Trees]
    <2>1. \A k \in Models : model'[k] \in Trees
      BY <1>2 DEF ModelOK
    <2>. QED  BY <1>1, <2>1
  <1>4. model'["tree"].root = Root
    BY <1>0, <1>2
  <1>5. Linked(model', route, nextBrowse, gConnected, Asked, Working)
    BY <1>0, <1>2, <1>3, <1>4, LinkedReset
  <1>6. Stay(model', route) /\ TakesNone(Working)
    BY <1>1 DEF Stay, NoFetch, TakesNone
  <1>7. reveal' \in Reveals /\ RevealFits(reveal', model'["tree"])
    BY <1>0, <1>1, StrandedFits
  <1>8. focusNode' \in Nodes \cup {NoNode}
    BY <1>1, TreeAssumption DEF TreeAssumption
  <1>. QED  BY <1>0, <1>1, <1>5, <1>6, <1>7, <1>8, GuiKeepsInv

LEMMA ApplyConnectedKeeps == ASSUME Inv, ApplyConnected PROVE Inv'
  <1>0. /\ Linked(model, route, nextBrowse, gConnected, Asked, Working)
        /\ model \in [Models -> Trees] /\ (\A k \in Models : ModelOK(model[k]) /\ (model[k].active => gConnected))
        /\ model["tree"].root = Root /\ "tree" \in Models /\ "focus" \in Models
        /\ RevealFits(reveal, model["tree"]) /\ reveal \in Reveals
        /\ gConnected \in BOOLEAN /\ kick \in [Models -> Nat] /\ focusNode \in Nodes \cup {NoNode}
        /\ signals \in Seq(Signals)
    BY InvParts
  <1>. DEFINE up   == Sent.up
              tree == model["tree"]
  <1>1. /\ signals # <<>> /\ Sent.kind = "connected" /\ signals' = Tail(signals) /\ gConnected' = up
        /\ UNCHANGED <<nextBrowse, focusNode, serviceVars, requests>>
    BY DEF ApplyConnected, Signal, Sent
  <1>2. up \in BOOLEAN
    <2>1. Sent \in Signals
      BY <1>0, <1>1, RangeTail DEF Sent
    <2>. QED  BY <1>1, <2>1, SignalParts
  <1>3. CASE up = gConnected
    <2>1. UNCHANGED <<model, kick, reveal, route>>
      BY <1>3 DEF ApplyConnected
    <2>2. Stay(model, route)
      BY <1>1, <2>1 DEF Stay, NoFetch
    <2>3. CASE up
      <3>1. TakesNone(Working)
        BY <1>1, <2>3 DEF TakesNone
      <3>. QED  BY <1>0, <1>1, <1>2, <1>3, <2>1, <2>2, <3>1, GuiKeepsInv
    <2>4. CASE ~up
      <3>1. \A k \in Models : DOMAIN model[k].pending = {}
        BY <1>0, <1>3, <2>4 DEF ModelOK, ShapeOK, PendingOK
      <3>2. Linked(model, route, nextBrowse, gConnected, Asked, {})
        BY <1>0, <3>1, LinkedDropAll
      <3>3. TakesNone({})
        BY <1>1 DEF TakesNone
      <3>. QED  BY <1>0, <1>1, <1>2, <1>3, <2>1, <2>2, <3>2, <3>3, GuiKeepsInv
    <2>. QED  BY <1>2, <2>3, <2>4
  <1>4. CASE up # gConnected
    <2>1. /\ model' = [m \in Models |-> IF m = "focus" THEN FocusOn(focusNode, model[m])
                                        ELSE IF tree.active = up THEN tree
                                        ELSE ResetModel(tree, up)]
          /\ kick' = [m \in Models |-> IF up /\ model'[m].active THEN kick[m] + 1 ELSE kick[m]]
          /\ reveal' = Stranded(reveal)
          /\ route' = IF up THEN route ELSE <<>>
      BY <1>4 DEF ApplyConnected
    <2>2. /\ ModelOK(model'["focus"]) /\ (model'["focus"].active => up)
          /\ model'["focus"].next = model["focus"].next /\ DOMAIN model'["focus"].pending = {}
      <3>1. model'["focus"] = FocusOn(focusNode, model["focus"])
        BY <1>0, <2>1
      <3>. QED  BY <1>0, <1>1, <1>2, <3>1, FocusOnOK, ZenonT(40)
    <2>3. /\ ModelOK(model'["tree"]) /\ (model'["tree"].active => up)
          /\ model'["tree"].next = tree.next /\ model'["tree"].root = Root
          /\ DOMAIN model'["tree"].pending = {}
      <3>1. "tree" # "focus"
        OBVIOUS
      <3>2. CASE tree.active = up
        <4>1. model'["tree"] = tree
          BY <1>0, <2>1, <3>1, <3>2
        <4>2. ~up
          BY <1>0, <1>2, <1>4, <3>2
        <4>3. DOMAIN tree.pending = {}
          BY <1>0, <3>2, <4>2 DEF ModelOK, ShapeOK, PendingOK
        <4>. QED  BY <1>0, <3>2, <4>1, <4>3
      <3>3. CASE tree.active # up
        <4>1. model'["tree"] = ResetModel(tree, up)
          BY <1>0, <2>1, <3>1, <3>3
        <4>2. LET f == ResetModel(tree, up)
              IN  /\ ModelOK(f) /\ f.root = tree.root /\ f.active = up /\ f.next = tree.next
                  /\ DOMAIN f.pending = {}
          BY <1>0, <1>2, ResetOK
        <4>. QED  BY <1>0, <4>1, <4>2
      <3>. QED  BY <3>2, <3>3
    <2>4. Models = {"tree", "focus"}
      BY DEF Models
    <2>5. model' \in [Models -> Trees]
      <3>1. \A k \in Models : model'[k] \in Trees
        BY <2>2, <2>3, <2>4 DEF ModelOK
      <3>. QED  BY <2>1, <3>1
    <2>6. \A k \in Models : /\ ModelOK(model'[k]) /\ (model'[k].active => up)
                            /\ model'[k].next = model[k].next
                            /\ DOMAIN model'[k].pending = {}
      BY <2>2, <2>3, <2>4
    <2>7. Linked(model', route, nextBrowse, up, Asked, Working)
      BY <1>0, <2>3, <2>5, <2>6, LinkedReset
    <2>8. kick' \in [Models -> Nat]
      BY <1>0, <2>1
    <2>9. reveal' \in Reveals /\ RevealFits(reveal', model'["tree"])
      BY <1>0, <2>1, StrandedFits
    <2>10. Stay(model', route')
      BY <1>1 DEF Stay, NoFetch
    <2>11. CASE up
      <3>1. TakesNone(Working) /\ route' = route
        BY <1>1, <2>1, <2>11 DEF TakesNone
      <3>. QED  BY <1>0, <1>1, <1>2, <2>7, <2>8, <2>9, <2>10, <3>1, GuiKeepsInv
    <2>12. CASE ~up
      <3>1. TakesNone({}) /\ route' = <<>>
        BY <1>1, <2>1, <2>12 DEF TakesNone
      <3>2. Linked(model', <<>>, nextBrowse, up, Asked, {})
        BY <2>6, <2>7, LinkedDropAll
      <3>. QED  BY <1>0, <1>1, <1>2, <2>8, <2>9, <2>10, <3>1, <3>2, GuiKeepsInv
    <2>. QED  BY <1>2, <2>11, <2>12
  <1>. QED  BY <1>3, <1>4

LEMMA ApplyBrowseChildrenKeeps == ASSUME Inv, ApplyBrowseChildren PROVE Inv'
  <1>0. /\ Linked(model, route, nextBrowse, gConnected, Asked, Working) /\ BringsKids
        /\ model \in [Models -> Trees] /\ (\A k \in Models : ModelOK(model[k]) /\ (model[k].active => gConnected))
        /\ model["tree"].root = Root /\ "tree" \in Models /\ "focus" \in Models
        /\ RevealFits(reveal, model["tree"]) /\ reveal \in Reveals
        /\ gConnected \in BOOLEAN /\ kick \in [Models -> Nat] /\ focusNode \in Nodes \cup {NoNode}
        /\ signals \in Seq(Signals) /\ route \in Routes
    BY InvParts
  <1>. DEFINE id      == Sent.id
              n       == Sent.node
              m       == route[id].model
              req     == route[id].req
              t       == model[m]
              settled == [t EXCEPT !.pending = Without(t.pending, req)]
              answer  == Applied(settled, n, Sent.kids, Sent.good)
              routes  == Without(route, id)
              W       == Working \ {id}
  <1>1. /\ signals # <<>> /\ Sent.kind = "browsed" /\ signals' = Tail(signals)
        /\ UNCHANGED <<kick, focusNode, gConnected, serviceVars>>
    BY DEF ApplyBrowseChildren, Signal, Sent
  <1>2. /\ id \in Nat /\ n \in Nodes /\ Sent.good \in BOOLEAN /\ Sent.kids \subseteq Kids[n]
        /\ <<id, n>> \in Asked
    <2>1. Sent \in Signals /\ Sent \in Range(signals)
      BY <1>0, <1>1, RangeTail DEF Sent
    <2>2. Sent.id \in Nat /\ Sent.node \in Nodes /\ Sent.good \in BOOLEAN
      BY <1>1, <2>1, SignalParts
    <2>3. Sent.kids \subseteq Kids[Sent.node]
      BY <1>0, <1>1, <2>1 DEF BringsKids
    <2>4. <<Sent.id, Sent.node>> \in Asked
      BY <1>1, <2>1, <2>2 DEF Asked, Posted
    <2>. QED  BY <2>2, <2>3, <2>4
  <1>3. W \in SUBSET Working /\ TakesNone(W)
    BY <1>1 DEF TakesNone
  <1>4. CASE id \notin DOMAIN route \/ ~t.active \/ req \notin DOMAIN t.pending
    <2>1. UNCHANGED <<model, reveal>> /\ NoFetch(routes)
      BY <1>4 DEF ApplyBrowseChildren
    <2>2. id \in DOMAIN route => req \notin DOMAIN t.pending
      <3>1. SUFFICES ASSUME id \in DOMAIN route, ~t.active  PROVE DOMAIN t.pending = {}
        BY <1>4
      <3>2. m \in Models
        BY <1>0, <3>1, RouteParts
      <3>. QED  BY <1>0, <3>1, <3>2 DEF ModelOK, ShapeOK, PendingOK
    <2>3. Linked(model, routes, nextBrowse, gConnected, Asked, W)
      BY <1>0, <2>2, LinkedDrop
    <2>4. Stay(model, routes)
      BY <2>1 DEF Stay
    <2>. HIDE DEF id, W, routes
    <2>. QED  BY <1>0, <1>1, <1>3, <2>1, <2>3, <2>4, GuiKeepsInv
  <1>5. CASE id \in DOMAIN route /\ t.active /\ req \in DOMAIN t.pending
    <2>1. m \in Models
      BY <1>0, <1>5, RouteParts
    <2>2. t.pending[req] = n
      BY <1>0, <1>2, <1>5 DEF Linked
    <2>3. /\ ModelOK(answer) /\ answer.root = t.root /\ answer.active = t.active /\ answer.next = t.next
          /\ n \in Loaded(t) /\ t.items[n] = "Fetching" /\ Loaded(t) \subseteq Loaded(answer)
          /\ DOMAIN answer.pending = DOMAIN t.pending \ {req}
          /\ \A r \in DOMAIN answer.pending : answer.pending[r] = t.pending[r]
          /\ \A k \in Loaded(t) : k # n /\ t.items[k] = "Fetching" => answer.items[k] = "Fetching"
      <3>. DEFINE kids == Sent.kids
                  good == Sent.good
      <3>1. ModelOK(t) /\ req \in DOMAIN t.pending /\ kids \subseteq Kids[n] /\ good \in BOOLEAN
        BY <1>0, <1>2, <1>5, <2>1
      <3>. HIDE DEF n, t, req, m, kids, good
      <3>2. answer = Applied(Settled(t, req), n, kids, good)
        BY DEF kids, good, Settled
      <3>. HIDE DEF answer
      <3>. QED  BY <2>2, <3>1, <3>2, AppliedOK
    <2>4. \/ /\ m = "tree" /\ reveal.active /\ reveal.wait = n
             /\ AdvanceReveal([reveal EXCEPT !.wait = NoNode], answer, routes)
          \/ /\ model' = [model EXCEPT ![m] = answer] /\ NoFetch(routes)
             /\ reveal' = IF m = "tree" /\ reveal.active /\ reveal.wait = n THEN Idle ELSE reveal
      <3>1. IF m = "tree" /\ reveal.active /\ reveal.wait = n /\ Sent.good
            THEN AdvanceReveal([reveal EXCEPT !.wait = NoNode], answer, routes)
            ELSE /\ model' = [model EXCEPT ![m] = answer]
                 /\ reveal' = IF m = "tree" /\ reveal.active /\ reveal.wait = n
                              THEN FailReveal(reveal) ELSE reveal
                 /\ NoFetch(routes)
        BY <1>5, <2>2 DEF ApplyBrowseChildren
      <3>2. FailReveal(reveal) = Idle
        BY DEF FailReveal
      <3>. HIDE DEF m, n, answer, routes
      <3>. QED  BY <3>1, <3>2
    <2>5. Linked([model EXCEPT ![m] = answer], routes, nextBrowse, gConnected, Asked, W)
      <3>. HIDE DEF answer, id
      <3>. QED  BY <1>0, <1>5, <2>3, LinkedSettle
    <2>. DEFINE mods == [model EXCEPT ![m] = answer]
    <2>6. answer \in Trees
      BY <2>3 DEF ModelOK
    <2>. HIDE DEF answer, routes, n, req, W
    <2>7. mods \in [Models -> Trees] /\ mods[m] = answer /\ \A k \in Models : k # m => mods[k] = model[k]
      BY <1>0, <2>1, <2>6
    <2>. HIDE DEF m, mods
    <2>8. CASE /\ m = "tree" /\ reveal.active /\ reveal.wait = n
               /\ AdvanceReveal([reveal EXCEPT !.wait = NoNode], answer, routes)
      <3>. DEFINE r == [reveal EXCEPT !.wait = NoNode]
      <3>1. /\ r \in Reveals /\ r.active /\ r.depth = reveal.depth /\ r.path = reveal.path
            /\ r.parent = reveal.parent
        BY <1>0, <2>8 DEF Reveals
      <3>. HIDE DEF r
      <3>2. r.depth <= Len(r.path) /\ r.parent \in Loaded(answer) \cup {NoNode}
        BY <1>0, <2>3, <2>8, <3>1 DEF RevealFits
      <3>3. answer.active
        BY <1>5, <2>3
      <3>4. AdvanceReveal(r, answer, routes)
        BY <2>8 DEF r
      <3>5. LET ms == [model EXCEPT !["tree"] = answer]
            IN  /\ Stay(ms, routes) \/ Go(ms, routes)
                /\ reveal' \in Reveals /\ RevealFits(reveal', model'["tree"])
        BY <1>0, <2>3, <3>1, <3>2, <3>3, <3>4, AdvanceFits
      <3>6. /\ Stay(mods, routes) \/ Go(mods, routes)
            /\ reveal' \in Reveals /\ RevealFits(reveal', model'["tree"])
        BY <2>8, <3>5 DEF mods
      <3>7. Linked(mods, routes, nextBrowse, gConnected, Asked, W)
        BY <2>5 DEF mods
      <3>. QED  BY <1>0, <1>1, <1>3, <3>6, <3>7, GuiKeepsInv
    <2>9. CASE /\ model' = mods /\ NoFetch(routes)
               /\ reveal' = IF m = "tree" /\ reveal.active /\ reveal.wait = n THEN Idle ELSE reveal
      <3>1. Stay(mods, routes)
        BY <2>9 DEF Stay
      <3>2. reveal' \in Reveals /\ RevealFits(reveal', model'["tree"])
        <4>1. CASE m = "tree" /\ reveal.active /\ reveal.wait = n
          BY <2>9, <4>1, IdleFits
        <4>2. CASE ~(m = "tree" /\ reveal.active /\ reveal.wait = n)
          <5>1. reveal' = reveal
            BY <2>9, <4>2
          <5>2. CASE m # "tree"
            BY <1>0, <2>7, <2>9, <5>1, <5>2
          <5>3. CASE m = "tree"
            <6>1. ~(reveal.active /\ reveal.wait = n) /\ t = model["tree"] /\ model'["tree"] = answer
              BY <2>7, <2>9, <4>2, <5>3
            <6>. QED  BY <1>0, <2>3, <5>1, <6>1 DEF RevealFits
          <5>. QED  BY <5>2, <5>3
        <4>. QED  BY <4>1, <4>2
      <3>3. Linked(mods, routes, nextBrowse, gConnected, Asked, W)
        BY <2>5 DEF mods
      <3>. QED  BY <1>0, <1>1, <1>3, <3>1, <3>2, <3>3, GuiKeepsInv
    <2>. QED  BY <2>4, <2>8, <2>9 DEF mods
  <1>. QED  BY <1>4, <1>5

-----------------------------------------------------------------------------
(* The steps of the service.                                                 *)

LEMMA ServiceKeepsInv ==
  ASSUME Inv, UNCHANGED guiVars,
         requests' \in Seq(Requests), signals' \in Seq(Signals), BringsKids',
         sConnected' \in BOOLEAN, browsing' \in SUBSET Requests,
         enriching' \in Seq(Entries), reads' \in SUBSET Reads,
         Asked' \subseteq Asked, Ends => Ends',
         \A id \in Nat : Answered(id) => Answered(id)' \/ Ends'
  PROVE  Inv'
  <1>1. Types /\ RevealFits(reveal, model["tree"])
        /\ Linked(model, route, nextBrowse, gConnected, Asked, Working)
    BY InvParts
  <1>2. UNCHANGED <<model, kick, reveal, route, nextBrowse, focusNode, gConnected>>
    BY DEF guiVars
  <1>3. Types'
    BY <1>1, <1>2 DEF Types
  <1>4. Working \subseteq Working'
    BY DEF Working
  <1>5. Linked(model, route, nextBrowse, gConnected, Asked', Working')
    BY <1>1, <1>4, LinkedWeaker
  <1>6. Linked(model', route', nextBrowse', gConnected', Asked', Working')
    BY <1>2, <1>5
  <1>7. RevealFits(reveal, model["tree"])'
    BY <1>1, <1>2 DEF RevealFits
  <1>. QED  BY <1>3, <1>6, <1>7 DEF Inv

LEMMA BrowsedParts ==
  ASSUME NEW b, b.id \in Nat, b.node \in Nodes, NEW kids \in SUBSET Nodes, NEW good \in BOOLEAN
  PROVE  LET s == Browsed(b, kids, good)
         IN  /\ s \in Signals /\ s.kind = "browsed" /\ s.id = b.id /\ s.node = b.node
             /\ s.kids = kids /\ s.good = good
  BY SignalParts DEF Browsed

(* What is posted and enriched may change hands, as long as nobody asks for      *)
(* anything new and every id that was worked on still is.                      *)
LEMMA HandedOn ==
  ASSUME \A u \in Posted' : \E v \in Posted \cup Range(enriching) : v.id = u.id /\ v.node = u.node,
         \A u \in Range(enriching)' :
           \E v \in Posted \cup Range(enriching) : v.id = u.id /\ v.node = u.node
  PROVE  Asked' \subseteq Asked
  <1>. SUFFICES ASSUME NEW a \in Asked'  PROVE a \in Asked
    OBVIOUS
  <1>1. PICK u \in Posted' \cup Range(enriching)' : u.id = a[1] /\ u.node = a[2]
    BY DEF Asked
  <1>2. PICK v \in Posted \cup Range(enriching) : v.id = u.id /\ v.node = u.node
    BY <1>1
  <1>. QED  BY <1>1, <1>2 DEF Asked

LEMMA BrowseChildrenKeeps == ASSUME Inv, BrowseChildren PROVE Inv'
  <1>0. /\ requests \in Seq(Requests) /\ signals \in Seq(Signals) /\ browsing \in SUBSET Requests
        /\ enriching \in Seq(Entries) /\ reads \in SUBSET Reads /\ sConnected \in BOOLEAN /\ BringsKids
    BY DEF Inv, Types
  <1>. DEFINE b == Head(requests)
              s == Browsed(b, {}, FALSE)
  <1>1. /\ requests # <<>> /\ requests' = Tail(requests)
        /\ UNCHANGED <<sConnected, enriching, reads>> /\ UNCHANGED guiVars
        /\ \/ browsing' = browsing \cup {b} /\ signals' = signals
           \/ signals' = Append(signals, s) /\ browsing' = browsing
    BY DEF BrowseChildren
  <1>2. /\ requests' \in Seq(Requests) /\ b \in Requests
        /\ Range(requests) = {b} \cup Range(requests')
    BY <1>0, <1>1, RangeTail
  <1>3. b.id \in Nat /\ b.node \in Nodes
    BY <1>2 DEF Requests
  <1>4. /\ s \in Signals /\ s.kind = "browsed" /\ s.id = b.id /\ s.node = b.node /\ s.kids = {}
    BY <1>3, BrowsedParts
  <1>. HIDE DEF b, s
  <1>5. CASE browsing' = browsing \cup {b} /\ signals' = signals
    <2>1. Posted' = Posted
      BY <1>2, <1>5 DEF Posted
    <2>2. Asked' = Asked /\ Ends' = Ends /\ \A id \in Nat : Answered(id) => Answered(id)'
      BY <1>1, <1>5, <2>1 DEF Asked, Ends, Answered
    <2>3. BringsKids'
      BY <1>0, <1>1, <1>5 DEF BringsKids
    <2>. QED  BY <1>0, <1>1, <1>2, <1>5, <2>2, <2>3, ServiceKeepsInv
  <1>6. CASE signals' = Append(signals, s) /\ browsing' = browsing
    <2>1. signals' \in Seq(Signals) /\ Range(signals') = Range(signals) \cup {s}
      BY <1>0, <1>4, <1>6, RangeAppend
    <2>2. Posted' \subseteq Posted \cup {s} /\ Posted \subseteq Posted' \cup {b} /\ b \in Posted /\ s \in Posted'
      BY <1>2, <1>4, <1>6, <2>1 DEF Posted
    <2>3. Asked' \subseteq Asked
      BY <1>1, <1>4, <2>2, HandedOn
    <2>4. ASSUME NEW id \in Nat, Answered(id)  PROVE Answered(id)'
      BY <1>1, <1>4, <2>2, <2>4 DEF Answered
    <2>5. Ends => Ends'
      BY <2>1 DEF Ends
    <2>6. BringsKids'
      BY <1>0, <1>1, <1>4, <2>1 DEF BringsKids
    <2>. QED  BY <1>0, <1>1, <1>2, <1>6, <2>1, <2>3, <2>4, <2>5, <2>6, ServiceKeepsInv
  <1>. QED  BY <1>1, <1>5, <1>6

LEMMA SessionKeeps == ASSUME Inv, SessionUp \/ SessionDown PROVE Inv'
  <1>0. /\ requests \in Seq(Requests) /\ signals \in Seq(Signals) /\ browsing \in SUBSET Requests
        /\ enriching \in Seq(Entries) /\ reads \in SUBSET Reads /\ sConnected \in BOOLEAN /\ BringsKids
    BY DEF Inv, Types
  <1>1. PICK up \in BOOLEAN :
          /\ sConnected' = up /\ signals' = Append(signals, [kind |-> "connected", up |-> up])
          /\ UNCHANGED <<requests, enriching>> /\ UNCHANGED guiVars
          /\ \/ UNCHANGED <<browsing, reads>>
             \/ ~up /\ browsing' = {} /\ reads' = {}
    BY DEF SessionUp, SessionDown
  <1>. DEFINE s == [kind |-> "connected", up |-> up]
  <1>2. s \in Signals /\ s.kind = "connected" /\ s.up = up
    BY SignalParts
  <1>3. signals' = Append(signals, s)
    BY <1>1
  <1>. HIDE DEF s
  <1>4. signals' \in Seq(Signals) /\ Range(signals') = Range(signals) \cup {s}
    BY <1>0, <1>2, <1>3, RangeAppend
  <1>5. browsing' \subseteq browsing /\ reads' \subseteq reads
    BY <1>1
  <1>6. Posted' \subseteq Posted
    BY <1>1, <1>2, <1>4, <1>5 DEF Posted
  <1>7. Asked' \subseteq Asked
    BY <1>1, <1>6 DEF Asked
  <1>8. Ends => Ends'
    BY <1>4 DEF Ends
  <1>9. ASSUME NEW id \in Nat, Answered(id)  PROVE Answered(id)' \/ Ends'
    <2>1. CASE ~up
      BY <1>2, <1>4, <2>1 DEF Ends
    <2>2. CASE UNCHANGED <<browsing, reads>>
      <3>1. Posted \subseteq Posted'
        BY <1>1, <1>4, <2>2 DEF Posted
      <3>. QED  BY <1>1, <1>9, <2>2, <3>1 DEF Answered
    <2>. QED  BY <1>1, <2>1, <2>2
  <1>10. BringsKids'
    BY <1>0, <1>1, <1>2, <1>4 DEF BringsKids
  <1>. QED  BY <1>0, <1>1, <1>4, <1>5, <1>7, <1>8, <1>9, <1>10, ServiceKeepsInv

(* Entries of the server's order: children of the node asked for, and a chunk    *)
(* that has been asked for, or none yet.                                      *)
FitsEntry(e) == e.kids \subseteq Kids[e.node] /\ e.chunk \in 0..Chunks[e.node]

LEMMA NextChunk ==
  ASSUME NEW e \in Entries
  PROVE  LET x == [e EXCEPT !.chunk = @ + 1]
         IN  x \in Entries /\ x.id = e.id /\ x.node = e.node /\ x.kids = e.kids /\ x.chunk = e.chunk + 1
  <1>1. e.id \in Nat /\ e.node \in Nodes /\ e.kids \in SUBSET Nodes /\ e.chunk + 1 \in Nat
    BY DEF Entries
  <1>2. [e EXCEPT !.chunk = @ + 1] =
          [id |-> e.id, node |-> e.node, kids |-> e.kids, chunk |-> e.chunk + 1]
    BY DEF Entries
  <1>. QED  BY <1>1, <1>2 DEF Entries

(* Entries that wait for a chunk which was asked for.                          *)
WaitsForChunk(e) == e.kids \subseteq Kids[e.node] /\ e.chunk \in 1..Chunks[e.node]

AllFit(es)  == \A e \in Range(es) : FitsEntry(e)
AllWait(es) == \A e \in Range(es) : WaitsForChunk(e)

(* What readNext() leaves of the entries "es", the others and the reads pending:  *)
(* all that was queued is still there, what is new is about one of "es", and of  *)
(* every one of "es" the next chunk is read or the children are sent.            *)
ReadOn(es, others, pending) ==
  /\ enriching' \in Seq(Entries) /\ reads' \in SUBSET Reads /\ signals' \in Seq(Signals)
  /\ BringsKids'
  /\ Range(signals) \subseteq Range(signals') /\ Range(others) \subseteq Range(enriching')
  /\ pending \subseteq reads'
  /\ \A s \in Range(signals') :
       \/ s \in Range(signals)
       \/ s.kind = "browsed" /\ \E e \in Range(es) : e.id = s.id /\ e.node = s.node
  /\ \A x \in Range(enriching') :
       x \in Range(others) \/ \E e \in Range(es) : e.id = x.id /\ e.node = x.node
  /\ \A e \in Range(es) :
       \/ \E s \in Range(signals') : s.kind = "browsed" /\ s.id = e.id
       \/ \E x \in Range(enriching') :
            x.id = e.id /\ [id |-> x.id, node |-> x.node, chunk |-> x.chunk] \in reads'

LEMMA ReadNextParts ==
  ASSUME Types, BringsKids, NEW es \in Seq(Entries), NEW others \in Seq(Entries),
         NEW pending \in SUBSET Reads, NEW refused \in BOOLEAN,
         ReadNext(es, others, pending, refused), AllFit(es), AllWait(others)
  PROVE  ReadOn(es, others, pending)
  <1>. DEFINE goes  == {i \in DOMAIN es : ~refused /\ es[i].chunk < Chunks[es[i].node]}
              going == At(es, goes)
              done  == At(es, DOMAIN es \ goes)
              Read(e) == [e EXCEPT !.chunk = @ + 1]
              Send(e) == Browsed(e, e.kids, TRUE)
              next  == [i \in DOMAIN going |-> Read(going[i])]
              sent  == [i \in DOMAIN done |-> Send(done[i])]
              asked == {[id |-> next[i].id, node |-> next[i].node, chunk |-> next[i].chunk] : i \in DOMAIN next}
  <1>1. enriching' = others \o next /\ reads' = pending \cup asked /\ signals' = signals \o sent
    BY DEF ReadNext
  <1>2. /\ going \in Seq(Entries) /\ Range(going) = {es[i] : i \in goes}
        /\ done \in Seq(Entries) /\ Range(done) = {es[i] : i \in DOMAIN es \ goes}
    BY RangeAt
  <1>3. \A e \in Entries : /\ e.id \in Nat /\ e.node \in Nodes /\ e.kids \in SUBSET Nodes /\ e.chunk \in Nat
                           /\ Chunks[e.node] \in Nat
    BY TreeAssumption DEF Entries, TreeAssumption
  <1>4. ASSUME NEW e \in Entries
        PROVE  /\ Read(e) \in Entries /\ Read(e).id = e.id /\ Read(e).node = e.node
               /\ Read(e).kids = e.kids /\ Read(e).chunk = e.chunk + 1
    BY NextChunk
  <1>5. \A e \in Entries : /\ Send(e) \in Signals /\ Send(e).kind = "browsed" /\ Send(e).id = e.id
                           /\ Send(e).node = e.node /\ Send(e).kids = e.kids
    BY <1>3, BrowsedParts
  <1>6. \A i \in DOMAIN es : es[i] \in Range(es) /\ es[i] \in Entries
    BY DEF Range
  <1>7. \A e \in Range(es) : \E i \in DOMAIN es : e = es[i]
    BY DEF Range
  <1>8. \A e \in Range(going) : e \in Range(es) /\ e \in Entries /\ e.chunk < Chunks[e.node]
    <2>. HIDE DEF going, Read, Send
    <2>. QED  BY <1>2, <1>6
  <1>9. \A e \in Range(done) : e \in Range(es) /\ e \in Entries
    <2>. HIDE DEF done, Read, Send
    <2>. QED  BY <1>2, <1>6
  <1>. HIDE DEF going, done, Read, Send
  <1>10. \A e \in Range(es) : e \in Range(going) \/ e \in Range(done)
    BY <1>2, <1>7
  <1>11. next \in Seq(Entries) /\ Range(next) = {Read(e) : e \in Range(going)}
    <2>1. /\ Len(going) \in Nat /\ DOMAIN going = 1..Len(going)
          /\ \A i \in DOMAIN going : going[i] \in Entries
      BY <1>2
    <2>2. next \in [1..Len(going) -> Entries]
      BY <1>4, <2>1
    <2>3. Range(next) = {Read(e) : e \in Range(going)}
      BY DEF Range
    <2>. HIDE DEF next
    <2>. QED  BY <2>1, <2>2, <2>3
  <1>12. sent \in Seq(Signals) /\ Range(sent) = {Send(e) : e \in Range(done)}
    <2>1. /\ Len(done) \in Nat /\ DOMAIN done = 1..Len(done)
          /\ \A i \in DOMAIN done : done[i] \in Entries
      BY <1>2
    <2>2. sent \in [1..Len(done) -> Signals]
      BY <1>5, <2>1
    <2>3. Range(sent) = {Send(e) : e \in Range(done)}
      BY DEF Range
    <2>. HIDE DEF sent
    <2>. QED  BY <2>1, <2>2, <2>3
  <1>13. asked = {[id |-> x.id, node |-> x.node, chunk |-> x.chunk] : x \in Range(next)}
    BY DEF Range
  <1>. HIDE DEF next, sent, asked
  <1>14. enriching' \in Seq(Entries) /\ Range(enriching') = Range(others) \cup Range(next)
    BY <1>1, <1>11, RangeConcat
  <1>15. signals \in Seq(Signals)
    BY DEF Types
  <1>16. signals' \in Seq(Signals) /\ Range(signals') = Range(signals) \cup Range(sent)
    BY <1>1, <1>12, <1>15, RangeConcat
  <1>17. asked \subseteq Reads
    <2>1. \A x \in Range(next) : x \in Entries
      BY <1>11, RangeInside
    <2>2. \A x \in Range(next) : [id |-> x.id, node |-> x.node, chunk |-> x.chunk] \in Reads
      BY <1>3, <2>1 DEF Reads
    <2>. QED  BY <1>13, <2>2
  <1>18. BringsKids'
    <2>1. ASSUME NEW x \in Range(next)
          PROVE  x.kids \subseteq Kids[x.node] /\ x.chunk \in 1..Chunks[x.node]
      <3>1. PICK e \in Range(going) : x = Read(e)
        BY <1>11
      <3>2. e \in Entries /\ e.chunk < Chunks[e.node] /\ FitsEntry(e)
        BY <1>8 DEF AllFit
      <3>3. x.kids = e.kids /\ x.node = e.node /\ x.chunk = e.chunk + 1
        BY <1>4, <3>1, <3>2
      <3>4. e.chunk \in Nat /\ Chunks[e.node] \in Nat /\ e.kids \subseteq Kids[e.node]
        BY <1>3, <3>2 DEF FitsEntry
      <3>. QED  BY <3>2, <3>3, <3>4
    <2>2. ASSUME NEW s \in Range(sent)  PROVE s.kids \subseteq Kids[s.node]
      <3>1. PICK e \in Range(done) : s = Send(e)
        BY <1>12
      <3>2. e \in Entries /\ FitsEntry(e)
        BY <1>9 DEF AllFit
      <3>. QED  BY <1>5, <3>1, <3>2 DEF FitsEntry
    <2>. QED  BY <1>14, <1>16, <2>1, <2>2 DEF BringsKids, AllWait, WaitsForChunk
  <1>19. ASSUME NEW s \in Range(signals')
         PROVE  \/ s \in Range(signals)
                \/ s.kind = "browsed" /\ \E e \in Range(es) : e.id = s.id /\ e.node = s.node
    <2>1. CASE s \in Range(sent)
      <3>1. PICK e \in Range(done) : s = Send(e)
        BY <1>12, <2>1
      <3>. QED  BY <1>5, <1>9, <3>1
    <2>. QED  BY <1>16, <1>19, <2>1
  <1>20. ASSUME NEW x \in Range(enriching')
         PROVE  x \in Range(others) \/ \E e \in Range(es) : e.id = x.id /\ e.node = x.node
    <2>1. CASE x \in Range(next)
      <3>1. PICK e \in Range(going) : x = Read(e)
        BY <1>11, <2>1
      <3>. QED  BY <1>4, <1>8, <3>1
    <2>. QED  BY <1>14, <1>20, <2>1
  <1>21. ASSUME NEW e \in Range(es)
         PROVE  \/ \E s \in Range(signals') : s.kind = "browsed" /\ s.id = e.id
                \/ \E x \in Range(enriching') :
                     x.id = e.id /\ [id |-> x.id, node |-> x.node, chunk |-> x.chunk] \in reads'
    <2>1. CASE e \in Range(going)
      <3>1. Read(e) \in Range(next) /\ Read(e).id = e.id
        BY <1>4, <1>8, <1>11, <2>1
      <3>. QED  BY <1>1, <1>13, <1>14, <3>1
    <2>2. CASE e \in Range(done)
      <3>1. Send(e) \in Range(sent) /\ Send(e).kind = "browsed" /\ Send(e).id = e.id
        BY <1>5, <1>9, <1>12, <2>2
      <3>. QED  BY <1>16, <3>1
    <2>. QED  BY <1>10, <2>1, <2>2
  <1>. QED  BY <1>1, <1>14, <1>16, <1>17, <1>18, <1>19, <1>20, <1>21 DEF ReadOn

LEMMA BrowseFinishesKeeps == ASSUME Inv, BrowseFinishes PROVE Inv'
  <1>0. /\ requests \in Seq(Requests) /\ signals \in Seq(Signals) /\ browsing \in SUBSET Requests
        /\ enriching \in Seq(Entries) /\ reads \in SUBSET Reads /\ sConnected \in BOOLEAN
        /\ BringsKids /\ Types
    BY DEF Inv, Types
  <1>1. UNCHANGED guiVars /\ UNCHANGED <<sConnected, requests>>
    BY DEF BrowseFinishes
  <1>2. PICK b \in browsing :
          /\ browsing' = browsing \ {b}
          /\ \/ \E kids \in {Kids[b.node], {}}, refused \in BOOLEAN : Enrich(b, kids, refused)
             \/ signals' = Append(signals, Browsed(b, {}, FALSE)) /\ UNCHANGED <<enriching, reads>>
    BY DEF BrowseFinishes
  <1>3. b.id \in Nat /\ b.node \in Nodes /\ b \in Posted
    BY <1>0 DEF Requests, Posted
  <1>4. browsing' \in SUBSET Requests /\ \A u \in browsing : u = b \/ u \in browsing'
    BY <1>0, <1>2
  <1>5. ASSUME NEW kids \in {Kids[b.node], {}}, NEW refused \in BOOLEAN, Enrich(b, kids, refused)
        PROVE  Inv'
    <2>. DEFINE e == [id |-> b.id, node |-> b.node, kids |-> kids,
                      chunk |-> IF kids = {} THEN Chunks[b.node] ELSE 0]
    <2>1. ReadNext(<<e>>, enriching, reads, refused)
      BY <1>5 DEF Enrich
    <2>2. Chunks[b.node] \in Nat /\ kids \in SUBSET Nodes
      BY <1>3, TreeAssumption DEF TreeAssumption
    <2>3. e \in Entries /\ FitsEntry(e) /\ e.id = b.id /\ e.node = b.node
      BY <1>3, <2>2 DEF Entries, FitsEntry
    <2>. HIDE DEF e
    <2>4. <<e>> \in Seq(Entries) /\ Range(<<e>>) = {e}
      BY <2>3 DEF Range
    <2>. DEFINE es == <<e>>
    <2>9. es \in Seq(Entries) /\ Range(es) = {e} /\ ReadNext(es, enriching, reads, refused)
      BY <2>1, <2>4
    <2>. HIDE DEF es
    <2>5. /\ enriching' \in Seq(Entries) /\ reads' \in SUBSET Reads /\ signals' \in Seq(Signals)
          /\ BringsKids'
          /\ Range(signals) \subseteq Range(signals') /\ Range(enriching) \subseteq Range(enriching')
          /\ reads \subseteq reads'
          /\ \A s \in Range(signals') :
               \/ s \in Range(signals)
               \/ s.kind = "browsed" /\ \E d \in Range(es) : d.id = s.id /\ d.node = s.node
          /\ \A x \in Range(enriching') :
               x \in Range(enriching) \/ \E d \in Range(es) : d.id = x.id /\ d.node = x.node
          /\ \A d \in Range(es) :
               \/ \E s \in Range(signals') : s.kind = "browsed" /\ s.id = d.id
               \/ \E x \in Range(enriching') :
                    x.id = d.id /\ [id |-> x.id, node |-> x.node, chunk |-> x.chunk] \in reads'
      <3>1. AllFit(es)
        BY <2>3, <2>9 DEF AllFit
      <3>2. AllWait(enriching)
        BY <1>0 DEF BringsKids, AllWait, WaitsForChunk
      <3>3. ReadOn(es, enriching, reads)
        BY <1>0, <2>9, <3>1, <3>2, ReadNextParts
      <3>. QED  BY <3>3 DEF ReadOn
    <2>6. Asked' \subseteq Asked
      <3>1. \A u \in Posted' : \E v \in Posted \cup Range(enriching) : v.id = u.id /\ v.node = u.node
        BY <1>1, <1>2, <1>3, <2>3, <2>9, <2>5 DEF Posted
      <3>2. \A u \in Range(enriching)' :
              \E v \in Posted \cup Range(enriching) : v.id = u.id /\ v.node = u.node
        BY <1>3, <2>3, <2>9, <2>5
      <3>. QED  BY <3>1, <3>2, HandedOn
    <2>7. ASSUME NEW id \in Nat, Answered(id)  PROVE Answered(id)'
      <3>1. CASE \E u \in Posted : u.id = id
        <4>1. PICK u \in Posted : u.id = id
          BY <3>1
        <4>2. CASE u = b
          <5>1. e \in Range(es) /\ e.id = id
            BY <2>3, <2>9, <4>1, <4>2
          <5>2. \/ \E s \in Range(signals') : s.kind = "browsed" /\ s.id = id
                \/ \E x \in Range(enriching') :
                     x.id = id /\ [id |-> x.id, node |-> x.node, chunk |-> x.chunk] \in reads'
            BY <2>5, <5>1
          <5>. QED  BY <5>2 DEF Answered, Posted
        <4>3. CASE u # b
          <5>1. u \in Posted'
            BY <1>1, <1>4, <2>5, <4>1, <4>3 DEF Posted
          <5>. QED  BY <4>1, <5>1 DEF Answered
        <4>. QED  BY <4>2, <4>3
      <3>2. CASE \E d \in Range(enriching) :
                   d.id = id /\ [id |-> d.id, node |-> d.node, chunk |-> d.chunk] \in reads
        BY <2>5, <3>2 DEF Answered
      <3>. QED  BY <2>7, <3>1, <3>2 DEF Answered
    <2>8. Ends => Ends'
      BY <2>5 DEF Ends
    <2>. QED  BY <1>0, <1>1, <1>4, <2>5, <2>6, <2>7, <2>8, ServiceKeepsInv
  <1>6. ASSUME signals' = Append(signals, Browsed(b, {}, FALSE)), UNCHANGED <<enriching, reads>>
        PROVE  Inv'
    <2>. DEFINE s == Browsed(b, {}, FALSE)
    <2>1. s \in Signals /\ s.kind = "browsed" /\ s.id = b.id /\ s.node = b.node /\ s.kids = {}
      BY <1>3, BrowsedParts
    <2>2. signals' = Append(signals, s)
      BY <1>6
    <2>. HIDE DEF s
    <2>3. signals' \in Seq(Signals) /\ Range(signals') = Range(signals) \cup {s}
      BY <1>0, <2>1, <2>2, RangeAppend
    <2>4. Posted' \subseteq Posted \cup {s} /\ Posted \subseteq Posted' \cup {b} /\ s \in Posted'
      BY <1>1, <1>2, <1>4, <2>1, <2>3 DEF Posted
    <2>5. Asked' \subseteq Asked
      BY <1>3, <1>6, <2>1, <2>4, HandedOn
    <2>6. ASSUME NEW id \in Nat, Answered(id)  PROVE Answered(id)'
      BY <1>6, <2>1, <2>4, <2>6 DEF Answered
    <2>7. Ends => Ends'
      BY <2>3 DEF Ends
    <2>8. BringsKids'
      BY <1>0, <1>6, <2>1, <2>3 DEF BringsKids
    <2>. QED  BY <1>0, <1>1, <1>4, <1>6, <2>3, <2>5, <2>6, <2>7, <2>8, ServiceKeepsInv
  <1>. QED  BY <1>2, <1>5, <1>6

(* The result of one read leaves every other enrichment with the read it waits   *)
(* for, although a failed one moves them all on.                               *)
LEMMA ReadFinishesKeeps == ASSUME Inv, ReadFinishes PROVE Inv'
  <1>0. /\ requests \in Seq(Requests) /\ signals \in Seq(Signals) /\ browsing \in SUBSET Requests
        /\ enriching \in Seq(Entries) /\ reads \in SUBSET Reads /\ sConnected \in BOOLEAN
        /\ BringsKids /\ Types
    BY DEF Inv, Types
  <1>1. UNCHANGED guiVars /\ UNCHANGED <<sConnected, requests, browsing>>
    BY DEF ReadFinishes
  <1>2. PICK r \in reads, good \in BOOLEAN, refused \in BOOLEAN :
          LET claims == {i \in DOMAIN enriching :
                           good => enriching[i].node = r.node /\ enriching[i].chunk = r.chunk}
          IN ReadNext(At(enriching, claims), At(enriching, DOMAIN enriching \ claims), reads \ {r}, refused)
    BY DEF ReadFinishes
  <1>. DEFINE claims == {i \in DOMAIN enriching :
                           good => enriching[i].node = r.node /\ enriching[i].chunk = r.chunk}
              es     == At(enriching, claims)
              others == At(enriching, DOMAIN enriching \ claims)
  <1>3. /\ es \in Seq(Entries) /\ Range(es) = {enriching[i] : i \in claims}
        /\ others \in Seq(Entries) /\ Range(others) = {enriching[i] : i \in DOMAIN enriching \ claims}
    BY <1>0, RangeAt
  <1>4. ReadNext(es, others, reads \ {r}, refused)
    BY <1>2
  <1>. HIDE DEF es, others
  <1>5. \A i \in DOMAIN enriching : enriching[i] \in Range(enriching)
    BY DEF Range
  <1>6. Range(es) \subseteq Range(enriching) /\ Range(others) \subseteq Range(enriching)
    BY <1>3, <1>5
  <1>7. \A e \in Range(enriching) : e \in Range(es) \/ e \in Range(others)
    <2>. HIDE DEF claims
    <2>. QED  BY <1>3 DEF Range
  <1>8. \A e \in Range(others) : [id |-> e.id, node |-> e.node, chunk |-> e.chunk] # r
    BY <1>3
  <1>9. /\ enriching' \in Seq(Entries) /\ reads' \in SUBSET Reads /\ signals' \in Seq(Signals)
        /\ BringsKids'
        /\ Range(signals) \subseteq Range(signals') /\ Range(others) \subseteq Range(enriching')
        /\ reads \ {r} \subseteq reads'
        /\ \A s \in Range(signals') :
             \/ s \in Range(signals)
             \/ s.kind = "browsed" /\ \E e \in Range(es) : e.id = s.id /\ e.node = s.node
        /\ \A x \in Range(enriching') :
             x \in Range(others) \/ \E e \in Range(es) : e.id = x.id /\ e.node = x.node
        /\ \A e \in Range(es) :
             \/ \E s \in Range(signals') : s.kind = "browsed" /\ s.id = e.id
             \/ \E x \in Range(enriching') :
                  x.id = e.id /\ [id |-> x.id, node |-> x.node, chunk |-> x.chunk] \in reads'
    <2>. DEFINE left == reads \ {r}
    <2>1. \A e \in Range(enriching) : WaitsForChunk(e)
      BY <1>0 DEF BringsKids, WaitsForChunk
    <2>2. AllFit(es)
      BY <1>6, <2>1 DEF FitsEntry, WaitsForChunk, AllFit
    <2>3. AllWait(others)
      BY <1>6, <2>1 DEF AllWait
    <2>4. left \in SUBSET Reads /\ refused \in BOOLEAN /\ ReadNext(es, others, left, refused)
      BY <1>0, <1>4
    <2>. HIDE DEF left
    <2>5. ReadOn(es, others, left)
      BY <1>0, <1>3, <2>2, <2>3, <2>4, ReadNextParts
    <2>. QED  BY <2>5 DEF left, ReadOn
  <1>10. Asked' \subseteq Asked
    <2>1. \A u \in Posted' : \E v \in Posted \cup Range(enriching) : v.id = u.id /\ v.node = u.node
      BY <1>1, <1>6, <1>9 DEF Posted
    <2>2. \A u \in Range(enriching)' :
            \E v \in Posted \cup Range(enriching) : v.id = u.id /\ v.node = u.node
      BY <1>6, <1>9
    <2>. QED  BY <2>1, <2>2, HandedOn
  <1>11. ASSUME NEW id \in Nat, Answered(id)  PROVE Answered(id)'
    <2>1. CASE \E u \in Posted : u.id = id
      <3>1. Posted \subseteq Posted'
        BY <1>1, <1>9 DEF Posted
      <3>. QED  BY <2>1, <3>1 DEF Answered
    <2>2. CASE \E e \in Range(enriching) :
                 e.id = id /\ [id |-> e.id, node |-> e.node, chunk |-> e.chunk] \in reads
      <3>1. PICK e \in Range(enriching) :
              e.id = id /\ [id |-> e.id, node |-> e.node, chunk |-> e.chunk] \in reads
        BY <2>2
      <3>2. CASE e \in Range(es)
        BY <1>9, <3>1, <3>2 DEF Answered, Posted
      <3>3. CASE e \in Range(others)
        <4>1. [id |-> e.id, node |-> e.node, chunk |-> e.chunk] \in reads' /\ e \in Range(enriching')
          BY <1>8, <1>9, <3>1, <3>3
        <4>. QED  BY <3>1, <4>1 DEF Answered
      <3>. QED  BY <1>7, <3>2, <3>3
    <2>. QED  BY <1>11, <2>1, <2>2 DEF Answered
  <1>12. Ends => Ends'
    BY <1>9 DEF Ends
  <1>. QED  BY <1>0, <1>1, <1>9, <1>10, <1>11, <1>12, ServiceKeepsInv

-----------------------------------------------------------------------------
LEMMA InitInv == TreeInit => Inv
  <1>. SUFFICES ASSUME TreeInit  PROVE Inv
    OBVIOUS
  <1>. DEFINE t0 == [active |-> FALSE, root |-> Root, items |-> <<>>, pending |-> <<>>,
                     next |-> 0, query |-> {}, flagged |-> {}]
  <1>1. /\ model = [m \in Models |-> t0] /\ kick = [m \in Models |-> 0]
        /\ reveal = Idle /\ route = <<>> /\ nextBrowse = 0 /\ focusNode \in Pinned
        /\ gConnected = FALSE /\ sConnected = FALSE
        /\ requests = <<>> /\ browsing = {} /\ enriching = <<>> /\ reads = {} /\ signals = <<>>
    BY DEF TreeInit
  <1>2. Root \in Nodes /\ focusNode \in Nodes \cup {NoNode} /\ "tree" \in Models
    BY <1>1, TreeAssumption DEF TreeAssumption, Models
  <1>3. DOMAIN <<>> = {} /\ \A S : <<>> \in [{} -> S]
    BY EmptyFunction
  <1>4. t0 \in Trees
    <2>1. <<>> \in UNION {[S -> Status] : S \in SUBSET Nodes} /\ <<>> \in UNION {[S -> Nodes] : S \in SUBSET Nat}
      <3>1. {} \in SUBSET Nodes /\ {} \in SUBSET Nat /\ <<>> \in [{} -> Status] /\ <<>> \in [{} -> Nodes]
        BY <1>3
      <3>. QED  BY <3>1
    <2>. QED  BY <1>2, <2>1 DEF Trees
  <1>5. t0.active = FALSE /\ t0.root = Root /\ Loaded(t0) = {} /\ t0.pending = <<>> /\ t0.flagged = {}
    BY <1>3 DEF Loaded
  <1>. HIDE DEF t0
  <1>6. ModelOK(t0)
    <2>1. ShapeOK(t0)
      <3>1. t0.active \in BOOLEAN /\ ~t0.active /\ ~(t0.root \in Loaded(t0))
        BY <1>5
      <3>2. t0.active = (t0.root \in Loaded(t0))
        BY <3>1
      <3>. QED  BY <1>5, <3>2 DEF ShapeOK
    <2>2. PendingOK(t0)
      BY <1>3, <1>5 DEF PendingOK
    <2>3. Flagged(t0)
      BY <1>5 DEF Flagged
    <2>. QED  BY <1>4, <2>1, <2>2, <2>3 DEF ModelOK
  <1>7. model \in [Models -> Trees] /\ \A m \in Models : model[m] = t0
    BY <1>1, <1>4
  <1>8. /\ requests \in Seq(Requests) /\ enriching \in Seq(Entries) /\ signals \in Seq(Signals)
        /\ Range(requests) = {} /\ Range(enriching) = {} /\ Range(signals) = {}
    BY <1>1 DEF Range
  <1>9. route \in Routes /\ DOMAIN route = {}
    <2>1. {} \in SUBSET Nat /\ <<>> \in [{} -> [model : Models, req : Nat]]
      BY <1>3
    <2>. QED  BY <1>1, <1>3, <2>1, RoutesMade
  <1>10. Types
    BY <1>1, <1>2, <1>7, <1>8, <1>9, IdleFits DEF Types
  <1>11. BringsKids
    BY <1>8 DEF BringsKids
  <1>12. Asked = {}
    BY <1>1, <1>8 DEF Asked, Posted
  <1>13. Linked(model, route, nextBrowse, gConnected, Asked, Working)
    BY <1>1, <1>2, <1>3, <1>5, <1>6, <1>7, <1>9, <1>12 DEF Linked
  <1>14. RevealFits(reveal, model["tree"])
    BY <1>1, IdleFits
  <1>. QED  BY <1>10, <1>11, <1>13, <1>14 DEF Inv

LEMMA StutterKeepsInv == ASSUME Inv, UNCHANGED treeVars PROVE Inv'
  <1>1. UNCHANGED <<model, kick, reveal, route, nextBrowse, focusNode, gConnected, sConnected,
                    requests, browsing, enriching, reads, signals>>
    BY DEF treeVars
  <1>2. Types' /\ BringsKids' /\ RevealFits(reveal, model["tree"])'
    BY <1>1, InvParts DEF Types, BringsKids, RevealFits
  <1>3. Posted' = Posted /\ Ends' = Ends
    BY <1>1 DEF Posted, Ends
  <1>4. Asked' = Asked /\ Working' = Working
    BY <1>1, <1>3 DEF Asked, Working, Answered
  <1>5. Linked(model', route', nextBrowse', gConnected', Asked', Working')
    BY <1>1, <1>4, InvParts
  <1>. QED  BY <1>2, <1>5 DEF Inv

LEMMA StepKeepsInv == Inv /\ [TreeNext]_treeVars => Inv'
  <1>. SUFFICES ASSUME Inv, [TreeNext]_treeVars  PROVE Inv'
    OBVIOUS
  <1>1. CASE UserStep
    <2>1. \A m \in Models : SetSearchQuery(m) => Inv'
      BY SetSearchQueryKeeps
    <2>2. \A m \in Models : \A n \in Loaded(model[m]) : ExpandNode(m, n) => Inv'
      BY ExpandKeeps
    <2>. QED  BY <1>1, <2>1, <2>2, RequestRevealPathKeeps, SetFocusNodeKeeps, ClearFocusNodeKeeps,
                 SwitchProjectKeeps DEF UserStep
  <1>2. CASE GuiStep
    <2>1. \A m \in Models : InitialFetch(m) => Inv'
      BY InitialFetchKeeps
    <2>. QED  BY <1>2, <2>1, ApplyConnectedKeeps, ApplyBrowseChildrenKeeps DEF GuiStep
  <1>3. CASE ServiceStep
    BY <1>3, BrowseChildrenKeeps, BrowseFinishesKeeps, ReadFinishesKeeps, SessionKeeps DEF ServiceStep
  <1>4. CASE UNCHANGED treeVars
    BY <1>4, StutterKeepsInv
  <1>. QED  BY <1>1, <1>2, <1>3, <1>4 DEF TreeNext

-----------------------------------------------------------------------------
(* What the invariant says of the parts the properties speak of.               *)

LEMMA InvTypes == ASSUME Inv PROVE TreesOK
  <1>0. Types /\ BringsKids /\ Linked(model, route, nextBrowse, gConnected, Asked, Working)
    BY DEF Inv
  <1>1. ASSUME NEW m \in Models  PROVE TreeOK(model[m]) /\ kick[m] \in Nat
    <2>. DEFINE t == model[m]
    <2>1. ModelOK(t) /\ t \in Trees /\ kick[m] \in Nat
      BY <1>0, <1>1 DEF Linked, ModelOK, Types
    <2>. HIDE DEF t
    <2>2. DOMAIN t = {"active", "root", "items", "pending", "next", "query", "flagged"}
      BY <2>1 DEF Trees
    <2>3. t.active = (t.items # <<>>)
      <3>1. t.items \in [Loaded(t) -> Status] /\ t.active \in BOOLEAN
        BY <2>1, TreeParts
      <3>2. t.items = <<>> <=> Loaded(t) = {}
        BY <3>1, EmptyFunction DEF Loaded
      <3>3. t.active <=> Loaded(t) # {}
        BY <2>1, <3>1 DEF ModelOK, ShapeOK
      <3>. QED  BY <3>1, <3>2, <3>3
    <2>. QED  BY <2>1, <2>2, <2>3 DEF TreeOK, ModelOK, ShapeOK, PendingOK, t
  <1>2. model["tree"].root = Root /\ \A b \in DOMAIN route : b <= nextBrowse
    BY <1>0 DEF Linked
  <1>3. \A b \in DOMAIN route : route[b].model \in Models
    BY <1>0, RouteParts DEF Types
  <1>4. \A i \in DOMAIN enriching : enriching[i].chunk \in 1..Chunks[enriching[i].node]
    BY <1>0 DEF BringsKids, Range
  <1>. QED  BY <1>0, <1>1, <1>2, <1>3, <1>4 DEF TreesOK, Types

LEMMA AnsweredIsUnderWay == ASSUME NEW id \in Nat, Answered(id) PROVE UnderWay(id)
  <1>1. CASE \E u \in Posted : u.id = id
    BY <1>1 DEF Posted, Range, UnderWay
  <1>2. CASE \E e \in Range(enriching) :
               e.id = id /\ [id |-> e.id, node |-> e.node, chunk |-> e.chunk] \in reads
    <2>1. PICK i \in DOMAIN enriching :
            /\ enriching[i].id = id
            /\ [id |-> enriching[i].id, node |-> enriching[i].node, chunk |-> enriching[i].chunk] \in reads
      BY <1>2 DEF Range
    <2>. QED  BY <2>1 DEF UnderWay
  <1>. QED  BY <1>1, <1>2 DEF Answered

LEMMA InvFetching == ASSUME Inv PROVE FetchingIsAnswered
  <1>0. Types /\ Linked(model, route, nextBrowse, gConnected, Asked, Working)
    BY DEF Inv
  <1>. SUFFICES ASSUME NEW m \in Models, NEW n \in Loaded(model[m]),
                       model[m].items[n] = "Fetching", ~SessionEnds
                PROVE  \E id \in DOMAIN route :
                         /\ route[id].model = m
                         /\ route[id].req \in DOMAIN model[m].pending
                         /\ model[m].pending[route[id].req] = n
                         /\ UnderWay(id)
    BY InvTypes DEF FetchingIsAnswered
  <1>1. PICK q \in DOMAIN model[m].pending : model[m].pending[q] = n
    BY <1>0 DEF Linked, ModelOK, PendingOK
  <1>2. PICK id \in DOMAIN route : route[id].model = m /\ route[id].req = q /\ id \in Working
    BY <1>0, <1>1 DEF Linked
  <1>3. ~Ends
    BY DEF Ends, SessionEnds, Range
  <1>4. UnderWay(id)
    BY <1>2, <1>3, AnsweredIsUnderWay DEF Working
  <1>. QED  BY <1>1, <1>2, <1>4

(* A node of either tree shown as fetching has a request of that tree, whose id     *)
(* the manager routes back to it and whose answer is on its way, or the end of the   *)
(* session is: fetchMore(), routeFetch() and applyBrowseChildren() of the manager     *)
(* and the enrichment of the service leave no node fetching for good, for every      *)
(* address space and any number of sessions, fetches and failed reads.              *)
THEOREM FetchingAlwaysAnswered == TreeSpec => []FetchingIsAnswered
  <1>1. Inv => FetchingIsAnswered
    BY InvFetching
  <1>. QED  BY <1>1, InitInv, StepKeepsInv, PTL DEF TreeSpec

(* What is highlighted in a tree is what is loaded of it and matches the query,      *)
(* after every fetch, error, reset, focus and project switch.                       *)
THEOREM SearchAlwaysFlagsLoaded == TreeSpec => []SearchFlagsLoaded
  <1>1. Inv => SearchFlagsLoaded
    BY DEF Inv, Linked, ModelOK, Flagged, SearchFlagsLoaded
  <1>. QED  BY <1>1, InitInv, StepKeepsInv, PTL DEF TreeSpec

(* A reveal under way over the present tree waits at a level that is fetched, so     *)
(* that an answer resumes or ends it: advanceReveal() and maybeResumeReveal().      *)
THEOREM RevealAlwaysWaits == TreeSpec => []RevealWaits
  <1>1. Inv => RevealWaits
    BY DEF Inv, RevealFits, RevealWaits
  <1>. QED  BY <1>1, InitInv, StepKeepsInv, PTL DEF TreeSpec
=============================================================================
