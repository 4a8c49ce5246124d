------------------------ MODULE CloneBrowser_proofs ------------------------
(* A walk is reported once, on every server and under any caps; while it runs   *)
(* it waits for exactly what is open, and a walk that ends by itself reports     *)
(* the whole of its subtree.                                               *)
(* The second half is about the project a clone ends in: no edit, import or      *)
(* clone leaves a reference to what is not there, what the validator accepted is *)
(* served as designed, and a saved file keeps the project.                       *)
EXTENDS CloneBrowser, StructuredNodeReader, ProjectEditor, TLAPS, FiniteSetTheorems,
        SequenceTheorems, WellFoundedInduction

Stages == {"new", "walking", "finished", "deleted"}

(* ReportedOnce is not inductive alone: that no step but the start touches a   *)
(* root without a work node rests on the root being there once a walk runs.  *)
Inv ==
  /\ stage \in Stages
  /\ status \in [Nodes -> Statuses]
  /\ Alive => status[Root] # "none"
  /\ ReportedOnce

(* emitResult() keeps the count of reports in step with the stage.           *)
LEMMA EmitCounts ==
  ASSUME Alive, ReportedOnce, NEW st, NEW whole, EmitResult(st, whole)
  PROVE  /\ stage' = "finished"
         /\ reports' = 1
  <1>1. CASE stage = "finished"
    BY <1>1 DEF EmitResult, ReportedOnce
  <1>2. CASE stage = "walking"
    BY <1>2 DEF EmitResult, ReportedOnce
  <1>. QED  BY <1>1, <1>2 DEF Alive

(* Settling nodes keeps the invariant when every root newly done is among    *)
(* the settled ones.                                                        *)
LEMMA SettleKeepsInv ==
  ASSUME Inv, Alive, Root \in Nodes,
         NEW closed, NEW st \in [Nodes -> Statuses], NEW pend,
         st[Root] # "none",
         st[Root] = "done" => status[Root] = "done" \/ Root \in closed,
         Settle(closed, st, pend)
  PROVE  Inv'
  <1>1. status' \in [Nodes -> Statuses] /\ status'[Root] # "none"
    BY DEF Settle, Statuses
  <1>2. CASE Root \in closed
    <2>1. EmitResult(st, TRUE)
      BY <1>2, Zenon DEF Settle
    <2>2. stage' = "finished" /\ reports' = 1
      BY <2>1, EmitCounts DEF Inv
    <2>. QED  BY <1>1, <2>2 DEF Inv, ReportedOnce, Stages
  <1>3. CASE Root \notin closed
    <2>1. UNCHANGED <<stage, reports>>
      BY <1>3, Zenon DEF Settle
    <2>2. status'[Root] = "done" => status[Root] = "done"
      BY <1>3 DEF Settle
    <2>. QED  BY <1>1, <2>1, <2>2 DEF Inv, ReportedOnce, Stages, Alive
  <1>. QED  BY <1>2, <1>3

(* The invariant holds when a walk is created.                              *)
LEMMA InitInv == ASSUME Init PROVE Inv
  BY WalkAssumption DEF Init, Inv, ReportedOnce, Stages, Statuses, Alive, WalkAssumption

LEMMA StartKeepsInv == ASSUME Inv, Start PROVE Inv'
  <1>. USE WalkAssumption DEF WalkAssumption
  <1>1. PICK s \in Starts(Root, 0) :
          /\ status' = [status EXCEPT ![Root] = s]
          /\ IF s = "done" THEN EmitResult(status', TRUE)
             ELSE stage' = "walking" /\ UNCHANGED <<reports, report>>
    BY Zenon DEF Start
  <1>2. stage = "new" /\ reports = 0
    BY DEF Start, Inv, ReportedOnce
  <1>3. s \in {"reading", "browsing", "done"}
    BY DEF Starts, BrowseStarts
  <1>4. status' \in [Nodes -> Statuses] /\ status'[Root] = s
    BY <1>1, <1>3 DEF Inv, Statuses
  <1>5. CASE s = "done"
    <2>1. stage' = "finished" /\ reports' = 1
      BY <1>1, <1>2, <1>5 DEF EmitResult
    <2>. QED  BY <1>4, <1>5, <2>1 DEF Inv, ReportedOnce, Stages
  <1>6. CASE s # "done"
    <2>1. stage' = "walking" /\ reports' = 0
      BY <1>1, <1>2, <1>6
    <2>. QED  BY <1>3, <1>4, <1>6, <2>1 DEF Inv, ReportedOnce, Stages
  <1>. QED  BY <1>5, <1>6

LEMMA AttributesKeepInv ==
  ASSUME Inv, NEW n \in Nodes, NEW parts, HandleAttributes(n, parts)
  PROVE  Inv'
  <1>. USE WalkAssumption DEF WalkAssumption
  <1>1. Alive /\ status[n] = "reading"
    BY DEF HandleAttributes
  <1>2. CASE received'[n] # Parts
    <2>1. UNCHANGED <<stage, status, reports>>
      BY <1>2, Zenon DEF HandleAttributes
    <2>. QED  BY <2>1 DEF Inv, ReportedOnce, Alive
  <1>3. CASE received'[n] = Parts
    <2>1. PICK s \in BrowseStarts(Depth(n)) :
            Settle(IF s = "done" THEN FinalizeNode(n) ELSE {},
                   [status EXCEPT ![n] = s], pending)
      BY <1>3, Zenon DEF HandleAttributes
    <2>2. s \in {"browsing", "done"}
      BY DEF BrowseStarts
    <2>. DEFINE closed == IF s = "done" THEN FinalizeNode(n) ELSE {}
                st     == [status EXCEPT ![n] = s]
    <2>3. st \in [Nodes -> Statuses] /\ st[Root] # "none"
      BY <1>1, <2>2 DEF Inv, Statuses
    <2>4. ASSUME st[Root] = "done" PROVE status[Root] = "done" \/ Root \in closed
      <3>1. CASE n = Root
        <4>1. s = "done"  BY <2>4, <3>1 DEF Inv
        <4>. QED  BY <3>1, <4>1 DEF FinalizeNode
      <3>2. CASE n # Root
        BY <2>4, <3>2 DEF Inv
      <3>. QED  BY <3>1, <3>2
    <2>. HIDE DEF closed, st
    <2>5. Settle(closed, st, pending)
      BY <2>1 DEF closed, st
    <2>. QED  BY <1>1, <2>3, <2>4, <2>5, SettleKeepsInv
  <1>. QED  BY <1>2, <1>3

LEMMA BrowseKeepsInv ==
  ASSUME Inv, NEW n \in Nodes, NEW found, HandleBrowse(n, found)
  PROVE  Inv'
  <1>. USE WalkAssumption DEF WalkAssumption
  <1>. DEFINE kids == NewChildren(found)
  <1>1. Alive /\ status[n] = "browsing"
    BY Zenon DEF HandleBrowse
  <1>2. PICK begin \in [kids -> Statuses] :
          LET open == {k \in kids : begin[k] # "done"}
              st == [m \in Nodes |-> IF m \in kids THEN begin[m]
                                     ELSE IF m = n THEN "waiting" ELSE status[m]]
          IN Settle(IF open = {} THEN FinalizeNode(n) ELSE {}, st,
                    [pending EXCEPT ![n] = Cardinality(open)])
    BY Zenon DEF HandleBrowse
  <1>3. Root \notin kids
    BY <1>1 DEF NewChildren, Inv
  <1>. DEFINE open == {k \in kids : begin[k] # "done"}
              closed == IF open = {} THEN FinalizeNode(n) ELSE {}
              st == [m \in Nodes |-> IF m \in kids THEN begin[m]
                                     ELSE IF m = n THEN "waiting" ELSE status[m]]
              pend == [pending EXCEPT ![n] = Cardinality(open)]
  <1>4. st \in [Nodes -> Statuses]
    BY DEF Inv, Statuses
  <1>5. st[Root] # "none" /\ (st[Root] = "done" => status[Root] = "done")
    BY <1>1, <1>3 DEF Inv
  <1>6. Settle(closed, st, pend)
    BY <1>2, Zenon
  <1>. HIDE DEF kids, open, closed, st, pend
  <1>. QED  BY <1>1, <1>4, <1>5, <1>6, SettleKeepsInv

LEMMA TimeoutKeepsInv == ASSUME Inv, Timeout PROVE Inv'
  <1>1. Alive /\ EmitResult(status, FALSE) /\ status' = status
    BY DEF Timeout, treeVars, Alive
  <1>2. stage' = "finished" /\ reports' = 1
    BY <1>1, EmitCounts DEF Inv
  <1>. QED  BY <1>1, <1>2 DEF Inv, ReportedOnce, Stages

LEMMA DeletedKeepsInv == ASSUME Inv, Deleted PROVE Inv'
  BY DEF Deleted, treeVars, Inv, ReportedOnce, Stages, Alive

(* Every step of the walk keeps the invariant.                              *)
LEMMA NextKeepsInv == ASSUME Inv, [Next]_vars PROVE Inv'
  <1>1. CASE UNCHANGED vars
    BY <1>1 DEF vars, treeVars, Inv, ReportedOnce, Alive
  <1>2. CASE Start
    BY <1>2, StartKeepsInv
  <1>3. CASE Answer
    BY <1>3, AttributesKeepInv, BrowseKeepsInv DEF Answer
  <1>4. CASE Timeout
    BY <1>4, TimeoutKeepsInv
  <1>5. CASE Deleted
    BY <1>5, DeletedKeepsInv
  <1>. QED  BY <1>1, <1>2, <1>3, <1>4, <1>5 DEF Next

(* "Emitted once when the subtree is assembled" (clonebrowser.h): on every     *)
(* server, however its answers come, a walk is reported at most once, and its *)
(* root is never settled without the report.                                *)
THEOREM WalkReportedOnce == Spec => []ReportedOnce
  <1>1. Init => Inv
    BY InitInv
  <1>2. Inv /\ [Next]_vars => Inv'
    BY NextKeepsInv
  <1>3. Inv => ReportedOnce
    BY DEF Inv
  <1>. QED  BY <1>1, <1>2, <1>3, PTL DEF Spec

-----------------------------------------------------------------------------
(* The nodes I of a walk form a tree with root r: up[n] is the chain above n and   *)
(* by[n] the last of it.  N is whatever I is taken from.                      *)
TreeOK(N, r, I, by, up) ==
  /\ IsFiniteSet(N) /\ I \subseteq N /\ (I # {} => r \in I)
  /\ by[r] \notin N /\ up[r] = {}
  /\ \A n \in N : up[n] \subseteq I
  /\ \A n \in I \ {r} : by[n] \in I /\ up[n] = up[by[n]] \cup {by[n]}
  /\ \A n \in I : n \notin up[n] /\ \A a \in up[n] : up[a] \subseteq up[n]
  /\ \A n \in I : \A a, b \in up[n] : a = b \/ a \in up[b] \/ b \in up[a]
  /\ \A n \in I : \A a \in up[n] : \E b \in up[n] \cup {n} : b # r /\ by[b] = a

(* New children of one node keep the tree.                                   *)
LEMMA TreeGrows ==
  ASSUME NEW N, NEW r, NEW I, NEW by, NEW up \in [N -> SUBSET N],
         TreeOK(N, r, I, by, up), NEW n \in I, NEW kids \in SUBSET (N \ I), NEW nby, NEW nup,
         \A k \in N : /\ nby[k] = (IF k \in kids THEN n ELSE by[k])
                          /\ nup[k] = (IF k \in kids THEN up[n] \cup {n} ELSE up[k])
  PROVE  TreeOK(N, r, I \cup kids, nby, nup)
  <1>. DEFINE J == I \cup kids
  <1>1. /\ I \subseteq N /\ r \in I /\ n \in N /\ r \notin kids
        /\ r \in N /\ kids \cap I = {}
    BY DEF TreeOK
  <1>2. /\ \A k \in kids : nby[k] = n /\ nup[k] = up[n] \cup {n}
        /\ \A k \in N \ kids : nby[k] = by[k] /\ nup[k] = up[k]
        /\ \A k \in N : up[k] \subseteq I
        /\ \A k \in I : nby[k] = by[k] /\ nup[k] = up[k]
    BY <1>1 DEF TreeOK
  <1>. HIDE DEF J
  <1>3. J \subseteq N /\ r \in J /\ I \subseteq J
    BY <1>1 DEF J
  <1>4. nby[r] \notin N /\ nup[r] = {}
    BY <1>1, <1>2 DEF TreeOK
  <1>5. \A k \in N : nup[k] \subseteq J
    BY <1>1, <1>2, <1>3
  <1>6. \A k \in J \ {r} : nby[k] \in J /\ nup[k] = nup[nby[k]] \cup {nby[k]}
    <2>. SUFFICES ASSUME NEW k \in J \ {r}
                  PROVE  nby[k] \in J /\ nup[k] = nup[nby[k]] \cup {nby[k]}
      OBVIOUS
    <2>1. CASE k \in kids
      BY <1>1, <1>2, <1>3, <2>1
    <2>2. CASE k \in I
      <3>1. by[k] \in I /\ up[k] = up[by[k]] \cup {by[k]}
        BY <2>2 DEF TreeOK
      <3>. QED  BY <1>1, <1>2, <1>3, <2>2, <3>1
    <2>. QED  BY <2>1, <2>2 DEF J
  <1>7. \A k \in J : k \notin nup[k] /\ \A a \in nup[k] : nup[a] \subseteq nup[k]
    <2>. SUFFICES ASSUME NEW k \in J
                  PROVE  k \notin nup[k] /\ \A a \in nup[k] : nup[a] \subseteq nup[k]
      OBVIOUS
    <2>1. CASE k \in kids
      <3>1. nup[k] = up[n] \cup {n} /\ \A a \in up[n] \cup {n} : a \in I /\ nup[a] = up[a]
        BY <1>1, <1>2, <2>1
      <3>2. \A a \in up[n] : up[a] \subseteq up[n]
        BY DEF TreeOK
      <3>. QED  BY <1>1, <2>1, <3>1, <3>2
    <2>2. CASE k \in I
      <3>1. nup[k] = up[k] /\ \A a \in up[k] : nup[a] = up[a]
        BY <1>1, <1>2, <2>2
      <3>. QED  BY <2>2, <3>1 DEF TreeOK
    <2>. QED  BY <2>1, <2>2 DEF J
  <1>8. \A k \in J : \A a, b \in nup[k] : a = b \/ a \in nup[b] \/ b \in nup[a]
    <2>. SUFFICES ASSUME NEW k \in J, NEW a \in nup[k], NEW b \in nup[k]
                  PROVE  a = b \/ a \in nup[b] \/ b \in nup[a]
      OBVIOUS
    <2>1. CASE k \in kids
      <3>1. a \in up[n] \cup {n} /\ b \in up[n] \cup {n} /\ nup[a] = up[a] /\ nup[b] = up[b]
        BY <1>1, <1>2, <2>1
      <3>2. a \in up[n] /\ b \in up[n] => a = b \/ a \in up[b] \/ b \in up[a]
        BY DEF TreeOK
      <3>. QED  BY <3>1, <3>2
    <2>2. CASE k \in I
      <3>1. a \in up[k] /\ b \in up[k] /\ nup[a] = up[a] /\ nup[b] = up[b]
        BY <1>1, <1>2, <2>2
      <3>. QED  BY <2>2, <3>1 DEF TreeOK
    <2>. QED  BY <2>1, <2>2 DEF J
  <1>9. \A k \in J : \A a \in nup[k] : \E b \in nup[k] \cup {k} : b # r /\ nby[b] = a
    <2>. SUFFICES ASSUME NEW k \in J, NEW a \in nup[k]
                  PROVE  \E b \in nup[k] \cup {k} : b # r /\ nby[b] = a
      OBVIOUS
    <2>1. CASE k \in kids
      <3>1. nup[k] = up[n] \cup {n} /\ nby[k] = n /\ k # r
        BY <1>1, <1>2, <2>1
      <3>2. CASE a = n
        BY <3>1, <3>2
      <3>3. CASE a \in up[n]
        <4>1. PICK b \in up[n] \cup {n} : b # r /\ by[b] = a
          BY <3>3 DEF TreeOK
        <4>2. nby[b] = by[b]
          BY <1>1, <1>2
        <4>. QED  BY <3>1, <4>1, <4>2
      <3>. QED  BY <3>1, <3>2, <3>3
    <2>2. CASE k \in I
      <3>1. a \in up[k] /\ nup[k] = up[k]
        BY <1>2, <2>2
      <3>2. PICK b \in up[k] \cup {k} : b # r /\ by[b] = a
        BY <2>2, <3>1 DEF TreeOK
      <3>3. nby[b] = by[b]
        BY <1>1, <1>2, <2>2
      <3>. QED  BY <3>1, <3>2, <3>3
    <2>. QED  BY <2>1, <2>2 DEF J
  <1>10. TreeOK(N, r, J, nby, nup)
    BY <1>3, <1>4, <1>5, <1>6, <1>7, <1>8, <1>9 DEF TreeOK
  <1>. QED  BY <1>10 DEF J

-----------------------------------------------------------------------------
(* The children of m that are not settled.                                  *)
Open(I, by, st, m) == {c \in I : by[c] = m /\ st[c] # "done"}
ClosedBelow(closed, by, m) == {c \in closed : by[c] = m}

(* What is waited for below m is what is open there.                        *)
Exact(I, by, st, pend) ==
  \A m \in I : /\ pend[m] = Cardinality(Open(I, by, st, m))
               /\ st[m] = "waiting" <=> pend[m] > 0

(* Which are finitely many.                                                *)
LEMMA OpenIsFinite ==
  ASSUME NEW N, IsFiniteSet(N), NEW I \in SUBSET N, NEW by, NEW st, NEW m
  PROVE  IsFiniteSet(Open(I, by, st, m)) /\ Cardinality(Open(I, by, st, m)) \in Nat
  <1>1. Open(I, by, st, m) \in SUBSET N
    BY DEF Open
  <1>. QED  BY <1>1, FS_Subset, FS_CardinalityType

(* Where every node waits for what is open below it, a settled root leaves     *)
(* nothing open: an open node highest in the tree would be waited for.       *)
LEMMA RootSettlesAll ==
  ASSUME NEW N, NEW r, NEW I, NEW by, NEW up \in [N -> SUBSET N],
         NEW st \in [N -> Statuses], NEW pend, TreeOK(N, r, I, by, up), Exact(I, by, st, pend),
         st[r] = "done"
  PROVE  \A x \in I : st[x] = "done"
  <1>. SUFFICES ASSUME NEW w \in I, st[w] # "done" PROVE FALSE
    OBVIOUS
  <1>1. I \subseteq N /\ IsFiniteSet(N)
    BY DEF TreeOK
  <1>. DEFINE H == {up[y] : y \in {y \in I : st[y] # "done"}}
  <1>2. IsWellFoundedOn(StrictSubsetOrdering(N), FiniteSubsetsOf(N))
    BY FS_StrictSubsetOrderingWellFounded
  <1>3. H \subseteq FiniteSubsetsOf(N) /\ H # {}
    BY <1>1, FS_Subset DEF FiniteSubsetsOf
  <1>. HIDE DEF H
  <1>4. PICK h \in H : \A k \in H : <<k, h>> \notin StrictSubsetOrdering(N)
    BY <1>2, <1>3, WFMin
  <1>5. PICK x \in I : st[x] # "done" /\ h = up[x]
    BY <1>4 DEF H
  <1>6. x # r /\ by[x] \in I /\ up[x] = up[by[x]] \cup {by[x]}
    BY <1>5 DEF TreeOK
  <1>7. x \in Open(I, by, st, by[x])
    BY <1>5 DEF Open
  <1>8. st[by[x]] = "waiting"
    <2>1. /\ IsFiniteSet(Open(I, by, st, by[x])) /\ Cardinality(Open(I, by, st, by[x])) \in Nat
          /\ Cardinality(Open(I, by, st, by[x])) # 0
      BY <1>1, <1>7, OpenIsFinite, FS_EmptySet
    <2>. QED  BY <1>6, <2>1 DEF Exact
  <1>9. by[x] \notin up[by[x]]
    BY <1>6 DEF TreeOK
  <1>10. up[by[x]] \in H
    BY <1>6, <1>8 DEF H
  <1>11. <<up[by[x]], up[x]>> \in StrictSubsetOrdering(N)
    BY <1>1, <1>6, <1>9 DEF StrictSubsetOrdering
  <1>. QED  BY <1>4, <1>5, <1>10, <1>11

(* finalizeNode(n), and what the walk is in then: n waits for nothing, every     *)
(* other node for exactly what is open below it, and n is settled with every   *)
(* ancestor for which it was the last to wait for.                           *)
Settles(N, r, I, by, up, st, pend, n, closed, nst, npend) ==
  /\ up \in [N -> SUBSET N]
  /\ st \in [N -> Statuses] /\ pend \in [N -> Nat] /\ TreeOK(N, r, I, by, up)
  /\ n \in I /\ st[n] # "done" /\ pend[n] = 0
  /\ \A m \in I : pend[m] = Cardinality(Open(I, by, st, m))
  /\ \A m \in I \ {n} : st[m] = "waiting" <=> pend[m] > 0
  /\ n \in closed /\ closed \subseteq up[n] \cup {n}
  /\ \A a \in up[n] : a \in closed <=> \A b \in up[n] : a = b \/ a \in up[b] => pend[b] = 1
  /\ nst \in [N -> Statuses]
  /\ \A m \in N : nst[m] = (IF m \in closed THEN "done" ELSE st[m])
  /\ npend = [m \in N |-> npend[m]]
  /\ \A m \in N : npend[m] = pend[m] - Cardinality(ClosedBelow(closed, by, m))

(* Then every node waits for exactly what stays open below it.               *)
LEMMA SettleExact ==
  ASSUME NEW N, NEW r, NEW I, NEW by, NEW up, NEW st, NEW pend, NEW n, NEW closed, NEW nst, NEW npend,
         Settles(N, r, I, by, up, st, pend, n, closed, nst, npend)
  PROVE  /\ npend \in [N -> Nat]
         /\ closed \subseteq I
         /\ Exact(I, by, nst, npend)
         /\ \A m \in closed \ {n} : st[m] = "waiting"
         /\ \A m \in N \ I : npend[m] = pend[m]
  <1>. USE DEF Settles
  <1>1. I \subseteq N /\ up[n] \subseteq I /\ n \in N /\ n \notin up[n] /\ IsFiniteSet(N)
    BY DEF TreeOK
  <1>2. closed \subseteq I
    BY <1>1
  <1>4. \A m \in I : pend[m] \in Nat /\ npend[m] = pend[m] - Cardinality(ClosedBelow(closed, by, m))
                     /\ nst[m] = (IF m \in closed THEN "done" ELSE st[m])
    BY <1>1
  <1>5. \A a \in closed : st[a] # "done" /\ (a # n => pend[a] = 1 /\ a \in up[n])
    <2>. SUFFICES ASSUME NEW a \in closed, a # n
                  PROVE  st[a] # "done" /\ pend[a] = 1 /\ a \in up[n]
      OBVIOUS
    <2>1. a \in up[n] /\ pend[a] = 1
      OBVIOUS
    <2>. QED  BY <1>1, <2>1
  <1>6. \A m \in N : ClosedBelow(closed, by, m) \subseteq Open(I, by, st, m)
    BY <1>2, <1>5 DEF Open, ClosedBelow
  <1>7. \A m \in I : Open(I, by, nst, m) = Open(I, by, st, m) \ ClosedBelow(closed, by, m)
    BY <1>1, <1>4 DEF Open, ClosedBelow
  <1>8. \A m \in I : /\ npend[m] = Cardinality(Open(I, by, nst, m)) /\ npend[m] \in Nat
                     /\ IsFiniteSet(ClosedBelow(closed, by, m))
    <2>. SUFFICES ASSUME NEW m \in I
                  PROVE  /\ npend[m] = Cardinality(Open(I, by, nst, m)) /\ npend[m] \in Nat
                         /\ IsFiniteSet(ClosedBelow(closed, by, m))
      OBVIOUS
    <2>. DEFINE K == ClosedBelow(closed, by, m)
                O == Open(I, by, st, m)
    <2>1. IsFiniteSet(O) /\ K \subseteq O /\ O \cap K = K /\ Open(I, by, nst, m) = O \ K
      BY <1>1, <1>6, <1>7, OpenIsFinite
    <2>. HIDE DEF K, O
    <2>20. IsFiniteSet(O \ K) /\ Cardinality(O \ K) = Cardinality(O) - Cardinality(O \cap K)
      BY <2>1, FS_Difference
    <2>2. IsFiniteSet(O \ K) /\ Cardinality(O \ K) = Cardinality(O) - Cardinality(K)
      BY <2>1, <2>20, Zenon
    <2>3. Cardinality(O \ K) \in Nat /\ IsFiniteSet(K)
      BY <2>1, <2>2, FS_CardinalityType, FS_Subset
    <2>4. pend[m] = Cardinality(O)
      BY DEF O
    <2>. QED  BY <1>4, <2>1, <2>2, <2>3, <2>4 DEF K
  <1>9. \A m \in N \ I : npend[m] = pend[m]
    <2>. SUFFICES ASSUME NEW m \in N \ I PROVE npend[m] = pend[m]
      OBVIOUS
    <2>1. ClosedBelow(closed, by, m) = {}
      <3>1. \A c \in I : by[c] \in I \/ by[c] \notin N
        BY DEF TreeOK
      <3>. QED  BY <1>1, <1>2, <3>1 DEF ClosedBelow
    <2>2. Cardinality(ClosedBelow(closed, by, m)) = 0
      BY <2>1, FS_EmptySet
    <2>3. npend[m] = pend[m] - 0 /\ pend[m] \in Nat
      BY <2>2
    <2>. QED  BY <2>3
  <1>91. npend \in [N -> Nat]
    <2>1. \A m \in N : npend[m] \in Nat
      BY <1>8, <1>9
    <2>2. npend = [m \in N |-> npend[m]]
      OBVIOUS
    <2>. QED  BY ONLY <2>1, <2>2
  <1>92. \A m \in closed \ {n} : st[m] = "waiting"
    BY <1>2, <1>5
  <1>10. \A m \in I : nst[m] = "waiting" <=> npend[m] > 0
    <2>. SUFFICES ASSUME NEW m \in I PROVE nst[m] = "waiting" <=> npend[m] > 0
      OBVIOUS
    <2>. DEFINE K == ClosedBelow(closed, by, m)
    <2>0. \A c \in I : by[c] = m => c # r /\ up[c] = up[m] \cup {m}
      BY <1>1 DEF TreeOK
    <2>00. m \notin up[m] /\ \A a \in up[m] : up[a] \subseteq up[m]
      BY DEF TreeOK
    <2>1. CASE m \in closed
      <3>1. nst[m] = "done"
        BY <1>4, <2>1
      <3>2. CASE m = n
        <4>1. Cardinality(K) \in Nat
          BY <1>8, FS_CardinalityType
        <4>2. npend[m] = 0 - Cardinality(K) /\ npend[m] \in Nat
          BY <1>4, <1>8, <3>2
        <4>3. npend[m] = 0
          BY <4>1, <4>2
        <4>. QED  BY <3>1, <4>3
      <3>3. CASE m # n
        <4>1. m \in up[n] /\ pend[m] = 1
              /\ \A b \in up[n] : m \in up[b] => pend[b] = 1
          BY <2>1, <3>3
        <4>2. PICK b \in up[n] \cup {n} : b # r /\ by[b] = m
          BY <4>1 DEF TreeOK
        <4>3. b \in I /\ m \in up[b]
          BY <1>1, <2>0, <4>2
        <4>4. b \in closed
          <5>1. CASE b = n
            BY <5>1
          <5>2. CASE b \in up[n]
            <6>1. pend[b] = 1
              BY <4>1, <4>3, <5>2
            <6>2. ASSUME NEW d \in up[n], b \in up[d] PROVE pend[d] = 1
              <7>1. up[b] \subseteq up[d]
                BY <1>1, <6>2 DEF TreeOK
              <7>. QED  BY <4>1, <4>3, <7>1
            <6>. QED  BY <5>2, <6>1, <6>2
          <5>. QED  BY <4>2, <5>1, <5>2
        <4>5. b \in K
          BY <4>2, <4>4 DEF ClosedBelow
        <4>6. Cardinality(K) # 0 /\ Cardinality(K) \in Nat
          BY <1>8, <4>5, FS_EmptySet, FS_CardinalityType
        <4>7. npend[m] = 1 - Cardinality(K) /\ npend[m] \in Nat
          BY <1>4, <1>8, <4>1
        <4>8. npend[m] = 0
          BY <4>6, <4>7
        <4>. QED  BY <3>1, <4>8
      <3>. QED  BY <3>2, <3>3
    <2>2. CASE m \notin closed
      <3>1. nst[m] = st[m] /\ m # n
        BY <1>4, <2>2
      <3>2. CASE K = {}
        <4>0. Cardinality(K) = 0 /\ pend[m] \in Nat
          BY <1>4, <3>2, FS_EmptySet
        <4>00. npend[m] = pend[m] - Cardinality(K)
          BY <1>4, Zenon
        <4>1. npend[m] = pend[m]
          <5>. HIDE DEF K
          <5>. QED  BY <4>0, <4>00
        <4>. QED  BY <3>1, <4>1
      <3>3. CASE K # {}
        <4>1. PICK c : c \in closed /\ by[c] = m
          BY <3>3 DEF ClosedBelow
        <4>2. c \in I /\ c \in N /\ c \in up[n] \cup {n} /\ up[c] = up[m] \cup {m} /\ m \in up[n]
          <5>1. c \in I /\ c \in up[n] \cup {n} /\ up[c] = up[m] \cup {m}
            BY <1>2, <1>5, <2>0, <4>1
          <5>2. up[c] \subseteq up[n]
            BY <5>1 DEF TreeOK
          <5>. QED  BY <1>1, <5>1, <5>2
        <4>3. PICK b \in up[n] : (m = b \/ m \in up[b]) /\ pend[b] # 1
          BY <2>2, <3>1, <4>2
        <4>4. b \in I /\ (b = m \/ b = c \/ b \in up[c] \/ c \in up[b])
          BY <1>1, <4>2, <4>3 DEF TreeOK
        <4>5. b = m
          <5>1. CASE b = c \/ c \in up[b]
            <6>1. c # n
              BY <1>1, <4>3, <4>4, <5>1 DEF TreeOK
            <6>2. pend[b] = 1
              BY <4>1, <4>3, <5>1, <6>1
            <6>. QED  BY <4>3, <6>2
          <5>2. CASE b \in up[c]
            <6>1. b \in up[m] => up[b] \subseteq up[m]
              BY <2>00
            <6>. QED  BY <2>00, <4>2, <4>3, <5>2, <6>1
          <5>. QED  BY <4>4, <5>1, <5>2
        <4>6. \A d \in K : d = c
          <5>. SUFFICES ASSUME NEW d \in K PROVE d = c
            OBVIOUS
          <5>1. d \in I /\ d \in up[n] \cup {n} /\ up[d] = up[m] \cup {m} /\ by[d] = m
            BY <1>2, <1>5, <2>0 DEF ClosedBelow
          <5>2. d = c \/ d \in up[c] \/ c \in up[d]
            BY <4>2, <5>1 DEF TreeOK
          <5>3. m \in up[d] /\ m \in up[c] /\ d # m /\ c # m
            <6>1. d \notin up[d] /\ c \notin up[c]
              BY <4>2, <5>1 DEF TreeOK
            <6>. QED  BY <4>2, <5>1, <6>1
          <5>. QED  BY <2>00, <4>2, <5>1, <5>2, <5>3
        <4>7. K = {c}
          BY <4>1, <4>6 DEF ClosedBelow
        <4>8. c \in Open(I, by, st, m)
          BY <1>1, <1>6, <4>1 DEF ClosedBelow
        <4>9. pend[m] # 0 /\ pend[m] # 1 /\ pend[m] \in Nat
          BY <1>1, <4>3, <4>5, <4>8, OpenIsFinite, FS_EmptySet
        <4>100. Cardinality(K) = 1
          BY <4>7, FS_Singleton
        <4>10. npend[m] = pend[m] - 1
          BY <1>4, <4>100
        <4>. QED  BY <3>1, <4>9, <4>10
      <3>. QED  BY <3>2, <3>3
    <2>. QED  BY <2>1, <2>2
  <1>11. Exact(I, by, nst, npend)
    BY <1>8, <1>10 DEF Exact
  <1>. QED  BY <1>2, <1>9, <1>91, <1>92, <1>11

-----------------------------------------------------------------------------
(* The invariant: the work nodes form a tree, each waits for exactly what is   *)
(* open below it, a node whose browse was answered has its references among    *)
(* the work nodes unless the walk says why not, and a report of a whole walk   *)
(* is of nodes that are all settled and will not change.                     *)
Browsed ==
  ~truncated /\ ~failed =>
    \A m \in Items(status) :
      status[m] \in {"waiting", "done"} /\ Depth(m) < MaxDepth => refs[m] \subseteq Items(status)

WholeReported ==
  report # None /\ report.whole =>
    /\ \A m \in Items(status) : status[m] = "done"
    /\ report.nodes = Items(status) \ {Root}
    /\ report.truncated = truncated

TreeInv ==
  /\ refs \in [Nodes -> SUBSET Nodes]
  /\ parent \in [Nodes -> Nodes \cup {None}] /\ above \in [Nodes -> SUBSET Nodes]
  /\ TreeOK(Nodes, Root, Items(status), parent, above)
  /\ \A m \in Nodes \ Items(status) : parent[m] = None /\ pending[m] = 0

WalkInv ==
  /\ Inv /\ TreeInv
  /\ stage = "new" => Items(status) = {} /\ report = None
  /\ received \in [Nodes -> SUBSET Parts] /\ pending \in [Nodes -> Nat]
  /\ truncated \in BOOLEAN /\ failed \in BOOLEAN
  /\ Exact(Items(status), parent, status, pending)
  /\ \A m \in Items(status) : status[m] \in {"reading", "browsing"} => Children(m) = {}
  /\ CapHolds /\ Browsed /\ WholeReported

-----------------------------------------------------------------------------
(* The walk just before finalizeNode(n): the work nodes J are a tree, base has   *)
(* their statuses with n still open, and only of n is anything new.          *)
Ready(n, J, by, up, base, st, pend) ==
  /\ n \in Items(status) /\ status[n] # "done" /\ Items(status) \subseteq J
  /\ by \in [Nodes -> Nodes \cup {None}] /\ up \in [Nodes -> SUBSET Nodes]
  /\ TreeOK(Nodes, Root, J, by, up)
  /\ \A m \in Items(status) : by[m] = parent[m] /\ up[m] = above[m]
  /\ base \in [Nodes -> Statuses] /\ st \in [Nodes -> Statuses]
  /\ base[n] # "done" /\ \A m \in Nodes \ {n} : base[m] = st[m]
  /\ Items(base) = J /\ Items(st) = J
  /\ pend \in [Nodes -> Nat] /\ \A m \in Items(status) \ {n} : pend[m] = pending[m]
  /\ pend[n] = 0
  /\ \A m \in J : pend[m] = Cardinality(Open(J, by, base, m))
  /\ \A m \in J \ {n} : base[m] = "waiting" <=> pend[m] > 0

(* Settling it leaves every count exact, and a report made by it is of a whole   *)
(* walk.                                                                   *)
LEMMA SettleKeepsWalk ==
  ASSUME WalkInv, Alive, NEW n, NEW J, NEW by, NEW up, NEW base, NEW st, NEW pend,
         Ready(n, J, by, up, base, st, pend),
         parent' = by, Settle(FinalizeNode(n), st, pend)
  PROVE  /\ FinalizeNode(n) \subseteq Items(status)
         /\ Items(status') = J /\ pending' \in [Nodes -> Nat]
         /\ Exact(J, by, status', pending')
         /\ \A m \in FinalizeNode(n) \ {n} : base[m] = "waiting"
         /\ \A m \in Nodes \ J : pending'[m] = pend[m]
         /\ status' = [m \in Nodes |-> IF m \in FinalizeNode(n) THEN "done" ELSE st[m]]
         /\ WholeReported'
  <1>. USE DEF Ready
  <1>1. /\ Items(status) \subseteq Nodes /\ n \in Nodes /\ above[n] \subseteq Items(status)
        /\ n \notin above[n] /\ up[n] = above[n]
    BY DEF WalkInv, TreeInv, TreeOK, Items
  <1>0. /\ by \in [Nodes -> Nodes \cup {None}] /\ up \in [Nodes -> SUBSET Nodes]
        /\ TreeOK(Nodes, Root, J, by, up) /\ base \in [Nodes -> Statuses] /\ pend \in [Nodes -> Nat]
    OBVIOUS
  <1>. DEFINE closed == FinalizeNode(n)
  <1>2. closed = {n} \cup {a \in up[n] : \A b \in up[n] : a = b \/ a \in up[b] => pend[b] = 1}
    <2>1. \A b \in above[n] : pend[b] = pending[b] /\ up[b] = above[b]
      BY <1>1
    <2>. QED  BY <1>1, <2>1 DEF FinalizeNode
  <1>. HIDE DEF closed
  <1>3. closed \subseteq Items(status) /\ n \in closed
    BY <1>1, <1>2
  <1>. DEFINE npend == [m \in Nodes |-> pend[m] - Cardinality({c \in closed : by[c] = m})]
              nst   == [m \in Nodes |-> IF m \in closed THEN "done" ELSE base[m]]
  <1>4. status' = nst /\ pending' = npend
    <2>1. /\ status' = [m \in Nodes |-> IF m \in closed THEN "done" ELSE st[m]]
          /\ pending' = [m \in Nodes |-> pend[m] - Cardinality({c \in closed : parent[c] = m})]
      BY Zenon DEF Settle, closed
    <2>2. \A m \in Nodes : {c \in closed : parent[c] = m} = {c \in closed : by[c] = m}
      BY <1>3
    <2>. QED  BY <1>3, <2>1, <2>2
  <1>. HIDE DEF npend, nst
  <1>5. /\ nst \in [Nodes -> Statuses] /\ npend \in [Nodes -> Nat]
        /\ Exact(J, by, nst, npend)
        /\ \A m \in closed \ {n} : base[m] = "waiting"
        /\ \A m \in Nodes \ J : npend[m] = pend[m]
    <2>1. /\ \A m \in Nodes : npend[m] = pend[m] - Cardinality(ClosedBelow(closed, by, m))
          /\ npend = [m \in Nodes |-> npend[m]]
      BY Zenon DEF npend, ClosedBelow
    <2>2. /\ nst \in [Nodes -> Statuses]
          /\ \A m \in Nodes : nst[m] = (IF m \in closed THEN "done" ELSE base[m])
      BY DEF nst, Statuses
    <2>4. /\ n \in closed /\ closed \subseteq up[n] \cup {n}
          /\ \A a \in up[n] : a \in closed <=> \A b \in up[n] : a = b \/ a \in up[b] => pend[b] = 1
      BY <1>1, <1>2
    <2>3. /\ n \in J /\ base[n] # "done" /\ pend[n] = 0
          /\ \A m \in J : pend[m] = Cardinality(Open(J, by, base, m))
          /\ \A m \in J \ {n} : base[m] = "waiting" <=> pend[m] > 0
      OBVIOUS
    <2>5. Settles(Nodes, Root, J, by, up, base, pend, n, closed, nst, npend)
      BY ONLY <1>0, <2>1, <2>2, <2>3, <2>4 DEF Settles
    <2>. QED  BY ONLY <2>2, <2>5, SettleExact
  <1>6. Items(status') = J
    BY <1>1, <1>3, <1>4 DEF Items, nst
  <1>7. status' = [m \in Nodes |-> IF m \in closed THEN "done" ELSE st[m]]
    BY Zenon DEF Settle, closed
  <1>8. WholeReported'
    <2>1. ~(report # None /\ report.whole)
      BY DEF WalkInv, WholeReported
    <2>2. CASE Root \in closed
      <3>1. EmitResult(st, TRUE)
        BY <2>2, Zenon DEF Settle, closed
      <3>2. CASE stage = "finished"
        <4>1. report' = report
          BY <3>1, <3>2 DEF EmitResult
        <4>. QED  BY <2>1, <4>1 DEF WholeReported
      <3>3. CASE stage # "finished"
        <4>1. report'.nodes = J \ {Root} /\ report'.truncated = truncated'
          BY <3>1, <3>3 DEF EmitResult
        <4>2. status'[Root] = "done"
          BY <1>1, <1>3, <1>7, <2>2
        <4>3. \A x \in J : status'[x] = "done"
          <5>1. nst[Root] = "done"
            BY <1>4, <4>2
          <5>2. \A x \in J : nst[x] = "done"
            BY ONLY <1>0, <1>5, <5>1, RootSettlesAll
          <5>. QED  BY <1>4, <5>2
        <4>. QED  BY <1>6, <4>1, <4>3 DEF WholeReported
      <3>. QED  BY <3>2, <3>3
    <2>3. CASE Root \notin closed
      <3>1. report' = report
        BY <2>3, Zenon DEF Settle, closed
      <3>. QED  BY <2>1, <3>1 DEF WholeReported
    <2>. QED  BY <2>2, <2>3
  <1>. QED  BY <1>3, <1>4, <1>5, <1>6, <1>7, <1>8 DEF closed

(* The invariant holds of a walk that was not started, and start() keeps it.   *)
LEMMA InitWalkInv == ASSUME Init PROVE WalkInv
  <1>. USE WalkAssumption DEF WalkAssumption
  <1>1. Inv
    BY InitInv
  <1>2. Items(status) = {} /\ Cardinality({}) = 0
    BY FS_EmptySet DEF Init, Items
  <1>3. TreeInv
    <2>1. TreeOK(Nodes, Root, Items(status), parent, above)
      BY <1>2 DEF Init, TreeOK
    <2>. QED  BY <1>2, <2>1 DEF Init, TreeInv
  <1>4. CapHolds
    BY <1>2 DEF CapHolds
  <1>5. Exact(Items(status), parent, status, pending) /\ Browsed
    BY <1>2 DEF Exact, Browsed
  <1>6. /\ received \in [Nodes -> SUBSET Parts] /\ pending \in [Nodes -> Nat] /\ report = None
        /\ truncated \in BOOLEAN /\ failed \in BOOLEAN
    BY DEF Init
  <1>7. WholeReported
    BY <1>6 DEF WholeReported
  <1>. QED  BY <1>1, <1>2, <1>3, <1>4, <1>5, <1>6, <1>7 DEF WalkInv

LEMMA StartKeepsWalk == ASSUME WalkInv, Start, UNCHANGED refs PROVE WalkInv'
  <1>. USE WalkAssumption DEF WalkAssumption
  <1>1. Inv'
    BY StartKeepsInv DEF WalkInv
  <1>2. PICK s \in Starts(Root, 0) :
          /\ status' = [status EXCEPT ![Root] = s]
          /\ failed' = (s = "done")
          /\ IF s = "done" THEN EmitResult(status', TRUE)
             ELSE stage' = "walking" /\ UNCHANGED <<reports, report>>
    BY Zenon DEF Start
  <1>3. /\ stage = "new" /\ UNCHANGED <<parent, above, received, truncated, pending>>
        /\ Items(status) = {} /\ report = None
    BY DEF Start, WalkInv
  <1>4. s \in {"browsing", "done"} /\ status \in [Nodes -> Statuses]
    BY DEF Starts, BrowseStarts, WalkInv, Inv
  <1>5. status'[Root] = s /\ Items(status') = {Root}
    BY <1>2, <1>3, <1>4 DEF Items
  <1>6. /\ refs' \in [Nodes -> SUBSET Nodes] /\ parent' \in [Nodes -> Nodes \cup {None}]
        /\ above' \in [Nodes -> SUBSET Nodes] /\ received' \in [Nodes -> SUBSET Parts]
        /\ pending' \in [Nodes -> Nat] /\ truncated' \in BOOLEAN /\ failed' \in BOOLEAN
        /\ \A m \in Nodes : parent'[m] = None /\ pending'[m] = 0 /\ above'[m] = {}
    BY <1>2, <1>3 DEF WalkInv, TreeInv, TreeOK
  <1>7. TreeOK(Nodes, Root, {Root}, parent', above')
    BY <1>6 DEF TreeOK
  <1>8. \A m \in Nodes : Open({Root}, parent', status', m) = {}
    BY <1>6 DEF Open
  <1>9. Exact({Root}, parent', status', pending')
    <2>1. Cardinality({}) = 0 /\ Root \in Nodes
      BY FS_EmptySet
    <2>2. pending'[Root] = 0 /\ Open({Root}, parent', status', Root) = {} /\ status'[Root] # "waiting"
      BY <1>4, <1>5, <1>6, <1>8, <2>1
    <2>20. pending'[Root] = Cardinality(Open({Root}, parent', status', Root))
      BY <2>1, <2>2, Zenon
    <2>21. ~(pending'[Root] > 0)
      BY <2>2
    <2>3. pending'[Root] = Cardinality(Open({Root}, parent', status', Root)) /\ ~(pending'[Root] > 0)
      BY <2>20, <2>21
    <2>. QED  BY ONLY <2>2, <2>3, Zenon DEF Exact
  <1>10. CapHolds'
    <2>1. Cardinality({Root}) = 1
      BY FS_Singleton
    <2>. QED  BY <1>5, <2>1 DEF CapHolds
  <1>11. Browsed'
    BY <1>2, <1>4, <1>5 DEF Browsed
  <1>12. WholeReported'
    <2>1. CASE s = "done"
      <3>1. /\ report'.nodes = Items(status') \ {Root} /\ report'.truncated = truncated'
        <4>1. EmitResult(status', TRUE)
          BY <1>2, <2>1, Zenon
        <4>. QED  BY <1>3, <4>1 DEF EmitResult
      <3>. QED  BY <1>5, <2>1, <3>1 DEF WholeReported
    <2>2. CASE s # "done"
      BY <1>2, <1>3, <2>2 DEF WholeReported
    <2>. QED  BY <2>1, <2>2
  <1>13. stage' # "new"
    BY <1>2, <1>3 DEF EmitResult
  <1>14. \A m \in Items(status') : Children(m)' = {}
    BY <1>5, <1>6 DEF Children
  <1>15. TreeInv'
    BY <1>5, <1>6, <1>7 DEF TreeInv
  <1>. QED
    BY <1>1, <1>5, <1>6, <1>9, <1>10, <1>11, <1>12, <1>13, <1>14, <1>15 DEF WalkInv

-----------------------------------------------------------------------------
(* A step that touches no work node keeps the tree and the counts.           *)
LEMMA TreeKept ==
  ASSUME WalkInv, UNCHANGED <<refs, status, parent, above, pending, truncated, failed>>
  PROVE  /\ TreeInv' /\ Exact(Items(status'), parent', status', pending')
         /\ \A m \in Items(status') : status'[m] \in {"reading", "browsing"} => Children(m)' = {}
         /\ CapHolds' /\ Browsed' /\ truncated' \in BOOLEAN /\ failed' \in BOOLEAN
         /\ pending' \in [Nodes -> Nat] /\ Items(status') = Items(status)
  <1>1. \A m : Children(m)' = Children(m) /\ Depth(m)' = Depth(m)
    BY DEF Children, Items, Depth
  <1>2. Items(status') = Items(status)
    BY DEF Items
  <1>3. TreeInv'
    BY <1>2 DEF WalkInv, TreeInv
  <1>4. Exact(Items(status'), parent', status', pending')
    BY <1>2 DEF WalkInv
  <1>5. CapHolds' /\ Browsed'
    BY <1>1, <1>2 DEF WalkInv, CapHolds, Browsed
  <1>. QED  BY <1>1, <1>2, <1>3, <1>4, <1>5 DEF WalkInv

(* Nor does such a step disturb the rest, if it reports no walk as whole.       *)
LEMMA QuietKeepsWalk ==
  ASSUME WalkInv, Inv', UNCHANGED <<refs, status, parent, above, pending, truncated, failed>>,
         received' \in [Nodes -> SUBSET Parts],
         stage' = "new" => stage = "new" /\ report' = report,
         report' = report \/ ~report'.whole
  PROVE  WalkInv'
  <1>1. WholeReported'
    BY DEF WalkInv, WholeReported, Items
  <1>2. stage' = "new" => Items(status') = {} /\ report' = None
    BY DEF WalkInv, Items
  <1>. QED  BY <1>1, <1>2, TreeKept DEF WalkInv

LEMMA TimeoutKeepsWalk == ASSUME WalkInv, Timeout, UNCHANGED refs PROVE WalkInv'
  <1>1. Inv'
    BY TimeoutKeepsInv DEF WalkInv
  <1>2. UNCHANGED treeVars /\ EmitResult(status, FALSE) /\ stage = "walking"
    BY DEF Timeout
  <1>3. stage' = "finished" /\ report'.whole = FALSE
    BY <1>2 DEF EmitResult
  <1>4. /\ UNCHANGED <<refs, status, parent, above, pending, truncated, failed>>
        /\ received' \in [Nodes -> SUBSET Parts]
    BY <1>2 DEF treeVars, WalkInv
  <1>. QED  BY <1>1, <1>3, <1>4, QuietKeepsWalk

LEMMA DeletedKeepsWalk == ASSUME WalkInv, Deleted, UNCHANGED refs PROVE WalkInv'
  <1>1. Inv'
    BY DeletedKeepsInv DEF WalkInv
  <1>2. /\ UNCHANGED <<refs, status, parent, above, pending, truncated, failed, report>>
        /\ received' \in [Nodes -> SUBSET Parts] /\ stage' # "new"
    BY DEF Deleted, treeVars, WalkInv
  <1>. QED  BY <1>1, <1>2, QuietKeepsWalk

LEMMA StutterKeepsWalk == ASSUME WalkInv, UNCHANGED vars PROVE WalkInv'
  <1>1. Inv'
    BY NextKeepsInv DEF WalkInv
  <1>2. /\ UNCHANGED <<refs, status, parent, above, pending, truncated, failed, report, stage>>
        /\ received' \in [Nodes -> SUBSET Parts]
    BY DEF vars, treeVars, WalkInv
  <1>. QED  BY <1>1, <1>2, QuietKeepsWalk

(* The last attribute of a variable: it is browsed, or settled at once.        *)
LEMMA AttributesKeepWalk ==
  ASSUME WalkInv, NEW n \in Nodes, NEW parts \in SUBSET Parts, HandleAttributes(n, parts), UNCHANGED refs
  PROVE  WalkInv'
  <1>. USE WalkAssumption DEF WalkAssumption
  <1>1. Inv'
    BY AttributesKeepInv DEF WalkInv
  <1>2. /\ Alive /\ status[n] = "reading" /\ n \in Items(status)
        /\ UNCHANGED <<parent, above, truncated>>
        /\ received' = [received EXCEPT ![n] = @ \cup parts]
    BY DEF HandleAttributes, Items
  <1>3. received' \in [Nodes -> SUBSET Parts]
    BY <1>2 DEF WalkInv
  <1>4. CASE received'[n] # Parts
    <2>1. UNCHANGED <<stage, status, pending, reports, report, failed>>
      BY <1>4, Zenon DEF HandleAttributes
    <2>. QED  BY <1>1, <1>2, <1>3, <2>1, QuietKeepsWalk
  <1>5. CASE received'[n] = Parts
    <2>1. PICK s \in BrowseStarts(Depth(n)) :
            /\ failed' = (failed \/ (s = "done" /\ Depth(n) < MaxDepth))
            /\ Settle(IF s = "done" THEN FinalizeNode(n) ELSE {},
                      [status EXCEPT ![n] = s], pending)
      BY <1>5, Zenon DEF HandleAttributes
    <2>2. s \in {"browsing", "done"}
      BY DEF BrowseStarts
    <2>. DEFINE st == [status EXCEPT ![n] = s]
    <2>3. /\ st \in [Nodes -> Statuses] /\ st[n] = s
          /\ \A m \in Nodes \ {n} : st[m] = status[m]
          /\ Items(st) = Items(status) /\ status \in [Nodes -> Statuses]
      BY <1>2, <2>2 DEF WalkInv, Inv, Statuses, Items
    <2>4. /\ pending \in [Nodes -> Nat] /\ failed' \in BOOLEAN /\ truncated' \in BOOLEAN
          /\ failed => failed'
      BY <1>2, <2>1 DEF WalkInv
    <2>5. /\ parent \in [Nodes -> Nodes \cup {None}] /\ above \in [Nodes -> SUBSET Nodes]
          /\ TreeOK(Nodes, Root, Items(status), parent, above)
          /\ Exact(Items(status), parent, status, pending)
      BY DEF WalkInv, TreeInv
    <2>6. Children(n) = {}
      BY <1>2 DEF WalkInv
    <2>7. pending[n] = 0
      <3>1. Open(Items(status), parent, status, n) = {}
        BY <2>6 DEF Open, Children
      <3>. QED  BY <1>2, <2>5, <3>1, FS_EmptySet DEF Exact
    <2>. HIDE DEF st
    <2>8. /\ Items(status') = Items(status) /\ pending' \in [Nodes -> Nat]
          /\ Exact(Items(status), parent', status', pending')
          /\ WholeReported'
          /\ \A m \in Items(status) \ {n} : status'[m] # status[m] => status[m] = "waiting" /\ status'[m] = "done"
          /\ status'[n] = s
          /\ \A m \in Nodes \ Items(status) : pending'[m] = pending[m]
      <3>1. CASE s = "done"
        <4>1. Settle(FinalizeNode(n), st, pending)
          BY <2>1, <3>1 DEF st
        <4>2. /\ \A m \in Items(status) : pending[m] = Cardinality(Open(Items(status), parent, status, m))
              /\ \A m \in Items(status) \ {n} : status[m] = "waiting" <=> pending[m] > 0
              /\ status[n] # "done" /\ \A m \in Nodes \ {n} : status[m] = st[m]
          BY <1>2, <2>3, <2>5 DEF Exact
        <4>3. parent' = parent
          BY <1>2
        <4>4. /\ FinalizeNode(n) \subseteq Items(status)
              /\ Items(status') = Items(status) /\ pending' \in [Nodes -> Nat]
              /\ Exact(Items(status), parent, status', pending')
              /\ \A m \in FinalizeNode(n) \ {n} : status[m] = "waiting"
              /\ \A m \in Nodes \ Items(status) : pending'[m] = pending[m]
              /\ status' = [m \in Nodes |-> IF m \in FinalizeNode(n) THEN "done" ELSE st[m]]
              /\ WholeReported'
          <5>1. Ready(n, Items(status), parent, above, status, st, pending)
            BY <1>2, <2>3, <2>4, <2>5, <2>7, <4>2 DEF Ready
          <5>. QED  BY <1>2, <4>1, <4>3, <5>1, SettleKeepsWalk
        <4>5. \A m \in Items(status) : m \in Nodes
          BY DEF Items
        <4>. QED  BY <1>2, <2>3, <3>1, <4>2, <4>3, <4>4, <4>5
      <3>2. CASE s = "browsing"
        <4>1. Settle({}, st, pending)
          BY <2>1, <3>2 DEF st
        <4>2. status' = st
          BY <2>3, <4>1 DEF Settle
        <4>3. pending' = pending
          <5>1. \A m \in Nodes : {c \in {} : parent[c] = m} = {} /\ Cardinality({}) = 0
            BY FS_EmptySet
          <5>2. \A m \in Nodes : pending[m] - 0 = pending[m]
            BY <2>4
          <5>. QED  BY <2>4, <4>1, <5>1, <5>2 DEF Settle
        <4>4. report' = report
          BY <4>1 DEF Settle
        <4>5. \A m : Open(Items(status), parent, status', m) = Open(Items(status), parent, status, m)
          BY <1>2, <2>3, <3>2, <4>2 DEF Open, Items
        <4>6. \A m \in Items(status) : status'[m] = "waiting" <=> status[m] = "waiting"
          BY <1>2, <2>3, <3>2, <4>2 DEF Items
        <4>7. Exact(Items(status), parent', status', pending')
          BY <1>2, <2>5, <4>3, <4>5, <4>6, Zenon DEF Exact
        <4>8. WholeReported'
          <5>1. ~(report # None /\ report.whole)
            BY <1>2 DEF WalkInv, WholeReported
          <5>. QED  BY <4>4, <5>1 DEF WholeReported
        <4>. QED  BY <2>3, <2>4, <3>2, <4>2, <4>3, <4>7, <4>8 DEF Items
      <3>. QED  BY <2>2, <3>1, <3>2
    <2>9. TreeInv'
      BY <1>2, <2>4, <2>5, <2>8 DEF WalkInv, TreeInv
    <2>10. \A m : Children(m)' = Children(m) /\ Depth(m)' = Depth(m)
      BY <1>2, <2>8 DEF Children, Depth
    <2>11. CapHolds'
      BY <2>8, <2>10 DEF WalkInv, CapHolds
    <2>12. Browsed'
      <3>. SUFFICES ASSUME ~truncated', ~failed', NEW m \in Items(status'),
                           status'[m] \in {"waiting", "done"}, Depth(m)' < MaxDepth
                    PROVE  refs'[m] \subseteq Items(status')
        BY DEF Browsed
      <3>1. m # n
        BY <2>1, <2>2, <2>8, <2>10
      <3>2. status[m] \in {"waiting", "done"}
        BY <2>8, <3>1
      <3>. QED  BY <1>2, <2>4, <2>8, <2>10, <3>2 DEF WalkInv, Browsed
    <2>13. \A m \in Items(status') : status'[m] \in {"reading", "browsing"} => Children(m)' = {}
      <3>1. \A m \in Items(status) \ {n} : status'[m] \in {"reading", "browsing"} => status'[m] = status[m]
        BY <2>8
      <3>. QED  BY <2>6, <2>8, <2>10, <3>1 DEF WalkInv
    <2>14. stage' # "new"
      <3>1. stage # "new" /\ stage' \in {stage, "finished"}
        BY <1>2, <2>1 DEF Alive, Settle, EmitResult
      <3>. QED  BY <3>1
    <2>. QED
      BY <1>1, <1>3, <2>4, <2>8, <2>9, <2>11, <2>12, <2>13, <2>14 DEF WalkInv
  <1>. QED  BY <1>4, <1>5

-----------------------------------------------------------------------------
(* What an answer makes of the walk before anything is settled: the work nodes J *)
(* and the tree grow by the new children, n waits for those that did not end    *)
(* at once, and nothing else is waited for that was not before.              *)
Opens(n, kids, begin, open, J, by, up, st, pend) ==
  /\ n \in Nodes /\ status[n] = "browsing" /\ kids \in SUBSET (Nodes \ Items(status))
  /\ begin \in [kids -> {"done", "browsing", "reading"}]
  /\ by = [k \in Nodes |-> IF k \in kids THEN n ELSE parent[k]]
  /\ up = [k \in Nodes |-> IF k \in kids THEN above[n] \cup {n} ELSE above[k]]
  /\ st = [m \in Nodes |-> IF m \in kids THEN begin[m] ELSE IF m = n THEN "waiting" ELSE status[m]]
  /\ open = {k \in kids : begin[k] # "done"}
  /\ pend = [pending EXCEPT ![n] = Cardinality(open)]
  /\ J = Items(status) \cup kids

LEMMA BrowseOpens ==
  ASSUME WalkInv, NEW n, NEW kids, NEW begin, NEW open, NEW J, NEW by, NEW up, NEW st, NEW pend,
         Opens(n, kids, begin, open, J, by, up, st, pend)
  PROVE  /\ n \in Items(status) /\ Items(st) = J
         /\ by \in [Nodes -> Nodes \cup {None}] /\ up \in [Nodes -> SUBSET Nodes]
         /\ TreeOK(Nodes, Root, J, by, up)
         /\ st \in [Nodes -> Statuses] /\ pend \in [Nodes -> Nat]
         /\ st[n] = "waiting" /\ \A k \in kids : k # n /\ st[k] = begin[k]
         /\ \A m \in Items(status) : by[m] = parent[m] /\ up[m] = above[m]
         /\ \A m \in Items(status) \ {n} : st[m] = status[m] /\ pend[m] = pending[m]
         /\ pend[n] = Cardinality(open)
         /\ \A m \in J : pend[m] = Cardinality(Open(J, by, st, m))
         /\ \A m \in J \ {n} : st[m] = "waiting" <=> pend[m] > 0
         /\ \A m \in Nodes \ J : by[m] = None /\ pend[m] = 0
         /\ {c \in J : by[c] = n} = kids
         /\ \A m \in J \ {n} : {c \in J : by[c] = m} = {c \in Items(status) : parent[c] = m}
         /\ \A m \in kids : {c \in J : by[c] = m} = {}
  <1>. USE WalkAssumption DEF WalkAssumption, Opens
  <1>0. kids \in SUBSET (Nodes \ Items(status))
    OBVIOUS
  <1>1. n \in Items(status) /\ Items(status) \subseteq Nodes
    BY DEF Items
  <1>2. /\ status \in [Nodes -> Statuses] /\ pending \in [Nodes -> Nat]
        /\ parent \in [Nodes -> Nodes \cup {None}] /\ above \in [Nodes -> SUBSET Nodes]
        /\ TreeOK(Nodes, Root, Items(status), parent, above) /\ Exact(Items(status), parent, status, pending)
        /\ \A m \in Nodes \ Items(status) : parent[m] = None /\ pending[m] = 0
        /\ \A c \in Items(status) : parent[c] # n
    BY <1>1 DEF WalkInv, TreeInv, Inv, Children
  <1>3. IsFiniteSet(open) /\ Cardinality(open) \in Nat
    <2>1. open \in SUBSET Nodes
      OBVIOUS
    <2>. QED  BY <2>1, FS_Subset, FS_CardinalityType
  <1>4. TreeOK(Nodes, Root, J, by, up)
    <2>1. \A k \in Nodes : /\ by[k] = (IF k \in kids THEN n ELSE parent[k])
                           /\ up[k] = (IF k \in kids THEN above[n] \cup {n} ELSE above[k])
      OBVIOUS
    <2>. QED  BY <1>0, <1>1, <1>2, <2>1, TreeGrows
  <1>5. st \in [Nodes -> Statuses]
    BY <1>2 DEF Statuses
  <1>6. Items(st) = J
    BY <1>1, <1>2 DEF Items
  <1>7. by \in [Nodes -> Nodes \cup {None}] /\ up \in [Nodes -> SUBSET Nodes] /\ pend \in [Nodes -> Nat]
    BY <1>1, <1>2, <1>3
  <1>8. st[n] = "waiting" /\ \A k \in kids : k # n /\ st[k] = begin[k] /\ by[k] = n
    BY <1>1
  <1>9. /\ \A m \in Items(status) : by[m] = parent[m] /\ up[m] = above[m]
        /\ \A m \in Items(status) \ {n} : st[m] = status[m]
        /\ \A m \in Nodes \ {n} : pend[m] = pending[m]
        /\ pend[n] = Cardinality(open)
    BY <1>1, <1>2
  <1>10. \A m \in Nodes \ J : by[m] = None /\ pend[m] = 0
    BY <1>1, <1>2
  <1>11. \A c \in Items(status) : parent[c] \in Items(status) \/ parent[c] \notin Nodes
    BY <1>2 DEF TreeOK
  <1>12. {c \in J : by[c] = n} = kids
    BY <1>2, <1>8, <1>9
  <1>13. \A m \in J \ {n} : {c \in J : by[c] = m} = {c \in Items(status) : parent[c] = m}
    BY <1>8, <1>9, SMTT(30)
  <1>14. \A m \in kids : {c \in J : by[c] = m} = {}
    BY <1>1, <1>8, <1>9, <1>11
  <1>15. Open(J, by, st, n) = open
    BY <1>8, <1>12 DEF Open
  <1>16. \A m \in Items(status) \ {n} : Open(J, by, st, m) = Open(Items(status), parent, status, m)
    <2>. SUFFICES ASSUME NEW m \in Items(status) \ {n}
                  PROVE  Open(J, by, st, m) = Open(Items(status), parent, status, m)
      OBVIOUS
    <2>1. \A c \in kids : by[c] # m
      BY <1>8
    <2>2. \A c \in Items(status) : by[c] = parent[c] /\ (st[c] # "done" <=> status[c] # "done")
      BY <1>1, <1>8, <1>9
    <2>. QED  BY <2>1, <2>2 DEF Open
  <1>17. \A m \in kids : Open(J, by, st, m) = {} /\ pend[m] = 0 /\ st[m] # "waiting"
    <2>1. \A m \in kids : Open(J, by, st, m) = {}
      BY <1>14 DEF Open
    <2>. QED  BY <1>1, <1>2, <1>8, <1>9, <2>1
  <1>18. \A m \in J : pend[m] = Cardinality(Open(J, by, st, m))
    <2>. SUFFICES ASSUME NEW m \in J PROVE pend[m] = Cardinality(Open(J, by, st, m))
      OBVIOUS
    <2>1. CASE m = n
      BY <1>9, <1>15, <2>1
    <2>2. CASE m \in Items(status) \ {n}
      <3>1. pend[m] = pending[m] /\ pending[m] = Cardinality(Open(Items(status), parent, status, m))
        BY <1>1, <1>2, <1>9, <2>2 DEF Exact
      <3>. QED  BY <1>16, <2>2, <3>1
    <2>3. CASE m \in kids
      <3>1. Open(J, by, st, m) = {} /\ pend[m] = 0
        BY <1>17, <2>3
      <3>. QED  BY <3>1, FS_EmptySet
    <2>. QED  BY <2>1, <2>2, <2>3
  <1>19. \A m \in J \ {n} : st[m] = "waiting" <=> pend[m] > 0
    <2>. SUFFICES ASSUME NEW m \in J \ {n} PROVE st[m] = "waiting" <=> pend[m] > 0
      OBVIOUS
    <2>1. CASE m \in Items(status)
      BY <1>1, <1>2, <1>9, <2>1 DEF Exact
    <2>2. CASE m \in kids
      <3>1. pend[m] = 0 /\ st[m] # "waiting"
        BY <1>17, <2>2
      <3>. QED  BY ONLY <3>1
    <2>. QED  BY <2>1, <2>2
  <1>20. n \in Items(status)
    BY <1>1
  <1>21. \A m \in Items(status) \ {n} : st[m] = status[m] /\ pend[m] = pending[m]
    BY <1>1, <1>9
  <1>. QED
    BY ONLY <1>21, <1>4, <1>5, <1>6, <1>7, <1>8, <1>9, <1>10, <1>12, <1>13, <1>14, <1>18, <1>19, <1>20

-----------------------------------------------------------------------------
(* The answer to a browse.                                                   *)
LEMMA BrowseKeepsWalk ==
  ASSUME WalkInv, NEW n \in Nodes, NEW found, found \in {refs[n], {}}, HandleBrowse(n, found),
         UNCHANGED refs
  PROVE  WalkInv'
  <1>. USE WalkAssumption DEF WalkAssumption
  <1>1. Inv'
    BY BrowseKeepsInv DEF WalkInv
  <1>. DEFINE kids == NewChildren(found)
  <1>2. /\ Alive /\ status[n] = "browsing"
        /\ truncated' = (truncated \/ Truncates(found))
        /\ parent' = [k \in Nodes |-> IF k \in kids THEN n ELSE parent[k]]
        /\ above' = [k \in Nodes |-> IF k \in kids THEN above[n] \cup {n} ELSE above[k]]
        /\ received' = received
    BY Zenon DEF HandleBrowse
  <1>3. PICK begin \in [kids -> Statuses] :
          /\ \A k \in kids : begin[k] \in Starts(k, Depth(n) + 1)
          /\ LET open == {k \in kids : begin[k] # "done"}
                 st == [m \in Nodes |-> IF m \in kids THEN begin[m]
                                        ELSE IF m = n THEN "waiting" ELSE status[m]]
             IN /\ failed' = (failed \/ found # refs[n]
                              \/ (open # kids /\ Depth(n) + 1 < MaxDepth))
                /\ Settle(IF open = {} THEN FinalizeNode(n) ELSE {}, st,
                          [pending EXCEPT ![n] = Cardinality(open)])
    BY Zenon DEF HandleBrowse
  <1>4. found \subseteq Nodes
    BY DEF WalkInv, TreeInv
  <1>5. kids \in SUBSET (Nodes \ Items(status))
    BY <1>4 DEF NewChildren, Items
  <1>6. /\ begin \in [kids -> {"done", "browsing", "reading"}]
        /\ \A k \in kids : Depth(n) + 1 >= MaxDepth => begin[k] # "browsing"
    BY <1>3 DEF Starts, BrowseStarts
  <1>7. /\ ~truncated' => ~truncated /\ found \subseteq Items(status) \cup kids
        /\ Cardinality(Items(status)) >= MaxNodes => kids = {}
    BY <1>2, <1>4 DEF Truncates, NewChildren, Full, Items
  <1>. DEFINE open == {k \in kids : begin[k] # "done"}
              st == [m \in Nodes |-> IF m \in kids THEN begin[m]
                                     ELSE IF m = n THEN "waiting" ELSE status[m]]
              pend == [pending EXCEPT ![n] = Cardinality(open)]
              J == Items(status) \cup kids
  <1>8. /\ failed' = (failed \/ found # refs[n] \/ (open # kids /\ Depth(n) + 1 < MaxDepth))
        /\ Settle(IF open = {} THEN FinalizeNode(n) ELSE {}, st, pend)
    BY <1>3, Zenon
  <1>9. open \subseteq kids /\ \A k \in kids : k \in open <=> begin[k] # "done"
    OBVIOUS
  <1>. HIDE DEF kids
  <1>10. /\ n \in Items(status) /\ Items(st) = J
         /\ parent' \in [Nodes -> Nodes \cup {None}] /\ above' \in [Nodes -> SUBSET Nodes]
         /\ TreeOK(Nodes, Root, J, parent', above')
         /\ st \in [Nodes -> Statuses] /\ pend \in [Nodes -> Nat]
         /\ st[n] = "waiting" /\ \A k \in kids : k # n /\ st[k] = begin[k]
         /\ \A m \in Items(status) : parent'[m] = parent[m] /\ above'[m] = above[m]
         /\ \A m \in Items(status) \ {n} : st[m] = status[m] /\ pend[m] = pending[m]
         /\ pend[n] = Cardinality(open)
         /\ \A m \in J : pend[m] = Cardinality(Open(J, parent', st, m))
         /\ \A m \in J \ {n} : st[m] = "waiting" <=> pend[m] > 0
         /\ \A m \in Nodes \ J : parent'[m] = None /\ pend[m] = 0
         /\ {c \in J : parent'[c] = n} = kids
         /\ \A m \in J \ {n} : {c \in J : parent'[c] = m} = {c \in Items(status) : parent[c] = m}
         /\ \A m \in kids : {c \in J : parent'[c] = m} = {}
    <2>1. Opens(n, kids, begin, open, J, parent', above', st, pend)
      BY <1>2, <1>5, <1>6 DEF Opens
    <2>. HIDE DEF open, st, pend, J
    <2>. QED  BY <2>1, BrowseOpens
  <1>11. /\ IsFiniteSet(open) /\ Cardinality(open) \in Nat /\ IsFiniteSet(kids) /\ Cardinality(kids) \in Nat
         /\ IsFiniteSet(Items(status)) /\ Cardinality(Items(status)) \in Nat
         /\ Items(status) \subseteq Nodes
    <2>1. open \in SUBSET Nodes /\ kids \in SUBSET Nodes /\ Items(status) \in SUBSET Nodes
      BY <1>5 DEF Items
    <2>. HIDE DEF open
    <2>. QED  BY <2>1, FS_Subset, FS_CardinalityType
  <1>. HIDE DEF open, st, pend, J
  <1>12. /\ Items(status) \subseteq J /\ kids \subseteq J /\ J = Items(status) \cup kids
         /\ J \subseteq Nodes
    BY <1>5, <1>11 DEF J
  <1>13. /\ Items(status') = J /\ pending' \in [Nodes -> Nat]
         /\ Exact(J, parent', status', pending')
         /\ \A m \in Nodes \ J : pending'[m] = pend[m]
         /\ WholeReported'
         /\ \A m \in Items(status) \ {n} : status'[m] # st[m] => st[m] = "waiting" /\ status'[m] = "done"
         /\ status'[n] \in {"waiting", "done"}
         /\ \A m \in kids : status'[m] = begin[m]
    <2>1. CASE open = {}
      <3>1. Settle(FinalizeNode(n), st, pend)
        BY <1>8, <2>1
      <3>2. pend[n] = 0
        BY <1>10, <2>1, FS_EmptySet
      <3>3. status[n] # "done" /\ st[n] # "done" /\ \A m \in Nodes \ {n} : st[m] = st[m]
        BY <1>2, <1>10
      <3>4. /\ FinalizeNode(n) \subseteq Items(status)
            /\ Items(status') = J /\ pending' \in [Nodes -> Nat]
            /\ Exact(J, parent', status', pending')
            /\ \A m \in FinalizeNode(n) \ {n} : st[m] = "waiting"
            /\ \A m \in Nodes \ J : pending'[m] = pend[m]
            /\ status' = [m \in Nodes |-> IF m \in FinalizeNode(n) THEN "done" ELSE st[m]]
            /\ WholeReported'
        <4>1. Ready(n, J, parent', above', st, st, pend)
          BY <1>10, <1>12, <3>2, <3>3 DEF Ready
        <4>. QED  BY <1>2, <3>1, <4>1, SettleKeepsWalk
      <3>5. n \in FinalizeNode(n)
        BY DEF FinalizeNode
      <3>. QED  BY <1>5, <1>10, <1>11, <3>4, <3>5
    <2>2. CASE open # {}
      <3>1. Settle({}, st, pend)
        BY <1>8, <2>2
      <3>2. status' = st
        BY <1>10, <3>1 DEF Settle
      <3>3. pending' = pend
        <4>1. \A m \in Nodes : {c \in {} : parent[c] = m} = {} /\ Cardinality({}) = 0
          BY FS_EmptySet
        <4>2. \A m \in Nodes : pend[m] - 0 = pend[m]
          BY <1>10
        <4>. QED  BY <1>10, <3>1, <4>1, <4>2 DEF Settle
      <3>4. report' = report
        BY <3>1 DEF Settle
      <3>5. pend[n] > 0
        <4>1. Cardinality(open) # 0
          BY <1>11, <2>2, FS_EmptySet
        <4>. QED  BY <1>10, <1>11, <4>1
      <3>6. Exact(J, parent', status', pending')
        <4>1. \A m \in J : st[m] = "waiting" <=> pend[m] > 0
          BY <1>10, <3>5
        <4>2. \A m \in J : pend[m] = Cardinality(Open(J, parent', st, m))
          BY <1>10
        <4>. QED  BY ONLY <3>2, <3>3, <4>1, <4>2 DEF Exact
      <3>7. WholeReported'
        <4>1. ~(report # None /\ report.whole)
          BY <1>2, <1>10 DEF WalkInv, WholeReported
        <4>. QED  BY <3>4, <4>1 DEF WholeReported
      <3>. QED  BY <1>10, <3>2, <3>3, <3>6, <3>7
    <2>. QED  BY <2>1, <2>2
  <1>14. TreeInv'
    BY <1>10, <1>13 DEF WalkInv, TreeInv
  <1>15. \A m : Children(m)' = {c \in J : parent'[c] = m}
    BY <1>13 DEF Children
  <1>16. \A m \in Items(status') : status'[m] \in {"reading", "browsing"} => Children(m)' = {}
    <2>. SUFFICES ASSUME NEW m \in J, status'[m] \in {"reading", "browsing"}
                  PROVE  {c \in J : parent'[c] = m} = {}
      BY <1>13, <1>15
    <2>1. CASE m \in kids
      BY <1>10, <2>1
    <2>2. CASE m \in Items(status)
      <3>1. m # n /\ status[m] \in {"reading", "browsing"}
        BY <1>10, <1>13, <2>2
      <3>2. {c \in Items(status) : parent[c] = m} = {}
        BY <2>2, <3>1 DEF WalkInv, Children
      <3>3. {c \in J : parent'[c] = m} = {c \in Items(status) : parent[c] = m}
        BY <1>10, <3>1
      <3>. QED  BY <3>2, <3>3
    <2>. QED  BY <1>12, <2>1, <2>2
  <1>17. \A m \in Items(status) : Depth(m)' = Depth(m)
    BY <1>10 DEF Depth
  <1>18. \A k \in kids : Depth(k)' = Depth(n) + 1
    <2>. SUFFICES ASSUME NEW k \in kids PROVE Depth(k)' = Depth(n) + 1
      OBVIOUS
    <2>1. n \notin above[n] /\ above[n] \in SUBSET Nodes
      BY <1>10 DEF WalkInv, TreeInv, TreeOK
    <2>2. IsFiniteSet(above[n])
      BY <2>1, FS_Subset
    <2>3. above'[k] = above[n] \cup {n}
      BY <1>2, <1>5
    <2>4. Cardinality(above[n] \cup {n}) = Cardinality(above[n]) + 1
      BY <2>1, <2>2, FS_AddElement
    <2>. QED  BY <2>3, <2>4 DEF Depth
  <1>19. Browsed'
    <2>. SUFFICES ASSUME ~truncated', ~failed', NEW m \in J,
                         status'[m] \in {"waiting", "done"}, Depth(m)' < MaxDepth
                  PROVE  refs[m] \subseteq J
      BY <1>13 DEF Browsed
    <2>1. ~truncated /\ found \subseteq J /\ ~failed /\ found = refs[n]
          /\ (open # kids => ~(Depth(n) + 1 < MaxDepth))
      BY <1>7, <1>8, <1>12
    <2>2. CASE m = n
      BY <2>1, <2>2
    <2>3. CASE m \in kids
      <3>1. begin[m] = "done"
        BY <1>6, <1>13, <2>3
      <3>2. open # kids
        BY <1>9, <2>3, <3>1
      <3>. QED  BY <1>18, <2>1, <2>3, <3>2
    <2>4. CASE m \in Items(status) \ {n}
      <3>1. status[m] \in {"waiting", "done"} /\ Depth(m) < MaxDepth
        BY <1>10, <1>13, <1>17, <2>4
      <3>. QED  BY <1>12, <2>1, <2>4, <3>1 DEF WalkInv, Browsed
    <2>. QED  BY <1>12, <2>2, <2>3, <2>4
  <1>20. CapHolds'
    <2>1. CASE kids = {}
      <3>1. J = Items(status) /\ \A m \in J : parent'[m] = parent[m]
        BY <1>10, <1>12, <2>1
      <3>2. \A m : Children(m)' = Children(m)
        BY <1>15, <3>1 DEF Children
      <3>. QED  BY <1>13, <3>1, <3>2 DEF WalkInv, CapHolds
    <2>2. CASE kids # {}
      <3>1. ~(Cardinality(Items(status)) >= MaxNodes)
        BY <1>7, <2>2
      <3>2. Cardinality(J) = Cardinality(Items(status)) + Cardinality(kids)
        <4>1. Items(status) \cap kids = {}
          BY <1>5
        <4>2. Cardinality(J) = Cardinality(Items(status)) + Cardinality(kids)
                               - Cardinality(Items(status) \cap kids)
          BY <1>11, <1>12, FS_Union
        <4>3. Cardinality(Items(status) \cap kids) = 0
          BY <4>1, FS_EmptySet
        <4>. QED  BY <1>11, <4>2, <4>3
      <3>3. Children(n)' = kids /\ n \in Items(status')
        BY <1>10, <1>12, <1>13, <1>15
      <3>4. Cardinality(Items(status')) < MaxNodes + Cardinality(Children(n)')
        BY <1>11, <1>13, <3>1, <3>2, <3>3
      <3>. QED  BY <3>3, <3>4 DEF CapHolds
    <2>. QED  BY <2>1, <2>2
  <1>21. stage' # "new"
    BY <1>2, <1>8 DEF Alive, Settle, EmitResult
  <1>22. /\ received' \in [Nodes -> SUBSET Parts] /\ truncated' \in BOOLEAN /\ failed' \in BOOLEAN
    BY <1>2, <1>8 DEF WalkInv, Truncates
  <1>. QED
    BY <1>1, <1>13, <1>14, <1>16, <1>19, <1>20, <1>21, <1>22 DEF WalkInv

(* Every step of the walk keeps the invariant.                              *)
LEMMA NextKeepsWalk == ASSUME WalkInv, [Next]_vars PROVE WalkInv'
  <1>1. CASE UNCHANGED vars
    BY <1>1, StutterKeepsWalk
  <1>2. CASE Start /\ UNCHANGED refs
    BY <1>2, StartKeepsWalk
  <1>3. CASE Answer /\ UNCHANGED refs
    BY <1>3, AttributesKeepWalk, BrowseKeepsWalk DEF Answer
  <1>4. CASE Timeout /\ UNCHANGED refs
    BY <1>4, TimeoutKeepsWalk
  <1>5. CASE Deleted /\ UNCHANGED refs
    BY <1>5, DeletedKeepsWalk
  <1>. QED  BY <1>1, <1>2, <1>3, <1>4, <1>5 DEF Next

(* The invariant says what the property asks.                                *)
LEMMA WalkInvMeansWhole == ASSUME WalkInv PROVE WholeSubtree
  <1>1. TypeOK
    <2>1. reports \in Nat /\ stage \in Stages /\ status \in [Nodes -> Statuses]
      BY DEF WalkInv, Inv, ReportedOnce
    <2>2. /\ \A m \in Items(status) \ {Root} :
               parent[m] \in Items(status) /\ above[m] = above[parent[m]] \cup {parent[m]}
          /\ above[Root] = {}
      BY DEF WalkInv, TreeInv, TreeOK
    <2>. QED  BY <2>1, <2>2 DEF TypeOK, WalkInv, Stages
  <1>2. PendingIsExact
    <2>1. \A m : Open(Items(status), parent, status, m) = {c \in Children(m) : status[c] # "done"}
      BY DEF Open, Children
    <2>. QED  BY <2>1 DEF PendingIsExact, WalkInv, Exact
  <1>3. CapHolds
    BY DEF WalkInv
  <1>4. ASSUME report # None, report.whole
        PROVE  /\ \A n \in Items(status) : status[n] = "done"
               /\ report.nodes = Items(status) \ {Root}
               /\ ~report.truncated /\ ~failed /\ (\A n \in Items(status) : Depth(n) < MaxDepth) =>
                    \A n \in Items(status) : refs[n] \subseteq Items(status)
    <2>1. /\ \A n \in Items(status) : status[n] = "done"
          /\ report.nodes = Items(status) \ {Root} /\ report.truncated = truncated
      BY <1>4 DEF WalkInv, WholeReported
    <2>. QED  BY <2>1 DEF WalkInv, Browsed
  <1>. QED  BY <1>1, <1>2, <1>3, <1>4 DEF WholeSubtree

(* On every server, cycles and shared nodes included, under any caps, and        *)
(* however answers, refusals, repeated emissions and the timeout interleave: a   *)
(* walk that ended by itself has settled every node it made and reports them    *)
(* all, which is the whole subtree unless it says why not; until then each node *)
(* waits for exactly its open children, and no answer takes the walk further    *)
(* past its cap than its own children.                                     *)
THEOREM WholeSubtreeReported == Spec => []WholeSubtree
  <1>1. Init => WalkInv
    BY InitWalkInv
  <1>2. WalkInv /\ [Next]_vars => WalkInv'
    BY NextKeepsWalk
  <1>3. WalkInv => WholeSubtree
    BY WalkInvMeansWhole
  <1>. QED  BY <1>1, <1>2, <1>3, PTL DEF Spec

-----------------------------------------------------------------------------
(* The ReadNodes of a reader: paths from the root, with every path its prefixes. *)
TreePaths(D) ==
  /\ IsFiniteSet(D) /\ D \subseteq Seq(DOMAIN shape)
  /\ D # {} => <<ReadRoot>> \in D
  /\ \A p \in D : Len(p) > 0 /\ p[1] = ReadRoot /\ Chain(p) \subseteq D

Above(D) == [p \in D |-> Chain(p) \ {p}]
Over(D)  == [p \in D |-> ParentOf(p)]

LEMMA ChainMembers ==
  ASSUME NEW S, NEW p \in Seq(S)
  PROVE  \A q : q \in Chain(p) <=> /\ q \in Seq(S) /\ Len(q) \in 1..Len(p)
                                   /\ \A i \in 1..Len(q) : q[i] = p[i]
  <1>1. \A k \in 1..Len(p) : /\ SubSeq(p, 1, k) \in Seq(S) /\ Len(SubSeq(p, 1, k)) = k
                             /\ \A i \in 1..k : SubSeq(p, 1, k)[i] = p[i]
    OBVIOUS
  <1>2. ASSUME NEW q, q \in Chain(p)
        PROVE  q \in Seq(S) /\ Len(q) \in 1..Len(p) /\ \A i \in 1..Len(q) : q[i] = p[i]
    BY <1>1, <1>2 DEF Chain
  <1>3. ASSUME NEW q, q \in Seq(S), Len(q) \in 1..Len(p), \A i \in 1..Len(q) : q[i] = p[i]
        PROVE  q \in Chain(p)
    <2>1. q = SubSeq(p, 1, Len(q))
      BY <1>1, <1>3, SeqEqual
    <2>. QED  BY <1>3, <2>1 DEF Chain
  <1>. QED  BY <1>2, <1>3

LEMMA ParentMembers ==
  ASSUME NEW S, NEW p \in Seq(S), Len(p) > 0
  PROVE  /\ ParentOf(p) \in Seq(S) /\ Len(ParentOf(p)) = Len(p) - 1
         /\ \A i \in 1..(Len(p) - 1) : ParentOf(p)[i] = p[i]
         /\ p \in Chain(p)
         /\ Len(p) > 1 => ParentOf(p) \in Chain(p) /\ Chain(p) = Chain(ParentOf(p)) \cup {p}
  <1>1. /\ ParentOf(p) \in Seq(S) /\ Len(ParentOf(p)) = Len(p) - 1
        /\ \A i \in 1..(Len(p) - 1) : ParentOf(p)[i] = p[i]
    <2>1. ParentOf(p) = SubSeq(p, 1, Len(p) - 1)
      BY DEF ParentOf, Front
    <2>2. Len(p) - 1 \in Nat /\ Len(p) - 1 <= Len(p)
      OBVIOUS
    <2>3. ASSUME NEW k \in Nat, k <= Len(p)
          PROVE  /\ SubSeq(p, 1, k) \in Seq(S) /\ Len(SubSeq(p, 1, k)) = k
                 /\ \A i \in 1..k : SubSeq(p, 1, k)[i] = p[i]
      BY <2>3
    <2>. QED  BY <2>1, <2>2, <2>3
  <1>2. p \in Chain(p)
    BY ChainMembers
  <1>3. ASSUME Len(p) > 1
        PROVE  ParentOf(p) \in Chain(p) /\ Chain(p) = Chain(ParentOf(p)) \cup {p}
    <2>1. ParentOf(p) \in Chain(p)
      BY <1>1, <1>3, ChainMembers
    <2>2. ASSUME NEW q, q \in Chain(p), q # p PROVE q \in Chain(ParentOf(p))
      <3>1. q \in Seq(S) /\ Len(q) \in 1..Len(p) /\ \A i \in 1..Len(q) : q[i] = p[i]
        BY <2>2, ChainMembers
      <3>2. Len(q) # Len(p)
        BY <2>2, <3>1, SeqEqual
      <3>. QED  BY <1>1, <3>1, <3>2, ChainMembers
    <2>3. ASSUME NEW q, q \in Chain(ParentOf(p)) PROVE q \in Chain(p)
      <3>1. q \in Seq(S) /\ Len(q) \in 1..(Len(p) - 1) /\ \A i \in 1..Len(q) : q[i] = ParentOf(p)[i]
        BY <1>1, <2>3, ChainMembers
      <3>. QED  BY <1>1, <3>1, ChainMembers
    <2>. QED  BY <1>2, <2>1, <2>2, <2>3
  <1>. QED  BY <1>1, <1>2, <1>3

-----------------------------------------------------------------------------
(* Paths form a tree: what is above a path are its proper prefixes.          *)
LEMMA PathsAreTree ==
  ASSUME NEW D, TreePaths(D), D # {}
  PROVE  /\ TreeOK(D, <<ReadRoot>>, D, Over(D), Above(D))
         /\ Above(D) \in [D -> SUBSET D] /\ \A p \in D : Over(D)[p] = ParentOf(p)
         /\ \A p \in D : Above(D)[p] = Chain(p) \ {p} /\ Len(ParentOf(p)) = Len(p) - 1
  <1>. DEFINE r == <<ReadRoot>>
              S == DOMAIN shape
              up == Above(D)
              by == Over(D)
  <1>1. /\ r \in D /\ IsFiniteSet(D) /\ Len(r) = 1
        /\ \A p \in D : p \in Seq(S) /\ Len(p) > 0 /\ Len(p) \in Nat /\ p[1] = ReadRoot /\ Chain(p) \subseteq D
    BY DEF TreePaths
  <1>2. \A p \in D : by[p] = ParentOf(p) /\ up[p] = Chain(p) \ {p}
    BY DEF Over, Above
  <1>20. r[1] = ReadRoot
    OBVIOUS
  <1>. HIDE DEF r, S, up, by
  <1>3. \A p \in D : Len(ParentOf(p)) = Len(p) - 1
    BY <1>1, ParentMembers
  <1>4. \A p \in D : \A q \in Chain(p) : /\ Len(q) \in 1..Len(p) /\ q \in D /\ Chain(q) \subseteq Chain(p)
                                        /\ (Len(q) = Len(p) => q = p)
    <2>. SUFFICES ASSUME NEW p \in D, NEW q \in Chain(p)
                  PROVE  /\ Len(q) \in 1..Len(p) /\ q \in D /\ Chain(q) \subseteq Chain(p)
                         /\ (Len(q) = Len(p) => q = p)
      OBVIOUS
    <2>1. q \in Seq(S) /\ Len(q) \in 1..Len(p) /\ \A i \in 1..Len(q) : q[i] = p[i]
      BY <1>1, ChainMembers
    <2>2. Len(q) = Len(p) => q = p
      BY <1>1, <2>1, SeqEqual
    <2>3. ASSUME NEW c \in Chain(q) PROVE c \in Chain(p)
      <3>1. c \in Seq(S) /\ Len(c) \in 1..Len(q) /\ \A i \in 1..Len(c) : c[i] = q[i]
        BY <2>1, ChainMembers
      <3>. QED  BY <1>1, <2>1, <3>1, ChainMembers
    <2>. QED  BY <1>1, <2>1, <2>2, <2>3
  <1>. DEFINE L(p) == Len(p)
  <1>21. /\ r \in D /\ L(r) = 1 /\ \A p \in D : L(p) \in Nat \ {0} /\ Chain(p) \subseteq D /\ p \in Chain(p)
         /\ \A p \in D : L(ParentOf(p)) = L(p) - 1
         /\ \A p \in D : \A q \in Chain(p) : /\ L(q) \in 1..L(p) /\ q \in D /\ Chain(q) \subseteq Chain(p)
                                             /\ (L(q) = L(p) => q = p)
    BY <1>1, <1>3, <1>4, ParentMembers
  <1>22. \A p \in D : L(p) = 1 => p = r
    <2>. SUFFICES ASSUME NEW p \in D, L(p) = 1 PROVE p = r
      OBVIOUS
    <2>1. r \in Seq(S) /\ p \in Seq(S) /\ \A i \in 1..1 : p[i] = r[i]
      BY <1>1, <1>20
    <2>. QED  BY <1>1, <2>1, SeqEqual
  <1>23. \A p \in D : L(p) > 1 =>
            /\ ParentOf(p) \in Chain(p) /\ Chain(p) = Chain(ParentOf(p)) \cup {p}
    BY <1>1, ParentMembers
  <1>24. \A p \in D : \A a, b \in Chain(p) : L(a) <= L(b) => a \in Chain(b)
    <2>. SUFFICES ASSUME NEW p \in D, NEW a \in Chain(p), NEW b \in Chain(p), Len(a) <= Len(b)
                  PROVE  a \in Chain(b)
      OBVIOUS
    <2>1. /\ a \in Seq(S) /\ Len(a) \in 1..Len(p) /\ \A i \in 1..Len(a) : a[i] = p[i]
          /\ b \in Seq(S) /\ Len(b) \in 1..Len(p) /\ \A i \in 1..Len(b) : b[i] = p[i]
      BY <1>1, ChainMembers
    <2>2. Len(a) \in 1..Len(b) /\ \A i \in 1..Len(a) : a[i] = b[i]
      BY <1>1, <2>1
    <2>. QED  BY <2>1, <2>2, ChainMembers
  <1>25. \A p \in D : \A a \in Chain(p) : a # p => \E b \in Chain(p) : L(b) = L(a) + 1 /\ ParentOf(b) = a
    <2>. SUFFICES ASSUME NEW p \in D, NEW a \in Chain(p), a # p
                  PROVE  \E b \in Chain(p) : L(b) = L(a) + 1 /\ ParentOf(b) = a
      OBVIOUS
    <2>2. a \in Seq(S) /\ Len(a) \in 1..Len(p) /\ \A i \in 1..Len(a) : a[i] = p[i]
      BY <1>1, ChainMembers
    <2>3. Len(a) + 1 \in 1..Len(p) /\ Len(a) \in Nat
      <3>1. Len(a) # Len(p)
        BY <1>4
      <3>. QED  BY <1>1, <2>2, <3>1
    <2>. DEFINE b == SubSeq(p, 1, Len(a) + 1)
    <2>4. b \in Chain(p)
      BY <2>3 DEF Chain
    <2>5. b \in Seq(S) /\ Len(b) = Len(a) + 1 /\ \A i \in 1..Len(a) : b[i] = p[i]
      BY <1>1, <2>3
    <2>. HIDE DEF b
    <2>6. /\ ParentOf(b) \in Seq(S) /\ Len(ParentOf(b)) = Len(a)
          /\ \A i \in 1..Len(a) : ParentOf(b)[i] = b[i]
      BY <2>2, <2>3, <2>5, ParentMembers
    <2>7. ParentOf(b) = a
      BY <2>2, <2>3, <2>5, <2>6, SeqEqual
    <2>. QED  BY <2>4, <2>5, <2>7
  <1>. HIDE DEF L
  <1>5. by[r] \notin D /\ up[r] = {}
    <2>1. L(ParentOf(r)) = 0
      BY <1>21
    <2>2. \A q \in Chain(r) : q = r
      BY <1>21
    <2>. QED  BY <1>2, <1>21, <2>1, <2>2
  <1>6. \A p \in D : up[p] \subseteq D
    BY <1>2, <1>21
  <1>7. \A p \in D \ {r} : by[p] \in D /\ up[p] = up[by[p]] \cup {by[p]}
    <2>. SUFFICES ASSUME NEW p \in D \ {r} PROVE by[p] \in D /\ up[p] = up[by[p]] \cup {by[p]}
      OBVIOUS
    <2>1. L(p) > 1
      BY <1>21, <1>22
    <2>2. ParentOf(p) \in Chain(p) /\ Chain(p) = Chain(ParentOf(p)) \cup {p} /\ ParentOf(p) \in D
      BY <1>21, <1>23, <2>1
    <2>4. ParentOf(p) \in Chain(ParentOf(p)) /\ p \notin Chain(ParentOf(p))
      BY <1>21, <2>2
    <2>. QED  BY <1>2, <2>2, <2>4
  <1>8. \A p \in D : p \notin up[p] /\ \A a \in up[p] : up[a] \subseteq up[p]
    <2>. SUFFICES ASSUME NEW p \in D, NEW a \in up[p] PROVE up[a] \subseteq up[p]
      BY <1>2
    <2>1. a \in Chain(p) /\ a # p /\ a \in D /\ Chain(a) \subseteq Chain(p)
      BY <1>2, <1>21
    <2>2. L(a) # L(p) /\ L(a) \in 1..L(p) /\ \A q \in Chain(a) : L(q) \in 1..L(a)
      BY <1>21, <2>1
    <2>3. p \notin Chain(a)
      BY <1>21, <2>1, <2>2
    <2>. QED  BY <1>2, <2>1, <2>3
  <1>9. \A p \in D : \A a, b \in up[p] : a = b \/ a \in up[b] \/ b \in up[a]
    <2>. SUFFICES ASSUME NEW p \in D, NEW a \in up[p], NEW b \in up[p], a # b
                  PROVE  a \in up[b] \/ b \in up[a]
      OBVIOUS
    <2>1. a \in Chain(p) /\ b \in Chain(p) /\ a \in D /\ b \in D /\ (L(a) <= L(b) \/ L(b) <= L(a))
      BY <1>2, <1>21
    <2>2. a \in Chain(b) \/ b \in Chain(a)
      BY <1>24, <2>1
    <2>. QED  BY <1>2, <2>1, <2>2
  <1>10. \A p \in D : \A a \in up[p] : \E b \in up[p] \cup {p} : b # r /\ by[b] = a
    <2>. SUFFICES ASSUME NEW p \in D, NEW a \in up[p] PROVE \E b \in up[p] \cup {p} : b # r /\ by[b] = a
      OBVIOUS
    <2>1. a \in Chain(p) /\ a # p /\ a \in D
      BY <1>2, <1>21
    <2>2. PICK b \in Chain(p) : L(b) = L(a) + 1 /\ ParentOf(b) = a
      BY <1>25, <2>1
    <2>3. b \in D /\ b # r
      BY <1>21, <2>1, <2>2
    <2>. QED  BY <1>2, <2>2, <2>3
  <1>11. up \in [D -> SUBSET D]
    <2>1. up = [p \in D |-> Chain(p) \ {p}]
      BY DEF Above, up
    <2>. QED  BY <1>2, <1>6, <2>1
  <1>12. TreeOK(D, r, D, by, up)
    BY <1>1, <1>5, <1>6, <1>7, <1>8, <1>9, <1>10 DEF TreeOK
  <1>. QED  BY <1>2, <1>3, <1>11, <1>12 DEF r, up, by

-----------------------------------------------------------------------------
StOf(t)   == [p \in DOMAIN t |-> t[p].at]
PendOf(t) == [p \in DOMAIN t |-> t[p].pendingChildren]

ReadNodes == [at : {"reading", "browsing", "waiting", "done"}, got : SUBSET Required, kind : Kinds,
              pendingChildren : Nat, children : Seq(DOMAIN shape)]

(* A tree of ReadNodes, each waiting for exactly what is open below it.       *)
TreeCounts(t) ==
  /\ TreePaths(DOMAIN t) /\ t \in [DOMAIN t -> ReadNodes]
  /\ Exact(DOMAIN t, Over(DOMAIN t), StOf(t), PendOf(t))
  /\ \A p \in DOMAIN t : t[p].at \in {"reading", "browsing"} => \A q \in DOMAIN t : ParentOf(q) # p

(* What is known of a node: its children are in order, and unless something was  *)
(* missed it is what the server has, once it was classified and browsed.       *)
Known(p, n) ==
  /\ \A k, l \in DOMAIN n.children :
       n.kind = "array" /\ k < l => ElementIndex[n.children[k]] <= ElementIndex[n.children[l]]
  /\ n.at \in {"reading", "browsing"} => n.children = <<>>
  /\ ~missed /\ n.at # "reading" =>
       /\ n.kind = shape[ReadId(p)].kind
       /\ n.at = "browsing" => n.kind \in {"struct", "array"}
       /\ n.at \in {"waiting", "done"} =>
            \/ ToSet(n.children) = ToSet(shape[ReadId(p)].members)
            \/ n.kind \in {"struct", "array"} /\ n.children = <<>>
               /\ (ReadDepth(p) >= MaxReadDepth \/ resolved >= MaxReadNodes)

Reported ==
  /\ phase \in {"new", "reading", "finished", "deleted"}
  /\ IF phase \in {"new", "reading"} THEN answers = 0 /\ answer = NoTree
     ELSE answers = 1 /\ answer # NoTree
  /\ phase = "reading" => tree[<<ReadRoot>>].at # "done"
  /\ answer # NoTree /\ answer.whole =>
       answer.tree = tree /\ \A p \in DOMAIN tree : tree[p].at = "done"

ReaderInv ==
  /\ shape \in Shapes /\ resolved \in Nat
  /\ TreeCounts(tree)
  /\ phase = "new" <=> DOMAIN tree = {}
  /\ \A p \in DOMAIN tree : Known(p, tree[p])
  /\ Reported

-----------------------------------------------------------------------------
(* The tree t with p about to be settled: nothing is open below p, the others  *)
(* wait for exactly what is.                                               *)
Finishes(t, p) ==
  /\ p \in DOMAIN t /\ TreePaths(DOMAIN t) /\ t \in [DOMAIN t -> ReadNodes]
  /\ t[p].at \in {"reading", "waiting"} /\ t[p].pendingChildren = 0
  /\ \A m \in DOMAIN t : PendOf(t)[m] = Cardinality(Open(DOMAIN t, Over(DOMAIN t), StOf(t), m))
  /\ \A m \in DOMAIN t \ {p} : StOf(t)[m] = "waiting" <=> PendOf(t)[m] > 0
  /\ \A m \in DOMAIN t \ {p} : t[m].at \in {"reading", "browsing"} => \A q \in DOMAIN t : ParentOf(q) # m

LEMMA FinalizeCounts ==
  ASSUME NEW t, NEW p, Finishes(t, p), Finalize(t, p), UNCHANGED shape
  PROVE  /\ TreeCounts(tree)' /\ DOMAIN tree' = DOMAIN t
         /\ \A q \in DOMAIN t : /\ tree'[q].kind = t[q].kind /\ tree'[q].children = t[q].children
                                /\ tree'[q].at = (IF q \in Finalized(t, p) THEN "done" ELSE t[q].at)
         /\ \A q \in Finalized(t, p) : q \in DOMAIN t /\ (q # p => t[q].at = "waiting")
         /\ p \in Finalized(t, p)
  <1>. DEFINE D == DOMAIN t
              closed == Finalized(t, p)
              S == DOMAIN shape
  <1>1. /\ D # {} /\ TreeOK(D, <<ReadRoot>>, D, Over(D), Above(D))
        /\ Above(D) \in [D -> SUBSET D] /\ \A q \in D : Over(D)[q] = ParentOf(q)
        /\ \A q \in D : Above(D)[q] = Chain(q) \ {q} /\ Len(ParentOf(q)) = Len(q) - 1
    BY PathsAreTree DEF Finishes
  <1>2. /\ p \in D /\ \A q \in D : q \in Seq(S) /\ Len(q) > 0 /\ Chain(q) \subseteq D
    BY DEF Finishes, TreePaths
  <1>3. \A q \in D : /\ t[q].at \in {"reading", "browsing", "waiting", "done"}
                     /\ t[q].pendingChildren \in Nat /\ t[q] \in ReadNodes
    BY DEF Finishes, ReadNodes
  <1>4. /\ StOf(t) \in [D -> Statuses] /\ PendOf(t) \in [D -> Nat]
        /\ \A q \in D : StOf(t)[q] = t[q].at /\ PendOf(t)[q] = t[q].pendingChildren
    BY <1>3 DEF StOf, PendOf, Statuses
  <1>5. p \in Chain(p)
    BY <1>2, ParentMembers
  <1>6. \A a \in Chain(p) : /\ a \in Seq(S) /\ Len(a) \in 1..Len(p)
                            /\ (Len(a) = Len(p) => a = p)
    <2>. SUFFICES ASSUME NEW a \in Chain(p)
                  PROVE  a \in Seq(S) /\ Len(a) \in 1..Len(p) /\ (Len(a) = Len(p) => a = p)
      OBVIOUS
    <2>1. a \in Seq(S) /\ Len(a) \in 1..Len(p) /\ \A i \in 1..Len(a) : a[i] = p[i]
      BY <1>2, ChainMembers
    <2>. QED  BY <1>2, <2>1, SeqEqual
  <1>. DEFINE L(q) == Len(q)
  <1>7. /\ closed = {q \in Chain(p) : \A a \in Chain(p) : L(q) <= L(a) /\ a # p => t[a].pendingChildren = 1}
        /\ \A a \in Chain(p) : L(a) \in 1..L(p) /\ (L(a) = L(p) => a = p)
        /\ L(p) \in Nat
    BY <1>2, <1>6 DEF Finalized
  <1>8. \A a, b \in Chain(p) : /\ a \in D /\ (a \in Above(D)[b] => L(a) < L(b))
                               /\ (L(a) <= L(b) => a = b \/ a \in Above(D)[b])
    <2>. SUFFICES ASSUME NEW a \in Chain(p), NEW b \in Chain(p)
                  PROVE  /\ (a \in Above(D)[b] => Len(a) < Len(b))
                         /\ (Len(a) <= Len(b) => a = b \/ a \in Above(D)[b])
      BY <1>2
    <2>1. /\ a \in Seq(S) /\ Len(a) \in 1..Len(p) /\ \A i \in 1..Len(a) : a[i] = p[i]
          /\ b \in Seq(S) /\ Len(b) \in 1..Len(p) /\ \A i \in 1..Len(b) : b[i] = p[i]
      BY <1>2, ChainMembers
    <2>2. Above(D)[b] = Chain(b) \ {b}
      BY <1>1, <1>2
    <2>3. a \in Chain(b) <=> Len(a) \in 1..Len(b) /\ \A i \in 1..Len(a) : a[i] = b[i]
      BY <2>1, ChainMembers
    <2>4. ASSUME Len(a) <= Len(b) PROVE a \in Chain(b)
      BY <2>1, <2>3, <2>4
    <2>5. ASSUME a \in Chain(b), a # b PROVE Len(a) < Len(b)
      <3>1. Len(a) # Len(b)
        BY <2>1, <2>3, <2>5, SeqEqual
      <3>. QED  BY <2>1, <2>3, <2>5, <3>1
    <2>. QED  BY <2>2, <2>4, <2>5
  <1>. HIDE DEF L, closed
  <1>9. p \in closed /\ closed \subseteq Above(D)[p] \cup {p} /\ closed \subseteq D
    BY <1>1, <1>2, <1>5, <1>7, <1>8
  <1>10. \A a \in Above(D)[p] : a \in closed <=>
            \A b \in Above(D)[p] : a = b \/ a \in Above(D)[b] => PendOf(t)[b] = 1
    <2>1. Above(D)[p] = Chain(p) \ {p} /\ Chain(p) \subseteq D
      BY <1>1, <1>2
    <2>. SUFFICES ASSUME NEW a \in Chain(p), a # p
                  PROVE  a \in closed <=> \A b \in Chain(p) \ {p} :
                            a = b \/ a \in Above(D)[b] => PendOf(t)[b] = 1
      BY <2>1
    <2>2. \A b \in Chain(p) : L(a) \in Nat /\ L(b) \in Nat
                              /\ (L(a) <= L(b) <=> a = b \/ a \in Above(D)[b])
      BY <1>7, <1>8
    <2>. QED  BY <1>4, <1>7, <2>1, <2>2
  <1>11. \A q \in D : {c \in closed : Len(c) > 1 /\ ParentOf(c) = q} = ClosedBelow(closed, Over(D), q)
    <2>. SUFFICES ASSUME NEW q \in D, NEW c \in closed, ParentOf(c) = q PROVE Len(c) > 1
      BY <1>1, <1>9 DEF ClosedBelow
    <2>1. c \in D /\ Len(q) > 0 /\ Len(q) = Len(c) - 1 /\ Len(c) \in Nat /\ Len(q) \in Nat
      BY <1>1, <1>2, <1>9
    <2>. QED  BY <2>1
  <1>. DEFINE nst   == [q \in D |-> IF q \in closed THEN "done" ELSE t[q].at]
              npend == [q \in D |-> t[q].pendingChildren - Cardinality(ClosedBelow(closed, Over(D), q))]
  <1>12. tree' = [q \in D |-> [t[q] EXCEPT !.at = nst[q], !.pendingChildren = npend[q]]]
    <2>1. tree' = [q \in D |->
                   [t[q] EXCEPT !.at = IF q \in closed THEN "done" ELSE @,
                                !.pendingChildren =
                                  @ - Cardinality({c \in closed : Len(c) > 1 /\ ParentOf(c) = q})]]
      BY Zenon DEF Finalize, closed
    <2>2. \A q \in D : /\ nst[q] = IF q \in closed THEN "done" ELSE t[q].at
                       /\ npend[q] = t[q].pendingChildren - Cardinality({c \in closed : Len(c) > 1 /\ ParentOf(c) = q})
      BY <1>11
    <2>. HIDE DEF nst, npend
    <2>. QED  BY <2>1, <2>2
  <1>13. Settles(D, <<ReadRoot>>, D, Over(D), Above(D), StOf(t), PendOf(t), p, closed, nst, npend)
    <2>1. nst \in [D -> Statuses]
      BY <1>3 DEF Statuses
    <2>2. \A q \in D : nst[q] = (IF q \in closed THEN "done" ELSE StOf(t)[q])
      BY <1>4
    <2>3. npend = [q \in D |-> npend[q]]
          /\ \A q \in D : npend[q] = PendOf(t)[q] - Cardinality(ClosedBelow(closed, Over(D), q))
      BY <1>4
    <2>4. StOf(t)[p] # "done" /\ PendOf(t)[p] = 0
          /\ (\A m \in D : PendOf(t)[m] = Cardinality(Open(D, Over(D), StOf(t), m)))
          /\ (\A m \in D \ {p} : StOf(t)[m] = "waiting" <=> PendOf(t)[m] > 0)
      BY <1>2, <1>4 DEF Finishes
    <2>. HIDE DEF nst, npend, D
    <2>. QED  BY <1>1, <1>2, <1>4, <1>9, <1>10, <2>1, <2>2, <2>3, <2>4 DEF Settles
  <1>. HIDE DEF nst, npend, D
  <1>14. /\ npend \in [D -> Nat] /\ Exact(D, Over(D), nst, npend)
         /\ \A m \in closed \ {p} : StOf(t)[m] = "waiting"
    BY <1>13, SettleExact
  <1>15. \A q \in D : nst[q] = (IF q \in closed THEN "done" ELSE t[q].at)
    BY DEF nst
  <1>16. DOMAIN tree' = D /\ \A q \in D : tree'[q] = [t[q] EXCEPT !.at = nst[q], !.pendingChildren = npend[q]]
    BY <1>12
  <1>17. \A q \in D : /\ tree'[q].at = nst[q] /\ tree'[q].pendingChildren = npend[q]
                      /\ tree'[q].kind = t[q].kind /\ tree'[q].children = t[q].children
                      /\ tree'[q] \in ReadNodes
    <2>. SUFFICES ASSUME NEW q \in D
                  PROVE  /\ tree'[q].at = nst[q] /\ tree'[q].pendingChildren = npend[q]
                         /\ tree'[q].kind = t[q].kind /\ tree'[q].children = t[q].children
                         /\ tree'[q] \in ReadNodes
      OBVIOUS
    <2>1. t[q] \in ReadNodes /\ nst[q] \in {"reading", "browsing", "waiting", "done"} /\ npend[q] \in Nat
      BY <1>3, <1>14, <1>15
    <2>. QED  BY <1>16, <2>1 DEF ReadNodes
  <1>18. StOf(tree') = nst /\ PendOf(tree') = npend
    <2>1. nst = [q \in D |-> nst[q]] /\ npend = [q \in D |-> npend[q]]
      BY DEF nst, npend
    <2>. QED  BY <1>16, <1>17, <2>1 DEF StOf, PendOf
  <1>19. TreeCounts(tree)'
    <2>1. TreePaths(D)' /\ tree' \in [D -> ReadNodes] /\ ReadNodes' = ReadNodes
      <3>1. tree' = [q \in D |-> tree'[q]]
        BY <1>12
      <3>2. tree' \in [D -> ReadNodes]
        BY <1>17, <3>1
      <3>. QED  BY <3>2 DEF Finishes, TreePaths, ReadNodes, D
    <2>2. Exact(D, Over(D), StOf(tree'), PendOf(tree'))
      BY <1>14, <1>18
    <2>3. \A q \in D : tree'[q].at \in {"reading", "browsing"} => \A c \in D : ParentOf(c) # q
      BY <1>9, <1>15, <1>17 DEF Finishes, D
    <2>5. DOMAIN tree' = D
      BY <1>16
    <2>. HIDE DEF D
    <2>6. TreePaths(DOMAIN tree)'
      <3>1. Finishes(t, p) => TreePaths(DOMAIN t)
        BY DEF Finishes
      <3>. QED  BY <2>5, <3>1, <1>1 DEF TreePaths, D
    <2>7. (tree \in [DOMAIN tree -> ReadNodes])'
      BY <2>1, <2>5
    <2>8. Exact(DOMAIN tree, Over(DOMAIN tree), StOf(tree), PendOf(tree))'
      BY <2>2, <2>5
    <2>9. (\A q \in DOMAIN tree : tree[q].at \in {"reading", "browsing"} => \A c \in DOMAIN tree : ParentOf(c) # q)'
      BY <2>3, <2>5
    <2>. QED  BY <2>6, <2>7, <2>8, <2>9 DEF TreeCounts
  <1>20. \A q \in closed : q \in D /\ (q # p => t[q].at = "waiting")
    BY <1>4, <1>9, <1>14
  <1>21. \A q \in D : /\ tree'[q].kind = t[q].kind /\ tree'[q].children = t[q].children
                       /\ tree'[q].at = (IF q \in closed THEN "done" ELSE t[q].at)
    BY <1>15, <1>17
  <1>. QED  BY <1>9, <1>16, <1>19, <1>20, <1>21, Zenon DEF closed, D

-----------------------------------------------------------------------------
(* What was known of a node stays known when it is settled, and as more nodes are *)
(* resolved or missed.                                                      *)
LEMMA KnownStays ==
  ASSUME NEW p, NEW n, NEW m, Known(p, n), m.kind = n.kind, m.children = n.children,
         m.at = n.at \/ (n.at = "waiting" /\ m.at = "done"),
         resolved \in Nat, resolved' \in Nat, resolved <= resolved', missed => missed',
         UNCHANGED shape
  PROVE  Known(p, m)'
  <1>1. resolved >= MaxReadNodes => resolved' >= MaxReadNodes
    BY ReaderAssumption DEF ReaderAssumption
  <1>2. (\A k, l \in DOMAIN m.children :
           m.kind = "array" /\ k < l => ElementIndex[m.children[k]] <= ElementIndex[m.children[l]])
    BY DEF Known
  <1>3. m.at \in {"reading", "browsing"} => m.children = <<>>
    BY DEF Known
  <1>4. ~missed' /\ m.at # "reading" =>
          /\ m.kind = shape[ReadId(p)].kind
          /\ m.at = "browsing" => m.kind \in {"struct", "array"}
          /\ m.at \in {"waiting", "done"} =>
               \/ ToSet(m.children) = ToSet(shape[ReadId(p)].members)
               \/ m.kind \in {"struct", "array"} /\ m.children = <<>>
                  /\ (ReadDepth(p) >= MaxReadDepth \/ resolved' >= MaxReadNodes)
    BY <1>1 DEF Known
  <1>. QED  BY <1>2, <1>3, <1>4 DEF Known

(* Where each waits for what is open below it, a root that is done leaves nothing *)
(* open.                                                                  *)
LEMMA RootDoneAllDone ==
  ASSUME NEW D, TreePaths(D), D # {}, NEW t, DOMAIN t = D, t \in [D -> ReadNodes],
         Exact(D, Over(D), StOf(t), PendOf(t)), t[<<ReadRoot>>].at = "done"
  PROVE  \A q \in D : t[q].at = "done"
  <1>1. /\ TreeOK(D, <<ReadRoot>>, D, Over(D), Above(D)) /\ Above(D) \in [D -> SUBSET D]
    BY PathsAreTree
  <1>2. <<ReadRoot>> \in D
    BY DEF TreePaths
  <1>3. \A q \in D : t[q].at \in Statuses
    BY DEF ReadNodes, Statuses
  <1>4. StOf(t) \in [D -> Statuses] /\ \A q \in D : StOf(t)[q] = t[q].at
    BY <1>3 DEF StOf
  <1>5. \A x \in D : StOf(t)[x] = "done"
    BY <1>1, <1>2, <1>4, RootSettlesAll
  <1>. QED  BY <1>4, <1>5

(* What finalizeNode() reports is settled: nothing was reported as whole before, *)
(* and the tree is reported when its root is done and with it every node.    *)
LEMMA FinalizeReports ==
  ASSUME NEW t, NEW p, Finishes(t, p), Finalize(t, p), UNCHANGED shape,
         phase \in {"reading", "finished"},
         IF phase = "reading" THEN answers = 0 /\ answer = NoTree ELSE answers = 1 /\ answer # NoTree,
         phase = "reading" => t[<<ReadRoot>>].at # "done",
         answer # NoTree => ~answer.whole
  PROVE  Reported'
  <1>. DEFINE D == DOMAIN t
              r == <<ReadRoot>>
  <1>1. /\ TreeCounts(tree)' /\ DOMAIN tree' = D
        /\ \A q \in D : tree'[q].at = (IF q \in Finalized(t, p) THEN "done" ELSE t[q].at)
    BY FinalizeCounts
  <1>2. TreePaths(D) /\ D # {} /\ r \in D
    BY DEF Finishes, TreePaths
  <1>3. tree' \in [D -> ReadNodes] /\ Exact(D, Over(D), StOf(tree'), PendOf(tree'))
    BY <1>1 DEF TreeCounts, ReadNodes
  <1>4. CASE r \in Finalized(t, p)
    <2>1. \A q \in D : tree'[q].at = "done"
      BY <1>1, <1>2, <1>3, <1>4, RootDoneAllDone
    <2>2. EmitTree(tree', TRUE)
      BY <1>4, Zenon DEF Finalize
    <2>3. CASE phase = "finished"
      <3>1. UNCHANGED <<phase, answers, answer>>
        BY <2>2, <2>3, Zenon DEF EmitTree
      <3>. QED  BY <2>3, <3>1 DEF Reported
    <2>4. CASE phase = "reading"
      <3>1. phase' = "finished" /\ answers' = 1 /\ answer' = [tree |-> tree', whole |-> TRUE]
        BY <2>2, <2>4 DEF EmitTree
      <3>2. answer' # NoTree /\ answer'.tree = tree'
        BY <3>1 DEF NoTree
      <3>. QED  BY <1>1, <2>1, <3>1, <3>2 DEF Reported
    <2>. QED  BY <2>3, <2>4
  <1>5. CASE r \notin Finalized(t, p)
    <2>1. UNCHANGED <<phase, answers, answer>>
      BY <1>5, Zenon DEF Finalize
    <2>2. tree'[r].at = t[r].at
      BY <1>1, <1>2, <1>5
    <2>. QED  BY <2>1, <2>2 DEF Reported
  <1>. QED  BY <1>4, <1>5

(* A step that settles the node p of the tree t keeps the invariant, if what is *)
(* known of p is known after it.                                            *)
LEMMA FinalizeKeepsInv ==
  ASSUME ReaderInv, phase \in {"reading", "finished"}, NEW p, NEW t, Finishes(t, p), Finalize(t, p),
         UNCHANGED shape, resolved' \in Nat, resolved <= resolved', missed => missed',
         NEW q0 \in DOMAIN tree, tree[q0].at # "done", t[<<ReadRoot>>].at = "done" => tree[<<ReadRoot>>].at = "done",
         \A q \in DOMAIN t \ {p} : Known(q, t[q])',
         Known(p, [t[p] EXCEPT !.at = "done"])'
  PROVE  ReaderInv'
  <1>1. /\ TreeCounts(tree)' /\ DOMAIN tree' = DOMAIN t /\ p \in DOMAIN t
        /\ \A q \in DOMAIN t : /\ tree'[q].kind = t[q].kind /\ tree'[q].children = t[q].children
                               /\ tree'[q].at = (IF q \in Finalized(t, p) THEN "done" ELSE t[q].at)
        /\ \A q \in Finalized(t, p) : q \in DOMAIN t /\ (q # p => t[q].at = "waiting")
        /\ p \in Finalized(t, p)
    BY FinalizeCounts DEF Finishes
  <1>2. Reported'
    <2>1. answer # NoTree => ~answer.whole
      BY DEF ReaderInv, Reported
    <2>. QED  BY <2>1, FinalizeReports DEF ReaderInv, Reported
  <1>3. phase' \in {"reading", "finished"}
    BY DEF Finalize, EmitTree
  <1>4. \A q \in DOMAIN t : Known(q, tree[q])'
    <2>. SUFFICES ASSUME NEW q \in DOMAIN t PROVE Known(q, tree[q])'
      OBVIOUS
    <2>1. /\ tree'[q].kind = t[q].kind /\ tree'[q].children = t[q].children
          /\ tree'[q].at = t[q].at \/ (t[q].at = "waiting" /\ tree'[q].at = "done") \/ q = p
      BY <1>1
    <2>2. CASE q # p
      <3>1. Known(q, t[q])'
        BY <2>2
      <3>. QED  BY <2>1, <2>2, <3>1 DEF Known
    <2>3. CASE q = p
      <3>1. t[p] \in ReadNodes /\ tree'[p].at = "done"
        BY <1>1 DEF Finishes
      <3>2. [t[p] EXCEPT !.at = "done"].kind = t[p].kind /\ [t[p] EXCEPT !.at = "done"].children = t[p].children
            /\ [t[p] EXCEPT !.at = "done"].at = "done"
        BY <3>1 DEF ReadNodes
      <3>3. Known(p, [t[p] EXCEPT !.at = "done"])'
        OBVIOUS
      <3>. QED  BY <2>1, <2>3, <3>1, <3>2, <3>3 DEF Known
    <2>. QED  BY <2>2, <2>3
  <1>. QED  BY <1>1, <1>2, <1>3, <1>4 DEF ReaderInv

-----------------------------------------------------------------------------
(* What the server holds of the node a path ends in.                          *)
LEMMA NodeIsKnown ==
  ASSUME shape \in Shapes, NEW D, TreePaths(D), NEW p \in D
  PROVE  /\ ReadId(p) \in DOMAIN shape /\ shape[ReadId(p)].kind \in Kinds
         /\ shape[ReadId(p)].members \in Seq(DOMAIN shape)
         /\ shape[ReadId(p)].kind \notin {"struct", "array"} => shape[ReadId(p)].members = <<>>
  <1>1. p \in Seq(DOMAIN shape) /\ Len(p) > 0
    BY DEF TreePaths
  <1>2. ReadId(p) \in DOMAIN shape
    BY <1>1 DEF ReadId, Last
  <1>. QED  BY <1>2, ReaderAssumption DEF ReaderAssumption

(* The tree with one ReadNode read further.                                  *)
LEMMA Touched ==
  ASSUME ReaderInv, NEW p \in DOMAIN tree, tree[p].at = "reading", NEW n \in ReadNodes,
         n.pendingChildren = tree[p].pendingChildren, n.at \in {"reading", "browsing"},
         NEW t, t = [tree EXCEPT ![p] = n]
  PROVE  /\ DOMAIN t = DOMAIN tree /\ TreeCounts(t)
         /\ n.at = "reading" => Finishes(t, p)
         /\ \A q \in DOMAIN tree \ {p} : t[q] = tree[q]
         /\ t[p] = n
  <1>. DEFINE D == DOMAIN tree
  <1>1. /\ TreePaths(D) /\ tree \in [D -> ReadNodes] /\ Exact(D, Over(D), StOf(tree), PendOf(tree))
        /\ \A q \in D : tree[q].at \in {"reading", "browsing"} => \A c \in D : ParentOf(c) # q
    BY DEF ReaderInv, TreeCounts
  <1>2. DOMAIN t = D /\ t \in [D -> ReadNodes] /\ (\A q \in D \ {p} : t[q] = tree[q]) /\ t[p] = n
    BY <1>1
  <1>3. \A q \in D : /\ StOf(t)[q] = t[q].at /\ PendOf(t)[q] = t[q].pendingChildren
                     /\ StOf(tree)[q] = tree[q].at /\ PendOf(tree)[q] = tree[q].pendingChildren
    BY <1>2 DEF StOf, PendOf
  <1>4. \A q \in D : /\ PendOf(t)[q] = PendOf(tree)[q]
                     /\ (StOf(t)[q] = "done" <=> StOf(tree)[q] = "done")
                     /\ (StOf(t)[q] = "waiting" <=> StOf(tree)[q] = "waiting")
    BY <1>2, <1>3
  <1>5. \A q \in D : Open(D, Over(D), StOf(t), q) = Open(D, Over(D), StOf(tree), q)
    BY <1>4 DEF Open
  <1>6. Exact(D, Over(D), StOf(t), PendOf(t))
    BY <1>1, <1>4, <1>5 DEF Exact
  <1>7. \A q \in D : t[q].at \in {"reading", "browsing"} => \A c \in D : ParentOf(c) # q
    BY <1>1, <1>2
  <1>8. TreeCounts(t)
    BY <1>1, <1>2, <1>6, <1>7 DEF TreeCounts
  <1>9. t[p].pendingChildren = 0
    <2>1. PendOf(tree)[p] = tree[p].pendingChildren /\ tree[p].pendingChildren \in Nat
      BY <1>1, <1>3 DEF ReadNodes
    <2>2. ~(PendOf(tree)[p] > 0)
      BY <1>1, <1>3 DEF Exact
    <2>. QED  BY <1>2, <2>1, <2>2
  <1>10. ASSUME n.at = "reading" PROVE Finishes(t, p)
    BY <1>1, <1>2, <1>6, <1>7, <1>9, <1>10 DEF Finishes, Exact
  <1>. QED  BY <1>2, <1>8, <1>10

(* A reply that leaves the node to be read or browsed further.              *)
LEMMA QuietKeepsInv ==
  ASSUME ReaderInv, phase \in {"reading", "finished"}, UNCHANGED <<shape, phase, resolved, answers, answer>>,
         missed => missed', NEW p \in DOMAIN tree, tree[p].at = "reading", NEW n \in ReadNodes,
         n.pendingChildren = tree[p].pendingChildren, n.at \in {"reading", "browsing"},
         tree' = [tree EXCEPT ![p] = n], Known(p, n)'
  PROVE  ReaderInv'
  <1>1. PICK t : t = [tree EXCEPT ![p] = n]
    OBVIOUS
  <1>2. /\ DOMAIN t = DOMAIN tree /\ TreeCounts(t)
        /\ \A q \in DOMAIN tree \ {p} : t[q] = tree[q]
        /\ t[p] = n
    BY <1>1, Touched
  <1>3. tree' = t
    BY <1>1
  <1>4. TreeCounts(tree)'
    BY <1>2, <1>3 DEF TreeCounts, TreePaths, ReadNodes
  <1>5. \A q \in DOMAIN t : Known(q, tree[q])'
    <2>. SUFFICES ASSUME NEW q \in DOMAIN t PROVE Known(q, tree[q])'
      OBVIOUS
    <2>1. CASE q = p
      BY <1>2, <1>3, <2>1
    <2>2. CASE q # p
      <3>1. PICK m : m = tree[q]
        OBVIOUS
      <3>2. Known(q, m) /\ resolved \in Nat /\ resolved' \in Nat /\ resolved <= resolved' /\ shape' = shape
        BY <1>2, <3>1 DEF ReaderInv
      <3>3. Known(q, m)'
        BY ONLY <3>2, missed => missed', KnownStays
      <3>4. tree'[q] = m
        BY <1>2, <1>3, <2>2, <3>1
      <3>. QED  BY <3>3, <3>4
    <2>. QED  BY <2>1, <2>2
  <1>6. Reported'
    <2>1. answer # NoTree => ~answer.whole
      BY DEF ReaderInv, Reported
    <2>2. phase = "reading" => tree[<<ReadRoot>>].at # "done" /\ <<ReadRoot>> \in DOMAIN tree
      BY DEF ReaderInv, Reported, TreeCounts, TreePaths
    <2>3. phase = "reading" => tree'[<<ReadRoot>>].at # "done"
      BY <1>2, <1>3, <2>2
    <2>. QED  BY <2>1, <2>3 DEF ReaderInv, Reported
  <1>. QED  BY <1>2, <1>3, <1>4, <1>5, <1>6 DEF ReaderInv

-----------------------------------------------------------------------------
(* The node p settled after its attributes were read, as kind.               *)
LEMMA SettledReadKeepsInv ==
  ASSUME ReaderInv, phase \in {"reading", "finished"}, UNCHANGED <<shape, resolved>>,
         missed => missed', NEW p \in DOMAIN tree, tree[p].at = "reading", NEW n \in ReadNodes,
         n.pendingChildren = tree[p].pendingChildren, n.at = "reading", n.children = tree[p].children,
         NEW t, t = [tree EXCEPT ![p] = n], Finalize(t, p),
         ~missed' => n.kind = shape[ReadId(p)].kind /\ n.kind \notin {"struct", "array"}
  PROVE  ReaderInv'
  <1>1. /\ DOMAIN t = DOMAIN tree /\ Finishes(t, p)
        /\ \A q \in DOMAIN tree \ {p} : t[q] = tree[q]
        /\ t[p] = n
    BY Touched
  <1>2. resolved \in Nat /\ resolved' \in Nat /\ resolved <= resolved' /\ shape' = shape
    BY DEF ReaderInv
  <1>3. Known(p, [t[p] EXCEPT !.at = "done"])'
    <2>1. PICK m : m = [n EXCEPT !.at = "done"]
      OBVIOUS
    <2>2. m.at = "done" /\ m.kind = n.kind /\ m.children = <<>>
      <3>1. tree[p].children = <<>>
        BY DEF ReaderInv, Known
      <3>. QED  BY <2>1, <3>1 DEF ReadNodes
    <2>3. shape[ReadId(p)].kind \notin {"struct", "array"} => shape[ReadId(p)].members = <<>>
      BY NodeIsKnown DEF ReaderInv, TreeCounts
    <2>4. Known(p, m)'
      BY <1>2, <2>2, <2>3 DEF Known
    <2>. QED  BY <1>1, <2>1, <2>4
  <1>4. \A q \in DOMAIN t \ {p} : Known(q, t[q])'
    <2>. SUFFICES ASSUME NEW q \in DOMAIN t \ {p} PROVE Known(q, t[q])'
      OBVIOUS
    <2>1. PICK m : m = tree[q]
      OBVIOUS
    <2>2. Known(q, m) /\ t[q] = m
      BY <1>1, <2>1 DEF ReaderInv
    <2>3. Known(q, m)'
      BY <1>2, <2>2, KnownStays
    <2>. QED  BY <2>2, <2>3
  <1>5. t[<<ReadRoot>>].at = "done" => tree[<<ReadRoot>>].at = "done"
    <2>1. <<ReadRoot>> \in DOMAIN tree
      BY DEF ReaderInv, TreeCounts, TreePaths
    <2>. QED  BY <1>1, <2>1
  <1>6. tree[p].at # "done"
    OBVIOUS
  <1>. QED  BY <1>1, <1>2, <1>3, <1>4, <1>5, <1>6, FinalizeKeepsInv

LEMMA ReadAttributesKeepsInv ==
  ASSUME ReaderInv, NEW p \in DOMAIN tree, NEW parts \in SUBSET Required, ReadAttributes(p, parts)
  PROVE  ReaderInv'
  <1>. DEFINE got  == tree[p].got \cup parts
              seen == [tree EXCEPT ![p].got = got]
              S    == shape[ReadId(p)].kind
  <1>1. /\ phase \in {"reading", "finished"} /\ tree[p].at = "reading" /\ UNCHANGED <<shape, resolved>>
        /\ tree \in [DOMAIN tree -> ReadNodes] /\ tree[p] \in ReadNodes
    BY DEF ReadAttributes, Handles, ReaderInv, TreeCounts
  <1>2. got \subseteq Required
    BY <1>1 DEF ReadNodes
  <1>. HIDE DEF got
  <1>3. CASE ~Classifiable(got)
    <2>. PICK n : n = [tree[p] EXCEPT !.got = got]
      OBVIOUS
    <2>1. tree' = [tree EXCEPT ![p] = n] /\ UNCHANGED <<phase, answers, answer, missed>>
      BY <1>3 DEF ReadAttributes, got
    <2>2. /\ n \in ReadNodes /\ n.pendingChildren = tree[p].pendingChildren /\ n.at = "reading"
          /\ n.kind = tree[p].kind /\ n.children = tree[p].children
      BY <1>1, <1>2 DEF ReadNodes
    <2>3. Known(p, n)'
      <3>1. PICK m : m = tree[p]
        OBVIOUS
      <3>2. Known(p, m) /\ n.kind = m.kind /\ n.children = m.children /\ n.at = m.at
            /\ resolved \in Nat /\ resolved' \in Nat /\ resolved <= resolved' /\ shape' = shape
            /\ (missed => missed')
        BY <1>1, <2>1, <2>2, <3>1 DEF ReaderInv
      <3>. QED  BY <3>2, KnownStays
    <2>. QED  BY <1>1, <2>1, <2>2, <2>3, QuietKeepsInv
  <1>4. CASE Classifiable(got)
    <2>1. PICK kind \in TakenFor(ReadId(p)) :
            LET t == [seen EXCEPT ![p].kind = IF Required \subseteq got THEN kind ELSE "scalar"]
                browses == t[p].kind \in {"struct", "array"}
            IN /\ missed' = (missed \/ kind # shape[ReadId(p)].kind)
               /\ \/ Finalize(t, p) /\ ~browses
                  \/ /\ browses
                     /\ tree' = [t EXCEPT ![p].at = "browsing"]
                     /\ UNCHANGED <<phase, answers, answer>>
      BY <1>4, Zenon DEF ReadAttributes, got
    <2>. DEFINE n == [tree[p] EXCEPT !.got = got, !.kind = kind]
                t == [seen EXCEPT ![p].kind = IF Required \subseteq got THEN kind ELSE "scalar"]
    <2>2. S \in Kinds /\ kind \in Kinds
      <3>1. S \in Kinds
        BY NodeIsKnown DEF ReaderInv, TreeCounts
      <3>. QED  BY <3>1 DEF TakenFor, Kinds
    <2>3. /\ n \in ReadNodes /\ n.pendingChildren = tree[p].pendingChildren /\ n.at = "reading"
          /\ n.kind = kind /\ n.children = tree[p].children
      BY <1>1, <1>2, <2>2 DEF ReadNodes
    <2>4. t = [tree EXCEPT ![p] = n] /\ t[p].kind = kind
      <3>1. Required \subseteq got
        BY <1>4 DEF Classifiable
      <3>. QED  BY <1>1, <3>1 DEF ReadNodes
    <2>5. (missed => missed') /\ (~missed' => kind = S /\ ~missed)
      BY <2>1
    <2>6. CASE Finalize(t, p) /\ kind \notin {"struct", "array"}
      <3>. HIDE DEF n, t
      <3>. QED  BY <1>1, <2>3, <2>4, <2>5, <2>6, SettledReadKeepsInv
    <2>7. CASE /\ kind \in {"struct", "array"}
               /\ tree' = [t EXCEPT ![p].at = "browsing"]
               /\ UNCHANGED <<phase, answers, answer>>
      <3>. PICK m : m = [n EXCEPT !.at = "browsing"]
        OBVIOUS
      <3>1. tree' = [tree EXCEPT ![p] = m]
        BY <2>4, <2>7, <1>1
      <3>2. /\ m \in ReadNodes /\ m.pendingChildren = tree[p].pendingChildren /\ m.at = "browsing"
            /\ m.kind = kind /\ m.children = <<>>
        <4>1. tree[p].children = <<>>
          BY <1>1 DEF ReaderInv, Known
        <4>. QED  BY <2>3, <4>1 DEF ReadNodes
      <3>. HIDE DEF n, t
      <3>3. Known(p, m)'
        BY <1>1, <2>5, <2>7, <3>2 DEF Known
      <3>. QED  BY <1>1, <2>5, <2>7, <3>1, <3>2, <3>3, QuietKeepsInv
    <2>8. t[p].kind = kind
      BY <2>4
    <2>. QED  BY <2>1, <2>6, <2>7, <2>8
  <1>. QED  BY <1>3, <1>4

LEMMA BrowseRefusedKeepsInv ==
  ASSUME ReaderInv, NEW p \in DOMAIN tree, NEW parts \in SUBSET Required, BrowseRefused(p, parts)
  PROVE  ReaderInv'
  <1>. DEFINE n == [tree[p] EXCEPT !.got = Required, !.kind = shape[ReadId(p)].kind]
              t == [tree EXCEPT ![p].got = Required, ![p].kind = shape[ReadId(p)].kind]
  <1>1. /\ phase \in {"reading", "finished"} /\ tree[p].at = "reading" /\ UNCHANGED <<shape, resolved>>
        /\ missed' = TRUE /\ Finalize(t, p)
    BY Zenon DEF BrowseRefused, Handles
  <1>2. tree \in [DOMAIN tree -> ReadNodes] /\ tree[p] \in ReadNodes /\ shape[ReadId(p)].kind \in Kinds
    BY NodeIsKnown DEF ReaderInv, TreeCounts
  <1>3. /\ n \in ReadNodes /\ n.pendingChildren = tree[p].pendingChildren /\ n.at = "reading"
        /\ n.children = tree[p].children
    BY <1>1, <1>2 DEF ReadNodes
  <1>4. t = [tree EXCEPT ![p] = n]
    BY <1>2 DEF ReadNodes
  <1>. HIDE DEF n, t
  <1>. QED  BY <1>1, <1>3, <1>4, SettledReadKeepsInv

-----------------------------------------------------------------------------
(* The path of a child.                                                    *)
LEMMA ChildPath ==
  ASSUME NEW D, TreePaths(D), NEW p \in D, NEW c \in DOMAIN shape
  PROVE  /\ Append(p, c) \in Seq(DOMAIN shape) /\ Len(Append(p, c)) > 0
         /\ Append(p, c)[1] = ReadRoot
         /\ ParentOf(Append(p, c)) = p /\ Chain(Append(p, c)) = Chain(p) \cup {Append(p, c)}
         /\ Append(p, c) # p
  <1>. DEFINE S == DOMAIN shape
              q == Append(p, c)
  <1>1. p \in Seq(S) /\ Len(p) > 0 /\ p[1] = ReadRoot
    BY DEF TreePaths
  <1>2. /\ q \in Seq(S) /\ Len(q) = Len(p) + 1 /\ Len(p) \in Nat
        /\ \A i \in 1..Len(p) : q[i] = p[i]
    BY <1>1
  <1>. HIDE DEF q
  <1>3. /\ ParentOf(q) \in Seq(S) /\ Len(ParentOf(q)) = Len(p)
        /\ \A i \in 1..Len(p) : ParentOf(q)[i] = q[i]
        /\ Chain(q) = Chain(ParentOf(q)) \cup {q}
    BY <1>1, <1>2, ParentMembers
  <1>4. ParentOf(q) = p
    BY <1>1, <1>2, <1>3, SeqEqual
  <1>5. q # p
    BY <1>2
  <1>. QED  BY <1>1, <1>2, <1>3, <1>4, <1>5 DEF q

ChildrenOf(p, kids) == {Append(p, kids[k]) : k \in DOMAIN kids}

LEMMA ChildPaths ==
  ASSUME NEW D, TreePaths(D), NEW p \in D, NEW kids \in Seq(DOMAIN shape),
         NEW new, new = ChildrenOf(p, kids)
  PROVE  /\ IsFiniteSet(new)
         /\ \A q \in new : /\ q \in Seq(DOMAIN shape) /\ Len(q) > 0 /\ q[1] = ReadRoot
                           /\ ParentOf(q) = p /\ Chain(q) = Chain(p) \cup {q} /\ q # p
  <1>1. DOMAIN kids = 1..Len(kids) /\ Len(kids) \in Nat /\ \A k \in DOMAIN kids : kids[k] \in DOMAIN shape
    OBVIOUS
  <1>2. \A q \in new : /\ q \in Seq(DOMAIN shape) /\ Len(q) > 0 /\ q[1] = ReadRoot
                       /\ ParentOf(q) = p /\ Chain(q) = Chain(p) \cup {q} /\ q # p
    <2>. SUFFICES ASSUME NEW k \in DOMAIN kids
                  PROVE  LET q == Append(p, kids[k])
                         IN /\ q \in Seq(DOMAIN shape) /\ Len(q) > 0 /\ q[1] = ReadRoot
                            /\ ParentOf(q) = p /\ Chain(q) = Chain(p) \cup {q} /\ q # p
      BY Zenon DEF ChildrenOf
    <2>. QED  BY <1>1, ChildPath, Zenon
  <1>3. IsFiniteSet(new)
    <2>. DEFINE f == [k \in 1..Len(kids) |-> Append(p, kids[k])]
    <2>1. IsFiniteSet(1..Len(kids))
      BY <1>1, FS_Interval
    <2>2. f \in Surjection(1..Len(kids), new)
      BY <1>1 DEF Surjection, ChildrenOf
    <2>. QED  BY <2>1, <2>2, FS_Surjection
  <1>. QED  BY <1>2, <1>3

(* The tree t when the browse of p was answered with kids, of which those in open  *)
(* are being read.                                                         *)
ReadsOn(p, kids, new, begin, open, t) ==
  /\ p \in DOMAIN tree /\ tree[p].at = "browsing" /\ kids \in Seq(DOMAIN shape)
  /\ new = ChildrenOf(p, kids)
  /\ begin \in [new -> Resolutions]
  /\ open = {q \in new : begin[q].at = "reading"}
  /\ DOMAIN t = DOMAIN tree \cup new
  /\ \A q \in DOMAIN t :
       t[q] = IF q \in new THEN begin[q]
              ELSE IF q = p THEN [tree[p] EXCEPT !.at = "waiting", !.children = kids,
                                                 !.pendingChildren = Cardinality(open)]
              ELSE tree[q]
  /\ t = [q \in DOMAIN t |-> t[q]]

LEMMA ChildrenCounted ==
  ASSUME ReaderInv, NEW p, NEW kids, NEW new, NEW begin, NEW open, NEW t,
         ReadsOn(p, kids, new, begin, open, t)
  PROVE  /\ DOMAIN tree \cap new = {} /\ p \in DOMAIN t /\ TreePaths(DOMAIN t) /\ t \in [DOMAIN t -> ReadNodes]
         /\ Cardinality(open) \in Nat /\ (open = {} <=> Cardinality(open) = 0)
         /\ \A m \in DOMAIN t : PendOf(t)[m] = Cardinality(Open(DOMAIN t, Over(DOMAIN t), StOf(t), m))
         /\ \A m \in DOMAIN t \ {p} : StOf(t)[m] = "waiting" <=> PendOf(t)[m] > 0
         /\ \A m \in DOMAIN t : t[m].at \in {"reading", "browsing"} => \A q \in DOMAIN t : ParentOf(q) # m
         /\ t[p].at = "waiting" /\ t[p].pendingChildren = Cardinality(open)
  <1>. DEFINE D == DOMAIN tree
              E == DOMAIN t
  <1>0. kids \in Seq(DOMAIN shape) /\ new = ChildrenOf(p, kids)
    BY DEF ReadsOn
  <1>1. /\ TreePaths(D) /\ tree \in [D -> ReadNodes] /\ Exact(D, Over(D), StOf(tree), PendOf(tree))
        /\ \A q \in D : tree[q].at \in {"reading", "browsing"} => \A c \in D : ParentOf(c) # q
        /\ p \in D /\ D # {}
    BY DEF ReaderInv, TreeCounts, ReadsOn
  <1>2. \A q \in new : /\ q \in Seq(DOMAIN shape) /\ Len(q) > 0 /\ q[1] = ReadRoot
                       /\ ParentOf(q) = p /\ Chain(q) = Chain(p) \cup {q} /\ q # p
    <2>1. PICK d : d = D
      OBVIOUS
    <2>2. TreePaths(d) /\ p \in d
      BY <1>1, <2>1
    <2>. QED  BY ONLY <1>0, <2>2, ChildPaths
  <1>3. D \cap new = {} /\ E = D \cup new /\ p \in E
    BY <1>1, <1>2 DEF ReadsOn
  <1>4. /\ \A q \in new : t[q] = begin[q]
        /\ \A q \in D \ {p} : t[q] = tree[q]
        /\ t[p] = [tree[p] EXCEPT !.at = "waiting", !.children = kids, !.pendingChildren = Cardinality(open)]
    BY <1>3 DEF ReadsOn
  <1>5. IsFiniteSet(new) /\ IsFiniteSet(open) /\ Cardinality(open) \in Nat
        /\ (open = {} <=> Cardinality(open) = 0)
    <2>4. IsFiniteSet(new)
      BY <1>0, <1>1, ChildPaths
    <2>5. open \in SUBSET new
      BY DEF ReadsOn
    <2>. QED  BY <2>4, <2>5, FS_Subset, FS_CardinalityType, FS_EmptySet
  <1>6. TreePaths(E)
    <2>1. IsFiniteSet(E)
      <3>1. IsFiniteSet(D) /\ E = D \cup new /\ IsFiniteSet(new)
        BY <1>1, <1>3, <1>5 DEF TreePaths
      <3>. HIDE DEF D, E
      <3>. QED  BY <3>1, FS_Union
    <2>2. \A q \in E : q \in Seq(DOMAIN shape) /\ Len(q) > 0 /\ q[1] = ReadRoot /\ Chain(q) \subseteq E
      <3>1. \A q \in new : Chain(q) \subseteq E
        BY <1>1, <1>2, <1>3 DEF TreePaths
      <3>2. \A q \in D : Chain(q) \subseteq E
        BY <1>1, <1>3 DEF TreePaths
      <3>. QED  BY <1>1, <1>2, <1>3, <3>1, <3>2 DEF TreePaths
    <2>. QED  BY <1>1, <1>3, <2>1, <2>2 DEF TreePaths
  <1>7. \A q \in new : /\ begin[q] \in ReadNodes /\ begin[q].pendingChildren = 0 /\ begin[q].at \in {"reading", "done"}
    <2>. SUFFICES ASSUME NEW q \in new
                  PROVE  /\ begin[q] \in ReadNodes /\ begin[q].pendingChildren = 0
                         /\ begin[q].at \in {"reading", "done"}
      OBVIOUS
    <2>1. begin[q] \in Resolutions
      BY DEF ReadsOn
    <2>2. <<>> \in Seq(DOMAIN shape) /\ "scalar" \in Kinds /\ {} \in SUBSET Required
      BY DEF Kinds
    <2>3. ReadNode \in ReadNodes /\ ReadNode.at = "reading" /\ ReadNode.pendingChildren = 0
      BY <2>2 DEF ReadNode, ReadNodes
    <2>4. begin[q] = ReadNode \/ begin[q] = [ReadNode EXCEPT !.at = "done"]
      BY <2>1 DEF Resolutions
    <2>. QED  BY <2>3, <2>4 DEF ReadNodes
  <1>8. t[p] \in ReadNodes /\ t[p].at = "waiting" /\ t[p].pendingChildren = Cardinality(open)
    <2>1. tree[p] \in ReadNodes /\ kids \in Seq(DOMAIN shape)
      BY <1>1 DEF ReadsOn
    <2>. QED  BY <1>4, <1>5, <2>1 DEF ReadNodes
  <1>9. t \in [E -> ReadNodes]
    <2>1. \A q \in E : t[q] \in ReadNodes
      BY <1>1, <1>3, <1>4, <1>7, <1>8
    <2>. QED  BY <2>1 DEF ReadsOn
  <1>. HIDE DEF D, E
  <1>10. /\ \A q \in E : StOf(t)[q] = t[q].at /\ PendOf(t)[q] = t[q].pendingChildren /\ Over(E)[q] = ParentOf(q)
         /\ \A q \in D : StOf(tree)[q] = tree[q].at /\ PendOf(tree)[q] = tree[q].pendingChildren
                         /\ Over(D)[q] = ParentOf(q)
    BY DEF StOf, PendOf, Over, D, E
  <1>11. \A m \in D : ParentOf(m) \notin new
    <2>. SUFFICES ASSUME NEW m \in D, ParentOf(m) \in new PROVE FALSE
      OBVIOUS
    <2>1. /\ TreeOK(D, <<ReadRoot>>, D, Over(D), Above(D))
      BY <1>1, PathsAreTree DEF D
    <2>2. m = <<ReadRoot>>
      BY <1>3, <1>10, <2>1 DEF TreeOK
    <2>3. Len(ParentOf(m)) = Len(m) - 1
      BY <1>1, PathsAreTree DEF D
    <2>. QED  BY <1>2, <2>2, <2>3
  <1>12. \A m \in D \ {p} : Open(E, Over(E), StOf(t), m) = Open(D, Over(D), StOf(tree), m)
    <2>. SUFFICES ASSUME NEW m \in D \ {p}
                  PROVE  Open(E, Over(E), StOf(t), m) = Open(D, Over(D), StOf(tree), m)
      OBVIOUS
    <2>0. tree[p].at = "browsing"
      BY DEF ReadsOn
    <2>1. \A c \in D : (StOf(t)[c] # "done") <=> (StOf(tree)[c] # "done")
      <3>1. \A c \in D \ {p} : StOf(t)[c] = StOf(tree)[c]
        BY ONLY <1>3, <1>4, <1>10
      <3>2. StOf(t)[p] = "waiting" /\ StOf(tree)[p] = "browsing"
        BY ONLY <1>1, <1>3, <1>8, <1>10, <2>0 DEF D
      <3>. QED  BY ONLY <3>1, <3>2
    <2>2. \A c \in E : Over(E)[c] = m => c \in D
      BY ONLY <1>2, <1>3, <1>10, m \in D \ {p}
    <2>3. \A c \in D : c \in E /\ Over(E)[c] = Over(D)[c]
      BY ONLY <1>3, <1>10
    <2>. QED  BY ONLY <2>1, <2>2, <2>3 DEF Open
  <1>13. \A m \in new : Open(E, Over(E), StOf(t), m) = {}
    <2>1. \A m \in new : \A c \in E : Over(E)[c] # m
      <3>1. \A c \in new : Over(E)[c] = p /\ p \notin new
        BY ONLY <1>1, <1>2, <1>3, <1>10 DEF D
      <3>2. \A c \in D : Over(E)[c] \notin new
        BY ONLY <1>3, <1>10, <1>11
      <3>. QED  BY ONLY <1>3, <3>1, <3>2
    <2>. QED  BY ONLY <2>1 DEF Open
  <1>14. Open(E, Over(E), StOf(t), p) = open
    <2>1. tree[p].at = "browsing"
      BY DEF ReadsOn
    <2>2. \A c \in D : ParentOf(c) # p
      BY <1>1, <2>1 DEF D
    <2>3. open = {q \in new : begin[q].at = "reading"}
      BY DEF ReadsOn
    <2>4. \A c \in E : Over(E)[c] = p <=> c \in new
      BY ONLY <1>2, <1>3, <1>10, <2>2, ZenonT(40)
    <2>5. \A c \in new : c \in E /\ (StOf(t)[c] # "done" <=> begin[c].at = "reading")
      BY ONLY <1>3, <1>4, <1>7, <1>10
    <2>. QED  BY ONLY <2>3, <2>4, <2>5 DEF Open
  <1>15. \A m \in E : PendOf(t)[m] = Cardinality(Open(E, Over(E), StOf(t), m))
    <2>1. \A m \in new : PendOf(t)[m] = Cardinality(Open(E, Over(E), StOf(t), m))
      <3>1. Cardinality({}) = 0
        BY FS_EmptySet
      <3>2. \A m \in new : PendOf(t)[m] = 0
        BY ONLY <1>3, <1>4, <1>7, <1>10
      <3>. QED  BY ONLY <1>13, <3>1, <3>2
    <2>2. \A m \in D \ {p} : PendOf(t)[m] = Cardinality(Open(E, Over(E), StOf(t), m))
      <3>1. \A m \in D : PendOf(tree)[m] = Cardinality(Open(D, Over(D), StOf(tree), m))
        BY ONLY <1>1 DEF Exact, D
      <3>2. \A m \in D \ {p} : PendOf(t)[m] = PendOf(tree)[m]
        BY ONLY <1>3, <1>4, <1>10
      <3>. QED  BY ONLY <1>12, <3>1, <3>2
    <2>3. PendOf(t)[p] = Cardinality(Open(E, Over(E), StOf(t), p))
      BY <1>3, <1>8, <1>10, <1>14
    <2>. QED  BY <1>3, <2>1, <2>2, <2>3
  <1>16. \A m \in E \ {p} : StOf(t)[m] = "waiting" <=> PendOf(t)[m] > 0
    <2>1. \A m \in new : StOf(t)[m] = "waiting" <=> PendOf(t)[m] > 0
      BY <1>3, <1>4, <1>7, <1>10
    <2>2. \A m \in D \ {p} : StOf(t)[m] = "waiting" <=> PendOf(t)[m] > 0
      BY <1>1, <1>3, <1>4, <1>10 DEF Exact, D
    <2>. QED  BY <1>3, <2>1, <2>2
  <1>17. \A m \in E : t[m].at \in {"reading", "browsing"} => \A q \in E : ParentOf(q) # m
    <2>1. \A m \in new : \A q \in E : ParentOf(q) # m
      BY <1>2, <1>3, <1>11
    <2>2. \A m \in D \ {p} : t[m].at \in {"reading", "browsing"} => \A q \in E : ParentOf(q) # m
      BY <1>1, <1>2, <1>3, <1>4 DEF D
    <2>3. t[p].at \notin {"reading", "browsing"}
      BY <1>8
    <2>. QED  BY <1>3, <2>1, <2>2, <2>3
  <1>. QED  BY <1>3, <1>5, <1>6, <1>8, <1>9, <1>15, <1>16, <1>17 DEF D, E

-----------------------------------------------------------------------------
(* The children in the order std::sort() leaves them are those that were found, *)
(* elements by their index.                                                *)
LEMMA OrderedChildren ==
  ASSUME NEW S, NEW kind, NEW found \in Seq(S), NEW kids \in Ordered(kind, found)
  PROVE  /\ kids \in Seq(S) /\ ToSet(kids) = ToSet(found)
         /\ \A k, l \in DOMAIN kids :
              kind = "array" /\ k < l => ElementIndex[kids[k]] <= ElementIndex[kids[l]]
  <1>1. CASE kind # "array"
    <2>1. kids = found
      BY <1>1 DEF Ordered
    <2>. QED  BY <1>1, <2>1
  <1>2. CASE kind = "array"
    <2>1. /\ kids \in [DOMAIN found -> ToSet(found)] /\ ToSet(kids) = ToSet(found)
          /\ \A k, l \in DOMAIN kids : k < l => ElementIndex[kids[k]] <= ElementIndex[kids[l]]
      BY <1>2, Zenon DEF Ordered
    <2>2. DOMAIN found = 1..Len(found) /\ Len(found) \in Nat /\ ToSet(found) \subseteq S
      BY DEF ToSet
    <2>3. kids \in [1..Len(found) -> S]
      BY <2>1, <2>2
    <2>4. kids \in Seq(S)
      BY <2>2, <2>3, SeqDef
    <2>. QED  BY <2>1, <2>4
  <1>. QED  BY <1>1, <1>2

(* What is known of p and of its children once its browse was answered.       *)
LEMMA ChildrenKnown ==
  ASSUME ReaderInv, NEW p, NEW kids, NEW new, NEW begin, NEW open, NEW t,
         ReadsOn(p, kids, new, begin, open, t), UNCHANGED shape,
         resolved' \in Nat, resolved <= resolved', missed => missed', open # new => missed',
         \A k, l \in DOMAIN kids :
           tree[p].kind = "array" /\ k < l => ElementIndex[kids[k]] <= ElementIndex[kids[l]],
         ~missed' => \/ ToSet(kids) = ToSet(shape[ReadId(p)].members)
                     \/ kids = <<>> /\ (ReadDepth(p) >= MaxReadDepth \/ resolved' >= MaxReadNodes),
         NEW at \in {"waiting", "done"}
  PROVE  /\ \A q \in DOMAIN t \ {p} : Known(q, t[q])'
         /\ Known(p, [t[p] EXCEPT !.at = at])'
  <1>1. /\ DOMAIN tree \cap new = {} /\ DOMAIN t = DOMAIN tree \cup new /\ p \in DOMAIN tree
        /\ tree[p].at = "browsing" /\ p \in DOMAIN t
    <2>1. DOMAIN tree \cap new = {} /\ p \in DOMAIN t
      BY ChildrenCounted
    <2>. QED  BY <2>1 DEF ReadsOn
  <1>2. /\ \A q \in new : t[q] = begin[q]
        /\ \A q \in DOMAIN tree \ {p} : t[q] = tree[q]
        /\ t[p] = [tree[p] EXCEPT !.at = "waiting", !.children = kids, !.pendingChildren = Cardinality(open)]
    BY <1>1 DEF ReadsOn
  <1>3. ASSUME NEW q \in DOMAIN tree \ {p} PROVE Known(q, t[q])'
    <2>1. PICK m : m = tree[q]
      OBVIOUS
    <2>2. Known(q, m) /\ t[q] = m /\ resolved \in Nat /\ shape' = shape
      BY <1>2, <2>1 DEF ReaderInv
    <2>3. Known(q, m)'
      BY ONLY <2>2, missed => missed', resolved' \in Nat, resolved <= resolved', KnownStays
    <2>. QED  BY <2>2, <2>3
  <1>4. ASSUME NEW q \in new PROVE Known(q, t[q])'
    <2>1. PICK m : m = t[q]
      OBVIOUS
    <2>2. m \in Resolutions /\ (m.at # "reading" => missed')
      BY <1>2, <2>1 DEF ReadsOn
    <2>3. m.children = <<>>
      BY <2>2 DEF Resolutions, ReadNode
    <2>4. Known(q, m)'
      BY <2>2, <2>3 DEF Known
    <2>. QED  BY <2>1, <2>4
  <1>5. Known(p, [t[p] EXCEPT !.at = at])'
    <2>1. PICK m : m = [t[p] EXCEPT !.at = at]
      OBVIOUS
    <2>2. tree[p] \in ReadNodes
      BY <1>1 DEF ReaderInv, TreeCounts
    <2>3. m.at = at /\ m.children = kids /\ m.kind = tree[p].kind
      BY <1>2, <2>1, <2>2 DEF ReadNodes
    <2>4. ~missed' => tree[p].kind = shape[ReadId(p)].kind /\ tree[p].kind \in {"struct", "array"}
      BY <1>1 DEF ReaderInv, Known
    <2>5. Known(p, m)'
      BY <2>3, <2>4 DEF Known
    <2>. QED  BY <2>1, <2>5
  <1>. QED  BY <1>1, <1>3, <1>4, <1>5

LEMMA HandleChildrenKeepsInv ==
  ASSUME ReaderInv, NEW p \in DOMAIN tree, NEW found \in {shape[ReadId(p)].members, <<>>},
         HandleChildren(p, found)
  PROVE  ReaderInv'
  <1>. DEFINE cap == ReadDepth(p) >= MaxReadDepth \/ resolved >= MaxReadNodes
              new(kids) == {Append(p, kids[k]) : k \in DOMAIN kids}
              open(kids, begin) == {q \in new(kids) : begin[q].at = "reading"}
              grown(kids, begin) == [q \in DOMAIN tree \cup new(kids) |->
                           IF q \in new(kids) THEN begin[q]
                           ELSE IF q = p
                             THEN [tree[p] EXCEPT !.at = "waiting", !.children = kids,
                                                  !.pendingChildren = Cardinality(open(kids, begin))]
                           ELSE tree[q]]
  <1>1. PICK kids \in IF cap THEN {<<>>} ELSE Ordered(tree[p].kind, found) :
          /\ resolved' = resolved + Len(kids)
          /\ \E begin \in [new(kids) -> Resolutions] :
               /\ missed' = (missed \/ found # shape[ReadId(p)].members \/ open(kids, begin) # new(kids))
               /\ IF open(kids, begin) = {} THEN Finalize(grown(kids, begin), p)
                  ELSE tree' = grown(kids, begin) /\ UNCHANGED <<phase, answers, answer>>
    BY Zenon DEF HandleChildren
  <1>2. PICK begin \in [new(kids) -> Resolutions] :
          /\ missed' = (missed \/ found # shape[ReadId(p)].members \/ open(kids, begin) # new(kids))
          /\ IF open(kids, begin) = {} THEN Finalize(grown(kids, begin), p)
             ELSE tree' = grown(kids, begin) /\ UNCHANGED <<phase, answers, answer>>
    BY <1>1
  <1>3. /\ phase \in {"reading", "finished"} /\ tree[p].at = "browsing" /\ UNCHANGED shape
    BY Zenon DEF HandleChildren, Handles
  <1>4. found \in Seq(DOMAIN shape)
    <2>1. shape[ReadId(p)].members \in Seq(DOMAIN shape)
      BY NodeIsKnown DEF ReaderInv, TreeCounts
    <2>2. <<>> \in Seq(DOMAIN shape)
      OBVIOUS
    <2>. QED  BY ONLY <2>1, <2>2, found \in {shape[ReadId(p)].members, <<>>}
  <1>5. /\ kids \in Seq(DOMAIN shape) /\ (cap \/ ToSet(kids) = ToSet(found)) /\ (cap => kids = <<>>)
        /\ \A k, l \in DOMAIN kids :
             tree[p].kind = "array" /\ k < l => ElementIndex[kids[k]] <= ElementIndex[kids[l]]
    <2>1. CASE cap
      <3>1. kids = <<>>
        BY <1>1, <2>1
      <3>. QED  BY <2>1, <3>1
    <2>2. CASE ~cap
      <3>1. kids \in Ordered(tree[p].kind, found)
        BY <1>1, <2>2
      <3>. HIDE DEF cap
      <3>. QED  BY <1>4, <2>2, <3>1, OrderedChildren
    <2>. QED  BY <2>1, <2>2
  <1>6. /\ resolved \in Nat /\ resolved' \in Nat /\ resolved <= resolved'
    <2>1. resolved \in Nat /\ Len(kids) \in Nat /\ resolved' = resolved + Len(kids)
      <3>1. resolved \in Nat
        BY DEF ReaderInv
      <3>2. Len(kids) \in Nat
        BY ONLY <1>5
      <3>. QED  BY <1>1, <3>1, <3>2
    <2>. QED  BY ONLY <2>1
  <1>7. ~missed' => \/ ToSet(kids) = ToSet(shape[ReadId(p)].members)
                    \/ kids = <<>> /\ (ReadDepth(p) >= MaxReadDepth \/ resolved' >= MaxReadNodes)
    <2>1. ~missed' => found = shape[ReadId(p)].members
      BY <1>2
    <2>2. resolved >= MaxReadNodes => resolved' >= MaxReadNodes
      BY <1>6, ReaderAssumption DEF ReaderAssumption
    <2>. QED  BY <1>5, <2>1, <2>2
  <1>. PICK N, O, t : N = new(kids) /\ O = open(kids, begin) /\ t = grown(kids, begin)
    OBVIOUS
  <1>8. (missed => missed') /\ (O # N => missed')
    BY <1>2
  <1>9. ReadsOn(p, kids, N, begin, O, t)
    BY <1>2, <1>3, <1>5 DEF ReadsOn, ChildrenOf
  <1>10. IF O = {} THEN Finalize(t, p) ELSE tree' = t /\ UNCHANGED <<phase, answers, answer>>
    BY <1>2
  <1>. HIDE DEF new, open, grown, cap
  <1>11. /\ DOMAIN tree \cap N = {} /\ DOMAIN t = DOMAIN tree \cup N
         /\ \A q \in DOMAIN tree \ {p} : t[q] = tree[q]
    <2>1. DOMAIN tree \cap N = {}
      BY <1>9, ChildrenCounted
    <2>. QED  BY <1>9, <2>1 DEF ReadsOn
  <1>12. /\ p \in DOMAIN t /\ TreePaths(DOMAIN t) /\ t \in [DOMAIN t -> ReadNodes]
         /\ Cardinality(O) \in Nat /\ (O = {} <=> Cardinality(O) = 0)
         /\ \A m \in DOMAIN t : PendOf(t)[m] = Cardinality(Open(DOMAIN t, Over(DOMAIN t), StOf(t), m))
         /\ \A m \in DOMAIN t \ {p} : StOf(t)[m] = "waiting" <=> PendOf(t)[m] > 0
         /\ \A m \in DOMAIN t : t[m].at \in {"reading", "browsing"} => \A q \in DOMAIN t : ParentOf(q) # m
         /\ t[p].at = "waiting" /\ t[p].pendingChildren = Cardinality(O)
    BY <1>9, ChildrenCounted
  <1>13. t[<<ReadRoot>>].at = "done" => tree[<<ReadRoot>>].at = "done"
    <2>1. <<ReadRoot>> \in DOMAIN tree
      BY DEF ReaderInv, TreeCounts, TreePaths
    <2>. QED  BY <1>11, <1>12, <2>1
  <1>14. ASSUME NEW at \in {"waiting", "done"}
         PROVE  /\ \A q \in DOMAIN t \ {p} : Known(q, t[q])'
                /\ Known(p, [t[p] EXCEPT !.at = at])'
    BY ONLY ReaderInv, <1>3, <1>5, <1>6, <1>7, <1>8, <1>9, <1>14, ChildrenKnown
  <1>15. CASE O = {}
    <2>1. Finishes(t, p)
      BY <1>12, <1>15 DEF Finishes
    <2>2. Finalize(t, p)
      BY <1>10, <1>15
    <2>3. tree[p].at # "done"
      BY <1>3
    <2>4. (\A q \in DOMAIN t \ {p} : Known(q, t[q])') /\ Known(p, [t[p] EXCEPT !.at = "done"])'
      BY <1>14
    <2>. QED  BY <1>3, <1>6, <1>8, <1>13, <2>1, <2>2, <2>3, <2>4, FinalizeKeepsInv
  <1>16. CASE O # {}
    <2>1. tree' = t /\ UNCHANGED <<phase, answers, answer>>
      BY <1>10, <1>16
    <2>2. Exact(DOMAIN t, Over(DOMAIN t), StOf(t), PendOf(t))
      <3>1. StOf(t)[p] = "waiting" /\ PendOf(t)[p] > 0
        BY <1>12, <1>16 DEF StOf, PendOf
      <3>. QED  BY <1>12, <3>1 DEF Exact
    <2>3. TreeCounts(tree)'
      BY <1>3, <1>12, <2>1, <2>2 DEF TreeCounts, TreePaths, ReadNodes
    <2>4. \A q \in DOMAIN t : Known(q, tree[q])'
      <3>1. (\A q \in DOMAIN t \ {p} : Known(q, t[q])') /\ Known(p, [t[p] EXCEPT !.at = "waiting"])'
        BY <1>14
      <3>2. [t[p] EXCEPT !.at = "waiting"] = t[p]
        BY <1>12 DEF ReadNodes
      <3>. QED  BY <2>1, <3>1, <3>2
    <2>5. Reported'
      <3>1. answer # NoTree => ~answer.whole
        BY <1>3 DEF ReaderInv, Reported
      <3>2. phase = "reading" => tree'[<<ReadRoot>>].at # "done"
        BY <1>13, <2>1 DEF ReaderInv, Reported
      <3>. QED  BY <2>1, <3>1, <3>2 DEF ReaderInv, Reported
    <2>. QED  BY <1>3, <1>6, <1>12, <2>1, <2>3, <2>4, <2>5 DEF ReaderInv
  <1>. QED  BY <1>15, <1>16

-----------------------------------------------------------------------------
(* The invariant holds when a reader is created, and its first step keeps it. *)
LEMMA ReaderInitInv == ASSUME ReaderInit PROVE ReaderInv
  <1>1. DOMAIN tree = {} /\ tree = [q \in {} |-> tree[q]] /\ shape \in Shapes /\ resolved \in Nat
    BY DEF ReaderInit
  <1>2. TreePaths(DOMAIN tree) /\ tree \in [DOMAIN tree -> ReadNodes]
    BY <1>1, FS_EmptySet DEF TreePaths
  <1>3. TreeCounts(tree)
    BY <1>1, <1>2 DEF TreeCounts, Exact
  <1>. QED  BY <1>1, <1>3 DEF ReaderInit, ReaderInv, Reported

LEMMA StartReaderKeepsInv == ASSUME ReaderInv, StartReader PROVE ReaderInv'
  <1>. DEFINE r == <<ReadRoot>>
  <1>1. PICK begin \in Resolutions :
          /\ tree' = [q \in {r} |-> begin]
          /\ missed' = (begin.at = "done")
          /\ IF begin.at = "done" THEN EmitTree(tree', TRUE)
             ELSE phase' = "reading" /\ UNCHANGED <<answers, answer>>
    BY Zenon DEF StartReader
  <1>2. /\ phase = "new" /\ resolved' = 1 /\ UNCHANGED shape /\ shape \in Shapes
        /\ answers = 0 /\ answer = NoTree
    BY DEF StartReader, ReaderInv, Reported
  <1>3. /\ begin \in ReadNodes /\ begin.pendingChildren = 0 /\ begin.at \in {"reading", "done"}
        /\ begin.children = <<>>
    <2>1. <<>> \in Seq(DOMAIN shape) /\ "scalar" \in Kinds /\ {} \in SUBSET Required
      BY DEF Kinds
    <2>2. ReadNode \in ReadNodes /\ ReadNode.at = "reading" /\ ReadNode.pendingChildren = 0
          /\ ReadNode.children = <<>>
      BY <2>1 DEF ReadNode, ReadNodes
    <2>3. begin = ReadNode \/ begin = [ReadNode EXCEPT !.at = "done"]
      BY DEF Resolutions
    <2>. QED  BY <2>2, <2>3 DEF ReadNodes
  <1>4. tree' = [q \in {r} |-> begin]
    BY <1>1
  <1>5. DOMAIN tree' = {r} /\ tree'[r] = begin /\ tree' \in [{r} -> ReadNodes]
    BY <1>3, <1>4
  <1>6. TreePaths({r}) /\ ParentOf(r) # r
    <2>1. r \in Seq(DOMAIN shape) /\ Len(r) = 1 /\ r[1] = ReadRoot
      BY <1>2, ReaderAssumption DEF ReaderAssumption
    <2>. HIDE DEF r
    <2>2. Chain(r) = {r}
      <3>1. \A q \in Chain(r) : q \in Seq(DOMAIN shape) /\ Len(q) \in 1..1 /\ \A i \in 1..Len(q) : q[i] = r[i]
        BY <2>1, ChainMembers
      <3>2. \A q \in Chain(r) : q = r
        BY <2>1, <3>1, SeqEqual
      <3>3. r \in Chain(r)
        <4>1. Len(r) > 0
          BY <2>1
        <4>. QED  BY <2>1, <4>1, ParentMembers
      <3>. QED  BY <3>2, <3>3
    <2>3. Len(ParentOf(r)) = 0
      BY <2>1, ParentMembers
    <2>4. IsFiniteSet({r})
      BY FS_Singleton
    <2>. QED  BY <2>1, <2>2, <2>3, <2>4 DEF TreePaths, r
  <1>7. \A q \in {r} : StOf(tree')[q] = begin.at /\ PendOf(tree')[q] = 0 /\ Over({r})[q] = ParentOf(q)
    BY <1>3, <1>5 DEF StOf, PendOf, Over
  <1>8. Exact({r}, Over({r}), StOf(tree'), PendOf(tree'))
    <2>1. Open({r}, Over({r}), StOf(tree'), r) = {}
      BY <1>6, <1>7 DEF Open
    <2>2. Cardinality({}) = 0 /\ begin.at # "waiting"
      BY <1>3, FS_EmptySet
    <2>. HIDE DEF r
    <2>. QED  BY ONLY <1>7, <2>1, <2>2 DEF Exact
  <1>. HIDE DEF r
  <1>9. TreeCounts(tree)'
    <2>1. TreePaths({r})' /\ ReadNodes' = ReadNodes
      BY <1>2, <1>6 DEF TreePaths, ReadNodes
    <2>. QED  BY <1>5, <1>6, <1>8, <2>1 DEF TreeCounts
  <1>10. \A q \in {r} : Known(q, tree[q])'
    <2>1. begin.at = "done" => missed'
      BY <1>1
    <2>. QED  BY <1>3, <1>5, <2>1 DEF Known
  <1>11. CASE begin.at = "done"
    <2>1. phase' = "finished" /\ answers' = 1 /\ answer' = [tree |-> tree', whole |-> TRUE]
      BY <1>1, <1>2, <1>11 DEF EmitTree
    <2>2. answer' # NoTree /\ answer'.tree = tree'
      BY <2>1 DEF NoTree
    <2>3. Reported'
      BY <1>5, <1>11, <2>1, <2>2 DEF Reported
    <2>. QED  BY <1>2, <1>5, <1>9, <1>10, <2>1, <2>3 DEF ReaderInv
  <1>12. CASE begin.at # "done"
    <2>1. phase' = "reading" /\ answers' = 0 /\ answer' = NoTree
      BY <1>1, <1>2, <1>12
    <2>2. NoTree.whole = FALSE
      BY DEF NoTree
    <2>3. Reported'
      BY <1>5, <1>12, <2>1, <2>2 DEF Reported, r
    <2>. QED  BY <1>2, <1>5, <1>9, <1>10, <2>1, <2>3 DEF ReaderInv
  <1>. QED  BY <1>11, <1>12

(* The tree is the same after a step, what is reported of it is consistent.  *)
LEMMA SameTreeKeepsInv ==
  ASSUME ReaderInv, UNCHANGED <<shape, tree, resolved, missed>>, phase = "new" <=> phase' = "new", Reported'
  PROVE  ReaderInv'
  <1>1. TreeCounts(tree)'
    BY DEF ReaderInv, TreeCounts, TreePaths, ReadNodes
  <1>2. \A q \in DOMAIN tree' : Known(q, tree[q])'
    BY DEF ReaderInv, Known
  <1>. QED  BY <1>1, <1>2 DEF ReaderInv

(* emitResult() by the timeout, and every step of the reader.                 *)
LEMMA ReaderTimeoutKeepsInv == ASSUME ReaderInv, ReaderTimeout PROVE ReaderInv'
  <1>1. /\ phase = "reading" /\ EmitTree(tree, FALSE) /\ UNCHANGED <<shape, tree, resolved, missed>>
    BY DEF ReaderTimeout
  <1>2. phase' = "finished" /\ answers' = 1 /\ answer' = [tree |-> tree, whole |-> FALSE] /\ DOMAIN tree # {}
    BY <1>1, SMTT(30) DEF EmitTree, ReaderInv, Reported
  <1>3. answer' # NoTree /\ ~answer'.whole
    BY <1>2 DEF NoTree
  <1>4. Reported'
    BY <1>1, <1>2, <1>3 DEF Reported
  <1>. QED  BY <1>1, <1>2, <1>4, SameTreeKeepsInv

LEMMA ReaderNextKeepsInv == ASSUME ReaderInv, [ReaderNext]_readerVars PROVE ReaderInv'
  <1>1. CASE StartReader
    BY <1>1, StartReaderKeepsInv
  <1>2. CASE \E p \in DOMAIN tree, parts \in SUBSET Required \ {{}} :
               ReadAttributes(p, parts) \/ BrowseRefused(p, parts)
    BY <1>2, ReadAttributesKeepsInv, BrowseRefusedKeepsInv
  <1>3. CASE \E p \in DOMAIN tree : \E found \in {shape[ReadId(p)].members, <<>>} : HandleChildren(p, found)
    BY <1>3, HandleChildrenKeepsInv
  <1>4. CASE ReaderTimeout
    BY <1>4, ReaderTimeoutKeepsInv
  <1>5. CASE ReaderDeleted
    <2>1. Reported'
      BY <1>5 DEF ReaderDeleted, ReaderInv, Reported
    <2>. QED  BY <1>5, <2>1, SameTreeKeepsInv DEF ReaderDeleted
  <1>6. CASE UNCHANGED readerVars
    <2>1. Reported'
      BY <1>6 DEF readerVars, ReaderInv, Reported
    <2>. QED  BY <1>6, <2>1, SameTreeKeepsInv DEF readerVars
  <1>. QED  BY <1>1, <1>2, <1>3, <1>4, <1>5, <1>6, Zenon DEF ReaderNext

(* What the invariant says of the reported tree.                            *)
LEMMA WholeFromInv == ASSUME ReaderInv PROVE ValueTreeIsWhole
  <1>. DEFINE D == DOMAIN tree
  <1>1. /\ TreePaths(D) /\ tree \in [D -> ReadNodes] /\ Exact(D, Over(D), StOf(tree), PendOf(tree))
    BY DEF ReaderInv, TreeCounts
  <1>2. answers = (IF answer = NoTree THEN 0 ELSE 1) /\ (phase = "reading" => tree[<<ReadRoot>>].at # "done")
    BY DEF ReaderInv, Reported
  <1>3. \A p \in D : tree[p].pendingChildren = Cardinality({q \in Below(tree, p) : tree[q].at # "done"})
    <2>. SUFFICES ASSUME NEW p \in D
                  PROVE  tree[p].pendingChildren = Cardinality({q \in Below(tree, p) : tree[q].at # "done"})
      OBVIOUS
    <2>1. \A q \in D : Len(ParentOf(q)) = Len(q) - 1 /\ Len(q) \in Nat /\ Over(D)[q] = ParentOf(q)
                       /\ StOf(tree)[q] = tree[q].at /\ PendOf(tree)[q] = tree[q].pendingChildren
      <3>1. \A q \in D : Len(ParentOf(q)) = Len(q) - 1 /\ Over(D)[q] = ParentOf(q)
        BY <1>1, PathsAreTree
      <3>2. \A q \in D : Len(q) \in Nat
        BY <1>1 DEF TreePaths
      <3>. QED  BY <3>1, <3>2 DEF StOf, PendOf
    <2>2. Open(D, Over(D), StOf(tree), p) = {q \in Below(tree, p) : tree[q].at # "done"}
      <3>1. \A q \in D : Over(D)[q] = p <=> Len(q) = Len(p) + 1 /\ ParentOf(q) = p
        BY <2>1
      <3>. QED  BY <2>1, <3>1 DEF Open, Below
    <2>. QED  BY <1>1, <2>1, <2>2 DEF Exact
  <1>4. ASSUME answer # NoTree, answer.whole
        PROVE  LET t == answer.tree
               IN \A p \in DOMAIN t :
                    /\ t[p].at = "done"
                    /\ \A k, l \in DOMAIN t[p].children :
                         t[p].kind = "array" /\ k < l =>
                           ElementIndex[t[p].children[k]] <= ElementIndex[t[p].children[l]]
                    /\ ~missed =>
                         /\ t[p].kind = shape[ReadId(p)].kind
                         /\ \/ ToSet(t[p].children) = ToSet(shape[ReadId(p)].members)
                            \/ t[p].kind \in {"struct", "array"} /\ t[p].children = <<>>
                               /\ (ReadDepth(p) >= MaxReadDepth \/ resolved >= MaxReadNodes)
    <2>1. answer.tree = tree /\ \A p \in D : tree[p].at = "done" /\ Known(p, tree[p])
      BY <1>4 DEF ReaderInv, Reported
    <2>. QED  BY <2>1 DEF Known
  <1>. QED  BY <1>2, <1>3, <1>4 DEF ValueTreeIsWhole

(* The result a reader emits (structurednodereader.h) is one tree, and unless the   *)
(* timeout cut it short every node of it is settled: on every server, in whatever  *)
(* order it answers, and unless something was refused or a cap was met, each node   *)
(* is what the server has, with all its members, elements by their index.       *)
THEOREM ValueTreeAlwaysWhole == ReaderSpec => []ValueTreeIsWhole
  <1>1. ReaderInit => ReaderInv
    BY ReaderInitInv
  <1>2. ReaderInv /\ [ReaderNext]_readerVars => ReaderInv'
    BY ReaderNextKeepsInv
  <1>3. ReaderInv => ValueTreeIsWhole
    BY WholeFromInv
  <1>. QED  BY <1>1, <1>2, <1>3, PTL DEF ReaderSpec

-----------------------------------------------------------------------------
(* Lists: what Keep() keeps, and what hangs below a set of roots.           *)

LEMMA FirstPlace ==
  ASSUME NEW D, D \subseteq Nat, D # {}
  PROVE  \E i \in D : \A j \in D : i <= j
  <1>. DEFINE R == OpToRel(<, Nat)
  <1>1. \A x, y \in Nat : <<y, x>> \in R <=> y < x
    BY DEF OpToRel
  <1>2. IsWellFoundedOn(R, Nat)
    BY NatLessThanWellFounded
  <1>. HIDE DEF R
  <1>3. PICK x \in D : \A y \in D : ~(<<y, x>> \in R)
    BY <1>2, WFMin
  <1>4. \A y \in D : ~(y < x)
    BY <1>1, <1>3
  <1>. QED  BY <1>4

(* A sequence, of whatever it holds.                                         *)
IsList(s) == s \in Seq(ToSet(s))

(* What Keep computes up to each place of s.                                  *)
KeptUpTo(s, S, n, f) ==
  f = [k \in 0 .. n |->
        IF k = 0 THEN <<>> ELSE IF s[k] \in S THEN Append(f[k - 1], s[k]) ELSE f[k - 1]]

LEMMA KeptAt ==
  ASSUME NEW s, NEW S, NEW n \in Nat, NEW f, KeptUpTo(s, S, n, f), NEW k \in 1 .. n
  PROVE  f[k] = IF s[k] \in S THEN Append(f[k - 1], s[k]) ELSE f[k - 1]
  <1>1. k \in 0 .. n /\ k # 0
    OBVIOUS
  <1>. QED  BY <1>1, Zenon DEF KeptUpTo

LEMMA KeptExtends ==
  ASSUME NEW s, NEW S, NEW n \in Nat, NEW f, KeptUpTo(s, S, n, f)
  PROVE  \E g : KeptUpTo(s, S, n + 1, g)
  <1>. DEFINE next == IF s[n + 1] \in S THEN Append(f[n], s[n + 1]) ELSE f[n]
              g == [k \in 0 .. n + 1 |-> IF k = n + 1 THEN next ELSE f[k]]
              body(k) == IF k = 0 THEN <<>> ELSE IF s[k] \in S THEN Append(g[k - 1], s[k]) ELSE g[k - 1]
  <1>1. ASSUME NEW k \in 0 .. n + 1 PROVE g[k] = body(k)
    <2>1. CASE k = n + 1
      <3>1. g[k] = next /\ g[k - 1] = f[n]
        BY <2>1
      <3>. QED  BY <2>1, <3>1
    <2>2. CASE k \in 1 .. n
      <3>1. g[k] = f[k] /\ g[k - 1] = f[k - 1]
        BY <2>2
      <3>2. f[k] = IF s[k] \in S THEN Append(f[k - 1], s[k]) ELSE f[k - 1]
        BY <2>2, KeptAt
      <3>. QED  BY <2>2, <3>1, <3>2
    <2>3. CASE k = 0
      <3>1. g[k] = f[0] /\ f[0] = <<>>
        BY <2>3 DEF KeptUpTo
      <3>. QED  BY <2>3, <3>1
    <2>. QED  BY <2>1, <2>2, <2>3
  <1>2. g = [k \in 0 .. n + 1 |-> body(k)]
    BY <1>1
  <1>. HIDE DEF g, next
  <1>3. KeptUpTo(s, S, n + 1, g)
    BY <1>2 DEF KeptUpTo
  <1>. QED  BY <1>3

LEMMA KeptExists ==
  ASSUME NEW s, NEW S, NEW n \in Nat
  PROVE  \E f : KeptUpTo(s, S, n, f)
  <1>. DEFINE D == {m \in Nat : ~ \E f : KeptUpTo(s, S, m, f)}
  <1>1. SUFFICES ASSUME D # {} PROVE FALSE
    OBVIOUS
  <1>2. PICK m \in D : \A j \in D : m <= j
    BY <1>1, FirstPlace
  <1>3. CASE m = 0
    <2>1. KeptUpTo(s, S, 0, [k \in 0 .. 0 |-> <<>>])
      BY DEF KeptUpTo
    <2>. QED  BY <1>2, <1>3, <2>1
  <1>4. CASE m # 0
    <2>1. m - 1 \in Nat /\ m - 1 \notin D
      BY <1>2, <1>4
    <2>2. PICK f : KeptUpTo(s, S, m - 1, f)
      BY <2>1
    <2>3. (m - 1) + 1 = m
      BY <1>2
    <2>4. \E g : KeptUpTo(s, S, m, g)
      BY <2>1, <2>2, <2>3, KeptExtends
    <2>. QED  BY <1>2, <2>4
  <1>. QED  BY <1>3, <1>4

LEMMA KeepIsKept ==
  ASSUME NEW s, NEW S, Len(s) \in Nat
  PROVE  \E f : KeptUpTo(s, S, Len(s), f) /\ Keep(s, S) = f[Len(s)]
  <1>. DEFINE f == CHOOSE f : KeptUpTo(s, S, Len(s), f)
  <1>1. KeptUpTo(s, S, Len(s), f)
    BY KeptExists
  <1>2. Keep(s, S) = f[Len(s)]
    BY DEF Keep, KeptUpTo
  <1>. HIDE DEF f
  <1>. QED  BY <1>1, <1>2

(* The invariant of the recursion. *)
KeptSoFar(s, S, f, k) ==
  /\ f[k] \in Seq(ToSet(s) \cap S)
  /\ \A i \in 1 .. k : s[i] \in S => \E j \in 1 .. Len(f[k]) : f[k][j] = s[i]
  /\ (\A i \in 1 .. k : s[i] \in S) => f[k] = SubSeq(s, 1, k)

LEMMA KeptStep ==
  ASSUME NEW s, IsList(s), NEW S, NEW f, KeptUpTo(s, S, Len(s), f), NEW k \in 1 .. Len(s),
         KeptSoFar(s, S, f, k - 1)
  PROVE  KeptSoFar(s, S, f, k)
  <1>. DEFINE T == ToSet(s) \cap S
  <1>0. Len(s) \in Nat
    BY DEF IsList
  <1>1. f[k - 1] \in Seq(T) /\ k - 1 \in Nat /\ s \in Seq(ToSet(s)) /\ s[k] \in ToSet(s)
    BY DEF KeptSoFar, IsList
  <1>2. CASE s[k] \in S
    <2>0. f[k] = IF s[k] \in S THEN Append(f[k - 1], s[k]) ELSE f[k - 1]
      BY <1>0, KeptAt
    <2>1. f[k] = Append(f[k - 1], s[k])
      BY ONLY <1>2, <2>0, Zenon
    <2>2. f[k] \in Seq(T) /\ Len(f[k]) = Len(f[k - 1]) + 1 /\ f[k][Len(f[k - 1]) + 1] = s[k]
          /\ \A j \in 1 .. Len(f[k - 1]) : f[k][j] = f[k - 1][j]
      BY <1>1, <1>2, <2>1, AppendProperties
    <2>3. ASSUME NEW i \in 1 .. k, s[i] \in S PROVE \E j \in 1 .. Len(f[k]) : f[k][j] = s[i]
      <3>1. CASE i = k
        <4>1. Len(f[k - 1]) + 1 \in 1 .. Len(f[k])
          BY <1>1, <2>2
        <4>. QED  BY <2>2, <3>1, <4>1
      <3>2. CASE i # k
        <4>1. i \in 1 .. k - 1
          BY <3>2
        <4>2. PICK j \in 1 .. Len(f[k - 1]) : f[k - 1][j] = s[i]
          BY <2>3, <4>1 DEF KeptSoFar
        <4>3. j \in 1 .. Len(f[k])
          BY <1>1, <2>2
        <4>. QED  BY <2>2, <4>2, <4>3
      <3>. QED  BY <3>1, <3>2
    <2>4. ASSUME \A i \in 1 .. k : s[i] \in S PROVE f[k] = SubSeq(s, 1, k)
      <3>1. f[k - 1] = SubSeq(s, 1, k - 1)
        <4>1. \A i \in 1 .. k - 1 : s[i] \in S
          BY <2>4
        <4>. QED  BY <4>1 DEF KeptSoFar
      <3>2. SubSeq(s, 1, k) = Append(SubSeq(s, 1, k - 1), s[k])
        BY <1>1
      <3>. QED  BY <2>1, <3>1, <3>2
    <2>. QED  BY <2>2, <2>3, <2>4 DEF KeptSoFar
  <1>3. CASE s[k] \notin S
    <2>1. f[k] = f[k - 1]
      BY <1>0, <1>3, KeptAt
    <2>2. \A i \in 1 .. k : s[i] \in S => i \in 1 .. k - 1
      BY <1>3
    <2>. QED  BY <1>3, <2>1, <2>2 DEF KeptSoFar
  <1>. QED  BY <1>2, <1>3

LEMMA KeepFacts ==
  ASSUME NEW s, IsList(s), NEW S
  PROVE  /\ Keep(s, S) \in Seq(ToSet(s) \cap S)
         /\ ToSet(Keep(s, S)) = ToSet(s) \cap S
         /\ IsList(Keep(s, S))
         /\ ToSet(s) \subseteq S => Keep(s, S) = s
  <1>1. Len(s) \in Nat /\ DOMAIN s = 1 .. Len(s) /\ s \in Seq(ToSet(s))
    BY DEF IsList
  <1>2. PICK f : KeptUpTo(s, S, Len(s), f) /\ Keep(s, S) = f[Len(s)]
    BY <1>1, KeepIsKept
  <1>. DEFINE D == {k \in 0 .. Len(s) : ~ KeptSoFar(s, S, f, k)}
  <1>3. D = {}
    <2>1. SUFFICES ASSUME D # {} PROVE FALSE
      OBVIOUS
    <2>2. D \subseteq Nat
      OBVIOUS
    <2>3. PICK k \in D : \A j \in D : k <= j
      BY <2>1, <2>2, FirstPlace
    <2>4. CASE k = 0
      <3>1. f[0] = <<>>
        BY <1>1, <1>2 DEF KeptUpTo
      <3>2. SubSeq(s, 1, 0) = <<>>
        BY <1>1
      <3>3. KeptSoFar(s, S, f, 0)
        BY <3>1, <3>2 DEF KeptSoFar
      <3>. QED  BY <2>3, <2>4, <3>3
    <2>5. CASE k # 0
      <3>1. k \in 1 .. Len(s) /\ k - 1 \in 0 .. Len(s) /\ k - 1 \notin D
        BY <1>1, <2>3, <2>5
      <3>2. KeptSoFar(s, S, f, k - 1)
        BY <3>1
      <3>3. KeptSoFar(s, S, f, k)
        BY <1>2, <3>1, <3>2, KeptStep
      <3>. QED  BY <2>3, <3>3
    <2>. QED  BY <2>4, <2>5
  <1>4. KeptSoFar(s, S, f, Len(s))
    BY <1>1, <1>3
  <1>. HIDE DEF D
  <1>. DEFINE t == Keep(s, S)
  <1>5. /\ t \in Seq(ToSet(s) \cap S)
        /\ \A i \in 1 .. Len(s) : s[i] \in S => \E j \in 1 .. Len(t) : t[j] = s[i]
        /\ (\A i \in 1 .. Len(s) : s[i] \in S) => t = SubSeq(s, 1, Len(s))
    BY <1>2, <1>4 DEF KeptSoFar
  <1>. HIDE DEF t
  <1>6. DOMAIN t = 1 .. Len(t) /\ Len(t) \in Nat
    BY <1>5
  <1>7. ToSet(t) = ToSet(s) \cap S
    <2>1. ToSet(t) \subseteq ToSet(s) \cap S
      BY <1>5, <1>6 DEF ToSet
    <2>2. ASSUME NEW x \in ToSet(s) \cap S PROVE x \in ToSet(t)
      <3>1. PICK i \in 1 .. Len(s) : x = s[i]
        BY <1>1 DEF ToSet
      <3>2. PICK j \in 1 .. Len(t) : t[j] = x
        BY <1>5, <2>2, <3>1
      <3>. QED  BY <1>6, <3>2 DEF ToSet
    <2>. QED  BY <2>1, <2>2
  <1>8. ToSet(s) \subseteq S => t = s
    <2>1. ToSet(s) \subseteq S => \A i \in 1 .. Len(s) : s[i] \in S
      BY <1>1 DEF ToSet
    <2>2. SubSeq(s, 1, Len(s)) = s
      BY <1>1
    <2>. QED  BY <1>5, <2>1, <2>2
  <1>9. IsList(t)
    BY <1>5, <1>7 DEF IsList
  <1>. QED  BY <1>5, <1>7, <1>8, <1>9 DEF t
-----------------------------------------------------------------------------
(* What hangs below some roots is the least set that has the roots and, with     *)
(* whatever it has, what is below that.                                      *)
LEMMA HangingFacts ==
  ASSUME NEW links, NEW roots
  PROVE  /\ roots \subseteq Hanging(links, roots)
         /\ Hanging(links, roots) \subseteq roots \cup {l[1] : l \in links}
         /\ Closed(links, Hanging(links, roots))
         /\ \A S : roots \subseteq S /\ Closed(links, S) => Hanging(links, roots) \subseteq S
  <1>. DEFINE all == roots \cup {l[1] : l \in links}
              H   == Hanging(links, roots)
  <1>1. \A x : x \in H <=> x \in all /\ \A S \in SUBSET all : roots \subseteq S /\ Closed(links, S) => x \in S
    BY DEF Hanging
  <1>. HIDE DEF H
  <1>2. roots \subseteq H /\ H \subseteq all
    BY <1>1
  <1>3. Closed(links, H)
    <2>1. SUFFICES ASSUME NEW l \in links, l[2] \in H PROVE l[1] \in H
      BY DEF Closed
    <2>2. ASSUME NEW S \in SUBSET all, roots \subseteq S, Closed(links, S) PROVE l[1] \in S
      <3>1. l[2] \in S
        BY <1>1, <2>1, <2>2
      <3>. QED  BY <2>2, <3>1 DEF Closed
    <2>. QED  BY <1>1, <2>2
  <1>4. ASSUME NEW S, roots \subseteq S, Closed(links, S) PROVE H \subseteq S
    <2>1. Closed(links, S \cap all) /\ roots \subseteq S \cap all
      BY <1>4 DEF Closed
    <2>. HIDE DEF all
    <2>. QED  BY <1>1, <2>1
  <1>. QED  BY <1>2, <1>3, <1>4 DEF H

-----------------------------------------------------------------------------
(* What the program keeps of its lists: nodes whose fields mean something for      *)
(* their kind only, ids that are ids, rules of actions.                          *)
NodeOf(kind, id, owner, name, type, enum, rank, writable, sim) ==
  [kind |-> kind, id |-> id, parent |-> owner, name |-> name, type |-> type, enum |-> enum,
   rank |-> rank, writable |-> writable, sim |-> sim]
EnumOf(name, entries, id) == [name |-> name, entries |-> entries, id |-> id]
ActionOf(target, mode, literal, delay) ==
  [target |-> target, mode |-> mode, literal |-> literal, delay |-> delay]
RuleOf(trigger, actions) == [trigger |-> trigger, actions |-> actions]
ProjectOf(namespaces, enums, nodes, rules, security, port) ==
  [namespaces |-> namespaces, enums |-> enums, nodes |-> nodes, rules |-> rules,
   security |-> security, port |-> port]

(* Records that are what their fields say, and have no others.                  *)
IsNode(n) == n = NodeOf(n.kind, n.id, n.parent, n.name, n.type, n.enum, n.rank, n.writable, n.sim)
IsEnum(e) == e = EnumOf(e.name, e.entries, e.id)
IsAction(a) == a = ActionOf(a.target, a.mode, a.literal, a.delay)
IsRule(r) == r = RuleOf(r.trigger, r.actions)
IsProject(p) == p = ProjectOf(p.namespaces, p.enums, p.nodes, p.rules, p.security, p.port)

NodeOk(n) ==
  /\ IsNode(n)
  /\ n.kind \in NodeKinds /\ IsId(n.id)
  /\ Variable(n) => (n.sim.kind = "Manual" => n.sim = DefaultSim)
  /\ ~Variable(n) => /\ n.type = "" /\ n.enum = NoNode /\ n.rank = -1 /\ n.writable = FALSE
                     /\ n.sim = DefaultSim
EnumOk(e)   == IsEnum(e) /\ IsId(e.id)
ActionOk(a) == /\ IsAction(a)
               /\ a.mode \in ValueModes
RuleOk(r)   == /\ IsRule(r)
               /\ IsList(r.actions) /\ \A a \in ToSet(r.actions) : ActionOk(a)

ListsOk(nodes, enums, rules) ==
  /\ IsList(nodes) /\ \A n \in ToSet(nodes) : NodeOk(n)
  /\ IsList(enums) /\ \A e \in ToSet(enums) : EnumOk(e)
  /\ IsList(rules) /\ \A r \in ToSet(rules) : RuleOk(r)

ProjectOk(p) ==
  /\ IsProject(p)
  /\ ListsOk(p.nodes, p.enums, p.rules)
  /\ p.port \in Quint16

(* A project without the literals its actions do not use, which no file has.     *)
TrimAction(a) == IF a.mode = "Literal" THEN a ELSE [a EXCEPT !.literal = "none"]
TrimRule(r)   == [r EXCEPT !.actions = MapSeq(TrimAction, r.actions)]
Trim(p)       == [p EXCEPT !.rules = MapSeq(TrimRule, p.rules)]

FileOk(file) ==
  \/ file = NoFile
  \/ /\ file.version = FormatVersion
     /\ ProjectOk(FromJson(file)) /\ Trim(FromJson(file)) = FromJson(file)

FilesOk ==
  /\ disk = [f \in Paths |-> disk[f]] /\ \A f \in Paths : FileOk(disk[f])
  /\ path \in Paths \cup {NoPath}
  /\ hasProject /\ ~dirty => /\ path \in Paths /\ disk[path].version = FormatVersion
                             /\ FromJson(disk[path]) = Trim(project)
ClonesOk == cloneAnswers = <<>> \/ \E nodes \in ServerNodes \cup {<<>>} : cloneAnswers = <<nodes>>
SelectionOk == selected \in Ids(project.nodes) \cup {NoNode}

EditorInv == ProjectOk(project) /\ SelectionOk /\ FilesOk /\ ClonesOk

-----------------------------------------------------------------------------
(* Lists.                                                                  *)

LEMMA ListFacts ==
  ASSUME NEW s, IsList(s)
  PROVE  /\ Len(s) \in Nat /\ DOMAIN s = 1 .. Len(s) /\ s = [i \in 1 .. Len(s) |-> s[i]]
         /\ \A i \in 1 .. Len(s) : s[i] \in ToSet(s)
         /\ \A x \in ToSet(s) : \E i \in 1 .. Len(s) : x = s[i]
  BY DEF IsList, ToSet

LEMMA FunIsList ==
  ASSUME NEW n \in Nat, NEW s, s = [i \in 1 .. n |-> s[i]]
  PROVE  IsList(s) /\ Len(s) = n /\ ToSet(s) = {s[i] : i \in 1 .. n}
  <1>1. ToSet(s) = {s[i] : i \in 1 .. n}
    BY DEF ToSet
  <1>2. s \in [1 .. n -> ToSet(s)]
    BY <1>1
  <1>. QED  BY <1>1, <1>2 DEF IsList

LEMMA EmptyList == IsList(<<>>) /\ ToSet(<<>>) = {}
  <1>1. ToSet(<<>>) = {}
    BY DEF ToSet
  <1>. QED  BY <1>1 DEF IsList

LEMMA AppendList ==
  ASSUME NEW s, IsList(s), NEW x
  PROVE  IsList(Append(s, x)) /\ ToSet(Append(s, x)) = ToSet(s) \cup {x}
  <1>. DEFINE t == Append(s, x)
              T == ToSet(s) \cup {x}
  <1>1. s \in Seq(T)
    BY DEF IsList
  <1>2. /\ t \in Seq(T) /\ Len(t) = Len(s) + 1 /\ t[Len(s) + 1] = x
        /\ \A i \in 1 .. Len(s) : t[i] = s[i]
    BY <1>1, AppendProperties
  <1>. HIDE DEF t
  <1>3. Len(s) \in Nat /\ DOMAIN t = 1 .. Len(s) + 1
    BY <1>2, ListFacts
  <1>4. ToSet(t) = T
    <2>1. ToSet(t) \subseteq T
      BY <1>2, <1>3 DEF ToSet
    <2>2. ToSet(s) \subseteq ToSet(t)
      <3>1. \A i \in 1 .. Len(s) : i \in DOMAIN t
        BY <1>3
      <3>2. \A y \in ToSet(s) : \E i \in 1 .. Len(s) : y = s[i]
        BY ListFacts
      <3>. QED  BY <1>2, <3>1, <3>2 DEF ToSet
    <2>3. x \in ToSet(t)
      <3>1. Len(s) + 1 \in DOMAIN t
        BY <1>3
      <3>. QED  BY <1>2, <3>1 DEF ToSet
    <2>. QED  BY <2>1, <2>2, <2>3
  <1>. QED  BY <1>2, <1>4 DEF IsList, t

LEMMA RemoveList ==
  ASSUME NEW s, IsList(s), NEW i \in DOMAIN s
  PROVE  IsList(RemoveAt(s, i)) /\ ToSet(RemoveAt(s, i)) \subseteq ToSet(s)
  <1>1. s \in Seq(ToSet(s)) /\ Len(s) \in Nat /\ i \in 1 .. Len(s)
    BY ListFacts DEF IsList
  <1>. DEFINE t == RemoveAt(s, i)
  <1>2. t \in Seq(ToSet(s))
    BY <1>1 DEF RemoveAt
  <1>. HIDE DEF t
  <1>3. ToSet(t) \subseteq ToSet(s)
    BY <1>2 DEF ToSet
  <1>4. t \in Seq(ToSet(t))
    BY <1>2 DEF ToSet
  <1>. QED  BY <1>3, <1>4 DEF IsList, t

LEMMA ExceptList ==
  ASSUME NEW s, IsList(s), NEW i \in DOMAIN s, NEW x
  PROVE  /\ IsList([s EXCEPT ![i] = x])
         /\ ToSet([s EXCEPT ![i] = x]) \subseteq ToSet(s) \cup {x}
  <1>. DEFINE t == [s EXCEPT ![i] = x]
  <1>1. Len(s) \in Nat /\ s = [k \in 1 .. Len(s) |-> s[k]]
    BY ListFacts
  <1>2. t = [k \in 1 .. Len(s) |-> t[k]]
    BY <1>1
  <1>3. \A k \in 1 .. Len(s) : t[k] = s[k] \/ t[k] = x
    BY <1>1
  <1>4. \A k \in 1 .. Len(s) : s[k] \in ToSet(s)
    BY ListFacts
  <1>. HIDE DEF t
  <1>5. IsList(t) /\ ToSet(t) = {t[k] : k \in 1 .. Len(s)}
    BY <1>1, <1>2, FunIsList
  <1>. QED  BY <1>3, <1>4, <1>5 DEF t

LEMMA RuleLists ==
  ASSUME NEW rules, IsList(rules), \A r \in ToSet(rules) : RuleOk(r)
  PROVE  \A i \in DOMAIN rules : RuleOk(rules[i]) /\ rules[i] \in ToSet(rules)
  BY ListFacts

-----------------------------------------------------------------------------
(* Trees: nodes every one of which is found by going down from the top.     *)

LEMMA MappedList ==
  ASSUME NEW s, IsList(s), NEW t, t = [i \in DOMAIN s |-> t[i]]
  PROVE  /\ IsList(t) /\ Len(t) = Len(s) /\ DOMAIN t = DOMAIN s
         /\ ToSet(t) = {t[i] : i \in DOMAIN s}
  <1>1. Len(s) \in Nat /\ DOMAIN s = 1 .. Len(s)
    BY ListFacts
  <1>. QED  BY <1>1, FunIsList

(* Nodes by the ids and parents they have.                                    *)
LEMMA IdsOf ==
  ASSUME NEW s, IsList(s)
  PROVE  Ids(s) = {n.id : n \in ToSet(s)}
  BY ListFacts DEF Ids

LEMMA LinksDecide ==
  ASSUME NEW s, IsList(s)
  PROVE  Ids(s) = {l[1] : l \in Links(s)}
  <1>1. \A n \in ToSet(s) : \E l \in Links(s) : l[1] = n.id
    <2>1. SUFFICES ASSUME NEW n \in ToSet(s) PROVE \E l \in Links(s) : l[1] = n.id
      OBVIOUS
    <2>2. <<n.id, n.parent>> \in Links(s)
      BY DEF Links
    <2>. QED  BY <2>2
  <1>2. \A l \in Links(s) : \E n \in ToSet(s) : l[1] = n.id
    BY DEF Links
  <1>3. {l[1] : l \in Links(s)} = {n.id : n \in ToSet(s)}
    BY <1>1, <1>2
  <1>. QED  BY <1>3, IdsOf

(* Every node is found by going down from the top, where a node that is its own    *)
(* parent counts as being at the top.                                          *)
Downward(s, S) ==
  NoNode \in S /\ \A n \in ToSet(s) : n.parent \in S \/ n.parent = n.id => n.id \in S
Rooted(s) == \A S : Downward(s, S) => Ids(s) \subseteq S

LEMMA SameLinksRooted ==
  ASSUME NEW s, IsList(s), NEW t, IsList(t), Links(t) = Links(s)
  PROVE  Ids(t) = Ids(s) /\ (Rooted(s) => Rooted(t))
  <1>1. Ids(t) = Ids(s)
    BY LinksDecide
  <1>2. ASSUME NEW S, Downward(t, S) PROVE Downward(s, S)
    <2>1. SUFFICES ASSUME NEW n \in ToSet(s), n.parent \in S \/ n.parent = n.id
                   PROVE  n.id \in S
      BY <1>2 DEF Downward
    <2>2. <<n.id, n.parent>> \in Links(t)
      BY DEF Links
    <2>3. PICK m \in ToSet(t) : m.id = n.id /\ m.parent = n.parent
      BY <2>2 DEF Links
    <2>. QED  BY <1>2, <2>1, <2>3 DEF Downward
  <1>. QED  BY <1>1, <1>2 DEF Rooted

(* One more node, below one that is there.                                   *)
LEMMA AddedRooted ==
  ASSUME NEW s, IsList(s), NEW n, n.parent \in Ids(s) \cup {NoNode}
  PROVE  /\ Ids(Append(s, n)) = Ids(s) \cup {n.id}
         /\ Rooted(s) => Rooted(Append(s, n))
  <1>. DEFINE t == Append(s, n)
  <1>1. IsList(t) /\ ToSet(t) = ToSet(s) \cup {n}
    BY AppendList
  <1>. HIDE DEF t
  <1>2. Ids(t) = Ids(s) \cup {n.id}
    BY <1>1, IdsOf
  <1>3. ASSUME Rooted(s), NEW S, Downward(t, S) PROVE Ids(t) \subseteq S
    <2>1. Ids(s) \subseteq S
      BY <1>1, <1>3 DEF Rooted, Downward
    <2>2. n.id \in S
      BY <1>1, <1>3, <2>1 DEF Downward
    <2>. QED  BY <1>2, <2>1, <2>2
  <1>. QED  BY <1>2, <1>3 DEF Rooted, t

(* Some nodes less, with all that hangs below them.                           *)
LEMMA LessRooted ==
  ASSUME NEW s, IsList(s), NEW gone, Closed(Links(s), gone),
         NEW t, IsList(t), ToSet(t) = {n \in ToSet(s) : n.id \notin gone}
  PROVE  Ids(t) = Ids(s) \ gone /\ (Rooted(s) => Rooted(t))
  <1>1. Ids(t) = Ids(s) \ gone
    BY IdsOf
  <1>2. ASSUME NEW S, Downward(t, S) PROVE Downward(s, S \cup gone)
    <2>1. SUFFICES ASSUME NEW n \in ToSet(s), n.parent \in S \cup gone \/ n.parent = n.id,
                          n.id \notin gone
                   PROVE  n.id \in S
      BY <1>2 DEF Downward
    <2>2. <<n.id, n.parent>> \in Links(s) /\ n \in ToSet(t)
      BY <2>1 DEF Links
    <2>3. n.parent \notin gone
      BY <2>1, <2>2 DEF Closed
    <2>. QED  BY <1>2, <2>1, <2>2, <2>3 DEF Downward
  <1>3. ASSUME Rooted(s), NEW S, Downward(t, S) PROVE Ids(t) \subseteq S
    <2>1. Ids(s) \subseteq S \cup gone
      BY <1>2, <1>3 DEF Rooted
    <2>. QED  BY <1>1, <2>1
  <1>. QED  BY <1>1, <1>3 DEF Rooted

(* Nodes that each follow their parent.                                       *)
LEMMA OrderedRooted ==
  ASSUME NEW s, IsList(s),
         \A i \in DOMAIN s : \/ s[i].parent = NoNode
                             \/ \E j \in 1 .. i - 1 : s[i].parent = s[j].id
  PROVE  Rooted(s)
  <1>1. SUFFICES ASSUME NEW S, Downward(s, S) PROVE Ids(s) \subseteq S
    BY DEF Rooted
  <1>. DEFINE D == {i \in DOMAIN s : s[i].id \notin S}
  <1>2. Len(s) \in Nat /\ DOMAIN s = 1 .. Len(s)
    BY ListFacts
  <1>3. D = {}
    <2>1. SUFFICES ASSUME D # {} PROVE FALSE
      OBVIOUS
    <2>0. D \subseteq Nat
      BY <1>2
    <2>2. PICK i \in D : \A j \in D : i <= j
      BY ONLY <2>0, <2>1, FirstPlace
    <2>3. s[i].parent \in S
      <3>1. CASE s[i].parent = NoNode
        BY <1>1, <3>1 DEF Downward
      <3>2. CASE \E j \in 1 .. i - 1 : s[i].parent = s[j].id
        <4>1. PICK j \in 1 .. i - 1 : s[i].parent = s[j].id
          BY <3>2
        <4>2. j \in DOMAIN s /\ j \notin D
          BY <1>2, <2>2
        <4>. QED  BY <4>1, <4>2
      <3>. QED  BY <3>1, <3>2
    <2>4. s[i] \in ToSet(s)
      BY <1>2, ListFacts
    <2>5. s[i].id \in S
      BY <1>1, <2>3, <2>4 DEF Downward
    <2>. QED  BY <2>5
  <1>. QED  BY <1>3 DEF Ids

(* What the tree shows is the least set of nodes that has, with whatever it has or    *)
(* with the top, what the tree has below it; what the builder makes is the same by   *)
(* the project's own parents.                                                  *)
LEMMA ShownFacts ==
  ASSUME NEW p, IsList(p.nodes), NoNode \notin Ids(p.nodes)
  PROVE  /\ Shown(p) \subseteq Ids(p.nodes)
         /\ \A n \in ToSet(p.nodes) : ShownParent(p, n) \in Shown(p) \cup {NoNode} => n.id \in Shown(p)
         /\ \A S : NoNode \in S /\ (\A n \in ToSet(p.nodes) : ShownParent(p, n) \in S => n.id \in S)
                   => Shown(p) \subseteq S
  <1>. DEFINE links == {<<n.id, ShownParent(p, n)>> : n \in ToSet(p.nodes)}
              H == Hanging(links, {NoNode})
  <1>1. \A l \in links : \E n \in ToSet(p.nodes) : l[1] = n.id /\ l[2] = ShownParent(p, n)
    OBVIOUS
  <1>2. ASSUME NEW n \in ToSet(p.nodes)
        PROVE  \E l \in links : l[1] = n.id /\ l[2] = ShownParent(p, n)
    <2>1. <<n.id, ShownParent(p, n)>> \in links
      OBVIOUS
    <2>. HIDE DEF links
    <2>. QED  BY <2>1
  <1>3. Shown(p) = H \ {NoNode}
    BY DEF Shown
  <1>. HIDE DEF links
  <1>4. /\ {NoNode} \subseteq H /\ H \subseteq {NoNode} \cup {l[1] : l \in links}
        /\ Closed(links, H)
        /\ \A S : {NoNode} \subseteq S /\ Closed(links, S) => H \subseteq S
    BY HangingFacts
  <1>. HIDE DEF H
  <1>5. \A n \in ToSet(p.nodes) : n.id \in Ids(p.nodes)
    BY IdsOf
  <1>6. Shown(p) \subseteq Ids(p.nodes)
    BY <1>1, <1>3, <1>4, <1>5
  <1>7. ASSUME NEW n \in ToSet(p.nodes), ShownParent(p, n) \in Shown(p) \cup {NoNode}
        PROVE  n.id \in Shown(p)
    <2>1. ShownParent(p, n) \in H
      BY <1>3, <1>4, <1>7
    <2>2. n.id \in H
      BY <1>2, <1>4, <2>1 DEF Closed
    <2>. QED  BY <1>3, <1>5, <2>2
  <1>8. ASSUME NEW S, NoNode \in S, \A n \in ToSet(p.nodes) : ShownParent(p, n) \in S => n.id \in S
        PROVE  Shown(p) \subseteq S
    <2>1. Closed(links, S)
      BY <1>1, <1>8 DEF Closed
    <2>. QED  BY <1>3, <1>4, <1>8, <2>1
  <1>. QED  BY <1>6, <1>7, <1>8

LEMMA CreatedFacts ==
  ASSUME NEW p, IsList(p.nodes), NoNode \notin Ids(p.nodes)
  PROVE  /\ Created(p) \subseteq Ids(p.nodes)
         /\ \A n \in ToSet(p.nodes) : n.parent \in Created(p) \cup {NoNode} => n.id \in Created(p)
         /\ \A S : NoNode \in S /\ (\A n \in ToSet(p.nodes) : n.parent \in S => n.id \in S)
                   => Created(p) \subseteq S
  <1>. DEFINE links == {<<n.id, n.parent>> : n \in ToSet(p.nodes)}
              H == Hanging(links, {NoNode})
  <1>1. \A l \in links : \E n \in ToSet(p.nodes) : l[1] = n.id /\ l[2] = n.parent
    OBVIOUS
  <1>2. ASSUME NEW n \in ToSet(p.nodes)
        PROVE  \E l \in links : l[1] = n.id /\ l[2] = n.parent
    <2>1. <<n.id, n.parent>> \in links
      OBVIOUS
    <2>. HIDE DEF links
    <2>. QED  BY <2>1
  <1>3. Created(p) = H \ {NoNode}
    BY DEF Created, Links
  <1>. HIDE DEF links
  <1>4. /\ {NoNode} \subseteq H /\ H \subseteq {NoNode} \cup {l[1] : l \in links}
        /\ Closed(links, H)
        /\ \A S : {NoNode} \subseteq S /\ Closed(links, S) => H \subseteq S
    BY HangingFacts
  <1>. HIDE DEF H
  <1>5. \A n \in ToSet(p.nodes) : n.id \in Ids(p.nodes)
    BY IdsOf
  <1>6. Created(p) \subseteq Ids(p.nodes)
    BY <1>1, <1>3, <1>4, <1>5
  <1>7. ASSUME NEW n \in ToSet(p.nodes), n.parent \in Created(p) \cup {NoNode}
        PROVE  n.id \in Created(p)
    <2>1. n.parent \in H
      BY <1>3, <1>4, <1>7
    <2>2. n.id \in H
      BY <1>2, <1>4, <2>1 DEF Closed
    <2>. QED  BY <1>3, <1>5, <2>2
  <1>8. ASSUME NEW S, NoNode \in S, \A n \in ToSet(p.nodes) : n.parent \in S => n.id \in S
        PROVE  Created(p) \subseteq S
    <2>1. Closed(links, S)
      BY <1>1, <1>8 DEF Closed
    <2>. QED  BY <1>3, <1>4, <1>8, <2>1
  <1>. QED  BY <1>6, <1>7, <1>8

(* Where no parent is missing, the tree shows all that is found from the top.      *)
LEMMA AllShown ==
  ASSUME NEW p, IsList(p.nodes), NoNode \notin Ids(p.nodes),
         \A n \in ToSet(p.nodes) : n.parent \in Ids(p.nodes) \cup {NoNode}
  PROVE  ShowsAll(p) <=> Rooted(p.nodes)
  <1>1. ASSUME NEW n \in ToSet(p.nodes), NEW S, NoNode \in S
        PROVE  ShownParent(p, n) \in S <=> n.parent \in S \/ n.parent = n.id
    BY <1>1 DEF ShownParent
  <1>2. ASSUME ShowsAll(p), NEW S, Downward(p.nodes, S) PROVE Ids(p.nodes) \subseteq S
    <2>1. NoNode \in S /\ \A n \in ToSet(p.nodes) : ShownParent(p, n) \in S => n.id \in S
      BY <1>1, <1>2 DEF Downward
    <2>. QED  BY <1>2, <2>1, ShownFacts DEF ShowsAll
  <1>3. ASSUME Rooted(p.nodes) PROVE Shown(p) = Ids(p.nodes)
    <2>1. Downward(p.nodes, Shown(p) \cup {NoNode})
      BY <1>1, ShownFacts DEF Downward
    <2>2. Ids(p.nodes) \subseteq Shown(p) \cup {NoNode}
      BY <1>3, <2>1 DEF Rooted
    <2>. QED  BY <2>2, ShownFacts
  <1>. QED  BY <1>2, <1>3 DEF Rooted, ShowsAll

(* Where no parent is missing, the builder leaves nodes over just when some lead     *)
(* round in a circle: those left over have their parents among themselves.        *)
LEMMA AllCreated ==
  ASSUME NEW p, IsList(p.nodes), NoNode \notin Ids(p.nodes),
         \A n \in ToSet(p.nodes) : n.parent \in Ids(p.nodes) \cup {NoNode}
  PROVE  Created(p) = Ids(p.nodes) <=> ~Circular(p)
  <1>. DEFINE s == p.nodes
  <1>1. /\ Created(p) \subseteq Ids(s)
        /\ \A n \in ToSet(s) : n.parent \in Created(p) \cup {NoNode} => n.id \in Created(p)
        /\ \A S : NoNode \in S /\ (\A n \in ToSet(s) : n.parent \in S => n.id \in S)
                  => Created(p) \subseteq S
    BY CreatedFacts
  <1>2. \A n \in ToSet(s) : n.id \in Ids(s)
    BY IdsOf
  <1>3. ASSUME Created(p) # Ids(s) PROVE Circular(p)
    <2>. DEFINE S == Ids(s) \ Created(p)
    <2>1. S \in (SUBSET Ids(s)) \ {{}}
      BY <1>1, <1>3
    <2>2. \A n \in ToSet(s) : n.id \in S => n.parent \in S
      BY <1>1
    <2>. QED  BY <2>1, <2>2 DEF Circular
  <1>4. ASSUME Circular(p), Created(p) = Ids(s) PROVE FALSE
    <2>1. PICK S \in (SUBSET Ids(s)) \ {{}} : \A n \in ToSet(s) : n.id \in S => n.parent \in S
      BY <1>4 DEF Circular
    <2>. DEFINE C == (Ids(s) \ S) \cup {NoNode}
    <2>2. \A n \in ToSet(s) : n.parent \in C => n.id \in C
      BY <1>2, <2>1
    <2>3. Created(p) \subseteq C
      BY <1>1, <2>2
    <2>. QED  BY <1>4, <2>1, <2>3
  <1>. QED  BY <1>3, <1>4

-----------------------------------------------------------------------------
(* Ids, and what an edit of the project's parts keeps.                      *)

LEMMA IdShape ==
  ASSUME NEW a, NEW b, NEW c
  PROVE  /\ IsId(NodeId(a, b, c)) /\ NodeId(a, b, c) # NoNode /\ Len(NodeId(a, b, c)) = 3
         /\ IdNs(NodeId(a, b, c)) = a /\ NodeId(a, b, c)[2] = b
  BY DEF IsId, NodeId, NoNode, IdNs

LEMMA IdIsId == ASSUME NEW id, IsId(id) PROVE id # NoNode /\ Len(id) = 3
  BY IdShape DEF IsId

(* makeUniqueNodeId() finds an id: there are more numbers than nodes.           *)
LEMMA FreshIdIsNew ==
  ASSUME NEW used, IsFiniteSet(used), NEW part
  PROVE  FreshId(used, part) \notin used /\ \E k : FreshId(used, part) = NodeId(1, part, k)
  <1>. DEFINE n    == Cardinality(used) + 1
              free == {k \in 1 .. n : NodeId(1, part, k) \notin used}
  <1>1. n \in Nat /\ n > Cardinality(used) /\ Cardinality(used) \in Nat
    BY FS_CardinalityType
  <1>2. IsFiniteSet(1 .. n) /\ Cardinality(1 .. n) = n
    BY ONLY <1>1, FS_Interval
  <1>3. free # {}
    <2>1. SUFFICES ASSUME free = {} PROVE FALSE
      OBVIOUS
    <2>. DEFINE f == [k \in 1 .. n |-> NodeId(1, part, k)]
    <2>2. f \in [1 .. n -> used]
      BY <2>1
    <2>3. \A x, y \in 1 .. n : x # y => f[x] # f[y]
      BY DEF NodeId
    <2>. HIDE DEF f, n
    <2>. QED  BY <1>1, <1>2, <2>2, <2>3, FS_PigeonHole
  <1>4. free \subseteq Nat
    BY <1>1
  <1>5. \E k \in free : \A j \in free : k <= j
    BY ONLY <1>3, <1>4, FirstPlace
  <1>6. PICK k \in free : FreshId(used, part) = NodeId(1, part, k)
    BY <1>5 DEF FreshId
  <1>. QED  BY <1>6

LEMMA IdsFinite == ASSUME NEW s, IsList(s) PROVE IsFiniteSet(Ids(s))
  <1>1. Len(s) \in Nat /\ DOMAIN s = 1 .. Len(s)
    BY ListFacts
  <1>. DEFINE f == [i \in 1 .. Len(s) |-> s[i].id]
  <1>2. f \in Surjection(1 .. Len(s), Ids(s))
    BY <1>1 DEF Surjection, Ids
  <1>3. IsFiniteSet(1 .. Len(s))
    BY <1>1, FS_Interval
  <1>. QED  BY <1>2, <1>3, FS_Surjection

-----------------------------------------------------------------------------
(* A project with other nodes, types, rules or security.                        *)
LEMMA ProjectFields ==
  ASSUME NEW ns, NEW en, NEW no, NEW ru, NEW se, NEW po
  PROVE  /\ ProjectOf(ns, en, no, ru, se, po).namespaces = ns
         /\ ProjectOf(ns, en, no, ru, se, po).enums = en
         /\ ProjectOf(ns, en, no, ru, se, po).nodes = no
         /\ ProjectOf(ns, en, no, ru, se, po).rules = ru
         /\ ProjectOf(ns, en, no, ru, se, po).security = se
         /\ ProjectOf(ns, en, no, ru, se, po).port = po
  BY DEF ProjectOf

LEMMA ProjectExcept ==
  ASSUME NEW ns, NEW en, NEW no, NEW ru, NEW se, NEW po, NEW x
  PROVE  /\ [ProjectOf(ns, en, no, ru, se, po) EXCEPT !.nodes = x] = ProjectOf(ns, en, x, ru, se, po)
         /\ [ProjectOf(ns, en, no, ru, se, po) EXCEPT !.enums = x] = ProjectOf(ns, x, no, ru, se, po)
         /\ [ProjectOf(ns, en, no, ru, se, po) EXCEPT !.rules = x] = ProjectOf(ns, en, no, x, se, po)
         /\ [ProjectOf(ns, en, no, ru, se, po) EXCEPT !.security = x] = ProjectOf(ns, en, no, ru, x, po)
  BY DEF ProjectOf

(* What each edit makes of a project.                                         *)
LEMMA ProjectEdits ==
  ASSUME NEW p, ProjectOk(p), NEW x, NEW y
  PROVE  /\ [p EXCEPT !.nodes = x]
              = ProjectOf(p.namespaces, p.enums, x, p.rules, p.security, p.port)
         /\ [p EXCEPT !.enums = x]
              = ProjectOf(p.namespaces, x, p.nodes, p.rules, p.security, p.port)
         /\ [p EXCEPT !.rules = x]
              = ProjectOf(p.namespaces, p.enums, p.nodes, x, p.security, p.port)
         /\ [p EXCEPT !.security = x]
              = ProjectOf(p.namespaces, p.enums, p.nodes, p.rules, x, p.port)
         /\ [p EXCEPT !.nodes = x, !.rules = y]
              = ProjectOf(p.namespaces, p.enums, x, y, p.security, p.port)
         /\ [p EXCEPT !.enums = x, !.nodes = y]
              = ProjectOf(p.namespaces, x, y, p.rules, p.security, p.port)
  <1>1. \E ns, en, no, ru, se, po : p = ProjectOf(ns, en, no, ru, se, po)
    BY Zenon DEF ProjectOk, IsProject
  <1>2. PICK ns, en, no, ru, se, po : p = ProjectOf(ns, en, no, ru, se, po)
    BY <1>1, Zenon
  <1>3. /\ p.namespaces = ns /\ p.enums = en /\ p.nodes = no /\ p.rules = ru
        /\ p.security = se /\ p.port = po
    BY ONLY <1>2, SMT DEF ProjectOf
  <1>4. [p EXCEPT !.nodes = x] = ProjectOf(ns, en, x, ru, se, po)
    BY ONLY <1>2, SMT DEF ProjectOf
  <1>5. [p EXCEPT !.enums = x] = ProjectOf(ns, x, no, ru, se, po)
    BY ONLY <1>2, SMT DEF ProjectOf
  <1>6. [p EXCEPT !.rules = x] = ProjectOf(ns, en, no, x, se, po)
    BY ONLY <1>2, SMT DEF ProjectOf
  <1>7. [p EXCEPT !.security = x] = ProjectOf(ns, en, no, ru, x, po)
    BY ONLY <1>2, SMT DEF ProjectOf
  <1>8. [p EXCEPT !.nodes = x, !.rules = y] = ProjectOf(ns, en, x, y, se, po)
    <2>1. [p EXCEPT !.nodes = x, !.rules = y] = [[p EXCEPT !.nodes = x] EXCEPT !.rules = y]
      BY Zenon
    <2>. DEFINE q == [p EXCEPT !.nodes = x]
    <2>3. q = ProjectOf(ns, en, x, ru, se, po)
      BY <1>4, Zenon
    <2>. HIDE DEF q
    <2>4. [q EXCEPT !.rules = y] = ProjectOf(ns, en, x, y, se, po)
      BY ONLY <2>3, SMT DEF ProjectOf
    <2>2. [[p EXCEPT !.nodes = x] EXCEPT !.rules = y] = ProjectOf(ns, en, x, y, se, po)
      BY ONLY <2>4, Zenon DEF q
    <2>. QED  BY ONLY <2>1, <2>2, Zenon
  <1>9. [p EXCEPT !.enums = x, !.nodes = y] = ProjectOf(ns, x, y, ru, se, po)
    <2>1. [p EXCEPT !.enums = x, !.nodes = y] = [[p EXCEPT !.enums = x] EXCEPT !.nodes = y]
      BY Zenon
    <2>. DEFINE q == [p EXCEPT !.enums = x]
    <2>3. q = ProjectOf(ns, x, no, ru, se, po)
      BY <1>5, Zenon
    <2>. HIDE DEF q
    <2>4. [q EXCEPT !.nodes = y] = ProjectOf(ns, x, y, ru, se, po)
      BY ONLY <2>3, SMT DEF ProjectOf
    <2>2. [[p EXCEPT !.enums = x] EXCEPT !.nodes = y] = ProjectOf(ns, x, y, ru, se, po)
      BY ONLY <2>4, Zenon DEF q
    <2>. QED  BY ONLY <2>1, <2>2, Zenon
  <1>. QED  BY ONLY <1>3, <1>4, <1>5, <1>6, <1>7, <1>8, <1>9, Zenon

LEMMA ProjectParts ==
  ASSUME NEW p, ProjectOk(p), NEW q, NEW nodes, NEW enums, NEW rules, NEW security,
         q = ProjectOf(p.namespaces, enums, nodes, rules, security, p.port),
         ListsOk(nodes, enums, rules)
  PROVE  /\ ProjectOk(q)
         /\ q.nodes = nodes /\ q.enums = enums /\ q.rules = rules /\ q.security = security
  <1>1. /\ q.nodes = nodes /\ q.enums = enums /\ q.rules = rules /\ q.security = security
        /\ q.namespaces = p.namespaces /\ q.port = p.port
    BY ProjectFields
  <1>2. p.port \in Quint16
    BY DEF ProjectOk
  <1>3. IsProject(q)
    BY <1>1, Zenon DEF IsProject
  <1>4. ListsOk(q.nodes, q.enums, q.rules) /\ q.port \in Quint16
    BY <1>1, <1>2
  <1>. QED  BY ONLY <1>1, <1>3, <1>4, Zenon DEF ProjectOk

LEMMA ProjectIs ==
  ASSUME NEW p, ProjectOk(p)
  PROVE  /\ \E ns, se, po : /\ p = ProjectOf(ns, p.enums, p.nodes, p.rules, se, po)
                           /\ ns = p.namespaces /\ se = p.security /\ po = p.port
         /\ ListsOk(p.nodes, p.enums, p.rules)
         /\ IsList(p.nodes) /\ \A n \in ToSet(p.nodes) : NodeOk(n)
         /\ IsList(p.enums) /\ \A e \in ToSet(p.enums) : EnumOk(e)
         /\ IsList(p.rules) /\ \A r \in ToSet(p.rules) : RuleOk(r)
  BY Zenon DEF ProjectOk, IsProject, ListsOk

(* Nodes that stay where they are, and what they are.                          *)
Alike(s, t) ==
  /\ t = [i \in DOMAIN s |-> t[i]]
  /\ \A i \in DOMAIN s : t[i].id = s[i].id /\ t[i].parent = s[i].parent /\ t[i].kind = s[i].kind

VariablesOf(s) == {n.id : n \in {m \in ToSet(s) : Variable(m)}}

LEMMA AlikeFacts ==
  ASSUME NEW s, IsList(s), NEW t, Alike(s, t)
  PROVE  /\ IsList(t) /\ Ids(t) = Ids(s) /\ VariablesOf(t) = VariablesOf(s)
         /\ Rooted(s) => Rooted(t)
  <1>1. /\ IsList(t) /\ DOMAIN t = DOMAIN s
        /\ \A i \in DOMAIN s : t[i].id = s[i].id /\ t[i].parent = s[i].parent /\ t[i].kind = s[i].kind
    BY MappedList DEF Alike
  <1>2. /\ \A i \in DOMAIN s : t[i] \in ToSet(t) /\ s[i] \in ToSet(s)
        /\ \A x \in ToSet(t) : \E i \in DOMAIN s : x = t[i]
        /\ \A x \in ToSet(s) : \E i \in DOMAIN s : x = s[i]
    BY <1>1, ListFacts
  <1>3. Links(t) = Links(s)
    <2>1. ASSUME NEW x \in ToSet(s) PROVE <<x.id, x.parent>> \in Links(t)
      BY <1>1, <1>2 DEF Links
    <2>2. ASSUME NEW x \in ToSet(t) PROVE <<x.id, x.parent>> \in Links(s)
      BY <1>1, <1>2 DEF Links
    <2>. QED  BY <2>1, <2>2 DEF Links
  <1>4. VariablesOf(t) = VariablesOf(s)
    BY <1>1, <1>2 DEF VariablesOf, Variable
  <1>. QED  BY <1>1, <1>3, <1>4, SameLinksRooted

-----------------------------------------------------------------------------
(* What a reference may name once the project has become q.                     *)
LEMMA ReferencesKept ==
  ASSUME NEW p, References(p), NEW q, q.rules = p.rules,
         VariableIds(p) \subseteq VariableIds(q),
         \A n \in ToSet(q.nodes) : /\ n.parent \in Ids(q.nodes) \cup {NoNode}
                                   /\ n.enum \in Ids(q.enums) \cup {NoNode}
  PROVE  References(q)
  BY DEF References

LEMMA SecurityEdited ==
  ASSUME NEW p, ProjectOk(p), NEW q, NEW security, q = [p EXCEPT !.security = security]
  PROVE  /\ ProjectOk(q) /\ q.nodes = p.nodes
         /\ References(p) => References(q)
  <1>0. ListsOk(p.nodes, p.enums, p.rules)
    BY ProjectIs
  <1>1. q = ProjectOf(p.namespaces, p.enums, p.nodes, p.rules, security, p.port)
    BY ProjectEdits
  <1>2. ProjectOk(q) /\ q.nodes = p.nodes /\ q.enums = p.enums /\ q.rules = p.rules
    BY <1>0, <1>1, ProjectParts
  <1>. QED  BY <1>2 DEF References, VariableIds

-----------------------------------------------------------------------------
(* addFolder(), addObject(), addVariable().                                   *)
WithNodes(p, x) == [p EXCEPT !.nodes = x]

LEMMA NodeAdded ==
  ASSUME NEW p, ProjectOk(p), NEW part,
         NEW n, NodeOk(n), n.id = FreshId(Ids(p.nodes), <<part>>),
         n.parent \in Ids(p.nodes) \cup {NoNode}, n.enum = NoNode,
         NEW q, q = WithNodes(p, Append(p.nodes, n))
  PROVE  /\ ProjectOk(q) /\ n.id \in Ids(q.nodes)
         /\ References(p) => References(q)
         /\ Rooted(p.nodes) => Rooted(q.nodes)
  <1>. DEFINE t == Append(p.nodes, n)
              id == n.id
  <1>0. ListsOk(p.nodes, p.enums, p.rules) /\ IsList(p.nodes)
    BY ProjectIs
  <1>3. Ids(t) = Ids(p.nodes) \cup {id} /\ (Rooted(p.nodes) => Rooted(t))
    BY <1>0, AddedRooted
  <1>4. IsList(t) /\ ToSet(t) = ToSet(p.nodes) \cup {n}
    BY <1>0, AppendList
  <1>. HIDE DEF t
  <1>5. q = ProjectOf(p.namespaces, p.enums, t, p.rules, p.security, p.port)
    BY ProjectEdits DEF t, WithNodes
  <1>6. ListsOk(t, p.enums, p.rules)
    BY <1>0, <1>4 DEF ListsOk
  <1>8. ProjectOk(q) /\ q.nodes = t /\ q.enums = p.enums /\ q.rules = p.rules
    BY ONLY ProjectOk(p), <1>5, <1>6, ProjectParts
  <1>7. ASSUME References(p) PROVE References(q)
    <2>1. VariableIds(p) \subseteq VariableIds(q)
      BY <1>4, <1>8 DEF VariableIds
    <2>2. \A m \in ToSet(q.nodes) : /\ m.parent \in Ids(q.nodes) \cup {NoNode}
                                    /\ m.enum \in Ids(q.enums) \cup {NoNode}
      BY <1>3, <1>4, <1>8, <1>7 DEF References
    <2>. QED  BY <1>8, <1>7, <2>1, <2>2, ReferencesKept
  <1>. QED  BY <1>3, <1>8, <1>7

(* updateNode().                                                           *)
LEMMA EnumNamedIsThere ==
  ASSUME IsList(project.enums), NEW name
  PROVE  EnumNamed(name) \in Ids(project.enums) \cup {NoNode}
  <1>. DEFINE named == {i \in DOMAIN project.enums : project.enums[i].name = name}
  <1>1. CASE named = {}
    BY <1>1 DEF EnumNamed
  <1>2. CASE named # {}
    <2>1. named \subseteq Nat
      BY ListFacts
    <2>2. \E i \in named : \A j \in named : i <= j
      BY ONLY <1>2, <2>1, FirstPlace
    <2>3. \E i \in named : EnumNamed(name) = project.enums[i].id
      BY <1>2, <2>2 DEF EnumNamed
    <2>. QED  BY <2>3 DEF Ids
  <1>. QED  BY <1>1, <1>2

-----------------------------------------------------------------------------
(* updateNode().                                                            *)

LEMMA NodeFields ==
  ASSUME NEW k, NEW i, NEW p, NEW na, NEW ty, NEW en, NEW ra, NEW wr, NEW si,
         NEW n, n = NodeOf(k, i, p, na, ty, en, ra, wr, si)
  PROVE  /\ n.kind = k /\ n.id = i /\ n.parent = p /\ n.name = na /\ n.type = ty /\ n.enum = en
         /\ n.rank = ra /\ n.writable = wr /\ n.sim = si
         /\ IsNode(n)
  <1>1. /\ n.kind = k /\ n.id = i /\ n.parent = p /\ n.name = na /\ n.type = ty /\ n.enum = en
        /\ n.rank = ra /\ n.writable = wr /\ n.sim = si
    BY DEF NodeOf
  <1>. QED  BY ONLY <1>1, n = NodeOf(k, i, p, na, ty, en, ra, wr, si), Zenon DEF IsNode

LEMMA NodeIs ==
  ASSUME NEW n, IsNode(n)
  PROVE  \E k, i, p, na, ty, en, ra, wr, si : n = NodeOf(k, i, p, na, ty, en, ra, wr, si)
  BY Zenon DEF IsNode

(* What updateNode() and removeEnumType() make of a variable.                  *)
Updated(n, type, rank, sim, enum) ==
  [n EXCEPT !.type = type, !.rank = rank, !.sim = sim, !.enum = enum]
Detached(n, type) == [n EXCEPT !.enum = NoNode, !.type = type]

LEMMA VariableUpdated ==
  ASSUME NEW n, NodeOk(n), Variable(n), NEW type, NEW rank, NEW enum,
         NEW sim, sim.kind = "Manual" => sim = DefaultSim,
         NEW m, m = Updated(n, type, rank, sim, enum)
  PROVE  NodeOk(m) /\ m.id = n.id /\ m.parent = n.parent /\ m.kind = n.kind /\ m.enum = enum
  <1>1. PICK k, i, p, na, ty, en, ra, wr, si : n = NodeOf(k, i, p, na, ty, en, ra, wr, si)
    <2>1. IsNode(n)
      BY Zenon DEF NodeOk
    <2>. QED  BY ONLY <2>1, Zenon DEF IsNode
  <1>2. n.kind = k /\ n.id = i /\ n.parent = p
    BY <1>1, NodeFields
  <1>3. m = NodeOf(k, i, p, na, type, enum, rank, wr, sim)
    <2>. DEFINE a == [n EXCEPT !.type = type]
                b == [a EXCEPT !.rank = rank]
                c == [b EXCEPT !.sim = sim]
                d == [c EXCEPT !.enum = enum]
    <2>1. m = d
      BY Zenon DEF Updated
    <2>2. a = NodeOf(k, i, p, na, type, en, ra, wr, si)
      BY ONLY <1>1, SMT DEF NodeOf
    <2>. HIDE DEF a
    <2>3. b = NodeOf(k, i, p, na, type, en, rank, wr, si)
      BY ONLY <2>2, SMT DEF NodeOf
    <2>. HIDE DEF b
    <2>4. c = NodeOf(k, i, p, na, type, en, rank, wr, sim)
      BY ONLY <2>3, SMT DEF NodeOf
    <2>. HIDE DEF c
    <2>5. d = NodeOf(k, i, p, na, type, enum, rank, wr, sim)
      BY ONLY <2>4, SMT DEF NodeOf
    <2>. HIDE DEF d
    <2>. QED  BY <2>1, <2>5, Zenon
  <1>4. /\ m.kind = k /\ m.id = i /\ m.parent = p /\ m.sim = sim /\ m.enum = enum /\ IsNode(m)
    BY ONLY <1>3, NodeFields
  <1>. QED  BY <1>2, <1>4 DEF NodeOk, Variable

LEMMA VariableDetached ==
  ASSUME NEW n, NodeOk(n), Variable(n), NEW type,
         NEW m, m = Detached(n, type)
  PROVE  NodeOk(m) /\ m.id = n.id /\ m.parent = n.parent /\ m.kind = n.kind /\ m.enum = NoNode
  <1>1. PICK k, i, p, na, ty, en, ra, wr, si : n = NodeOf(k, i, p, na, ty, en, ra, wr, si)
    <2>1. IsNode(n)
      BY Zenon DEF NodeOk
    <2>. QED  BY ONLY <2>1, Zenon DEF IsNode
  <1>2. n.kind = k /\ n.id = i /\ n.parent = p /\ n.sim = si
    BY <1>1, NodeFields
  <1>3. m = NodeOf(k, i, p, na, type, NoNode, ra, wr, si)
    <2>. DEFINE a == [n EXCEPT !.enum = NoNode]
                b == [a EXCEPT !.type = type]
    <2>1. m = b
      BY Zenon DEF Detached
    <2>2. a = NodeOf(k, i, p, na, ty, NoNode, ra, wr, si)
      BY ONLY <1>1, SMT DEF NodeOf
    <2>. HIDE DEF a
    <2>3. b = NodeOf(k, i, p, na, type, NoNode, ra, wr, si)
      BY ONLY <2>2, SMT DEF NodeOf
    <2>. HIDE DEF b
    <2>. QED  BY <2>1, <2>3, Zenon
  <1>4. /\ m.kind = k /\ m.id = i /\ m.parent = p /\ m.sim = si /\ m.enum = NoNode /\ IsNode(m)
    BY ONLY <1>3, NodeFields
  <1>. QED  BY <1>2, <1>4 DEF NodeOk, Variable

(* Nodes that stay where they are and what they are, each of them in order.       *)
LEMMA NodesUpdated ==
  ASSUME NEW p, ProjectOk(p), NEW t, Alike(p.nodes, t), \A i \in DOMAIN p.nodes : NodeOk(t[i]),
         NEW q, q = [p EXCEPT !.nodes = t],
         \A i \in DOMAIN p.nodes : t[i].enum \in {p.nodes[i].enum, NoNode} \cup Ids(p.enums)
  PROVE  /\ ProjectOk(q) /\ Ids(q.nodes) = Ids(p.nodes)
         /\ References(p) => References(q)
         /\ Rooted(p.nodes) => Rooted(q.nodes)
  <1>1. ListsOk(p.nodes, p.enums, p.rules) /\ IsList(p.nodes)
    BY ProjectIs
  <1>2. /\ IsList(t) /\ Ids(t) = Ids(p.nodes) /\ VariablesOf(t) = VariablesOf(p.nodes)
        /\ Rooted(p.nodes) => Rooted(t)
    BY <1>1, AlikeFacts
  <1>3. DOMAIN t = DOMAIN p.nodes /\ ToSet(t) = {t[i] : i \in DOMAIN p.nodes}
    BY <1>1, MappedList DEF Alike
  <1>4. ListsOk(t, p.enums, p.rules)
    BY <1>1, <1>2, <1>3 DEF ListsOk
  <1>5. q = ProjectOf(p.namespaces, p.enums, t, p.rules, p.security, p.port)
    BY ProjectEdits
  <1>6. ProjectOk(q) /\ q.nodes = t /\ q.enums = p.enums /\ q.rules = p.rules
    BY ONLY ProjectOk(p), <1>4, <1>5, ProjectParts
  <1>7. ASSUME References(p) PROVE References(q)
    <2>1. VariableIds(p) \subseteq VariableIds(q)
      BY <1>2, <1>6 DEF VariableIds, VariablesOf
    <2>2. ASSUME NEW i \in DOMAIN p.nodes
          PROVE  t[i].parent \in Ids(t) \cup {NoNode} /\ t[i].enum \in Ids(p.enums) \cup {NoNode}
      <3>1. p.nodes[i] \in ToSet(p.nodes)
        BY <1>1, ListFacts
      <3>. QED  BY <1>2, <1>7, <3>1 DEF References, Alike
    <2>3. \A m \in ToSet(q.nodes) : /\ m.parent \in Ids(q.nodes) \cup {NoNode}
                                    /\ m.enum \in Ids(q.enums) \cup {NoNode}
      BY <1>3, <1>6, <2>2
    <2>. QED  BY <1>6, <1>7, <2>1, <2>3, ReferencesKept
  <1>. QED  BY <1>2, <1>6, <1>7

LEMMA UpdateNodeKeeps ==
  ASSUME ProjectOk(project), NEW type, NEW rank, NEW sim, sim.kind = "Manual" => sim = DefaultSim,
         NEW name, UpdateNode(type, rank, sim, name)
  PROVE  /\ ProjectOk(project') /\ Ids(project'.nodes) = Ids(project.nodes)
         /\ References(project) => References(project')
         /\ Rooted(project.nodes) => Rooted(project'.nodes)
         /\ \E q : EditOnly(q)
  <1>. DEFINE Change(n) ==
        IF n.id # selected \/ ~Variable(n) THEN n
        ELSE [n EXCEPT !.type = IF type \in Builtin THEN type ELSE n.type, !.rank = rank,
                       !.sim = sim, !.enum = EnumNamed(name)]
       s == project.nodes
       t == [i \in DOMAIN s |-> Change(s[i])]
  <1>0. EditOnly([project EXCEPT !.nodes = t])
    BY DEF UpdateNode, MapSeq
  <1>1. project' = [project EXCEPT !.nodes = t]
    BY <1>0 DEF EditOnly, Edit
  <1>2. /\ IsList(s) /\ \A n \in ToSet(s) : NodeOk(n)
        /\ IsList(project.enums)
    BY ProjectIs
  <1>3. \A i \in DOMAIN s : NodeOk(s[i])
    BY <1>2, ListFacts
  <1>4. EnumNamed(name) \in Ids(project.enums) \cup {NoNode}
    BY <1>2, EnumNamedIsThere
  <1>5. ASSUME NEW n, NodeOk(n)
        PROVE  /\ NodeOk(Change(n))
               /\ Change(n).id = n.id /\ Change(n).parent = n.parent /\ Change(n).kind = n.kind
               /\ Change(n).enum \in {n.enum, EnumNamed(name)}
    <2>1. CASE n.id # selected \/ ~Variable(n)
      BY <1>5, <2>1
    <2>2. CASE ~(n.id # selected \/ ~Variable(n))
      <3>. DEFINE m == Change(n)
                  ty == IF type \in Builtin THEN type ELSE n.type
                  en == EnumNamed(name)
      <3>1. m = Updated(n, ty, rank, sim, en)
        BY <2>2, Zenon DEF Updated
      <3>2. Variable(n)
        BY <2>2
      <3>. HIDE DEF m, ty, en
      <3>3. NodeOk(m) /\ m.id = n.id /\ m.parent = n.parent /\ m.kind = n.kind /\ m.enum = en
        BY ONLY <1>5, <3>1, <3>2, sim.kind = "Manual" => sim = DefaultSim, VariableUpdated
      <3>. QED  BY <3>3 DEF m, en
    <2>. QED  BY <2>1, <2>2
  <1>. HIDE DEF Change
  <1>6. Alike(s, t) /\ \A i \in DOMAIN s : NodeOk(t[i])
    BY <1>3, <1>5 DEF Alike
  <1>7. \A i \in DOMAIN s : t[i].enum \in {s[i].enum, NoNode} \cup Ids(project.enums)
    BY <1>3, <1>4, <1>5
  <1>. HIDE DEF t
  <1>8. /\ ProjectOk(project') /\ Ids(project'.nodes) = Ids(project.nodes)
        /\ References(project) => References(project')
        /\ Rooted(project.nodes) => Rooted(project'.nodes)
    BY ONLY ProjectOk(project), <1>1, <1>6, <1>7, NodesUpdated
  <1>. QED  BY <1>0, <1>8

-----------------------------------------------------------------------------
(* removeNode() and the rules it prunes.                                    *)

LEMMA KeepSubset ==
  ASSUME NEW s, IsList(s), NEW S, S \subseteq ToSet(s), NEW t, t = Keep(s, S)
  PROVE  IsList(t) /\ ToSet(t) = S
  <1>1. IsList(Keep(s, S)) /\ ToSet(Keep(s, S)) = ToSet(s) \cap S
    BY KeepFacts, Zenon
  <1>2. ToSet(s) \cap S = S
    OBVIOUS
  <1>. QED  BY ONLY <1>1, <1>2, t = Keep(s, S), Zenon

LEMMA RuleFields ==
  ASSUME NEW t, NEW a, NEW r, r = RuleOf(t, a)
  PROVE  r.trigger = t /\ r.actions = a /\ IsRule(r)
  <1>1. r.trigger = t /\ r.actions = a
    BY DEF RuleOf
  <1>. QED  BY ONLY <1>1, r = RuleOf(t, a), Zenon DEF IsRule

LEMMA RuleEdits ==
  ASSUME NEW r, RuleOk(r), NEW x
  PROVE  /\ [r EXCEPT !.trigger = x] = RuleOf(x, r.actions)
         /\ [r EXCEPT !.actions = x] = RuleOf(r.trigger, x)
  <1>1. PICK t, a : r = RuleOf(t, a)
    BY Zenon DEF RuleOk, IsRule
  <1>2. /\ r.trigger = t /\ r.actions = a
        /\ [r EXCEPT !.trigger = x] = RuleOf(x, a)
        /\ [r EXCEPT !.actions = x] = RuleOf(t, x)
    BY ONLY <1>1, SMT DEF RuleOf
  <1>. QED  BY ONLY <1>2, Zenon

(* A rule that says less, or the same of more.                                *)
LEMMA RuleWith ==
  ASSUME NEW t, NEW a, IsList(a), \A x \in ToSet(a) : ActionOk(x), NEW r, r = RuleOf(t, a)
  PROVE  RuleOk(r) /\ r.trigger = t /\ r.actions = a
  BY RuleFields DEF RuleOk

-----------------------------------------------------------------------------
(* removeNode().                                                           *)

PrunedRule(r, gone) ==
  [r EXCEPT !.actions = Keep(@, {a \in ToSet(r.actions) : a.target \notin gone})]

LEMMA RulePruned ==
  ASSUME NEW r, RuleOk(r), NEW gone
  PROVE  /\ RuleOk(PrunedRule(r, gone)) /\ PrunedRule(r, gone).trigger = r.trigger
         /\ \A a \in ToSet(PrunedRule(r, gone).actions) : a \in ToSet(r.actions) /\ a.target \notin gone
  <1>. DEFINE S == {a \in ToSet(r.actions) : a.target \notin gone}
              kept == Keep(r.actions, S)
              m == PrunedRule(r, gone)
  <1>1. IsList(r.actions) /\ \A a \in ToSet(r.actions) : ActionOk(a)
    BY DEF RuleOk
  <1>5. S \subseteq ToSet(r.actions)
    OBVIOUS
  <1>. HIDE DEF S
  <1>6. IsList(kept) /\ ToSet(kept) = S
    BY ONLY <1>1, <1>5, KeepSubset
  <1>2. IsList(kept) /\ ToSet(kept) = {a \in ToSet(r.actions) : a.target \notin gone}
    BY <1>6 DEF S
  <1>. HIDE DEF kept
  <1>3. m = RuleOf(r.trigger, kept)
    BY RuleEdits DEF PrunedRule, kept, S
  <1>. HIDE DEF m
  <1>4. RuleOk(m) /\ m.trigger = r.trigger /\ m.actions = kept
    BY ONLY <1>1, <1>2, <1>3, RuleWith
  <1>. QED  BY <1>2, <1>4 DEF m

LEMMA RulesPruned ==
  ASSUME NEW rules, IsList(rules), \A r \in ToSet(rules) : RuleOk(r), NEW gone
  PROVE  /\ IsList(PruneRules(rules, gone))
         /\ \A r \in ToSet(PruneRules(rules, gone)) :
              /\ RuleOk(r) /\ r.trigger \notin gone
              /\ \E o \in ToSet(rules) :
                   /\ r.trigger = o.trigger
                   /\ \A a \in ToSet(r.actions) : a \in ToSet(o.actions) /\ a.target \notin gone
  <1>. DEFINE pruned == [i \in DOMAIN rules |-> PrunedRule(rules[i], gone)]
              live == {r \in ToSet(pruned) : r.trigger \notin gone /\ r.actions # <<>>}
  <1>1. PruneRules(rules, gone) = Keep(pruned, live)
    BY DEF PruneRules, PrunedRule, MapSeq
  <1>2. IsList(pruned) /\ ToSet(pruned) = {pruned[i] : i \in DOMAIN rules}
    BY MappedList
  <1>3. ASSUME NEW i \in DOMAIN rules
        PROVE  /\ RuleOk(pruned[i])
               /\ \E o \in ToSet(rules) :
                    /\ pruned[i].trigger = o.trigger
                    /\ \A a \in ToSet(pruned[i].actions) : a \in ToSet(o.actions) /\ a.target \notin gone
    <2>1. RuleOk(rules[i]) /\ rules[i] \in ToSet(rules)
      BY RuleLists
    <2>. QED  BY <2>1, RulePruned
  <1>. HIDE DEF pruned
  <1>4. IsList(Keep(pruned, live)) /\ ToSet(Keep(pruned, live)) = ToSet(pruned) \cap live
    BY <1>2, KeepFacts
  <1>. QED  BY <1>1, <1>2, <1>3, <1>4

LEMMA RemoveNodeKeeps ==
  ASSUME ProjectOk(project), RemoveNode
  PROVE  /\ ProjectOk(project')
         /\ References(project) => References(project')
         /\ Rooted(project.nodes) => Rooted(project'.nodes)
  <1>. DEFINE s    == project.nodes
              gone == Subtree(selected)
              kept == {n \in ToSet(s) : n.id \notin gone}
              t    == Keep(s, kept)
              r    == PruneRules(project.rules, gone)
  <1>1. project' = [project EXCEPT !.nodes = t, !.rules = r]
    BY DEF RemoveNode, Edit
  <1>2. /\ IsList(s) /\ (\A n \in ToSet(s) : NodeOk(n))
        /\ IsList(project.rules) /\ (\A x \in ToSet(project.rules) : RuleOk(x))
        /\ ListsOk(s, project.enums, project.rules)
    BY ProjectIs
  <1>3. Closed(Links(s), gone)
    BY HangingFacts DEF Subtree
  <1>. HIDE DEF gone
  <1>11. kept \subseteq ToSet(s)
    OBVIOUS
  <1>. HIDE DEF kept
  <1>12. IsList(t) /\ ToSet(t) = kept
    BY ONLY <1>2, <1>11, KeepSubset
  <1>4. IsList(t) /\ ToSet(t) = {n \in ToSet(s) : n.id \notin gone}
    BY <1>12 DEF kept
  <1>. HIDE DEF t
  <1>5. Ids(t) = Ids(s) \ gone /\ (Rooted(s) => Rooted(t))
    BY <1>2, <1>3, <1>4, LessRooted
  <1>6. /\ IsList(r)
        /\ \A x \in ToSet(r) :
             /\ RuleOk(x) /\ x.trigger \notin gone
             /\ \E o \in ToSet(project.rules) :
                  /\ x.trigger = o.trigger
                  /\ \A a \in ToSet(x.actions) : a \in ToSet(o.actions) /\ a.target \notin gone
    BY <1>2, RulesPruned
  <1>. HIDE DEF r
  <1>7. ListsOk(t, project.enums, r)
    BY <1>2, <1>4, <1>6 DEF ListsOk
  <1>8. project' = ProjectOf(project.namespaces, project.enums, t, r, project.security, project.port)
    BY <1>1, ProjectEdits
  <1>9. /\ ProjectOk(project') /\ project'.nodes = t /\ project'.enums = project.enums
        /\ project'.rules = r
    BY ONLY ProjectOk(project), <1>7, <1>8, ProjectParts
  <1>10. ASSUME References(project) PROVE References(project')
    <2>1. VariableIds(project') = VariableIds(project) \ gone
      BY <1>4, <1>9 DEF VariableIds, Variable
    <2>2. ASSUME NEW n \in ToSet(t)
          PROVE  n.parent \in Ids(t) \cup {NoNode} /\ n.enum \in Ids(project.enums) \cup {NoNode}
      <3>1. /\ n \in ToSet(s) /\ n.id \notin gone
            /\ n.parent \in Ids(s) \cup {NoNode} /\ n.enum \in Ids(project.enums) \cup {NoNode}
        BY <1>4, <1>10 DEF References
      <3>2. <<n.id, n.parent>> \in Links(s)
        BY <3>1 DEF Links
      <3>3. n.parent \notin gone
        BY <1>3, <3>1, <3>2 DEF Closed
      <3>. QED  BY <1>5, <3>1, <3>3
    <2>3. ASSUME NEW x \in ToSet(r)
          PROVE  /\ x.trigger \in VariableIds(project')
                 /\ \A a \in ToSet(x.actions) : a.target \in VariableIds(project')
      BY <1>6, <1>10, <2>1 DEF References
    <2>. QED  BY <1>9, <2>2, <2>3 DEF References
  <1>. QED  BY <1>5, <1>9, <1>10

-----------------------------------------------------------------------------
(* Rules.                                                                  *)

LEMMA RulesEdited ==
  ASSUME NEW p, ProjectOk(p), NEW rules, IsList(rules), \A r \in ToSet(rules) : RuleOk(r),
         NEW q, q = [p EXCEPT !.rules = rules]
  PROVE  /\ ProjectOk(q) /\ q.nodes = p.nodes
         /\ (/\ References(p)
             /\ \A r \in ToSet(rules) : /\ r.trigger \in VariableIds(p)
                                        /\ \A a \in ToSet(r.actions) : a.target \in VariableIds(p))
            => References(q)
  <1>1. ListsOk(p.nodes, p.enums, rules)
    BY ProjectIs DEF ListsOk
  <1>2. q = ProjectOf(p.namespaces, p.enums, p.nodes, rules, p.security, p.port)
    BY ProjectEdits
  <1>3. ProjectOk(q) /\ q.nodes = p.nodes /\ q.enums = p.enums /\ q.rules = rules
    BY ONLY ProjectOk(p), <1>1, <1>2, ProjectParts
  <1>4. VariableIds(q) = VariableIds(p)
    BY <1>3 DEF VariableIds
  <1>. QED  BY <1>3, <1>4 DEF References

LEMMA RuleReplaced ==
  ASSUME ProjectOk(project), NEW i \in DOMAIN project.rules, NEW r, RuleOk(r),
         NEW q, q = [project EXCEPT !.rules = [project.rules EXCEPT ![i] = r]]
  PROVE  /\ ProjectOk(q) /\ q.nodes = project.nodes
         /\ (/\ References(project) /\ r.trigger \in VariableIds(project)
             /\ \A a \in ToSet(r.actions) : a.target \in VariableIds(project))
            => References(q)
  <1>. DEFINE rules == [project.rules EXCEPT ![i] = r]
  <1>1. IsList(project.rules) /\ \A x \in ToSet(project.rules) : RuleOk(x)
    BY ProjectIs
  <1>2. IsList(rules) /\ ToSet(rules) \subseteq ToSet(project.rules) \cup {r}
    BY <1>1, ExceptList
  <1>3. q = [project EXCEPT !.rules = rules]
    OBVIOUS
  <1>. HIDE DEF rules
  <1>4. \A x \in ToSet(rules) : RuleOk(x)
    BY <1>1, <1>2
  <1>5. ProjectOk(q) /\ q.nodes = project.nodes
    BY ONLY ProjectOk(project), <1>2, <1>3, <1>4, RulesEdited
  <1>6. ASSUME References(project), r.trigger \in VariableIds(project),
               \A a \in ToSet(r.actions) : a.target \in VariableIds(project)
        PROVE  References(q)
    <2>1. \A x \in ToSet(rules) : /\ x.trigger \in VariableIds(project)
                                  /\ \A a \in ToSet(x.actions) : a.target \in VariableIds(project)
      BY <1>2, <1>6 DEF References
    <2>. QED  BY ONLY ProjectOk(project), <1>2, <1>3, <1>4, <1>6, <2>1, RulesEdited
  <1>. QED  BY <1>5, <1>6

-----------------------------------------------------------------------------
(* The edits of rules.                                                      *)

(* What an edit promises.                                                    *)
Kept ==
  /\ ProjectOk(project') /\ SelectionOk'
  /\ References(project) /\ UniqueEnumNames(project) => References(project')
  /\ Rooted(project.nodes) => Rooted(project'.nodes)

LEMMA SameNodesKept ==
  ASSUME SelectionOk, NEW q, EditOnly(q), ProjectOk(q), Ids(q.nodes) = Ids(project.nodes),
         Rooted(project.nodes) => Rooted(q.nodes),
         References(project) /\ UniqueEnumNames(project) => References(q)
  PROVE  Kept
  BY DEF Kept, SelectionOk, EditOnly, Edit

LEMMA ActionFields ==
  ASSUME NEW t, NEW m, NEW l, NEW d, NEW a, a = ActionOf(t, m, l, d), m \in ValueModes
  PROVE  ActionOk(a) /\ a.target = t /\ a.mode = m /\ a.literal = l
  <1>1. a.target = t /\ a.mode = m /\ a.literal = l /\ a.delay = d
    BY DEF ActionOf
  <1>2. IsAction(a)
    BY ONLY <1>1, a = ActionOf(t, m, l, d), Zenon DEF IsAction
  <1>. QED  BY <1>1, <1>2 DEF ActionOk

LEMMA AddRuleKeeps ==
  ASSUME ProjectOk(project), SelectionOk, NEW id \in VariableIds(project), AddRule(id)
  PROVE  Kept
  <1>. DEFINE r == [trigger |-> id, actions |-> <<>>]
              rules == Append(project.rules, r)
              q == [project EXCEPT !.rules = rules]
  <1>1. EditOnly(q)
    BY DEF AddRule
  <1>2. IsList(project.rules) /\ \A x \in ToSet(project.rules) : RuleOk(x)
    BY ProjectIs
  <1>3. r = RuleOf(id, <<>>)
    BY DEF RuleOf
  <1>. HIDE DEF r
  <1>4. RuleOk(r) /\ r.trigger = id /\ r.actions = <<>>
    BY <1>3, RuleWith, EmptyList
  <1>5. IsList(rules) /\ ToSet(rules) = ToSet(project.rules) \cup {r}
    BY <1>2, AppendList
  <1>. HIDE DEF rules
  <1>6. \A x \in ToSet(rules) : RuleOk(x)
    BY <1>2, <1>4, <1>5
  <1>7. ProjectOk(q) /\ q.nodes = project.nodes
    BY ONLY ProjectOk(project), <1>5, <1>6, RulesEdited
  <1>8. ASSUME References(project) PROVE References(q)
    <2>1. \A x \in ToSet(rules) : /\ x.trigger \in VariableIds(project)
                                  /\ \A a \in ToSet(x.actions) : a.target \in VariableIds(project)
      BY <1>4, <1>5, <1>8, EmptyList DEF References
    <2>. QED  BY ONLY ProjectOk(project), <1>5, <1>6, <1>8, <2>1, RulesEdited
  <1>. HIDE DEF q
  <1>. QED  BY <1>1, <1>7, <1>8, SameNodesKept

LEMMA RemoveRuleKeeps ==
  ASSUME ProjectOk(project), SelectionOk, NEW i \in DOMAIN project.rules, RemoveRule(i)
  PROVE  Kept
  <1>. DEFINE rules == RemoveAt(project.rules, i)
              q == [project EXCEPT !.rules = rules]
  <1>1. EditOnly(q)
    BY DEF RemoveRule
  <1>2. IsList(project.rules) /\ \A x \in ToSet(project.rules) : RuleOk(x)
    BY ProjectIs
  <1>5. IsList(rules) /\ ToSet(rules) \subseteq ToSet(project.rules)
    BY <1>2, RemoveList
  <1>. HIDE DEF rules
  <1>6. \A x \in ToSet(rules) : RuleOk(x)
    BY <1>2, <1>5
  <1>7. ProjectOk(q) /\ q.nodes = project.nodes
    BY ONLY ProjectOk(project), <1>5, <1>6, RulesEdited
  <1>8. ASSUME References(project) PROVE References(q)
    <2>1. \A x \in ToSet(rules) : /\ x.trigger \in VariableIds(project)
                                  /\ \A a \in ToSet(x.actions) : a.target \in VariableIds(project)
      BY <1>5, <1>8 DEF References
    <2>. QED  BY ONLY ProjectOk(project), <1>5, <1>6, <1>8, <2>1, RulesEdited
  <1>. HIDE DEF q
  <1>. QED  BY <1>1, <1>7, <1>8, SameNodesKept

(* Another rule at a place, that names what the project has.                    *)
LEMMA RuleChangeKeeps ==
  ASSUME ProjectOk(project), SelectionOk, NEW i \in DOMAIN project.rules, NEW r, RuleOk(r),
         NEW q, q = [project EXCEPT !.rules = [project.rules EXCEPT ![i] = r]], EditOnly(q),
         References(project) => /\ r.trigger \in VariableIds(project)
                                /\ \A a \in ToSet(r.actions) : a.target \in VariableIds(project)
  PROVE  Kept
  <1>1. ProjectOk(q) /\ q.nodes = project.nodes
    BY RuleReplaced
  <1>2. References(project) => References(q)
    BY RuleReplaced
  <1>. QED  BY ONLY SelectionOk, EditOnly(q), <1>1, <1>2, SameNodesKept

LEMMA SetRuleTriggerKeeps ==
  ASSUME ProjectOk(project), SelectionOk, NEW i \in DOMAIN project.rules,
         NEW id \in VariableIds(project), SetRuleTrigger(i, id)
  PROVE  Kept
  <1>. DEFINE o == project.rules[i]
              r == [o EXCEPT !.trigger = id]
              q == [project EXCEPT !.rules = [project.rules EXCEPT ![i] = r]]
  <1>1. RuleOk(o) /\ o \in ToSet(project.rules)
    BY ProjectIs, RuleLists
  <1>2. [project EXCEPT !.rules[i].trigger = id] = q
    BY Zenon
  <1>3. EditOnly(q)
    BY <1>2 DEF SetRuleTrigger
  <1>. HIDE DEF o
  <1>4. r = RuleOf(id, o.actions)
    BY <1>1, RuleEdits
  <1>5. IsList(o.actions) /\ \A a \in ToSet(o.actions) : ActionOk(a)
    BY <1>1 DEF RuleOk
  <1>6. RuleOk(r) /\ r.trigger = id /\ r.actions = o.actions
    BY ONLY <1>4, <1>5, RuleWith
  <1>. HIDE DEF r
  <1>7. References(project) => /\ r.trigger \in VariableIds(project)
                               /\ \A a \in ToSet(r.actions) : a.target \in VariableIds(project)
    BY <1>1, <1>6 DEF References
  <1>8. q = [project EXCEPT !.rules = [project.rules EXCEPT ![i] = r]]
    OBVIOUS
  <1>. HIDE DEF q
  <1>. QED  BY ONLY ProjectOk(project), SelectionOk, i \in DOMAIN project.rules,
               <1>3, <1>6, <1>7, <1>8, RuleChangeKeeps

(* Other actions for a rule.                                                  *)
LEMMA ActionsChangeKeeps ==
  ASSUME ProjectOk(project), SelectionOk, NEW i \in DOMAIN project.rules,
         NEW actions, IsList(actions), \A a \in ToSet(actions) : ActionOk(a),
         NEW q, EditOnly(q),
         q = [project EXCEPT !.rules = [project.rules EXCEPT ![i] =
                                          [project.rules[i] EXCEPT !.actions = actions]]],
         References(project) => \A a \in ToSet(actions) : a.target \in VariableIds(project)
  PROVE  Kept
  <1>. DEFINE o == project.rules[i]
              r == [o EXCEPT !.actions = actions]
  <1>1. RuleOk(o) /\ o \in ToSet(project.rules)
    BY ProjectIs, RuleLists
  <1>2. q = [project EXCEPT !.rules = [project.rules EXCEPT ![i] = r]]
    OBVIOUS
  <1>. HIDE DEF o
  <1>3. r = RuleOf(o.trigger, actions)
    BY <1>1, RuleEdits
  <1>4. RuleOk(r) /\ r.trigger = o.trigger /\ r.actions = actions
    BY ONLY <1>3, IsList(actions), \A a \in ToSet(actions) : ActionOk(a), RuleWith
  <1>. HIDE DEF r
  <1>5. References(project) => /\ r.trigger \in VariableIds(project)
                               /\ \A a \in ToSet(r.actions) : a.target \in VariableIds(project)
    BY <1>1, <1>4 DEF References
  <1>. QED  BY ONLY ProjectOk(project), SelectionOk, i \in DOMAIN project.rules, EditOnly(q),
               <1>2, <1>4, <1>5, RuleChangeKeeps

LEMMA OldActions ==
  ASSUME ProjectOk(project), NEW i \in DOMAIN project.rules
  PROVE  /\ IsList(project.rules[i].actions)
         /\ \A a \in ToSet(project.rules[i].actions) :
              ActionOk(a) /\ (References(project) => a.target \in VariableIds(project))
  <1>1. RuleOk(project.rules[i]) /\ project.rules[i] \in ToSet(project.rules)
    BY ProjectIs, RuleLists
  <1>. QED  BY <1>1 DEF RuleOk, References

LEMMA AddRuleActionKeeps ==
  ASSUME ProjectOk(project), SelectionOk, NEW i \in DOMAIN project.rules,
         NEW id \in VariableIds(project), AddRuleAction(i, id)
  PROVE  Kept
  <1>. DEFINE old == project.rules[i].actions
              new == [NewAction EXCEPT !.target = id, !.literal = Node(id).type]
              actions == Append(old, new)
              q == [project EXCEPT !.rules = [project.rules EXCEPT ![i] =
                                                [project.rules[i] EXCEPT !.actions = actions]]]
  <1>1. [project EXCEPT !.rules[i].actions = actions] = q
    BY Zenon
  <1>2. EditOnly(q)
    BY <1>1 DEF AddRuleAction
  <1>3. /\ IsList(old)
        /\ \A a \in ToSet(old) :
             ActionOk(a) /\ (References(project) => a.target \in VariableIds(project))
    BY OldActions
  <1>4. ActionOk(new) /\ new.target = id
    <2>. DEFINE type == Node(id).type
                a == [NewAction EXCEPT !.target = id]
    <2>. HIDE DEF type
    <2>1. [NewAction EXCEPT !.target = id, !.literal = type] = [a EXCEPT !.literal = type]
      BY Zenon
    <2>2. a = ActionOf(id, "Literal", "none", 0)
      BY DEF NewAction, ActionOf
    <2>. HIDE DEF a
    <2>3. [a EXCEPT !.literal = type] = ActionOf(id, "Literal", type, 0)
      BY ONLY <2>2, SMT DEF ActionOf
    <2>4. new = ActionOf(id, "Literal", type, 0)
      BY <2>1, <2>3, Zenon DEF type
    <2>. HIDE DEF new
    <2>5. "Literal" \in ValueModes
      BY DEF ValueModes
    <2>. QED  BY ONLY <2>4, <2>5, ActionFields
  <1>. HIDE DEF old, new
  <1>5. IsList(actions) /\ ToSet(actions) = ToSet(old) \cup {new}
    BY <1>3, AppendList
  <1>. HIDE DEF actions
  <1>6. \A a \in ToSet(actions) : ActionOk(a)
    BY <1>3, <1>4, <1>5
  <1>7. References(project) => \A a \in ToSet(actions) : a.target \in VariableIds(project)
    BY <1>3, <1>4, <1>5
  <1>8. q = [project EXCEPT !.rules = [project.rules EXCEPT ![i] =
                                         [project.rules[i] EXCEPT !.actions = actions]]]
    OBVIOUS
  <1>. HIDE DEF q
  <1>. QED  BY ONLY ProjectOk(project), SelectionOk, i \in DOMAIN project.rules,
               <1>2, <1>5, <1>6, <1>7, <1>8, ActionsChangeKeeps

LEMMA RemoveRuleActionKeeps ==
  ASSUME ProjectOk(project), SelectionOk, NEW i \in DOMAIN project.rules,
         NEW j \in DOMAIN project.rules[i].actions, RemoveRuleAction(i, j)
  PROVE  Kept
  <1>. DEFINE old == project.rules[i].actions
              actions == RemoveAt(old, j)
              q == [project EXCEPT !.rules = [project.rules EXCEPT ![i] =
                                                [project.rules[i] EXCEPT !.actions = actions]]]
  <1>1. [project EXCEPT !.rules[i].actions = actions] = q
    BY Zenon
  <1>2. EditOnly(q)
    BY <1>1 DEF RemoveRuleAction
  <1>3. /\ IsList(old)
        /\ \A a \in ToSet(old) :
             ActionOk(a) /\ (References(project) => a.target \in VariableIds(project))
    BY OldActions
  <1>5. IsList(actions) /\ ToSet(actions) \subseteq ToSet(old)
    BY <1>3, RemoveList
  <1>8. q = [project EXCEPT !.rules = [project.rules EXCEPT ![i] =
                                         [project.rules[i] EXCEPT !.actions = actions]]]
    OBVIOUS
  <1>. HIDE DEF old, actions
  <1>6. \A a \in ToSet(actions) : ActionOk(a)
    BY <1>3, <1>5
  <1>7. References(project) => \A a \in ToSet(actions) : a.target \in VariableIds(project)
    BY <1>3, <1>5
  <1>. HIDE DEF q
  <1>. QED  BY ONLY ProjectOk(project), SelectionOk, i \in DOMAIN project.rules,
               <1>2, <1>5, <1>6, <1>7, <1>8, ActionsChangeKeeps

LEMMA UpdateRuleActionKeeps ==
  ASSUME ProjectOk(project), SelectionOk, NEW i \in DOMAIN project.rules,
         NEW j \in DOMAIN project.rules[i].actions, NEW mode \in ValueModes, NEW delay,
         UpdateRuleAction(i, j, mode, delay)
  PROVE  Kept
  <1>. DEFINE old == project.rules[i].actions
              o   == old[j]
              new == [o EXCEPT !.mode = mode, !.delay = delay]
              actions == [old EXCEPT ![j] = new]
              q == [project EXCEPT !.rules = [project.rules EXCEPT ![i] =
                                                [project.rules[i] EXCEPT !.actions = actions]]]
  <1>1. [project EXCEPT !.rules[i].actions[j] = [@ EXCEPT !.mode = mode, !.delay = delay]] = q
    BY Zenon
  <1>2. EditOnly(q)
    BY <1>1 DEF UpdateRuleAction
  <1>3. /\ IsList(old)
        /\ \A a \in ToSet(old) :
             ActionOk(a) /\ (References(project) => a.target \in VariableIds(project))
    BY OldActions
  <1>8. q = [project EXCEPT !.rules = [project.rules EXCEPT ![i] =
                                         [project.rules[i] EXCEPT !.actions = actions]]]
    OBVIOUS
  <1>9. j \in DOMAIN old
    OBVIOUS
  <1>. HIDE DEF old, q
  <1>10. o \in ToSet(old)
    BY <1>3, <1>9, ListFacts
  <1>. HIDE DEF o
  <1>4. ActionOk(new) /\ new.target = o.target
    <2>1. PICK t, m, l, d : o = ActionOf(t, m, l, d)
      <3>1. IsAction(o)
        BY <1>3, <1>10 DEF ActionOk
      <3>. QED  BY ONLY <3>1, Zenon DEF IsAction
    <2>. DEFINE a == [o EXCEPT !.mode = mode]
                b == [a EXCEPT !.delay = delay]
    <2>2. new = b
      BY Zenon
    <2>3. a = ActionOf(t, mode, l, d)
      BY ONLY <2>1, SMT DEF ActionOf
    <2>. HIDE DEF a
    <2>4. b = ActionOf(t, mode, l, delay)
      BY ONLY <2>3, SMT DEF ActionOf
    <2>. HIDE DEF b, new
    <2>5. o.target = t
      BY ONLY <2>1, SMT DEF ActionOf
    <2>6. ActionOk(b) /\ b.target = t
      BY ONLY <2>4, mode \in ValueModes, ActionFields
    <2>. QED  BY ONLY <2>2, <2>5, <2>6, Zenon
  <1>. HIDE DEF new
  <1>5. IsList(actions) /\ ToSet(actions) \subseteq ToSet(old) \cup {new}
    BY <1>3, <1>9, ExceptList
  <1>. HIDE DEF actions
  <1>6. \A a \in ToSet(actions) : ActionOk(a)
    BY <1>3, <1>4, <1>5
  <1>7. References(project) => \A a \in ToSet(actions) : a.target \in VariableIds(project)
    BY <1>3, <1>4, <1>5, <1>10
  <1>. QED  BY ONLY ProjectOk(project), SelectionOk, i \in DOMAIN project.rules,
               <1>2, <1>5, <1>6, <1>7, <1>8, ActionsChangeKeeps

LEMMA EditRulesKeeps == ASSUME ProjectOk(project), SelectionOk, EditRules PROVE Kept
  <1>1. CASE \E id \in VariableIds(project) : AddRule(id)
    BY <1>1, AddRuleKeeps
  <1>2. ASSUME NEW i \in DOMAIN project.rules, RemoveRule(i) PROVE Kept
    BY <1>2, RemoveRuleKeeps
  <1>3. ASSUME NEW i \in DOMAIN project.rules, NEW id \in VariableIds(project),
               SetRuleTrigger(i, id) \/ AddRuleAction(i, id)
        PROVE  Kept
    BY <1>3, SetRuleTriggerKeeps, AddRuleActionKeeps
  <1>4. ASSUME NEW i \in DOMAIN project.rules, NEW j \in DOMAIN project.rules[i].actions,
               RemoveRuleAction(i, j)
        PROVE  Kept
    BY <1>4, RemoveRuleActionKeeps
  <1>5. ASSUME NEW i \in DOMAIN project.rules, NEW j \in DOMAIN project.rules[i].actions,
               NEW mode \in ValueModes, UpdateRuleAction(i, j, mode, 1)
        PROVE  Kept
    BY <1>5, UpdateRuleActionKeeps
  <1>. QED  BY <1>1, <1>2, <1>3, <1>4, <1>5, Zenon DEF EditRules

-----------------------------------------------------------------------------
(* The edits of security and of enum types.                                 *)

LEMMA SecurityKeeps ==
  ASSUME ProjectOk(project), SelectionOk, NEW s, NEW q, q = [project EXCEPT !.security = s],
         EditOnly(q)
  PROVE  Kept
  <1>1. ProjectOk(q) /\ q.nodes = project.nodes /\ (References(project) => References(q))
    BY SecurityEdited
  <1>. QED  BY ONLY SelectionOk, EditOnly(q), <1>1, SameNodesKept

LEMMA EditSecurityKeeps == ASSUME ProjectOk(project), SelectionOk, EditSecurity PROVE Kept
  <1>. DEFINE Edits(s) == EditOnly([project EXCEPT !.security = s])
  <1>1. ASSUME NEW s, Edits(s) PROVE Kept
    BY ONLY ProjectOk(project), SelectionOk, <1>1, SecurityKeeps
  <1>2. ASSUME NEW a \in BOOLEAN, NEW n \in BOOLEAN, NEW s \in BOOLEAN, SetSecurityFlags(a, n, s)
        PROVE  Kept
    <2>. DEFINE p1 == [project EXCEPT !.security.anonymous = a]
                new == [[[project.security EXCEPT !.anonymous = a] EXCEPT !.none = n]
                          EXCEPT !.secure = s]
    <2>1. [project EXCEPT !.security.anonymous = a, !.security.none = n, !.security.secure = s]
            = [project EXCEPT !.security = new]
      <3>. DEFINE p2 == [p1 EXCEPT !.security.none = n]
                  p3 == [p2 EXCEPT !.security.secure = s]
                  s1 == [project.security EXCEPT !.anonymous = a]
                  s2 == [s1 EXCEPT !.none = n]
      <3>1. [project EXCEPT !.security.anonymous = a, !.security.none = n, !.security.secure = s] = p3
        BY Zenon
      <3>2. PICK ns, en, no, ru, se, po : project = ProjectOf(ns, en, no, ru, se, po)
        BY Zenon DEF ProjectOk, IsProject
      <3>3. project.security = se
        BY ONLY <3>2, SMT DEF ProjectOf
      <3>4. p1 = [project EXCEPT !.security = s1]
        BY Zenon
      <3>5. p1 = ProjectOf(ns, en, no, ru, s1, po)
        <4>1. [project EXCEPT !.security = s1] = ProjectOf(ns, en, no, ru, s1, po)
          <5>. HIDE DEF s1
          <5>. QED  BY ONLY <3>2, SMT DEF ProjectOf
        <4>. QED  BY ONLY <3>4, <4>1, Zenon
      <3>. HIDE DEF p1, s1
      <3>6. p2 = [p1 EXCEPT !.security = [p1.security EXCEPT !.none = n]]
        BY Zenon
      <3>7. p1.security = s1
        BY ONLY <3>5, SMT DEF ProjectOf
      <3>8. p2 = [p1 EXCEPT !.security = s2]
        BY ONLY <3>6, <3>7, Zenon DEF s2
      <3>. HIDE DEF s2
      <3>9. [p1 EXCEPT !.security = s2] = ProjectOf(ns, en, no, ru, s2, po)
        BY ONLY <3>5, SMT DEF ProjectOf
      <3>10. p2 = ProjectOf(ns, en, no, ru, s2, po)
        BY ONLY <3>8, <3>9, Zenon
      <3>11. p3 = [p2 EXCEPT !.security = [p2.security EXCEPT !.secure = s]]
        BY Zenon
      <3>. HIDE DEF p2, p3
      <3>12. p2.security = s2
        BY ONLY <3>10, SMT DEF ProjectOf
      <3>13. new = [s2 EXCEPT !.secure = s]
        BY Zenon DEF s1, s2
      <3>. HIDE DEF new
      <3>14. p3 = [p2 EXCEPT !.security = new]
        BY ONLY <3>11, <3>12, <3>13, Zenon
      <3>15. [p2 EXCEPT !.security = new] = ProjectOf(ns, en, no, ru, new, po)
        BY ONLY <3>10, SMT DEF ProjectOf
      <3>16. [project EXCEPT !.security = new] = ProjectOf(ns, en, no, ru, new, po)
        BY ONLY <3>2, SMT DEF ProjectOf
      <3>. QED  BY ONLY <3>1, <3>14, <3>15, <3>16, Zenon
    <2>. HIDE DEF new
    <2>2. Edits(new)
      BY <1>2, <2>1, Zenon DEF SetSecurityFlags
    <2>. QED  BY ONLY <1>1, <2>2
  <1>3. ASSUME NEW all \in BOOLEAN, SetAcceptAll(all) PROVE Kept
    <2>1. [project EXCEPT !.security.acceptAll = all]
            = [project EXCEPT !.security = [project.security EXCEPT !.acceptAll = all]]
      BY Zenon
    <2>2. Edits([project.security EXCEPT !.acceptAll = all])
      BY <1>3, <2>1, Zenon DEF SetAcceptAll
    <2>. QED  BY ONLY <1>1, <2>2
  <1>4. ASSUME NEW user, AddUser(user) PROVE Kept
    <2>. DEFINE new == [project.security EXCEPT !.users = project.security.users \cup {user}]
    <2>1. [project EXCEPT !.security.users = project.security.users \cup {user}]
            = [project EXCEPT !.security = new]
      BY Zenon
    <2>2. Edits(new)
      BY <1>4, <2>1, Zenon DEF AddUser
    <2>. QED  BY ONLY <1>1, <2>2
  <1>5. ASSUME NEW user, RemoveUser(user) PROVE Kept
    <2>. DEFINE new == [project.security EXCEPT !.users = project.security.users \ {user}]
    <2>1. [project EXCEPT !.security.users = project.security.users \ {user}]
            = [project EXCEPT !.security = new]
      BY Zenon
    <2>2. Edits(new)
      BY <1>5, <2>1, Zenon DEF RemoveUser
    <2>. QED  BY ONLY <1>1, <2>2
  <1>. HIDE DEF Edits
  <1>. QED  BY <1>2, <1>3, <1>4, <1>5, Zenon DEF EditSecurity

-----------------------------------------------------------------------------
(* Enumeration types.                                                      *)

LEMMA EnumFields ==
  ASSUME NEW na, NEW en, NEW id, IsId(id), NEW e, e = EnumOf(na, en, id)
  PROVE  EnumOk(e) /\ e.name = na /\ e.entries = en /\ e.id = id
  <1>1. e.name = na /\ e.entries = en /\ e.id = id
    BY DEF EnumOf
  <1>2. IsEnum(e)
    BY ONLY <1>1, e = EnumOf(na, en, id), Zenon DEF IsEnum
  <1>. QED  BY <1>1, <1>2 DEF EnumOk

(* More or other types, with nobody told.                                    *)
LEMMA EnumsEdited ==
  ASSUME NEW p, ProjectOk(p), NEW enums, IsList(enums), \A e \in ToSet(enums) : EnumOk(e),
         NEW q, q = [p EXCEPT !.enums = enums], Ids(p.enums) \subseteq Ids(enums)
  PROVE  /\ ProjectOk(q) /\ q.nodes = p.nodes
         /\ References(p) => References(q)
  <1>1. ListsOk(p.nodes, enums, p.rules)
    BY ProjectIs DEF ListsOk
  <1>2. q = ProjectOf(p.namespaces, enums, p.nodes, p.rules, p.security, p.port)
    BY ProjectEdits
  <1>3. ProjectOk(q) /\ q.nodes = p.nodes /\ q.enums = enums /\ q.rules = p.rules
    BY ONLY ProjectOk(p), <1>1, <1>2, ProjectParts
  <1>4. VariableIds(q) = VariableIds(p)
    BY <1>3 DEF VariableIds
  <1>. QED  BY <1>3, <1>4 DEF References

LEMMA AddEnumTypeKeeps ==
  ASSUME ProjectOk(project), SelectionOk, NEW name, AddEnumType(name)
  PROVE  Kept
  <1>. DEFINE id == FreshId(Ids(project.enums), <<"Enum", name>>)
              e  == [name |-> name, entries |-> {}, id |-> id]
              enums == Append(project.enums, e)
              q  == [project EXCEPT !.enums = enums]
  <1>1. EditOnly(q)
    BY DEF AddEnumType
  <1>2. IsList(project.enums) /\ (\A x \in ToSet(project.enums) : EnumOk(x)) /\ IsList(project.nodes)
    BY ProjectIs
  <1>3. IsId(id)
    BY <1>2, IdsFinite, FreshIdIsNew, IdShape
  <1>. HIDE DEF id
  <1>4. e = EnumOf(name, {}, id)
    BY DEF EnumOf
  <1>. HIDE DEF e
  <1>5. EnumOk(e)
    BY ONLY <1>3, <1>4, EnumFields
  <1>6. IsList(enums) /\ ToSet(enums) = ToSet(project.enums) \cup {e}
    BY <1>2, AppendList
  <1>. HIDE DEF enums
  <1>7. Ids(project.enums) \subseteq Ids(enums) /\ \A x \in ToSet(enums) : EnumOk(x)
    BY <1>2, <1>5, <1>6, IdsOf
  <1>8. ProjectOk(q) /\ q.nodes = project.nodes /\ (References(project) => References(q))
    BY ONLY ProjectOk(project), <1>6, <1>7, EnumsEdited
  <1>. HIDE DEF q
  <1>. QED  BY ONLY SelectionOk, <1>1, <1>8, SameNodesKept

LEMMA AddEnumEntryKeeps ==
  ASSUME ProjectOk(project), SelectionOk, NEW name, NEW value, AddEnumEntry(name, value)
  PROVE  Kept
  <1>. DEFINE Entered(e) == IF e.id = EnumNamed(name)
                            THEN [e EXCEPT !.entries = e.entries \cup {value}] ELSE e
              s == project.enums
              t == [i \in DOMAIN s |-> Entered(s[i])]
              q == [project EXCEPT !.enums = t]
  <1>1. EditOnly(q)
    BY DEF AddEnumEntry, MapSeq
  <1>2. IsList(s) /\ (\A x \in ToSet(s) : EnumOk(x))
    BY ProjectIs
  <1>3. ASSUME NEW e, EnumOk(e) PROVE EnumOk(Entered(e)) /\ Entered(e).id = e.id
    <2>1. CASE e.id # EnumNamed(name)
      BY <1>3, <2>1
    <2>2. CASE e.id = EnumNamed(name)
      <3>. DEFINE m == Entered(e)
                  en == e.entries \cup {value}
      <3>1. m = [e EXCEPT !.entries = en]
        BY <2>2, Zenon
      <3>. HIDE DEF m, en
      <3>2. PICK na, old, id : e = EnumOf(na, old, id)
        BY <1>3, Zenon DEF EnumOk, IsEnum
      <3>3. [e EXCEPT !.entries = en] = EnumOf(na, en, id) /\ e.id = id
        BY ONLY <3>2, SMT DEF EnumOf
      <3>4. IsId(id)
        BY <1>3, <3>3 DEF EnumOk
      <3>5. m = EnumOf(na, en, id)
        BY ONLY <3>1, <3>3, Zenon
      <3>6. EnumOk(m) /\ m.id = id
        BY ONLY <3>4, <3>5, EnumFields
      <3>. QED  BY ONLY <3>3, <3>6, Zenon DEF m
    <2>. QED  BY <2>1, <2>2
  <1>. HIDE DEF Entered
  <1>4. \A i \in DOMAIN s : EnumOk(t[i]) /\ t[i].id = s[i].id
    BY <1>2, <1>3, ListFacts
  <1>5. IsList(t) /\ DOMAIN t = DOMAIN s /\ ToSet(t) = {t[i] : i \in DOMAIN s}
    BY <1>2, MappedList
  <1>. HIDE DEF t
  <1>6. Ids(s) \subseteq Ids(t) /\ \A x \in ToSet(t) : EnumOk(x)
    BY <1>4, <1>5 DEF Ids
  <1>7. ProjectOk(q) /\ q.nodes = project.nodes /\ (References(project) => References(q))
    BY ONLY ProjectOk(project), <1>5, <1>6, EnumsEdited
  <1>. HIDE DEF q
  <1>. QED  BY ONLY SelectionOk, <1>1, <1>7, SameNodesKept

(* removeEnumType(): the variables of the type are detached; where the name is of   *)
(* one type only, no other variable loses its own.                             *)
LEMMA RemoveEnumTypeKeeps ==
  ASSUME ProjectOk(project), SelectionOk, NEW name, RemoveEnumType(name)
  PROVE  Kept
  <1>. DEFINE id   == EnumNamed(name)
              Detach(n) == IF n.enum = id
                           THEN [n EXCEPT !.enum = NoNode,
                                          !.type = IF n.type = "" THEN "Int32" ELSE n.type]
                           ELSE n
              e    == project.enums
              s    == project.nodes
              kept == {x \in ToSet(e) : x.name # name}
              f    == Keep(e, kept)
              t    == [i \in DOMAIN s |-> Detach(s[i])]
              q    == [project EXCEPT !.enums = f, !.nodes = t]
  <1>0. id # NoNode
    BY DEF RemoveEnumType
  <1>1. EditOnly(q)
    BY DEF RemoveEnumType, MapSeq
  <1>2. /\ IsList(e) /\ (\A x \in ToSet(e) : EnumOk(x)) /\ IsList(s)
        /\ (\A n \in ToSet(s) : NodeOk(n))
        /\ IsList(project.rules) /\ (\A r \in ToSet(project.rules) : RuleOk(r))
    BY ProjectIs
  <1>. HIDE DEF id
  <1>3. ASSUME NEW n, NodeOk(n)
        PROVE  /\ NodeOk(Detach(n))
               /\ Detach(n).id = n.id /\ Detach(n).parent = n.parent /\ Detach(n).kind = n.kind
               /\ Detach(n).enum = IF n.enum = id THEN NoNode ELSE n.enum
    <2>1. CASE n.enum # id
      BY <1>3, <2>1
    <2>2. CASE n.enum = id
      <3>. DEFINE m == Detach(n)
                  ty == IF n.type = "" THEN "Int32" ELSE n.type
      <3>1. m = Detached(n, ty)
        BY <2>2, Zenon DEF Detached
      <3>2. Variable(n)
        BY <1>0, <1>3, <2>2 DEF NodeOk
      <3>. HIDE DEF m, ty
      <3>3. NodeOk(m) /\ m.id = n.id /\ m.parent = n.parent /\ m.kind = n.kind /\ m.enum = NoNode
        BY ONLY <1>3, <3>1, <3>2, VariableDetached
      <3>. QED  BY <2>2, <3>3 DEF m
    <2>. QED  BY <2>1, <2>2
  <1>. HIDE DEF Detach
  <1>4. \A i \in DOMAIN s : NodeOk(s[i]) /\ s[i] \in ToSet(s)
    BY <1>2, ListFacts
  <1>5. Alike(s, t) /\ \A i \in DOMAIN s : NodeOk(t[i])
    BY <1>3, <1>4 DEF Alike
  <1>6. \A i \in DOMAIN s : t[i].enum = IF s[i].enum = id THEN NoNode ELSE s[i].enum
    BY <1>3, <1>4
  <1>7. /\ IsList(t) /\ Ids(t) = Ids(s) /\ VariablesOf(t) = VariablesOf(s)
        /\ Rooted(s) => Rooted(t)
    BY <1>2, <1>5, AlikeFacts
  <1>8. DOMAIN t = DOMAIN s /\ ToSet(t) = {t[i] : i \in DOMAIN s}
    BY <1>2, MappedList
  <1>. HIDE DEF t
  <1>9. kept \subseteq ToSet(e)
    OBVIOUS
  <1>. HIDE DEF kept
  <1>10. IsList(f) /\ ToSet(f) = kept
    BY ONLY <1>2, <1>9, KeepSubset
  <1>. HIDE DEF f
  <1>11. ListsOk(t, f, project.rules)
    <2>1. \A n \in ToSet(t) : NodeOk(n)
      BY <1>5, <1>8
    <2>2. \A x \in ToSet(f) : EnumOk(x)
      BY <1>2, <1>9, <1>10
    <2>. QED  BY <1>2, <1>7, <1>10, <2>1, <2>2 DEF ListsOk
  <1>12. q = ProjectOf(project.namespaces, f, t, project.rules, project.security, project.port)
    BY ProjectEdits, ZenonT(40)
  <1>. HIDE DEF q
  <1>13. /\ ProjectOk(q) /\ q.nodes = t /\ q.enums = f /\ q.rules = project.rules
    BY ONLY ProjectOk(project), <1>11, <1>12, ProjectParts
  <1>14. ASSUME References(project), UniqueEnumNames(project) PROVE References(q)
    <2>1. VariableIds(project) = VariableIds(q)
      BY <1>7, <1>13 DEF VariableIds, VariablesOf
    <2>2. PICK i \in DOMAIN e : e[i].name = name /\ e[i].id = id
      <3>. DEFINE named == {i \in DOMAIN e : e[i].name = name}
      <3>1. named # {}
        BY <1>0 DEF EnumNamed, id
      <3>2. named \subseteq Nat
        BY <1>2, ListFacts
      <3>3. \E i \in named : \A j \in named : i <= j
        BY ONLY <3>1, <3>2, FirstPlace
      <3>4. \E i \in named : id = e[i].id
        BY <3>1, <3>3 DEF EnumNamed, id
      <3>. QED  BY <3>4
    <2>3. ASSUME NEW k \in DOMAIN s
          PROVE  /\ t[k].parent \in Ids(t) \cup {NoNode}
                 /\ t[k].enum \in Ids(f) \cup {NoNode}
      <3>1. s[k].parent \in Ids(s) \cup {NoNode} /\ s[k].enum \in Ids(e) \cup {NoNode}
        BY <1>4, <1>14 DEF References
      <3>2. t[k].parent = s[k].parent
        BY <1>5 DEF Alike
      <3>3. CASE s[k].enum \in {id, NoNode}
        BY <1>6, <1>7, <3>1, <3>2, <3>3
      <3>4. CASE s[k].enum \notin {id, NoNode}
        <4>1. PICK j \in DOMAIN e : e[j].id = s[k].enum
          BY <3>1, <3>4 DEF Ids
        <4>2. e[j].name # name
          BY <1>14, <2>2, <3>4, <4>1 DEF UniqueEnumNames
        <4>3. e[j] \in ToSet(e)
          BY <1>2, ListFacts
        <4>4. e[j] \in ToSet(f)
          BY <1>10, <4>2, <4>3 DEF kept
        <4>5. s[k].enum \in Ids(f)
          BY <1>10, <4>1, <4>4, IdsOf
        <4>. QED  BY <1>6, <1>7, <3>1, <3>2, <3>4, <4>5
      <3>. QED  BY <3>3, <3>4
    <2>4. \A m \in ToSet(q.nodes) : /\ m.parent \in Ids(q.nodes) \cup {NoNode}
                                    /\ m.enum \in Ids(q.enums) \cup {NoNode}
      BY <1>8, <1>13, <2>3
    <2>. QED  BY <1>13, <1>14, <2>1, <2>4, ReferencesKept
  <1>15. Ids(q.nodes) = Ids(s) /\ (Rooted(s) => Rooted(q.nodes))
    BY <1>7, <1>13
  <1>. QED  BY ONLY SelectionOk, <1>1, <1>13, <1>14, <1>15, SameNodesKept

-----------------------------------------------------------------------------
(* The edits that add nodes, and the new project.                           *)

LEMMA NewNodeIs == NewNode = NodeOf("Folder", NoNode, NoNode, "", "", NoNode, -1, FALSE, DefaultSim)
  BY DEF NewNode, NodeOf

(* A node with another value in one field.                                    *)
WithKind(n, x) == [n EXCEPT !.kind = x]
WithId(n, x) == [n EXCEPT !.id = x]
WithParent(n, x) == [n EXCEPT !.parent = x]
WithName(n, x) == [n EXCEPT !.name = x]
WithType(n, x) == [n EXCEPT !.type = x]
WithEnum(n, x) == [n EXCEPT !.enum = x]
WithRank(n, x) == [n EXCEPT !.rank = x]
WithWritable(n, x) == [n EXCEPT !.writable = x]
WithSim(n, x) == [n EXCEPT !.sim = x]

LEMMA SetKind ==
  ASSUME NEW n, IsNode(n), NEW x
  PROVE  /\ IsNode(WithKind(n, x)) /\ WithKind(n, x).kind = x
         /\ WithKind(n, x).id = n.id /\ WithKind(n, x).parent = n.parent
         /\ WithKind(n, x).name = n.name /\ WithKind(n, x).type = n.type
         /\ WithKind(n, x).enum = n.enum /\ WithKind(n, x).rank = n.rank
         /\ WithKind(n, x).writable = n.writable /\ WithKind(n, x).sim = n.sim
  <1>1. PICK k, i, p, na, ty, en, ra, wr, si : n = NodeOf(k, i, p, na, ty, en, ra, wr, si)
    BY ONLY IsNode(n), Zenon DEF IsNode
  <1>2. WithKind(n, x) = NodeOf(x, i, p, na, ty, en, ra, wr, si)
    BY ONLY <1>1, SMT DEF NodeOf, WithKind
  <1>. QED  BY ONLY <1>1, <1>2, NodeFields

LEMMA SetId ==
  ASSUME NEW n, IsNode(n), NEW x
  PROVE  /\ IsNode(WithId(n, x)) /\ WithId(n, x).id = x
         /\ WithId(n, x).kind = n.kind /\ WithId(n, x).parent = n.parent /\ WithId(n, x).name = n.name
         /\ WithId(n, x).type = n.type
         /\ WithId(n, x).enum = n.enum /\ WithId(n, x).rank = n.rank
         /\ WithId(n, x).writable = n.writable /\ WithId(n, x).sim = n.sim
  <1>1. PICK k, i, p, na, ty, en, ra, wr, si : n = NodeOf(k, i, p, na, ty, en, ra, wr, si)
    BY ONLY IsNode(n), Zenon DEF IsNode
  <1>2. WithId(n, x) = NodeOf(k, x, p, na, ty, en, ra, wr, si)
    BY ONLY <1>1, SMT DEF NodeOf, WithId
  <1>. QED  BY ONLY <1>1, <1>2, NodeFields

LEMMA SetParent ==
  ASSUME NEW n, IsNode(n), NEW x
  PROVE  /\ IsNode(WithParent(n, x)) /\ WithParent(n, x).parent = x
         /\ WithParent(n, x).kind = n.kind /\ WithParent(n, x).id = n.id
         /\ WithParent(n, x).name = n.name /\ WithParent(n, x).type = n.type
         /\ WithParent(n, x).enum = n.enum /\ WithParent(n, x).rank = n.rank
         /\ WithParent(n, x).writable = n.writable /\ WithParent(n, x).sim = n.sim
  <1>1. PICK k, i, p, na, ty, en, ra, wr, si : n = NodeOf(k, i, p, na, ty, en, ra, wr, si)
    BY ONLY IsNode(n), Zenon DEF IsNode
  <1>2. WithParent(n, x) = NodeOf(k, i, x, na, ty, en, ra, wr, si)
    BY ONLY <1>1, SMT DEF NodeOf, WithParent
  <1>. QED  BY ONLY <1>1, <1>2, NodeFields

LEMMA SetName ==
  ASSUME NEW n, IsNode(n), NEW x
  PROVE  /\ IsNode(WithName(n, x)) /\ WithName(n, x).name = x
         /\ WithName(n, x).kind = n.kind /\ WithName(n, x).id = n.id
         /\ WithName(n, x).parent = n.parent /\ WithName(n, x).type = n.type
         /\ WithName(n, x).enum = n.enum /\ WithName(n, x).rank = n.rank
         /\ WithName(n, x).writable = n.writable /\ WithName(n, x).sim = n.sim
  <1>1. PICK k, i, p, na, ty, en, ra, wr, si : n = NodeOf(k, i, p, na, ty, en, ra, wr, si)
    BY ONLY IsNode(n), Zenon DEF IsNode
  <1>2. WithName(n, x) = NodeOf(k, i, p, x, ty, en, ra, wr, si)
    BY ONLY <1>1, SMT DEF NodeOf, WithName
  <1>. QED  BY ONLY <1>1, <1>2, NodeFields

LEMMA SetType ==
  ASSUME NEW n, IsNode(n), NEW x
  PROVE  /\ IsNode(WithType(n, x)) /\ WithType(n, x).type = x
         /\ WithType(n, x).kind = n.kind /\ WithType(n, x).id = n.id
         /\ WithType(n, x).parent = n.parent /\ WithType(n, x).name = n.name
         /\ WithType(n, x).enum = n.enum /\ WithType(n, x).rank = n.rank
         /\ WithType(n, x).writable = n.writable /\ WithType(n, x).sim = n.sim
  <1>1. PICK k, i, p, na, ty, en, ra, wr, si : n = NodeOf(k, i, p, na, ty, en, ra, wr, si)
    BY ONLY IsNode(n), Zenon DEF IsNode
  <1>2. WithType(n, x) = NodeOf(k, i, p, na, x, en, ra, wr, si)
    BY ONLY <1>1, SMT DEF NodeOf, WithType
  <1>. QED  BY ONLY <1>1, <1>2, NodeFields

LEMMA SetEnum ==
  ASSUME NEW n, IsNode(n), NEW x
  PROVE  /\ IsNode(WithEnum(n, x)) /\ WithEnum(n, x).enum = x
         /\ WithEnum(n, x).kind = n.kind /\ WithEnum(n, x).id = n.id
         /\ WithEnum(n, x).parent = n.parent /\ WithEnum(n, x).name = n.name
         /\ WithEnum(n, x).type = n.type /\ WithEnum(n, x).rank = n.rank
         /\ WithEnum(n, x).writable = n.writable /\ WithEnum(n, x).sim = n.sim
  <1>1. PICK k, i, p, na, ty, en, ra, wr, si : n = NodeOf(k, i, p, na, ty, en, ra, wr, si)
    BY ONLY IsNode(n), Zenon DEF IsNode
  <1>2. WithEnum(n, x) = NodeOf(k, i, p, na, ty, x, ra, wr, si)
    BY ONLY <1>1, SMT DEF NodeOf, WithEnum
  <1>. QED  BY ONLY <1>1, <1>2, NodeFields

LEMMA SetRank ==
  ASSUME NEW n, IsNode(n), NEW x
  PROVE  /\ IsNode(WithRank(n, x)) /\ WithRank(n, x).rank = x
         /\ WithRank(n, x).kind = n.kind /\ WithRank(n, x).id = n.id
         /\ WithRank(n, x).parent = n.parent /\ WithRank(n, x).name = n.name
         /\ WithRank(n, x).type = n.type /\ WithRank(n, x).enum = n.enum
         /\ WithRank(n, x).writable = n.writable /\ WithRank(n, x).sim = n.sim
  <1>1. PICK k, i, p, na, ty, en, ra, wr, si : n = NodeOf(k, i, p, na, ty, en, ra, wr, si)
    BY ONLY IsNode(n), Zenon DEF IsNode
  <1>2. WithRank(n, x) = NodeOf(k, i, p, na, ty, en, x, wr, si)
    BY ONLY <1>1, SMT DEF NodeOf, WithRank
  <1>. QED  BY ONLY <1>1, <1>2, NodeFields

LEMMA SetWritable ==
  ASSUME NEW n, IsNode(n), NEW x
  PROVE  /\ IsNode(WithWritable(n, x)) /\ WithWritable(n, x).writable = x
         /\ WithWritable(n, x).kind = n.kind /\ WithWritable(n, x).id = n.id
         /\ WithWritable(n, x).parent = n.parent /\ WithWritable(n, x).name = n.name
         /\ WithWritable(n, x).type = n.type /\ WithWritable(n, x).enum = n.enum
         /\ WithWritable(n, x).rank = n.rank /\ WithWritable(n, x).sim = n.sim
  <1>1. PICK k, i, p, na, ty, en, ra, wr, si : n = NodeOf(k, i, p, na, ty, en, ra, wr, si)
    BY ONLY IsNode(n), Zenon DEF IsNode
  <1>2. WithWritable(n, x) = NodeOf(k, i, p, na, ty, en, ra, x, si)
    BY ONLY <1>1, SMT DEF NodeOf, WithWritable
  <1>. QED  BY ONLY <1>1, <1>2, NodeFields

LEMMA SetSim ==
  ASSUME NEW n, IsNode(n), NEW x
  PROVE  /\ IsNode(WithSim(n, x)) /\ WithSim(n, x).sim = x
         /\ WithSim(n, x).kind = n.kind /\ WithSim(n, x).id = n.id /\ WithSim(n, x).parent = n.parent
         /\ WithSim(n, x).name = n.name
         /\ WithSim(n, x).type = n.type /\ WithSim(n, x).enum = n.enum /\ WithSim(n, x).rank = n.rank
         /\ WithSim(n, x).writable = n.writable
  <1>1. PICK k, i, p, na, ty, en, ra, wr, si : n = NodeOf(k, i, p, na, ty, en, ra, wr, si)
    BY ONLY IsNode(n), Zenon DEF IsNode
  <1>2. WithSim(n, x) = NodeOf(k, i, p, na, ty, en, ra, wr, x)
    BY ONLY <1>1, SMT DEF NodeOf, WithSim
  <1>. QED  BY ONLY <1>1, <1>2, NodeFields

(* addFolder(), addObject(), addVariable().                                    *)
LEMMA AddKeeps ==
  ASSUME ProjectOk(project), SelectionOk,
         NEW node, IsNode(node), node.kind \in NodeKinds, node.enum = NoNode,
         node.sim = DefaultSim,
         node.kind # "Variable" => node.type = "" /\ node.rank = -1 /\ node.writable = FALSE,
         NEW part, Add(node, part)
  PROVE  Kept
  <1>. DEFINE id == FreshId(Ids(project.nodes), <<part>>)
              a  == [node EXCEPT !.id = id]
              b  == [a EXCEPT !.parent = selected]
              n  == [b EXCEPT !.name = part]
              q  == [project EXCEPT !.nodes = Append(project.nodes, n)]
  <1>0. [node EXCEPT !.id = id, !.parent = selected, !.name = part] = n
    BY Zenon
  <1>1. project' = q /\ selected' = id
    BY <1>0, Zenon DEF Add, Edit
  <1>2. IsList(project.nodes)
    BY ProjectIs
  <1>3. IsId(id)
    BY ONLY <1>2, IdsFinite, FreshIdIsNew, IdShape
  <1>7. id = FreshId(Ids(project.nodes), <<part>>)
    OBVIOUS
  <1>9. q = WithNodes(project, Append(project.nodes, n))
    BY DEF WithNodes
  <1>. HIDE DEF id, q
  <1>4. a = WithId(node, id) /\ b = WithParent(a, selected) /\ n = WithName(b, part)
    BY DEF WithId, WithParent, WithName
  <1>. HIDE DEF a, b, n
  <1>5. /\ IsNode(n) /\ n.kind = node.kind /\ n.id = id /\ n.parent = selected /\ n.type = node.type
        /\ n.enum = node.enum /\ n.rank = node.rank /\ n.writable = node.writable /\ n.sim = node.sim
    <2>1. /\ IsNode(a) /\ a.kind = node.kind /\ a.id = id /\ a.type = node.type
          /\ a.enum = node.enum /\ a.rank = node.rank /\ a.writable = node.writable /\ a.sim = node.sim
      BY ONLY IsNode(node), <1>4, SetId
    <2>2. /\ IsNode(b) /\ b.kind = a.kind /\ b.id = a.id /\ b.parent = selected /\ b.type = a.type
          /\ b.enum = a.enum /\ b.rank = a.rank /\ b.writable = a.writable /\ b.sim = a.sim
      BY ONLY <2>1, <1>4, SetParent
    <2>3. /\ IsNode(n) /\ n.kind = b.kind /\ n.id = b.id /\ n.parent = b.parent /\ n.type = b.type
          /\ n.enum = b.enum /\ n.rank = b.rank /\ n.writable = b.writable /\ n.sim = b.sim
      BY ONLY <2>2, <1>4, SetName
    <2>. QED  BY ONLY <2>1, <2>2, <2>3
  <1>6. NodeOk(n)
    BY <1>3, <1>5 DEF NodeOk, Variable
  <1>10. selected \in Ids(project.nodes) \cup {NoNode}
    BY DEF SelectionOk
  <1>11. n.enum = NoNode
    BY <1>5
  <1>8. /\ ProjectOk(q) /\ id \in Ids(q.nodes) /\ (References(project) => References(q))
        /\ Rooted(project.nodes) => Rooted(q.nodes)
    <2>1. n.id = FreshId(Ids(project.nodes), <<part>>) /\ n.parent \in Ids(project.nodes) \cup {NoNode}
      BY ONLY <1>5, <1>7, <1>10, Zenon
    <2>2. /\ ProjectOk(q) /\ n.id \in Ids(q.nodes) /\ (References(project) => References(q))
          /\ Rooted(project.nodes) => Rooted(q.nodes)
      BY ONLY ProjectOk(project), <2>1, <1>6, <1>9, <1>11, NodeAdded
    <2>. QED  BY ONLY <2>2, <1>5, Zenon
  <1>. QED  BY <1>1, <1>8 DEF Kept, SelectionOk

LEMMA NewNodeFields ==
  /\ IsNode(NewNode) /\ NewNode.kind = "Folder" /\ NewNode.enum = NoNode
  /\ NewNode.type = "" /\ NewNode.rank = -1 /\ NewNode.writable = FALSE /\ NewNode.sim = DefaultSim
  <1>1. PICK k, i, p, na, ty, en, ra, wr, si :
          /\ NewNode = NodeOf(k, i, p, na, ty, en, ra, wr, si)
          /\ k = "Folder" /\ ty = "" /\ en = NoNode /\ ra = -1 /\ wr = FALSE /\ si = DefaultSim
    BY NewNodeIs, Zenon
  <1>2. /\ IsNode(NewNode) /\ NewNode.kind = k /\ NewNode.enum = en
        /\ NewNode.type = ty /\ NewNode.rank = ra /\ NewNode.writable = wr /\ NewNode.sim = si
    <2>1. NewNode = NodeOf(k, i, p, na, ty, en, ra, wr, si)
      BY <1>1
    <2>. QED  BY ONLY <2>1, NodeFields
  <1>. QED  BY ONLY <1>1, <1>2, Zenon

LEMMA AddsKeep ==
  ASSUME ProjectOk(project), SelectionOk, AddFolder \/ AddObject \/ AddVariable
  PROVE  Kept
  <1>. DEFINE object == [NewNode EXCEPT !.kind = "Object"]
              a == [NewNode EXCEPT !.kind = "Variable"]
              b == [a EXCEPT !.type = "Double"]
              variable == [b EXCEPT !.writable = TRUE]
  <1>1. AddFolder => Add(NewNode, "Folder")
    BY DEF AddFolder
  <1>2. AddObject => Add(object, "Object")
    BY DEF AddObject
  <1>3. AddVariable => Add(variable, "Variable")
    BY Zenon DEF AddVariable
  <1>4. /\ object = WithKind(NewNode, "Object") /\ a = WithKind(NewNode, "Variable")
        /\ b = WithType(a, "Double") /\ variable = WithWritable(b, TRUE)
    BY DEF WithKind, WithType, WithWritable
  <1>. HIDE DEF object, a, b, variable
  <1>5. /\ IsNode(object) /\ object.kind = "Object" /\ object.enum = NoNode /\ object.type = ""
        /\ object.rank = -1 /\ object.writable = FALSE /\ object.sim = DefaultSim
    BY ONLY <1>4, NewNodeFields, SetKind, ZenonT(40)
  <1>6. IsNode(a) /\ a.kind = "Variable" /\ a.enum = NoNode /\ a.sim = DefaultSim
    BY ONLY <1>4, NewNodeFields, SetKind
  <1>7. IsNode(b) /\ b.kind = "Variable" /\ b.enum = NoNode /\ b.sim = DefaultSim
    BY ONLY <1>4, <1>6, SetType
  <1>8. /\ IsNode(variable) /\ variable.kind = "Variable" /\ variable.enum = NoNode
        /\ variable.sim = DefaultSim
    <2>1. PICK yes : yes = TRUE
      OBVIOUS
    <2>2. variable = WithWritable(b, yes)
      BY ONLY <1>4, <2>1, Zenon
    <2>. QED  BY ONLY <2>2, <1>7, SetWritable
  <1>9. {"Folder", "Object", "Variable"} = NodeKinds
    BY DEF NodeKinds
  <1>10. CASE AddFolder
    BY <1>1, <1>9, <1>10, NewNodeFields, AddKeeps
  <1>11. CASE AddObject
    BY <1>2, <1>5, <1>9, <1>11, AddKeeps
  <1>12. CASE AddVariable
    BY <1>3, <1>8, <1>9, <1>12, AddKeeps
  <1>. QED  BY <1>10, <1>11, <1>12

LEMMA SimsAreGood ==
  \A sim \in {DefaultSim, [DefaultSim EXCEPT !.kind = "Counter"]} :
    sim.kind = "Manual" => sim = DefaultSim
  <1>. DEFINE s == [DefaultSim EXCEPT !.kind = "Counter"]
  <1>1. s.kind = "Counter"
    BY SMT DEF DefaultSim
  <1>. QED  BY <1>1

LEMMA EditNodesKeeps == ASSUME ProjectOk(project), SelectionOk, EditNodes PROVE Kept
  <1>1. CASE AddFolder \/ AddObject \/ AddVariable
    BY <1>1, AddsKeep
  <1>2. CASE RemoveNode
    <2>1. selected' = NoNode
      BY <1>2 DEF RemoveNode
    <2>2. /\ ProjectOk(project') /\ (References(project) => References(project'))
          /\ Rooted(project.nodes) => Rooted(project'.nodes)
      BY <1>2, RemoveNodeKeeps
    <2>. QED  BY <2>1, <2>2 DEF Kept, SelectionOk
  <1>3. ASSUME NEW type \in Types, NEW rank \in {-1, 1}, NEW name \in EnumNames \cup {""},
               NEW sim \in {DefaultSim, [DefaultSim EXCEPT !.kind = "Counter"]},
               UpdateNode(type, rank, sim, name)
        PROVE  Kept
    <2>1. sim.kind = "Manual" => sim = DefaultSim
      BY SimsAreGood, Zenon
    <2>2. /\ ProjectOk(project') /\ Ids(project'.nodes) = Ids(project.nodes)
          /\ References(project) => References(project')
          /\ Rooted(project.nodes) => Rooted(project'.nodes)
          /\ \E q : EditOnly(q)
      BY ONLY ProjectOk(project), <1>3, <2>1, UpdateNodeKeeps
    <2>. QED  BY <2>2 DEF Kept, SelectionOk, EditOnly
  <1>4. ASSUME NEW id \in Ids(project.nodes) \cup {NoNode}, Select(id) PROVE Kept
    <2>1. project' = project /\ selected' = id
      BY <1>4 DEF Select
    <2>2. /\ ProjectOk(project') /\ (References(project) => References(project'))
          /\ Rooted(project.nodes) => Rooted(project'.nodes)
      BY <2>1
    <2>. QED  BY <2>1, <2>2 DEF Kept, SelectionOk
  <1>. QED  BY <1>1, <1>2, <1>3, <1>4 DEF EditNodes

LEMMA EditEnumsKeeps == ASSUME ProjectOk(project), SelectionOk, EditEnums PROVE Kept
  BY AddEnumTypeKeeps, AddEnumEntryKeeps, RemoveEnumTypeKeeps DEF EditEnums

-----------------------------------------------------------------------------
(* Projects that begin.                                                      *)

LEMMA EmptyParts == ListsOk(<<>>, <<>>, <<>>)
  BY EmptyList DEF ListsOk

LEMMA PortIsQuint == DefaultPort \in Quint16
  BY SMT DEF DefaultPort, Quint16, Quint16Size

LEMMA ProjectMade ==
  ASSUME NEW ns, NEW en, NEW no, NEW ru, NEW se, NEW po \in Quint16, ListsOk(no, en, ru),
         NEW q, q = ProjectOf(ns, en, no, ru, se, po)
  PROVE  /\ ProjectOk(q)
         /\ q.namespaces = ns /\ q.nodes = no /\ q.enums = en /\ q.rules = ru /\ q.security = se
         /\ q.port = po
  <1>1. /\ q.nodes = no /\ q.enums = en /\ q.rules = ru /\ q.security = se
        /\ q.namespaces = ns /\ q.port = po
    BY ProjectFields
  <1>2. IsProject(q)
    BY ONLY <1>1, q = ProjectOf(ns, en, no, ru, se, po), Zenon DEF IsProject
  <1>3. ListsOk(q.nodes, q.enums, q.rules) /\ q.port \in Quint16
    BY <1>1
  <1>. QED  BY ONLY <1>1, <1>2, <1>3, Zenon DEF ProjectOk

LEMMA NewProjectIs ==
  /\ NewProjectData = ProjectOf(<<>>, <<>>, <<>>, <<>>, DefaultSecurity, DefaultPort)
  /\ ProjectOk(NewProjectData) /\ NewProjectData.rules = <<>>
  /\ \A ns : /\ [NewProjectData EXCEPT !.namespaces = ns]
                   = ProjectOf(ns, <<>>, <<>>, <<>>, DefaultSecurity, DefaultPort)
             /\ ProjectOk([NewProjectData EXCEPT !.namespaces = ns])
  <1>1. NewProjectData = ProjectOf(<<>>, <<>>, <<>>, <<>>, DefaultSecurity, DefaultPort)
    BY DEF NewProjectData, ProjectOf
  <1>2. ASSUME NEW ns
        PROVE  [NewProjectData EXCEPT !.namespaces = ns]
                 = ProjectOf(ns, <<>>, <<>>, <<>>, DefaultSecurity, DefaultPort)
    BY ONLY <1>1, SMT DEF ProjectOf
  <1>3. ProjectOk(NewProjectData) /\ NewProjectData.rules = <<>>
    BY <1>1, EmptyParts, PortIsQuint, ProjectMade
  <1>4. ASSUME NEW ns PROVE ProjectOk([NewProjectData EXCEPT !.namespaces = ns])
    <2>. DEFINE q == [NewProjectData EXCEPT !.namespaces = ns]
    <2>1. q = ProjectOf(ns, <<>>, <<>>, <<>>, DefaultSecurity, DefaultPort)
      BY <1>2
    <2>. HIDE DEF q
    <2>2. ProjectOk(q)
      BY ONLY <2>1, EmptyParts, PortIsQuint, ProjectMade
    <2>. QED  BY <2>2 DEF q
  <1>. QED  BY <1>1, <1>2, <1>3, <1>4

-----------------------------------------------------------------------------
(* Nodes made by the clone and by the import.                                  *)

CommonNode(id, name, owner) == WithParent(WithName(WithId(NewNode, id), name), owner)

IsCommon(n, id, owner) ==
  /\ IsNode(n) /\ n.id = id /\ n.parent = owner /\ n.kind = "Folder" /\ n.enum = NoNode
  /\ n.type = "" /\ n.rank = -1 /\ n.writable = FALSE /\ n.sim = DefaultSim

LEMMA CommonNodeIs ==
  ASSUME NEW id, NEW name, NEW owner, NEW n, n = CommonNode(id, name, owner)
  PROVE  IsCommon(n, id, owner)
  <1>. DEFINE a == WithId(NewNode, id)
              b == WithName(a, name)
  <1>1. a = WithId(NewNode, id) /\ b = WithName(a, name) /\ n = WithParent(b, owner)
    BY DEF CommonNode
  <1>. HIDE DEF a, b
  <1>2. /\ IsNode(a) /\ a.id = id /\ a.kind = NewNode.kind /\ a.enum = NewNode.enum
        /\ a.type = NewNode.type /\ a.rank = NewNode.rank /\ a.writable = NewNode.writable
        /\ a.sim = NewNode.sim
    BY ONLY <1>1, NewNodeFields, SetId, ZenonT(40)
  <1>3. /\ IsNode(b) /\ b.id = a.id /\ b.kind = a.kind /\ b.enum = a.enum
        /\ b.type = a.type /\ b.rank = a.rank /\ b.writable = a.writable /\ b.sim = a.sim
    BY ONLY <1>1, <1>2, SetName
  <1>4. /\ IsNode(n) /\ n.id = b.id /\ n.parent = owner /\ n.kind = b.kind /\ n.enum = b.enum
        /\ n.type = b.type /\ n.rank = b.rank /\ n.writable = b.writable /\ n.sim = b.sim
    BY ONLY <1>1, <1>3, SetParent
  <1>. QED  BY ONLY <1>2, <1>3, <1>4, NewNodeFields, Zenon DEF IsCommon

LEMMA PlainNode ==
  ASSUME NEW n, IsNode(n), IsId(n.id), n.type = "", n.enum = NoNode, n.rank = -1, n.writable = FALSE,
         n.sim = DefaultSim, NEW kind \in {"Folder", "Object"}
  PROVE  /\ NodeOk(WithKind(n, kind)) /\ WithKind(n, kind).id = n.id
         /\ WithKind(n, kind).parent = n.parent /\ WithKind(n, kind).enum = NoNode
  <1>. DEFINE m == WithKind(n, kind)
  <1>1. /\ IsNode(m) /\ m.kind = kind /\ m.id = n.id /\ m.parent = n.parent /\ m.enum = n.enum
        /\ m.type = n.type /\ m.rank = n.rank /\ m.writable = n.writable /\ m.sim = n.sim
    BY ONLY IsNode(n), SetKind
  <1>. HIDE DEF m
  <1>2. kind \in NodeKinds /\ kind # "Variable"
    BY DEF NodeKinds
  <1>3. NodeOk(m)
    BY ONLY <1>1, <1>2, IsId(n.id), n.type = "", n.enum = NoNode, n.rank = -1, n.writable = FALSE,
            n.sim = DefaultSim, Zenon DEF NodeOk, Variable
  <1>. QED  BY <1>1, <1>3 DEF m

LEMMA VariableNode ==
  ASSUME NEW n, IsNode(n), IsId(n.id), n.sim = DefaultSim, n.kind = "Variable"
  PROVE  NodeOk(n)
  BY DEF NodeOk, NodeKinds, Variable

(* The passes of applyCloneSnapshot() over one node.                           *)
LEMMA ClonedNodeIsOk ==
  ASSUME NEW c, NEW id, IsId(id), NEW owner
  PROVE  /\ NodeOk(ClonedNode(c, id, owner)) /\ ClonedNode(c, id, owner).id = id
         /\ ClonedNode(c, id, owner).parent = owner /\ ClonedNode(c, id, owner).enum = NoNode
  <1>. DEFINE n == CommonNode(id, c.name, owner)
              k == IF c.folder THEN "Folder" ELSE "Object"
              ra == IF c.rank >= 1 THEN 1 ELSE -1
              ty == IF c.type \in Builtin THEN c.type ELSE "Int32"
              v1 == WithKind(n, "Variable")
              v2 == WithRank(v1, ra)
              v3 == WithType(v2, ty)
              v4 == WithWritable(v3, TRUE)
              m == ClonedNode(c, id, owner)
  <1>1. m = IF c.class = "Variable" THEN v4 ELSE WithKind(n, k)
    BY Zenon DEF ClonedNode, CommonNode, WithId, WithName, WithParent, WithKind, WithRank, WithType, WithWritable
  <1>2. /\ IsNode(n) /\ n.id = id /\ n.parent = owner /\ n.kind = "Folder" /\ n.enum = NoNode
        /\ n.type = "" /\ n.rank = -1 /\ n.writable = FALSE /\ n.sim = DefaultSim
    <2>1. n = CommonNode(id, c.name, owner)
      OBVIOUS
    <2>. HIDE DEF n
    <2>2. IsCommon(n, id, owner)
      BY ONLY <2>1, CommonNodeIs
    <2>. QED  BY ONLY <2>2, Zenon DEF IsCommon
  <1>3. k \in {"Folder", "Object"}
    OBVIOUS
  <1>. HIDE DEF n, k, ra, ty
  <1>4. CASE c.class # "Variable"
    BY ONLY <1>1, <1>2, <1>3, <1>4, IsId(id), PlainNode, ZenonT(40)
  <1>5. CASE c.class = "Variable"
    <2>1. PICK yes, kind : yes = TRUE /\ kind = "Variable"
      OBVIOUS
    <2>2. v1 = WithKind(n, kind) /\ v4 = WithWritable(v3, yes)
      BY ONLY <2>1, Zenon
    <2>. HIDE DEF v1
    <2>3. /\ IsNode(v1) /\ v1.id = id /\ v1.parent = owner /\ v1.kind = kind /\ v1.enum = NoNode
          /\ v1.sim = DefaultSim
      BY ONLY <2>2, <1>2, SetKind, ZenonT(40)
    <2>5. v2 = WithRank(v1, ra)
      OBVIOUS
    <2>. HIDE DEF v2
    <2>6. /\ IsNode(v2) /\ v2.id = id /\ v2.parent = owner /\ v2.kind = kind /\ v2.enum = NoNode
          /\ v2.sim = DefaultSim
      BY ONLY <2>3, <2>5, SetRank
    <2>7. v3 = WithType(v2, ty)
      OBVIOUS
    <2>. HIDE DEF v3
    <2>8. /\ IsNode(v3) /\ v3.id = id /\ v3.parent = owner /\ v3.kind = kind /\ v3.enum = NoNode
          /\ v3.sim = DefaultSim
      BY ONLY <2>6, <2>7, SetType
    <2>. HIDE DEF v4
    <2>9. /\ IsNode(v4) /\ v4.id = id /\ v4.parent = owner /\ v4.kind = kind /\ v4.enum = NoNode
          /\ v4.sim = DefaultSim
      BY ONLY <2>2, <2>8, SetWritable
    <2>. QED  BY ONLY <1>1, <1>5, <2>1, <2>9, IsId(id), VariableNode, Zenon
  <1>. QED  BY <1>4, <1>5

(* importFromFile() on one element.                                           *)
LEMMA ImportNodeIsOk ==
  ASSUME NEW e, IsId(e.id)
  PROVE  NodeOk(ImportNode(e)) /\ ImportNode(e).id = e.id
  <1>. DEFINE pa == IF e.parent = Objects THEN NoNode ELSE e.parent
              n == CommonNode(e.id, e.name, pa)
              k == IF e.definition = "FolderType" \/ e.ref = "Organizes" THEN "Folder" ELSE "Object"
              ra == IF e.rank = 1 THEN 1 ELSE -1
              en == IF Custom(e.type) THEN e.type ELSE NoNode
              v1 == WithKind(n, "Variable")
              v2 == WithRank(v1, ra)
              v3 == WithEnum(v2, en)
              v4 == WithType(v3, ImportType(e.type))
              m == ImportNode(e)
  <1>1. m = IF e.element = "UAObject" THEN WithKind(n, k) ELSE v4
    BY Zenon DEF ImportNode, CommonNode, WithId, WithName, WithParent, WithKind, WithRank, WithType, WithEnum
  <1>2. /\ IsNode(n) /\ n.id = e.id /\ n.parent = pa /\ n.kind = "Folder" /\ n.enum = NoNode
        /\ n.type = "" /\ n.rank = -1 /\ n.writable = FALSE /\ n.sim = DefaultSim
    <2>1. n = CommonNode(e.id, e.name, pa)
      OBVIOUS
    <2>. HIDE DEF n
    <2>2. IsCommon(n, e.id, pa)
      BY ONLY <2>1, CommonNodeIs
    <2>. QED  BY ONLY <2>2, Zenon DEF IsCommon
  <1>3. k \in {"Folder", "Object"}
    OBVIOUS
  <1>. HIDE DEF n, k, ra, en, pa
  <1>4. CASE e.element = "UAObject"
    BY ONLY <1>1, <1>2, <1>3, <1>4, IsId(e.id), PlainNode
  <1>5. CASE e.element # "UAObject"
    <2>1. PICK kind : kind = "Variable"
      OBVIOUS
    <2>2. v1 = WithKind(n, kind)
      BY ONLY <2>1, Zenon
    <2>. HIDE DEF v1
    <2>3. IsNode(v1) /\ v1.id = e.id /\ v1.kind = kind /\ v1.sim = DefaultSim
      BY ONLY <2>2, <1>2, SetKind, ZenonT(40)
    <2>5. v2 = WithRank(v1, ra)
      OBVIOUS
    <2>. HIDE DEF v2
    <2>6. IsNode(v2) /\ v2.id = e.id /\ v2.kind = kind /\ v2.sim = DefaultSim
      BY ONLY <2>3, <2>5, SetRank
    <2>7. v3 = WithEnum(v2, en)
      OBVIOUS
    <2>. HIDE DEF v3
    <2>8. IsNode(v3) /\ v3.id = e.id /\ v3.kind = kind /\ v3.sim = DefaultSim
      BY ONLY <2>6, <2>7, SetEnum
    <2>9. v4 = WithType(v3, ImportType(e.type))
      OBVIOUS
    <2>. HIDE DEF v4
    <2>10. IsNode(v4) /\ v4.id = e.id /\ v4.kind = kind /\ v4.sim = DefaultSim
      BY ONLY <2>8, <2>9, SetType
    <2>. QED  BY ONLY <1>1, <1>5, <2>1, <2>10, IsId(e.id), VariableNode, Zenon
  <1>. QED  BY <1>4, <1>5

-----------------------------------------------------------------------------
(* applyCloneSnapshot().                                                     *)

LEMMA CloneIsOk ==
  ASSUME NEW source, IsList(source), \A c \in ToSet(source) : IsId(c.id), NEW preserve, NEW uris,
         NEW p, p = CloneToProject(source, preserve, uris)
  PROVE  ProjectOk(p) /\ References(p) /\ Rooted(p.nodes)
  <1>. DEFINE some == {c \in ToSet(source) : c.class \in {"Object", "Variable"}}
              nodes == Keep(source, some)
              met == MetNamespaces(source)
              slugs == SlugIds(nodes)
              NewId(i) == IF preserve THEN RemapId(met, nodes[i].id) ELSE slugs[i]
              Parent(i) == IF ParentsAt(nodes, i) = {} THEN NoNode
                           ELSE NewId(CHOOSE j \in ParentsAt(nodes, i) : TRUE)
              ns == IF preserve THEN [k \in DOMAIN met |-> uris[met[k]]] ELSE <<"clone">>
              t == [i \in DOMAIN nodes |-> ClonedNode(nodes[i], NewId(i), Parent(i))]
  <1>1. p = [NewProjectData EXCEPT !.namespaces = ns, !.nodes = t]
    BY Zenon DEF CloneToProject
  <1>. HIDE DEF some
  <1>2. IsList(nodes) /\ ToSet(nodes) \subseteq ToSet(source)
    <2>1. IsList(nodes) /\ ToSet(nodes) = ToSet(source) \cap some
      BY ONLY IsList(source), KeepFacts, Zenon
    <2>. QED  BY <2>1
  <1>. HIDE DEF nodes
  <1>3. ASSUME NEW i \in DOMAIN nodes PROVE IsId(NewId(i))
    <2>1. IsId(nodes[i].id)
      BY <1>2, ListFacts
    <2>2. CASE preserve
      BY <2>1, <2>2, IdShape DEF RemapId
    <2>3. CASE ~preserve
      BY <2>3, IdShape DEF SlugIds
    <2>. QED  BY <2>2, <2>3
  <1>. HIDE DEF NewId
  <1>4. ASSUME NEW i \in DOMAIN nodes
        PROVE  Parent(i) = NoNode \/ \E j \in 1 .. i - 1 : Parent(i) = NewId(j)
    BY DEF ParentsAt
  <1>. HIDE DEF Parent, ns
  <1>5. \A i \in DOMAIN nodes : /\ NodeOk(t[i]) /\ t[i].id = NewId(i) /\ t[i].parent = Parent(i)
                                /\ t[i].enum = NoNode
    BY <1>3, ClonedNodeIsOk
  <1>6. t = [i \in DOMAIN nodes |-> t[i]]
    OBVIOUS
  <1>. HIDE DEF t
  <1>7. /\ IsList(t) /\ DOMAIN t = DOMAIN nodes
        /\ ToSet(t) = {t[i] : i \in DOMAIN nodes}
    BY <1>2, <1>6, MappedList
  <1>8. DOMAIN nodes = 1 .. Len(nodes) /\ Len(nodes) \in Nat
    BY <1>2, ListFacts
  <1>9. \A i \in DOMAIN t : t[i].parent = NoNode \/ \E j \in 1 .. i - 1 : t[i].parent = t[j].id
    BY <1>4, <1>5, <1>7, <1>8
  <1>10. Rooted(t)
    BY <1>7, <1>9, OrderedRooted
  <1>11. ListsOk(t, <<>>, <<>>)
    BY <1>5, <1>7, EmptyList DEF ListsOk
  <1>12. p = ProjectOf(ns, <<>>, t, <<>>, DefaultSecurity, DefaultPort)
    <2>1. p = [[NewProjectData EXCEPT !.namespaces = ns] EXCEPT !.nodes = t]
      BY <1>1, Zenon
    <2>2. [NewProjectData EXCEPT !.namespaces = ns]
            = ProjectOf(ns, <<>>, <<>>, <<>>, DefaultSecurity, DefaultPort)
      BY NewProjectIs
    <2>3. p = [ProjectOf(ns, <<>>, <<>>, <<>>, DefaultSecurity, DefaultPort) EXCEPT !.nodes = t]
      BY ONLY <2>1, <2>2, Zenon
    <2>. QED  BY ONLY <2>3, ProjectExcept
  <1>13. /\ ProjectOk(p) /\ p.nodes = t /\ p.rules = <<>>
    BY ONLY <1>11, <1>12, PortIsQuint, ProjectMade
  <1>14. References(p)
    <2>1. \A n \in ToSet(t) : n.parent \in Ids(t) \cup {NoNode} /\ n.enum = NoNode
      <3>1. ASSUME NEW i \in DOMAIN nodes
            PROVE  t[i].parent \in Ids(t) \cup {NoNode} /\ t[i].enum = NoNode
        <4>1. \A j \in 1 .. i - 1 : j \in DOMAIN t
          BY <1>7, <1>8
        <4>. QED  BY <4>1, <1>5, <1>7, <1>9 DEF Ids
      <3>. QED  BY <3>1, <1>7
    <2>. QED  BY <2>1, <1>13, EmptyList DEF References
  <1>. QED  BY <1>10, <1>13, <1>14

-----------------------------------------------------------------------------
(* importNodeSet().                                                          *)

DocumentOk(doc) ==
  /\ IsList(doc.types) /\ IsList(doc.elements)
  /\ \A t \in ToSet(doc.types) : IsId(t.id) /\ DOMAIN t = {"id", "name", "entries", "definition"}
  /\ \A e \in ToSet(doc.elements) : IsId(e.id)

LEMMA DocumentsAreOk == ASSUME NEW doc \in NodeSets PROVE DocumentOk(doc)
  BY DocumentAssumption, Zenon DEF DocumentOk, IsList

LEMMA ImportedEnumIsOk ==
  ASSUME NEW t, IsId(t.id), DOMAIN t = {"id", "name", "entries", "definition"}
  PROVE  EnumOk(Without(t, {"definition"}))
  <1>. DEFINE e == Without(t, {"definition"})
  <1>1. e = [k \in {"id", "name", "entries"} |-> t[k]]
    BY DEF Without
  <1>2. e.id = t.id
    BY <1>1
  <1>3. e = [name |-> e.name, entries |-> e.entries, id |-> e.id]
    BY <1>1
  <1>. HIDE DEF e
  <1>. QED  BY <1>2, <1>3 DEF EnumOk, IsEnum, EnumOf, e

LEMMA ImportIsOk ==
  ASSUME NEW p, ProjectOk(p), NEW doc, DocumentOk(doc), NEW q, q = WithImported(p, doc)
  PROVE  ProjectOk(q) /\ q.rules = <<>>
  <1>. DEFINE whole == {t \in ToSet(doc.types) : t.definition}
              known == {e \in ToSet(doc.elements) : e.element \in {"UAObject", "UAVariable"}}
              types == Keep(doc.types, whole)
              elements == Keep(doc.elements, known)
              enums == [i \in DOMAIN types |-> Without(types[i], {"definition"})]
              nodes == [i \in DOMAIN elements |-> ImportNode(elements[i])]
              ns == IF doc.uris # <<>> THEN doc.uris ELSE p.namespaces
              r == Imported(doc)
  <1>1. r = [namespaces |-> doc.uris, enums |-> enums, nodes |-> nodes]
    BY Zenon DEF Imported, MapSeq
  <1>. HIDE DEF whole, known, types, elements, enums, nodes, r
  <1>2. r.namespaces = doc.uris /\ r.enums = enums /\ r.nodes = nodes
    BY ONLY <1>1, SMT
  <1>3. q = [p EXCEPT !.namespaces = ns, !.enums = enums, !.nodes = nodes, !.rules = <<>>]
    BY ONLY <1>2, q = WithImported(p, doc), Zenon DEF WithImported, r
  <1>. HIDE DEF ns
  <1>4. IsList(types) /\ ToSet(types) = ToSet(doc.types) \cap whole
    BY ONLY DocumentOk(doc), KeepFacts, Zenon DEF DocumentOk, types
  <1>5. IsList(elements) /\ ToSet(elements) = ToSet(doc.elements) \cap known
    BY ONLY DocumentOk(doc), KeepFacts, Zenon DEF DocumentOk, elements
  <1>6. IsList(enums) /\ \A e \in ToSet(enums) : EnumOk(e)
    <2>1. enums = [i \in DOMAIN types |-> enums[i]]
      BY DEF enums
    <2>2. ASSUME NEW i \in DOMAIN types PROVE EnumOk(enums[i])
      <3>1. types[i] \in ToSet(doc.types)
        BY <1>4, ListFacts
      <3>2. EnumOk(Without(types[i], {"definition"}))
        BY <3>1, ImportedEnumIsOk DEF DocumentOk
      <3>. QED  BY <3>2 DEF enums
    <2>. QED  BY <1>4, <2>1, <2>2, MappedList
  <1>7. IsList(nodes) /\ \A n \in ToSet(nodes) : NodeOk(n)
    <2>1. nodes = [i \in DOMAIN elements |-> nodes[i]]
      BY DEF nodes
    <2>2. ASSUME NEW i \in DOMAIN elements PROVE NodeOk(nodes[i])
      <3>1. elements[i] \in ToSet(doc.elements)
        BY <1>5, ListFacts
      <3>2. NodeOk(ImportNode(elements[i]))
        BY <3>1, ImportNodeIsOk DEF DocumentOk
      <3>. QED  BY <3>2 DEF nodes
    <2>. QED  BY <1>5, <2>1, <2>2, MappedList
  <1>9. ListsOk(nodes, enums, <<>>)
    BY <1>6, <1>7, EmptyList DEF ListsOk
  <1>10. q = ProjectOf(ns, enums, nodes, <<>>, p.security, p.port) /\ p.port \in Quint16
    <2>1. PICK ns0, en0, no0, ru0, se, po : p = ProjectOf(ns0, en0, no0, ru0, se, po) /\ se = p.security /\ po = p.port
      BY Zenon DEF ProjectOk, IsProject
    <2>. DEFINE p1 == [p EXCEPT !.namespaces = ns]
                p2 == [p1 EXCEPT !.enums = enums]
                p3 == [p2 EXCEPT !.nodes = nodes]
    <2>2. q = [p3 EXCEPT !.rules = <<>>]
      BY ONLY <1>3, Zenon
    <2>3. p1 = ProjectOf(ns, en0, no0, ru0, se, po)
      BY ONLY <2>1, SMT DEF ProjectOf
    <2>. HIDE DEF p1
    <2>4. p2 = ProjectOf(ns, enums, no0, ru0, se, po)
      <3>1. p2 = [ProjectOf(ns, en0, no0, ru0, se, po) EXCEPT !.enums = enums]
        BY ONLY <2>3, Zenon
      <3>. HIDE DEF p2
      <3>. QED  BY ONLY <3>1, SMT DEF ProjectOf
    <2>. HIDE DEF p2
    <2>5. p3 = ProjectOf(ns, enums, nodes, ru0, se, po)
      BY ONLY <2>4, SMT DEF ProjectOf
    <2>. HIDE DEF p3
    <2>6. q = ProjectOf(ns, enums, nodes, <<>>, se, po)
      <3>1. q = [ProjectOf(ns, enums, nodes, ru0, se, po) EXCEPT !.rules = <<>>]
        BY ONLY <2>2, <2>5, Zenon
      <3>. QED  BY ONLY <3>1, SMT DEF ProjectOf
    <2>. QED  BY <2>1, <2>6 DEF ProjectOk
  <1>. QED  BY ONLY <1>9, <1>10, ProjectMade

-----------------------------------------------------------------------------
(* Files.                                                                  *)

(* What fromJson() sets of a node, and of a variable.                           *)
NodeRead(k, i, p, na) == WithName(WithParent(WithId(WithKind(NewNode, k), i), p), na)
VariableRead(n, ty, en, ra, wr, si) ==
  WithSim(WithWritable(WithRank(WithEnum(WithType(n, ty), en), ra), wr), si)

LEMMA SameNode ==
  ASSUME NEW n, IsNode(n), NEW m, IsNode(m), m.kind = n.kind, m.id = n.id, m.parent = n.parent,
         m.name = n.name, m.type = n.type, m.enum = n.enum, m.rank = n.rank,
         m.writable = n.writable, m.sim = n.sim
  PROVE  m = n
  BY Zenon DEF IsNode

IsRead(m, k, i, p, na) ==
  /\ IsNode(m) /\ m.kind = k /\ m.id = i /\ m.parent = p /\ m.name = na
  /\ m.type = "" /\ m.enum = NoNode /\ m.rank = -1 /\ m.writable = FALSE /\ m.sim = DefaultSim

LEMMA NodeReadIs ==
  ASSUME NEW k, NEW i, NEW p, NEW na, NEW m, m = NodeRead(k, i, p, na)
  PROVE  IsRead(m, k, i, p, na)
  <1>. DEFINE a == WithKind(NewNode, k)
              b == WithId(a, i)
              c == WithParent(b, p)
  <1>1. a = WithKind(NewNode, k) /\ b = WithId(a, i) /\ c = WithParent(b, p) /\ m = WithName(c, na)
    BY DEF NodeRead
  <1>. HIDE DEF a, b, c
  <1>2. /\ IsNode(a) /\ a.kind = k
        /\ a.type = NewNode.type /\ a.enum = NewNode.enum /\ a.rank = NewNode.rank
        /\ a.writable = NewNode.writable /\ a.sim = NewNode.sim
    BY ONLY <1>1, NewNodeFields, SetKind, ZenonT(40)
  <1>3. /\ IsNode(b) /\ b.kind = a.kind /\ b.id = i
        /\ b.type = a.type /\ b.enum = a.enum /\ b.rank = a.rank
        /\ b.writable = a.writable /\ b.sim = a.sim
    BY ONLY <1>1, <1>2, SetId
  <1>4. /\ IsNode(c) /\ c.kind = b.kind /\ c.id = b.id /\ c.parent = p
        /\ c.type = b.type /\ c.enum = b.enum /\ c.rank = b.rank
        /\ c.writable = b.writable /\ c.sim = b.sim
    BY ONLY <1>1, <1>3, SetParent
  <1>5. /\ IsNode(m) /\ m.kind = c.kind /\ m.id = c.id /\ m.parent = c.parent /\ m.name = na
        /\ m.type = c.type /\ m.enum = c.enum /\ m.rank = c.rank
        /\ m.writable = c.writable /\ m.sim = c.sim
    BY ONLY <1>1, <1>4, SetName
  <1>. QED  BY ONLY <1>2, <1>3, <1>4, <1>5, NewNodeFields, Zenon DEF IsRead

LEMMA VariableReadIs ==
  ASSUME NEW n, IsNode(n), NEW m, IsNode(m), m.kind = n.kind, m.id = n.id, m.parent = n.parent,
         m.name = n.name
  PROVE  VariableRead(m, n.type, n.enum, n.rank, n.writable, n.sim) = n
  <1>. DEFINE a == WithType(m, n.type)
              b == WithEnum(a, n.enum)
              c == WithRank(b, n.rank)
              d == WithWritable(c, n.writable)
              e == WithSim(d, n.sim)
  <1>1. /\ a = WithType(m, n.type) /\ b = WithEnum(a, n.enum) /\ c = WithRank(b, n.rank)
        /\ d = WithWritable(c, n.writable) /\ e = WithSim(d, n.sim)
        /\ e = VariableRead(m, n.type, n.enum, n.rank, n.writable, n.sim)
    BY DEF VariableRead
  <1>. HIDE DEF a, b, c, d, e
  <1>2. /\ IsNode(a) /\ a.kind = n.kind /\ a.id = n.id /\ a.parent = n.parent /\ a.name = n.name
        /\ a.type = n.type
    BY ONLY <1>1, IsNode(m), m.kind = n.kind, m.id = n.id, m.parent = n.parent, m.name = n.name, SetType
  <1>3. /\ IsNode(b) /\ b.kind = n.kind /\ b.id = n.id /\ b.parent = n.parent /\ b.name = n.name
        /\ b.type = n.type /\ b.enum = n.enum
    BY ONLY <1>1, <1>2, SetEnum
  <1>4. /\ IsNode(c) /\ c.kind = n.kind /\ c.id = n.id /\ c.parent = n.parent /\ c.name = n.name
        /\ c.type = n.type /\ c.enum = n.enum /\ c.rank = n.rank
    BY ONLY <1>1, <1>3, SetRank
  <1>5. /\ IsNode(d) /\ d.kind = n.kind /\ d.id = n.id /\ d.parent = n.parent /\ d.name = n.name
        /\ d.type = n.type /\ d.enum = n.enum /\ d.rank = n.rank /\ d.writable = n.writable
    BY ONLY <1>1, <1>4, SetWritable
  <1>6. /\ IsNode(e) /\ e.kind = n.kind /\ e.id = n.id /\ e.parent = n.parent /\ e.name = n.name
        /\ e.type = n.type /\ e.enum = n.enum /\ e.rank = n.rank /\ e.writable = n.writable
        /\ e.sim = n.sim
    <2>1. PICK si : si = n.sim /\ e = WithSim(d, si)
      BY <1>1
    <2>2. /\ IsNode(e) /\ e.kind = d.kind /\ e.id = d.id /\ e.parent = d.parent /\ e.name = d.name
          /\ e.type = d.type /\ e.enum = d.enum /\ e.rank = d.rank /\ e.writable = d.writable
          /\ e.sim = si
      BY ONLY <1>5, <2>1, SetSim
    <2>. QED  BY ONLY <1>5, <2>1, <2>2, Zenon
  <1>7. e = n
    BY ONLY <1>6, IsNode(n), SameNode
  <1>. QED  BY <1>1, <1>7

LEMMA NodeWritten ==
  ASSUME NEW n, NodeOk(n)
  PROVE  NodeFromJson(NodeToJson(n)) = n
  <1>. DEFINE o == NodeToJson(n)
              c == NodeRead(n.kind, n.id, n.parent, n.name)
  <1>1. IsNode(n) /\ KindOf(n.kind) = n.kind
    BY DEF NodeOk, NodeKinds, KindOf
  <1>2. DOMAIN n = {"kind", "id", "parent", "name", "type", "enum", "rank", "writable", "sim"}
    <2>1. PICK k, i, p, na, ty, en, ra, wr, si : n = NodeOf(k, i, p, na, ty, en, ra, wr, si)
      BY <1>1, NodeIs
    <2>. QED  BY <2>1 DEF NodeOf
  <1>5. c = NodeRead(n.kind, n.id, n.parent, n.name)
    OBVIOUS
  <1>6. ASSUME NEW x, x.kind = n.kind, x.id = n.id, x.parent = n.parent, x.name = n.name
        PROVE  NodeFromJson(x) =
                 IF c.kind # "Variable" THEN c
                 ELSE VariableRead(c, Key(x, "type", ""), Key(x, "enum", NoNode), Key(x, "rank", -1),
                                   Key(x, "writable", FALSE), Key(x, "sim", DefaultSim))
    BY ONLY <1>1, <1>6, Zenon DEF NodeFromJson, NodeRead, VariableRead, WithKind, WithId, WithParent,
       WithName, WithType, WithEnum, WithRank, WithWritable, WithSim
  <1>. HIDE DEF c
  <1>7. IsRead(c, n.kind, n.id, n.parent, n.name)
    BY ONLY <1>5, NodeReadIs
  <1>8. IsNode(c) /\ c.kind = n.kind /\ c.id = n.id /\ c.parent = n.parent /\ c.name = n.name
    BY ONLY <1>7, Zenon DEF IsRead
  <1>3. CASE ~Variable(n)
    <2>1. o = [f \in {"kind", "id", "parent", "name"} |-> n[f]]
      BY <1>2, <1>3 DEF NodeToJson, Without
    <2>2. o.kind = n.kind /\ o.id = n.id /\ o.parent = n.parent /\ o.name = n.name
      BY <2>1
    <2>. HIDE DEF o
    <2>3. NodeFromJson(o) = c
      BY ONLY <1>3, <1>6, <1>8, <2>2, Zenon DEF Variable
    <2>4. c = n
      <3>1. /\ c.type = n.type /\ c.enum = n.enum /\ c.rank = n.rank
            /\ c.writable = n.writable /\ c.sim = n.sim
        BY ONLY <1>3, <1>7, NodeOk(n), Zenon DEF NodeOk, IsRead
      <3>. QED  BY ONLY <3>1, <1>1, <1>8, SameNode
    <2>. QED  BY <2>3, <2>4 DEF o
  <1>4. CASE Variable(n)
    <2>. DEFINE dropped == (IF n.enum = NoNode THEN {"enum"} ELSE {})
                           \cup (IF n.sim.kind = "Manual" THEN {"sim"} ELSE {})
    <2>1. o = [f \in DOMAIN n \ dropped |-> n[f]]
      BY ONLY <1>4, Zenon DEF NodeToJson, Without
    <2>0. dropped \subseteq {"enum", "sim"} /\ ("enum" \in dropped <=> n.enum = NoNode)
          /\ ("sim" \in dropped <=> n.sim.kind = "Manual")
      OBVIOUS
    <2>. HIDE DEF dropped
    <2>2. /\ o.kind = n.kind /\ o.id = n.id /\ o.parent = n.parent /\ o.name = n.name
          /\ Key(o, "type", "") = n.type /\ Key(o, "rank", -1) = n.rank
          /\ Key(o, "writable", FALSE) = n.writable
      <3>1. \A f \in {"kind", "id", "parent", "name", "type", "rank", "writable"} : f \in DOMAIN o /\ o[f] = n[f]
        BY <1>2, <2>1, <2>0
      <3>. HIDE DEF o
      <3>2. o.kind = n.kind /\ o.id = n.id /\ o.parent = n.parent /\ o.name = n.name
        BY <3>1
      <3>3. \A x : /\ Key(o, "type", x) = n.type /\ Key(o, "rank", x) = n.rank
                   /\ Key(o, "writable", x) = n.writable
        BY <3>1 DEF Key
      <3>. QED  BY ONLY <3>2, <3>3, Zenon
    <2>3. Key(o, "enum", NoNode) = n.enum
      BY <1>2, <2>0, <2>1 DEF Key
    <2>4. Key(o, "sim", DefaultSim) = n.sim
      <3>1. n.sim.kind = "Manual" => n.sim = DefaultSim
        BY <1>4 DEF NodeOk
      <3>. QED  BY <1>2, <2>0, <2>1, <3>1 DEF Key
    <2>. HIDE DEF o
    <2>5. NodeFromJson(o) = VariableRead(c, n.type, n.enum, n.rank, n.writable, n.sim)
      BY ONLY <1>4, <1>6, <1>8, <2>2, <2>3, <2>4, Zenon DEF Variable
    <2>6. VariableRead(c, n.type, n.enum, n.rank, n.writable, n.sim) = n
      BY ONLY <1>1, <1>8, VariableReadIs
    <2>. QED  BY <2>5, <2>6 DEF o
  <1>. QED  BY <1>3, <1>4

LEMMA ActionWritten ==
  ASSUME NEW a, ActionOk(a)
  PROVE  /\ ActionFromJson(ActionToJson(a)) = TrimAction(a)
         /\ TrimAction(TrimAction(a)) = TrimAction(a) /\ ActionOk(TrimAction(a))
  <1>. DEFINE o == ActionToJson(a)
              lit == IF a.mode = "Literal" THEN a.literal ELSE "none"
  <1>1. PICK t, m, l, d : a = ActionOf(t, m, l, d)
    BY Zenon DEF ActionOk, IsAction
  <1>2. /\ a.target = t /\ a.mode = m /\ a.literal = l /\ a.delay = d
        /\ DOMAIN a = {"target", "mode", "literal", "delay"}
    BY <1>1 DEF ActionOf
  <1>3. m \in ValueModes /\ ModeOf(m) = m
    BY <1>2 DEF ActionOk, ModeOf
  <1>4. /\ o.target = t /\ o.mode = m /\ o.delay = d
        /\ Key(o, "literal", "none") = lit
    BY <1>2, <1>3 DEF ActionToJson, Without, Key
  <1>5. TrimAction(a) = ActionOf(t, m, lit, d)
    BY <1>1, <1>2 DEF TrimAction, ActionOf
  <1>7. TrimAction(TrimAction(a)) = TrimAction(a) /\ ActionOk(TrimAction(a))
    BY <1>2, <1>3, <1>5 DEF TrimAction, ActionOf, ActionOk, IsAction
  <1>. HIDE DEF o, lit
  <1>6. ActionFromJson(o) = ActionOf(t, m, lit, d)
    <2>1. ActionFromJson(o) = [NewAction EXCEPT !.target = t, !.mode = m, !.literal = lit, !.delay = d]
      BY ONLY <1>3, <1>4, Zenon DEF ActionFromJson
    <2>2. PICK t0, m0, l0, d0 : NewAction = ActionOf(t0, m0, l0, d0)
      BY DEF NewAction, ActionOf
    <2>. DEFINE b == [NewAction EXCEPT !.target = t]
                c == [b EXCEPT !.mode = m]
                e == [c EXCEPT !.literal = lit]
    <2>3. ActionFromJson(o) = [e EXCEPT !.delay = d]
      BY ONLY <2>1, Zenon
    <2>4. b = ActionOf(t, m0, l0, d0)
      BY ONLY <2>2, SMT DEF ActionOf
    <2>. HIDE DEF b
    <2>5. c = ActionOf(t, m, l0, d0)
      BY ONLY <2>4, SMT DEF ActionOf
    <2>. HIDE DEF c
    <2>6. e = ActionOf(t, m, lit, d0)
      BY ONLY <2>5, SMT DEF ActionOf
    <2>. HIDE DEF e
    <2>. QED  BY ONLY <2>3, <2>6, SMT DEF ActionOf
  <1>. QED  BY <1>5, <1>6, <1>7 DEF o

-----------------------------------------------------------------------------
(* Saving and loading: a file trims the literals no action uses.            *)

LEMMA PortKept == ASSUME NEW port \in Quint16 PROVE port % Quint16Size = port
  <1>1. Quint16Size \in Nat /\ Quint16Size # 0
    BY SMT DEF Quint16Size
  <1>2. \A n \in Nat : n # 0 => \A p \in 0 .. n - 1 : p % n = p
    BY SMT
  <1>. QED  BY <1>1, <1>2 DEF Quint16

LEMMA TrimmedFields ==
  ASSUME NEW a, ActionOk(a)
  PROVE  /\ TrimAction(a).target = a.target /\ TrimAction(a).mode = a.mode
         /\ TrimAction(a).delay = a.delay
         /\ TrimAction(a).mode = "Literal" => TrimAction(a).literal = a.literal
  <1>1. PICK t, m, l, d : a = ActionOf(t, m, l, d)
    BY Zenon DEF ActionOk, IsAction
  <1>. QED  BY <1>1 DEF TrimAction, ActionOf

(* Rules as a file keeps them.                                                *)
LEMMA RuleTrimmed ==
  ASSUME NEW r, RuleOk(r)
  PROVE  /\ RuleOk(TrimRule(r)) /\ TrimRule(TrimRule(r)) = TrimRule(r)
         /\ TrimRule(r).trigger = r.trigger /\ DOMAIN TrimRule(r).actions = DOMAIN r.actions
         /\ TrimRule(r).actions = [j \in DOMAIN r.actions |-> TrimAction(r.actions[j])]
         /\ \A w : w = [r EXCEPT !.actions = MapSeq(ActionToJson, r.actions)]
              => [w EXCEPT !.actions = MapSeq(ActionFromJson, w.actions)] = TrimRule(r)
  <1>. DEFINE acts == [j \in DOMAIN r.actions |-> TrimAction(r.actions[j])]
              json == [j \in DOMAIN r.actions |-> ActionToJson(r.actions[j])]
  <1>1. PICK t, a : r = RuleOf(t, a)
    BY Zenon DEF RuleOk, IsRule
  <1>2. r.trigger = t /\ r.actions = a /\ IsList(a) /\ \A j \in DOMAIN a : ActionOk(a[j])
    <2>1. r.trigger = t /\ r.actions = a
      BY <1>1 DEF RuleOf
    <2>. QED  BY <2>1, ListFacts DEF RuleOk
  <1>3. TrimRule(r) = [r EXCEPT !.actions = acts]
    BY Zenon DEF TrimRule, MapSeq
  <1>4. acts = [j \in DOMAIN a |-> acts[j]] /\ DOMAIN acts = DOMAIN a
    BY <1>2
  <1>5. \A j \in DOMAIN a : ActionOk(acts[j]) /\ TrimAction(acts[j]) = acts[j]
    BY <1>2, ActionWritten
  <1>6. [j \in DOMAIN acts |-> TrimAction(acts[j])] = acts
    BY <1>4, <1>5
  <1>7. DOMAIN json = DOMAIN a /\ \A j \in DOMAIN a : ActionFromJson(json[j]) = acts[j]
    BY <1>2, ActionWritten
  <1>8. [j \in DOMAIN json |-> ActionFromJson(json[j])] = acts
    BY <1>4, <1>7
  <1>9. MapSeq(ActionToJson, r.actions) = json
    BY Zenon DEF MapSeq
  <1>10. MapSeq(TrimAction, acts) = acts
    BY <1>6, Zenon DEF MapSeq
  <1>11. MapSeq(ActionFromJson, json) = acts
    BY <1>8, Zenon DEF MapSeq
  <1>12. TrimRule(r).actions = [j \in DOMAIN r.actions |-> TrimAction(r.actions[j])]
    <2>1. acts = [j \in DOMAIN r.actions |-> TrimAction(r.actions[j])]
      OBVIOUS
    <2>. HIDE DEF acts
    <2>2. TrimRule(r).actions = acts
      BY ONLY <1>1, <1>3, SMT DEF RuleOf
    <2>. QED  BY <2>1, <2>2
  <1>. HIDE DEF acts, json
  <1>13. TrimRule(r) = RuleOf(t, acts)
    BY ONLY <1>1, <1>3, SMT DEF RuleOf
  <1>14. RuleOf(t, acts).trigger = t /\ RuleOf(t, acts).actions = acts
    BY ONLY SMT DEF RuleOf
  <1>15. RuleOk(TrimRule(r))
    <2>1. IsList(acts) /\ \A x \in ToSet(acts) : ActionOk(x)
      BY <1>2, <1>4, <1>5, MappedList
    <2>2. IsRule(RuleOf(t, acts))
      BY ONLY <1>14, Zenon DEF IsRule
    <2>. QED  BY ONLY <1>13, <1>14, <2>1, <2>2, Zenon DEF RuleOk
  <1>16. TrimRule(TrimRule(r)) = TrimRule(r)
    <2>1. TrimRule(RuleOf(t, acts)) = [RuleOf(t, acts) EXCEPT !.actions = acts]
      BY ONLY <1>10, <1>14, Zenon DEF TrimRule
    <2>2. [RuleOf(t, acts) EXCEPT !.actions = acts] = RuleOf(t, acts)
      BY ONLY SMT DEF RuleOf
    <2>. QED  BY ONLY <1>13, <2>1, <2>2, Zenon
  <1>17. ASSUME NEW w, w = [r EXCEPT !.actions = MapSeq(ActionToJson, r.actions)]
         PROVE  [w EXCEPT !.actions = MapSeq(ActionFromJson, w.actions)] = TrimRule(r)
    <2>1. w = RuleOf(t, json)
      <3>1. w = [r EXCEPT !.actions = json]
        BY ONLY <1>9, <1>17, Zenon
      <3>. QED  BY ONLY <1>1, <3>1, SMT DEF RuleOf
    <2>2. w.actions = json
      BY ONLY <2>1, SMT DEF RuleOf
    <2>3. [w EXCEPT !.actions = acts] = RuleOf(t, acts)
      BY ONLY <2>1, SMT DEF RuleOf
    <2>. QED  BY ONLY <1>11, <1>13, <2>2, <2>3, Zenon
  <1>18. TrimRule(r).trigger = r.trigger /\ DOMAIN TrimRule(r).actions = DOMAIN r.actions
    BY ONLY <1>2, <1>4, <1>13, <1>14, Zenon
  <1>. QED  BY ONLY <1>12, <1>15, <1>16, <1>17, <1>18, Zenon

TrimmedRules(p) == [i \in DOMAIN p.rules |-> TrimRule(p.rules[i])]

LEMMA ProjectTrimmed ==
  ASSUME NEW p, ProjectOk(p)
  PROVE  /\ ProjectOk(Trim(p)) /\ Trim(Trim(p)) = Trim(p)
         /\ Trim(p) = ProjectOf(p.namespaces, p.enums, p.nodes, TrimmedRules(p), p.security, p.port)
         /\ Trim(p).namespaces = p.namespaces /\ Trim(p).enums = p.enums /\ Trim(p).nodes = p.nodes
         /\ Trim(p).rules = TrimmedRules(p) /\ Trim(p).security = p.security /\ Trim(p).port = p.port
         /\ References(p) => References(Trim(p))
  <1>. DEFINE t == TrimmedRules(p)
  <1>1. MapSeq(TrimRule, p.rules) = t
    BY Zenon DEF MapSeq, TrimmedRules
  <1>2. Trim(p) = [p EXCEPT !.rules = t]
    BY <1>1, Zenon DEF Trim
  <1>3. IsList(p.rules) /\ \A i \in DOMAIN p.rules : RuleOk(p.rules[i])
    BY ProjectIs, RuleLists
  <1>4. t = [i \in DOMAIN p.rules |-> t[i]] /\ DOMAIN t = DOMAIN p.rules
    BY DEF TrimmedRules
  <1>5. \A i \in DOMAIN p.rules : t[i] = TrimRule(p.rules[i])
    BY DEF TrimmedRules
  <1>. HIDE DEF t
  <1>15. IsList(t) /\ ToSet(t) = {t[i] : i \in DOMAIN p.rules}
    <2>1. PICK s : s = p.rules
      OBVIOUS
    <2>2. t = [i \in DOMAIN s |-> t[i]] /\ IsList(s)
      BY ONLY <1>3, <1>4, <2>1, Zenon
    <2>3. IsList(t) /\ ToSet(t) = {t[i] : i \in DOMAIN s}
      BY ONLY <2>2, MappedList
    <2>. QED  BY ONLY <2>1, <2>3, Zenon
  <1>16. ASSUME NEW i \in DOMAIN p.rules PROVE RuleOk(t[i]) /\ TrimRule(t[i]) = t[i]
    <2>. DEFINE r == p.rules[i]
    <2>1. RuleOk(r) /\ t[i] = TrimRule(r)
      BY <1>3, <1>5, Zenon
    <2>. HIDE DEF r
    <2>2. RuleOk(TrimRule(r)) /\ TrimRule(TrimRule(r)) = TrimRule(r)
      BY ONLY <2>1, RuleTrimmed, Zenon
    <2>. QED  BY ONLY <2>1, <2>2, Zenon
  <1>6. IsList(t) /\ \A r \in ToSet(t) : RuleOk(r)
    BY <1>15, <1>16
  <1>7. [i \in DOMAIN t |-> TrimRule(t[i])] = t
    BY <1>4, <1>16
  <1>8. ListsOk(p.nodes, p.enums, t)
    BY <1>6, ProjectIs DEF ListsOk
  <1>9. Trim(p) = ProjectOf(p.namespaces, p.enums, p.nodes, t, p.security, p.port) /\ p.port \in Quint16
    BY <1>2, ProjectEdits DEF ProjectOk
  <1>. DEFINE q == Trim(p)
  <1>. HIDE DEF q
  <1>10. /\ ProjectOk(q)
         /\ q.namespaces = p.namespaces /\ q.nodes = p.nodes /\ q.enums = p.enums /\ q.rules = t
         /\ q.security = p.security /\ q.port = p.port
    BY ONLY <1>8, <1>9, ProjectMade DEF q
  <1>11. Trim(q) = q
    <2>1. MapSeq(TrimRule, t) = t
      BY ONLY <1>7, Zenon DEF MapSeq
    <2>2. Trim(q) = [q EXCEPT !.rules = t]
      BY ONLY <2>1, <1>10, Zenon DEF Trim
    <2>3. [q EXCEPT !.rules = t] = ProjectOf(q.namespaces, q.enums, q.nodes, t, q.security, q.port)
      BY ONLY <1>10, ProjectEdits
    <2>. QED  BY ONLY <2>2, <2>3, <1>9, <1>10, Zenon DEF q
  <1>12. ASSUME References(p) PROVE References(q)
    <2>1. VariableIds(q) = VariableIds(p)
      BY <1>10 DEF VariableIds
    <2>2. ASSUME NEW r \in ToSet(q.rules)
          PROVE  /\ r.trigger \in VariableIds(p)
                 /\ \A a \in ToSet(r.actions) : a.target \in VariableIds(p)
      <3>1. PICK i \in DOMAIN p.rules : r = TrimRule(p.rules[i])
        BY <1>5, <1>10, <1>15
      <3>2. RuleOk(p.rules[i]) /\ p.rules[i] \in ToSet(p.rules)
        BY <1>3, ListFacts
      <3>3. /\ r.trigger = p.rules[i].trigger
            /\ r.actions = [j \in DOMAIN p.rules[i].actions |-> TrimAction(p.rules[i].actions[j])]
        BY <3>1, <3>2, RuleTrimmed
      <3>4. ASSUME NEW a \in ToSet(r.actions) PROVE a.target \in VariableIds(p)
        <4>1. IsList(p.rules[i].actions)
          BY <3>2 DEF RuleOk
        <4>2. PICK j \in DOMAIN p.rules[i].actions : a = TrimAction(p.rules[i].actions[j])
          BY <3>3 DEF ToSet
        <4>3. p.rules[i].actions[j] \in ToSet(p.rules[i].actions)
          BY <4>1, ListFacts
        <4>4. a.target = p.rules[i].actions[j].target
          <5>1. ActionOk(p.rules[i].actions[j])
            BY <4>3, <3>2 DEF RuleOk
          <5>. QED  BY <4>2, <5>1, TrimmedFields
        <4>. QED  BY <4>3, <4>4, <3>2, <1>12 DEF References
      <3>. QED  BY <3>2, <3>3, <3>4, <1>12 DEF References
    <2>. QED  BY <1>10, <1>12, <2>1, <2>2 DEF References
  <1>. QED  BY ONLY <1>9, <1>10, <1>11, <1>12, Zenon DEF q, t

-----------------------------------------------------------------------------
(* What is read back is what was saved, without the literals no action uses.     *)
LEMMA FileWritten ==
  ASSUME NEW p, ProjectOk(p)
  PROVE  FromJson(ToJson(p)) = Trim(p) /\ ToJson(p).version = FormatVersion
  <1>. DEFINE nodes == [i \in DOMAIN p.nodes |-> NodeToJson(p.nodes[i])]
              RuleToJson(r) == [r EXCEPT !.actions = MapSeq(ActionToJson, r.actions)]
              RuleFromJson(r) == [r EXCEPT !.actions = MapSeq(ActionFromJson, r.actions)]
              rules == [i \in DOMAIN p.rules |-> RuleToJson(p.rules[i])]
              d == [p EXCEPT !.nodes = nodes, !.rules = rules]
              file == ToJson(p)
  <1>1. file = [version |-> FormatVersion, data |-> d]
    BY Zenon DEF ToJson, MapSeq
  <1>. HIDE DEF nodes, rules, d, file
  <1>2. file.version = FormatVersion /\ file.data = d
    BY ONLY <1>1, SMT
  <1>3. d = ProjectOf(p.namespaces, p.enums, nodes, rules, p.security, p.port)
    BY ONLY ProjectOk(p), ProjectEdits DEF d
  <1>4. /\ d.namespaces = p.namespaces /\ d.enums = p.enums /\ d.nodes = nodes /\ d.rules = rules
        /\ d.security = p.security /\ d.port = p.port
    BY ONLY <1>3, ProjectFields
  <1>5. {"rules", "security", "port"} \subseteq DOMAIN d
    BY ONLY <1>3, SMT DEF ProjectOf
  <1>6. \A x : Key(d, "rules", x) = d.rules /\ Key(d, "security", x) = d.security /\ Key(d, "port", x) = d.port
    BY ONLY <1>5, SMT DEF Key
  <1>7. p.port % Quint16Size = p.port
    BY PortKept DEF ProjectOk
  <1>8. [i \in DOMAIN nodes |-> NodeFromJson(nodes[i])] = p.nodes
    <2>1. IsList(p.nodes)
      BY ProjectIs
    <2>2. \A i \in DOMAIN p.nodes : NodeOk(p.nodes[i])
      BY <2>1, ListFacts, ProjectIs
    <2>3. \A i \in DOMAIN p.nodes : NodeFromJson(NodeToJson(p.nodes[i])) = p.nodes[i]
      BY <2>2, NodeWritten
    <2>4. DOMAIN nodes = DOMAIN p.nodes /\ \A i \in DOMAIN p.nodes : NodeFromJson(nodes[i]) = p.nodes[i]
      BY <2>3 DEF nodes
    <2>5. p.nodes = [i \in DOMAIN p.nodes |-> p.nodes[i]]
      BY <2>1, ListFacts
    <2>. QED  BY <2>4, <2>5
  <1>9. [i \in DOMAIN rules |-> RuleFromJson(rules[i])] = TrimmedRules(p)
    <2>1. \A i \in DOMAIN p.rules : RuleOk(p.rules[i])
      BY ProjectIs, RuleLists
    <2>2. DOMAIN rules = DOMAIN p.rules
      BY DEF rules
    <2>3. ASSUME NEW i \in DOMAIN p.rules PROVE RuleFromJson(rules[i]) = TrimRule(p.rules[i])
      <3>1. rules[i] = RuleToJson(p.rules[i])
        BY Zenon DEF rules
      <3>2. \A w : w = RuleToJson(p.rules[i]) => RuleFromJson(w) = TrimRule(p.rules[i])
        BY ONLY <2>1, RuleTrimmed, Zenon
      <3>. QED  BY ONLY <3>1, <3>2, Zenon
    <2>. HIDE DEF RuleFromJson
    <2>. QED  BY <2>2, <2>3 DEF TrimmedRules
  <1>10. FromJson(file) = [namespaces |-> p.namespaces, enums |-> p.enums, nodes |-> p.nodes,
                           rules |-> TrimmedRules(p), security |-> p.security, port |-> p.port]
    <2>1. MapSeq(NodeFromJson, nodes) = p.nodes
      BY ONLY <1>8, Zenon DEF MapSeq
    <2>2. MapSeq(RuleFromJson, rules) = TrimmedRules(p)
      BY ONLY <1>9, Zenon DEF MapSeq
    <2>3. FromJson(file) = [namespaces |-> d.namespaces, enums |-> d.enums, nodes |-> MapSeq(NodeFromJson, d.nodes),
             rules |-> MapSeq(RuleFromJson, Key(d, "rules", <<>>)),
             security |-> Key(d, "security", DefaultSecurity), port |-> Key(d, "port", DefaultPort) % Quint16Size]
      BY ONLY <1>2, Zenon DEF FromJson
    <2>. HIDE DEF RuleFromJson
    <2>. QED  BY ONLY <1>4, <1>6, <1>7, <2>1, <2>2, <2>3, Zenon
  <1>11. FromJson(file) = Trim(p)
    BY ONLY <1>10, ProjectOk(p), ProjectTrimmed, Zenon DEF ProjectOf
  <1>. QED  BY <1>2, <1>11 DEF file

LEMMA FileIsOk ==
  ASSUME NEW p, ProjectOk(p)
  PROVE  FileOk(ToJson(p)) /\ Loads(ToJson(p))
  <1>1. FormatVersion \in 1 .. FormatVersion
    BY DEF FormatVersion
  <1>. QED  BY <1>1, FileWritten, ProjectTrimmed DEF FileOk, Loads

LEMMA LoadsIsOk ==
  ASSUME NEW file, FileOk(file), Loads(file)
  PROVE  /\ file.version = FormatVersion
         /\ ProjectOk(FromJson(file)) /\ Trim(FromJson(file)) = FromJson(file)
  <1>1. ~Loads(NoFile)
    BY DEF NoFile, Loads, FormatVersion
  <1>. QED  BY <1>1, Zenon DEF FileOk

-----------------------------------------------------------------------------
(* Every step keeps the invariant.                                            *)

LEMMA EditOnlyLeaves ==
  ASSUME NEW p, EditOnly(p)
  PROVE  /\ dirty' = TRUE /\ outcome' = "none"
         /\ UNCHANGED <<hasProject, path, selected, disk, cloning, cloneAnswers>>
  BY Zenon DEF EditOnly, Edit

EditLeaves ==
  /\ UNCHANGED <<hasProject, path, disk, cloneAnswers>>
  /\ \/ dirty' = TRUE /\ outcome' = "none"
     \/ UNCHANGED <<dirty, project, outcome>>

LEMMA EditsLeave ==
  ASSUME EditNodes \/ EditEnums \/ EditRules \/ EditSecurity
  PROVE  EditLeaves
  <1>1. \A p : EditOnly(p) => EditLeaves
    BY EditOnlyLeaves, Zenon DEF EditLeaves
  <1>2. ASSUME NEW node, NEW part, Add(node, part) PROVE EditLeaves
    BY <1>2, Zenon DEF Add, Edit, EditLeaves
  <1>3. CASE AddFolder \/ AddObject \/ AddVariable
    BY <1>2, <1>3, Zenon DEF AddFolder, AddObject, AddVariable
  <1>4. CASE RemoveNode
    BY <1>4, Zenon DEF RemoveNode, Edit, EditLeaves
  <1>5. ASSUME NEW id, Select(id) PROVE EditLeaves
    BY <1>5, Zenon DEF Select, EditLeaves
  <1>6. ASSUME NEW type, NEW rank, NEW sim, NEW name, UpdateNode(type, rank, sim, name) PROVE EditLeaves
    BY <1>1, <1>6, Zenon DEF UpdateNode
  <1>7. CASE EditNodes
    BY <1>3, <1>4, <1>5, <1>6, <1>7 DEF EditNodes
  <1>8. CASE EditEnums
    <2>1. ASSUME NEW name, AddEnumType(name) PROVE EditLeaves
      BY <1>1, <2>1, Zenon DEF AddEnumType
    <2>2. ASSUME NEW name, NEW value, AddEnumEntry(name, value) PROVE EditLeaves
      BY <1>1, <2>2, Zenon DEF AddEnumEntry
    <2>3. ASSUME NEW name, RemoveEnumType(name) PROVE EditLeaves
      BY <1>1, <2>3, Zenon DEF RemoveEnumType
    <2>. QED  BY <1>8, <2>1, <2>2, <2>3, Zenon DEF EditEnums
  <1>9. CASE EditRules
    <2>1. ASSUME NEW id, AddRule(id) PROVE EditLeaves
      BY <1>1, <2>1, Zenon DEF AddRule
    <2>2. ASSUME NEW i, RemoveRule(i) PROVE EditLeaves
      BY <1>1, <2>2, Zenon DEF RemoveRule
    <2>3. ASSUME NEW i, NEW id, SetRuleTrigger(i, id) PROVE EditLeaves
      BY <1>1, <2>3, Zenon DEF SetRuleTrigger
    <2>4. ASSUME NEW i, NEW id, AddRuleAction(i, id) PROVE EditLeaves
      BY <1>1, <2>4, Zenon DEF AddRuleAction
    <2>5. ASSUME NEW i, NEW j, RemoveRuleAction(i, j) PROVE EditLeaves
      BY <1>1, <2>5, Zenon DEF RemoveRuleAction
    <2>6. ASSUME NEW i, NEW j, NEW mode, NEW delay, UpdateRuleAction(i, j, mode, delay) PROVE EditLeaves
      BY <1>1, <2>6, Zenon DEF UpdateRuleAction
    <2>. QED  BY ONLY <1>9, <2>1, <2>2, <2>3, <2>4, <2>5, <2>6, Zenon DEF EditRules
  <1>10. CASE EditSecurity
    <2>1. ASSUME NEW a, NEW n, NEW s, SetSecurityFlags(a, n, s) PROVE EditLeaves
      BY <1>1, <2>1, Zenon DEF SetSecurityFlags
    <2>2. ASSUME NEW all, SetAcceptAll(all) PROVE EditLeaves
      BY <1>1, <2>2, Zenon DEF SetAcceptAll
    <2>3. ASSUME NEW user, AddUser(user) PROVE EditLeaves
      BY <1>1, <2>3, Zenon DEF AddUser
    <2>4. ASSUME NEW user, RemoveUser(user) PROVE EditLeaves
      BY <1>1, <2>4, Zenon DEF RemoveUser
    <2>. QED  BY ONLY <1>10, <2>1, <2>2, <2>3, <2>4, Zenon DEF EditSecurity
  <1>. QED  BY <1>7, <1>8, <1>9, <1>10

LEMMA EditsKeepInv ==
  ASSUME EditorInv, EditNodes \/ EditEnums \/ EditRules \/ EditSecurity
  PROVE  EditorInv' /\ Kept
  <1>1. Kept
    BY EditNodesKeeps, EditEnumsKeeps, EditRulesKeeps, EditSecurityKeeps DEF EditorInv
  <1>2. EditLeaves
    BY EditsLeave
  <1>3. FilesOk'
    BY <1>2 DEF EditorInv, EditLeaves, FilesOk
  <1>4. ClonesOk'
    BY <1>2 DEF EditorInv, EditLeaves, ClonesOk
  <1>. QED  BY <1>1, <1>3, <1>4 DEF EditorInv, Kept

LEMMA FilesKeepInv == ASSUME EditorInv, Files PROVE EditorInv'
  <1>0. ProjectOk(project) /\ SelectionOk /\ FilesOk /\ ClonesOk /\ NoPath \notin Paths
    BY EditorAssumption DEF EditorInv
  <1>. DEFINE fresh == [NewProjectData EXCEPT !.namespaces = <<"project">>]
  <1>1. ProjectOk(fresh) /\ ProjectOk(NewProjectData)
    BY NewProjectIs
  <1>. HIDE DEF fresh
  <1>2. CASE NewProject
    <2>1. /\ project' = fresh /\ selected' = NoNode /\ path' = NoPath /\ dirty' = TRUE
          /\ UNCHANGED <<disk, cloneAnswers>>
      BY <1>2, Zenon DEF NewProject, Edit, fresh
    <2>. QED  BY <1>0, <1>1, <2>1 DEF EditorInv, SelectionOk, FilesOk, ClonesOk
  <1>3. CASE CloseProject
    <2>1. /\ project' = NewProjectData /\ selected' = NoNode /\ path' = NoPath /\ hasProject' = FALSE
          /\ UNCHANGED <<disk, cloneAnswers>>
      BY <1>3, Zenon DEF CloseProject, NoProject
    <2>. QED  BY <1>0, <1>1, <2>1 DEF EditorInv, SelectionOk, FilesOk, ClonesOk
  <1>4. ASSUME NEW f \in Paths, OpenProject(f) PROVE EditorInv'
    <2>1. /\ project' = FromJson(disk[f]) /\ selected' = NoNode /\ path' = f
          /\ UNCHANGED <<disk, cloneAnswers>> /\ Loads(disk[f])
      BY <1>4, Zenon DEF OpenProject
    <2>2. /\ disk[f].version = FormatVersion /\ ProjectOk(FromJson(disk[f]))
          /\ Trim(FromJson(disk[f])) = FromJson(disk[f])
      BY <1>0, <2>1, LoadsIsOk DEF FilesOk
    <2>3. FilesOk'
      BY <1>0, <2>1, <2>2 DEF FilesOk
    <2>. QED  BY <1>0, <2>1, <2>2, <2>3 DEF EditorInv, SelectionOk, ClonesOk
  <1>5. ASSUME NEW f \in Paths, SaveProjectAs(f) PROVE EditorInv'
    <2>1. /\ disk' = [disk EXCEPT ![f] = ToJson(project)] /\ path' = f
          /\ UNCHANGED <<project, selected, cloneAnswers>>
      BY <1>5, Zenon DEF SaveProjectAs
    <2>2. PICK file : file = ToJson(project)
      OBVIOUS
    <2>3. FileOk(file) /\ file.version = FormatVersion /\ FromJson(file) = Trim(project)
      BY <1>0, <2>2, FileWritten, FileIsOk
    <2>4. /\ disk' = [g \in Paths |-> disk'[g]] /\ disk'[f] = file
          /\ \A g \in Paths : g # f => disk'[g] = disk[g]
      BY <1>0, <2>1, <2>2 DEF FilesOk
    <2>5. FilesOk'
      BY <1>0, <2>1, <2>3, <2>4 DEF FilesOk
    <2>. QED  BY <1>0, <2>1, <2>5 DEF EditorInv, SelectionOk, ClonesOk
  <1>6. CASE SaveProject
    <2>1. path \in Paths /\ SaveProjectAs(path)
      BY <1>0, <1>6 DEF SaveProject, FilesOk
    <2>. QED  BY <1>5, <2>1
  <1>7. ASSUME NEW doc \in NodeSets, ImportNodeSet(doc) PROVE EditorInv'
    <2>. DEFINE base == IF hasProject THEN project ELSE fresh
    <2>1. /\ project' = WithImported(base, doc) /\ selected' = NoNode /\ dirty' = TRUE
          /\ path' = (IF hasProject THEN path ELSE NoPath)
          /\ UNCHANGED <<disk, cloneAnswers>>
      BY <1>7, Zenon DEF ImportNodeSet, Edit, fresh
    <2>2. ProjectOk(base)
      BY <1>0, <1>1
    <2>. HIDE DEF base
    <2>3. ProjectOk(project')
      BY <2>1, <2>2, DocumentsAreOk, ImportIsOk
    <2>. QED  BY <1>0, <2>1, <2>3 DEF EditorInv, SelectionOk, FilesOk, ClonesOk
  <1>. QED  BY <1>2, <1>3, <1>4, <1>5, <1>6, <1>7, Zenon DEF Files

LEMMA CloneApplied ==
  ASSUME EditorInv, ApplyCloneSnapshot
  PROVE  /\ EditorInv'
         /\ \/ UNCHANGED <<project, selected>>
            \/ References(project') /\ Rooted(project'.nodes) /\ selected' = NoNode
  <1>0. ProjectOk(project) /\ SelectionOk /\ FilesOk /\ ClonesOk
    BY DEF EditorInv
  <1>. DEFINE nodes == Head(cloneAnswers)
  <1>1. nodes = <<>> \/ nodes \in ServerNodes
    BY <1>0, SMT DEF ClonesOk, ApplyCloneSnapshot
  <1>2. cloneAnswers' = <<>> /\ disk' = disk
    BY Zenon DEF ApplyCloneSnapshot
  <1>3. CASE nodes = <<>>
    <2>1. UNCHANGED <<project, hasProject, path, dirty, selected>>
      BY <1>3, Zenon DEF ApplyCloneSnapshot
    <2>. QED  BY <1>0, <1>2, <2>1 DEF EditorInv, SelectionOk, FilesOk, ClonesOk
  <1>4. CASE nodes # <<>>
    <2>1. /\ project' = CloneToProject(nodes, cloning.preserve, UriOf)
          /\ path' = NoPath /\ selected' = NoNode /\ dirty' = TRUE
      BY <1>4, Zenon DEF ApplyCloneSnapshot
    <2>2. nodes \in ServerNodes
      BY <1>1, <1>4
    <2>. HIDE DEF nodes
    <2>3. IsList(nodes) /\ \A c \in ToSet(nodes) : IsId(c.id)
      BY <2>2, CloneAssumption, Zenon DEF IsList
    <2>4. ProjectOk(project') /\ References(project') /\ Rooted(project'.nodes)
      BY <2>1, <2>3, CloneIsOk
    <2>. QED  BY <1>0, <1>2, <2>1, <2>4 DEF EditorInv, SelectionOk, FilesOk, ClonesOk
  <1>. QED  BY <1>3, <1>4

-----------------------------------------------------------------------------
(* Every step keeps the editor's invariant, and no reference is left over.  *)

LEMMA EditorStarts == ASSUME EditorInit PROVE EditorInv
  <1>1. ProjectOk(project)
    BY NewProjectIs, Zenon DEF EditorInit, NoProject
  <1>2. FilesOk
    <2>1. disk = [f \in Paths |-> NoFile] /\ path = NoPath /\ hasProject = FALSE
      BY Zenon DEF EditorInit
    <2>. QED  BY <2>1 DEF FilesOk, FileOk
  <1>3. SelectionOk /\ ClonesOk
    BY Zenon DEF EditorInit, SelectionOk, ClonesOk
  <1>. QED  BY <1>1, <1>2, <1>3 DEF EditorInv

LEMMA UnchangedKeepsInv ==
  ASSUME EditorInv, UNCHANGED <<project, hasProject, path, dirty, selected, disk>>,
         ClonesOk'
  PROVE  EditorInv'
  <1>1. ProjectOk(project') /\ SelectionOk'
    BY DEF EditorInv, SelectionOk
  <1>2. FilesOk'
    BY DEF EditorInv, FilesOk
  <1>. QED  BY <1>1, <1>2 DEF EditorInv

(* The steps that leave the project as it is.                                  *)
LEMMA OthersKeepInv ==
  ASSUME EditorInv, \/ StartServer \/ CloneEnds \/ UNCHANGED editorVars
                    \/ \E preserve \in BOOLEAN : CloneFromClient(preserve)
  PROVE  EditorInv' /\ UNCHANGED <<project, selected>>
  <1>0. ClonesOk
    BY DEF EditorInv
  <1>1. CASE StartServer
    <2>1. UNCHANGED <<project, hasProject, path, dirty, selected, disk, cloneAnswers>>
      BY <1>1, Zenon DEF StartServer
    <2>. QED  BY <1>0, <2>1, UnchangedKeepsInv DEF ClonesOk
  <1>2. CASE CloneEnds
    <2>1. UNCHANGED <<project, hasProject, path, dirty, selected, disk>>
      BY <1>2, Zenon DEF CloneEnds
    <2>2. \E nodes \in ServerNodes \cup {<<>>} : cloneAnswers' = <<nodes>>
      BY <1>2, Zenon DEF CloneEnds
    <2>3. ClonesOk'
      BY <2>2 DEF ClonesOk
    <2>. QED  BY <2>1, <2>3, UnchangedKeepsInv
  <1>3. ASSUME NEW preserve, CloneFromClient(preserve) PROVE EditorInv' /\ UNCHANGED <<project, selected>>
    <2>1. UNCHANGED <<project, hasProject, path, dirty, selected, disk, cloneAnswers>>
      BY <1>3, Zenon DEF CloneFromClient
    <2>. QED  BY <1>0, <2>1, UnchangedKeepsInv DEF ClonesOk
  <1>4. CASE UNCHANGED editorVars
    <2>1. UNCHANGED <<project, hasProject, path, dirty, selected, disk, cloneAnswers>>
      BY <1>4, Zenon DEF editorVars
    <2>. QED  BY <1>0, <2>1, UnchangedKeepsInv DEF ClonesOk
  <1>. QED  BY <1>1, <1>2, <1>3, <1>4

LEMMA EditorSteps ==
  ASSUME [EditorNext]_editorVars
  PROVE  \/ EditNodes \/ EditEnums \/ EditRules \/ EditSecurity
         \/ Files
         \/ \/ StartServer \/ CloneEnds \/ UNCHANGED editorVars
            \/ \E preserve \in BOOLEAN : CloneFromClient(preserve)
         \/ ApplyCloneSnapshot
  BY Zenon DEF EditorNext

LEMMA EditorStepKeepsInv == ASSUME EditorInv, [EditorNext]_editorVars PROVE EditorInv'
  BY EditorSteps, EditsKeepInv, FilesKeepInv, OthersKeepInv, CloneApplied

LEMMA EditorInvariant == EditorSpec => []EditorInv
  <1>1. EditorInit => EditorInv
    BY EditorStarts
  <1>2. EditorInv /\ [EditorNext]_editorVars => EditorInv'
    BY EditorStepKeepsInv
  <1>. QED  BY <1>1, <1>2, PTL DEF EditorSpec

(* The nodes of the program's projects are no top level.                      *)
LEMMA NoNodeIsNone == ASSUME NEW p, ProjectOk(p) PROVE NoNode \notin Ids(p.nodes)
  <1>1. \A n \in ToSet(p.nodes) : IsId(n.id)
    BY ProjectIs DEF NodeOk
  <1>2. Ids(p.nodes) = {n.id : n \in ToSet(p.nodes)}
    BY ProjectIs, IdsOf
  <1>. QED  BY <1>1, <1>2, IdIsId

LEMMA ReferencesShow ==
  ASSUME NEW p, ProjectOk(p), References(p)
  PROVE  ShowsAll(p) <=> Rooted(p.nodes)
  <1>1. \A n \in ToSet(p.nodes) : n.parent \in Ids(p.nodes) \cup {NoNode}
    BY DEF References
  <1>. QED  BY <1>1, NoNodeIsNone, ProjectIs, AllShown

(* No edit leaves a reference behind that names something removed, or a node that    *)
(* the tree no longer shows.                                                   *)
THEOREM NoReferenceIsLeft == EditorSpec => EditsKeepReferences
  <1>1. ASSUME EditorInv, [EditorNext]_editorVars PROVE KeepsReferences \/ UNCHANGED editorVars
    <2>0. EditorInv'
      BY <1>1, EditorStepKeepsInv
    <2>1. SUFFICES ASSUME References(project), UniqueEnumNames(project), Rooted(project.nodes),
                          ~Files
                   PROVE  References(project') /\ Rooted(project'.nodes)
      <3>1. ProjectOk(project') /\ selected' \in Ids(project'.nodes) \cup {NoNode}
        BY <2>0 DEF EditorInv, SelectionOk
      <3>2. ProjectOk(project)
        BY <1>1 DEF EditorInv
      <3>. QED  BY <3>1, <3>2, ReferencesShow DEF KeepsReferences
    <2>2. CASE EditNodes \/ EditEnums \/ EditRules \/ EditSecurity
      BY <1>1, <2>1, <2>2, EditsKeepInv DEF Kept
    <2>3. CASE \/ StartServer \/ CloneEnds \/ UNCHANGED editorVars
               \/ \E preserve \in BOOLEAN : CloneFromClient(preserve)
      <3>1. project' = project
        BY <1>1, <2>3, OthersKeepInv
      <3>. QED  BY <2>1, <3>1
    <2>4. CASE ApplyCloneSnapshot
      <3>1. project' = project \/ (References(project') /\ Rooted(project'.nodes))
        BY <1>1, <2>4, CloneApplied
      <3>. QED  BY <2>1, <3>1
    <2>. QED  BY <1>1, <2>1, <2>2, <2>3, <2>4, EditorSteps
  <1>2. EditorInv /\ [EditorNext]_editorVars => [KeepsReferences]_editorVars
    BY <1>1
  <1>. QED  BY <1>2, EditorInvariant, PTL DEF EditorSpec, EditsKeepReferences

-----------------------------------------------------------------------------
(* What is served of a project and of the file it was saved to.                  *)

LEMMA SameNamespaces ==
  ASSUME NEW p, NEW q, q.namespaces = p.namespaces, NEW id
  PROVE  RuntimeId(q, id) = RuntimeId(p, id)
  <1>. DEFINE F(s, ns) == IF ns \in DOMAIN s
                          THEN CHOOSE k \in 1 .. ns : /\ s[k] = s[ns]
                                                      /\ \A j \in 1 .. k - 1 : s[j] # s[ns]
                          ELSE 0
  <1>1. /\ RuntimeNs(q, IdNs(id)) = F(q.namespaces, IdNs(id))
        /\ RuntimeNs(p, IdNs(id)) = F(p.namespaces, IdNs(id))
    BY Zenon DEF RuntimeNs
  <1>. HIDE DEF F
  <1>2. RuntimeNs(q, IdNs(id)) = RuntimeNs(p, IdNs(id))
    BY ONLY <1>1, q.namespaces = p.namespaces, Zenon
  <1>. QED  BY ONLY <1>2, Zenon DEF RuntimeId

LEMMA SameSpace ==
  ASSUME NEW p, NEW q, q.namespaces = p.namespaces, q.enums = p.enums, q.nodes = p.nodes
  PROVE  /\ Clashes(q) <=> Clashes(p)
         /\ Created(q) = Created(p) /\ VariableIds(q) = VariableIds(p)
         /\ Simulated(q) = Simulated(p)
         /\ \A n : ServedNode(q, n) = ServedNode(p, n)
  <1>1. \A id : RuntimeId(q, id) = RuntimeId(p, id)
    BY SameNamespaces
  <1>2. Clashes(q) <=> Clashes(p)
    <2>. DEFINE made == p.enums \o p.nodes
                Ids0(x) == [i \in DOMAIN made |-> RuntimeId(x, made[i].id)]
                Clash(s) == \E i \in DOMAIN made : s[i] \in BaseIds \/ \E j \in 1 .. i - 1 : s[j] = s[i]
    <2>1. Ids0(q) = Ids0(p)
      BY <1>1
    <2>2. (Clashes(q) <=> Clash(Ids0(q))) /\ (Clashes(p) <=> Clash(Ids0(p)))
      BY ONLY q.enums = p.enums, q.nodes = p.nodes, Zenon DEF Clashes
    <2>. HIDE DEF Clash, Ids0
    <2>. QED  BY <2>1, <2>2
  <1>3. Created(q) = Created(p) /\ VariableIds(q) = VariableIds(p) /\ Simulated(q) = Simulated(p)
    BY DEF Created, VariableIds, Simulated
  <1>4. ASSUME NEW n PROVE ServedNode(q, n) = ServedNode(p, n)
    BY <1>1, Zenon DEF ServedNode
  <1>. QED  BY <1>2, <1>3, <1>4

LEMMA TrimIsServed ==
  ASSUME NEW p, ProjectOk(p)
  PROVE  Served(Trim(p)) = Served(p) /\ (Builds(Trim(p)) <=> Builds(p))
  <1>. DEFINE q == Trim(p)
  <1>1. /\ q.namespaces = p.namespaces /\ q.enums = p.enums /\ q.nodes = p.nodes
        /\ q.rules = TrimmedRules(p) /\ q.security = p.security /\ q.port = p.port
    BY ProjectTrimmed
  <1>. HIDE DEF q
  <1>2. /\ Clashes(q) <=> Clashes(p)
        /\ Created(q) = Created(p) /\ VariableIds(q) = VariableIds(p)
        /\ Simulated(q) = Simulated(p)
        /\ \A n : ServedNode(q, n) = ServedNode(p, n)
    BY ONLY <1>1, SameSpace
  <1>3. Builds(q) <=> Builds(p)
    BY <1>1, <1>2 DEF Builds
  <1>4. ASSUME NEW i \in DOMAIN p.rules
        PROVE  /\ DOMAIN q.rules[i].actions = DOMAIN p.rules[i].actions
               /\ q.rules[i].trigger = p.rules[i].trigger
               /\ \A j \in DOMAIN p.rules[i].actions :
                    /\ q.rules[i].actions[j] = TrimAction(p.rules[i].actions[j])
                    /\ ActionOk(p.rules[i].actions[j])
    <2>1. RuleOk(p.rules[i])
      BY ProjectIs, RuleLists
    <2>2. q.rules[i] = TrimRule(p.rules[i])
      BY <1>1 DEF TrimmedRules
    <2>3. \A j \in DOMAIN p.rules[i].actions : ActionOk(p.rules[i].actions[j])
      BY <2>1, ListFacts DEF RuleOk
    <2>4. PICK r : r = p.rules[i]
      OBVIOUS
    <2>5. /\ TrimRule(r).trigger = r.trigger /\ DOMAIN TrimRule(r).actions = DOMAIN r.actions
          /\ TrimRule(r).actions = [j \in DOMAIN r.actions |-> TrimAction(r.actions[j])]
      <3>1. RuleOk(r)
        BY <2>1, <2>4
      <3>. QED  BY ONLY <3>1, RuleTrimmed, Zenon
    <2>. QED  BY <2>2, <2>3, <2>4, <2>5
  <1>5. DOMAIN q.rules = DOMAIN p.rules
    BY <1>1 DEF TrimmedRules
  <1>6. ActionsAt(q) = ActionsAt(p)
    <2>1. \A i \in DOMAIN p.rules : {i} \X DOMAIN q.rules[i].actions = {i} \X DOMAIN p.rules[i].actions
      BY <1>4
    <2>2. {{i} \X DOMAIN q.rules[i].actions : i \in DOMAIN q.rules}
            = {{i} \X DOMAIN p.rules[i].actions : i \in DOMAIN p.rules}
      BY <1>5, <2>1
    <2>. QED  BY <2>2, Zenon DEF ActionsAt
  <1>7. ASSUME NEW at \in ActionsAt(p)
        PROVE  /\ at[1] \in DOMAIN p.rules /\ at[2] \in DOMAIN p.rules[at[1]].actions
    BY DEF ActionsAt
  <1>. DEFINE TypeOf(id) == (CHOOSE n \in ToSet(p.nodes) : n.id = id).type
              Action(x, at) == x.rules[at[1]].actions[at[2]]
              D(x) == {at \in ActionsAt(p) : {x.rules[at[1]].trigger, Action(x, at).target} \subseteq VariableIds(p)}
              C(x, at) == [trigger |-> x.rules[at[1]].trigger, target |-> Action(x, at).target,
                           type |-> TypeOf(Action(x, at).target), mode |-> Action(x, at).mode,
                           literal |-> IF Action(x, at).mode = "Literal" THEN <<Action(x, at).literal>> ELSE <<>>,
                           delay |-> Action(x, at).delay]
  <1>8. ASSUME NEW at \in ActionsAt(p)
        PROVE  /\ q.rules[at[1]].trigger = p.rules[at[1]].trigger
               /\ Action(q, at).target = Action(p, at).target /\ Action(q, at).mode = Action(p, at).mode
               /\ Action(q, at).delay = Action(p, at).delay
               /\ Action(p, at).mode = "Literal" => Action(q, at).literal = Action(p, at).literal
    BY <1>4, <1>7, TrimmedFields
  <1>9. Compile(q) = Compile(p)
    <2>1. Compile(q) = [at \in D(q) |-> C(q, at)] /\ Compile(p) = [at \in D(p) |-> C(p, at)]
      BY ONLY <1>1, <1>2, <1>6, Zenon DEF Compile
    <2>2. D(q) = D(p)
      BY <1>8
    <2>3. \A at \in D(p) : C(q, at) = C(p, at)
      <3>. HIDE DEF TypeOf, Action
      <3>. QED  BY <1>8
    <2>. HIDE DEF C, D
    <2>. QED  BY <2>1, <2>2, <2>3
  <1>10. {ServedNode(q, n) : n \in ToSet(q.nodes)} = {ServedNode(p, n) : n \in ToSet(p.nodes)}
    BY <1>1, <1>2
  <1>11. Served(q) = Served(p)
    <2>1. Builds(q) = Builds(p)
      BY <1>3, SMT DEF Builds
    <2>. QED  BY ONLY <1>1, <1>2, <1>9, <1>10, <2>1, Zenon DEF Served
  <1>. QED  BY <1>3, <1>11 DEF q

-----------------------------------------------------------------------------
(* What the validator accepts is served as designed.                        *)

(* validate() of a project and of the file it was saved to.                       *)
LEMMA TrimIsValid ==
  ASSUME NEW p, ProjectOk(p)
  PROVE  Validate(Trim(p)) <=> Validate(p)
  <1>. DEFINE q == Trim(p)
  <1>1. /\ q.namespaces = p.namespaces /\ q.enums = p.enums /\ q.nodes = p.nodes
        /\ q.rules = TrimmedRules(p) /\ q.security = p.security /\ q.port = p.port
    BY ProjectTrimmed
  <1>. HIDE DEF q
  <1>2. /\ EnumsValid(q) <=> EnumsValid(p)
        /\ ParentsValid(q) <=> ParentsValid(p)
        /\ SecurityValid(q) <=> SecurityValid(p)
    BY <1>1 DEF EnumsValid, ParentsValid, SecurityValid
  <1>3. NodesValid(q) <=> NodesValid(p)
    <2>1. \A n : VariableValid(q, n) <=> VariableValid(p, n)
      BY <1>1, Zenon DEF VariableValid
    <2>. QED  BY <1>1, <2>1 DEF NodesValid
  <1>4. VariableIds(q) = VariableIds(p)
    BY <1>1 DEF VariableIds
  <1>5. IsList(p.rules) /\ \A i \in DOMAIN p.rules : RuleOk(p.rules[i])
    BY ProjectIs, RuleLists
  <1>. DEFINE Good(r) == /\ r.trigger \in VariableIds(p)
                         /\ r.actions # <<>>
                         /\ \A a \in ToSet(r.actions) : a.target \in VariableIds(p) /\ a.delay >= 0
  <1>6. ASSUME NEW r, RuleOk(r) PROVE Good(TrimRule(r)) <=> Good(r)
    <2>1. /\ TrimRule(r).trigger = r.trigger
          /\ TrimRule(r).actions = [j \in DOMAIN r.actions |-> TrimAction(r.actions[j])]
      BY ONLY <1>6, RuleTrimmed, Zenon
    <2>. DEFINE t == [j \in DOMAIN r.actions |-> TrimAction(r.actions[j])]
    <2>2. IsList(r.actions) /\ t = [j \in DOMAIN r.actions |-> t[j]]
          /\ \A j \in DOMAIN r.actions : t[j] = TrimAction(r.actions[j])
      BY <1>6 DEF RuleOk
    <2>. HIDE DEF t
    <2>3. IsList(t) /\ Len(t) = Len(r.actions) /\ ToSet(t) = {t[j] : j \in DOMAIN r.actions}
      <3>1. PICK s : s = r.actions
        OBVIOUS
      <3>2. IsList(s) /\ t = [j \in DOMAIN s |-> t[j]]
        BY ONLY <2>2, <3>1, Zenon
      <3>. QED  BY ONLY <3>1, <3>2, MappedList
    <2>4. t = <<>> <=> r.actions = <<>>
      BY <2>2, <2>3, ListFacts
    <2>5. \A j \in DOMAIN r.actions : r.actions[j] \in ToSet(r.actions) /\ ActionOk(r.actions[j])
      BY <2>2, ListFacts, <1>6 DEF RuleOk
    <2>6. \A j \in DOMAIN r.actions : t[j].target = r.actions[j].target /\ t[j].delay = r.actions[j].delay
      BY <2>2, <2>5, TrimmedFields
    <2>7. ToSet(r.actions) = {r.actions[j] : j \in DOMAIN r.actions}
      BY DEF ToSet
    <2>8. (\A a \in ToSet(t) : a.target \in VariableIds(p) /\ a.delay >= 0)
            <=> \A a \in ToSet(r.actions) : a.target \in VariableIds(p) /\ a.delay >= 0
      BY <2>3, <2>6, <2>7
    <2>. QED  BY <2>1, <2>4, <2>8 DEF t
  <1>. HIDE DEF Good
  <1>7. RulesValid(q) <=> RulesValid(p)
    <2>1. /\ RulesValid(p) <=> \A r \in ToSet(p.rules) : Good(r)
          /\ RulesValid(q) <=> \A r \in ToSet(q.rules) : Good(r)
      BY <1>4, Zenon DEF RulesValid, Good
    <2>2. /\ ToSet(p.rules) = {p.rules[i] : i \in DOMAIN p.rules}
          /\ ToSet(q.rules) = {TrimRule(p.rules[i]) : i \in DOMAIN p.rules}
      BY <1>1 DEF ToSet, TrimmedRules
    <2>. QED  BY <2>1, <2>2, <1>5, <1>6
  <1>. QED  BY <1>2, <1>3, <1>7, Zenon DEF Validate, q

LEMMA ValidReferences ==
  ASSUME NEW p, ProjectOk(p), Validate(p)
  PROVE  \A n \in ToSet(p.nodes) : n.parent \in Ids(p.nodes) \cup {NoNode}
  BY DEF Validate, ParentsValid

(* What the validator accepts fails to build by a clash of ids or a circle only.    *)
LEMMA ValidBuilds ==
  ASSUME NEW p, ProjectOk(p), Validate(p)
  PROVE  Builds(p) <=> ~(Clashes(p) \/ Circular(p))
  <1>1. Created(p) = Ids(p.nodes) <=> ~Circular(p)
    BY NoNodeIsNone, ValidReferences, ProjectIs, AllCreated
  <1>2. \A n \in ToSet(p.nodes) : Variable(n) /\ n.enum = NoNode => n.type \in Builtin
    BY DEF Validate, NodesValid, VariableValid
  <1>. QED  BY <1>1, <1>2 DEF Builds

(* Every rule of a valid project is installed, with all its actions.             *)
LEMMA ValidIsInstalled ==
  ASSUME NEW p, ProjectOk(p), Validate(p)
  PROVE  Installed(p)
  <1>1. ASSUME NEW i \in DOMAIN p.rules
        PROVE  /\ p.rules[i].trigger \in VariableIds(p)
               /\ IsList(p.rules[i].actions) /\ p.rules[i].actions # <<>>
               /\ \A j \in DOMAIN p.rules[i].actions : p.rules[i].actions[j].target \in VariableIds(p)
    <2>1. RuleOk(p.rules[i]) /\ p.rules[i] \in ToSet(p.rules)
      BY ProjectIs, RuleLists
    <2>2. \A j \in DOMAIN p.rules[i].actions : p.rules[i].actions[j] \in ToSet(p.rules[i].actions)
      BY DEF ToSet
    <2>. QED  BY <2>1, <2>2 DEF RuleOk, Validate, RulesValid
  <1>2. ASSUME NEW at \in ActionsAt(p)
        PROVE  /\ at[1] \in DOMAIN p.rules /\ at[2] \in DOMAIN p.rules[at[1]].actions
    BY DEF ActionsAt
  <1>3. DOMAIN Compile(p) = ActionsAt(p)
    <2>1. DOMAIN Compile(p)
            = {at \in ActionsAt(p) : {p.rules[at[1]].trigger, p.rules[at[1]].actions[at[2]].target}
                                       \subseteq VariableIds(p)}
      BY Zenon DEF Compile
    <2>2. ASSUME NEW at \in ActionsAt(p)
          PROVE  {p.rules[at[1]].trigger, p.rules[at[1]].actions[at[2]].target} \subseteq VariableIds(p)
      <3>. DEFINE i == at[1]
                  j == at[2]
      <3>1. i \in DOMAIN p.rules /\ j \in DOMAIN p.rules[i].actions
        BY <1>2
      <3>. HIDE DEF i, j
      <3>2. p.rules[i].trigger \in VariableIds(p) /\ p.rules[i].actions[j].target \in VariableIds(p)
        BY <1>1, <3>1, Zenon
      <3>. QED  BY <3>2 DEF i, j
    <2>. QED  BY ONLY <2>1, <2>2
  <1>4. ASSUME NEW i \in DOMAIN p.rules PROVE \E at \in ActionsAt(p) : at[1] = i
    <2>1. 1 \in DOMAIN p.rules[i].actions
      BY <1>1, ListFacts
    <2>2. <<i, 1>> \in {i} \X DOMAIN p.rules[i].actions
      BY <2>1
    <2>3. <<i, 1>> \in ActionsAt(p)
      BY <2>2 DEF ActionsAt
    <2>. QED  BY <2>3
  <1>5. /\ "None" \in Endpoints(p.security) <=> p.security.none
        /\ "Secure" \in Endpoints(p.security) <=> p.security.secure
    <2>1. p.security.none \/ p.security.secure
      BY DEF Validate, SecurityValid
    <2>. QED  BY <2>1 DEF Endpoints
  <1>. QED  BY <1>3, <1>4, <1>5, Zenon DEF Installed

(* What startServer() writes, or finds written.                                 *)
LEMMA SnapshotIs ==
  ASSUME EditorInv, hasProject
  PROVE  Loads(Snapshot) /\ FromJson(Snapshot) = Trim(project)
  <1>1. CASE path # NoPath /\ ~dirty
    <2>1. Snapshot = disk[path]
      BY <1>1 DEF Snapshot
    <2>2. disk[path].version = FormatVersion /\ FromJson(disk[path]) = Trim(project)
      BY <1>1 DEF EditorInv, FilesOk
    <2>. QED  BY <2>1, <2>2 DEF Loads, FormatVersion
  <1>2. CASE ~(path # NoPath /\ ~dirty)
    <2>1. Snapshot = ToJson(project)
      BY <1>2 DEF Snapshot
    <2>. QED  BY <2>1, FileWritten, FileIsOk DEF EditorInv
  <1>. QED  BY <1>1, <1>2

LEMMA StartIsAsAccepted ==
  ASSUME EditorInv, StartServer
  PROVE  AcceptedServes'
  <1>1. hasProject /\ project' = project
        /\ outcome' = IF Validate(project) THEN RuntimeOutcome(Snapshot) ELSE "refused"
    BY Zenon DEF StartServer
  <1>2. ProjectOk(project)
    BY DEF EditorInv
  <1>3. CASE ~Validate(project)
    <2>1. outcome' = "refused"
      BY <1>1, <1>3
    <2>. QED  BY <2>1 DEF AcceptedServes, Outcomes
  <1>4. CASE Validate(project)
    <2>1. Validate(FromJson(Snapshot)) /\ Loads(Snapshot)
      BY <1>1, <1>2, <1>4, SnapshotIs, TrimIsValid
    <2>2. Builds(FromJson(Snapshot)) <=> Builds(project)
      BY <1>1, <1>2, SnapshotIs, TrimIsServed
    <2>3. outcome' = IF Builds(project) THEN "serving" ELSE "exit 8"
      BY <1>1, <1>4, <2>1, <2>2 DEF RuntimeOutcome
    <2>4. Builds(project) <=> ~(Clashes(project) \/ Circular(project))
      BY <1>2, <1>4, ValidBuilds
    <2>5. Installed(project)
      BY <1>2, <1>4, ValidIsInstalled
    <2>6. (Clashes(project') <=> Clashes(project)) /\ (Circular(project') <=> Circular(project))
      BY <1>1
    <2>7. Installed(project')
      BY <1>1, <2>5
    <2>8. CASE Builds(project)
      BY <2>3, <2>4, <2>6, <2>7, <2>8 DEF AcceptedServes, Outcomes
    <2>9. CASE ~Builds(project)
      BY <2>3, <2>4, <2>6, <2>9 DEF AcceptedServes, Outcomes
    <2>. QED  BY <2>8, <2>9
  <1>. QED  BY <1>3, <1>4

(* A project that changes has not been started yet.                              *)
LEMMA ChangedIsNotStarted ==
  ASSUME [EditorNext]_editorVars
  PROVE  StartServer \/ outcome' = "none" \/ UNCHANGED <<project, outcome>>
  <1>1. CASE EditNodes \/ EditEnums \/ EditRules \/ EditSecurity
    BY <1>1, EditsLeave, Zenon DEF EditLeaves
  <1>2. CASE Files
    <2>1. ASSUME NEW f, SaveProjectAs(f) PROVE UNCHANGED <<project, outcome>>
      BY <2>1, Zenon DEF SaveProjectAs
    <2>2. SaveProject => UNCHANGED <<project, outcome>>
      BY <2>1, Zenon DEF SaveProject
    <2>3. NewProject \/ CloseProject => outcome' = "none"
      BY Zenon DEF NewProject, CloseProject, Edit
    <2>4. ASSUME NEW f, OpenProject(f) PROVE outcome' = "none"
      BY <2>4, Zenon DEF OpenProject
    <2>5. ASSUME NEW doc, ImportNodeSet(doc) PROVE outcome' = "none"
      BY <2>5, Zenon DEF ImportNodeSet, Edit
    <2>. QED  BY ONLY <1>2, <2>1, <2>2, <2>3, <2>4, <2>5, Zenon DEF Files
  <1>3. CASE ApplyCloneSnapshot
    BY <1>3, Zenon DEF ApplyCloneSnapshot
  <1>4. CASE CloneEnds \/ UNCHANGED editorVars
    BY <1>4, Zenon DEF CloneEnds, editorVars
  <1>5. ASSUME NEW preserve, CloneFromClient(preserve) PROVE UNCHANGED <<project, outcome>>
    BY <1>5, Zenon DEF CloneFromClient
  <1>. QED  BY ONLY [EditorNext]_editorVars, <1>1, <1>2, <1>3, <1>4, <1>5, EditorSteps, Zenon

(* What the validator accepts is served as it was designed, but for clashing ids and  *)
(* circles of parents.                                                        *)
THEOREM AcceptedAlwaysServes == EditorSpec => []AcceptedServes
  <1>1. EditorInit => AcceptedServes
    <2>1. EditorInit => outcome = "none"
      BY Zenon DEF EditorInit
    <2>. QED  BY <2>1 DEF AcceptedServes, Outcomes
  <1>2. ASSUME EditorInv, AcceptedServes, [EditorNext]_editorVars PROVE AcceptedServes'
    <2>1. CASE StartServer
      BY <1>2, <2>1, StartIsAsAccepted
    <2>2. CASE outcome' = "none"
      BY <2>2 DEF AcceptedServes, Outcomes
    <2>3. CASE UNCHANGED <<project, outcome>>
      BY <1>2, <2>3, Zenon DEF AcceptedServes
    <2>. QED  BY <1>2, <2>1, <2>2, <2>3, ChangedIsNotStarted
  <1>. QED  BY <1>1, <1>2, EditorInvariant, PTL DEF EditorSpec

-----------------------------------------------------------------------------
(* What was saved is what is served, exported and opened again.             *)

LEMMA CommonName ==
  ASSUME NEW id, NEW name, NEW owner, NEW n, n = CommonNode(id, name, owner)
  PROVE  n.name = name
  <1>. DEFINE a == WithId(NewNode, id)
              b == WithName(a, name)
  <1>1. a = WithId(NewNode, id) /\ b = WithName(a, name) /\ n = WithParent(b, owner)
    BY DEF CommonNode
  <1>. HIDE DEF a, b
  <1>2. IsNode(a)
    BY ONLY <1>1, NewNodeFields, SetId
  <1>3. IsNode(b) /\ b.name = name
    BY ONLY <1>1, <1>2, SetName
  <1>4. n.name = b.name
    BY ONLY <1>1, <1>3, SetParent
  <1>. QED  BY <1>3, <1>4

(* A node that went through a NodeSet2 document, but for what a document leaves out. *)
LEMMA NodeExported ==
  ASSUME NEW n, NodeOk(n), n.parent = NoNode \/ IsId(n.parent),
         Variable(n) => /\ n.enum = NoNode \/ IsId(n.enum)
                        /\ n.enum = NoNode => n.type \in Builtin
                        /\ n.rank \in {-1, 1},
         NEW m, m = ImportNode(ExportNode(n))
  PROVE  /\ m.id = n.id /\ m.parent = n.parent /\ m.kind = n.kind /\ m.name = n.name
         /\ Variable(n) => /\ m.enum = n.enum /\ m.rank = n.rank
                           /\ n.enum = NoNode => m.type = n.type
  <1>. DEFINE e == ExportNode(n)
              pa == IF e.parent = Objects THEN NoNode ELSE e.parent
              c == CommonNode(e.id, e.name, pa)
              k == IF e.definition = "FolderType" \/ e.ref = "Organizes" THEN "Folder" ELSE "Object"
              ra == IF e.rank = 1 THEN 1 ELSE -1
              en == IF Custom(e.type) THEN e.type ELSE NoNode
              ty == ImportType(e.type)
  <1>1. m = IF e.element = "UAObject" THEN WithKind(c, k)
            ELSE WithType(WithEnum(WithRank(WithKind(c, "Variable"), ra), en), ty)
    BY Zenon DEF ImportNode, CommonNode, WithId, WithName, WithParent, WithKind, WithRank, WithType, WithEnum
  <1>2. /\ e.id = n.id /\ e.name = n.name
        /\ e.element = (IF Variable(n) THEN "UAVariable" ELSE "UAObject")
        /\ e.parent = (IF n.parent = NoNode THEN Objects ELSE n.parent)
        /\ ~Variable(n) => k = n.kind
    BY DEF ExportNode, NodeOk, NodeKinds, Variable
  <1>3. pa = n.parent
    <2>1. Len(Objects) = 2
      BY DEF Objects
    <2>2. IsId(n.parent) => n.parent # Objects
      BY <2>1, IdIsId
    <2>. QED  BY <1>2, <2>2
  <1>4. ASSUME Variable(n) PROVE ra = n.rank /\ en = n.enum /\ (n.enum = NoNode => ty = n.type)
    <2>1. e.rank = (IF n.rank = 1 THEN 1 ELSE 0)
      BY <1>4 DEF ExportNode
    <2>2. e.type = IF n.enum # NoNode THEN n.enum ELSE BaseType(n.type)
      BY <1>4 DEF ExportNode
    <2>3. Len(BaseType(n.type)) = 2 /\ BaseType(n.type)[2] = n.type
      BY DEF BaseType
    <2>4. ra = n.rank
      BY <1>4, <2>1
    <2>5. n.enum # NoNode => Len(n.enum) = 3
      BY <1>4, IdIsId
    <2>6. en = n.enum
      BY <2>2, <2>3, <2>5 DEF Custom
    <2>7. n.enum = NoNode => ty = n.type
      BY <1>4, <2>2, <2>3 DEF ImportType
    <2>. QED  BY <2>4, <2>6, <2>7
  <1>5. c = CommonNode(n.id, n.name, n.parent)
    BY ONLY <1>2, <1>3, Zenon
  <1>. HIDE DEF c, k, ra, en, ty, pa, e
  <1>6. IsCommon(c, n.id, n.parent)
    BY ONLY <1>5, CommonNodeIs
  <1>7. IsNode(c) /\ c.id = n.id /\ c.parent = n.parent
    BY ONLY <1>6, Zenon DEF IsCommon
  <1>8. c.name = n.name
    BY ONLY <1>5, CommonName
  <1>9. CASE ~Variable(n)
    <2>1. m = WithKind(c, k) /\ k = n.kind
      BY ONLY <1>1, <1>2, <1>9
    <2>2. m.id = c.id /\ m.parent = c.parent /\ m.kind = k /\ m.name = c.name
      BY ONLY <1>7, <2>1, SetKind
    <2>. QED  BY ONLY <1>7, <1>8, <1>9, <2>1, <2>2, Zenon
  <1>10. CASE Variable(n)
    <2>. DEFINE a == WithKind(c, "Variable")
                b == WithRank(a, ra)
                d == WithEnum(b, en)
    <2>1. /\ a = WithKind(c, n.kind) /\ b = WithRank(a, ra) /\ d = WithEnum(b, en) /\ m = WithType(d, ty)
      <3>1. n.kind = "Variable"
        BY <1>10 DEF Variable
      <3>2. m = WithType(d, ty)
        BY ONLY <1>1, <1>2, <1>10
      <3>. QED  BY ONLY <3>1, <3>2, Zenon
    <2>. HIDE DEF a, b, d
    <2>2. IsNode(a) /\ a.id = c.id /\ a.parent = c.parent /\ a.name = c.name /\ a.kind = n.kind
      BY ONLY <1>7, <2>1, SetKind
    <2>3. /\ IsNode(b) /\ b.id = a.id /\ b.parent = a.parent /\ b.name = a.name /\ b.kind = a.kind
          /\ b.rank = ra
      BY ONLY <2>1, <2>2, SetRank
    <2>4. IsNode(d) /\ d.id = b.id /\ d.parent = b.parent /\ d.name = b.name /\ d.kind = b.kind
          /\ d.rank = b.rank /\ d.enum = en
      BY ONLY <2>1, <2>3, SetEnum
    <2>5. m.id = d.id /\ m.parent = d.parent /\ m.name = d.name /\ m.kind = d.kind
          /\ m.rank = d.rank /\ m.enum = d.enum /\ m.type = ty
      BY ONLY <2>1, <2>4, SetType
    <2>. QED  BY ONLY <1>4, <1>7, <1>8, <1>10, <2>2, <2>3, <2>4, <2>5, Zenon
  <1>. QED  BY <1>9, <1>10

LEMMA SameServed ==
  ASSUME NEW p, NEW q, q.namespaces = p.namespaces, NEW n, NEW m,
         m.id = n.id, m.parent = n.parent, m.kind = n.kind, m.name = n.name,
         Variable(n) => /\ m.enum = n.enum /\ m.rank = n.rank
                        /\ n.enum = NoNode => m.type = n.type
  PROVE  [ServedNode(q, m) EXCEPT !.writable = FALSE] = [ServedNode(p, n) EXCEPT !.writable = FALSE]
  <1>. DEFINE Type(x) == IF Variable(x) THEN WireType(x) ELSE ""
              Rank(x) == IF Variable(x) /\ x.enum = NoNode THEN x.rank ELSE -1
              Of(id, owner, kind, name, type, rank, writable) ==
                [id |-> id, parent |-> owner, kind |-> kind, name |-> name, type |-> type,
                 rank |-> rank, writable |-> writable]
  <1>1. RuntimeId(q, m.id) = RuntimeId(p, n.id)
    BY SameNamespaces
  <1>2. Type(m) = Type(n) /\ Rank(m) = Rank(n)
    BY DEF Variable, WireType
  <1>3. /\ ServedNode(q, m) = Of(RuntimeId(q, m.id), m.parent, m.kind, m.name, Type(m), Rank(m), Variable(m) /\ m.writable)
        /\ ServedNode(p, n) = Of(RuntimeId(p, n.id), n.parent, n.kind, n.name, Type(n), Rank(n), Variable(n) /\ n.writable)
    BY Zenon DEF ServedNode
  <1>. HIDE DEF Of, Type, Rank
  <1>4. PICK w, v : /\ ServedNode(q, m) = Of(RuntimeId(p, n.id), n.parent, n.kind, n.name, Type(n), Rank(n), w)
                    /\ ServedNode(p, n) = Of(RuntimeId(p, n.id), n.parent, n.kind, n.name, Type(n), Rank(n), v)
    BY ONLY <1>1, <1>2, <1>3, m.parent = n.parent, m.kind = n.kind, m.name = n.name, Zenon
  <1>5. ASSUME NEW id, NEW owner, NEW kind, NEW name, NEW type, NEW rank, NEW x, NEW no
        PROVE  [Of(id, owner, kind, name, type, rank, x) EXCEPT !.writable = no]
                 = Of(id, owner, kind, name, type, rank, no)
    BY ONLY SMT DEF Of
  <1>. DEFINE at == Of(RuntimeId(p, n.id), n.parent, n.kind, n.name, Type(n), Rank(n), w)
              bt == Of(RuntimeId(p, n.id), n.parent, n.kind, n.name, Type(n), Rank(n), v)
  <1>6. PICK no : no = FALSE
    OBVIOUS
  <1>7. /\ [at EXCEPT !.writable = no] = Of(RuntimeId(p, n.id), n.parent, n.kind, n.name, Type(n), Rank(n), no)
        /\ [bt EXCEPT !.writable = no] = Of(RuntimeId(p, n.id), n.parent, n.kind, n.name, Type(n), Rank(n), no)
    BY <1>5
  <1>8. at = ServedNode(q, m) /\ bt = ServedNode(p, n)
    BY ONLY <1>4, Zenon
  <1>. HIDE DEF at, bt
  <1>. QED  BY ONLY <1>6, <1>7, <1>8, Zenon

LEMMA ValidParts ==
  ASSUME NEW p, ProjectOk(p), Validate(p), NEW n \in ToSet(p.nodes)
  PROVE  /\ NodeOk(n) /\ (n.parent = NoNode \/ IsId(n.parent))
         /\ Variable(n) => /\ n.enum = NoNode \/ IsId(n.enum)
                           /\ n.enum = NoNode => n.type \in Builtin
                           /\ n.rank \in {-1, 1}
  <1>1. \A id \in Ids(p.nodes) : IsId(id)
    <2>1. Ids(p.nodes) = {x.id : x \in ToSet(p.nodes)}
      BY ProjectIs, IdsOf
    <2>2. \A x \in ToSet(p.nodes) : IsId(x.id)
      BY ProjectIs DEF NodeOk
    <2>. QED  BY <2>1, <2>2
  <1>2. \A id \in Ids(p.enums) : IsId(id)
    <2>1. Ids(p.enums) = {x.id : x \in ToSet(p.enums)}
      BY ProjectIs, IdsOf
    <2>2. \A x \in ToSet(p.enums) : IsId(x.id)
      BY ProjectIs DEF EnumOk
    <2>. QED  BY <2>1, <2>2
  <1>3. Variable(n) => VariableValid(p, n)
    BY DEF Validate, NodesValid
  <1>. QED  BY <1>1, <1>2, <1>3, ProjectIs DEF Validate, ParentsValid, VariableValid

LEMMA EnumExported ==
  ASSUME NEW e, EnumOk(e)
  PROVE  Without([id |-> e.id, name |-> e.name, entries |-> e.entries, definition |-> TRUE], {"definition"}) = e
  <1>1. PICK na, en, i : e = EnumOf(na, en, i)
    BY Zenon DEF EnumOk, IsEnum
  <1>. QED  BY <1>1 DEF EnumOf, Without

(* A valid project keeps its address space through a NodeSet2 document.           *)
LEMMA SpaceExported ==
  ASSUME NEW p, ProjectOk(p), Validate(p)
  PROVE  AddressSpace(WithImported(p, ExportDocument(p))) = AddressSpace(p)
  <1>. DEFINE doc == ExportDocument(p)
              q == WithImported(p, doc)
              elements == [i \in DOMAIN p.nodes |-> ExportNode(p.nodes[i])]
              known == {e \in ToSet(elements) : e.element \in {"UAObject", "UAVariable"}}
              nodes == [i \in DOMAIN p.nodes |-> ImportNode(ExportNode(p.nodes[i]))]
  <1>1. doc.uris = p.namespaces /\ doc.elements = elements
    BY DEF ExportDocument, MapSeq
  <1>2. IsList(p.nodes) /\ p.nodes \in Seq(ToSet(p.nodes))
    BY ProjectIs DEF IsList
  <1>3. elements = [i \in DOMAIN p.nodes |-> elements[i]]
        /\ \A i \in DOMAIN p.nodes : elements[i].element \in {"UAObject", "UAVariable"}
    BY DEF ExportNode
  <1>4. /\ IsList(elements) /\ DOMAIN elements = DOMAIN p.nodes
        /\ ToSet(elements) = {elements[i] : i \in DOMAIN p.nodes}
    <2>. HIDE DEF elements
    <2>1. PICK s : s = p.nodes
      OBVIOUS
    <2>2. IsList(s) /\ elements = [i \in DOMAIN s |-> elements[i]]
      BY ONLY <1>2, <1>3, <2>1, Zenon
    <2>. QED  BY ONLY <2>1, <2>2, MappedList
  <1>5. ToSet(elements) \subseteq known
    <2>. HIDE DEF elements
    <2>. QED  BY <1>3, <1>4
  <1>6. Keep(elements, known) = elements
    <2>. HIDE DEF elements, known
    <2>. QED  BY <1>4, <1>5, KeepFacts
  <1>7. q.nodes = nodes /\ q.namespaces = p.namespaces
    <2>1. Imported(doc).namespaces = p.namespaces
      BY <1>1 DEF Imported
    <2>2. Imported(doc).nodes = MapSeq(ImportNode, Keep(doc.elements, known))
      BY <1>1, Zenon DEF Imported
    <2>3. MapSeq(ImportNode, elements) = nodes
      BY DEF MapSeq
    <2>4. Imported(doc).nodes = nodes
      BY ONLY <1>1, <1>6, <2>2, <2>3, Zenon
    <2>. DEFINE With(ns, en, no) == [p EXCEPT !.namespaces = ns, !.enums = en, !.nodes = no, !.rules = <<>>]
    <2>5. ASSUME NEW ns, NEW en, NEW no
          PROVE  With(ns, en, no).namespaces = ns /\ With(ns, en, no).nodes = no
      <3>1. PICK ns0, en0, no0, ru0, se, po : p = ProjectOf(ns0, en0, no0, ru0, se, po)
        BY Zenon DEF ProjectOk, IsProject
      <3>. QED  BY ONLY <3>1, SMT DEF ProjectOf
    <2>6. q = With(p.namespaces, Imported(doc).enums, nodes)
      <3>. HIDE DEF doc, nodes
      <3>1. (IF Imported(doc).namespaces # <<>> THEN Imported(doc).namespaces ELSE p.namespaces) = p.namespaces
        BY <2>1
      <3>. QED  BY ONLY <2>4, <3>1, Zenon DEF WithImported
    <2>. HIDE DEF q, doc, nodes, With
    <2>7. /\ With(p.namespaces, Imported(doc).enums, nodes).namespaces = p.namespaces
          /\ With(p.namespaces, Imported(doc).enums, nodes).nodes = nodes
      BY ONLY <2>5, SMT
    <2>. QED  BY ONLY <2>6, <2>7, Zenon
  <1>. DEFINE View(x, n) == [ServedNode(x, n) EXCEPT !.writable = FALSE]
  <1>8. ASSUME NEW i \in DOMAIN p.nodes PROVE View(q, nodes[i]) = View(p, p.nodes[i])
    <2>. DEFINE n == p.nodes[i]
                m == nodes[i]
    <2>1. n \in ToSet(p.nodes)
      BY DEF ToSet
    <2>2. m = ImportNode(ExportNode(n))
      OBVIOUS
    <2>. HIDE DEF n, m, q
    <2>3. /\ NodeOk(n) /\ (n.parent = NoNode \/ IsId(n.parent))
          /\ Variable(n) => /\ n.enum = NoNode \/ IsId(n.enum)
                            /\ n.enum = NoNode => n.type \in Builtin
                            /\ n.rank \in {-1, 1}
      BY <2>1, ValidParts
    <2>4. /\ m.id = n.id /\ m.parent = n.parent /\ m.kind = n.kind /\ m.name = n.name
          /\ Variable(n) => /\ m.enum = n.enum /\ m.rank = n.rank
                            /\ n.enum = NoNode => m.type = n.type
      BY ONLY <2>2, <2>3, NodeExported
    <2>5. View(q, m) = View(p, n)
      BY ONLY <1>7, <2>4, SameServed
    <2>. QED  BY <2>5 DEF n, m
  <1>9. /\ AddressSpace(q) = {View(q, n) : n \in ToSet(q.nodes)}
        /\ AddressSpace(p) = {View(p, n) : n \in ToSet(p.nodes)}
    BY Zenon DEF AddressSpace
  <1>10. /\ ToSet(q.nodes) = {nodes[i] : i \in DOMAIN p.nodes}
         /\ ToSet(p.nodes) = {p.nodes[i] : i \in DOMAIN p.nodes}
    <2>1. DOMAIN nodes = DOMAIN p.nodes
      OBVIOUS
    <2>. HIDE DEF q, nodes
    <2>. QED  BY <1>7, <2>1 DEF ToSet
  <1>. HIDE DEF View, q, nodes
  <1>11. {View(q, n) : n \in ToSet(q.nodes)} = {View(p, n) : n \in ToSet(p.nodes)}
    BY <1>8, <1>10
  <1>. QED  BY <1>9, <1>11 DEF q

(* The files do not change what is served.                                     *)
THEOREM FilesAlwaysKeepTheProject == EditorSpec => []FilesKeepTheProject
  <1>1. ASSUME EditorInv PROVE FilesKeepTheProject
    <2>1. ProjectOk(project) /\ NoPath \notin Paths
      BY <1>1, EditorAssumption DEF EditorInv
    <2>2. Served(Trim(project)) = Served(project)
      BY <2>1, TrimIsServed
    <2>3. FromJson(ToJson(project)) = Trim(project)
      BY <2>1, FileWritten
    <2>4. hasProject /\ ~dirty => path # NoPath /\ FromJson(disk[path]) = Trim(project)
      BY <1>1, <2>1 DEF EditorInv, FilesOk
    <2>5. Validate(project) =>
            AddressSpace(WithImported(project, ExportDocument(project))) = AddressSpace(project)
      BY <2>1, SpaceExported
    <2>. QED  BY ONLY <2>2, <2>3, <2>4, <2>5, Zenon DEF FilesKeepTheProject
  <1>. QED  BY <1>1, EditorInvariant, PTL
=============================================================================
