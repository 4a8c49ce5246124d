----------------------------- MODULE DataTable -----------------------------
(***************************************************************************)
(* The Data View as the user works it: DataAccessModel's rows                *)
(* (src/models/dataaccessmodel.cpp) seen through the sorting and filtering   *)
(* proxy DataViewFilterModel (src/models/dataviewfiltermodel.cpp), and the   *)
(* menu and the editors of qml/Base/BsNodeDataView.qml, which name rows by   *)
(* position while live values re-sort them.                                  *)
(*                                                                           *)
(* A value is a number or, from FirstText on, a text; both stand for their   *)
(* rank in their order.  A quick filter is the set of cells that contain its *)
(* text.                                                                     *)
(***************************************************************************)
EXTENDS Integers, Sequences, FiniteSets, SequencesExt, FiniteSetsExt

CONSTANTS
  GridNodes,   \* nodes, as the ranks of their display names
  Values,      \* value texts a server may send
  FirstText,   \* the rank from which a value is no number
  Periods,     \* sampling intervals the user enters
  Filters,     \* quick filters, NoFilter among them
  AccessLevels \* the levels servers report: "readOnly", "writable"

ASSUME GridAssumption == IsFiniteSet(GridNodes)

VARIABLES
  grid,    \* DataAccessModel's m_rows
  sorting, \* m_sortColumn, m_sortOrder and m_filterText
  view,    \* the source row behind each view row
  picked,  \* the selection, as source rows
  menu,    \* rowMenu's viewRow while the menu is open, or 0
  editor,  \* the open editor: the source row it keeps and the node it names
  sent     \* the write the last step sent, or NoEdit

gridVars == <<grid, sorting, view, picked, menu, editor, sent>>

Columns  == {"number", "name", "value", "interval"}
NoColumn == "none"
NoFilter == {}
NoValue  == FirstText   \* the empty text
NoEdit   == [kind |-> "none", row |-> 0, node |-> 0]
GridRow(n) == [node |-> n, value |-> NoValue, interval |-> 0, access |-> "unknown"]

(* sortValue(): numbers of a column that mixes both come before its texts.  *)
SortValue(g, col, i) ==
  CASE col = "number"   -> <<0, i>>
    [] col = "interval" -> <<0, g[i].interval>>
    [] col = "name"     -> <<1, g[i].node>>
    [] col = "value"    -> <<IF g[i].value < FirstText THEN 0 ELSE 1, g[i].value>>

LessThan(g, col, i, j) ==
  LET a == SortValue(g, col, i)  b == SortValue(g, col, j)
  IN a[1] < b[1] \/ (a[1] = b[1] /\ a[2] < b[2])

Cells(row) == {<<"name", row.node>>, <<"value", row.value>>, <<"interval", row.interval>>}
FilterAcceptsRow(g, s, i) == s.filter = NoFilter \/ Cells(g[i]) \cap s.filter # {}

Accepted(g, s)     == {i \in DOMAIN g : FilterAcceptsRow(g, s, i)}
Before(g, s, i, j) == IF s.col = NoColumn THEN i < j
                      ELSE IF s.desc THEN LessThan(g, s.col, j, i) ELSE LessThan(g, s.col, i, j)
Position(v, i)     == CHOOSE k \in DOMAIN v : v[k] = i
Arrangements(g, s) ==
  {v \in SetToSeqs(Accepted(g, s)) :
     \A k, l \in DOMAIN v : k < l => ~Before(g, s, v[l], v[k])}

(* The proxy follows the table: rows that were not touched keep their order, *)
(* a touched one comes to rest anywhere among its equals.                    *)
Follow(g, s, old, touched) ==
  {v \in Arrangements(g, s) :
     \A i, j \in (ToSet(v) \cap ToSet(old)) \ touched :
       Position(v, i) < Position(v, j) <=> Position(old, i) < Position(old, j)}

(* sort() is stable: equals stand in the order of the table.               *)
Sorted(g, s) ==
  {v \in Arrangements(g, s) :
     \A k, l \in DOMAIN v : k < l /\ ~Before(g, s, v[k], v[l]) => v[k] < v[l]}

(* toSourceRow(): 0 for a view row that is not there.                      *)
ToSourceRow(k) == IF k \in DOMAIN view THEN view[k] ELSE 0

Idle  == menu = 0 /\ editor = NoEdit   \* an open menu or editor is modal
Quiet == sent' = NoEdit

Shows(g, s, views) ==
  /\ grid' = g /\ sorting' = s /\ view' \in views
  /\ picked' = picked \cap ToSet(view')   \* a row that is filtered out is deselected

-----------------------------------------------------------------------------
(* The table.                                                              *)

SetRecords(g) ==
  /\ Idle /\ Quiet
  /\ grid' = g /\ view' \in Sorted(g, sorting) /\ picked' = {}
  /\ UNCHANGED <<sorting, menu, editor>>

AddRow(n) ==
  /\ Idle /\ Quiet
  /\ \A i \in DOMAIN grid : grid[i].node # n
  /\ LET g == Append(grid, GridRow(n))
     IN Shows(g, sorting, Follow(g, sorting, view, {Len(g)}))
  /\ UNCHANGED <<menu, editor>>

IndexForNodeId(n) == SelectInSeq(grid, LAMBDA row : row.node = n)

Changed(i, row) ==
  LET g == [grid EXCEPT ![i] = row]
  IN Shows(g, sorting, Follow(g, sorting, view, {i}))

(* Updates of nodes without a row are ignored.                             *)
UpdateValue(n, value) ==
  /\ Quiet
  /\ LET i == IndexForNodeId(n)
     IN i # 0 /\ Changed(i, [grid[i] EXCEPT !.value = value])
  /\ UNCHANGED <<menu, editor>>

ClearValues ==
  /\ Quiet
  /\ LET g == [i \in DOMAIN grid |-> [grid[i] EXCEPT !.value = NoValue]]
     IN Shows(g, sorting, Follow(g, sorting, view, DOMAIN g))
  /\ UNCHANGED <<menu, editor>>

(* Says nothing of the sort values, so nothing moves.                      *)
SetAccessLevelForNode(n, access) ==
  /\ Quiet
  /\ LET i == IndexForNodeId(n)
     IN i # 0 /\ grid' = [grid EXCEPT ![i].access = access]
  /\ UNCHANGED <<sorting, view, picked, menu, editor>>

(* removeNodes(): one row after the other, the highest first.              *)
RemoveAll(g, is) ==
  LET rest[k \in 0..Len(g)] ==
        IF k = 0 THEN g
        ELSE LET i == Len(g) - k + 1 IN IF i \in is THEN RemoveAt(rest[k - 1], i) ELSE rest[k - 1]
  IN rest[Len(g)]

RemoveSelectedRows ==
  /\ editor = NoEdit /\ Quiet
  /\ picked # {}
  /\ LET g      == RemoveAll(grid, picked)
         old    == SelectSeq(view, LAMBDA i : i \notin picked)
         new(i) == i - Cardinality({j \in picked : j < i})
     IN /\ grid' = g
        /\ view' \in Follow(g, sorting, [k \in DOMAIN old |-> new(old[k])], {})
  /\ picked' = {} /\ menu' = 0
  /\ UNCHANGED <<sorting, editor>>

-----------------------------------------------------------------------------
(* Sorting, filtering and selecting.                                       *)

(* The order of no column is always ascending as far as one can see.        *)
ApplySort(col, desc) ==
  LET s == [sorting EXCEPT !.col = col, !.desc = desc]
  IN IF s = sorting THEN UNCHANGED <<grid, sorting, view, picked>>
     ELSE Shows(grid, s, Sorted(grid, s))

(* Ascending, descending, and back to the project's order.                 *)
ToggleSort(col) ==
  /\ Idle /\ Quiet
  /\ IF col # sorting.col THEN ApplySort(col, FALSE)
     ELSE IF ~sorting.desc THEN ApplySort(col, TRUE)
     ELSE ApplySort(NoColumn, FALSE)
  /\ UNCHANGED <<menu, editor>>

SetFilterText(f) ==
  /\ Idle /\ Quiet
  /\ f # sorting.filter
  /\ LET s == [sorting EXCEPT !.filter = f] IN Shows(grid, s, Follow(grid, s, view, {}))
  /\ UNCHANGED <<menu, editor>>

Select(is) ==
  /\ Idle /\ Quiet
  /\ picked' = is
  /\ UNCHANGED <<grid, sorting, view, menu, editor>>

-----------------------------------------------------------------------------
(* The row menu and the editors.                                           *)

(* Right-clicking outside the selection acts on that row.                  *)
OpenMenu(k) ==
  /\ Idle /\ Quiet
  /\ menu' = k
  /\ picked' = IF view[k] \in picked THEN picked ELSE {view[k]}
  /\ UNCHANGED <<grid, sorting, view, editor>>

CloseMenu ==
  /\ menu # 0 /\ Quiet
  /\ menu' = 0
  /\ UNCHANGED <<grid, sorting, view, picked, editor>>

(* editValue() and editInterval(), of the row double-clicked or of the view *)
(* row the menu was opened on, whatever row is there by now.                *)
Edits(kind, k) ==
  LET row == ToSourceRow(k)
  IN editor' = IF row = 0 \/ (kind = "value" /\ grid[row].access = "readOnly") THEN NoEdit
               ELSE [kind |-> kind, row |-> row, node |-> grid[row].node]

Edit(kind, k) ==
  /\ editor = NoEdit /\ Quiet
  /\ menu \in {0, k}
  /\ Edits(kind, k) /\ menu' = 0
  /\ UNCHANGED <<grid, sorting, view, picked>>

Edited_ByViewRow == ToSourceRow(editor.row)   \* mutant: the editor keeps the view row
Edited == editor.row

(* writeValue() asks again: the access level may have arrived meanwhile.   *)
AcceptValue ==
  /\ editor.kind = "value"
  /\ editor' = NoEdit
  /\ sent' = IF Edited \notin DOMAIN grid \/ grid[Edited].access = "readOnly" THEN NoEdit
             ELSE [editor EXCEPT !.row = Edited]
  /\ UNCHANGED <<grid, sorting, view, picked, menu>>

AcceptInterval(period) ==
  /\ editor.kind = "interval" /\ Quiet
  /\ editor' = NoEdit
  /\ IF Edited \in DOMAIN grid THEN Changed(Edited, [grid[Edited] EXCEPT !.interval = period])
     ELSE UNCHANGED <<grid, sorting, view, picked>>
  /\ UNCHANGED menu

CancelEdit ==
  /\ editor # NoEdit /\ Quiet
  /\ editor' = NoEdit
  /\ UNCHANGED <<grid, sorting, view, picked, menu>>

-----------------------------------------------------------------------------
GridInit ==
  /\ grid = <<>> /\ view = <<>> /\ picked = {} /\ menu = 0
  /\ sorting = [col |-> NoColumn, desc |-> FALSE, filter |-> NoFilter]
  /\ editor = NoEdit /\ sent = NoEdit

GridNext ==
  \/ \E n \in GridNodes : AddRow(n)
  \/ \E g \in {<<>>, [i \in 1..Cardinality(GridNodes) |-> GridRow(SetToSeq(GridNodes)[i])]} :
       SetRecords(g)
  \/ \E n \in GridNodes, value \in Values : UpdateValue(n, value)
  \/ \E n \in GridNodes, access \in AccessLevels : SetAccessLevelForNode(n, access)
  \/ ClearValues
  \/ RemoveSelectedRows
  \/ \E col \in Columns : ToggleSort(col)
  \/ \E f \in Filters : SetFilterText(f)
  \/ \E is \in SUBSET ToSet(view) : Select(is)
  \/ \E k \in DOMAIN view : OpenMenu(k)
  \/ CloseMenu
  \/ \E k \in DOMAIN view \cup {menu} : k # 0 /\ \E kind \in {"value", "interval"} : Edit(kind, k)
  \/ AcceptValue
  \/ \E period \in Periods : AcceptInterval(period)
  \/ CancelEdit

GridSpec == GridInit /\ [][GridNext]_gridVars

(* rest is g with the rows of these places only, in their order.             *)
Shortened(g, rest, places) ==
  \E place \in [DOMAIN rest -> places] :
    /\ \A p \in places : \E k \in DOMAIN rest : place[k] = p
    /\ \A k, l \in DOMAIN rest : k < l => place[k] < place[l]
    /\ \A k \in DOMAIN rest : rest[k] = g[place[k]]

(* What the user does to rows reaches those rows, however values re-sort and *)
(* filter them meanwhile: a value or an interval goes to the node the editor *)
(* named when it opened, a write never to one known to be read-only, and a   *)
(* removal takes the selected rows and leaves every other one.               *)
RowsReached ==
  /\ sent' # NoEdit => /\ grid[sent'.row].node = editor.node
                        /\ grid[sent'.row].access # "readOnly"
  /\ \A i \in DOMAIN grid \cap DOMAIN grid' :
       grid[i].node = grid'[i].node /\ grid[i].interval # grid'[i].interval =>
         editor.node = grid[i].node \/ Idle
  /\ RemoveSelectedRows => Shortened(grid, grid', DOMAIN grid \ picked)
RowsMeantAreReached == [][RowsReached]_gridVars
=============================================================================
