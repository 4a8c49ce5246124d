----------------------------- MODULE MCDataView -----------------------------
(* The Data View by its three parts, one per behaviour: the table and its   *)
(* panels against the service (DataView; two servers with the same two node  *)
(* ids; one project file is empty, the other holds a node of each server),   *)
(* the table as it is sorted, filtered and edited, and the trend.            *)
EXTENDS DataView, DataTable, TrendModel

CONSTANTS n1, n2, s1, s2

Stored(server, n, interval) == [Row(server, n) EXCEPT !.interval = interval]
MCStoredRows == {<<>>, <<Stored(s1, n1, 0), Stored(s2, n1, 5)>>}

(* 9 is a number, 51 a text; the filter shows the rows with a 9.            *)
MCFilters == {{}, {<<"value", 9>>}}

VARIABLE part

MCInit == /\ Init /\ GridInit /\ TrendInit
          /\ part \in {"session", "table", "trend"} /\ (part # "session" => rows = <<>>)
SessionStep == part = "session" /\ Next /\ UNCHANGED <<gridVars, trendVars, part>>
TableStep   == part = "table" /\ GridNext /\ UNCHANGED <<vars, trendVars, part>>
TrendStep   == part = "trend" /\ TrendNext /\ UNCHANGED <<vars, gridVars, part>>
MCNext == SessionStep \/ TableStep \/ TrendStep
MCSpec == MCInit /\ [][MCNext]_<<vars, gridVars, trendVars, part>>
=============================================================================
