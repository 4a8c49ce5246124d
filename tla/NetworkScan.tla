---------------------------- MODULE NetworkScan ----------------------------
(***************************************************************************)
(* What a network scan promises (the doc comments of                       *)
(* src/core/networkscanner.h): every target gets an outcome that only      *)
(* moves forward, the scan is finished exactly when each is final, and     *)
(* nothing changes outside a scan.                                         *)
(***************************************************************************)
EXTENDS Naturals, Sequences

CONSTANT Lists   \* the lists of targets a scan can be asked for

VARIABLES
  phase,     \* "Idle", "Scanning", "Finished" or "Cancelled"
  outcome    \* outcome[t] of each target t of the latest scan

scanVars == <<phase, outcome>>

Later(o) ==
  {o} \cup IF o = "waiting" THEN {"closed", "PortOpen", "OpcUa", "NoOpcUaResponse"}
           ELSE IF o = "PortOpen" THEN {"OpcUa", "NoOpcUaResponse"} ELSE {}

Final == {"closed", "OpcUa", "NoOpcUaResponse"}

AllFinal(o) == \A t \in DOMAIN o : o[t] \in Final

ScanInit == phase = "Idle" /\ outcome = <<>>

Begin ==
  \E list \in Lists :
    /\ outcome' = [i \in {list[k] : k \in DOMAIN list} |-> "waiting"]
    /\ phase' = "Scanning"

(* Targets advance; the scan ends with the step that decides the last one.  *)
Advance ==
  /\ phase = "Scanning"
  /\ DOMAIN outcome' = DOMAIN outcome
  /\ \A t \in DOMAIN outcome : outcome'[t] \in Later(outcome[t])
  /\ phase' = IF AllFinal(outcome') THEN "Finished" ELSE "Scanning"

(* Cancelling keeps the results reported so far and forgets the rest.       *)
Stop ==
  /\ phase = "Scanning" /\ phase' = "Cancelled"
  /\ outcome' = [t \in {t \in DOMAIN outcome : outcome[t] \notin {"waiting", "closed"}}
                  |-> outcome[t]]

ScanNext == Begin \/ Advance \/ Stop
ScanSpec == ScanInit /\ [][ScanNext]_scanVars
=============================================================================
