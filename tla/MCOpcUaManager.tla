--------------------------- MODULE MCOpcUaManager ---------------------------
(* Instances of OpcUaManager: project pA stores an anonymous connection to  *)
(* u1, pB one to u2 in mode ModeB, and the local runtime serves LocalUrl.    *)
EXTENDS OpcUaManager

CONSTANTS pA, pB, u1, u2, b1, ModeB, LocalUrl

Anonymous(url) ==
  [url |-> url, endpoint |-> url, auth |-> "anonymous", backend |-> b1, rewrite |-> FALSE]

MCStored == [p \in Projects |-> IF p = pA THEN Anonymous(u1)
                                ELSE [Anonymous(u2) EXCEPT !.auth = ModeB]]
MCLocal == IF LocalUrl = None THEN None ELSE [Anonymous(LocalUrl) EXCEPT !.rewrite = TRUE]
=============================================================================
