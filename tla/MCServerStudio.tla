--------------------------- MODULE MCServerStudio ---------------------------
(* Instances of ServerStudio, with a bound on starts, restarts and saves, and of  *)
(* RuntimeEngines, what the started runtime does: one of the two per behaviour.   *)
EXTENDS ServerStudio, RuntimeEngines

CONSTANTS p1, p2, c1, c2, MaxStarts, MaxSaves

VARIABLES side, starts, saves

MCBaseIds == {}

Made(kind, called, k, under) ==
  [NewNode EXCEPT !.kind = kind, !.id = NodeId(1, <<called>>, k), !.parent = under, !.name = called,
                  !.type = IF kind = "Variable" THEN "Double" ELSE "",
                  !.writable = kind = "Variable"]

(* The projects that are served.  Two variables that write each other; copies at    *)
(* once and later, and a literal; simulated ones, one of which triggers a copy;      *)
(* an enumeration declared Double, whose writes are refused.                       *)
IntVar(k) == [Made("Variable", "Variable", k, NoNode) EXCEPT !.type = "Int32"]
Id(k) == IntVar(k).id
Read(k) == [IntVar(k) EXCEPT !.writable = FALSE]
Driven(k, kind, type) ==
  [Read(k) EXCEPT !.type = type,
                  !.sim = [DefaultSim EXCEPT !.kind = kind, !.interval = 1, !.min = 1, !.max = 2]]
Act(k, mode, delay) ==
  [NewAction EXCEPT !.target = Id(k), !.mode = mode, !.delay = delay, !.literal = 1]
When(k, actions) == [trigger |-> Id(k), actions |-> actions]
Designed(nodes, rules) ==
  [NewProjectData EXCEPT !.namespaces = <<"project">>, !.nodes = nodes, !.rules = rules]

Cyclic  == Designed(<<IntVar(1), IntVar(2)>>, <<When(1, <<Act(2, "CopyTrigger", 0)>>),
                                      When(2, <<Act(1, "CopyTrigger", 0)>>)>>)
Delayed == Designed(<<IntVar(1), Read(2), Read(3)>>,
                    <<When(1, <<Act(2, "CopyTrigger", 2), Act(3, "CopyTrigger", 0),
                                Act(3, "Literal", 1)>>)>>)
Driving == Designed(<<Driven(1, "Counter", "Int32"), Driven(2, "Toggle", "Int32"), Read(3),
                      Driven(4, "Constant", "Boolean")>>,
                    <<When(1, <<Act(3, "CopyTrigger", 2)>>)>>)
Refused == [Designed(<<IntVar(1), Driven(2, "Random", "Int32"),
                       [Driven(3, "Ramp", "Double") EXCEPT !.enum = NodeId(1, <<"Color">>, 1)]>>,
                     <<When(1, <<Act(3, "Literal", 0), Act(3, "CopyTrigger", 0)>>)>>)
             EXCEPT !.security.secure = TRUE, !.security.acceptAll = FALSE]
MCServed == {Cyclic, Delayed, Driving, Refused}

MCInit ==
  /\ StudioInit /\ EngineInit /\ starts = 0 /\ saves = 0
  /\ \/ side = "studio" /\ design = Cyclic
     \/ side = "engines"

StudioStep ==
  /\ side = "studio"
  /\ StudioNext
  /\ starts' = IF ctl'.state = "Starting" /\ ctl.state # "Starting" THEN starts + 1 ELSE starts
  /\ saves' = IF disk' # disk THEN saves + 1 ELSE saves
  /\ starts' <= MaxStarts /\ saves' <= MaxSaves
  /\ UNCHANGED <<side, engineVars>>

EngineStep == side = "engines" /\ EngineNext /\ UNCHANGED <<side, starts, saves, studioVars>>

MCNext == StudioStep \/ EngineStep

MCVars == <<side, starts, saves, studioVars, engineVars>>
MCSpec == MCInit /\ [][MCNext]_MCVars /\ StudioFairness /\ EngineFairness
=============================================================================
