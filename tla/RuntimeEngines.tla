--------------------------- MODULE RuntimeEngines ---------------------------
(***************************************************************************)
(* What the served project does: behaviour rules (runtime/ruleengine.cpp),     *)
(* simulated values (runtime/simulationengine.cpp) and the certificates of       *)
(* strict servers (runtime/securitysetup.cpp, ServerStudio's trust store).      *)
(*                                                                         *)
(* One thread runs the server's loop and both engines.  A write runs the rules   *)
(* of its variable before it returns, and they write in turn: fired and due are    *)
(* what the call stack still has to do, and nothing else happens before both are  *)
(* empty.  Values are integers with the type they were built with; sine, ramp and *)
(* random values are any value of their range.                                *)
(***************************************************************************)
EXTENDS ServerProject

CONSTANTS
  Served0,      \* projects the runtime may have been started with
  WriteValues,  \* values the clients write
  Certs,        \* client certificates
  MaxWrites,    \* writes by clients since the start
  MaxRestarts

ASSUME EngineAssumption == MaxWrites \in Nat /\ MaxRestarts \in Nat

(* The runtime ends with exit code 7 before it serves a project two nodes of which *)
(* have one id; the numbers of a project are numbers, as it is read from its file. *)
ASSUME ServedAssumption ==
  \A p \in Served0 :
    /\ \A i, j \in DOMAIN p.nodes : p.nodes[i].id = p.nodes[j].id => i = j
    /\ \A n \in ToSet(p.nodes) : {n.sim.min, n.sim.max, n.sim.step, n.sim.interval} \subseteq Int
    /\ \A r \in ToSet(p.rules) : \A a \in ToSet(r.actions) : a.delay \in Int

VARIABLES
  design,       \* the project
  value,        \* value of each variable, [type, v]
  fired,        \* rule actions to perform now, each with what its trigger was written
  due,          \* places in the project of the simulated variables to write now
  timers,       \* delayed writes by their time, with the time that is left
  sims,         \* m_vars: [counter, toggle, since] of each simulated variable
  trusted, rejected,   \* the server PKI on disk
  loaded,       \* the trust list read at the start
  offered,      \* history: certificates offered to strict servers
  writes, restarts

engineVars == <<design, value, fired, due, timers, sims, trusted, rejected, loaded, offered,
                writes, restarts>>

Var(id)    == CHOOSE n \in ToSet(design.nodes) : n.id = id
Rules      == Compile(design)
SimIds     == {n.id : n \in Simulated(design)}
Typed(t, v) == [type |-> t, v |-> v]
IdleEngine == fired = {} /\ due = {}

-----------------------------------------------------------------------------
(* Writes.                                                                 *)

(* onTriggerWrite(): the actions of every rule of the variable.                 *)
Fired(id, data) ==
  {[at |-> at, data |-> data] : at \in {x \in DOMAIN Rules : Rules[x].trigger = id}}

(* In the order of the rules, and of the actions in each.                        *)
Before(a, b) == a[1] < b[1] \/ (a[1] = b[1] /\ a[2] < b[2])
IsNext(f)    == f \in fired /\ \A g \in fired : ~Before(g.at, f.at)

(* UA_Server_writeValue(): a value of another type than the variable's, or a     *)
(* scalar for an array, is refused and nobody told; the write callback runs      *)
(* unless m_suppress is set.                                                 *)
Takes(id, data) == data.type = WireType(Var(id)) /\ Var(id).rank = -1
Write(id, data, suppress, rest) ==
  IF Takes(id, data)
  THEN /\ value' = [value EXCEPT ![id] = data]
       /\ fired' = rest \cup (IF suppress THEN {} ELSE Fired(id, data))
  ELSE value' = value /\ fired' = rest

ClientWrite(id, v) ==
  /\ IdleEngine /\ writes < MaxWrites /\ writes' = writes + 1
  /\ Var(id).writable
  /\ Write(id, Typed(WireType(Var(id)), v), FALSE, {})
  /\ UNCHANGED <<design, due, timers, sims, trusted, rejected, loaded, offered, restarts>>

(* buildValue(): a literal has the declared type of the target, a copy the       *)
(* trigger's.                                                                *)
Built(a, data) == IF a.mode = "CopyTrigger" THEN data ELSE Typed(a.type, Head(a.literal))

(* performAction() with a delay: the value is kept with the timer, which comes    *)
(* after those due before or with it.                                         *)
Schedule(a, data) ==
  \E k \in 1 .. Len(timers) + 1 :
    /\ \A i \in DOMAIN timers : timers[i].left <= a.delay <=> i < k
    /\ timers' = InsertAt(timers, k, [target |-> a.target, data |-> Built(a, data),
                                      left |-> a.delay])

(* Mutant: the rule engine's own write is not suppressed.                       *)
PerformAction_Loud ==
  /\ \E f \in fired :
       /\ IsNext(f)
       /\ LET a == Rules[f.at]
          IN  IF a.delay <= 0
              THEN Write(a.target, Built(a, f.data), FALSE, fired \ {f}) /\ UNCHANGED timers
              ELSE Schedule(a, f.data) /\ fired' = fired \ {f} /\ UNCHANGED value
  /\ UNCHANGED <<design, due, sims, trusted, rejected, loaded, offered, writes, restarts>>

(* performAction() for the next action of the rules being run.                  *)
Perform(f) ==
  LET a == Rules[f.at]
  IN  IF a.delay <= 0
      THEN Write(a.target, Built(a, f.data), TRUE, fired \ {f}) /\ UNCHANGED timers
      ELSE Schedule(a, f.data) /\ fired' = fired \ {f} /\ UNCHANGED value
PerformAction ==
  /\ \E f \in fired : IsNext(f) /\ Perform(f)
  /\ UNCHANGED <<design, due, sims, trusted, rejected, loaded, offered, writes, restarts>>

(* Mutant: the timers that are due fire last first.                             *)
TimerFires_LastFirst ==
  /\ IdleEngine
  /\ \E i \in DOMAIN timers :
       /\ timers[i].left = 0 /\ \A j \in DOMAIN timers : j > i => timers[j].left > 0
       /\ Write(timers[i].target, timers[i].data, TRUE, {})
       /\ timers' = RemoveAt(timers, i)
  /\ UNCHANGED <<design, due, sims, trusted, rejected, loaded, offered, writes, restarts>>

(* The singleShot timer of a delayed action.                                    *)
TimerFires ==
  /\ IdleEngine /\ timers # <<>> /\ Head(timers).left = 0
  /\ Write(Head(timers).target, Head(timers).data, TRUE, {})
  /\ timers' = Tail(timers)
  /\ UNCHANGED <<design, due, sims, trusted, rejected, loaded, offered, writes, restarts>>

-----------------------------------------------------------------------------
(* Simulation.                                                             *)

Due(id) == sims[id].since >= Var(id).sim.interval

(* tick(): the variables whose interval has elapsed, in the project's order.     *)
Tick ==
  /\ IdleEngine
  /\ due' = {i \in DOMAIN design.nodes : design.nodes[i].id \in SimIds /\ Due(design.nodes[i].id)}
  /\ due' # {}
  /\ sims' = [id \in SimIds |-> IF Due(id) THEN [sims[id] EXCEPT !.since = 0] ELSE sims[id]]
  /\ UNCHANGED <<design, value, fired, timers, trusted, rejected, loaded, offered, writes,
                 restarts>>

NextCounter(s, counter) == IF counter + s.step > s.max THEN s.min ELSE counter + s.step

(* nextValue(): the values it may give and the state it leaves.                  *)
NextValues(id) ==
  LET s  == Var(id).sim
      st == sims[id]
  IN  CASE s.kind = "Constant" -> {<<s.min, st>>}
        [] s.kind = "Counter" -> LET c == NextCounter(s, st.counter)
                                 IN  {<<c, [st EXCEPT !.counter = c]>>}
        [] s.kind = "Toggle" -> {<<IF st.toggle THEN s.min ELSE s.max,
                                   [st EXCEPT !.toggle = ~st.toggle]>>}
        [] OTHER -> {<<v, st>> : v \in s.min .. s.max}

(* writeScalar() with the declared type of the variable, not suppressed: from 0.5   *)
(* on a Boolean is set.  Values its type does not hold, whose conversion is          *)
(* undefined, are left out.                                                     *)
Coerced(type, v) == IF type = "Boolean" THEN (IF v >= 1 THEN 1 ELSE 0) ELSE v
SimulatedWrite ==
  /\ fired = {}
  /\ \E i \in due :
       /\ \A j \in due : i <= j
       /\ LET id == design.nodes[i].id
          IN  \E next \in NextValues(id) :
                /\ sims' = [sims EXCEPT ![id] = next[2]]
                /\ Write(id, Typed(Var(id).type, Coerced(Var(id).type, next[1])), FALSE, {})
       /\ due' = due \ {i}
  /\ UNCHANGED <<design, timers, trusted, rejected, loaded, offered, writes, restarts>>

(* Time passes for the timers and the simulation.  A unit of it is long enough for   *)
(* the loop to handle all that is due.                                          *)
TimePasses ==
  /\ IdleEngine
  /\ timers # <<>> => Head(timers).left > 0
  /\ \A id \in SimIds : ~Due(id)
  /\ timers' = [i \in DOMAIN timers |-> [timers[i] EXCEPT !.left = @ - 1]]
  /\ sims' = [id \in SimIds |-> [sims[id] EXCEPT !.since = @ + 1]]
  /\ UNCHANGED <<design, value, fired, due, trusted, rejected, loaded, offered, writes, restarts>>

-----------------------------------------------------------------------------
(* Certificates.                                                           *)

(* verifyAndCaptureRejected() of a strict server: what is not in the list read    *)
(* at the start is refused and its file kept for the user.                     *)
ClientOffers(cert) ==
  /\ IdleEngine /\ Strict(design.security)
  /\ offered' = offered \cup {cert}
  /\ rejected' = IF cert \in loaded THEN rejected ELSE rejected \cup {cert}
  /\ UNCHANGED <<design, value, fired, due, timers, sims, trusted, loaded, writes, restarts>>

(* Mutant: the rejected file is removed whatever became of the trusted one.        *)
TrustRejected_Removes(cert) ==
  /\ cert \in rejected
  /\ rejected' = rejected \ {cert}
  /\ trusted' \in {trusted \ {cert}, trusted \cup {cert}}
  /\ UNCHANGED <<design, value, fired, due, timers, sims, loaded, offered, writes, restarts>>

(* ServerStudio::trustRejectedCertificate(): an older trusted copy is removed      *)
(* before the rejected file is moved, which may fail.                           *)
TrustRejected(cert) ==
  /\ cert \in rejected
  /\ \/ trusted' = trusted \cup {cert} /\ rejected' = rejected \ {cert}
     \/ trusted' = trusted \ {cert} /\ UNCHANGED rejected
  /\ UNCHANGED <<design, value, fired, due, timers, sims, loaded, offered, writes, restarts>>

-----------------------------------------------------------------------------
InitialValues(p) == [id \in VariableIds(p) |->
                      Typed(WireType(CHOOSE n \in ToSet(p.nodes) : n.id = id), 0)]
InitialSims(p) == [id \in {n.id : n \in Simulated(p)} |->
                    [counter |-> (CHOOSE n \in ToSet(p.nodes) : n.id = id).sim.min,
                     toggle |-> FALSE, since |-> 0]]

(* The runtime ends with its engines and pending timers, and starts anew.          *)
RuntimeRestart ==
  /\ IdleEngine /\ restarts < MaxRestarts /\ restarts' = restarts + 1
  /\ value' = InitialValues(design) /\ sims' = InitialSims(design)
  /\ timers' = <<>> /\ loaded' = trusted /\ writes' = 0
  /\ UNCHANGED <<design, fired, due, trusted, rejected, offered>>

EngineInit ==
  /\ design \in Served0
  /\ value = InitialValues(design) /\ sims = InitialSims(design)
  /\ fired = {} /\ due = {} /\ timers = <<>>
  /\ trusted = {} /\ rejected = {} /\ loaded = {} /\ offered = {}
  /\ writes = 0 /\ restarts = 0

EngineNext ==
  \/ \E id \in VariableIds(design), v \in WriteValues : ClientWrite(id, v)
  \/ PerformAction \/ TimerFires \/ Tick \/ SimulatedWrite \/ TimePasses \/ RuntimeRestart
  \/ \E cert \in Certs : ClientOffers(cert) \/ TrustRejected(cert)

(* The event loop goes on with the call it is in.                                *)
EngineFairness == WF_engineVars(PerformAction) /\ WF_engineVars(SimulatedWrite)

EngineSpec == EngineInit /\ [][EngineNext]_engineVars /\ EngineFairness

-----------------------------------------------------------------------------
(* Properties.                                                             *)

(* A write comes to an end, also among rules that write each other's triggers:     *)
(* what the rule engine writes fires no rule (m_suppress).                       *)
WritesSettle == ~IdleEngine ~> IdleEngine

(* The only writer of a variable: a copying action of one rule, whose trigger no     *)
(* rule writes.                                                              *)
AllActions == {Rules[at] : at \in DOMAIN Rules}
Copies(a) ==
  /\ a.mode = "CopyTrigger" /\ ~Var(a.target).writable /\ a.target \notin SimIds
  /\ \A other \in AllActions : other.target = a.target => other = a
  /\ \A other \in AllActions : other.target # a.trigger
  /\ WireType(Var(a.trigger)) = WireType(Var(a.target)) /\ Var(a.target).rank = -1

(* Once nothing is pending, the target of a copying rule has the last value of its   *)
(* trigger, however many delayed writes were under way together                  *)
(* (RuleEngine::performAction keeps each with its own value).                     *)
CopiesFollow ==
  \A a \in AllActions :
    /\ Copies(a)
    /\ fired = {} /\ \A i \in DOMAIN timers : timers[i].target # a.target
    => value[a.target].v = value[a.trigger].v

(* A simulated value that only the simulation writes, once written (not the 0 it      *)
(* was built with), is one of its range as its type holds it, with a step that is     *)
(* not negative (SimulationEngine::nextValue, writeScalar).                       *)
SimulatedInRange ==
  \A n \in Simulated(design) :
    /\ n.sim.step >= 0 /\ n.sim.min <= n.sim.max /\ ~n.writable
    /\ \A a \in AllActions : a.target # n.id
    /\ value[n.id].v # 0
    => \E v \in n.sim.min .. n.sim.max : value[n.id].v = Coerced(n.type, v)

(* The variables the project drives by itself hold what it says they should.         *)
DrivenAsDesigned == CopiesFollow /\ SimulatedInRange

(* A certificate a strict server refused can always be found again, among the          *)
(* rejected ones or the trusted ones, whatever fails between the two stores          *)
(* (saveRejectedCertificate, trustRejectedCertificate).                          *)
OfferedIsKept == offered \subseteq rejected \cup trusted
=============================================================================
