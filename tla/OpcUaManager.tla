---------------------------- MODULE OpcUaManager ----------------------------
(***************************************************************************)
(* The GUI-thread facade (src/qmlapi/opcuamanager.cpp) composed with the   *)
(* worker service: the mirrored state QML reads, the automatic reconnect   *)
(* run that replays a stored connection, and the part of ProjectManager    *)
(* that switches projects over a live service.                             *)
(*                                                                         *)
(* The facade sees the service only through the FIFO toGui and steers it   *)
(* only through the FIFO inbox, so every decision it takes is taken on     *)
(* mirrors that may be out of date.                                        *)
(***************************************************************************)
EXTENDS OpcUaService

CONSTANTS
  Projects,      \* project files on disk
  Stored,        \* Stored[p]: the connection saved in project p, or None
  Local,         \* the connection to the local server runtime, or None
  FormModes,     \* authentication modes the user picks in the form
  UserOutruns,   \* whether the user acts while signals are under way
  MaxUserSteps   \* how many times the user acts

(* ProjectConnectionConfig.  A display string is abstracted to the URL whose *)
(* request produced its list.                                               *)
Connections == [url : Urls, endpoint : Urls, auth : AuthModes, backend : Backends,
                rewrite : BOOLEAN]

ASSUME ManagerAssumption ==
  /\ Stored \in [Projects -> Connections \cup {None}]
  /\ Local \in Connections \cup {None}
  /\ None \notin Projects
  /\ FormModes \subseteq AuthModes
  /\ UserOutruns \in BOOLEAN
  /\ MaxUserSteps \in Nat

VARIABLES
  gServers, gEndpoints, gConnected, gOpState, gError, gBackend, gAuth, gRewrite,
                  \* the mirrors of the service's state
  stage,          \* m_reconnectStage
  target,         \* m_reconnect*: the connection the run replays
  prompting,      \* the password dialog, modal, is open
  lastUrl,        \* m_lastDiscoveryUrl
  lastEndpoint,   \* m_lastEndpointDisplay
  connection,     \* m_connection: the active project's stored connection
  project,        \* the active project of ProjectManager
  asked,          \* history: the project that was active when the facade last
                  \* asked for a connection
  userSteps       \* user actions so far

gSetup     == <<gBackend, gAuth, gRewrite>>
mirrorVars == <<gServers, gEndpoints, gConnected, gOpState, gError, gSetup>>
runVars    == <<stage, target, prompting, lastUrl, lastEndpoint, asked>>
projVars   == <<connection, project>>
guiVars    == <<mirrorVars, runVars, projVars, userSteps>>
svcOnly    == <<setupVars, clientVars, opState, connected, lastError, findVars, epVars,
                listVars, inFlight>>
vars       == <<svcVars, guiVars>>

Running == {"DiscoveringServers", "RequestingEndpoints", "Connecting"}
Busy    == gOpState # "Idle"

PostAll_Overtakes(commands) == inbox' = commands \o inbox   \* mutant: not a queue

PostAll(commands) == inbox' = inbox \o commands

(* discoverServers() and connectToEndpoint() of the facade remember what they *)
(* were asked before they post it.                                          *)
AskDiscovery(before, url) ==
  lastUrl' = url /\ PostAll(before \o <<Msg("discover", url)>>)

AskConnect_Forgets(display) ==   \* mutant: the display string is not kept
  UNCHANGED lastEndpoint /\ asked' = project /\ PostAll(<<Msg("connect", None)>>)

AskConnect(display) ==
  lastEndpoint' = display /\ asked' = project /\ PostAll(<<Msg("connect", None)>>)

-----------------------------------------------------------------------------
(* Signals of the service, applied in the order they were emitted.         *)

Delivering(sig) == toGui # <<>> /\ Head(toGui).sig = sig /\ toGui' = Tail(toGui)
Val == Head(toGui).val

(* An empty list is transient; a filled one lets a waiting run go on.       *)
ApplyServers ==
  /\ Delivering("servers")
  /\ gServers' = Val
  /\ \/ /\ stage = "DiscoveringServers" /\ Val # None
        /\ stage' = "RequestingEndpoints"
        /\ PostAll(<<Msg("endpointsForServer", None)>>)
     \/ /\ stage # "DiscoveringServers" \/ Val = None
        /\ UNCHANGED <<stage, inbox>>
  /\ UNCHANGED <<svcOnly, gEndpoints, gConnected, gOpState, gError, gSetup, target, prompting,
                 lastUrl, lastEndpoint, asked, projVars, userSteps>>

ApplyEndpoints ==
  /\ Delivering("endpoints")
  /\ gEndpoints' = Val
  /\ \/ /\ stage = "RequestingEndpoints" /\ Val # None
        /\ stage' = "Connecting"
        /\ AskConnect(Val)
     \/ /\ stage # "RequestingEndpoints" \/ Val = None
        /\ UNCHANGED <<stage, lastEndpoint, asked, inbox>>
  /\ UNCHANGED <<svcOnly, gServers, gConnected, gOpState, gError, gSetup, target, prompting,
                 lastUrl, projVars, userSteps>>

(* A new session is written into the active project's stored connection.    *)
ApplyConnected ==
  /\ Delivering("connected")
  /\ gConnected' = Val
  /\ \/ Val = gConnected /\ UNCHANGED <<stage, connection>>
     \/ /\ Val /\ ~gConnected
        /\ connection' = [url |-> lastUrl, endpoint |-> lastEndpoint, auth |-> gAuth,
                          backend |-> gBackend, rewrite |-> gRewrite]
        /\ stage' = "Idle"
     \/ ~Val /\ gConnected /\ UNCHANGED <<stage, connection>>
  /\ UNCHANGED <<svcOnly, inbox, gServers, gEndpoints, gOpState, gError, gSetup,
                 target, prompting, lastUrl, lastEndpoint, asked, project, userSteps>>

ApplyOperationState ==
  /\ Delivering("operationState")
  /\ gOpState' = Val
  /\ UNCHANGED <<svcOnly, inbox, gServers, gEndpoints, gConnected, gError, gSetup,
                 runVars, projVars, userSteps>>

ErrorEndsRun_Never(error) == gError' = error /\ UNCHANGED stage   \* mutant

(* applyLastError(): a new error ends a run that is past the password.      *)
ErrorEndsRun(error) ==
  /\ gError' = error
  /\ stage' = IF error # gError /\ error # NoError /\ stage \in Running THEN "Idle" ELSE stage

ApplyLastError ==
  /\ Delivering("lastError")
  /\ ErrorEndsRun(Val)
  /\ UNCHANGED <<svcOnly, inbox, gServers, gEndpoints, gConnected, gOpState, gSetup,
                 target, prompting, lastUrl, lastEndpoint, asked, projVars, userSteps>>

ApplyBackend ==
  /\ Delivering("backend")
  /\ gBackend' = Val
  /\ UNCHANGED <<svcOnly, inbox, gServers, gEndpoints, gConnected, gOpState, gError, gAuth,
                 gRewrite, runVars, projVars, userSteps>>

ApplyAuthMode ==
  /\ Delivering("authMode")
  /\ gAuth' = Val
  /\ UNCHANGED <<svcOnly, inbox, gServers, gEndpoints, gConnected, gOpState, gError, gBackend,
                 gRewrite, runVars, projVars, userSteps>>

ApplyEndpointUrlRewriteEnabled ==
  /\ Delivering("rewrite")
  /\ gRewrite' = Val
  /\ UNCHANGED <<svcOnly, inbox, gServers, gEndpoints, gConnected, gOpState, gError, gBackend,
                 gAuth, runVars, projVars, userSteps>>

-----------------------------------------------------------------------------
(* The reconnect run.                                                      *)

(* connectUsingConfig(config), called in reconnect stage "at" after the      *)
(* commands "before": it does nothing while the mirrors say connected or    *)
(* busy.                                                                    *)
ConnectUsingConfig(config, at, before) ==
  LET setup == <<Msg("setRewrite", config.rewrite), Msg("setBackend", config.backend)>>
  IN \/ /\ gConnected \/ Busy
        /\ PostAll(before)
        /\ stage' = at
        /\ UNCHANGED <<target, prompting, lastUrl>>
     \/ /\ ~gConnected /\ ~Busy
        /\ target' = config
        /\ \/ /\ config.auth = "username"
              /\ stage' = "AwaitingPassword" /\ prompting' = TRUE
              /\ PostAll(before \o setup)
              /\ UNCHANGED lastUrl
           \/ /\ config.auth # "username"
              /\ stage' = "DiscoveringServers"
              /\ AskDiscovery(before \o setup \o <<Msg("setAuth", config.auth)>>, config.url)
              /\ UNCHANGED prompting

(* One user action.  A user who does not outrun the signals acts only once  *)
(* both queues have drained.                                                *)
UserTurn ==
  /\ userSteps < MaxUserSteps /\ userSteps' = userSteps + 1
  /\ UserOutruns \/ (inbox = <<>> /\ toGui = <<>>)

(* The password dialog is modal.                                            *)
UserActs == UserTurn /\ ~prompting

(* What enables the connection form and "Connect to Last Server".           *)
Unlocked == ~Busy /\ ~gConnected

ConnectToLast ==
  /\ UserActs /\ Unlocked
  /\ connection # None
  /\ ConnectUsingConfig(connection, stage, <<>>)
  /\ UNCHANGED <<svcOnly, toGui, mirrorVars, lastEndpoint, asked, projVars>>

(* "Open in Client" of Server Studio, which no mirror disables.             *)
ConnectToLocalEndpoint ==
  /\ UserActs
  /\ Local # None
  /\ ConnectUsingConfig(Local, stage, <<>>)
  /\ UNCHANGED <<svcOnly, toGui, mirrorVars, lastEndpoint, asked, projVars>>

ProvideReconnectPassword ==
  /\ UserTurn /\ prompting
  /\ prompting' = FALSE
  /\ \/ /\ stage # "AwaitingPassword"
        /\ UNCHANGED <<stage, lastUrl, inbox>>
     \/ /\ stage = "AwaitingPassword"
        /\ stage' = "DiscoveringServers"
        /\ AskDiscovery(<<Msg("setAuth", "username")>>, target.url)
  /\ UNCHANGED <<svcOnly, toGui, mirrorVars, target, lastEndpoint, asked, projVars>>

(* Cancelling tells the facade nothing.                                     *)
CancelPassword ==
  /\ UserTurn /\ prompting
  /\ prompting' = FALSE
  /\ UNCHANGED <<svcVars, mirrorVars, stage, target, lastUrl, lastEndpoint, asked, projVars>>

-----------------------------------------------------------------------------
(* The connection form.                                                    *)

UserDiscovers ==
  /\ UserActs /\ Unlocked
  /\ \E url \in Urls : AskDiscovery(<<>>, url)
  /\ UNCHANGED <<svcOnly, toGui, mirrorVars, stage, target, prompting, lastEndpoint, asked,
                 projVars>>

UserRequestsEndpoints ==
  /\ UserActs /\ Unlocked /\ gServers # None
  /\ \E mode \in FormModes :
       PostAll(<<Msg("setAuth", mode), Msg("endpointsForServer", None)>>)
  /\ UNCHANGED <<svcOnly, toGui, mirrorVars, runVars, projVars>>

UserConnects ==
  /\ UserActs /\ Unlocked /\ gEndpoints # None
  /\ AskConnect(gEndpoints)
  /\ UNCHANGED <<svcOnly, toGui, mirrorVars, stage, target, prompting, lastUrl, projVars>>

UserDisconnects ==
  /\ UserActs /\ ~Busy /\ gConnected
  /\ PostAll(<<Msg("disconnect", None)>>)
  /\ UNCHANGED <<svcOnly, toGui, mirrorVars, runVars, projVars>>

UserPicksBackend ==
  /\ UserActs /\ Unlocked
  /\ \E b \in Backends : PostAll(<<Msg("setBackend", b)>>)
  /\ UNCHANGED <<svcOnly, toGui, mirrorVars, runVars, projVars>>

(* An error of the facade's own: a write to a read-only row, a failed CSV    *)
(* export.  It goes through applyLastError() as the service's errors do.    *)
UserMeetsLocalError ==
  /\ UserActs
  /\ ErrorEndsRun("local")
  /\ UNCHANGED <<svcVars, gServers, gEndpoints, gConnected, gOpState, gSetup, target, prompting,
                 lastUrl, lastEndpoint, asked, projVars>>

-----------------------------------------------------------------------------
(* Projects.                                                               *)

(* clearRuntimeState(): disconnects only what the mirror shows connected.   *)
ReleaseSession == IF gConnected THEN <<Msg("disconnect", None)>> ELSE <<>>

(* openProject() and createProjectAtPath(): clearRuntimeState(),            *)
(* applyProject(), then connectToProjectConnection().                       *)
OpenProject(p) ==
  /\ UserActs
  /\ project' = p
  /\ connection' = Stored[p]
  /\ \/ /\ Stored[p] = None
        /\ stage' = "Idle"
        /\ PostAll(ReleaseSession)
        /\ UNCHANGED <<target, prompting, lastUrl>>
     \/ /\ Stored[p] # None
        /\ ConnectUsingConfig(Stored[p], "Idle", ReleaseSession)
  /\ UNCHANGED <<svcOnly, toGui, mirrorVars, lastEndpoint, asked>>

CloseProject ==
  /\ UserActs
  /\ project # None
  /\ project' = None /\ connection' = None
  /\ stage' = "Idle"
  /\ PostAll(ReleaseSession)
  /\ UNCHANGED <<svcOnly, toGui, mirrorVars, target, prompting, lastUrl, lastEndpoint, asked>>

-----------------------------------------------------------------------------
FacadeStep ==
  \/ ApplyServers \/ ApplyEndpoints \/ ApplyConnected \/ ApplyOperationState
  \/ ApplyLastError \/ ApplyBackend \/ ApplyAuthMode \/ ApplyEndpointUrlRewriteEnabled

UserStep ==
  \/ ConnectToLast \/ ConnectToLocalEndpoint
  \/ ProvideReconnectPassword \/ CancelPassword
  \/ UserDiscovers \/ UserRequestsEndpoints \/ UserConnects \/ UserDisconnects
  \/ UserPicksBackend \/ UserMeetsLocalError
  \/ (\E p \in Projects : OpenProject(p)) \/ CloseProject

ManagerInit ==
  /\ Init
  /\ gServers = None /\ gEndpoints = None /\ gConnected = FALSE /\ gOpState = "Idle"
  /\ gError = NoError /\ gBackend = backend /\ gAuth = auth /\ gRewrite = rewrite
  /\ stage = "Idle" /\ target = None /\ prompting = FALSE
  /\ lastUrl = None /\ lastEndpoint = None
  /\ connection = None /\ project = None /\ asked = None /\ userSteps = 0

ServiceActs == ServiceStep /\ UNCHANGED guiVars

ManagerNext == ServiceActs \/ FacadeStep \/ UserStep
ManagerSpec == ManagerInit /\ [][ManagerNext]_vars

(* Both event loops keep running, started timers fire, and the client       *)
(* resolves every connect and disconnect.  FindServers and GetEndpoints may *)
(* stay unanswered for ever, and the user owes nothing.                     *)
Fairness ==
  /\ WF_vars(WorkerStep /\ UNCHANGED guiVars)
  /\ WF_vars(FacadeStep)
  /\ WF_vars(HandleFindServersTimeout /\ UNCHANGED guiVars)
  /\ WF_vars(HandleEndpointsTimeout /\ UNCHANGED guiVars)
  /\ WF_vars((SessionOpens \/ SessionFails \/ SessionCloses) /\ UNCHANGED guiVars)

FairManagerSpec == ManagerSpec /\ Fairness

-----------------------------------------------------------------------------
(* Properties.                                                             *)

(* Types, the service's included; a captured connection is complete.         *)
ManagerTypeOK ==
  /\ TypeOK
  /\ gServers \in Urls \cup {None} /\ gEndpoints \in Urls \cup {None}
  /\ gConnected \in BOOLEAN /\ gOpState \in OperationStates
  /\ gBackend \in Backends /\ gAuth \in AuthModes /\ gRewrite \in BOOLEAN
  /\ stage \in Running \cup {"Idle", "AwaitingPassword"}
  /\ target \in Connections \cup {None} /\ prompting \in BOOLEAN
  /\ lastUrl \in Urls \cup {None} /\ lastEndpoint \in Urls \cup {None}
  /\ connection \in Connections \cup {None}
  /\ project \in Projects \cup {None} /\ asked \in Projects \cup {None}

(* The value a mirror showing "shown" will have once the signals queued in   *)
(* "signals" are applied: that of the last one named "sig".                  *)
PlacesOf(sig, signals) == {i \in DOMAIN signals : signals[i].sig = sig}

LastOf(sig, signals, shown) ==
  IF PlacesOf(sig, signals) = {} THEN shown
  ELSE signals[CHOOSE i \in PlacesOf(sig, signals) :
                 \A j \in PlacesOf(sig, signals) : j <= i].val

Latest(sig, mirror) == LastOf(sig, toGui, mirror)

(* Each mirror the QML reads lags the service only by the signals still      *)
(* queued: no change of the service's state goes unannounced, although most  *)
(* setters emit only on a difference.  The error shown may be the facade's    *)
(* own instead.                                                              *)
MirrorsFollow ==
  /\ Latest("servers", gServers) = servers
  /\ Latest("endpoints", gEndpoints) = endpoints
  /\ Latest("connected", gConnected) = connected
  /\ Latest("operationState", gOpState) = opState
  /\ Latest("lastError", gError) \in {lastError, "local"}
  /\ Latest("backend", gBackend) = backend
  /\ Latest("authMode", gAuth) = auth
  /\ Latest("rewrite", gRewrite) = rewrite

Queued(kinds) == \E i \in DOMAIN inbox : inbox[i].kind \in kinds

(* The service waits for a connect or a disconnect only while one is under   *)
(* way: the client works on it, or an event that moves the wait on is queued. *)
(* Neither has a timeout, so a wait without either would lock the form for     *)
(* good.                                                                     *)
SessionWaitEnds ==
  opState \in {"Connecting", "Disconnecting"} =>
    \/ cliState \in {"Connecting", "Closing"}
    \/ Queued({"runConnect", "runDisconnect", "clientState", "clientConnected",
               "clientDisconnected"})

(* m_clientConnected and the client's real session differ only while the     *)
(* event that reconciles them is queued, whatever errors, losses, backend    *)
(* switches and project switches come between; and the service waits for a    *)
(* connect or a disconnect only while one is under way.                       *)
SessionBelievedIsReal ==
  /\ connected => cliState \in {"Connected", "Closing"} \/ Queued({"clientDisconnected"})
  /\ cliState = "Connected" => connected \/ Queued({"clientConnected"})
  /\ SessionWaitEnds

(* Switching projects leaves nothing of the old one behind                   *)
(* (clearRuntimeState(), opcuamanager.cpp:1564): a session that is written    *)
(* into a project was asked for while that project was active.               *)
ConnectionBelongsToProject == [][~gConnected /\ gConnected' => asked = project]_vars

(* Every reconnect run ends, in a session or in an error.                    *)
ReconnectEnds == stage \in Running ~> stage \notin Running

(* A busy service becomes idle, so the form is unlocked again.               *)
ServiceSettles == opState # "Idle" ~> opState = "Idle"
=============================================================================
