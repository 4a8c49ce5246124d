---------------------------- MODULE OpcUaService ----------------------------
(***************************************************************************)
(* The worker-thread service (src/core/opcuaservice.cpp) that owns the Qt  *)
(* OPC UA client: backend and authentication selection, server discovery,  *)
(* endpoint lookup, connect and disconnect.                                *)
(*                                                                         *)
(* Everything the worker thread executes is one item of its event queue,   *)
(* "inbox": commands posted by the GUI thread, the lambdas the service     *)
(* posts to the client object (which lives in the same thread), and the    *)
(* queued signals of that client.  Signals for the GUI thread go to the    *)
(* FIFO "toGui".  The client's backend is external: it answers the         *)
(* requests of "inFlight" whenever it likes, or never.                     *)
(*                                                                         *)
(* A server list and an endpoint list are abstracted to the URL whose      *)
(* request produced them; an index into a non-empty list is always valid.  *)
(***************************************************************************)
EXTENDS Naturals, Sequences

CONSTANTS
  Urls,       \* normalised discovery URLs the user can name
  BadUrl,     \* an input QUrl rejects
  Backends,   \* the available backend plugins
  Supported,  \* authentication modes the endpoints accept
  None,       \* an empty list, an unset URL, an empty cache
  AnswersRedundantDisconnect
              \* whether a client that is already disconnected announces it
              \* again when asked to disconnect

AuthModes == {"anonymous", "username", "certificate"}

ASSUME ServiceAssumption ==
  /\ BadUrl \notin Urls
  /\ None \notin Urls \cup {BadUrl}
  /\ Supported \subseteq AuthModes
  /\ AnswersRedundantDisconnect \in BOOLEAN

VARIABLES
  backend,      \* m_backend
  client,       \* m_client: generation of the live client, 0 when null
  lastClient,   \* the generation created last
  cliState,     \* the live client's own QOpcUaClient::ClientState
  cliUrl,       \* the endpoint the live client was last told to connect to
  opState,      \* m_operationState
  auth,         \* m_authInfo.authenticationType()
  rewrite,      \* m_endpointUrlRewriteEnabled
  connected,    \* m_clientConnected
  lastError,    \* m_lastError
  findPending,  \* m_findServersRequestPending
  findTimer,    \* m_findServersTimeoutTimer is running
  findUrl,      \* m_lastFindServersRequestUrl
  epPending,    \* m_endpointsRequestPending
  epTimer,      \* m_endpointsTimeoutTimer is running
  epUrl,        \* m_lastEndpointsRequestUrl
  servers,      \* m_servers with m_serverCandidateUrls
  endpoints,    \* m_endpointList with m_endpointsDisplay
  cache,        \* the endpoint cache: None or [url, auth]
  inbox,        \* event queue of the worker thread
  toGui,        \* queued signals not yet delivered to the GUI thread
  inFlight      \* requests the backend has accepted and not answered

clientVars == <<client, lastClient, cliState, cliUrl>>
findVars   == <<findPending, findTimer, findUrl>>
epVars     == <<epPending, epTimer, epUrl>>
listVars   == <<servers, endpoints, cache>>
setupVars  == <<backend, auth, rewrite>>
svcVars    == <<backend, client, lastClient, cliState, cliUrl, opState, auth, rewrite,
                connected, lastError, findPending, findTimer, findUrl, epPending, epTimer,
                epUrl, servers, endpoints, cache, inbox, toGui, inFlight>>

-----------------------------------------------------------------------------
(* Messages of the worker queue and signals to the GUI.                    *)

OperationStates == {"Idle", "DiscoveringServers", "RequestingEndpoints",
                    "Connecting", "Disconnecting"}
ClientStates == {"Disconnected", "Connecting", "Connected", "Closing"}

NoError == ""   \* m_lastError without an error

Msg(kind, arg)         == [kind |-> kind, arg |-> arg, from |-> 0, good |-> TRUE]
Task(kind, arg, c)     == [kind |-> kind, arg |-> arg, from |-> c, good |-> TRUE]
Reply(kind, arg, good) == [kind |-> kind, arg |-> arg, from |-> 0, good |-> good]
Sig(sig, val)          == <<[sig |-> sig, val |-> val]>>

Handling(kind) == inbox # <<>> /\ Head(inbox).kind = kind
Arg            == Head(inbox).arg
Consume        == inbox' = Tail(inbox)
ConsumeAndPost(m) == inbox' = Append(Tail(inbox), m)
Emit(signals)  == toGui' = toGui \o signals

(* setOperationState() and setLastError() emit only when the value changes. *)
OpSig(from, to)  == IF from = to THEN <<>> ELSE Sig("operationState", to)
ErrSig(from, to) == IF from = to THEN <<>> ELSE Sig("lastError", to)

(* queueClientSecurityConfiguration(): only the certificate mode *)
(* can be refused, when the configured files do not validate.               *)
SecurityOutcomes == IF auth = "certificate" THEN BOOLEAN ELSE {TRUE}

(* createClient(): a missing client is created; in certificate mode with    *)
(* unusable files it reports "certificate" and keeps the client.            *)
EnsureClient(err) ==
  \/ client # 0 /\ err = NoError /\ UNCHANGED clientVars
  \/ /\ client = 0
     /\ \E ok \in SecurityOutcomes : err = IF ok THEN NoError ELSE "certificate"
     /\ client' = lastClient + 1
     /\ lastClient' = lastClient + 1
     /\ cliState' = "Disconnected" /\ cliUrl' = None

(* createClient() with a backend plugin that yields no client.              *)
ClientUnavailable == client = 0 /\ UNCHANGED clientVars

-----------------------------------------------------------------------------
(* Selection of backend and authentication.                                *)

CancelRequests ==
  findPending' = FALSE /\ findTimer' = FALSE /\ epPending' = FALSE /\ epTimer' = FALSE

SetBackend ==
  /\ Handling("setBackend")
  /\ Consume
  /\ \/ Arg = backend /\ UNCHANGED <<setupVars, clientVars, opState, connected, lastError,
                                     findVars, epVars, listVars, toGui, inFlight>>
     \/ /\ Arg # backend
        /\ CancelRequests
        /\ opState' = "Idle"
        /\ connected' = (connected /\ client = 0)
        /\ cache' = None /\ endpoints' = None
        /\ backend' = Arg
        /\ inFlight' = {}
        /\ cliState' = "Disconnected" /\ cliUrl' = None
        /\ \E created \in BOOLEAN, ok \in SecurityOutcomes :
             LET err == IF ~created THEN "client" ELSE IF ok THEN lastError ELSE "certificate"
             IN /\ client' = IF created THEN lastClient + 1 ELSE 0
                /\ lastClient' = IF created THEN lastClient + 1 ELSE lastClient
                /\ lastError' = err
                /\ Emit(OpSig(opState, "Idle")
                        \o (IF connected /\ client # 0 THEN Sig("connected", FALSE) ELSE <<>>)
                        \o Sig("endpoints", None) \o Sig("backend", Arg)
                        \o ErrSig(lastError, err))
        /\ UNCHANGED <<auth, rewrite, findUrl, epUrl, servers>>

(* The three set*Authentication() commands.  "nameless" is username         *)
(* authentication without a user name, which changes nothing but the error. *)
SetAuthentication ==
  /\ Handling("setAuth")
  /\ Consume
  /\ \/ /\ Arg = "nameless"
        /\ lastError' = "username"
        /\ Emit(ErrSig(lastError, "username"))
        /\ UNCHANGED <<auth, cache>>
     \/ /\ Arg \in AuthModes
        /\ auth' = Arg
        /\ cache' = None
        /\ \E ok \in IF Arg = "certificate" THEN BOOLEAN ELSE {TRUE} :
             /\ lastError' = IF ok THEN NoError ELSE "certificate"
             /\ LET mode == Sig("authMode", Arg)  error == ErrSig(lastError, lastError')
                IN Emit(IF Arg = "certificate" THEN mode \o error ELSE error \o mode)
  /\ UNCHANGED <<backend, rewrite, clientVars, opState, connected, findVars, epVars,
                 servers, endpoints, inFlight>>

SetEndpointUrlRewriteEnabled ==
  /\ Handling("setRewrite")
  /\ Consume
  /\ rewrite' = Arg
  /\ cache' = IF Arg = rewrite THEN cache ELSE None
  /\ Emit(IF Arg = rewrite THEN <<>> ELSE Sig("rewrite", Arg))
  /\ UNCHANGED <<backend, auth, clientVars, opState, connected, lastError, findVars, epVars,
                 servers, endpoints, inFlight>>

-----------------------------------------------------------------------------
(* FindServers.                                                            *)

ListsCleared_ServersOnly == Sig("servers", None)   \* mutant: endpoints go unannounced

ListsCleared == Sig("servers", None) \o Sig("endpoints", None)

DiscoverServers ==
  /\ Handling("discover")
  /\ servers' = None /\ endpoints' = None
  /\ LET cleared == ListsCleared \o ErrSig(lastError, NoError)
     IN \/ /\ Arg = BadUrl \/ ClientUnavailable
           /\ lastError' = IF Arg = BadUrl THEN "url" ELSE "client"
           /\ findPending' = FALSE /\ findTimer' = FALSE
           /\ opState' = "Idle"
           /\ Emit(OpSig(opState, "DiscoveringServers") \o cleared
                   \o Sig("lastError", lastError') \o Sig("operationState", "Idle"))
           /\ Consume
           /\ UNCHANGED <<clientVars, findUrl>>
        \/ /\ Arg \in Urls
           /\ \E err \in {NoError, "certificate"} :
                /\ EnsureClient(err)
                /\ lastError' = err
                /\ Emit(OpSig(opState, "DiscoveringServers") \o cleared \o ErrSig(NoError, err))
           /\ findPending' = TRUE /\ findTimer' = TRUE
           /\ findUrl' = Arg
           /\ opState' = "DiscoveringServers"
           /\ ConsumeAndPost(Task("runFind", Arg, client'))
  /\ UNCHANGED <<setupVars, connected, epVars, cache, inFlight>>

(* The lambda posted to the client: FindServers is sent, or refused at once. *)
RunFindServers ==
  /\ Handling("runFind")
  /\ \/ Head(inbox).from # client /\ Consume /\ UNCHANGED inFlight
     \/ /\ Head(inbox).from = client
        /\ \/ inFlight' = inFlight \cup {<<"find", Arg>>} /\ Consume
           \/ ConsumeAndPost(Msg("findNotDispatched", Arg)) /\ UNCHANGED inFlight
  /\ UNCHANGED <<setupVars, clientVars, opState, connected, lastError, findVars, epVars,
                 listVars, toGui>>

HandleFindServersDispatchResult ==
  /\ Handling("findNotDispatched")
  /\ Consume
  /\ \/ /\ Arg # findUrl
        /\ UNCHANGED <<findPending, findTimer, opState, lastError, toGui>>
     \/ /\ Arg = findUrl
        /\ findPending' = FALSE /\ findTimer' = FALSE
        /\ opState' = "Idle" /\ lastError' = "findDispatch"
        /\ Emit(ErrSig(lastError, "findDispatch") \o OpSig(opState, "Idle"))
  /\ UNCHANGED <<setupVars, clientVars, connected, findUrl, epVars, listVars, inFlight>>

StaleFindReply_LateOnly == ~findPending   \* mutant: the URL is not compared

StaleFindReply == ~findPending \/ Arg # findUrl

(* A failed or empty answer leaves the list cleared by DiscoverServers.     *)
FindServersComplete ==
  /\ Handling("findReply")
  /\ Consume
  /\ \/ /\ StaleFindReply
        /\ UNCHANGED <<findPending, findTimer, opState, lastError, servers, toGui>>
     \/ /\ ~StaleFindReply
        /\ findPending' = FALSE /\ findTimer' = FALSE
        /\ opState' = "Idle"
        /\ IF Head(inbox).good
           THEN /\ servers' = Arg
                /\ Emit(OpSig(opState, "Idle") \o Sig("servers", Arg))
                /\ UNCHANGED lastError
           ELSE /\ lastError' = "find"
                /\ Emit(OpSig(opState, "Idle") \o ErrSig(lastError, "find"))
                /\ UNCHANGED servers
  /\ UNCHANGED <<setupVars, clientVars, connected, findUrl, epVars, endpoints, cache, inFlight>>

HandleFindServersTimeout_Silent ==   \* mutant: the request is not given up
  /\ findTimer
  /\ findTimer' = FALSE
  /\ UNCHANGED <<setupVars, clientVars, opState, connected, lastError, findPending, findUrl,
                 epVars, listVars, inbox, toGui, inFlight>>

HandleFindServersTimeout ==
  /\ findTimer
  /\ findTimer' = FALSE
  /\ \/ ~findPending /\ UNCHANGED <<findPending, opState, lastError, toGui>>
     \/ /\ findPending
        /\ findPending' = FALSE
        /\ opState' = "Idle" /\ lastError' = "findTimeout"
        /\ Emit(OpSig(opState, "Idle") \o ErrSig(lastError, "findTimeout"))
  /\ UNCHANGED <<setupVars, clientVars, connected, findUrl, epVars, listVars, inbox, inFlight>>

-----------------------------------------------------------------------------
(* GetEndpoints.                                                           *)

(* requestEndpoints(url).  A cached list for the same URL and               *)
(* authentication mode completes within the call.                           *)
RequestEndpoints(url) ==
  LET cleared == OpSig(opState, "RequestingEndpoints")
                 \o (IF endpoints = None THEN <<>> ELSE Sig("endpoints", None))
                 \o ErrSig(lastError, NoError)
      refuse(err) ==
        /\ epPending' = FALSE /\ epTimer' = FALSE
        /\ opState' = "Idle" /\ lastError' = err
        /\ endpoints' = None
        /\ Emit(cleared \o Sig("lastError", err) \o Sig("operationState", "Idle"))
        /\ Consume
        /\ UNCHANGED epUrl
  IN /\ \/ url = BadUrl /\ refuse("url") /\ UNCHANGED clientVars
        \/ url # BadUrl /\ ClientUnavailable /\ refuse("client")
        \/ url # BadUrl /\ EnsureClient(NoError) /\ auth = "certificate" /\ refuse("certificate")
        \/ url # BadUrl /\ EnsureClient("certificate") /\ refuse("certificate")
        \/ /\ url # BadUrl /\ EnsureClient(NoError)
           /\ lastError' = NoError /\ epUrl' = url
           /\ \/ /\ cache = [url |-> url, auth |-> auth]
                 /\ epPending' = FALSE /\ epTimer' = FALSE
                 /\ opState' = "Idle"
                 /\ endpoints' = url
                 /\ Emit(cleared \o Sig("operationState", "Idle") \o Sig("endpoints", url))
                 /\ Consume
              \/ /\ cache # [url |-> url, auth |-> auth]
                 /\ epPending' = TRUE /\ epTimer' = TRUE
                 /\ opState' = "RequestingEndpoints"
                 /\ endpoints' = None
                 /\ Emit(cleared)
                 /\ ConsumeAndPost(Task("runEndpoints", url, client'))
     /\ UNCHANGED <<setupVars, connected, findVars, servers, cache, inFlight>>

RequestEndpointsForUrl == Handling("endpoints") /\ RequestEndpoints(Arg)

RequestEndpointsForServer ==
  /\ Handling("endpointsForServer")
  /\ \/ /\ servers = None
        /\ Consume
        /\ lastError' = "server"
        /\ Emit(ErrSig(lastError, "server"))
        /\ UNCHANGED <<setupVars, clientVars, opState, connected, findVars, epVars,
                       listVars, inFlight>>
     \/ servers # None /\ RequestEndpoints(servers)

RunRequestEndpoints ==
  /\ Handling("runEndpoints")
  /\ \/ Head(inbox).from # client /\ Consume /\ UNCHANGED inFlight
     \/ /\ Head(inbox).from = client
        /\ \/ inFlight' = inFlight \cup {<<"endpoints", Arg>>} /\ Consume
           \/ ConsumeAndPost(Msg("endpointsNotDispatched", Arg)) /\ UNCHANGED inFlight
  /\ UNCHANGED <<setupVars, clientVars, opState, connected, lastError, findVars, epVars,
                 listVars, toGui>>

HandleEndpointsDispatchResult ==
  /\ Handling("endpointsNotDispatched")
  /\ Consume
  /\ \/ /\ Arg # epUrl
        /\ UNCHANGED <<epPending, epTimer, opState, lastError, toGui>>
     \/ /\ Arg = epUrl
        /\ epPending' = FALSE /\ epTimer' = FALSE
        /\ opState' = "Idle" /\ lastError' = "endpointsDispatch"
        /\ Emit(ErrSig(lastError, "endpointsDispatch") \o OpSig(opState, "Idle"))
  /\ UNCHANGED <<setupVars, clientVars, connected, findVars, epUrl, listVars, inFlight>>

GetEndpointsComplete ==
  /\ Handling("endpointsReply")
  /\ Consume
  /\ \/ /\ ~epPending \/ Arg # epUrl
        /\ UNCHANGED <<epPending, epTimer, opState, lastError, endpoints, cache, toGui>>
     \/ /\ epPending /\ Arg = epUrl
        /\ epPending' = FALSE /\ epTimer' = FALSE
        /\ opState' = "Idle"
        /\ LET cleared == OpSig(opState, "Idle")
                          \o (IF endpoints = None THEN <<>> ELSE Sig("endpoints", None))
           IN IF Head(inbox).good
              THEN /\ endpoints' = Arg
                   /\ cache' = [url |-> Arg, auth |-> auth]
                   /\ Emit(cleared \o Sig("endpoints", Arg))
                   /\ UNCHANGED lastError
              ELSE /\ endpoints' = None
                   /\ lastError' = "endpoints"
                   /\ Emit(cleared \o ErrSig(lastError, "endpoints"))
                   /\ UNCHANGED cache
  /\ UNCHANGED <<setupVars, clientVars, connected, findVars, epUrl, servers, inFlight>>

HandleEndpointsTimeout ==
  /\ epTimer
  /\ epTimer' = FALSE
  /\ \/ ~epPending /\ UNCHANGED <<epPending, opState, lastError, toGui>>
     \/ /\ epPending
        /\ epPending' = FALSE
        /\ opState' = "Idle" /\ lastError' = "endpointsTimeout"
        /\ Emit(OpSig(opState, "Idle") \o ErrSig(lastError, "endpointsTimeout"))
  /\ UNCHANGED <<setupVars, clientVars, connected, findVars, epUrl, listVars, inbox, inFlight>>

-----------------------------------------------------------------------------
(* Connect and disconnect.                                                 *)

DisconnectFromServer ==
  /\ Handling("disconnect")
  /\ \/ /\ client = 0
        /\ opState' = "Idle" /\ Emit(OpSig(opState, "Idle"))
        /\ Consume
     \/ /\ client # 0
        /\ opState' = "Disconnecting" /\ Emit(OpSig(opState, "Disconnecting"))
        /\ ConsumeAndPost(Task("runDisconnect", None, client))
  /\ UNCHANGED <<setupVars, clientVars, connected, lastError, findVars, epVars, listVars,
                 inFlight>>

(* connectToEndpoint(): with a session it disconnects instead; otherwise the *)
(* index must be in range and the endpoint must accept the authentication.  *)
ConnectBegan == ErrSig(lastError, NoError) \o OpSig(opState, "Connecting")

RefuseConnect(e0, e) ==
  /\ lastError' = e /\ opState' = "Idle"
  /\ Emit(ConnectBegan \o ErrSig(NoError, e0) \o ErrSig(e0, e) \o Sig("operationState", "Idle"))
  /\ Consume

ConnectToEndpoint ==
  /\ Handling("connect")
  /\ \/ ClientUnavailable /\ RefuseConnect(NoError, "client")
     \/ \E err \in {NoError, "certificate"} :
          /\ EnsureClient(err)
          /\ \/ /\ connected
                /\ lastError' = err /\ opState' = "Disconnecting"
                /\ Emit(ConnectBegan \o ErrSig(NoError, err)
                        \o Sig("operationState", "Disconnecting"))
                /\ ConsumeAndPost(Task("runDisconnect", None, client'))
             \/ ~connected /\ endpoints = None /\ RefuseConnect(err, "index")
             \/ /\ ~connected /\ endpoints # None /\ auth \notin Supported
                /\ RefuseConnect(err, "auth")
             \/ /\ ~connected /\ endpoints # None /\ auth \in Supported
                /\ \/ auth = "certificate" /\ RefuseConnect(err, "certificate")
                   \/ /\ err = NoError
                      /\ lastError' = NoError /\ opState' = "Connecting"
                      /\ Emit(ConnectBegan)
                      /\ ConsumeAndPost(Task("runConnect", endpoints, client'))
  /\ UNCHANGED <<setupVars, connected, findVars, epVars, listVars, inFlight>>

(* The client starts a connection only when it has none.                    *)
RunConnect ==
  /\ Handling("runConnect")
  /\ \/ /\ Head(inbox).from # client \/ cliState # "Disconnected"
        /\ Consume /\ UNCHANGED clientVars
     \/ /\ Head(inbox).from = client /\ cliState = "Disconnected"
        /\ cliState' = "Connecting" /\ cliUrl' = Arg
        /\ ConsumeAndPost(Msg("clientState", "Connecting"))
        /\ UNCHANGED <<client, lastClient>>
  /\ UNCHANGED <<setupVars, opState, connected, lastError, findVars, epVars, listVars,
                 toGui, inFlight>>

RunDisconnect ==
  /\ Handling("runDisconnect")
  /\ \/ /\ \/ Head(inbox).from # client
           \/ cliState = "Closing"
           \/ cliState = "Disconnected" /\ ~AnswersRedundantDisconnect
        /\ Consume /\ UNCHANGED clientVars
     \/ /\ Head(inbox).from = client /\ cliState = "Disconnected" /\ AnswersRedundantDisconnect
        /\ ConsumeAndPost(Msg("clientState", "Disconnected"))
        /\ UNCHANGED clientVars
     \/ /\ Head(inbox).from = client /\ cliState \in {"Connecting", "Connected"}
        /\ cliState' = "Closing"
        /\ ConsumeAndPost(Msg("clientState", "Closing"))
        /\ UNCHANGED <<client, lastClient, cliUrl>>
  /\ UNCHANGED <<setupVars, opState, connected, lastError, findVars, epVars, listVars,
                 toGui, inFlight>>

(* The client is dereferenced: without one the process ends here.           *)
OnClientConnected ==
  /\ Handling("clientConnected")
  /\ client # 0
  /\ Consume
  /\ connected' = TRUE
  /\ opState' = "Idle" /\ lastError' = NoError
  /\ Emit(OpSig(opState, "Idle") \o ErrSig(lastError, NoError) \o Sig("connected", TRUE))
  /\ UNCHANGED <<setupVars, clientVars, findVars, epVars, listVars, inFlight>>

OnClientDisconnected_KeepsFlag ==   \* mutant: m_clientConnected survives
  /\ Handling("clientDisconnected")
  /\ Consume
  /\ opState' = "Idle"
  /\ Emit(OpSig(opState, "Idle"))
  /\ UNCHANGED <<setupVars, clientVars, connected, lastError, findVars, epVars, listVars,
                 inFlight>>

OnClientDisconnected ==
  /\ Handling("clientDisconnected")
  /\ Consume
  /\ connected' = FALSE
  /\ opState' = "Idle"
  /\ Emit(OpSig(opState, "Idle") \o Sig("connected", FALSE))
  /\ UNCHANGED <<setupVars, clientVars, lastError, findVars, epVars, listVars, inFlight>>

OnClientStateChanged ==
  /\ Handling("clientState")
  /\ Consume
  /\ opState' = IF Arg = "Connecting" THEN "Connecting"
                ELSE IF Arg = "Closing" THEN "Disconnecting" ELSE "Idle"
  /\ Emit(OpSig(opState, opState'))
  /\ UNCHANGED <<setupVars, clientVars, connected, lastError, findVars, epVars, listVars,
                 inFlight>>

OnClientErrorChanged ==
  /\ Handling("clientError")
  /\ Consume
  /\ opState' = "Idle" /\ lastError' = "client error"
  /\ Emit(OpSig(opState, "Idle") \o ErrSig(lastError, "client error"))
  /\ UNCHANGED <<setupVars, clientVars, connected, findVars, epVars, listVars, inFlight>>

-----------------------------------------------------------------------------
(* The client's backend: external, modelled from the signals the service   *)
(* connects to.  Its reports are queued behind what the worker already has. *)

BackendAnswers(request) ==
  /\ request \in inFlight
  /\ inFlight' = inFlight \ {request}
  /\ \E good \in BOOLEAN :
       inbox' = Append(inbox, Reply(IF request[1] = "find" THEN "findReply" ELSE "endpointsReply",
                                    request[2], good))
  /\ UNCHANGED <<setupVars, clientVars, opState, connected, lastError, findVars, epVars,
                 listVars, toGui>>

SessionOpens ==
  /\ cliState = "Connecting"
  /\ cliState' = "Connected"
  /\ inbox' = inbox \o <<Msg("clientState", "Connected"), Msg("clientConnected", None)>>
  /\ UNCHANGED <<setupVars, client, lastClient, cliUrl, opState, connected, lastError,
                 findVars, epVars, listVars, toGui, inFlight>>

(* connectError is connected directly, so onConnectError() runs at once; the *)
(* client's other signals are queued.                                       *)
SessionFails ==
  /\ cliState = "Connecting"
  /\ cliState' = "Disconnected"
  /\ opState' = "Idle" /\ lastError' = "connect"
  /\ Emit(OpSig(opState, "Idle") \o ErrSig(lastError, "connect"))
  /\ inbox' = inbox \o <<Msg("clientError", None), Msg("clientState", "Disconnected"),
                         Msg("clientDisconnected", None)>>
  /\ UNCHANGED <<setupVars, client, lastClient, cliUrl, connected, findVars, epVars, listVars,
                 inFlight>>

SessionLost ==
  /\ cliState = "Connected"
  /\ cliState' = "Disconnected"
  /\ inbox' = inbox \o <<Msg("clientError", None), Msg("clientState", "Disconnected"),
                         Msg("clientDisconnected", None)>>
  /\ UNCHANGED <<setupVars, client, lastClient, cliUrl, opState, connected, lastError,
                 findVars, epVars, listVars, toGui, inFlight>>

SessionCloses ==
  /\ cliState = "Closing"
  /\ cliState' = "Disconnected"
  /\ inbox' = inbox \o <<Msg("clientState", "Disconnected"), Msg("clientDisconnected", None)>>
  /\ UNCHANGED <<setupVars, client, lastClient, cliUrl, opState, connected, lastError,
                 findVars, epVars, listVars, toGui, inFlight>>

-----------------------------------------------------------------------------
(* The service against any GUI, which posts any commands and takes signals *)
(* at any moment.                                                          *)

Commands ==
  {Msg("setBackend", b) : b \in Backends}
  \cup {Msg("setAuth", m) : m \in AuthModes \cup {"nameless"}}
  \cup {Msg("setRewrite", on) : on \in BOOLEAN}
  \cup {Msg("discover", u) : u \in Urls \cup {BadUrl}}
  \cup {Msg("endpoints", u) : u \in Urls \cup {BadUrl}}
  \cup {Msg("endpointsForServer", None), Msg("connect", None), Msg("disconnect", None)}

GuiStep ==
  /\ LET posted == SubSeq(inbox', Len(inbox) + 1, Len(inbox'))
     IN posted \in Seq(Commands) /\ inbox' = inbox \o posted
  /\ toGui' = toGui \/ (toGui # <<>> /\ toGui' = Tail(toGui))
  /\ UNCHANGED <<setupVars, clientVars, opState, connected, lastError, findVars, epVars,
                 listVars, inFlight>>

WorkerStep ==
  \/ SetBackend \/ SetAuthentication \/ SetEndpointUrlRewriteEnabled
  \/ DiscoverServers \/ RunFindServers \/ HandleFindServersDispatchResult
  \/ FindServersComplete
  \/ RequestEndpointsForUrl \/ RequestEndpointsForServer \/ RunRequestEndpoints
  \/ HandleEndpointsDispatchResult \/ GetEndpointsComplete
  \/ ConnectToEndpoint \/ DisconnectFromServer \/ RunConnect \/ RunDisconnect
  \/ OnClientConnected \/ OnClientDisconnected \/ OnClientStateChanged
  \/ OnClientErrorChanged

TimerStep == HandleFindServersTimeout \/ HandleEndpointsTimeout

BackendStep ==
  \/ \E request \in inFlight : BackendAnswers(request)
  \/ SessionOpens \/ SessionFails \/ SessionLost \/ SessionCloses

ServiceStep == WorkerStep \/ TimerStep \/ BackendStep

(* After initialize(), once its signals were delivered.                     *)
Init ==
  /\ backend \in Backends /\ auth = "anonymous" /\ rewrite = FALSE
  /\ client = 0 /\ lastClient = 0 /\ cliState = "Disconnected" /\ cliUrl = None
  /\ opState = "Idle" /\ connected = FALSE /\ lastError = NoError
  /\ findPending = FALSE /\ findTimer = FALSE /\ findUrl = None
  /\ epPending = FALSE /\ epTimer = FALSE /\ epUrl = None
  /\ servers = None /\ endpoints = None /\ cache = None
  /\ inbox = <<>> /\ toGui = <<>> /\ inFlight = {}

Next == ServiceStep \/ GuiStep

Spec == Init /\ [][Next]_svcVars

-----------------------------------------------------------------------------
(* Properties.                                                             *)

Message(kinds, args) == [kind : kinds, arg : args, from : Nat, good : BOOLEAN]

(* What the worker's event queue can hold.                                  *)
Messages ==
  Message({"setBackend"}, Backends)
  \cup Message({"setAuth"}, AuthModes \cup {"nameless"})
  \cup Message({"setRewrite"}, BOOLEAN)
  \cup Message({"discover", "endpoints"}, Urls \cup {BadUrl})
  \cup Message({"runFind", "findNotDispatched", "findReply", "runEndpoints",
                "endpointsNotDispatched", "endpointsReply", "runConnect"}, Urls)
  \cup Message({"clientState"}, ClientStates)
  \cup Message({"endpointsForServer", "connect", "disconnect", "runDisconnect",
                "clientConnected", "clientDisconnected", "clientError"}, {None})

(* Types; a request the service still waits for, or the backend has, names   *)
(* a real URL.                                                               *)
TypeOK ==
  /\ backend \in Backends /\ auth \in AuthModes /\ rewrite \in BOOLEAN
  /\ client \in Nat /\ lastClient \in Nat /\ client <= lastClient
  /\ cliState \in ClientStates /\ cliUrl \in Urls \cup {None}
  /\ opState \in OperationStates /\ connected \in BOOLEAN
  /\ findPending \in BOOLEAN /\ findTimer \in BOOLEAN /\ findUrl \in Urls \cup {None}
  /\ epPending \in BOOLEAN /\ epTimer \in BOOLEAN /\ epUrl \in Urls \cup {None}
  /\ findPending => findUrl \in Urls
  /\ epPending => epUrl \in Urls
  /\ servers \in Urls \cup {None} /\ endpoints \in Urls \cup {None}
  /\ cache \in [url : Urls, auth : AuthModes] \cup {None}
  /\ inFlight \subseteq {"find", "endpoints"} \X Urls
  /\ inbox \in Seq(Messages)

(* discoverServers() "keeps a timeout around FindServers" because a backend   *)
(* may never answer (opcuaservice.cpp:489): whatever commands, refusals, late *)
(* answers and backend switches come in any order, a busy discovery or lookup *)
(* is one still pending, and each pending request has its timer running.      *)
BusyIsWatched ==
  /\ findPending <=> findTimer
  /\ epPending <=> epTimer
  /\ opState = "DiscoveringServers" => findPending
  /\ opState = "RequestingEndpoints" => epPending

(* "Stale callbacks are ignored" (opcuaservice.cpp:2042): what the lists show *)
(* was produced for the URL asked last, never by an answer to an earlier one. *)
ListsAnswerLatestRequest ==
  /\ servers # None => servers = findUrl
  /\ endpoints # None => endpoints = epUrl
=============================================================================
