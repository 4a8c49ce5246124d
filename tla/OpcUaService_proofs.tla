------------------------ MODULE OpcUaService_proofs -------------------------
(* Proofs about the worker-thread service, for every set of URLs, backends  *)
(* and supported modes and for a GUI that posts any commands at any time.    *)
EXTENDS OpcUaService, SequenceTheorems, TLAPS

-----------------------------------------------------------------------------
(* The event queue.                                                        *)

LEMMA HeadOfInbox ==
  ASSUME inbox \in Seq(Messages), inbox # <<>>
  PROVE  Head(inbox) \in Messages /\ Tail(inbox) \in Seq(Messages)
BY HeadTailProperties

LEMMA ConsumeTyped ==
  ASSUME inbox \in Seq(Messages), inbox # <<>>, Consume
  PROVE  inbox' \in Seq(Messages)
BY HeadOfInbox DEF Consume

LEMMA PostTyped ==
  ASSUME inbox \in Seq(Messages), inbox # <<>>, NEW m \in Messages, ConsumeAndPost(m)
  PROVE  inbox' \in Seq(Messages)
BY HeadOfInbox, AppendProperties DEF ConsumeAndPost

LEMMA PostTwo ==
  ASSUME inbox \in Seq(Messages), NEW m \in Messages, NEW n \in Messages
  PROVE  inbox \o <<m, n>> \in Seq(Messages)
BY ConcatProperties, <<m, n>> \in Seq(Messages)

LEMMA PostThree ==
  ASSUME inbox \in Seq(Messages), NEW l \in Messages, NEW m \in Messages, NEW n \in Messages
  PROVE  inbox \o <<l, m, n>> \in Seq(Messages)
BY ConcatProperties, <<l, m, n>> \in Seq(Messages)

(* The argument of a message is of the type its kind calls for.             *)
LEMMA ArgumentTypes ==
  ASSUME inbox \in Seq(Messages)
  PROVE  /\ Handling("setBackend") => Arg \in Backends
         /\ Handling("setAuth") => Arg \in AuthModes \cup {"nameless"}
         /\ Handling("setRewrite") => Arg \in BOOLEAN
         /\ Handling("discover") \/ Handling("endpoints") => Arg \in Urls \cup {BadUrl}
         /\ \/ Handling("runFind") \/ Handling("runEndpoints") \/ Handling("runConnect")
            \/ Handling("findReply") \/ Handling("endpointsReply")
            => Arg \in Urls
<1> SUFFICES ASSUME inbox # <<>>
             PROVE  /\ Head(inbox).kind = "setBackend" => Arg \in Backends
                    /\ Head(inbox).kind = "setAuth" => Arg \in AuthModes \cup {"nameless"}
                    /\ Head(inbox).kind = "setRewrite" => Arg \in BOOLEAN
                    /\ Head(inbox).kind \in {"discover", "endpoints"} => Arg \in Urls \cup {BadUrl}
                    /\ Head(inbox).kind \in {"runFind", "runEndpoints", "runConnect", "findReply",
                                             "endpointsReply"} => Arg \in Urls
  BY DEF Handling
<1>1. Head(inbox) \in Messages
  BY HeadOfInbox
<1> HIDE DEF Messages
<1> QED
  BY <1>1 DEF Messages, Message, Arg

(* Every message the code posts is one the queue can hold.                  *)
LEMMA PostedTypes ==
  /\ \A u \in Urls, c \in Nat : /\ Task("runFind", u, c) \in Messages
                                /\ Task("runEndpoints", u, c) \in Messages
                                /\ Task("runConnect", u, c) \in Messages
                                /\ Msg("findNotDispatched", u) \in Messages
                                /\ Msg("endpointsNotDispatched", u) \in Messages
  /\ \A u \in Urls, good \in BOOLEAN : /\ Reply("findReply", u, good) \in Messages
                                       /\ Reply("endpointsReply", u, good) \in Messages
  /\ \A c \in Nat : Task("runDisconnect", None, c) \in Messages
  /\ \A s \in ClientStates : Msg("clientState", s) \in Messages
  /\ Msg("clientConnected", None) \in Messages
  /\ Msg("clientDisconnected", None) \in Messages
  /\ Msg("clientError", None) \in Messages
BY DEF Task, Msg, Reply, Messages, Message

LEMMA CommandsAreMessages == Commands \subseteq Messages
<1>1. /\ \A b \in Backends : Msg("setBackend", b) \in Messages
      /\ \A m \in AuthModes \cup {"nameless"} : Msg("setAuth", m) \in Messages
      /\ \A on \in BOOLEAN : Msg("setRewrite", on) \in Messages
      /\ \A u \in Urls \cup {BadUrl} : /\ Msg("discover", u) \in Messages
                                       /\ Msg("endpoints", u) \in Messages
      /\ Msg("endpointsForServer", None) \in Messages
      /\ Msg("connect", None) \in Messages
      /\ Msg("disconnect", None) \in Messages
  BY DEF Msg, Messages, Message
<1> QED
  BY <1>1, Zenon DEF Commands

-----------------------------------------------------------------------------
(* The client.                                                             *)

LEMMA EnsureClientTyped ==
  ASSUME TypeOK, NEW err, EnsureClient(err)
  PROVE  /\ client' \in Nat /\ lastClient' \in Nat /\ client' <= lastClient'
         /\ cliState' \in ClientStates /\ cliUrl' \in Urls \cup {None}
<1>1. \/ UNCHANGED clientVars
      \/ /\ client' = lastClient + 1 /\ lastClient' = lastClient + 1
         /\ cliState' = "Disconnected" /\ cliUrl' = None
  BY Zenon DEF EnsureClient
<1> QED
  BY <1>1 DEF TypeOK, ClientStates, clientVars

-----------------------------------------------------------------------------
(* Each operation of the service keeps the types.                          *)

LEMMA SetupTyped ==
  ASSUME TypeOK, SetBackend \/ SetAuthentication \/ SetEndpointUrlRewriteEnabled
  PROVE  TypeOK'
<1>1. inbox # <<>> /\ Consume
  BY Zenon DEF SetBackend, SetAuthentication, SetEndpointUrlRewriteEnabled, Handling
<1>2. inbox' \in Seq(Messages)
  BY <1>1, ConsumeTyped DEF TypeOK
<1>3. CASE SetBackend
  <2>1. Arg \in Backends
    BY <1>3, ArgumentTypes DEF SetBackend, TypeOK
  <2>2. CASE UNCHANGED <<setupVars, clientVars, opState, connected, findVars, epVars, listVars,
                         inFlight>>
    BY <1>2, <2>2 DEF TypeOK, setupVars, clientVars, findVars, epVars, listVars
  <2>3. CASE Arg # backend /\ ~ UNCHANGED <<setupVars, clientVars, opState, connected, findVars,
                                            epVars, listVars, inFlight>>
    <3>1. /\ CancelRequests /\ opState' = "Idle" /\ connected' \in BOOLEAN
          /\ cache' = None /\ endpoints' = None /\ backend' = Arg /\ inFlight' = {}
          /\ cliState' = "Disconnected" /\ cliUrl' = None
          /\ UNCHANGED <<auth, rewrite, findUrl, epUrl, servers>>
      BY <1>3, <2>3, Zenon DEF SetBackend
    <3>2. \E created \in BOOLEAN :
            /\ client' = IF created THEN lastClient + 1 ELSE 0
            /\ lastClient' = IF created THEN lastClient + 1 ELSE lastClient
      BY <1>3, <2>3, Zenon DEF SetBackend
    <3>3. client' \in Nat /\ lastClient' \in Nat /\ client' <= lastClient'
      BY <3>2 DEF TypeOK
    <3> QED
      BY <1>2, <2>1, <3>1, <3>3 DEF TypeOK, CancelRequests, OperationStates, ClientStates
  <2> QED
    BY <1>3, <2>2, <2>3, Zenon DEF SetBackend
<1>4. CASE SetAuthentication
  <2>1. /\ auth' \in AuthModes \cup {auth} /\ cache' \in {None, cache}
        /\ UNCHANGED <<backend, rewrite, clientVars, opState, connected, findVars, epVars,
                       servers, endpoints, inFlight>>
    BY <1>4, Zenon DEF SetAuthentication
  <2> QED
    BY <1>2, <2>1 DEF TypeOK, clientVars, findVars, epVars
<1>5. CASE SetEndpointUrlRewriteEnabled
  <2>1. Arg \in BOOLEAN
    BY <1>5, ArgumentTypes DEF SetEndpointUrlRewriteEnabled, TypeOK
  <2> QED
    BY <1>2, <1>5, <2>1 DEF SetEndpointUrlRewriteEnabled, TypeOK, clientVars, findVars, epVars
<1> QED
  BY <1>3, <1>4, <1>5

LEMMA FindTyped ==
  ASSUME TypeOK, \/ DiscoverServers \/ RunFindServers \/ HandleFindServersDispatchResult
                 \/ FindServersComplete
  PROVE  TypeOK'
<1>1. inbox # <<>>
  BY Zenon DEF DiscoverServers, RunFindServers, HandleFindServersDispatchResult,
               FindServersComplete, Handling
<1>2. inbox \in Seq(Messages)
  BY DEF TypeOK
<1>3. CASE DiscoverServers
  <2> USE <1>3 DEF DiscoverServers
  <2>1. CASE /\ findPending' = FALSE /\ findTimer' = FALSE /\ opState' = "Idle" /\ Consume
             /\ UNCHANGED <<clientVars, findUrl>>
    <3>1. inbox' \in Seq(Messages)
      BY <1>1, <1>2, <2>1, ConsumeTyped
    <3> QED
      BY <2>1, <3>1 DEF TypeOK, OperationStates, setupVars, clientVars, epVars
  <2>2. CASE /\ Arg \in Urls /\ findPending' = TRUE /\ findTimer' = TRUE /\ findUrl' = Arg
             /\ opState' = "DiscoveringServers"
             /\ ConsumeAndPost(Task("runFind", Arg, client'))
             /\ \E err \in {NoError, "certificate"} : EnsureClient(err)
    <3>1. /\ client' \in Nat /\ lastClient' \in Nat /\ client' <= lastClient'
          /\ cliState' \in ClientStates /\ cliUrl' \in Urls \cup {None}
      BY <2>2, EnsureClientTyped
    <3>2. inbox' \in Seq(Messages)
      BY <1>1, <1>2, <2>2, <3>1, PostedTypes, PostTyped
    <3> QED
      BY <2>2, <3>1, <3>2 DEF TypeOK, OperationStates, setupVars, epVars
  <2> QED
    BY <2>1, <2>2, Zenon
<1>4. CASE RunFindServers
  <2>1. Arg \in Urls
    BY <1>2, <1>4, ArgumentTypes DEF RunFindServers
  <2>2. inbox' \in Seq(Messages)
    BY <1>1, <1>2, <1>4, <2>1, ConsumeTyped, PostedTypes, PostTyped DEF RunFindServers
  <2>3. inFlight' \subseteq {"find", "endpoints"} \X Urls
    BY <1>4, <2>1 DEF RunFindServers, TypeOK
  <2> QED
    BY <1>4, <2>2, <2>3 DEF RunFindServers, TypeOK, setupVars, clientVars, findVars, epVars, listVars
<1>5. CASE HandleFindServersDispatchResult
  <2>1. inbox' \in Seq(Messages)
    BY <1>1, <1>2, <1>5, ConsumeTyped DEF HandleFindServersDispatchResult
  <2>2. /\ \/ UNCHANGED <<findPending, findTimer, opState>>
           \/ findPending' = FALSE /\ findTimer' = FALSE /\ opState' = "Idle"
        /\ UNCHANGED <<setupVars, clientVars, connected, findUrl, epVars, listVars, inFlight>>
    BY <1>5, Zenon DEF HandleFindServersDispatchResult
  <2>3. CASE UNCHANGED <<findPending, findTimer, opState>>
    BY <2>1, <2>2, <2>3 DEF TypeOK, OperationStates, setupVars, clientVars, epVars, listVars
  <2>4. CASE findPending' = FALSE /\ findTimer' = FALSE /\ opState' = "Idle"
    BY <2>1, <2>2, <2>4 DEF TypeOK, OperationStates, setupVars, clientVars, epVars, listVars
  <2> QED
    BY <2>2, <2>3, <2>4
<1>6. CASE FindServersComplete
  <2>1. inbox' \in Seq(Messages)
    BY <1>1, <1>2, <1>6, ConsumeTyped DEF FindServersComplete
  <2>2. Arg \in Urls
    BY <1>2, <1>6, ArgumentTypes DEF FindServersComplete
  <2>3. /\ \/ UNCHANGED <<findPending, findTimer, opState, servers>>
           \/ /\ findPending' = FALSE /\ findTimer' = FALSE /\ opState' = "Idle"
              /\ servers' = Arg \/ UNCHANGED servers
        /\ UNCHANGED <<setupVars, clientVars, connected, findUrl, epVars, endpoints, cache,
                       inFlight>>
    BY <1>6, Zenon DEF FindServersComplete
  <2>4. CASE UNCHANGED <<findPending, findTimer, opState, servers>>
    BY <2>1, <2>3, <2>4 DEF TypeOK, OperationStates, setupVars, clientVars, epVars
  <2>5. CASE /\ findPending' = FALSE /\ findTimer' = FALSE /\ opState' = "Idle"
             /\ servers' = Arg \/ UNCHANGED servers
    BY <2>1, <2>2, <2>3, <2>5 DEF TypeOK, OperationStates, setupVars, clientVars, epVars
  <2> QED
    BY <2>3, <2>4, <2>5
<1> QED
  BY <1>3, <1>4, <1>5, <1>6

(* requestEndpoints(url), for a URL from the caller or of the server list.   *)
LEMMA RequestTyped ==
  ASSUME TypeOK, inbox # <<>>, NEW url \in Urls \cup {BadUrl}, RequestEndpoints(url)
  PROVE  TypeOK'
<1>1. inbox \in Seq(Messages)
  BY DEF TypeOK
<1>2. CASE /\ epPending' = FALSE /\ epTimer' = FALSE /\ opState' = "Idle"
           /\ endpoints' = None /\ Consume /\ UNCHANGED epUrl
           /\ UNCHANGED clientVars \/ \E err : EnsureClient(err)
  <2>1. inbox' \in Seq(Messages)
    BY <1>1, <1>2, ConsumeTyped
  <2>2. /\ client' \in Nat /\ lastClient' \in Nat /\ client' <= lastClient'
        /\ cliState' \in ClientStates /\ cliUrl' \in Urls \cup {None}
    BY <1>2, EnsureClientTyped DEF TypeOK, clientVars
  <2>3. UNCHANGED <<setupVars, connected, findVars, servers, cache, inFlight>>
    BY DEF RequestEndpoints
  <2> QED
    BY <1>2, <2>1, <2>2, <2>3 DEF TypeOK, OperationStates, setupVars, findVars
<1>3. CASE /\ url # BadUrl /\ EnsureClient(NoError) /\ epUrl' = url
           /\ \/ /\ epPending' = FALSE /\ epTimer' = FALSE /\ opState' = "Idle"
                 /\ endpoints' = url /\ Consume
              \/ /\ epPending' = TRUE /\ epTimer' = TRUE /\ opState' = "RequestingEndpoints"
                 /\ endpoints' = None /\ ConsumeAndPost(Task("runEndpoints", url, client'))
  <2>1. url \in Urls
    BY <1>3
  <2>2. /\ client' \in Nat /\ lastClient' \in Nat /\ client' <= lastClient'
        /\ cliState' \in ClientStates /\ cliUrl' \in Urls \cup {None}
    BY <1>3, EnsureClientTyped
  <2>3. inbox' \in Seq(Messages)
    BY <1>1, <1>3, <2>1, <2>2, ConsumeTyped, PostedTypes, PostTyped
  <2>4. UNCHANGED <<setupVars, connected, findVars, servers, cache, inFlight>>
    BY DEF RequestEndpoints
  <2> QED
    BY <1>3, <2>1, <2>2, <2>3, <2>4 DEF TypeOK, OperationStates, setupVars, findVars
<1> QED
  BY <1>2, <1>3, Zenon DEF RequestEndpoints, ClientUnavailable

LEMMA EndpointsTyped ==
  ASSUME TypeOK, \/ RequestEndpointsForUrl \/ RequestEndpointsForServer \/ RunRequestEndpoints
                 \/ HandleEndpointsDispatchResult \/ GetEndpointsComplete
  PROVE  TypeOK'
<1>1. inbox # <<>>
  BY Zenon DEF RequestEndpointsForUrl, RequestEndpointsForServer, RunRequestEndpoints,
               HandleEndpointsDispatchResult, GetEndpointsComplete, Handling
<1>2. inbox \in Seq(Messages)
  BY DEF TypeOK
<1>3. CASE RequestEndpointsForUrl
  BY <1>1, <1>2, <1>3, ArgumentTypes, RequestTyped DEF RequestEndpointsForUrl
<1>4. CASE RequestEndpointsForServer
  <2>1. CASE servers # None /\ RequestEndpoints(servers)
    BY <1>1, <2>1, RequestTyped DEF TypeOK
  <2>2. CASE /\ Consume /\ UNCHANGED <<setupVars, clientVars, opState, connected, findVars,
                                       epVars, listVars, inFlight>>
    <3>1. inbox' \in Seq(Messages)
      BY <1>1, <1>2, <2>2, ConsumeTyped
    <3> QED
      BY <2>2, <3>1 DEF TypeOK, setupVars, clientVars, findVars, epVars, listVars
  <2> QED
    BY <1>4, <2>1, <2>2, Zenon DEF RequestEndpointsForServer
<1>5. CASE RunRequestEndpoints
  <2>1. Arg \in Urls
    BY <1>2, <1>5, ArgumentTypes DEF RunRequestEndpoints
  <2>2. inbox' \in Seq(Messages)
    BY <1>1, <1>2, <1>5, <2>1, ConsumeTyped, PostedTypes, PostTyped DEF RunRequestEndpoints
  <2>3. inFlight' \subseteq {"find", "endpoints"} \X Urls
    BY <1>5, <2>1 DEF RunRequestEndpoints, TypeOK
  <2> QED
    BY <1>5, <2>2, <2>3 DEF RunRequestEndpoints, TypeOK, setupVars, clientVars, findVars, epVars,
                            listVars
<1>6. CASE HandleEndpointsDispatchResult
  <2>1. inbox' \in Seq(Messages)
    BY <1>1, <1>2, <1>6, ConsumeTyped DEF HandleEndpointsDispatchResult
  <2>2. /\ \/ UNCHANGED <<epPending, epTimer, opState>>
           \/ epPending' = FALSE /\ epTimer' = FALSE /\ opState' = "Idle"
        /\ UNCHANGED <<setupVars, clientVars, connected, findVars, epUrl, listVars, inFlight>>
    BY <1>6, Zenon DEF HandleEndpointsDispatchResult
  <2>3. CASE UNCHANGED <<epPending, epTimer, opState>>
    BY <2>1, <2>2, <2>3 DEF TypeOK, OperationStates, setupVars, clientVars, findVars, listVars
  <2>4. CASE epPending' = FALSE /\ epTimer' = FALSE /\ opState' = "Idle"
    BY <2>1, <2>2, <2>4 DEF TypeOK, OperationStates, setupVars, clientVars, findVars, listVars
  <2> QED
    BY <2>2, <2>3, <2>4
<1>7. CASE GetEndpointsComplete
  <2>1. inbox' \in Seq(Messages)
    BY <1>1, <1>2, <1>7, ConsumeTyped DEF GetEndpointsComplete
  <2>2. Arg \in Urls
    BY <1>2, <1>7, ArgumentTypes DEF GetEndpointsComplete
  <2>3. /\ \/ UNCHANGED <<epPending, epTimer, opState, endpoints, cache>>
           \/ /\ epPending' = FALSE /\ epTimer' = FALSE /\ opState' = "Idle"
              /\ \/ endpoints' = Arg /\ cache' = [url |-> Arg, auth |-> auth]
                 \/ endpoints' = None /\ UNCHANGED cache
        /\ UNCHANGED <<setupVars, clientVars, connected, findVars, epUrl, servers, inFlight>>
    BY <1>7, Zenon DEF GetEndpointsComplete
  <2>4. cache' \in [url : Urls, auth : AuthModes] \cup {None}
    BY <2>2, <2>3 DEF TypeOK
  <2>5. CASE UNCHANGED <<epPending, epTimer, opState, endpoints, cache>>
    BY <2>1, <2>3, <2>4, <2>5 DEF TypeOK, OperationStates, setupVars, clientVars, findVars
  <2>6. CASE /\ epPending' = FALSE /\ epTimer' = FALSE /\ opState' = "Idle"
             /\ endpoints' = Arg \/ endpoints' = None
    BY <2>1, <2>2, <2>3, <2>4, <2>6 DEF TypeOK, OperationStates, setupVars, clientVars, findVars
  <2> QED
    BY <2>3, <2>5, <2>6
<1> QED
  BY <1>3, <1>4, <1>5, <1>6, <1>7

LEMMA ConnectTyped ==
  ASSUME TypeOK, ConnectToEndpoint
  PROVE  TypeOK'
<1>1. inbox # <<>> /\ inbox \in Seq(Messages)
  BY Zenon DEF ConnectToEndpoint, Handling, TypeOK
<1>2. \/ UNCHANGED clientVars
      \/ \E err : EnsureClient(err)
  BY Zenon DEF ConnectToEndpoint, ClientUnavailable
<1>3. /\ client' \in Nat /\ lastClient' \in Nat /\ client' <= lastClient'
      /\ cliState' \in ClientStates /\ cliUrl' \in Urls \cup {None}
  BY <1>2, EnsureClientTyped DEF TypeOK, clientVars
<1>4. /\ opState' \in {"Idle", "Disconnecting", "Connecting"}
      /\ \/ Consume
         \/ ConsumeAndPost(Task("runDisconnect", None, client'))
         \/ endpoints # None /\ ConsumeAndPost(Task("runConnect", endpoints, client'))
      /\ UNCHANGED <<setupVars, connected, findVars, epVars, listVars, inFlight>>
  BY Zenon DEF ConnectToEndpoint, RefuseConnect
<1>5. inbox' \in Seq(Messages)
  <2>1. endpoints # None => endpoints \in Urls
    BY DEF TypeOK
  <2> QED
    BY <1>1, <1>3, <1>4, <2>1, ConsumeTyped, PostedTypes, PostTyped
<1> QED
  BY <1>3, <1>4, <1>5 DEF TypeOK, OperationStates, setupVars, findVars, epVars, listVars

LEMMA SessionTyped ==
  ASSUME TypeOK, DisconnectFromServer \/ RunConnect \/ RunDisconnect
  PROVE  TypeOK'
<1>1. inbox # <<>> /\ inbox \in Seq(Messages)
  BY Zenon DEF DisconnectFromServer, RunConnect, RunDisconnect, Handling, TypeOK
<1>2. CASE DisconnectFromServer
  <2>1. /\ opState' \in {"Idle", "Disconnecting"}
        /\ Consume \/ ConsumeAndPost(Task("runDisconnect", None, client))
        /\ UNCHANGED <<setupVars, clientVars, connected, findVars, epVars, listVars, inFlight>>
    BY <1>2, Zenon DEF DisconnectFromServer
  <2>2. inbox' \in Seq(Messages)
    BY <1>1, <2>1, ConsumeTyped, PostedTypes, PostTyped DEF TypeOK
  <2> QED
    BY <2>1, <2>2 DEF TypeOK, OperationStates, setupVars, clientVars, findVars, epVars, listVars
<1>3. CASE RunConnect
  <2>1. Arg \in Urls
    BY <1>1, <1>3, ArgumentTypes DEF RunConnect
  <2>2. /\ Consume \/ ConsumeAndPost(Msg("clientState", "Connecting"))
        /\ UNCHANGED <<client, lastClient>>
        /\ UNCHANGED <<cliState, cliUrl>> \/ (cliState' = "Connecting" /\ cliUrl' = Arg)
        /\ UNCHANGED <<setupVars, opState, connected, findVars, epVars, listVars, inFlight>>
    BY <1>3, Zenon DEF RunConnect, clientVars
  <2>3. inbox' \in Seq(Messages)
    BY <1>1, <2>2, ConsumeTyped, PostedTypes, PostTyped DEF ClientStates
  <2> QED
    BY <2>1, <2>2, <2>3 DEF TypeOK, ClientStates, setupVars, findVars, epVars, listVars
<1>4. CASE RunDisconnect
  <2>1. /\ \/ Consume
           \/ ConsumeAndPost(Msg("clientState", "Disconnected"))
           \/ ConsumeAndPost(Msg("clientState", "Closing"))
        /\ UNCHANGED <<client, lastClient, cliUrl>> /\ cliState' \in {cliState, "Closing"}
        /\ UNCHANGED <<setupVars, opState, connected, findVars, epVars, listVars, inFlight>>
    BY <1>4, Zenon DEF RunDisconnect, clientVars
  <2>2. inbox' \in Seq(Messages)
    BY <1>1, <2>1, ConsumeTyped, PostedTypes, PostTyped DEF ClientStates
  <2> QED
    BY <2>1, <2>2 DEF TypeOK, ClientStates, setupVars, findVars, epVars, listVars
<1> QED
  BY <1>2, <1>3, <1>4

LEMMA ClientEventTyped ==
  ASSUME TypeOK, \/ OnClientConnected \/ OnClientDisconnected \/ OnClientStateChanged
                 \/ OnClientErrorChanged
  PROVE  TypeOK'
<1>1. inbox # <<>> /\ inbox \in Seq(Messages) /\ Consume
  BY Zenon DEF OnClientConnected, OnClientDisconnected, OnClientStateChanged,
               OnClientErrorChanged, Handling, TypeOK
<1>2. inbox' \in Seq(Messages)
  BY <1>1, ConsumeTyped
<1>3. /\ opState' \in {"Idle", "Connecting", "Disconnecting"} /\ connected' \in {TRUE, FALSE, connected}
      /\ UNCHANGED <<setupVars, clientVars, findVars, epVars, listVars, inFlight>>
  BY Zenon DEF OnClientConnected, OnClientDisconnected, OnClientStateChanged,
               OnClientErrorChanged
<1>4. connected' \in BOOLEAN
  BY <1>3, Zenon DEF TypeOK
<1> QED
  BY <1>2, <1>3, <1>4 DEF TypeOK, OperationStates, setupVars, clientVars, findVars, epVars, listVars

LEMMA TimerTyped ==
  ASSUME TypeOK, TimerStep
  PROVE  TypeOK'
<1>1. CASE HandleFindServersTimeout
  <2>1. /\ findTimer' = FALSE
        /\ \/ UNCHANGED <<findPending, opState>>
           \/ findPending' = FALSE /\ opState' = "Idle"
        /\ UNCHANGED <<setupVars, clientVars, connected, findUrl, epVars, listVars, inbox, inFlight>>
    BY <1>1, Zenon DEF HandleFindServersTimeout
  <2>2. CASE UNCHANGED <<findPending, opState>>
    BY <2>1, <2>2, ZenonT(40) DEF TypeOK, setupVars, clientVars, epVars, listVars
  <2>3. CASE findPending' = FALSE /\ opState' = "Idle"
    BY <2>1, <2>3, ZenonT(40) DEF TypeOK, OperationStates, setupVars, clientVars, epVars, listVars
  <2> QED
    BY <2>1, <2>2, <2>3
<1>2. CASE HandleEndpointsTimeout
  <2>1. /\ epTimer' = FALSE
        /\ \/ UNCHANGED <<epPending, opState>>
           \/ epPending' = FALSE /\ opState' = "Idle"
        /\ UNCHANGED <<setupVars, clientVars, connected, findVars, epUrl, listVars, inbox, inFlight>>
    BY <1>2, Zenon DEF HandleEndpointsTimeout
  <2>2. CASE UNCHANGED <<epPending, opState>>
    BY <2>1, <2>2, ZenonT(40) DEF TypeOK, setupVars, clientVars, findVars, listVars
  <2>3. CASE epPending' = FALSE /\ opState' = "Idle"
    BY <2>1, <2>3 DEF TypeOK, OperationStates, setupVars, clientVars, findVars, listVars
  <2> QED
    BY <2>1, <2>2, <2>3
<1> QED
  BY <1>1, <1>2 DEF TimerStep

LEMMA BackendTyped ==
  ASSUME TypeOK, BackendStep
  PROVE  TypeOK'
<1>1. inbox \in Seq(Messages)
  BY DEF TypeOK
<1>2. ASSUME NEW request \in inFlight, BackendAnswers(request)
      PROVE  TypeOK'
  <2>1. request[2] \in Urls
    BY DEF TypeOK
  <2>2. PICK good \in BOOLEAN :
          inbox' = Append(inbox, Reply(IF request[1] = "find" THEN "findReply" ELSE "endpointsReply",
                                       request[2], good))
    BY <1>2 DEF BackendAnswers
  <2>3. inbox' \in Seq(Messages)
    BY <1>1, <2>1, <2>2, PostedTypes, AppendProperties
  <2>4. inFlight' \subseteq {"find", "endpoints"} \X Urls
    BY <1>2 DEF BackendAnswers, TypeOK
  <2> QED
    BY <1>2, <2>3, <2>4 DEF BackendAnswers, TypeOK, setupVars, clientVars, findVars, epVars, listVars
<1>3. CASE SessionOpens \/ SessionFails \/ SessionLost \/ SessionCloses
  <2>1. /\ Msg("clientState", "Connected") \in Messages
        /\ Msg("clientState", "Disconnected") \in Messages
        /\ Msg("clientConnected", None) \in Messages /\ Msg("clientDisconnected", None) \in Messages
        /\ Msg("clientError", None) \in Messages
    BY PostedTypes DEF ClientStates
  <2>2. inbox' \in Seq(Messages)
    BY <1>1, <1>3, <2>1, PostTwo, PostThree DEF SessionOpens, SessionFails, SessionLost, SessionCloses
  <2>3. /\ cliState' \in {"Connected", "Disconnected"} /\ opState' \in {opState, "Idle"}
        /\ UNCHANGED <<setupVars, client, lastClient, cliUrl, connected, findVars, epVars, listVars,
                       inFlight>>
    BY <1>3, Zenon DEF SessionOpens, SessionFails, SessionLost, SessionCloses
  <2> QED
    BY <2>2, <2>3 DEF TypeOK, ClientStates, OperationStates, setupVars, findVars, epVars, listVars
<1> QED
  BY <1>2, <1>3 DEF BackendStep

LEMMA GuiTyped ==
  ASSUME TypeOK, GuiStep
  PROVE  TypeOK'
<1> DEFINE posted == SubSeq(inbox', Len(inbox) + 1, Len(inbox'))
<1>1. posted \in Seq(Commands) /\ inbox' = inbox \o posted
  BY DEF GuiStep
<1>2. posted \in Seq(Messages)
  BY <1>1, CommandsAreMessages, SeqMonotonic
<1> HIDE DEF posted
<1>3. inbox' \in Seq(Messages)
  BY <1>1, <1>2, ConcatProperties DEF TypeOK
<1> QED
  BY <1>3 DEF GuiStep, TypeOK, setupVars, clientVars, findVars, epVars, listVars

LEMMA InitTyped ==
  ASSUME Init
  PROVE  TypeOK
<1>1. inbox \in Seq(Messages)
  BY EmptySeq DEF Init
<1>2. /\ rewrite \in BOOLEAN /\ connected \in BOOLEAN
      /\ findPending \in BOOLEAN /\ findTimer \in BOOLEAN
      /\ epPending \in BOOLEAN /\ epTimer \in BOOLEAN
      /\ ~findPending /\ ~epPending
  BY Zenon DEF Init
<1>3. /\ backend \in Backends /\ auth \in AuthModes
      /\ client \in Nat /\ lastClient \in Nat /\ client <= lastClient
      /\ cliState \in ClientStates /\ cliUrl \in Urls \cup {None}
      /\ opState \in OperationStates
      /\ findUrl \in Urls \cup {None} /\ epUrl \in Urls \cup {None}
      /\ servers \in Urls \cup {None} /\ endpoints \in Urls \cup {None}
      /\ cache \in [url : Urls, auth : AuthModes] \cup {None}
      /\ inFlight \subseteq {"find", "endpoints"} \X Urls
  <2>1. /\ backend \in Backends /\ auth = "anonymous"
        /\ client = 0 /\ lastClient = 0 /\ cliState = "Disconnected" /\ cliUrl = None
        /\ opState = "Idle" /\ findUrl = None /\ epUrl = None
        /\ servers = None /\ endpoints = None /\ cache = None /\ inFlight = {}
    BY Zenon DEF Init
  <2> QED
    BY <2>1 DEF AuthModes, ClientStates, OperationStates
<1> QED
  BY <1>1, <1>2, <1>3, Zenon DEF TypeOK

LEMMA ServiceTyped ==
  ASSUME TypeOK, ServiceStep
  PROVE  TypeOK'
<1>1. WorkerStep => TypeOK'
  BY SetupTyped, FindTyped, EndpointsTyped, ConnectTyped, SessionTyped, ClientEventTyped
     DEF WorkerStep
<1> QED
  BY <1>1, TimerTyped, BackendTyped DEF ServiceStep

(* The service keeps its types under any commands, replies, refusals and     *)
(* client events: in particular a request that discoverServers() or           *)
(* requestEndpoints() still waits for, and each list, name a discovery URL.   *)
THEOREM ServiceTypes == Spec => []TypeOK
<1>1. TypeOK /\ [Next]_svcVars => TypeOK'
  <2>1. TypeOK /\ UNCHANGED svcVars => TypeOK'
    BY DEF TypeOK, svcVars
  <2> QED
    BY <2>1, ServiceTyped, GuiTyped DEF Next
<1> QED
  BY InitTyped, <1>1, PTL DEF Spec

-----------------------------------------------------------------------------
(* BusyIsWatched.                                                          *)

LEMMA WatchedStep ==
  ASSUME BusyIsWatched, Next
  PROVE  BusyIsWatched'
<1> USE DEF BusyIsWatched
<1>1. CASE SetBackend
  <2>1. \/ UNCHANGED <<opState, findVars, epVars>>
        \/ CancelRequests /\ opState' = "Idle"
    BY <1>1, Zenon DEF SetBackend
  <2> QED
    BY <2>1 DEF CancelRequests, findVars, epVars
<1>2. CASE SetAuthentication
  BY <1>2 DEF SetAuthentication, findVars, epVars
<1>3. CASE SetEndpointUrlRewriteEnabled
  BY <1>3 DEF SetEndpointUrlRewriteEnabled, findVars, epVars
<1>4. CASE DiscoverServers
  BY <1>4 DEF DiscoverServers, epVars
<1>5. CASE RunFindServers
  BY <1>5 DEF RunFindServers, findVars, epVars
<1>6. CASE HandleFindServersDispatchResult
  BY <1>6 DEF HandleFindServersDispatchResult, epVars
<1>7. CASE FindServersComplete
  BY <1>7 DEF FindServersComplete, epVars
<1>8. ASSUME NEW url, RequestEndpoints(url)
      PROVE  BusyIsWatched'
  BY <1>8 DEF RequestEndpoints, findVars
<1>9. CASE RequestEndpointsForUrl
  BY <1>9, <1>8 DEF RequestEndpointsForUrl
<1>10. CASE RequestEndpointsForServer
  BY <1>10, <1>8 DEF RequestEndpointsForServer, findVars, epVars
<1>11. CASE RunRequestEndpoints
  BY <1>11 DEF RunRequestEndpoints, findVars, epVars
<1>12. CASE HandleEndpointsDispatchResult
  BY <1>12 DEF HandleEndpointsDispatchResult, findVars
<1>13. CASE GetEndpointsComplete
  BY <1>13 DEF GetEndpointsComplete, findVars
<1>14. CASE ConnectToEndpoint
  BY <1>14 DEF ConnectToEndpoint, RefuseConnect, findVars, epVars
<1>15. CASE DisconnectFromServer
  BY <1>15 DEF DisconnectFromServer, findVars, epVars
<1>16. CASE RunConnect \/ RunDisconnect
  BY <1>16 DEF RunConnect, RunDisconnect, findVars, epVars
<1>17. CASE OnClientConnected \/ OnClientDisconnected \/ OnClientStateChanged
            \/ OnClientErrorChanged
  <2>1. UNCHANGED <<findVars, epVars>>
        /\ opState' \in {"Idle", "Connecting", "Disconnecting"}
    BY <1>17, Zenon DEF OnClientConnected, OnClientDisconnected, OnClientStateChanged,
                        OnClientErrorChanged
  <2> QED
    BY <2>1 DEF findVars, epVars
<1>18. CASE TimerStep
  BY <1>18 DEF TimerStep, HandleFindServersTimeout, HandleEndpointsTimeout, findVars, epVars
<1>19. CASE BackendStep
  BY <1>19 DEF BackendStep, BackendAnswers, SessionOpens, SessionFails, SessionLost,
               SessionCloses, findVars, epVars
<1>20. CASE GuiStep
  BY <1>20 DEF GuiStep, findVars, epVars
<1> QED
  BY <1>1, <1>2, <1>3, <1>4, <1>5, <1>6, <1>7, <1>9, <1>10, <1>11, <1>12, <1>13, <1>14, <1>15,
     <1>16, <1>17, <1>18, <1>19, <1>20 DEF Next, ServiceStep, WorkerStep

(* In discoverServers() and requestEndpoints() every busy request has its    *)
(* timer, for any number of commands and URLs.                               *)
THEOREM WatchedAlways == Spec => []BusyIsWatched
<1>1. Init => BusyIsWatched
  BY DEF Init, BusyIsWatched
<1>2. BusyIsWatched /\ [Next]_svcVars => BusyIsWatched'
  <2>1. BusyIsWatched /\ UNCHANGED svcVars => BusyIsWatched'
    BY DEF BusyIsWatched, svcVars
  <2> QED
    BY <2>1, WatchedStep
<1> QED
  BY <1>1, <1>2, PTL DEF Spec

-----------------------------------------------------------------------------
(* ListsAnswerLatestRequest.                                               *)

LEMMA ListsStep ==
  ASSUME ListsAnswerLatestRequest, Next
  PROVE  ListsAnswerLatestRequest'
<1> USE DEF ListsAnswerLatestRequest
<1>1. CASE SetBackend
  <2>1. UNCHANGED <<servers, findUrl, epUrl>> /\ endpoints' \in {endpoints, None}
    BY <1>1, Zenon DEF SetBackend, findVars, epVars, listVars
  <2> QED
    BY <2>1
<1>2. CASE \/ SetAuthentication \/ SetEndpointUrlRewriteEnabled
  BY <1>2 DEF SetAuthentication, SetEndpointUrlRewriteEnabled, findVars, epVars
<1>3. CASE DiscoverServers
  BY <1>3 DEF DiscoverServers
<1>4. CASE FindServersComplete
  BY <1>4 DEF FindServersComplete, StaleFindReply, epVars
<1>5. ASSUME NEW url, RequestEndpoints(url)
      PROVE  ListsAnswerLatestRequest'
  BY <1>5 DEF RequestEndpoints, findVars
<1>6. CASE RequestEndpointsForUrl \/ RequestEndpointsForServer
  BY <1>6, <1>5 DEF RequestEndpointsForUrl, RequestEndpointsForServer, findVars, epVars, listVars
<1>7. CASE GetEndpointsComplete
  BY <1>7 DEF GetEndpointsComplete, findVars
<1>8. CASE RunFindServers \/ RunRequestEndpoints \/ HandleFindServersDispatchResult
           \/ HandleEndpointsDispatchResult
  BY <1>8 DEF RunFindServers, RunRequestEndpoints, HandleFindServersDispatchResult,
              HandleEndpointsDispatchResult, findVars, epVars, listVars
<1>9. CASE ConnectToEndpoint
  BY <1>9 DEF ConnectToEndpoint, findVars, epVars, listVars
<1>10. CASE DisconnectFromServer \/ RunConnect \/ RunDisconnect
  BY <1>10 DEF DisconnectFromServer, RunConnect, RunDisconnect, findVars, epVars, listVars
<1>11. CASE OnClientConnected \/ OnClientDisconnected \/ OnClientStateChanged
            \/ OnClientErrorChanged
  <2>1. UNCHANGED <<findVars, epVars, listVars>>
    BY <1>11, Zenon DEF OnClientConnected, OnClientDisconnected, OnClientStateChanged,
                        OnClientErrorChanged
  <2> QED
    BY <2>1 DEF findVars, epVars, listVars
<1>12. CASE TimerStep
  BY <1>12 DEF TimerStep, HandleFindServersTimeout, HandleEndpointsTimeout, findVars, epVars,
               listVars
<1>13. CASE BackendStep
  BY <1>13 DEF BackendStep, BackendAnswers, SessionOpens, SessionFails, SessionLost,
               SessionCloses, findVars, epVars, listVars
<1>14. CASE GuiStep
  BY <1>14 DEF GuiStep, findVars, epVars, listVars
<1> QED
  BY <1>1, <1>2, <1>3, <1>4, <1>6, <1>7, <1>8, <1>9, <1>10, <1>11, <1>12, <1>13, <1>14
     DEF Next, ServiceStep, WorkerStep

(* What the server and endpoint lists show answers the request made last,    *)
(* whichever replies findServersComplete() and getEndpointsComplete() receive *)
(* and in whatever order.                                                    *)
THEOREM ListsAlwaysLatest == Spec => []ListsAnswerLatestRequest
<1>1. Init => ListsAnswerLatestRequest
  BY DEF Init, ListsAnswerLatestRequest
<1>2. ListsAnswerLatestRequest /\ [Next]_svcVars => ListsAnswerLatestRequest'
  <2>1. ListsAnswerLatestRequest /\ UNCHANGED svcVars => ListsAnswerLatestRequest'
    BY DEF ListsAnswerLatestRequest, svcVars
  <2> QED
    BY <2>1, ListsStep
<1> QED
  BY <1>1, <1>2, PTL DEF Spec
=============================================================================
