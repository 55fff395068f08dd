----------------------------- MODULE MQTTBroker -----------------------------
(***************************************************************************)
(* The broker of src/src/MQTT with the TCP server under it: the pools of   *)
(* TCP clients, connections and sessions, the pointers between them, and   *)
(* the subscriptions sessions hold in the data model.                      *)
(*                                                                         *)
(* The firmware is one loop on one thread.  A pass of MQTTBroker::service  *)
(* accepts at most one TCP client, services every active connection once,  *)
(* then frees the closed ones; phase and pending say how far the pass is.  *)
(* Each service of a connection is one step, made of everything the code   *)
(* does before it returns to the loop.  Peers close, and timers run out,   *)
(* between any two steps.                                                  *)
(*                                                                         *)
(* Abstractions.  A pool slot is a model value and any free slot may be    *)
(* allocated.  The connections of a pass are serviced in any order, which  *)
(* includes the order of the list.  A client ID is a model value; the ID   *)
(* made up for an anonymous client is one of them.  A topic is a leaf of   *)
(* the data model, and SUBSCRIBE names the leaves its filters match.  Any  *)
(* write may fail: the peer may be gone or its send buffer full.           *)
(***************************************************************************)
EXTENDS Naturals, FiniteSets

CONSTANTS
    TCPClients,      \* slots of TCPServer::freeClients
    Connections,     \* slots of MQTTBroker::freeConnections
    Sessions,        \* slots of MQTTBroker::freeSessions
    ClientIDs,
    Topics,          \* leaves a client can subscribe to
    MaxSubscribers,  \* maxDataModelSubscribers: entries of one leaf's list
    Null             \* nullptr, and the client ID of a free session

(***************************************************************************)
(* TCPServer.h, MQTTBroker.h and DataModelLeaf.h give all four pools the   *)
(* size 5; what the code relies on is that none of the pools served last   *)
(* is smaller than the one that feeds it.                                  *)
(***************************************************************************)
ASSUME PoolAssumption ==
    /\ IsFiniteSet(TCPClients) /\ IsFiniteSet(Connections) /\ IsFiniteSet(Sessions)
    /\ Cardinality(TCPClients) <= Cardinality(Connections)
    /\ MaxSubscribers \in Nat
    /\ Cardinality(Sessions) <= MaxSubscribers

ASSUME NullAssumption ==
    /\ Null \notin TCPClients
    /\ Null \notin Connections
    /\ Null \notin Sessions
    /\ Null \notin ClientIDs

VARIABLES
    clients,               \* allocated TCPClient objects
    connected,             \* TCPClient::connected, for allocated clients
    activeConnections,     \* MQTTBroker::activeConnections
    tcpOf,                 \* MQTTConnection::_tcpClient
    sessionOf,             \* MQTTConnection::session
    closing,               \* MQTTConnection::closing
    closeExpired,          \* MQTTConnection::closeTimeout has run out
    activeSessions,        \* MQTTBroker::activeSessions
    disconnectedSessions,  \* MQTTBroker::disconnectedSessions
    connectionOf,          \* MQTTSession::_connection
    sessionTcp,            \* MQTTSession::tcpClient
    clientID,              \* MQTTSession::_clientID
    cleanSession,          \* MQTTSession::cleanSession
    subscribers,           \* sessions in the subscriber list of each leaf
    phase,                 \* where the pass is: MQTTBroker::service
    pending                \* connections this pass has still to service

tcpVars == <<clients, connected>>
connectionVars == <<tcpOf, sessionOf, closing, closeExpired>>
sessionVars == <<activeSessions, disconnectedSessions, connectionOf, sessionTcp,
                 clientID, cleanSession>>
loopVars == <<phase, pending>>
vars == <<clients, connected, activeConnections, tcpOf, sessionOf, closing, closeExpired,
          activeSessions, disconnectedSessions, connectionOf, sessionTcp, clientID,
          cleanSession, subscribers, phase, pending>>

Init ==
    /\ clients = {}
    /\ connected = [t \in TCPClients |-> FALSE]
    /\ activeConnections = {}
    /\ tcpOf = [c \in Connections |-> Null]
    /\ sessionOf = [c \in Connections |-> Null]
    /\ closing = [c \in Connections |-> FALSE]
    /\ closeExpired = [c \in Connections |-> FALSE]
    /\ activeSessions = {}
    /\ disconnectedSessions = {}
    /\ connectionOf = [s \in Sessions |-> Null]
    /\ sessionTcp = [s \in Sessions |-> Null]
    /\ clientID = [s \in Sessions |-> Null]
    /\ cleanSession = [s \in Sessions |-> TRUE]
    /\ subscribers = [t \in Topics |-> {}]
    /\ phase = "accept"
    /\ pending = {}

-----------------------------------------------------------------------------
(***************************************************************************)
(* What connections and sessions do to one another.                        *)
(***************************************************************************)
allocatedSessions == activeSessions \cup disconnectedSessions

SessionsFor_DisconnectedOnly(id) == {s \in disconnectedSessions : clientID[s] = id}

(* The sessions the two loops of pairConnectionWithSession find. *)
SessionsFor(id) == {s \in allocatedSessions : clientID[s] = id}

Unsubscribed_Nothing(subs, gone) == subs

(* DataModel::unsubscribeAll for every session of gone. *)
Unsubscribed(subs, gone) == [t \in Topics |-> subs[t] \ gone]

Disconnect_KeepsSession(ds, so) ==
    LET starts(d) == d \in ds /\ tcpOf'[d] # Null IN
    /\ sessionOf' = so
    /\ closing' = [d \in Connections |-> closing[d] \/ starts(d)]
    /\ closeExpired' = [d \in Connections |-> closeExpired[d] /\ ~starts(d)]

(* MQTTConnection::disconnect for every connection of ds, when the session *)
(* pointers are so: forget the session and, if the connection still has    *)
(* its TCP client, start closing it under a fresh timer.                   *)
Disconnect(ds, so) ==
    LET starts(d) == d \in ds /\ tcpOf'[d] # Null IN
    /\ sessionOf' = [d \in Connections |-> IF d \in ds THEN Null ELSE so[d]]
    /\ closing' = [d \in Connections |-> closing[d] \/ starts(d)]
    /\ closeExpired' = [d \in Connections |-> closeExpired[d] /\ ~starts(d)]

(* MQTTSession::shutdown and the clean half of connectionLost and          *)
(* handleConnectionSendFailure, with MQTTBroker::sessionEnded: give up the *)
(* subscriptions and the connection, and return the slot to the pool.      *)
EndSession(s, subs) ==
    /\ Disconnect({connectionOf[s]}, sessionOf)
    /\ activeSessions' = activeSessions \ {s}
    /\ disconnectedSessions' = disconnectedSessions \ {s}
    /\ connectionOf' = [connectionOf EXCEPT ![s] = Null]
    /\ sessionTcp' = [sessionTcp EXCEPT ![s] = Null]
    /\ clientID' = [clientID EXCEPT ![s] = Null]
    /\ cleanSession' = [cleanSession EXCEPT ![s] = TRUE]
    /\ subscribers' = Unsubscribed(subs, {s})

(* The other half, with MQTTBroker::sessionLostConnection: give up the     *)
(* connection only, and wait for the client on the disconnected list.      *)
ParkSession(s, clean, subs) ==
    /\ Disconnect({connectionOf[s]}, sessionOf)
    /\ activeSessions' = activeSessions \ {s}
    /\ disconnectedSessions' = disconnectedSessions \cup {s}
    /\ connectionOf' = [connectionOf EXCEPT ![s] = Null]
    /\ sessionTcp' = [sessionTcp EXCEPT ![s] = Null]
    /\ cleanSession' = [cleanSession EXCEPT ![s] = clean]
    /\ subscribers' = subs
    /\ UNCHANGED clientID

LoseConnection_AlwaysParks(s, clean, subs) == ParkSession(s, clean, subs)

LoseConnection_AlwaysEnds(s, clean, subs) == EndSession(s, subs)

(* The flag decides which half it is. *)
LoseConnection(s, clean, subs) ==
    \/ clean /\ EndSession(s, subs)
    \/ ~clean /\ ParkSession(s, clean, subs)

(* The tail of a handler that has settled the session's clean flag and the *)
(* subscriptions and now answers: the session goes on if the answer is     *)
(* sent, and otherwise handleConnectionSendFailure takes it down.          *)
Answer(s, clean, subs) ==
    \/ /\ cleanSession' = [cleanSession EXCEPT ![s] = clean]
       /\ subscribers' = subs
       /\ UNCHANGED <<sessionOf, closing, closeExpired, activeSessions,
                      disconnectedSessions, connectionOf, sessionTcp, clientID>>
    \/ LoseConnection(s, clean, subs)

(* A CONNECT that found a session: the sessions of ended are shut down,    *)
(* session s takes connection c, dropping the one it may have              *)
(* (MQTTSession::newConnection), and handles the CONNECT.  If the CONNACK  *)
(* cannot be sent, it loses c at once.                                     *)
Attach(c, s, id, clean, ended, sent) ==
    LET touched == ended \cup {s}
        dropped == {connectionOf[x] : x \in touched} \cup {d \in {c} : ~sent}
        parked  == {x \in {s} : ~sent /\ ~clean}
        gone    == ended \cup {x \in {s} : ~sent /\ clean}
    IN
    /\ Disconnect(dropped, [sessionOf EXCEPT ![c] = s])
    /\ activeSessions' = (activeSessions \ touched) \cup {x \in {s} : sent}
    /\ disconnectedSessions' = (disconnectedSessions \ touched) \cup parked
    /\ connectionOf' = [x \in Sessions |->
          IF x = s /\ sent THEN c ELSE IF x \in touched THEN Null ELSE connectionOf[x]]
    /\ sessionTcp' = [x \in Sessions |->
          IF x = s /\ sent THEN tcpOf[c] ELSE IF x \in touched THEN Null ELSE sessionTcp[x]]
    /\ clientID' = [x \in Sessions |->
          IF x = s /\ (sent \/ ~clean) THEN id ELSE IF x \in touched THEN Null ELSE clientID[x]]
    /\ cleanSession' = [x \in Sessions |->
          IF x = s THEN clean ELSE IF x \in ended THEN TRUE ELSE cleanSession[x]]
    /\ subscribers' = Unsubscribed(subscribers, gone)

-----------------------------------------------------------------------------
(***************************************************************************)
(* MQTTConnection::service, one action per way through it.  Each starts    *)
(* with the connection it services and takes it off pending.               *)
(***************************************************************************)
Selected(c) ==
    /\ phase = "service"
    /\ c \in pending

Service(c) ==
    /\ Selected(c)
    /\ pending' = pending \ {c}
    /\ UNCHANGED <<phase, activeConnections>>

Readable(c) == connected[tcpOf[c]] /\ ~closing[c]

Reads(c) == Service(c) /\ Readable(c)

ReturnClient_Leaks(c) ==
    /\ tcpOf' = [tcpOf EXCEPT ![c] = Null]
    /\ UNCHANGED tcpVars

(* MQTTBroker::tcpClientClosed and TCPServer::clientClosed: the TCP client *)
(* goes back to its pool and the connection forgets it.                    *)
ReturnClient(c) ==
    /\ clients' = clients \ {tcpOf[c]}
    /\ connected' = [connected EXCEPT ![tcpOf[c]] = FALSE]
    /\ tcpOf' = [tcpOf EXCEPT ![c] = Null]

(* The peer is gone: the connection is left for freeClosedConnections, and *)
(* the session loses its connection.                                       *)
ServiceLost(c) ==
    /\ Service(c)
    /\ ~connected[tcpOf[c]]
    /\ ReturnClient(c)
    /\ \/ /\ sessionOf[c] = Null
          /\ UNCHANGED <<sessionOf, closing, closeExpired, sessionVars, subscribers>>
       \/ /\ sessionOf[c] # Null
          /\ LoseConnection(sessionOf[c], cleanSession[sessionOf[c]], subscribers)

(* Closing: wait for the peer to close too, but only so long.              *)
ServiceClosing(c) ==
    /\ Service(c)
    /\ connected[tcpOf[c]]
    /\ closing[c]
    /\ UNCHANGED <<sessionOf, closing, closeExpired, sessionVars, subscribers>>
    /\ \/ closeExpired[c] /\ ReturnClient(c)
       \/ ~closeExpired[c] /\ UNCHANGED <<tcpVars, tcpOf>>

(* No complete packet has come in; or one that changes nothing here: a     *)
(* CONNECT that is refused, or any other packet, on a connection without a *)
(* session; PUBLISH and its acknowledgements on one with a session.  Also  *)
(* a CONNECT that does not parse: the log says "Terminating connection",   *)
(* but service drops the result.                                           *)
ServiceIdle(c) ==
    /\ Reads(c)
    /\ UNCHANGED <<tcpVars, connectionVars, sessionVars, subscribers>>

(* MQTTPacketReader gives up on the stream and closes it.                  *)
ServiceBadPacket(c) ==
    /\ Reads(c)
    /\ connected' = [connected EXCEPT ![tcpOf[c]] = FALSE]
    /\ UNCHANGED <<clients, connectionVars, sessionVars, subscribers>>

(* A CONNECT the broker takes, with Clean Session set.  Sessions the       *)
(* client has from before are shut down and a free slot, possibly theirs,  *)
(* is used; with no free slot the CONNACK says so and nothing changes.     *)
PairClean(c, id) ==
    /\ Reads(c)
    /\ sessionOf[c] = Null
    /\ UNCHANGED <<tcpVars, tcpOf>>
    /\ LET ended == SessionsFor(id)
           free  == Sessions \ (allocatedSessions \ ended)
       IN  \/ \E s \in free, sent \in BOOLEAN : Attach(c, s, id, TRUE, ended, sent)
           \/ /\ free = {}
              /\ UNCHANGED <<sessionOf, closing, closeExpired, sessionVars, subscribers>>

(* The same without Clean Session: the client's session is found on the    *)
(* disconnected list, or else on the active one where it is taken over     *)
(* from its connection; only a client with neither gets a free slot.       *)
PairNonClean(c, id) ==
    /\ Reads(c)
    /\ sessionOf[c] = Null
    /\ UNCHANGED <<tcpVars, tcpOf>>
    /\ LET found  == SessionsFor(id)
           usable == IF found # {} THEN found ELSE Sessions \ allocatedSessions
       IN  \/ \E s \in usable, sent \in BOOLEAN : Attach(c, s, id, FALSE, {}, sent)
           \/ /\ usable = {}
              /\ UNCHANGED <<sessionOf, closing, closeExpired, sessionVars, subscribers>>

(* MQTTSession::processMessage: packets of a connection with a session.    *)
HasSession(c) ==
    /\ Reads(c)
    /\ sessionOf[c] # Null
    /\ UNCHANGED <<tcpVars, tcpOf>>

(* A further CONNECT only resets the session's clean flag.                 *)
SessionConnect(c, clean) ==
    /\ HasSession(c)
    /\ Answer(sessionOf[c], clean, subscribers)

SessionPing(c) ==
    /\ HasSession(c)
    /\ Answer(sessionOf[c], cleanSession[sessionOf[c]], subscribers)

Subscribed_Connection(s, ts) ==
    [t \in Topics |->
        IF t \in ts /\ Cardinality(subscribers[t]) < MaxSubscribers
        THEN subscribers[t] \cup {connectionOf[s]}
        ELSE subscribers[t]]

(* DataModelLeaf::addSubscriber refuses a session when the list is full.   *)
Subscribed(s, ts) ==
    [t \in Topics |->
        IF t \in ts /\ Cardinality(subscribers[t]) < MaxSubscribers
        THEN subscribers[t] \cup {s}
        ELSE subscribers[t]]

SessionSubscribe(c, ts) ==
    /\ HasSession(c)
    /\ Answer(sessionOf[c], cleanSession[sessionOf[c]], Subscribed(sessionOf[c], ts))

SessionUnsubscribe(c, ts) ==
    /\ HasSession(c)
    /\ Answer(sessionOf[c], cleanSession[sessionOf[c]],
              [t \in Topics |-> subscribers[t] \ {s \in {sessionOf[c]} : t \in ts}])

(* DISCONNECT, a malformed packet, or one only a server may send.          *)
SessionShutdown(c) ==
    /\ HasSession(c)
    /\ EndSession(sessionOf[c], subscribers)

(* A further CONNECT that does not parse: errorExit, which never returns.  *)
SessionBadConnect(c) ==
    /\ Selected(c)
    /\ Readable(c)
    /\ sessionOf[c] # Null
    /\ phase' = "halted"
    /\ UNCHANGED <<tcpVars, activeConnections, connectionVars, sessionVars,
                   subscribers, pending>>

ServiceConnection(c) ==
    \/ ServiceLost(c)
    \/ ServiceClosing(c)
    \/ ServiceIdle(c)
    \/ ServiceBadPacket(c)
    \/ \E id \in ClientIDs : PairClean(c, id) \/ PairNonClean(c, id)
    \/ \E clean \in BOOLEAN : SessionConnect(c, clean)
    \/ SessionPing(c)
    \/ \E ts \in SUBSET Topics : SessionSubscribe(c, ts) \/ SessionUnsubscribe(c, ts)
    \/ SessionShutdown(c)
    \/ SessionBadConnect(c)

-----------------------------------------------------------------------------
(***************************************************************************)
(* The rest of MQTTBroker::service.                                        *)
(***************************************************************************)

(* The connections a pass services; MQTTConnection::service returns at     *)
(* once from one that has no TCP client.                                   *)
ServicedNext == {c \in activeConnections' : tcpOf'[c] # Null}

(* A peer waits to be accepted and both pools have room.                   *)
AcceptConnection(t, c) ==
    /\ phase = "accept"
    /\ t \in TCPClients \ clients
    /\ c \in Connections \ activeConnections
    /\ clients' = clients \cup {t}
    /\ connected' = [connected EXCEPT ![t] = TRUE]
    /\ activeConnections' = activeConnections \cup {c}
    /\ tcpOf' = [tcpOf EXCEPT ![c] = t]
    /\ phase' = "service"
    /\ pending' = ServicedNext
    /\ UNCHANGED <<sessionOf, closing, closeExpired, sessionVars, subscribers>>

(* No peer waits, or TCPServer::accept turns it away.                      *)
AcceptNothing ==
    /\ phase = "accept"
    /\ phase' = "service"
    /\ UNCHANGED <<tcpVars, activeConnections, connectionVars, sessionVars, subscribers>>
    /\ pending' = ServicedNext

isClosed_UnlessClosing(c) == tcpOf[c] = Null /\ ~closing[c]

isClosed_OnlyClosing(c) == tcpOf[c] = Null /\ closing[c]

isClosed(c) == tcpOf[c] = Null

FreeClosedConnections ==
    /\ phase = "service"
    /\ pending = {}
    /\ phase' = "accept"
    /\ activeConnections' = {c \in activeConnections : ~isClosed(c)}
    /\ closing' = [c \in Connections |-> closing[c] /\ ~isClosed(c)]
    /\ closeExpired' = [c \in Connections |-> closeExpired[c] /\ ~isClosed(c)]
    /\ UNCHANGED <<tcpVars, tcpOf, sessionOf, sessionVars, subscribers, pending>>

Pass ==
    \/ \E t \in TCPClients, c \in Connections : AcceptConnection(t, c)
    \/ AcceptNothing
    \/ \E c \in Connections : ServiceConnection(c)
    \/ FreeClosedConnections

(* The world outside: a peer closes or its connection breaks, ...          *)
PeerCloses(t) ==
    /\ t \in clients
    /\ connected[t]
    /\ connected' = [connected EXCEPT ![t] = FALSE]
    /\ UNCHANGED <<clients, activeConnections, connectionVars, sessionVars,
                   subscribers, loopVars>>

(* ... and the thirty seconds of a closing connection go by.               *)
CloseTimeout(c) ==
    /\ closing[c]
    /\ ~closeExpired[c]
    /\ closeExpired' = [closeExpired EXCEPT ![c] = TRUE]
    /\ UNCHANGED <<tcpVars, activeConnections, tcpOf, sessionOf, closing, sessionVars,
                   subscribers, loopVars>>

(* errorExit calls exit(1), which on this board never returns.             *)
Halted ==
    /\ phase = "halted"
    /\ UNCHANGED vars

Next ==
    \/ Pass
    \/ \E t \in TCPClients : PeerCloses(t)
    \/ \E c \in Connections : CloseTimeout(c)
    \/ Halted

Spec == Init /\ [][Next]_vars

(* loop() calls the broker for ever, and time passes.  Nothing is assumed  *)
(* of the peers.                                                           *)
Fairness ==
    /\ WF_vars(Pass)
    /\ \A c \in Connections : WF_vars(CloseTimeout(c))

FairSpec == Spec /\ Fairness

-----------------------------------------------------------------------------
TypeOK ==
    /\ clients \subseteq TCPClients
    /\ connected \in [TCPClients -> BOOLEAN]
    /\ activeConnections \subseteq Connections
    /\ tcpOf \in [Connections -> TCPClients \cup {Null}]
    /\ sessionOf \in [Connections -> Sessions \cup {Null}]
    /\ closing \in [Connections -> BOOLEAN]
    /\ closeExpired \in [Connections -> BOOLEAN]
    /\ activeSessions \subseteq Sessions
    /\ disconnectedSessions \subseteq Sessions
    /\ connectionOf \in [Sessions -> Connections \cup {Null}]
    /\ sessionTcp \in [Sessions -> TCPClients \cup {Null}]
    /\ clientID \in [Sessions -> ClientIDs \cup {Null}]
    /\ cleanSession \in [Sessions -> BOOLEAN]
    /\ subscribers \in [Topics -> SUBSET Sessions]
    /\ phase \in {"accept", "service", "halted"}
    /\ pending \subseteq Connections

-----------------------------------------------------------------------------
(***************************************************************************)
(* What the pointers of MQTTBroker.h, MQTTConnection.h and MQTTSession.h   *)
(* must agree on.                                                          *)
(***************************************************************************)

(* A connection and its session point at each other, and only objects in   *)
(* use point at anything: connectionLost, newConnection, shutdown and      *)
(* handleConnectionSendFailure clear both ends or neither.                 *)
PairingConsistent ==
    /\ \A c \in Connections, s \in Sessions : sessionOf[c] = s <=> connectionOf[s] = c
    /\ \A c \in Connections : sessionOf[c] # Null =>
          /\ c \in activeConnections
          /\ ~closing[c]

(* No one keeps a pointer to a TCP client that went back to the pool: the  *)
(* copy in the session is the client its connection owns, and every        *)
(* allocated client is owned by exactly one connection.                    *)
TcpClientsOwned ==
    /\ \A s \in Sessions : sessionTcp[s] =
          IF connectionOf[s] = Null THEN Null ELSE tcpOf[connectionOf[s]]
    /\ \A s \in Sessions : connectionOf[s] # Null => sessionTcp[s] # Null
    /\ clients = {tcpOf[c] : c \in activeConnections} \ {Null}
    /\ \A c, d \in Connections : tcpOf[c] = tcpOf[d] => c = d \/ tcpOf[c] = Null
    /\ \A c \in Connections \ activeConnections : tcpOf[c] = Null

(* The lists say what the sessions are: active means connected, and only   *)
(* a session that is not clean waits on the disconnected list.             *)
ListsConsistent ==
    /\ activeSessions \cap disconnectedSessions = {}
    /\ \A s \in Sessions : s \in activeSessions <=> connectionOf[s] # Null
    /\ \A s \in disconnectedSessions : ~cleanSession[s]
    /\ \A s \in Sessions : s \in allocatedSessions <=> clientID[s] # Null

(* MQTTBroker::pairConnectionWithSession never leaves a client with two    *)
(* sessions, on either list.                                               *)
OneSessionPerClient ==
    \A r, s \in allocatedSessions : clientID[r] = clientID[s] => r = s

(* The subscriber lists of the data model hold no session that has been    *)
(* destroyed: its slot may belong to another client by the next publish.   *)
SubscribersAllocated ==
    \A t \in Topics : subscribers[t] \subseteq allocatedSessions

(* DataModelLeaf.cpp:54 "This shouldn't happen if max sessions == max      *)
(* subscribers": a session that is not on a leaf's list finds room on it.  *)
SubscriberListHasRoom ==
    \A t \in Topics : \A s \in allocatedSessions :
        s \notin subscribers[t] => Cardinality(subscribers[t]) < MaxSubscribers

(* When TCPServer::accept finds a free TCP client there is a free          *)
(* connection for it, so the last branch of MQTTBroker::newConnection is   *)
(* never taken.                                                            *)
AcceptedClientHasConnection ==
    phase = "accept" /\ clients # TCPClients => activeConnections # Connections

(* A client that did not ask for a clean session keeps it, whatever        *)
(* becomes of its connection: only a packet that shuts the session down,   *)
(* or a CONNECT of the same client with Clean Session, takes it away.      *)
PersistentSurvives ==
    [][\A s \in allocatedSessions :
          (~cleanSession[s] /\ clientID'[s] # clientID[s]) =>
             \E c \in Connections :
                \/ SessionShutdown(c) /\ sessionOf[c] = s
                \/ SessionConnect(c, TRUE) /\ sessionOf[c] = s
                \/ PairClean(c, clientID[s])]_vars

(* A connection told to close leaves the pool, whatever its peer does:     *)
(* MQTTConnection::service closes it when closeTimeout runs out.           *)
ClosingIsFreed ==
    \A c \in Connections :
        closing[c] ~> (c \notin activeConnections \/ phase = "halted")

(* A connection whose peer is gone leaves the pool, and its session does   *)
(* not keep it.                                                            *)
GoneIsFreed ==
    \A t \in TCPClients :
        (t \in clients /\ ~connected[t]) ~> (t \notin clients \/ phase = "halted")
=============================================================================
