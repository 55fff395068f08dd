------------------------- MODULE MQTTBroker_proofs -------------------------
(***************************************************************************)
(* Theorems about MQTTBroker, for pools of any size that PoolAssumption    *)
(* allows and any clients and topics: its invariants, and that it          *)
(* implements the session store.                                           *)
(***************************************************************************)
EXTENDS MQTTBrokerRefinement, FiniteSetTheorems, TLAPS

(* TypeOK, split by what a step may change. *)
TcpTypeOK ==
    /\ clients \subseteq TCPClients
    /\ connected \in [TCPClients -> BOOLEAN]
    /\ activeConnections \subseteq Connections
    /\ tcpOf \in [Connections -> TCPClients \cup {Null}]

PairTypeOK ==
    /\ sessionOf \in [Connections -> Sessions \cup {Null}]
    /\ closing \in [Connections -> BOOLEAN]
    /\ closeExpired \in [Connections -> BOOLEAN]
    /\ activeSessions \subseteq Sessions
    /\ disconnectedSessions \subseteq Sessions
    /\ connectionOf \in [Sessions -> Connections \cup {Null}]
    /\ sessionTcp \in [Sessions -> TCPClients \cup {Null}]
    /\ clientID \in [Sessions -> ClientIDs \cup {Null}]
    /\ cleanSession \in [Sessions -> BOOLEAN]
    /\ subscribers \in [Topics -> SUBSET Sessions]

LoopTypeOK ==
    /\ phase \in {"accept", "service", "halted"}
    /\ pending \subseteq Connections

(* TcpClientsOwned, split into what sessions and what connections point at. *)
SessionTcpFresh ==
    /\ \A s \in Sessions : sessionTcp[s] =
          IF connectionOf[s] = Null THEN Null ELSE tcpOf[connectionOf[s]]
    /\ \A s \in Sessions : connectionOf[s] # Null => sessionTcp[s] # Null

ClientsOwned ==
    /\ clients = {tcpOf[c] : c \in activeConnections} \ {Null}
    /\ \A c, d \in Connections : tcpOf[c] = tcpOf[d] => c = d \/ tcpOf[c] = Null
    /\ \A c \in Connections \ activeConnections : tcpOf[c] = Null

(* Connections to service still have their TCP client, and all of them do  *)
(* when the next pass starts.                                              *)
LoopInv ==
    /\ phase = "accept" => \A c \in activeConnections : tcpOf[c] # Null
    /\ phase = "service" => \A c \in pending : tcpOf[c] # Null

(* The part that the session handlers act on. *)
PairInv ==
    /\ PairTypeOK
    /\ PairingConsistent
    /\ SessionTcpFresh
    /\ ListsConsistent
    /\ OneSessionPerClient
    /\ SubscribersAllocated

(* The inductive invariant. *)
IInv ==
    /\ TcpTypeOK
    /\ LoopTypeOK
    /\ ClientsOwned
    /\ LoopInv
    /\ PairInv

-----------------------------------------------------------------------------
(* The initial state satisfies the inductive invariant. *)
LEMMA InitIInv == Init => IInv
<1>1. SUFFICES ASSUME Init PROVE IInv
  OBVIOUS
<1>2. TcpTypeOK /\ LoopTypeOK /\ ClientsOwned /\ LoopInv
  BY <1>1 DEF Init, TcpTypeOK, LoopTypeOK, ClientsOwned, LoopInv
<1>3. PairTypeOK /\ SessionTcpFresh /\ SubscribersAllocated
  BY <1>1 DEF Init, PairTypeOK, SessionTcpFresh, SubscribersAllocated
<1>4. PairingConsistent
  BY <1>1, NullAssumption DEF Init, PairingConsistent
<1>5. ListsConsistent /\ OneSessionPerClient
  BY <1>1 DEF Init, ListsConsistent, OneSessionPerClient, allocatedSessions
<1> QED
  BY <1>2, <1>3, <1>4, <1>5 DEF IInv, PairInv

(* A connection and its session point at each other. *)
LEMMA SessionOfPaired ==
    ASSUME IInv, NEW c \in Connections, sessionOf[c] # Null
    PROVE  /\ sessionOf[c] \in activeSessions
           /\ sessionOf[c] \in Sessions
           /\ connectionOf[sessionOf[c]] = c
  BY NullAssumption DEF IInv, PairInv, PairTypeOK, PairingConsistent, ListsConsistent

(* A step that touches no session, and leaves the TCP clients of the       *)
(* connections with a session alone, keeps PairInv.                        *)
LEMMA PairInvUnchanged ==
    ASSUME PairInv,
           UNCHANGED <<sessionOf, sessionVars, subscribers>>,
           closing' \in [Connections -> BOOLEAN],
           closeExpired' \in [Connections -> BOOLEAN],
           \A c \in Connections : sessionOf[c] # Null =>
              /\ c \in activeConnections'
              /\ ~closing'[c]
              /\ tcpOf'[c] = tcpOf[c]
    PROVE  PairInv'
<1>1. PairTypeOK'
  BY DEF PairInv, PairTypeOK, sessionVars
<1>2. PairingConsistent'
  BY DEF PairInv, PairingConsistent, sessionVars
<1>3. SessionTcpFresh'
  <2>1. \A s \in Sessions : connectionOf[s] # Null =>
           /\ connectionOf[s] \in Connections
           /\ sessionOf[connectionOf[s]] # Null
    BY NullAssumption DEF PairInv, PairTypeOK, PairingConsistent
  <2> QED
    BY <2>1 DEF PairInv, SessionTcpFresh, sessionVars
<1>4. ListsConsistent' /\ OneSessionPerClient' /\ SubscribersAllocated'
  BY DEF PairInv, ListsConsistent, OneSessionPerClient, SubscribersAllocated,
         allocatedSessions, sessionVars
<1> QED
  BY <1>1, <1>2, <1>3, <1>4 DEF PairInv

(* The session of connection c ends; the TCP clients of the connections    *)
(* that keep a session stay.                                               *)
LEMMA EndSessionKeeps ==
    ASSUME IInv,
           NEW c \in Connections, sessionOf[c] # Null,
           NEW subs \in [Topics -> SUBSET allocatedSessions],
           UNCHANGED activeConnections,
           \A d \in Connections : d # c => tcpOf'[d] = tcpOf[d],
           EndSession(sessionOf[c], subs)
    PROVE  PairInv'
<1> DEFINE s == sessionOf[c]
<1>1. s \in Sessions /\ s \in activeSessions /\ connectionOf[s] = c /\ c # Null
  BY SessionOfPaired, NullAssumption
<1>2. /\ sessionOf' = [d \in Connections |-> IF d = c THEN Null ELSE sessionOf[d]]
      /\ closing' = [d \in Connections |-> closing[d] \/ (d = c /\ tcpOf'[d] # Null)]
      /\ closeExpired' \in [Connections -> BOOLEAN]
  <2>1. closeExpired' = [d \in Connections |->
                            closeExpired[d] /\ ~(d \in {connectionOf[s]} /\ tcpOf'[d] # Null)]
    BY DEF EndSession, Disconnect
  <2>2. closeExpired' \in [Connections -> BOOLEAN]
    BY <2>1, Zenon
  <2> QED
    BY <1>1, <2>2 DEF EndSession, Disconnect
<1>3. PairTypeOK'
  <2>1. sessionOf' \in [Connections -> Sessions \cup {Null}]
    BY <1>2 DEF IInv, PairInv, PairTypeOK
  <2>2. closing' \in [Connections -> BOOLEAN]
    BY <1>2, Zenon
  <2>3. allocatedSessions \subseteq Sessions
    BY DEF allocatedSessions, IInv, PairInv, PairTypeOK
  <2>4. subscribers' \in [Topics -> SUBSET Sessions]
    BY <2>3 DEF EndSession, Unsubscribed
  <2> QED
    BY <1>1, <1>2, <2>1, <2>2, <2>4 DEF EndSession, IInv, PairInv, PairTypeOK
<1>4. PairingConsistent'
  BY <1>1, <1>2, NullAssumption DEF EndSession, IInv, PairInv, PairTypeOK, PairingConsistent
<1>5. SessionTcpFresh'
  BY <1>1, NullAssumption
  DEF EndSession, IInv, PairInv, PairTypeOK, PairingConsistent, SessionTcpFresh
<1>6. ListsConsistent' /\ OneSessionPerClient'
  BY <1>1, NullAssumption
  DEF EndSession, IInv, PairInv, PairTypeOK, ListsConsistent, OneSessionPerClient,
      allocatedSessions
<1>7. SubscribersAllocated'
  BY <1>1 DEF EndSession, Unsubscribed, SubscribersAllocated, allocatedSessions
<1> QED
  BY <1>3, <1>4, <1>5, <1>6, <1>7 DEF PairInv

(* The session of connection c moves to the disconnected list.             *)
LEMMA ParkSessionKeeps ==
    ASSUME IInv,
           NEW c \in Connections, sessionOf[c] # Null,
           NEW subs \in [Topics -> SUBSET allocatedSessions],
           UNCHANGED activeConnections,
           \A d \in Connections : d # c => tcpOf'[d] = tcpOf[d],
           ParkSession(sessionOf[c], FALSE, subs)
    PROVE  PairInv'
<1> DEFINE s == sessionOf[c]
<1>1. s \in Sessions /\ s \in activeSessions /\ connectionOf[s] = c /\ c # Null
  BY SessionOfPaired, NullAssumption
<1>2. /\ sessionOf' = [d \in Connections |-> IF d = c THEN Null ELSE sessionOf[d]]
      /\ closing' = [d \in Connections |-> closing[d] \/ (d = c /\ tcpOf'[d] # Null)]
      /\ closeExpired' \in [Connections -> BOOLEAN]
  <2>1. closeExpired' = [d \in Connections |->
                            closeExpired[d] /\ ~(d \in {connectionOf[s]} /\ tcpOf'[d] # Null)]
    BY DEF ParkSession, Disconnect
  <2>2. closeExpired' \in [Connections -> BOOLEAN]
    BY <2>1, Zenon
  <2> QED
    BY <1>1, <2>2 DEF ParkSession, Disconnect
<1>3. PairTypeOK'
  <2>1. sessionOf' \in [Connections -> Sessions \cup {Null}]
    BY <1>2 DEF IInv, PairInv, PairTypeOK
  <2>2. closing' \in [Connections -> BOOLEAN]
    BY <1>2, Zenon
  <2>3. allocatedSessions \subseteq Sessions
    BY DEF allocatedSessions, IInv, PairInv, PairTypeOK
  <2>4. subscribers' \in [Topics -> SUBSET Sessions]
    BY <2>3 DEF ParkSession
  <2> QED
    BY <1>1, <1>2, <2>1, <2>2, <2>4 DEF ParkSession, IInv, PairInv, PairTypeOK
<1>4. PairingConsistent'
  BY <1>1, <1>2, NullAssumption DEF ParkSession, IInv, PairInv, PairTypeOK, PairingConsistent
<1>5. SessionTcpFresh'
  BY <1>1, NullAssumption
  DEF ParkSession, IInv, PairInv, PairTypeOK, PairingConsistent, SessionTcpFresh
<1>6. ListsConsistent' /\ OneSessionPerClient'
  BY <1>1, NullAssumption
  DEF ParkSession, IInv, PairInv, PairTypeOK, ListsConsistent, OneSessionPerClient,
      allocatedSessions
<1>7. SubscribersAllocated'
  BY <1>1 DEF ParkSession, SubscribersAllocated, allocatedSessions
<1> QED
  BY <1>3, <1>4, <1>5, <1>6, <1>7 DEF PairInv

(* A handler that ends in Answer keeps PairInv, sent or not.               *)
LEMMA AnswerKeeps ==
    ASSUME IInv,
           NEW c \in Connections, sessionOf[c] # Null,
           NEW clean \in BOOLEAN,
           NEW subs \in [Topics -> SUBSET allocatedSessions],
           UNCHANGED <<activeConnections, tcpOf>>,
           Answer(sessionOf[c], clean, subs)
    PROVE  PairInv'
<1> DEFINE s == sessionOf[c]
<1>1. s \in Sessions /\ s \in activeSessions /\ connectionOf[s] = c
  BY SessionOfPaired
<1>2. CASE LoseConnection(s, clean, subs)
  <2>1. CASE clean
    BY <1>2, <2>1, EndSessionKeeps DEF LoseConnection
  <2>2. CASE ~clean
    <3>1. clean = FALSE
      BY <2>2
    <3>2. ParkSession(s, FALSE, subs)
      BY <1>2, <2>2, <3>1 DEF LoseConnection
    <3> QED
      BY <3>2, ParkSessionKeeps
  <2> QED
    BY <2>1, <2>2
<1>3. CASE /\ cleanSession' = [cleanSession EXCEPT ![s] = clean]
           /\ subscribers' = subs
           /\ UNCHANGED <<sessionOf, closing, closeExpired, activeSessions,
                          disconnectedSessions, connectionOf, sessionTcp, clientID>>
  <2>1. cleanSession' \in [Sessions -> BOOLEAN]
    BY <1>3, <1>1 DEF IInv, PairInv, PairTypeOK
  <2>2. PairTypeOK'
    BY <1>3, <2>1 DEF IInv, PairInv, PairTypeOK, allocatedSessions
  <2>3. PairingConsistent' /\ SessionTcpFresh'
    BY <1>3 DEF IInv, PairInv, PairingConsistent, SessionTcpFresh
  <2>4. ListsConsistent'
    BY <1>1, <1>3 DEF IInv, PairInv, PairTypeOK, ListsConsistent, allocatedSessions
  <2>5. OneSessionPerClient' /\ SubscribersAllocated'
    BY <1>3 DEF IInv, PairInv, OneSessionPerClient, SubscribersAllocated, allocatedSessions
  <2> QED
    BY <2>2, <2>3, <2>4, <2>5 DEF PairInv
<1> QED
  BY <1>2, <1>3 DEF Answer

(* A CONNECT that pairs keeps PairInv, when the sessions it leaves alone   *)
(* belong to other clients.                                                *)
LEMMA AttachKeeps ==
    ASSUME IInv,
           NEW c \in Connections, sessionOf[c] = Null, tcpOf[c] # Null, ~closing[c],
           NEW s \in Sessions,
           NEW id \in ClientIDs,
           NEW clean \in BOOLEAN,
           NEW ended \in SUBSET allocatedSessions,
           NEW sent \in BOOLEAN,
           \A x \in allocatedSessions \ (ended \cup {s}) : clientID[x] # id,
           UNCHANGED <<activeConnections, tcpOf>>,
           Attach(c, s, id, clean, ended, sent)
    PROVE  PairInv'
<1> DEFINE touched == ended \cup {s}
           dropped == {connectionOf[x] : x \in touched} \cup {d \in {c} : ~sent}
<1>1. /\ c # Null /\ c \in activeConnections
      /\ \A x \in Sessions : connectionOf[x] # c
      /\ ended \subseteq Sessions
  BY NullAssumption
  DEF IInv, PairInv, PairTypeOK, PairingConsistent, ClientsOwned, allocatedSessions
<1>2. /\ sessionOf' = [d \in Connections |->
                         IF d \in dropped THEN Null ELSE IF d = c THEN s ELSE sessionOf[d]]
      /\ closing' = [d \in Connections |-> closing[d] \/ (d \in dropped /\ tcpOf[d] # Null)]
      /\ closeExpired' \in [Connections -> BOOLEAN]
  <2>1. sessionOf' = [d \in Connections |->
                         IF d \in dropped THEN Null ELSE [sessionOf EXCEPT ![c] = s][d]]
    BY DEF Attach, Disconnect
  <2>2. sessionOf \in [Connections -> Sessions \cup {Null}]
    BY DEF IInv, PairInv, PairTypeOK
  <2>3. sessionOf' = [d \in Connections |->
                         IF d \in dropped THEN Null ELSE IF d = c THEN s ELSE sessionOf[d]]
    BY <2>1, <2>2
  <2>4. closeExpired' = [d \in Connections |->
                            closeExpired[d] /\ ~(d \in dropped /\ tcpOf'[d] # Null)]
    BY DEF Attach, Disconnect
  <2>5. closeExpired' \in [Connections -> BOOLEAN]
    BY <2>4, Zenon
  <2>6. closing' = [d \in Connections |-> closing[d] \/ (d \in dropped /\ tcpOf'[d] # Null)]
    BY DEF Attach, Disconnect
  <2> QED
    BY <2>3, <2>5, <2>6
<1>3. \A d \in Connections :
         d \in dropped <=> \/ \E x \in touched : connectionOf[x] = d
                           \/ d = c /\ ~sent
  OBVIOUS
<1>4. /\ activeSessions' = (activeSessions \ touched) \cup {x \in {s} : sent}
      /\ disconnectedSessions' = (disconnectedSessions \ touched)
                                    \cup {x \in {s} : ~sent /\ ~clean}
      /\ connectionOf' = [x \in Sessions |->
            IF x = s /\ sent THEN c ELSE IF x \in touched THEN Null ELSE connectionOf[x]]
      /\ sessionTcp' = [x \in Sessions |->
            IF x = s /\ sent THEN tcpOf[c] ELSE IF x \in touched THEN Null ELSE sessionTcp[x]]
      /\ clientID' = [x \in Sessions |->
            IF x = s /\ (sent \/ ~clean) THEN id ELSE IF x \in touched THEN Null ELSE clientID[x]]
      /\ cleanSession' = [x \in Sessions |->
            IF x = s THEN clean ELSE IF x \in ended THEN TRUE ELSE cleanSession[x]]
      /\ subscribers' = [t \in Topics |-> subscribers[t] \ (ended \cup {x \in {s} : ~sent /\ clean})]
  BY DEF Attach, Unsubscribed
<1>5. PairTypeOK'
  <2>1. sessionOf' \in [Connections -> Sessions \cup {Null}]
    BY <1>2 DEF IInv, PairInv, PairTypeOK
  <2>2. closing' \in [Connections -> BOOLEAN]
    BY <1>2, Zenon
  <2>3. cleanSession' \in [Sessions -> BOOLEAN]
    BY <1>4 DEF IInv, PairInv, PairTypeOK
  <2>4. subscribers' \in [Topics -> SUBSET Sessions]
    BY <1>4 DEF IInv, PairInv, PairTypeOK
  <2>5. /\ activeSessions' \subseteq Sessions
        /\ disconnectedSessions' \subseteq Sessions
    BY <1>4 DEF IInv, PairInv, PairTypeOK
  <2>6. /\ connectionOf' \in [Sessions -> Connections \cup {Null}]
        /\ sessionTcp' \in [Sessions -> TCPClients \cup {Null}]
        /\ clientID' \in [Sessions -> ClientIDs \cup {Null}]
    BY <1>4 DEF IInv, PairInv, PairTypeOK, TcpTypeOK
  <2> QED
    BY <1>2, <2>1, <2>2, <2>3, <2>4, <2>5, <2>6 DEF PairTypeOK
<1>6. PairingConsistent'
  <2>1. \A d \in Connections, x \in Sessions : sessionOf[d] = x <=> connectionOf[x] = d
    BY DEF IInv, PairInv, PairingConsistent
  <2>2. \A d \in Connections, x \in Sessions : sessionOf'[d] = x <=> connectionOf'[x] = d
    BY <1>1, <1>2, <1>3, <1>4, <2>1, NullAssumption DEF IInv, PairInv, PairTypeOK
  <2>3. \A d \in Connections : sessionOf'[d] # Null =>
           d \in activeConnections' /\ ~closing'[d]
    <3>1. SUFFICES ASSUME NEW d \in Connections, sessionOf'[d] # Null
                   PROVE  d \in activeConnections' /\ ~closing'[d]
      OBVIOUS
    <3>2. d \notin dropped /\ (d = c \/ sessionOf[d] # Null)
      BY <1>2, <3>1
    <3>3. d \in activeConnections /\ ~closing[d]
      BY <1>1, <3>2 DEF IInv, PairInv, PairingConsistent
    <3> QED
      BY <1>2, <3>2, <3>3
  <2> QED
    BY <2>2, <2>3 DEF PairingConsistent
<1>7. SessionTcpFresh'
  BY <1>1, <1>4, NullAssumption DEF IInv, PairInv, PairTypeOK, SessionTcpFresh
<1>8. ListsConsistent'
  BY <1>1, <1>4, NullAssumption DEF IInv, PairInv, PairTypeOK, ListsConsistent, allocatedSessions
<1>9. OneSessionPerClient'
  BY <1>1, <1>4, NullAssumption
  DEF IInv, PairInv, PairTypeOK, OneSessionPerClient, allocatedSessions
<1>10. SubscribersAllocated'
  BY <1>4 DEF IInv, PairInv, PairTypeOK, SubscribersAllocated, allocatedSessions
<1> QED
  BY <1>5, <1>6, <1>7, <1>8, <1>9, <1>10 DEF PairInv

-----------------------------------------------------------------------------
(* The parts of the invariant that the pass itself changes.                *)

(* A step that leaves the TCP clients and the pass alone keeps them.       *)
LEMMA TcpUnchanged ==
    ASSUME IInv,
           UNCHANGED <<clients, activeConnections, tcpOf>>,
           connected' \in [TCPClients -> BOOLEAN]
    PROVE  TcpTypeOK' /\ ClientsOwned'
  BY DEF IInv, TcpTypeOK, ClientsOwned

(* A connection about to be serviced has its TCP client.                   *)
LEMMA SelectedHasClient ==
    ASSUME IInv, NEW c \in Connections, Selected(c)
    PROVE  tcpOf[c] # Null
  BY DEF IInv, LoopInv, Selected

(* Taking a connection off pending, with its TCP client kept or given up.  *)
LEMMA ServiceKeepsLoop ==
    ASSUME IInv, NEW c \in Connections, Service(c),
           \A d \in Connections : d # c => tcpOf'[d] = tcpOf[d]
    PROVE  LoopTypeOK' /\ LoopInv'
  BY DEF IInv, Service, Selected, LoopTypeOK, LoopInv

(* A TCP client returned to the pool belongs to no other connection.       *)
LEMMA GiveUpClient ==
    ASSUME IInv, NEW c \in Connections, tcpOf[c] # Null,
           ReturnClient(c),
           UNCHANGED activeConnections
    PROVE  /\ TcpTypeOK' /\ ClientsOwned'
           /\ \A d \in Connections : d # c => tcpOf'[d] = tcpOf[d]
<1>1. TcpTypeOK'
  BY DEF IInv, TcpTypeOK, ReturnClient
<1>2. \A d \in Connections : tcpOf'[d] = IF d = c THEN Null ELSE tcpOf[d]
  BY DEF IInv, TcpTypeOK, ReturnClient
<1>3. \A d \in Connections : tcpOf[d] = tcpOf[c] => d = c
  BY DEF IInv, ClientsOwned
<1>4. c \in activeConnections /\ activeConnections \subseteq Connections
  BY DEF IInv, TcpTypeOK, ClientsOwned
<1>5. clients' = {tcpOf'[d] : d \in activeConnections'} \ {Null}
  BY <1>2, <1>3, <1>4 DEF IInv, ClientsOwned, ReturnClient
<1>6. \A d, e \in Connections : tcpOf'[d] = tcpOf'[e] => d = e \/ tcpOf'[d] = Null
  BY <1>2 DEF IInv, ClientsOwned
<1>7. \A d \in Connections \ activeConnections' : tcpOf'[d] = Null
  BY <1>2 DEF IInv, ClientsOwned
<1> QED
  BY <1>1, <1>2, <1>5, <1>6, <1>7 DEF ClientsOwned

-----------------------------------------------------------------------------
(* The actions of Pass, one lemma for each way of servicing a connection.  *)

(* ServiceLost: the peer is gone. *)
LEMMA ServiceLostKeeps ==
    ASSUME IInv, NEW c \in Connections, ServiceLost(c)
    PROVE  IInv'
<1>1. tcpOf[c] # Null /\ UNCHANGED activeConnections
  BY SelectedHasClient DEF ServiceLost, Service
<1>2. /\ TcpTypeOK' /\ ClientsOwned'
      /\ \A d \in Connections : d # c => tcpOf'[d] = tcpOf[d]
  BY <1>1, GiveUpClient DEF ServiceLost
<1>4. LoopTypeOK' /\ LoopInv'
  BY <1>2, ServiceKeepsLoop DEF ServiceLost
<1>5. PairInv'
  <2>1. CASE sessionOf[c] = Null
    <3>1. UNCHANGED <<sessionOf, closing, closeExpired, sessionVars, subscribers>>
      BY <2>1 DEF ServiceLost
    <3> QED
      BY <1>1, <1>2, <2>1, <3>1, PairInvUnchanged DEF IInv, PairInv, PairTypeOK, PairingConsistent
  <2>2. CASE sessionOf[c] # Null
    <3>1. LoseConnection(sessionOf[c], cleanSession[sessionOf[c]], subscribers)
      BY <2>2 DEF ServiceLost
    <3>2. subscribers \in [Topics -> SUBSET allocatedSessions]
      BY DEF IInv, PairInv, PairTypeOK, SubscribersAllocated
    <3>3. CASE cleanSession[sessionOf[c]]
      BY <1>1, <1>2, <2>2, <3>1, <3>2, <3>3, EndSessionKeeps DEF LoseConnection
    <3>4. CASE ~cleanSession[sessionOf[c]]
      <4>1. cleanSession[sessionOf[c]] = FALSE
        BY <2>2, <3>4, SessionOfPaired DEF IInv, PairInv, PairTypeOK
      <4>2. ParkSession(sessionOf[c], FALSE, subscribers)
        BY <3>1, <3>4, <4>1 DEF LoseConnection
      <4> QED
        BY <1>1, <1>2, <2>2, <3>2, <4>2, ParkSessionKeeps
    <3> QED
      BY <3>3, <3>4
  <2> QED
    BY <2>1, <2>2
<1> QED
  BY <1>2, <1>4, <1>5 DEF IInv

(* ServiceClosing: a closing connection waits or is closed. *)
LEMMA ServiceClosingKeeps ==
    ASSUME IInv, NEW c \in Connections, ServiceClosing(c)
    PROVE  IInv'
<1>1. /\ tcpOf[c] # Null /\ closing[c]
      /\ UNCHANGED <<sessionOf, closing, closeExpired, sessionVars, subscribers, activeConnections>>
  BY SelectedHasClient DEF ServiceClosing, Service
<1>2. TcpTypeOK' /\ ClientsOwned' /\ \A d \in Connections : d # c => tcpOf'[d] = tcpOf[d]
  <2>1. CASE UNCHANGED <<tcpVars, tcpOf>>
    BY <1>1, <2>1, TcpUnchanged DEF tcpVars, IInv, TcpTypeOK
  <2>2. CASE ReturnClient(c)
    BY <1>1, <2>2, GiveUpClient
  <2> QED
    BY <2>1, <2>2 DEF ServiceClosing
<1>3. LoopTypeOK' /\ LoopInv'
  BY <1>2, ServiceKeepsLoop DEF ServiceClosing
<1>4. PairInv'
  BY <1>1, <1>2, PairInvUnchanged DEF IInv, PairInv, PairTypeOK, PairingConsistent
<1> QED
  BY <1>2, <1>3, <1>4 DEF IInv

(* Nothing comes of what was read, or the stream is given up. *)
LEMMA ServiceNothingKeeps ==
    ASSUME IInv, NEW c \in Connections,
           ServiceIdle(c) \/ ServiceBadPacket(c) \/ SessionBadConnect(c)
    PROVE  IInv'
<1>1. UNCHANGED <<clients, activeConnections, connectionVars, sessionVars, subscribers>>
  BY DEF ServiceIdle, ServiceBadPacket, SessionBadConnect, Reads, Service, tcpVars
<1>2. connected' \in [TCPClients -> BOOLEAN]
  BY DEF ServiceIdle, ServiceBadPacket, SessionBadConnect, tcpVars, IInv, TcpTypeOK
<1>3. TcpTypeOK' /\ ClientsOwned'
  BY <1>1, <1>2, TcpUnchanged DEF connectionVars
<1>4. LoopTypeOK' /\ LoopInv'
  BY <1>1
  DEF ServiceIdle, ServiceBadPacket, SessionBadConnect, Reads, Service,
      Selected, connectionVars, IInv, LoopTypeOK, LoopInv
<1>5. PairInv'
  BY <1>1, PairInvUnchanged DEF connectionVars, IInv, PairInv, PairTypeOK, PairingConsistent
<1> QED
  BY <1>3, <1>4, <1>5 DEF IInv

(* PairClean and PairNonClean: a CONNECT gets a session or a refusal. *)
LEMMA PairKeeps ==
    ASSUME IInv, NEW c \in Connections, NEW id \in ClientIDs,
           PairClean(c, id) \/ PairNonClean(c, id)
    PROVE  IInv'
<1>1. /\ sessionOf[c] = Null /\ tcpOf[c] # Null /\ ~closing[c]
      /\ UNCHANGED <<clients, connected, activeConnections, tcpOf>>
      /\ Service(c)
  BY SelectedHasClient DEF PairClean, PairNonClean, Reads, Readable, Service, tcpVars
<1>2. TcpTypeOK' /\ ClientsOwned'
  BY <1>1, TcpUnchanged DEF IInv, TcpTypeOK
<1>3. LoopTypeOK' /\ LoopInv'
  BY <1>1, ServiceKeepsLoop
<1>4. PairInv'
  <2>1. CASE UNCHANGED <<sessionOf, closing, closeExpired, sessionVars, subscribers>>
    BY <1>1, <2>1, PairInvUnchanged DEF IInv, PairInv, PairTypeOK, PairingConsistent
  <2>2. CASE \E s \in Sessions \ (allocatedSessions \ SessionsFor(id)), sent \in BOOLEAN :
                Attach(c, s, id, TRUE, SessionsFor(id), sent)
    <3>1. PICK s \in Sessions \ (allocatedSessions \ SessionsFor(id)), sent \in BOOLEAN :
                Attach(c, s, id, TRUE, SessionsFor(id), sent)
      BY <2>2
    <3>2. \A x \in allocatedSessions \ (SessionsFor(id) \cup {s}) : clientID[x] # id
      BY DEF SessionsFor
    <3>3. SessionsFor(id) \in SUBSET allocatedSessions
      BY DEF SessionsFor
    <3> QED
      BY <1>1, <3>1, <3>2, <3>3, AttachKeeps
  <2>3. CASE \E s \in IF SessionsFor(id) # {} THEN SessionsFor(id) ELSE Sessions \ allocatedSessions,
                sent \in BOOLEAN : Attach(c, s, id, FALSE, {}, sent)
    <3>1. PICK s \in IF SessionsFor(id) # {} THEN SessionsFor(id) ELSE Sessions \ allocatedSessions,
               sent \in BOOLEAN : Attach(c, s, id, FALSE, {}, sent)
      BY <2>3
    <3>2. s \in Sessions
      BY <3>1 DEF SessionsFor, allocatedSessions, IInv, PairInv, PairTypeOK
    <3>3. \A x \in allocatedSessions \ ({} \cup {s}) : clientID[x] # id
      BY <3>1 DEF SessionsFor, IInv, PairInv, OneSessionPerClient
    <3> QED
      BY <1>1, <3>1, <3>2, <3>3, AttachKeeps
  <2> QED
    BY <2>1, <2>2, <2>3 DEF PairClean, PairNonClean
<1> QED
  BY <1>2, <1>3, <1>4 DEF IInv

(* Every packet of a connection with a session. *)
LEMMA SessionKeeps ==
    ASSUME IInv, NEW c \in Connections,
           \/ \E clean \in BOOLEAN : SessionConnect(c, clean)
           \/ SessionPing(c)
           \/ \E ts \in SUBSET Topics : SessionSubscribe(c, ts) \/ SessionUnsubscribe(c, ts)
           \/ SessionShutdown(c)
    PROVE  IInv'
<1> DEFINE s == sessionOf[c]
<1>1. /\ sessionOf[c] # Null
      /\ UNCHANGED <<clients, connected, activeConnections, tcpOf>>
      /\ Service(c)
  BY DEF SessionConnect, SessionPing, SessionSubscribe, SessionUnsubscribe, SessionShutdown,
         HasSession, Reads, Service, tcpVars
<1>2. TcpTypeOK' /\ ClientsOwned'
  BY <1>1, TcpUnchanged DEF IInv, TcpTypeOK
<1>3. LoopTypeOK' /\ LoopInv'
  BY <1>1, ServiceKeepsLoop
<1>4. s \in activeSessions /\ s \in Sessions
  BY <1>1, SessionOfPaired
<1>5. subscribers \in [Topics -> SUBSET allocatedSessions]
  BY DEF IInv, PairInv, PairTypeOK, SubscribersAllocated
<1>6. cleanSession[s] \in BOOLEAN
  BY <1>4 DEF IInv, PairInv, PairTypeOK
<1>7. PairInv'
  <2>1. CASE SessionShutdown(c)
    BY <1>1, <1>5, <2>1, EndSessionKeeps DEF SessionShutdown
  <2>2. CASE \E clean \in BOOLEAN : SessionConnect(c, clean)
    BY <1>1, <1>5, <2>2, AnswerKeeps DEF SessionConnect
  <2>3. CASE SessionPing(c)
    BY <1>1, <1>5, <1>6, <2>3, AnswerKeeps DEF SessionPing
  <2>4. ASSUME NEW ts \in SUBSET Topics, SessionSubscribe(c, ts)
        PROVE  PairInv'
    <3>1. Subscribed(s, ts) \in [Topics -> SUBSET allocatedSessions]
      BY <1>4, <1>5 DEF Subscribed, allocatedSessions
    <3> QED
      BY <1>1, <1>6, <2>4, <3>1, AnswerKeeps DEF SessionSubscribe
  <2>5. ASSUME NEW ts \in SUBSET Topics, SessionUnsubscribe(c, ts)
        PROVE  PairInv'
    <3>1. [t \in Topics |-> subscribers[t] \ {x \in {s} : t \in ts}]
             \in [Topics -> SUBSET allocatedSessions]
      BY <1>5
    <3> QED
      BY <1>1, <1>6, <2>5, <3>1, AnswerKeeps DEF SessionUnsubscribe
  <2> QED
    BY <2>1, <2>2, <2>3, <2>4, <2>5
<1> QED
  BY <1>2, <1>3, <1>7 DEF IInv

(* AcceptConnection: a fresh TCP client for a fresh connection. *)
LEMMA AcceptKeeps ==
    ASSUME IInv, NEW t \in TCPClients, NEW c \in Connections, AcceptConnection(t, c)
    PROVE  IInv'
<1>1. /\ t \notin clients /\ c \notin activeConnections /\ phase = "accept"
      /\ clients' = clients \cup {t}
      /\ activeConnections' = activeConnections \cup {c}
      /\ tcpOf' = [tcpOf EXCEPT ![c] = t]
      /\ connected' = [connected EXCEPT ![t] = TRUE]
      /\ phase' = "service" /\ pending' = ServicedNext
      /\ UNCHANGED <<sessionOf, closing, closeExpired, sessionVars, subscribers>>
  BY DEF AcceptConnection
<1>2. TcpTypeOK'
  BY <1>1 DEF IInv, TcpTypeOK
<1>3. \A d \in Connections : tcpOf'[d] = IF d = c THEN t ELSE tcpOf[d]
  BY <1>1 DEF IInv, TcpTypeOK
<1>4. tcpOf[c] = Null /\ t # Null /\ activeConnections \subseteq Connections
  BY <1>1, NullAssumption DEF IInv, TcpTypeOK, ClientsOwned
<1>5. \A d \in Connections : tcpOf[d] # t
  BY <1>1, <1>4 DEF IInv, ClientsOwned
<1>6. ClientsOwned'
  <2>1. clients' = {tcpOf'[d] : d \in activeConnections'} \ {Null}
    BY <1>1, <1>3, <1>4 DEF IInv, ClientsOwned
  <2>2. \A d, e \in Connections : tcpOf'[d] = tcpOf'[e] => d = e \/ tcpOf'[d] = Null
    BY <1>3, <1>5 DEF IInv, ClientsOwned
  <2>3. \A d \in Connections \ activeConnections' : tcpOf'[d] = Null
    BY <1>1, <1>3 DEF IInv, ClientsOwned
  <2> QED
    BY <2>1, <2>2, <2>3 DEF ClientsOwned
<1>7. LoopTypeOK' /\ LoopInv'
  BY <1>1, <1>4 DEF IInv, LoopTypeOK, LoopInv, ServicedNext
<1>8. PairInv'
  BY <1>1, <1>3, PairInvUnchanged DEF IInv, PairInv, PairTypeOK, PairingConsistent
<1> QED
  BY <1>2, <1>6, <1>7, <1>8 DEF IInv

(* FreeClosedConnections: only connections without a TCP client leave. *)
LEMMA FreeKeeps ==
    ASSUME IInv, FreeClosedConnections
    PROVE  IInv'
<1>1. /\ phase' = "accept" /\ pending' = pending
      /\ activeConnections' = {c \in activeConnections : tcpOf[c] # Null}
      /\ closing' = [c \in Connections |-> closing[c] /\ tcpOf[c] # Null]
      /\ closeExpired' = [c \in Connections |-> closeExpired[c] /\ tcpOf[c] # Null]
      /\ UNCHANGED <<clients, connected, tcpOf, sessionOf, sessionVars, subscribers>>
  BY DEF FreeClosedConnections, isClosed, tcpVars
<1>2. TcpTypeOK' /\ LoopTypeOK' /\ LoopInv'
  BY <1>1 DEF IInv, TcpTypeOK, LoopTypeOK, LoopInv
<1>3. ClientsOwned'
  BY <1>1 DEF IInv, ClientsOwned, TcpTypeOK
<1>4. closing' \in [Connections -> BOOLEAN] /\ closeExpired' \in [Connections -> BOOLEAN]
  BY <1>1, Zenon
<1>5. \A c \in Connections : sessionOf[c] # Null =>
         c \in activeConnections /\ ~closing[c] /\ tcpOf[c] # Null
  BY SessionOfPaired, NullAssumption DEF IInv, PairInv, PairingConsistent, SessionTcpFresh
<1>6. PairInv'
  BY <1>1, <1>4, <1>5, PairInvUnchanged DEF IInv
<1> QED
  BY <1>2, <1>3, <1>6 DEF IInv

(* Every step of the system keeps the inductive invariant. *)
THEOREM InductiveStep == IInv /\ [Next]_vars => IInv'
<1>1. SUFFICES ASSUME IInv, [Next]_vars PROVE IInv'
  OBVIOUS
<1>2. ASSUME NEW t \in TCPClients, NEW c \in Connections, AcceptConnection(t, c)
      PROVE  IInv'
  BY <1>1, <1>2, AcceptKeeps
<1>3. CASE AcceptNothing
  <2>1. TcpTypeOK' /\ ClientsOwned'
    BY <1>1, <1>3, TcpUnchanged DEF AcceptNothing, tcpVars, connectionVars, IInv, TcpTypeOK
  <2>2. LoopTypeOK' /\ LoopInv'
    BY <1>1, <1>3 DEF AcceptNothing, ServicedNext, IInv, TcpTypeOK, LoopTypeOK, LoopInv
  <2>3. PairInv'
    BY <1>1, <1>3, PairInvUnchanged
    DEF AcceptNothing, connectionVars, IInv, PairInv, PairTypeOK, PairingConsistent
  <2> QED
    BY <2>1, <2>2, <2>3 DEF IInv
<1>4. ASSUME NEW c \in Connections, ServiceConnection(c) PROVE IInv'
  <2>1. CASE ServiceLost(c)
    BY <1>1, <2>1, ServiceLostKeeps
  <2>2. CASE ServiceClosing(c)
    BY <1>1, <2>2, ServiceClosingKeeps
  <2>3. CASE ServiceIdle(c) \/ ServiceBadPacket(c) \/ SessionBadConnect(c)
    BY <1>1, <2>3, ServiceNothingKeeps
  <2>4. CASE \E id \in ClientIDs : PairClean(c, id) \/ PairNonClean(c, id)
    BY <1>1, <2>4, PairKeeps
  <2>5. CASE \/ \E clean \in BOOLEAN : SessionConnect(c, clean)
             \/ SessionPing(c)
             \/ \E ts \in SUBSET Topics : SessionSubscribe(c, ts) \/ SessionUnsubscribe(c, ts)
             \/ SessionShutdown(c)
    BY <1>1, <2>5, SessionKeeps
  <2> QED
    BY <1>4, <2>1, <2>2, <2>3, <2>4, <2>5 DEF ServiceConnection
<1>5. CASE FreeClosedConnections
  BY <1>1, <1>5, FreeKeeps
<1>6. ASSUME NEW t \in TCPClients, PeerCloses(t) PROVE IInv'
  <2>1. connected' \in [TCPClients -> BOOLEAN]
    BY <1>1, <1>6 DEF PeerCloses, IInv, TcpTypeOK
  <2>2. TcpTypeOK' /\ ClientsOwned'
    BY <1>1, <1>6, <2>1, TcpUnchanged DEF PeerCloses, connectionVars
  <2>3. LoopTypeOK' /\ LoopInv'
    BY <1>1, <1>6 DEF PeerCloses, connectionVars, loopVars, IInv, LoopTypeOK, LoopInv
  <2>4. PairInv'
    BY <1>1, <1>6, PairInvUnchanged
    DEF PeerCloses, connectionVars, IInv, PairInv, PairTypeOK, PairingConsistent
  <2> QED
    BY <2>2, <2>3, <2>4 DEF IInv
<1>7. ASSUME NEW c \in Connections, CloseTimeout(c) PROVE IInv'
  <2>1. closeExpired' \in [Connections -> BOOLEAN]
    BY <1>1, <1>7 DEF CloseTimeout, IInv, PairInv, PairTypeOK
  <2>2. TcpTypeOK' /\ ClientsOwned'
    BY <1>1, <1>7, TcpUnchanged DEF CloseTimeout, tcpVars, IInv, TcpTypeOK
  <2>3. LoopTypeOK' /\ LoopInv'
    BY <1>1, <1>7 DEF CloseTimeout, loopVars, IInv, LoopTypeOK, LoopInv
  <2>4. PairInv'
    BY <1>1, <1>7, <2>1, PairInvUnchanged
    DEF CloseTimeout, IInv, PairInv, PairTypeOK, PairingConsistent
  <2> QED
    BY <2>2, <2>3, <2>4 DEF IInv
<1>8. CASE UNCHANGED vars
  <2>1. TcpTypeOK' /\ ClientsOwned' /\ LoopTypeOK' /\ LoopInv'
    BY <1>1, <1>8 DEF vars, IInv, TcpTypeOK, ClientsOwned, LoopTypeOK, LoopInv
  <2>2. PairInv'
    BY <1>1, <1>8, PairInvUnchanged
    DEF vars, sessionVars, IInv, PairInv, PairTypeOK, PairingConsistent
  <2> QED
    BY <2>1, <2>2 DEF IInv
<1> QED
  BY <1>1, <1>2, <1>3, <1>4, <1>5, <1>6, <1>7, <1>8 DEF Next, Pass, Halted

(* The inductive invariant holds throughout. *)
THEOREM Invariance == Spec => []IInv
  BY InitIInv, InductiveStep, PTL DEF Spec

-----------------------------------------------------------------------------
(* Every variable keeps its type. *)
THEOREM TypeCorrect == Spec => []TypeOK
<1>1. IInv => TypeOK
  BY DEF IInv, TcpTypeOK, PairInv, PairTypeOK, LoopTypeOK, TypeOK
<1> QED
  BY <1>1, Invariance, PTL

(* Connections and sessions point at each other, whatever order peers      *)
(* connect, take over, fail and vanish in.                                 *)
THEOREM PairingCorrect == Spec => []PairingConsistent
<1>1. IInv => PairingConsistent
  BY DEF IInv, PairInv
<1> QED
  BY <1>1, Invariance, PTL

(* No dangling TCP client pointer, no leaked TCP client. *)
THEOREM NoDanglingClient == Spec => []TcpClientsOwned
<1>1. IInv => TcpClientsOwned
  BY DEF IInv, PairInv, SessionTcpFresh, ClientsOwned, TcpClientsOwned
<1> QED
  BY <1>1, Invariance, PTL

(* A session is on the list that says what it is. *)
THEOREM ListsCorrect == Spec => []ListsConsistent
<1>1. IInv => ListsConsistent
  BY DEF IInv, PairInv
<1> QED
  BY <1>1, Invariance, PTL

(* A client never has two sessions. *)
THEOREM UniqueSession == Spec => []OneSessionPerClient
<1>1. IInv => OneSessionPerClient
  BY DEF IInv, PairInv
<1> QED
  BY <1>1, Invariance, PTL

(* The data model never publishes to a destroyed session. *)
THEOREM NoDanglingSubscriber == Spec => []SubscribersAllocated
<1>1. IInv => SubscribersAllocated
  BY DEF IInv, PairInv
<1> QED
  BY <1>1, Invariance, PTL

(* A leaf's list that lacks an allocated session has room for it. *)
LEMMA RoomOnLists == IInv => SubscriberListHasRoom
<1>1. SUFFICES ASSUME IInv, NEW t \in Topics, NEW s \in allocatedSessions, s \notin subscribers[t]
               PROVE  Cardinality(subscribers[t]) < MaxSubscribers
  BY DEF SubscriberListHasRoom
<1>2. s \in Sessions /\ subscribers[t] \in SUBSET (Sessions \ {s})
  BY <1>1 DEF IInv, PairInv, PairTypeOK, allocatedSessions
<1>3. /\ IsFiniteSet(Sessions \ {s})
      /\ Cardinality(Sessions \ {s}) = Cardinality(Sessions) - 1
  BY <1>2, PoolAssumption, FS_RemoveElement
<1>4. Cardinality(subscribers[t]) <= Cardinality(Sessions \ {s})
  BY <1>2, <1>3, FS_Subset
<1>5. Cardinality(Sessions) \in Nat
  BY PoolAssumption, FS_CardinalityType
<1>6. Cardinality(subscribers[t]) \in Nat
  BY <1>2, <1>3, FS_Subset, FS_CardinalityType
<1> QED
  BY <1>3, <1>4, <1>5, <1>6, PoolAssumption

(* No subscription is refused for want of room, for any pool sizes with    *)
(* at most MaxSubscribers sessions.                                        *)
THEOREM SubscriptionAlwaysFits == Spec => []SubscriberListHasRoom
  BY RoomOnLists, Invariance, PTL

(* Every accepted TCP client gets a connection: the branch of              *)
(* newConnection that turns a client away is dead.                         *)
THEOREM AcceptedIsServed == Spec => []AcceptedClientHasConnection
<1>1. ASSUME IInv PROVE AcceptedClientHasConnection
  <2>1. SUFFICES ASSUME phase = "accept", clients # TCPClients, activeConnections = Connections
                 PROVE  FALSE
    BY <1>1 DEF AcceptedClientHasConnection, IInv, LoopInv
  <2>2. tcpOf \in [Connections -> clients]
    BY <1>1, <2>1 DEF IInv, LoopInv, TcpTypeOK, ClientsOwned
  <2>3. clients \in SUBSET TCPClients
    BY <1>1 DEF IInv, TcpTypeOK
  <2>4. /\ IsFiniteSet(clients)
        /\ Cardinality(clients) <= Cardinality(TCPClients)
        /\ Cardinality(clients) # Cardinality(TCPClients)
    BY <2>1, <2>3, PoolAssumption, FS_Subset
  <2>5. /\ Cardinality(clients) \in Nat
        /\ Cardinality(TCPClients) \in Nat
        /\ Cardinality(Connections) \in Nat
    BY <2>4, PoolAssumption, FS_CardinalityType
  <2>6. Cardinality(clients) < Cardinality(Connections)
    BY <2>4, <2>5, PoolAssumption
  <2>7. \E c, d \in Connections : c # d /\ tcpOf[c] = tcpOf[d]
    BY <2>2, <2>4, <2>6, PoolAssumption, FS_PigeonHole
  <2> QED
    BY <1>1, <2>1, <2>7 DEF IInv, LoopInv, ClientsOwned
<1> QED
  BY <1>1, Invariance, PTL

(* A session that is not clean is taken away only by its own client. *)
THEOREM PersistentSessionsSurvive == Spec => PersistentSurvives
<1> DEFINE Excused(s) == \E c \in Connections :
                            \/ SessionShutdown(c) /\ sessionOf[c] = s
                            \/ SessionConnect(c, TRUE) /\ sessionOf[c] = s
                            \/ PairClean(c, clientID[s])
<1>1. ASSUME IInv, Next, NEW s \in allocatedSessions,
             ~cleanSession[s], clientID'[s] # clientID[s]
      PROVE  Excused(s)
  <2>1. s \in Sessions /\ clientID \in [Sessions -> ClientIDs \cup {Null}]
    BY <1>1 DEF IInv, PairInv, PairTypeOK, allocatedSessions
  <2>2. PICK c \in Connections : ServiceConnection(c)
    BY <1>1 DEF Next, Pass, Halted, AcceptConnection, AcceptNothing, FreeClosedConnections,
                PeerCloses, CloseTimeout, sessionVars, vars
  <2>3. ASSUME NEW r \in Sessions, NEW clean, NEW subs, LoseConnection(r, clean, subs)
        PROVE  r = s /\ clean
    BY <1>1, <2>1, <2>3 DEF LoseConnection, EndSession, ParkSession
  <2>4. ASSUME NEW r \in Sessions, NEW clean, NEW subs, Answer(r, clean, subs)
        PROVE  r = s /\ clean
    BY <1>1, <2>3, <2>4 DEF Answer
  <2>5. sessionOf[c] # Null => sessionOf[c] \in Sessions
    BY <1>1 DEF IInv, PairInv, PairTypeOK
  <2>6. CASE ServiceLost(c)
    BY <1>1, <2>3, <2>5, <2>6 DEF ServiceLost, sessionVars
  <2>7. CASE \/ ServiceClosing(c) \/ ServiceIdle(c)
             \/ ServiceBadPacket(c) \/ SessionBadConnect(c)
    BY <1>1, <2>7 DEF ServiceClosing, ServiceIdle, ServiceBadPacket,
                      SessionBadConnect, sessionVars
  <2>8. ASSUME NEW id \in ClientIDs, PairClean(c, id)
        PROVE  Excused(s)
    <3>1. PICK r \in Sessions \ (allocatedSessions \ SessionsFor(id)), sent \in BOOLEAN :
             Attach(c, r, id, TRUE, SessionsFor(id), sent)
      BY <1>1, <2>8 DEF PairClean, sessionVars
    <3>2. s \in SessionsFor(id) \cup {r}
      BY <1>1, <2>1, <3>1 DEF Attach
    <3>3. s \in SessionsFor(id)
      BY <1>1, <3>1, <3>2
    <3>4. clientID[s] = id
      BY <3>3 DEF SessionsFor
    <3> QED
      BY <2>8, <3>4
  <2>9. ASSUME NEW id \in ClientIDs, PairNonClean(c, id)
        PROVE  FALSE
    <3>1. PICK r \in IF SessionsFor(id) # {} THEN SessionsFor(id) ELSE Sessions \ allocatedSessions,
               sent \in BOOLEAN : Attach(c, r, id, FALSE, {}, sent)
      BY <1>1, <2>9 DEF PairNonClean, sessionVars
    <3>2. s = r /\ clientID'[s] = id
      BY <1>1, <2>1, <3>1 DEF Attach
    <3> QED
      BY <1>1, <3>1, <3>2 DEF SessionsFor
  <2>10. CASE \/ SessionPing(c)
              \/ \E ts \in SUBSET Topics : SessionSubscribe(c, ts) \/ SessionUnsubscribe(c, ts)
    <3>1. PICK subs : /\ sessionOf[c] # Null
                      /\ Answer(sessionOf[c], cleanSession[sessionOf[c]], subs)
      BY <2>10 DEF SessionPing, SessionSubscribe, SessionUnsubscribe, HasSession
    <3>2. sessionOf[c] = s /\ cleanSession[sessionOf[c]]
      BY <2>4, <2>5, <3>1
    <3> QED
      BY <1>1, <3>2
  <2>11. ASSUME NEW clean \in BOOLEAN, SessionConnect(c, clean)
         PROVE  Excused(s)
    <3>1. sessionOf[c] = s /\ clean
      BY <2>4, <2>5, <2>11 DEF SessionConnect, HasSession
    <3>2. SessionConnect(c, TRUE)
      BY <2>11, <3>1
    <3> QED
      BY <3>1, <3>2
  <2>12. CASE SessionShutdown(c)
    <3>1. sessionOf[c] = s
      BY <1>1, <2>1, <2>5, <2>12 DEF SessionShutdown, HasSession, EndSession
    <3> QED
      BY <2>12, <3>1
  <2> QED
    BY <2>2, <2>6, <2>7, <2>8, <2>9, <2>10, <2>11, <2>12 DEF ServiceConnection
<1>2. IInv /\ [Next]_vars =>
         [\A s \in allocatedSessions :
             (~cleanSession[s] /\ clientID'[s] # clientID[s]) => Excused(s)]_vars
  BY <1>1
<1> QED
  BY <1>2, Invariance, PTL DEF Spec, PersistentSurvives
-----------------------------------------------------------------------------
(***************************************************************************)
(* The broker implements the session store.                                *)
(***************************************************************************)

NoRecord == [state |-> "none", clean |-> TRUE, topics |-> {}]

(* The store at a client, by the session that has its ID. *)
LEMMA StoreAt ==
    IInv => \A id \in ClientIDs :
               /\ SessionsFor(id) = {} => storeOf[id] = NoRecord
               /\ \A s \in SessionsFor(id) : storeOf[id] = SessionRecord(s)
<1>1. SUFFICES ASSUME IInv, NEW id \in ClientIDs, NEW s \in SessionsFor(id)
               PROVE  storeOf[id] = SessionRecord(s)
  BY DEF storeOf, NoRecord
<1>2. (CHOOSE r \in SessionsFor(id) : TRUE) \in SessionsFor(id)
  BY <1>1
<1>3. (CHOOSE r \in SessionsFor(id) : TRUE) = s
  BY <1>1, <1>2 DEF SessionsFor, IInv, PairInv, OneSessionPerClient
<1> QED
  BY <1>1, <1>3 DEF storeOf

(* The same after a step. *)
LEMMA StoreAtNext ==
    IInv' => \A id \in ClientIDs :
               /\ SessionsFor(id)' = {} => storeOf'[id] = NoRecord
               /\ \A s \in SessionsFor(id)' : storeOf'[id] = SessionRecord(s)'
<1>1. SUFFICES ASSUME IInv', NEW id \in ClientIDs, NEW s \in SessionsFor(id)'
               PROVE  storeOf'[id] = SessionRecord(s)'
  BY DEF storeOf, NoRecord
<1>2. (CHOOSE r \in SessionsFor(id)' : TRUE) \in SessionsFor(id)'
  BY <1>1
<1>3. (CHOOSE r \in SessionsFor(id)' : TRUE) = s
  BY <1>1, <1>2 DEF SessionsFor, IInv, PairInv, OneSessionPerClient
<1> QED
  BY <1>1, <1>3 DEF storeOf

(* A step leaves the sessions of clients other than id alone. *)
Others(id) ==
    \A s \in Sessions :
        IF clientID[s] \in {id, Null}
        THEN clientID'[s] \in {id, Null}
        ELSE /\ clientID'[s] = clientID[s]
             /\ (s \in activeSessions') = (s \in activeSessions)
             /\ (s \in disconnectedSessions') = (s \in disconnectedSessions)
             /\ cleanSession'[s] = cleanSession[s]
             /\ \A t \in Topics : (s \in subscribers'[t]) = (s \in subscribers[t])

(* A step that only changes sessions of client id changes the store at id. *)
LEMMA OnlyOneClient ==
    ASSUME IInv, IInv', NEW id \in ClientIDs, Others(id)
    PROVE  storeOf' = [storeOf EXCEPT ![id] = storeOf'[id]]
<1>1. ASSUME NEW i \in ClientIDs, i # id
      PROVE  storeOf'[i] = storeOf[i]
  <2>1. allocatedSessions \subseteq Sessions /\ allocatedSessions' \subseteq Sessions
    BY DEF IInv, PairInv, PairTypeOK, allocatedSessions
  <2>2. SessionsFor(i)' = SessionsFor(i)
    BY <1>1, <2>1, NullAssumption DEF Others, SessionsFor, allocatedSessions
  <2>3. CASE SessionsFor(i) = {}
    BY <2>2, <2>3, StoreAt, StoreAtNext
  <2>4. CASE SessionsFor(i) # {}
    <3>1. PICK s \in SessionsFor(i) : TRUE
      BY <2>4
    <3>2. s \in Sessions /\ clientID[s] = i /\ clientID'[s] = i
      BY <2>1, <2>2, <3>1 DEF SessionsFor
    <3>3. /\ (s \in activeSessions') = (s \in activeSessions)
          /\ cleanSession'[s] = cleanSession[s]
          /\ {t \in Topics : s \in subscribers'[t]} = {t \in Topics : s \in subscribers[t]}
      BY <1>1, <3>2, NullAssumption DEF Others
    <3>4. SessionRecord(s)' = SessionRecord(s)
      BY <3>3 DEF SessionRecord
    <3> QED
      BY <2>2, <3>1, <3>4, StoreAt, StoreAtNext
  <2> QED
    BY <2>3, <2>4
<1>2. storeOf = [i \in ClientIDs |-> storeOf[i]] /\ storeOf' = [i \in ClientIDs |-> storeOf'[i]]
  BY DEF storeOf
<1> QED
  BY <1>1, <1>2

(* The store after such a step, by the session that client id has then. *)
LEMMA StoreBecomes ==
    ASSUME IInv, IInv', NEW id \in ClientIDs, Others(id),
           NEW s \in SessionsFor(id)', NEW e, SessionRecord(s)' = e
    PROVE  storeOf' = [storeOf EXCEPT ![id] = e]
<1>1. storeOf'[id] = SessionRecord(s)'
  BY StoreAtNext
<1> QED
  BY <1>1, OnlyOneClient

(* The store at Cardinality is that of FiniteSets. *)
LEMMA SameCardinality == \A S : Store!Cardinality(S) = Cardinality(S)
  BY DEF Store!Cardinality, Cardinality

(* A step that changes no session changes no record. *)
LEMMA StoreUnchanged ==
    ASSUME UNCHANGED <<activeSessions, disconnectedSessions, clientID, cleanSession, subscribers>>
    PROVE  storeOf' = storeOf
  BY DEF storeOf, SessionRecord, SessionsFor, allocatedSessions

-----------------------------------------------------------------------------
(* Handlers of a connection with a session. *)

(* Session s of client id has connection c. *)
Paired(c, s, id) == sessionOf[c] = s /\ clientID[s] = id

LEMMA PairedClient ==
    ASSUME IInv, NEW c \in Connections, sessionOf[c] # Null
    PROVE  \E s \in Sessions, id \in ClientIDs : Paired(c, s, id)
  BY SessionOfPaired, NullAssumption
  DEF Paired, IInv, PairInv, PairTypeOK, ListsConsistent, allocatedSessions

LEMMA OnlySession ==
    ASSUME IInv, NEW c \in Connections, NEW s \in Sessions, NEW id \in ClientIDs,
           Paired(c, s, id)
    PROVE  /\ s \in activeSessions
           /\ s \in SessionsFor(id)
           /\ \A r \in Sessions : r # s => clientID[r] # id
<1>1. s \in activeSessions
  BY SessionOfPaired, NullAssumption DEF Paired, IInv, PairInv, ListsConsistent
<1> QED
  BY <1>1, NullAssumption
  DEF Paired, IInv, PairInv, ListsConsistent, OneSessionPerClient, SessionsFor, allocatedSessions

(* Subscriber lists subs differ from the present ones in session s only. *)
SubscribersOf(s, subs) ==
    \A t \in Topics, r \in Sessions : r # s => (r \in subs[t]) = (r \in subscribers[t])

(* The store when a session ends. *)
LEMMA EndStore ==
    ASSUME IInv, IInv', NEW c \in Connections, NEW s \in Sessions, NEW id \in ClientIDs,
           Paired(c, s, id), NEW subs, SubscribersOf(s, subs), EndSession(s, subs)
    PROVE  storeOf' = [storeOf EXCEPT ![id] = NoRecord]
<1>1. clientID[s] = id /\ \A r \in Sessions : r # s => clientID[r] # id
  BY OnlySession DEF Paired
<1>2. /\ \A r \in Sessions : clientID'[r] = IF r = s THEN Null ELSE clientID[r]
      /\ \A r \in Sessions : r # s => cleanSession'[r] = cleanSession[r]
      /\ activeSessions' = activeSessions \ {s}
      /\ disconnectedSessions' = disconnectedSessions \ {s}
      /\ \A t \in Topics, r \in Sessions : r # s => (r \in subscribers'[t]) = (r \in subscribers[t])
  BY DEF EndSession, Unsubscribed, SubscribersOf, IInv, PairInv, PairTypeOK
<1>3. Others(id)
  BY <1>1, <1>2, NullAssumption DEF Others
<1>4. SessionsFor(id)' = {}
  BY <1>1, <1>2, NullAssumption DEF SessionsFor, allocatedSessions, IInv, PairInv, PairTypeOK
<1>5. storeOf'[id] = NoRecord
  BY <1>4, StoreAtNext
<1> QED
  BY <1>3, <1>5, OnlyOneClient

(* The store when a session is parked. *)
LEMMA ParkStore ==
    ASSUME IInv, IInv', NEW c \in Connections, NEW s \in Sessions, NEW id \in ClientIDs,
           Paired(c, s, id), NEW clean, NEW subs, SubscribersOf(s, subs),
           ParkSession(s, clean, subs)
    PROVE  storeOf' = [storeOf EXCEPT ![id] =
              [state |-> "disconnected", clean |-> clean,
               topics |-> {t \in Topics : s \in subs[t]}]]
<1>1. clientID[s] = id /\ \A r \in Sessions : r # s => clientID[r] # id
  BY OnlySession DEF Paired
<1>2. /\ clientID' = clientID
      /\ \A r \in Sessions : cleanSession'[r] = IF r = s THEN clean ELSE cleanSession[r]
      /\ activeSessions' = activeSessions \ {s}
      /\ disconnectedSessions' = disconnectedSessions \cup {s}
      /\ subscribers' = subs
  BY DEF ParkSession, IInv, PairInv, PairTypeOK
<1>3. Others(id)
  BY <1>1, <1>2 DEF Others, SubscribersOf
<1>4. s \in SessionsFor(id)'
  BY <1>1, <1>2 DEF SessionsFor, allocatedSessions
<1>5. s \notin activeSessions' /\ cleanSession'[s] = clean
  BY <1>2
<1>6. SessionRecord(s)' = [state |-> "disconnected", clean |-> clean,
                           topics |-> {t \in Topics : s \in subs[t]}]
  BY <1>2, <1>5 DEF SessionRecord
<1> QED
  BY <1>3, <1>4, <1>6, StoreBecomes

(* A handler that ends in Answer: the client's session becomes what the    *)
(* handler made of it, or that without its connection.                     *)
LEMMA AnswerStore ==
    ASSUME IInv, IInv', NEW c \in Connections, NEW s \in Sessions, NEW id \in ClientIDs,
           Paired(c, s, id), NEW clean \in BOOLEAN, NEW subs, SubscribersOf(s, subs),
           Answer(s, clean, subs)
    PROVE  Store!Becomes(id, [state |-> "connected", clean |-> clean,
                              topics |-> {t \in Topics : s \in subs[t]}])
<1> DEFINE e == [state |-> "connected", clean |-> clean,
                 topics |-> {t \in Topics : s \in subs[t]}]
<1>1. clientID[s] = id /\ s \in activeSessions
  BY OnlySession DEF Paired
<1>2. CASE clean /\ EndSession(s, subs)
  <2>1. storeOf' = [storeOf EXCEPT ![id] = NoRecord]
    BY <1>2, EndStore
  <2>2. Store!WithoutConnection(e) = NoRecord
    BY <1>2 DEF Store!WithoutConnection, Store!NoSession, NoRecord
  <2> QED
    BY <2>1, <2>2 DEF Store!Becomes
<1>3. CASE ~clean /\ ParkSession(s, clean, subs)
  <2>1. storeOf' = [storeOf EXCEPT ![id] = [state |-> "disconnected", clean |-> clean,
                                            topics |-> {t \in Topics : s \in subs[t]}]]
    BY <1>3, ParkStore
  <2>2. Store!WithoutConnection(e) = [state |-> "disconnected", clean |-> clean,
                                      topics |-> {t \in Topics : s \in subs[t]}]
    BY <1>3 DEF Store!WithoutConnection
  <2> QED
    BY <2>1, <2>2 DEF Store!Becomes
<1>4. CASE /\ cleanSession' = [cleanSession EXCEPT ![s] = clean]
           /\ subscribers' = subs
           /\ UNCHANGED <<sessionOf, closing, closeExpired, activeSessions,
                          disconnectedSessions, connectionOf, sessionTcp, clientID>>
  <2>1. \A r \in Sessions : cleanSession'[r] = IF r = s THEN clean ELSE cleanSession[r]
    BY <1>4 DEF IInv, PairInv, PairTypeOK
  <2>2. Others(id)
    BY <1>1, <1>4, <2>1 DEF Others, SubscribersOf
  <2>3. s \in SessionsFor(id)'
    BY <1>1, <1>4 DEF SessionsFor, allocatedSessions
  <2>4. s \in activeSessions' /\ cleanSession'[s] = clean
    BY <1>1, <1>4, <2>1
  <2>5. SessionRecord(s)' = e
    BY <1>4, <2>4 DEF SessionRecord
  <2>6. storeOf' = [storeOf EXCEPT ![id] = e]
    BY <2>2, <2>3, <2>5, StoreBecomes
  <2> QED
    BY <2>6 DEF Store!Becomes
<1> QED
  BY <1>2, <1>3, <1>4 DEF Answer, LoseConnection

(* The record of a connected client. *)
LEMMA StoreOfPaired ==
    ASSUME IInv, NEW c \in Connections, NEW s \in Sessions, NEW id \in ClientIDs,
           Paired(c, s, id)
    PROVE  storeOf[id] = [state |-> "connected", clean |-> cleanSession[s],
                          topics |-> {t \in Topics : s \in subscribers[t]}]
<1>1. s \in SessionsFor(id) /\ s \in activeSessions
  BY OnlySession
<1>2. storeOf[id] = SessionRecord(s)
  BY <1>1, StoreAt
<1> QED
  BY <1>1, <1>2 DEF SessionRecord

-----------------------------------------------------------------------------
(* CONNECT. *)

(* A free slot means the store has room for one more client. *)
LEMMA RoomInStore ==
    ASSUME IInv, NEW id \in ClientIDs,
           SessionsFor(id) # {} \/ \E s \in Sessions : s \notin allocatedSessions
    PROVE  Store!HasRoomFor(id)
<1> DEFINE known == {i \in ClientIDs : storeOf[i] # Store!NoSession}
<1>1. \A i \in ClientIDs : storeOf[i] # Store!NoSession <=> SessionsFor(i) # {}
  <2>1. \A r : SessionRecord(r) # Store!NoSession
    <3>1. \A r : SessionRecord(r).state # "none"
      BY DEF SessionRecord
    <3>2. Store!NoSession.state = "none"
      BY DEF Store!NoSession
    <3> QED
      BY <3>1, <3>2
  <2>2. NoRecord = Store!NoSession
    BY DEF NoRecord, Store!NoSession
  <2>3. ASSUME NEW i \in ClientIDs, SessionsFor(i) # {}
        PROVE  storeOf[i] # Store!NoSession
    <3>1. PICK r \in SessionsFor(i) : TRUE
      BY <2>3
    <3> QED
      BY <2>1, <3>1, StoreAt
  <2> QED
    BY <2>2, <2>3, StoreAt
<1>2. CASE SessionsFor(id) # {}
  BY <1>1, <1>2 DEF Store!HasRoomFor
<1>3. CASE \E s \in Sessions : s \notin allocatedSessions
  <2>0. PICK s \in Sessions : s \notin allocatedSessions
    BY <1>3
  <2> DEFINE f == [i \in known |-> CHOOSE r \in SessionsFor(i) : TRUE]
  <2>1. \A i \in known : f[i] \in SessionsFor(i)
    BY <1>1
  <2>2. f \in [known -> Sessions \ {s}]
    <3>1. \A i \in known : f[i] \in Sessions \ {s}
      BY <2>0, <2>1 DEF SessionsFor, allocatedSessions, IInv, PairInv, PairTypeOK
    <3>2. f = [i \in known |-> f[i]]
      OBVIOUS
    <3> HIDE DEF f
    <3> QED
      BY <3>1, <3>2
  <2>3. \A i, j \in known : f[i] = f[j] => i = j
    BY <2>1 DEF SessionsFor
  <2>4. f \in Injection(known, Sessions \ {s})
    <3> HIDE DEF f
    <3> QED
      BY <2>2, <2>3 DEF Injection, IsInjective
  <2>5. /\ IsFiniteSet(Sessions \ {s})
        /\ Cardinality(Sessions \ {s}) = Cardinality(Sessions) - 1
    BY PoolAssumption, FS_RemoveElement
  <2>6. IsFiniteSet(known) /\ Cardinality(known) <= Cardinality(Sessions \ {s})
    BY <2>4, <2>5, FS_Injection
  <2>7. Cardinality(known) \in Nat /\ Cardinality(Sessions) \in Nat
    BY <2>6, PoolAssumption, FS_CardinalityType
  <2>8. Cardinality(known) < Cardinality(Sessions)
    <3> HIDE DEF known
    <3> QED
      BY <2>5, <2>6, <2>7
  <2> QED
    BY <2>8, SameCardinality DEF Store!HasRoomFor
<1> QED
  BY <1>2, <1>3

(* Attach makes of the client's session what Connect says. *)
LEMMA AttachStore ==
    ASSUME IInv, IInv', NEW c \in Connections, NEW s \in Sessions, NEW id \in ClientIDs,
           NEW clean \in BOOLEAN, NEW sent \in BOOLEAN,
           NEW ended \in SUBSET SessionsFor(id),
           s \in SessionsFor(id) \/ s \notin allocatedSessions,
           clean => ended = SessionsFor(id),
           ~clean => ended = {} /\ (s \in SessionsFor(id) \/ SessionsFor(id) = {}),
           Attach(c, s, id, clean, ended, sent)
    PROVE  Store!Becomes(id, [state |-> "connected", clean |-> clean,
                              topics |-> IF clean THEN {} ELSE storeOf[id].topics])
<1> DEFINE topics == IF clean THEN {} ELSE storeOf[id].topics
           e == [state |-> "connected", clean |-> clean, topics |-> topics]
           touched == ended \cup {s}
           gone == ended \cup {x \in {s} : ~sent /\ clean}
<1>1. /\ activeSessions' = (activeSessions \ touched) \cup {x \in {s} : sent}
      /\ disconnectedSessions' = (disconnectedSessions \ touched)
                                    \cup {x \in {s} : ~sent /\ ~clean}
      /\ \A x \in Sessions : clientID'[x] =
            IF x = s /\ (sent \/ ~clean) THEN id ELSE IF x \in touched THEN Null ELSE clientID[x]
      /\ \A x \in Sessions \ touched : cleanSession'[x] = cleanSession[x]
      /\ cleanSession'[s] = clean
      /\ subscribers' = [t \in Topics |-> subscribers[t] \ gone]
  BY DEF Attach, Unsubscribed, IInv, PairInv, PairTypeOK
<1>2. /\ \A x \in ended : x \in Sessions /\ clientID[x] = id
      /\ \A x \in SessionsFor(id) : x \in Sessions /\ clientID[x] = id
      /\ clientID[s] \in {id, Null}
      /\ id # Null
      /\ \A t \in Topics : s \notin allocatedSessions => s \notin subscribers[t]
  <2>1. s \notin allocatedSessions => clientID[s] = Null
    BY DEF IInv, PairInv, ListsConsistent
  <2>2. \A x \in SessionsFor(id) : x \in Sessions /\ clientID[x] = id
    BY DEF SessionsFor, allocatedSessions, IInv, PairInv, PairTypeOK
  <2> QED
    BY <2>1, <2>2, NullAssumption DEF IInv, PairInv, SubscribersAllocated
<1>3. Others(id)
  BY <1>1, <1>2 DEF Others
<1>4. CASE sent \/ ~clean
  <2>1. s \in SessionsFor(id)'
    BY <1>1, <1>4 DEF SessionsFor, allocatedSessions
  <2>2. {t \in Topics : s \in subscribers'[t]} = topics
    <3>1. CASE clean
      BY <1>1, <1>2, <3>1
    <3>2. CASE ~clean /\ s \in SessionsFor(id)
      <4>1. storeOf[id].topics = {t \in Topics : s \in subscribers[t]}
        <5>1. storeOf[id] = SessionRecord(s)
          BY <3>2, StoreAt
        <5> QED
          BY <5>1 DEF SessionRecord
      <4>2. gone = {}
        BY <3>2
      <4> QED
        BY <1>1, <3>2, <4>1, <4>2
    <3>3. CASE ~clean /\ s \notin allocatedSessions
      BY <1>1, <1>2, <3>3, StoreAt DEF NoRecord, SessionsFor
    <3> QED
      BY <3>1, <3>2, <3>3
  <2>3. SessionRecord(s)' = [state |-> IF sent THEN "connected" ELSE "disconnected",
                             clean |-> clean, topics |-> topics]
    BY <1>1, <2>2 DEF SessionRecord
  <2>4. storeOf' = [storeOf EXCEPT ![id] = [state |-> IF sent THEN "connected" ELSE "disconnected",
                                            clean |-> clean, topics |-> topics]]
    BY <1>3, <2>1, <2>3, StoreBecomes
  <2>5. CASE sent
    BY <2>4, <2>5 DEF Store!Becomes
  <2>6. CASE ~sent
    <3>1. Store!WithoutConnection(e) = [state |-> "disconnected", clean |-> clean, topics |-> topics]
      BY <1>4, <2>6 DEF Store!WithoutConnection
    <3> QED
      BY <2>4, <2>6, <3>1 DEF Store!Becomes
  <2> QED
    BY <2>5, <2>6
<1>5. CASE ~sent /\ clean
  <2>1. SessionsFor(id)' = {}
    BY <1>1, <1>2, <1>5 DEF SessionsFor, allocatedSessions, IInv, PairInv, PairTypeOK
  <2>2. storeOf' = [storeOf EXCEPT ![id] = NoRecord]
    BY <1>3, <2>1, OnlyOneClient, StoreAtNext
  <2>3. Store!WithoutConnection(e) = NoRecord
    BY <1>5 DEF Store!WithoutConnection, Store!NoSession, NoRecord
  <2> QED
    BY <2>2, <2>3 DEF Store!Becomes
<1> QED
  BY <1>4, <1>5

-----------------------------------------------------------------------------
(* What a step may do to the store. *)
StoreStep == Store!StoreNext \/ storeOf' = storeOf

(* Any client of the store may do this. *)
LEMMA ClientStep ==
    ASSUME NEW id \in ClientIDs,
           \/ \E clean \in BOOLEAN : Store!Connect(id, clean) \/ Store!SetClean(id, clean)
           \/ \E ts \in SUBSET Topics : Store!Subscribe(id, ts) \/ Store!Unsubscribe(id, ts)
           \/ Store!LoseConnection(id)
           \/ Store!End(id)
    PROVE  StoreStep
  BY DEF StoreStep, Store!StoreNext

(* What the store may make of the record of a connected client. *)
LEMMA RecordStep ==
    ASSUME NEW id \in ClientIDs, NEW clean, NEW topics,
           storeOf[id] = [state |-> "connected", clean |-> clean, topics |-> topics]
    PROVE  /\ \A x \in BOOLEAN :
                Store!Becomes(id, [state |-> "connected", clean |-> x, topics |-> topics])
                   => StoreStep
           /\ \A ts \in SUBSET Topics :
                \/ Store!Becomes(id, [state |-> "connected", clean |-> clean,
                                      topics |-> topics \cup ts])
                \/ Store!Becomes(id, [state |-> "connected", clean |-> clean,
                                      topics |-> topics \ ts])
                => StoreStep
           /\ clean /\ storeOf' = [storeOf EXCEPT ![id] = NoRecord] => StoreStep
           /\ ~clean /\ storeOf' = [storeOf EXCEPT ![id] =
                             [state |-> "disconnected", clean |-> clean, topics |-> topics]]
                => StoreStep
<1> DEFINE e == [state |-> "connected", clean |-> clean, topics |-> topics]
<1>1. Store!IsConnected(id)
  BY DEF Store!IsConnected
<1>2. ASSUME NEW x \in BOOLEAN,
             Store!Becomes(id, [state |-> "connected", clean |-> x, topics |-> topics])
      PROVE  StoreStep
  <2>1. [e EXCEPT !.clean = x] = [state |-> "connected", clean |-> x, topics |-> topics]
    OBVIOUS
  <2>2. Store!SetClean(id, x)
    BY <1>1, <1>2, <2>1 DEF Store!SetClean
  <2> QED
    BY <2>2, ClientStep
<1>3. ASSUME NEW ts \in SUBSET Topics,
             Store!Becomes(id, [state |-> "connected", clean |-> clean, topics |-> topics \cup ts])
      PROVE  StoreStep
  <2>1. /\ [e EXCEPT !.topics = topics \cup ts] =
               [state |-> "connected", clean |-> clean, topics |-> topics \cup ts]
        /\ e.topics = topics
    OBVIOUS
  <2>2. [storeOf[id] EXCEPT !.topics = @ \cup ts] =
           [state |-> "connected", clean |-> clean, topics |-> topics \cup ts]
    BY <2>1
  <2>3. Store!Subscribe(id, ts)
    BY <1>1, <1>3, <2>2 DEF Store!Subscribe
  <2> QED
    BY <2>3, ClientStep
<1>4. ASSUME NEW ts \in SUBSET Topics,
             Store!Becomes(id, [state |-> "connected", clean |-> clean, topics |-> topics \ ts])
      PROVE  StoreStep
  <2>1. /\ [e EXCEPT !.topics = topics \ ts] =
               [state |-> "connected", clean |-> clean, topics |-> topics \ ts]
        /\ e.topics = topics
    OBVIOUS
  <2>2. [storeOf[id] EXCEPT !.topics = @ \ ts] =
           [state |-> "connected", clean |-> clean, topics |-> topics \ ts]
    BY <2>1
  <2>3. Store!Unsubscribe(id, ts)
    BY <1>1, <1>4, <2>2 DEF Store!Unsubscribe
  <2> QED
    BY <2>3, ClientStep
<1>5. ASSUME clean, storeOf' = [storeOf EXCEPT ![id] = NoRecord]
      PROVE  StoreStep
  <2>1. Store!WithoutConnection(e) = NoRecord
    BY <1>5 DEF Store!WithoutConnection, Store!NoSession, NoRecord
  <2>2. Store!LoseConnection(id)
    BY <1>1, <1>5, <2>1 DEF Store!LoseConnection
  <2> QED
    BY <2>2, ClientStep
<1>6. ASSUME ~clean,
             storeOf' = [storeOf EXCEPT ![id] =
                [state |-> "disconnected", clean |-> clean, topics |-> topics]]
      PROVE  StoreStep
  <2>1. Store!WithoutConnection(e) =
           [state |-> "disconnected", clean |-> clean, topics |-> topics]
    BY <1>6 DEF Store!WithoutConnection
  <2>2. Store!LoseConnection(id)
    BY <1>1, <1>6, <2>1 DEF Store!LoseConnection
  <2> QED
    BY <2>2, ClientStep
<1> QED
  BY <1>2, <1>3, <1>4, <1>5, <1>6

LEMMA LostStore ==
    ASSUME IInv, IInv', NEW c \in Connections, ServiceLost(c)
    PROVE  StoreStep
<1>1. CASE sessionOf[c] = Null
  <2>1. UNCHANGED <<activeSessions, disconnectedSessions, clientID, cleanSession, subscribers>>
    BY <1>1, SessionOfPaired, NullAssumption
    DEF ServiceLost, sessionVars, LoseConnection
  <2> QED
    BY <2>1, StoreUnchanged DEF StoreStep
<1>2. CASE sessionOf[c] # Null
  <2>1. PICK s \in Sessions, id \in ClientIDs : Paired(c, s, id)
    BY <1>2, PairedClient
  <2>2. LoseConnection(s, cleanSession[s], subscribers)
    BY <1>2, <2>1 DEF ServiceLost, Paired
  <2>3. storeOf[id] = [state |-> "connected", clean |-> cleanSession[s],
                       topics |-> {t \in Topics : s \in subscribers[t]}]
    BY <2>1, StoreOfPaired
  <2>4. SubscribersOf(s, subscribers)
    BY DEF SubscribersOf
  <2>5. CASE cleanSession[s] /\ EndSession(s, subscribers)
    <3>1. storeOf' = [storeOf EXCEPT ![id] = NoRecord]
      BY <2>1, <2>4, <2>5, EndStore
    <3> QED
      BY <2>3, <2>5, <3>1, RecordStep
  <2>6. CASE ~cleanSession[s] /\ ParkSession(s, cleanSession[s], subscribers)
    <3>1. storeOf' = [storeOf EXCEPT ![id] =
             [state |-> "disconnected", clean |-> cleanSession[s],
              topics |-> {t \in Topics : s \in subscribers[t]}]]
      BY <2>1, <2>4, <2>6, ParkStore
    <3> QED
      BY <2>3, <2>6, <3>1, RecordStep
  <2> QED
    BY <2>2, <2>5, <2>6 DEF LoseConnection
<1> QED
  BY <1>1, <1>2

(* A handler that answers and has settled a flag and the subscriptions. *)
LEMMA HandlerStore ==
    ASSUME IInv, IInv', NEW c \in Connections, HasSession(c),
           NEW clean \in BOOLEAN, NEW subs, NEW ts \in SUBSET Topics,
           SubscribersOf(sessionOf[c], subs),
           Answer(sessionOf[c], clean, subs),
           \/ subs = subscribers
           \/ /\ clean = cleanSession[sessionOf[c]]
              /\ \/ \A t \in Topics : sessionOf[c] \in subs[t]
                        <=> sessionOf[c] \in subscribers[t] \/ t \in ts
                 \/ \A t \in Topics : sessionOf[c] \in subs[t]
                        <=> sessionOf[c] \in subscribers[t] /\ t \notin ts
    PROVE  StoreStep
<1>1. PICK s \in Sessions, id \in ClientIDs : Paired(c, s, id)
  BY PairedClient DEF HasSession
<1>2. sessionOf[c] = s
  BY <1>1 DEF Paired
<1> DEFINE topics == {t \in Topics : s \in subs[t]}
<1>3. Store!Becomes(id, [state |-> "connected", clean |-> clean, topics |-> topics])
  BY <1>1, <1>2, AnswerStore
<1>4. storeOf[id] = [state |-> "connected", clean |-> cleanSession[s],
                     topics |-> {t \in Topics : s \in subscribers[t]}]
  BY <1>1, StoreOfPaired
<1> DEFINE old == {t \in Topics : s \in subscribers[t]}
<1>5. CASE subs = subscribers
  BY <1>3, <1>4, <1>5, RecordStep
<1>6. CASE /\ clean = cleanSession[s]
           /\ \A t \in Topics : s \in subs[t] <=> s \in subscribers[t] \/ t \in ts
  <2>1. topics = old \cup ts
    BY <1>6
  <2>2. storeOf[id] = [state |-> "connected", clean |-> clean, topics |-> old]
    BY <1>4, <1>6
  <2> HIDE DEF topics, old
  <2> QED
    BY <1>3, <2>1, <2>2, RecordStep
<1>7. CASE /\ clean = cleanSession[s]
           /\ \A t \in Topics : s \in subs[t] <=> s \in subscribers[t] /\ t \notin ts
  <2>1. topics = old \ ts
    BY <1>7
  <2>2. storeOf[id] = [state |-> "connected", clean |-> clean, topics |-> old]
    BY <1>4, <1>7
  <2> HIDE DEF topics, old
  <2> QED
    BY <1>3, <2>1, <2>2, RecordStep
<1> QED
  BY <1>2, <1>5, <1>6, <1>7

LEMMA ShutdownStore ==
    ASSUME IInv, IInv', NEW c \in Connections, SessionShutdown(c)
    PROVE  StoreStep
<1>1. PICK s \in Sessions, id \in ClientIDs : Paired(c, s, id)
  BY PairedClient DEF SessionShutdown, HasSession
<1>2. EndSession(s, subscribers) /\ SubscribersOf(s, subscribers)
  BY <1>1 DEF SessionShutdown, Paired, SubscribersOf
<1>3. storeOf' = [storeOf EXCEPT ![id] = NoRecord]
  BY <1>1, <1>2, EndStore
<1>4. storeOf[id] = [state |-> "connected", clean |-> cleanSession[s],
                     topics |-> {t \in Topics : s \in subscribers[t]}]
  BY <1>1, StoreOfPaired
<1>5. Store!End(id)
  BY <1>3, <1>4 DEF Store!End, Store!IsConnected, Store!NoSession, NoRecord
<1> QED
  BY <1>5, ClientStep

LEMMA PairStore ==
    ASSUME IInv, IInv', NEW c \in Connections, NEW id \in ClientIDs,
           PairClean(c, id) \/ PairNonClean(c, id)
    PROVE  StoreStep
<1>1. CASE UNCHANGED <<sessionOf, closing, closeExpired, sessionVars, subscribers>>
  BY <1>1, StoreUnchanged DEF sessionVars, StoreStep
<1>2. ASSUME NEW s \in Sessions, NEW sent \in BOOLEAN,
             s \in SessionsFor(id) \/ s \notin allocatedSessions,
             Attach(c, s, id, TRUE, SessionsFor(id), sent)
      PROVE  StoreStep
  <2>1. Store!HasRoomFor(id)
    BY <1>2, RoomInStore
  <2>2. Store!Becomes(id, [state |-> "connected", clean |-> TRUE,
                           topics |-> IF TRUE THEN {} ELSE storeOf[id].topics])
    BY <1>2, AttachStore
  <2>3. Store!Connect(id, TRUE)
    BY <2>1, <2>2 DEF Store!Connect
  <2> QED
    BY <2>3, ClientStep
<1>3. ASSUME NEW s \in Sessions, NEW sent \in BOOLEAN,
             \/ s \in SessionsFor(id)
             \/ SessionsFor(id) = {} /\ s \notin allocatedSessions,
             Attach(c, s, id, FALSE, {}, sent)
      PROVE  StoreStep
  <2>1. Store!HasRoomFor(id)
    BY <1>3, RoomInStore
  <2>2. Store!Becomes(id, [state |-> "connected", clean |-> FALSE,
                           topics |-> IF FALSE THEN {} ELSE storeOf[id].topics])
    <3>1. {} \in SUBSET SessionsFor(id) /\ FALSE \in BOOLEAN
      OBVIOUS
    <3>2. s \in SessionsFor(id) \/ s \notin allocatedSessions
      BY <1>3
    <3>3. {} = {} /\ (s \in SessionsFor(id) \/ SessionsFor(id) = {})
      BY <1>3
    <3> QED
      BY <1>3, <3>1, <3>2, <3>3, AttachStore
  <2>3. Store!Connect(id, FALSE)
    BY <2>1, <2>2 DEF Store!Connect
  <2> QED
    BY <2>3, ClientStep
<1>4. allocatedSessions \subseteq Sessions /\ SessionsFor(id) \subseteq Sessions
  BY DEF IInv, PairInv, PairTypeOK, allocatedSessions, SessionsFor
<1>5. CASE PairClean(c, id)
  BY <1>1, <1>2, <1>4, <1>5 DEF PairClean
<1>6. CASE PairNonClean(c, id)
  BY <1>1, <1>3, <1>4, <1>6 DEF PairNonClean
<1> QED
  BY <1>5, <1>6

LEMMA SubscribeStore ==
    ASSUME IInv, IInv', NEW c \in Connections, NEW ts \in SUBSET Topics,
           SessionSubscribe(c, ts)
    PROVE  StoreStep
<1>1. PICK s \in Sessions : sessionOf[c] = s /\ s \in allocatedSessions
  BY SessionOfPaired DEF SessionSubscribe, HasSession, allocatedSessions
<1>2. \A t \in Topics : s \in subscribers[t] \/ Cardinality(subscribers[t]) < MaxSubscribers
  BY <1>1, RoomOnLists DEF SubscriberListHasRoom
<1>3. SubscribersOf(s, Subscribed(s, ts))
  BY DEF SubscribersOf, Subscribed
<1>4. \A t \in Topics : s \in Subscribed(s, ts)[t] <=> s \in subscribers[t] \/ t \in ts
  BY <1>2 DEF Subscribed
<1>5. cleanSession[s] \in BOOLEAN
  BY DEF IInv, PairInv, PairTypeOK
<1> QED
  BY <1>1, <1>3, <1>4, <1>5, HandlerStore DEF SessionSubscribe

LEMMA UnsubscribeStore ==
    ASSUME IInv, IInv', NEW c \in Connections, NEW ts \in SUBSET Topics,
           SessionUnsubscribe(c, ts)
    PROVE  StoreStep
<1>1. PICK s \in Sessions : sessionOf[c] = s
  BY SessionOfPaired DEF SessionUnsubscribe, HasSession
<1> DEFINE subs == [t \in Topics |-> subscribers[t] \ {r \in {s} : t \in ts}]
<1>2. SubscribersOf(s, subs)
  BY DEF SubscribersOf
<1>3. \A t \in Topics : s \in subs[t] <=> s \in subscribers[t] /\ t \notin ts
  OBVIOUS
<1>4. cleanSession[s] \in BOOLEAN
  BY DEF IInv, PairInv, PairTypeOK
<1>5. HasSession(c) /\ Answer(s, cleanSession[s], subs)
  BY <1>1 DEF SessionUnsubscribe
<1> HIDE DEF subs
<1> QED
  BY <1>1, <1>2, <1>3, <1>4, <1>5, HandlerStore

LEMMA ConnectPingStore ==
    ASSUME IInv, IInv', NEW c \in Connections,
           SessionPing(c) \/ \E clean \in BOOLEAN : SessionConnect(c, clean)
    PROVE  StoreStep
<1>1. PICK clean \in BOOLEAN : HasSession(c) /\ Answer(sessionOf[c], clean, subscribers)
  <2>1. ASSUME SessionPing(c)
        PROVE  cleanSession[sessionOf[c]] \in BOOLEAN
    BY <2>1, SessionOfPaired DEF SessionPing, HasSession, IInv, PairInv, PairTypeOK
  <2> QED
    BY <2>1 DEF SessionPing, SessionConnect
<1>2. SubscribersOf(sessionOf[c], subscribers)
  BY DEF SubscribersOf
<1>3. {} \in SUBSET Topics
  OBVIOUS
<1> QED
  BY <1>1, <1>2, <1>3, HandlerStore

-----------------------------------------------------------------------------
(* Every step of the broker is a step of the store or leaves it alone.     *)
LEMMA StepStore ==
    ASSUME IInv, IInv', [Next]_vars
    PROVE  StoreStep
<1>1. CASE UNCHANGED <<activeSessions, disconnectedSessions, clientID, cleanSession, subscribers>>
  BY <1>1, StoreUnchanged DEF StoreStep
<1>2. ASSUME NEW c \in Connections, ServiceConnection(c)
      PROVE  StoreStep
  <2>1. CASE ServiceLost(c)
    BY <2>1, LostStore
  <2>2. CASE \/ ServiceClosing(c) \/ ServiceIdle(c)
             \/ ServiceBadPacket(c) \/ SessionBadConnect(c)
    BY <1>1, <2>2
    DEF ServiceClosing, ServiceIdle, ServiceBadPacket, SessionBadConnect,
        sessionVars
  <2>3. CASE \E id \in ClientIDs : PairClean(c, id) \/ PairNonClean(c, id)
    BY <2>3, PairStore
  <2>4. CASE SessionPing(c) \/ \E clean \in BOOLEAN : SessionConnect(c, clean)
    BY <2>4, ConnectPingStore
  <2>5. CASE \E ts \in SUBSET Topics : SessionSubscribe(c, ts) \/ SessionUnsubscribe(c, ts)
    BY <2>5, SubscribeStore, UnsubscribeStore
  <2>6. CASE SessionShutdown(c)
    BY <2>6, ShutdownStore
  <2> QED
    BY <1>2, <2>1, <2>2, <2>3, <2>4, <2>5, <2>6 DEF ServiceConnection
<1>3. CASE \E t \in TCPClients, c \in Connections : AcceptConnection(t, c)
  BY <1>1, <1>3 DEF AcceptConnection, sessionVars
<1>4. CASE AcceptNothing \/ FreeClosedConnections
  BY <1>1, <1>4 DEF AcceptNothing, FreeClosedConnections, sessionVars
<1>5. CASE \E t \in TCPClients : PeerCloses(t)
  BY <1>1, <1>5 DEF PeerCloses, sessionVars
<1>6. CASE \E c \in Connections : CloseTimeout(c)
  BY <1>1, <1>6 DEF CloseTimeout, sessionVars
<1>7. CASE UNCHANGED vars
  BY <1>1, <1>7 DEF vars
<1> QED
  BY <1>2, <1>3, <1>4, <1>5, <1>6, <1>7 DEF Next, Pass, Halted

(* The broker implements the session store: every client has at most one   *)
(* session, which keeps its subscriptions until the client ends it or      *)
(* loses the connection of a clean session, and no client's packets change *)
(* the session of another.                                                 *)
THEOREM Refinement == Spec => ImplementsStore
<1>1. Init => Store!StoreInit
  BY DEF Init, Store!StoreInit, Store!NoSession, storeOf, SessionsFor, allocatedSessions
<1>2. IInv /\ IInv' /\ [Next]_vars => [Store!StoreNext]_storeOf
  BY StepStore DEF StoreStep
<1> QED
  BY <1>1, <1>2, Invariance, PTL DEF Spec, ImplementsStore, Store!StoreSpec
=============================================================================
