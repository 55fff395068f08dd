------------------------ MODULE MQTTBrokerRefinement ------------------------
(* The broker implements the session store: the slot whose clientID is id  *)
(* holds the session of id.                                                *)
EXTENDS MQTTBroker

SessionRecord(s) ==
    [state  |-> IF s \in activeSessions THEN "connected" ELSE "disconnected",
     clean  |-> cleanSession[s],
     topics |-> {t \in Topics : s \in subscribers[t]}]

storeOf ==
    [id \in ClientIDs |->
        IF SessionsFor(id) = {}
        THEN [state |-> "none", clean |-> TRUE, topics |-> {}]
        ELSE SessionRecord(CHOOSE s \in SessionsFor(id) : TRUE)]

Store == INSTANCE MQTTSessionStore
            WITH Capacity <- Cardinality(Sessions), store <- storeOf

(* Every step of the broker is a step of the store or leaves it alone.     *)
ImplementsStore == Store!StoreSpec
=============================================================================
