-------------------------- MODULE MQTTSessionStore --------------------------
(***************************************************************************)
(* What the broker promises its clients about sessions, with no slots,     *)
(* pointers or lists in sight: each client ID has at most one session,     *)
(* which remembers the topics it subscribed to.  A session that is not     *)
(* clean outlives its connection; one that is clean does not.  Nothing one *)
(* client does touches the session of another, except that the store holds *)
(* no more than Capacity sessions.                                         *)
(***************************************************************************)
EXTENDS Naturals, FiniteSets

CONSTANTS ClientIDs, Topics, Capacity

VARIABLE store

NoSession == [state |-> "none", clean |-> TRUE, topics |-> {}]

StoreInit == store = [id \in ClientIDs |-> NoSession]

IsConnected(id) == store[id].state = "connected"

(* What is left of a session when its connection is lost. *)
WithoutConnection(e) ==
    IF e.clean THEN NoSession ELSE [e EXCEPT !.state = "disconnected"]

(* The client's session becomes e, or the connection is lost as it does. *)
Becomes(id, e) ==
    \E new \in {e, WithoutConnection(e)} : store' = [store EXCEPT ![id] = new]

HasRoomFor(id) ==
    \/ store[id] # NoSession
    \/ Cardinality({i \in ClientIDs : store[i] # NoSession}) < Capacity

(* A clean session starts empty; the other goes on with what is known. *)
Connect(id, clean) ==
    /\ HasRoomFor(id)
    /\ Becomes(id, [state |-> "connected",
                    clean |-> clean,
                    topics |-> IF clean THEN {} ELSE store[id].topics])

SetClean(id, clean) ==
    /\ IsConnected(id)
    /\ Becomes(id, [store[id] EXCEPT !.clean = clean])

Subscribe(id, ts) ==
    /\ IsConnected(id)
    /\ Becomes(id, [store[id] EXCEPT !.topics = @ \cup ts])

Unsubscribe(id, ts) ==
    /\ IsConnected(id)
    /\ Becomes(id, [store[id] EXCEPT !.topics = @ \ ts])

LoseConnection(id) ==
    /\ IsConnected(id)
    /\ store' = [store EXCEPT ![id] = WithoutConnection(@)]

End(id) ==
    /\ IsConnected(id)
    /\ store' = [store EXCEPT ![id] = NoSession]

StoreNext ==
    \E id \in ClientIDs :
        \/ \E clean \in BOOLEAN : Connect(id, clean) \/ SetClean(id, clean)
        \/ \E ts \in SUBSET Topics : Subscribe(id, ts) \/ Unsubscribe(id, ts)
        \/ LoseConnection(id)
        \/ End(id)

StoreSpec == StoreInit /\ [][StoreNext]_store
=============================================================================
