------------------------------ MODULE DataModel ------------------------------
(***************************************************************************)
(* The tree of values of src/src/DataModel: topic filters, subscriptions,  *)
(* the values of the leaves and what subscribers are told of them.         *)
(*                                                                         *)
(* The tree is given by its leaves; a leaf is its path, the sequence of    *)
(* the names of its levels, and the nodes are the beginnings of paths.     *)
(* One call of the data model is one action: the firmware has one thread   *)
(* and the data model calls back nothing that changes it.                  *)
(*                                                                         *)
(* Abstractions.  The counter of updates, and with it operator << of a     *)
(* leaf that keeps no value, is left out.  A topic filter is the sequence  *)
(* of its levels; names are whole levels, so "a+b" is not written.  How a  *)
(* value is formatted, and the order of messages to different subscribers, *)
(* are left out.  A leaf has room for every subscriber, as the broker's    *)
(* pools guarantee.                                                        *)
(***************************************************************************)
EXTENDS Integers, Sequences, FiniteSets

CONSTANTS
    Subscribers,   \* DataModelSubscriber: the sessions of the broker
    Leaves,        \* paths of the leaves
    Retained,      \* those that are DataModelRetainedValueLeaf
    TopicFilters,  \* what clients subscribe to and unsubscribe from
    Values,        \* values of leaves
    Zero,          \* the value a leaf starts with, unset
    NoValue,       \* nothing heard since subscribing
    Empty          \* the empty message that says a value was removed

ASSUME TreeAssumption ==
    /\ IsFiniteSet(Subscribers) /\ IsFiniteSet(Leaves)
    /\ \A p \in Leaves : p \in Seq(STRING) /\ Len(p) > 0
    /\ \A p \in Leaves : \A i \in 1 .. Len(p) : p[i] \notin {"+", "#", ""}
    /\ \A f \in TopicFilters : f \in Seq(STRING)
    /\ Retained \subseteq Leaves
    /\ Zero \in Values /\ NoValue \notin Values /\ Empty \notin Values

VARIABLES
    subscriptions,      \* subscribers in each leaf's list
    subscriptionCount,  \* DataModel::subscriptionCount
    hasBeenSet,         \* retained leaves that have a value
    retainedValues,     \* DataModel::retainedValues
    value,              \* of each retained leaf
    online,             \* subscribers with a connection
    known,              \* the last message each subscriber has of each leaf
    missed,             \* leaves of which it then missed a message
    active              \* filters it subscribed to and did not unsubscribe from

modelVars == <<subscriptions, subscriptionCount>>
valueVars == <<hasBeenSet, retainedValues, value>>
clientVars == <<known, missed>>
vars == <<subscriptions, subscriptionCount, hasBeenSet, retainedValues, value, online,
          known, missed, active>>

Init ==
    /\ subscriptions = [p \in Leaves |-> {}]
    /\ subscriptionCount = 0
    /\ hasBeenSet = {}
    /\ retainedValues = 0
    /\ value = [p \in Retained |-> Zero]
    /\ online = {}
    /\ known = [s \in Subscribers |-> [p \in Retained |-> NoValue]]
    /\ missed = [s \in Subscribers |-> {}]
    /\ active = [s \in Subscribers |-> {}]

-----------------------------------------------------------------------------
(***************************************************************************)
(* Topic filters.                                                          *)
(***************************************************************************)

(* checkTopicFilterValidity: "#" ends a filter, and no level in between is *)
(* empty.                                                                  *)
checkTopicFilterValidity(f) ==
    /\ f # <<>> /\ f # <<"">>
    /\ \A i \in 1 .. Len(f) : f[i] = "#" => i = Len(f)
    /\ \A i \in 2 .. Len(f) - 1 : f[i] # ""

(* The first n levels of filter f match those of path p.                   *)
LevelsMatch(f, p, n) == \A i \in 1 .. n : f[i] \in {"+", p[i]}

(* topicFilterMatch takes "+/" for a last level.                           *)
PlusAndSeparator(f, p) ==
    /\ Len(f) = Len(p) + 1
    /\ f[Len(p)] = "+" /\ f[Len(f)] = ""
    /\ LevelsMatch(f, p, Len(p))

(* "#" is looked for in the levels below the one before it: "a/#" is every *)
(* leaf below a and not a leaf a.                                          *)
MultiLevel(f, p) ==
    /\ Len(f) <= Len(p)
    /\ f[Len(f)] = "#"
    /\ LevelsMatch(f, p, Len(f) - 1)

SingleLevels(f, p) == Len(f) = Len(p) /\ LevelsMatch(f, p, Len(p))

(* The leaves the walk of unsubscribeIfMatching comes to.                  *)
Selected(f) ==
    {p \in Leaves : MultiLevel(f, p) \/ SingleLevels(f, p) \/ PlusAndSeparator(f, p)}

isSystem(p) == p[1] = "$SYS"

(* DataModelRoot leaves out what begins with a $ when a client subscribes  *)
(* with a wildcard at the first level.                                     *)
SubscribedBy(f) == {p \in Selected(f) : f[1] \in {"+", "#"} => ~isSystem(p)}

UnsubscribedBy_NotBelowPlus(f) ==
    {p \in Selected(f) : f[1] = "+" => f[Len(f)] # "#"}

(* unsubscribe walks every child of the root.                              *)
UnsubscribedBy(f) == Selected(f)

-----------------------------------------------------------------------------
(***************************************************************************)
(* Messages to subscribers.                                                *)
(***************************************************************************)

(* operator << of a leaf.  Of the subscribers that are online some may not *)
(* get the message: a write fails, and no one looks at it.                 *)
Publish(p, v) ==
    \E got \in SUBSET (subscriptions[p] \cap online) :
        /\ known' = [s \in Subscribers |->
              IF s \in got THEN [known[s] EXCEPT ![p] = v] ELSE known[s]]
        /\ missed' = [s \in Subscribers |->
              IF s \in got THEN missed[s] \ {p}
              ELSE IF s \in subscriptions[p] THEN missed[s] \cup {p} ELSE missed[s]]

-----------------------------------------------------------------------------
(***************************************************************************)
(* Subscribing.                                                            *)
(***************************************************************************)
(* addSubscriber, on the leaves that do not have the subscriber yet.       *)
AddSubscriber(s, ps) ==
    /\ subscriptions' = [p \in Leaves |->
          IF p \in ps THEN subscriptions[p] \cup {s} ELSE subscriptions[p]]
    /\ subscriptionCount' =
          subscriptionCount + Cardinality({p \in ps : s \notin subscriptions[p]})

(* sendRetainedValue, on every retained leaf of ps that has a value.       *)
sendRetainedValue(s, ps) ==
    LET told == ps \cap hasBeenSet
    IN  \E got \in SUBSET told :
            /\ known' = [known EXCEPT ![s] = [p \in Retained |->
                   IF p \in got THEN value[p] ELSE known[s][p]]]
            /\ missed' = [missed EXCEPT ![s] = (missed[s] \ got) \cup (told \ got)]

Subscribe(s, f) ==
    /\ s \in online
    /\ checkTopicFilterValidity(f)
    /\ AddSubscriber(s, SubscribedBy(f))
    /\ sendRetainedValue(s, SubscribedBy(f))
    /\ active' = [active EXCEPT ![s] = @ \cup {f}]
    /\ UNCHANGED <<valueVars, online>>

(* What a subscriber knew of a leaf is history once it gave it up.         *)
Forgets(s, ps) ==
    /\ known' = [known EXCEPT ![s] = [p \in Retained |->
           IF p \in ps THEN NoValue ELSE known[s][p]]]
    /\ missed' = [missed EXCEPT ![s] = missed[s] \ ps]

(* DataModelLeaf::unsubscribe, on each of ps.                              *)
RemoveSubscriber(s, ps) ==
    /\ subscriptions' = [p \in Leaves |->
          IF p \in ps THEN subscriptions[p] \ {s} ELSE subscriptions[p]]
    /\ subscriptionCount' =
          subscriptionCount - Cardinality({p \in ps : s \in subscriptions[p]})
    /\ Forgets(s, ps)

Unsubscribe(s, f) ==
    /\ s \in online
    /\ checkTopicFilterValidity(f)
    /\ RemoveSubscriber(s, UnsubscribedBy(f))
    /\ active' = [active EXCEPT ![s] = @ \ {f}]
    /\ UNCHANGED <<valueVars, online>>

(* The session ends.                                                       *)
UnsubscribeAll(s) ==
    /\ RemoveSubscriber(s, Leaves)
    /\ active' = [active EXCEPT ![s] = {}]
    /\ online' = online \ {s}
    /\ UNCHANGED valueVars

-----------------------------------------------------------------------------
(***************************************************************************)
(* Values.                                                                 *)
(***************************************************************************)

updated_CountsEvery(p) ==
    /\ hasBeenSet' = hasBeenSet \cup {p}
    /\ retainedValues' = retainedValues + 1

(* DataModelRetainedValueLeaf::updated.                                    *)
updated(p) ==
    /\ hasBeenSet' = hasBeenSet \cup {p}
    /\ retainedValues' = IF p \in hasBeenSet THEN retainedValues ELSE retainedValues + 1

(* operator = of the typed leaves; the same value again is not published.  *)
Assign(p, v) ==
    /\ p \in Retained
    /\ p \notin hasBeenSet \/ value[p] # v
    /\ value' = [value EXCEPT ![p] = v]
    /\ updated(p)
    /\ Publish(p, v)
    /\ UNCHANGED <<modelVars, online, active>>

removeValue_Unpublished(p) ==
    /\ p \in hasBeenSet
    /\ hasBeenSet' = hasBeenSet \ {p}
    /\ retainedValues' = retainedValues - 1
    /\ UNCHANGED <<value, modelVars, online, active, clientVars>>

removeValue(p) ==
    /\ p \in hasBeenSet
    /\ Publish(p, Empty)
    /\ hasBeenSet' = hasBeenSet \ {p}
    /\ retainedValues' = retainedValues - 1
    /\ UNCHANGED <<value, modelVars, online, active>>

(* The session gets a connection, or loses it and waits for the next.      *)
Connects(s) ==
    /\ s \notin online
    /\ online' = online \cup {s}
    /\ UNCHANGED <<modelVars, valueVars, clientVars, active>>

Disconnects(s) ==
    /\ s \in online
    /\ online' = online \ {s}
    /\ UNCHANGED <<modelVars, valueVars, clientVars, active>>

Next ==
    \/ \E s \in Subscribers :
          \/ \E f \in TopicFilters : Subscribe(s, f) \/ Unsubscribe(s, f)
          \/ UnsubscribeAll(s)
          \/ Connects(s)
          \/ Disconnects(s)
    \/ \E p \in Leaves :
          \/ \E v \in Values : Assign(p, v)
          \/ removeValue(p)

Spec == Init /\ [][Next]_vars

-----------------------------------------------------------------------------
(* Nothing is left of a subscription that was given up: a leaf publishes   *)
(* to a subscriber only for a filter it has subscribed to since it last    *)
(* unsubscribed from that filter.                                          *)
NoLeftoverSubscription ==
    \A p \in Leaves : \A s \in subscriptions[p] :
        \E f \in active[s] : p \in SubscribedBy(f)

(* The counters published under $SYS are those of the tree, whatever calls *)
(* overlap or repeat: addSubscriber and updated count only what is new.    *)
CountersAgree ==
    /\ subscriptionCount =
          Cardinality({x \in Subscribers \X Leaves : x[1] \in subscriptions[x[2]]})
    /\ retainedValues = Cardinality(hasBeenSet)

(* What a subscriber last heard of a retained leaf is what the leaf says,  *)
(* unless a message to it was lost: it is told the value when it           *)
(* subscribes and every change and removal after.                          *)
SubscriberUpToDate ==
    \A p \in Retained : \A s \in subscriptions[p] :
        p \notin missed[s] =>
            \/ p \in hasBeenSet /\ known[s][p] = value[p]
            \/ p \notin hasBeenSet /\ known[s][p] \in {NoValue, Empty}
=============================================================================
