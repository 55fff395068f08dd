----------------------------- MODULE Statistics -----------------------------
(***************************************************************************)
(* The statistics of the firmware: StatsManager, the StatsHolders it asks  *)
(* in turn, the rate of a StatCounter, and the totals of the MQTT broker,  *)
(* which are made of what ended connections and sessions left behind and   *)
(* of what the present ones have counted.                                  *)
(*                                                                         *)
(* To publish a statistic is an update of a leaf: it is counted in the     *)
(* very counter that is being harvested, and sent to sessions whose        *)
(* counters are being added up.                                            *)
(*                                                                         *)
(* Abstractions.  Connections and sessions are as MQTTBroker keeps them,   *)
(* with one session for each client ID; answers are sent, and the TCP      *)
(* stack takes either all or nothing of what is published to a client      *)
(* during one call.  A session listens to all of $SYS or to nothing.       *)
(* PassiveTimer::expired is that the time has come.  The VE.Direct devices *)
(* are one holder with one counter, and of the holders only the data model *)
(* uses the time elapsed.  The broker's counters do not reach 2^32.        *)
(***************************************************************************)
EXTENDS Integers, Sequences, FiniteSets, SequencesExt, FiniteSetsExt

CONSTANTS
    Clients,                   \* client IDs
    Empty,                     \* the empty client ID
    Unset,                     \* for a leaf without a value
    maxConnections,            \* also maxSessions
    ClockWord,                 \* 2^32: values of the clock, and
    Word,                      \* of a StatCounter
    msInSecond,
    statsUpdateTimeIntervalMs,
    Passes,                    \* how long passes of the main loop take
    Horizon,                   \* bound: how long a behaviour runs
    MaxEvents                  \* bound: messages received, uptimes, and clients lost

ASSUME StatisticsAssumption ==
    /\ Empty \notin Clients
    /\ {maxConnections, ClockWord, Word, msInSecond, statsUpdateTimeIntervalMs}
       \subseteq Nat \ {0}
    /\ statsUpdateTimeIntervalMs < ClockWord
    /\ Passes \subseteq Nat

VARIABLES
    now,              \* the time since the start; millis() is now % ClockWord
    manager,          \* StatsManager: harvesting, iterator, end of the timer
    lastHarvestTime,  \* of the data model
    updates,          \* DataModel::updates: count, lastIntervalCount
    leaf,             \* the values of the statistics' leaves
    connectionIDs,    \* and of those that tell client IDs
    sessionIDs,
    connections,      \* MQTTBroker::activeConnections
    activeSessions,
    disconnectedSessions,
    totals,           \* MQTTBroker: messagesReceived to publishMessagesDropped, maxClients
    running,          \* "yes", or "fault" after a division by zero that traps
    truth,            \* ghost: what was really received, sent, dropped and updated
    reading,          \* ghost: the last reading of updates
    rate,             \* ghost: what the published rate is about
    harvested,        \* ghost: truth when the broker's last harvest began
    events            \* bound: see MaxEvents

rateVars == <<lastHarvestTime, running, reading, rate>>
brokerVars == <<connections, disconnectedSessions, totals>>
idVars == <<connectionIDs, sessionIDs>>
published == <<leaf, idVars, updates, activeSessions, truth>>
vars == <<now, manager, published, brokerVars, rateVars, harvested, events>>

-----------------------------------------------------------------------------
(***************************************************************************)
(* Counters.                                                               *)
(***************************************************************************)
BrokerCounters == {"received", "sent", "publishReceived", "publishSent", "publishDropped"}

NewConnection == [client |-> Empty, state |-> "new", counts |-> [received |-> 0, sent |-> 0]]

NewSession(client, clean) ==
    [client |-> client, clean |-> clean, listens |-> FALSE,
     counts |-> [sent |-> 0, publishReceived |-> 0, publishSent |-> 0, publishDropped |-> 0]]

(* A counter of a connection or session, 0 if it has no such counter.      *)
Count(holder, k) == IF k \in DOMAIN holder.counts THEN holder.counts[k] ELSE 0

(* What operator += does for every counter that both have.                 *)
Added(total, holder) == [k \in DOMAIN total |-> total[k] + Count(holder, k)]

(* One counter of all connections or sessions of a list.                   *)
SumOf(seq, k) ==
    LET sum[i \in 0 .. Len(seq)] == IF i = 0 THEN 0 ELSE sum[i - 1] + Count(seq[i], k)
    IN  sum[Len(seq)]

Leaves ==
    {"subscriptions", "retained", "updates", "updateRate", "device",
     "connected", "disconnected", "total", "maximum"} \cup BrokerCounters

Init ==
    /\ now = 0
    /\ manager = [harvesting |-> FALSE, position |-> 1, due |-> statsUpdateTimeIntervalMs]
    /\ lastHarvestTime = 0
    /\ updates = [count |-> 0, lastInterval |-> 0]
    /\ leaf = [l \in Leaves |-> Unset]
    /\ connectionIDs = [i \in 1 .. maxConnections |-> Unset]
    /\ sessionIDs = [i \in 1 .. maxConnections |-> Unset]
    /\ connections = <<>>
    /\ activeSessions = <<>>
    /\ disconnectedSessions = <<>>
    /\ totals = [k \in BrokerCounters \cup {"maximum"} |-> 0]
    /\ running = "yes"
    /\ truth = [k \in BrokerCounters \cup {"updates"} |-> 0]
    /\ reading = [updates |-> 0, own |-> 0, time |-> 0, overdue |-> 0]
    /\ rate = [updates |-> 0, own |-> 0, elapsed |-> 1, overdue |-> 0]
    /\ harvested = [k \in BrokerCounters |-> 0]
    /\ events = 0
-----------------------------------------------------------------------------
(***************************************************************************)
(* Publishing.  full are the clients whose TCP connection takes nothing.   *)
(***************************************************************************)
Listening == {i \in DOMAIN activeSessions : activeSessions[i].listens}

Outcome(session, full) ==
    IF session.client \in full THEN {"publishDropped"} ELSE {"sent", "publishSent"}

Grown(counts, names, n) == [k \in DOMAIN counts |-> counts[k] + IF k \in names THEN n ELSE 0]

(* The active sessions after n messages to those of listeners, and what    *)
(* truth has become then.                                                  *)
Told(listeners, n, full) ==
    [i \in DOMAIN activeSessions |->
        [activeSessions[i] EXCEPT !.counts =
            IF i \in listeners THEN Grown(@, Outcome(activeSessions[i], full), n) ELSE @]]

TruthAfter(listeners, n, full) ==
    [k \in DOMAIN truth |->
        truth[k] + n * Cardinality({i \in listeners : k \in Outcome(activeSessions[i], full)})]

(* DataModelLeaf::operator <<, for n leaves.                               *)
Publish(n, full) ==
    /\ activeSessions' = Told(Listening, n, full)
    /\ truth' = Grown(TruthAfter(Listening, n, full), {"updates"}, n)

(* The leaves after the assignments of values.                             *)
Assigned(values) ==
    [l \in DOMAIN leaf |-> IF l \in DOMAIN values THEN values[l] ELSE leaf[l]]

(* An assignment publishes only what it changes.                           *)
Changed(old, new) == {l \in DOMAIN new : old[l] # new[l]}

NumberChanged(old, new) == Cardinality(Changed(old, new))

RetainedValues ==
    Cardinality({l \in Leaves : leaf[l] # Unset})
    + Cardinality({i \in 1 .. maxConnections : connectionIDs[i] # Unset})
    + Cardinality({i \in 1 .. maxConnections : sessionIDs[i] # Unset})

SubscriptionCount ==
    LET listening(sessions) == Cardinality({i \in DOMAIN sessions : sessions[i].listens})
    IN  (listening(activeSessions) + listening(disconnectedSessions)) * Cardinality(Leaves)

-----------------------------------------------------------------------------
(***************************************************************************)
(* The data model: StatsHolder::exportStats and StatCounter::update.       *)
(***************************************************************************)
CountInInterval_ForgetsOne(count, lastInterval) ==
    IF count < lastInterval THEN (Word - 1) - lastInterval + count
    ELSE count - lastInterval

CountInInterval(count, lastInterval) ==
    IF count < lastInterval THEN (Word - 1) - lastInterval + 1 + count
    ELSE count - lastInterval

(* The leaves before the rate.  Each one that changes counts, and a value  *)
(* that is set for the first time is retained, so the next one tells it.   *)
BeforeRate ==
    LET first == [subscriptions |-> SubscriptionCount,
                  retained |-> RetainedValues + IF leaf["subscriptions"] = Unset THEN 1 ELSE 0]
    IN  [subscriptions |-> first.subscriptions, retained |-> first.retained,
         updates |-> (updates.count + NumberChanged(leaf, first)) % Word]

(* A processor divides by zero to 0, or traps if it was told to.  The      *)
(* counter has already counted its own leaf when it is read, and is kept   *)
(* for the next time after it has counted the rate.                        *)
HarvestDataModel(full) ==
    LET millis   == now % ClockWord
        elapsed  == (millis - lastHarvestTime) % ClockWord
        before   == NumberChanged(leaf, BeforeRate)
        count    == (updates.count + before) % Word
        product  == (CountInInterval(count, updates.lastInterval) * msInSecond) % Word
        rateNow  == IF elapsed = 0 THEN 0 ELSE product \div elapsed
        all      == before + IF rateNow = leaf["updateRate"] THEN 0 ELSE 1
        kept     == (updates.count + all) % Word
    IN
    /\ leaf' = [Assigned(BeforeRate) EXCEPT !["updateRate"] = rateNow]
    /\ Publish(all, full)
    /\ updates' = [count |-> kept, lastInterval |-> kept]
    /\ lastHarvestTime' = millis
    /\ running' \in {"yes"} \cup {r \in {"fault"} : elapsed = 0}
    /\ rate' = [updates |-> truth.updates + before - reading.updates, own |-> reading.own,
                elapsed |-> now - reading.time, overdue |-> reading.overdue]
    /\ reading' = [updates |-> truth.updates + before, own |-> all - before, time |-> now,
                   overdue |-> now - (manager'.due - statsUpdateTimeIntervalMs)]
    /\ UNCHANGED <<idVars, brokerVars, harvested>>

-----------------------------------------------------------------------------
(***************************************************************************)
(* MQTTBroker::harvestStats.                                               *)
(***************************************************************************)
(* An ID leaf for each place of a pool, empty when nobody is there.        *)
IDsOf(seq) == [i \in 1 .. maxConnections |-> IF i \in DOMAIN seq THEN seq[i].client ELSE Empty]

PresentSessions == activeSessions \o disconnectedSessions

(* Session i is added up after the leaves of all connections and of the    *)
(* sessions before it were set, and they were published to it.             *)
SetBefore(i) ==
    NumberChanged(connectionIDs, IDsOf(connections))
    + Cardinality({j \in Changed(sessionIDs, IDsOf(PresentSessions)) : j < i})

SessionsSeen(full) ==
    [i \in DOMAIN activeSessions |-> Told(Listening, SetBefore(i), full)[i]]

(* The leaf is added to itself, not to publishMessagesDropped.             *)
PublishDropped(sum) ==
    (IF leaf["publishDropped"] = Unset THEN 0 ELSE leaf["publishDropped"]) + sum

HarvestBroker(full) ==
    LET sum(k)   == SumOf(connections, k) + SumOf(SessionsSeen(full), k)
                    + SumOf(disconnectedSessions, k)
        sessions == Len(PresentSessions)
        values   == [connected |-> Len(activeSessions),
                     disconnected |-> Len(disconnectedSessions),
                     total |-> sessions, maximum |-> Max({totals.maximum, sessions}),
                     received |-> totals.received + sum("received"),
                     sent |-> totals.sent + sum("sent"),
                     publishReceived |-> totals.publishReceived + sum("publishReceived"),
                     publishSent |-> totals.publishSent + sum("publishSent"),
                     publishDropped |-> PublishDropped(sum("publishDropped"))]
        changes  == NumberChanged(leaf, values)
                    + NumberChanged(connectionIDs, IDsOf(connections))
                    + NumberChanged(sessionIDs, IDsOf(PresentSessions))
    IN
    /\ leaf' = Assigned(values)
    /\ connectionIDs' = IDsOf(connections)
    /\ sessionIDs' = IDsOf(PresentSessions)
    /\ Publish(changes, full)
    /\ updates' = [updates EXCEPT !.count = (@ + changes) % Word]
    /\ totals' = [totals EXCEPT !.maximum = values.maximum]
    /\ harvested' = [k \in BrokerCounters |-> truth[k]]
    /\ UNCHANGED <<connections, disconnectedSessions, rateVars>>

(* VEDirectDevice::harvestStats: a leaf for each of its counters, of which *)
(* textBlocks is one: a device sends a block every second.                 *)
HarvestDevice(full) ==
    LET value   == [device |-> now \div msInSecond]
        changes == NumberChanged(leaf, value)
    IN
    /\ leaf' = Assigned(value)
    /\ Publish(changes, full)
    /\ updates' = [updates EXCEPT !.count = (@ + changes) % Word]
    /\ UNCHANGED <<idVars, brokerVars, rateVars, harvested>>

-----------------------------------------------------------------------------
(***************************************************************************)
(* StatsManager::service: one holder for each pass of the main loop.       *)
(***************************************************************************)
Holders == 3

Listeners == {activeSessions[i].client : i \in Listening}

Starts == ~manager.harvesting /\ now >= manager.due

Started ==
    IF Starts
    THEN [harvesting |-> TRUE, position |-> 1, due |-> manager.due + statsUpdateTimeIntervalMs]
    ELSE manager

service ==
    \/ /\ ~Started.harvesting
       /\ UNCHANGED <<manager, published, brokerVars, rateVars, harvested>>
    \/ /\ Started.harvesting
       /\ Started.position <= Holders
       /\ manager' = [Started EXCEPT !.position = @ + 1]
       /\ \E full \in SUBSET Listeners :
            CASE Started.position = 1 -> HarvestDataModel(full)
              [] Started.position = 2 -> HarvestBroker(full)
              [] Started.position = 3 -> HarvestDevice(full)
    \/ /\ Started.harvesting
       /\ Started.position > Holders
       /\ manager' = [Started EXCEPT !.harvesting = FALSE]
       /\ UNCHANGED <<published, brokerVars, rateVars, harvested>>

-----------------------------------------------------------------------------
(***************************************************************************)
(* The broker and its clients.                                             *)
(***************************************************************************)
IndexFor(sessions, client) == {i \in DOMAIN sessions : sessions[i].client = client}

HasSession(sessions, client) == IndexFor(sessions, client) # {}

SessionOf(sessions, client) == CHOOSE i \in IndexFor(sessions, client) : TRUE

(* The list without the client's session, if it is there.                  *)
Without(sessions, client) ==
    IF HasSession(sessions, client)
    THEN RemoveAt(sessions, SessionOf(sessions, client)) ELSE sessions

Ended_Forgotten(total, sessions, client) == total

(* sessionEnded for the client's session on the list, if it is there.      *)
Ended(total, sessions, client) ==
    IF HasSession(sessions, client)
    THEN Added(total, sessions[SessionOf(sessions, client)]) ELSE total

Event ==
    /\ events < MaxEvents
    /\ events' = events + 1
    /\ UNCHANGED <<now, manager, rateVars, harvested>>

newConnection ==
    /\ Event
    /\ Len(connections) < maxConnections
    /\ connections' = Append(connections, NewConnection)
    /\ UNCHANGED <<published, disconnectedSessions, totals>>

(* Connection i has received a message and its counters grow by names.     *)
Counts(i, names) == [connections EXCEPT ![i].counts = Grown(@, names, 1)]

(* A CONNECT that is refused, before or after its client ID was copied.    *)
Refused(i, client) ==
    /\ Event
    /\ connections[i].state = "new"
    /\ connections' = [Counts(i, {"received", "sent"}) EXCEPT ![i].client = client]
    /\ truth' = Grown(truth, {"received", "sent"}, 1)
    /\ UNCHANGED <<leaf, idVars, updates, activeSessions, disconnectedSessions, totals>>

(* Connection i is paired with the client's session, and any other that    *)
(* had it is told to close.                                                *)
Paired(i, client) ==
    [j \in DOMAIN connections |->
        IF j = i
        THEN [Counts(i, {"received"})[i] EXCEPT !.client = client, !.state = "paired"]
        ELSE IF connections[j].client = client /\ connections[j].state = "paired"
        THEN [connections[j] EXCEPT !.state = "closing"] ELSE connections[j]]

Acknowledged(session, clean) ==
    [session EXCEPT !.clean = clean, !.counts = Grown(@, {"sent"}, 1)]

(* pairConnectionWithNonCleanSession finds the session that waits ...      *)
Resume(client) ==
    /\ HasSession(disconnectedSessions, client)
    /\ activeSessions' =
         LET session == disconnectedSessions[SessionOf(disconnectedSessions, client)]
         IN  Append(activeSessions, Acknowledged(session, FALSE))
    /\ disconnectedSessions' = Without(disconnectedSessions, client)
    /\ UNCHANGED totals

(* ... or the one that has another connection,                             *)
TakeOver(client) ==
    /\ ~HasSession(disconnectedSessions, client)
    /\ HasSession(activeSessions, client)
    /\ activeSessions' = [activeSessions EXCEPT ![SessionOf(activeSessions, client)] =
                             Acknowledged(@, FALSE)]
    /\ UNCHANGED <<disconnectedSessions, totals>>

(* ... or none, where pairConnectionWithCleanSession ends what it finds.   *)
StartFresh(client, clean) ==
    LET active  == Without(activeSessions, client)
        waiting == Without(disconnectedSessions, client)
    IN  /\ clean \/ (active = activeSessions /\ waiting = disconnectedSessions)
        /\ Len(active) + Len(waiting) < maxConnections
        /\ activeSessions' = Append(active, Acknowledged(NewSession(client, clean), clean))
        /\ disconnectedSessions' = waiting
        /\ totals' = Ended(Ended(totals, disconnectedSessions, client), activeSessions, client)

(* pairConnectionWithSession and the CONNECT of the session.               *)
Accepted(i, client, clean) ==
    /\ Event
    /\ connections[i].state = "new"
    /\ connections' = Paired(i, client)
    /\ truth' = Grown(truth, {"received", "sent"}, 1)
    /\ \/ ~clean /\ Resume(client)
       \/ ~clean /\ TakeOver(client)
       \/ StartFresh(client, clean)
    /\ UNCHANGED <<leaf, idVars, updates>>

(* The place of the session of connection i.                               *)
Own(i) == SessionOf(activeSessions, connections[i].client)

(* A message to the session of connection i: of the sessions active, which *)
(* sent what is in truth t, its counters of names grow.                    *)
SessionMessage(i, names, active, t) ==
    /\ Event
    /\ connections[i].state = "paired"
    /\ connections' = Counts(i, {"received"})
    /\ activeSessions' = [active EXCEPT ![Own(i)].counts = Grown(@, names, 1)]
    /\ truth' = Grown(t, {"received"} \cup names, 1)
    /\ UNCHANGED <<leaf, idVars, updates, disconnectedSessions, totals>>

Ping(i) == SessionMessage(i, {"sent"}, activeSessions, truth)

(* Counted where PUBREC is ignored.                                        *)
PublishReceived(i) == SessionMessage(i, {"publishReceived"}, activeSessions, truth)

(* A SUBSCRIBE to everything: the values there are are published first.    *)
Subscribe(i) ==
    \E full \in {{}, {connections[i].client}} :
        SessionMessage(i, {"sent"},
            [Told({Own(i)}, RetainedValues, full) EXCEPT ![Own(i)].listens = TRUE],
            TruthAfter({Own(i)}, RetainedValues, full))

(* The session of connection i ends or, if it is to be kept, waits.        *)
SessionLeft(i, keep, total) ==
    /\ connections[i].state = "paired"
    /\ keep => ~activeSessions[Own(i)].clean
    /\ activeSessions' = Without(activeSessions, connections[i].client)
    /\ IF keep
       THEN /\ disconnectedSessions' = Append(disconnectedSessions, activeSessions[Own(i)])
            /\ totals' = total
       ELSE /\ totals' = Ended(total, activeSessions, connections[i].client)
            /\ UNCHANGED disconnectedSessions

(* DISCONNECT, a malformed packet, or an answer that cannot be sent.       *)
Disconnect(i) ==
    /\ Event
    /\ \E keep \in BOOLEAN : SessionLeft(i, keep, totals)
    /\ connections' = [Counts(i, {"received"}) EXCEPT ![i].state = "closing"]
    /\ truth' = Grown(truth, {"received"}, 1)
    /\ UNCHANGED <<leaf, idVars, updates>>

(* freeClosedConnections: what connection i leaves behind.                 *)
Freed(i, total) == Added(total, connections[i])

(* The peer of connection i is gone.                                       *)
Lost(i) ==
    /\ Event
    /\ \/ \E keep \in BOOLEAN :
             /\ SessionLeft(i, keep, Freed(i, totals))
             /\ keep \/ activeSessions[Own(i)].clean
       \/ /\ connections[i].state # "paired"
          /\ totals' = Freed(i, totals)
          /\ UNCHANGED <<activeSessions, disconnectedSessions>>
    /\ connections' = RemoveAt(connections, i)
    /\ UNCHANGED <<leaf, idVars, updates, truth>>

-----------------------------------------------------------------------------
(* The main loop's uptime; it keeps no value.                              *)
Uptime ==
    /\ Event
    /\ \E full \in SUBSET Listeners : Publish(1, full)
    /\ updates' = [updates EXCEPT !.count = (@ + 1) % Word]
    /\ UNCHANGED <<leaf, idVars, brokerVars>>

(* A pass of the main loop calls service and takes ms.                     *)
Pass(ms) ==
    /\ now + ms <= Horizon
    /\ now' = now + ms
    /\ service
    /\ UNCHANGED events

Next ==
    /\ running = "yes"
    /\ \/ newConnection
       \/ \E i \in DOMAIN connections :
            \/ \E client \in Clients \cup {connections[i].client} : Refused(i, client)
            \/ \E client \in Clients, clean \in BOOLEAN : Accepted(i, client, clean)
            \/ Ping(i) \/ PublishReceived(i) \/ Subscribe(i) \/ Disconnect(i) \/ Lost(i)
       \/ Uptime
       \/ \E ms \in Passes : Pass(ms)

Spec == Init /\ [][Next]_vars

-----------------------------------------------------------------------------
(***************************************************************************)
(* Properties.                                                             *)
(***************************************************************************)

(* A published rate is that of all updates since the one before: a harvest *)
(* that publishes its own statistics, a count or a clock that starts again *)
(* at 0, and harvests that come late lose none and count none twice, but   *)
(* for the update that was the last rate itself.  Two harvests in one      *)
(* millisecond, where the rate is a division by zero, need a harvest that  *)
(* came a whole interval late.  StatCounter.cpp:46, StatsHolder.cpp:28.    *)
RatesAreTrue ==
    LET n == rate.updates - rate.own IN
    /\ rate.elapsed = 0 => rate.overdue >= statsUpdateTimeIntervalMs
    /\ (rate.elapsed \in 1 .. ClockWord - 1 /\ leaf["updateRate"] # Unset /\ n * msInSecond < Word)
       => leaf["updateRate"] = (n * msInSecond) \div rate.elapsed

(* What was received and sent is in the broker's totals once, whether the  *)
(* connection or session that counted it is active, waits, was taken over  *)
(* or is gone, and although harvesting itself makes sessions send: a total *)
(* is what was true at some time during the harvest.  MQTTBroker.cpp:288.  *)
TotalsAreTrue ==
    \A k \in BrokerCounters \ {"publishDropped"} :
        leaf[k] # Unset => leaf[k] \in harvested[k] .. truth[k]

(* The same for dropped messages, as the comment at MQTTBroker.cpp:230     *)
(* says of all of them: "included in ongoing totals".                      *)
DroppedTotalIsTrue ==
    leaf["publishDropped"] # Unset
    => leaf["publishDropped"] \in harvested["publishDropped"] .. truth["publishDropped"]
=============================================================================
