--------------------------- MODULE DataModel_proofs ---------------------------
(***************************************************************************)
(* What subscribers can rely on, for any tree, filters and subscribers.    *)
(*                                                                         *)
(* Then the leaves that tell the log: they tell the last lines, for any    *)
(* depth of the log, any length of a line and with debug lines shown or    *)
(* not.                                                                    *)
(***************************************************************************)
EXTENDS DataModel, Logger, FiniteSetTheorems, SequenceTheorems, TLAPS

(* The part of TypeOK the proofs need.                                     *)
ShapeOK ==
    /\ subscriptions \in [Leaves -> SUBSET Subscribers]
    /\ hasBeenSet \subseteq Retained
    /\ value \in [Retained -> Values]
    /\ known \in [Subscribers -> [Retained -> Values \cup {NoValue, Empty}]]
    /\ missed \in [Subscribers -> SUBSET Retained]
    /\ active \in [Subscribers -> SUBSET TopicFilters]

(* What a subscriber that is not on a leaf's list knows of it: nothing.    *)
StrangersKnowNothing ==
    \A p \in Retained : \A s \in Subscribers \ subscriptions[p] :
        known[s][p] = NoValue /\ p \notin missed[s]

IInv == ShapeOK /\ NoLeftoverSubscription /\ SubscriberUpToDate /\ StrangersKnowNothing

-----------------------------------------------------------------------------
(* Giving up a filter gives up at least what it subscribed to.             *)
LEMMA UnsubscribeCovers == \A f : SubscribedBy(f) \subseteq UnsubscribedBy(f)
BY DEF SubscribedBy, UnsubscribedBy

LEMMA SelectsLeaves ==
    \A f : SubscribedBy(f) \subseteq Leaves /\ UnsubscribedBy(f) \subseteq Leaves
BY DEF SubscribedBy, UnsubscribedBy, Selected

LEMMA InitStep == Init => IInv
<1> SUFFICES ASSUME Init PROVE IInv
  OBVIOUS
<1>1. Retained \subseteq Leaves /\ Zero \in Values
  BY TreeAssumption
<1>2. ShapeOK
  BY <1>1 DEF Init, ShapeOK
<1>3. \A p \in Leaves : subscriptions[p] = {}
  BY DEF Init
<1>4. NoLeftoverSubscription /\ SubscriberUpToDate
  BY <1>1, <1>3 DEF NoLeftoverSubscription, SubscriberUpToDate
<1>5. StrangersKnowNothing
  BY DEF Init, StrangersKnowNothing
<1>6. QED
  BY <1>2, <1>4, <1>5 DEF IInv

LEMMA SubscribeStep ==
    ASSUME IInv, NEW s \in Subscribers, NEW f \in TopicFilters, Subscribe(s, f)
    PROVE  IInv'
<1> DEFINE ps == SubscribedBy(f)
<1>1. ps \subseteq Leaves
  BY SelectsLeaves
<1>2. subscriptions' = [p \in Leaves |->
          IF p \in ps THEN subscriptions[p] \cup {s} ELSE subscriptions[p]]
  BY DEF Subscribe, AddSubscriber
<1>3. PICK got \in SUBSET (ps \cap hasBeenSet) :
        /\ known' = [known EXCEPT ![s] = [p \in Retained |->
               IF p \in got THEN value[p] ELSE known[s][p]]]
        /\ missed' = [missed EXCEPT ![s] =
               (missed[s] \ got) \cup ((ps \cap hasBeenSet) \ got)]
  BY DEF Subscribe, sendRetainedValue
<1>4. active' = [active EXCEPT ![s] = @ \cup {f}] /\ UNCHANGED valueVars
  BY DEF Subscribe
<1> HIDE DEF ps
<1>5. ShapeOK'
  BY <1>1, <1>2, <1>3, <1>4, TreeAssumption DEF IInv, ShapeOK, valueVars
<1>6. NoLeftoverSubscription'
  <2> SUFFICES ASSUME NEW p \in Leaves, NEW r \in subscriptions'[p]
               PROVE  \E g \in active'[r] : p \in SubscribedBy(g)
    BY DEF NoLeftoverSubscription
  <2>1. r \in Subscribers /\ active[r] \subseteq active'[r]
    BY <1>4, <1>5 DEF IInv, ShapeOK
  <2>2. CASE r \in subscriptions[p]
    BY <2>1, <2>2 DEF IInv, NoLeftoverSubscription
  <2>3. CASE r \notin subscriptions[p]
    <3>1. r = s /\ p \in SubscribedBy(f)
      BY <1>2, <2>3 DEF ps
    <3>2. f \in active'[r]
      BY <1>4, <3>1 DEF IInv, ShapeOK
    <3>3. QED
      BY <3>1, <3>2
  <2>4. QED
    BY <2>2, <2>3
<1>7. SubscriberUpToDate'
  <2> SUFFICES ASSUME NEW p \in Retained, NEW r \in subscriptions'[p], p \notin missed'[r]
               PROVE  \/ p \in hasBeenSet' /\ known'[r][p] = value'[p]
                      \/ p \notin hasBeenSet' /\ known'[r][p] \in {NoValue, Empty}
    BY DEF SubscriberUpToDate
  <2>1. p \in Leaves /\ r \in Subscribers /\ hasBeenSet' = hasBeenSet /\ value' = value
    BY <1>4, <1>5, TreeAssumption DEF ShapeOK, valueVars
  <2>2. CASE r # s
    BY <1>2, <1>3, <2>1, <2>2 DEF IInv, ShapeOK, SubscriberUpToDate
  <2>3. CASE r = s /\ p \in got
    BY <1>3, <2>1, <2>3 DEF IInv, ShapeOK
  <2>4. CASE r = s /\ p \notin got
    <3>1. known'[r][p] = known[r][p]
      BY <1>3, <2>1, <2>4 DEF IInv, ShapeOK
    <3>2. p \notin missed[r] /\ p \notin ps \cap hasBeenSet
      BY <1>3, <2>1, <2>4 DEF IInv, ShapeOK
    <3>3. CASE r \in subscriptions[p]
      BY <2>1, <3>1, <3>2, <3>3 DEF IInv, SubscriberUpToDate
    <3>4. CASE r \notin subscriptions[p]
      BY <1>2, <2>1, <2>4, <3>1, <3>2, <3>4 DEF IInv, StrangersKnowNothing
    <3>5. QED
      BY <3>3, <3>4
  <2>5. QED
    BY <2>2, <2>3, <2>4
<1>8. StrangersKnowNothing'
  BY <1>1, <1>2, <1>3, <1>4, TreeAssumption DEF IInv, ShapeOK, StrangersKnowNothing
<1>9. QED
  BY <1>5, <1>6, <1>7, <1>8 DEF IInv

(* Unsubscribe and unsubscribeAll take a subscriber off the leaves ps; its *)
(* filters shrink to kept, which selects nothing of ps it still needs.     *)
LEMMA RemoveStep ==
    ASSUME IInv, NEW s \in Subscribers, NEW ps \in SUBSET Leaves,
           NEW kept \in SUBSET active[s],
           RemoveSubscriber(s, ps),
           active' = [active EXCEPT ![s] = kept],
           UNCHANGED valueVars,
           \A f \in active[s] \ kept : SubscribedBy(f) \subseteq ps
    PROVE  IInv'
<1>1. /\ subscriptions' = [p \in Leaves |->
             IF p \in ps THEN subscriptions[p] \ {s} ELSE subscriptions[p]]
      /\ known' = [known EXCEPT ![s] = [p \in Retained |->
             IF p \in ps THEN NoValue ELSE known[s][p]]]
      /\ missed' = [missed EXCEPT ![s] = missed[s] \ ps]
  BY DEF RemoveSubscriber, Forgets
<1>2. ShapeOK'
  BY <1>1, TreeAssumption DEF IInv, ShapeOK, valueVars
<1>3. NoLeftoverSubscription'
  <2> SUFFICES ASSUME NEW p \in Leaves, NEW r \in subscriptions'[p]
               PROVE  \E g \in active'[r] : p \in SubscribedBy(g)
    BY DEF NoLeftoverSubscription
  <2>1. r \in subscriptions[p] /\ r \in Subscribers /\ (r = s => p \notin ps)
    BY <1>1 DEF IInv, ShapeOK
  <2>2. PICK g \in active[r] : p \in SubscribedBy(g)
    BY <2>1 DEF IInv, NoLeftoverSubscription
  <2>3. g \in active'[r]
    BY <2>1, <2>2 DEF IInv, ShapeOK
  <2>4. QED
    BY <2>2, <2>3
<1>4. SubscriberUpToDate'
  BY <1>1, <1>2, TreeAssumption DEF IInv, ShapeOK, SubscriberUpToDate, valueVars
<1>5. StrangersKnowNothing'
  BY <1>1, <1>2, TreeAssumption DEF IInv, ShapeOK, StrangersKnowNothing, valueVars
<1>6. QED
  BY <1>2, <1>3, <1>4, <1>5 DEF IInv

(* A leaf p changes to v, which is Empty if its value is removed, and tells *)
(* its subscribers.                                                        *)
LEMMA PublishStep ==
    ASSUME IInv, NEW p \in Retained, NEW v \in Values \cup {Empty}, Publish(p, v),
           hasBeenSet' \subseteq Retained,
           value' \in [Retained -> Values],
           \A q \in Retained \ {p} :
               (q \in hasBeenSet' <=> q \in hasBeenSet) /\ value'[q] = value[q],
           \/ p \in hasBeenSet' /\ value'[p] = v
           \/ p \notin hasBeenSet' /\ v = Empty,
           UNCHANGED <<modelVars, active>>
    PROVE  IInv'
<1>1. PICK got \in SUBSET (subscriptions[p] \cap online) :
        /\ known' = [s \in Subscribers |->
              IF s \in got THEN [known[s] EXCEPT ![p] = v] ELSE known[s]]
        /\ missed' = [s \in Subscribers |->
              IF s \in got THEN missed[s] \ {p}
              ELSE IF s \in subscriptions[p] THEN missed[s] \cup {p} ELSE missed[s]]
  BY DEF Publish
<1>2. ShapeOK'
  BY <1>1, TreeAssumption DEF IInv, ShapeOK, modelVars
<1>3. NoLeftoverSubscription'
  BY DEF IInv, NoLeftoverSubscription, modelVars
<1>4. SubscriberUpToDate'
  <2> SUFFICES ASSUME NEW q \in Retained, NEW r \in subscriptions[q], q \notin missed'[r]
               PROVE  \/ q \in hasBeenSet' /\ known'[r][q] = value'[q]
                      \/ q \notin hasBeenSet' /\ known'[r][q] \in {NoValue, Empty}
    BY DEF SubscriberUpToDate, modelVars
  <2>1. q \in Leaves /\ r \in Subscribers
    BY TreeAssumption DEF IInv, ShapeOK
  <2>2. CASE q = p
    <3>1. r \in got
      BY <1>1, <2>1, <2>2
    <3>2. known'[r][q] = v
      BY <1>1, <2>1, <2>2, <3>1 DEF IInv, ShapeOK
    <3>3. QED
      BY <2>2, <3>2
  <2>3. CASE q # p
    <3>1. known'[r][q] = known[r][q] /\ q \notin missed[r]
      BY <1>1, <2>1, <2>3 DEF IInv, ShapeOK
    <3>2. QED
      BY <2>1, <2>3, <3>1 DEF IInv, SubscriberUpToDate
  <2>4. QED
    BY <2>2, <2>3
<1>5. StrangersKnowNothing'
  <2> SUFFICES ASSUME NEW q \in Retained, NEW r \in Subscribers \ subscriptions[q]
               PROVE  known'[r][q] = NoValue /\ q \notin missed'[r]
    BY DEF StrangersKnowNothing, modelVars
  <2>1. known[r][q] = NoValue /\ q \notin missed[r]
    BY DEF IInv, StrangersKnowNothing
  <2>2. q = p => r \notin got
    OBVIOUS
  <2>3. QED
    BY <1>1, <2>1, <2>2 DEF IInv, ShapeOK
<1>6. QED
  BY <1>2, <1>3, <1>4, <1>5 DEF IInv

-----------------------------------------------------------------------------
(* Every call of the data model keeps the subscriptions and what           *)
(* subscribers know in step with the filters and the values.               *)
THEOREM InductiveStep == IInv /\ [Next]_vars => IInv'
<1> SUFFICES ASSUME IInv, [Next]_vars PROVE IInv'
  OBVIOUS
<1>1. ASSUME NEW s \in Subscribers, NEW f \in TopicFilters, Subscribe(s, f) PROVE IInv'
  BY <1>1, SubscribeStep
<1>2. ASSUME NEW s \in Subscribers, NEW f \in TopicFilters, Unsubscribe(s, f) PROVE IInv'
  <2> DEFINE ps == UnsubscribedBy(f)
             kept == active[s] \ {f}
  <2>1. ps \in SUBSET Leaves /\ kept \in SUBSET active[s]
    BY SelectsLeaves
  <2>2. RemoveSubscriber(s, ps) /\ active' = [active EXCEPT ![s] = kept] /\ UNCHANGED valueVars
    BY <1>2 DEF Unsubscribe
  <2>3. \A g \in active[s] \ kept : SubscribedBy(g) \subseteq ps
    BY UnsubscribeCovers
  <2> HIDE DEF ps, kept
  <2>4. QED
    BY <2>1, <2>2, <2>3, RemoveStep
<1>3. ASSUME NEW s \in Subscribers, UnsubscribeAll(s) PROVE IInv'
  <2>1. /\ RemoveSubscriber(s, Leaves)
        /\ active' = [active EXCEPT ![s] = {}]
        /\ UNCHANGED valueVars
    BY <1>3 DEF UnsubscribeAll
  <2>2. \A g \in active[s] \ {} : SubscribedBy(g) \subseteq Leaves
    BY SelectsLeaves
  <2>3. QED
    BY <2>1, <2>2, RemoveStep
<1>4. ASSUME NEW s \in Subscribers, Connects(s) \/ Disconnects(s) PROVE IInv'
  BY <1>4 DEF Connects, Disconnects, IInv, ShapeOK, NoLeftoverSubscription,
              SubscriberUpToDate, StrangersKnowNothing, modelVars, valueVars, clientVars
<1>5. ASSUME NEW p \in Leaves, NEW v \in Values, Assign(p, v) PROVE IInv'
  <2>1. /\ p \in Retained /\ v \in Values \cup {Empty}
        /\ hasBeenSet' = hasBeenSet \cup {p}
        /\ value' = [value EXCEPT ![p] = v]
        /\ Publish(p, v)
        /\ UNCHANGED <<modelVars, active>>
    BY <1>5 DEF Assign, updated
  <2>2. /\ hasBeenSet' \subseteq Retained
        /\ value' \in [Retained -> Values]
        /\ p \in hasBeenSet' /\ value'[p] = v
        /\ \A q \in Retained \ {p} :
               (q \in hasBeenSet' <=> q \in hasBeenSet) /\ value'[q] = value[q]
    BY <2>1 DEF IInv, ShapeOK
  <2>3. QED
    BY <2>1, <2>2, PublishStep
<1>6. ASSUME NEW p \in Leaves, removeValue(p) PROVE IInv'
  <2>1. /\ p \in Retained
        /\ hasBeenSet' = hasBeenSet \ {p}
        /\ value' = value
        /\ Publish(p, Empty)
        /\ UNCHANGED <<modelVars, active>>
    BY <1>6 DEF removeValue, IInv, ShapeOK
  <2>2. /\ hasBeenSet' \subseteq Retained
        /\ value' \in [Retained -> Values]
        /\ p \notin hasBeenSet'
        /\ \A q \in Retained \ {p} :
               (q \in hasBeenSet' <=> q \in hasBeenSet) /\ value'[q] = value[q]
    BY <2>1 DEF IInv, ShapeOK
  <2>3. QED
    BY <2>1, <2>2, PublishStep
<1>7. CASE UNCHANGED vars
  BY <1>7 DEF vars, IInv, ShapeOK, NoLeftoverSubscription, SubscriberUpToDate,
              StrangersKnowNothing
<1>8. QED
  BY <1>1, <1>2, <1>3, <1>4, <1>5, <1>6, <1>7 DEF Next

THEOREM Invariance == Spec => []IInv
BY InitStep, InductiveStep, PTL DEF Spec

(* No leaf publishes for a filter the subscriber gave up:                  *)
(* DataModelRoot::unsubscribe walks at least where subscribe walked.       *)
THEOREM NothingLeftOver == Spec => []NoLeftoverSubscription
<1>1. IInv => NoLeftoverSubscription
  BY DEF IInv
<1>2. QED
  BY <1>1, Invariance, PTL

(* A subscriber that missed no message knows the value of every retained   *)
(* leaf it is subscribed to: DataModelRetainedValueLeaf::subscribe sends   *)
(* it, and every change and removal after is published.                    *)
THEOREM UpToDate == Spec => []SubscriberUpToDate
<1>1. IInv => SubscriberUpToDate
  BY DEF IInv
<1>2. QED
  BY <1>1, Invariance, PTL

-----------------------------------------------------------------------------
(***************************************************************************)
(* The counters under $SYS.                                                *)
(***************************************************************************)
Pairs == {x \in Subscribers \X Leaves : x[1] \in subscriptions[x[2]]}

LEMMA PairsFinite == IsFiniteSet(Pairs)
<1>1. IsFiniteSet(Subscribers \X Leaves)
  BY TreeAssumption, FS_Product
<1>2. QED
  BY <1>1, FS_Subset DEF Pairs

(* The pairs of one subscriber are as many as its leaves.                  *)
LEMMA PairsOfOne ==
    ASSUME NEW s, NEW qs, IsFiniteSet(qs)
    PROVE  /\ IsFiniteSet({s} \X qs)
           /\ Cardinality({s} \X qs) = Cardinality(qs)
<1>1. IsFiniteSet({s}) /\ Cardinality({s}) = 1
  BY FS_Singleton
<1>2. /\ IsFiniteSet({s} \X qs)
      /\ Cardinality({s} \X qs) = Cardinality({s}) * Cardinality(qs)
  BY <1>1, FS_Product
<1>3. Cardinality(qs) \in Nat
  BY FS_CardinalityType
<1>4. QED
  BY <1>1, <1>2, <1>3

LEMMA DisjointUnion ==
    ASSUME NEW S, NEW T, IsFiniteSet(S), IsFiniteSet(T), S \cap T = {}
    PROVE  /\ Cardinality(S \cup T) = Cardinality(S) + Cardinality(T)
           /\ Cardinality(S) \in Nat /\ Cardinality(T) \in Nat
<1>1. /\ IsFiniteSet(S \cup T)
      /\ Cardinality(S \cup T) = Cardinality(S) + Cardinality(T) - Cardinality(S \cap T)
  BY FS_Union
<1>2. Cardinality(S \cap T) = 0
  BY FS_EmptySet
<1>3. Cardinality(S) \in Nat /\ Cardinality(T) \in Nat
  BY FS_CardinalityType
<1>4. QED
  BY <1>1, <1>2, <1>3

CInv == ShapeOK /\ CountersAgree

LEMMA CountSubscribed ==
    ASSUME CInv, NEW s \in Subscribers, NEW ps \in SUBSET Leaves, AddSubscriber(s, ps)
    PROVE  subscriptionCount' = Cardinality(Pairs')
<1> DEFINE new == {p \in ps : s \notin subscriptions[p]}
<1>1. IsFiniteSet(new)
  BY TreeAssumption, FS_Subset
<1>2. Pairs' = Pairs \cup ({s} \X new)
  BY DEF Pairs, AddSubscriber, CInv, ShapeOK
<1>3. Pairs \cap ({s} \X new) = {}
  BY DEF Pairs
<1>4. subscriptionCount' = subscriptionCount + Cardinality(new)
  BY DEF AddSubscriber
<1>5. subscriptionCount = Cardinality(Pairs)
  BY DEF CInv, CountersAgree, Pairs
<1> HIDE DEF new
<1>6. QED
  <2>1. PICK P, Q, D : P = Pairs /\ Q = Pairs' /\ D = {s} \X new
    OBVIOUS
  <2>2. IsFiniteSet(D) /\ Cardinality(D) = Cardinality(new)
    BY <2>1, <1>1, PairsOfOne
  <2>3. IsFiniteSet(P) /\ Q = P \cup D /\ P \cap D = {}
    BY <2>1, <1>2, <1>3, PairsFinite
  <2>4. Cardinality(Q) = Cardinality(P) + Cardinality(D)
    BY <2>2, <2>3, DisjointUnion
  <2>5. QED
    BY <2>1, <2>2, <2>4, <1>4, <1>5

LEMMA CountUnsubscribed ==
    ASSUME CInv, NEW s \in Subscribers, NEW ps \in SUBSET Leaves, RemoveSubscriber(s, ps)
    PROVE  subscriptionCount' = Cardinality(Pairs')
<1> DEFINE old == {p \in ps : s \in subscriptions[p]}
<1>1. IsFiniteSet(old)
  BY TreeAssumption, FS_Subset
<1>2. Pairs = Pairs' \cup ({s} \X old)
  BY DEF Pairs, RemoveSubscriber, CInv, ShapeOK
<1>3. Pairs' \cap ({s} \X old) = {}
  BY DEF Pairs, RemoveSubscriber
<1>4. subscriptionCount' = subscriptionCount - Cardinality(old)
  BY DEF RemoveSubscriber
<1>5. subscriptionCount = Cardinality(Pairs)
  BY DEF CInv, CountersAgree, Pairs
<1>6. IsFiniteSet(Pairs')
  BY <1>2, PairsFinite, FS_Subset
<1> HIDE DEF old
<1>7. QED
  <2>1. PICK P, Q, D : P = Pairs /\ Q = Pairs' /\ D = {s} \X old
    OBVIOUS
  <2>2. IsFiniteSet(D) /\ Cardinality(D) = Cardinality(old)
    BY <2>1, <1>1, PairsOfOne
  <2>3. IsFiniteSet(Q) /\ P = Q \cup D /\ Q \cap D = {}
    BY <2>1, <1>2, <1>3, <1>6
  <2>4. /\ Cardinality(P) = Cardinality(Q) + Cardinality(D)
        /\ Cardinality(Q) \in Nat /\ Cardinality(D) \in Nat
    BY <2>2, <2>3, DisjointUnion
  <2>5. QED
    BY <2>1, <2>2, <2>4, <1>4, <1>5

LEMMA SetFinite == ASSUME ShapeOK PROVE IsFiniteSet(hasBeenSet)
BY TreeAssumption, FS_Subset DEF ShapeOK

(* DataModelLeaf::addSubscriber, unsubscribe, updated and removeValue      *)
(* count each subscription and each value once, and take it off once.      *)
THEOREM CountersStep == CInv /\ ShapeOK' /\ [Next]_vars => CInv'
<1> SUFFICES ASSUME CInv, ShapeOK', [Next]_vars PROVE CountersAgree'
  BY DEF CInv
<1>0. /\ subscriptionCount = Cardinality(Pairs)
      /\ retainedValues = Cardinality(hasBeenSet)
      /\ ShapeOK
  BY DEF CInv, CountersAgree, Pairs
<1> SUFFICES /\ subscriptionCount' = Cardinality(Pairs')
             /\ retainedValues' = Cardinality(hasBeenSet')
  BY DEF CountersAgree, Pairs
<1>1. ASSUME UNCHANGED modelVars
      PROVE  subscriptionCount' = Cardinality(Pairs')
  BY <1>0, <1>1 DEF modelVars, Pairs
<1>2. ASSUME UNCHANGED valueVars
      PROVE  retainedValues' = Cardinality(hasBeenSet')
  BY <1>0, <1>2 DEF valueVars
<1>3. ASSUME NEW s \in Subscribers, NEW f \in TopicFilters, Subscribe(s, f)
      PROVE  subscriptionCount' = Cardinality(Pairs') /\ UNCHANGED valueVars
  BY <1>3, SelectsLeaves, CountSubscribed DEF Subscribe
<1>4. ASSUME NEW s \in Subscribers, NEW f \in TopicFilters, Unsubscribe(s, f)
      PROVE  subscriptionCount' = Cardinality(Pairs') /\ UNCHANGED valueVars
  BY <1>4, SelectsLeaves, CountUnsubscribed DEF Unsubscribe
<1>5. ASSUME NEW s \in Subscribers, UnsubscribeAll(s)
      PROVE  subscriptionCount' = Cardinality(Pairs') /\ UNCHANGED valueVars
  BY <1>5, CountUnsubscribed DEF UnsubscribeAll
<1>6. ASSUME NEW s \in Subscribers, Connects(s) \/ Disconnects(s)
      PROVE  UNCHANGED <<modelVars, valueVars>>
  BY <1>6 DEF Connects, Disconnects
<1>7. ASSUME NEW p \in Leaves, NEW v \in Values, Assign(p, v)
      PROVE  UNCHANGED modelVars /\ retainedValues' = Cardinality(hasBeenSet')
  <2>1. /\ hasBeenSet' = hasBeenSet \cup {p}
        /\ retainedValues' = IF p \in hasBeenSet THEN retainedValues ELSE retainedValues + 1
        /\ UNCHANGED modelVars
    BY <1>7 DEF Assign, updated
  <2>2. QED
    BY <1>0, <2>1, SetFinite, FS_AddElement
<1>8. ASSUME NEW p \in Leaves, removeValue(p)
      PROVE  UNCHANGED modelVars /\ retainedValues' = Cardinality(hasBeenSet')
  <2>1. /\ p \in hasBeenSet
        /\ hasBeenSet' = hasBeenSet \ {p}
        /\ retainedValues' = retainedValues - 1
        /\ UNCHANGED modelVars
    BY <1>8 DEF removeValue
  <2>2. QED
    BY <1>0, <2>1, SetFinite, FS_RemoveElement
<1>9. CASE UNCHANGED vars
  BY <1>1, <1>2, <1>9 DEF vars, modelVars, valueVars
<1>10. QED
  BY <1>1, <1>2, <1>3, <1>4, <1>5, <1>6, <1>7, <1>8, <1>9 DEF Next

(* subscriptions/count and messages/retained/count are right.              *)
THEOREM CountersCorrect == Spec => []CountersAgree
<1>1. Init => CInv
  <2> SUFFICES ASSUME Init PROVE CInv
    OBVIOUS
  <2>1. ShapeOK
    BY InitStep DEF IInv
  <2>2. {x \in Subscribers \X Leaves : x[1] \in subscriptions[x[2]]} = {}
    BY DEF Init
  <2>3. QED
    BY <2>1, <2>2, FS_EmptySet DEF Init, CInv, CountersAgree
<1>2. IInv => ShapeOK
  BY DEF IInv
<1>3. CInv => CountersAgree
  BY DEF CInv
<1>4. QED
  BY <1>1, <1>2, <1>3, CountersStep, Invariance, PTL DEF Spec

-----------------------------------------------------------------------------
(***************************************************************************)
(* The log.  LogInv is its inductive invariant.                            *)
(***************************************************************************)

Line == Seq(Texts)

LogTypeOK ==
    /\ lineString \in Line
    /\ lineIsDebug \in BOOLEAN
    /\ logging \in BOOLEAN
    /\ logLeaves \in [1 .. logDepth -> Line]
    /\ logPosition \in 0 .. logDepth
    /\ pos \in 0 .. logDepth
    /\ statements \in [texts : Line, debug : BOOLEAN]
    /\ lines \in Seq(Line)

(* The line under construction is what was said since the last eol, unless *)
(* something in it was debug.                                              *)
LineOK ==
    /\ lineIsDebug = statements.debug
    /\ ~logging /\ ~statements.debug => lineString = Clipped(statements.texts)
    /\ logging => statements = [texts |-> <<>>, debug |-> FALSE]

LeavesTell(n) ==
    \A i \in 1 .. logDepth : logLeaves[i] = IF i <= n THEN lines[i] ELSE Unset

(* The leaves below pos have been scrolled, those from pos on not yet.     *)
Scrolled ==
    /\ logPosition = logDepth /\ Len(lines) = logDepth /\ pos \in 1 .. logDepth
    /\ \A i \in 1 .. logDepth :
          /\ i < pos => logLeaves[i] = lines[i]
          /\ i >= pos /\ i > 1 => logLeaves[i] = lines[i - 1]

Growing ==
    /\ logPosition < logDepth /\ Len(lines) = logPosition + 1 /\ pos = logPosition + 1
    /\ LeavesTell(logPosition)

LeavesOK ==
    /\ ~logging => Len(lines) = logPosition /\ LeavesTell(logPosition)
    /\ logging => /\ lineString = lines[Len(lines)]
                  /\ Scrolled \/ Growing

LogInv == LogTypeOK /\ LineOK /\ LeavesOK

-----------------------------------------------------------------------------
LEMMA LogConstants ==
    logDepth \in Nat \ {0} /\ MAX_LOG_STRING_LENGTH \in Nat \ {0} /\ debugging \in BOOLEAN
BY LoggerAssumption

(* What a string that is full drops makes no difference to what it holds.  *)
LEMMA ClippedLine == ASSUME NEW t \in Line PROVE Clipped(t) \in Line
BY LogConstants, SubSeqProperties, SMT DEF Clipped, Line

LEMMA ClippedAppend ==
    ASSUME NEW t \in Line, NEW x \in Texts
    PROVE  Clipped(Append(Clipped(t), x)) = Clipped(Append(t, x))
<1> DEFINE M == MAX_LOG_STRING_LENGTH
<1>0. M \in Nat /\ t \in Seq(Texts) /\ Len(t) \in Nat
  BY LogConstants DEF Line
<1>1. CASE Len(t) <= M
  <2>1. Clipped(t) = t
    BY <1>0, <1>1, SMT DEF Clipped
  <2> QED
    BY <2>1
<1>2. CASE Len(t) > M
  <2> DEFINE u == SubSeq(t, 1, M)
  <2>1. Clipped(t) = u /\ u \in Seq(Texts) /\ Len(u) = M /\ (\A i \in 1 .. M : u[i] = t[i])
    BY <1>0, <1>2, SMT DEF Clipped
  <2> HIDE DEF u
  <2>2. /\ Append(u, x) \in Seq(Texts) /\ Len(Append(u, x)) = M + 1
        /\ \A i \in 1 .. M : Append(u, x)[i] = u[i]
    BY <1>0, <2>1, AppendProperties, SMT
  <2>3. /\ Append(t, x) \in Seq(Texts) /\ Len(Append(t, x)) = Len(t) + 1
        /\ \A i \in 1 .. Len(t) : Append(t, x)[i] = t[i]
    BY <1>0, AppendProperties, SMT
  <2>4. Clipped(Append(u, x)) = SubSeq(Append(u, x), 1, M)
    BY <1>0, <2>2, SMT DEF Clipped
  <2>5. Clipped(Append(t, x)) = SubSeq(Append(t, x), 1, M)
    BY <1>0, <1>2, <2>3, SMT DEF Clipped
  <2> DEFINE a == SubSeq(Append(u, x), 1, M)
             b == SubSeq(Append(t, x), 1, M)
  <2>6. a \in Seq(Texts) /\ Len(a) = M /\ (\A i \in 1 .. M : a[i] = Append(u, x)[i])
    BY <1>0, <2>2, SMT
  <2>7. b \in Seq(Texts) /\ Len(b) = M /\ (\A i \in 1 .. M : b[i] = Append(t, x)[i])
    BY <1>0, <1>2, <2>3, SMT
  <2> HIDE DEF a, b
  <2>8. \A i \in 1 .. M : a[i] = b[i]
    <3> TAKE i \in 1 .. M
    <3>1. i \in 1 .. Len(t)
      BY <1>0, <1>2, SMT
    <3> QED
      BY <3>1, <2>1, <2>2, <2>3, <2>6, <2>7
  <2>9. a = b
    BY <2>6, <2>7, <2>8, SeqEqual
  <2> QED
    BY <2>1, <2>4, <2>5, <2>9 DEF a, b
<1> QED
  BY <1>0, <1>1, <1>2, SMT

(* The leaves and the lines as they stand: what the property says.         *)
LEMMA ToldByLogInv == ASSUME LogInv PROVE LogTellsLastLines
<1> SUFFICES ASSUME ~logging
             PROVE  logLeaves = [i \in 1 .. logDepth |-> IF i <= Len(lines) THEN lines[i] ELSE Unset]
  BY DEF LogTellsLastLines
<1>1. logLeaves \in [1 .. logDepth -> Line]
  BY DEF LogInv, LogTypeOK
<1>2. \A i \in 1 .. logDepth : logLeaves[i] = IF i <= Len(lines) THEN lines[i] ELSE Unset
  BY DEF LogInv, LeavesOK, LeavesTell
<1> QED
  BY <1>1, <1>2

LEMMA InitLogInv == ASSUME LogInit PROVE LogInv
<1>0. <<>> \in Line /\ <<>> \in Seq(Line)
  BY EmptySeq DEF Line
<1>a. statements = [texts |-> <<>>, debug |-> FALSE] /\ lineIsDebug = FALSE /\ lineString = <<>>
  BY DEF LogInit
<1>1. LogTypeOK
  <2>1. statements \in [texts : Line, debug : BOOLEAN]
    BY <1>0, <1>a
  <2>2. logLeaves \in [1 .. logDepth -> Line]
    BY <1>0 DEF LogInit, Unset
  <2>3. 0 \in 0 .. logDepth
    BY LogConstants, SMT
  <2> QED
    BY <1>0, <2>1, <2>2, <2>3 DEF LogInit, LogTypeOK
<1>2. LineOK
  <2>1. Clipped(<<>>) = <<>>
    BY LogConstants, SMT DEF Clipped
  <2> QED
    BY <1>a, <2>1 DEF LineOK
<1>3. LeavesOK
  BY LogConstants, SMT DEF LogInit, LeavesOK, LeavesTell
<1> QED
  BY <1>1, <1>2, <1>3 DEF LogInv

(* A statement up to its eol keeps a line that is to be logged in step     *)
(* with what was said.                                                     *)
LEMMA WriteType ==
    ASSUME LogTypeOK, NEW text \in Texts, NEW debug \in BOOLEAN, Write(text, debug)
    PROVE  lineString' \in Line /\ lineIsDebug' \in BOOLEAN
<1>1. lineIsDebug' \in BOOLEAN
  BY DEF Write, LogTypeOK
<1>2. Append(lineString, text) \in Line
  BY AppendProperties DEF LogTypeOK, Line
<1>3. Clipped(Append(lineString, text)) \in Line
  BY <1>2, ClippedLine
<1> QED
  BY <1>1, <1>3 DEF Write, LogTypeOK

LEMMA WriteAll ==
    ASSUME LogTypeOK, LineOK, ~logging, NEW text \in Texts, NEW debug \in BOOLEAN,
           Write(text, debug)
    PROVE  /\ lineIsDebug' = (statements.debug \/ debug)
           /\ ~(statements.debug \/ debug) =>
                 lineString' = Clipped(Append(statements.texts, text))
<1>0. statements.texts \in Line /\ statements.debug \in BOOLEAN /\ lineIsDebug \in BOOLEAN
  BY DEF LogTypeOK
<1>1. lineIsDebug' = (lineIsDebug \/ debug)
  BY <1>0 DEF Write, dontLog
<1>2. lineIsDebug = statements.debug
  BY DEF LineOK
<1>3. ASSUME ~(statements.debug \/ debug)
      PROVE  lineString' = Clipped(Append(statements.texts, text))
  <2>1. ~lineIsDebug' /\ lineString = Clipped(statements.texts)
    BY <1>1, <1>2, <1>3 DEF LineOK
  <2>2. lineString' = Clipped(Append(lineString, text))
    BY <2>1 DEF Write, dontLog
  <2> QED
    BY <1>0, <2>1, <2>2, ClippedAppend
<1> QED
  BY <1>1, <1>2, <1>3

(* What a line that is said adds to the last lines.                        *)
Kept(all) == IF Len(all) > logDepth THEN Tail(all) ELSE all

LEMMA LastLinesType ==
    ASSUME lines \in Seq(Line), NEW line \in Line, Len(lines) \in 0 .. logDepth,
           NEW last, last = Kept(Append(lines, line))
    PROVE  /\ last \in Seq(Line)
           /\ Len(lines) < logDepth =>
                 /\ Len(last) = Len(lines) + 1
                 /\ \A i \in 1 .. Len(lines) : last[i] = lines[i]
           /\ Len(lines) = logDepth =>
                 /\ Len(last) = logDepth
                 /\ \A i \in 1 .. logDepth : i > 1 => last[i - 1] = lines[i]
           /\ last[Len(last)] = line
<1> DEFINE n == Len(lines)
           all == Append(lines, line)
<1>0. n \in Nat /\ logDepth \in Nat \ {0} /\ n \in 0 .. logDepth
  BY LogConstants
<1>1. /\ all \in Seq(Line) /\ Len(all) = n + 1
      /\ \A i \in 1 .. n : all[i] = lines[i]
      /\ all[n + 1] = line
  BY AppendProperties
<1>2. CASE n < logDepth
  <2>1. last = all
    BY <1>0, <1>1, <1>2, SMT DEF Kept
  <2> QED
    BY <1>0, <1>1, <1>2, <2>1, SMT
<1>3. CASE n = logDepth
  <2>1. last = Tail(all) /\ all # <<>>
    BY <1>0, <1>1, <1>3, SMT DEF Kept
  <2>2. last \in Seq(Line) /\ Len(last) = n /\ \A i \in 1 .. n : last[i] = all[i + 1]
    BY <1>0, <1>1, <2>1, HeadTailProperties, SMT
  <2>3. last[n] = line
    BY <1>0, <1>1, <1>3, <2>2, SMT
  <2>4. ASSUME NEW i \in 1 .. logDepth, i > 1 PROVE last[i - 1] = lines[i]
    BY <1>0, <1>1, <1>3, <2>2, <2>4, SMT
  <2> QED
    BY <1>0, <1>3, <2>2, <2>3, <2>4
<1> QED
  BY <1>0, <1>2, <1>3, SMT

-----------------------------------------------------------------------------
LEMMA SayOnLogInv ==
    ASSUME LogInv, NEW text \in Texts, NEW debug \in BOOLEAN, SayOn(text, debug)
    PROVE  LogInv'
<1>0. LogTypeOK /\ LineOK /\ LeavesOK /\ ~logging
  BY DEF LogInv, SayOn
<1>u. lines' = lines /\ logging' = logging /\ logLeaves' = logLeaves
      /\ logPosition' = logPosition /\ pos' = pos
  BY DEF SayOn, leafVars
<1>s. statements' = [texts |-> Append(statements.texts, text),
                     debug |-> statements.debug \/ debug]
  BY DEF SayOn, Said
<1>t. statements.texts \in Line /\ statements.debug \in BOOLEAN
  BY <1>0 DEF LogTypeOK
<1>w. Write(text, debug)
  BY DEF SayOn
<1>1. LogTypeOK'
  <2>1. lineString' \in Line /\ lineIsDebug' \in BOOLEAN
    BY <1>0, <1>w, WriteType
  <2>2. Append(statements.texts, text) \in Line
    BY <1>t, AppendProperties DEF Line
  <2>3. statements' \in [texts : Line, debug : BOOLEAN]
    BY <1>s, <1>t, <2>2
  <2> QED
    BY <1>0, <1>u, <2>1, <2>3 DEF LogTypeOK
<1>2. LineOK'
  BY <1>0, <1>u, <1>w, <1>s, WriteAll DEF LineOK, Clipped
<1>3. LeavesOK'
  BY <1>0, <1>u DEF LeavesOK, LeavesTell
<1> QED
  BY <1>1, <1>2, <1>3 DEF LogInv

LEMMA SayLogInv ==
    ASSUME LogInv, NEW text \in Texts, NEW debug \in BOOLEAN, Say(text, debug)
    PROVE  LogInv'
<1>0. LogTypeOK /\ LineOK /\ LeavesOK /\ ~logging
  BY DEF LogInv, Say
<1>c. logDepth \in Nat \ {0}
  BY LogConstants
<1>t. /\ statements.texts \in Line /\ statements.debug \in BOOLEAN
      /\ lines \in Seq(Line) /\ logPosition \in 0 .. logDepth /\ pos \in 0 .. logDepth
      /\ logLeaves \in [1 .. logDepth -> Line]
  BY <1>0 DEF LogTypeOK
<1>l. lineIsDebug = statements.debug /\ Len(lines) = logPosition /\ LeavesTell(logPosition)
  BY <1>0 DEF LineOK, LeavesOK
<1>u. logLeaves' = logLeaves /\ logPosition' = logPosition
  BY DEF Say
<1>s. statements' = [texts |-> <<>>, debug |-> FALSE]
  BY DEF Say
<1>e. <<>> \in Line /\ Clipped(<<>>) = <<>>
  BY LogConstants, EmptySeq, SMT DEF Line, Clipped
<1>f. statements' \in [texts : Line, debug : BOOLEAN]
  BY <1>s, <1>e
<1> DEFINE line == Clipped(Append(statements.texts, text))
<1>n. Append(statements.texts, text) \in Line /\ line \in Line
  <2>1. Append(statements.texts, text) \in Line
    BY <1>t, AppendProperties DEF Line
  <2> QED
    BY <2>1, ClippedLine
<1>1. CASE statements.debug \/ debug
  <2>1. /\ lineIsDebug' = FALSE /\ lineString' = <<>> /\ logging' = logging /\ pos' = pos
    BY <1>l, <1>1 DEF Say
  <2>2. lines' = lines
    BY <1>1 DEF Say, LastLines, Said
  <2>3. LogTypeOK'
    BY <1>0, <1>u, <1>e, <1>f, <2>1, <2>2 DEF LogTypeOK
  <2>4. LineOK'
    BY <1>s, <1>e, <2>1 DEF LineOK, Clipped
  <2>5. LeavesOK'
    BY <1>0, <1>u, <2>1, <2>2 DEF LeavesOK, LeavesTell
  <2> QED
    BY <2>3, <2>4, <2>5 DEF LogInv
<1>2. CASE ~(statements.debug \/ debug)
  <2>1. /\ Write(text, debug) /\ logging' = TRUE
        /\ pos' = IF logPosition = logDepth THEN 1 ELSE logPosition + 1
    BY <1>l, <1>2 DEF Say
  <2>2. lineString' = line /\ lineIsDebug' = FALSE
    BY <1>0, <1>2, <2>1, WriteAll
  <2> DEFINE last == Kept(Append(lines, line))
  <2>3. lines' = last
    BY <1>2 DEF Say, LastLines, Said, Kept
  <2>4. Len(lines) \in 0 .. logDepth
    BY <1>l, <1>t
  <2>5. /\ last \in Seq(Line)
        /\ Len(lines) < logDepth =>
              /\ Len(last) = Len(lines) + 1
              /\ \A i \in 1 .. Len(lines) : last[i] = lines[i]
        /\ Len(lines) = logDepth =>
              /\ Len(last) = logDepth
              /\ \A i \in 1 .. logDepth : i > 1 => last[i - 1] = lines[i]
        /\ last[Len(last)] = line
    <3> HIDE DEF line
    <3> QED
      BY <1>t, <1>n, <2>4, LastLinesType
  <2> HIDE DEF last, line
  <2>6. LogTypeOK'
    <3>1. pos' \in 0 .. logDepth
      BY <1>c, <1>t, <2>1, SMT
    <3> QED
      BY <1>0, <1>u, <1>f, <1>n, <2>1, <2>2, <2>3, <2>5, <3>1 DEF LogTypeOK
  <2>7. LineOK'
    BY <1>s, <2>1, <2>2 DEF LineOK
  <2>8. CASE logPosition = logDepth
    <3>1. pos' = 1 /\ Len(lines') = logDepth
      BY <1>l, <2>1, <2>3, <2>5, <2>8
    <3>2. ASSUME NEW i \in 1 .. logDepth, i > 1 PROVE logLeaves[i] = lines'[i - 1]
      <4>1. i <= logPosition
        BY <1>c, <2>8, SMT
      <4>2. logLeaves[i] = lines[i]
        BY <1>l, <4>1 DEF LeavesTell
      <4>3. last[i - 1] = lines[i]
        BY <1>l, <2>5, <2>8, <3>2
      <4> QED
        BY <2>3, <4>2, <4>3
    <3>3. Scrolled'
      BY <1>c, <1>u, <2>8, <3>1, <3>2, SMT DEF Scrolled
    <3> QED
      BY <2>1, <2>2, <2>3, <2>5, <2>6, <2>7, <3>3 DEF LogInv, LeavesOK
  <2>9. CASE logPosition # logDepth
    <3>1. logPosition < logDepth
      BY <1>c, <1>t, <2>9, SMT
    <3>2. pos' = logPosition + 1 /\ Len(lines') = logPosition + 1
      BY <1>l, <2>1, <2>3, <2>5, <2>9, <3>1
    <3>3. ASSUME NEW i \in 1 .. logDepth
          PROVE  logLeaves[i] = IF i <= logPosition THEN lines'[i] ELSE Unset
      <4>1. i <= logPosition => i \in 1 .. Len(lines)
        BY <1>c, <1>t, <1>l, SMT
      <4>2. i <= logPosition => last[i] = lines[i]
        BY <1>l, <2>5, <3>1, <4>1
      <4>3. logLeaves[i] = IF i <= logPosition THEN lines[i] ELSE Unset
        BY <1>l DEF LeavesTell
      <4> QED
        BY <2>3, <4>2, <4>3
    <3>4. Growing'
      BY <1>u, <3>1, <3>2, <3>3 DEF Growing, LeavesTell
    <3> QED
      BY <2>1, <2>2, <2>3, <2>5, <2>6, <2>7, <3>4 DEF LogInv, LeavesOK
  <2> QED
    BY <2>8, <2>9
<1> QED
  BY <1>1, <1>2

LEMMA SayMeanwhileLogInv ==
    ASSUME LogInv, NEW text \in Texts, NEW debug \in BOOLEAN, SayMeanwhile(text, debug)
    PROVE  LogInv'
<1>1. logging /\ LogTypeOK /\ LineOK /\ LeavesOK
  BY DEF LogInv, SayMeanwhile
<1>2. lineIsDebug' = lineIsDebug /\ lineString' = lineString
  BY <1>1 DEF SayMeanwhile, Write, dontLog, LogTypeOK
<1>3. UNCHANGED <<statements, lines, logging, logLeaves, logPosition, pos>>
  BY DEF SayMeanwhile, leafVars
<1>4. LogTypeOK'
  BY <1>1, <1>2, <1>3 DEF LogTypeOK
<1>5. LineOK'
  BY <1>1, <1>2, <1>3 DEF LineOK, Clipped
<1>6. LeavesOK'
  BY <1>1, <1>2, <1>3 DEF LeavesOK, LeavesTell, Scrolled, Growing
<1> QED
  BY <1>4, <1>5, <1>6 DEF LogInv

LEMMA ScrollUpLogInv == ASSUME LogInv, ScrollUp PROVE LogInv'
<1>1. logging /\ LogTypeOK /\ LineOK /\ LeavesOK
  BY DEF LogInv, ScrollUp
<1>c. logDepth \in Nat \ {0}
  BY LogConstants
<1>2. /\ UNCHANGED <<lineString, lineIsDebug, statements, lines, logging, logPosition>>
      /\ pos < logDepth /\ pos' = pos + 1
      /\ logLeaves' = [logLeaves EXCEPT ![pos] = logLeaves[pos + 1]]
  BY DEF ScrollUp, lineVars, Scroll
<1>3. Scrolled
  <2>1. ~Growing
    BY <1>c DEF ScrollUp, Growing
  <2> QED
    BY <1>1, <2>1 DEF LeavesOK
<1>4. /\ pos \in 1 .. logDepth /\ logPosition = logDepth /\ Len(lines) = logDepth
      /\ logLeaves \in [1 .. logDepth -> Line]
  BY <1>1, <1>3 DEF Scrolled, LogTypeOK
<1>5. pos + 1 \in 1 .. logDepth /\ pos' \in 1 .. logDepth
  BY <1>c, <1>2, <1>4, SMT
<1>6. logLeaves' \in [1 .. logDepth -> Line]
  BY <1>2, <1>4, <1>5
<1>7. LogTypeOK'
  BY <1>1, <1>2, <1>5, <1>6 DEF LogTypeOK
<1>8. LineOK'
  BY <1>1, <1>2 DEF LineOK, Clipped
<1>9. ASSUME NEW i \in 1 .. logDepth
      PROVE  /\ i < pos' => logLeaves'[i] = lines[i]
             /\ i >= pos' /\ i > 1 => logLeaves'[i] = lines[i - 1]
  <2>1. CASE i = pos
    <3>1. logLeaves'[i] = logLeaves[pos + 1] /\ pos + 1 > 1 /\ pos + 1 >= pos
      BY <1>2, <1>4, <2>1, SMT
    <3>2. logLeaves[pos + 1] = lines[(pos + 1) - 1] /\ (pos + 1) - 1 = pos
      BY <1>3, <1>4, <1>5, <3>1, SMT DEF Scrolled
    <3> QED
      BY <1>2, <1>4, <2>1, <3>1, <3>2, SMT
  <2>2. CASE i # pos
    <3>1. logLeaves'[i] = logLeaves[i]
      BY <1>2, <1>4, <2>2
    <3>2. (i < pos' => i < pos) /\ (i >= pos' => i >= pos)
      BY <1>2, <1>4, <2>2, SMT
    <3> QED
      BY <1>3, <3>1, <3>2 DEF Scrolled
  <2> QED
    BY <2>1, <2>2
<1>10. Scrolled'
  BY <1>2, <1>4, <1>5, <1>9 DEF Scrolled
<1>11. LeavesOK'
  BY <1>1, <1>2, <1>10 DEF LeavesOK
<1> QED
  BY <1>7, <1>8, <1>11 DEF LogInv

LEMMA AddLineLogInv == ASSUME LogInv, AddLine PROVE LogInv'
<1>1. logging /\ LogTypeOK /\ LineOK /\ LeavesOK
  BY DEF LogInv, AddLine
<1>c. logDepth \in Nat \ {0}
  BY LogConstants
<1>2. /\ statements' = statements /\ lines' = lines
      /\ logLeaves' = [logLeaves EXCEPT ![pos] = lineString]
      /\ logPosition' = pos /\ lineIsDebug' = FALSE /\ lineString' = <<>>
      /\ logging' = FALSE /\ pos' = 0
  BY DEF AddLine
<1>t. /\ logLeaves \in [1 .. logDepth -> Line] /\ lineString \in Line
      /\ pos \in 0 .. logDepth /\ logPosition \in 0 .. logDepth
  BY <1>1 DEF LogTypeOK
<1>e. <<>> \in Line
  BY EmptySeq DEF Line
<1>3. /\ pos = Len(lines) /\ pos \in 1 .. logDepth
      /\ \A i \in 1 .. logDepth : i # pos =>
            logLeaves[i] = IF i <= pos THEN lines[i] ELSE Unset
  <2>1. CASE Scrolled
    <3>1. pos = logDepth /\ Len(lines) = logDepth
      BY <1>c, <1>t, <2>1, SMT DEF Scrolled, AddLine
    <3>2. ASSUME NEW i \in 1 .. logDepth, i # pos PROVE i < pos
      BY <1>c, <3>1, <3>2, SMT
    <3>3. \A i \in 1 .. logDepth : i # pos => i <= pos /\ logLeaves[i] = lines[i]
      BY <1>c, <2>1, <3>1, <3>2 DEF Scrolled
    <3> QED
      BY <1>c, <3>1, <3>3, SMT
  <2>2. CASE Growing
    <3>1. /\ pos = Len(lines) /\ pos = logPosition + 1 /\ logPosition < logDepth
          /\ LeavesTell(logPosition)
      BY <2>2 DEF Growing
    <3>2. ASSUME NEW i \in 1 .. logDepth, i # pos PROVE i <= pos <=> i <= logPosition
      BY <1>c, <1>t, <3>1, <3>2, SMT
    <3>3. pos \in 1 .. logDepth
      BY <1>c, <1>t, <3>1, SMT
    <3> QED
      BY <3>1, <3>2, <3>3 DEF LeavesTell
  <2> QED
    BY <1>1, <2>1, <2>2 DEF LeavesOK
<1>4. lineString = lines[pos]
  BY <1>1, <1>3 DEF LeavesOK
<1>5. LogTypeOK'
  <2>1. logLeaves' \in [1 .. logDepth -> Line]
    BY <1>2, <1>t, <1>3
  <2>2. 0 \in 0 .. logDepth
    BY <1>c, SMT
  <2> QED
    BY <1>1, <1>2, <1>t, <1>e, <2>1, <2>2 DEF LogTypeOK
<1>6. LeavesTell(logPosition)'
  <2> SUFFICES ASSUME NEW i \in 1 .. logDepth
               PROVE  logLeaves'[i] = IF i <= pos THEN lines[i] ELSE Unset
    BY <1>2 DEF LeavesTell
  <2> QED
    BY <1>2, <1>t, <1>3, <1>4
<1>7. LineOK'
  <2>1. statements'.debug = FALSE /\ Clipped(statements'.texts) = <<>>
    <3>1. statements' = [texts |-> <<>>, debug |-> FALSE]
      BY <1>1, <1>2 DEF LineOK
    <3>2. Clipped(<<>>) = <<>>
      BY LogConstants, SMT DEF Clipped
    <3> QED
      BY <3>1, <3>2
  <2> QED
    BY <1>2, <2>1 DEF LineOK, Clipped
<1>8. LeavesOK'
  BY <1>2, <1>3, <1>6 DEF LeavesOK
<1> QED
  BY <1>5, <1>7, <1>8 DEF LogInv

LEMMA NextLogInv == ASSUME LogInv, [LogNext]_logVars PROVE LogInv'
<1>1. ASSUME NEW text \in Texts, NEW debug \in BOOLEAN,
             SayOn(text, debug) \/ Say(text, debug) \/ SayMeanwhile(text, debug)
      PROVE  LogInv'
  BY <1>1, SayOnLogInv, SayLogInv, SayMeanwhileLogInv
<1>2. CASE ScrollUp
  BY <1>2, ScrollUpLogInv
<1>3. CASE AddLine
  BY <1>3, AddLineLogInv
<1>4. CASE UNCHANGED logVars
  <2>1. UNCHANGED <<lineString, lineIsDebug, statements, lines, logging, logLeaves,
                    logPosition, pos>>
    BY <1>4 DEF logVars, lineVars, leafVars
  <2> QED
    BY <2>1 DEF LogInv, LogTypeOK, LineOK, Clipped, LeavesOK, LeavesTell, Scrolled, Growing
<1> QED
  BY <1>1, <1>2, <1>3, <1>4 DEF LogNext

(* Whatever is said, debug or not, with eol or without, and whatever the   *)
(* sessions say while a line is published: between two statements the      *)
(* leaves tell the last complete lines in their order, each whole.  For a  *)
(* log of any depth and lines of any length.  Logger.cpp:219.              *)
THEOREM LeavesTellLastLines == LogSpec => []LogTellsLastLines
<1>1. LogInit => LogInv
  BY InitLogInv
<1>2. LogInv /\ [LogNext]_logVars => LogInv'
  BY NextLogInv
<1>3. LogInv => LogTellsLastLines
  BY ToldByLogInv
<1> QED
  BY <1>1, <1>2, <1>3, PTL DEF LogSpec
=============================================================================
