SPECIFICATION Spec
CONSTANTS
    Subscribers = {s1, s2}
    Leaves <- MCLeaves
    Retained <- MCRetained
    TopicFilters <- MCFilters
    Values = {0, 1}
    Zero = 0
    NoValue = NoValue
    Empty = Empty
SYMMETRY Symmetry
INVARIANTS
    NoLeftoverSubscription
    CountersAgree
    SubscriberUpToDate
