SPECIFICATION Spec
CONSTANTS
    maxTopicNameLength = 2
    MAX_MQTT_CLIENT_ID_LENGTH = 2
    maxTopicsPerSubscribeMessage = 2
    Rooms = {0, 1, 5, 1000}
    FirstPackets <- MCFirstPackets
    LaterPackets <- MCLaterPackets
    Publications <- MCPublications
    logDepth = 1
    MaxMeanwhile = 1
    MaxSent = 3
INVARIANTS
    ServedAsMeant
    OnlyLogFollowsBrokenAnswer
    CountersMatchStream
CHECK_DEADLOCK FALSE
