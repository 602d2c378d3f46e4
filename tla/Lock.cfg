\* Two phones, two lock requests each, the agent and the logon tile on one pipe, a
\* crash of the agent and a restart of the service.
SPECIFICATION FairSpec
CONSTANTS
    Client = {c1, c2}
    NoClient = NoClient
    MessageId = {m1, m2}
    NoMessage = NoMessage
    MaxRequests = 3
    MaxCrashes = 1
    MaxRestarts = 1
INVARIANTS NoUnaskedReply SuccessIsBacked LocksWerePassed
PROPERTY DeliveredIsAnswered
CHECK_DEADLOCK FALSE
