SPECIFICATION FairSpec
CONSTANTS
    s1 = s1  s2 = s2  q1 = q1  q2 = q2
    Servers = {s1, s2}
    Lines = {q1, q2}
    SoleGrant = FALSE
    KnownNamespaces = TRUE
    Scenarios <- MCScenarios
    ConfigsOf <- MCConfigsOf
    MessagesOf <- MCMessagesOf
    MaxOutages <- MCMaxOutages
CHECK_DEADLOCK FALSE
INVARIANTS
    ServersInv
    AnswersAreTrue
    FollowedGuidanceAccepted
    GuidedReadsStayReads
PROPERTIES
    EveryServerSettles
    EveryLineAnswered
