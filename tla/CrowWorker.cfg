SPECIFICATION FairSpec
CONSTANTS
    c1 = c1
    c2 = c2
    c3 = c3
    Connections = {c1, c2, c3}
    Routes <- ServerRoutes
    Prefixes <- UrlPrefixes
    Requests <- MixedClients
    MaxRequests <- FewRequests
INVARIANT TypeOK
INVARIANT AnswersInStep
INVARIANT AnsweredAsRouted
 
 
INVARIANT DeadlineUnlessRobbed
PROPERTY RobbedByTheTimedOut
PROPERTY SilentClientsAreClosed
\* Every connection may be over.
CHECK_DEADLOCK FALSE
