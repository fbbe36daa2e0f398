SPECIFICATION Spec
CONSTANTS
    c1 = c1
    c2 = c2
    c3 = c3
    Connections = {c1, c2, c3}
    Routes <- ServerRoutes
    Prefixes <- UrlPrefixes
    Requests <- MixedClients
    MaxRequests <- FewRequests
INVARIANT PreflightCarriesCors
CHECK_DEADLOCK FALSE
