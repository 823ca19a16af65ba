SPECIFICATION FairSpec
CONSTANTS
    RequestLen = 2
    BodyLens = {0, 2}
    Codes = {"200", "403"}
INVARIANTS DataOnlyAfter200 CloseOpenedOnce CarriesOwnRequest
PROPERTIES ReadIsRespected GateDecides StatPostsAgain
CHECK_DEADLOCK FALSE
