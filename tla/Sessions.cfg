SPECIFICATION FairSpec
CONSTANTS
    t1 = t1
    t2 = t2
    q1 = q1
    q2 = q2
    Tabs = {t1, t2}
    Queries = {q1, q2}
    Layouts <- OneTabOrTwo
    MaxLogins = 3
    MaxTokens = 2
    MaxSessions = 1
    MaxFaults <- OneFaultInOneTab
INVARIANTS TypeOK SessionBound StoredLoginWorks
PROPERTIES KeptWhileAlive QueriesEnd
CHECK_DEADLOCK FALSE
