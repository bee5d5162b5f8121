SPECIFICATION Spec
CONSTANTS
    Names <- MCNames
    Texts <- MCTexts
    MaxSize = 2
    Servers <- MCServers
    Requests <- MCRequests
    Home <- MCHome
    Menu <- MCMenu
    Backlog = 1
    MaxCrashes = 1
    a = a
    b = b
    t = t
    r1 = r1
    r2 = r2
    s1 = s1
INVARIANT ChangesAreNotified
