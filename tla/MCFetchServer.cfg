CONSTANTS
    HintText = 2
    MaxDigits = 2
    Addresses = {"a1", "a2", "a3"}
    Public = {"a1", "a2"}
    Sites <- MCSites
    MaxLengths = {0, 1, 3, 12}
    Statuses <- MCStatuses
    Denials <- MCDenials
    Grants <- MCGrants
    MaxResult = 15
SPECIFICATION Spec
INVARIANTS
    PagesJoin
    AskedOnlyWhenAllowed
PROPERTIES
    ReaderFinishes
