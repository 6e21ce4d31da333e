SPECIFICATION Spec
CONSTANTS
    Relations <- MCRelations
    WAITING_TIERS_MAX = 1
    PREDICATE_CAP = 1
    Profiles <- AllProfiles
    Names <- MCNames
    MaxRequests = 4
    Faults = {"cache_down", "abandon", "dropped", "prepared"}
INVARIANTS ResponsesMatch ReadYourWrites  RunsWhatWasAsked NoRequestStranded
CHECK_DEADLOCK FALSE
