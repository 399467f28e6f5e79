\* Each service of the host by itself, over one table of three numbers.
SPECIFICATION Spec
CONSTANTS
    p1 = p1
    p2 = p2
    p3 = p3
    Pids = {p1, p2, p3}
    Shell = Shell
    None = None
    Protected = {"system"}
    Usual = "normal"
    Services = {"control", "daemon", "gpu", "sensors"}
    FirstProcs <- FirstProcsDef
    Numbers <- NumbersDef
    MaxBirths <- MaxBirthsDef
    MaxTasks = 1
    Markers = {"malformed", p1}
    MaxCalls = 1
    MaxWaits = 1
    Refreshers = {"worker", "window"}
    Priorities = {"low"}
    UndoLimit = 1
    MaxPolicies = 2
    MaxIncidents = 1
    QueueLimit = 1
    MaxFaults = 2
    MaxSwitches <- MaxSwitchesDef
INVARIANTS RightProcess PolicyAnswersTrue NoStaleReading
PROPERTIES CallsFinish EveryProcessReached ReadingsComeBack HostsFollow
CHECK_DEADLOCK FALSE
