SPECIFICATION MCSpec
CONSTANTS
    SetSteps <- MCSetSteps
    LoopSteps <- MCLoopSteps
    RepeatSteps <- MCRepeatSteps
    MaxRows = 5
    MaxRampPoints = 2
    template = template
    rig = rig
    copy = copy
    Paths = {template, rig, copy}
    Shipped = {template}
    Template <- MCTemplate
    Saved <- MCSaved
    Ports = {"COM1", "COM2"}
    Hosts = {"psu"}
    Addresses = {"A", "B"}
    Controller = "board"
    SensorDriver <- MCSensorDriver
    DeviceIds = {"a", "b"}
    MaxSaves = 2
    Missing = Missing
    Torn = Torn
    None = None
    Files = {s1, s2}
    Maxima = {0, 2, 3}
    Normal = 2
    MaxTicks = 3
    MaxWrites = 2
    Unreadable = Unreadable
    Absent = Absent
SYMMETRY EqualPaths
VIEW AllButBackups
INVARIANTS
    PlanFollowsOutline
    SupplyNeverMisled
    LibraryIsSound
    UsesWhatIsSaved
PROPERTIES
    NothingSavedIsLost
    SettingsAsAgreed
