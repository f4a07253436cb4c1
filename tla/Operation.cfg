SPECIFICATION Spec
CONSTANTS
    Unknown = Unknown
    Temperatures = {1, 2, 3}
    Limits = {2, 3}
    Flows = {0, 1, 2}
    Pressures = {0, 1, 2, 3}
    Ceiling = 2
    MaxVolts = 2
    MaxAmps = 3
    MaxPower = 4
    WiringCeiling = 2
    DefaultVolts = 1
    DefaultAmps = 1
    Controllers = {c1, c2}
    Targets = {0, 1}
    MaxPolls = 2
    Calibrated = {probe, pump}
    Names = {n1, n2}
    MaxRuns = 2
    MaxNotes = 2
    MaxRecords = 3
    Texts = {t1, t2}
    Folders = {folder}
    MaxJobs = 3
    Frames <- MCFrames
    Sharing = {a1, a2, a3}
    Describing = {a1}
    Attempts = 3
    MaxLate = 2
    Values = {0, 1, 2, 3}
    Ordinary = 1
    RawSeconds = 8
    RawLimit = 10
    TrimChunk = 2
    RunLimit = 8
    Pause = 12
    PointLimit = 10
    Periods = {3, 8}
    MaxReadings = 24
    Levels = {0, 1, 2}
    Usual = 1
    SafetyLevel = 2
    Growth = 1
    WarnGap = 2
    Window = 6
    Cooldown = 3
    Hour = 12
    PerHour = 2
    Interval = 5
    OverviewLimit = 6
    MaxSamples = 21
    MaxUnusual = 2
    MaxOdd = 2
    Roles <- MCRoles
    SettingsOf <- MCSettingsOf
    ModeOf <- MCModeOf
    Currents = {"current_setpoint", "current_limit"}
    Switches = {"output_enabled"}
    Before <- MCBefore
    Milli = 2
    Typed <- MCTyped
    Kinds = {"step_size", "step_count"}
    MaxEdits = 4
    SetSteps <- MCSetSteps
    LoopSteps <- MCLoopSteps
    Lists <- MCLists
    Bounds <- MCBounds
    EndSteps <- MCEndSteps
    NoSafeState = {"plate"}
    Flowing = {"bpc"}
    Unreadable = Unreadable
    Nothing = Nothing
INVARIANTS
    
    RecordIsAsShown
PROPERTIES
    StartsWithinLimit
    DoneAsTold
SYMMETRY EqualTexts
VIEW AllButTold
