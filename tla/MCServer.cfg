SPECIFICATION ServerSpec
CONSTANTS
    Handlers = {h1, h2}
    Ids = {a}
    Passes = {p1, p2}
    Spellings = {"lower", "Capital"}
    NoPass = nopass
    MaxCrashes = 2
    Managers <- ServerManagers
    Needs <- Requires
    AutoSave = 2
    TickLength = 2
    MaxTime = 9
    MaxSignals = 2
    Servers = {"p1", "p2", "p3"}
    MaxFiles = 3
    BlueprintIds = {"orc", "elf"}
    MaxBlueprints = 2
    MaxNodes = 3
    Changing <- Saved
    Backups = TRUE
    MaxChanges = 3
    MaxStops = 2
    Calendars <- ThreeYears
    Weathers <- TwoSkies
    TicksPerHour = 1
    Hours = 2
    SunUp = 1
    SunDown = 2
    Width = 8
    Die = 3
    WaitHours = {1, 2}
    Ludicrous = 1
    MaxStarts = 2
CHECK_DEADLOCK FALSE
INVARIANTS LinesExact WrapRight ServerRight RoundTrip SettingsRight DeniedRight CalendarRight InheritsNearest
PROPERTIES AccountsRight LoadRestores DateInCalendar
