SPECIFICATION Spec
CHECK_DEADLOCK FALSE
CONSTANTS
    Entities = {"e1", "e2"}
    Writer = writer
    Null = Nobody
    Called = {"save_npc", "npc_death", "ready", "http_request"}
    Macros = {"m1"}
    MaxData = 4
    MaxLeak = 1
    Names = {"n1", "n2"}
    Races = {"elf", "orc"}
    Colors <- RaceColors
    Stats = {"str", "int"}
    Base = 1
    RandInc = 1
    TokenInc = 1
    StatMax = 3
    Tokens = 2
    Rolls = 2
    Ids = {"a", "b", "c"}
    Worlds <- Zones
    MaxEdits = 3
    MaxStarts = 2
    k1 = k1
    k2 = k2
    v1 = v1
    NoValue = NoValue
    Off = Off
    Failed = Failed
INVARIANTS ArgsRight FindsTheNth TextKept ProfileRight ExitsRight ZmpRight TableRight StacksAgree MatchRight
PROPERTY ScriptsTidy
