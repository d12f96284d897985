SPECIFICATION LiveSpec
CONSTANTS
    Packets <- HttpPackets
    BodyLength = 2
    Timeout = 2
    MaxPackets = 4
    Opts = {"ECHO", "COMPRESS2", "NEW_ENVIRON"}
    PeerAccepts = {"ECHO", "COMPRESS2", "NEW_ENVIRON"}
    MaxToggles = 3
    MaxAsks = 2
CHECK_DEADLOCK FALSE
INVARIANTS AnsweredOnce QuietAgreement
PROPERTIES NegotiationEnds Closes LinkDeadLeaves EventuallyWhole
