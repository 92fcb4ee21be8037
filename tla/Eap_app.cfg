SPECIFICATION Spec
CONSTANTS
    AuthRound = 1
    MaxRetries = 0
    MaxFailures = 3
    StageTimeout = 3
    WaitAfterFail = 4
    RestartOnLogoff = TRUE
    LogoffBeforeStart = TRUE
    IntMax = 99
    MaxAlarms = 4
    Frames <- AllFrames
    PluginStates <- NoPlugin
    PluginInits <- NoPlugin
    PluginAlarms = {}
    prepare_frame <- unchanged
    on_frame_received <- unchanged_by
    plugin_alarm <- unchanged_by
INVARIANTS TypeOK NeverStuck StopLogsOff GivesUp
CHECK_DEADLOCK FALSE
