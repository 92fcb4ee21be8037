SPECIFICATION RjFairSpec
CONSTANTS
    AuthRound = 1
    MaxRetries = 2
    MaxFailures = 2
    StageTimeout = 1
    WaitAfterFail = 2
    RestartOnLogoff = TRUE
    LogoffBeforeStart = FALSE
    IntMax = 99
    MaxAlarms = 3
    Frames <- RjFrames
    PluginStates <- Rjv3Priv
    PluginInits <- Rjv3New
    PluginAlarms <- Rjv3Alarms
    prepare_frame <- packet_plugin_prepare_frame
    on_frame_received <- packet_plugin_on_frame_received
    plugin_alarm <- rjv3_alarm
    DhcpTypes <- TwoDhcpTypes
    MaxDhcpCount = 1
    Heartbeat = 2
    DhcpWait = 1
    ActivePlugins <- PrinterAndRjv3
INVARIANTS KeepAliveGoesOn
CHECK_DEADLOCK FALSE
PROPERTIES FailureLeadsOn NoStageForEver StopEnds SecondAuthSettles
