SPECIFICATION Spec
CHECK_DEADLOCK FALSE
INVARIANTS
    TranscriptKept
    CallsPaired
    ToolsAreTheAgents
    FilesAsWritten
    RecordsSound
    FiresAsScheduled
