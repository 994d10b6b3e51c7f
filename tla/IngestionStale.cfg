INIT IngestionInit
NEXT IngestionNext
CONSTANTS
    IngestionBatch = 2
    MaxEdits = 1
    MaxIngestAttempts = 3
INVARIANT NeverReadsChanged
CHECK_DEADLOCK FALSE
