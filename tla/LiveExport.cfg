\* Two signals over two bins, the last of which a live export holds back: a signal can appear late,
\* a reading can come for a bin already in the CSV, and one note can be placed, moved and deleted.
\* A run that has ended, with every workbook asked for written, may rest.
SPECIFICATION FairSpec
CONSTANTS
    Worker = Worker
    Holder = Holder
    Nobody = Nobody
    Channels = {current, flow}
    Notes = {note}
    Exporters = {Worker, Holder}
    LastBin = 2
    Lag = 1
    MaxReadings = 2
    MaxNotes = 2
    MaxRequests = 1
    MaxFailures = 1
INVARIANTS
    CacheKnowsCsv
    CompleteIsWhole
    WorkbookIncludesPast
PROPERTIES
    CsvKeepsPromise
    StoppingEnds
CHECK_DEADLOCK FALSE
