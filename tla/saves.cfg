CONSTANTS
    alerts = alerts
    incidents = incidents
    mgmt_audits = mgmt_audits
    None = None
    Streams <- TwoStreams
    MaxTs = 3
    MaxCrashes = 1
SPECIFICATION FairSpec
INVARIANTS IInv FileWhole SavedStaysSaved
PROPERTIES NoRollback SavesEnd
