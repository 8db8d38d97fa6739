CONSTANTS
    alerts = alerts
    incidents = incidents
    mgmt_audits = mgmt_audits
    None = None
    Streams <- TwoStreams
    MaxTs = 1
    MaxCrashes = 0
SPECIFICATION Spec
INVARIANTS StreamsIndependent
