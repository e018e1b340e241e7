CONSTANTS
    Readings <- BusyReadings
    stress_threshold = 85
    relaxation_threshold = 20
    latency_threshold_ms = 100
    error_rate_weight = 10
    sustained_stress_cycles = 3
    sustained_relaxation_cycles = 2
    FromProcfs = TRUE
    HasWebhook = FALSE
SPECIFICATION FairSpec
PROPERTIES StressIsHeard
