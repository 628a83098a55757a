\* Handlers may outlive the reaper's threshold.
SPECIFICATION Spec
CONSTANTS
    j1 = j1
    j2 = j2
    w1 = w1
    w2 = w2
    NoWorker = NoWorker
    Jobs = {j1}
    Workers = {w1, w2}
    Priority <- MCOneJobPriority
    MaxAttempts = 3
    BatchSize = 2
    MaxConcurrency = 1
    MaxCrashes = 1
    PromptHandlers = FALSE
PROPERTIES
    SucceededIsFinal
