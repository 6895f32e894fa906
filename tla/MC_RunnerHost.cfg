\* Two tasks that contend for one permit: one retry, and one fault, whether an
\* unanswered call, a stop, a panic or a crash.
SPECIFICATION Spec
CONSTANTS
    Tasks = 2
    Permits = 1
    MaxRetries = 1
    MaxDeletes = 1
    MaxFaults = 1
INVARIANTS TypeOK RunsHoldPermit OneRunAtATime StartedOncePerReady
PROPERTY OutcomeStands
