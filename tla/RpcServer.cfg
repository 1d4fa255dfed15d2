SPECIFICATION FairSpec
CONSTANTS
    Traffic = {"initialize", "work", "unknown", "shutdown", "alien", "cancel", "consult", "answer", "exit"}
    Signals = TRUE
    MaxMessages = 3
INVARIANTS
    TypeOK
    RunningCanBeCancelled
PROPERTIES
    KeepsContract
    EveryRequestAnswered
    AnswersArrive
