SPECIFICATION Spec
CONSTANTS
    N = 2
    Requeue = TRUE
    MaxCalls = 1
INVARIANTS TypeOK SettlesOnce QuietAtSettle NothingForgotten
    NoSilentRedelivery AbandonedCostsItsOwn
PROPERTIES DeliversAsPromised
