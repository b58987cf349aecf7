SPECIFICATION Spec
CONSTANTS
    MaxProposals = 2
    MaxRestarts = 1
INVARIANTS
    TicketsServeTheirOwn
CHECK_DEADLOCK FALSE
