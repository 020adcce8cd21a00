SPECIFICATION Spec
CONSTANTS
    p1 = p1
    p2 = p2
    g1 = g1
    g2 = g2
    one = one
    other = other
    None = None
    Procs <- MCTwoProcesses
    Calls <- MCCalls
    Home <- MCApart
    Accounts <- MCOneAccount
    MaxMints = 2
    MaxAdds = 0
PROPERTIES
    ServesFresh
CHECK_DEADLOCK FALSE
