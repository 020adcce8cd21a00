SPECIFICATION FairSpec
CONSTANTS
    p1 = p1
    p2 = p2
    g1 = g1
    g2 = g2
    one = one
    other = other
    None = None
    Procs <- MCOneProcess
    Calls <- MCCalls
    Home <- MCTogether
    Accounts <- MCOneAccount
    MaxMints = 2
    MaxAdds = 1
INVARIANTS
    ExpiryNeverVouches
    PasswordIsLastResort
PROPERTIES
    ServesFresh
    OneMintPerExpiry
    EveryCallReturns
