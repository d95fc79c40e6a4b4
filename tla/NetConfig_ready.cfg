CONSTANTS
    d1 = d1
    d2 = d2
    b = b
    r = r
    typedAddr = "t"
    DhcpServers <- MCDhcp
    BootpServers = {b}
    RarpServers = {r}
    Offer <- MCOffer
    Typed = {"t"}
    NoAddress = "none"
    MaxRetries = 2
    MaxCalls = 2
SPECIFICATION NetSpec
INVARIANTS ReadyIsGranted RequestsTheOffer
CHECK_DEADLOCK FALSE
