SPECIFICATION Spec
CONSTANTS
    a = a
    b = b
    m1 = m1
    m2 = m2
    Tabs = {b}
    Owner <- Bob
    Sockets <- BobsPage
    Messages = {m1, m2}
    Author <- ByBob
    Earlier <- OneBefore
    Changes <- Asked
    PageSize = 1
    MaxDrops = 1
    MaxMoves <- BobMoves
INVARIANTS NoDouble SendingIsCarried ThreadAgrees
PROPERTY ImplementsConversation
CHECK_DEADLOCK FALSE
