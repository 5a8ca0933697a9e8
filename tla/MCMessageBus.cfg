SPECIFICATION FairSpec
CONSTANTS
    Streams = {"inbound", "audio"}
    Checked = {"inbound"}
    Timed = {"audio"}
    Publications = {1, 2, 3}
    stream <- MCStream
    Cap <- MCCap
    Closers = {1, 2}
INVARIANTS
    TypeOK
    NoSendOnClosed
    Accounted
    ClosedIsEmpty
PROPERTIES
    CloseCompletes
    ImplementsMailbox
