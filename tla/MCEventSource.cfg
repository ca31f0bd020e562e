SPECIFICATION FairSpec
CONSTANTS
    Data = {"a", "b"}
    Ids = {"", "7"}
    Names = {"", "news"}
    Delays = {0, 1000}
    NotDigits = NotDigits
    MaxConnections = 2
    Streams <- Texts
INVARIANTS
    TypeOK
    Lifeline
    ToldOnce
PROPERTIES
    ImplementsEventStream
    LinesAreRead
    LostIsReconnected
