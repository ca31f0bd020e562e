SPECIFICATION FairSpec
CONSTANTS
    ChannelNames = {c1}
    MaxOpened = 3
    MaxSent = 1
    MaxListeners = 1
    MaxChannels = 1
    MaxDrift = 1
    MaxInterrupted = 1
INVARIANTS
    TypeOK
    ConnectionsAccounted
    MessagesAccounted
    PeaksAreReal
PROPERTIES
    Pushed
