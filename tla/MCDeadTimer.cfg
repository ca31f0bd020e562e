SPECIFICATION FairSpec
CONSTANTS
    ChannelNames = {c1}
    MaxOpened = 2
    MaxSent = 1
    MaxListeners = 1
    MaxChannels = 1
    MaxDrift = 1
    MaxInterrupted = 1
PROPERTIES
    PushedAlways
