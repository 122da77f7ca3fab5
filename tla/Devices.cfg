CONSTANTS
    N = 3   MaxBytes = 8
    MaxUnread = 2
    Eusart = FALSE   FifoDepth = 2   MaxXfer = 4   Lens = {1, 2}   MaxTaken = 2
    Keys = {1, 2}   Values = {"a", "b", "c"}   NumIndexed = 1   ListSize = 1
    Sums = 4   ShortAddresses = {3}   ExtAddresses = {1, 3, 5}   Entries = 2   PanIds = {0, 1}
    GpHosts = {1, 2}   GpTimeout = 3   GpOffset = 2
    PowerHosts = {1, 2}   Channels = {11, 12}   Limits = {1, 2}   Defaults = {3}
    Strays = {0, 127}   Invalid = 127   DefaultPower = 0   SwitchingSlots = 3
    KeyIds = 3   MaxKey = 2   MaxCounter = 2
    MaxCount = 1   LateAfter = 1
SPECIFICATION DevicesSpec
INVARIANTS DevicesTypeOK CopyStaysInside BytesInOrder SizeIsTaken
           SettingsKept PendingIsTold PowerWithinLimits CountsUpAfterChange MetricsAddUp GpHeldOnce
PROPERTIES AllDelivered BytesRead SpiProcessed GpAnswered
CHECK_DEADLOCK FALSE
