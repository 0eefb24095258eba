SPECIFICATION BootSpec
CONSTANT PollBudget = 300
INVARIANT BootTypeOK
PROPERTIES HostIsHeard SoftwareResetIsLastResort PanicReboots
