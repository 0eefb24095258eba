SPECIFICATION RunSpec
CONSTANTS
  Absent = Absent
  None = None
  HasHe20 = TRUE
  Macs = {"m1", "zero"}
  Channels = {1}
  DefaultChannel = 1
  Networks = {"net"}
  DefaultNetwork = "net"
  Rates = {"mcs0"}
  DefaultRate = "mcs0"
  Protocols = {"lr", "n"}
  DefaultProtocol = "lr"
  CsiFlags = {"legacy", "he"}
  He20Flags = {"he"}
  U16Max = 3
  U32Max = 1999
  DefaultPeriodicity = 1
  DefaultThreshold <- SmallThreshold
  DefaultDecimation = 2
  DefaultPeriod = 20
  ZeroMac = "zero"
  LogModes = {"array-list", "text"}
  BootLogMode = "array-list"
  WifiLines <- RadioLines
  ReportingLines <- RangeReportingLines
  MeasurementLines = {}
  CsiLines <- PresetLines
  IoLines = {}
  OutputLines = {TRUE, FALSE}
  RateLines = {"mcs0"}
  ProtocolLines = {"n"}
  FilterLines <- AllFilterLines
  DeliveryLines <- AllDeliveryLines
  Sessions = {7}
  Epochs = {9}
  LogModeLines = {"text"}
  SessionLines <- AllSessionLines
INVARIANTS ConfigTypeOK LibraryTypeOK RunsLikeAfterBoot QuietRunsLogNothing
PROPERTY FilterCommandsAgree
