SPECIFICATION ProfilesSpec
CONSTANTS
  Profiles = {"home", "away"}
  Home = "home"
  SdrDevices = {"sdr"}
  NoDevice = "none"
  Inputs = {"default"}
  Outputs = {"default"}
  Servers = {1}
  SomeBenches = {}
  BackendBuilt = {TRUE}
  MostEdits = 4
  MostFailures = 0
  Pages = {"source"}
PROPERTIES
  ReportsStoreNothing
