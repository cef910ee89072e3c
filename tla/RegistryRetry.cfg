CONSTANTS
    FleetNode = {n1}
    MaxCerts = 2
    RegCall = {r1}
    RegCallsMayFail = TRUE
    AnyCert = TRUE
SPECIFICATION RegistrySpec
INVARIANTS
  RegisteredCanConnect
CHECK_DEADLOCK FALSE
