SPECIFICATION Spec
CONSTANTS
  None = None
  zero = zero
  m1 = m1
  m2 = m2
  m3 = m3
  chip1 = chip1
  chip2 = chip2
  chip3 = chip3
  ark = ark
  ask = ask
  vcek1 = vcek1
  vcek2 = vcek2
  vcek3 = vcek3
  mock = mock
  foreignTls = foreignTls
  foreignRoot = foreignRoot
  foreignLeaf = foreignLeaf
  rsaKey = rsaKey
  Stranger = stranger
  ZeroMeasurement = zero
  MockKey = mock
  AmdArk = ark
  AmdAsk = ask
  RsaKeys = {rsaKey}
  ForeignKeys = {foreignTls}
  Measurements <- MCMeasurements
  Chips <- MCChips
  P384 <- MCP384
  VcekOf <- MCVcekOf
  Features = {"real-attestation", "gpu-cc"}
  Hosts = {h1}
  Clients = {c1, c2}
  MaxKeys = 2
  ServerArgs <- AmdServerArgs
  Machines <- SwapMachines
  KdsVceks <- Vceks
  KdsBundles <- Bundles
  ClientConfigs <- OneConfig
  ForeignCerts = {}
INVARIANT HardwareSwapRefused
