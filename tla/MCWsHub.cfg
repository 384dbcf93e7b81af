SPECIFICATION FairSpec
CONSTANTS
  h1 = h1
  h2 = h2
  s1 = s1
  s2 = s2
  s3 = s3
  a1 = a1
  None = None
  Hubs = {h1, h2}
  Sockets = {s1, s2, s3}
  Addresses = {a1}
  SharedMax = 2
  MaxClients = 2
  MaxPerIp = 2
INVARIANTS HubSound
PROPERTIES KeepsCapacity SilentReaped
