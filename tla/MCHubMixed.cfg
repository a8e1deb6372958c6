SPECIFICATION Spec
CONSTANTS
  h1 = h1  m1 = m1  m2 = m2  dev = dev
  i1 = i1  i2 = i2  s1 = s1  s2 = s2
  None = None
  DevToken = DevToken
  Hub <- OneHub
  Image <- OneImage
  Identity <- OneIdentity
  IdentityOf <- OneIdentityOf
  DevImage <- NoImages
  Ssid <- TwoSsids
INVARIANTS EachWriteStartsAPair
