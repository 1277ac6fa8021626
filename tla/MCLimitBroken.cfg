CONSTANTS
  ann = ann  bob = bob  home = home
  Call = {1, 2, 3, 4, 5}
  Request <- MCRequest
  LoginPerEmailIp = 2
  LoginPerIp = 3
  ForgotPerEmail = 1
  ForgotPerIp = 2
  LoginWindow = 2
  ForgotWindow = 3
SPECIFICATION MCBrokenSpec
PROPERTIES
  LockoutEnds
