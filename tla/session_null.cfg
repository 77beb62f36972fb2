SPECIFICATION Spec
CONSTANTS
  devices = devices
  users = users
  signup = signup
  Models <- ThreeModels
  Signup = signup
  MaxResets = 2
INVARIANTS
  NullSendsNoCredentials
