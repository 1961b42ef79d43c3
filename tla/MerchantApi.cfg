SPECIFICATION ApiSpec
CONSTANTS
  h1 = h1  h2 = h2  ours = ours  theirs = theirs
  Null = Null
  Handlers = {h1, h2}
  Requests <- ThreeRequests
  Merchants = {ours, theirs}
  Owner <- Owners
  Addresses <- TwoAddresses
  MaxSkew = 1
  MaxTime = 2
SYMMETRY HandlerSymmetry
INVARIANTS ApiTypeOK RepliesAgree
PROPERTY NonceOnce
CHECK_DEADLOCK FALSE
