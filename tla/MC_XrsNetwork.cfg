CONSTANTS
  c1 = c1
  c2 = c2
  c3 = c3
  h1 = h1
  NoOwner = NoOwner
  Conns <- MCConns
  Https <- MCHttps
  Permits = 2
  Bodies <- BodyKinds
  Msgs <- MCMsgsNoValidatorAuth
SPECIFICATION NetSpec
INVARIANT NetTypeOK PermitsAccounted
PROPERTY SubmitAnswered
