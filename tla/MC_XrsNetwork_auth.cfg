CONSTANTS
  c1 = c1
  c2 = c2
  c3 = c3
  h1 = h1
  NoOwner = NoOwner
  Conns <- MCConns
  Https <- MCHttps
  Permits = 2
  Bodies <- MCSignedBodies
  Msgs <- MsgKinds
SPECIFICATION NetSpec
PROPERTY SubmitAnswered
\* The stuck task is the behaviour under study: the network stops for good.
CHECK_DEADLOCK FALSE
