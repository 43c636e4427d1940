\* An upload and any other request through both limiters while TOKEN is reloaded,
\* a scoped token expires, a Redis call fails and the server is told to stop.
CONSTANTS
  r1 = r1
  r2 = r2
  NoRequest = NoRequest
  Requests = {r1, r2}
  Symbols <- MCSymbols
  Shapes <- MCShapes
  MaxHits <- MCMaxHits
  Window = 1
  MaxTime = 1
  BootTokens <- MCBootTokens
  EnvTokens <- MCEnvTokens
  Sound <- MCSound
  TokenFiles <- MCTokenFiles
  MaxFaults = 1
  BootAnswers <- MCBootAnswers
  MaxEdits = 1
SPECIFICATION FairSpec
INVARIANTS
  TypeOK
  EffectsAuthorised
  RefusedOnlyOverLimit
PROPERTIES
  RequestsEnd
  ShutdownEnds
CHECK_DEADLOCK FALSE
