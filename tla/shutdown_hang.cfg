\* A signal, and what the watcher does about the cancelled context.
CONSTANTS
  r1 = r1
  r2 = r2
  NoRequest = NoRequest
  Requests = {r1, r2}
  Symbols <- MCSymbols
  Shapes <- MCShapes
  MaxHits <- MCMaxHits
  Window = 1
  MaxTime = 0
  BootTokens <- MCBootTokens
  EnvTokens <- MCEnvTokens
  Sound <- MCSound
  TokenFiles <- MCTokenFiles
  MaxFaults = 0
  BootAnswers <- MCBootAnswers
  MaxEdits = 0
SPECIFICATION FairSpec
PROPERTIES ShutdownReturns
CHECK_DEADLOCK FALSE
