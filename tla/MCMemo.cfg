SPECIFICATION FairSpec
CONSTANTS
  Keys <- MCKeys
  Value <- MCValue
  Hash <- MCHash
  NextCall <- MCNextCall
  Result <- MCResult
  Fn <- MCFn
  MaxCalls = 2
  NoKey <- MCNoKey
  Caller <- MCCaller
INVARIANTS
  TypeOK
  CacheIsSound
  RegistersRestored
PROPERTIES
  CachedCallsAreTransparent
  EveryCallReturns
