SPECIFICATION PathSpec
CONSTANTS
  None = None
  a1 = a1
  a2 = a2
  Accounts = {a1, a2, a3}
  Requests = {r1}
  PerAccount = 1
  MaxSwitches = 1
  Threshold = 1
  Targets <- AnyOrFirst
  Repairs = FALSE
  Proxies = {x1, x2}
  Dialers = {d1, d2}
  Instances = {i1, i2}
  NoInstance = NoInstance
  MaxRegistered = 1
  Uploaders = {u1, u2}
  o1 = o1
  o2 = o2
  o3 = o3
  Owners = {o1, o2, o3}
  AccountOf <- TwoAccounts
  NoUploader = NoUploader
  UploadLimit = 1
  MaxFiles = 2
  MaxDeletions = 1
  RetryMax = 1
  Alternates = 1
  Pieces = 2
  MaxRounds = 2
  Segments = 3
  CollectRetries = 1
  Restarts = 2
  Speakers = {s1, s2}
  Voices = {v1, v2}
  AnyVoice = AnyVoice
  MaxStrays = 1
INVARIANTS
  PathTypesOK
  CountedOncePerWay CleanupByOwner
  HelpersOwned UploadsFresh
  OneAnswer OneTerminal
  AnswerContinued ParentSettled TurnOfOneSession
  VoiceAsAsked
PROPERTIES PathEnds
CHECK_DEADLOCK FALSE
