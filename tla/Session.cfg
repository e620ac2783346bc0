SPECIFICATION FairSpec
CONSTANTS
  ApiKeys <- MCApiKeys
  Seeds <- MCSeeds
  GrantTexts <- MCGrantTexts
  Nobody = "nobody"
  KeyTexts <- MCKeyTexts
  ScopeTexts <- MCScopeTexts
  AmountTexts <- MCAmountTexts
  Deposits <- MCDeposits
  Declared <- MCDeclared
  U128Max = 299
  MAX_DECIMALS = 2
  ED_DECIMAL_OFFSET = 1
  Undeclared = Undeclared
  Member = {1, 2, 3}
  Committee <- MCCommittee
  Quorum <- MCQuorum
  InitialRegistries <- MCRegistries
  env_v1 = env_v1
  tls_v1 = tls_v1
  Tag = {env_v1, tls_v1}
  Unrecorded = Unrecorded
  MaxChanges = 2
  MaxPending = 2
CHECK_DEADLOCK FALSE
INVARIANT TypeOK
INVARIANT NoUnconfirmedMainnet
INVARIANT SignsAsConfigured
INVARIANT KeyTextIsUpstreams
INVARIANT GrantSurvivesTheWire
INVARIANT LocalCheckAgrees
INVARIANT AmountsAreExact
INVARIANT ContactsTheSealingCommittee
INVARIANT QuietRecoverIsAtomic
PROPERTY SessionEnds
