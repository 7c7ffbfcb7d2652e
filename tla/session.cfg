SPECIFICATION FairSpec
CONSTANTS
  a1 = a1
  a2 = a2
  t1 = t1
  t2 = t2
  None = None
  Activities <- Two
  Kind <- PollAndPost
  Tokens <- TwoTokens
INVARIANTS PostsCarryToken ErrorsAreTruthful
PROPERTIES NoNeedlessLogin FailureIsShared CallsEnd
