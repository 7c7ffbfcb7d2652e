SPECIFICATION DirSpec
CONSTANTS
  a1 = a1
  a2 = a2
  t1 = t1
  t2 = t2
  d1 = d1
  d2 = d2
  None = None
  Activities <- Two
  Kind <- PollAndPost
  Tokens <- TwoTokens
  Ids <- TwoIds
  Books <- SomeBooks
  MaxPages = 2
  MaxChanges = 1
PROPERTIES PostsToOwn OwnedIsFound IdIsUnambiguous
