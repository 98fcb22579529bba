SPECIFICATION AxiFairSpec
CONSTANTS
  t1 = t1
  t2 = t2
  t3 = t3
  a1 = a1
  a2 = a2
  Tags = {t1, t2, t3}
  Addrs = {a1, a2}
  Posted <- MCPosted
  Depth = 2
  MaxReads = 3
INVARIANTS
  AnswerMatches
  InStep
PROPERTY ReadAnswered
