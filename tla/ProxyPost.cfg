CONSTANTS
  n1 = n1
  n2 = n2
  n3 = n3
  r1 = r1
  r2 = r2
  r3 = r3
  Nodes = {n1}
  Urls <- OneUrl
  Entrances = {n1}
  Configs = {{n1}}
  Reqs = {r1, r2}
  MaxVersion = 1
  Untagged = {}
  Conditions = {}
  Dates = {}
  Methods = {"GET", "POST"}
  Rules <- CachingRule
  Rank <- NearestIsThird
  RequestHeaders <- PlainRequests
  AnswerHeaders <- PlainAnswers
  None = None
SPECIFICATION Spec
INVARIANT NoForeignPrecondition
CHECK_DEADLOCK FALSE
