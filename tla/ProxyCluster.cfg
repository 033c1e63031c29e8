CONSTANTS
  n1 = n1
  n2 = n2
  n3 = n3
  r1 = r1
  r2 = r2
  r3 = r3
  Nodes = {n1, n2, n3}
  Urls <- OneUrl
  Entrances = {n1, n2}
  Configs = {{n1, n2}, {n1, n2, n3}}
  Reqs = {r1, r2}
  MaxVersion = 3
  Untagged = {2}
  Conditions = {}
  Dates = {}
  Methods = {"GET"}
  Rules <- CachingRule
  Rank <- NearestIsThird
  RequestHeaders <- PlainRequests
  AnswerHeaders <- PlainAnswers
  None = None
SPECIFICATION Spec
SYMMETRY Symmetry
INVARIANT ServedIsCurrent BodyNeedsAccess FailuresAreLogged
PROPERTY ReconfigurationMovesLittle
CHECK_DEADLOCK FALSE
