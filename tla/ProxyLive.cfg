CONSTANTS
  n1 = n1
  n2 = n2
  n3 = n3
  r1 = r1
  r2 = r2
  r3 = r3
  Nodes = {n1, n3}
  Urls <- TwoUrls
  Entrances = {n1}
  Configs = {{n1, n3}}
  Reqs = {r1, r2}
  MaxVersion = 2
  Untagged = {1}
  Conditions = {}
  Dates = {}
  Methods = {"GET"}
  Rules <- RulePerUrl
  Rank <- NearestIsThird
  RequestHeaders <- SomeRequests
  AnswerHeaders <- SomeAnswers
  None = None
SPECIFICATION FairSpec
PROPERTY RequestsReturn StoredIsPermitted
CHECK_DEADLOCK FALSE
