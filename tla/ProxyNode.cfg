CONSTANTS
  n1 = n1
  n2 = n2
  n3 = n3
  r1 = r1
  r2 = r2
  r3 = r3
  Nodes = {n1}
  Urls <- OneUrl
  Entrances = {n1}
  Configs = {{n1}}
  Reqs = {r1, r2, r3}
  MaxVersion = 3
  Untagged = {2}
  Conditions = {}
  Dates = {2}
  Methods = {"GET", "POST"}
  Rules <- DirectRule
  Rank <- NearestIsThird
  RequestHeaders <- PlainRequests
  AnswerHeaders <- StorableAnswers
  None = None
SPECIFICATION Spec
SYMMETRY Symmetry
INVARIANT TypeOK DirectServesNoOlder BodyNeedsAccess FailuresAreLogged
PROPERTY NoNeedlessFetch StoreNeverRegresses
CHECK_DEADLOCK FALSE
