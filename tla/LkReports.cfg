CONSTANTS
  Clients = {c1}
  EventsFail = TRUE
  Instances = {1, 2}
  Rounds = 1
  MayFail = TRUE
SPECIFICATION Spec
INVARIANTS SubscribersKnowStatus RequestUnderWay
PROPERTIES SubscribersLearnLink RequestAnswered
CHECK_DEADLOCK FALSE
