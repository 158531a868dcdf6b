SPECIFICATION ClientSpec
CONSTANTS
  c1 = c1
  Clients = {c1}
  Handlers <- AllRoutes
  OpTries = 1
  ResultTries = 2
  MaxCrashes = 1
  MaxStarts = 1
PROPERTY RequestsReturn
PROPERTY InterruptAnswered
CHECK_DEADLOCK FALSE
