CONSTANTS
  c1 = c1
  c2 = c2
  Clients <- TwoClients
  Starts <- SomeStarts
  CR = CR
  LF = LF
  SP = SP
  Request = Request
  Hello = Hello
  Quit = Quit
  Other = Other
  Capacity = 2
SPECIFICATION FairSpec
INVARIANTS LinesAreFramed CommandsKeepTheirOrder
PROPERTIES EveryLineIsHandedOver AcceptedIsExecuted QuitClosesConnections
CHECK_DEADLOCK FALSE
