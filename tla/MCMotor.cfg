CONSTANTS
  Client = {"main", "tcrt"}
  Main = "main"
  Percent = 4
  Word = 64
  DefaultPeriod = 8
  Speeds = {0, 2, 3}
  Arguments <- MCArguments
  InitSpeed = 2
  Increment = 1
SPECIFICATION Spec
INVARIANTS TypeOK WheelsAsAsked NoProcessNoTurning StatusIsTrue
