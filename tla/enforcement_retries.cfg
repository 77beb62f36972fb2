SPECIFICATION RunSpec
CONSTANTS
  Kinds <- CountAndRun
  RetrySettings <- OneOrTwo
  Arguments <- AllArguments
  CountError = 2
  MaxCalls = 3
  MaxChanges = 1
INVARIANTS
  RetriesAsDocumented
