SPECIFICATION FairRunSpec
CONSTANTS
  Kinds <- CountAndRun
  RetrySettings <- NoneOrTwo
  Arguments <- AllArguments
  CountError = 2
  MaxCalls = 3
  MaxChanges = 1
INVARIANTS
  RunTypeOK
  CallsInOrder
  LastResponseOfLastAnswered
  UnforcedRunsGrounded
  RunsExplained
PROPERTIES
  MethodsReturn
