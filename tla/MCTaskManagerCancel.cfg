CONSTANTS
  urgent = urgent
  stubborn = stubborn
  plain = plain
  NoTask = NoTask
  Tasks <- MCTasks
  Priority <- MCPriority
  MaxRetries <- MCMaxRetries
  Stubborn <- MCStubborn

SPECIFICATION Spec

PROPERTY
  OnlyStopEndsProcessor
