CONSTANTS
  NPosts = 3
  BlockOf <- MCBlockOf
  MaxBlock = 3
  BatchSize = 2
  Interval = 2
  StartLag = 1
  IndexLag = 1
SPECIFICATION Spec
PROPERTY NoRestartAfterSigterm
CHECK_DEADLOCK FALSE
