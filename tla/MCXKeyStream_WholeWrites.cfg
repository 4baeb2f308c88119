\* Violation run: a 100-byte slice writer takes the second frame only in part.
CONSTANTS
  ChainCodeLen = 32
  PrivkeyLen = 32
  PubkeyLen = 33
  OutOfRangeScalars = {}
  OffCurvePoints = {}
  PrivKeys <- MCPrivKeys
  PubKeys <- MCPubKeys
  SinkCaps = {100}
  EofDrains = TRUE
  MaxWrites = 2
  MaxReads = 3

SPECIFICATION Spec

INVARIANT WholeWrites
\* Every behaviour ends when the call bounds are used up; nothing waits.
CHECK_DEADLOCK FALSE
