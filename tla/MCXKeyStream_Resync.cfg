\* Violation run: a read that failed on the version leaves the cursor inside the frame.
CONSTANTS
  ChainCodeLen = 32
  PrivkeyLen = 32
  PubkeyLen = 33
  OutOfRangeScalars = {}
  OffCurvePoints = {}
  PrivKeys <- MCLookalikeKeys
  PubKeys <- MCPubKeys
  SinkCaps = {400}
  EofDrains = TRUE
  MaxWrites = 2
  MaxReads = 3

SPECIFICATION Spec

INVARIANT ReadsReturnWrittenKeys
\* Every behaviour ends when the call bounds are used up; nothing waits.
CHECK_DEADLOCK FALSE
