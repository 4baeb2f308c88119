\* Reads of a frame the slice writer took only in part.  The slice's
\* capacity stops the first frame inside the version (2 bytes), after the
\* version (4), after the depth (5), inside the index (10), inside the
\* chain code (20), before the padding byte (45) or inside the key (60); a
\* second write then finds the slice full and writes nothing.
CONSTANTS
  ChainCodeLen = 32
  PrivkeyLen = 32
  PubkeyLen = 33
  OutOfRangeScalars = {}
  OffCurvePoints = {}
  PrivKeys <- MCPrivKeys
  PubKeys <- MCPubKeys
  SinkCaps = {2, 4, 5, 10, 20, 45, 60}
  EofDrains = FALSE
  MaxWrites = 2
  MaxReads = 2

SPECIFICATION Spec
INVARIANT TruncatedFrameFails
\* Every behaviour ends when the call bounds are used up; nothing waits.
CHECK_DEADLOCK FALSE
