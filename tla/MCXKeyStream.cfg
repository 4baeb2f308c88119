\* Round trip of keys through a slice writer of 216 bytes: two whole frames
\* and the first 60 bytes of a third, which stops 14 bytes into its key.
\* The reader runs on a standard library whose read_exact leaves a &[u8]
\* unchanged on UnexpectedEof (the std of the code's time).
CONSTANTS
  ChainCodeLen = 32
  PrivkeyLen = 32
  PubkeyLen = 33
  OutOfRangeScalars = {}
  OffCurvePoints = {}
  PrivKeys <- MCPrivKeys
  PubKeys <- MCPubKeys
  SinkCaps = {216}
  EofDrains = FALSE
  MaxWrites = 3
  MaxReads = 3

SPECIFICATION Spec
INVARIANT TypeOK
INVARIANT DecodeMatchesWrite
\* Every behaviour ends when the call bounds are used up; nothing waits.
CHECK_DEADLOCK FALSE
