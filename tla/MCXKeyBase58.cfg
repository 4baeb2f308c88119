\* Round trip of exported keys through Base58Check text.
CONSTANTS
  ChainCodeLen = 2
  PrivkeyLen = 2
  PubkeyLen = 3
  OutOfRangeScalars = {}
  OffCurvePoints = {}
  Hash256 <- MCHash256
  PrivKeys <- MCPrivKeys
  PubKeys <- MCPubKeys
  Received <- MCReceived

SPECIFICATION Spec
INVARIANT TypeOK
INVARIANT ImportOfExport
