\* Violation run: strings shorter than a checksum reach decode_b58_check.
CONSTANTS
  ChainCodeLen = 2
  PrivkeyLen = 2
  PubkeyLen = 3
  OutOfRangeScalars = {}
  OffCurvePoints = {}
  Hash256 <- MCHash256
  PrivKeys <- MCPrivKeys
  PubKeys <- MCPubKeys
  Received <- MCReceived

SPECIFICATION Spec

INVARIANT NoPanic
