\* Expected violation: extend_inputs on a live builder with a live Vin whose
\* borrow a trapped get left behind throws and loses both.
CONSTANTS
  o1 = o1
  vout1 = vout1
  addrMain = addrMain
  hexOk = hexOk
  hexBad = hexBad
  TheVin = TheVin
  Outpoints = {o1}
  U32Args = {7}
  Values = {5}
  Addresses = {addrMain}
  ValidAddresses = {addrMain}
  Witnesses = {w1}
  Malformed = Malformed
  VoutHandles = {vout1}
  VecItems <- MCVecItems
  HexStrings = {hexOk}
  HexTx <- MCHexTx
  NotATx = NotATx
  DefaultBuilder <- MCDefaultBuilder
  MaxBuilders = 2
  JsIndices <- MCJsIndices
  MaxLen = 1
  MaxLeaked = 1
  NoVal = NoVal
SPECIFICATION Spec
PROPERTY ExtendWithLiveHandles
