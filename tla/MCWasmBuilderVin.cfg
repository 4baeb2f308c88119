\* A Mainnet builder program that also fills, reads and passes on a Vin.
CONSTANTS
  o1 = o1
  vout1 = vout1
  addrMain = addrMain
  hexOk = hexOk
  hexBad = hexBad
  TheVin = TheVin
  Outpoints = {o1}
  U32Args = {7}
  Values = {5}
  Addresses = {addrMain}
  ValidAddresses = {addrMain}
  Witnesses = {w1}
  Malformed = Malformed
  VoutHandles = {vout1}
  VecItems <- MCVecItems
  HexStrings = {hexOk}
  HexTx <- MCHexTx
  NotATx = NotATx
  DefaultBuilder <- MCDefaultBuilder
  MaxBuilders = 2
  JsIndices <- MCJsIndices
  MaxLen = 1
  MaxLeaked = 1
  NoVal = NoVal
SPECIFICATION Spec
PROPERTY VinMovedUnborrowed
