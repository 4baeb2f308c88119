\* JS calls on the Mainnet and Testnet objects, their Address handles and a
\* Mainnet builder with its Vin, Vout and outpoint arguments.
CONSTANTS
  o1 = o1
  vin1 = vin1
  vout1 = vout1
  addrMain = addrMain
  addrTest = addrTest
  hexOk = hexOk
  hexBad = hexBad
  main = main
  test = test
  scrStd = scrStd
  scrOdd = scrOdd
  Outpoints = {o1}
  U32Args = {0, 7}
  Values = {5}
  Addresses = {addrMain, addrTest}
  Witnesses = {w1}
  Malformed = Malformed
  VinHandles = {vin1}
  VoutHandles = {vout1}
  VecItems <- MCVecItems
  HexStrings = {hexOk, hexBad}
  HexTx <- MCHexTx
  NotATx = NotATx
  DefaultBuilder <- MCDefaultBuilder
  MaxBuilders = 3
  Nets = {main, test}
  Scripts = {scrStd, scrOdd}
  EncodeStr <- MCEncodeStr
  NonStandard = NonStandard
  NetOf <- MCNetOf
  ScriptOf <- MCScriptOf
  BuilderNet = main
  MaxAddrs = 1
SPECIFICATION Spec
INVARIANT TypeOK
