---------------------------- MODULE MCWasmNetwork ----------------------------
(***************************************************************************)
(* Model values for WasmNetwork: the Mainnet and Testnet objects, one      *)
(* address string of each, a standard script and a non-standard one; the  *)
(* builder side is MCWasmTxBuilder's, for a Mainnet builder.               *)
(***************************************************************************)
EXTENDS WasmNetwork

CONSTANTS o1, vin1, vout1, addrMain, addrTest, hexOk, hexBad,
          main, test, scrStd, scrOdd

MCVecItems == [v \in {vin1, vout1} |->
                 IF v = vin1 THEN << <<o1, 7>> >> ELSE << <<5, addrMain>> >>]

MCHexTx == [s \in {hexOk, hexBad} |->
              IF s = hexOk
              THEN [version |-> 2, locktime |-> 0, vin |-> << <<o1, 0>> >>,
                    vout |-> <<>>, witnesses |-> <<>>]
              ELSE NotATx]

MCDefaultBuilder ==
  [version |-> 1, locktime |-> 0, vin |-> <<>>, vout |-> <<>>, witnesses |-> <<>>]

\* A network's address of the standard script carries its own version info.
MCEncodeStr == [p \in {main, test} \X {scrStd, scrOdd} |->
                  IF p[2] = scrOdd THEN NonStandard
                  ELSE IF p[1] = main THEN addrMain ELSE addrTest]

MCNetOf == [a \in {addrMain, addrTest} |-> IF a = addrMain THEN main ELSE test]

MCScriptOf == [a \in {addrMain, addrTest} |-> scrStd]
=============================================================================
