-------------------------- MODULE MCWasmBuilderVin --------------------------
(***************************************************************************)
(* Model values for WasmBuilderVin: the values of MCWasmTxBuilder, and JS *)
(* indices 0 and 1 for the Vin, so that get(1) on a one-item Vin traps.   *)
(***************************************************************************)
EXTENDS WasmBuilderVin

CONSTANTS o1, vout1, addrMain, hexOk, hexBad

MCVecItems == [v \in {vout1} |-> << <<5, addrMain>> >>]

MCHexTx == [s \in {hexOk, hexBad} |->
              IF s = hexOk
              THEN [version |-> 2, locktime |-> 0, vin |-> << <<o1, 7>> >>,
                    vout |-> <<>>, witnesses |-> <<>>]
              ELSE NotATx]

MCDefaultBuilder ==
  [version |-> 1, locktime |-> 0, vin |-> <<>>, vout |-> <<>>, witnesses |-> <<>>]

MCJsIndices == {[wrap |-> 0, hi |-> 0, lo |-> k] : k \in 0..1}
=============================================================================
