--------------------------- MODULE MCWasmPrefixVec ---------------------------
(***************************************************************************)
(* Model values for WasmPrefixVec: JS numbers an index argument can be,    *)
(* including -1 and 2^32, which ToInt32 maps onto u32::MAX and 0.          *)
(***************************************************************************)
EXTENDS WasmPrefixVec

\* A JS number k with -2^31 <= k < 2^31, as wrap * 2^32 + u32.
JsInt(k) ==
  IF k >= 0 THEN [wrap |-> 0, hi |-> k \div 65536, lo |-> k % 65536]
  ELSE [wrap |-> -1, hi |-> 65535 - ((-k - 1) \div 65536),
                     lo |-> 65535 - ((-k - 1) % 65536)]

\* The JS number 2^32 (= 4294967296).
JsTwoPow32 == [wrap |-> 1, hi |-> 0, lo |-> 0]

MCJsIndices == {JsInt(-1), JsInt(0), JsInt(1), JsInt(2), JsTwoPow32}
=============================================================================
