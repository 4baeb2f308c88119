---------------------------- MODULE MCXKeyStream ----------------------------
(***************************************************************************)
(* Model values for XKeyStream: one key of each hint, a hardened and a    *)
(* non-hardened index, a root key, and real field widths (78-byte frames). *)
(***************************************************************************)
EXTENDS XKeyStream

\* A 32-byte chain code and scalar, and a 33-byte compressed point whose
\* x-coordinate is itself a valid scalar (as almost every 32-byte array is).
MCChainCode == [i \in 1..32 |-> (i * 7) % 256]
MCScalar    == [i \in 1..32 |-> (i * 13 + 1) % 256]
MCPoint     == <<2>> \o MCScalar

MCRoot ==
  [depth |-> 0, parent |-> <<0, 0, 0, 0>>, index |-> [hi |-> 0, lo |-> 0],
   chain_code |-> MCChainCode, hint |-> "Legacy", key |-> MCScalar]

MCChild ==
  [depth |-> 5, parent |-> <<222, 173, 190, 239>>,
   index |-> [hi |-> 32768, lo |-> 1], chain_code |-> MCChainCode,
   hint |-> "SegWit", key |-> MCScalar]

MCPrivKeys == {MCRoot, MCChild}

MCPubKeys ==
  {[MCChild EXCEPT !.hint = "Compatibility", !.key = MCPoint]}

(***************************************************************************)
(* A depth-4 key whose parent fingerprint begins 88 B2 1E: its bytes 4..7 *)
(* are the mainnet xpub version 04 88 B2 1E, and the fourth byte of its   *)
(* scalar is 0x02, a compressed-point prefix.  Fingerprints and scalars   *)
(* are hash outputs, so any such bytes occur.                             *)
(***************************************************************************)
MCLookalike ==
  [depth |-> 4, parent |-> <<136, 178, 30, 0>>, index |-> [hi |-> 0, lo |-> 3],
   chain_code |-> MCChainCode, hint |-> "Legacy",
   key |-> [MCScalar EXCEPT ![4] = 2]]

MCLookalikeKeys == {MCLookalike}
=============================================================================
