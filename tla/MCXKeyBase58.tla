---------------------------- MODULE MCXKeyBase58 ----------------------------
(***************************************************************************)
(* Model values for XKeyBase58.  The chain code and key arrays are two    *)
(* bytes long (three for a point) instead of 32 and 33, so that a frame   *)
(* is 18 bytes and its Base58 text about 30 characters: the layout, the   *)
(* padding byte and the checksum keep their places and widths relative   *)
(* to each other.  Hash256 is replaced by a cheap digest that, like the  *)
(* real one, depends on every byte and on the length of the payload.     *)
(***************************************************************************)
EXTENDS XKeyBase58

RECURSIVE WeightedSum(_, _, _)
WeightedSum(v, m, i) ==
  IF i > Len(v) THEN 0 ELSE v[i] * (i * m + 1) + WeightedSum(v, m, i + 1)

MCHash256(v) ==
  <<WeightedSum(v, 1, 1) % 256, WeightedSum(v, 3, 1) % 256,
    WeightedSum(v, 7, 1) % 256, (Len(v) * 29 + WeightedSum(v, 11, 1)) % 256>>

MCPriv ==
  [depth |-> 1, parent |-> <<222, 173, 190, 239>>,
   index |-> [hi |-> 32768, lo |-> 7], chain_code |-> <<9, 200>>,
   hint |-> "Compatibility", key |-> <<77, 1>>]

MCPub == [MCPriv EXCEPT !.hint = "SegWit", !.key = <<3, 77, 1>>]

MCPrivKeys == {MCPriv}
MCPubKeys == {MCPub}

\* The serialization of MCPriv with its padding byte set to one.
MCBadPadding ==
  LET b == write_xpriv("Main", MCPriv) IN [b EXCEPT ![4 + DetailsLen + 1] = 1]

\* Strings from outside: empty and shorter than a checksum, a character
\* outside the alphabet, an export with its last character changed, a
\* body with trailing data, a bad padding byte, a truncated body, and a
\* scalar the backend rejects.
MCReceived ==
  LET ex == xpriv_to_base58("Main", MCPriv) IN
  { <<>>, <<0>>, <<5, 5>>,
    <<NonAlphabetChar, 5>>,
    [ex EXCEPT ![Len(ex)] = (@ + 1) % 58],
    encode_b58_check(write_xpriv("Main", MCPriv) \o <<0>>),
    encode_b58_check(MCBadPadding),
    encode_b58_check(SubSeq(write_xpriv("Main", MCPriv), 1, 10)),
    encode_b58_check(write_xpriv("Test", [MCPriv EXCEPT !.key = <<0, 0>>])) }
=============================================================================
