------------------------------ MODULE B58Check ------------------------------
(***************************************************************************)
(* The checksum codec of src/bip32/src/enc.rs: decode_b58_check and       *)
(* encode_b58_check.  The checksum is the first four bytes of Hash256     *)
(* (double SHA-256) of the payload; the hash is a constant operator, so   *)
(* the model is about what the codec does with the digest, not about the *)
(* digest itself.                                                          *)
(***************************************************************************)
EXTENDS Base58

CONSTANT Hash256(_)   \* coins_core::hashes::Hash256::digest

\* digest.as_slice()[..4] copied into a [u8; 4].
Checksum(v) == SubSeq(Hash256(v), 1, 4)

(***************************************************************************)
(* decode_b58_check: bs58 decoding, then `data.len() - 4` on a usize.     *)
(* With fewer than four bytes the subtraction overflows: a debug build    *)
(* panics on it, a release build wraps and the slice `&data[..idx]`       *)
(* panics; both builds end the call in a panic.                           *)
(***************************************************************************)
decode_b58_check(s) ==
  LET dec == B58Decode(s) IN
  IF ~dec.ok THEN [tag |-> "err", err |-> "Base58DecodeError", val |-> <<>>]
  ELSE IF Len(dec.val) < 4
  THEN [tag |-> "panic", err |-> "attempt to subtract with overflow",
        val |-> <<>>]
  ELSE LET idx      == Len(dec.val) - 4
           payload  == SubSeq(dec.val, 1, idx)
           checksum == SubSeq(dec.val, idx + 1, Len(dec.val))
       IN  IF Checksum(payload) # checksum
           THEN [tag |-> "err", err |-> "BadB58Checksum", val |-> <<>>]
           ELSE [tag |-> "ok", err |-> "none", val |-> payload]

\* encode_b58_check: the payload, its checksum, Base58.
encode_b58_check(v) == B58Encode(v \o Checksum(v))
=============================================================================
