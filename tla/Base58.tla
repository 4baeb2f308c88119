------------------------------- MODULE Base58 -------------------------------
(***************************************************************************)
(* Base58 with the Bitcoin alphabet, as the bs58 crate computes it for     *)
(* decode_b58_check and encode_b58_check (src/bip32/src/enc.rs lines 16    *)
(* and 42).  The crate is a dependency, not code of this repository; this  *)
(* module states what it does so that the checksum codec is not modelled  *)
(* as the identity.                                                        *)
(*                                                                         *)
(* A string is a sequence of characters; a character is its index in the  *)
(* alphabet "123456789ABCDEFGHJKLMNPQRSTUVWXYZabcdefghijkmnopqrstuvwxyz",  *)
(* so 0 is '1'.  NonAlphabetChar stands for every character outside it.   *)
(***************************************************************************)
EXTENDS Naturals, Sequences, SequencesExt

Digits == 0..57
NonAlphabetChar == 58
Chars == Digits \cup {NonAlphabetChar}

(***************************************************************************)
(* One step of the crate's conversion loop: the little-endian digit        *)
(* buffer acc (base to) times from, plus carry.  Encoding runs it with    *)
(* from = 256 and to = 58 for every input byte, decoding with from = 58    *)
(* and to = 256 for every input character.                                 *)
(***************************************************************************)
RECURSIVE MulAdd(_, _, _, _)
MulAdd(acc, from, carry, to) ==
  IF acc = <<>>
  THEN IF carry = 0 THEN <<>>
       ELSE <<carry % to>> \o MulAdd(<<>>, from, carry \div to, to)
  ELSE LET c == Head(acc) * from + carry
       IN  <<c % to>> \o MulAdd(Tail(acc), from, c \div to, to)

\* The number of leading zero digits (zero bytes, or '1' characters).
RECURSIVE LeadingZeros(_)
LeadingZeros(s) ==
  IF s # <<>> /\ Head(s) = 0 THEN 1 + LeadingZeros(Tail(s)) ELSE 0

\* Base conversion keeping one leading zero per leading zero of the input.
Convert(ds, from, to) ==
  LET le == FoldLeft(LAMBDA acc, d : MulAdd(acc, from, d, to), <<>>, ds)
  IN  [i \in 1..LeadingZeros(ds) |-> 0] \o Reverse(le)

\* bs58::encode(data).into_string()
B58Encode(bytes) == Convert(bytes, 256, 58)

\* bs58::decode(s).into_vec(): an error on a character outside the alphabet.
B58Decode(s) ==
  IF \E i \in DOMAIN s : s[i] = NonAlphabetChar
  THEN [ok |-> FALSE, val |-> <<>>]
  ELSE [ok |-> TRUE, val |-> Convert(s, 58, 256)]
=============================================================================
