---------------------------- MODULE XKeyEncoder ----------------------------
(***************************************************************************)
(* The byte-level reader and writer of src/bip32/src/enc.rs: trait         *)
(* XKeyEncoder and its implementation BitcoinEncoder<P>.  Every operation  *)
(* is a pure function of its input, so they are operators here; the       *)
(* modules XKeyStream and XKeyBase58 use them as the actions of callers.  *)
(*                                                                         *)
(* A byte buffer is a sequence of 0..255.  A reader is a buffer and a     *)
(* cursor: the number of bytes the &mut &[u8] has already consumed.  The   *)
(* u32 child index is kept as two 16-bit halves, because TLC integers are  *)
(* 32-bit signed and hardened indices reach 2^32 - 1.                      *)
(***************************************************************************)
EXTENDS Naturals, Sequences, FiniteSets, NetworkParams

CONSTANTS
  ChainCodeLen,        \* ChainCode is [u8; 32]
  PrivkeyLen,          \* the scalar array of from_privkey_array, 32
  PubkeyLen,           \* the point array of from_pubkey_array, 33
  OutOfRangeScalars,   \* non-zero scalars the backend rejects (>= order)
  OffCurvePoints       \* 0x02/0x03-prefixed arrays that are not curve points

ASSUME /\ ChainCodeLen \in Nat \ {0}
       /\ PrivkeyLen \in Nat \ {0}
       /\ PubkeyLen = PrivkeyLen + 1

Bytes == 0..255

\* u32 as two 16-bit halves; hardened indices have hi >= 2^15.
U32 == [hi : 0..65535, lo : 0..65535]

(***************************************************************************)
(* The backend adapter (curve::model ScalarDeserialize and                *)
(* PointDeserialize): which arrays from_privkey_array / from_pubkey_array *)
(* accept.  A scalar must be non-zero and below the group order; a point  *)
(* must carry an SEC1 compressed prefix and lie on the curve.             *)
(***************************************************************************)
PrivkeyValid(a) ==
  /\ \E i \in DOMAIN a : a[i] # 0
  /\ a \notin OutOfRangeScalars

PubkeyValid(a) ==
  /\ a[1] \in {2, 3}
  /\ a \notin OffCurvePoints

\* GenericXPriv / GenericXPub: the XKeyInfo fields and the key array.
XKeys(keyLen) ==
  [depth : Bytes, parent : [1..4 -> Bytes], index : U32,
   chain_code : [1..ChainCodeLen -> Bytes], hint : Hints,
   key : [1..keyLen -> Bytes]]

\* The placeholder key of a failed result.
NoKey ==
  [depth |-> 0, parent |-> <<>>, index |-> [hi |-> 0, lo |-> 0],
   chain_code |-> <<>>, hint |-> "Legacy", key |-> <<>>]

(***************************************************************************)
(* Results of the read operations: the key or the error, and the reader's  *)
(* cursor after the call.                                                  *)
(***************************************************************************)
Ok(k, pos) == [tag |-> "ok", err |-> "none", key |-> k, pos |-> pos]
Fail(e, pos) == [tag |-> "err", err |-> e, key |-> NoKey, pos |-> pos]

\* u32::to_be_bytes for values below 2^31 (all version constants).
U32ToBE(x) ==
  <<(x \div 2^24) % 256, (x \div 2^16) % 256, (x \div 2^8) % 256, x % 256>>

\* key.index().to_be_bytes() and u32::from_be_bytes for the child index.
IndexToBE(i) == <<i.hi \div 256, i.hi % 256, i.lo \div 256, i.lo % 256>>
\* Mutant: the index read little-endian (u32::from_le_bytes).
IndexFromLE(b) == [hi |-> b[4] * 256 + b[3], lo |-> b[2] * 256 + b[1]]
IndexFromBE(b) == [hi |-> b[1] * 256 + b[2], lo |-> b[3] * 256 + b[4]]

-----------------------------------------------------------------------------
(***************************************************************************)
(* Writing.                                                                *)
(***************************************************************************)

\* write_key_details: depth, parent fingerprint, index, chain code.
write_key_details(k) ==
  <<k.depth>> \o k.parent \o IndexToBE(k.index) \o k.chain_code

\* Mutant: the Compatibility and SegWit arms of the match swapped.
WriteVersionSwapped(net, kind, hint) ==
  Params[net][kind][CASE hint = "Compatibility" -> "SegWit"
                      [] hint = "SegWit"        -> "Compatibility"
                      [] OTHER                  -> hint]

\* The match on key.hint() in BitcoinEncoder::write_xpriv / write_xpub.
WriteVersion(net, kind, hint) == Params[net][kind][hint]

\* BitcoinEncoder::write_xpriv: version, details, 0x00 padding, scalar.
write_xpriv(net, k) ==
  U32ToBE(WriteVersion(net, "xpriv", k.hint)) \o write_key_details(k)
    \o <<0>> \o k.key

\* BitcoinEncoder::write_xpub: version, details, compressed point.
write_xpub(net, k) ==
  U32ToBE(WriteVersion(net, "xpub", k.hint)) \o write_key_details(k) \o k.key

-----------------------------------------------------------------------------
(***************************************************************************)
(* Reading.  Every read_exact of n bytes fails with UnexpectedEof when    *)
(* fewer than n remain.  What the &[u8] reader then holds depends on the  *)
(* standard library of the build: older ones leave it unchanged, newer    *)
(* ones drain it.  eofDrains names that choice.                           *)
(***************************************************************************)
Avail(buf, pos) == Len(buf) - pos

ReadBytes(buf, pos, n) == SubSeq(buf, pos + 1, pos + n)

Eof(buf, pos, eofDrains) ==
  Fail("UnexpectedEof", IF eofDrains THEN Len(buf) ELSE pos)

\* The cursor offsets where read_depth, read_parent, read_index and
\* read_chain_code end.
DetailEnds == {1, 5, 9, 9 + ChainCodeLen}
DetailsLen == 9 + ChainCodeLen

(***************************************************************************)
(* On a buffer with a < DetailsLen bytes left, one of the four detail     *)
(* reads fails: the cursor stops at the last field boundary the bytes     *)
(* reach.                                                                  *)
(***************************************************************************)
ShortDetailsStop(a) ==
  LET reached == {e \in DetailEnds \cup {0} : e <= a}
  IN  CHOOSE e \in reached : \A f \in reached : f <= e

\* Mutant: the chain code read one byte too long.
KeyAtLongChainCode(buf, pos, hint, key) ==
  [depth      |-> buf[pos + 1],
   parent     |-> ReadBytes(buf, pos + 1, 4),
   index      |-> IndexFromBE(ReadBytes(buf, pos + 5, 4)),
   chain_code |-> ReadBytes(buf, pos + 9, ChainCodeLen + 1),
   hint       |-> hint,
   key        |-> key]

\* The GenericXPriv / GenericXPub built from the detail bytes at the cursor.
KeyAt(buf, pos, hint, key) ==
  [depth      |-> buf[pos + 1],
   parent     |-> ReadBytes(buf, pos + 1, 4),
   index      |-> IndexFromBE(ReadBytes(buf, pos + 5, 4)),
   chain_code |-> ReadBytes(buf, pos + 9, ChainCodeLen),
   hint       |-> hint,
   key        |-> key]

\* Mutant: the cursor reported one byte past the scalar.
read_xpriv_body_overcount(buf, pos, hint, eofDrains) ==
  LET pad == pos + DetailsLen
      end == pad + 2 + PrivkeyLen
  IN  IF Avail(buf, pos) < DetailsLen
      THEN Eof(buf, pos + ShortDetailsStop(Avail(buf, pos)), eofDrains)
      ELSE IF Avail(buf, pad) < 1 THEN Eof(buf, pad, eofDrains)
      ELSE IF buf[pad + 1] # 0 THEN Fail("BadPadding", pad + 1)
      ELSE IF Avail(buf, pad + 1) < PrivkeyLen THEN Eof(buf, pad + 1, eofDrains)
      ELSE LET key == ReadBytes(buf, pad + 1, PrivkeyLen) IN
           IF ~PrivkeyValid(key) THEN Fail("BackendError", end)
           ELSE Ok(KeyAt(buf, pos, hint, key), end)

\* Mutant: the scalar read with read instead of read_exact: a short read
\* leaves the rest of the zeroed buffer in the key.
read_xpriv_body_short(buf, pos, hint, eofDrains) ==
  LET pad == pos + DetailsLen
      end == pad + 1 + PrivkeyLen
      n   == IF Avail(buf, pad + 1) < PrivkeyLen THEN Avail(buf, pad + 1) ELSE PrivkeyLen
  IN  IF Avail(buf, pos) < DetailsLen
      THEN Eof(buf, pos + ShortDetailsStop(Avail(buf, pos)), eofDrains)
      ELSE IF Avail(buf, pad) < 1 THEN Eof(buf, pad, eofDrains)
      ELSE IF buf[pad + 1] # 0 THEN Fail("BadPadding", pad + 1)
      ELSE LET key == ReadBytes(buf, pad + 1, n) \o [i \in 1..PrivkeyLen - n |-> 0] IN
           IF ~PrivkeyValid(key) THEN Fail("BackendError", pad + 1 + n)
           ELSE Ok(KeyAt(buf, pos, hint, key), pad + 1 + n)

\* read_xpriv_body: details, the padding byte, then the scalar.
read_xpriv_body(buf, pos, hint, eofDrains) ==
  LET pad == pos + DetailsLen
      end == pad + 1 + PrivkeyLen
  IN  IF Avail(buf, pos) < DetailsLen
      THEN Eof(buf, pos + ShortDetailsStop(Avail(buf, pos)), eofDrains)
      ELSE IF Avail(buf, pad) < 1 THEN Eof(buf, pad, eofDrains)
      ELSE IF buf[pad + 1] # 0 THEN Fail("BadPadding", pad + 1)
      ELSE IF Avail(buf, pad + 1) < PrivkeyLen THEN Eof(buf, pad + 1, eofDrains)
      ELSE LET key == ReadBytes(buf, pad + 1, PrivkeyLen) IN
           IF ~PrivkeyValid(key) THEN Fail("BackendError", end)
           ELSE Ok(KeyAt(buf, pos, hint, key), end)

\* read_xpub_body: details, then the compressed point.
read_xpub_body(buf, pos, hint, eofDrains) ==
  LET at  == pos + DetailsLen
      end == at + PubkeyLen
  IN  IF Avail(buf, pos) < DetailsLen
      THEN Eof(buf, pos + ShortDetailsStop(Avail(buf, pos)), eofDrains)
      ELSE IF Avail(buf, at) < PubkeyLen THEN Eof(buf, at, eofDrains)
      ELSE LET key == ReadBytes(buf, at, PubkeyLen) IN
           IF ~PubkeyValid(key) THEN Fail("BackendError", end)
           ELSE Ok(KeyAt(buf, pos, hint, key), end)

(***************************************************************************)
(* The version dispatch of read_xpriv / read_xpub: sequential equality    *)
(* tests against the network's constants in the order Legacy,             *)
(* Compatibility, SegWit, the first that matches wins.  Comparing the u32 *)
(* of from_be_bytes with a constant is comparing the bytes with the       *)
(* constant's to_be_bytes.  "none" when nothing matches.                   *)
(***************************************************************************)
HintOrder == <<"Legacy", "Compatibility", "SegWit">>

MatchVersion(net, kind, ver) ==
  LET hits == {i \in 1..3 : U32ToBE(Params[net][kind][HintOrder[i]]) = ver}
  IN  IF hits = {} THEN "none"
      ELSE HintOrder[CHOOSE i \in hits : \A j \in hits : i <= j]

\* BitcoinEncoder::read_xpriv: version dispatch, then the private body.
read_xpriv(net, buf, pos, eofDrains) ==
  IF Avail(buf, pos) < 4 THEN Eof(buf, pos, eofDrains)
  ELSE LET hint == MatchVersion(net, "xpriv", ReadBytes(buf, pos, 4)) IN
       IF hint = "none" THEN Fail("BadXPrivVersionBytes", pos + 4)
       ELSE read_xpriv_body(buf, pos + 4, hint, eofDrains)

\* BitcoinEncoder::read_xpub: version dispatch, then the public body.  The
\* code reports a mismatch with the BadXPrivVersionBytes variant as well.
read_xpub(net, buf, pos, eofDrains) ==
  IF Avail(buf, pos) < 4 THEN Eof(buf, pos, eofDrains)
  ELSE LET hint == MatchVersion(net, "xpub", ReadBytes(buf, pos, 4)) IN
       IF hint = "none" THEN Fail("BadXPrivVersionBytes", pos + 4)
       ELSE read_xpub_body(buf, pos + 4, hint, eofDrains)

\* read_xpriv_without_network: four bytes read and dropped, hint Legacy.
read_xpriv_without_network(buf, pos, eofDrains) ==
  IF Avail(buf, pos) < 4 THEN Eof(buf, pos, eofDrains)
  ELSE read_xpriv_body(buf, pos + 4, "Legacy", eofDrains)

\* read_xpub_without_network: four bytes read and dropped, hint Legacy.
read_xpub_without_network(buf, pos, eofDrains) ==
  IF Avail(buf, pos) < 4 THEN Eof(buf, pos, eofDrains)
  ELSE read_xpub_body(buf, pos + 4, "Legacy", eofDrains)
=============================================================================
