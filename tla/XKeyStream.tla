----------------------------- MODULE XKeyStream -----------------------------
(***************************************************************************)
(* Extended keys written to and read back from std::io streams, as the    *)
(* XKeyEncoder methods of src/bip32/src/enc.rs are called by a program:   *)
(* write_xpriv / write_xpub append to a writer, read_xpriv / read_xpub    *)
(* and their _without_network variants consume a reader.                  *)
(*                                                                         *)
(* The writer is a byte slice of cap bytes (impl Write for &mut [u8]),   *)
(* whose write copies what still fits and returns the count; a cap        *)
(* larger than every write together behaves as a Vec<u8>.  The reader is  *)
(* a &[u8] over the bytes written so far, at cursor pos.  Calls happen one *)
(* at a time in any order the program chooses.                            *)
(***************************************************************************)
EXTENDS XKeyEncoder, SequencesExt

CONSTANTS
  PrivKeys,       \* GenericXPriv values the program holds
  PubKeys,        \* GenericXPub values the program holds
  SinkCaps,       \* capacities the program's slice may have
  EofDrains,      \* whether read_exact drains a &[u8] on UnexpectedEof
  MaxWrites,      \* bound on write calls
  MaxReads        \* bound on read calls

\* Keys a program holds were built by the backend, so their arrays are valid.
ASSUME /\ PrivKeys \subseteq XKeys(PrivkeyLen)
       /\ PubKeys \subseteq XKeys(PubkeyLen)
       /\ \A k \in PrivKeys : PrivkeyValid(k.key)
       /\ \A k \in PubKeys : PubkeyValid(k.key)
       /\ EofDrains \in BOOLEAN

VARIABLES
  cap,      \* the capacity of the writer's slice
  sink,     \* the bytes the writer's slice holds
  writes,   \* every write call: key, kind, network, where it began, Ok(n)
  pos,      \* the reader's cursor in sink
  reads     \* every read call: operation, network, start, bytes there, result

vars == <<cap, sink, writes, pos, reads>>

\* The 78-byte serialization (with the real widths).
FrameLen == 4 + DetailsLen + 1 + PrivkeyLen

ASSUME FrameLen = 4 + DetailsLen + PubkeyLen

ReadOps == {"read_xpriv", "read_xpub",
            "read_xpriv_without_network", "read_xpub_without_network"}

OpKind(op) ==
  IF op \in {"read_xpriv", "read_xpriv_without_network"} THEN "xpriv" ELSE "xpub"

Unversioned(op) ==
  op \in {"read_xpriv_without_network", "read_xpub_without_network"}

TypeOK ==
  /\ cap \in SinkCaps
  /\ sink \in Seq(Bytes) /\ Len(sink) <= cap
  /\ writes \in Seq([kind : KeyKinds, net : Networks,
                     key : PrivKeys \cup PubKeys,
                     start : 0..cap, ret : 0..FrameLen])
  /\ pos \in 0..Len(sink)
  /\ reads \in Seq([op : ReadOps, net : Networks \cup {"any"},
                    start : 0..cap, avail : 0..cap,
                    res : [tag : {"ok", "err"}, err : STRING,
                           key : XKeys(PrivkeyLen) \cup XKeys(PubkeyLen) \cup {NoKey},
                           pos : 0..cap]])

Init ==
  /\ cap \in SinkCaps
  /\ sink = <<>>
  /\ writes = <<>>
  /\ pos = 0
  /\ reads = <<>>

(***************************************************************************)
(* A write of `bytes` to the slice writer.  write_xpriv issues one        *)
(* writer.write per field and sums the counts; each copies what fits, so  *)
(* the fields together leave the longest prefix of the serialization that *)
(* fits, and the call returns Ok(its length).                             *)
(***************************************************************************)
SliceWrite(kind, net, k, bytes) ==
  LET n == IF Len(bytes) <= cap - Len(sink) THEN Len(bytes)
                                            ELSE cap - Len(sink)
  IN  /\ Len(writes) < MaxWrites
      /\ sink' = sink \o SubSeq(bytes, 1, n)
      /\ writes' = Append(writes, [kind |-> kind, net |-> net, key |-> k,
                                   start |-> Len(sink), ret |-> n])
      /\ UNCHANGED <<cap, pos, reads>>

WriteXPriv(net, k) == SliceWrite("xpriv", net, k, write_xpriv(net, k))

WriteXPub(net, k) == SliceWrite("xpub", net, k, write_xpub(net, k))

\* A read call on the &[u8] at the cursor; the cursor moves as the call left it.
Record(op, net, res) ==
  /\ Len(reads) < MaxReads
  /\ pos' = res.pos
  /\ reads' = Append(reads, [op |-> op, net |-> net, start |-> pos,
                             avail |-> Len(sink), res |-> res])
  /\ UNCHANGED <<cap, sink, writes>>

ReadXPriv(net) ==
  Record("read_xpriv", net, read_xpriv(net, sink, pos, EofDrains))

ReadXPub(net) ==
  Record("read_xpub", net, read_xpub(net, sink, pos, EofDrains))

ReadXPrivWithoutNetwork ==
  Record("read_xpriv_without_network", "any",
         read_xpriv_without_network(sink, pos, EofDrains))

ReadXPubWithoutNetwork ==
  Record("read_xpub_without_network", "any",
         read_xpub_without_network(sink, pos, EofDrains))

Next ==
  \/ \E net \in Networks, k \in PrivKeys : WriteXPriv(net, k)
  \/ \E net \in Networks, k \in PubKeys : WriteXPub(net, k)
  \/ \E net \in Networks : ReadXPriv(net) \/ ReadXPub(net)
  \/ ReadXPrivWithoutNetwork
  \/ ReadXPubWithoutNetwork

Spec == Init /\ [][Next]_vars

-----------------------------------------------------------------------------
(***************************************************************************)
(* Properties.                                                             *)
(***************************************************************************)

\* A write that put its whole serialization into the sink.
Complete(w) == w.ret = FrameLen

\* What a read of the frame w must return: the key, with the hint Legacy
\* when the version bytes are skipped.
Expected(w, op) == IF Unversioned(op) THEN [w.key EXCEPT !.hint = "Legacy"]
                                      ELSE w.key

(***************************************************************************)
(* DecodeMatchesWrite: a read that starts where write_xpriv / write_xpub  *)
(* began a complete frame, after that frame was written, succeeds exactly *)
(* when the reader is of the frame's key type and either checks the      *)
(* writer's network or skips the version; it then returns the written key *)
(* (hint Legacy without network) and leaves the reader at the frame's     *)
(* end, ready for the next frame.  This ties the hint-to-version match of *)
(* the writers, the version-to-hint dispatch of the readers, the field    *)
(* layout, the padding byte check and the cursor arithmetic together.     *)
(***************************************************************************)
DecodeMatchesWrite ==
  \A i \in DOMAIN reads, j \in DOMAIN writes :
    LET r == reads[i]
        w == writes[j]
    IN  (Complete(w) /\ r.start = w.start /\ r.avail >= w.start + FrameLen) =>
          /\ (r.res.tag = "ok") <=>
                (OpKind(r.op) = w.kind /\ (Unversioned(r.op) \/ r.net = w.net))
          /\ r.res.tag = "ok" =>
                r.res.key = Expected(w, r.op) /\ r.res.pos = w.start + FrameLen

(***************************************************************************)
(* WholeWrites: write_xpriv and write_xpub return Ok only after the whole  *)
(* serialization reached the writer.  The spec (4.3) gives them no        *)
(* failure path other than the sink refusing writes; the code sums the    *)
(* counts of writer.write instead of using write_all.                     *)
(***************************************************************************)
WholeWrites == \A j \in DOMAIN writes : Complete(writes[j])

(***************************************************************************)
(* ReadsReturnWrittenKeys: every key a read returns is the key some write  *)
(* put at the place the read started.  The spec (7) says there is no     *)
(* partial success: a call either yields a valid key or fails as a whole. *)
(***************************************************************************)
ReadsReturnWrittenKeys ==
  \A i \in DOMAIN reads :
    reads[i].res.tag = "ok" =>
      \E j \in DOMAIN writes :
        /\ writes[j].start = reads[i].start
        /\ reads[i].res.key = Expected(writes[j], reads[i].op)
(***************************************************************************)
(* TruncatedFrameFails: a frame that a full writer took only in part is   *)
(* never read as a key.  A read that starts where such a write began finds *)
(* only the bytes the write left and must fail in one of the read_exact   *)
(* calls of read_xpriv / read_xpub and their bodies, whichever field runs  *)
(* out (enc.rs lines 105-152), not build a key from the bytes there are.  *)
(***************************************************************************)
TruncatedFrameFails ==
  \A i \in DOMAIN reads, j \in DOMAIN writes :
    (~Complete(writes[j]) /\ reads[i].start = writes[j].start) =>
      reads[i].res.tag = "err"
=============================================================================
