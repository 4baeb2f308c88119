----------------------------- MODULE XKeyBase58 -----------------------------
(***************************************************************************)
(* Extended keys exported to and imported from Base58Check text with the  *)
(* XKeyEncoder methods xpriv_to_base58, xpub_to_base58, xpriv_from_base58 *)
(* and xpub_from_base58 of src/bip32/src/enc.rs.  A program exports the   *)
(* keys it holds; it imports strings that are either its own exports or   *)
(* strings Received from elsewhere (typed by a user, read from a file).   *)
(***************************************************************************)
EXTENDS XKeyEncoder, B58Check

CONSTANTS
  PrivKeys,     \* GenericXPriv values the program holds
  PubKeys,      \* GenericXPub values the program holds
  Received      \* strings from outside the program

ASSUME /\ PrivKeys \subseteq XKeys(PrivkeyLen)
       /\ PubKeys \subseteq XKeys(PubkeyLen)
       /\ Received \subseteq Seq(Chars)

VARIABLES
  exported,   \* the exports so far: network, key type, key, string
  last        \* the latest import: network, key type, string, result

vars == <<exported, last>>

(***************************************************************************)
(* The four text operations.  The writers write into a Vec<u8>, which     *)
(* accepts every byte, so the to_base58 methods always return Ok.  The    *)
(* from_base58 methods read the decoded payload through a fresh &[u8];    *)
(* what is left of it afterwards is dropped, so the EOF flavour of the    *)
(* reader does not matter.                                                 *)
(***************************************************************************)
xpriv_to_base58(net, k) == encode_b58_check(write_xpriv(net, k))

xpub_to_base58(net, k) == encode_b58_check(write_xpub(net, k))

\* The error of decode_b58_check, passed on by `?`.
B58Failure(data) ==
  [tag |-> data.tag, err |-> data.err, key |-> NoKey, pos |-> 0]

xpriv_from_base58(net, s) ==
  LET data == decode_b58_check(s) IN
  IF data.tag # "ok" THEN B58Failure(data) ELSE read_xpriv(net, data.val, 0, TRUE)

xpub_from_base58(net, s) ==
  LET data == decode_b58_check(s) IN
  IF data.tag # "ok" THEN B58Failure(data) ELSE read_xpub(net, data.val, 0, TRUE)

(***************************************************************************)
(* Every string an import can see: all possible exports and Received.     *)
(* The operations are pure, so their results on these finitely many      *)
(* inputs are tabulated once, as sets of input/output pairs (TLC          *)
(* evaluates constant definitions once); each pair is the operation      *)
(* applied to its input.                                                  *)
(***************************************************************************)
ExportArgs ==
  ({"xpriv"} \X Networks \X PrivKeys) \cup ({"xpub"} \X Networks \X PubKeys)

ExportTable ==
  { [in |-> e, out |-> IF e[1] = "xpriv" THEN xpriv_to_base58(e[2], e[3])
                                         ELSE xpub_to_base58(e[2], e[3])]
    : e \in ExportArgs }

Inputs == {p.out : p \in ExportTable} \cup Received

ImportTable ==
  { [in |-> e, out |-> IF e[1] = "xpriv" THEN xpriv_from_base58(e[2], e[3])
                                         ELSE xpub_from_base58(e[2], e[3])]
    : e \in KeyKinds \X Networks \X Inputs }

Lookup(table, e) == (CHOOSE p \in table : p.in = e).out

NoImport ==
  [net |-> "Main", kind |-> "xpriv", str |-> <<>>,
   res |-> [tag |-> "none", err |-> "none", key |-> NoKey, pos |-> 0]]

Inbox == {e.str : e \in exported} \cup Received

TypeOK ==
  /\ exported \subseteq [net : Networks, kind : KeyKinds,
                         key : PrivKeys \cup PubKeys, str : Inputs]
  /\ last \in [net : Networks, kind : KeyKinds, str : Inputs \cup {<<>>},
               res : [tag : {"none", "ok", "err", "panic"}, err : STRING,
                      key : XKeys(PrivkeyLen) \cup XKeys(PubkeyLen) \cup {NoKey},
                      pos : Nat]]

Init ==
  /\ exported = {}
  /\ last = NoImport

Export(net, kind, k) ==
  /\ exported' = exported \cup
       {[net |-> net, kind |-> kind, key |-> k, str |-> Lookup(ExportTable, <<kind, net, k>>)]}
  /\ UNCHANGED last

XPrivToBase58(net, k) == Export(net, "xpriv", k)

XPubToBase58(net, k) == Export(net, "xpub", k)

Import(net, kind, s) ==
  /\ last' = [net |-> net, kind |-> kind, str |-> s,
              res |-> Lookup(ImportTable, <<kind, net, s>>)]
  /\ UNCHANGED exported

XPrivFromBase58(net, s) == Import(net, "xpriv", s)

XPubFromBase58(net, s) == Import(net, "xpub", s)

Next ==
  \/ \E net \in Networks, k \in PrivKeys : XPrivToBase58(net, k)
  \/ \E net \in Networks, k \in PubKeys : XPubToBase58(net, k)
  \/ \E net \in Networks, s \in Inbox :
        XPrivFromBase58(net, s) \/ XPubFromBase58(net, s)

Spec == Init /\ [][Next]_vars

-----------------------------------------------------------------------------
(***************************************************************************)
(* Properties.                                                             *)
(***************************************************************************)

(***************************************************************************)
(* ImportOfExport: importing a string the program exported succeeds       *)
(* exactly when the import names the key type and network of the export, *)
(* and then returns the exported key, hint included.  A string of the    *)
(* other network or key type is rejected by the version dispatch, never  *)
(* read as a key.  This is the round trip of xpriv_to_base58 and          *)
(* xpriv_from_base58 (and of the xpub pair) through the hint-to-version  *)
(* match, the field layout, the checksum and Base58.                      *)
(***************************************************************************)
ImportOfExport ==
  \A e \in exported :
    last.str = e.str =>
      /\ (last.res.tag = "ok") <=> (last.kind = e.kind /\ last.net = e.net)
      /\ last.res.tag = "ok" => last.res.key = e.key

(***************************************************************************)
(* NoPanic: an import of any string returns Ok or an Err; it never        *)
(* panics.  The spec (4.1) requires decode_b58_check to fail cleanly on   *)
(* input shorter than the checksum.                                        *)
(***************************************************************************)
NoPanic == last.res.tag # "panic"

(***************************************************************************)
(* Canonical: a string that imports as a key is that key's own export,    *)
(* so the 78-byte body of 6 in the spec is the only text form a key has, *)
(* and re-exporting an imported key reproduces the string.                *)
(***************************************************************************)
Canonical ==
  last.res.tag = "ok" =>
    last.str = IF last.kind = "xpriv" THEN xpriv_to_base58(last.net, last.res.key)
                                      ELSE xpub_to_base58(last.net, last.res.key)
=============================================================================
