--------------------------- MODULE NetworkParams ---------------------------
(***************************************************************************)
(* The network parameter sets of src/bip32/src/enc.rs: the six u32        *)
(* version constants of trait NetworkParams, and the two instantiations    *)
(* Main and Test that the params! macro declares.  They are process-wide   *)
(* immutable constants, so this module has no variables.                   *)
(***************************************************************************)
EXTENDS Naturals

Networks == {"Main", "Test"}

\* The three serialization variants of primitives::Hint.
Hints == {"Legacy", "Compatibility", "SegWit"}

\* Key types a version constant can tag.
KeyKinds == {"xpriv", "xpub"}

(***************************************************************************)
(* params!(Main {...}) and params!(Test {...}): the version constant of    *)
(* each (key type, hint) pair.  PRIV_VERSION / PUB_VERSION belong to       *)
(* Legacy, BIP49_* to Compatibility and BIP84_* to SegWit, as in the       *)
(* matches of BitcoinEncoder::write_xpriv and write_xpub.                  *)
(***************************************************************************)
Params ==
  [ Main |->
      [ xpriv |-> [Legacy |-> \h0488ADE4, Compatibility |-> \h049d7878,
                   SegWit |-> \h04b2430c],
        xpub  |-> [Legacy |-> \h0488B21E, Compatibility |-> \h049d7cb2,
                   SegWit |-> \h04b24746] ],
    Test |->
      [ xpriv |-> [Legacy |-> \h04358394, Compatibility |-> \h044a4e28,
                   SegWit |-> \h045f18bc],
        xpub  |-> [Legacy |-> \h043587CF, Compatibility |-> \h044a5262,
                   SegWit |-> \h045f1cf6] ] ]

\* Every version constant of every network (used to state distinctness).
AllVersions ==
  { Params[n][t][h] : n \in Networks, t \in KeyKinds, h \in Hints }

\* All twelve constants fit in 31 bits, so TLC integers hold them exactly.
ASSUME \A v \in AllVersions : v <= 2147483647
=============================================================================
