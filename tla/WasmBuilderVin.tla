--------------------------- MODULE WasmBuilderVin ---------------------------
(***************************************************************************)
(* A JS program holding one Vin object (impl_prefix_vec_access, macros.rs *)
(* lines 163-218) and the transaction builders of impl_builders (lines    *)
(* 220-325), which meet in extend_inputs(self, inputs: Vin) (lines         *)
(* 289-294).  The Vin's own methods are those of WasmPrefixVec, the        *)
(* builder's those of WasmTxBuilder; extend_inputs reads the Vin's items   *)
(* and its WasmRefCell.                                                    *)
(*                                                                         *)
(* A struct passed by value goes through wasm-bindgen's from_abi, which    *)
(* takes the object's exclusive borrow once ("make sure no one's          *)
(* borrowing") before moving the value out.  The glue has already          *)
(* detached both JS handles and self was converted first; a refused borrow *)
(* throws, and neither value is given back.                               *)
(***************************************************************************)
EXTENDS Naturals, Sequences

CONSTANTS
  Outpoints, U32Args, Values, Addresses, ValidAddresses, Witnesses,
  Malformed, VoutHandles, VecItems, HexStrings, HexTx, NotATx,
  DefaultBuilder, MaxBuilders,   \* as in WasmTxBuilder
  TheVin,                        \* the program's Vin handle
  JsIndices, MaxLen, MaxLeaked, NoVal   \* as in WasmPrefixVec

VARIABLES
  builders, args, txs, last,   \* the builders' state (WasmTxBuilder)
  vin, vinBorrow, vinRet       \* the Vin object: items, borrow flag, last call

vinVars == <<vin, vinBorrow, vinRet>>
vars == <<builders, args, txs, last, vin, vinBorrow, vinRet>>

\* TxIn values: an outpoint and a sequence number.
VinItems == Outpoints \X U32Args

B == INSTANCE WasmTxBuilder WITH VinHandles <- {TheVin}

V == INSTANCE WasmPrefixVec
       WITH Items <- VinItems, vec <- vin, borrow <- vinBorrow, ret <- vinRet

Init == B!Init /\ V!Init

\* A Vin method on the live handle: WasmPrefixVec's step.
VinMethod ==
  /\ args[TheVin] = "live"
  /\ \/ V!Length \/ V!LenPrefix \/ V!ItemsCall
     \/ \E x \in VinItems : V!Push(x)
     \/ \E n \in JsIndices : V!Get(n) \/ \E x \in VinItems : V!Set(n, x)
  /\ UNCHANGED <<builders, args, txs, last>>

\* new Vin(): the program's variable names a fresh, unborrowed Vin again.
VinNew ==
  /\ V!New
  /\ args' = [args EXCEPT ![TheVin] = "live"]
  /\ UNCHANGED <<builders, txs, last>>

\* A Vin method on the handle after it was moved: null pointer, a throw.
VinNullCall ==
  /\ args[TheVin] = "moved"
  /\ V!Throw("length", V!NoArg)
  /\ UNCHANGED <<builders, args, txs, last>>

(***************************************************************************)
(* extend_inputs(vin): both handles are detached; a null self or a null   *)
(* Vin throws in assert_not_null; a Vin whose borrow is held throws in     *)
(* borrow_mut after self was taken; otherwise the Vin's items at the call *)
(* go into the builder.                                                    *)
(***************************************************************************)
ExtendInputsVin(h) ==
  \/ /\ ~B!Live(h) \/ args[TheVin] = "moved" \/ vinBorrow = 0
     /\ B!Extend(h, "extend_inputs", "vin", TheVin, vin)
     /\ UNCHANGED vinVars
  \/ /\ B!Live(h) /\ args[TheVin] = "live" /\ vinBorrow # 0
     /\ args' = [args EXCEPT ![TheVin] = "moved"]
     /\ B!Drop(h, "extend_inputs", "throw")
     /\ UNCHANGED <<txs, vin, vinBorrow, vinRet>>

\* Every other builder call, as in WasmTxBuilder.
BuilderCall ==
  /\ \/ B!New
     \/ \E t \in DOMAIN txs : B!FromTx(t)
     \/ \E s \in HexStrings : B!FromHexTx(s)
     \/ \E h \in DOMAIN builders :
          \/ \E n \in U32Args : B!Version(h, n) \/ B!Locktime(h, n)
          \/ \E o \in Outpoints, q \in U32Args : B!Spend(h, o, q)
          \/ \E val \in Values, a \in Addresses : B!Pay(h, val, a)
          \/ \E v \in VoutHandles : B!ExtendOutputs(h, v)
          \/ \E w \in Witnesses \cup {Malformed} : B!ExtendWitnesses(h, w)
          \/ B!Build(h)
          \/ B!UseMoved(h)
  /\ UNCHANGED vinVars

Next ==
  \/ BuilderCall
  \/ \E h \in DOMAIN builders : ExtendInputsVin(h)
  \/ VinMethod
  \/ VinNew
  \/ VinNullCall

Spec == Init /\ [][Next]_vars
-----------------------------------------------------------------------------
(***************************************************************************)
(* Properties.                                                             *)
(***************************************************************************)

(***************************************************************************)
(* ExtendWithLiveHandles: extend_inputs called on a live builder with a   *)
(* live Vin ("Extend the vin with several inputs") returns the extended   *)
(* builder; it does not throw away both.                                  *)
(***************************************************************************)
ExtendWithLiveHandles ==
  [][ \A h \in DOMAIN builders :
        (/\ builders[h].live /\ ~builders'[h].live
         /\ args[TheVin] = "live" /\ args'[TheVin] = "moved") => last'.tag = "ok" ]_vars
=============================================================================
