----------------------------- MODULE WasmNetwork -----------------------------
(***************************************************************************)
(* The network objects of impl_network (src/bitcoins-wasm/src/macros.rs   *)
(* lines 365-407) and the address encoders of impl_encoder (lines          *)
(* 327-363), with the transaction builder a network hands out.  A network  *)
(* delegates its three address methods to its encoder, and tx_builder /    *)
(* builder_from_hex to its builder class (WasmTxBuilder's New and          *)
(* FromHexTx).                                                             *)
(*                                                                         *)
(* An Address is a wasm-bindgen object.  decode_address takes it by value: *)
(* the glue detaches the JS handle before the Rust side runs, so the       *)
(* handle is dead after the call whatever the call returns.  The encoder   *)
(* of bitcoins::enc (not in this repository) is abstracted to what it      *)
(* decides: the network an address string belongs to (NetOf), the script   *)
(* it pays to (ScriptOf), and the address a network gives a standard       *)
(* script (EncodeStr), or NonStandard.                                     *)
(***************************************************************************)
EXTENDS Naturals, Sequences

CONSTANTS
  Outpoints, U32Args, Values, Addresses, Witnesses,
  Malformed, VinHandles, VoutHandles, VecItems, HexStrings, HexTx, NotATx,
  DefaultBuilder, MaxBuilders,   \* as in WasmTxBuilder
  Nets,         \* the network objects, each with its own encoder
  Scripts,      \* byte strings passed to encode_address
  EncodeStr,    \* [Nets \X Scripts -> Addresses \cup {NonStandard}]
  NonStandard,
  NetOf,        \* [Addresses -> Nets]: whose version info a string carries
  ScriptOf,     \* [Addresses -> Scripts]: the script an address pays to
  BuilderNet,   \* the network whose builder class the program uses
  MaxAddrs      \* bound on Address handles created

VARIABLES
  builders, args, txs, last,   \* the builders' state (WasmTxBuilder)
  addrs        \* Address handles: string, creating network, live, decode

vars == <<builders, args, txs, last, addrs>>

\* impl_builders!($builder, $enc): pay's string_to_address is the encoder
\* of the builder's network.
B == INSTANCE WasmTxBuilder
       WITH ValidAddresses <- {a \in Addresses : NetOf[a] = BuilderNet}

\* No decode_address has consumed the handle yet.
NotDecoded == [by |-> NonStandard, tag |-> "none", val |-> NonStandard]

TypeOK ==
  /\ B!TypeOK
  /\ \A i \in DOMAIN addrs :
       /\ addrs[i].str \in Addresses /\ addrs[i].net \in Nets
       /\ addrs[i].live \in BOOLEAN
       /\ addrs[i].dec \in {NotDecoded} \cup
                           [by : Nets, tag : {"ok", "throw"}, val : Scripts \cup {NonStandard}]

Init == B!Init /\ addrs = <<>>

\* Ok(Address::from(a)): a new live handle, made by network n.
NewAddress(n, op, a) ==
  /\ Len(addrs) < MaxAddrs
  /\ addrs' = Append(addrs, [str |-> a, net |-> n, live |-> TRUE, dec |-> NotDecoded])
  /\ B!Outcome(op, "ok")

Throw(op) == B!Outcome(op, "throw") /\ UNCHANGED addrs

\* Encoder e's encode_address(s): Err for a non-standard script.
EncodeAddress(n, e, s) ==
  /\ \/ EncodeStr[e, s] # NonStandard /\ NewAddress(n, "encode_address", EncodeStr[e, s])
     \/ EncodeStr[e, s] = NonStandard /\ Throw("encode_address")
  /\ UNCHANGED <<builders, args, txs>>

\* Encoder e's string_to_address(s): Err unless s carries e's version info.
StringToAddress(n, e, s) ==
  /\ \/ NetOf[s] = e /\ NewAddress(n, "string_to_address", s)
     \/ NetOf[s] # e /\ Throw("string_to_address")
  /\ UNCHANGED <<builders, args, txs>>

(***************************************************************************)
(* Encoder e's decode_address(addr): the handle is detached first; a null  *)
(* one throws; otherwise the address is decoded, an error (another        *)
(* network's version info) returned with the Address already gone.        *)
(***************************************************************************)
DecodeAddress(n, e, i) ==
  /\ \/ addrs[i].live
        /\ LET ok == NetOf[addrs[i].str] = e
               r  == [by |-> n, tag |-> IF ok THEN "ok" ELSE "throw",
                      val |-> IF ok THEN ScriptOf[addrs[i].str] ELSE NonStandard]
           IN  /\ addrs' = [addrs EXCEPT ![i].live = FALSE, ![i].dec = r]
               /\ B!Outcome("decode_address", r.tag)
     \/ ~addrs[i].live /\ Throw("decode_address")
  /\ UNCHANGED <<builders, args, txs>>

\* The network object n's methods call n's own encoder.
NetworkEncodeAddress(n, s) == EncodeAddress(n, n, s)
NetworkStringToAddress(n, s) == StringToAddress(n, n, s)
NetworkDecodeAddress(n, i) == DecodeAddress(n, n, i)

\* tx_builder / builder_from_hex, and every builder method, as in WasmTxBuilder.
BuilderCall ==
  /\ \/ B!New
     \/ \E t \in DOMAIN txs : B!FromTx(t)
     \/ \E s \in HexStrings : B!FromHexTx(s)
     \/ \E h \in DOMAIN builders :
          \/ \E x \in U32Args : B!Version(h, x) \/ B!Locktime(h, x)
          \/ \E o \in Outpoints, q \in U32Args : B!Spend(h, o, q)
          \/ \E val \in Values, a \in Addresses : B!Pay(h, val, a)
          \/ \E v \in VinHandles : B!ExtendInputs(h, v)
          \/ \E v \in VoutHandles : B!ExtendOutputs(h, v)
          \/ \E w \in Witnesses \cup {Malformed} : B!ExtendWitnesses(h, w)
          \/ B!Build(h)
          \/ B!UseMoved(h)
  /\ UNCHANGED addrs

Next ==
  \/ BuilderCall
  \/ \E n \in Nets :
       \/ \E s \in Scripts : NetworkEncodeAddress(n, s)
       \/ \E s \in Addresses : NetworkStringToAddress(n, s)
       \/ \E i \in DOMAIN addrs : NetworkDecodeAddress(n, i)

Spec == Init /\ [][Next]_vars
-----------------------------------------------------------------------------
(***************************************************************************)
(* Properties.                                                             *)
(***************************************************************************)

(***************************************************************************)
(* KeepsHandlesOnThrow: a JS caller's builder handle, a Vin, Vout or       *)
(* BitcoinOutpoint it passes along, and an Address it passes to            *)
(* decode_address, stop working only through a call that returned; a call  *)
(* that throws leaves the caller what it had, so that it can fix the       *)
(* argument and go on, as the doc comments ("Throws if the detected        *)
(* version info does not match this network", "Pay an address") lead a    *)
(* caller to expect: decode under the right network after a wrong one.     *)
(***************************************************************************)
KeepsHandlesOnThrow ==
  [][ /\ \A h \in DOMAIN builders :
           (builders[h].live /\ ~builders'[h].live) => last'.tag = "ok"
      /\ \A a \in B!ArgHandles :
           (args[a] = "live" /\ args'[a] = "moved") => last'.tag = "ok"
      /\ \A i \in DOMAIN addrs :
           (addrs[i].live /\ ~addrs'[i].live) => last'.tag = "ok" ]_vars
=============================================================================
