---------------------------- MODULE WasmTxBuilder ----------------------------
(***************************************************************************)
(* The transaction builder classes of impl_builders                       *)
(* (src/bitcoins-wasm/src/macros.rs lines 220-325, instantiated for        *)
(* Mainnet, Testnet and Signet in src/bitcoins-wasm/src/builder.rs) and    *)
(* the tx_builder / builder_from_hex entry points of impl_network, called *)
(* from JavaScript.                                                        *)
(*                                                                         *)
(* Every builder method takes self by value.  The wasm-bindgen glue       *)
(* detaches the JS object from its Rust value before the call, so the    *)
(* caller's handle is dead after any call; a successful call returns a    *)
(* new handle.  A Vin, Vout or BitcoinOutpoint argument is taken by value  *)
(* the same way: the glue detaches it as well, before the Rust side checks *)
(* either pointer.  A call on a dead handle throws "null pointer passed to *)
(* rust"; a by-value argument passed with it is lost all the same.        *)
(* The builder itself (bitcoins::builder, not in this repository) is       *)
(* abstracted to the fields the calls set: version, locktime, inputs,      *)
(* outputs, witnesses.                                                     *)
(***************************************************************************)
EXTENDS Naturals, Sequences

CONSTANTS
  Outpoints,        \* BitcoinOutpoint objects the program holds
  U32Args,          \* u32 values passed as version, locktime, sequence
  Values,           \* u64 amounts passed to pay
  Addresses,        \* address strings passed to pay
  ValidAddresses,   \* those string_to_address accepts for this network
  Witnesses,        \* JsValues that deserialize to a witness list
  Malformed,        \* a JsValue that does not
  VinHandles,       \* Vin objects the program holds
  VoutHandles,      \* Vout objects the program holds
  VecItems,         \* their items
  HexStrings,       \* strings passed to from_hex_tx
  HexTx,            \* the transaction a hex string parses to, or NotATx
  NotATx,
  DefaultBuilder,   \* BitcoinTxBuilder::new()
  MaxBuilders       \* bound on builder handles created

VARIABLES
  builders,   \* every builder handle: its value and whether it is live
  args,       \* Vin, Vout, BitcoinOutpoint handles: "live" or "moved"
  txs,        \* the BitcoinTx objects built
  last        \* the latest call: method and outcome

vars == <<builders, args, txs, last>>

\* The JS objects the builder methods take by value besides self.
ArgHandles == VinHandles \cup VoutHandles \cup Outpoints

\* The builder values the calls can produce.
BuilderValues ==
  [version : Nat, locktime : Nat, vin : Seq(Outpoints \X U32Args),
   vout : Seq(Values \X Addresses), witnesses : Seq(Witnesses)]

TypeOK ==
  /\ \A h \in DOMAIN builders :
       builders[h].val \in BuilderValues /\ builders[h].live \in BOOLEAN
  /\ args \in [ArgHandles -> {"live", "moved"}]
  /\ \A t \in DOMAIN txs : txs[t].tx \in BuilderValues
  /\ last.tag \in {"ok", "throw", "trap"}

Init ==
  /\ builders = <<>>
  /\ args = [a \in ArgHandles |-> "live"]
  /\ txs = <<>>
  /\ last = [op |-> "none", tag |-> "ok"]

Live(h) == builders[h].live

Outcome(op, tag) == last' = [op |-> op, tag |-> tag]

\* A new handle for a fresh builder value.
Create(op, val) ==
  /\ Len(builders) < MaxBuilders
  /\ builders' = Append(builders, [val |-> val, live |-> TRUE])
  /\ Outcome(op, "ok")
  /\ UNCHANGED <<args, txs>>

\* self is moved into the call: the caller's handle dies.
Detach(h) == [builders EXCEPT ![h].live = FALSE]

\* The call returned Ok(builder): a new handle for the new value.
Continue(h, op, val) ==
  /\ Len(builders) < MaxBuilders
  /\ builders' = Append(Detach(h), [val |-> val, live |-> TRUE])
  /\ Outcome(op, "ok")

\* The call threw or trapped after self was moved: the builder is dropped.
Drop(h, op, tag) == builders' = Detach(h) /\ Outcome(op, tag)

(***************************************************************************)
(* A method taking self and the JS object a by value: the glue detaches    *)
(* both handles, then the Rust side's from_abi asserts each pointer non-  *)
(* null, self first.  A null one throws with both values already gone.    *)
(***************************************************************************)
MoveIn(h, op, a, val) ==
  /\ args' = [args EXCEPT ![a] = "moved"]
  /\ \/ Live(h) /\ args[a] = "live" /\ Continue(h, op, val)
     \/ (~Live(h) \/ args[a] = "moved") /\ Drop(h, op, "throw")
  /\ UNCHANGED txs

\* new() and the network's tx_builder().
New == Create("new", DefaultBuilder)

\* from_tx(&tx): a builder holding a copy of a built transaction.
FromTx(t) == Create("from", txs[t].tx)

\* Mutant: the parse error swallowed, the failed parse used as the builder.
FromHexTxUnchecked(s) == Create("from", HexTx[s])

\* from_hex_tx and the network's builder_from_hex: the hex may not parse.
FromHexTx(s) ==
  \/ HexTx[s] # NotATx /\ Create("from", HexTx[s])
  \/ HexTx[s] = NotATx /\ Outcome("from_hex_tx", "throw") /\ UNCHANGED <<builders, args, txs>>

Version(h, v) ==
  /\ Live(h)
  /\ Continue(h, "version", [builders[h].val EXCEPT !.version = v])
  /\ UNCHANGED <<args, txs>>

Locktime(h, l) ==
  /\ Live(h)
  /\ Continue(h, "locktime", [builders[h].val EXCEPT !.locktime = l])
  /\ UNCHANGED <<args, txs>>

\* spend(outpoint, sequence): the outpoint object is moved in with self.
Spend(h, o, q) ==
  MoveIn(h, "spend", o, [builders[h].val EXCEPT !.vin = Append(@, <<o, q>>)])

\* pay: string_to_address(address)? runs after self was moved.
Pay(h, val, a) ==
  /\ Live(h)
  /\ \/ a \in ValidAddresses
        /\ Continue(h, "pay", [builders[h].val EXCEPT !.vout = Append(@, <<val, a>>)])
     \/ a \notin ValidAddresses /\ Drop(h, "pay", "throw")
  /\ UNCHANGED <<args, txs>>

\* extend_inputs / extend_outputs: the items the Vin / Vout holds at the call.
Extend(h, op, field, v, items) ==
  MoveIn(h, op, v, [builders[h].val EXCEPT ![field] = @ \o items])

ExtendInputs(h, v) == Extend(h, "extend_inputs", "vin", v, VecItems[v])

ExtendOutputs(h, v) == Extend(h, "extend_outputs", "vout", v, VecItems[v])

\* extend_witnesses: witnesses.into_serde().unwrap() panics on a bad JsValue.
ExtendWitnesses(h, w) ==
  /\ Live(h)
  /\ \/ w # Malformed
        /\ Continue(h, "extend_witnesses",
                    [builders[h].val EXCEPT !.witnesses = Append(@, w)])
     \/ w = Malformed /\ Drop(h, "extend_witnesses", "trap")
  /\ UNCHANGED <<args, txs>>

\* build: consumes the builder and returns the transaction.
Build(h) ==
  /\ Live(h)
  /\ builders' = Detach(h)
  /\ txs' = Append(txs, [tx |-> builders[h].val])
  /\ Outcome("build", "ok")
  /\ UNCHANGED args

\* Any method on a handle whose value was moved away.
UseMoved(h) ==
  /\ ~Live(h)
  /\ Outcome("moved", "throw")
  /\ UNCHANGED <<builders, args, txs>>

Next ==
  \/ New
  \/ \E t \in DOMAIN txs : FromTx(t)
  \/ \E s \in HexStrings : FromHexTx(s)
  \/ \E h \in DOMAIN builders :
       \/ \E n \in U32Args : Version(h, n) \/ Locktime(h, n)
       \/ \E o \in Outpoints, q \in U32Args : Spend(h, o, q)
       \/ \E val \in Values, a \in Addresses : Pay(h, val, a)
       \/ \E v \in VinHandles : ExtendInputs(h, v)
       \/ \E v \in VoutHandles : ExtendOutputs(h, v)
       \/ \E w \in Witnesses \cup {Malformed} : ExtendWitnesses(h, w)
       \/ Build(h)
       \/ UseMoved(h)

Spec == Init /\ [][Next]_vars
=============================================================================
