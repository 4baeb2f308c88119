# TLA+ models of the riemann-rs extended-key codec and wasm wrappers

This directory holds TLA+ models of `src/bip32/src/enc.rs`, the BIP32 extended-key
serialization of riemann-rs, and of the JS-facing wrappers of
`src/bitcoins-wasm/src/macros.rs`, together with the TLC configurations that check them.

## The system

| Part | Source | State | Operations |
|---|---|---|---|
| Checksum codec | `enc.rs` 15-43 | none (pure) | `decode_b58_check`, `encode_b58_check` |
| Network parameter sets | `enc.rs` 46-59, 368-390, 483-486 | immutable constants | none |
| Extended-key codec | `enc.rs` 61-365 (trait `XKeyEncoder`), 392-480 (`BitcoinEncoder<P>`) | the caller's `Write` sink and `Read` cursor | `write_key_details`, `write_xpriv`, `write_xpub`, `read_depth`/`read_parent`/`read_index`/`read_chain_code`, `read_xpriv_body`, `read_xpub_body`, `read_xpriv`, `read_xpub`, `read_xpriv_without_network`, `read_xpub_without_network`, `xpriv_to_base58`, `xpub_to_base58`, `xpriv_from_base58`, `xpub_from_base58` |
| Key material and backend adapter | not under `src/` (`primitives.rs`, `xkeys.rs`, `curve`) | none of its own | `from_privkey_array`, `from_pubkey_array` (validity checks) |
| Wasm wrappers | `bitcoins-wasm/src/macros.rs`, `builder.rs` | a wrapped `Vec`, builders and Addresses moved by value | prefix-vector access, builder pass-throughs, encoder and network wrappers |
| Benchmark | `bip32/benches/bench.rs` | none | timing only |

The parts interact like this. A writer picks a version constant from the network's
parameter set by key type and hint. It then writes the 78-byte frame field by field into a
`std::io::Write`. A reader takes four version bytes and matches them against the same
parameter set to recover the hint. It reads the fields with `read_exact`, and the backend
validates the key array. The Base58 methods wrap the stream methods: they write into a
`Vec` and checksum-encode it, or they checksum-decode and read from a `&[u8]`. The code
runs synchronously, and its only state is the caller's stream. So the behaviours that are
hard to test are the following: a long sequence of stream calls on one sink or reader; a
stream call that fails part way through; and inputs at the edges (empty, truncated, too
long, wrong version).

The wasm wrappers are called from JavaScript, one call at a time. Each JS object owns a
Rust value inside wasm-bindgen's `WasmRefCell`. A `&self` or `&mut self` method borrows
that value for the duration of the call. A method that takes `self`, or an argument passed
by value, moves the value out and detaches the JS handle before the call runs. On wasm32 a
panic aborts the instance call, which then traps without running destructors. So the hard
cases are:
- a call that fails after it has already taken a borrow or moved a value;
- JS numbers that are not valid `usize` values.

## Modules

- `NetworkParams`: the twelve version constants, indexed as `Params[net][kind][hint]`.
  - `Main` and `Test` are the two `params!` instances.
- `Base58`: what the `bs58` crate computes.
  - Base conversion is done exactly, one digit per step (`MulAdd`), with one leading `1`
    per leading zero byte.
  - A string is a sequence of alphabet indices; `NonAlphabetChar` stands for every
    character outside the alphabet.
  - The crate is a dependency, so this module is modelled so that the checksum codec is
    not the identity.
- `B58Check`: `decode_b58_check` (lines 15-30) and `encode_b58_check` (33-43), with every
  branch: decode error, the subtraction `data.len() - 4` (a `"panic"` result below 4
  bytes), checksum mismatch, and success. `Hash256` is a CONSTANT operator.
- `XKeyEncoder`: the pure byte-level operators.
  - Writing: `write_key_details`, `WriteVersion` (the `match key.hint()`), `write_xpriv`
    and `write_xpub`.
  - Reading: `read_xpriv_body` and `read_xpub_body` check their conditions in the code's
    order: details, padding present, padding zero, key present, backend check.
    `read_xpriv` and `read_xpub` do the first-match version dispatch (`MatchVersion`);
    the `_without_network` readers use hint `Legacy`.
  - A read returns a result together with the reader's cursor after the call, because a
    failed `read_exact` or an early return leaves the reader where it stopped.
  - The u32 index is held as two 16-bit halves, because TLC integers are 32-bit signed.
  - `eofDrains` is the build-dependent state of a `&[u8]` after an `UnexpectedEof`.
    Older `std` leaves the slice unchanged; newer `std` drains it. The model fixes this
    choice once per run.
- `XKeyStream`: a program that calls the stream methods on one sink and one reader.
  - Variables: `cap` (the slice's capacity, one of `SinkCaps`, fixed per behaviour),
    `sink` (the bytes of a `&mut [u8]` of `cap` bytes), `writes` (the
    history of write calls with their `Ok(n)`), `pos` (the reader's cursor) and `reads`
    (the history of read calls).
  - One action per method: `WriteXPriv`, `WriteXPub`, `ReadXPriv`, `ReadXPub`,
    `ReadXPrivWithoutNetwork`, `ReadXPubWithoutNetwork`.
  - The slice writer behaves as `impl Write for &mut [u8]`: it copies what fits and
    returns the count.
- `XKeyBase58`: a program that exports the keys it holds and imports strings.
  - Variables: `exported` (the set of exports) and `last` (the latest import and its
    result).
  - Actions: `XPrivToBase58`, `XPubToBase58`, `XPrivFromBase58`, `XPubFromBase58`.
  - An import's input is any export or a string from `Received`.
  - The pure results are tabulated once as sets of input/output pairs (`ExportTable`,
    `ImportTable`).
- `PrefixVecSpec`: the abstract contract of a prefixed vector.
  - Variables: `vec` (the items), `poisoned` (an earlier failed access may make later
    calls fail) and `ret` (the latest call, its index, and whether it succeeded).
  - A successful call does what the same `Vec` method does at the `usize` it received.
  - A call fails only when its own index names no item (`OutOfRange`, which may poison
    the object) or when the object is poisoned (`Refused`). A failure changes no item.
- `WasmPrefixVec`: one JS object of a class generated by `impl_prefix_vec_access`
  (macros.rs 163-218).
  - Variables: `vec` (`self.0`), `borrow` (the `WasmRefCell` flag: a count of shared
    borrows, or `Exclusive`) and `ret`.
  - Actions: `New` (`new`/`null`), `Length`, `LenPrefix`, `Push`, `Get`, `Set`,
    `ItemsCall`.
  - An unavailable borrow makes the call `Throw`.
  - An out-of-range index makes it `Trap`. A trapped `get` keeps its shared borrow; a
    trapped `set` keeps the exclusive borrow.
  - A JS number is `wrap * 2^32` plus a `u32` held in 16-bit halves; `ToUsize` drops
    `wrap`, as ToInt32 does.
  - `Abs == INSTANCE PrefixVecSpec WITH ...` maps the concrete state onto the abstract
    one: any successful tag maps to `ok`, the index is the `usize` the method received,
    and `poisoned` is `borrow # 0`, a borrow that an earlier trap left behind.
- `WasmTxBuilder`: the builder classes of `impl_builders` (macros.rs 220-325), instantiated
  per network in `builder.rs`.
  - Variables: `builders` (every JS handle ever created: its value and whether it is
    live), `args` (the Vin, Vout and BitcoinOutpoint handles the methods take by value,
    live or moved), `txs` (built transactions) and `last`.
  - Each method is an action: `New`, `FromTx`, `FromHexTx`, `Version`, `Spend`, `Pay`,
    `ExtendInputs`, `ExtendOutputs`, `Locktime`, `ExtendWitnesses`, `Build`, `UseMoved`.
    - Every method that takes `self` first kills the caller's handle (`Detach`).
    - On success it returns a new handle (`Continue`). On a throw or trap the builder is
      dropped (`Drop`).
    - `MoveIn` is a call that takes self and one more object by value (`spend`,
      `extend_inputs`, `extend_outputs`). The glue detaches both handles before the Rust
      side checks either pointer, so a null self or a null argument throws with both gone.
  - `bitcoins::builder` is external; the model abstracts it to the fields the calls set.
  - The networks differ only in which address strings `pay` accepts (`ValidAddresses`).
    `WasmNetwork` sets it from its encoder.
- `WasmBuilderVin`: the composition of one `WasmPrefixVec` Vin with `WasmTxBuilder`,
  through `INSTANCE` of both.
  - Variables: the builder's four, plus `vin`, `vinBorrow` and `vinRet` for the Vin object.
  - Actions: `VinMethod` (a `WasmPrefixVec` step on the live handle), `VinNew`
    (`new Vin()` rebinds the program's variable), `VinNullCall` (a method on the moved
    handle), `ExtendInputsVin` and `BuilderCall` (every other builder method).
  - `ExtendInputsVin` follows wasm-bindgen's `from_abi` for a by-value struct: the pointer
    checks, then `borrow_mut` on the Vin after self was taken. If that borrow is refused
    the call throws and both values are gone. Otherwise the Vin's items at the call go
    into the builder.
- `WasmNetwork`: the network objects of `impl_network` (macros.rs 365-407) and the
  encoders of `impl_encoder` (327-363), composed with a builder through
  `B == INSTANCE WasmTxBuilder WITH ValidAddresses <- ...`: `pay`'s `string_to_address` is
  the encoder of the builder's network (`impl_builders!(MainnetBuilder, MainnetEncoder)`
  in `builder.rs`).
  - Variables: the builder's four, plus `addrs`: every Address handle with its string,
    the network object that returned it, whether it is live, and the result of the
    `decode_address` that consumed it.
  - Actions: `EncodeAddress`, `StringToAddress` and `DecodeAddress` of an encoder, called
    through `NetworkEncodeAddress`, `NetworkStringToAddress` and `NetworkDecodeAddress`
    (each network delegates to its own encoder), and `BuilderCall` (`tx_builder`,
    `builder_from_hex` and every builder method).
  - `DecodeAddress` detaches the Address handle before the network check, so a decode
    that throws has consumed it as well.
  - `bitcoins::enc` is external. It is reduced to three constants: `NetOf` (whose version
    info a string carries), `ScriptOf` (the script it pays to) and `EncodeStr` (a
    network's address for a script, or `NonStandard`).
- `MCXKeyStream`, `MCXKeyBase58`, `MCWasmPrefixVec`, `MCWasmNetwork` and
  `MCWasmBuilderVin`: the model values for TLC.

## Runs

| Run | Config | Expect | Checks |
|---|---|---|---|
| `stream_roundtrip` | `MCXKeyStream.cfg` | pass | `TypeOK`, `DecodeMatchesWrite` |
| `stream_truncated` | `MCXKeyStream_Truncated.cfg` | pass | `TruncatedFrameFails` |
| `stream_whole_writes` | `MCXKeyStream_WholeWrites.cfg` | violation | `WholeWrites` |
| `stream_resync` | `MCXKeyStream_Resync.cfg` | violation | `ReadsReturnWrittenKeys` |
| `b58_roundtrip` | `MCXKeyBase58.cfg` | pass | `TypeOK`, `ImportOfExport` |
| `b58_no_panic` | `MCXKeyBase58_NoPanic.cfg` | violation | `NoPanic` |
| `b58_canonical` | `MCXKeyBase58_Canonical.cfg` | violation | `Canonical` |
| `prefixvec_refinement` | `MCWasmPrefixVec.cfg` | pass | `TypeOK`, `PrefixVecRefinement` |
| `prefixvec_index_wrap` | `MCWasmPrefixVec_Wrap.cfg` | violation | `JsArrayContract` |
| `network_calls` | `MCWasmNetwork.cfg` | pass | `TypeOK` |
| `builder_keep_on_throw` | `MCWasmNetwork_KeepOnThrow.cfg` | violation | `KeepsHandlesOnThrow` |
| `builder_vin_poisoned` | `MCWasmBuilderVin_Poisoned.cfg` | violation | `ExtendWithLiveHandles` |

- **DecodeMatchesWrite.** Suppose a read starts at the start of a complete frame. Then it
  succeeds exactly when its key type matches the frame's and either it checks the
  writer's network or it skips the version. In that case it returns the written key (with
  hint `Legacy` when the version is skipped) and leaves the cursor at the end of the
  frame.
  - This is checked with all six readers in any order, on both networks.
  - The keys used are a root xpriv (`Legacy`), a hardened-index child xpriv (`SegWit`) and
    an xpub (`Compatibility`).
  - This exercises the hint↔version match in both directions, the padding byte that stops
    `read_xpriv_without_network` on an xpub frame, the reads of misaligned frames, and the
    EOF paths.
- **WholeWrites (violated).** With a 100-byte slice, the second `write_xpriv` writes 22
  bytes and returns `Ok(22)`.
  - The cause is that `write_xpriv` and `write_xpub` sum the results of `writer.write`
    (lines 408-410 and 425-428) instead of calling `write_all`.
  - The spec (§4.3) says the output is 78 bytes.
- **ReadsReturnWrittenKeys (violated).** `read_xpub(Test)` on a Test xpriv frame fails
  with `BadXPrivVersionBytes`, leaving the reader at offset 4. A following
  `read_xpub(Main)` then takes the depth and parent fingerprint (`04 88 B2 1E`) as Main
  xpub version bytes and returns a key nobody wrote
  (`MCLookalike` is built so that this happens).
  - The code consumes bytes before it fails, at lines 441 and 452 and in every `?` of the
    body readers.
  - The spec (§7) says there is no partial success, but it says nothing about the reader's
    position.
- **ImportOfExport.** Every exported string imports back to its key under its own network
  and key type, and is rejected under the other three combinations.
- **NoPanic (violated).** `xpriv_from_base58("")` panics at `enc.rs:17` (`data.len() - 4`
  on a usize). The spec (§4.1) says short input fails cleanly.
- **Canonical (violated).** A checksummed body with a trailing byte imports as a key. The
  key's own export is a different string, because lines 333-334 and 363-364 never check
  that the payload was consumed.

- **PrefixVecRefinement.** Whatever the JS caller does, `WasmPrefixVec` implements
  `PrefixVecSpec`. This includes calls that trap, calls refused because a trap left a
  borrow held, and indices that wrap.
  - A successful call acts as the `Vec` method at the `usize` received.
  - A call fails only when its own index names no item, or when an earlier trapped
    `get` or `set` (macros.rs 198, 203) left a borrow held. Only such a trap leaves one.
  - A failed call changes no item.
- **JsArrayContract (violated).** This is what a JS caller expects of an array-like
  object: `get` and `set` succeed exactly when the JS number names an item, and every
  other call succeeds. `get(4294967296)` returns item 0.
  - The same property also fails another way: after `get(-1)` traps, the object still
    holds the shared borrow, so `push` throws "recursive use of an object". The run
    `builder_vin_poisoned` shows where that leads.
- **KeepsHandlesOnThrow (violated).** This property says a builder handle, a Vin, Vout
  or BitcoinOutpoint passed with it, and an Address passed to `decode_address`, die only
  through a call that returned. It fails
  because `pay` with an address of another network throws after `self` was moved, so
  the caller has no builder left.
  - `extend_inputs` with a Vin that was already moved fails the same way. So does `spend`
    with an outpoint already spent.
  - Any of these calls on a consumed builder also loses the argument: the glue detaches
    it before the null-pointer check on self.
  - `extend_witnesses` with a malformed value fails the same way, by trapping on its
    `unwrap`.
  - `decode_address` under another network throws with the Address already detached,
    so the caller cannot retry under the right network.

- **TruncatedFrameFails.** A frame that a full slice writer took only in part never
  reads as a key. The slice's capacity (`SinkCaps = {2, 4, 5, 10, 20, 45, 60}`) stops the
  frame inside the version, right after the version, right after the depth, inside the index, inside the chain
  code, before the padding byte, or inside the key. So each `read_exact` of the reader
  (version, `read_depth`, `read_parent`, `read_index`, `read_chain_code`, the padding
  byte, the key) is the one that runs out in some behaviour.
- **ExtendWithLiveHandles (violated).** The sequence is: `new` builder, `get(0)` on an
  empty Vin (it traps and keeps its shared borrow), then `extend_inputs(vin)`. The call
  throws "recursive use of an object", and both the builder and the Vin are gone. The doc
  comment says only "Extend the vin with several inputs". The root cause is the unchecked
  index at macros.rs:198, which is where the finding is recorded.

Each property of a passing run has a mutant in `PROJECT.json`:
- `WriteVersionSwapped` swaps the Compatibility and SegWit arms.
- `read_xpriv_body_overcount` reports the cursor one byte too far.
- `IndexFromLE` reads the index little-endian.
- `KeyAtLongChainCode` reads one byte too many of the chain code.
- `GetOneBased` reads `self.0[index - 1]`.
- `LenPrefixLength` returns the vector's length as the prefix length.
- `FromHexTxUnchecked` ignores the parse error.
- `read_xpriv_body_short` reads the scalar with `read` instead of `read_exact`, keeping
  the zeros of a short read.

TLC finds each of these mutants.

## Bounds and why they are enough

- `MCXKeyStream` uses the real widths: 32-byte chain code, 32-byte scalar and 33-byte
  point, so frames are 78 bytes. The passing run uses `MaxWrites = 3` and `MaxReads = 3`.
  - Two frames are enough for every pair of (key type, network, hint) written next to each
    other.
  - Three writes and a 216-byte slice give two whole frames and a third cut inside its
    key. The WholeWrites run uses 100 so that the second frame does not fit.
  - The truncation run uses one frame cut at each of seven places and a second write that
    finds the slice full, with two reads: 35 875 distinct states.
  - Three reads reach a failed read, a misaligned read and a read after EOF.
  - The passing run uses the older `std` (`EofDrains = FALSE`), from the code's time. The
    violation runs use the newer one, where the reader is drained.
  - This gives 1 108 669 distinct states.
- `MCXKeyBase58` scales the widths down to 2/2/3, so a frame is 18 bytes.
  - The reason is that the exact Base58 conversion of an 82-byte string recurses deeper
    than TLC's evaluator allows.
  - The codec's control flow does not depend on the widths.
  - `Hash256` is a 4-byte weighted-sum digest. It distinguishes every string in
    `Received` from its export.
  - `Received` holds the edge cases of the text path: the empty string, one and two
    digits, a non-alphabet character, a corrupted checksum, a trailing byte, bad padding,
    a truncated body and a zero scalar.
- `MCWasmPrefixVec` uses two items, vectors up to 3 long, at most 2 leaked shared
  borrows, and the JS indices -1, 0, 1, 2 and 2^32.
  - These reach every branch: in bounds, out of bounds at the end, negative, wrapped,
    after a trapped `get`, and after a trapped `set`.
  - This gives 813 distinct states.
- `MCWasmNetwork` has the Mainnet and Testnet objects, one address string of each, a
  standard and a non-standard script, and one Address handle. Handles do not interact,
  so one is enough for a decode under each network and a decode of a consumed handle.
  The builder side is a Mainnet builder with up to 3 handles, one outpoint, one Vin, one
  Vout, two u32 values, the two address strings, a valid and a malformed witness value,
  and a hex string that parses and one that does not.
  - Three handles allow a sequence of two calls, or a build followed by `from_tx`. Every
    method is reached both on a live handle and on a consumed one.
  - Four handles gave 1.6 million states (over four minutes) once calls on consumed
    handles also detach their arguments, so the bound is 3.
  - This gives 596 188 distinct states in about a minute and a quarter. The violation run uses 4
    builder handles; TLC stops at the first violation.
- `MCWasmBuilderVin` has 2 builder handles, one u32 value (so a single TxIn item), one
  address, a Vin of at most one item, JS indices 0 and 1, and at most one leaked borrow.
  - That is enough for every ordering of a trapped `get`, `push`, `new Vin()` and
    `extend_inputs` around one builder call.
  - Only the violation run `builder_vin_poisoned` uses it.
- Deadlock checking is off in the XKeyStream and XKeyBase58 configurations. Their call
  bounds end every behaviour, and the program may stop calling at any point. The wasm
  configurations check deadlock: a call on a dead handle, or a getter, is always possible.

## Fairness and liveness

There is none. The code is synchronous and has no callbacks, threads or retries: the wasm
wrappers run one JS call at a time, to completion or to a trap. So nothing has to happen
eventually, and every property is a safety property.

## Not modelled

- Curve arithmetic, key derivation (`derive_private_path`) and SHA-256. The backend is
  reduced to validity predicates over the constant sets `OutOfRangeScalars` and
  `OffCurvePoints`, and `Hash256` is a constant operator.
- Error variants are kept only by name. `read_xpub` reporting `BadXPrivVersionBytes` is
  kept as the code has it.
- `wrap_struct` and the getter macros pass calls through to serde, hex and base64. They
  take `&self`, convert errors, and have no state of their own to change.
- Inside `bitcoins::enc`, address parsing and encoding are reduced to the constants
  `NetOf`, `ScriptOf` and `EncodeStr`. Only Mainnet and Testnet are instantiated; Signet
  behaves like them.
- Inside `bitcoins::builder`, the builder is reduced to the fields the calls set. Its own
  failure modes are not modelled, and `build` is taken to succeed.
- wasm-bindgen details beyond the borrow flag, handle detaching and number conversion are
  not modelled. In particular, the shadow-stack pointer that a trap leaves unrestored is
  not modelled.
- The composition covers the Vin only. Vout reaches `extend_outputs` in the same way, but
  `WasmBuilderVin` keeps Vout items constant. BitcoinOutpoint objects are never borrowed
  long enough to matter, because their getters do not panic.

## Plan for later sittings

Done so far: the prefix-vector wrapper, the builder handles, the Vin/builder composition,
the truncated-input property and the address encoders and
network objects. What is left:

1. Add an abstract text codec: a partial bijection between (network, kind, key) and
   strings. Show with `INSTANCE ... WITH` that `XKeyBase58`, restricted to inputs without
   trailing bytes, refines it.
2. Add a writer that returns `Err` part way through a frame, and a reader that returns
   `Interrupted`.
