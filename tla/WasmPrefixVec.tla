---------------------------- MODULE WasmPrefixVec ----------------------------
(***************************************************************************)
(* One JS object of a class generated by impl_prefix_vec_access            *)
(* (src/bitcoins-wasm/src/macros.rs lines 163-218): a wasm-bindgen         *)
(* wrapper around a Rust prefix vector, called from JavaScript.            *)
(*                                                                         *)
(* Two pieces of the #[wasm_bindgen] glue decide what a call does besides  *)
(* the method body:                                                        *)
(*  - the object lives in a WasmRefCell.  A &self method takes a shared    *)
(*    borrow for the call, a &mut self method an exclusive one; a borrow   *)
(*    that is not available makes the call throw ("recursive use of an    *)
(*    object detected").  The borrow is given back when the guard drops.  *)
(*    On wasm32 a panic aborts: the instance traps, no destructor runs,    *)
(*    and the borrow taken for the call is never given back.               *)
(*  - a JS number passed as usize goes through ToInt32 and is read as u32: *)
(*    it is taken modulo 2^32.  A JS number is kept as wrap * 2^32 plus a  *)
(*    u32 in 16-bit halves, because TLC integers are 32-bit signed.        *)
(***************************************************************************)
EXTENDS Integers, Sequences

CONSTANTS
  Items,        \* values of the inner class (clones are equal values)
  JsIndices,    \* JS numbers the program passes as index
  MaxLen,       \* bound on the vector's length
  MaxLeaked,    \* bound on shared borrows leaked by traps
  NoVal         \* the value of a call that returns none

JsNumbers == [wrap : Int, hi : 0..65535, lo : 0..65535]

ASSUME JsIndices \subseteq JsNumbers /\ MaxLen \in Nat /\ MaxLeaked \in Nat

\* WasmRefCell's borrow flag: a count of shared borrows, or usize::MAX.
Exclusive == -1

\* The argument of a call without an index.
NoArg == [wrap |-> 0, hi |-> 0, lo |-> 0]

VARIABLES
  vec,      \* self.0: the items
  borrow,   \* the borrow flag of the object's WasmRefCell between calls
  ret       \* the latest call: operation, JS argument, outcome, value

vars == <<vec, borrow, ret>>

\* The usize the method receives for a JS number.
ToUsize(n) == [hi |-> n.hi, lo |-> n.lo]

\* coins_core::ser::prefix_byte_len on a usize of wasm32.
prefix_byte_len(n) == CASE n <= 252   -> 1
                        [] n <= 65535 -> 3
                        [] OTHER      -> 5

TypeOK ==
  /\ vec \in Seq(Items) /\ Len(vec) <= MaxLen
  /\ borrow \in {Exclusive} \cup 0..MaxLeaked
  /\ ret.op \in {"new", "push", "get", "set", "length", "len_prefix", "items"}
  /\ ret.arg \in JsIndices \cup {NoArg}
  /\ ret.tag \in {"ok", "throw", "trap"}
  /\ ret.tag = "ok" =>
       CASE ret.op = "len_prefix" -> ret.val \in {1, 3, 5}
         [] ret.op = "length"     -> ret.val \in 0..MaxLen
         [] ret.op = "items"      -> ret.val \in Seq(Items)
         [] ret.op \in {"push", "get", "set"} -> ret.val \in Items
         [] OTHER                 -> ret.val = NoVal

Init ==
  /\ vec = <<>>
  /\ borrow = 0
  /\ ret = [op |-> "new", arg |-> NoArg, tag |-> "ok", val |-> NoVal]

Return(op, arg, val) == ret' = [op |-> op, arg |-> arg, tag |-> "ok", val |-> val]

\* The glue could not take the borrow: a JS exception, nothing else changes.
Throw(op, arg) ==
  /\ ret' = [op |-> op, arg |-> arg, tag |-> "throw", val |-> NoVal]
  /\ UNCHANGED <<vec, borrow>>

\* The method body panicked: the instance traps holding the call's borrow.
Trap(op, arg, held) ==
  /\ ret' = [op |-> op, arg |-> arg, tag |-> "trap", val |-> NoVal]
  /\ borrow' = held
  /\ UNCHANGED vec

Shared == borrow # Exclusive
Unborrowed == borrow = 0

\* self.0[index] exists for the usize u.
InBounds(u) == u.hi = 0 /\ u.lo < Len(vec)

\* new() and null(): the program replaces its object by a fresh empty one.
New ==
  /\ vec' = <<>>
  /\ borrow' = 0
  /\ Return("new", NoArg, NoVal)

Length ==
  \/ Shared /\ Return("length", NoArg, Len(vec)) /\ UNCHANGED <<vec, borrow>>
  \/ ~Shared /\ Throw("length", NoArg)

\* Mutant: the vector's length returned as the prefix length.
LenPrefixLength ==
  \/ Shared /\ Return("len_prefix", NoArg, Len(vec)) /\ UNCHANGED <<vec, borrow>>
  \/ ~Shared /\ Throw("len_prefix", NoArg)

LenPrefix ==
  \/ /\ Shared
     /\ Return("len_prefix", NoArg, prefix_byte_len(Len(vec)))
     /\ UNCHANGED <<vec, borrow>>
  \/ ~Shared /\ Throw("len_prefix", NoArg)

Push(x) ==
  \/ /\ Unborrowed /\ Len(vec) < MaxLen
     /\ vec' = Append(vec, x)
     /\ Return("push", NoArg, x)
     /\ UNCHANGED borrow
  \/ ~Unborrowed /\ Throw("push", NoArg)

\* Mutant: the index taken as 1-based (self.0[index - 1]).
GetOneBased(n) ==
  LET u == ToUsize(n)
      ok == u.hi = 0 /\ 1 <= u.lo /\ u.lo <= Len(vec)
  IN  \/ Shared /\ ok /\ Return("get", n, vec[u.lo]) /\ UNCHANGED <<vec, borrow>>
      \/ Shared /\ ~ok /\ borrow < MaxLeaked /\ Trap("get", n, borrow + 1)
      \/ ~Shared /\ Throw("get", n)

\* get: self.0[index] panics when index is out of bounds.
Get(n) ==
  LET u == ToUsize(n) IN
  \/ Shared /\ InBounds(u) /\ Return("get", n, vec[u.lo + 1]) /\ UNCHANGED <<vec, borrow>>
  \/ Shared /\ ~InBounds(u) /\ borrow < MaxLeaked /\ Trap("get", n, borrow + 1)
  \/ ~Shared /\ Throw("get", n)

\* set: self.0[index] = item panics when index is out of bounds.
Set(n, x) ==
  LET u == ToUsize(n) IN
  \/ /\ Unborrowed /\ InBounds(u)
     /\ vec' = [vec EXCEPT ![u.lo + 1] = x]
     /\ Return("set", n, x)
     /\ UNCHANGED borrow
  \/ Unborrowed /\ ~InBounds(u) /\ Trap("set", n, Exclusive)
  \/ ~Unborrowed /\ Throw("set", n)

ItemsCall ==
  \/ Shared /\ Return("items", NoArg, vec) /\ UNCHANGED <<vec, borrow>>
  \/ ~Shared /\ Throw("items", NoArg)

Next ==
  \/ New
  \/ Length
  \/ LenPrefix
  \/ \E x \in Items : Push(x)
  \/ \E n \in JsIndices : Get(n) \/ \E x \in Items : Set(n, x)
  \/ ItemsCall

Spec == Init /\ [][Next]_vars
-----------------------------------------------------------------------------
(***************************************************************************)
(* Properties.                                                             *)
(***************************************************************************)

(***************************************************************************)
(* PrefixVecRefinement: seen through the calls' results, the wrapped       *)
(* object is a PrefixVecSpec vector.  Every call that returns did what the *)
(* Rust Vec method does at the usize it received; a call fails only when   *)
(* its own index names no item or the object is poisoned, which the model *)
(* maps from a borrow left behind by an earlier trap (macros.rs 198, 203); *)
(* only an out-of-range get or set poisons it, and a failure changes no    *)
(* item.                                                                   *)
(***************************************************************************)
Abs == INSTANCE PrefixVecSpec
         WITH Indices <- {ToUsize(n) : n \in JsIndices},
              poisoned <- borrow # 0,
              ret <- [op |-> ret.op, ok |-> ret.tag = "ok", val |-> ret.val,
                      idx |-> IF ret.op \in {"get", "set"} THEN ToUsize(ret.arg)
                                                          ELSE "none"]

PrefixVecRefinement == Abs!Spec

(***************************************************************************)
(* JsArrayContract: what JavaScript code expects of an array-like object: *)
(* get and set succeed exactly when the JS number passed names an item     *)
(* (0 <= n < length), and every other call succeeds.  The doc comments of *)
(* push, get and set (macros.rs lines 191-204) promise no more than that. *)
(***************************************************************************)
JsInBounds(n) == n.wrap = 0 /\ InBounds(ToUsize(n))

JsArrayContract ==
  [][ ret'.tag = "ok" <=> (ret'.op \in {"get", "set"} => JsInBounds(ret'.arg)) ]_vars
=============================================================================
