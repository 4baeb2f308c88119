---------------------------- MODULE PrefixVecSpec ----------------------------
(***************************************************************************)
(* What a wrapped prefix vector (Vin, Vout, a witness stack) promises its  *)
(* caller, stated without wasm-bindgen: a sequence of items with push,    *)
(* indexed get and set, length, len_prefix and items.  Indices are the     *)
(* usize the Rust side receives, counted from 0.  A call that succeeds     *)
(* does what the same call on a Rust Vec does, at the index it received.  *)
(* A call fails only for a reason: its index names no item, or an earlier *)
(* failed access left the object poisoned; a failure changes no item, and  *)
(* only an out-of-range access may poison the object.                     *)
(***************************************************************************)
EXTENDS Naturals, Sequences

CONSTANTS
  Items,     \* values of the inner class
  Indices,   \* usize indices the caller passes
  NoVal      \* the value of a call that returns none

VARIABLES
  vec,        \* the items, in order
  poisoned,   \* an earlier failed access may make later calls fail
  ret         \* the latest call: operation, index, success, value

NoIdx == "none"

\* The byte length of the CompactSize prefix of a length below 2^32.
CompactSizeLen(n) == IF n < 253 THEN 1 ELSE IF n < 65536 THEN 3 ELSE 5

\* A usize index i (two 16-bit halves) names the (i+1)-th item.
Within(i) == i.hi = 0 /\ i.lo < Len(vec)

Init ==
  /\ vec = <<>>
  /\ poisoned = FALSE
  /\ ret = [op |-> "new", idx |-> NoIdx, ok |-> TRUE, val |-> NoVal]

Answer(op, i, ok, val) == ret' = [op |-> op, idx |-> i, ok |-> ok, val |-> val]

New == vec' = <<>> /\ poisoned' = FALSE /\ Answer("new", NoIdx, TRUE, NoVal)

Push(x) == vec' = Append(vec, x) /\ Answer("push", NoIdx, TRUE, x) /\ UNCHANGED poisoned

Get(i) ==
  /\ Within(i)
  /\ Answer("get", i, TRUE, vec[i.lo + 1])
  /\ UNCHANGED <<vec, poisoned>>

Set(i, x) ==
  /\ Within(i)
  /\ vec' = [vec EXCEPT ![i.lo + 1] = x]
  /\ Answer("set", i, TRUE, x)
  /\ UNCHANGED poisoned

Length == Answer("length", NoIdx, TRUE, Len(vec)) /\ UNCHANGED <<vec, poisoned>>

LenPrefix ==
  Answer("len_prefix", NoIdx, TRUE, CompactSizeLen(Len(vec))) /\ UNCHANGED <<vec, poisoned>>

ItemsCall == Answer("items", NoIdx, TRUE, vec) /\ UNCHANGED <<vec, poisoned>>

\* get or set at an index naming no item fails, and may poison the object.
OutOfRange(op, i) ==
  /\ ~Within(i)
  /\ Answer(op, i, FALSE, NoVal)
  /\ poisoned' \in {poisoned, TRUE}
  /\ UNCHANGED vec

\* On a poisoned object any call may fail; it changes nothing.
Refused(op, i) ==
  /\ poisoned
  /\ Answer(op, i, FALSE, NoVal)
  /\ UNCHANGED <<vec, poisoned>>

Ops == {"push", "length", "len_prefix", "items"}

Next ==
  \/ New
  \/ \E x \in Items : Push(x)
  \/ \E i \in Indices :
       \/ Get(i) \/ \E x \in Items : Set(i, x)
       \/ OutOfRange("get", i) \/ OutOfRange("set", i)
       \/ Refused("get", i) \/ Refused("set", i)
  \/ Length \/ LenPrefix \/ ItemsCall
  \/ \E op \in Ops : Refused(op, NoIdx)

Spec == Init /\ [][Next]_<<vec, poisoned, ret>>
=============================================================================
