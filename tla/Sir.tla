-------------------------------- MODULE Sir --------------------------------
(***************************************************************************)
(* The SIR/TIR data model of ykpack (src/ykpack/src/types.rs), as values.  *)
(*                                                                         *)
(* Data is abstracted to what the lowering and the interpreter tell apart: *)
(* a Local is its index, a Place is a local plus a sequence of projection  *)
(* tags, a constant is a small value, a type is a model value.  Basic      *)
(* block and local indices are 0-based as in the code; sequences are       *)
(* 1-based, so block b of a body is blocks[b + 1] and the declaration of   *)
(* local l is decls[l + 1].                                                *)
(***************************************************************************)
EXTENDS Naturals, Sequences

CONSTANT None        \* Option::None

(* Place { local, projection }; projections are tags such as "deref", "f0". *)
Place(l, proj) == [local |-> l, proj |-> proj]
Loc(l) == Place(l, <<>>)

(* Operand::Place / Operand::Constant. *)
Const(v) == [const |-> v]
IsPlaceOp(o) == "local" \in DOMAIN o

(* Rvalue: Use(op), BinaryOp(_, a, b), CheckedBinaryOp(_, a, b), Ref(place).
   The operator itself is irrelevant to renaming, so an rvalue is its kind
   and its operands in order. *)
Use(o) == [rv |-> "Use", ops |-> <<o>>]
BinOp(a, b) == [rv |-> "BinaryOp", ops |-> <<a, b>>]
Ref(p) == [rv |-> "Ref", ops |-> <<p>>]

(* Statement.  StorageLive is the variant tir.rs matches on. *)
Nop == [st |-> "Nop"]
Assign(p, r) == [st |-> "Assign", place |-> p, rvalue |-> r]
StorageLive(l) == [st |-> "StorageLive", local |-> l]
StorageDead(l) == [st |-> "StorageDead", local |-> l]
Enter(callee, args, dest, off) ==
    [st |-> "Enter", callee |-> callee, args |-> args, dest |-> dest, off |-> off]
Leave == [st |-> "Leave"]
NativeCall(callee, args, dest) ==
    [st |-> "Call", callee |-> callee, args |-> args, dest |-> dest]

(* CallOperand::Fn(sym) is the symbol; CallOperand::Unknown is this value. *)
UnknownCallee == "<unknown>"

(* Terminator.  A call's destination is None or [place, bb]. *)
Goto(bb) == [term |-> "Goto", target |-> bb]
SwitchInt(discr, values, targets, otherwise) ==
    [term |-> "SwitchInt", discr |-> discr, values |-> values,
     targets |-> targets, otherwise |-> otherwise]
Return == [term |-> "Return"]
Unreachable == [term |-> "Unreachable"]
Drop(bb) == [term |-> "Drop", target |-> bb]
Call(callee, args, dest) ==
    [term |-> "Call", callee |-> callee, args |-> args, dest |-> dest]
(* A call through a function pointer: the operand is CallOperand::Unknown;
   `actual` is the function the pointer holds when the program runs. *)
IndirectCall(actual, args, dest) ==
    [term |-> "Call", callee |-> UnknownCallee, args |-> args, dest |-> dest,
     actual |-> actual]
Dest(p, bb) == [place |-> p, bb |-> bb]
AssertT(cond, expected, bb) ==
    [term |-> "Assert", cond |-> cond, expected |-> expected, target |-> bb]

(* BasicBlock and Body. *)
Block(stmts, t) == [stmts |-> stmts, term |-> t]
Body(decls, inputs, blocks) ==
    [decls |-> decls, inputs |-> inputs, blocks |-> blocks]

BlockOf(body, bb) == body.blocks[bb + 1]
NumLocals(body) == Len(body.decls)
DeclOf(body, l) == body.decls[l + 1]

(* The operands of an rvalue or a call that are places. *)
PlacesOf(os) == {os[i] : i \in {j \in DOMAIN os : IsPlaceOp(os[j])}}

=============================================================================
