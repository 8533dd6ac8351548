------------------------------- MODULE Layout -------------------------------
(***************************************************************************)
(* Types and their memory layout, as the SIR consumed by the interpreter   *)
(* (src/ykbh) assumes them: every local of a body lives at a fixed byte    *)
(* offset of the frame, every field of a tuple at a fixed offset of the    *)
(* tuple, and a place with one dereference is an IPlace::Indirect.  The    *)
(* compiler that computes layouts and IPlaces is not in this repository;   *)
(* this module is its part of the environment of ykbh.                     *)
(*                                                                         *)
(* Abstraction: every scalar (u8, bool, a pointer) takes one memory cell,  *)
(* so no type needs padding.                                               *)
(***************************************************************************)
EXTENDS Integers, Sequences, SequencesExt

U8 == [k |-> "u8"]
RefTo(t) == [k |-> "ref", to |-> t]
Tup(fs) == [k |-> "tuple", fs |-> fs]
Unit == Tup(<<>>)
StrData == [k |-> "str"]
Str == RefTo(StrData)            \* &'static str: no interpreter support

IsScalar(t) == t.k \in {"u8", "ref", "str"}

RECURSIVE Size(_)
Size(t) == IF t.k = "tuple" THEN FoldLeft(LAMBDA acc, f : acc + Size(f), 0, t.fs) ELSE 1

(* Fields are 0-based, like mir::Field. *)
FieldOff(t, f) == FoldLeft(LAMBDA acc, g : acc + Size(g), 0, SubSeq(t.fs, 1, f))
FieldTy(t, f) == t.fs[f + 1]

(* Offset and type of a projection path of fields only. *)
RECURSIVE PathOff(_, _)
PathOff(t, path) ==
    IF path = <<>> THEN 0
    ELSE FieldOff(t, Head(path)) + PathOff(FieldTy(t, Head(path)), Tail(path))

RECURSIVE PathTy(_, _)
PathTy(t, path) == IF path = <<>> THEN t ELSE PathTy(FieldTy(t, Head(path)), Tail(path))

(* The field paths of t that lead to a scalar. *)
RECURSIVE Leaves(_)
Leaves(t) ==
    IF IsScalar(t) THEN {<<>>}
    ELSE UNION {{<<f>> \o p : p \in Leaves(FieldTy(t, f))} : f \in 0..(Len(t.fs) - 1)}

(* Every field path of t, the empty one included. *)
RECURSIVE Paths(_)
Paths(t) ==
    IF t.k # "tuple" THEN {<<>>}
    ELSE {<<>>} \cup UNION {{<<f>> \o p : p \in Paths(FieldTy(t, f))} : f \in 0..(Len(t.fs) - 1)}

(* A body's frame: local l at Offsets(decls)[l], in declaration order. *)
LocalOff(decls, l) == FoldLeft(LAMBDA acc, t : acc + Size(t), 0, SubSeq(decls, 1, l))
FrameSize(decls) == LocalOff(decls, Len(decls))

(***************************************************************************)
(* IPlaces.  A place is [local, proj] with proj a sequence of field        *)
(* numbers and at most one Deref.  Without a dereference it is            *)
(* Val{local, off, ty}; with one it is Indirect{ptr: {local, off}, off,    *)
(* ty}, where ptr.off is the offset of the pointer within its local and    *)
(* off the offset after the dereference (spec.md, "Address resolution").   *)
(* A constant operand is Const{val, ty}.                                   *)
(***************************************************************************)
(* ProjectionElem::Deref, kept apart from the field numbers 0, 1, ... *)
Deref == -1

DerefAt(proj) == {i \in DOMAIN proj : proj[i] = Deref}

LowerPlace(decls, p) ==
    LET t == decls[p.local + 1]
    IN IF DerefAt(p.proj) = {}
       THEN [ip |-> "Val", local |-> p.local, off |-> PathOff(t, p.proj),
             ty |-> PathTy(t, p.proj)]
       ELSE LET d == CHOOSE i \in DerefAt(p.proj) : TRUE
                pre == SubSeq(p.proj, 1, d - 1)
                post == SubSeq(p.proj, d + 1, Len(p.proj))
                pointee == PathTy(t, pre).to
            IN [ip |-> "Indirect", ptr |-> [local |-> p.local, off |-> PathOff(t, pre)],
                off |-> PathOff(pointee, post), ty |-> PathTy(pointee, post)]

LowerOperand(decls, o) ==
    IF "local" \in DOMAIN o THEN LowerPlace(decls, o)
    ELSE [ip |-> "Const", val |-> o.const, ty |-> o.ty]

=============================================================================
