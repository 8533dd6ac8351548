------------------------------ MODULE ConstInt ------------------------------
(***************************************************************************)
(* Integer constants of SIR (src/ykpack/src/types.rs): the compiler hands  *)
(* a MIR scalar over as its bits in a u128 and builds the ConstantInt with *)
(* the `*_from_bits` constructor of its type; a 128-bit value is kept as a *)
(* SerU128/SerI128, two u64 halves, because the serialiser has no 128-bit  *)
(* integers; a consumer loads a constant into a 64-bit register with       *)
(* ConstantInt::i64_cast.                                                  *)
(*                                                                         *)
(* Rust's `as` between integer types keeps the low bits of the two's      *)
(* complement pattern (AsU, AsI).  The widths are constants: the           *)
(* conversions depend on them only through 2^w, and the model keeps the   *)
(* relations the code relies on (u128 is two u64s, usize is u64, i64 is   *)
(* the register).                                                          *)
(***************************************************************************)
EXTENDS Integers, Bitwise

CONSTANTS
    None,
    Width       \* integer type name -> its width in bits

Unsigned == {"u8", "u16", "u32", "u64", "usize", "u128"}
Signed == {"i8", "i16", "i32", "i64", "isize", "i128"}
IntTys == Unsigned \cup Signed
Wide == {"u128", "i128"}

ASSUME /\ Width \in [IntTys -> Nat \ {0}]
       /\ Width["u128"] = 2 * Width["u64"] /\ Width["i128"] = Width["u128"]
       /\ Width["usize"] = Width["u64"] /\ Width["isize"] = Width["i64"]
       /\ Width["i64"] = Width["u64"]

Half == Width["u64"]        \* the width of SerU128's hi and lo
W128 == Width["u128"]

(* `x as uN` and `x as iN`: the low w bits, read unsigned or signed. *)
AsU(x, w) == x % (2 ^ w)
AsI(x, w) == IF AsU(x, w) >= 2 ^ (w - 1) THEN AsU(x, w) - 2 ^ w ELSE AsU(x, w)
As(x, t) == IF t \in Signed THEN AsI(x, Width[t]) ELSE AsU(x, Width[t])

(* The values of type t. *)
Vals(t) == IF t \in Signed THEN -(2 ^ (Width[t] - 1))..(2 ^ (Width[t] - 1) - 1)
           ELSE 0..(2 ^ Width[t] - 1)

(* new_ser128!'s new: hi = (val >> 64) as u64 (an arithmetic shift for
   i128), lo = val as u64. *)
SerNew(val) == [hi |-> AsU(val \div 2 ^ Half, Half), lo |-> AsU(val, Half)]

(* Mutant: lo sign-extended into the 128-bit value. *)
SerValLoSigned(s, t) ==
    As(AsU(s.hi * 2 ^ Half, W128) | AsU(AsI(s.lo, Half), W128), t)

(* new_ser128!'s val: (hi as $t) << 64 | lo as $t; both casts extend with
   zeros, the shift drops the bits past 128, and the pattern is read as $t. *)
SerVal(s, t) == As(AsU(s.hi * 2 ^ Half, W128) | s.lo, t)

(* const_int_from_bits! (bits as $rs_t), u128_from_bits and i128_from_bits
   (bits as i128, into SerI128). *)
FromBits(t, bits) ==
    CASE t = "u128" -> [ty |-> t, ser |-> SerNew(bits)]
      [] t = "i128" -> [ty |-> t, ser |-> SerNew(AsI(bits, W128))]
      [] OTHER -> [ty |-> t, v |-> As(bits, t)]

(* The value a ConstantInt holds. *)
ConstVal(c) == IF c.ty \in Wide THEN SerVal(c.ser, c.ty) ELSE c.v

(* Mutant: a signed constant is zero-extended, as if cast through its
   unsigned twin. *)
I64CastZext(c) == AsU(c.v, Width[c.ty])

(* Mutant: `as i64` taken to keep the value, so a u64 above i64::MAX stays. *)
I64CastNoWrap(c) == c.v

(* ConstantInt::i64_cast: `*i as i64` for every width up to 64 bits. *)
I64Cast(c) == As(c.v, "i64")

VARIABLES
    ty,      \* the type of the MIR scalar
    v,       \* its value
    c,       \* the ConstantInt built from its bits, or None
    reg,     \* the result of i64_cast, or None
    status   \* "mir", "const", "reg", or "panic" (i64_cast of a 128-bit constant)

vars == <<ty, v, c, reg, status>>

Init ==
    /\ ty \in IntTys
    /\ v \in Vals(ty)
    /\ c = None
    /\ reg = None
    /\ status = "mir"

(* The compiler passes the scalar's bits, `v as u128`, to *_from_bits. *)
Lower ==
    /\ status = "mir"
    /\ c' = FromBits(ty, AsU(v, W128))
    /\ status' = "const"
    /\ UNCHANGED <<ty, v, reg>>

(* Constant::i64_cast, Int arm: ConstantInt::i64_cast of the constant. *)
LoadRegister ==
    /\ status = "const"
    /\ ty \notin Wide
    /\ reg' = I64Cast(c)
    /\ status' = "reg"
    /\ UNCHANGED <<ty, v, c>>

(* panic!("i64_cast: u128 to isize") and its i128 twin. *)
LoadWidePanics ==
    /\ status = "const"
    /\ ty \in Wide
    /\ status' = "panic"
    /\ UNCHANGED <<ty, v, c, reg>>

Next == Lower \/ LoadRegister \/ LoadWidePanics

Spec == Init /\ [][Next]_vars

TypeOK ==
    /\ ty \in IntTys /\ v \in Vals(ty)
    /\ status \in {"mir", "const", "reg", "panic"}
    /\ reg \in Vals("i64") \cup {None}

(***************************************************************************)
(* Round trip through the bits (the tests const_*_from_bits and            *)
(* ser*128_round_trip): the ConstantInt built from `v as u128` holds v,    *)
(* for every type and every value, the halves of a negative i128 and a     *)
(* u128 with its top bit set included.                                     *)
(***************************************************************************)
FromBitsRoundTrip == status # "mir" => ConstVal(c) = v

(***************************************************************************)
(* i64_cast ("an i64 value suitable for loading into a register; if the   *)
(* constant is signed, then it will be sign-extended"): the register      *)
(* holds the constant's value modulo 2^64, and exactly its value when the *)
(* constant is signed.                                                     *)
(***************************************************************************)
RegisterHoldsConstant ==
    status = "reg" =>
        /\ AsU(reg, Width["i64"]) = AsU(v, Width["i64"])
        /\ ty \in Signed => reg = v

=============================================================================
