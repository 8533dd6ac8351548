----------------------------- MODULE MCConstInt -----------------------------
(* The integer widths scaled down so that every value of every type can be
   enumerated: u8 1 bit ... u64 4 bits, u128 8 bits (two u64 halves). *)
EXTENDS ConstInt

MCWidth ==
    [t \in IntTys |->
        CASE t \in {"u8", "i8"} -> 1
          [] t \in {"u16", "i16"} -> 2
          [] t \in {"u32", "i32"} -> 3
          [] t \in {"u64", "i64", "usize", "isize"} -> 4
          [] OTHER -> 8]

=============================================================================
