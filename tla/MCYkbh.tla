------------------------------- MODULE MCYkbh -------------------------------
(***************************************************************************)
(* Programs for Ykbh: the bodies of the ykbh unit tests (simple, tuple,    *)
(* reference, tupleref, doubleref, call) as their SIR would be, and a few  *)
(* more that pass references to and return aggregates from callees, call   *)
(* trace_debug, call a function without SIR, or use a statement the        *)
(* interpreter does not implement.  Each is written once with places and   *)
(* lowered to IPlaces by Layout; SirEval runs the first form, Ykbh the     *)
(* second.                                                                 *)
(***************************************************************************)
EXTENDS Ykbh

P(l, proj) == [local |-> l, proj |-> proj]
L(l) == P(l, <<>>)
C(v) == [const |-> v, ty |-> U8]
StrC == [const |-> "msg", ty |-> Str]

SStore(d, s) == [st |-> "Store", dest |-> d, src |-> s]
SMkRef(d, s) == [st |-> "MkRef", dest |-> d, src |-> s]
SBinOp(d, a, b) == [st |-> "BinaryOp", dest |-> d, ops |-> <<a, b>>]
SRet == [term |-> "Return"]
SCall(f, args, d, bb) == [term |-> "Call", callee |-> f, args |-> args,
                          dest |-> [place |-> d, bb |-> bb]]
SCallDiverging(f, args) == [term |-> "Call", callee |-> f, args |-> args, dest |-> None]
SGoto(bb) == [term |-> "Goto", target |-> bb]
Blk(ss, t) == [stmts |-> ss, term |-> t]
Fn(decls, blocks) == [decls |-> decls, flags |-> {}, blocks |-> blocks]

T2 == Tup(<<U8, U8>>)
T3 == Tup(<<U8, U8, U8>>)
IO2 == T2                     \* struct IO(u8, u8)
IOT2 == Tup(<<T2>>)           \* struct IO((u8, u8))
IOT3 == Tup(<<T3>>)           \* struct IO((u8, u8, u8))

Prog(bodies, entry, io) == [bodies |-> bodies, entry |-> entry, io |-> io]

(* fn simple(io: &mut IO) { let a = 3; io.1 = a; } *)
Simple == Fn(<<Unit, RefTo(IO2), U8>>,
             <<Blk(<<SStore(L(2), C(3)), SStore(P(1, <<Deref, 1>>), L(2))>>, SRet)>>)

(* fn func_tuple(io: &mut IO) { let a = io.0; let b = a.2; (io.0).1 = b; } *)
FuncTuple == Fn(<<Unit, RefTo(IOT3), T3, U8>>,
                <<Blk(<<SStore(L(2), P(1, <<Deref, 0>>)), SStore(L(3), P(2, <<2>>)),
                        SStore(P(1, <<Deref, 0, 1>>), L(3))>>, SRet)>>)

(* fn func_ref(io: &mut IO) { let a = 5u8; let b = &a; io.1 = *b; } *)
FuncRef == Fn(<<Unit, RefTo(IO2), U8, RefTo(U8)>>,
              <<Blk(<<SStore(L(2), C(5)), SMkRef(L(3), L(2)),
                      SStore(P(1, <<Deref, 1>>), P(3, <<Deref>>))>>, SRet)>>)

(* fn func_tupleref(io: &mut IO) { let a = io.0; (io.0).1 = 5; let b = &a; (io.0).0 = b.1; } *)
FuncTupleRef == Fn(<<Unit, RefTo(IOT2), T2, RefTo(T2)>>,
                   <<Blk(<<SStore(L(2), P(1, <<Deref, 0>>)), SStore(P(1, <<Deref, 0, 1>>), C(5)),
                           SMkRef(L(3), L(2)), SStore(P(1, <<Deref, 0, 0>>), P(3, <<Deref, 1>>))>>,
                         SRet)>>)

(* fn func_doubleref(io: &mut IO) { let a = &io.0; (io.0).0 = a.1; } *)
FuncDoubleRef == Fn(<<Unit, RefTo(IOT2), RefTo(T2)>>,
                    <<Blk(<<SMkRef(L(2), P(1, <<Deref, 0>>)),
                            SStore(P(1, <<Deref, 0, 0>>), P(2, <<Deref, 1>>))>>, SRet)>>)

(* fn foo(i: u8) -> u8 { i }  fn func_call(io: &mut IO) { let a = foo(5); io.0 = a; } *)
Foo == Fn(<<U8, U8>>, <<Blk(<<SStore(L(0), L(1))>>, SRet)>>)
FuncCall == Fn(<<Unit, RefTo(IO2), U8>>,
               <<Blk(<<>>, SCall("foo", <<C(5)>>, L(2), 1)),
                 Blk(<<SStore(P(1, <<Deref, 0>>), L(2))>>, SRet)>>)

(* fn set(p: &mut u8) { *p = 3 }
   fn func_setref(io: &mut IO) { let a = io.0; set(&mut a); io.1 = a; } *)
Set == Fn(<<Unit, RefTo(U8)>>, <<Blk(<<SStore(P(1, <<Deref>>), C(3))>>, SRet)>>)
FuncSetRef == Fn(<<Unit, RefTo(IO2), U8, RefTo(U8), Unit>>,
                 <<Blk(<<SStore(L(2), P(1, <<Deref, 0>>)), SMkRef(L(3), L(2))>>,
                       SCall("set", <<L(3)>>, L(4), 1)),
                   Blk(<<SStore(P(1, <<Deref, 1>>), L(2))>>, SRet)>>)

(* fn swap(p: (u8, u8)) -> (u8, u8) { (p.1, p.0) }
   fn func_swap(io: &mut IO) { *io = swap( *io); } *)
Swap == Fn(<<T2, T2>>, <<Blk(<<SStore(P(0, <<0>>), P(1, <<1>>)),
                              SStore(P(0, <<1>>), P(1, <<0>>))>>, SRet)>>)
FuncSwap == Fn(<<Unit, RefTo(IO2), T2>>,
               <<Blk(<<>>, SCall("swap", <<P(1, <<Deref>>)>>, L(2), 1)),
                 Blk(<<SStore(P(1, <<Deref>>), L(2))>>, SRet)>>)

(* fn get(p: &u8) -> u8 { *p }  fn func_get(io: &mut IO) { io.0 = get(&io.1); } *)
Get == Fn(<<U8, RefTo(U8)>>, <<Blk(<<SStore(L(0), P(1, <<Deref>>))>>, SRet)>>)
FuncGet == Fn(<<Unit, RefTo(IO2), RefTo(U8), U8>>,
              <<Blk(<<SMkRef(L(2), P(1, <<Deref, 1>>))>>, SCall("get", <<L(2)>>, L(3), 1)),
                Blk(<<SStore(P(1, <<Deref, 0>>), L(3))>>, SRet)>>)

(* #[trace_debug] fn trace_debug(_msg: &'static str) {} *)
TraceDebug == [Fn(<<Unit, Str>>, <<Blk(<<>>, SRet)>>) EXCEPT !.flags = {"trace_debug"}]

(* fn func_debug(io: &mut IO) { trace_debug("msg"); io.0 = 3; } *)
FuncDebug == Fn(<<Unit, RefTo(IO2), Unit>>,
                <<Blk(<<>>, SCall("trace_debug", <<StrC>>, L(2), 1)),
                  Blk(<<SStore(P(1, <<Deref, 0>>), C(3))>>, SRet)>>)

(* fn func_native(io: &mut IO) { io.0 = native(5); } with no SIR for `native`. *)
FuncNative == Fn(<<Unit, RefTo(IO2), U8>>,
                 <<Blk(<<>>, SCall("native", <<C(5)>>, L(2), 1)),
                   Blk(<<SStore(P(1, <<Deref, 0>>), L(2))>>, SRet)>>)

(* fn func_add(io: &mut IO) { io.0 = io.1 + 1; } *)
FuncAdd == Fn(<<Unit, RefTo(IO2), U8>>,
              <<Blk(<<SBinOp(L(2), P(1, <<Deref, 1>>), C(1))>>, SGoto(1)),
                Blk(<<SStore(P(1, <<Deref, 0>>), L(2))>>, SRet)>>)

(* fn fail() -> ! { abort() }  fn func_fail(io: &mut IO) { fail() }
   with no SIR for the native `abort`: no call has a destination. *)
Fail == Fn(<<Unit>>, <<Blk(<<>>, SCallDiverging("abort", <<>>))>>)
FuncFail == Fn(<<Unit, RefTo(IO2)>>, <<Blk(<<>>, SCallDiverging("fail", <<>>))>>)

TestPrograms ==
    { Prog("simple" :> Simple, "simple", IO2),
      Prog("func_tuple" :> FuncTuple, "func_tuple", IOT3),
      Prog("func_ref" :> FuncRef, "func_ref", IO2),
      Prog("func_tupleref" :> FuncTupleRef, "func_tupleref", IOT2),
      Prog("func_doubleref" :> FuncDoubleRef, "func_doubleref", IOT2),
      Prog(("func_call" :> FuncCall) @@ ("foo" :> Foo), "func_call", IO2),
      Prog(("func_setref" :> FuncSetRef) @@ ("set" :> Set), "func_setref", IO2),
      Prog(("func_get" :> FuncGet) @@ ("get" :> Get), "func_get", IO2),
      Prog(("func_swap" :> FuncSwap) @@ ("swap" :> Swap), "func_swap", IO2),
      Prog(("func_debug" :> FuncDebug) @@ ("trace_debug" :> TraceDebug), "func_debug", IO2),
      Prog("trace_debug" :> TraceDebug, "trace_debug", IO2),
      Prog("func_native" :> FuncNative, "func_native", IO2),
      Prog("func_add" :> FuncAdd, "func_add", IO2),
      Prog(("func_fail" :> FuncFail) @@ ("fail" :> Fail), "func_fail", IO2) }

(* fn func_reffield(io: &mut IO) { let x = 2u8; let t = (1u8, &x); io.0 = *t.1; } *)
FuncRefField == Fn(<<Unit, RefTo(IO2), U8, Tup(<<U8, RefTo(U8)>>)>>,
                   <<Blk(<<SStore(L(2), C(2)), SStore(P(3, <<0>>), C(1)), SMkRef(P(3, <<1>>), L(2)),
                           SStore(P(1, <<Deref, 0>>), P(3, <<1, Deref>>))>>, SRet)>>)

RefFieldPrograms == {Prog("func_reffield" :> FuncRefField, "func_reffield", IO2)}

(***************************************************************************)
(* Lowering places to IPlaces, body by body.                               *)
(***************************************************************************)
LowerStmt(ds, s) ==
    IF s.st \in {"Store", "MkRef"}
    THEN [s EXCEPT !.dest = LowerPlace(ds, @), !.src = LowerOperand(ds, @)]
    ELSE s

LowerTerm(ds, t) ==
    IF t.term = "Call"
    THEN [t EXCEPT !.args = [i \in DOMAIN @ |-> LowerOperand(ds, @[i])],
                   !.dest = IF @ = None THEN None
                            ELSE [@ EXCEPT !.place = LowerPlace(ds, @)]]
    ELSE t

LowerBody(b) ==
    [b EXCEPT !.blocks = [i \in DOMAIN @ |->
                            [stmts |-> [j \in DOMAIN @[i].stmts |-> LowerStmt(b.decls, @[i].stmts[j])],
                             term |-> LowerTerm(b.decls, @[i].term)]]]

LowerProgram(p) == [p EXCEPT !.bodies = [s \in DOMAIN @ |-> LowerBody(@[s])]]

StructPrograms == TestPrograms
MCPrograms == {LowerProgram(p) : p \in StructPrograms}
MCRefFieldPrograms == {LowerProgram(p) : p \in RefFieldPrograms}

(***************************************************************************)
(* Refinement: memory read through the layout holds SirEval's values.     *)
(***************************************************************************)
StructOf == [p \in MCPrograms \cup MCRefFieldPrograms |->
                CHOOSE sp \in StructPrograms \cup RefFieldPrograms : LowerProgram(sp) = p]

SLoc(aid, l, path) == [aid |-> aid, local |-> l, path |-> path]

FrameOf(aid) == CHOOSE f \in Range(frames) : f.aid = aid
RootDecl(aid, l) == IF aid = 0 THEN program.io ELSE Decls(FrameOf(aid))[l + 1]
SLocTy(loc) == PathTy(RootDecl(loc.aid, loc.local), loc.path)

(* Every location of the trace inputs and of the live frames, with PathsOf
   giving either all paths or only those to a scalar. *)
LiveLocs(PathsOf(_)) ==
    {SLoc(0, 0, p) : p \in PathsOf(program.io)}
    \cup UNION {UNION {{SLoc(f.aid, l, p) : p \in PathsOf(Decls(f)[l + 1])} :
                       l \in 0..(Len(Decls(f)) - 1)} : f \in Range(frames)}

AddrOf(loc) ==
    IF loc.aid = 0 THEN <<0, PathOff(program.io, loc.path)>>
    ELSE <<loc.aid, LocalOff(Decls(FrameOf(loc.aid)), loc.local)
                    + PathOff(RootDecl(loc.aid, loc.local), loc.path)>>

(* The location of type t at address a, else the object that starts at a
   (set_trace_inputs writes the io pointer whatever $1's type is); a
   pointer to anything else is wild. *)
LocAt(a, t) ==
    LET at == {loc \in LiveLocs(Paths) : AddrOf(loc) = a}
        typed == {loc \in at : SLocTy(loc) = t}
        roots == {loc \in at : loc.path = <<>>}
    IN CASE typed # {} -> CHOOSE loc \in typed : TRUE
         [] roots # {} -> CHOOSE loc \in roots : TRUE
         [] OTHER -> [wild |-> a]

Decode(c, t) == IF c.k = "ptr" /\ t.k = "ref" THEN [c EXCEPT !.a = LocAt(c.a, t.to)] ELSE c

AbsVals == [loc \in LiveLocs(Leaves) |-> Decode(mem[AddrOf(loc)], SLocTy(loc))]

(* A resume point's destination is the place of the Call it came from. *)
UnLower(sym, ip) ==
    LET b == StructOf[program].bodies[sym]
        calls == {k \in DOMAIN b.blocks : b.blocks[k].term.term = "Call"}
    IN CHOOSE pl \in {b.blocks[k].term.dest.place : k \in calls} : LowerPlace(b.decls, pl) = ip

AbsReturns == [i \in DOMAIN returns |->
                 IF returns[i] = None THEN None
                 ELSE [place |-> UnLower(frames[i].sym, returns[i].place), bb |-> returns[i].bb]]

Abs == INSTANCE SirEval WITH program <- StructOf[program], vals <- AbsVals,
                             returns <- AbsReturns, Programs <- StructPrograms

(* interpret implements SirEval: every iteration on bytes is an iteration of
   the typed interpreter on the values the bytes encode, with the same
   faults, and the frame stack, resume points and bbidx agree. *)
ImplementsSirEval == Abs!Spec

(* The same refinement for the program that keeps a reference in a tuple. *)
AbsRF == INSTANCE SirEval WITH program <- StructOf[program], vals <- AbsVals,
                               returns <- AbsReturns, Programs <- RefFieldPrograms
RefFieldImplementsSirEval == AbsRF!Spec

=============================================================================
