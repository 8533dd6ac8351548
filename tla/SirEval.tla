------------------------------- MODULE SirEval -------------------------------
(***************************************************************************)
(* What the SIR interpreter promises (spec.md, "SIR Interpreter"): each    *)
(* body runs as its source does, on typed values.  A location is a local   *)
(* of an activation (or the trace inputs object, activation 0) and a path of        *)
(* fields; a value is stored leaf by leaf, one scalar per leaf; a          *)
(* reference is the location it was taken of.  There are no bytes,         *)
(* offsets or sizes here: Ykbh implements this specification when its      *)
(* memory, read through the layout, always holds these values.             *)
(***************************************************************************)
EXTENDS Naturals, Sequences, SequencesExt, Layout

CONSTANTS None, UnknownCallee, Programs, ByteVals, MaxAllocs

VARIABLES program, vals, frames, returns, bbidx, allocs, status

vars == <<program, vals, frames, returns, bbidx, allocs, status>>

Undef == [k |-> "undef"]
Byte(v) == [k |-> "byte", v |-> v]
Ptr(l) == [k |-> "ptr", a |-> l]

Top == frames[Len(frames)]
Block == program.bodies[Top.sym].blocks[bbidx + 1]

Loc(aid, l, path) == [aid |-> aid, local |-> l, path |-> path]

(* The type of a location of a live activation or of io. *)
RootTy(aid, l) ==
    IF aid = 0 THEN program.io
    ELSE program.bodies[(CHOOSE f \in Range(frames) : f.aid = aid).sym].decls[l + 1]
LocTy(loc) == PathTy(RootTy(loc.aid, loc.local), loc.path)
Live(aid) == aid = 0 \/ \E f \in Range(frames) : f.aid = aid

(* The leaf locations of an activation of body sym. *)
FrameLocs(aid, sym) ==
    LET ds == program.bodies[sym].decls
    IN UNION {{Loc(aid, l, p) : p \in Leaves(ds[l + 1])} : l \in 0..(Len(ds) - 1)}

Under(l, loc) == l.aid = loc.aid /\ l.local = loc.local /\ IsPrefix(loc.path, l.path)
Suffix(l, loc) == SubSeq(l.path, Len(loc.path) + 1, Len(l.path))

(* Follow a place's projections from local place.local of activation fr. *)
RECURSIVE Walk(_, _, _)
Walk(v, loc, proj) ==
    CASE proj = <<>> -> loc
      [] Head(proj) = Deref ->
           IF loc \in DOMAIN v /\ v[loc].k = "ptr" /\ Live(v[loc].a.aid)
           THEN Walk(v, v[loc].a, Tail(proj)) ELSE [bad |-> TRUE]
      [] OTHER -> Walk(v, [loc EXCEPT !.path = @ \o <<Head(proj)>>], Tail(proj))

PlaceLoc(v, fr, p) == Walk(v, Loc(fr.aid, p.local, <<>>), p.proj)
Valid(loc) == "bad" \notin DOMAIN loc

Read(v, loc) == [p \in Leaves(LocTy(loc)) |-> v[[loc EXCEPT !.path = @ \o p]]]
Write(v, loc, x) == [l \in DOMAIN v |-> IF Under(l, loc) THEN x[Suffix(l, loc)] ELSE v[l]]

ConstSupported(c) == c.ty = U8 \/ (c.ty.k = "tuple" /\ Size(c.ty) = 0)
ConstVal(c) == IF c.ty = U8 THEN [p \in {<<>>} |-> Byte(c.const)] ELSE [p \in {} |-> Undef]

IsPlace(o) == "local" \in DOMAIN o

(* The value of an operand, or a fault. *)
OperandFault(v, fr, o) ==
    CASE ~IsPlace(o) /\ ~ConstSupported(o) -> "Unsupported"
      [] IsPlace(o) /\ ~Valid(PlaceLoc(v, fr, o)) -> "UB"
      [] OTHER -> "none"
OperandVal(v, fr, o) == IF IsPlace(o) THEN Read(v, PlaceLoc(v, fr, o)) ELSE ConstVal(o)

ExecStmt(acc, s) ==
    LET fr == Top
        f == CASE s.st = "Nop" -> "none"
               [] s.st = "Store" ->
                    IF ~Valid(PlaceLoc(acc.v, fr, s.dest)) THEN "UB"
                    ELSE OperandFault(acc.v, fr, s.src)
               [] s.st = "MkRef" ->
                    IF Valid(PlaceLoc(acc.v, fr, s.dest)) /\ Valid(PlaceLoc(acc.v, fr, s.src))
                    THEN "none" ELSE "UB"
               [] OTHER -> "Unsupported"
    IN CASE acc.err # "none" -> acc
         [] f # "none" -> [acc EXCEPT !.err = f]
         [] s.st = "Store" ->
              [acc EXCEPT !.v = Write(@, PlaceLoc(@, fr, s.dest), OperandVal(@, fr, s.src))]
         [] s.st = "MkRef" ->
              [acc EXCEPT !.v = [@ EXCEPT ![PlaceLoc(@, fr, s.dest)] =
                                             Ptr(PlaceLoc(acc.v, fr, s.src))]]
         [] OTHER -> acc

AfterStmts == FoldLeft(ExecStmt, [v |-> vals, err |-> "none"], Block.stmts)

(* The callee's parameters are its locals 1..n, set to the arguments. *)
PassArg(acc, caller, aid, i, o) ==
    LET f == OperandFault(acc.v, caller, o)
    IN CASE acc.err # "none" -> acc
         [] f # "none" -> [acc EXCEPT !.err = f]
         [] OTHER -> [acc EXCEPT !.v = Write(@, Loc(aid, i, <<>>), OperandVal(@, caller, o))]

Init ==
    /\ program \in Programs
    /\ \E io \in [0..(Size(program.io) - 1) -> ByteVals] :
         vals = [l \in FrameLocs(1, program.entry) |->
                    IF l.local = 1 THEN Ptr(Loc(0, 0, <<>>)) ELSE Undef]
                @@ [l \in {Loc(0, 0, p) : p \in Leaves(program.io)} |->
                      Byte(io[PathOff(program.io, l.path)])]
    /\ frames = <<[aid |-> 1, sym |-> program.entry]>>
    /\ returns = <<>>
    /\ bbidx = 0
    /\ allocs = 1
    /\ status = "init"

SkipTraceDebug ==
    /\ status = "init"
    /\ "trace_debug" \in program.bodies[program.entry].flags
    /\ status' = "done"
    /\ UNCHANGED <<program, vals, frames, returns, bbidx, allocs>>

StartInterpret ==
    /\ status = "init"
    /\ "trace_debug" \notin program.bodies[program.entry].flags
    /\ status' = "running"
    /\ UNCHANGED <<program, vals, frames, returns, bbidx, allocs>>

Caller == frames[Len(frames) - 1]
CalleeAid == allocs + 1

Passed ==
    LET t == Block.term
        fresh == [AfterStmts EXCEPT !.v = @ @@ [l \in FrameLocs(CalleeAid, t.callee) |-> Undef]]
    IN FoldLeft(LAMBDA a, i : PassArg(a, Top, CalleeAid, i, t.args[i]), fresh,
                [i \in 1..Len(t.args) |-> i])

DestLoc(r) == PlaceLoc(AfterStmts.v, Caller, r.place)

BlockFault ==
    LET t == Block.term
    IN CASE AfterStmts.err # "none" -> AfterStmts.err
         [] t.term = "Call" /\ t.callee = UnknownCallee -> "Unsupported"
         [] t.term = "Call" /\ t.callee \notin DOMAIN program.bodies -> "NoSir"
         [] t.term = "Call" /\ Passed.err # "none" -> Passed.err
         [] t.term = "Return" /\ returns # <<>> /\ Last(returns) # None
              /\ ~Valid(DestLoc(Last(returns))) -> "UB"
         [] t.term \notin {"Call", "Return"} -> "Unsupported"
         [] OTHER -> "none"

Call ==
    /\ status = "running"
    /\ Block.term.term = "Call"
    /\ BlockFault = "none"
    /\ allocs < MaxAllocs
    /\ vals' = Passed.v
    /\ frames' = Append(frames, [aid |-> CalleeAid, sym |-> Block.term.callee])
    /\ bbidx' = 0
    /\ returns' = Append(returns, Block.term.dest)
    /\ allocs' = CalleeAid
    /\ UNCHANGED <<program, status>>

(* The caller's destination takes the callee's $0; the callee's locals end. *)
Return ==
    /\ status = "running"
    /\ Block.term.term = "Return"
    /\ returns # <<>>
    /\ BlockFault = "none"
    /\ LET r == Last(returns)
           v == AfterStmts.v
           v2 == IF r = None THEN v ELSE Write(v, DestLoc(r), Read(v, Loc(Top.aid, 0, <<>>)))
       IN /\ vals' = [l \in {x \in DOMAIN v2 : x.aid # Top.aid} |-> v2[l]]
          /\ bbidx' = IF r = None THEN bbidx ELSE r.bb
    /\ frames' = Front(frames)
    /\ returns' = Front(returns)
    /\ UNCHANGED <<program, allocs, status>>

FinalReturn ==
    /\ status = "running"
    /\ Block.term.term = "Return"
    /\ returns = <<>>
    /\ BlockFault = "none"
    /\ vals' = AfterStmts.v
    /\ status' = "done"
    /\ UNCHANGED <<program, frames, returns, bbidx, allocs>>

Fail ==
    /\ status = "running"
    /\ BlockFault # "none"
    /\ status' = BlockFault
    /\ UNCHANGED <<program, vals, frames, returns, bbidx, allocs>>

Next == SkipTraceDebug \/ StartInterpret \/ Call \/ Return \/ FinalReturn \/ Fail

Spec == Init /\ [][Next]_vars /\ WF_vars(Next)

=============================================================================
