-------------------------------- MODULE Ykbh --------------------------------
(***************************************************************************)
(* The SIR interpreter (src/ykbh/src/lib.rs): SIRInterpreter::new,         *)
(* set_trace_inputs and interpret, over raw memory.                        *)
(*                                                                         *)
(* Memory is one function from addresses to cells.  An address is         *)
(* <<allocation, byte offset>>; the trace inputs object the caller passes  *)
(* is allocation 0, and each StackFrame is an allocation numbered in    *)
(* the order create_frame made it.  alloc returns uninitialised memory    *)
(* (Undef cells); dealloc removes the allocation, so an access to a freed  *)
(* frame, like one outside an allocation or through a cell that holds no   *)
(* pointer, is undefined behaviour and stops the model in status "UB".    *)
(*                                                                         *)
(* One step is one iteration of the interpret loop: the statements of the  *)
(* current block in order, then its terminator.                            *)
(***************************************************************************)
EXTENDS Naturals, Sequences, SequencesExt, Layout

CONSTANTS
    None,
    UnknownCallee,  \* CallOperand::Unknown
    Programs,       \* [bodies: symbol -> body, entry: symbol, io: type]
    ByteVals,       \* the byte values the trace inputs can start with
    MaxAllocs       \* bound on the frames create_frame makes

VARIABLES
    program,  \* the SIR.bodies the interpreter looks callees up in, and the entry
    mem,      \* address -> cell
    frames,   \* SIRInterpreter.frames (with the body of each: `bodies`)
    returns,  \* interpret's `returns`: destination place and block, or None
    bbidx,    \* SIRInterpreter.bbidx
    allocs,   \* allocations create_frame has made
    status    \* "init", "running", "done", or why interpretation stopped

vars == <<program, mem, frames, returns, bbidx, allocs, status>>

Undef == [k |-> "undef"]
Byte(v) == [k |-> "byte", v |-> v]
Ptr(a) == [k |-> "ptr", a |-> a]

Faults == {"Unsupported", "NoSir", "UB"}

Decls(fr) == program.bodies[fr.sym].decls
Top == frames[Len(frames)]

TypeOK ==
    /\ \A a \in DOMAIN mem :
         a[1] \in 0..allocs /\ mem[a].k \in {"undef", "byte", "ptr"}
    /\ frames \in Seq([aid : 1..allocs, sym : DOMAIN program.bodies])
    /\ Len(returns) = Len(frames) - 1
    /\ bbidx \in Nat
    /\ status \in {"init", "running", "done"} \cup Faults

(***************************************************************************)
(* StackFrame                                                              *)
(***************************************************************************)
Cells(a, n) == {<<a[1], a[2] + i>> : i \in 0..(n - 1)}

(* create_frame: layout-sized, uninitialised. *)
CreateFrame(aid, sym) ==
    [a \in Cells(<<aid, 0>>, FrameSize(program.bodies[sym].decls)) |-> Undef]

LocalPtr(fr, l) == <<fr.aid, LocalOff(Decls(fr), l)>>

(* The cell an Indirect's pointer is read from: the start of ptr.local. *)
PtrCell(fr, ip) == LocalPtr(fr, ip.ptr.local)

IplaceToPtr(m, fr, ip) ==
    IF ip.ip = "Val" THEN <<fr.aid, LocalPtr(fr, ip.local)[2] + ip.off>>
    ELSE LET p == m[PtrCell(fr, ip)].a
         IN <<p[1], p[2] + ip.ptr.off + ip.off>>

(* iplace_to_ptr is defined, and n bytes from the address are allocated. *)
Accessible(m, fr, ip, n) ==
    /\ ip.ip = "Indirect" => PtrCell(fr, ip) \in DOMAIN m /\ m[PtrCell(fr, ip)].k = "ptr"
    /\ Cells(IplaceToPtr(m, fr, ip), n) \subseteq DOMAIN m

(* write_val: ptr::copy of n cells, overlapping ranges allowed. *)
WriteVal(m, dst, src, n) ==
    [a \in DOMAIN m |->
        IF a \in Cells(dst, n) THEN m[<<src[1], src[2] + (a[2] - dst[2])>>] ELSE m[a]]

(* write_const: a u8 is written, a zero-sized tuple is nothing, the rest is todo!. *)
ConstSupported(c) == c.ty = U8 \/ (c.ty.k = "tuple" /\ Size(c.ty) = 0)

WriteConst(m, dst, c) == IF c.ty = U8 THEN [m EXCEPT ![dst] = Byte(c.val)] ELSE m

(* StackFrame::store: copies the size of the source's type. *)
StoreFault(m, fr, dest, src) ==
    CASE src.ip # "Const" /\ ~Accessible(m, fr, src, Size(src.ty)) -> "UB"
      [] ~Accessible(m, fr, dest, Size(src.ty)) -> "UB"
      [] src.ip = "Const" /\ ~ConstSupported(src) -> "Unsupported"
      [] OTHER -> "none"

(* Mutant: one cell is copied, whatever the size of the source's type. *)
StoreOneCell(m, fr, dest, src) ==
    IF src.ip = "Const" THEN WriteConst(m, IplaceToPtr(m, fr, dest), src)
    ELSE WriteVal(m, IplaceToPtr(m, fr, dest), IplaceToPtr(m, fr, src), 1)

Store(m, fr, dest, src) ==
    IF src.ip = "Const" THEN WriteConst(m, IplaceToPtr(m, fr, dest), src)
    ELSE WriteVal(m, IplaceToPtr(m, fr, dest), IplaceToPtr(m, fr, src), Size(src.ty))

(* SIRInterpreter::mkref: the address of src, written as a pointer. *)
MkRefFault(m, fr, dest, src) ==
    CASE dest.ip = "Const" \/ src.ip = "Const" -> "Unsupported"
      [] src.ip = "Indirect" /\ ~Accessible(m, fr, src, 0) -> "UB"
      [] ~Accessible(m, fr, dest, 1) -> "UB"
      [] OTHER -> "none"

MkRef(m, fr, dest, src) ==
    [m EXCEPT ![IplaceToPtr(m, fr, dest)] = Ptr(IplaceToPtr(m, fr, src))]

(* One statement of the loop body, on [m, err]. *)
ExecStmt(acc, s) ==
    LET f == CASE s.st = "Nop" -> "none"
               [] s.st = "Store" -> StoreFault(acc.m, Top, s.dest, s.src)
               [] s.st = "MkRef" -> MkRefFault(acc.m, Top, s.dest, s.src)
               [] OTHER -> "Unsupported"
    IN CASE acc.err # "none" -> acc
         [] f # "none" -> [acc EXCEPT !.err = f]
         [] s.st = "Store" -> [acc EXCEPT !.m = Store(acc.m, Top, s.dest, s.src)]
         [] s.st = "MkRef" -> [acc EXCEPT !.m = MkRef(acc.m, Top, s.dest, s.src)]
         [] OTHER -> acc

(* Mutant: argument i goes to local i - 1, as if enumerate's index were the local. *)
CopyArgAt(acc, caller, callee, i, arg) ==
    LET dst == LocalPtr(callee, i - 1)
        f == CASE arg.ip = "Const" /\ ~ConstSupported(arg) -> "Unsupported"
               [] arg.ip # "Const" /\ ~Accessible(acc.m, caller, arg, Size(arg.ty)) -> "UB"
               [] ~(Cells(dst, Size(arg.ty)) \subseteq DOMAIN acc.m) -> "UB"
               [] OTHER -> "none"
    IN CASE acc.err # "none" -> acc
         [] f # "none" -> [acc EXCEPT !.err = f]
         [] arg.ip = "Const" -> [acc EXCEPT !.m = WriteConst(acc.m, dst, arg)]
         [] OTHER ->
              [acc EXCEPT !.m = WriteVal(acc.m, dst, IplaceToPtr(acc.m, caller, arg), Size(arg.ty))]

(* copy_args: argument i (enumerate's i - 1) goes to local i of the new frame. *)
CopyArg(acc, caller, callee, i, arg) ==
    LET dst == LocalPtr(callee, i)
        f == CASE arg.ip = "Const" /\ ~ConstSupported(arg) -> "Unsupported"
               [] arg.ip # "Const" /\ ~Accessible(acc.m, caller, arg, Size(arg.ty)) -> "UB"
               [] ~(Cells(dst, Size(arg.ty)) \subseteq DOMAIN acc.m) -> "UB"
               [] OTHER -> "none"
    IN CASE acc.err # "none" -> acc
         [] f # "none" -> [acc EXCEPT !.err = f]
         [] arg.ip = "Const" -> [acc EXCEPT !.m = WriteConst(acc.m, dst, arg)]
         [] OTHER ->
              [acc EXCEPT !.m = WriteVal(acc.m, dst, IplaceToPtr(acc.m, caller, arg), Size(arg.ty))]

CopyArgs(acc, args, caller, callee) ==
    FoldLeft(LAMBDA a, i : CopyArg(a, caller, callee, i, args[i]), acc, [i \in 1..Len(args) |-> i])

(***************************************************************************)
(* The interpreter                                                         *)
(***************************************************************************)
Block == program.bodies[Top.sym].blocks[bbidx + 1]
AfterStmts == FoldLeft(ExecStmt, [m |-> mem, err |-> "none"], Block.stmts)

(* SIRInterpreter::new(body), then set_trace_inputs(&mut io). *)
Init ==
    /\ program \in Programs
    /\ \E io \in [0..(Size(program.io) - 1) -> ByteVals] :
         LET frame == CreateFrame(1, program.entry)
             fr == [aid |-> 1, sym |-> program.entry]
         IN mem = [a \in DOMAIN frame |-> IF a = LocalPtr(fr, 1) THEN Ptr(<<0, 0>>)
                                            ELSE frame[a]]
                  @@ [a \in {<<0, i>> : i \in DOMAIN io} |-> Byte(io[a[2]])]
    /\ frames = <<[aid |-> 1, sym |-> program.entry]>>
    /\ returns = <<>>
    /\ bbidx = 0
    /\ allocs = 1
    /\ status = "init"

(* interpret(body) on a body flagged TRACE_DEBUG returns at once. *)
SkipTraceDebug ==
    /\ status = "init"
    /\ "trace_debug" \in program.bodies[program.entry].flags
    /\ status' = "done"
    /\ UNCHANGED <<program, mem, frames, returns, bbidx, allocs>>

StartInterpret ==
    /\ status = "init"
    /\ "trace_debug" \notin program.bodies[program.entry].flags
    /\ status' = "running"
    /\ UNCHANGED <<program, mem, frames, returns, bbidx, allocs>>

(* The frame Terminator::Call pushes, with the arguments copied into it. *)
CalleeFrame == [aid |-> allocs + 1, sym |-> Block.term.callee]

CallResult ==
    CopyArgs([AfterStmts EXCEPT !.m = @ @@ CreateFrame(allocs + 1, Block.term.callee)],
             Block.term.args, Top, CalleeFrame)

(* Terminator::Return from a call copies the callee's $0 to the destination
   in the caller's frame, with the size of the destination's type. *)
Caller == frames[Len(frames) - 1]

ReturnOk(m, r) ==
    r # None => /\ Accessible(m, Caller, r.place, Size(r.place.ty))
                /\ Cells(LocalPtr(Top, 0), Size(r.place.ty)) \subseteq DOMAIN m

(* The first failure of the current iteration, in code order. *)
BlockFault ==
    LET t == Block.term
    IN CASE AfterStmts.err # "none" -> AfterStmts.err
         [] t.term = "Call" /\ t.callee = UnknownCallee -> "Unsupported"
         [] t.term = "Call" /\ t.callee \notin DOMAIN program.bodies -> "NoSir"
         [] t.term = "Call" /\ CallResult.err # "none" -> CallResult.err
         [] t.term = "Return" /\ returns # <<>> /\ ~ReturnOk(AfterStmts.m, Last(returns)) -> "UB"
         [] t.term \notin {"Call", "Return"} -> "Unsupported"
         [] OTHER -> "none"

(* Statements, then Terminator::Call: push a frame for the callee, with
   the arguments copied, and resume at its first block. *)
ExecCall ==
    /\ status = "running"
    /\ Block.term.term = "Call"
    /\ BlockFault = "none"
    /\ allocs < MaxAllocs
    /\ mem' = CallResult.m
    /\ frames' = Append(frames, CalleeFrame)
    /\ bbidx' = 0
    /\ returns' = Append(returns, Block.term.dest)
    /\ allocs' = allocs + 1
    /\ UNCHANGED <<program, status>>

(* Mutant: the resume point is read, not popped. *)
PopCallPeek == /\ frames' = Front(frames) /\ returns' = returns

(* returns.pop() and self.frames.pop(). *)
PopCall == /\ frames' = Front(frames) /\ returns' = Front(returns)

(* Mutant: the popped frame is never freed. *)
FreeFrameLeak(m) == m

(* oldframe goes out of scope: Drop deallocates the callee's memory. *)
FreeFrame(m) == [a \in {x \in DOMAIN m : x[1] # Top.aid} |-> m[a]]

(* Mutant: the caller resumes at the block it was in. *)
ResumeAtStale(r) == bbidx

(* self.bbidx = bbidx, only for a call with a destination. *)
ResumeAt(r) == IF r = None THEN bbidx ELSE r.bb

(* Statements, then Terminator::Return from a call: copy $0 out, resume the
   caller at the destination block, free the callee's frame.  A call with
   no destination (a diverging callee) leaves bbidx as it is. *)
ExecReturn ==
    /\ status = "running"
    /\ Block.term.term = "Return"
    /\ returns # <<>>
    /\ BlockFault = "none"
    /\ LET r == Last(returns)
           m == AfterStmts.m
           copied == IF r = None THEN m
                     ELSE WriteVal(m, IplaceToPtr(m, Caller, r.place), LocalPtr(Top, 0),
                                   Size(r.place.ty))
       IN /\ mem' = FreeFrame(copied)
          /\ bbidx' = ResumeAt(r)
    /\ PopCall
    /\ UNCHANGED <<program, allocs, status>>

(* Statements, then Terminator::Return with no outstanding call: done. *)
ExecFinalReturn ==
    /\ status = "running"
    /\ Block.term.term = "Return"
    /\ returns = <<>>
    /\ BlockFault = "none"
    /\ mem' = AfterStmts.m
    /\ status' = "done"
    /\ UNCHANGED <<program, frames, returns, bbidx, allocs>>

(* An iteration that panics (todo!, unwrap on a missing body) or whose
   memory accesses are undefined. *)
FailBlock ==
    /\ status = "running"
    /\ BlockFault # "none"
    /\ status' = BlockFault
    /\ UNCHANGED <<program, mem, frames, returns, bbidx, allocs>>

Next ==
    \/ SkipTraceDebug \/ StartInterpret
    \/ ExecCall \/ ExecReturn \/ ExecFinalReturn \/ FailBlock

(* The interpreter is a sequential loop: each iteration that is enabled runs. *)
Spec == Init /\ [][Next]_vars /\ WF_vars(Next)

(***************************************************************************)
(* Properties                                                              *)
(***************************************************************************)

(* Frame ownership (StackFrame, Drop): the allocated memory is exactly the
   trace inputs and one allocation of its body's layout size per frame on
   the stack; the frame Terminator::Return pops is freed, and no other. *)
FrameMemoryOwned ==
    DOMAIN mem = Cells(<<0, 0>>, Size(program.io))
                 \cup UNION {Cells(<<f.aid, 0>>, FrameSize(Decls(f))) : f \in Range(frames)}

(* No iteration of interpret reads a pointer from a cell that holds none,
   or accesses memory outside the allocations that are live. *)
NoUndefinedBehaviour == status # "UB"

(* create_frame (lib.rs:145-150) hands the body's layout to alloc, which
   GlobalAlloc documents as undefined behaviour for a zero-size layout:
   every frame on the stack takes at least one byte. *)
FramesNonEmpty == \A f \in Range(frames) : FrameSize(Decls(f)) > 0

(* interpret returns or aborts: every run ends in "done" or a fault. *)
Terminates == <>(status \in {"done"} \cup Faults)

=============================================================================
