------------------------------ MODULE TirTrace ------------------------------
(***************************************************************************)
(* TirTrace::new and its VarRenamer (src/yktrace/src/tir.rs): lowering a   *)
(* recorded sequence of SIR locations into a TIR trace.                    *)
(*                                                                         *)
(* One ProcessLoc step is one iteration of the `while let Some(loc)` loop: *)
(* the block's statements are renamed and appended, the terminator adds an *)
(* Enter, a native Call or a Leave and moves the renamer, and a guard is   *)
(* derived from the terminator.  An iteration that fails (no SIR, a panic) *)
(* is FailLoc.  Finish is the code after the loop: the fixed-shape trim of *)
(* the start_tracing/stop_tracing remnants.                                *)
(*                                                                         *)
(* Each TIR op carries two ghost fields the code does not have: `at`, the  *)
(* index of the location that emitted it, and `k`, the index of the        *)
(* statement it was renamed from (0 for ops made from the terminator).     *)
(***************************************************************************)
EXTENDS Naturals, Sequences, SequencesExt, TLC, Sir

CONSTANT StopSym     \* the symbol `stop_tracing` names

VARIABLES
    program,     \* input: the program; program.sir is SIR.bodies
    sirtrace     \* input: the recorded locations (SirTrace)

VARIABLES
    pos,                 \* index of the next location `itr` yields
    ops,                 \* TirTrace.ops being built
    stack,               \* VarRenamer.stack: offsets of the open inlined calls
    offset,              \* VarRenamer.offset
    acc,                 \* VarRenamer.acc: None until init_acc
    returns,             \* VarRenamer.returns: destinations replacing $0
    used_decls,          \* VarRenamer.used_decls: renamed local -> LocalDecl
    trace_inputs_local,  \* TirTrace.trace_inputs_local
    status               \* "running", "done", or why TirTrace::new failed

lowvars == <<pos, ops, stack, offset, acc, returns, used_decls,
             trace_inputs_local, status>>

Faults == {"NoSir", "NoReturnValue", "CallWithoutDestination", "UnknownCallee",
           "Unbalanced", "TracedUnreachable", "NoBlockToPeek", "TrimShape"}

SirBody(s) == program.code[s]

TypeOK ==
    /\ pos \in 1..(Len(sirtrace) + 1)
    /\ stack \in Seq(Nat) /\ offset \in Nat
    /\ acc \in Nat \cup {None}
    /\ DOMAIN used_decls \subseteq Nat
    /\ status \in {"running", "done"} \cup Faults

(***************************************************************************)
(* VarRenamer, as functions of the renamer state (off = offset, rets =     *)
(* returns); the used_decl side effect is the Decls operators below.       *)
(***************************************************************************)
(* Mutant: the shift subtracted instead of added. *)
RenameLocalSub(l, off) == l - off

RenameLocal(l, off) == l + off

RenamePlace(p, off, rets) ==
    IF p.local = 0
    THEN rets[Len(rets)]
    ELSE [p EXCEPT !.local = RenameLocal(@, off)]

RenameOperand(o, off, rets) ==
    IF IsPlaceOp(o) THEN RenamePlace(o, off, rets) ELSE o

RenameArgs(os, off, rets) == [i \in DOMAIN os |-> RenameOperand(os[i], off, rets)]

RenameRvalue(r, off, rets) == [r EXCEPT !.ops = RenameArgs(@, off, rets)]

RenameStmt(s, off, rets) ==
    CASE s.st = "Assign" ->
           [s EXCEPT !.place = RenamePlace(@, off, rets),
                     !.rvalue = RenameRvalue(@, off, rets)]
      [] s.st \in {"StorageLive", "StorageDead"} ->
           [s EXCEPT !.local = RenameLocal(@, off)]
      [] OTHER -> s

(* The places of a statement that go through rename_place. *)
StmtPlaces(s) ==
    IF s.st = "Assign" THEN {s.place} \cup PlacesOf(s.rvalue.ops) ELSE {}

(* The locals rename_local is called on (and so used_decl records). *)
StmtLocals(s) ==
    IF s.st \in {"StorageLive", "StorageDead"} THEN {s.local}
    ELSE {p.local : p \in {q \in StmtPlaces(s) : q.local # 0}}

CallLocals(t) ==
    {p.local : p \in {q \in {t.dest.place} \cup PlacesOf(t.args) : q.local # 0}}

(* Mutant: used_decl keyed by the local before renaming. *)
DeclsUnrenamed(ls, body, off) == [r \in ls |-> DeclOf(body, r)]

(* used_decl for every local in ls of `body`, renamed by off. *)
Decls(ls, body, off) ==
    [r \in {RenameLocal(l, off) : l \in ls} |->
        DeclOf(body, CHOOSE l \in ls : RenameLocal(l, off) = r)]

(***************************************************************************)
(* The first failure an iteration on location i meets, in code order.      *)
(***************************************************************************)
RefsReturnSlot(ps) == \E p \in ps : p.local = 0

LocFault(i) ==
    LET loc == sirtrace[i]
        blk == BlockOf(SirBody(loc.symbol_name), loc.bb_idx)
        t == blk.term
        noret == returns = <<>>
    IN CASE loc.symbol_name \notin program.sir -> "NoSir"
         [] noret /\ \E k \in DOMAIN blk.stmts : RefsReturnSlot(StmtPlaces(blk.stmts[k]))
              -> "NoReturnValue"
         [] t.term = "Call" /\ t.dest = None -> "CallWithoutDestination"
         [] t.term = "Call" /\ noret /\ t.dest.place.local = 0 -> "NoReturnValue"
         [] t.term = "Call" /\ t.callee = UnknownCallee -> "UnknownCallee"
         [] t.term = "Call" /\ noret /\ RefsReturnSlot(PlacesOf(t.args)) -> "NoReturnValue"
         [] t.term = "Return" /\ Len(stack) = 1 -> "Unbalanced"
         [] t.term = "Unreachable" -> "TracedUnreachable"
         [] t.term = "SwitchInt" /\ i = Len(sirtrace) -> "NoBlockToPeek"
         [] OTHER -> "none"

(***************************************************************************)
(* The guard the terminator of location i implies.  A SwitchInt peeks at   *)
(* the next location: the first target equal to its block gives           *)
(* Integer(value), none gives OtherInteger(all values).                    *)
(***************************************************************************)
(* Mutant: the switch guard looks at the current location, not the next. *)
PeekedBlockCur(i) == sirtrace[i].bb_idx

(* itr.peek(): the block of the location after i (LocFault rules out none). *)
PeekedBlock(i) == sirtrace[i + 1].bb_idx

GuardOps(t, i) ==
    CASE t.term = "SwitchInt" ->
           LET next == PeekedBlock(i)
               hit == {j \in DOMAIN t.targets : t.targets[j] = next}
           IN << [guard |-> IF hit = {}
                            THEN [val |-> t.discr, kind |-> "OtherInteger", arg |-> t.values]
                            ELSE [val |-> t.discr, kind |-> "Integer", arg |-> t.values[Min(hit)]],
                  at |-> i, k |-> 0] >>
      [] t.term = "Assert" ->
           << [guard |-> [val |-> t.cond, kind |-> "Boolean", arg |-> t.expected],
               at |-> i, k |-> 0] >>
      [] OTHER -> <<>>

(* Mutant: the accumulator is not advanced past the callee's locals. *)
EnterScopeNoAdvance(acc0, n, dest) ==
    /\ offset' = acc0
    /\ stack' = Append(stack, acc0)
    /\ acc' = acc0
    /\ returns' = Append(returns, dest)

(* Mutant: the offset is not pushed, so the callee's leave pops the caller's. *)
EnterScopeNoPush(acc0, n, dest) ==
    /\ offset' = acc0
    /\ stack' = stack
    /\ acc' = acc0 + n
    /\ returns' = Append(returns, dest)

(* VarRenamer::enter: the callee's locals start at the accumulator, which
   then moves past them; dest will stand for the callee's $0. *)
EnterScope(acc0, n, dest) ==
    /\ offset' = acc0
    /\ stack' = Append(stack, acc0)
    /\ acc' = acc0 + n
    /\ returns' = Append(returns, dest)

(* Mutant: the enclosing offset is not restored. *)
LeaveScopeNoRestore ==
    /\ stack' = Front(stack)
    /\ returns' = IF returns = <<>> THEN <<>> ELSE Front(returns)
    /\ UNCHANGED offset

(* VarRenamer::leave: pop, restore the enclosing offset (the empty-stack
   panic is LocFault's "Unbalanced"). *)
LeaveScope ==
    /\ stack' = Front(stack)
    /\ returns' = IF returns = <<>> THEN <<>> ELSE Front(returns)
    /\ offset' = Last(Front(stack))

Init ==
    /\ pos = 1
    /\ ops = <<>>
    /\ stack = <<0>>
    /\ offset = 0
    /\ acc = None
    /\ returns = <<>>
    /\ used_decls = [r \in {} |-> None]
    /\ trace_inputs_local = None
    /\ status = "running"

(* trace_inputs_local = body.trace_inputs_local, on every iteration. *)
TraceInputs(body) == body.inputs

(* One iteration of the loop over the locations. *)
ProcessLoc ==
    /\ status = "running"
    /\ pos <= Len(sirtrace)
    /\ LocFault(pos) = "none"
    /\ LET loc == sirtrace[pos]
           body == SirBody(loc.symbol_name)
           blk == BlockOf(body, loc.bb_idx)
           t == blk.term
           acc0 == IF acc = None THEN NumLocals(body) ELSE acc       \* init_acc
           Op(s) == [stmt |-> s, at |-> pos, k |-> 0]
           sops == [k \in DOMAIN blk.stmts |->
                      [stmt |-> RenameStmt(blk.stmts[k], offset, returns), at |-> pos, k |-> k]]
           sdecls == Decls(UNION {StmtLocals(blk.stmts[k]) : k \in DOMAIN blk.stmts},
                           body, offset) @@ used_decls
           guards == GuardOps(t, pos)
       IN /\ trace_inputs_local' = TraceInputs(body)
          /\ pos' = pos + 1
          /\ \/ /\ t.term = "Call" /\ t.callee \in program.sir
                \* Inlined call: Enter, then VarRenamer::enter.
                /\ LET ret_val == RenamePlace(t.dest.place, offset, returns)
                       newargs == RenameArgs(t.args, offset, returns)
                       callee == SirBody(t.callee)
                       argdecls == [r \in {acc0 + j : j \in 1..Len(newargs)} |->
                                      DeclOf(callee, r - acc0)]
                   IN /\ EnterScope(acc0, NumLocals(callee), ret_val)
                      /\ used_decls' = argdecls @@ Decls(CallLocals(t), body, offset) @@ sdecls
                      /\ ops' = ops \o sops \o <<Op(Enter(t.callee, newargs, ret_val, acc0))>>
                                \o guards
             \/ /\ t.term = "Call" /\ t.callee \notin program.sir
                \* No SIR for the callee: a native call.
                /\ LET ret_val == RenamePlace(t.dest.place, offset, returns)
                       newargs == RenameArgs(t.args, offset, returns)
                   IN /\ used_decls' = Decls(CallLocals(t), body, offset) @@ sdecls
                      /\ ops' = ops \o sops \o <<Op(NativeCall(t.callee, newargs, ret_val))>>
                                \o guards
                /\ acc' = acc0
                /\ UNCHANGED <<stack, offset, returns>>
             \/ /\ t.term = "Return"
                /\ LeaveScope
                /\ acc' = acc0
                /\ used_decls' = sdecls
                /\ ops' = ops \o sops \o <<Op(Leave)>> \o guards
             \/ /\ t.term \notin {"Call", "Return"}
                /\ acc' = acc0
                /\ used_decls' = sdecls
                /\ ops' = ops \o sops \o guards
                /\ UNCHANGED <<stack, offset, returns>>
    /\ UNCHANGED <<program, sirtrace, status>>

(* An iteration that returns Err(NoSir) or panics. *)
FailLoc ==
    /\ status = "running"
    /\ pos <= Len(sirtrace)
    /\ LocFault(pos) # "none"
    /\ status' = LocFault(pos)
    /\ UNCHANGED <<program, sirtrace, pos, ops, stack, offset, acc, returns,
                   used_decls, trace_inputs_local>>

(***************************************************************************)
(* After the loop: pop the `stop_tracing` Enter, one Assign, one           *)
(* Assign(_, false) and three StorageLive from the tail, remove one        *)
(* StorageDead from the head.  A mismatch panics.  The debug_assert on     *)
(* the callee's name is active in the debug builds the tests use.          *)
(***************************************************************************)
IsStmt(op, kind) == "stmt" \in DOMAIN op /\ op.stmt.st = kind

TrimShapeOk ==
    LET n == Len(ops)
    IN /\ n >= 7
       /\ IsStmt(ops[n], "Enter") /\ ops[n].stmt.callee = StopSym
       /\ IsStmt(ops[n - 1], "Assign")
       /\ IsStmt(ops[n - 2], "Assign") /\ ops[n - 2].stmt.rvalue = Use(Const(FALSE))
       /\ \A j \in (n - 5)..(n - 3) : IsStmt(ops[j], "StorageLive")
       /\ IsStmt(ops[1], "StorageDead")

(* Mutant: the loop pops two StorageLive, not three. *)
TrimmedTwoLive == SubSeq(ops, 2, Len(ops) - 5)

(* The ops left once the stop_tracing tail (six ops) and the head are gone. *)
Trimmed == SubSeq(ops, 2, Len(ops) - 6)

Finish ==
    /\ status = "running"
    /\ pos > Len(sirtrace)
    /\ TrimShapeOk
    /\ ops' = Trimmed
    /\ status' = "done"
    /\ UNCHANGED <<program, sirtrace, pos, stack, offset, acc, returns, used_decls,
                   trace_inputs_local>>

FailTrim ==
    /\ status = "running"
    /\ pos > Len(sirtrace)
    /\ ~TrimShapeOk
    /\ status' = "TrimShape"
    /\ UNCHANGED <<program, sirtrace, pos, ops, stack, offset, acc, returns,
                   used_decls, trace_inputs_local>>

Next == ProcessLoc \/ FailLoc \/ Finish \/ FailTrim

=============================================================================
