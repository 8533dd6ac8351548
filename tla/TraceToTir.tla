----------------------------- MODULE TraceToTir -----------------------------
(***************************************************************************)
(* A program runs under the tracer (SirRecorder); when stop_tracing has    *)
(* been called, TirTrace::new lowers the recorded locations (TirTrace).    *)
(* The properties compare the TIR trace with the run that was recorded:    *)
(* the ghost facts of the recorder say which activation executed each      *)
(* block and which value each branch observed.                             *)
(***************************************************************************)
EXTENDS Integers, Sequences, SequencesExt, FiniteSets, Sir

CONSTANTS Programs, StartSym, StopSym, DiscrVals, MaxTraceLen, MaxActs

VARIABLES program, rstack, phase, sirtrace, acts,
          pos, ops, stack, offset, acc, returns, used_decls, trace_inputs_local, status

lowvars == <<pos, ops, stack, offset, acc, returns, used_decls, trace_inputs_local, status>>

Rec == INSTANCE SirRecorder
Low == INSTANCE TirTrace

vars == <<program, rstack, phase, sirtrace, acts,
          pos, ops, stack, offset, acc, returns, used_decls, trace_inputs_local, status>>

Init == Rec!Init /\ Low!Init

(***************************************************************************)
(* The program runs until stop_tracing returns control to the test; then  *)
(* the trace is lowered.  Each step of either part is an action here.      *)
(***************************************************************************)
recvars == <<program, rstack, phase, sirtrace, acts>>

ExecGoto == Rec!ExecGoto /\ UNCHANGED lowvars
ExecSwitch == Rec!ExecSwitch /\ UNCHANGED lowvars
ExecAssert == Rec!ExecAssert /\ UNCHANGED lowvars
ExecCall == Rec!ExecCall /\ UNCHANGED lowvars
ExecNativeCall == Rec!ExecNativeCall /\ UNCHANGED lowvars
ExecCallback == Rec!ExecCallback /\ UNCHANGED lowvars
StartTracing == Rec!StartTracing /\ UNCHANGED lowvars
StopTracing == Rec!StopTracing /\ UNCHANGED lowvars
ExecReturn == Rec!ExecReturn /\ UNCHANGED lowvars

ProcessLoc == Rec!Recorded /\ Low!ProcessLoc /\ UNCHANGED <<rstack, phase, acts>>
FailLoc == Rec!Recorded /\ Low!FailLoc /\ UNCHANGED <<rstack, phase, acts>>
Finish == Rec!Recorded /\ Low!Finish /\ UNCHANGED <<rstack, phase, acts>>
FailTrim == Rec!Recorded /\ Low!FailTrim /\ UNCHANGED <<rstack, phase, acts>>

Next ==
    \/ ExecGoto \/ ExecSwitch \/ ExecAssert \/ ExecCall \/ ExecNativeCall
    \/ ExecCallback \/ StartTracing \/ StopTracing \/ ExecReturn
    \/ ProcessLoc \/ FailLoc \/ Finish \/ FailTrim

Spec == Init /\ [][Next]_vars

(* TirTrace::new is a plain loop over the recorded locations followed by
   the trimming: once stop_tracing has returned, a step of it that is
   enabled is taken.  The traced program itself gets no fairness: it may
   stop anywhere within the bounds. *)
FairSpec == Spec /\ WF_vars(ProcessLoc \/ FailLoc \/ Finish \/ FailTrim)

TypeOK == Low!TypeOK

(***************************************************************************)
(* Reference renaming.  Every activation the trace enters gets a fresh     *)
(* range of locals: the outermost activation (the one of the first         *)
(* location) starts at 0, each later one right after all the ranges of    *)
(* the outermost and of the activations begun before it.  A callee's      *)
(* return slot $0 is the caller's destination place, with $0's own        *)
(* projections applied to it.                                              *)
(***************************************************************************)
Outer == sirtrace[1].act
ActBody(a) == program.code[acts[a].sym]
NL(a) == NumLocals(ActBody(a))
RecActs == {sirtrace[i].act : i \in DOMAIN sirtrace} \ {Outer}

Base(a) ==
    IF a = Outer THEN 0
    ELSE NL(Outer) + MapThenSumSet(NL, {b \in RecActs : b < a})

(* The range an Enter for a call that begins no recorded activation gets. *)
Fresh == NL(Outer) + MapThenSumSet(NL, RecActs)

RECURSIVE Denote(_, _)
Denote(a, p) ==
    IF p.local = 0 /\ a # Outer /\ acts[a].via = None
    THEN LET d == Denote(acts[a].parent, acts[a].dest)
         IN [d EXCEPT !.proj = @ \o p.proj]
    ELSE [p EXCEPT !.local = Base(a) + @]

DenoteArgs(a, os) ==
    [i \in DOMAIN os |-> IF IsPlaceOp(os[i]) THEN Denote(a, os[i]) ELSE os[i]]

(* The SIR block, statement and terminator an op was made from. *)
SrcBlock(op) == BlockOf(program.code[sirtrace[op.at].symbol_name], sirtrace[op.at].bb_idx)
SrcStmt(op) == SrcBlock(op).stmts[op.k]
SrcTerm(op) == SrcBlock(op).term
ActOf(op) == sirtrace[op.at].act

IsStmtOp(op) == "stmt" \in DOMAIN op
IsGuardOp(op) == "guard" \in DOMAIN op

StmtDenotes(op) ==
    LET a == ActOf(op)
        s == op.stmt
    IN CASE s.st = "Assign" ->
              /\ s.place = Denote(a, SrcStmt(op).place)
              /\ s.rvalue.ops = DenoteArgs(a, SrcStmt(op).rvalue.ops)
         [] s.st \in {"StorageLive", "StorageDead"} ->
              s.local = Base(a) + SrcStmt(op).local
         [] s.st \in {"Enter", "Call"} ->
              /\ s.dest = Denote(a, SrcTerm(op).dest.place)
              /\ s.args = DenoteArgs(a, SrcTerm(op).args)
              /\ s.st = "Enter" =>
                   s.off = IF sirtrace[op.at].child = 0 THEN Fresh
                           ELSE Base(sirtrace[op.at].child)
         [] OTHER -> TRUE

(***************************************************************************)
(* Alpha-renaming and $0 substitution (VarRenamer, tir.rs:261-401): every  *)
(* place of every statement, Enter and native Call in the TIR trace names  *)
(* the variable the reference renaming gives the place it was made from,   *)
(* in the activation that executed it, and every Enter carries the offset  *)
(* of the activation it opens.  This is what makes the straight-line trace *)
(* mean what the recorded run did: no two variables of different           *)
(* activations share a TIR local, and an inlined callee writes its result  *)
(* straight into the caller's destination.                                 *)
(***************************************************************************)
RenamedPlacesDenote ==
    \A i \in DOMAIN ops : IsStmtOp(ops[i]) => StmtDenotes(ops[i])

(***************************************************************************)
(* The guard of a SwitchInt or Assert (tir.rs:155-202) checks the place    *)
(* the branch read, renamed like every other place of its activation.      *)
(***************************************************************************)
GuardsDenote ==
    \A i \in DOMAIN ops :
        IsGuardOp(ops[i]) =>
            LET t == SrcTerm(ops[i])
            IN ops[i].guard.val = Denote(ActOf(ops[i]),
                                         IF t.term = "SwitchInt" THEN t.discr ELSE t.cond)

(***************************************************************************)
(* Guard fidelity (tir.rs:163-197): every guard holds of the value its     *)
(* branch observed in the recorded run, so replaying the trace on the      *)
(* same input never fails a guard.                                         *)
(***************************************************************************)
Holds(g, v) ==
    CASE g.kind = "Integer" -> v = g.arg
      [] g.kind = "OtherInteger" -> \A j \in DOMAIN g.arg : g.arg[j] # v
      [] g.kind = "Boolean" -> v = g.arg

GuardsHoldOnRecordedRun ==
    \A i \in DOMAIN ops :
        IsGuardOp(ops[i]) => Holds(ops[i].guard, sirtrace[ops[i].at].val)

(***************************************************************************)
(* Local declarations (VarRenamer::used_decl, tir.rs:111-123, 393-400):    *)
(* every TIR local a statement defines or uses, including the argument     *)
(* slots an Enter defines, has a declaration, and each declaration is the  *)
(* one of the variable that TIR local stands for.                          *)
(***************************************************************************)
Frames ==
    {<<Base(a), ActBody(a)>> : a \in RecActs \cup {Outer}}
        \cup {<<Fresh, program.code[StopSym]>>}

DeclIsOfItsVariable(r) ==
    \E f \in Frames :
        \E l \in 0..(NumLocals(f[2]) - 1) :
            f[1] + l = r /\ used_decls[r] = DeclOf(f[2], l)

(* Statement::referenced_locals (types.rs:452-511). *)
ReferencedLocals(s) ==
    CASE s.st = "Assign" ->
           {p.local : p \in {s.place} \cup PlacesOf(s.rvalue.ops)}
      [] s.st = "Enter" -> {s.off + j : j \in 1..Len(s.args)}
      [] s.st = "Call" -> {s.dest.local} \cup {p.local : p \in PlacesOf(s.args)}
      [] OTHER -> {}

TraceLocalsDeclared ==
    /\ \A r \in DOMAIN used_decls : DeclIsOfItsVariable(r)
    /\ \A i \in DOMAIN ops :
         IsStmtOp(ops[i]) => ReferencedLocals(ops[i].stmt) \subseteq DOMAIN used_decls

(***************************************************************************)
(* Trimming (tir.rs:205-235): a delivered trace is a well-nested           *)
(* straight-line program, every Enter closed by its Leave; the Enter of    *)
(* stop_tracing, left open by the recording, is gone.                      *)
(***************************************************************************)
Depth(n) ==
    Cardinality({j \in 1..n : IsStmtOp(ops[j]) /\ ops[j].stmt.st = "Enter"})
        - Cardinality({j \in 1..n : IsStmtOp(ops[j]) /\ ops[j].stmt.st = "Leave"})

DeliveredTraceBalanced ==
    status = "done" =>
        /\ \A n \in 0..Len(ops) : Depth(n) >= 0
        /\ Depth(Len(ops)) = 0

(***************************************************************************)
(* Trimming as the specification states it: a trace whose stop_tracing    *)
(* call site ends with three StorageDead, Assign(_, false) and an Assign  *)
(* (the shape spec.md section 4.2 documents) is trimmed, not rejected.     *)
(* tir.rs:225-230 pops StorageLive.                                        *)
(***************************************************************************)
StopSiteAsSpecified ==
    LET ss == SrcBlock([at |-> Len(sirtrace)]).stmts
        n == Len(ss)
    IN /\ n >= 5
       /\ \A j \in (n - 4)..(n - 2) : ss[j].st = "StorageDead"
       /\ ss[n - 1].st = "Assign" /\ ss[n - 1].rvalue = Use(Const(FALSE))
       /\ ss[n].st = "Assign"

SpecShapedTraceTrimmed ==
    Len(sirtrace) > 0 /\ StopSiteAsSpecified => status # "TrimShape"

(***************************************************************************)
(* Scope balance (VarRenamer::enter/leave, tir.rs:314-337, and the peek of *)
(* tir.rs:172): when tracing stops in the activation that started it, the  *)
(* lowering ends, and not by the "Unbalanced enter/leave" panic of leave() *)
(* or the "no block to peek at" panic: every Return it meets closes a      *)
(* scope an Enter opened, and no SwitchInt is the last location.           *)
(***************************************************************************)
StoppedWhereStarted ==
    Len(sirtrace) > 0 /\ sirtrace[1].act = sirtrace[Len(sirtrace)].act

LoweringEndsBalanced ==
    Rec!Recorded /\ StoppedWhereStarted
        ~> status \notin {"running", "Unbalanced", "NoBlockToPeek"}

(***************************************************************************)
(* Trimming removes only bookkeeping (tir.rs:204-235: "to be sure we don't *)
(* remove something important"): a delivered trace holds no op made from  *)
(* the stop_tracing call-site block, and every statement of every other   *)
(* recorded block except the first statement of the first one (the       *)
(* start_tracing StorageDead).                                             *)
(***************************************************************************)
Made(p, k) == \E i \in DOMAIN ops : ops[i].at = p /\ ops[i].k = k

TrimmedOnlyBookkeeping ==
    status = "done" =>
        /\ \A i \in DOMAIN ops : ops[i].at < Len(sirtrace) /\ <<ops[i].at, ops[i].k>> # <<1, 1>>
        /\ \A p \in 1..(Len(sirtrace) - 1) :
             \A k \in DOMAIN SrcBlock([at |-> p]).stmts : <<p, k>> # <<1, 1>> => Made(p, k)

(***************************************************************************)
(* Trace inputs (tir.rs:46, hwt/mod.rs:26-30; spec.md 4.2 step 2:         *)
(* "last writer wins; in practice stable across one trace because all      *)
(* inlined frames share the same outer input"): a delivered TIR trace      *)
(* names as its inputs local the one HWTSirTrace::input gives for the same *)
(* recorded trace, the trace-inputs local of its first location's body,    *)
(* and input() does not panic.                                             *)
(***************************************************************************)
InputsLocalIsTraceInput ==
    status = "done" => Rec!Input # None /\ trace_inputs_local = Rec!Input

=============================================================================
