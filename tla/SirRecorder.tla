----------------------------- MODULE SirRecorder -----------------------------
(***************************************************************************)
(* The environment of the lowering: a program whose functions carry SIR    *)
(* runs one basic block per step, and the thread tracer records the        *)
(* (symbol, basic block) location of every block it executes between the  *)
(* return of start_tracing and the call of stop_tracing (yktrace/src/      *)
(* lib.rs, hwt/mod.rs).  The recorded sequence is what TirTrace::new is    *)
(* given; every such sequence is a run the program can really make.       *)
(*                                                                         *)
(* Each location also carries ghost facts the tracer does not deliver and  *)
(* the lowering never reads: the activation that executed the block, the  *)
(* value a SwitchInt or Assert observed, and the activation a call began.  *)
(* The properties of TraceToTir compare the lowering's output with them.   *)
(***************************************************************************)
EXTENDS Naturals, Sequences, SequencesExt, Sir

CONSTANTS
    Programs,     \* candidate programs: [code, sir, entry, callbacks]
    StartSym,     \* start_tracing: tracing begins when it returns
    StopSym,      \* stop_tracing: tracing ends at the block that calls it
    DiscrVals,    \* the values a SwitchInt discriminant can take
    MaxTraceLen,  \* bound on recorded locations
    MaxActs       \* bound on function activations

(***************************************************************************)
(* A program: `code` maps each function with a SIR body to it; `sir` is    *)
(* the subset the SIR section of the binary holds (SIR.bodies); `entry`    *)
(* is the function the thread runs; `callbacks` maps a native function     *)
(* (no body) to the function with a body it calls back, or None.           *)
(***************************************************************************)
ASSUME \A p \in Programs :
    /\ p.sir \subseteq DOMAIN p.code
    /\ p.entry \in DOMAIN p.code
    /\ StopSym \in p.sir

VARIABLES
    program,    \* the program the thread runs
    rstack,     \* its call stack: <<[sym, bb, act]>>, top = Last
    phase,      \* "before" start_tracing returns, "on", "off" after stop
    sirtrace,   \* the recorded locations
    acts        \* ghost: activation id -> [sym, parent, dest, via]

recvars == <<program, rstack, phase, sirtrace, acts>>

Top == rstack[Len(rstack)]
Code(s) == program.code[s]
CurBlock == BlockOf(Code(Top.sym), Top.bb)

(* Continue the current frame at block bb. *)
GoTo(bb) == [rstack EXCEPT ![Len(rstack)].bb = bb]

(* The tracer appends the location of the block being executed. *)
Record(val, child) ==
    sirtrace' = IF phase = "on"
                THEN Append(sirtrace, [symbol_name |-> Top.sym, bb_idx |-> Top.bb,
                                       act |-> Top.act, val |-> val, child |-> child])
                ELSE sirtrace

CanStep ==
    /\ phase # "off"
    /\ phase = "on" => Len(sirtrace) < MaxTraceLen

(* A new activation of function f, entered from the current frame. *)
Activate(f, dest, via, resume) ==
    /\ Len(acts) < MaxActs
    /\ acts' = Append(acts, [sym |-> f, parent |-> Top.act, dest |-> dest, via |-> via])
    /\ rstack' = Append(GoTo(resume), [sym |-> f, bb |-> 0, act |-> Len(acts) + 1])

Init ==
    /\ program \in Programs
    /\ rstack = <<[sym |-> program.entry, bb |-> 0, act |-> 1]>>
    /\ acts = <<[sym |-> program.entry, parent |-> 0, dest |-> None, via |-> None]>>
    /\ phase = "before"
    /\ sirtrace = <<>>

ExecGoto ==
    /\ CanStep
    /\ CurBlock.term.term \in {"Goto", "Drop"}
    /\ rstack' = GoTo(CurBlock.term.target)
    /\ Record(None, 0)
    /\ UNCHANGED <<program, phase, acts>>

(* The discriminant takes some value; the edge is the target of the equal
   value, else the otherwise block.  Unreachable code is never reached. *)
ExecSwitch ==
    /\ CanStep
    /\ CurBlock.term.term = "SwitchInt"
    /\ \E v \in DiscrVals :
         LET t == CurBlock.term
             hit == {i \in DOMAIN t.values : t.values[i] = v}
             next == IF hit = {} THEN t.otherwise
                     ELSE t.targets[CHOOSE i \in hit : TRUE]
         IN /\ BlockOf(Code(Top.sym), next).term.term # "Unreachable"
            /\ rstack' = GoTo(next)
            /\ Record(v, 0)
    /\ UNCHANGED <<program, phase, acts>>

(* Under panic=abort a failing assertion ends the process: a recorded run
   only passes it, with the condition equal to the expected value. *)
ExecAssert ==
    /\ CanStep
    /\ CurBlock.term.term = "Assert"
    /\ rstack' = GoTo(CurBlock.term.target)
    /\ Record(CurBlock.term.expected, 0)
    /\ UNCHANGED <<program, phase, acts>>

Callee(t) == IF t.callee = UnknownCallee THEN t.actual ELSE t.callee

(* A call of a function with a body, directly or through a pointer. *)
ExecCall ==
    /\ CanStep
    /\ CurBlock.term.term = "Call"
    /\ Callee(CurBlock.term) \in DOMAIN program.code \ {StopSym}
    /\ Activate(Callee(CurBlock.term), CurBlock.term.dest.place, None,
                CurBlock.term.dest.bb)
    /\ Record(None, Len(acts) + 1)
    /\ UNCHANGED <<program, phase>>

(* A call of a native function that returns without calling back. *)
ExecNativeCall ==
    /\ CanStep
    /\ CurBlock.term.term = "Call"
    /\ Callee(CurBlock.term) \notin DOMAIN program.code \cup {StartSym, StopSym}
    /\ program.callbacks[Callee(CurBlock.term)] = None
    /\ rstack' = GoTo(CurBlock.term.dest.bb)
    /\ Record(None, 0)
    /\ UNCHANGED <<program, phase, acts>>

(* A native function (no SIR body) that calls back a function with a body:
   the callback runs, and is traced, as if called from the current block. *)
ExecCallback ==
    /\ CanStep
    /\ CurBlock.term.term = "Call"
    /\ Callee(CurBlock.term) \notin DOMAIN program.code \cup {StartSym, StopSym}
    /\ program.callbacks[Callee(CurBlock.term)] # None
    /\ Activate(program.callbacks[Callee(CurBlock.term)], None, Callee(CurBlock.term),
                CurBlock.term.dest.bb)
    /\ Record(None, Len(acts) + 1)
    /\ UNCHANGED <<program, phase>>

(* start_tracing(): the tracer is on when it returns. *)
StartTracing ==
    /\ phase = "before"
    /\ CurBlock.term.term = "Call"
    /\ CurBlock.term.callee = StartSym
    /\ rstack' = GoTo(CurBlock.term.dest.bb)
    /\ phase' = "on"
    /\ UNCHANGED <<program, sirtrace, acts>>

(* tracer.stop_tracing(): the calling block is the last one recorded. *)
StopTracing ==
    /\ CanStep
    /\ phase = "on"
    /\ CurBlock.term.term = "Call"
    /\ CurBlock.term.callee = StopSym
    /\ Record(None, 0)
    /\ phase' = "off"
    /\ UNCHANGED <<program, rstack, acts>>

ExecReturn ==
    /\ CanStep
    /\ CurBlock.term.term = "Return"
    /\ Len(rstack) > 1
    /\ rstack' = Front(rstack)
    /\ Record(None, 0)
    /\ UNCHANGED <<program, phase, acts>>

Next ==
    \/ ExecGoto
    \/ ExecSwitch
    \/ ExecAssert
    \/ ExecCall
    \/ ExecNativeCall
    \/ ExecCallback
    \/ StartTracing
    \/ StopTracing
    \/ ExecReturn

Recorded == phase = "off"

(* HWTSirTrace::input: the trace-inputs local of the SIR body of the first
   location.  SIR.bodies[..] and unwrap() panic where there is no body or
   no such local; None stands for that panic. *)
Input ==
    LET s == sirtrace[1].symbol_name
    IN IF s \in program.sir THEN Code(s).inputs ELSE None

=============================================================================
