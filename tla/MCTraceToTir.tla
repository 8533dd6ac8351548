---------------------------- MODULE MCTraceToTir ----------------------------
(***************************************************************************)
(* Programs for TraceToTir.  Each is a small Rust program as ykrustc would *)
(* lower it to SIR: a driver `main` that starts a tracer, loops calling    *)
(* `work`, and stops the tracer with the statement shape tir.rs trims.     *)
(* `work` branches three ways: inlines `helper` with its own return slot  *)
(* as destination, calls a native function, or passes an assertion.       *)
(* Variants change one thing each.  Types are tags.                        *)
(***************************************************************************)
EXTENDS TraceToTir

(* $0 (), $1 &mut IO (trace inputs), $2 tracer, $3 i, $4 tmp, $5 tmp *)
MainDecls == <<"unit", "ref", "tracer", "usize", "usize", "tracer">>

(* The stop_tracing block: three StorageLive, Assign(_, false), Assign. *)
StopBlock(nlive) ==
    Block(SubSeq(<<StorageLive(5), StorageLive(4), StorageLive(3)>>, 1, nlive)
            \o <<Assign(Loc(4), Use(Const(FALSE))), Assign(Loc(5), Use(Loc(2)))>>,
          Call("stop", <<Loc(5)>>, Dest(Loc(3), 5)))

MainWith(loopCall, nlive, extra) ==
    Body(MainDecls, 1,
      << Block(<<>>, Call("start", <<>>, Dest(Loc(2), 1))),
         Block(<<StorageDead(5)>>, Goto(2)),
         Block(<<Assign(Loc(4), Use(Loc(3)))>> \o extra,
               SwitchInt(Loc(4), <<0>>, <<3>>, 4)),
         Block(<<>>, loopCall),
         StopBlock(nlive),
         Block(<<>>, Return) >>)

WorkCall == Call("work", <<Loc(1), Const(1)>>, Dest(Loc(3), 2))
Main == MainWith(WorkCall, 3, <<>>)

(* $0 usize, $1 &mut IO, $2 usize, $3 usize *)
WorkWith(targets, nativeSym) ==
    Body(<<"usize", "ref", "usize", "usize">>, None,
      << Block(<<Assign(Loc(3), BinOp(Loc(2), Const(1)))>>,
               SwitchInt(Loc(3), <<0, 1>>, targets, 3)),
         Block(<<>>, Call("helper", <<Loc(1)>>, Dest(Loc(0), 4))),
         Block(<<Assign(Place(1, <<"deref", "f1">>), Use(Loc(2)))>>,
               Call(nativeSym, <<Loc(2)>>, Dest(Loc(3), 4))),
         Block(<<>>, AssertT(Loc(3), TRUE, 5)),
         Block(<<>>, Return),
         Block(<<Assign(Loc(0), Use(Loc(3)))>>, Return) >>)
Work == WorkWith(<<1, 2>>, "native")

(* $0 usize, $1 &mut IO *)
HelperWith(retPlace) ==
    Body(<<"usize", "ref">>, None,
      << Block(<<Assign(retPlace, Use(Place(1, <<"deref", "f0">>)))>>, Return) >>)
Helper == HelperWith(Loc(0))

Stop == Body(<<"unit", "tracer">>, None, << Block(<<>>, Return) >>)

Prog(code, sir, entry, callbacks) ==
    [code |-> code, sir |-> sir, entry |-> entry, callbacks |-> callbacks]

NoCallbacks == [f \in {"native"} |-> None]

Std(main, work, helper) ==
    ("main" :> main) @@ ("work" :> work) @@ ("helper" :> helper) @@ ("stop" :> Stop)

AllSir == {"main", "work", "helper", "stop"}

(* The program the tests trace. *)
PMain == Prog(Std(Main, Work, Helper), AllSir, "main", NoCallbacks)

(* `helper` has no SIR in the binary but its blocks are recorded. *)
PNoSir == Prog(Std(Main, Work, Helper), AllSir \ {"helper"}, "main", NoCallbacks)

(* `work` is called through a function pointer. *)
PIndirect == Prog(Std(MainWith(IndirectCall("work", <<Loc(1), Const(1)>>, Dest(Loc(3), 2)),
                               3, <<>>), Work, Helper),
                  AllSir, "main", NoCallbacks)

(* The driver writes its own return slot inside the traced region. *)
PWritesRet == Prog(Std(MainWith(WorkCall, 3, <<Assign(Loc(0), Use(Const(0)))>>), Work, Helper),
                   AllSir, "main", NoCallbacks)

(* The stop_tracing call site has two StorageLive, not three. *)
PShortStop == Prog(Std(MainWith(WorkCall, 2, <<>>), Work, Helper), AllSir, "main", NoCallbacks)

(* Tracing starts in `begin`, which returns the tracer to `outer`. *)
Begin == Body(<<"tracer">>, None,
            << Block(<<>>, Call("start", <<>>, Dest(Loc(0), 1))),
               Block(<<>>, Return) >>)
OuterMain ==
    Body(MainDecls, 1,
      << Block(<<>>, Call("begin", <<>>, Dest(Loc(2), 1))),
         Block(<<StorageDead(5)>>, Goto(2)),
         Block(<<Assign(Loc(4), Use(Loc(3)))>>, SwitchInt(Loc(4), <<0>>, <<3>>, 4)),
         Block(<<>>, WorkCall),
         StopBlock(3),
         Block(<<>>, Return) >>)
PStartInCallee == Prog(("begin" :> Begin) @@ Std(OuterMain, Work, Helper),
                       AllSir \cup {"begin"}, "main", NoCallbacks)

(* The traced loop calls a native `sort` that calls back `cmp`. *)
Cmp == Body(<<"bool", "ref", "ref">>, None,
          << Block(<<Assign(Loc(0), BinOp(Loc(1), Loc(2)))>>, Return) >>)
SortCall == Call("sort", <<Loc(1), Loc(1)>>, Dest(Loc(3), 2))
PCallbackInMain == Prog(("cmp" :> Cmp) @@ Std(MainWith(SortCall, 3, <<>>), Work, Helper),
                        AllSir \cup {"cmp"}, "main", ("sort" :> "cmp") @@ NoCallbacks)

(* Nothing runs between start and stop (the region oob_trace_index records):
   the block start_tracing returns to is the stop_tracing call site. *)
EmptyStopBlock ==
    Block(<<StorageDead(5)>> \o StopBlock(3).stmts, Call("stop", <<Loc(5)>>, Dest(Loc(3), 5)))
PEmptyRegion == Prog(Std([Main EXCEPT !.blocks[2] = EmptyStopBlock], Work, Helper), AllSir,
                     "main", NoCallbacks)

(* The yktrace tests' `work` (#[interp_step], lib.rs:106-118):
     for i in 0..(io.0) { if i % 2 == 0 { res += 5 } else { res += 10 / i } }
     println!("{}", res);
   $0 (), $1 &mut WorkIO, $2 res, $3 range, $4 Option<usize>, $5 discr,
   $6 i, $7 i % 2, $8 overflow flag, $9 10 / i.  Range::next and println
   are native; `/` and `+=` are checked by Assert terminators; the Option
   switch's otherwise edge is unreachable. *)
TestWork ==
    Body(<<"unit", "ref", "usize", "range", "option", "isize", "usize", "usize", "bool",
           "usize">>, 1,
      << Block(<<Assign(Loc(2), Use(Const(0))), Assign(Loc(3), Use(Place(1, <<"deref", "f0">>)))>>,
               Goto(1)),
         Block(<<>>, Call("next", <<Loc(3)>>, Dest(Loc(4), 2))),
         Block(<<Assign(Loc(5), Use(Loc(4)))>>, SwitchInt(Loc(5), <<0, 1>>, <<3, 4>>, 10)),
         Block(<<>>, Call("println", <<Loc(2)>>, Dest(Loc(0), 9))),
         Block(<<Assign(Loc(6), Use(Place(4, <<"f0">>))), Assign(Loc(7), BinOp(Loc(6), Const(2)))>>,
               SwitchInt(Loc(7), <<0>>, <<5>>, 6)),
         Block(<<Assign(Loc(8), BinOp(Loc(2), Const(5)))>>, AssertT(Loc(8), FALSE, 8)),
         Block(<<Assign(Loc(8), BinOp(Loc(6), Const(0)))>>, AssertT(Loc(8), FALSE, 7)),
         Block(<<Assign(Loc(9), BinOp(Const(10), Loc(6))), Assign(Loc(8), BinOp(Loc(2), Loc(9)))>>,
               AssertT(Loc(8), FALSE, 8)),
         Block(<<Assign(Loc(2), Use(Loc(8)))>>, Goto(1)),
         Block(<<>>, Return),
         Block(<<>>, Unreachable) >>)

(* test_helpers::trace: start_tracing; work(&mut WorkIO(10)); stop_tracing. *)
TestTraceMain ==
    Body(MainDecls, 1,
      << Block(<<>>, Call("start", <<>>, Dest(Loc(2), 1))),
         Block(<<StorageDead(5)>>, Call("work", <<Loc(1)>>, Dest(Loc(3), 2))),
         StopBlock(3),
         Block(<<>>, Return) >>)

PTestTrace == Prog(("main" :> TestTraceMain) @@ ("work" :> TestWork) @@ ("stop" :> Stop),
                   {"main", "work", "stop"}, "main", [f \in {"next", "println"} |-> None])

ProgramsLowering == {PMain, PNoSir, PIndirect, PWritesRet, PShortStop, PStartInCallee,
                     PCallbackInMain, PEmptyRegion, PTestTrace}

(* Violation programs. *)

(* Two switch values share a target block (`match x { 0 | 1 => .. }`). *)
PSharedTarget == Prog(Std(Main, WorkWith(<<2, 2>>, "native"), Helper), AllSir, "main",
                      NoCallbacks)

(* `helper` returns a pair and writes one field of its return slot. *)
PRetField == Prog(Std(Main, Work, HelperWith(Place(0, <<"f1">>))), AllSir, "main",
                  NoCallbacks)

(* `work` calls a native `sort`, which calls back the SIR function `cmp`. *)
PCallback == Prog(("cmp" :> Cmp) @@ Std(Main, WorkWith(<<1, 2>>, "sort"), Helper),
                  AllSir \cup {"cmp"}, "main", ("sort" :> "cmp") @@ NoCallbacks)

(* The driver passes the tracer to `finish`, which calls stop_tracing. *)
Finish_ == Body(<<"unit", "tracer", "usize", "usize", "tracer", "usize">>, None,
             << Block(<<StorageLive(5), StorageLive(4), StorageLive(3),
                        Assign(Loc(4), Use(Const(FALSE))), Assign(Loc(5), Use(Loc(1)))>>,
                      Call("stop", <<Loc(5)>>, Dest(Loc(3), 1))),
                Block(<<>>, Return) >>)
StopViaFinish ==
    Block(<<>>, Call("finish", <<Loc(2)>>, Dest(Loc(3), 5)))
MainStopInCallee ==
    Body(MainDecls, 1,
      << Block(<<>>, Call("start", <<>>, Dest(Loc(2), 1))),
         Block(<<StorageDead(5)>>, Goto(2)),
         Block(<<Assign(Loc(4), Use(Loc(3)))>>, SwitchInt(Loc(4), <<0>>, <<3>>, 4)),
         Block(<<>>, WorkCall),
         StopViaFinish,
         Block(<<>>, Return) >>)
PStopInCallee == Prog(("finish" :> Finish_) @@ Std(MainStopInCallee, Work, Helper),
                      AllSir \cup {"finish"}, "main", NoCallbacks)

(* The stop_tracing call site as spec.md describes it. *)
SpecStopBlock ==
    Block(<<StorageDead(5), StorageDead(4), StorageDead(3),
            Assign(Loc(4), Use(Const(FALSE))), Assign(Loc(5), Use(Loc(2)))>>,
          Call("stop", <<Loc(5)>>, Dest(Loc(3), 5)))
PSpecStop == Prog(Std([Main EXCEPT !.blocks[5] = SpecStopBlock], Work, Helper), AllSir, "main",
                  NoCallbacks)

ProgramsMain == {PMain}
ProgramsSpecStop == {PSpecStop}
ProgramsStopInCallee == {PStopInCallee}
ProgramsSharedTarget == {PSharedTarget}
ProgramsRetField == {PRetField}
ProgramsCallback == {PCallback}

=============================================================================
