# TLA+ models of yk (trace lowering and SIR interpreter)

This directory holds TLA+ models of this repository's meta-tracing pipeline,
together with the TLC configurations that check them:

1. A program whose functions have SIR (serialised MIR) runs under the thread
   tracer.
2. Between `start_tracing` and `stop_tracing` the tracer records the
   `(symbol, basic block)` location of every block the thread executes
   (`src/yktrace/src/lib.rs`, `src/yktrace/src/hwt/mod.rs`).
3. `TirTrace::new` (`src/yktrace/src/tir.rs`) lowers the recorded locations
   into a straight-line TIR trace:
   - it renames every local so that each inlined activation gets its own
     range;
   - it replaces a callee's `$0` by the caller's destination;
   - it emits `Enter`/`Leave` around inlined calls;
   - it turns branches into guards;
   - it trims the `start_tracing`/`stop_tracing` remnants.
4. The SIR interpreter `SIRInterpreter` (`src/ykbh/src/lib.rs`) runs a SIR
   body over raw stack frames. The trace inputs object is passed in as `$1`.

`src/ykpack/src/types.rs` is the data model shared by these parts.

## Components and modules

| Part | Source | Modules | Status |
|---|---|---|---|
| SIR data model | ykpack/src/types.rs | `Sir`, `Layout`, `ConstInt` | partly |
| Thread tracer (environment of the lowering) | yktrace/src/lib.rs, hwt/mod.rs | `SirRecorder` | partly |
| TIR lowering | yktrace/src/tir.rs, errors.rs | `TirTrace`, composed in `TraceToTir` | modelled |
| SIR interpreter | ykbh/src/lib.rs | `Ykbh`, with the abstract spec `SirEval` | modelled |
| ykrt, tests crates | ykrt, tests | none | not modelled (no state) |

The module order, from the bottom up:

- **`Sir`**: SIR values as records.
  - A place is a local plus a sequence of projection tags.
  - Indices are 0-based as in the code. Block `b` of a body is
    `blocks[b + 1]`.
- **`Layout`**: the types the interpreter sees and their layout.
  - Every scalar takes one memory cell.
  - The compiler-side lowering of places to `IPlace::Val` and
    `IPlace::Indirect` (not in this tree) is modelled from spec.md. These
    entries are marked `spec_modelled` in the map.
- **`ConstInt`**: the integer constants of SIR.
  - `Lower` is the compiler's hand-over of a scalar's bits, `v as u128`, to
    the `*_from_bits` constructor of its type. A 128-bit value is kept as a
    `SerU128`/`SerI128` of two `u64` halves (`new_ser128!`).
  - `LoadRegister` is the `Int` arm of `Constant::i64_cast`, which calls
    `ConstantInt::i64_cast`. `LoadWidePanics` is its panic on a 128-bit
    constant. The `Bool` arm (`b as i64`) is not modelled.
  - Rust's `as` is modelled by what it does: the low bits of the two's
    complement pattern, read unsigned or signed (`AsU`, `AsI`).
- **`SirRecorder`**: a program runs one basic block per step, and the tracer
  records each block.
  - Calls to functions with SIR, native calls, native calls that call back a
    SIR function, calls through function pointers, switches over a bounded
    set of values, asserts and returns are all actions.
  - Every location carries ghost facts that the lowering never reads: the
    activation that ran the block, the value a branch saw, and the activation
    a call began.
- **`TirTrace`**: `TirTrace::new` and `VarRenamer`.
  - `ProcessLoc` is one iteration of the `while let Some(loc)` loop: the
    block's statements renamed, the terminator's `Enter`/`Call`/`Leave`, and
    the guard.
  - `FailLoc` covers the iterations that fail: no SIR, `Unreachable`, the
    unknown-callee `todo!`, and the `leave` panic.
  - `Finish` and `FailTrim` are the trimming after the loop.
  - The renamer's state (`stack`, `offset`, `acc`, `returns`, `used_decls`)
    consists of variables.
- **`TraceToTir`**: composes `SirRecorder` with `TirTrace`. The lowering
  starts once the recording has stopped.
  - The properties compare the TIR trace with the recorded run through a
    reference renaming `Denote`.
  - `Denote` gives every recorded activation a fresh range of locals and
    maps `$0` to the caller's destination, with `$0`'s own projection
    applied.
- **`Ykbh`**: the interpreter over memory.
  - Memory is a function from `<<allocation, offset>>` to a cell:
    `undef`, a byte, or a pointer.
  - Allocation 0 is the trace inputs. Each `StackFrame` is a fresh
    allocation made by `create_frame`, and it is removed by `Drop`.
  - One step is one iteration of the `interpret` loop: all statements of the
    block, then its terminator. The actions are `ExecCall`, `ExecReturn`,
    `ExecFinalReturn`, and `FailBlock` (a `todo!` or `unwrap` panic, or
    undefined behaviour).
  - `SkipTraceDebug` and `StartInterpret` are the `TRACE_DEBUG` early return
    and the loop entry.
- **`SirEval`**: the abstract interpreter that spec.md describes.
  - Values are typed and stored leaf by leaf in locations (an activation, a
    local, a field path).
  - A reference is the location it was taken of.
  - It has no bytes, no offsets and no frames to free.
- **MC modules**:
  - `MCConstInt` gives the integer widths (see Bounds).
  - `MCTraceToTir` holds the test programs of the lowering runs.
  - `MCYkbh` holds the ykbh test programs (`simple`, `func_tuple`,
    `func_ref`, `func_tuple_ref`, `func_double_ref`, `func_call`) and more:
    set and get through a reference, swap, a `trace_debug` body, a `&str`
    constant argument, a native callee, a `BinaryOp`, and a call of a
    diverging `fail() -> !` (a `Call` with no destination).
  - `MCYkbh` lowers each program to `IPlace` form with `Layout`.
  - It also defines the refinement mapping that decodes `Ykbh`'s memory into
    `SirEval`'s values: `AbsVals`, `AbsReturns`, and `StructOf`.

## Runs

| Run | Cfg | Checks | Result |
|---|---|---|---|
| trace_lowering | MCTraceToTir.cfg | `TypeOK`, `RenamedPlacesDenote`, `GuardsHoldOnRecordedRun`, `TraceLocalsDeclared`, `LoweringEndsBalanced`, `TrimmedOnlyBookkeeping` | pass |
| const_int | MCConstInt.cfg | `TypeOK`, `FromBitsRoundTrip`, `RegisterHoldsConstant` | pass |
| interpreter | MCYkbh.cfg | `TypeOK`, `FrameMemoryOwned`, `NoUndefinedBehaviour`, `Terminates`, `ImplementsSirEval` | pass |
| guard_unrenamed | MCGuardUnrenamed.cfg | `GuardsDenote` | violation |
| shared_switch_target | MCSharedTarget.cfg | `GuardsHoldOnRecordedRun` | violation |
| return_slot_field | MCRetField.cfg | `RenamedPlacesDenote` | violation |
| native_callback | MCCallback.cfg | `RenamedPlacesDenote` | violation |
| stop_in_callee | MCStopInCallee.cfg | `DeliveredTraceBalanced` | violation |
| spec_stop_shape | MCSpecStopShape.cfg | `SpecShapedTraceTrimmed` | violation |
| interpreter_ref_in_tuple | MCYkbhRefField.cfg | `RefFieldImplementsSirEval` | violation |
| stop_in_callee_inputs | MCStopInCalleeInputs.cfg | `InputsLocalIsTraceInput` | violation |
| interpreter_zero_size_frame | MCYkbhZeroFrame.cfg | `FramesNonEmpty` | violation |

What the properties say:

- **`RenamedPlacesDenote`**: every place of every TIR statement, `Enter` and
  native `Call` is the reference renaming of the place it was made from, in
  the activation that executed it. Every `Enter` carries the offset of the
  activation it opens.
- **`GuardsHoldOnRecordedRun`**: replaying the trace on the traced input
  never fails a guard.
- **`TraceLocalsDeclared`**: every local a TIR statement references
  (`Statement::referenced_locals`) has a declaration, and that declaration is
  the one of the variable the local stands for.
- **`LoweringEndsBalanced`**: when the recording stopped in the activation
  where it started, the lowering ends, and it ends neither in the `leave`
  panic of an unbalanced `VarRenamer` (tir.rs:335) nor with a branch that has
  no next block to peek (tir.rs:172). It is checked under `FairSpec`.
- **`FromBitsRoundTrip`**: for every integer type and every value, the
  `ConstantInt` built from the value's bits holds the value. This includes the
  halves of a negative `i128` and a `u128` with its top bit set.
- **`RegisterHoldsConstant`**: `i64_cast` yields the constant's value modulo
  2^64, and exactly its value when the constant is signed.
- **`TrimmedOnlyBookkeeping`**: trimming removes only bookkeeping. A
  delivered trace holds no op made from the `stop_tracing` call-site block.
  It holds every statement of every other recorded block, except the first
  statement of the first block (the `start_tracing` `StorageDead`).
- **`InputsLocalIsTraceInput`** (run `stop_in_callee_inputs` only): a delivered trace names as its trace-inputs
  local the one `HWTSirTrace::input` gives for the same recording (the local
  of the first location's body), and `input()` does not panic. spec.md says
  the last-writer value is "stable across one trace".
- **`FrameMemoryOwned`**: the allocated memory is exactly the trace inputs
  plus one layout-sized allocation per live frame.
- **`NoUndefinedBehaviour`**: no access reads through a non-pointer or
  outside live memory.
- **`Terminates`**: every run of `interpret` ends.
- **`ImplementsSirEval`**: `Ykbh`'s behaviour, seen through the decoding of
  its memory, is a behaviour of `SirEval`.

Each property of a passing run has a mutant in PROJECT.json: a plausible bug
in the mapped code that TLC finds.

## Findings

Each finding is a violation run.

- **Guards are not renamed** (tir.rs:176). Guards use `discr.clone()`
  without renaming, so a guard in an inlined callee names a local of the
  outermost function.
- **Guards on a shared target can fail** (tir.rs:173). `position()` picks the
  first value whose target is the next block. With `0 | 1 => ...` and a run
  that saw 1, the guard checks 0.
- **`$0` projections are dropped** (tir.rs:381). `rename_place` drops the
  projection of `$0`, so `$0.1 = x` becomes `dest = x`.
- **Callbacks share their caller's locals** (tir.rs:132). A SIR function
  called back from a native callee is renamed in its caller's scope.
- **A stop in a callee leaves the trace unbalanced** (tir.rs:204, spec gap).
  When `stop_tracing` is called one level deeper than `start_tracing`, the
  delivered trace has an `Enter` with no `Leave`.
- **The trim shape differs from the spec** (tir.rs:228). spec.md documents
  three `StorageDead` statements before the two `Assign`s at the stop site.
  The code pops `StorageLive` and panics on the documented shape.
- **`ptr.off` is applied after the read** (ykbh lib.rs:115). For an
  `Indirect` place, the code reads the pointer at the local's start and adds
  `ptr.off` after dereferencing. spec.md reads it at `offsets[local] +
  ptr.off`. A reference held in a non-first tuple field is therefore read
  from the wrong cell. Through the refinement, `MCYkbhRefField.cfg` shows
  `Ykbh` reaching undefined behaviour where `SirEval` reads the referent.

- **The trace-inputs local is the last writer's** (tir.rs:46, spec
  divergence). When `stop_tracing` is called in a callee, the last location
  is in a body without a trace-inputs local. The delivered trace then has
  none, while `HWTSirTrace::input` gives `$1`. spec.md says the value is
  stable across one trace.
- **Zero-size frames** (ykbh lib.rs:150, code bug). `create_frame` calls
  `alloc` with the body's layout even when every local is zero-sized, as for
  `fn fail() -> !` or `fn noop() {}`. `GlobalAlloc::alloc` documents a
  zero-size layout as undefined behaviour. The `Ykbh` model lets the call go
  on with an empty allocation (what the system allocator does in practice),
  and `FramesNonEmpty` flags it.

## Bounds

- **Lowering** (`MCTraceToTir.cfg`):
  - `MaxTraceLen = 16` and `MaxActs = 8`.
  - Switch values are `{0, 1, 2}`, which covers a hit, a shared target, and
    the otherwise edge.
  - There are nine programs:
    - the yktrace test helpers' own `work` loop, driven as `test_helpers::trace`
      drives it: native `Range::next` and `println`, and `Assert`s on `/` and
      `+=`;
    - the empty traced region that `oob_trace_index` records, where
      `stop_tracing` follows `start_tracing` at once;
    - a driver loop with a three-way branch, and the variants that matter to
      renaming: a call through a pointer, a function without SIR, the driver
      writing its own `$0`, a short stop site, tracing started in a callee,
      and a native callback in the driver.
  - Each traced run of the driver is at most a loop of two iterations with a
    nested call, and a run of `work` is at most one iteration. 16 locations
    cover every path to `stop_tracing` for these.
- **Interpreter** (`MCYkbh.cfg`):
  - Byte values are `{0, 1, 2}`, so copies of equal and of different bytes
    can be told apart.
  - `MaxAllocs = 3` is the deepest call in the test programs (main, callee,
    trace inputs).
  - `Init` enumerates every trace-inputs content.

- **Integer constants** (`MCConstInt.cfg`): the widths are scaled down so
  that TLC enumerates every value of every type. `u8`/`i8` have 1 bit,
  `u16`/`i16` 2, `u32`/`i32` 3, the 64-bit types and `usize`/`isize` 4, and
  the 128-bit types 8. The conversions depend on a width only through 2^w,
  and the model keeps the relations the code relies on: a 128-bit value is
  two 64-bit halves, `usize` is `u64`, and `i64` is the register.

## Fairness

`Ykbh` and `SirEval` have weak fairness on `Next`. `interpret` is a single
sequential loop with nothing to wait for, so an enabled iteration always
runs.

`TraceToTir`'s `FairSpec` has weak fairness on the lowering actions only
(`ProcessLoc`, `FailLoc`, `Finish`, `FailTrim`). `TirTrace::new` is a plain
loop, so it runs to its end once the recording is delivered. The traced
program gets no fairness, because it may stop anywhere within the bound;
`LoweringEndsBalanced` therefore only speaks of recordings that were
delivered.

`CHECK_DEADLOCK FALSE` is set in every cfg, for these reasons:

- `interpret` and `TirTrace::new` return, and that is a state with no
  successor.
- The recorder stops at `MaxTraceLen`.

## Not modelled

- The hardware tracer and the mapper from Intel PT packets to SIR locations
  (`hwt/mapper.rs` is not in this tree). `SirRecorder` records exactly the
  executed blocks.
- Display/Debug, the serde encoding of SIR, and `Ty::align`. `ConstInt`
  models the integer constants of every type, but the `Ykbh` interpreter
  itself supports only `u8`, as the code does.
- `TracingKind::SoftwareTracing` (it panics in `start_tracing`) and the
  yktrace tests that run hardware tracers in several threads at once
  (`trace_twice`, `trace_concurrent`): each thread has its own tracer and
  nothing is shared, so `SirRecorder` models one thread.
- `yktrace/src/sir.rs`, which loads the SIR from the binary, is not in this
  tree.
- The crates in this snapshot are not consistent with each other:
  - `ykbh` uses `IPlace`, `Statement::Store`/`MkRef`, `Body.offsets` and
    `BodyFlags::TRACE_DEBUG`, which are not in this `ykpack`.
  - `tir.rs` matches `Statement::StorageLive`, which `types.rs` lacks.
  - The models follow the code that uses each item.
- `TirTrace::op`, `len` and `inputs` are accessors with no state. The
  empty-region program shows that an empty trace is delivered. For that
  trace, `op()`'s `self.ops.len() - 1` underflows, but `op()` has no caller
  in this tree (the code generator is external), so no run reads the trace. The
  Display of TIR traces, guards and ops is not modelled.
- The yktrace test helpers compare trace lengths (`trace_twice`) and index a
  raw SIR trace (`oob_trace_index`). Both are properties of the hardware
  tracer and the `SirTrace` indexing in `sir.rs`, neither of which is in this
  tree.
