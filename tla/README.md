# Superscalar RV32IM core: TLA+ models, model checking and proofs

The repository holds a two-wide, in-order RV32IM core in SystemVerilog (`rtl/`), Python models of the
architecture and of parts of the pipeline (`reference_model/`), a test bench (`tb/`) and the scripts that
compare the two and report on it (`scripts/`). This directory models the core register by register, the
readings of an instruction word, the models and figures derived from the core, and the flow that calls a
check passed; it states what each promises, checks that with TLC on small instances and proves most of it
with TLAPS for all instances.

## The system

| part | state | operations | interacts with |
|---|---|---|---|
| front end (`superscalar_core.sv` 67-84, 421-461) | `buf_*0`, `buf_*1`, `next_fetch_pc` | refill, replay, flush, hold, reset | issue decides what leaves; EX redirects |
| issue (`dual_issue_unit.sv`, stalls at 375-404) | none | one or two instructions, or none | reads the buffer and what is in EX, MEM, WB |
| pipeline (`superscalar_core.sv` 87-584) | `ex*_q`, `mem*_q`, `wb*_q`, `halted`, `trap_*` | advance, stall on a divide, trap | divider, register file, data memory |
| register file (`register_file.sv`) | `regs` | two writes per clock, reset | write back |
| divider (`div_unit.sv`) | `busy`, `done`, `cycle_q`, the loop's registers | start, iterate, finish, reset | owned by the instruction in EX |
| ALU, branch, multiply, load/store units | none | functions | EX and MEM |
| memories (`tb/memory/memory_model.sv`) | `imem`, `dmem` | two fetches, a load or a byte-enabled store per clock | front end, MEM |
| ISA model (`rv32im_model.py`) | `regs`, `pc`, `mem`, `trap`, `commits` | `step` | the regression compares its commits with the core's |
| decoder and its restatements (`decoder.sv`, `step()`, two `decode_meta`, the names of `check_isa_coverage.py`), encoder (`riscv_encode.py`) | none | functions of a word | five readings of the same bits |
| performance counters (590-630) | ten counters | one update per clock | read every wire above |
| timing model, issue model (`pipeline_model.py`, `issue_model.py`) | locals of a loop | one call per program | predict the counters from the commits |
| other Python models | `Frontend`, the divider loop | | independent restatements of parts of the RTL |
| random generator (`gen_random_program.py`) | the list of words | one iteration per instruction | feeds the regression |
| check scripts, `run_all_checks.py`, `generate_final_summary.py`, `make asic` | report files, `check_status.json` | `make test`, `make ci`, `make asic` | report files outlive the command that wrote them |

In the core everything is synchronous to one clock, with an asynchronous reset. The hard behaviour is
therefore not interleaving of processes but **overlap**: up to six instructions in the latches and two in
the buffer, each in a different stage, whose mutual order must come out as if they ran one after the
other. What makes it hard: values forwarded from six places; the younger half of a pair that is replayed;
a redirect with a wrong path already buffered; an exception that is known two clocks before it
is taken; a divide that holds EX while older stages drain; a reset in any of these moments; and the
numeric edges (wrap round the address space, misaligned targets, byte lanes, division corner cases).

Around the core the hard behaviour is **evidence**: twenty scripts run one after the other, each may lack a
tool, fail in the middle, or be killed or interrupted, its report may be there from an earlier command, and exit
code 2 means a missing tool to the flow and an ordinary error to `make`, pytest and Icarus.

What makes each part correct:

* front end: the words of the program in order, each handed out once, from the last redirect target on;
* issue: no pair depends on itself, and lane 1 gets plain ALU operations only;
* pipeline: every operand is the value sequential execution would read, traps are precise and final, the
  commits are those of the ISA model, and the core does not block;
* divider: the result of the operands it was started with, after `LATENCY` clocks, used by its owner only;
* memories and load/store unit: the same loads after the same stores as a plain array of bytes;
* readings of a word: what was encoded is what everybody decodes, and one set of words is illegal;
* counters and the models that predict them: every issue and every cycle is counted once, and the predictions
  made from the commit trace are exact for the programs they are exact for, which are named;
* generator: a random program stays legal and runs to its end;
* flow: PASS means that this command ran the check, with its tools, on what it was meant to read.

## Modules

| module | models | correspondence |
|---|---|---|
| `RiscvPkg` | `riscv_pkg.sv`, the flags of `decoder.sv` | an instruction is a record of its opcode class, operation, illegal flag, register fields and immediate; register fields an opcode does not use are kept, as in the RTL |
| `Frontend` | the buffer and its `always_ff` | `FrontRefill`, `FrontReplay`, `FrontFlush`, `FrontHold` are its branches; the decoded form of the buffered word is kept instead of the word |
| `DualIssue` | `dual_issue_unit.sv` | one operator per output |
| `DivContract` | what the core sees of `div_unit.sv` | `div` is a record of `busy`, `done`, `cycle_q`, `result` and the operands |
| `Core` | `superscalar_core.sv`, `register_file.sv`, the memories | one operator per wire, named after it; `Clock` is the clock edge and the conjunction of one operator per `always_ff` or group of registers; `Reset` is `reset_n` |
| `RV32IM` | `rv32im_model.py` | `Retire` and `RetireTwo` are one and two calls of `step()`, `Trap` is `_trap`; of the growing `bytearray`, `mem` is the part inside the data memory and `tail` the words past it |
| `CoreProps` | | the properties of `Core`, and the mapping of `Core` to `RV32IM` |
| `Datapath`, `LoadStore`, `Width` | `alu.sv`, `branch_unit.sv`, `mul_unit.sv`; `load_store_unit.sv` | functions on words of any width; apart, as the bitwise operators of `Datapath` cannot be used from a proof |
| `IsaMath` | the division arms of `step()`, `trunc_div` | on integers, independent of the restoring loop |
| `DivUnit` | `div_unit.sv` | every register; `owner` is added to name the operands |
| `FrontendStress` | `Frontend` driven as `frontend_replay_model.py` allows | |
| `FetchOrder` | `run_frontend_replay_stress.py` | the order it expects |
| `DataMemory` | `memory_model.sv` behind the load/store unit, and the `bytearray` of the ISA model, in lockstep | |
| `CorePerf` | the counters of `superscalar_core.sv` | `PerfClock` is `Clock` with the counters' `always_ff`; `stream` collects the commits |
| `TimingModel`, `IssueModel` | `simulate_dynamic`, `can_pair`, `issue_cycles` | a loop is a recursive function of its iteration |
| `Encoding`, `Decoder` | `riscv_encode.py`; `decoder.sv`, the decoding of `step()`, `decode_meta`, `check_isa_coverage.py` | a word is the set of its one bits, so a field is an intersection and a shift of positions |
| `WordReadings` | | a program of one or two words, assembled or placed as data, and what the readings owe one another |
| `RandomProgram` | `gen_random_program.py` | a step is an iteration of the loop, the random generator a free choice |
| `DivAlgorithm` | `divider_algorithm.py`, the expectation of `run_divider_stress.py` | evaluated on every operand of `DivUnit` |
| `CheckScripts` | the scripts under `scripts/` | each a sequence of steps: tools and files it needs, ways to end early with exit code and reports written in their order, the report written when it goes well |
| `CheckFlow` | `run_all_checks.py`, `generate_final_summary.py`, `make asic` | commands run scripts step by step; a report carries its verdict, the command that wrote it, and the oldest command whose files went into it |
| `CoreProofs` | | theorems about `Core`: types, control, operands; that it implements `RV32IM` |
| `CorePerfProofs` | | theorems about `CorePerf`: what the counters add up to, in each cycle and over the commits |
| `PredictionProofs` | | theorems about `IssueModel` and `TimingModel` beside `CorePerf` |
| `ArithmeticProofs` | | powers, quotients and digits, induction over numbers, and what a loop of n turns computes |
| `FrontendProofs` | | theorems about `FrontendStress` |
| `UnitProofs` | | theorems about `DivUnit`, the loop of `DivAlgorithm` and `DivContract`, and about `DataMemory` |
| `WordProofs` | | theorems about `Encoding`, `Decoder`, `WordReadings` and `RandomProgram` |
| `CheckFlowProofs` | | theorems about `CheckFlow` |
| `MC*` | | the instances TLC checks |

Operators whose comment begins with "Mutant of" are plausible bugs. No specification uses them; each is there
to be put in the place of the operator it names, to see that a property notices.

**Two specifications are abstract and implemented.** `RV32IM!Spec` is what the core promises: an instruction
counts as executed when it has left MEM (its store made, its value in a WB latch), so `archBar` takes the
program counter from the oldest instruction not in WB, the registers as the WB latches leave them, and the
memory as it is. Each clock is then zero, one or two calls of `step()`, a trap, or a restart, and the commit
ports (`traceBar`, with the memory fields compared only for stores, as `run_rtl_regression.py` does) are
the commits of those calls. Past the end of the data memory the two programs differ: the core drops a store and
loads 0, while `_store` appends to the `bytearray` at its end, whatever the address, and a later load may read that
back. `RV32IM` has both: words past the end are 0 until the first store there, and any values after it. The core implements
it with the zeros (`NoTail`). So the refinement says that the core and `step()` agree in everything up to the first
load past the end that follows a store past the end, and nothing of the value of that load in `step()`: `DataMemory` follows
the bytes, and `data_memory_beyond` shows where they part. `FetchOrder!Spec` is what the front end promises and `DivContract!DivSpec` what
the divider promises; `Core` is built on that contract, so the bit-level divider need not be composed with it.

**Abstractions.** A register of decoded flags is the instruction record; `exc_valid` and `exc_cause` are one
field; `trap_valid` stays apart from the cause because it is a one-clock pulse. The latches' `store_data` is
`op2`, as both are loaded with the same value. The word the commit ports show is the decoded record. The program is a function over the
addresses it covers, EBREAK elsewhere, as `memory_model.sv` fills it. Arithmetic is a parameter of `Core`.
What `step()` computes from a word's bits, `RV32IM` computes from the record; that the bits give both
sides the same record is what `WordReadings` is for. In `Decoder` the immediate is kept apart from the record.
The timing model's tags that can no longer match a cycle are not cleared. In the flow a report is its verdict; how a
tool or an audit reaches it is a free choice. A step writes one report file at most, so a script may be killed or raise,
and the user may interrupt, between any two writes, those of one way out included; the write of one file is a single
step. All exit codes of a script that goes in no way of its own are one, `Crashed`, as the flow treats them alike.

## Runs

| run | question | size |
|---|---|---|
| `core_dual` | hazards between ALU, load, store and divide in loops; branches, jumps and traps with younger instructions behind them; progress | 10,657 programs, 174 thousand states |
| `core_perf` | straight code that keeps all six latches busy; the counters, in every cycle and against the models at the halt | 42,512 programs, 443 thousand states |
| `core_single` | single issue: access sizes and alignment, the end of the data memory; the timing model | 4,802 programs, 73 thousand states |
| `timing_mirror` | the timing model on a consumer two words behind a load: **violated** | finding below |
| `frontend` | every pattern of issue, stall, halt, redirect and reset | 348 states, complete |
| `div_unit` | every pair of operands of four bits, every operation; the Python loop beside the unit | 35 thousand states, complete |
| `data_memory` | stores inside the memory, any order, all sizes | 9,801 states |
| `data_memory_beyond` | the first address past it: **violated** | finding below |
| `words` | every mnemonic, opcode, funct3 and immediate bit, alone; pairs over twelve mnemonics and the reserved words | 37 thousand states, complete |
| `random_program` | every random choice over three destinations and two sources | 3,651 states, complete |
| `check_flow` | two commands, two machines, one failure or crash in each command, interrupts anywhere | 3.19 million states, complete, two to four minutes |
| `flow_green` | a check that fails with exit code 2: **violated** | finding below |

*Programs are data.* A run takes every program over an alphabet of four to fourteen instructions as an initial
state, chosen so that every class of instruction and every trap cause is in some alphabet, with register
fields that collide with one another and residue in unused ones.

*Words of four bits* (`core_dual`, `core_single`). With 16 addresses there are four instruction slots, so code wraps
round the address space, a pair straddles its end, and misaligned targets exist. Four slots hold fewer
instructions than the pipeline, but as the code loops all latches still fill; `core_perf` uses 32 addresses so
that six different ones are in flight and EBREAK follows. Registers: x0, two that collide, and four in `core_perf`.
The pipeline is four deep and a divide takes one or two clocks, so every chain of stage events ends within a dozen
clocks, far below the depth reached. `core_dual` uses a latency of 2 so that the divider has an iteration that is
not its last, and starts at the last word so that the first pair wraps.

*Counters* are bounded by `MaxCycles`: 20 in `core_perf`, where every program without a loop has halted by then,
and 30 in `core_single`; the clock stops there and only a reset goes on.

*Words* are looked at alone with every immediate that has one bit or a run of ones up to the sign, which is enough
because every reading permutes or copies bits; the proofs confirm it for every word. Registers 10 and 21 differ in every bit position.

*The random program* is 18 iterations long so that both periodic cases (every fifth, every seventeenth) occur.

*The flow* takes two commands because a report can only be stale for the second one; one fault per command; and a
machine with every tool beside one that has only a Yosys without Slang, so that each tool test goes both ways but the one
for Yosys, whose way out in `run_asic_timing.py` is like that of a missing library. The proofs are for any machines.

*The divider* is checked at four bits and two bits per clock: the shortest word with an intermediate
iteration, special operands and both signs. *The data memory* has two words of four two-bit bytes.

*The mapping of arithmetic.* `Core` and `RV32IM` share `Alu`, `Mul`, `DivY`, `BranchTaken`, `LoadValue` and
`StoreWord`. Their agreement is checked apart where the RTL is intricate: division in `div_unit`, lanes in
`data_memory`. For ALU, branch and multiply it is an assumption; both sides are the same one-line expressions.

**Fairness.** `WF_vars(Clock)`: the clock keeps ticking. Nothing is assumed of `reset_n`, so `Progress` is claimed
for behaviours in which it is asserted finitely often. In `DivUnit`, weak fairness of the busy clock.

`CHECK_DEADLOCK` is off in the two runs of the flow, which stops after its last command; it is on everywhere else.

### Findings

* `data_memory_beyond`: `rv32im_model.py:65` assigns a slice of a `bytearray` without a range check: a store past the
  end appends, and a later load reads the value back. The RTL's memory ignores the store and reads 0
  (`memory_model.sv:39-46`), against the comment at line 41, "Harvard memory model to match the RTL".
* `timing_mirror`: `pipeline_model.py:161` asks only whether the oldest instruction waits for a load or divide in EX;
  the core asks it of slot 1 too (`superscalar_core.sv:395`). For a load, an independent instruction and then the
  consumer, the model pairs the last two and the core does not, against "This model intentionally mirrors the
  documented conservative microarchitecture" (line 4).
* `flow_green`: `run_all_checks.py:32` takes exit code 2 as a missing tool for every check. pytest exits with 2 when a
  test module cannot be collected; its row allows `{0}` only, the run prints FAILED for it and still returns 0.

### Where code and description differ without a run of their own

Properties of passing runs state exactly how far each description is true, and name the exception.

* A taken branch to the next word redirects the core and counts as a misprediction but cannot be told from one that is
  not taken by whoever reads the commits: `pipeline_model.py:197`, `analyze_rtl_coverage.py:65`,
  `reference_functional_coverage.py:43`. It is the exception `BranchesToNext` of `TimingModelIsExact` and `CoverageSeesOutcomes`.
* `decode_meta` gives every JALR an operand and a result (`pipeline_model.py:82`), also one with funct3 other than 0,
  so `simulate_dynamic` has it wait behind the load or divide of its rs1 field. To the core it is an unknown word
  (`decoder.sv:62-70`): it issues at once and traps. The model counts a cycle too many for such a program, with single
  issue too. It is the exception `ReservedJalrWaits` of `TimingModelIsExact`; `MetaAgrees` says which registers either reads.
* `perf_load_use_stalls` also counts every cycle in which the consumer of a divide waits, and one for the word behind a
  load that traps; the comment at `superscalar_core.sv:283` speaks of loads only. `LoadUseIsExact` says what it counts.
* `docs/dual_issue_matrix.md:20` says that an illegal instruction never pairs; `can_pair` of `issue_model.py` pairs an
  illegal OP or OP-IMM. The RTL and the timing model do not. `PairingAgrees` asks the issue model about legal words only.
* `analyze_rtl_coverage.py:4` requires a successful regression and line 52 tests only that its files are there;
  `CoverageFollowsSimulation` therefore speaks of regressions that passed.
* What PASS is worth in the summary differs from row to row (`docs/verification_plan.md:13` says that no stage is marked
  PASS unless its tool ran). The nine check rows quote the status of the command. The two stress rows say PASS of a
  count whatever the status (lines 49-50); this is true of the JSON file only because those scripts raise before they
  would write a failing count, and the file may be older than the command. The directed, random and stimulus
  rows print PASS beside counts that may hold failures (lines 44-47); in the model they are `PASS` when the counts
  are full and `PASS_OF_SOME` when they are not. "Project structure" says PASS always (line 42), and the Python tests say
  N/N PASS of the count in `pytest_reference.log`, which no script of the flow writes (line 43): a `make test` in which
  pytest fails ends in a summary that says PASS of it, though `docs/release-notes-v0.2.0.md:19` calls that summary "the
  authoritative snapshot". The ASIC rows are those of the last `make asic`, whenever that was (lines 29-30). `SummaryOfPasses`
  states what each kind of row is worth and leaves out the constant ones.
* A `make asic` that is cut off between its two writes of a failing mapping (`run_asic_timing.py:72` and 78) leaves the
  timing report of the mapping before it, "Return code: 0" included, beside the report of the one that failed, and the
  next summary calls the STA PASS. `StaNeedsMapping` has this as its exception: then the mapping report is the newer.

## Proofs

TLAPS checks these theorems for every value of the constants. For the core that is any program and reset
address, any word size that `WordAssumption` allows, any register file with x0, any divider latency, dual or single
issue, any datapath, any number of counted cycles; for the divider any width, any latency dividing it, any
operands; for the memory any size and any width of a byte; for the readings of a word all words of 32 bits, all
registers and all immediates; for the generator programs of any length; for the flow any number of commands and
faults, and any machines. The runs check the same properties on the instances above.

| theorem | property | module |
|---|---|---|
| `TypeCorrect` | `TypeOK` | `CoreProofs` |
| `TrapsArePrecise` | `PreciseTrap` | `CoreProofs` |
| `OrderIsKept` | `ProgramOrder` | `CoreProofs` |
| `Lane1IsPlain` | `Lane1Discipline` | `CoreProofs` |
| `DividerIsOwned` | `DividerOwnership` | `CoreProofs` |
| `TrapsAreFinal` | `QuietAfterTrap` | `CoreProofs` |
| `OperandsCorrect` | `OperandsInOrder` | `CoreProofs` |
| `CoreImplementsISA` | `ImplementsRV32IM`: `Core` implements `RV32IM` | `CoreProofs` |
| `IssuesCounted` | `IssuesAreAccountedFor` | `CorePerfProofs` |
| `CyclesCounted` | `CyclesAreAccountedFor` | `CorePerfProofs` |
| `DividesCosted` | `DivideCost` | `CorePerfProofs` |
| `LoadUseCounted` | `LoadUseIsExact` | `CorePerfProofs` |
| `OutcomesSeen` | `CoverageSeesOutcomes` | `CorePerfProofs` |
| `IssueModelPredicts` | `IssueModelIsExact` | `PredictionProofs` |
| `TimingModelPredicts` | `TimingModelIsExact` | `PredictionProofs` |
| `FrontendTypes` | `TypeOK` of the front end | `FrontendProofs` |
| `WindowCorrect` | `WindowOK` of the front end | `FrontendProofs` |
| `FrontendKeepsOrder` | `InProgramOrder`: `FrontendStress` implements `FetchOrder` | `FrontendProofs` |
| `RestoringLoop` | `RestoringInvariant` | `UnitProofs` |
| `BitAccurate` | `AlgorithmIsTheUnit` | `UnitProofs` |
| `DividerImplementsContract` | `ImplementsContract`: `DivUnit` implements `DivContract` | `UnitProofs` |
| `LoadsAgreeAlways` | `LoadsAgree` | `UnitProofs` |
| `StoresMerge` | `StoresAreWordMerges` | `UnitProofs` |
| `EncoderReadsBackAlways` | `EncoderReadsBack` | `WordProofs` |
| `OneSetOfIllegalWordsAlways` | `OneSetOfIllegalWords` | `WordProofs` |
| `FlagsFollowClassAlways` | `FlagsFollowClass` | `WordProofs` |
| `MetaAgreesAlways` | `MetaAgrees` | `WordProofs` |
| `PairingAgreesAlways` | `PairingAgrees` | `WordProofs` |
| `BaseKeptAlways` | `BaseKept` | `WordProofs` |
| `RunsToEbreakAlways` | `RunsToEbreak` | `WordProofs` |
| `PassIsEarned` | `PassMeansRun` | `CheckFlowProofs` |
| `GreenIsEarned` | `StrictGreen` | `CheckFlowProofs` |
| `CoverageIsOfThisRun` | `CoverageFollowsSimulation` | `CheckFlowProofs` |
| `StaFollowsMapping` | `StaNeedsMapping` | `CheckFlowProofs` |
| `SummaryIsTrue` | `SummaryOfPasses` | `CheckFlowProofs` |

Three more state the inductive invariants behind them: `MemoriesSame` (`UnitProofs`), `WindowsFilled` and
`ProgramsGenerated` (`WordProofs`).

**Assumptions.** `WordAssumption` (a word has more than eight values, a multiple of four), `RegAssumption` (x0
exists), `ResetPcAssumption` (the reset address is an aligned word), `ProgramsAssumption` (memory holds
decoded instructions; what the decoder guarantees of them is `WellDecoded`), `DivAssumption`, `CoreAssumption`
and `DatapathAssumption` (arithmetic returns words). Nothing is assumed of what an operation computes.
`WidthAssumption` and `LatencyAssumption` give the divider a width and a latency that divides it, as the comment at
`div_unit.sv:2` demands. `FlowConstants` says that the bounds of the flow are numbers. `DividerImplementsContract`
has one hypothesis, that the function `DivY` the contract speaks of is the division of the reference model,
`DivPy`; the runs of the core give `DivY` that value. The theorems about the memory have the hypothesis that a word is
exactly four bytes, `Bits = 4 * ByteBits`, and `LoadsAgreeAlways` that every store is inside the memory, since beyond it
the two memories do differ (`data_memory_beyond`). `MemoryAssumption`: a memory of whole words, addresses that are numbers,
values that are words. `WindowAssumption`: the calls considered name mnemonics of the encoder, numbers for registers and
an immediate of at most 32 bits, and raw words have 32 bits; whether a call is accepted is left to `CheckReg` and `Encodable`.
`GeneratorAssumption`: the ranges of the random draws in `gen_random_program.py`, registers up to 27 with destinations
from 4 and immediates that are sign extensions of their low bits.

**Types.** `TypeOK` alone is not inductive: a divide's result is a word only if the operation latched by the
divider is one of the four, whence `DivOpOK` in `TypeInv`.

**Control.** None of the four control properties is inductive alone, and `ControlInv` is their conjunction with
`TypeInv`. Order needs the lanes: only lane 0 may redirect, so a pair in EX never contains a taken
branch whose partner would be on the wrong path. Precision needs the lanes too, since an exception in lane 0
must find lane 1 empty. The divider needs the lanes because its owner is alone in EX, which is also why
holding EX does not hold a younger instruction beside it. The lanes rest on `PairRaw`, `PairWaw` and
`PairStructural`. `TrapsAreFinal` follows from precision: with nothing behind a trap, no write enable is up.

**Operands.** Take the registers as the latches leave them, `RegsAfterMem`. A clock writes what WB holds, which is
already counted (`RegsCatchUp`), and moves MEM to WB with the values already counted (`WbCatchesUp`). So
only EX moving to MEM adds to them, and the forwarding network of an issuing instruction reads
exactly that sum (`Forwarded`) unless a load or a divide in EX owes a result, for which issue waits. While a
divide holds EX nothing is added (`StallKeepsRegs`), so operands latched at issue stay current.

**Implementing the ISA model.** Under the mapping an instruction is executed when it leaves MEM, so the step of
`RV32IM` that a clock takes is known from MEM alone: zero, one or two calls of `step()`, or a trap. `IsaInv` adds
to `ControlInv` what makes MEM hold that step. An instruction in flight is the word of the program at its address
(`WordsInFlight`). Behind EX fetch goes straight on (`Straight`): order alone says what follows a transfer of control,
not that nothing has redirected too early. Lane 1 has no exception (`Lane1Quiet`). And `MemExact`: the trap, the next address,
the value and the store in MEM are those `step()` computes in the mapped state, for lane 1 in the state lane 0
leaves. `MemExact` is established when EX moves to MEM, where `OperandsInOrder` says that the operands are
the registers of that very state.

**Counters.** `PerfInv` is `ControlInv` beside the two sums and two facts of their own: an exception is never in lane 1
(`Lane1Quiet`), and EX is empty while the buffer is (`EmptyTogether`). The issue sum is a balance per clock: what
issues enters EX unless a divide holds it, in which case nothing issues (`StagesMove`), and what is in WB either
commits or is the trap, which precision says is alone. The cycle sum needs that the misprediction counter and the
front end's redirect, which have separate conditions in the source, are the same event (`MispredictIsRedirect`), and that no
redirect comes while the buffer is empty.

**Counters and commits.** `DivideCost`, `LoadUseIsExact` and `CoverageSeesOutcomes` relate a counter to the commits, which
come up to three clocks later. `LeftEx` is the sequence of all that has left EX: the committed, the one that trapped,
and what is in WB and MEM. A commit or a trap only moves a border inside it; it grows when EX moves on, in the
clock in which the counters count. `StreamInv` says that it is a path through the program (`RunOn`) and that each counter
is a count over it (`DivideSum`, `LoadUseSum`, `RedirectSum`); at the halt it is the trace.

**Predictions.** The models read a finished stream and look ahead in it; the core counts as it goes and never sees what
comes next. So the invariant quantifies over the future: a stream is in `Future` if `Sent`, what has issued on the right
path, may turn out to be its beginning. A clock only narrows that set (`FutureKept`), and at the halt `Sent` is
the `DynamicStream`. `IssueForetold` says of every future in which nothing can wait that the issue model, run over
it, puts a border between issues where `Sent` ends, and has the core's counts there (`Behind`).
`TimingForetold` says of every future without the three exceptions of `TimingModelIsExact` that `simulate_dynamic`, run
over it, is `Abreast` of the core after some number of turns within its bound: a clock in which something
issues or waits for EX is a turn, any other is none. The model's cycle is ahead of the counter by
`Lead`, since it charges a redirect at once and the halt at the end, and the core as they happen. `Tags`
ties the cycles it notes for loads and divides to what is in EX. That it ends within `IterationBound` is the last conjunct: the turns taken and
those that EX may still cost (`Owed`) are at most latency + 5 for each instruction issued.

**The front end.** `WindowOK` is inductive once typed; with it, replaying slot 1 and appending one word is the same as
advancing the window by one.

**The divider.** `RestoringInvariant` says of a division in progress that the first bits of the dividend are quotient times
divisor plus remainder, the remainder below the divisor. `Running` ties that to the registers and to the counter:
while busy they belong to the owner's operands, and the loop has gone as far as `cycle_q` times the bits per clock. The last
iteration then leaves quotient and remainder of the magnitudes, and signs, division by zero and overflow are cases
(`DivPy` is defined by integer division, not by a loop). The loops are recursive functions, unfolded once per bit;
statements for every number of bits are proved by looking at the smallest number they fail for, as naturals are
well-founded, and that 2^n doubles with n by counting the subsets of a set.

**The data memory.** A word is a number of four digits in base 2^`ByteBits` (`FourBytes`), and every number below 2^`Bits` is one
(`IsFourBytes`). Shifting is then moving digits, dividing and taking remainders is dropping them (`QuadMoves`, `QuadCuts`),
which leaves of `store_be` and `store_wdata` that exactly the lanes the access covers are enabled and each holds its own
byte of the register (`StoredLanes`). That turns a store of the RTL into an update of bytes (`StoredBytes`) and, with the
lanes outside left alone, into `StoreSv` of the one word (`StoreMerges`). `_store` is two slices and a value between
(`StoredByPython`), so `SameBytes`, that both arrays hold the same bytes, is inductive beside `BytesStored`. A load is then the same few
digits on both sides, extended alike (`LoadsSame`); it needs alignment, without which the shifted word lacks bytes of the next
(`EndsInside`).

**The readings of a word.** `Filled` is the invariant of the windows: each word is raw, or `Encode` of its recorded call, and is
decoded as `Instruction` says; so every property is about one word or two, whichever they are. A word is a set of bit
numbers and `Num` the number of a field, so the first step is that the two determine each other (`NumBits`,
`BitsOfCodes`, from the digits of a number in base 2). For each of the formats R, I, S, B, U and J the fields an encoder places
are shown to be the ones the decoder cuts out (`RRead` to `JRead`), and the scattered immediate bits to come together again, in the
decoder's order and in `step()`'s, with their sign (`IImmediate` to `ShiftImmediate`). `CallReadsBack` collects this over all 47
mnemonics. That the readers trap on the same words is shown by stating which words are reserved once, as `Reserved`, and
each reader against it (`SvReserved`, `StepReserved`, `MetaReserved`, `NameReserved`). The flags follow from the group of the opcode
(`WordFlags`, `WordMeta`), and the pairing rules from the flags.

**The generator.** `Generated` says which kind of word each iteration leaves: in the prologue words that run straight on,
in the body such words that also write registers 4 to 27 only, at the end EBREAK. That a drawn call has that kind is
an instance of `CallReadsBack`: the word decodes to the operation and registers that were drawn.

**The flow.** `FlowInv` holds for any number of commands because each conjunct speaks of the files as whoever wrote
them left them. `Shape` says where a command is and that its statuses follow the job list. `Behind`: the steps of the
running script that lie behind it had their tools, and their reports are of this command. `PassMeansRun` and
`StrictGreen` (through `AllGreen`) then only look at the moment in which a row is appended. `CoverageFollowsSimulation` needs
`CoverageCounted`, of which command the evidence is that the running coverage has read. `StaNeedsMapping` needs
`AsicReportsSoFar`, what the two reports say at each step of `run_asic_timing.py` and at each write of its ways out: an
interrupted `make asic` leaves what an earlier one wrote. `SummaryOfPasses` needs `SummaryRows`, that the rows of a
summary are the statuses and files of its command, and `StressFiles`, that the two stress scripts never write
anything but a pass.

**Only model-checked.** Every invariant and every action property the passing runs check is proved. What is left to TLC is
liveness (`Progress`, `Delivered`), as fairness and ENABLED are out of this prover's reach, and the three violations. Where
induction over data is needed, it is written out as above, as the library's induction theorems take an operator that
none of the provers can instantiate.

## Not modelled, and why

Debug and coverage outputs: they repeat wires. `formal/` and `tb/assertions/`: tool glue around assertions that
`CoreProps` implies or states more strongly. The tables of directed and performance programs
(`gen_directed_tests.py`, `gen_perf_programs.py`): data; the runs take every program over an alphabet instead. How
the audits and coverage scripts search sources and logs, and the text of the reports: string processing without
a state. `run_regression.py`: no make target calls it. The CI workflow and the bootstrap scripts: they install
tools and call the make targets.

## Plan

The order is by how much a part decides about what the core commits.

1. *done* front end, issue, pipeline, ISA, divider, data memory; types, control, operands and the front end's order proved.
2. *done* decoder, encoder and the other readings of a word; `WellDecoded` derived from the encodings.
3. *done* counters, and the accounting that relates them to one another, proved; timing and issue models against the core.
4. *done* random generator; check scripts and the flow around them.
5. *done* every clock implements a step of `RV32IM`; the divider for every width; the flow for any number of
   commands; what the counters say about the commits.
6. *done* both models predict the counters of every program they are for, proved.
7. *done* the data memory and the readings of a word, proved; the generator, for programs of any length.

Left for later: the arithmetic of ALU, branch unit and multiplier, which `Core` and `RV32IM` share as parameters.
