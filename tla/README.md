# micro-forge in TLA+

micro-forge is a deterministic machine emulator: a machine kernel (an
instruction-count clock with an event queue, an address-routing bus, memory and
device regions) and an x86-64 interpreter on top of it. This directory holds
its TLA+ specifications, the TLC configurations that check them on small
instances, and TLAPS proofs of theorems about them. `PROJECT.json` lists the
runs, the definitions with the source lines they translate, the mutants that
show each property can fail, the hazards and the findings.

Run a check with `tlc -config MCBus.cfg MCBus`, a proof with
`tlapm BusProofs.tla`.

## Inventory

Paths are relative to the repository; `K` is `src/kernel` with
`include/micro_forge/kernel`, `X` is `src/arch/x86_64` with
`include/micro_forge/arch/x86_64`.

| Component | State | Operations | Calls | Hard about it | Correct when |
|---|---|---|---|---|---|
| Scheduler (`K/scheduler`) | heap of events, next sequence number | `schedule`, `dispatch`, `next_deadline`, `empty` | the callbacks, which call `schedule` and devices | re-entrance: the queue changes while the loop of `dispatch` runs | no event lost or repeated; order forced; a pass fires what is due |
| Bus (`K/bus`) | vector of mappings | `map`, `read_u8..u64`, `write_u8..u64` | regions | two binary searches need a table only `map` keeps sorted; wrap at 2^64; sizes of mapping and region differ | table sorted and disjoint; each access served by the bytes it names, or an error naming one of them |
| Regions (`K/ram_region`, `debug_exit`, `le_access`, `bus_error`) | bytes of RAM | reads and writes at an offset | the exit sink | bounds without wrapping; all-or-nothing writes | an access is in bounds or changes nothing |
| CPU core (`X/cpu.cpp`) | registers, flags, rip, icount, console, latched exit status | `reset`, `step`, `run`, `request_debug_exit`, `set_gpr`, `set_rip`, `set_trace` | bus for fetch and data; `dispatch` on every retire | callbacks in the middle of a string instruction; device writes that stop the machine; faults half-way; resets with events pending | virtual time is exact; a stop is final and names its instruction; a fault is precise; `run` returns |
| Instruction dispatch (`X/dispatch.cpp`, `execute.cpp`) | none of its own | one case per mnemonic, operand access, ALU | the core's helpers | order of side effects when an operand faults; flag formulas | results and flags are the architecture's |
| Multiply, divide (`X/grp3.cpp`) | none | `mul`, `imul`, `div`, `idiv` | the latch | 128-bit arithmetic in 64 bits; overflow | quotient and remainder, or #DE |
| Decoder (`X/decoder.cpp`, `internal.hpp`, `tables.cpp`) | none | `decode_one` | the tables, the group cases, `resolve_rm` | the input may end at any byte; prefixes, groups and escapes change what follows; the length is the sum of every stage | the verdict depends on the instruction's own bytes only, its length is exact, an error is at a byte of the input |
| Renderer, bit helpers, bench, tools, scripts | none | text, masks, hosts | | | |

The program is single-threaded. What interleaves is calls: `retire()` calls
`dispatch()`, which calls the scheduled actions, which may schedule again and
write to the bus, which may call the exit sink of the debug-exit register,
which sets the CPU's exit status, all of it in the middle of an instruction.

## Modules

| Module | Models | Extends / instantiates |
|---|---|---|
| `Scheduler` | the event queue, `dispatch` cut at every point a callback runs; refinement mapping `Wheel` | `TimingWheel` (INSTANCE) |
| `TimingWheel` | abstract: slots of sequences, one per deadline | |
| `NatFacts` | lemmas on numbers the proofs share | TLAPS |
| `SchedulerProofs` | theorems: every safety property, the refinement | `Scheduler`, `NatFacts` |
| `Regions` | RAM bounds and byte chains, exit register, errors (operators) | |
| `Bus` | the mapping table and the accesses; refinement mapping `Flat` | `Regions`, `AddressSpace` (INSTANCE) |
| `AddressSpace` | abstract: one function from addresses to bytes | |
| `MCBus` | instance | `Bus` |
| `BusProofs` | theorems: table, accesses, types, the refinement | `Bus`, `NatFacts` |
| `Cpu` | the interpreter core composed with bus and scheduler | `Bus`, `Scheduler` (INSTANCE) |
| `MCCpu` | a small machine and its programs | `Cpu` |
| `CpuProofs` | theorems: stops, budgets, faults, virtual time | `Cpu`, `NatFacts` |
| `CpuTypeProofs` | theorems: types, string progress | `CpuProofs`, `BusProofs` (INSTANCE) |
| `Opcodes` | the five opcode tables, row by row | |
| `Decoder` | `decode_one`, given its bytes one at a time | `Opcodes` |
| `InsnStream` | abstract: what a decoder of a byte stream promises | |
| `MCDecoder` | the bytes worth trying at each place | `Decoder` |
| `DecoderProofs` | theorems | `Decoder`, `NatFacts`, TLAPS |
| `Alu` | what the register forms of the integer instructions compute, and the flags | |
| `MCAlu` | edge values and shift counts | `Alu` |
| `AluProofs` | theorems: every property of the `alu` run | `Alu`, `NatFacts` |
| `Grp3` | multiplication and division | |
| `MCGrp3` | edge values | `Grp3` |
| `Grp3Proofs` | theorems: every property of the `grp3` run | `Grp3`, `NatFacts` |

Definitions named `Slip_...` are the bugs the properties are tried against;
nothing else uses them.

### Scheduler

`queue` is `queue_` as a set: the heap's order is the strict order `Before`
(`Later` reversed), and `queue_.top()` is any element nothing is before.
`dispatch()` is `Dispatch` (entry), `Fire` (the loop test, copy, pop), any
number of `CallbackSchedule`, `Return`, and `Leave`. Callbacks are arbitrary;
`Honour` says whether they keep the contract in the comment of `schedule()`
(no deadline before their own). Sequence numbers do not wrap: a run of 2^64
schedule calls is out of reach. `log`, `born` and `pass_start` are history.

### Bus and regions

`mappings` is the vector; `UpperBound` is what `std::ranges::upper_bound`
guarantees on a sorted table, and `MappingsSound` is why the table is sorted.
Addresses are numbers below `AddrSpace` (2^64 in the code) with its wrap-around
in `Wraps` and `Rebase`; a byte has `ByteBits` bits, so a value of `w` bytes is
below `Span(w)` = 2^(w * ByteBits) and the byte chains are the code's divisions
and remainders at a smaller byte. `Errors(address, w, write)` is the error path of
all eight access functions, the empty set standing for success. `signal` is
what the last operation made the exit sink receive. A region's raw `data()`
view only sets what the memory holds before a run.

### Cpu

The variables are the members of `Cpu`, the bytes behind the bus, the
scheduler's variables, and a program counter of the emulator itself (`ctl`,
`back`): where the one thread stands. An instruction up to its first
`retire()` is one action, since nothing else can run inside; `Tick`, `Fire`,
`CallbackSchedule`, `CallbackWrite`, `CallbackReturn`, `Retired` are the retire
and its dispatch; a string instruction is `StringBegin`, one action per
iteration with a retire after each, `StringEnd`. `insn`, `snap` and `promise`
are history: the instruction that last began with the registers it began with,
and the icount each event should fire at.

Decoding is `Decoder`'s: here `code` maps addresses to the instructions that
`decode_one` delivers there, and programs do not overwrite themselves. `IsInsn` and `IsOperand` say what the
decoder delivers: a length of at least one, widths of 1, 2, 4 or 8 bytes, a
register number where the operand is a register, a scale of the SIB byte, and
no immediate as the source of a bit scan (no row of the tables has one).
`LayoutAssumption` is what `map()` guarantees of the table it builds
(`BusProofs!TableIsSound`), `HostAssumption` that what the host passes fits
the parameters of the functions it calls. Every operand form the executor handles
is there: registers of each width with the preserved, cleared and second-byte
(ah..dh) cases, memory with base, scaled index and displacement, immediates,
an operand that is not there (it reads 0 and takes no write), the banks without
storage and the fs/gs segments, which refuse. The second operand has a width of
its own (`from`), which makes `movzx` and `movsx` cases of `Mov`. Each case of
`execute()` whose order of reads, writes and faults differs is an operator:
`xchg`, `xadd` and `cmpxchg` with their two places, `cmov` that loads whether
or not it moves, the bit tests that address memory themselves, shifts that
write nothing for a count of zero, division with its fault. Where mnemonics
differ only in the value, `Cpu` has one or two of them and `Alu` has them all.

Bytes have one bit in the runs, so a 64-bit word is eight bits and a register,
a pointer and a stack slot still have eight bytes (a bit index then is its byte
offset: the sign that `>> 3` loses is `Alu`'s). Of the flags `zf` and `df` are
kept, which steer the control modelled; of the registers, those with a role of
their own. The trace hook observes only. Callbacks do not call `dispatch`,
`reset`, `step` or `run`: no client in the repository does, and the CPU keeps
no state that would survive it.

### Decoder

`Decode(s)` is `decode_one()` over the bytes `s`. Each stage of the code is an
operator that gives the verdict or calls the next one: `PrefixEnd` and
`Prefixes` (the prefix loop), `Opcode` with `OneByte`, `TwoByte` and
`ThreeByte` (the table and the mandatory prefix), `Modrm` with `Rejected` and
`Regrouped` (the groups), `Assemble` and `Displaced` (the slots and
`resolve_rm`), `Immediate`. `decode_one()` has no state; what changes is the
caller's window, so `Arrive` asks again with one byte more and `Overrun` with a
byte that belongs to what follows. Register numbers and the values of
displacements and immediates are left out, their sizes are not; a truncation
also says which byte it misses, so that the run can pick that byte.

`InsnStream` is what `Cpu::step()` rests on when it decodes the longest window
that memory allows: more bytes never change an answer, none is given early, and
the length is what was read. `LengthExact` compares each length with the opcode
map of the architecture, stated without slots or groups and with its own
reading of the prefixes (`OpcodeAt`, `ArchW`); `ContractKept` and
`ImmediateFills` are what `dispatch.cpp` takes for granted of its input.

The two readings of the prefixes differ in one case. The architecture ignores a
REX that does not stand directly before the opcode; the prefix loop
(`internal.hpp:457`) keeps it. So `48 66 B8` has 11 bytes for the decoder and 5
by the manual. The repository knows (`test_decode.cpp:294`, "SDM 2.2.1.2 words
the precedence the other way. Recorded divergence") and tests for what the code
does, so this is no finding: `LengthExact` demands the architecture's length of
every instruction but these (`MisplacedW`), and of these the length with the
REX in its place. The run reaches them, and with the architecture's rule
demanded of all it finds `48 66 05`.

Modelled as they are, with no property: all opcodes `A4` to `AF` keep a
repeat prefix, `test` (`A8`, `A9`) included, which is no string operation; `push`/`pop` of fs and gs decode with no operand, so the executor would
push 0; `0F 10` under F3 or F2 is `movups`; `90` with REX.B is `nop`; the length is kept in a
byte, so it wraps for more than 255 bytes of prefixes, which a window of 15
cannot hold.

### Alu and Grp3

Both take two or three registers, run one instruction on them and stop:
`before` and `insn` record what it was given, so every property relates a
result to its operands. In `Alu` a word is the set of its one bits, which makes
`&`, `|`, `^`, `<<`, `>>` set operations; in `Grp3` it is a number, since only
sums and products occur. `ByteBits` stands for the 8 of the code, and the
widths, masks, nibble and halves are derived from it. `AluAdd`, `AluSub`,
`AluLogic` and the shift operators return the value and the six flags that the
helpers of `execute.cpp` record; `Arith`, `Shift`, `Scan`, ... are the cases of
`dispatch.cpp` that call them and write back through `WriteGpr`. The undefined
shift of a 16-bit `shld`/`shrd` by more than the operand is a choice (`Rest`).
The ah..dh banks and memory operands are `Cpu`'s, where they can fault. In `Grp3` the eight-byte `div` and `idiv` are actions of their
own (`DivWide`, `IdivWide`), as they are branches of their own in the code:
`Udiv128` is the loop over the bits, `Abs128` the magnitude of the dividend.

## Runs

| Run | Question | Bounds |
|---|---|---|
| `scheduler` | is any event lost, repeated, misordered; does the queue implement the wheel | 4 events, deadlines up to the bound in the cfg: a callback can schedule before, at and after the event it runs from, twice |
| `scheduler_live` | does a pass fire in order, and every event fire, if callbacks keep the contract | as above, `Honour` true; a clock that advances to its bound and stays |
| `bus` | is the table sound under every order of `map()`; do accesses behave as one address space | 8 addresses, up to three mappings at three bases, ranges that are empty, wrap, overlap, touch and end at the top; RAM twice and an exit register; accesses of 1, 2 and 4 bytes at every address, interleaved with `map()` |
| `cpu` | precise faults and stops, string progress, time, budgets; does `run` return | programs of at most eight instructions that between them use every modelled instruction with every operand kind, including holes, fetch at the end of a mapping, and the exit register reached from every store; looping programs and `rep` with rcx = 0; two events, resets, device writes from the host and from callbacks, `set_rip` and `set_gpr`, `run` with a budget mixed with `step` |
| `alu` | do results, flags and conditions agree with arithmetic | two-bit bytes: operands of 2, 4, 8 and 16 bits, sixteen edge values in each of two registers, counts at, around and beyond every width |
| `grp3` | are products, quotients and the divide fault exact | one-bit bytes: operands of 1, 2, 4 and 8 bits, edge values of rax, rdx and the source, which may be rax or rdx itself |
| `decoder` | is the verdict the instruction's own, its length the architecture's (but for a REX.W before a legacy prefix), its operands what `execute()` takes for granted | every opcode of the one- and two-byte maps and both outcomes of the third, up to two of the prefixes 66, F2, F3, REX.W in any order, 67, every reg field with a memory and a register operand, every addressing form, cut at each byte, with one byte of what follows |
| `cpu_latch`, `cpu_surface`, `cpu_segments`, `alu_shl`, `alu_bt` | what comments promise | violated, see below |

`MaxTick`, `MaxEvents`, `MaxMappings` bound counters; they are guards of the
host's and the callbacks' actions only (an instruction is never refused for a
bound). The `Alu` and `Grp3` runs stop after one instruction and the `decoder`
run when the window or the bytes of what follows are used up, so deadlock is
not checked there; everywhere else it is. Two events are enough for a callback
to schedule between, at and after the other's deadline, and a budget of five
for `run` to end in the middle of a `rep`, at its end and before it. Window,
prefixes and what follows are bounds of the `decoder` run only: a verdict
depends on which classes of prefix came and which of a class came last, and two
prefixes make every such pair (segment and lock prefixes only set a field). Nothing in the arithmetic depends on the size of a byte, and the edges the
formulas turn on (the sign and the carry of every width, a count equal to the
width, a quotient of the least magnitude) exist in words this small.

### Findings

* `cpu_latch`: `request_debug_exit` overwrites a latched status, against
  `cpu.hpp:25`.
* `cpu_surface`: `execute_syscall` does not advance rip, so the `write` of
  `cpu.hpp:69` is executed again with its own result as the number.
* `cpu_segments`: `bt`, `bts`, `btr` and `btc` of memory compute their address
  themselves (`dispatch.cpp:268`) and never ask for the segment, so under fs or
  gs they access memory as if its base were 0, where `cpu.hpp:63` promises
  `kUnsupported` "instead of guessing a base".
* `alu_shl`: `shl` takes CF from the wrong side of its operand
  (`execute.cpp:240`), so the bit shifted out is lost unless the count is the
  width; OF follows it.
* `alu_bt`: a negative bit index in memory is shifted as unsigned
  (`dispatch.cpp:268`), which is not the arithmetic shift its comment promises.

Three formulas are modelled as they are with no run, because nothing in the
repository says what they should be: AF is bit 3 of `a ^ b ^ sum` where the
carry out of the nibble is bit 4 (`execute.cpp:197`, read by no instruction);
`bswap` of 16 or 32 bits gives zero (`dispatch.cpp:101`); `xadd` of a register with
itself leaves the old value, because the second write wins. And `bus.cpp:35`
checks an access against the size of the region, not of the mapping: a mapping
smaller than its region would serve bytes past its end. No machine here maps
one, and `AccessExact` is stated and proved for the others (`Roomy`).

## Fairness

`Scheduler!LiveSpec`: weak fairness of the steps of `dispatch` and of the
callback's return (the thread runs on and callbacks terminate) and of the clock
(the machine keeps retiring instructions); none for `schedule`.
`Cpu!LiveSpec`: weak fairness of `Machine`, the steps the thread takes by
itself once `run` or `step` was called; the host need never call, and callbacks
need never schedule or write. A callback that schedules itself for ever at a
deadline already reached would keep `dispatch` from returning; the bound on
events excludes it, and the code leaves it to its clients.

## Proofs

Every proof assumes only the named ASSUMEs of the modules, which the runs
evaluate, and holds for every value of the constants they admit: the code's
eight-bit bytes and 2^64 addresses are among them.

`NatFacts` has what the others keep needing: every non-empty set of naturals
has a least element, induction over sets of naturals (from the well-founded
order of strict subsets, since the library's induction theorems are out of
reach), powers of two with their laws, quotient and remainder for naturals and
integers, and that a recursive function on the naturals exists.

`SchedulerProofs` proves every safety property of the `scheduler` runs for all
bounds and callbacks. The inductive invariant joins the type invariant, the
accounting of sequence numbers (pending and fired ones partition
`0 .. next_seq - 1`) and, for the order, that whatever is pending and older
than the last firing was not before it. `NatFacts!LeastNatural` gives the
smallest pending pair, so that a pass that cannot `Leave` can `Fire`.
`SchedulerIsWheel` is the refinement: a slot of the wheel is the pending
sequence numbers of a deadline in ascending order, so appending the newest is a
`schedule`, and the queue's top is the head of the first slot that is not empty.

`BusProofs` proves the table sound under `map()` (the insertion point found by
the search separates the entries, so disjointness from two neighbours is
disjointness from all), that the search then finds the one covering mapping,
that `map()`'s verdict is exact, and that error addresses are absolute. The
exactness of accesses and the refinement of the one flat address space
(`BusIsFlat`) are proved under `Roomy`, mappings no smaller than their RAM:
without it the code does serve bytes past a mapping's end. An access covers
`w` consecutive bytes of one mapping, which are `w` consecutive bytes of one
region, and what `put_le` leaves in them is what `AddressSpace` writes.
`BusTypeCorrect` needs that a sum of `w` bytes, each times its power, is below
`Span(w)`: an induction over the bytes read.

`CpuProofs` reduces every instruction to what it may do to the control:
`Settles` there says once that an instruction ends in a retire or hands back,
that a status names it, and that a memory fault leaves memory, clock, queue and
registers (but `rsp` in `pop` and `leave`) alone. From it follow precise faults
and, with the inductive invariant `Course` (where the thread stands, what has
elapsed of the budget), that a stop is final and a budget honoured; `Blamed`
carries who a status names. That events fire on time is proved with `Clocked`:
pending and past sequence numbers are distinct, each pending event is promised
the later of its deadline and the next dispatch, and each past one fired when
promised. `Leave` needs the scheduler's top to exist, which
`NatFacts!LeastNatural` gives.

`CpuTypeProofs` proves `TypeOK` of `Cpu` with the inductive invariant `Typed`:
per instruction, a value read from a register, from memory or from an immediate
is a word, and what the instruction makes of it is one again before it is
written (`Outcome`). What the bus returns is in range by `BusProofs`, whose
assumptions are shown to hold of the bus the CPU uses. `StringsProgress` is that
a repeated string instruction has moved its pointers by as many elements, in
the direction of `df` and modulo the address space, as rcx has lost. It is not
inductive: the loop runs on a local, `remaining`, which could exceed rcx as far
as the property knows, and rcx would go below zero. `Counted` adds that the two
agree while the instruction runs (or that the loop has ended), and that an
instruction without `rep` goes round once.

`AluProofs` and `Grp3Proofs` prove every property of their runs, for every byte
size the modules admit and all operands. Both models run one instruction per
behaviour and keep the registers it began with in `before`, so the inductive
invariant is `TypeOK` and the property itself; the work is in the values.

* In `Alu` a word is a set of bits, in the properties a number. `Num` of the
  low `k` bits is the link: taking one bit more adds 0 or 2^k, and a set is
  determined by its number. Addition and subtraction are then exact modulo 2^w,
  carry and overflow what the unsigned and the signed result say, the wrap of
  `adc` and `sbb` in two steps included; each condition code is the comparison
  of the operands that set the flags (the branch after `cmp`). Shifts are
  products and quotients by powers of two, `shld` and `shrd` a shift of the pair
  of operands, `rcl` and `rcr` a turn of one ring that has CF for its extra bit
  (`Ring`, `Round`), so that n steps of the loop are one turn by n; scans give
  the least or greatest bit, and a widened operand has the value of the narrow.
* In `Grp3` the eight-byte product is put together from four half-word
  products, whose sum is exact, and corrected for signs. `Udiv128` keeps, after
  `k` bits, that the dividend's top `k` bits are quotient times divisor plus a
  remainder below the divisor (`Turn` may wrap once, and subtracts when it
  did). `Truncates` turns magnitudes into the signed quotient that rounds to
  zero, `Abs128` is the magnitude in two words; #DE is latched for a zero
  divisor or a quotient that does not fit, and then nothing else changes.

`DecoderProofs` proves the types of every error and that `decode_one()`
implements `InsnStream`, for every input and whatever the tables hold, for
windows whose length fits in `DecodedInsn::length` (`Window < LengthVals`). A
stage starts at a position and hands a later one on, so two facts go through
them from the last to the first: `Within` (what a stage says lies between its
position and the end of the input) and `Settles` (with one byte more it says
the same, or it had asked for more and says nothing the new byte is not part
of). `PrefixEnd` is where they start: a byte after the prefixes does not move it.

What an accepted instruction looks like does depend on the tables. `Entry` says
what is asked of a row: the immediate and ModRM that the opcode map gives its
opcode, operands that fit its mnemonic, and, for a group, rewritings that keep
this. `GoodRows` is shown row by row for the five tables (`PrimaryRows`,
`NoneRows`, `P66Rows`, ...). A group's case then makes a sound entry of a good
row (`ModrmExact`), so that operands are assembled only from `Sound`
instructions, and the stages add up to the length of the map (`DecodeExact`).
`LengthExact`, `ContractKept` and `ImmediateFills` follow, for every input.
`LengthExact` also needs the prefixes as the architecture reads them: `ExtentIs`
shows that `PrefixEnd` is where `OpcodeAt` puts the opcode, and `WideIs` that
the last REX of the loop is the one before the opcode or a `MisplacedW`.

Only model-checked: liveness (`EventuallyFires`, `RunReturns`), which the
prover does not do. The findings' runs show violations, which need no proof.

## Not modelled, and the plan

1. `Cpu` with a fetch of bytes through `Decoder`: today the two meet in what
   `InsnStream` and `ContractKept` promise.
2. A machine with the repository's test device (a periodic timer) composed of
   `Cpu`, and an abstract clocked machine it implements.

The renderer is text, tested differentially by the repository; bench, tools and
scripts are hosts, whose calls are the `Host` actions of `Cpu`.
