# A verification of after-intel

after-intel is a collection of tools for one long experiment: booting an arm64e
kernelcache where it was never meant to boot. It unpacks Apple containers,
builds a memory image with a device tree and boot arguments, patches the kernel's
text, boots it under an emulator, watches it from outside, and, on the other
side, measures how far a static arm64 to x86-64 translator gets. There is no
server and no protocol; what is hard is what the emitted code and the repeated
boot loops do, and that is what is modelled here.

Paths below are relative to `src/`; `ibootcore/` is left out.

## Inventory

| Part | Source | State | Operations |
|---|---|---|---|
| Translator | `a64_to_x64.py` | of the emitted code: 13 host registers, a spill area at r15, one scratch register, the flags; of the tool: the shadow system register slots | `translate(word, pc)` per instruction form |
| Reference interpreter | `arm_model.py` | a register file | `step()`, and the bench that compares |
| Assemblers | `asm64.py`, `x86emit.py` | buffer, labels, fixups | emit, `label`, `link` |
| Guest monitors | `monitor.py`, `monitor2.py`, `gfx.py` | line buffer, cursor, self-test table of the emitted program | key, command, print |
| Wait tracer | `trace_wait.py` | index and ring in guest memory, patched kernel text | the emitted detour; `main` finds the cave |
| Kernel text patches | `patch.py`, `stub_hypercalls.py`, `stub_scratch.py`, `hvc_impl.py`, `null_guard.py`, `cond_trap.py`, `early_console.py` | the kernel file; padding shared as code caves | find sites, take a cave, write a stub |
| Trap sweep | `sweep.py` | `data/sweep-state.json`, the patched image | `--list`, `--patch`, `--exclude` |
| Call bisection | `bisect_calls.py` | the patched image, the operator's interval | `--list`, `--from k` |
| Guest inspection | `guest.py`, `fdt_read.py` | a QEMU monitor connection | read guest memory, walk process and thread lists |
| Image layout | `loadmap.py`, `build_image.py`, `trampoline.py`, `build_all.py` | addresses chosen by one stage and recomputed by another, cached files | parse, place, link, build |
| Boot data | `devicetree.py`, `bootargs.py`, `nvram_image.py`, `msi_frame.py`, `tcseg.py`, `bochs_fb.py`, `bootscreen.py` | encoded blobs | build |
| Container decoders | `aea*.py`, `hpke.py`, `apfs_*.py`, `gpt.py`, `udif.py`, `pbzx.py`, `im4p.py`, `im4m_props.py`, `ibootim.py`, `extract_member.py`, `tools/*carve*`, `tools/xar*`, `tools/pbzx_cpio.py` | a position in a stream, cached segments | read |
| Static analysis | `symbols.py`, `xrefs.py`, `translatability.py`, `sysreg_census.py`, ... | none | one pass and a table |
| Picture conversion | `ppm2png.py` | none | one pass |

How they interact. `build_all` runs the decoders, `loadmap`, `devicetree`,
`build_image` and `trampoline` one after the other; they communicate through
files whose addresses must agree. The patchers each rewrite the kernel file and
recognise what an earlier one left in it. `trace_wait` and `early_console` plant
code that runs on every processor of the guest at once. `sweep` and
`bisect_calls` alternate with boots and an operator. `guest` reads memory that
the guest goes on changing. The translator is called per word; `arm_model` is
its oracle.

What is hard, and what makes each part correct:

- Translator: three resources are shared by every form (the scratch register,
  the host registers that x86 instructions fix, the flags), nothing checks for
  clashes, and the unit tests look at the emitted text. Correct means: the guest
  registers change as the interpreter says, whatever registers an instruction
  names.
- Wait tracer: the detour runs concurrently with itself, unlocked. Correct
  means: the ring is never overrun, and it keeps what the comments say it keeps.
- Sweep and bisection: a loop of invocations and boots, whose result must be
  complete, whose record must survive, and which must end.
- Patches: two patchers may not take the same bytes, and may not patch twice.
- Layout: regions do not overlap, and two stages compute the same addresses.
- Monitors: fixed buffers, unlimited input.
- Guest inspection: a walk over lists that change underneath.
- Decoders: boundaries of segments, tree nodes and slices.

The individual dangers are listed with their lines under `hazards` in
`PROJECT.json`, each with the properties that would catch it; the one without a
property says why.

## Modules

| Module | Models |
|---|---|
| `A64` | one guest instruction on the register file: `arm_model.step`, and the architecture for the forms outside it |
| `ArmModel` | the interpreter as a state machine, the abstract specification |
| `Translation` | `translate()`: the list of host instructions for one guest instruction, and what running a list does |
| `A64ToX64` | the run of the emitted code, one host instruction per step |
| `TwoBitWords` | two-bit arithmetic of both machines, for the small instances |
| `LogicalImmediate` | `decode_bitmask` against the architecture's definition, all encodings |
| `A64ToX64_proofs` | proofs about `Translation` and `A64ToX64` |
| `Conditions`, `Conditions_proofs` | the guest's condition flags and the host's, side by side |
| `LoadStore`, `LoadStore_proofs` | loads, stores, extended-register words and shadow system registers, side by side |
| `MemoryOps` | memory accesses, barriers and which of them the guest keeps in order |
| `GuestOrder` | the guest's memory model as a state machine, the abstract specification |
| `TsoHost`, `TsoHost_proofs` | several processors running translated loads, stores and barriers |
| `TraceRing` | the detour of `trace_wait.emit` |
| `TextRun` | the processor as it runs patched text |
| `TextPatches`, `TextPatches_proofs` | the patchers on one kernel file, and what the patched kernel does |
| `Sweep` | the patch, boot, exclude loop |
| `BisectCalls` | the search for a blocking call |
| `Probes_proofs` | the theorems of `TraceRing`, `Sweep` and `BisectCalls` |
| `Monitor`, `Monitor_proofs` | the boot sector and the four bare-metal programs; extends `Translation` |
| `DeviceTree` | the tree with its lengths, phandles and frames |
| `BuildImage` | the layout, and the commands that share an output directory; extends `DeviceTree` |
| `BuildImage_proofs` | the theorems of `BuildImage` |
| `Containers` | the readers: a file, a position, an output, and one action or a few for each |
| `Decoders` | the readers together, and what their writers put in |
| `Checksums` | `fletcher64`, `chrp_checksum`, the NVRAM partitions |

Each `MC` module holds the small instance of the module in its name.

### The translator

`Instrs` is the set of decoded instructions a program is made of; there is one
operator per form of `translate()` in `Translation` (`AluImm`, `AluReg`, `AluShift`, `Madd`, ...),
each giving the list of host instructions the code emits, in the code's order,
with the code's choice of operands: `hostreg`, `move` and the two ways an operand
is staged (`Combine`, `Compare`) are the functions of the source. In `A64ToX64`,
`host` is the contents of the host locations, `pend` what is left of the current translation,
`cur` the instruction it came from. `Fetch` begins a translation, `RunOp` runs one
host instruction, `Retire` ends it. `Arm` and `X86` are the arithmetic of the two
machines, constants about which only the laws `X86Assumption` and `ArmLaws` are
assumed.

`Flush` runs what is left of a translation, so `View(Flush(host, pend))` is the
register file the host state stands for; under this mapping `A64ToX64` is shown
to implement `ArmModel` (`ImplementsOracle`): the register file changes once per
guest instruction, as `Step` changes it. `MeaningPreserved` says the same of one
translation from a state between two instructions, for every instruction of the
program; it is the contract in `translate()`'s docstring.

`Safe` is the set of instructions for which the contract holds. Each condition in
it is one the code does not test, and the comment on it lists why each is needed.
One of them has a run of its own that violates the contract: `alias`
(`SUB Xd, Xn, Xd`). The others were each confirmed by checking
`MeaningPreserved` (`Encodable` for the operands of `imul`, `lzcnt` and `bswap`)
over the instructions in question and are:

- w-forms compute on the whole register (353);
- division overwrites x0 and x3 (660);
- register 31 reads as the stack pointer's slot in the forms where it means zero
  (`a64_to_x64.py:60`);
- `SUBS Xd, Xn, #imm` never writes `Xd` (369-371);
- a shifted operand is lost when rd and rn are both spilled (424);
- `PACIA Xd, Xn` replaces the pointer by the modifier (290);
- MSUB computes `rn * rm - ra` (652);
- the counter overwrites x0 and x3 (206), a variable shift x2 (672), a runtime
  call x5 (215, 242, 255-259);
- the interpreter's ASR of a register operand is a logical shift
  (`arm_model.py:119`), so there it is the oracle that is wrong.

Neither source reads bit 21 of the logical register forms (411-436,
`arm_model.py:125-143`), which inverts the second operand: BIC, ORN, EON and BICS are
translated, and interpreted, as AND, ORR, EOR and ANDS. `ImplementsOracle` compares the two and
cannot see it; a decoded instruction here is what both read. `Conditions`, whose
guest is the architecture, has the words with the bit clear only.

The docstring's register table (lines 18-21: fourteen registers, x6 in rbp) is
older than `XREG` (51), which has thirteen; the model follows the code.

Outside this module: the flags and everything that reads them (next section),
loads, stores, extended-register words and shadow system registers (`LoadStore`),
and direct branches. `LogicalImmediate` checks `decode_bitmask` for every encoding:
the values it gives are exactly the architecture's, and none for a w-form
reaches beyond 32 bits. What becomes of them is another matter: x86 `and`, `or`
and `xor` take an immediate of 32 bits, sign-extended, and `translate()` emits
64-bit ones as they are.
`arm_model.step` reads register 31 as zero always; so does `Get`. A division by
zero raises an exception on the host that the translation does not handle:
`RunOp` is not enabled then and the translation never ends. `Op("cmp", ...)`
stands for every flag-only instruction.

### Conditions and flags

`Conditions` runs guest and translation in lockstep: `x` and `nzcv` are the guest's
registers and flags, `host` and `flags` the host's. A host instruction is a function
from host states to host states (`Exec`), so a translation is their composition;
the bitwise AND is a constant of which only `AndAssumption` is known. `Translate` gives the code's
list for every form that sets flags or uses them (`Alu`, `Cmp`, `CmpImm`, `Tst`,
`Adc`, `Csel`, `Test` and `Jump` for the branches), `cc` is the code's table, `Exec`
is the host, flags included. There is no shadow of NZCV, so what a condition
reads depends on what ran since the comparison; the history variable `live` is
the kind of instruction both sets of flags were last set by, or `none`.

`Safe` says where a condition is still right, and its comment why. The code tests
none of it:

- ADD, SUB and the logical operations overwrite the host flags and leave the
  guest's alone (452), and so do CBZ and TBZ (324-349): a condition may be used
  only while no such instruction has come between;
- CS and CC are `b` and `ae`, HI and LS `a` and `be` (320). The guest's carry after a
  subtraction is the inverse of the host's: CS and CC are wrong after a
  comparison, HI and LS after an addition or a logical operation;
- CSEL moves the other register when the condition holds (690). After a
  comparison this cancels out against the table for CS and CC, and only there.
  `MCConditions_csel.cfg` gives the counterexample for EQ; CSNEG loses CF to `neg` before `cmov`
  reads it, and `cmovmp` does not exist;
- SBC after an addition borrows the wrong way, ADC after a comparison carries it
  (607-613);
- CMN, and TST of a register, are translated as `cmp` (441-446).

`RegistersAgree` and `SameWay` compare results and branches; `FlagsAgree` is what the
host flags mean, and is why the other two hold.

### Loads, stores and system registers

`LoadStore` runs guest and translation side by side on four one-bit cells: the
guest executes an instruction at once (`GuestStep`), the host the list
`translate()` emits, one instruction per step, with `push` and `pop` where the code
stages through the stack. `slots` is `_sysreg_slots`, which grows in the order
registers are first translated and is never reset. `AccessKept` compares registers,
memory and shadow registers whenever a translation is complete; `NoStrayStore` says that
on the way the host stores nothing to a cell the instruction does not name. A host
state is one record (`St`), `Exec` what an instruction makes of it; the guest's
effect is three functions of the instruction (`GuestX`, `GuestMem`, `GuestSys`).
`StartsAssumption`, `InstrsAssumption` and `FiniteAssumption` say what the constants
are: states of the right type, decoded instructions, finitely many system registers.

The comment on `Safe` lists where the translation is wrong, with lines: both base and
source of a store spilled (472-479), post-indexed accesses using the offset twice
(508), pairs that are never written
back (552, 568), LDP into its own base (580), sign-extending loads and prefetches,
register offsets that ignore the extension, LDAR and STLR of a spilled or narrow
register, and narrow stores, which are a `mov` between a byte and a full register
(`mov byte [rbx], rax`, 475-480, 509-515, 541-546) that no assembler accepts. `TypeOK`
says of every translation of a safe instruction that its moves exist (`Assembles`).

The extended-register branch (587-605) is never reached: the test of the
shifted-register forms (411) lets those words pass, and option and imm3 become
the amount of a left shift (`ExtendedAsShifted`). `ADD X0, X1, X2, UXTX` adds x2 shifted by 24;
only UXTB without a shift, whose amount is 0, is an addition at all, of the whole register.
`MCLoadStore_extended.cfg` is the counterexample. A narrow access stands for a byte or a halfword.
Accesses of 32 bits, whose loads are a `mov` between a dword and a full register,
are left out.

### Memory ordering

`GuestOrder` performs the accesses of each processor in any order in which those
that must stay in order (`Ordered` of `MemoryOps`: the same address, a barrier
between, LDAR before, STLR after, STLR before LDAR) do, and a load
returns the newest earlier store of its own or memory. Address dependencies only
strengthen the guest, so leaving them out leaves nothing out that the host could
break: it never reorders two loads. `TsoHost` executes in order and buffers the
stores. `Ldr` and `Str` stand for LDAR and STLR as well, as in the code (624-641);
`Dmb` does nothing (265); `Dsb` waits for the buffer (263).

`ImplementsGuest` is refinement with `done` replaced by what has been executed and
has left the buffer. It holds when no program has a store ordered before a later
load without a DSB between (`Exposed`). `MCTsoHost_dmb.cfg` is what happens otherwise: store, DMB,
load on two processors, and both loads miss the other's store. STLR followed by
LDAR of another address has the same weakness, against the comment in 625-627.

### The tracer

One action per access to shared memory: `Ldr` loads the index, `Str` stores the
incremented one, `Store` writes one of the three words of an entry. A flow is a
processor, or a thread preempted inside the detour. `claim`, `done` and `raced`
are history variables: which index each call stored, which calls finished, and
whether an increment was lost or a writer lapped. `KeepsLast` is what the comment
"Wrapping keeps the last RING" amounts to without a lock: apart from those two
races nothing goes missing and no entry mixes two calls; the comment as it
stands fails with two flows and three calls. `wrap`, whether the ring wraps, is chosen at the start. `main` reserves
and reads back 16 bytes for each entry (167, 198) and `emit` spaces entries 32
bytes apart (53): only the first half of the ring is inside. One-shot mode does two more things its
comments deny, which `Limit` and `Skips` model: the limit word is 65536, twice
`RING` (line 54), and `b.hs` lands on the stores instead of behind them (91), so
a call past the limit writes leftovers into slot 0; `KeepsFirst` is what is still
true. Index arithmetic is modelled on naturals: the index is 64 bits wide.

### The patches

`TextPatches` has one action per tool; each reads `image`, the file the tool before
it wrote, and writes a new one. A word is its operation, and for a branch the
distance, so that moving a word or patching around it has the consequences it
has. The properties run the result: `TextRun` executes a routine with link
register, pointer signature, frames and the serial port, and says how it stopped
and what it did. `was` is the kernel before any tool, `stubs` where each diversion
put its code, `moved` the words that were moved.

The three tools that answer hypercalls find each other's work (`find_sites`,
`classify`, `ScratchSites`). `find_padding` and `find_run` are the two searches, which
disagree: the first counts words and considers only every `want`-th of a run, the
second goes byte by byte. `StubsApart` says that no tool takes what another has
taken, since a stub has no zero words in it; `NeverHangs` that a kernel once answered
stays answered whichever tool follows; `WorkKept`, `NullHandled` and `ConsolePrints`
that the diverted routines do what they did, and what the docstrings add.

`WorkKept`, `NullHandled` and `ConsolePrints` assume `Movable`, which nothing in the
code tests: a displaced word that computes with its own address (a branch, also
one an earlier diversion left there) means something else in a stub
(`null_guard.py:117`, `trace_wait.py:176`), so no site may be diverted twice; and
`find_run` (`trace_wait.py:41`) may find a cave inside the zero bytes of a literal, off
the word boundary. Further, `hvc_impl` looks for sites in data as well;
`early_console` checks for room for eight words and writes eleven (140); `trace_wait`
masks the distance of its branches instead of testing it, which is right while the
text is below 128 MiB, as the model has it.

Of the traced detour `TextRun` has where it goes and which word it displaces, not what it
writes: x8 to x11, and in one-shot mode the flags (`cmp x8`, 62-115). As shipped
(`WRAP`) and at the entry of a function, where the docstring points it, these registers
are free and the flags are kept. A trace set in the middle of a function with `--at` may
destroy a live value, which `WorkKept` does not show.

The assumptions on the constants say where the tools are pointed, which is the
operator's part and which no tool tests. `RoutineAssumption`: the address `patch.py`
knows and the print routine are code, the guarded routine begins with the prologue
`null_guard` expects, a call is a call, and nothing else overlaps the console but a
trace of its first word. `BootAssumption`: the routine that makes hypercalls is straight code
in which a check follows its call (what `find_sites` looks for), and is not diverted.
`EntryAssumption`: the routines `WorkKept` speaks of return in the kernel as it was,
over words that are neither hypercalls nor overwritten, and hold a valid pointer where
a null one is stopped. `FuelAssumption`: a run has enough steps for the detours: each
word of the original costs at most `Toll` steps, the console's `Chars` characters `2 * Busy + 6`
each.

### The sweep

`Patch`, `Exclude` and `Save` are the two subcommands that do something; `Boot` is
the guest, in which any trapped function that executes may fire first. A killed
invocation (`Crash`) leaves the file truncated, since `save_state` opens it for
writing before it writes; every later invocation then raises until somebody
deletes it (`Discard`). `HitsGenuine` and `Complete` survive that, because a
deleted list is simply found again; `Persists`, the docstring's sentence, does
not (`MCSweep_persists.cfg`). Both table walks step over the anchor's own entry (57), so that function is
never trapped: `Complete` speaks of the table as the code reads it.

### The bisection

`PatchFrom` writes the image for the middle of the interval, `BootPatched` boots it and
narrows the interval as the docstring says. Every set of reached call sites is an
initial state, so jumps and loops are covered. `UpperBound` (the blocking call is
never above the interval) holds, and so does `Settles`: the search ends after log2 N
boots, on the last site reached in address order or the one after it. What it does not
do is end on the call that blocks, even in a function without branches
(`SettlesExactly`, violated by `BisectCalls_exact.cfg`): `sites[args.start:]` (82) traps call k
itself, so a trap also fires when the block is k, and "the block is later" (13)
discards it. With branches a later site may have been reached without k as well, and
the last site reached need not be the blocking one.

### The monitors

`Monitor` boots one of the four programs. The boot sector is a list of instructions
on the control registers and page tables, `Boot` executes the next one;
`EntersLongMode` says that paging comes on with everything four-level paging needs,
and when the payload is there. `int 13h` (`monitor2.py:573`, `gfx.py:182`) is called once, for
all sectors, into a buffer of 64 sectors before the end of its segment, and the carry
is not tested: a payload longer than `ReadLimit`, what one call of the BIOS reads, is not
loaded, and the jump goes to what memory holds there (`lost`). The shipped payloads
are 6 and 2 sectors long; more than 255 do not go into the count's byte and are
refused by Python (`ReadAssumption`). How the BIOS fails is external: nothing of a read that
fails is counted on. In `monitor` every payload is read; with `ReadLimit = 2` in its
configuration the longer one is lost, and the theorem is about every limit.
After that there is one action per label of the programs' loops: a key, backspace,
enter, the commands of `monitor2`, one test or one bar of the picture at a time. The
translator is not modelled again: a typed word runs as `Translation` has it, with
the register file loaded and stored around it (`RegistersKept`). `Echoes` relates the
cells on the screen to the line that will be executed, `Reports` the verdicts shown
to what the interpreter says, including for cases the translator gets wrong, which
must be reported as failures.

Recorded on the way: a failed test prints a leftover of `puts` as the value it got
(`monitor2.py:318`); `BLOCK_SLOT` is an 8-bit displacement of 0x80, which
sign-extends (`asm64.py:105-113`); line buffer and screen have no bound (139), so the
run bounds the lines; `parse_hex` gives every character a value (`Digit`); the guest
registers are whatever memory holds at boot (`Files`).

The assumptions on the constants: `MonitorAssumption` has the guest registers of the
register file, words that are the numbers below a bound, and characters with a
value; `CasesAssumption` that `TEST_CASES` has words the interpreter covers and, as in
the code, none that reads XZR except to move; `BarsAssumption` that the table's bars
fit on the screen, which the code does not test: it has ten, and eleven would fit.

### Building an image

`DeviceTree` is `minimal_vmapple_tree`: nodes, properties with their lengths, and the
values other nodes or the layout refer to. `BuildImage` places kernel, tree, boot_args, trust
cache, RAM disk, reserve and the stub, and runs three commands in one directory:
`build_all` stage by stage, `build_image` on a kernel given by hand, and `trampoline
--from-build`, each of which may be interrupted between two steps, or in the middle of
writing a file (`CutShort`): every file is opened under its own name and written in
place. `files` is the directory; a file cut short is `Partial`, except the device
tree, of which only the length is asked for.

`HandsOver`: an image that was built has its parts apart and inside RAM, and the stub
enters it with the address of its boot_args. `Coherent`: a `build_all`
that ends has built one kernel throughout, one out of the package it was given, with
its own options; and it is the kernel asked for if no offset in another package's
listing finds a second kernel in this one (`Unmistakable`). `TreeHolds`: references name one node each, the redistributor
frames of the processors are apart. The assumptions on
the constants are what the readers of the inputs give: `OptionsAssumption` numbers and
flags from argparse, `PackagesAssumption` that a package has a kernel where its own
listing says, `KernelsAssumption` unsigned fields from the load commands,
`TreesAssumption` that a tree has a length and each core a name of its own,
`ChosenAssumption` that Apple's `/chosen`, which the loader takes as it is, has a handle
unlike those the loader gives out (in the shipped tree it is 4). What the
properties assume, and the code does not test, is in the definitions they use:

- `members.json` is reused if it exists (`build_all.py:86-88`) and is not written
  atomically (91-92), and nothing in it says which package it is of. A cut listing
  raises when it is read; the directory has to be cleared by hand. An offset of another
  package is read in this one: mostly that does not inflate, or is no Image4, but it may
  be a second kernel (`holds`; the third package of the run), which is then built without
  a word;
- `loadmap.json`, the kernel, the image and the stub are written in place too
  (`build_all.py:123,130`, `build_image.py:313,391`). A cut load map raises when
  `trampoline` reads it; a cut `devicetree.bin` (159) does not: its length is taken as it
  is, so the boot_args address is wrong unless the page comes out the same (`AddsUp`);
- `trampoline --from-build` recomputes the place of boot_args (130-135): without the
  framebuffer node, for the default base and the kernel in `loadmap.json` only
  (`AddsUp`), and it jumps to the virtual entry point; a stub made for one image stays
  beside the next; its self-check ignores the words it checks (154-161);
- the top of kernel data is not compared with the end of RAM (`build_image.py:246`);
- the display's BAR0 is loaded with 32 bits (`bochs_fb.py:136`), the default framebuffer
  is above them (`BarSpan`);
- more than 123 processors run past the redistributor's region, and with none there is
  no core to boot (`CoresFit`);
- a tree parsed and serialised again loses the placeholder flags.

### The decoders

`Containers` has the state every reader has: `job`, the file with the structure its
writer gave it and the length it was cut to; `pc`; `at`, the reader's own position;
`out`. Each reader is one or two actions, a step being one record, segment, token,
window or node. `Decoders` starts one reader on one file. `NothingWrong` holds at every
step, so for what a reader has yielded when it raises or is stopped: blocks and members
in order, only the last of a cut file short; sectors with their chunk's data or zero;
segments in order, each as it was put in unless it was damaged or is the cut end of an
archive without compression, and the count of failures the number of those under the
checksum that is looked at; no member of a zip listed twice; the newest mapping; a
superblock changed in its flag and checksum or not at all. `NothingMissed` is about the
end of whole files: no window, cluster or node border loses anything, and a damaged
segment costs no other. An archive's reader is held to it on cut files too. What the
comments do not mention, and the properties allow:

- a cpio archive cut inside the trailer's name yields the fragment as a member,
  and a cut body comes out short (`tools/pbzx_cpio.py:92-101`);
- a pbzx block cut short ends the stream without an error (`pbzx.py:49`), a cut
  header of the stream raises (39-41);
- an archive's damaged segment is written whatever its digest, and under another checksum
  than kind 2 nobody counts it (`aea.py:184-187`); a compressed one that no longer
  decompresses raises; without compression a cut one comes out short (157-158), and the
  entries behind the cut raise. `probe` (127-142), which only reports, is not modelled;
- `image_arch_scan` counts a header in the overlap twice (155-168): `NothingWrong` allows
  a second count of a header that lies in an overlap, and of no other;
- `apfs_omap` ends its walk at a node whose checksum fails, and passes over a superblock
  whose checksum fails for an older one (78-79); a block the file ends in raises if too
  little is left to unpack;
- `apfs_seal` does not look at the part of a block an image ends with (99).

Two docstrings say otherwise. `udif.py:12-13` has 0xffffffff end the
map; `main` passes over it and goes on (109-110, 131-132), so `NothingMissed` asks for the
chunks behind it and `EndEndsMap`, the docstring's sentence, is violated.
`ibootim.py:29-30` has the window prefilled with zeros; the code fills it with spaces and
gives the reason (53-57), so `NothingWrong` expands a match from before the first byte to
spaces and `PrefilledWithZeros` is violated. `MCDecoders_docs.cfg` shows both.

`Checksums` compares the checksums with what their readers test: a block followed by
its `fletcher64` sums to zero, a changed word changes it; the carry of
`chrp_checksum` is arithmetic modulo 255; partition headers chain to the end of the
store, except in stores of two or three blocks (`nvram_image.py:88-99`).

One more, outside any model: `dis_range.find_word` uses a variable `args` it does not
have (`dis_range.py:80`).

## Runs

| Run | Bounds | Shows |
|---|---|---|
| `safe` | words of 2 bits, guest registers x2, x13, x14 (one in a host register, two spilled) and 31 | `TypeOK`, `Encodable`, `ImplementsOracle` for every safe instruction over them, from every initial host state |
| `alias` | as above, two registers | `MeaningPreserved` violated |
| `flags` | words of 2 bits, 2 registers, every form over them, every initial register and flag | `RegistersAgree`, `SameWay`, `FlagsAgree` |
| `mem` | two host and two spilled registers and SP, four cells, two system registers, every safe instruction twice | `TypeOK`, `AccessKept`, `NoStrayStore` |
| `tso` | 2 processors, 2 addresses, programs of two accesses with or without a barrier between | `TypeOK`, `NotBothMiss`, `ImplementsGuest` |
| `ring` | 3 flows, 5 calls, ring of 2 (limit 4), with and without WRAP | `RingTypeOK`, `NeverAhead`, `InRing`, `KeepsLast`, `KeepsFirst` |
| `sweep` | 5 functions, a constructor in one, 1 killed invocation, every set of executed functions | `TypeOK`, `HitsGenuine`, `Complete`, `Terminates` |
| `bisect` | 7 call sites, every set of reached ones, 3 boots | `UpperBound`, `Settles` |
| `patches` | four kernels: padding for no, one or several stubs on either side, with and without a literal before it; any sequence of tools until no padding is left; runs of up to 90 steps, strings of up to 2 characters, a port that is read full up to 2 times | `TypeOK`, `StubsApart`, `WorkKept`, `NullHandled`, `NeverHangs`, `ConsolePrints` |
| `monitor` | a BIOS that reads 64 sectors at a time, four programs, 12 cases over 4 registers of 2 bits, 17 lines of up to 5 keys, 4 entered lines | `MonTypeOK`, `EntersLongMode`, `Echoes`, `Reports`, `RegistersKept` |
| `build` | three packages, one with a second kernel where another has its own, 4 kernels by hand, 14 command lines, 3 commands in the directory, each cut short between or inside its writes | `TypeOK`, `HandsOver`, `Coherent`, `TreeHolds` |
| `decoders` | small files of ten formats; streams, archives, disks and pictures cut at every length, images with object maps and superblocks a byte or a word around the borders of their blocks, the scanned ones at their windows' borders; two windows and a piece for the scans | `NothingWrong`, `NothingMissed` |

`LogicalImmediate` and `Checksums` have no states: their claims are assumptions TLC
evaluates in `safe` and `decoders`.

More configurations are counterexamples to keep beside the text, each to be run with
`tlc -config <cfg> <module>`, and each ends in a violation:

| Configuration | Violates | Because |
|---|---|---|
| `MCLoadStore_extended` | `AccessKept` | an ADD or SUB of an extended register is taken for one of a shifted register |
| `MCConditions_csel` | `RegistersAgree` | CSEL selects the other register |
| `MCTsoHost_dmb` | `NotBothMiss` | both processors miss the other's store |
| `MCSweep_persists` | `Persists` | the record does not survive a kill |
| `BisectCalls_exact` | `SettlesExactly` | the trap at the index fires at the call that blocks |
| `MCDecoders_docs` | `EndEndsMap` and, with `-continue`, `PrefilledWithZeros` | two docstrings say what the code does not do |

Why the bounds are enough. Two bits give carries, truncation and shifts their
effects, and the translations never look at a value. Which locations the operands
are in is what matters; a translation distinguishes a host register, a spilled
register, equality of operands and the fixed registers, and three registers with
two of them spilled give every combination. Two bits also have every combination
of carry, overflow, sign and zero, and the flags runs have no bound on the length
of a program. Two processors and two accesses each are the shapes in which memory
models differ (store buffering, message passing, load buffering); the theorem
covers the rest. In the ring, three flows are needed
for a writer to be lapped while another loses an increment, and five calls go
twice around. Five functions let the walk stop on both sides of the anchor, a
constructor drop one, and several orders of firing differ. With seven sites the
middle of the interval is exact in some rounds and rounded in others. Two
instructions in a row let the second meet what the first left in the scratch register, the
stack and the slots. Four kernels make each search find its place before or behind
the site, in the other tool's leftovers, or nowhere; 90 steps are more than `FuelAssumption`
and `EntryAssumption` ask for here, and two characters on a port twice full take each of its branches
both ways. Three commands are a build, one
that is cut short or has another package, and one that finds what they left. Twelve
tests are the shape of the code's own table, with one case that must fail and one that
cannot be encoded. The scans keep their real window of 8 MiB, since only
the headers near its borders are state.

Deadlock checking is off where the system stops: a ring has recorded all its
calls, a sweep or a search has ended, a program has been executed, a monitor has halted
or has had its lines, a reader has stopped, a directory its commands.

Fairness. `Sweep` assumes weak fairness of everything but `Crash`: the loop of
the docstring is run until it is over, a boot ends, and somebody deletes a file
that cannot be read. There is none on `Crash`, which is bounded by `MaxCrashes`.
`A64ToX64` assumes that a processor goes on (`RunOp`, `Retire`); no property uses
it. The others have no liveness property and assume none.

## Proofs

`A64ToX64_proofs`, for every word size, every set of guest registers and every
arithmetic that obeys the laws:

- `TypeCorrect`: `TypeOK`, whatever the program. Each form's list is typed and at
  most `MaxOps` long (one lemma per form).
- `TranslateCorrect`: flushing the translation of a safe instruction from any host
  state gives the interpreter's step. One lemma per form; the facts they share
  are that `hostreg` is injective, that no guest register lives in the scratch
  register, and what a move does with and without staging.
- `Implements`: `ImplementsOracle` for a program of safe instructions. The
  invariant is `TypeOK`; `RunOp` and `Retire` stutter because flushing the tail of a
  list after running its head is flushing the list, and `Fetch` is a step of
  `ArmModel` by `TranslateCorrect`.
- `EncodableCorrect`: `Encodable`, by the invariant that every pending instruction
  can be encoded.

`Probes_proofs`, of the ring, for any number of flows, any ring size and any number of calls, with and
without WRAP:

- `RingTypeCorrect`: `RingTypeOK`.
- `NeverAheadCorrect`: `NeverAhead`. The invariant adds that a loaded index is
  below the calls that have stored one, not counting the flow's own.
- `KeepsLastCorrect`: `KeepsLast`. It is not inductive alone: while there was no
  race, claims are distinct and never above the index, each flow's `x8` is its
  call's claim, and the words a flow has still to write are the ones missing from
  its slot (`RingInv`).
- `InRingCorrect`: `InRing`. A loaded index below the limit gives a slot in the ring.
- `KeepsFirstCorrect`: `KeepsFirst`. In a one-shot ring calls past the limit write slot 0,
  which no recorded call claims, and the words missing from the other slots are
  the ones their flows have still to write (`FirstInv`).

`TsoHost_proofs`, for any number of processors, addresses and programs of any length:

- `TsoTypeCorrect`: `TypeOK`, which says that a buffer holds executed stores.
- `TsoImplements`: `ImplementsGuest`, assuming no program is `Exposed`. `Drain` is the
  abstract write, allowed because the buffer empties oldest first; a load is the
  abstract read, allowed because what is ordered before it and still in the
  buffer would have to be a store with no DSB between; that both machines read
  the same store rests on the newest one being unique.
- `TsoNotBothMiss`: `NotBothMiss`, by the same assumption. The invariant (`StoreInv`) adds
  that wherever a store has reached memory, memory holds a stored value: of two
  processors the one whose load is performed last finds the other's store. That a
  stored value is not the initial one is `ZeroAssumption` of `MemoryOps`.

`Conditions_proofs`, for words of any size, any registers and any program of safe
instructions (`OnlySafe`):

- `SafeRegisters`, `SafeFlags`, `SafeBranches`: `RegistersAgree`, `FlagsAgree` and
  `SameWay`. Their conjunction with the types is inductive and none of them is
  alone: a register is right because the carry it was computed from is, a branch
  because the flags are. One lemma per form (`AluRight`, `AdcRight`, ...) shows that its
  translation makes of agreeing states agreeing states.

`LoadStore_proofs`, for any registers, any finite set of system registers, any start
and any program of safe instructions:

- `SafeTypes`, `SafeAccesses`: `TypeOK` and `AccessKept`. The invariant (`IInv`) looks
  ahead: what is left of a translation leads from the host's state to one that has
  the guest's registers, memory and system registers (`Leads`, a run of host states
  of the length of the list). `RunOp` takes the first step off the run; `Fetch` puts a
  run there, by one lemma per form (`ImmRight`, `IndexedRight`, `RegRight`, `PairRight`,
  `OrderedRight`, `MrsRight`, `MsrRight`), composed of lemmas for one
  instruction and for the blocks the forms share. That slots are distinct and
  unused ones zero (`SlotsRight`, `Filed`) is what makes a register first read
  through the shadow file zero, and a write to one register leave the others.
- That every instruction of a safe translation assembles (`Good`, in `SafeTypes`) is
  one lemma for the blocks and one for each use of them.
- `SafeStores`: `NoStrayStore`. Every state of that run has in each cell what was there
  before or what the guest's memory has; for a pair this needs that its two words
  lie apart (`StoredApart`).

`Probes_proofs`, of the sweep, for every table, text, set of constructors and executed functions, and any
number of crashes:

- `SweepTypeCorrect`, `HitsGenuineCorrect`, `CompleteCorrect`: `TypeOK`, `HitsGenuine` and
  `Complete`. The invariant says that every state file, also the one being written,
  excludes what it records and records executed functions once; that an image
  which waits for its boot was made from the readable file; and that what fired
  executes. An executed function that is recorded is excluded, so it is not
  trapped, so it cannot fire again.

`Probes_proofs`, of the search for a call, for every number of call sites and every set of visited ones:

- `UpperBoundCorrect`: `UpperBound`, with the invariant that the interval is not empty
  and the image's `--from` is below its upper end.
- `SettlesCorrect`: `Settles`. What each boot showed stays true (`ReachInv`): unless the
  interval starts at 0, a site not below `lo - 1` was reached, and no site above `hi` was.
  When the interval is one site, the last one reached is it or the one before. The width of the interval fits into the boots that are
  left (`HalvingInv`): it is at most 2^k when k of the log2 are. That 2^(k+1) is twice
  2^k needs an induction; it is had from the library's theorem on the number of
  subsets of a finite set.

`TextPatches_proofs`, for every kernel and any sequence of tools, under the assumptions
named with the patches above (the first two need `SiteAssumption` and what types
kernels and addresses: the words diverted by `null_guard` and `trace_wait` are instructions in the kernel as it was):

- `PatchesTypeCorrect`, `StubsApartCorrect`: `TypeOK` and `StubsApart`. A word of padding in
  the file was padding from the start, and the words of a stub are instructions;
  so the searches, which look for padding, find words of no stub. That they find
  any rests on `CHOOSE` having something to choose: the nearest run exists because
  `<` on the naturals is well-founded.
- `KeptInvariant`: two more invariants. While what was moved can be moved, each word
  somebody runs is `Faithful` (`KeptInv`): at its address, or run in the stub of one of the
  three diversions, whose words are still those the tool wrote. It is not enough to say so of the
  kernel's words: the console's own, once written, may be diverted, and `null_guard` must
  stay where it was set. `BootInv`: of the booting routine's words only calls and checks
  change, and once one of the tools has answered, each check follows a zero.
- `WorkKeptCorrect`: `WorkKept`, by a simulation. Two states of the processor that differ
  in the return addresses alone (`Similar`: where one returns to the caller, the other
  returns to a branch there) stay so when they execute the same word at the same address,
  or a word that may be moved at two (`Lockstep`); through a stub this takes at most
  `Detour` steps (`TrapStep`, `GuardStep`, `TraceStep`), so the patched kernel comes to
  each state of the original within the tolls paid by then (`Simulation`). That runs go on
  as long as they need is counting, as for `Monitor_proofs`.
- `NullHandledCorrect`: `NullHandled`. Up to the fourth word of the guarded routine the
  simulation, after it the four words of the stub (`GuardReturns`), which find the frame and the
  signature the prologue has left; of `cond_trap` the stub's branch to itself.
- `ConsolePrintsCorrect`: `ConsolePrints`, for strings of any length and a port that is
  full for any time. Each word leads to the next with one step less to go (`NextPrints`,
  ..., `RetPrints`), so the routine returns within a bound and has sent what it had to
  (`PrintsRun`); the simulation carries that over to an image in which its first word is diverted.
- `NeverHangsCorrect`: `NeverHangs`. A check is reached with the zero before it in x0
  (`BootStep`), so the run goes on or has returned; however long, it is not spinning.

`BuildImage_proofs`, for all kernels, packages and command lines, any number of commands
and of processors:

- `BuildTypeCorrect`, `HandsOverCorrect`, `CoherentCorrect`: `TypeOK`, `HandsOver` and
  `Coherent`. The invariant (`IInv`) has for each step of a command what the steps
  before it have put into `work` and the files: an image in the directory, of whatever
  command, is the layout of an accepted kernel and command line, and at the end of a
  command the stub, the kernel and the load map are those that belong to it
  (`Phases`, `Ended`). What a listing finds in a package is one of its kernels, and the
  one asked for if no listing misleads (`Found`); a write cut short leaves no image
  (`CutShortKeeps`). The rest is about layouts. `LayoutPlaced`: every part ends before the
  next one starts, through each rounding (`ImageLaidOut`, `AboveImage`). `LayoutWindow`: one
  difference between virtual and physical addresses. `LayoutMachine`: what is announced
  is looked up again (`Announced`, `FilledIs`), and no node of the tree, and nothing
  taken from Apple's, hides what the layout needs. `LayoutStub`: the picture is where
  the code looks for it, padding included. `AddedUp`: adding whole megabytes commutes
  with rounding to pages, so `trampoline --from-build` finds boot_args whenever `AddsUp`.
- `TreeHoldsCorrect`: `TreeHolds` for images of 1 to 123 cores (`CoresFit`). Whatever is
  announced in it, an image's tree has the nodes it was built with (`IsTree`, kept by
  `Announced`), and of a node only the properties joined into it (`AllCount`, `NodeOf` and
  the lemma of each node): so the cores are the nodes with a redistributor frame
  (`MarkedNodes`), each reference meets one handle (`TreeRefers`), frames and registers
  are ranges of known distance (`TreeFrames`, `TreeRegisters`), and the timebase gives a
  bit of the counter (`TreeTimebase`).

`Monitor_proofs`, for every table of cases, set of lines, width of a word and memory at
boot, payloads and limits of the BIOS as `ReadAssumption` has them:

- `MonitorTypes`: `MonTypeOK`. `TableTo` and `parse_hex` are recursive functions; that they
  are what their definitions say, and what holds of every value of them, is had
  without the library's induction theorems, which take an operator: a set of
  numbers with 0 and every successor is all of them (`Counting`), because its
  complement would have a least member (`LeastNumber`, from the well-foundedness of `<`), and
  a step function can be iterated (`Recursion`).
- `EntersLongModeCorrect`: `EntersLongMode`. The invariant (`BootInv`) has the whole processor at
  each instruction of the boot sector (`CpuAt`), and one lemma per instruction leads
  from one to the next; paging comes on when the three tables are complete (`MappedFacts`). Sectors hold the payload or
  there are more of them than one call reads (`PayloadRead`).
- `EchoesCorrect`: `Echoes`. `OnScreen` adds that the cells are no fewer than the
  characters, which typing over erased cells needs.
- `ReportsCorrect`: `Reports`. The tests' list is the verdicts of the rows run (`RowsInv`);
  bars do not meet, so none is painted over (`PictureInv`, `BarsApart`); of the demo, twice what
  was added and what is left to add make `Count * (Count + 1)`, and after n digits `rdx` is
  turned by n digits (`DemoInv`). That a verdict is right is `CaseVerdict`: the block runs with
  what the monitor keeps in the other host registers and in the slots past x3, and no
  translation of a case reads them before it writes them (`Owns`).
- `RegistersKeptCorrect`: `RegistersKept`. A word entered is run and nothing else (`WordCommand`),
  every row that has its number has the same word (`OneWord`), and the round trip of a safe
  word is `TranslateCorrect` of `A64ToX64_proofs` (`BlockCorrect`).

Only model-checked: `NothingWrong` and `NothingMissed` of `Decoders`, whose formats are
folds of the parts of a file, so that each claim about them is an induction over data with an
operator as its parameter; and `Terminates`, a liveness property.

## Left to do

1. The flags after shifted operands.

## Not modelled

- Guest inspection (`guest.py`, `fdt_read.py`): each run prints what it read through the
  emulator while the kernel goes on. Nothing is kept and nothing can be promised of
  an unsynchronised snapshot.
- Static analysis, except the windowed scan: one pass over a file in memory, and a
  table.
- Encodings byte by byte: of the assemblers (a program is its instructions here), of
  the MSI frame, of `tcseg`'s segment, of single headers (`gpt`, `im4p`, `xar`), and the
  drawing of the boot screen. They have no second step and, in this repository,
  no second reader.
- Cryptography, compression and Mach-O parsing by libraries: a call that returns the
  text or fails.
- `devicetree.parse` of Apple's tree, used to look at it.
- Direct jumps of the translator (B, BL, RET, ADR) and the numbers of runtime calls:
  they name a target and touch no register.
- Picture conversion: output formatting.
