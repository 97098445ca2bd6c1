------------------------------- MODULE Monitor -------------------------------
(***************************************************************************)
(* The bare-metal programs: a boot sector that takes the processor from    *)
(* real to long mode, and one of four payloads: the hex demo of            *)
(* x86emit.py, the echoing monitor of monitor.py, the command monitor of   *)
(* monitor2.py and the picture of gfx.py.  The last two run translated     *)
(* arm64 words and judge the translator against arm_model.py.              *)
(*                                                                         *)
(* A key is one character; a typed word has WordLen hex digits to the base *)
(* Base.  What a command prints is abstracted to the register values and   *)
(* verdicts in it.                                                         *)
(***************************************************************************)
EXTENDS Translation, SequencesExt

CONSTANTS
  Programs,      \* the payloads to boot
  PayloadBytes,  \* the length of each payload
  ReadLimit,     \* the sectors one call of the BIOS reads
  Cases,         \* TEST_CASES: [word, number, x1, x2, check]
  Files,         \* what the memory of the guest register file may hold at boot
  Lines,         \* the lines a user sets out to type
  WordLen, Base, \* 8 and 16
  Digit,         \* what parse_hex makes of a character (any character has a value)
  Unmapped,      \* keys without a character
  Count, Nibbles,\* the demo's counter, 10, and the digits it prints, 16
  MaxCommands    \* bound: entered lines

VARIABLES
  program,  \* the image being booted
  at,       \* where it is
  cpu,      \* control registers, page tables, descriptor table, loaded sectors
  line,     \* LINE_BUF up to r13
  echo,     \* the cells from the prompt on
  file,     \* the guest register file at r15
  row,      \* cases run
  shown,    \* what the program has shown: values, verdicts or digits
  pixels,   \* mode 13h: a colour per scan line between the margins
  regs,     \* the demo's registers
  entered   \* lines entered

Monvars == <<program, at, cpu, line, echo, file, row, shown, pixels, regs, entered>>
screen == <<echo, shown, pixels>>

\* TEST_CASES, hence word and number of a case: the decoded word and its 32 bits.
Case == [word : Instrs, number : Nat \ {0}, x1 : Word, x2 : Word, check : Guest]

\* The words arm_model.step interprets, and those of them that read XZR.
Interpreted == {"movz", "const", "movk", "alu_imm", "alu_reg", "alu_shift"}
ReadsZero(i) ==
  \/ i.form = "alu_imm" /\ i.rn = 31
  \/ i.form = "alu_shift" /\ 31 \in {i.rn, i.rm}
  \/ i.form = "alu_reg" /\ (i.rm = 31 \/ (i.rn = 31 /\ i.fn # "orr"))

ASSUME MonitorAssumption ==
  /\ Guest = 0..3
  /\ IsFiniteSet(Word) /\ Word = 0..(Cardinality(Word) - 1)
  /\ Programs \subseteq {"demo", "monitor", "monitor2", "gfx"}
  /\ PayloadBytes \in [Programs -> Nat] /\ ReadLimit \in Nat
  /\ Files \subseteq [Guest -> Word]
  /\ \A l \in Lines : l \in Seq(Range(l))
  /\ Digit \in [UNION {Range(l) : l \in Lines} -> Nat] /\ WordLen \in Nat /\ Base \in Nat
  /\ 1 \in Word /\ Count \in Nat \ {0} /\ Nibbles \in Nat \ {0} /\ MaxCommands \in Nat

\* A number is one word, and no case of the table reads XZR.
ASSUME CasesAssumption ==
  /\ Cases \in Seq(Case)
  /\ \A j, k \in DOMAIN Cases : Cases[j].number = Cases[k].number => Cases[j].word = Cases[k].word
  /\ \A k \in DOMAIN Cases : Cases[k].word.form \in Interpreted /\ ~ReadsZero(Cases[k].word)
-----------------------------------------------------------------------------
(* The boot sector *)

Tables == {4096, 8192, 12288}
MONITOR_ORG == 32768

\* A word store through es = 0x100: the low half of a table's first entry.
Entry(table, low) == [op |-> "entry", table |-> table, low |-> low]
SetBit(reg, bits) == [op |-> "or", reg |-> reg, bits |-> bits]
Plain(op) == [op |-> op]

sectors(p) == (PayloadBytes[p] + 511) \div 512

\* The count is one byte; the buffer, from MONITOR_ORG to the end of its segment,
\* has 64 sectors.
ASSUME ReadAssumption == ReadLimit * 512 <= 65536 - MONITOR_ORG
                         /\ \A p \in Programs : PayloadBytes[p] <= 255 * 512

\* One call reads a payload or fails; the carry that says so is not looked at.
ReadSectors(p) == IF sectors(p) <= ReadLimit THEN sectors(p) ELSE 0
OnDisk(p) == p \in {"monitor2", "gfx"}

\* (mutant) "or al, 1", the first version of the boot sector
LongModeBitsLow ==
  <<SetBit("cr4", {"pae"}), Plain("cr3"), SetBit("efer", {"sce"}), SetBit("cr0", {"pg", "pe"})>>
LongModeBits ==
  <<SetBit("cr4", {"pae"}), Plain("cr3"), SetBit("efer", {"lme"}), SetBit("cr0", {"pg", "pe"})>>

boot_image ==
  <<Plain("zero"), Entry(4096, 8195), Entry(8192, 12291), Entry(12288, 131), Plain("lgdt")>>
    \o LongModeBits \o <<Plain("jump")>>

\* The other images repeat its bytes; the larger payloads are read from disk.
monitor_image == boot_image
monitor2_image == <<Plain("int13")>> \o boot_image
gfx_image == <<Plain("int10"), Plain("int13")>> \o boot_image

BootSector(p) == CASE p = "demo"     -> boot_image
                   [] p = "monitor"  -> monitor_image
                   [] p = "monitor2" -> monitor2_image
                   [] p = "gfx"      -> gfx_image

\* A walk from cr3 reaches a present 2 MiB page at 0.
Present(e) == e[1] = 0 /\ e[2] % 2 = 1
Table(e) == e[2] - (e[2] % 4096)
Maps(c) ==
  LET next(t) == Table(c.mem[t])
  IN /\ c.cr3 \in Tables /\ Present(c.mem[c.cr3])
     /\ next(c.cr3) \in Tables /\ Present(c.mem[next(c.cr3)])
     /\ next(next(c.cr3)) \in Tables
     /\ c.mem[next(next(c.cr3))] = <<0, 131>>

LongMode(c) == /\ {"pg", "pe"} \subseteq c.bits["cr0"]
               /\ "pae" \in c.bits["cr4"] /\ "lme" \in c.bits["efer"]
               /\ Maps(c)

Effect(p, c, i) ==
  CASE i.op = "int10" -> [c EXCEPT !.mode13 = TRUE]
    [] i.op = "int13" -> [c EXCEPT !.loaded = ReadSectors(p)]
    [] i.op = "zero"  -> [c EXCEPT !.mem = [t \in Tables |-> <<0, 0>>]]
    [] i.op = "entry" -> [c EXCEPT !.mem[i.table][2] = i.low]
    [] i.op = "lgdt"  -> [c EXCEPT !.gdt = TRUE]
    [] i.op = "or"    -> [c EXCEPT !.bits[i.reg] = @ \cup i.bits]
    [] i.op = "cr3"   -> [c EXCEPT !.cr3 = 4096]
    [] i.op = "jump"  -> [c EXCEPT !.wide = TRUE]

\* The BIOS answers in real mode only; with paging on, the next instruction
\* must be mapped, and a 64-bit segment needs its descriptor.
Survives(c, i) ==
  /\ i.op \in {"int10", "int13"} => "pe" \notin c.bits["cr0"]
  /\ "pg" \in c.bits["cr0"] => LongMode(c)
  /\ i.op = "jump" => "pg" \in c.bits["cr0"] /\ c.gdt

\* The jump goes to the payload, or to whatever memory holds in its place.
Entered(p) == IF OnDisk(p) /\ ReadSectors(p) # sectors(p) THEN "lost" ELSE "start"

Boot == /\ at = "boot"
        /\ LET code == BootSector(program)
               i == code[cpu.ip]
           IN IF Survives(cpu, i)
              THEN /\ cpu' = [Effect(program, cpu, i) EXCEPT !.ip = @ + 1]
                   /\ at' = IF i.op = "jump" THEN Entered(program) ELSE "boot"
              ELSE at' = "reset" /\ UNCHANGED cpu
        /\ UNCHANGED <<program, line, screen, file, row, regs, entered>>
-----------------------------------------------------------------------------
(* Running a translated word *)

\* What translate_word can encode; any other word is left out of the tables.
CanEncode(o) ==
  IF o.op = "mov" THEN ~(is_mem(o.dst) /\ o.src[1] = "imm") /\ ~(is_mem(o.dst) /\ is_mem(o.src))
  ELSE o.op \in {"add", "sub", "and", "or", "xor", "cmp"} /\ ~is_mem(o.dst) /\ ~is_mem(o.src)
translate_word(i) == \A k \in DOMAIN Translate(i) : CanEncode(Translate(i)[k])

\* test_table and word_table
TableTo[n \in 0..Len(Cases)] ==
  IF n = 0 THEN <<>>
  ELSE IF translate_word(Cases[n].word) THEN Append(TableTo[n - 1], Cases[n]) ELSE TableTo[n - 1]
test_table == TableTo[Len(Cases)]

\* (mutant) the block runs on whatever the host registers hold
LoadFileNot(f) == [l \in Locs |-> 0]

\* x0..x3 go from the register file to the host registers; the others and the
\* slots past x3 keep what the monitor has there, 0 here.
LoadFile(f) == [l \in Locs |->
                  IF \E n \in Guest : hostreg(n) = l
                  THEN f[CHOOSE n \in Guest : hostreg(n) = l] ELSE 0]

Spill(h) == [n \in Guest |-> h[hostreg(n)]]

RunBlock(f, i) == Spill(Flush(LoadFile(f), Translate(i)))

\* x1 and x2 as the case wants them, x0 and x3 zero.
CaseFile(c) == [n \in Guest |-> CASE n = 1 -> c.x1 [] n = 2 -> c.x2 [] OTHER -> 0]

\* arm_model.step on a register dict that holds x1 and x2
Expect(c) == Step(CaseFile(c), c.word)[c.check]
-----------------------------------------------------------------------------
(* The command monitor: keys *)

Chars == UNION {Range(l) : l \in Lines}

\* getkey ignores releases and keys without a character.
GetKey(key) == ~key.up /\ key.char \notin Unmapped

Start2 == /\ at = "start" /\ program = "monitor2"
          /\ at' = "readkey" /\ line' = <<>> /\ echo' = <<>>
          /\ UNCHANGED <<program, cpu, file, row, shown, pixels, regs, entered>>

Blank == " "

\* A cell is written over; what lies beyond it stays.
PutC(e, k, c) == IF k <= Len(e) THEN [e EXCEPT ![k] = c] ELSE Append(e, c)

TypeChar(c) == /\ at = "readkey" /\ \E up \in BOOLEAN : GetKey([char |-> c, up |-> up])
               /\ \E l \in Lines : IsPrefix(Append(line, c), l)
               /\ line' = Append(line, c)
               /\ echo' = PutC(echo, Len(line) + 1, c)
               /\ UNCHANGED <<program, at, cpu, file, row, shown, pixels, regs, entered>>

\* (mutant) the cursor and the line move back, the cell stays
BackspaceKeepingCell ==
  /\ at = "readkey" /\ line # <<>>
  /\ line' = Front(line) /\ UNCHANGED echo
  /\ UNCHANGED <<program, at, cpu, file, row, shown, pixels, regs, entered>>

Backspace == /\ at = "readkey" /\ line # <<>>
             /\ line' = Front(line)
             /\ echo' = PutC(echo, Len(line), Blank)
             /\ UNCHANGED <<program, at, cpu, file, row, shown, pixels, regs, entered>>

LineDone == /\ at = "readkey" /\ entered < MaxCommands
            /\ entered' = entered + 1
            /\ at' = IF line = <<>> THEN "prompt" ELSE "command"
            /\ UNCHANGED <<program, cpu, line, screen, file, row, regs>>

Prompt == /\ at = "prompt"
          /\ at' = "readkey" /\ line' = <<>> /\ echo' = <<>>
          /\ UNCHANGED <<program, cpu, file, row, shown, pixels, regs, entered>>
-----------------------------------------------------------------------------
(* The command monitor: commands *)

\* Every character adds a digit; there is no error.
parse_hex(s) ==
  LET value[k \in 0..Len(s)] == IF k = 0 THEN 0 ELSE value[k - 1] * Base + Digit[s[k]]
  IN value[Len(s)]

Commands == {"r", "h", "c", "l", "t"}
IsCommand(c) == line = <<c>>
IsSet == Len(line) > 1 /\ line[1] = "x"
IsWord == Len(line) > 1 /\ line[1] # "x" /\ Len(line) = WordLen

RegOf(c) == CASE c = "0" -> 0 [] c = "1" -> 1 [] c = "2" -> 2 [] c = "3" -> 3 [] OTHER -> 4
SetOK == Len(line) > 2 /\ RegOf(line[2]) \in 0..3 /\ line[3] = "="
\* (mutant) a digit that is shifted out of the register stays
SetValueWhole == parse_hex(SubSeq(line, 4, Len(line)))
SetValue == parse_hex(SubSeq(line, 4, Len(line))) % Cardinality(Word)

\* dump_regs prints the register file.
Dump(f) == shown' = [k \in 1..4 |-> f[k - 1]]

CmdRegs == /\ at = "command" /\ IsCommand("r")
           /\ Dump(file) /\ at' = "prompt"
           /\ UNCHANGED <<program, cpu, line, echo, file, row, pixels, regs, entered>>

\* c clears, h and l and an unknown line print a text
CmdText == /\ at = "command"
           /\ \/ \E c \in {"h", "l", "c"} : IsCommand(c)
              \/ Len(line) = 1 /\ line[1] \notin Commands
              \/ Len(line) > 1 /\ ~IsWord /\ ~(IsSet /\ SetOK)
           /\ shown' = <<>> /\ at' = "prompt"
           /\ UNCHANGED <<program, cpu, line, echo, file, row, pixels, regs, entered>>

CmdSet == /\ at = "command" /\ IsSet /\ SetOK
          /\ file' = [file EXCEPT ![RegOf(line[2])] = SetValue]
          /\ Dump(file') /\ at' = "prompt"
          /\ UNCHANGED <<program, cpu, line, echo, row, pixels, regs, entered>>

Found == {k \in DOMAIN test_table : test_table[k].number = parse_hex(line)}

RunWord == /\ at = "command" /\ IsWord /\ at' = "prompt"
           /\ IF Found = {} THEN shown' = <<>> /\ UNCHANGED file
              ELSE LET first == CHOOSE k \in Found : \A j \in Found : k <= j
                   IN file' = RunBlock(file, test_table[first].word) /\ Dump(file')
           /\ UNCHANGED <<program, cpu, line, echo, row, pixels, regs, entered>>

CmdTest == /\ at = "command" /\ IsCommand("t")
           /\ at' = "test" /\ row' = 0 /\ shown' = <<>>
           /\ UNCHANGED <<program, cpu, line, echo, file, pixels, regs, entered>>

\* What is shown of a case that fails: puts has left 0 in rax when the value
\* is printed.
TestRow == /\ at = "test" /\ row < Len(test_table)
           /\ LET c == test_table[row + 1]
              IN /\ file' = RunBlock(CaseFile(c), c.word)
                 /\ shown' = Append(shown,
                      IF file'[c.check] = Expect(c) THEN [ok |-> TRUE]
                      ELSE [ok |-> FALSE, got |-> 0, want |-> Expect(c)])
           /\ row' = row + 1
           /\ UNCHANGED <<program, at, cpu, line, echo, pixels, regs, entered>>

TestDone == /\ at = "test" /\ row = Len(test_table)
            /\ at' = "prompt"
            /\ UNCHANGED <<program, cpu, line, screen, file, row, regs, entered>>
-----------------------------------------------------------------------------
(* The echoing monitor: no line, no editing *)

Start1 == /\ at = "start" /\ program = "monitor"
          /\ at' = "kbd" /\ echo' = <<>>
          /\ UNCHANGED <<program, cpu, line, file, row, shown, pixels, regs, entered>>

EchoKey == /\ at = "kbd" /\ entered < MaxCommands
           /\ \E c \in Chars, up \in BOOLEAN :
                GetKey([char |-> c, up |-> up]) /\ echo' = Append(echo, c)
           /\ entered' = entered + 1
           /\ UNCHANGED <<program, at, cpu, line, file, row, shown, pixels, regs>>
-----------------------------------------------------------------------------
(* The picture *)

H == 200

\* "bar: 14 rows tall starting at y = 16 + index*16": the table's bars fit.
ASSUME BarsAssumption == Len(test_table) * 16 + 14 <= H
GREEN == 2
RED == 4
BLUE == 1

\* The clear, then the band: mov rdi, FB ; 320*8 bytes.
StartGfx == /\ at = "start" /\ program = "gfx"
            /\ pixels' = [y \in 0..(H - 1) |-> IF y < 8 THEN BLUE ELSE 0]
            /\ at' = "bars" /\ row' = 0
            /\ UNCHANGED <<program, cpu, line, echo, file, shown, regs, entered>>

\* (mutant) the index is shifted by 3
BarLinesClose(k) == LET top == k * 8 + 16 IN top..(top + 13)
BarLines(k) == LET top == k * 16 + 16 IN top..(top + 13)

Bar == /\ at = "bars" /\ row < Len(test_table)
       /\ LET c == test_table[row + 1]
          IN /\ file' = RunBlock(CaseFile(c), c.word)
             /\ LET colour == IF file'[c.check] = Expect(c) THEN GREEN ELSE RED
                IN pixels' = [y \in DOMAIN pixels |->
                                IF y \in BarLines(row) THEN colour ELSE pixels[y]]
       /\ row' = row + 1
       /\ UNCHANGED <<program, at, cpu, line, echo, shown, regs, entered>>

BarsDone == /\ at = "bars" /\ row = Len(test_table) /\ at' = "halt"
            /\ UNCHANGED <<program, cpu, line, screen, file, row, regs, entered>>
-----------------------------------------------------------------------------
(* The demo: 10 + 9 + ... + 1, printed in hex *)

NibblesOf(n) == [k \in 1..Nibbles |-> (n \div 2^(4 * (Nibbles - k))) % 16]

StartDemo == /\ at = "start" /\ program = "demo"
             /\ regs' = [rax |-> 0, rbx |-> Count, rdx |-> <<>>]
             /\ at' = "sum" /\ shown' = <<>>
             /\ UNCHANGED <<program, cpu, line, echo, file, row, pixels, entered>>

Sum1 == /\ at = "sum"
        /\ regs' = [rax |-> regs.rax + regs.rbx, rbx |-> regs.rbx - 1,
                    rdx |-> NibblesOf(regs.rax + regs.rbx)]
        /\ at' = IF regs.rbx - 1 # 0 THEN "sum" ELSE "print"
        /\ UNCHANGED <<program, cpu, line, screen, file, row, entered>>

HexChar(d) == IF d > 9 THEN d + 55 ELSE d + 48

\* rol rdx, 4: the top digit comes round to the bottom and is printed.
PrintDigit == /\ at = "print" /\ Len(shown) < Nibbles
              /\ LET rolled == Tail(regs.rdx) \o <<Head(regs.rdx)>>
                 IN /\ regs' = [regs EXCEPT !.rdx = rolled]
                    /\ shown' = Append(shown, HexChar(Last(rolled)))
              /\ at' = IF Len(shown) + 1 = Nibbles THEN "halt" ELSE "print"
              /\ UNCHANGED <<program, cpu, line, echo, file, row, pixels, entered>>
-----------------------------------------------------------------------------
NoRegs == [rax |-> 0, rbx |-> 0, rdx |-> <<>>]

\* Memory holds anything at power-on: the tables' high halves and the guest
\* register file are not zero.
MonInit == /\ program \in Programs /\ at = "boot"
           /\ cpu = [ip |-> 1, bits |-> [r \in {"cr0", "cr4", "efer"} |-> {}], cr3 |-> 0,
                     mem |-> [t \in Tables |-> <<1, 1>>], gdt |-> FALSE, mode13 |-> FALSE,
                     loaded |-> 0, wide |-> FALSE]
           /\ file \in Files
           /\ line = <<>> /\ echo = <<>> /\ shown = <<>> /\ pixels = <<>>
           /\ row = 0 /\ regs = NoRegs /\ entered = 0

MonNext == \/ Boot
           \/ Start2 \/ (\E c \in Chars : TypeChar(c)) \/ Backspace \/ LineDone \/ Prompt
           \/ CmdRegs \/ CmdText \/ CmdSet \/ RunWord \/ CmdTest \/ TestRow \/ TestDone
           \/ Start1 \/ EchoKey
           \/ StartGfx \/ Bar \/ BarsDone
           \/ StartDemo \/ Sum1 \/ PrintDigit

MonSpec == MonInit /\ [][MonNext]_Monvars
-----------------------------------------------------------------------------
(* Types of the variables. *)
MonTypeOK == /\ program \in Programs
             /\ at \in {"boot", "reset", "lost", "start", "readkey", "command", "prompt", "test",
                        "kbd", "bars", "sum", "print", "halt"}
             /\ line \in Seq(Chars) /\ echo \in Seq(Chars \cup {Blank})
             /\ file \in [Guest -> Word]
             /\ row \in 0..Len(Cases) /\ entered \in 0..MaxCommands

\* The comments of build_boot_image: the boot sector gets to its last
\* instruction, in long mode with the tables that map the payload and, for the
\* picture, in mode 13h; the payload is there, all of it, exactly if one call of
\* the BIOS can read that much.
EntersLongMode ==
  /\ at # "reset"
  /\ at # "boot" => /\ cpu.wide /\ LongMode(cpu)
                    /\ program = "gfx" => cpu.mode13
                    /\ at = "lost" <=> /\ OnDisk(program)
                                      /\ PayloadBytes[program] > ReadLimit * 512
                    /\ OnDisk(program) /\ at # "lost" =>
                         cpu.loaded * 512 >= PayloadBytes[program]

\* What the user sees after the prompt is the line the monitor will parse,
\* whatever was erased and typed over.
Echoes ==
  at \in {"readkey", "command"} =>
    /\ IsPrefix(line, echo)
    /\ \A k \in DOMAIN echo : k > Len(line) => echo[k] = Blank

\* The translation of a case, started on the case's registers, leaves the
\* checked one as the interpreter does.
HostOf(f) == [l \in Locs |-> IF \E n \in Guest : hostreg(n) = l
                               THEN f[CHOOSE n \in Guest : hostreg(n) = l] ELSE 1]
Faithful(c) == View(Flush(HostOf(CaseFile(c)), Translate(c.word)))[c.check] = Expect(c)

Digits == <<48, 49, 50, 51, 52, 53, 54, 55, 56, 57, 65, 66, 67, 68, 69, 70>>

\* "If the mapping is wrong the registers say so": t says ok, and the picture
\* has a green bar, for exactly the cases the translator gets right, no bar
\* hides another; the demo prints the sum in hex.
Reports ==
  /\ at = "test" => \A k \in 1..row : shown[k].ok = Faithful(test_table[k])
  /\ program = "gfx" => \A k \in 1..row : \A y \in BarLines(k - 1) :
       pixels[y] = IF Faithful(test_table[k]) THEN GREEN ELSE RED
  /\ program = "demo" /\ at = "halt" =>
       shown = [k \in 1..Nibbles |->
                  Digits[((((Count * (Count + 1)) \div 2) \div 2^(4 * (Nibbles - k))) % 16) + 1]]

\* The register round trip of run_word: a typed word whose translation keeps
\* its meaning changes the guest registers as the interpreter says, from the
\* values xN= and earlier words left; a word without a translation and every
\* other command but xN= and t leave them alone.
RegistersKept ==
  [][at = "command" =>
       IF IsWord
       THEN \A k \in Found : Safe(test_table[k].word) => file' = Step(file, test_table[k].word)
       ELSE file' # file => IsSet /\ \A n \in Guest : n # RegOf(line[2]) => file'[n] = file[n]
    ]_Monvars
=============================================================================
