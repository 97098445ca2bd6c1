----------------------------- MODULE Conditions -----------------------------
(***************************************************************************)
(* ibootcore/a64_to_x64.py: the guest's condition flags.  There is no      *)
(* shadow of NZCV: a condition reads whatever the host's flags are, and    *)
(* nearly every host instruction writes them.  Guest and translation run   *)
(* side by side, one guest instruction per step.                           *)
(***************************************************************************)
EXTENDS Integers, Sequences

CONSTANTS Guest,     \* guest registers, all of them in host registers
          Size,      \* the number of register contents, a power of two
          And(_, _), \* the conjunction of two register contents bit by bit
          Instrs,    \* the decoded instructions of the programs
          OnlySafe   \* TRUE: only where the translation is right

Word == 0..Size - 1

Conds == <<"eq", "ne", "cs", "cc", "mi", "pl", "vs", "vc",
           "hi", "ls", "ge", "lt", "gt", "le", "al", "nv">>

Forms == {"alu", "cmp", "cmpi", "tst", "adc", "csel", "bcond", "cbz", "tbz", "mov"}

\* s: the flags are set, or the branch is the one on "not zero"; imm: the
\* immediate of a comparison, or the number of the bit TBZ tests.
Instr == [form : Forms,
          fn : {"add", "sub", "and", "csel", "csinc", "csinv", "csneg"},
          s : BOOLEAN, rd : Guest, rn : Guest, rm : Guest, imm : Word,
          cond : DOMAIN Conds]

\* What the forms decode to: comparisons with an immediate are SUBS and ANDS,
\* there is no AND with carry.
Fns(form) == CASE form \in {"alu", "cmp"} -> {"add", "sub", "and"}
               [] form = "adc"            -> {"add", "sub"}
               [] form = "cmpi"           -> {"sub"}
               [] form = "tst"            -> {"and"}
               [] form = "csel"           -> {"csel", "csinc", "csinv", "csneg"}
               [] OTHER                   -> {"add"}

ASSUME SizeAssumption == Size \in Nat /\ Size >= 2
ASSUME AndAssumption == \A a, b \in Word : And(a, b) \in Word
ASSUME InstrsAssumption == /\ Instrs \subseteq Instr /\ Guest \subseteq 0..12
                           /\ \A i \in Instrs : i.fn \in Fns(i.form)
ASSUME OnlySafeAssumption == OnlySafe \in BOOLEAN

VARIABLES x,     \* guest registers, as the architecture has them
          nzcv,  \* guest flags, as the architecture has them
          host,  \* host registers: the guest's, and the scratch register
          flags, \* host flags
          live,  \* history: the kind of instruction both last set flags by
          went   \* the way the last branch went, guest and host

vars == <<x, nzcv, host, flags, live, went>>
-----------------------------------------------------------------------------
(***************************************************************************)
(* Arithmetic with a carry in, and the flags the two machines derive.  The *)
(* guest's carry after a subtraction is the absence of a borrow, the       *)
(* host's is the borrow.                                                   *)
(***************************************************************************)
Bit(b) == IF b THEN 1 ELSE 0
Negative(a) == a >= Size \div 2
Invert(a) == Size - 1 - a
Sum3(a, b, c) == (a + b + Bit(c)) % Size
Carry(a, b, c) == a + b + Bit(c) >= Size
Overflow(a, b, c) == Negative(a) = Negative(b) /\ Negative(Sum3(a, b, c)) # Negative(a)

TestBit(a, n) == (a \div 2 ^ n) % 2 = 1

GuestFlags(r, c, v) == [N |-> Negative(r), Z |-> r = 0, C |-> c, V |-> v]
HostFlags(r, c, v) == [SF |-> Negative(r), ZF |-> r = 0, CF |-> c, OF |-> v]

Other(fn, b) == IF fn = "sub" THEN Invert(b) ELSE b

\* fn with carry in c, on the guest.
Value(fn, a, b, c) == IF fn = "and" THEN And(a, b) ELSE Sum3(a, Other(fn, b), c)
NewNZCV(fn, a, b, c) ==
  IF fn = "and" THEN GuestFlags(And(a, b), FALSE, FALSE)
  ELSE GuestFlags(Value(fn, a, b, c), Carry(a, Other(fn, b), c), Overflow(a, Other(fn, b), c))

Holds(c, f) ==
  CASE c = "eq" -> f.Z      [] c = "ne" -> ~f.Z
    [] c = "cs" -> f.C      [] c = "cc" -> ~f.C
    [] c = "mi" -> f.N      [] c = "pl" -> ~f.N
    [] c = "vs" -> f.V      [] c = "vc" -> ~f.V
    [] c = "hi" -> f.C /\ ~f.Z     [] c = "ls" -> ~(f.C /\ ~f.Z)
    [] c = "ge" -> f.N = f.V       [] c = "lt" -> f.N # f.V
    [] c = "gt" -> ~f.Z /\ f.N = f.V  [] c = "le" -> ~(~f.Z /\ f.N = f.V)
    [] OTHER -> TRUE
-----------------------------------------------------------------------------
(***************************************************************************)
(* The guest.                                                              *)
(***************************************************************************)
FirstCarry(i) == i.fn = "sub"
Second(i) == IF i.form \in {"cmpi", "tst"} THEN i.imm ELSE x[i.rm]

Select(i, a, b) ==
  IF Holds(Conds[i.cond], nzcv) THEN a
  ELSE CASE i.fn = "csinc" -> Sum3(b, 1, FALSE)
         [] i.fn = "csinv" -> Invert(b)
         [] i.fn = "csneg" -> Sum3(Invert(b), 1, FALSE)
         [] OTHER          -> b

Result(i, a, b) ==
  CASE i.form = "alu"  -> Value(i.fn, a, b, FirstCarry(i))
    [] i.form = "adc"  -> Value(i.fn, a, b, nzcv.C)
    [] i.form = "csel" -> Select(i, a, b)
    [] OTHER           -> b

GuestNZCV(i, a, b) ==
  CASE i.form \in {"cmp", "cmpi", "tst"} -> NewNZCV(i.fn, a, b, FirstCarry(i))
    [] i.form = "alu" /\ i.s -> NewNZCV(i.fn, a, b, FirstCarry(i))
    [] i.form = "adc" /\ i.s -> NewNZCV(i.fn, a, b, nzcv.C)
    [] OTHER                 -> nzcv

GuestWay(i) ==
  CASE i.form = "bcond" -> Holds(Conds[i.cond], nzcv)
    [] i.form = "cbz"   -> (x[i.rn] = 0) # i.s
    [] i.form = "tbz"   -> TestBit(x[i.rn], i.imm) = i.s
    [] OTHER            -> TRUE

GuestStep(i) ==
  /\ x' = IF i.form \in {"alu", "adc", "csel", "mov"}
          THEN [x EXCEPT ![i.rd] = Result(i, x[i.rn], Second(i))] ELSE x
  /\ nzcv' = GuestNZCV(i, x[i.rn], Second(i))
-----------------------------------------------------------------------------
(***************************************************************************)
(* The host: one instruction op dst, src on the registers and flags.       *)
(***************************************************************************)
SCRATCH == 13
Imm(n) == 14 + n \* an operand that is no register

Set(st, dst, r, c, v) == [h |-> [st.h EXCEPT ![dst] = r], f |-> HostFlags(r, c, v)]
Flag(st, r, c, v) == [st EXCEPT !.f = HostFlags(r, c, v)]
Move(st, dst, r) == [st EXCEPT !.h[dst] = r]

Cc(c, f) ==
  CASE c = "e" -> f.ZF    [] c = "ne" -> ~f.ZF
    [] c = "b" -> f.CF    [] c = "ae" -> ~f.CF
    [] c = "s" -> f.SF    [] c = "ns" -> ~f.SF
    [] c = "o" -> f.OF    [] c = "no" -> ~f.OF
    [] c = "a" -> ~f.CF /\ ~f.ZF   [] c = "be" -> f.CF \/ f.ZF
    [] c = "ge" -> f.SF = f.OF     [] c = "l" -> f.SF # f.OF
    [] c = "g" -> ~f.ZF /\ f.SF = f.OF  [] c = "le" -> f.ZF \/ f.SF # f.OF
    [] OTHER -> TRUE

\* The operands: a register, or an immediate.
Operand(st, src) == IF src \in DOMAIN st.h THEN st.h[src] ELSE src - 14

\* What op makes of the values a and b; add, sub, cmp and test start without a
\* carry, adc and sbb take CF.
Apply(st, op, dst, a, b) ==
  LET cf == st.f.CF
      n == Invert(b)
  IN CASE op = "mov"  -> Move(st, dst, b)
       [] op = "add"  -> Set(st, dst, Sum3(a, b, FALSE), Carry(a, b, FALSE), Overflow(a, b, FALSE))
       [] op = "adc"  -> Set(st, dst, Sum3(a, b, cf), Carry(a, b, cf), Overflow(a, b, cf))
       [] op = "sub"  -> Set(st, dst, Sum3(a, n, TRUE), ~Carry(a, n, TRUE), Overflow(a, n, TRUE))
       [] op = "sbb"  -> Set(st, dst, Sum3(a, n, ~cf), ~Carry(a, n, ~cf), Overflow(a, n, ~cf))
       [] op = "cmp"  -> Flag(st, Sum3(a, n, TRUE), ~Carry(a, n, TRUE), Overflow(a, n, TRUE))
       [] op = "and"  -> Set(st, dst, And(a, b), FALSE, FALSE)
       [] op = "test" -> Flag(st, And(a, b), FALSE, FALSE)
       [] op = "bt"   -> [st EXCEPT !.f.CF = TestBit(a, b)]
       [] op = "inc"  -> Set(st, dst, Sum3(a, 1, FALSE), cf, Overflow(a, 1, FALSE))
       [] op = "not"  -> Move(st, dst, Invert(a))
       [] op = "neg"  -> Set(st, dst, Sum3(Invert(a), 1, FALSE), a # 0, a = Size \div 2)
       [] OTHER       -> IF Cc(op, st.f) THEN Move(st, dst, b) ELSE st

Exec(st, op, dst, src) == Apply(st, op, dst, st.h[dst], Operand(st, src))
-----------------------------------------------------------------------------
(***************************************************************************)
(* translate(), on decoded instructions: what the code it emits makes of   *)
(* the host state st.  A cmov is named by its condition code.              *)
(***************************************************************************)
move(st, dst, src) == IF dst = src THEN st ELSE Exec(st, "mov", dst, src)

\* Mutant of cc: signed and unsigned comparisons mixed up.
ccUnsigned == <<"e", "ne", "b", "ae", "s", "ns", "o", "no",
                "a", "be", "ae", "b", "a", "be", "mp", "mp">>

cc == <<"e", "ne", "b", "ae", "s", "ns", "o", "no",
        "a", "be", "ge", "l", "g", "le", "mp", "mp">>

\* The flag-setting and the plain form are the same host instruction.
\* The words with bit 21 clear; with it set the second operand is inverted, which
\* translate() does not read (411-436).
Alu(st, i) == Exec(move(st, i.rd, i.rn), i.fn, i.rd, i.rm)

\* Mutant of Cmp: the operands are swapped.
CmpSwapped(st, i) == Exec(st, "cmp", i.rm, i.rn)

\* SUBS, ADDS and ANDS to register 31 all become cmp.
Cmp(st, i) == Exec(st, "cmp", i.rn, i.rm)

\* SUBS (immediate), whatever its destination.
CmpImm(st, i) == Exec(st, "cmp", i.rn, Imm(i.imm))

\* ANDS (immediate) to register 31.
Tst(st, i) == Exec(st, "test", i.rn, Imm(i.imm))

\* Mutant of Adc: adc for SBC as well.
AdcOnly(st, i) == Exec(move(st, i.rd, i.rn), "adc", i.rd, i.rm)

Adc(st, i) == Exec(move(st, i.rd, i.rn), IF i.fn = "sub" THEN "sbb" ELSE "adc", i.rd, i.rm)

\* The second operand of CSINC, CSINV and CSNEG is made in the scratch register.
Csel(st, i) ==
  LET first == move(st, i.rd, i.rn)
      change == CASE i.fn = "csinc" -> "inc" [] i.fn = "csinv" -> "not" [] OTHER -> "neg"
      second == Exec(Exec(first, "mov", SCRATCH, i.rm), change, SCRATCH, SCRATCH)
  IN IF i.fn = "csel" THEN Exec(first, cc[i.cond], i.rd, i.rm)
     ELSE Exec(second, cc[i.cond], i.rd, SCRATCH)

\* What runs before the jump of B.cond, CBZ and TBZ, and its condition.
Test(st, i) == CASE i.form = "cbz" -> Exec(st, "cmp", i.rn, Imm(0))
                 [] i.form = "tbz" -> Exec(st, "bt", i.rn, Imm(i.imm))
                 [] OTHER          -> st
Jump(i) == CASE i.form = "cbz" -> IF i.s THEN "ne" ELSE "e"
             [] i.form = "tbz" -> IF i.s THEN "b" ELSE "ae"
             [] OTHER          -> cc[i.cond]

Translate(st, i) ==
  CASE i.form = "alu"  -> Alu(st, i)
    [] i.form = "cmp"  -> Cmp(st, i)
    [] i.form = "cmpi" -> CmpImm(st, i)
    [] i.form = "tst"  -> Tst(st, i)
    [] i.form = "adc"  -> Adc(st, i)
    [] i.form = "csel" -> Csel(st, i)
    [] i.form = "mov"  -> move(st, i.rd, i.rm)
    [] OTHER           -> Test(st, i)

HostStep(i) ==
  LET st == Translate([h |-> host, f |-> flags], i)
  IN host' = st.h /\ flags' = st.f

HostWay(i) == i.form \in {"bcond", "cbz", "tbz"} => Cc(Jump(i), flags')
-----------------------------------------------------------------------------
(***************************************************************************)
(* Where the translation is right, given the kind of instruction the flags *)
(* come from; "none" when the host has overwritten them since.  Nothing in *)
(* the code tests for it:                                                  *)
(*   - CS and CC are b and ae, right after an addition or a logical        *)
(*     operation and inverted after a comparison; HI and LS the reverse;   *)
(*   - CSEL moves rm when the condition holds, the wrong way round, which  *)
(*     cancels out for CS and CC after a comparison;                       *)
(*   - inc keeps CF and neg does not;                                      *)
(*   - CMN and TST (register) are cmp;                                     *)
(*   - rd = rm loses the second operand;                                   *)
(*   - cmov has no always-true form.                                       *)
(***************************************************************************)
KeepsOperand(i) == i.rd = i.rn \/ i.rd # i.rm

CondSafe(c) == \/ c \in {"eq", "ne", "mi", "pl", "vs", "vc", "ge", "lt", "gt", "le"}
               \/ c \in {"cs", "cc"} /\ live # "sub"
               \/ c \in {"hi", "ls"} /\ live = "sub"

CarrySafe(fn) == IF fn = "sub" THEN live = "sub" ELSE live \in {"add", "and"}

Safe(i) ==
  /\ i.form \in {"alu", "adc"} => KeepsOperand(i)
  /\ i.form = "cmp" => i.fn = "sub"
  /\ i.form = "adc" => CarrySafe(i.fn)
  /\ i.form = "csel" => /\ i.rd # i.rm
                        /\ live = "sub" /\ Conds[i.cond] \in {"cs", "cc"}
                        /\ i.fn \in {"csel", "csinc", "csinv"}
  /\ i.form = "bcond" => \/ Conds[i.cond] \in {"al", "nv"}
                         \/ live # "none" /\ CondSafe(Conds[i.cond])

\* The kind of instruction guest and host flags both come from.
LiveAfter(i) ==
  CASE i.form \in {"cmp", "cmpi", "tst"}              -> i.fn
    [] i.form \in {"alu", "adc"} /\ i.s               -> i.fn
    [] i.form \in {"alu", "adc"} /\ ~i.s              -> "none"
    [] i.form \in {"cbz", "tbz"}                      -> "none"
    [] i.form = "csel" /\ i.fn \in {"csinc", "csneg"} -> "none"
    [] OTHER                                          -> live

\* Right after an addition.
Init == /\ x \in [Guest -> Word]
        /\ nzcv \in [{"N", "Z", "C", "V"} -> BOOLEAN]
        /\ host = [r \in Guest \cup {SCRATCH} |-> IF r \in Guest THEN x[r] ELSE 0]
        /\ flags = [SF |-> nzcv.N, ZF |-> nzcv.Z, CF |-> nzcv.C, OF |-> nzcv.V]
        /\ live = "add"
        /\ went = <<TRUE, TRUE>>

Run(i) == /\ OnlySafe => Safe(i)
          /\ GuestStep(i)
          /\ HostStep(i)
          /\ live' = LiveAfter(i)
          /\ went' = <<GuestWay(i), HostWay(i)>>

Next == \E i \in Instrs : Run(i)

Spec == Init /\ [][Next]_vars
-----------------------------------------------------------------------------
\* translate()'s contract, "Raises Unsupported for instructions with no
\* meaning-preserving equivalent", over sequences of instructions: the guest
\* registers are the architecture's, whatever set the carry they used.
RegistersAgree == \A r \in Guest : host[r] = x[r]

\* Every branch goes the way the architecture goes, however long before it
\* the flags were set.
SameWay == went[1] = went[2]

\* What the host flags stand for: the guest's, the carry inverted after a
\* subtraction, as long as no host instruction has come between.
FlagsAgree == live # "none" =>
  /\ flags.SF = nzcv.N /\ flags.ZF = nzcv.Z /\ flags.OF = nzcv.V
  /\ flags.CF = (IF live = "sub" THEN ~nzcv.C ELSE nzcv.C)
=============================================================================
