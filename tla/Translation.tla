---------------------------- MODULE Translation ----------------------------
(***************************************************************************)
(* translate() of ibootcore/a64_to_x64.py: one arm64 word becomes a list   *)
(* of x86-64 instructions over 13 host registers, a spill area addressed   *)
(* through r15 and one scratch register; what running such a list does,    *)
(* and for which instructions it is right.  A64ToX64 runs the lists one    *)
(* instruction at a time, Monitor whole blocks.                            *)
(***************************************************************************)
EXTENDS A64, Sequences

CONSTANT X86(_, _, _)   \* X86(op, a, b): the x86-64 data operation op
-----------------------------------------------------------------------------
(***************************************************************************)
(* Operands: a host register, a spill slot [r15+off], or an immediate.     *)
(***************************************************************************)
XREG == <<"rax", "rbx", "rcx", "rdx", "rsi", "rdi",
          "r8", "r9", "r10", "r11", "r12", "r13", "r14">>
SPILL_BASE == "r15"

Reg(name) == <<name, 0>>
Slot(n) == <<SPILL_BASE, 8 * n>>
Imm(v) == <<"imm", v>>

SCRATCH == Reg("rbp")
RAX == Reg("rax")
RCX == Reg("rcx")
RDX == Reg("rdx")
RDI == Reg("rdi")

hostreg(n) == IF n < 13 THEN Reg(XREG[n + 1]) ELSE Slot(n)

is_mem(loc) == loc[1] = SPILL_BASE

Locs == {SCRATCH} \cup {hostreg(n) : n \in AnyReg}

(***************************************************************************)
(* The forms that need particular host registers appear only in programs   *)
(* that use the guest registers living there, so Locs has them.            *)
(***************************************************************************)
FixedRegs(form) ==
  CASE form \in {"div", "counter"}  -> {0, 3}
    [] form = "shiftv"              -> {2}
    [] form \in {"hostcall", "svc"} -> {5}
    [] OTHER                        -> {}

ASSUME FixedAssumption == \A i \in Instrs : FixedRegs(i.form) \subseteq Guest
-----------------------------------------------------------------------------
(***************************************************************************)
(* One host instruction, op dst, src.  "cmp" is cmp or test: only flags.    *)
(***************************************************************************)
Op(op, dst, src) == [op |-> op, dst |-> dst, src |-> src]

Val(h, s) == IF s[1] = "imm" THEN s[2] ELSE h[s]

\* div S and idiv S leave the quotient in rax and the remainder in rdx.
Divide(op, h, v) == [h EXCEPT ![RAX] = X86(op, h[RAX], v),
                              ![RDX] = X86("rem", h[RAX], v)]

Exec(h, o) ==
  CASE o.op = "mov" -> [h EXCEPT ![o.dst] = Val(h, o.src)]
    [] o.op = "cmp" -> h
    [] o.op \in {"div", "idiv"} -> Divide(o.op, h, Val(h, o.src))
    [] OTHER        -> [h EXCEPT ![o.dst] = X86(o.op, h[o.dst], Val(h, o.src))]

\* Mutant of move: no staging.
moveUnstaged(dst, src) == IF dst = src THEN <<>> ELSE <<Op("mov", dst, src)>>

move(dst, src) ==
  IF dst = src THEN <<>>
  ELSE IF is_mem(dst) /\ is_mem(src)
       THEN <<Op("mov", SCRATCH, src), Op("mov", dst, SCRATCH)>>
       ELSE <<Op("mov", dst, src)>>

\* Constants that ADR, ADRP and MOVN stage through the scratch register.
moveConst(dst, v) ==
  IF is_mem(dst) THEN <<Op("mov", SCRATCH, Imm(v)), Op("mov", dst, SCRATCH)>>
                 ELSE <<Op("mov", dst, Imm(v))>>
-----------------------------------------------------------------------------
(***************************************************************************)
(* translate(), one operator per form.  D, N, M and A are the host         *)
(* locations of rd, rn, rm and ra.                                         *)
(***************************************************************************)
D(i) == hostreg(i.rd)
N(i) == hostreg(i.rn)
M(i) == hostreg(i.rm)
A(i) == hostreg(i.ra)

x86op == [add |-> "add", adds |-> "add", sub |-> "sub", subs |-> "sub",
          and |-> "and", ands |-> "and", orr |-> "or", eor |-> "xor",
          lsl |-> "shl", lsr |-> "shr", asr |-> "sar", ror |-> "ror",
          clz |-> "lzcnt", rev |-> "bswap", udiv |-> "div", sdiv |-> "idiv"]

\* rn into rd, then rd op= src: the shape most forms share.
Via(i, op, src) == move(D(i), N(i)) \o <<Op(op, D(i), src)>>

\* ADD/SUB (immediate), logical immediate (ANDS to 31 is TST) and the
\* shift aliases of the bitfield moves.
AluImm(i) ==
  IF i.rd = 31 /\ i.fn = "ands" THEN <<Op("cmp", N(i), Imm(i.imm))>>
  ELSE Via(i, x86op[i.fn], Imm(i.imm))

\* SUBS (immediate) is taken to be CMP whatever rd is.
SubsImm(i) == <<Op("cmp", N(i), Imm(i.imm))>>

Movz(i) == <<Op("mov", D(i), Imm(i.imm))>>

Const(i) == moveConst(D(i), i.imm)

Movk(i) == <<Op("and", D(i), Imm(i.amt)), Op("or", D(i), Imm(i.imm))>>

\* Mutant of AluShift: the operand is shifted where it lives.
AluShiftInPlace(i) ==
  <<Op(x86op[i.sh], M(i), Imm(i.amt))>> \o Via(i, x86op[i.fn], M(i))

AluShift(i) ==
  <<Op("mov", SCRATCH, M(i)), Op(x86op[i.sh], SCRATCH, Imm(i.amt))>>
    \o Via(i, x86op[i.fn], SCRATCH)

\* dst op= src, the source staged when both operands are spilled.
Combine(op, dst, src) ==
  IF is_mem(dst) /\ is_mem(src)
  THEN <<Op("mov", SCRATCH, src), Op(op, dst, SCRATCH)>>
  ELSE <<Op(op, dst, src)>>

\* cmp a, b: here it is the first operand that is staged.
Compare(a, b) ==
  IF is_mem(a) /\ is_mem(b)
  THEN <<Op("mov", SCRATCH, a), Op("cmp", SCRATCH, b)>>
  ELSE <<Op("cmp", a, b)>>

\* i.fn is opc alone: bit 21, which inverts the second operand (BIC, ORN, EON,
\* BICS), is read neither here (411-436) nor by the interpreter, so such a word
\* is the and, orr, eor or ands it is taken for.
AluReg(i) ==
  IF i.fn = "orr" /\ i.rn = 31 THEN move(D(i), M(i))
  ELSE IF i.rd = 31 /\ i.fn \in {"adds", "subs", "orr", "ands"}
       THEN Compare(N(i), M(i))
       ELSE move(D(i), N(i)) \o Combine(x86op[i.fn], D(i), M(i))

\* PACxx/AUTxx Xd, Xn: rd is the pointer, rn the modifier.
Pac(i) == IF i.rn # 31 /\ i.rd # i.rn THEN move(D(i), N(i)) ELSE <<>>

Madd(i) ==
  Via(i, "imul", M(i))
    \o IF i.ra = 31 THEN <<>> ELSE <<Op(x86op[i.fn], D(i), A(i))>>

\* Whichever of xor and cqo fills rdx, the division then overwrites it.
Div(i) ==
  <<Op("mov", RAX, N(i)), Op("mov", RDX, Imm(0)), Op("mov", SCRATCH, M(i)),
    Op(x86op[i.fn], SCRATCH, SCRATCH)>> \o move(D(i), RAX)

\* Variable shifts take their count in cl.
ShiftV(i) == <<Op("mov", RCX, M(i))>> \o Via(i, x86op[i.fn], RCX)

Unary(i) == Via(i, x86op[i.fn], D(i))

\* CNTVCT_EL0: rdtsc fills edx:eax, the halves are joined in rax.
Counter(i) ==
  <<Op("mov", RDX, Imm(X86("hi", i.imm, 0))), Op("mov", RAX, Imm(Lo(i.imm))),
    Op("shl", RDX, Imm(X86("half", 0, 0))), Op("or", RAX, RDX)>>
    \o move(D(i), RAX)

\* The runtime's argument goes in rdi: the register rt of MSR and TLBI, the
\* immediate of SVC, HVC and SMC.
HostCall(i) == <<Op("mov", RDI, D(i))>>
Svc(i) == <<Op("mov", RDI, Imm(i.imm))>>

Translate(i) ==
  CASE i.form = "alu_imm"   -> AluImm(i)
    [] i.form = "subs_imm"  -> SubsImm(i)
    [] i.form = "movz"      -> Movz(i)
    [] i.form = "const"     -> Const(i)
    [] i.form = "movk"      -> Movk(i)
    [] i.form = "alu_reg"   -> AluReg(i)
    [] i.form = "alu_shift" -> AluShift(i)
    [] i.form = "pac"       -> Pac(i)
    [] i.form = "madd"      -> Madd(i)
    [] i.form = "div"       -> Div(i)
    [] i.form = "shiftv"    -> ShiftV(i)
    [] i.form = "unary"     -> Unary(i)
    [] i.form = "counter"   -> Counter(i)
    [] i.form = "hostcall"  -> HostCall(i)
    [] i.form = "svc"       -> Svc(i)
    [] OTHER                -> <<>>
-----------------------------------------------------------------------------
(***************************************************************************)
(* Where the two instruction sets agree, and the laws of the guest's       *)
(* arithmetic the translations rely on.                                    *)
(***************************************************************************)
X86Ops == {"mov", "cmp", "div", "idiv", "and", "or", "xor", "add", "sub",
           "imul", "shl", "shr", "sar", "ror", "lzcnt", "bswap"}

\* The operations of this program: division only where rax and rdx are in use.
HostOps == {op \in X86Ops : op \in {"div", "idiv"} => {0, 3} \subseteq Guest}

ASSUME X86Assumption ==
  /\ \A op \in X86Ops \cup {"rem", "hi", "half"}, a, b \in Word : X86(op, a, b) \in Word
  /\ \A fn \in AluFns \cup ShiftFns, a, b \in Word : X86(x86op[fn], a, b) = Arm(fn, a, b)
  /\ \A fn \in UnaryFns, a \in Word : X86(x86op[fn], a, a) = Arm(fn, a, 0)
  /\ \A a, b \in Word : X86("imul", a, b) = Arm("mul", a, b)

ASSUME ArmLaws ==
  /\ \A a \in Word : Arm("orr", 0, a) = a /\ Arm("add", 0, a) = a
  /\ \A a, b \in Word : Arm("add", a, b) = Arm("add", b, a)
-----------------------------------------------------------------------------
(***************************************************************************)
(* Running a list to its end, and the guest registers a host state stands  *)
(* for.  No translation is longer than MaxOps.                             *)
(***************************************************************************)
MaxOps == 5

Apply(h, ops, k) == IF k <= Len(ops) THEN Exec(h, ops[k]) ELSE h

Flush(h, ops) ==
  Apply(Apply(Apply(Apply(Apply(h, ops, 1), ops, 2), ops, 3), ops, 4), ops, 5)

View(h) == [r \in Guest |-> h[hostreg(r)]]

\* An operand pair x86 has an encoding for: not two spilled ones, and IMUL,
\* LZCNT and BSWAP write a register.
EncodableOp(o) == is_mem(o.dst) => /\ ~is_mem(o.src)
                                   /\ o.op \notin {"imul", "lzcnt", "bswap"}
-----------------------------------------------------------------------------
(***************************************************************************)
(* The instructions translate() gets right, form by form.  Every condition *)
(* here is one the code does not test for:                                 *)
(*   - register 31 is the spill slot 0xf8, so XZR reads as the stack       *)
(*     pointer (every form), and SUBS with a destination is only a cmp;    *)
(*   - the shifted operand waits in the scratch register, which a move     *)
(*     from a spilled rn to a spilled rd goes through; its ASR is not the  *)
(*     interpreter's;                                                      *)
(*   - a modifier register is moved over the pointer it signs;             *)
(*   - imul, lzcnt and bswap cannot write a spill slot, MSUB subtracts the *)
(*     wrong way round, and rd is written before ra is read;               *)
(*   - a variable shift overwrites guest x2 (rcx), a runtime call guest x5 *)
(*     (rdi), division and the counter guest x0 and x3 (rax, rdx);         *)
(*   - a w-form (sf = 0) is computed on all the bits of the host register. *)
(***************************************************************************)
\* The destination's first write may not destroy an operand still to be read.
KeepsOperand(i) == i.rd = i.rn \/ i.rd # i.rm

SafeForm(i) ==
  CASE i.form = "alu_imm"   -> i.rd # 31 /\ i.rn # 31
    [] i.form = "subs_imm"  -> i.rd = 31
    [] i.form = "alu_reg"   ->
         \/ i.rd = 31 /\ i.fn \in {"adds", "subs", "ands"}
         \/ i.rd # 31 /\ i.fn = "orr" /\ i.rn = 31 /\ i.rm # 31
         \/ 31 \notin {i.rd, i.rn, i.rm} /\ KeepsOperand(i)
    [] i.form = "alu_shift" -> /\ 31 \notin {i.rd, i.rn, i.rm}
                               /\ i.sh # "asr"
                               /\ i.rd = i.rn \/ ~(is_mem(D(i)) /\ is_mem(N(i)))
    [] i.form = "pac"       -> i.rn \in {31, i.rd}
    [] i.form = "madd"      -> /\ 31 \notin {i.rd, i.rn, i.rm}
                               /\ ~is_mem(D(i))
                               /\ KeepsOperand(i)
                               /\ i.fn = "add" /\ i.ra # i.rd
    [] i.form = "shiftv"    -> i.rd \notin {2, 31} /\ i.rn # 31 /\ i.rm = 2
    [] i.form = "unary"     -> i.rd # 31 /\ ~is_mem(D(i)) /\ i.rn # 31
    [] i.form = "hostcall"  -> i.rd = 5
    [] i.form \in {"movz", "const", "movk"} -> i.rd # 31
    [] OTHER                -> i.form = "none"

Safe(i) == i.sf = 1 /\ SafeForm(i)
=============================================================================
