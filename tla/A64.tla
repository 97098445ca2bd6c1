-------------------------------- MODULE A64 --------------------------------
(***************************************************************************)
(* The guest side of the static translator: the arm64 integer register     *)
(* file and what one data-processing instruction does to it.  For the      *)
(* forms ibootcore/arm_model.py interprets (move wide, add/subtract and    *)
(* logical, immediate and shifted register) Step is that interpreter, the  *)
(* oracle the bench compares against.  The other forms the translator      *)
(* accepts are outside the oracle; for them Step is the architecture, as   *)
(* the comments of a64_to_x64.py rely on it.                               *)
(*                                                                         *)
(* Flags, memory and the program counter are not part of this module.      *)
(***************************************************************************)
EXTENDS Naturals

CONSTANTS Guest,        \* the guest registers the program uses, 31 excluded
          Word,         \* register contents
          Instrs,       \* the instructions the program is made of
          Arm(_, _, _), \* Arm(fn, a, b): the arm64 data operation fn
          Lo(_),        \* a register truncated to its w-form
          NoInstr       \* before the first instruction

GuestRange == 0..30
AnyReg == Guest \cup {31}

AluFns == {"add", "adds", "sub", "subs", "and", "ands", "orr", "eor"}
ShiftFns == {"lsl", "lsr", "asr", "ror"}
UnaryFns == {"clz", "rev"}
DivFns == {"udiv", "sdiv"}

(***************************************************************************)
(* A decoded instruction.  Every form has the same fields; a form ignores  *)
(* the ones it has no use for.  imm is the immediate after decoding        *)
(* (imm12 << 12, the bitmask pattern, imm16 << 16*hw, the folded ADR       *)
(* target), amt a shift amount or, in MOVK, the mask of the bits kept.     *)
(***************************************************************************)
Forms == {"alu_imm", "subs_imm", "movz", "const", "movk", "alu_reg",
          "alu_shift", "pac", "madd", "div", "shiftv", "unary",
          "counter", "hostcall", "svc", "none"}

Instr == [form : Forms, fn : AluFns \cup ShiftFns \cup UnaryFns \cup DivFns,
          sh : ShiftFns, sf : {0, 1},
          rd : AnyReg, rn : AnyReg, rm : AnyReg, ra : AnyReg,
          imm : Word, amt : Word]

Fns == AluFns \cup ShiftFns \cup UnaryFns \cup DivFns \cup {"mul", "rem"}

ASSUME GuestAssumption == Guest \subseteq GuestRange
ASSUME WordAssumption ==
  /\ 0 \in Word
  /\ \A a \in Word : Lo(a) \in Word
  /\ \A fn \in Fns, a, b \in Word : Arm(fn, a, b) \in Word

\* The data operations a form comes with.
FnsOf(form) == CASE form = "alu_imm" -> AluFns \cup ShiftFns
                 [] form \in {"alu_reg", "alu_shift"} -> AluFns
                 [] form = "madd"    -> {"add", "sub"}
                 [] form = "div"     -> DivFns
                 [] form = "shiftv"  -> ShiftFns
                 [] form = "unary"   -> UnaryFns
                 [] OTHER            -> Fns

ASSUME InstrAssumption == /\ Instrs \subseteq Instr
                          /\ NoInstr \notin Instr
                          /\ \A i \in Instrs : i.fn \in FnsOf(i.form)

-----------------------------------------------------------------------------
(***************************************************************************)
(* Reading register 31 gives zero and writing it does nothing; a w-form    *)
(* result is cut to the low half.                                          *)
(***************************************************************************)
Get(x, r) == IF r = 31 THEN 0 ELSE x[r]
Put(x, r, v) == IF r = 31 THEN x ELSE [x EXCEPT ![r] = v]
Trunc(i, v) == IF i.sf = 1 THEN v ELSE Lo(v)

\* The oracle shifts a non-negative Python integer right for ASR too, so its
\* arithmetic shift of the second operand is the logical one.
OracleShift(sh) == IF sh = "asr" THEN "lsr" ELSE sh

Shifted(x, i) == Arm(OracleShift(i.sh), Get(x, i.rm), i.amt)

\* MADD/MSUB: fn is "add" or "sub", register 31 as the addend is zero.
MulAdd(x, i) == Arm(i.fn, Get(x, i.ra),
                    Arm("mul", Get(x, i.rn), Get(x, i.rm)))

(***************************************************************************)
(* The value instruction i leaves in rd, for the forms that write rd.      *)
(***************************************************************************)
Result(x, i) ==
  CASE i.form = "alu_imm"   -> Trunc(i, Arm(i.fn, Trunc(i, Get(x, i.rn)), i.imm))
    [] i.form = "subs_imm"  -> Trunc(i, Arm("sub", Get(x, i.rn), i.imm))
    [] i.form = "movz"      -> Trunc(i, i.imm)
    [] i.form = "const"     -> Trunc(i, i.imm)
    [] i.form = "movk"      -> Trunc(i, Arm("orr", Arm("and", Get(x, i.rd), i.amt), i.imm))
    [] i.form = "alu_reg"   -> Trunc(i, Arm(i.fn, Get(x, i.rn), Get(x, i.rm)))
    [] i.form = "alu_shift" -> Trunc(i, Arm(i.fn, Get(x, i.rn), Shifted(x, i)))
    [] i.form = "madd"      -> Trunc(i, MulAdd(x, i))
    [] i.form \in {"div", "shiftv"} ->
         Trunc(i, Arm(i.fn, Trunc(i, Get(x, i.rn)), Trunc(i, Get(x, i.rm))))
    [] i.form = "unary"     -> Trunc(i, Arm(i.fn, Trunc(i, Get(x, i.rn)), 0))
    [] i.form = "counter"   -> i.imm
    [] OTHER                -> Get(x, i.rd)

(***************************************************************************)
(* One instruction.  "pac" (signing and authenticating, modelled as the    *)
(* identity), "hostcall" (system-register writes with side effects, TLBI), *)
(* "svc" (SVC, HVC, SMC; the runtime keeps the guest registers) and "none" *)
(* (NOP, barriers, cache maintenance) leave every register as it was.      *)
(***************************************************************************)
Step(x, i) == Put(x, i.rd, Result(x, i))
=============================================================================
