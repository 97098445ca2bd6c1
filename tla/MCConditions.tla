---------------------------- MODULE MCConditions ----------------------------
(***************************************************************************)
(* Words of two bits have every combination of carry and overflow.  Every  *)
(* instruction over two registers, and the comparisons the code inverts.   *)
(***************************************************************************)
EXTENDS Conditions

TwoRegs == {0, 1}
TwoBitAnd(a, b) == 2 * ((a \div 2) * (b \div 2)) + (a % 2) * (b % 2)

Every == {i \in Instr :
  /\ i.fn \in Fns(i.form)
  /\ i.form \in {"csel", "bcond"} \/ i.cond = 1
  /\ i.form \in {"alu", "adc", "cbz", "tbz"} \/ ~i.s
  /\ i.form \in {"alu", "adc", "csel", "mov"} \/ i.rd = 0
  /\ i.form \notin {"bcond", "mov"} \/ i.rn = 0
  /\ i.form \notin {"bcond", "cbz", "tbz", "cmpi", "tst"} \/ i.rm = 0
  /\ i.form \in {"cmpi", "tst"} \/ i.imm = 0 \/ (i.form = "tbz" /\ i.imm = 1)}

\* CMP and CSEL on eq.
Selecting == {i \in Every : /\ i.form = "csel" => i.fn = "csel" /\ Conds[i.cond] = "eq"
                            /\ i.form = "cmp" => i.fn = "sub"
                            /\ i.form \in {"cmp", "csel"}}
=============================================================================
