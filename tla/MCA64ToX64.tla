----------------------------- MODULE MCA64ToX64 -----------------------------
(***************************************************************************)
(* The candidate instructions of each run, over two-bit words.             *)
(***************************************************************************)
EXTENDS A64ToX64, TwoBitWords, LogicalImmediate

Base == [form |-> "none", fn |-> "add", sh |-> "lsl", sf |-> 1, rd |-> 31,
         rn |-> 31, rm |-> 31, ra |-> 31, imm |-> 0, amt |-> 0]

Two(form, fns) == {[Base EXCEPT !.form = form, !.fn = f, !.rd = d, !.rn = n, !.imm = 3] :
                     f \in fns, d, n \in AnyReg}
Three(form, fns, rms) ==
  {[Base EXCEPT !.form = form, !.fn = f, !.rd = d, !.rn = n, !.rm = m] :
     f \in fns, d, n \in AnyReg, m \in rms}
One(form) == {[Base EXCEPT !.form = form, !.rd = d, !.imm = 2, !.amt = 1] : d \in AnyReg}
Shift(shs) == {[i EXCEPT !.form = "alu_shift", !.sh = s, !.amt = 1] :
                 s \in shs, i \in Three("alu_shift", {"sub"}, AnyReg)}
Mul == {[i EXCEPT !.ra = a] : i \in Three("madd", {"add", "sub"}, AnyReg), a \in AnyReg}

Computing == Two("alu_imm", {"sub", "asr"}) \cup Two("subs_imm", {"subs"})
  \cup One("movz") \cup One("const") \cup One("movk") \cup {Base}
  \cup Three("alu_reg", {"sub", "orr"}, AnyReg) \cup Shift({"lsl", "asr"})
  \cup Two("pac", {"add"}) \cup Mul \cup Two("unary", {"clz"})
  \cup Three("shiftv", {"lsl"}, AnyReg)

SafeComputing == {i \in Computing : Safe(i)}

SpilledRegs == {2, 13, 14}
TwoRegs == {0, 13}
-----------------------------------------------------------------------------
(***************************************************************************)
(* An instruction set translate() accepts and gets wrong: rd is also the   *)
(* second operand.                                                         *)
(***************************************************************************)
NoZero(S) == {i \in S : 31 \notin {i.rd, i.rn, i.rm}}

AliasInstrs == {i \in NoZero(Three("alu_reg", {"sub"}, AnyReg)) : ~Safe(i)}
=============================================================================
