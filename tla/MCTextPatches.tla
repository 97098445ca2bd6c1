----------------------------- MODULE MCTextPatches -----------------------------
(***************************************************************************)
(* A small kernel: padding, a guarded routine, its caller, a routine that  *)
(* is traced, one whose first word is a branch, the print routine, the     *)
(* hypercalls, padding again, and data.                                    *)
(***************************************************************************)
EXTENDS TextPatches

Work(id) == [op |-> "work", id |-> id]
Fill(n, k) == [i \in 1..n |-> IF i <= k THEN W("zero") ELSE Work("filler")]

PadSize == 26
GuardedCode == <<W("pacibsp"), W("stp_frame"), Work("mov"), Work("and"), W("load"),
                 W("ldp_frame"), W("retab")>>
CallerCode == <<W("pacibsp"), W("stp_frame"), To("bl", PadSize + 10, PadSize + 1),
                W("ldp_frame"), W("retab")>>
TracedCode == <<Work("wait"), Work("wait 2"), W("ret")>>
TailCode == <<[op |-> "b", d |-> -3]>>
PrintCode == [i \in 1..10 |-> Work("print")] \o <<W("ret")>>
BootCode == <<Work("id"), W("hvc"), W("cbnz_self"), Work("id 2"), W("hvc"), W("str_x0"),
              Work("id 3"), W("hvc"), W("cbnz_self"), W("ret")>>
Code == GuardedCode \o CallerCode \o TracedCode \o TailCode \o PrintCode \o BootCode
Data(n) == Fill(12, n) \o <<W("literal")>>

\* k and l words of padding are left at the two places, n zeros in the data;
\* the word before the second padding may be a literal that ends in zeros.
Kernel(k, l, n, lit) ==
  Fill(PadSize, k) \o Code \o <<IF lit THEN W("literal") ELSE W("ret")>>
    \o Fill(PadSize, l) \o Data(n)

MCKernels == {Kernel(0, 26, 12, FALSE), Kernel(17, 14, 11, FALSE), Kernel(9, 16, 12, TRUE),
              Kernel(17, 6, 12, TRUE)}
MCTextEnd == 2 * PadSize + Len(Code) + 1
MCGuarded == PadSize + 1
MCCaller == PadSize + 8
MCTail == PadSize + 16
MCPrinter == PadSize + 17
MCBoot == PadSize + 28
MCBootEnd == MCBoot + 9
MCPvSite == MCBoot + 1
MCCalls == {PadSize + 10}
MCTargets == {MCTail, MCPrinter, MCGuarded}
MCEntries == {MCGuarded, MCCaller}
=============================================================================
