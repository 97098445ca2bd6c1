------------------------------ MODULE ArmModel ------------------------------
(***************************************************************************)
(* What the translator promises: the guest's registers change exactly as   *)
(* the independent interpreter changes them, one instruction at a time.    *)
(* This is the abstract specification A64ToX64 is shown to implement.      *)
(***************************************************************************)
EXTENDS A64

VARIABLES x,   \* the guest register file
          ir   \* the instruction being executed, NoInstr between two

Init == x \in [Guest -> Word] /\ ir = NoInstr

Execute(i) == ir = NoInstr /\ ir' = i /\ x' = Step(x, i)

Retire == ir # NoInstr /\ ir' = NoInstr /\ UNCHANGED x

Next == Retire \/ \E i \in Instrs : Execute(i)

Spec == Init /\ [][Next]_<<x, ir>>
=============================================================================
