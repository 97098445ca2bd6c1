------------------------------ MODULE MCLoadStore ------------------------------
(***************************************************************************)
(* Two guest registers in host registers, two spilled ones and the stack   *)
(* pointer; every form over them.  The starts have every register and      *)
(* address apart, and registers that are equal.                            *)
(***************************************************************************)
EXTENDS LoadStore, TLC

MCGuest == {0, 1, 13, 14, 31}
MCSysRegs == {"TPIDR_EL1", "SP_EL0"}
Mapped == {0, 1}

I(form, kind, narrow, rt, rn) ==
  [form |-> form, kind |-> kind, narrow |-> narrow, rt |-> rt, rn |-> rn, rm |-> 0,
   rt2 |-> 0, imm |-> 0, option |-> "full", scaled |-> FALSE, key |-> "TPIDR_EL1"]

Plain(form, kinds, bases) ==
  {I(form, k, n, rt, rn) : k \in kinds, n \in BOOLEAN, rt \in MCGuest, rn \in bases}
WithImm(is) == {[i EXCEPT !.imm = m] : i \in is, m \in {0, 1, 3}}

MCInstrs ==
  WithImm(Plain("imm", {"store", "load"}, {1, 13, 31}))
    \cup WithImm(UNION {Plain(f, {"store", "load"}, Mapped) : f \in {"unscaled", "post", "pre"}})
    \cup {[i EXCEPT !.rm = m, !.scaled = s] :
             i \in Plain("reg", {"store", "load"}, {1}), m \in Mapped, s \in BOOLEAN}
    \cup {[I("pair", k, FALSE, rt, rn) EXCEPT !.rt2 = t, !.imm = m] :
             k \in {"store", "load"}, rt \in MCGuest, t \in {0, 14}, rn \in {1, 13}, m \in {0, 3}}
    \cup Plain("ordered", {"store", "load"}, Mapped)
    \cup {[I("ext", k, FALSE, rt, rn) EXCEPT !.rm = m, !.option = o, !.scaled = s] :
             k \in {"store", "load"}, rt \in {0, 13, 31}, rn \in {0, 13, 31}, m \in {0, 14},
             o \in {"full", "zero", "sign"}, s \in BOOLEAN}
    \cup {[I(f, "load", FALSE, rt, 0) EXCEPT !.key = k] :
             f \in {"mrs", "msr"}, rt \in {0, 13}, k \in MCSysRegs}

\* ADD and SUB, extended.
MCExtended == {i \in MCInstrs : i.form = "ext"}

MCStarts ==
  {[x |-> (0 :> 0 @@ 1 :> 2 @@ 13 :> 1 @@ 14 :> 3 @@ 31 :> 2),
    mem |-> (0 :> 0 @@ 1 :> 1 @@ 2 :> 1 @@ 3 :> 0)],
   [x |-> (0 :> 3 @@ 1 :> 3 @@ 13 :> 2 @@ 14 :> 2 @@ 31 :> 0),
    mem |-> (0 :> 1 @@ 1 :> 1 @@ 2 :> 0 @@ 3 :> 0)]}
=============================================================================
