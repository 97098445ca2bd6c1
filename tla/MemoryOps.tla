----------------------------- MODULE MemoryOps -----------------------------
(***************************************************************************)
(* Guest programs as the memory system sees them: for each processor a     *)
(* sequence of loads, stores and barriers, and the order the arm64 memory  *)
(* model imposes on them.  Address and data dependencies are left out:     *)
(* they could only add order between a load and a later access.            *)
(***************************************************************************)
EXTENDS Naturals, Sequences

CONSTANTS Procs,     \* processors
          Addrs,     \* addresses
          Programs,  \* the choices of a program for every processor
          Zero       \* what memory holds at the start

Kinds == {"ldr", "str", "ldar", "stlr", "dmb", "dsb"}
Op == [kind : Kinds, addr : Addrs]

ASSUME ProgramsAssumption == Programs \subseteq [Procs -> Seq(Op)]

IsLoad(o) == o.kind \in {"ldr", "ldar"}
IsStore(o) == o.kind \in {"str", "stlr"}
IsAccess(o) == IsLoad(o) \/ IsStore(o)
IsBarrier(o) == o.kind \in {"dmb", "dsb"}

Pos(s) == DOMAIN s
Between(s, j, k, kinds) == \E b \in Pos(s) : j < b /\ b < k /\ s[b].kind \in kinds

(***************************************************************************)
(* Access j of program s is before access k for every observer: a barrier  *)
(* is between them, j acquires, k releases, j releases and k acquires, or  *)
(* they are at one address.  A load may still take the value of its own    *)
(* processor's earlier store before others see it, unless the store        *)
(* releases and the load acquires or a barrier is between them.            *)
(***************************************************************************)
Ordered(s, j, k) ==
  /\ j < k /\ IsAccess(s[j]) /\ IsAccess(s[k])
  /\ \/ Between(s, j, k, {"dmb", "dsb"})
     \/ s[j].kind = "ldar"
     \/ s[k].kind = "stlr"
     \/ s[j].kind = "stlr" /\ s[k].kind = "ldar"
     \/ s[j].addr = s[k].addr /\ ~(IsStore(s[j]) /\ IsLoad(s[k]))

\* What store k of processor p writes: no two stores write the same value.
Written(p, k) == <<p, k>>
Value == {Zero} \cup (Procs \X Nat)

\* What memory holds at the start is not what any store writes.
ASSUME ZeroAssumption == Zero \notin Procs \X Nat

\* The earlier stores, out of the set w, that load k of s takes a value from.
Forwards(s, w, k) == {j \in w : j < k /\ IsStore(s[j]) /\ s[j].addr = s[k].addr}

Newest(F) == CHOOSE j \in F : \A i \in F : i <= j

\* What load k of processor p reads when the stores in w are still its own.
Reads(p, s, w, k, v) ==
  IF Forwards(s, w, k) = {} THEN v ELSE Written(p, Newest(Forwards(s, w, k)))
=============================================================================
