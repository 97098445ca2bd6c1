----------------------------- MODULE GuestOrder -----------------------------
(***************************************************************************)
(* What guest code may rely on: memory is one, each access is performed    *)
(* once and at once for everybody, in any order that Ordered allows.  This *)
(* is the abstract specification TsoHost is shown to implement.            *)
(***************************************************************************)
EXTENDS MemoryOps

VARIABLES prog,  \* the program of every processor
          mem,   \* memory
          done,  \* the accesses each processor has performed
          got    \* what each load has read

Init == /\ prog \in Programs
        /\ mem = [a \in Addrs |-> Zero]
        /\ done = [p \in Procs |-> {}]
        /\ got = [p \in Procs |-> [k \in Pos(prog[p]) |-> Zero]]

May(p, k) == /\ k \in Pos(prog[p]) \ done[p]
             /\ \A j \in Pos(prog[p]) \ done[p] : ~Ordered(prog[p], j, k)

Perform(p, k) == May(p, k) /\ done' = [done EXCEPT ![p] = @ \cup {k}] /\ UNCHANGED prog

Read(p, k) ==
  /\ IsLoad(prog[p][k])
  /\ Perform(p, k)
  /\ got' = [got EXCEPT ![p][k] =
               Reads(p, prog[p], Pos(prog[p]) \ done[p], k, mem[prog[p][k].addr])]
  /\ UNCHANGED mem

Write(p, k) ==
  /\ IsStore(prog[p][k])
  /\ Perform(p, k)
  /\ mem' = [mem EXCEPT ![prog[p][k].addr] = Written(p, k)]
  /\ UNCHANGED got

Next == \E p \in Procs : \E k \in Pos(prog[p]) : Read(p, k) \/ Write(p, k)

Spec == Init /\ [][Next]_<<prog, mem, done, got>>
=============================================================================
