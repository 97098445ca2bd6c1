------------------------------ MODULE TsoHost ------------------------------
(***************************************************************************)
(* ibootcore/a64_to_x64.py, loads, stores and barriers as several          *)
(* processors run their translations: LDAR and STLR become plain loads and *)
(* stores, DMB becomes nothing, DSB becomes mfence.  Each host processor   *)
(* executes its program in order and keeps its stores in a buffer that     *)
(* empties oldest first; a load looks in its own buffer before memory.     *)
(***************************************************************************)
EXTENDS MemoryOps

VARIABLES prog,  \* the guest program of every processor
          mem,   \* memory
          pc,    \* the next instruction of each processor
          buf,   \* the stores in each processor's buffer, by position
          got    \* what each load has read

vars == <<prog, mem, pc, buf, got>>
-----------------------------------------------------------------------------
Init == /\ prog \in Programs
        /\ mem = [a \in Addrs |-> Zero]
        /\ pc = [p \in Procs |-> 1]
        /\ buf = [p \in Procs |-> {}]
        /\ got = [p \in Procs |-> [k \in Pos(prog[p]) |-> Zero]]

\* The instruction processor p is at, and going on to the next.
At(p, kinds) == pc[p] \in Pos(prog[p]) /\ prog[p][pc[p]].kind \in kinds
Advance(p) == pc' = [pc EXCEPT ![p] = @ + 1] /\ UNCHANGED prog

\* LDR and LDAR: "x86 loads are already acquire".
Ldr(p) ==
  /\ At(p, {"ldr", "ldar"})
  /\ got' = [got EXCEPT ![p][pc[p]] =
               Reads(p, prog[p], buf[p], pc[p], mem[prog[p][pc[p]].addr])]
  /\ Advance(p)
  /\ UNCHANGED <<mem, buf>>

\* Mutant of Str: the load bit of LDAR is not looked at.
StrOfLdar(p) == /\ At(p, {"str", "stlr", "ldar"})
                /\ buf' = [buf EXCEPT ![p] = @ \cup {pc[p]}]
                /\ Advance(p)
                /\ UNCHANGED <<mem, got>>

\* STR and STLR: "x86 stores are already release".
Str(p) == /\ At(p, {"str", "stlr"})
          /\ buf' = [buf EXCEPT ![p] = @ \cup {pc[p]}]
          /\ Advance(p)
          /\ UNCHANGED <<mem, got>>

\* DMB: "no-op (x86 is strongly ordered)".
Dmb(p) == At(p, {"dmb"}) /\ Advance(p) /\ UNCHANGED <<mem, buf, got>>

\* Mutant of Dsb: translated to nothing, like DMB.
DsbNoop(p) == At(p, {"dsb"}) /\ Advance(p) /\ UNCHANGED <<mem, buf, got>>

\* DSB: mfence waits until the buffer is empty.
Dsb(p) == /\ At(p, {"dsb"})
          /\ buf[p] = {}
          /\ Advance(p)
          /\ UNCHANGED <<mem, buf, got>>

\* The oldest store in the buffer reaches memory.
Drain(p, k) ==
  /\ k \in buf[p] /\ \A j \in buf[p] : k <= j
  /\ mem' = [mem EXCEPT ![prog[p][k].addr] = Written(p, k)]
  /\ buf' = [buf EXCEPT ![p] = @ \ {k}]
  /\ UNCHANGED <<prog, pc, got>>

Next == \E p \in Procs : \/ Ldr(p) \/ Str(p) \/ Dmb(p) \/ Dsb(p)
                         \/ \E k \in Pos(prog[p]) : Drain(p, k)

Spec == Init /\ [][Next]_vars
-----------------------------------------------------------------------------
(***************************************************************************)
(* An access is performed when it is executed, a store when it has left    *)
(* the buffer.                                                             *)
(***************************************************************************)
Performed(p) == {k \in Pos(prog[p]) : k < pc[p] /\ k \notin buf[p] /\ IsAccess(prog[p][k])}

Guest == INSTANCE GuestOrder WITH done <- [p \in Procs |-> Performed(p)]

\* "the host memory model already provides the ordering they ask for": every
\* execution of the translations is one the guest's memory model allows.
ImplementsGuest == Guest!Spec

\* A store that must be seen before a later load, and no mfence between them:
\* the one order the host does not keep and the translation does not ask for.
Exposed(s) == \E j, k \in Pos(s) : /\ Ordered(s, j, k)
                                   /\ IsStore(s[j]) /\ IsLoad(s[k])
                                   /\ ~Between(s, j, k, {"dsb"})

\* Types, and the buffer as a queue: it holds stores already executed.
TypeOK == /\ prog \in Programs
          /\ mem \in [Addrs -> Value]
          /\ pc \in [Procs -> Nat \ {0}]
          /\ buf \in [Procs -> SUBSET Nat]
          /\ \A p \in Procs : /\ pc[p] <= Len(prog[p]) + 1
                              /\ \A k \in buf[p] : k \in Pos(prog[p]) /\ k < pc[p] /\ IsStore(prog[p][k])
          /\ got = [p \in Procs |-> got[p]]
          /\ \A p \in Procs : got[p] \in [Pos(prog[p]) -> Value]

\* "x86 is strongly ordered": when two processors each store to one address
\* and then, ordered after it, load from the other's, not both loads miss the
\* other's store.
Crosses(p, j, k, q, m, n) ==
  /\ IsStore(prog[p][j]) /\ IsLoad(prog[p][k]) /\ Ordered(prog[p], j, k)
  /\ IsStore(prog[q][m]) /\ IsLoad(prog[q][n]) /\ Ordered(prog[q], m, n)
  /\ prog[p][j].addr = prog[q][n].addr /\ prog[q][m].addr = prog[p][k].addr

NotBothMiss ==
  \A p, q \in Procs : p # q =>
    \A k \in Performed(p), n \in Performed(q) : \A j \in 1..k, m \in 1..n :
      Crosses(p, j, k, q, m, n) => got[p][k] # Zero \/ got[q][n] # Zero
=============================================================================
