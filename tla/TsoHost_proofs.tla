--------------------------- MODULE TsoHost_proofs ---------------------------
(***************************************************************************)
(* For any processors, addresses and programs: the types, and that the     *)
(* translations implement the guest's memory model when no program has a   *)
(* store that must be seen before a later load without a DSB between them. *)
(***************************************************************************)
EXTENDS TsoHost, WellFoundedInduction, TLAPS

\* A store still in the buffer has no DSB between it and the next instruction.
FenceInv == \A p \in Procs : \A k \in buf[p] : ~Between(prog[p], k, pc[p], {"dsb"})

IInv == TypeOK /\ FenceInv

\* No program needs the order that is not kept.
NoneExposed == \A P \in Programs : \A p \in Procs : ~Exposed(P[p])
-----------------------------------------------------------------------------
\* The positions of a program are 1 to its length, and name operations.
LEMMA Positions ==
  ASSUME TypeOK, NEW p \in Procs
  PROVE  /\ Pos(prog[p]) = 1..Len(prog[p])
         /\ Len(prog[p]) \in Nat
         /\ \A k \in Pos(prog[p]) : prog[p][k] \in Op
<1>1. prog[p] \in Seq(Op)
  BY ProgramsAssumption DEF TypeOK
<1> QED
  BY <1>1 DEF Pos

\* A set of naturals below a bound has a greatest element.
LEMMA Greatest ==
  ASSUME NEW F \in SUBSET Nat, F # {}, NEW m \in Nat, \A i \in F : i < m
  PROVE  \E j \in F : \A i \in F : i <= j
<1> DEFINE T == {n \in Nat : \A i \in F : i <= n}
<1>1. m \in T
  OBVIOUS
<1> DEFINE R == OpToRel(<, Nat)
<1>5. \A a, b \in Nat : a < b => <<a, b>> \in R
  BY DEF OpToRel
<1>6. IsWellFoundedOn(R, Nat)
  BY NatLessThanWellFounded
<1>7. T \subseteq Nat /\ T # {}
  BY <1>1
<1>8. \E n \in T : \A t \in T : <<t, n>> \notin R
  <2> HIDE DEF R, T
  <2> QED
    BY <1>6, <1>7, WFMin
<1>2. PICK n \in T : \A t \in T : n <= t
  <2>1. PICK n \in T : \A t \in T : <<t, n>> \notin R
    BY <1>8
  <2>2. \A t \in T : ~(t < n)
    <3> HIDE DEF R
    <3> QED
      BY <1>5, <1>7, <2>1
  <2> HIDE DEF R
  <2> QED
    BY <1>7, <2>1, <2>2
<1>3. CASE n \in F
  BY <1>3
<1>4. CASE n \notin F
  <2>1. PICK i \in F : TRUE
    OBVIOUS
  <2>2. \A e \in F : e < n
    BY <1>4
  <2>3. n - 1 \in Nat
    BY <2>1, <2>2
  <2>4. n - 1 \in T
    BY <2>2, <2>3
  <2> QED
    BY <1>2, <2>3, <2>4
<1> QED
  BY <1>3, <1>4

\* A load reads a value: the one given, or one a store of its own wrote.
LEMMA ReadsValue ==
  ASSUME NEW p \in Procs, NEW s, NEW w \in SUBSET Nat, NEW k \in Nat, NEW v \in Value
  PROVE  Reads(p, s, w, k, v) \in Value
<1>1. CASE Forwards(s, w, k) = {}
  BY <1>1 DEF Reads
<1>2. CASE Forwards(s, w, k) # {}
  <2> DEFINE F == Forwards(s, w, k)
             j == Newest(F)
  <2>1. F \in SUBSET Nat /\ \A i \in F : i < k
    BY DEF Forwards
  <2>2. j \in F
    BY <1>2, <2>1, Greatest DEF Newest
  <2>3. Reads(p, s, w, k, v) = <<p, j>>
    BY <1>2 DEF Reads, Written
  <2>5. j \in Nat
    BY <2>1, <2>2
  <2> HIDE DEF j
  <2>4. <<p, j>> \in Procs \X Nat
    BY <2>5
  <2> QED
    BY <2>3, <2>4 DEF Value
<1> QED
  BY <1>1, <1>2
-----------------------------------------------------------------------------
(***************************************************************************)
(* The invariant.                                                          *)
(***************************************************************************)
LEMMA InitIInv == Init => IInv
<1> SUFFICES ASSUME Init PROVE IInv
  OBVIOUS
<1>1. TypeOK
  <2>1. \A p \in Procs : prog[p] \in Seq(Op)
    BY ProgramsAssumption DEF Init
  <2>2. ASSUME NEW p \in Procs PROVE Len(prog[p]) \in Nat
    <3>1. prog[p] \in Seq(Op)
      BY <2>1
    <3> QED
      BY <3>1
  <2> QED
    BY <2>1, <2>2 DEF Init, TypeOK, Value, Pos
<1>2. FenceInv
  BY DEF Init, FenceInv
<1> QED
  BY <1>1, <1>2 DEF IInv

\* What the next instruction of a processor does to its program counter.
LEMMA Advanced ==
  ASSUME TypeOK, NEW p \in Procs, NEW kinds, At(p, kinds), Advance(p)
  PROVE  /\ pc[p] \in Pos(prog[p]) /\ prog[p][pc[p]].kind \in kinds
         /\ prog[p][pc[p]] \in Op
         /\ prog' = prog
         /\ pc' \in [Procs -> Nat \ {0}]
         /\ pc'[p] = pc[p] + 1
         /\ \A q \in Procs : q # p => pc'[q] = pc[q]
         /\ \A q \in Procs : pc'[q] <= Len(prog[q]) + 1 /\ pc[q] <= pc'[q]
<1>1. pc[p] \in Pos(prog[p]) /\ prog[p][pc[p]].kind \in kinds /\ prog' = prog
  BY DEF At, Advance
<1>2. pc' = [pc EXCEPT ![p] = pc[p] + 1]
  BY DEF Advance
<1>3. pc[p] \in 1..Len(prog[p]) /\ Len(prog[p]) \in Nat /\ prog[p][pc[p]] \in Op
  BY <1>1, Positions
<1>4. pc \in [Procs -> Nat \ {0}] /\ \A q \in Procs : pc[q] <= Len(prog[q]) + 1
  BY DEF TypeOK
<1>5. pc'[p] = pc[p] + 1 /\ \A q \in Procs : q # p => pc'[q] = pc[q]
  BY <1>2, <1>4
<1>6. pc' \in [Procs -> Nat \ {0}]
  BY <1>2, <1>3, <1>4
<1>7. ASSUME NEW q \in Procs
      PROVE  pc'[q] <= Len(prog[q]) + 1 /\ pc[q] <= pc'[q]
  <2>1. CASE q = p
    BY <2>1, <1>3, <1>5
  <2>2. CASE q # p
    BY <2>2, <1>4, <1>5
  <2> QED
    BY <2>1, <2>2
<1> QED
  BY <1>1, <1>3, <1>5, <1>6, <1>7

\* Passing an instruction that is no DSB keeps every buffered store unfenced.
LEMMA FenceKept ==
  ASSUME IInv, NEW p \in Procs, NEW kinds, At(p, kinds), Advance(p), "dsb" \notin kinds,
         NEW q \in Procs, NEW k \in buf[q]
  PROVE  ~Between(prog[q], k, pc'[q], {"dsb"})
<1>1. ~Between(prog[q], k, pc[q], {"dsb"}) /\ TypeOK
  BY DEF IInv, FenceInv
<1>2. Pos(prog[q]) = 1..Len(prog[q]) /\ Len(prog[q]) \in Nat
  BY <1>1, Positions
<1>3. /\ prog[p][pc[p]].kind \in kinds
      /\ pc'[p] = pc[p] + 1
      /\ q # p => pc'[q] = pc[q]
  BY <1>1, Advanced
<1>4. pc[q] \in Nat
  BY <1>1 DEF TypeOK
<1> QED
  BY <1>1, <1>2, <1>3, <1>4 DEF Between

\* The values of a store and of what memory holds.
LEMMA Writes ==
  ASSUME NEW p \in Procs, NEW k \in Nat
  PROVE  Written(p, k) \in Value
  BY DEF Written, Value

LEMMA NextIInv == IInv /\ [Next]_vars => IInv'
<1> SUFFICES ASSUME IInv, [Next]_vars PROVE IInv'
  OBVIOUS
<1> USE DEF IInv
<1>1. ASSUME NEW p \in Procs, Ldr(p) PROVE IInv'
  <2> DEFINE k == pc[p]
  <2>1. At(p, {"ldr", "ldar"}) /\ Advance(p) /\ mem' = mem /\ buf' = buf
    BY <1>1 DEF Ldr
  <2>2. /\ k \in Pos(prog[p]) /\ prog[p][k] \in Op /\ prog' = prog
        /\ pc' \in [Procs -> Nat \ {0}]
        /\ \A q \in Procs : pc'[q] <= Len(prog[q]) + 1 /\ pc[q] <= pc'[q]
    BY <2>1, Advanced
  <2>3. k \in Nat /\ buf[p] \in SUBSET Nat
    BY DEF TypeOK
  <2>4. mem[prog[p][k].addr] \in Value
    BY <2>2 DEF TypeOK, Op
  <2> DEFINE v == Reads(p, prog[p], buf[p], k, mem[prog[p][k].addr])
  <2>5. v \in Value
    BY <2>3, <2>4, ReadsValue
  <2>6. got' = [got EXCEPT ![p][k] = v]
    BY <1>1 DEF Ldr
  <2>7. ASSUME NEW q \in Procs PROVE got'[q] \in [Pos(prog[q]) -> Value]
    <3> HIDE DEF v
    <3>1. got[q] \in [Pos(prog[q]) -> Value]
      BY DEF TypeOK
    <3> QED
      BY <2>5, <2>6, <3>1 DEF TypeOK
  <2>8. ASSUME NEW q \in Procs, NEW j \in buf'[q]
        PROVE  j \in Pos(prog[q]) /\ j < pc'[q] /\ IsStore(prog[q][j])
    <3>1. j \in Nat /\ j \in Pos(prog[q]) /\ j < pc[q] /\ IsStore(prog[q][j])
      BY <2>1 DEF TypeOK
    <3>2. pc[q] \in Nat /\ pc'[q] \in Nat /\ pc[q] <= pc'[q]
      BY <2>2 DEF TypeOK
    <3> QED
      BY <3>1, <3>2
  <2>11. got' = [q \in Procs |-> got'[q]]
    <3> HIDE DEF v
    <3> QED
      BY <2>6 DEF TypeOK
  <2>9. TypeOK'
    <3>1. \A q \in Procs : pc'[q] <= Len(prog[q]) + 1
      BY <2>2
    <3> QED
      BY <2>1, <2>2, <2>7, <2>8, <2>11, <3>1 DEF TypeOK
  <2>10. FenceInv'
    BY <2>1, <2>2, FenceKept DEF FenceInv
  <2> QED
    BY <2>9, <2>10
<1>2. ASSUME NEW p \in Procs, Str(p) PROVE IInv'
  <2> DEFINE k == pc[p]
  <2>1. At(p, {"str", "stlr"}) /\ Advance(p) /\ mem' = mem /\ got' = got
    BY <1>2 DEF Str
  <2>2. /\ k \in Pos(prog[p]) /\ prog[p][k] \in Op /\ prog' = prog
        /\ prog[p][k].kind \in {"str", "stlr"}
        /\ pc' \in [Procs -> Nat \ {0}]
        /\ pc'[p] = k + 1
        /\ \A q \in Procs : pc'[q] <= Len(prog[q]) + 1 /\ pc[q] <= pc'[q]
    BY <2>1, Advanced
  <2>3. k \in Nat /\ buf \in [Procs -> SUBSET Nat]
    BY DEF TypeOK
  <2>4. buf' = [buf EXCEPT ![p] = buf[p] \cup {k}]
    BY <1>2 DEF Str
  <2>5. /\ buf' \in [Procs -> SUBSET Nat]
        /\ buf'[p] = buf[p] \cup {k}
        /\ \A q \in Procs : q # p => buf'[q] = buf[q]
    BY <2>3, <2>4
  <2>6. ASSUME NEW q \in Procs, NEW j \in buf'[q]
        PROVE  j \in Pos(prog[q]) /\ j < pc'[q] /\ IsStore(prog[q][j])
    <3>1. CASE j \in buf[q]
      <4>1. j \in Nat /\ j \in Pos(prog[q]) /\ j < pc[q] /\ IsStore(prog[q][j])
        BY <3>1 DEF TypeOK
      <4>2. pc[q] \in Nat /\ pc'[q] \in Nat /\ pc[q] <= pc'[q]
        BY <2>2 DEF TypeOK
      <4> QED
        BY <4>1, <4>2
    <3>2. CASE j \notin buf[q]
      <4>1. q = p /\ j = k
        BY <2>5, <3>2
      <4> QED
        BY <2>2, <2>3, <4>1 DEF IsStore
    <3> QED
      BY <3>1, <3>2
  <2>7. TypeOK'
    BY <2>1, <2>2, <2>5, <2>6 DEF TypeOK
  <2>8. ASSUME NEW q \in Procs, NEW j \in buf'[q]
        PROVE  ~Between(prog[q], j, pc'[q], {"dsb"})
    <3>1. CASE j \in buf[q]
      BY <2>1, <3>1, FenceKept
    <3>2. CASE j \notin buf[q]
      <4>1. q = p /\ j = k
        BY <2>5, <3>2
      <4>2. Pos(prog[p]) = 1..Len(prog[p]) /\ Len(prog[p]) \in Nat
        BY Positions
      <4> QED
        BY <2>2, <2>3, <4>1, <4>2 DEF Between
    <3> QED
      BY <3>1, <3>2
  <2>9. FenceInv'
    BY <2>2, <2>8 DEF FenceInv
  <2> QED
    BY <2>7, <2>9
<1>3. ASSUME NEW p \in Procs, Dmb(p) \/ Dsb(p) PROVE IInv'
  <2>1. PICK kinds \in {{"dmb"}, {"dsb"}} :
          /\ At(p, kinds) /\ Advance(p)
          /\ "dsb" \in kinds => buf[p] = {}
    BY <1>3 DEF Dmb, Dsb
  <2>2. mem' = mem /\ buf' = buf /\ got' = got
    BY <1>3 DEF Dmb, Dsb
  <2>3. /\ prog' = prog
        /\ pc' \in [Procs -> Nat \ {0}]
        /\ \A q \in Procs : q # p => pc'[q] = pc[q]
        /\ \A q \in Procs : pc'[q] <= Len(prog[q]) + 1 /\ pc[q] <= pc'[q]
    BY <2>1, Advanced
  <2>4. ASSUME NEW q \in Procs, NEW j \in buf'[q]
        PROVE  j \in Pos(prog[q]) /\ j < pc'[q] /\ IsStore(prog[q][j])
    <3>1. j \in Nat /\ j \in Pos(prog[q]) /\ j < pc[q] /\ IsStore(prog[q][j])
      BY <2>2 DEF TypeOK
    <3>2. pc[q] \in Nat /\ pc'[q] \in Nat /\ pc[q] <= pc'[q]
      BY <2>3 DEF TypeOK
    <3> QED
      BY <3>1, <3>2
  <2>5. TypeOK'
    BY <2>2, <2>3, <2>4 DEF TypeOK
  <2>6. ASSUME NEW q \in Procs, NEW j \in buf[q]
        PROVE  ~Between(prog[q], j, pc'[q], {"dsb"})
    <3>1. CASE "dsb" \notin kinds
      BY <2>1, <3>1, FenceKept
    <3>2. CASE "dsb" \in kinds
      BY <2>1, <2>3, <3>2 DEF FenceInv
    <3> QED
      BY <3>1, <3>2
  <2>7. FenceInv'
    BY <2>2, <2>3, <2>6 DEF FenceInv
  <2> QED
    BY <2>5, <2>7
<1>4. ASSUME NEW p \in Procs, NEW k \in Pos(prog[p]), Drain(p, k) PROVE IInv'
  <2>1. prog' = prog /\ pc' = pc /\ got' = got /\ k \in buf[p]
    BY <1>4 DEF Drain
  <2>2. k \in Nat /\ buf \in [Procs -> SUBSET Nat]
    BY <2>1 DEF TypeOK
  <2>3. /\ buf' \in [Procs -> SUBSET Nat]
        /\ \A q \in Procs : buf'[q] \subseteq buf[q]
    BY <1>4, <2>2 DEF Drain
  <2>4. mem' \in [Addrs -> Value]
    <3>1. mem' = [mem EXCEPT ![prog[p][k].addr] = Written(p, k)]
      BY <1>4 DEF Drain
    <3>2. mem \in [Addrs -> Value]
      BY DEF TypeOK
    <3>3. Written(p, k) \in Value
      BY <2>2, Writes
    <3> QED
      BY <3>1, <3>2, <3>3
  <2>5. TypeOK'
    BY <2>1, <2>3, <2>4 DEF TypeOK
  <2>6. FenceInv'
    BY <2>1, <2>3 DEF FenceInv
  <2> QED
    BY <2>5, <2>6
<1>5. CASE UNCHANGED vars
  BY <1>5 DEF vars, TypeOK, FenceInv
<1> QED
  BY <1>1, <1>2, <1>3, <1>4, <1>5 DEF Next

LEMMA IInvCorrect == Spec => []IInv
<1> QED
  BY InitIInv, NextIInv, PTL DEF Spec

(***************************************************************************)
(* The types of the host state, and that a store buffer holds only stores  *)
(* the processor has executed: whatever the programs.                      *)
(***************************************************************************)
THEOREM TsoTypeCorrect == Spec => []TypeOK
<1>1. IInv => TypeOK
  BY DEF IInv
<1> QED
  BY <1>1, IInvCorrect, PTL
-----------------------------------------------------------------------------
(***************************************************************************)
(* The refinement.                                                         *)
(***************************************************************************)
\* An access that is behind the program counter and not performed is a store
\* in the buffer.
LEMMA Pending ==
  ASSUME TypeOK, NEW p \in Procs, NEW j \in Pos(prog[p]) \ Performed(p),
         IsAccess(prog[p][j]), j < pc[p]
  PROVE  j \in buf[p] /\ IsStore(prog[p][j])
  BY DEF TypeOK, Performed

\* What a load may forward is the same for the guest and the host.
LEMMA SameForwards ==
  ASSUME TypeOK, NEW p \in Procs, pc[p] \in Pos(prog[p])
  PROVE  Forwards(prog[p], Pos(prog[p]) \ Performed(p), pc[p])
           = Forwards(prog[p], buf[p], pc[p])
<1>1. \A j \in Pos(prog[p]) \ Performed(p) :
        j < pc[p] /\ IsStore(prog[p][j]) => j \in buf[p]
  BY Pending DEF IsAccess
<1>2. \A j \in buf[p] : j \in Pos(prog[p]) \ Performed(p)
  BY DEF TypeOK, Performed
<1> QED
  BY <1>1, <1>2 DEF Forwards

\* The abstract specification's copies of the shared operators.
LEMMA SameOps ==
  /\ \A s : Guest!Pos(s) = Pos(s)
  /\ \A o : Guest!IsLoad(o) = IsLoad(o) /\ Guest!IsStore(o) = IsStore(o)
  /\ \A s, j, k : Guest!Ordered(s, j, k) = Ordered(s, j, k)
  /\ \A p, s, w, k, v : Guest!Reads(p, s, w, k, v) = Reads(p, s, w, k, v)
  /\ \A p, k : Guest!Written(p, k) = Written(p, k)
  BY DEF Guest!Pos, Pos, Guest!IsLoad, IsLoad, Guest!IsStore, IsStore,
         Guest!Ordered, Ordered, Guest!IsAccess, IsAccess, Guest!Between, Between,
         Guest!Reads, Reads, Guest!Forwards, Forwards, Guest!Written, Written,
         Guest!Newest, Newest

LEMMA InitGuest == Init => Guest!Init
<1> SUFFICES ASSUME Init PROVE Guest!Init
  OBVIOUS
<1>1. ASSUME NEW p \in Procs PROVE Performed(p) = {}
  <2>1. prog[p] \in Seq(Op)
    BY ProgramsAssumption DEF Init
  <2> QED
    BY <2>1 DEF Performed, Pos, Init
<1> QED
  BY <1>1, SameOps DEF Init, Guest!Init

\* The guest's accesses performed after one of processor p's is added.
LEMMA DoneAdds ==
  ASSUME NEW p \in Procs, NEW k,
         Performed(p)' = Performed(p) \cup {k},
         \A q \in Procs : q # p => Performed(q)' = Performed(q)
  PROVE  [q \in Procs |-> Performed(q)']
           = [[q \in Procs |-> Performed(q)] EXCEPT ![p] = @ \cup {k}]
  OBVIOUS

LEMMA NextGuest ==
  ASSUME NoneExposed, IInv, [Next]_vars
  PROVE  [Guest!Next]_<<prog, mem, [p \in Procs |-> Performed(p)], got>>
<1> DEFINE done == [p \in Procs |-> Performed(p)]
<1>0. TypeOK /\ FenceInv
  BY DEF IInv
<1>1. ASSUME NEW p \in Procs, Ldr(p)
      PROVE  Guest!Read(p, pc[p]) /\ pc[p] \in Pos(prog[p])
  <2> DEFINE k == pc[p]
             s == prog[p]
  <2>1. At(p, {"ldr", "ldar"}) /\ Advance(p) /\ mem' = mem /\ buf' = buf
    BY <1>1 DEF Ldr
  <2>2. /\ k \in Pos(s) /\ s[k].kind \in {"ldr", "ldar"} /\ prog' = prog
        /\ pc'[p] = k + 1
        /\ \A q \in Procs : q # p => pc'[q] = pc[q]
    BY <1>0, <2>1, Advanced
  <2>3. k \in Nat /\ Pos(s) = 1..Len(s) /\ Len(s) \in Nat
    BY <1>0, Positions DEF TypeOK
  <2>4. IsLoad(s[k]) /\ k \notin buf[p] /\ k \notin Performed(p)
    BY <1>0, <2>2, <2>3 DEF IsLoad, TypeOK, Performed
  <2>5. Performed(p)' = Performed(p) \cup {k}
    BY <2>1, <2>2, <2>3, <2>4 DEF Performed, IsAccess
  <2>6. \A q \in Procs : q # p => Performed(q)' = Performed(q)
    BY <2>1, <2>2 DEF Performed
  <2>7. ASSUME NEW j \in Pos(s) \ Performed(p), Ordered(s, j, k)
        PROVE  FALSE
    <3>1. IsAccess(s[j]) /\ j < k
      BY <2>7 DEF Ordered
    <3>2. j \in buf[p] /\ IsStore(s[j])
      BY <1>0, <3>1, Pending
    <3>3. ~Between(s, j, k, {"dsb"})
      BY <1>0, <3>2 DEF FenceInv
    <3>4. ~Exposed(s)
      BY <1>0 DEF NoneExposed, TypeOK
    <3> QED
      BY <2>2, <2>4, <2>7, <3>2, <3>3, <3>4 DEF Exposed
  <2>8. Guest!Perform(p, k)
    <3>1. Guest!May(p, k)
      BY <2>2, <2>4, <2>7, SameOps DEF Guest!May
    <3>2. done' = [done EXCEPT ![p] = @ \cup {k}]
      BY <2>5, <2>6, DoneAdds
    <3> QED
      BY <2>2, <3>1, <3>2 DEF Guest!Perform
  <2>9. Reads(p, s, Pos(s) \ Performed(p), k, mem[s[k].addr])
          = Reads(p, s, buf[p], k, mem[s[k].addr])
    <3> DEFINE v == mem[s[k].addr]
    <3>1. Forwards(s, Pos(s) \ Performed(p), k) = Forwards(s, buf[p], k)
      BY <1>0, <2>2, SameForwards
    <3> HIDE DEF k, s, v
    <3>2. Reads(p, s, Pos(s) \ Performed(p), k, v) = Reads(p, s, buf[p], k, v)
      BY <3>1, Zenon DEF Reads
    <3> QED
      BY <3>2 DEF v
  <2> QED
    BY <1>1, <2>1, <2>2, <2>4, <2>8, <2>9, SameOps DEF Guest!Read, Ldr
<1>2. ASSUME NEW p \in Procs, Str(p) PROVE UNCHANGED <<prog, mem, done, got>>
  <2>1. At(p, {"str", "stlr"}) /\ Advance(p) /\ mem' = mem /\ got' = got
    BY <1>2 DEF Str
  <2>2. /\ pc[p] \in Pos(prog[p]) /\ prog' = prog
        /\ pc'[p] = pc[p] + 1
        /\ \A q \in Procs : q # p => pc'[q] = pc[q]
    BY <1>0, <2>1, Advanced
  <2>3. pc[p] \in Nat /\ Pos(prog[p]) = 1..Len(prog[p]) /\ Len(prog[p]) \in Nat
    BY <1>0, Positions DEF TypeOK
  <2>4. /\ buf'[p] = buf[p] \cup {pc[p]}
        /\ \A q \in Procs : q # p => buf'[q] = buf[q]
    BY <1>0, <1>2 DEF TypeOK, Str
  <2>5. Performed(p)' = Performed(p)
    BY <2>2, <2>3, <2>4 DEF Performed
  <2>6. \A q \in Procs : q # p => Performed(q)' = Performed(q)
    BY <2>2, <2>4 DEF Performed
  <2> QED
    BY <2>1, <2>2, <2>5, <2>6
<1>3. ASSUME NEW p \in Procs, Dmb(p) \/ Dsb(p)
      PROVE  UNCHANGED <<prog, mem, done, got>>
  <2>1. /\ At(p, {"dmb", "dsb"}) /\ Advance(p)
        /\ mem' = mem /\ buf' = buf /\ got' = got
    BY <1>3 DEF Dmb, Dsb, At
  <2>2. /\ prog[p][pc[p]].kind \in {"dmb", "dsb"} /\ prog' = prog
        /\ pc'[p] = pc[p] + 1
        /\ \A q \in Procs : q # p => pc'[q] = pc[q]
    BY <1>0, <2>1, Advanced
  <2>3. pc[p] \in Nat /\ Pos(prog[p]) = 1..Len(prog[p]) /\ Len(prog[p]) \in Nat
    BY <1>0, Positions DEF TypeOK
  <2>4. ~IsAccess(prog[p][pc[p]])
    BY <2>2 DEF IsAccess, IsLoad, IsStore
  <2>5. Performed(p)' = Performed(p)
    BY <2>1, <2>2, <2>3, <2>4 DEF Performed
  <2>6. \A q \in Procs : q # p => Performed(q)' = Performed(q)
    BY <2>1, <2>2 DEF Performed
  <2> QED
    BY <2>1, <2>2, <2>5, <2>6
<1>4. ASSUME NEW p \in Procs, NEW k \in Pos(prog[p]), Drain(p, k)
      PROVE  Guest!Write(p, k)
  <2> DEFINE s == prog[p]
  <2>1. /\ prog' = prog /\ pc' = pc /\ got' = got
        /\ k \in buf[p] /\ \A j \in buf[p] : k <= j
        /\ mem' = [mem EXCEPT ![s[k].addr] = Written(p, k)]
    BY <1>4 DEF Drain
  <2>2. /\ buf'[p] = buf[p] \ {k}
        /\ \A q \in Procs : q # p => buf'[q] = buf[q]
    BY <1>0, <1>4 DEF TypeOK, Drain
  <2>3. k \in Nat /\ k < pc[p] /\ IsStore(s[k]) /\ pc[p] \in Nat
    BY <1>0, <2>1 DEF TypeOK
  <2>4. Performed(p)' = Performed(p) \cup {k}
    BY <2>1, <2>2, <2>3 DEF Performed, IsAccess
  <2>5. \A q \in Procs : q # p => Performed(q)' = Performed(q)
    BY <2>1, <2>2 DEF Performed
  <2>6. ASSUME NEW j \in Pos(s) \ Performed(p), Ordered(s, j, k)
        PROVE  FALSE
    <3>1. IsAccess(s[j]) /\ j < k
      BY <2>6 DEF Ordered
    <3>2. j \in Nat
      BY <1>0, Positions
    <3>3. j \in buf[p]
      BY <1>0, <2>3, <3>1, <3>2, Pending
    <3> QED
      BY <2>1, <2>3, <3>1, <3>2, <3>3
  <2>8. k \in Pos(s) /\ k \notin Performed(p)
    BY <2>1 DEF Performed
  <2>7. Guest!Perform(p, k)
    <3>1. Guest!May(p, k)
      BY <2>1, <2>6, <2>8, SameOps DEF Guest!May
    <3>2. done' = [done EXCEPT ![p] = @ \cup {k}]
      BY <2>4, <2>5, DoneAdds
    <3> QED
      BY <2>1, <3>1, <3>2 DEF Guest!Perform
  <2> QED
    BY <2>1, <2>3, <2>7, SameOps DEF Guest!Write
<1>5. CASE UNCHANGED vars
  BY <1>5 DEF vars, Performed
<1> QED
  BY <1>1, <1>2, <1>3, <1>4, <1>5, SameOps DEF Next, Guest!Next

(***************************************************************************)
(* The translations keep the guest's memory order: every execution of      *)
(* programs without an exposed pair is one the guest's model allows.       *)
(***************************************************************************)
THEOREM TsoImplements == ASSUME NoneExposed PROVE Spec => ImplementsGuest
<1>1. Init => Guest!Init
  BY InitGuest
<1>2. IInv /\ [Next]_vars => [Guest!Next]_<<prog, mem, [p \in Procs |-> Performed(p)], got>>
  BY NextGuest
<1> QED
  BY <1>1, <1>2, IInvCorrect, PTL DEF Spec, ImplementsGuest, Guest!Spec
-----------------------------------------------------------------------------
(***************************************************************************)
(* Of two stores and the loads ordered after them, not both loads miss.    *)
(***************************************************************************)
\* Memory holds some store's value wherever a store has been performed.
Stored == \A p \in Procs : \A k \in Performed(p) :
            IsStore(prog[p][k]) => mem[prog[p][k].addr] # Zero

StoreInv == IInv /\ Stored /\ NotBothMiss

\* No store writes what memory holds at the start.
LEMMA WritesNonZero ==
  ASSUME NEW p \in Procs, NEW k \in Nat
  PROVE  Written(p, k) # Zero
  BY ZeroAssumption DEF Written

\* A load reads Zero only where memory holds it.
LEMMA ReadsNonZero ==
  ASSUME NEW p \in Procs, NEW s, NEW w \in SUBSET Nat, NEW k \in Nat, NEW v, v # Zero
  PROVE  Reads(p, s, w, k, v) # Zero
<1> DEFINE F == Forwards(s, w, k)
<1>1. CASE F = {}
  BY <1>1 DEF Reads
<1>2. CASE F # {}
  <2>1. F \in SUBSET Nat /\ \A i \in F : i < k
    BY DEF Forwards
  <2>2. Newest(F) \in F
    BY <1>2, <2>1, Greatest DEF Newest
  <2>3. Newest(F) \in Nat
    BY <2>1, <2>2
  <2>4. Reads(p, s, w, k, v) = Written(p, Newest(F))
    BY <1>2 DEF Reads
  <2> HIDE DEF F
  <2> QED
    BY <2>3, <2>4, WritesNonZero
<1> QED
  BY <1>1, <1>2

\* A store ordered before a load that is not ahead of the program counter has
\* left the buffer by the time the load is executed: a DSB is between them.
LEMMA Drained ==
  ASSUME NoneExposed, IInv, NEW p \in Procs, NEW k \in Pos(prog[p]), k <= pc[p],
         NEW j \in 1..k, IsStore(prog[p][j]), IsLoad(prog[p][k]),
         Ordered(prog[p], j, k)
  PROVE  j \in Performed(p)
<1>1. TypeOK /\ FenceInv
  BY DEF IInv
<1>2. Pos(prog[p]) = 1..Len(prog[p]) /\ Len(prog[p]) \in Nat /\ pc[p] \in Nat
  BY <1>1, Positions DEF TypeOK
<1>3. j \in Pos(prog[p]) /\ j < k
  BY <1>2 DEF Ordered
<1>4. ~Exposed(prog[p])
  BY <1>1 DEF NoneExposed, TypeOK
<1>5. Between(prog[p], j, k, {"dsb"})
  BY <1>3, <1>4 DEF Exposed
<1>6. Between(prog[p], j, pc[p], {"dsb"})
  BY <1>2, <1>5 DEF Between
<1>7. j \notin buf[p]
  BY <1>1, <1>6 DEF FenceInv
<1> QED
  BY <1>2, <1>3, <1>7 DEF Performed, IsAccess

\* What a step adds to the performed accesses of a processor.
LEMMA Adds ==
  ASSUME IInv, NEW p \in Procs
  PROVE  /\ Ldr(p) => /\ Performed(p)' = Performed(p) \cup {pc[p]}
                      /\ IsLoad(prog[p][pc[p]])
                      /\ pc[p] \in Pos(prog[p]) /\ pc[p] \notin Performed(p)
         /\ Str(p) \/ Dmb(p) \/ Dsb(p) => Performed(p)' = Performed(p)
         /\ \A k \in Pos(prog[p]) : Drain(p, k) =>
              /\ Performed(p)' = Performed(p) \cup {k}
              /\ IsStore(prog[p][k])
         /\ Ldr(p) \/ Str(p) \/ Dmb(p) \/ Dsb(p) \/ (\E k \in Pos(prog[p]) : Drain(p, k)) =>
              prog' = prog /\ \A q \in Procs : q # p => Performed(q)' = Performed(q)
<1>0. TypeOK
  BY DEF IInv
<1>a. Pos(prog[p]) = 1..Len(prog[p]) /\ Len(prog[p]) \in Nat /\ pc[p] \in Nat
  BY <1>0, Positions DEF TypeOK
<1>1. ASSUME Ldr(p)
      PROVE  /\ Performed(p)' = Performed(p) \cup {pc[p]}
             /\ IsLoad(prog[p][pc[p]])
             /\ pc[p] \in Pos(prog[p]) /\ pc[p] \notin Performed(p)
             /\ prog' = prog /\ \A q \in Procs : q # p => Performed(q)' = Performed(q)
  <2>1. At(p, {"ldr", "ldar"}) /\ Advance(p) /\ buf' = buf
    BY <1>1 DEF Ldr
  <2>2. /\ pc[p] \in Pos(prog[p]) /\ prog[p][pc[p]].kind \in {"ldr", "ldar"}
        /\ prog' = prog /\ pc'[p] = pc[p] + 1
        /\ \A q \in Procs : q # p => pc'[q] = pc[q]
    BY <1>0, <2>1, Advanced
  <2>3. IsLoad(prog[p][pc[p]]) /\ pc[p] \notin buf[p] /\ pc[p] \notin Performed(p)
    BY <1>0, <1>a, <2>2 DEF IsLoad, TypeOK, Performed
  <2>4. Performed(p)' = Performed(p) \cup {pc[p]}
    BY <1>a, <2>1, <2>2, <2>3 DEF Performed, IsAccess
  <2>5. \A q \in Procs : q # p => Performed(q)' = Performed(q)
    BY <2>1, <2>2 DEF Performed
  <2> QED
    BY <2>2, <2>3, <2>4, <2>5
<1>2. ASSUME Str(p)
      PROVE  /\ Performed(p)' = Performed(p)
             /\ prog' = prog /\ \A q \in Procs : q # p => Performed(q)' = Performed(q)
  <2>1. At(p, {"str", "stlr"}) /\ Advance(p)
    BY <1>2 DEF Str
  <2>2. /\ pc[p] \in Pos(prog[p]) /\ prog' = prog
        /\ pc'[p] = pc[p] + 1
        /\ \A q \in Procs : q # p => pc'[q] = pc[q]
    BY <1>0, <2>1, Advanced
  <2>4. /\ buf'[p] = buf[p] \cup {pc[p]}
        /\ \A q \in Procs : q # p => buf'[q] = buf[q]
    BY <1>0, <1>2 DEF TypeOK, Str
  <2>5. Performed(p)' = Performed(p)
    BY <1>a, <2>2, <2>4 DEF Performed
  <2>6. \A q \in Procs : q # p => Performed(q)' = Performed(q)
    BY <2>2, <2>4 DEF Performed
  <2> QED
    BY <2>2, <2>5, <2>6
<1>3. ASSUME Dmb(p) \/ Dsb(p)
      PROVE  /\ Performed(p)' = Performed(p)
             /\ prog' = prog /\ \A q \in Procs : q # p => Performed(q)' = Performed(q)
  <2>1. At(p, {"dmb", "dsb"}) /\ Advance(p) /\ buf' = buf
    BY <1>3 DEF Dmb, Dsb, At
  <2>2. /\ prog[p][pc[p]].kind \in {"dmb", "dsb"} /\ prog' = prog
        /\ pc'[p] = pc[p] + 1
        /\ \A q \in Procs : q # p => pc'[q] = pc[q]
    BY <1>0, <2>1, Advanced
  <2>4. ~IsAccess(prog[p][pc[p]])
    BY <2>2 DEF IsAccess, IsLoad, IsStore
  <2>5. Performed(p)' = Performed(p)
    BY <1>a, <2>1, <2>2, <2>4 DEF Performed
  <2>6. \A q \in Procs : q # p => Performed(q)' = Performed(q)
    BY <2>1, <2>2 DEF Performed
  <2> QED
    BY <2>2, <2>5, <2>6
<1>4. ASSUME NEW k \in Pos(prog[p]), Drain(p, k)
      PROVE  /\ Performed(p)' = Performed(p) \cup {k}
             /\ IsStore(prog[p][k])
             /\ prog' = prog /\ \A q \in Procs : q # p => Performed(q)' = Performed(q)
  <2>1. prog' = prog /\ pc' = pc /\ k \in buf[p]
    BY <1>4 DEF Drain
  <2>2. /\ buf'[p] = buf[p] \ {k}
        /\ \A q \in Procs : q # p => buf'[q] = buf[q]
    BY <1>0, <1>4 DEF TypeOK, Drain
  <2>3. k < pc[p] /\ IsStore(prog[p][k])
    BY <1>0, <2>1 DEF TypeOK
  <2>4. Performed(p)' = Performed(p) \cup {k}
    BY <2>1, <2>2, <2>3 DEF Performed, IsAccess
  <2>5. \A q \in Procs : q # p => Performed(q)' = Performed(q)
    BY <2>1, <2>2 DEF Performed
  <2> QED
    BY <2>1, <2>3, <2>4, <2>5
<1> QED
  BY <1>1, <1>2, <1>3, <1>4

LEMMA InitStoreInv == Init => StoreInv
<1> SUFFICES ASSUME Init PROVE StoreInv
  OBVIOUS
<1>1. IInv
  BY InitIInv
<1>2. ASSUME NEW p \in Procs PROVE Performed(p) = {}
  <2>1. Pos(prog[p]) = 1..Len(prog[p]) /\ Len(prog[p]) \in Nat
    BY <1>1, Positions DEF IInv
  <2> QED
    BY <2>1 DEF Performed, Init
<1> QED
  BY <1>1, <1>2 DEF StoreInv, Stored, NotBothMiss

\* A step that performs nothing, or a store, leaves both parts true of the
\* loads performed; what it writes to memory is not Zero.
LEMMA KeepsLoads ==
  ASSUME StoreInv, got' = got, prog' = prog,
         \A q \in Procs : \A k \in Performed(q)' :
           k \in Performed(q) \/ IsStore(prog[q][k])
  PROVE  NotBothMiss'
<1>1. ASSUME NEW p \in Procs, NEW q \in Procs, p # q,
             NEW k \in Performed(p)', NEW n \in Performed(q)',
             NEW j \in 1..k, NEW m \in 1..n, Crosses(p, j, k, q, m, n)'
      PROVE  got[p][k] # Zero \/ got[q][n] # Zero
  <2>1. Crosses(p, j, k, q, m, n)
    BY <1>1 DEF Crosses
  <2>2. ~IsStore(prog[p][k]) /\ ~IsStore(prog[q][n])
    BY <2>1 DEF Crosses, IsLoad, IsStore
  <2>3. k \in Performed(p) /\ n \in Performed(q)
    BY <2>2
  <2> QED
    BY <1>1, <2>1, <2>3 DEF StoreInv, NotBothMiss
<1> QED
  BY <1>1 DEF NotBothMiss

LEMMA NextStoreInv ==
  ASSUME NoneExposed, StoreInv, [Next]_vars
  PROVE  StoreInv'
<1>0. IInv /\ TypeOK
  BY DEF StoreInv, IInv
<1>i. IInv'
  BY <1>0, NextIInv
<1>1. ASSUME NEW p \in Procs, Ldr(p) PROVE Stored' /\ NotBothMiss'
  <2> DEFINE k == pc[p]
             v == Reads(p, prog[p], buf[p], k, mem[prog[p][k].addr])
  <2>1. mem' = mem /\ got' = [got EXCEPT ![p][k] = v]
    BY <1>1 DEF Ldr
  <2>2. /\ Performed(p)' = Performed(p) \cup {k} /\ IsLoad(prog[p][k])
        /\ k \in Pos(prog[p]) /\ k \notin Performed(p) /\ prog' = prog
        /\ \A q \in Procs : q # p => Performed(q)' = Performed(q)
    BY <1>0, <1>1, Adds
  <2>3. Stored'
    <3>1. ~IsStore(prog[p][k])
      BY <2>2 DEF IsLoad, IsStore
    <3>2. \A q \in Procs : \A i \in Performed(q)' :
            IsStore(prog[q][i]) => i \in Performed(q)
      BY <2>2, <3>1
    <3> QED
      BY <2>1, <2>2, <3>2 DEF Stored, StoreInv
  <2>4. k \in Nat /\ buf[p] \in SUBSET Nat
    BY <1>0 DEF TypeOK
  <2>5. got'[p][k] = v /\ \A q \in Procs : \A i \in Pos(prog[q]) :
                            <<q, i>> # <<p, k>> => got'[q][i] = got[q][i]
    <3>1. \A q \in Procs : got[q] \in [Pos(prog[q]) -> Value]
      BY <1>0 DEF TypeOK
    <3>2. got = [q \in Procs |-> got[q]]
      BY <1>0 DEF TypeOK
    <3> HIDE DEF v
    <3> QED
      BY <2>1, <2>2, <3>1, <3>2
  \* The other processor's store is in memory when this load is executed.
  <2>6. ASSUME NEW q \in Procs, q # p, NEW n \in Performed(q),
               NEW j \in 1..k, NEW m \in 1..n, Crosses(p, j, k, q, m, n)
        PROVE  got'[p][k] # Zero
    <3>1. n \in Pos(prog[q]) /\ n < pc[q] /\ pc[q] \in Nat /\ n \in Nat
      BY <1>0, Positions DEF Performed, TypeOK
    <3>2. m \in Performed(q)
      BY <1>0, <2>6, <3>1, Drained DEF Crosses
    <3>3. mem[prog[p][k].addr] # Zero
      BY <2>6, <3>2 DEF StoreInv, Stored, Crosses
    <3> QED
      BY <2>4, <2>5, <3>3, ReadsNonZero
  <2>7. ASSUME NEW a \in Procs, NEW b \in Procs, a # b,
               NEW i \in Performed(a)', NEW n \in Performed(b)',
               NEW j \in 1..i, NEW m \in 1..n, Crosses(a, j, i, b, m, n)'
        PROVE  got'[a][i] # Zero \/ got'[b][n] # Zero
    <3>1. Crosses(a, j, i, b, m, n) /\ Crosses(b, m, n, a, j, i)
      BY <2>2, <2>7 DEF Crosses
    <3>2. CASE a = p /\ i = k
      <4>1. n \in Performed(b)
        BY <2>2, <2>7, <3>2
      <4> QED
        BY <2>6, <2>7, <3>1, <3>2, <4>1
    <3>3. CASE b = p /\ n = k
      <4>1. i \in Performed(a)
        BY <2>2, <2>7, <3>3
      <4> QED
        BY <2>6, <2>7, <3>1, <3>3, <4>1
    <3>4. CASE ~(a = p /\ i = k) /\ ~(b = p /\ n = k)
      <4>1. i \in Performed(a) /\ n \in Performed(b)
        BY <2>2, <3>4
      <4>2. i \in Pos(prog[a]) /\ n \in Pos(prog[b])
        BY <4>1 DEF Performed
      <4>3. got'[a][i] = got[a][i] /\ got'[b][n] = got[b][n]
        BY <2>5, <3>4, <4>2
      <4> QED
        BY <2>7, <3>1, <4>1, <4>3 DEF StoreInv, NotBothMiss
    <3> QED
      BY <3>2, <3>3, <3>4
  <2>8. NotBothMiss'
    BY <2>7 DEF NotBothMiss
  <2> QED
    BY <2>3, <2>8
<1>2. ASSUME NEW p \in Procs, Str(p) \/ Dmb(p) \/ Dsb(p)
      PROVE  Stored' /\ NotBothMiss'
  <2>1. mem' = mem /\ got' = got
    BY <1>2 DEF Str, Dmb, Dsb
  <2>2. prog' = prog /\ \A q \in Procs : Performed(q)' = Performed(q)
    BY <1>0, <1>2, Adds
  <2>3. NotBothMiss'
    BY <2>1, <2>2, KeepsLoads
  <2> QED
    BY <2>1, <2>2, <2>3 DEF Stored, StoreInv
<1>3. ASSUME NEW p \in Procs, NEW k \in Pos(prog[p]), Drain(p, k)
      PROVE  Stored' /\ NotBothMiss'
  <2>1. got' = got /\ mem' = [mem EXCEPT ![prog[p][k].addr] = Written(p, k)]
    BY <1>3 DEF Drain
  <2>2. /\ Performed(p)' = Performed(p) \cup {k} /\ IsStore(prog[p][k])
        /\ prog' = prog /\ \A q \in Procs : q # p => Performed(q)' = Performed(q)
    BY <1>0, <1>3, Adds
  <2>3. NotBothMiss'
    BY <2>1, <2>2, KeepsLoads
  <2>4. k \in Nat /\ prog[p][k].addr \in Addrs /\ mem \in [Addrs -> Value]
    BY <1>0, Positions DEF TypeOK, Op
  <2>5. Written(p, k) # Zero
    BY <2>4, WritesNonZero
  <2>6. mem'[prog[p][k].addr] # Zero
    BY <2>1, <2>4, <2>5
  <2>7. \A a \in Addrs : mem[a] # Zero => mem'[a] # Zero
    BY <2>1, <2>4, <2>5
  <2>8. ASSUME NEW q \in Procs, NEW i \in Performed(q)', IsStore(prog[q][i])
        PROVE  mem'[prog[q][i].addr] # Zero
    <3>1. CASE i \in Performed(q)
      <4>1. prog[q][i].addr \in Addrs
        BY <1>0, <3>1, Positions DEF Performed, Op
      <4>2. mem[prog[q][i].addr] # Zero
        BY <2>8, <3>1 DEF StoreInv, Stored
      <4> QED
        BY <2>7, <4>1, <4>2
    <3>2. CASE i \notin Performed(q)
      <4>1. q = p /\ i = k
        BY <2>2, <2>8, <3>2
      <4> QED
        BY <2>6, <4>1
    <3> QED
      BY <3>1, <3>2
  <2> QED
    BY <2>2, <2>3, <2>8 DEF Stored
<1>4. CASE UNCHANGED vars
  <2>1. /\ got' = got /\ mem' = mem /\ prog' = prog
        /\ \A q \in Procs : Performed(q)' = Performed(q)
    BY <1>4 DEF vars, Performed
  <2>2. NotBothMiss'
    BY <2>1, KeepsLoads
  <2>3. Stored'
    <3>1. Stored
      BY DEF StoreInv
    <3>2. ASSUME NEW q \in Procs, NEW k \in Performed(q)', IsStore(prog[q][k])
          PROVE  mem'[prog[q][k].addr] # Zero
      <4>1. k \in Performed(q) /\ IsStore(prog[q][k])
        BY <2>1, <3>2
      <4>2. mem[prog[q][k].addr] # Zero
        BY <3>1, <4>1 DEF Stored
      <4> QED
        BY <2>1, <4>2
    <3> QED
      BY <2>1, <3>2 DEF Stored
  <2> QED
    BY <1>i, <2>2, <2>3 DEF StoreInv
<1> QED
  BY <1>i, <1>1, <1>2, <1>3, <1>4 DEF Next, StoreInv

(***************************************************************************)
(* Two processors that each store to one address and then, ordered after   *)
(* it, load from the other's do not both miss the other's store: for any   *)
(* number of processors, of accesses in between and of other addresses,    *)
(* when every such pair has its DSB.                                       *)
(***************************************************************************)
THEOREM TsoNotBothMiss == ASSUME NoneExposed PROVE Spec => []NotBothMiss
<1>1. StoreInv /\ [Next]_vars => StoreInv'
  BY NextStoreInv
<1>2. StoreInv => NotBothMiss
  BY DEF StoreInv
<1> QED
  BY <1>1, <1>2, InitStoreInv, PTL DEF Spec
=============================================================================
