--------------------------- MODULE A64ToX64_proofs ---------------------------
(***************************************************************************)
(* For every guest register set, word type and arithmetic satisfying the   *)
(* named assumptions: a program made of Safe instructions, translated by   *)
(* a64_to_x64.translate, implements the interpreter arm_model.step.        *)
(***************************************************************************)
EXTENDS A64ToX64, SequenceTheorems, TLAPS

-----------------------------------------------------------------------------
(***************************************************************************)
(* Locations.                                                              *)
(***************************************************************************)
\* hostreg never gives two guest registers one location, nor the scratch
\* register; registers 13 and up are the spilled ones.
LEMMA Homes ==
  /\ \A m, n \in AnyReg : hostreg(m) = hostreg(n) => m = n
  /\ \A n \in AnyReg : hostreg(n) # SCRATCH /\ hostreg(n) \in Locs
  /\ \A n \in AnyReg : hostreg(n)[1] # "imm"
<1>1. AnyReg \subseteq 0..31
  BY GuestAssumption DEF AnyReg, GuestRange
<1>2. \A n \in 0..12 : XREG[n + 1] \in {"rax", "rbx", "rcx", "rdx", "rsi", "rdi",
          "r8", "r9", "r10", "r11", "r12", "r13", "r14"}
  BY DEF XREG
<1>3. \A m, n \in 0..12 : XREG[m + 1] = XREG[n + 1] => m = n
  BY DEF XREG
<1>4. \A n \in 0..31 : hostreg(n) = IF n < 13 THEN <<XREG[n + 1], 0>> ELSE <<"r15", 8 * n>>
  BY DEF hostreg, Reg, Slot, SPILL_BASE
<1>5. \A m, n \in AnyReg : hostreg(m) = hostreg(n) => m = n
  <2> SUFFICES ASSUME NEW m \in AnyReg, NEW n \in AnyReg, hostreg(m) = hostreg(n)
               PROVE  m = n
    OBVIOUS
  <2>1. CASE m < 13 /\ n < 13
    BY <2>1, <1>1, <1>3, <1>4
  <2>2. CASE ~(m < 13) /\ ~(n < 13)
    BY <2>2, <1>1, <1>4
  <2>3. CASE (m < 13) # (n < 13)
    BY <2>3, <1>1, <1>2, <1>4
  <2> QED BY <2>1, <2>2, <2>3
<1>6. \A n \in AnyReg : hostreg(n) # SCRATCH /\ hostreg(n)[1] # "imm"
  BY <1>1, <1>2, <1>4 DEF SCRATCH, Reg
<1>7. \A n \in AnyReg : hostreg(n) \in Locs
  BY DEF Locs
<1> QED BY <1>5, <1>6, <1>7

-----------------------------------------------------------------------------
(***************************************************************************)
(* Flushing.  HostState is the type of host, OpSet that of an emitted      *)
(* instruction.                                                            *)
(***************************************************************************)
HostState == [Locs -> Word]
Sources == Locs \cup {Imm(v) : v \in Word}
OpSet == [op : HostOps, dst : Locs, src : Sources]

\* Running one instruction first and flushing the rest is flushing it all.
LEMMA FlushStep ==
  ASSUME NEW h, NEW S, NEW ops \in Seq(S), ops # <<>>, Len(ops) <= MaxOps
  PROVE  Flush(Exec(h, Head(ops)), Tail(ops)) = Flush(h, ops)
<1> DEFINE t == Tail(ops)
<1>1. /\ Len(t) = Len(ops) - 1 /\ Len(ops) \in 1..5
      /\ \A k \in 1..Len(t) : t[k] = ops[k + 1]
  <2>1. Len(ops) \in Nat /\ Len(ops) # 0 /\ Len(ops) <= 5
    BY LenProperties, EmptySeq DEF MaxOps
  <2>2. Len(t) = Len(ops) - 1 /\ \A k \in 1..Len(t) : t[k] = ops[k + 1]
    BY HeadTailProperties
  <2> QED BY <2>1, <2>2
<1>2. \A g : \A k \in {1, 2, 3, 4} : Apply(g, t, k) = Apply(g, ops, k + 1)
  BY <1>1 DEF Apply
<1>3. \A g : Apply(g, t, 5) = g
  BY <1>1 DEF Apply
<1>4. Apply(h, ops, 1) = Exec(h, Head(ops))
  BY <1>1 DEF Apply
<1> HIDE DEF t
<1>5. \A g : /\ Apply(g, t, 1) = Apply(g, ops, 2) /\ Apply(g, t, 2) = Apply(g, ops, 3)
             /\ Apply(g, t, 3) = Apply(g, ops, 4) /\ Apply(g, t, 4) = Apply(g, ops, 5)
  <2>1. 1 + 1 = 2 /\ 2 + 1 = 3 /\ 3 + 1 = 4 /\ 4 + 1 = 5
    OBVIOUS
  <2> QED BY <1>2, <2>1
<1>6. Flush(Exec(h, Head(ops)), t) = Flush(h, ops)
  BY <1>3, <1>4, <1>5 DEF Flush
<1> QED BY <1>6 DEF t

\* Flushing a concatenation is flushing its parts in order.
LEMMA FlushCat ==
  \A h : \A s, t \in Seq(OpSet) :
    Len(s) + Len(t) <= MaxOps => Flush(h, s \o t) = Flush(Flush(h, s), t)
<1> SUFFICES ASSUME NEW h, NEW s \in Seq(OpSet), NEW t \in Seq(OpSet),
                    Len(s) + Len(t) <= MaxOps
             PROVE  Flush(h, s \o t) = Flush(Flush(h, s), t)
  OBVIOUS
<1> DEFINE u == s \o t
<1>1. /\ Len(s) \in 0..5 /\ Len(t) \in 0..5 /\ Len(s) + Len(t) <= 5
      /\ Len(u) = Len(s) + Len(t)
      /\ \A k \in 1..Len(u) : u[k] = IF k <= Len(s) THEN s[k] ELSE t[k - Len(s)]
  <2>1. Len(s) \in Nat /\ Len(t) \in Nat /\ Len(s) + Len(t) <= 5
    BY LenProperties DEF MaxOps
  <2>2. /\ Len(u) = Len(s) + Len(t)
        /\ \A k \in 1..Len(s) + Len(t) : u[k] = IF k <= Len(s) THEN s[k] ELSE t[k - Len(s)]
    BY ConcatProperties
  <2> HIDE DEF u
  <2>3. Len(s) \in 0..5 /\ Len(t) \in 0..5
    <3>1. \A a, b \in Nat : a + b <= 5 => a \in 0..5 /\ b \in 0..5
      OBVIOUS
    <3> QED BY <2>1, <3>1
  <2>4. \A k \in 1..Len(u) : u[k] = IF k <= Len(s) THEN s[k] ELSE t[k - Len(s)]
    BY <2>2
  <2> QED BY <2>1, <2>2, <2>3, <2>4
<1> HIDE DEF u
<1>2. \A g : \A k \in 1..5 : Apply(g, u, k) =
        IF k <= Len(s) THEN Apply(g, s, k) ELSE Apply(g, t, k - Len(s))
  BY <1>1 DEF Apply
<1>3. \A g : \A k \in 1..5 : /\ k > Len(s) => Apply(g, s, k) = g
                             /\ k > Len(t) => Apply(g, t, k) = g
  BY <1>1 DEF Apply
<1>4. Flush(h, u) = Flush(Flush(h, s), t)
  <2>0. CASE Len(s) = 0
    BY <2>0, <1>1, <1>2, <1>3 DEF Flush
  <2>1. CASE Len(s) = 1
    BY <2>1, <1>1, <1>2, <1>3 DEF Flush
  <2>2. CASE Len(s) = 2
    BY <2>2, <1>1, <1>2, <1>3 DEF Flush
  <2>3. CASE Len(s) = 3
    BY <2>3, <1>1, <1>2, <1>3 DEF Flush
  <2>4. CASE Len(s) = 4
    BY <2>4, <1>1, <1>2, <1>3 DEF Flush
  <2>5. CASE Len(s) = 5
    BY <2>5, <1>1, <1>2, <1>3 DEF Flush
  <2> QED BY <1>1, <2>0, <2>1, <2>2, <2>3, <2>4, <2>5
<1> QED BY <1>4 DEF u

\* Flushing at most two instructions is running them one after the other.
LEMMA FlushShort ==
  \A h, a, b : /\ Flush(h, <<>>) = h
               /\ Flush(h, <<a>>) = Exec(h, a)
               /\ Flush(h, <<a, b>>) = Exec(Exec(h, a), b)
<1> TAKE h, a, b
<1>1. Flush(h, <<>>) = h
  BY DEF Flush, Apply
<1>2. Flush(h, <<a>>) = Exec(h, a)
  BY DEF Flush, Apply
<1>3. Flush(h, <<a, b>>) = Exec(Exec(h, a), b)
  BY DEF Flush, Apply
<1> QED BY <1>1, <1>2, <1>3

-----------------------------------------------------------------------------
(***************************************************************************)
(* What the building blocks of a translation do to the host.               *)
(***************************************************************************)
Homed == Locs \ {SCRATCH}

\* h and g differ at most in d and in the scratch register.
SameBut(g, h, d) == \A l \in Homed \ {d} : g[l] = h[l]

\* The host locations: every operand register has one, and only slots are memory.
LEMMA LocFacts ==
  /\ SCRATCH \in Locs /\ ~is_mem(SCRATCH)
  /\ \A n \in AnyReg : hostreg(n) \in Homed
  /\ Homed \subseteq Locs /\ SCRATCH \notin Homed /\ Locs \subseteq Sources
  /\ \A v \in Word : Imm(v) \in Sources
BY Homes DEF Locs, Homed, SCRATCH, Reg, is_mem, SPILL_BASE, Sources

\* An operand, register, slot or immediate, always has a word as its value.
LEMMA ValFacts ==
  ASSUME NEW h \in HostState
  PROVE  /\ \A l \in Locs : Val(h, l) = h[l] /\ h[l] \in Word
         /\ \A v \in Word : Val(h, Imm(v)) = v
         /\ \A s \in Sources : Val(h, s) \in Word
<1>1. \A l \in Locs : l[1] # "imm"
  BY Homes DEF Locs, SCRATCH, Reg
<1>2. \A l \in Locs : Val(h, l) = h[l] /\ h[l] \in Word
  BY <1>1 DEF HostState, Val
<1>3. \A v \in Word : Val(h, Imm(v)) = v
  BY DEF Val, Imm
<1> QED BY <1>2, <1>3 DEF Sources

\* mov writes its source to its destination and nothing else.
LEMMA ExecMov ==
  ASSUME NEW h \in HostState, NEW d \in Locs, NEW s \in Sources
  PROVE  /\ Exec(h, Op("mov", d, s)) \in HostState
         /\ Exec(h, Op("mov", d, s))[d] = Val(h, s)
         /\ \A l \in Locs \ {d} : Exec(h, Op("mov", d, s))[l] = h[l]
<1>1. Exec(h, Op("mov", d, s)) = [h EXCEPT ![d] = Val(h, s)]
  BY DEF Exec, Op
<1>2. Val(h, s) \in Word
  BY ValFacts
<1> QED BY <1>1, <1>2 DEF HostState

DataOps == X86Ops \ {"mov", "cmp", "div", "idiv"}

\* A data instruction writes its result to its destination and nothing else.
LEMMA ExecData ==
  ASSUME NEW h \in HostState, NEW op \in DataOps, NEW d \in Locs,
         NEW s \in Sources
  PROVE  /\ Exec(h, Op(op, d, s)) \in HostState
         /\ Exec(h, Op(op, d, s))[d] = X86(op, h[d], Val(h, s))
         /\ \A l \in Locs \ {d} : Exec(h, Op(op, d, s))[l] = h[l]
<1>1. Exec(h, Op(op, d, s)) = [h EXCEPT ![d] = X86(op, h[d], Val(h, s))]
  BY DEF Exec, Op, DataOps
<1>2. Val(h, s) \in Word /\ h[d] \in Word
  BY ValFacts
<1>3. X86(op, h[d], Val(h, s)) \in Word
  BY <1>2, X86Assumption DEF DataOps
<1> QED BY <1>1, <1>3 DEF HostState

\* move(d, s) copies s to d and touches nothing else but the scratch register,
\* which it leaves alone unless both are spilled.
LEMMA MoveEffect ==
  ASSUME NEW h \in HostState, NEW d \in Homed, NEW s \in Homed
  PROVE  /\ Flush(h, move(d, s)) \in HostState
         /\ Flush(h, move(d, s))[d] = h[s]
         /\ SameBut(Flush(h, move(d, s)), h, d)
         /\ ~(is_mem(d) /\ is_mem(s)) => Flush(h, move(d, s))[SCRATCH] = h[SCRATCH]
<1>0. SCRATCH \in Locs /\ d \in Locs /\ s \in Locs /\ s \in Sources /\ SCRATCH \in Sources
      /\ d # SCRATCH /\ s # SCRATCH
  BY LocFacts
<1>1. CASE d = s
  BY <1>1, FlushShort DEF move, SameBut
<1>2. CASE d # s /\ is_mem(d) /\ is_mem(s)
  <2> DEFINE g == Exec(h, Op("mov", SCRATCH, s))
             f == Exec(g, Op("mov", d, SCRATCH))
  <2>1. g \in HostState /\ g[SCRATCH] = Val(h, s) /\ \A l \in Locs \ {SCRATCH} : g[l] = h[l]
    BY <1>0, ExecMov
  <2>2. Flush(h, move(d, s)) = f
    <3>1. move(d, s) = <<Op("mov", SCRATCH, s), Op("mov", d, SCRATCH)>>
      BY <1>2 DEF move
    <3>2. \A a, b : Flush(h, <<a, b>>) = Exec(Exec(h, a), b)
      BY FlushShort
    <3> QED BY <3>1, <3>2
  <2> HIDE DEF g
  <2>3. f \in HostState /\ f[d] = Val(g, SCRATCH) /\ \A l \in Locs \ {d} : f[l] = g[l]
    BY <1>0, <2>1, ExecMov
  <2>4. Val(h, s) = h[s] /\ Val(g, SCRATCH) = g[SCRATCH]
    BY <1>0, <2>1, ValFacts
  <2> HIDE DEF f
  <2> QED BY <1>0, <1>2, <2>1, <2>2, <2>3, <2>4 DEF SameBut, Homed
<1>3. CASE d # s /\ ~(is_mem(d) /\ is_mem(s))
  <2> DEFINE f == Exec(h, Op("mov", d, s))
  <2>1. Flush(h, move(d, s)) = f
    BY <1>3, FlushShort DEF move
  <2>2. f \in HostState /\ f[d] = Val(h, s) /\ \A l \in Locs \ {d} : f[l] = h[l]
    BY <1>0, ExecMov
  <2>3. Val(h, s) = h[s]
    BY <1>0, ValFacts
  <2> HIDE DEF f
  <2> QED BY <1>0, <2>1, <2>2, <2>3 DEF SameBut, Homed
<1> QED BY <1>1, <1>2, <1>3

\* move() emits at most two instructions, all of them well-typed movs.
LEMMA MoveShape ==
  ASSUME NEW d \in Locs, NEW s \in Locs
  PROVE  move(d, s) \in Seq(OpSet) /\ Len(move(d, s)) \in 0..2
<1>1. \A e \in Locs, t \in Locs : Op("mov", e, t) \in OpSet
  BY LocFacts DEF OpSet, Op, X86Ops, HostOps
<1>2. SCRATCH \in Locs
  BY LocFacts
<1>3. CASE d = s
  BY <1>3 DEF move
<1>4. CASE d # s /\ is_mem(d) /\ is_mem(s)
  <2>1. move(d, s) = <<Op("mov", SCRATCH, s), Op("mov", d, SCRATCH)>>
    BY <1>4 DEF move
  <2>2. Op("mov", SCRATCH, s) \in OpSet /\ Op("mov", d, SCRATCH) \in OpSet
    BY <1>1, <1>2
  <2> QED BY <2>1, <2>2
<1>5. CASE d # s /\ ~(is_mem(d) /\ is_mem(s))
  <2>1. move(d, s) = <<Op("mov", d, s)>>
    BY <1>5 DEF move
  <2> QED BY <2>1, <1>1
<1> QED BY <1>3, <1>4, <1>5

\* The operations a data form maps to are data instructions of this program.
LEMMA OpFacts ==
  /\ \A fn \in AluFns \cup ShiftFns \cup UnaryFns : x86op[fn] \in DataOps
  /\ "imul" \in DataOps
  /\ \A op \in HostOps, d \in Locs, s \in Sources : Op(op, d, s) \in OpSet
  /\ DataOps \subseteq HostOps /\ "mov" \in HostOps /\ "cmp" \in HostOps
<1>1. \A fn \in AluFns \cup ShiftFns \cup UnaryFns : x86op[fn] \in DataOps
  BY DEF AluFns, ShiftFns, UnaryFns, x86op, DataOps, X86Ops, HostOps
<1>2. \A op \in HostOps, d \in Locs, s \in Sources : Op(op, d, s) \in OpSet
  BY DEF OpSet, Op
<1> QED BY <1>1, <1>2 DEF DataOps, X86Ops, HostOps

\* The shape of Via: s into d, then d op= src, where src is read after the move.
LEMMA MoveOp ==
  ASSUME NEW h \in HostState, NEW d \in Homed, NEW s \in Homed,
         NEW op \in DataOps, NEW src \in Sources
  PROVE  LET ops == move(d, s) \o <<Op(op, d, src)>>
         IN  /\ ops \in Seq(OpSet) /\ Len(ops) \in 1..3
             /\ Flush(h, ops) \in HostState
             /\ Flush(h, ops)[d] = X86(op, h[s], Val(Flush(h, move(d, s)), src))
             /\ SameBut(Flush(h, ops), h, d)
<1> DEFINE mv == move(d, s)
           o == Op(op, d, src)
           g == Flush(h, mv)
<1>0. d \in Locs /\ s \in Locs /\ op \in HostOps
  BY LocFacts, OpFacts
<1>1. mv \in Seq(OpSet) /\ Len(mv) \in 0..2
  BY <1>0, MoveShape
<1>2. o \in OpSet
  BY <1>0, OpFacts
<1>3. g \in HostState /\ g[d] = h[s] /\ SameBut(g, h, d)
  BY MoveEffect
<1>4. /\ Exec(g, o) \in HostState
      /\ Exec(g, o)[d] = X86(op, g[d], Val(g, src))
      /\ \A l \in Locs \ {d} : Exec(g, o)[l] = g[l]
  BY <1>0, <1>3, ExecData
<1> DEFINE one == <<o>>
<1> HIDE DEF mv, o
<1>5. one \in Seq(OpSet) /\ Len(one) = 1
  BY <1>2
<1>8. Flush(g, one) = Exec(g, o)
  BY FlushShort
<1> HIDE DEF one
<1>6. mv \o one \in Seq(OpSet) /\ Len(mv \o one) = Len(mv) + 1
  BY <1>1, <1>5, ConcatProperties
<1>11. \A n \in 0..2 : n + 1 \in 1..3 /\ n + 1 <= MaxOps
  BY DEF MaxOps
<1>7. Flush(h, mv \o one) = Flush(g, one)
  BY <1>1, <1>5, <1>11, FlushCat
<1>9. SameBut(Exec(g, o), h, d)
  BY <1>3, <1>4 DEF SameBut, Homed
<1> HIDE DEF g
<1>10. Len(mv \o one) \in 1..3
  BY <1>1, <1>6, <1>11
<1> QED BY <1>3, <1>4, <1>6, <1>7, <1>8, <1>9, <1>10 DEF mv, o, g, one

\* Combine(op, d, s) leaves X86(op, d, s) in d and touches nothing else but
\* the scratch register.
LEMMA CombineEffect ==
  ASSUME NEW h \in HostState, NEW d \in Homed, NEW s \in Homed, NEW op \in DataOps
  PROVE  /\ Combine(op, d, s) \in Seq(OpSet) /\ Len(Combine(op, d, s)) \in 1..2
         /\ Flush(h, Combine(op, d, s)) \in HostState
         /\ Flush(h, Combine(op, d, s))[d] = X86(op, h[d], h[s])
         /\ SameBut(Flush(h, Combine(op, d, s)), h, d)
<1>0. /\ d \in Locs /\ s \in Locs /\ s \in Sources /\ SCRATCH \in Locs /\ SCRATCH \in Sources
      /\ d # SCRATCH /\ s # SCRATCH
  BY LocFacts
<1>1. CASE is_mem(d) /\ is_mem(s)
  <2> DEFINE a == Op("mov", SCRATCH, s)
             b == Op(op, d, SCRATCH)
             g == Exec(h, a)
             f == Exec(g, b)
  <2>1. g \in HostState /\ g[SCRATCH] = Val(h, s) /\ \A l \in Locs \ {SCRATCH} : g[l] = h[l]
    BY <1>0, ExecMov
  <2>2. a \in OpSet /\ b \in OpSet
    BY <1>0, OpFacts
  <2>3. Combine(op, d, s) = <<a, b>>
    BY <1>1 DEF Combine
  <2> HIDE DEF a, b, g
  <2>4. f \in HostState /\ f[d] = X86(op, g[d], Val(g, SCRATCH))
        /\ \A l \in Locs \ {d} : f[l] = g[l]
    BY <1>0, <2>1, ExecData DEF b
  <2>5. Val(h, s) = h[s] /\ Val(g, SCRATCH) = g[SCRATCH]
    BY <1>0, <2>1, ValFacts
  <2>6. Flush(h, <<a, b>>) = f
    BY FlushShort DEF g
  <2>7. <<a, b>> \in Seq(OpSet) /\ Len(<<a, b>>) \in 1..2
    BY <2>2
  <2> HIDE DEF f
  <2>8. SameBut(f, h, d) /\ g[d] = h[d]
    BY <1>0, <2>1, <2>4 DEF SameBut, Homed
  <2> QED BY <2>1, <2>3, <2>4, <2>5, <2>6, <2>7, <2>8
<1>2. CASE ~(is_mem(d) /\ is_mem(s))
  <2> DEFINE a == Op(op, d, s)
             f == Exec(h, a)
  <2>1. f \in HostState /\ f[d] = X86(op, h[d], Val(h, s)) /\ \A l \in Locs \ {d} : f[l] = h[l]
    BY <1>0, ExecData
  <2>2. a \in OpSet
    BY <1>0, OpFacts
  <2>3. Combine(op, d, s) = <<a>>
    BY <1>2 DEF Combine
  <2> HIDE DEF a
  <2>4. Val(h, s) = h[s]
    BY <1>0, ValFacts
  <2>5. Flush(h, <<a>>) = f
    BY FlushShort
  <2>6. <<a>> \in Seq(OpSet) /\ Len(<<a>>) \in 1..2
    BY <2>2
  <2> HIDE DEF f
  <2>7. SameBut(f, h, d)
    BY <1>0, <2>1 DEF SameBut, Homed
  <2> QED BY <2>1, <2>3, <2>4, <2>5, <2>6, <2>7
<1> QED BY <1>1, <1>2

-----------------------------------------------------------------------------
(***************************************************************************)
(* From an effect on the host to an oracle step.                           *)
(***************************************************************************)
\* The fields of an instruction and where its registers live.
LEMMA Fields ==
  ASSUME NEW i \in Instrs
  PROVE  /\ i.rd \in AnyReg /\ i.rn \in AnyReg /\ i.rm \in AnyReg /\ i.ra \in AnyReg
         /\ i.imm \in Word /\ i.amt \in Word /\ i.sh \in ShiftFns
         /\ i.form \in Forms /\ i.fn \in FnsOf(i.form)
         /\ D(i) \in Homed /\ N(i) \in Homed /\ M(i) \in Homed /\ A(i) \in Homed
<1>1. i \in Instr /\ i.fn \in FnsOf(i.form)
  BY InstrAssumption
<1>2. i.rd \in AnyReg /\ i.rn \in AnyReg /\ i.rm \in AnyReg /\ i.ra \in AnyReg
  BY <1>1 DEF Instr
<1> QED BY <1>1, <1>2, LocFacts DEF Instr, D, N, M, A

\* Reading a guest register through the view is reading its host location.
LEMMA GetView ==
  ASSUME NEW h \in HostState, NEW r \in AnyReg, r # 31
  PROVE  Get(View(h), r) = h[hostreg(r)]
BY DEF AnyReg, Get, View

\* Only rd changes, and it gets the oracle's result.
LEMMA Writes ==
  ASSUME NEW h \in HostState, NEW g \in HostState, NEW i \in Instrs, i.rd # 31,
         SameBut(g, h, D(i)), g[D(i)] = Result(View(h), i)
  PROVE  View(g) = Step(View(h), i)
<1>1. i.rd \in Guest
  BY Fields DEF AnyReg
<1>2. \A r \in Guest : g[hostreg(r)] = IF r = i.rd THEN Result(View(h), i) ELSE h[hostreg(r)]
  <2> TAKE r \in Guest
  <2>1. CASE r = i.rd
    BY <2>1 DEF D
  <2>2. CASE r # i.rd
    <3>1. r \in AnyReg /\ i.rd \in AnyReg
      BY <1>1 DEF AnyReg
    <3>2. hostreg(r) # hostreg(i.rd) /\ hostreg(r) \in Homed
      BY <2>2, <3>1, Homes, LocFacts
    <3> QED BY <2>2, <3>2 DEF SameBut, D
  <2> QED BY <2>1, <2>2
<1>3. Step(View(h), i) = [View(h) EXCEPT ![i.rd] = Result(View(h), i)]
  BY DEF Step, Put
<1> HIDE DEF Result
<1> QED BY <1>1, <1>2, <1>3 DEF View

\* No guest register changes, and the oracle writes nothing new either.
LEMMA Keeps ==
  ASSUME NEW h \in HostState, NEW g \in HostState, NEW i \in Instrs,
         \A r \in Guest : g[hostreg(r)] = h[hostreg(r)],
         i.rd = 31 \/ Result(View(h), i) = Get(View(h), i.rd)
  PROVE  View(g) = Step(View(h), i)
<1>1. View(g) = View(h)
  BY DEF View
<1>2. CASE i.rd = 31
  BY <1>1, <1>2 DEF Step, Put
<1>3. CASE i.rd # 31 /\ Result(View(h), i) = Get(View(h), i.rd)
  <2>1. i.rd \in Guest
    BY <1>3, Fields DEF AnyReg
  <2>2. Step(View(h), i) = [View(h) EXCEPT ![i.rd] = View(h)[i.rd]]
    BY <1>3 DEF Step, Put, Get
  <2>3. [View(h) EXCEPT ![i.rd] = View(h)[i.rd]] = View(h)
    BY <2>1 DEF View
  <2> QED BY <1>1, <2>2, <2>3
<1> QED BY <1>2, <1>3

-----------------------------------------------------------------------------
(***************************************************************************)
(* Each form, when Safe, preserves the meaning of the instruction.         *)
(***************************************************************************)
Correct(h, i) == View(Flush(h, Translate(i))) = Step(View(h), i)

\* Via computes op on the old rn, with an operand that survives the move.
LEMMA ViaEffect ==
  ASSUME NEW h \in HostState, NEW i \in Instrs, NEW op \in DataOps, NEW src \in Sources
  PROVE  /\ Via(i, op, src) \in Seq(OpSet) /\ Len(Via(i, op, src)) \in 1..3
         /\ Flush(h, Via(i, op, src)) \in HostState
         /\ Flush(h, Via(i, op, src))[D(i)] =
              X86(op, h[N(i)], Val(Flush(h, move(D(i), N(i))), src))
         /\ SameBut(Flush(h, Via(i, op, src)), h, D(i))
<1>1. D(i) \in Homed /\ N(i) \in Homed
  BY Fields
<1> QED BY <1>1, MoveOp DEF Via

\* The second operand is still there after rn was moved into rd.
LEMMA OperandKept ==
  ASSUME NEW h \in HostState, NEW i \in Instrs, KeepsOperand(i)
  PROVE  Val(Flush(h, move(D(i), N(i))), M(i)) = h[M(i)]
<1> DEFINE g == Flush(h, move(D(i), N(i)))
<1>1. D(i) \in Homed /\ N(i) \in Homed /\ M(i) \in Homed
  BY Fields
<1>2. g \in HostState /\ g[D(i)] = h[N(i)] /\ SameBut(g, h, D(i))
  BY <1>1, MoveEffect
<1>3. Val(g, M(i)) = g[M(i)]
  BY <1>1, <1>2, LocFacts, ValFacts
<1>4. CASE i.rd = i.rn
  BY <1>1, <1>2, <1>3, <1>4 DEF SameBut, D, N
<1>5. CASE i.rd # i.rm
  <2>1. D(i) # M(i)
    BY <1>5, Fields, Homes DEF D, M
  <2> QED BY <2>1, <1>1, <1>2, <1>3 DEF SameBut
<1> QED BY <1>4, <1>5 DEF KeepsOperand

\* AluImm preserves the meaning of safe immediate forms (a64_to_x64.py:353).
LEMMA AluImmCorrect ==
  ASSUME NEW h \in HostState, NEW i \in Instrs, Safe(i), i.form = "alu_imm"
  PROVE  Correct(h, i)
<1>1. /\ i.rd # 31 /\ i.rn # 31 /\ i.sf = 1 /\ i.fn \in AluFns \cup ShiftFns
      /\ i.imm \in Word /\ i.rn \in AnyReg /\ N(i) \in Homed
  BY Fields DEF Safe, SafeForm, FnsOf
<1> DEFINE op == x86op[i.fn]
           src == Imm(i.imm)
           g == Flush(h, Via(i, op, src))
<1>2. op \in DataOps /\ src \in Sources
  BY <1>1, OpFacts, LocFacts
<1>3. Translate(i) = Via(i, op, src)
  BY <1>1 DEF Translate, AluImm
<1>4. Flush(h, move(D(i), N(i))) \in HostState
  BY Fields, MoveEffect
<1>5. Val(Flush(h, move(D(i), N(i))), src) = i.imm
  BY <1>1, <1>4, ValFacts
<1>6. g \in HostState /\ g[D(i)] = X86(op, h[N(i)], i.imm) /\ SameBut(g, h, D(i))
  BY <1>2, <1>5, ViaEffect
<1>7. h[N(i)] \in Word /\ Get(View(h), i.rn) = h[N(i)]
  BY <1>1, LocFacts, ValFacts, GetView DEF N
<1>8. X86(op, h[N(i)], i.imm) = Arm(i.fn, h[N(i)], i.imm)
  BY <1>1, <1>7, X86Assumption
<1>9. Result(View(h), i) = Arm(i.fn, h[N(i)], i.imm)
  BY <1>1, <1>7 DEF Result, Trunc
<1> HIDE DEF g
<1>10. View(g) = Step(View(h), i)
  BY <1>1, <1>6, <1>8, <1>9, Writes
<1> QED BY <1>3, <1>10 DEF Correct, g

\* AluShift preserves the meaning of safe shifted-register forms (407).
LEMMA AluShiftCorrect ==
  ASSUME NEW h \in HostState, NEW i \in Instrs, Safe(i), i.form = "alu_shift"
  PROVE  Correct(h, i)
<1>1. /\ i.rd # 31 /\ i.rn # 31 /\ i.rm # 31 /\ i.sf = 1 /\ i.fn \in AluFns
      /\ i.sh \in ShiftFns /\ i.sh # "asr" /\ i.amt \in Word
      /\ i.rn \in AnyReg /\ i.rm \in AnyReg
      /\ i.rd = i.rn \/ ~(is_mem(D(i)) /\ is_mem(N(i)))
      /\ D(i) \in Homed /\ N(i) \in Homed /\ M(i) \in Homed
  BY Fields DEF Safe, SafeForm, FnsOf
<1>0. /\ SCRATCH \in Locs /\ SCRATCH \in Sources /\ Imm(i.amt) \in Sources
      /\ M(i) \in Locs /\ M(i) \in Sources /\ N(i) \in Locs
      /\ M(i) # SCRATCH /\ N(i) # SCRATCH /\ D(i) # SCRATCH
  BY <1>1, LocFacts
<1> DEFINE op == x86op[i.fn]
           sh == x86op[i.sh]
           a == Op("mov", SCRATCH, M(i))
           b == Op(sh, SCRATCH, Imm(i.amt))
           s == <<a, b>>
           t == Via(i, op, SCRATCH)
           h1 == Exec(h, a)
           h2 == Exec(h1, b)
           g == Flush(h2, t)
<1>2. op \in DataOps /\ sh \in DataOps
  BY <1>1, OpFacts
<1>3. a \in OpSet /\ b \in OpSet
  BY <1>0, <1>2, OpFacts
<1>4. Translate(i) = s \o t
  BY <1>1 DEF Translate, AluShift
<1>5. h1 \in HostState /\ h1[SCRATCH] = Val(h, M(i)) /\ \A l \in Locs \ {SCRATCH} : h1[l] = h[l]
  BY <1>0, ExecMov
<1> HIDE DEF h1, op, sh
<1>6. /\ h2 \in HostState /\ h2[SCRATCH] = X86(sh, h1[SCRATCH], Val(h1, Imm(i.amt)))
      /\ \A l \in Locs \ {SCRATCH} : h2[l] = h1[l]
  BY <1>0, <1>2, <1>5, ExecData
<1>7. Val(h, M(i)) = h[M(i)] /\ Val(h1, Imm(i.amt)) = i.amt /\ h[M(i)] \in Word /\ h[N(i)] \in Word
  BY <1>0, <1>1, <1>5, ValFacts
<1>8. Flush(h, s) = h2
  BY FlushShort DEF h1
<1>9. s \in Seq(OpSet) /\ Len(s) = 2
  BY <1>3
<1> HIDE DEF h2, a, b, s
<1>10. /\ t \in Seq(OpSet) /\ Len(t) \in 1..3 /\ g \in HostState
       /\ g[D(i)] = X86(op, h2[N(i)], Val(Flush(h2, move(D(i), N(i))), SCRATCH))
       /\ SameBut(g, h2, D(i))
  BY <1>0, <1>2, <1>6, ViaEffect
<1> HIDE DEF t
<1>11. Flush(h, s \o t) = g
  <2>1. \A n \in 1..3 : 2 + n <= MaxOps
    BY DEF MaxOps
  <2> QED BY <1>8, <1>9, <1>10, <2>1, FlushCat
<1>12. Val(Flush(h2, move(D(i), N(i))), SCRATCH) = h2[SCRATCH]
  <2> DEFINE f == Flush(h2, move(D(i), N(i)))
  <2>1. f \in HostState /\ f[SCRATCH] = h2[SCRATCH]
    <3>1. CASE i.rd = i.rn
      BY <3>1, <1>6, FlushShort DEF move, D, N
    <3>2. CASE ~(is_mem(D(i)) /\ is_mem(N(i)))
      BY <3>2, <1>1, <1>6, MoveEffect
    <3> QED BY <1>1, <3>1, <3>2
  <2> QED BY <1>0, <2>1, ValFacts
<1>13. h2[SCRATCH] = Shifted(View(h), i)
  <2>1. X86(sh, h[M(i)], i.amt) = Arm(i.sh, h[M(i)], i.amt)
    BY <1>1, <1>7, X86Assumption DEF sh
  <2>2. Get(View(h), i.rm) = h[M(i)]
    BY <1>1, GetView DEF M
  <2> QED BY <1>1, <1>5, <1>6, <1>7, <2>1, <2>2 DEF Shifted, OracleShift
<1>14. Shifted(View(h), i) \in Word
  BY <1>0, <1>6, <1>13, ValFacts
<1>15. h2[N(i)] = h[N(i)] /\ Get(View(h), i.rn) = h[N(i)]
  BY <1>0, <1>1, <1>5, <1>6, GetView DEF N
<1>16. g[D(i)] = Arm(i.fn, h[N(i)], Shifted(View(h), i))
  BY <1>1, <1>7, <1>10, <1>12, <1>13, <1>14, <1>15, X86Assumption DEF op
<1>17. Result(View(h), i) = Arm(i.fn, h[N(i)], Shifted(View(h), i))
  BY <1>1, <1>15 DEF Result, Trunc
<1>18. SameBut(g, h, D(i))
  BY <1>5, <1>6, <1>10 DEF SameBut, Homed
<1> HIDE DEF g
<1>19. View(g) = Step(View(h), i)
  BY <1>1, <1>10, <1>16, <1>17, <1>18, Writes
<1> QED BY <1>4, <1>11, <1>19 DEF Correct

\* MOVZ, MOVN, ADR and ADRP put their constant in rd (376, 385, 615).
LEMMA ConstCorrect ==
  ASSUME NEW h \in HostState, NEW i \in Instrs, Safe(i), i.form \in {"movz", "const"}
  PROVE  Correct(h, i)
<1>1. i.rd # 31 /\ i.sf = 1 /\ i.imm \in Word /\ D(i) \in Homed
  BY Fields DEF Safe, SafeForm
<1>0. /\ SCRATCH \in Locs /\ SCRATCH \in Sources /\ Imm(i.imm) \in Sources
      /\ D(i) \in Locs /\ D(i) # SCRATCH
  BY <1>1, LocFacts
<1>2. Result(View(h), i) = i.imm
  BY <1>1 DEF Result, Trunc
<1>3. CASE i.form = "movz" \/ ~is_mem(D(i))
  <2> DEFINE g == Exec(h, Op("mov", D(i), Imm(i.imm)))
  <2>1. Translate(i) = <<Op("mov", D(i), Imm(i.imm))>>
    BY <1>3 DEF Translate, Movz, Const, moveConst
  <2>2. Flush(h, Translate(i)) = g
    BY <2>1, FlushShort
  <2>3. g \in HostState /\ g[D(i)] = Val(h, Imm(i.imm)) /\ \A l \in Locs \ {D(i)} : g[l] = h[l]
    BY <1>0, ExecMov
  <2>4. Val(h, Imm(i.imm)) = i.imm
    BY <1>1, ValFacts
  <2> HIDE DEF g
  <2>5. View(g) = Step(View(h), i)
    BY <1>1, <1>2, <2>3, <2>4, Writes DEF SameBut, Homed
  <2> QED BY <2>2, <2>5 DEF Correct
<1>4. CASE i.form = "const" /\ is_mem(D(i))
  <2> DEFINE a == Op("mov", SCRATCH, Imm(i.imm))
             b == Op("mov", D(i), SCRATCH)
             f == Exec(h, a)
             g == Exec(f, b)
  <2>1. Translate(i) = <<a, b>>
    BY <1>4 DEF Translate, Const, moveConst
  <2>2. Flush(h, <<a, b>>) = g
    BY FlushShort
  <2>3. f \in HostState /\ f[SCRATCH] = Val(h, Imm(i.imm)) /\ \A l \in Locs \ {SCRATCH} : f[l] = h[l]
    BY <1>0, ExecMov
  <2> HIDE DEF a, f
  <2>4. g \in HostState /\ g[D(i)] = Val(f, SCRATCH) /\ \A l \in Locs \ {D(i)} : g[l] = f[l]
    BY <1>0, <2>3, ExecMov
  <2>5. Val(h, Imm(i.imm)) = i.imm /\ Val(f, SCRATCH) = f[SCRATCH]
    BY <1>0, <1>1, <2>3, ValFacts
  <2> HIDE DEF g, b
  <2>6. SameBut(g, h, D(i))
    BY <2>3, <2>4 DEF SameBut, Homed
  <2>7. View(g) = Step(View(h), i)
    BY <1>1, <1>2, <2>3, <2>4, <2>5, <2>6, Writes
  <2> QED BY <2>1, <2>2, <2>7 DEF Correct
<1> QED BY <1>3, <1>4

\* MOVK keeps the other bits of rd and inserts its own (379).
LEMMA MovkCorrect ==
  ASSUME NEW h \in HostState, NEW i \in Instrs, Safe(i), i.form = "movk"
  PROVE  Correct(h, i)
<1>1. i.rd # 31 /\ i.rd \in AnyReg /\ i.sf = 1 /\ i.imm \in Word /\ i.amt \in Word /\ D(i) \in Homed
  BY Fields DEF Safe, SafeForm
<1>0. /\ Imm(i.imm) \in Sources /\ Imm(i.amt) \in Sources /\ D(i) \in Locs
      /\ {"and", "or"} \subseteq DataOps
  BY <1>1, LocFacts DEF DataOps, X86Ops, HostOps
<1> DEFINE a == Op("and", D(i), Imm(i.amt))
           b == Op("or", D(i), Imm(i.imm))
           f == Exec(h, a)
           g == Exec(f, b)
<1>2. Translate(i) = <<a, b>>
  BY DEF Translate, Movk
<1>3. Flush(h, <<a, b>>) = g
  BY FlushShort
<1>4. f \in HostState /\ f[D(i)] = X86("and", h[D(i)], Val(h, Imm(i.amt)))
      /\ \A l \in Locs \ {D(i)} : f[l] = h[l]
  BY <1>0, ExecData
<1> HIDE DEF a, f
<1>5. g \in HostState /\ g[D(i)] = X86("or", f[D(i)], Val(f, Imm(i.imm)))
      /\ \A l \in Locs \ {D(i)} : g[l] = f[l]
  BY <1>0, <1>4, ExecData
<1> HIDE DEF b, g
<1>6. Val(h, Imm(i.amt)) = i.amt /\ Val(f, Imm(i.imm)) = i.imm /\ h[D(i)] \in Word /\ f[D(i)] \in Word
  BY <1>0, <1>1, <1>4, ValFacts
<1>7. \A u, v \in Word : X86("and", u, v) = Arm("and", u, v) /\ X86("or", u, v) = Arm("orr", u, v)
  <2>1. "and" \in AluFns /\ "orr" \in AluFns /\ x86op["and"] = "and" /\ x86op["orr"] = "or"
    BY DEF AluFns, x86op
  <2> QED BY <2>1, X86Assumption
<1>8. Get(View(h), i.rd) = h[D(i)]
  BY <1>1, GetView DEF D
<1>9. Result(View(h), i) = Arm("orr", Arm("and", h[D(i)], i.amt), i.imm)
  BY <1>1, <1>8 DEF Result, Trunc
<1>10. SameBut(g, h, D(i))
  BY <1>4, <1>5 DEF SameBut, Homed
<1>11. View(g) = Step(View(h), i)
  BY <1>1, <1>4, <1>5, <1>6, <1>7, <1>9, <1>10, Writes
<1> QED BY <1>2, <1>3, <1>11 DEF Correct

\* A comparison changes no host register; neither do the forms that
\* translate to nothing.
LEMMA CmpCorrect ==
  ASSUME NEW h \in HostState, NEW i \in Instrs, NEW a, NEW b,
         i.rd = 31 \/ Result(View(h), i) = Get(View(h), i.rd),
         Translate(i) \in {<<>>, <<Op("cmp", a, b)>>}
  PROVE  Correct(h, i)
<1>1. Exec(h, Op("cmp", a, b)) = h
  BY DEF Exec, Op
<1>2. Flush(h, Translate(i)) = h
  BY <1>1, FlushShort
<1>3. View(h) = Step(View(h), i)
  BY Keeps
<1> QED BY <1>2, <1>3 DEF Correct

\* AluReg preserves the meaning of safe register forms (432).
LEMMA AluRegCorrect ==
  ASSUME NEW h \in HostState, NEW i \in Instrs, Safe(i), i.form = "alu_reg"
  PROVE  Correct(h, i)
<1>1. /\ i.sf = 1 /\ i.fn \in AluFns /\ i.rd \in AnyReg /\ i.rn \in AnyReg /\ i.rm \in AnyReg
      /\ D(i) \in Homed /\ N(i) \in Homed /\ M(i) \in Homed
  BY Fields DEF Safe, FnsOf
<1>0. /\ N(i) \in Locs /\ M(i) \in Locs /\ M(i) \in Sources /\ N(i) \in Sources
      /\ SCRATCH \in Locs /\ SCRATCH \in Sources
  BY <1>1, LocFacts
<1>9. h[N(i)] \in Word /\ h[M(i)] \in Word
  BY <1>0, ValFacts
<1>2. CASE i.rd = 31 /\ i.fn \in {"adds", "subs", "ands"}
  <2>1. Translate(i) = Compare(N(i), M(i))
    BY <1>2 DEF Translate, AluReg
  <2>2. CASE is_mem(N(i)) /\ is_mem(M(i))
    <3> DEFINE a == Op("mov", SCRATCH, N(i))
               b == Op("cmp", SCRATCH, M(i))
               f == Exec(h, a)
    <3>1. Translate(i) = <<a, b>>
      BY <2>1, <2>2 DEF Compare
    <3>2. Flush(h, <<a, b>>) = Exec(f, b)
      BY FlushShort
    <3>3. Exec(f, b) = f
      BY DEF Exec, Op
    <3>4. f \in HostState /\ \A l \in Locs \ {SCRATCH} : f[l] = h[l]
      BY <1>0, ExecMov
    <3> HIDE DEF f, a, b
    <3>5. \A r \in Guest : f[hostreg(r)] = h[hostreg(r)]
      BY <3>4, LocFacts DEF AnyReg, Homed
    <3>6. View(f) = Step(View(h), i)
      BY <1>2, <3>4, <3>5, Keeps
    <3> QED BY <3>1, <3>2, <3>3, <3>6 DEF Correct
  <2>3. CASE ~(is_mem(N(i)) /\ is_mem(M(i)))
    <3>1. Translate(i) = <<Op("cmp", N(i), M(i))>>
      BY <2>1, <2>3 DEF Compare
    <3> QED BY <1>2, <3>1, CmpCorrect
  <2> QED BY <2>2, <2>3
<1>3. CASE i.rd # 31 /\ i.fn = "orr" /\ i.rn = 31 /\ i.rm # 31
  <2> DEFINE g == Flush(h, move(D(i), M(i)))
  <2>1. Translate(i) = move(D(i), M(i))
    BY <1>3 DEF Translate, AluReg
  <2>2. g \in HostState /\ g[D(i)] = h[M(i)] /\ SameBut(g, h, D(i))
    BY <1>1, MoveEffect
  <2>3. Result(View(h), i) = Arm("orr", 0, h[M(i)])
    BY <1>1, <1>3, GetView DEF Result, Trunc, M, Get
  <2>4. Arm("orr", 0, h[M(i)]) = h[M(i)]
    BY <1>9, ArmLaws
  <2> HIDE DEF g
  <2>5. View(g) = Step(View(h), i)
    BY <1>3, <2>2, <2>3, <2>4, Writes
  <2> QED BY <2>1, <2>5 DEF Correct, g
<1>4. CASE 31 \notin {i.rd, i.rn, i.rm} /\ KeepsOperand(i)
  <2> DEFINE op == x86op[i.fn]
             s == move(D(i), N(i))
             t == Combine(op, D(i), M(i))
             f == Flush(h, s)
             g == Flush(f, t)
  <2>1. Translate(i) = s \o t
    BY <1>4 DEF Translate, AluReg
  <2>2. op \in DataOps
    BY <1>1, OpFacts
  <2>3. s \in Seq(OpSet) /\ Len(s) \in 0..2
    BY <1>1, MoveShape, LocFacts
  <2>4. f \in HostState /\ f[D(i)] = h[N(i)] /\ SameBut(f, h, D(i))
    BY <1>1, MoveEffect
  <2>5. f[M(i)] = h[M(i)]
    <3>1. Val(f, M(i)) = h[M(i)]
      BY <1>4, OperandKept
    <3>2. Val(f, M(i)) = f[M(i)]
      BY <1>0, <2>4, ValFacts
    <3> QED BY <3>1, <3>2
  <2> HIDE DEF f, s, op
  <2>6. /\ t \in Seq(OpSet) /\ Len(t) \in 1..2 /\ g \in HostState
        /\ g[D(i)] = X86(op, f[D(i)], f[M(i)]) /\ SameBut(g, f, D(i))
    BY <1>1, <2>2, <2>4, CombineEffect
  <2> HIDE DEF t
  <2>7. Flush(h, s \o t) = g
    <3>1. \A m \in 0..2, n \in 1..2 : m + n <= MaxOps
      BY DEF MaxOps
    <3> QED BY <2>3, <2>6, <3>1, FlushCat DEF f
  <2>8. g[D(i)] = Arm(i.fn, h[N(i)], h[M(i)])
    BY <1>1, <1>9, <2>4, <2>5, <2>6, X86Assumption DEF op
  <2>9. Result(View(h), i) = Arm(i.fn, h[N(i)], h[M(i)])
    BY <1>1, <1>4, GetView DEF Result, Trunc, N, M
  <2>10. SameBut(g, h, D(i))
    BY <2>4, <2>6 DEF SameBut
  <2> HIDE DEF g
  <2>11. View(g) = Step(View(h), i)
    BY <1>4, <2>6, <2>8, <2>9, <2>10, Writes
  <2> QED BY <2>1, <2>7, <2>11 DEF Correct
<1> QED BY <1>2, <1>3, <1>4 DEF Safe, SafeForm

\* CLZ and REV are right when rd has a host register (697).
LEMMA UnaryCorrect ==
  ASSUME NEW h \in HostState, NEW i \in Instrs, Safe(i), i.form = "unary"
  PROVE  Correct(h, i)
<1>1. /\ i.rd # 31 /\ i.rn # 31 /\ i.sf = 1 /\ i.fn \in UnaryFns
      /\ i.rn \in AnyReg /\ D(i) \in Homed /\ N(i) \in Homed
  BY Fields DEF Safe, SafeForm, FnsOf
<1>0. D(i) \in Locs /\ D(i) \in Sources /\ N(i) \in Locs
  BY <1>1, LocFacts
<1> DEFINE op == x86op[i.fn]
           f == Flush(h, move(D(i), N(i)))
           g == Flush(h, Via(i, op, D(i)))
<1>2. op \in DataOps
  BY <1>1, OpFacts
<1>3. Translate(i) = Via(i, op, D(i))
  BY <1>1 DEF Translate, Unary
<1>4. f \in HostState /\ f[D(i)] = h[N(i)]
  BY <1>1, MoveEffect
<1>5. Val(f, D(i)) = h[N(i)] /\ h[N(i)] \in Word
  BY <1>0, <1>4, ValFacts
<1>6. g \in HostState /\ g[D(i)] = X86(op, h[N(i)], Val(f, D(i))) /\ SameBut(g, h, D(i))
  BY <1>0, <1>2, ViaEffect
<1>7. X86(op, h[N(i)], h[N(i)]) = Arm(i.fn, h[N(i)], 0)
  BY <1>1, <1>5, X86Assumption
<1>8. Result(View(h), i) = Arm(i.fn, h[N(i)], 0)
  BY <1>1, GetView DEF Result, Trunc, N
<1> HIDE DEF f, g
<1>9. View(g) = Step(View(h), i)
  BY <1>1, <1>5, <1>6, <1>7, <1>8, Writes
<1> QED BY <1>3, <1>9 DEF Correct, g

\* A variable shift is right when its count already lives in rcx (667).
LEMMA ShiftVCorrect ==
  ASSUME NEW h \in HostState, NEW i \in Instrs, Safe(i), i.form = "shiftv"
  PROVE  Correct(h, i)
<1>1. /\ i.rd \notin {2, 31} /\ i.rn # 31 /\ i.rm = 2 /\ i.sf = 1 /\ i.fn \in ShiftFns
      /\ i.rn \in AnyReg /\ i.rm \in AnyReg /\ D(i) \in Homed /\ N(i) \in Homed /\ M(i) \in Homed
  BY Fields DEF Safe, SafeForm, FnsOf
<1>2. RCX = M(i)
  BY <1>1 DEF RCX, M, hostreg, Reg, XREG
<1>0. RCX \in Locs /\ RCX \in Sources /\ N(i) \in Locs
  BY <1>1, <1>2, LocFacts
<1> DEFINE op == x86op[i.fn]
           a == Op("mov", RCX, M(i))
           s == <<a>>
           t == Via(i, op, RCX)
           f == Exec(h, a)
           g == Flush(f, t)
<1>3. op \in DataOps
  BY <1>1, OpFacts
<1>4. Translate(i) = s \o t
  BY <1>1 DEF Translate, ShiftV
<1>5. f = h
  <2>1. f \in HostState /\ f[RCX] = Val(h, RCX) /\ \A l \in Locs \ {RCX} : f[l] = h[l]
    BY <1>0, <1>2, ExecMov
  <2>2. Val(h, RCX) = h[RCX]
    BY <1>0, ValFacts
  <2> HIDE DEF f
  <2> QED BY <2>1, <2>2 DEF HostState
<1>6. a \in OpSet
  BY <1>0, <1>2, OpFacts
<1>7. s \in Seq(OpSet) /\ Len(s) = 1
  BY <1>6
<1>8. Flush(h, s) = f
  BY FlushShort
<1> HIDE DEF a, s, f, op
<1>9. /\ t \in Seq(OpSet) /\ Len(t) \in 1..3 /\ g \in HostState
      /\ g[D(i)] = X86(op, h[N(i)], Val(Flush(h, move(D(i), N(i))), RCX))
      /\ SameBut(g, h, D(i))
  BY <1>0, <1>3, <1>5, ViaEffect
<1> HIDE DEF t
<1>10. Flush(h, s \o t) = g
  <2>1. \A n \in 1..3 : 1 + n <= MaxOps
    BY DEF MaxOps
  <2> QED BY <1>7, <1>8, <1>9, <2>1, FlushCat
<1>11. Val(Flush(h, move(D(i), N(i))), M(i)) = h[M(i)]
  BY <1>1, OperandKept DEF KeepsOperand
<1>12. h[N(i)] \in Word /\ h[M(i)] \in Word
  BY <1>0, <1>2, ValFacts
<1>13. g[D(i)] = Arm(i.fn, h[N(i)], h[M(i)])
  BY <1>1, <1>2, <1>9, <1>11, <1>12, X86Assumption DEF op
<1>14. Result(View(h), i) = Arm(i.fn, h[N(i)], h[M(i)])
  BY <1>1, GetView DEF Result, Trunc, N, M
<1> HIDE DEF g
<1>15. View(g) = Step(View(h), i)
  BY <1>1, <1>9, <1>13, <1>14, Writes
<1> QED BY <1>4, <1>10, <1>15 DEF Correct

\* MADD and MUL are right when rd has a host register (643).
LEMMA MaddCorrect ==
  ASSUME NEW h \in HostState, NEW i \in Instrs, Safe(i), i.form = "madd"
  PROVE  Correct(h, i)
<1>1. /\ 31 \notin {i.rd, i.rn, i.rm} /\ i.sf = 1 /\ i.fn = "add" /\ i.ra # i.rd /\ KeepsOperand(i)
      /\ i.rd \in AnyReg /\ i.rn \in AnyReg /\ i.rm \in AnyReg /\ i.ra \in AnyReg
      /\ D(i) \in Homed /\ N(i) \in Homed /\ M(i) \in Homed /\ A(i) \in Homed
  BY Fields DEF Safe, SafeForm
<1>0. /\ M(i) \in Sources /\ M(i) \in Locs /\ N(i) \in Locs /\ A(i) \in Locs
      /\ A(i) \in Sources /\ D(i) \in Locs
  BY <1>1, LocFacts
<1> DEFINE s == Via(i, "imul", M(i))
           f == Flush(h, s)
           p == Arm("mul", h[N(i)], h[M(i)])
<1>2. h[N(i)] \in Word /\ h[M(i)] \in Word /\ h[A(i)] \in Word
  BY <1>0, ValFacts
<1>3. Val(Flush(h, move(D(i), N(i))), M(i)) = h[M(i)]
  BY <1>1, OperandKept
<1>4. /\ s \in Seq(OpSet) /\ Len(s) \in 1..3 /\ f \in HostState
      /\ f[D(i)] = X86("imul", h[N(i)], h[M(i)]) /\ SameBut(f, h, D(i))
  BY <1>0, <1>3, OpFacts, ViaEffect
<1>5. f[D(i)] = p
  BY <1>2, <1>4, X86Assumption
<1>6. p \in Word
  BY <1>2, WordAssumption DEF Fns
<1>7. Get(View(h), i.rn) = h[N(i)] /\ Get(View(h), i.rm) = h[M(i)]
  BY <1>1, GetView DEF N, M
<1> HIDE DEF s, f
<1>8. CASE i.ra = 31
  <2>1. Translate(i) = s \o <<>>
    BY <1>1, <1>8 DEF Translate, Madd, s
  <2>2. s \o <<>> = s
    BY <1>4, ConcatEmptySeq
  <2>3. Result(View(h), i) = Arm("add", 0, p)
    BY <1>1, <1>7, <1>8 DEF Result, Trunc, MulAdd, Get
  <2>4. Arm("add", 0, p) = p
    BY <1>6, ArmLaws
  <2>5. View(f) = Step(View(h), i)
    BY <1>1, <1>4, <1>5, <2>3, <2>4, Writes
  <2> QED BY <2>1, <2>2, <2>5 DEF Correct, f
<1>9. CASE i.ra # 31
  <2> DEFINE a == Op("add", D(i), A(i))
             one == <<a>>
             g == Exec(f, a)
  <2>1. Translate(i) = s \o one
    BY <1>1, <1>9 DEF Translate, Madd, s, x86op
  <2>2. "add" \in DataOps /\ "add" \in HostOps
    BY DEF DataOps, X86Ops, HostOps
  <2>3. one \in Seq(OpSet) /\ Len(one) = 1
    BY <1>0, <2>2, OpFacts
  <2>4. Flush(f, one) = g
    BY FlushShort
  <2>5. /\ g \in HostState /\ g[D(i)] = X86("add", f[D(i)], Val(f, A(i)))
        /\ \A l \in Locs \ {D(i)} : g[l] = f[l]
    BY <1>0, <1>4, <2>2, ExecData
  <2> HIDE DEF a, one, g
  <2>6. Flush(h, s \o one) = g
    <3>1. \A n \in 1..3 : n + 1 <= MaxOps
      BY DEF MaxOps
    <3> QED BY <1>4, <2>3, <2>4, <3>1, FlushCat DEF f
  <2>7. f[A(i)] = h[A(i)] /\ Val(f, A(i)) = f[A(i)]
    <3>1. A(i) # D(i)
      BY <1>1, Homes DEF A, D
    <3> QED BY <1>0, <1>1, <1>4, <3>1, ValFacts DEF SameBut
  <2>8. X86("add", p, h[A(i)]) = Arm("add", p, h[A(i)])
    <3>1. "add" \in AluFns /\ x86op["add"] = "add"
      BY DEF AluFns, x86op
    <3> QED BY <1>2, <1>6, <3>1, X86Assumption
  <2>9. Arm("add", p, h[A(i)]) = Arm("add", h[A(i)], p)
    BY <1>2, <1>6, ArmLaws
  <2>10. Result(View(h), i) = Arm("add", h[A(i)], p)
    BY <1>1, <1>7, <1>9, GetView DEF Result, Trunc, MulAdd, A
  <2>11. SameBut(g, h, D(i))
    BY <1>4, <2>5 DEF SameBut, Homed
  <2>12. View(g) = Step(View(h), i)
    BY <1>1, <1>5, <2>5, <2>7, <2>8, <2>9, <2>10, <2>11, Writes
  <2> QED BY <2>1, <2>6, <2>12 DEF Correct
<1> QED BY <1>8, <1>9

\* The forms that leave the guest registers alone.
LEMMA IdleCorrect ==
  ASSUME NEW h \in HostState, NEW i \in Instrs, Safe(i),
         i.form \in {"subs_imm", "pac", "hostcall", "none"}
  PROVE  Correct(h, i)
<1>0. D(i) \in Homed /\ D(i) \in Locs /\ D(i) \in Sources
  BY Fields, LocFacts
<1>1. CASE i.form = "subs_imm"
  <2>1. i.rd = 31 /\ Translate(i) = <<Op("cmp", N(i), Imm(i.imm))>>
    BY <1>1 DEF Safe, SafeForm, Translate, SubsImm
  <2> QED BY <2>1, CmpCorrect
<1>2. CASE i.form = "pac"
  <2>1. Translate(i) = <<>> /\ Result(View(h), i) = Get(View(h), i.rd)
    BY <1>2 DEF Safe, SafeForm, Translate, Pac, Result
  <2> QED BY <2>1, CmpCorrect
<1>3. CASE i.form = "none"
  <2>1. Translate(i) = <<>> /\ Result(View(h), i) = Get(View(h), i.rd)
    BY <1>3 DEF Translate, Result
  <2> QED BY <2>1, CmpCorrect
<1>4. CASE i.form = "hostcall"
  <2> DEFINE g == Exec(h, Op("mov", D(i), D(i)))
  <2>1. Result(View(h), i) = Get(View(h), i.rd)
    BY <1>4 DEF Result
  <2>2. Translate(i) = <<Op("mov", D(i), D(i))>>
    BY <1>4 DEF Safe, SafeForm, Translate, HostCall, RDI, D, hostreg, Reg, XREG
  <2>3. Flush(h, Translate(i)) = g
    BY <2>2, FlushShort
  <2>4. g \in HostState /\ g[D(i)] = Val(h, D(i)) /\ \A l \in Locs \ {D(i)} : g[l] = h[l]
    BY <1>0, ExecMov
  <2>5. Val(h, D(i)) = h[D(i)]
    BY <1>0, ValFacts
  <2> HIDE DEF g
  <2>6. \A r \in Guest : g[hostreg(r)] = h[hostreg(r)]
    BY <2>4, <2>5, LocFacts DEF AnyReg, Homed
  <2>7. View(g) = Step(View(h), i)
    BY <2>1, <2>4, <2>6, Keeps
  <2> QED BY <2>3, <2>7 DEF Correct
<1> QED BY <1>1, <1>2, <1>3, <1>4

\* translate() preserves the meaning of every safe instruction, from every
\* host state.
THEOREM TranslateCorrect ==
  ASSUME NEW h \in HostState, NEW i \in Instrs, Safe(i)
  PROVE  View(Flush(h, Translate(i))) = Step(View(h), i)
<1>1. i.form \in Forms \ {"div", "counter", "svc"}
  BY Fields DEF Safe, SafeForm, Forms
<1>2. Correct(h, i)
  BY <1>1, AluImmCorrect, AluShiftCorrect, ConstCorrect, MovkCorrect, AluRegCorrect,
     UnaryCorrect, ShiftVCorrect, MaddCorrect, IdleCorrect DEF Forms
<1> QED BY <1>2 DEF Correct

-----------------------------------------------------------------------------
(***************************************************************************)
(* Every translation, safe or not, is a well-typed list of at most MaxOps  *)
(* host instructions, and every host instruction is well-typed.            *)
(***************************************************************************)
Listing(s) == s \in Seq(OpSet) /\ Len(s) \in 0..MaxOps

\* For lists built by concatenation.
LEMMA ListCat ==
  ASSUME NEW s \in Seq(OpSet), NEW t \in Seq(OpSet), Len(s) + Len(t) <= MaxOps
  PROVE  Listing(s \o t)
<1>1. s \o t \in Seq(OpSet) /\ Len(s \o t) = Len(s) + Len(t)
  BY ConcatProperties
<1>2. Len(s \o t) \in Nat
  BY <1>1, LenProperties
<1> QED BY <1>1, <1>2 DEF Listing, MaxOps

\* Lists of at most two well-typed instructions are listings.
LEMMA ListShort ==
  ASSUME NEW a \in OpSet, NEW b \in OpSet
  PROVE  Listing(<<>>) /\ Listing(<<a>>) /\ Listing(<<a, b>>)
BY DEF Listing, MaxOps

\* The host registers a fixed-register form names are locations.
LEMMA FixedLocs ==
  ASSUME NEW i \in Instrs
  PROVE  /\ i.form \in {"div", "counter"} => RAX \in Homed /\ RDX \in Homed
         /\ i.form = "shiftv" => RCX \in Homed
         /\ i.form \in {"hostcall", "svc"} => RDI \in Homed
<1>1. FixedRegs(i.form) \subseteq AnyReg
  BY FixedAssumption DEF AnyReg
<1>2. hostreg(0) = RAX /\ hostreg(2) = RCX /\ hostreg(3) = RDX /\ hostreg(5) = RDI
  BY DEF hostreg, Reg, XREG, RAX, RCX, RDX, RDI
<1>3. \A n \in AnyReg : hostreg(n) \in Homed
  BY LocFacts
<1>4. CASE i.form \in {"div", "counter"}
  BY <1>1, <1>2, <1>3, <1>4 DEF FixedRegs
<1>5. CASE i.form = "shiftv"
  BY <1>1, <1>2, <1>3, <1>5 DEF FixedRegs
<1>6. CASE i.form \in {"hostcall", "svc"}
  BY <1>1, <1>2, <1>3, <1>6 DEF FixedRegs
<1> QED BY <1>4, <1>5, <1>6

\* Whatever the instruction, its translation is a listing: well-typed and short.
LEMMA TranslateShape ==
  ASSUME NEW i \in Instrs
  PROVE  Listing(Translate(i))
<1>0. /\ D(i) \in Locs /\ N(i) \in Locs /\ M(i) \in Locs /\ A(i) \in Locs
      /\ SCRATCH \in Locs /\ Locs \subseteq Sources
      /\ \A v \in Word : Imm(v) \in Sources
      /\ i.imm \in Word /\ i.amt \in Word /\ i.sh \in ShiftFns /\ i.fn \in FnsOf(i.form)
      /\ 0 \in Word
  BY Fields, LocFacts, WordAssumption
<1>o. \A op \in HostOps, d \in Locs, t \in Sources : Op(op, d, t) \in OpSet
  BY OpFacts
<1>m. \A d, t \in Locs : move(d, t) \in Seq(OpSet) /\ Len(move(d, t)) \in 0..2
  BY MoveShape
<1>n. /\ \A n \in 0..3 : n \in 0..MaxOps /\ n + 1 <= MaxOps /\ n + 2 <= MaxOps /\ 2 + n <= MaxOps
                          /\ 1 + n <= MaxOps
      /\ \A n \in 0..1 : 4 + n <= MaxOps
      /\ \A m \in 1..3, n \in 0..1 : m + n <= MaxOps
      /\ \A n \in 1..3 : n \in 0..MaxOps /\ 1 + n <= MaxOps /\ 2 + n <= MaxOps
  BY DEF MaxOps
<1>v. ASSUME NEW op \in DataOps, NEW src \in Sources
      PROVE  Via(i, op, src) \in Seq(OpSet) /\ Len(Via(i, op, src)) \in 1..3
            /\ Listing(Via(i, op, src))
  <2>1. \E h \in HostState : TRUE
    <3>1. [l \in Locs |-> 0] \in HostState
      BY WordAssumption DEF HostState
    <3> QED BY <3>1
  <2>2. Via(i, op, src) \in Seq(OpSet) /\ Len(Via(i, op, src)) \in 1..3
    BY <2>1, ViaEffect
  <2> QED BY <2>2, <1>n DEF Listing
<1>f. /\ \A fn \in AluFns \cup ShiftFns \cup UnaryFns : x86op[fn] \in DataOps
      /\ "imul" \in DataOps /\ DataOps \subseteq HostOps
  BY OpFacts
<1>e. Listing(<<>>) /\ \A a \in OpSet : Listing(<<a>>)
  <2>1. Op("mov", SCRATCH, SCRATCH) \in OpSet
    BY <1>0, <1>o DEF X86Ops, HostOps
  <2> QED BY <2>1, ListShort
<1>p. /\ Op("cmp", N(i), Imm(i.imm)) \in OpSet
      /\ Op("mov", D(i), Imm(i.imm)) \in OpSet
  BY <1>0, <1>o DEF X86Ops, HostOps
<1>1. CASE i.form = "alu_imm"
  <2>1. Listing(<<Op("cmp", N(i), Imm(i.imm))>>)
    BY <1>e, <1>p
  <2>2. Listing(Via(i, x86op[i.fn], Imm(i.imm)))
    BY <1>0, <1>1, <1>f, <1>v DEF FnsOf
  <2> QED BY <1>1, <2>1, <2>2 DEF Translate, AluImm
<1>2. CASE i.form = "subs_imm"
  <2>1. Listing(<<Op("cmp", N(i), Imm(i.imm))>>)
    BY <1>e, <1>p
  <2> QED BY <1>2, <2>1 DEF Translate, SubsImm
<1>3. CASE i.form = "movz"
  <2>1. Listing(<<Op("mov", D(i), Imm(i.imm))>>)
    BY <1>e, <1>p
  <2> QED BY <1>3, <2>1 DEF Translate, Movz
<1>4. CASE i.form = "const"
  <2>1. Op("mov", SCRATCH, Imm(i.imm)) \in OpSet /\ Op("mov", D(i), SCRATCH) \in OpSet
        /\ Op("mov", D(i), Imm(i.imm)) \in OpSet
    BY <1>0, <1>o DEF X86Ops, HostOps
  <2>2. Listing(moveConst(D(i), i.imm))
    BY <2>1, ListShort DEF moveConst
  <2> QED BY <1>4, <2>2 DEF Translate, Const
<1>5. CASE i.form = "movk"
  <2>1. Op("and", D(i), Imm(i.amt)) \in OpSet /\ Op("or", D(i), Imm(i.imm)) \in OpSet
    BY <1>0, <1>o DEF X86Ops, HostOps
  <2>2. Listing(Movk(i))
    BY <2>1, ListShort DEF Movk
  <2> QED BY <1>5, <2>2 DEF Translate
<1>6. CASE i.form = "alu_reg"
  <2>1. \A op \in HostOps, d, t \in Locs : Combine(op, d, t) \in Seq(OpSet)
                                        /\ Len(Combine(op, d, t)) \in 1..2
    <3> TAKE op \in HostOps, d, t \in Locs
    <3>1. Op("mov", SCRATCH, t) \in OpSet /\ Op(op, d, SCRATCH) \in OpSet /\ Op(op, d, t) \in OpSet
      BY <1>0, <1>o DEF X86Ops, HostOps
    <3>2. /\ <<Op("mov", SCRATCH, t), Op(op, d, SCRATCH)>> \in Seq(OpSet)
          /\ Len(<<Op("mov", SCRATCH, t), Op(op, d, SCRATCH)>>) = 2
          /\ <<Op(op, d, t)>> \in Seq(OpSet) /\ Len(<<Op(op, d, t)>>) = 1
      BY <3>1
    <3> QED BY <3>2 DEF Combine
  <2>2. Listing(move(D(i), M(i)))
    BY <1>0, <1>m DEF Listing, MaxOps
  <2>3. Listing(Compare(N(i), M(i)))
    <3>1. /\ Op("mov", SCRATCH, N(i)) \in OpSet /\ Op("cmp", SCRATCH, M(i)) \in OpSet
          /\ Op("cmp", N(i), M(i)) \in OpSet
      BY <1>0, <1>o DEF X86Ops, HostOps
    <3> QED BY <3>1, ListShort DEF Compare
  <2>4. Listing(move(D(i), N(i)) \o Combine(x86op[i.fn], D(i), M(i)))
    <3>1. x86op[i.fn] \in HostOps
      BY <1>0, <1>6, <1>f DEF FnsOf
    <3>2. \A a \in 0..2, b \in 1..2 : a + b <= MaxOps
      BY DEF MaxOps
    <3>3. /\ move(D(i), N(i)) \in Seq(OpSet) /\ Len(move(D(i), N(i))) \in 0..2
          /\ Combine(x86op[i.fn], D(i), M(i)) \in Seq(OpSet)
          /\ Len(Combine(x86op[i.fn], D(i), M(i))) \in 1..2
      BY <1>0, <1>m, <2>1, <3>1
    <3> QED BY <3>2, <3>3, ListCat
  <2> QED BY <1>6, <2>2, <2>3, <2>4 DEF Translate, AluReg
<1>7. CASE i.form = "alu_shift"
  <2> DEFINE s == <<Op("mov", SCRATCH, M(i)), Op(x86op[i.sh], SCRATCH, Imm(i.amt))>>
             t == Via(i, x86op[i.fn], SCRATCH)
  <2>1. Op("mov", SCRATCH, M(i)) \in OpSet /\ Op(x86op[i.sh], SCRATCH, Imm(i.amt)) \in OpSet
    BY <1>0, <1>o, <1>f DEF X86Ops, HostOps
  <2>2. s \in Seq(OpSet) /\ Len(s) = 2
    BY <2>1
  <2>3. t \in Seq(OpSet) /\ Len(t) \in 1..3
    BY <1>0, <1>7, <1>f, <1>v DEF FnsOf
  <2>4. Translate(i) = s \o t
    BY <1>7 DEF Translate, AluShift
  <2> HIDE DEF s, t
  <2>5. Len(s) + Len(t) <= MaxOps
    BY <2>2, <2>3, <1>n
  <2> QED BY <2>2, <2>3, <2>4, <2>5, ListCat
<1>8. CASE i.form = "pac"
  <2>1. Listing(move(D(i), N(i)))
    BY <1>0, <1>m DEF Listing, MaxOps
  <2>2. Listing(<<>>)
    BY <1>e
  <2> QED BY <1>8, <2>1, <2>2 DEF Translate, Pac
<1>9. CASE i.form = "madd"
  <2> DEFINE s == Via(i, "imul", M(i))
             t == IF i.ra = 31 THEN <<>> ELSE <<Op(x86op[i.fn], D(i), A(i))>>
  <2>1. s \in Seq(OpSet) /\ Len(s) \in 1..3
    BY <1>0, <1>f, <1>v
  <2>2. t \in Seq(OpSet) /\ Len(t) \in 0..1
    <3>1. Op(x86op[i.fn], D(i), A(i)) \in OpSet
      BY <1>0, <1>9, <1>o, <1>f DEF FnsOf, AluFns
    <3> QED BY <3>1
  <2>3. Translate(i) = s \o t
    BY <1>9 DEF Translate, Madd
  <2> HIDE DEF s, t
  <2>4. Len(s) + Len(t) <= MaxOps
    BY <2>1, <2>2, <1>n
  <2> QED BY <2>1, <2>2, <2>3, <2>4, ListCat
<1>10. CASE i.form = "div"
  <2> DEFINE s == <<Op("mov", RAX, N(i)), Op("mov", RDX, Imm(0)), Op("mov", SCRATCH, M(i)),
                    Op(x86op[i.fn], SCRATCH, SCRATCH)>>
             t == move(D(i), RAX)
  <2>0. RAX \in Locs /\ RDX \in Locs
    BY <1>10, FixedLocs, LocFacts
  <2>a. Len(t) \in 0..1 /\ t \in Seq(OpSet)
    <3>1. ~is_mem(RAX)
      BY DEF is_mem, RAX, Reg, SPILL_BASE
    <3>2. Op("mov", D(i), RAX) \in OpSet
      BY <1>0, <2>0, <1>o DEF X86Ops, HostOps
    <3> QED BY <3>1, <3>2 DEF move
  <2>b. x86op[i.fn] \in HostOps
    BY <1>0, <1>10, FixedAssumption DEF FixedRegs, FnsOf, DivFns, x86op, X86Ops, HostOps
  <2>1. /\ Op("mov", RAX, N(i)) \in OpSet /\ Op("mov", RDX, Imm(0)) \in OpSet
        /\ Op("mov", SCRATCH, M(i)) \in OpSet /\ Op(x86op[i.fn], SCRATCH, SCRATCH) \in OpSet
    BY <1>0, <1>o, <2>0, <2>b DEF X86Ops, HostOps
  <2>2. s \in Seq(OpSet) /\ Len(s) = 4
    BY <2>1
  <2>3. Translate(i) = s \o t
    BY <1>10 DEF Translate, Div
  <2> HIDE DEF s, t
  <2>4. Len(s) + Len(t) <= MaxOps
    BY <2>2, <2>a, <1>n
  <2> QED BY <2>2, <2>a, <2>3, <2>4, ListCat
<1>11. CASE i.form = "shiftv"
  <2> DEFINE s == <<Op("mov", RCX, M(i))>>
             t == Via(i, x86op[i.fn], RCX)
  <2>0. RCX \in Locs
    BY <1>11, FixedLocs, LocFacts
  <2>1. Op("mov", RCX, M(i)) \in OpSet
    BY <1>0, <1>o, <2>0 DEF X86Ops, HostOps
  <2>2. s \in Seq(OpSet) /\ Len(s) = 1
    BY <2>1
  <2>3. t \in Seq(OpSet) /\ Len(t) \in 1..3
    BY <1>0, <1>11, <1>f, <1>v, <2>0 DEF FnsOf
  <2>4. Translate(i) = s \o t
    BY <1>11 DEF Translate, ShiftV
  <2> HIDE DEF s, t
  <2>5. Len(s) + Len(t) <= MaxOps
    BY <2>2, <2>3, <1>n
  <2> QED BY <2>2, <2>3, <2>4, <2>5, ListCat
<1>12. CASE i.form = "unary"
  <2>1. Listing(Via(i, x86op[i.fn], D(i)))
    BY <1>0, <1>12, <1>f, <1>v DEF FnsOf
  <2> QED BY <1>12, <2>1 DEF Translate, Unary
<1>13. CASE i.form = "counter"
  <2> DEFINE s == <<Op("mov", RDX, Imm(X86("hi", i.imm, 0))), Op("mov", RAX, Imm(Lo(i.imm))),
                    Op("shl", RDX, Imm(X86("half", 0, 0))), Op("or", RAX, RDX)>>
             t == move(D(i), RAX)
  <2>0. RAX \in Locs /\ RDX \in Locs
    BY <1>13, FixedLocs, LocFacts
  <2>a. Len(t) \in 0..1 /\ t \in Seq(OpSet)
    <3>1. ~is_mem(RAX)
      BY DEF is_mem, RAX, Reg, SPILL_BASE
    <3>2. Op("mov", D(i), RAX) \in OpSet
      BY <1>0, <2>0, <1>o DEF X86Ops, HostOps
    <3> QED BY <3>1, <3>2 DEF move
  <2>b. X86("hi", i.imm, 0) \in Word /\ Lo(i.imm) \in Word /\ X86("half", 0, 0) \in Word
    BY <1>0, X86Assumption, WordAssumption
  <2>1. /\ Op("mov", RDX, Imm(X86("hi", i.imm, 0))) \in OpSet /\ Op("mov", RAX, Imm(Lo(i.imm))) \in OpSet
        /\ Op("shl", RDX, Imm(X86("half", 0, 0))) \in OpSet /\ Op("or", RAX, RDX) \in OpSet
    BY <1>0, <1>o, <2>0, <2>b DEF X86Ops, HostOps
  <2>2. s \in Seq(OpSet) /\ Len(s) = 4
    BY <2>1
  <2>3. Translate(i) = s \o t
    BY <1>13 DEF Translate, Counter
  <2> HIDE DEF s, t
  <2>4. Len(s) + Len(t) <= MaxOps
    BY <2>2, <2>a, <1>n
  <2> QED BY <2>2, <2>a, <2>3, <2>4, ListCat
<1>14. CASE i.form \in {"hostcall", "svc"}
  <2>1. RDI \in Locs
    BY <1>14, FixedLocs, LocFacts
  <2>2. Op("mov", RDI, D(i)) \in OpSet /\ Op("mov", RDI, Imm(i.imm)) \in OpSet
    BY <1>0, <1>o, <2>1 DEF X86Ops, HostOps
  <2>3. Listing(<<Op("mov", RDI, D(i))>>) /\ Listing(<<Op("mov", RDI, Imm(i.imm))>>)
    BY <2>2, ListShort
  <2> QED BY <1>14, <2>3 DEF Translate, HostCall, Svc
<1>15. CASE i.form = "none"
  <2>1. Translate(i) = <<>>
    BY <1>15 DEF Translate
  <2>2. Listing(<<>>)
    BY <1>e
  <2> QED BY <2>1, <2>2
<1>16. i.form \in Forms
  BY Fields
<1> QED
  BY <1>1, <1>2, <1>3, <1>4, <1>5, <1>6, <1>7, <1>8, <1>9, <1>10, <1>11, <1>12, <1>13, <1>14,
     <1>15, <1>16 DEF Forms

\* A host instruction keeps the host state well-typed.
LEMMA X86Closed ==
  \A op \in X86Ops : \A a, b \in Word : X86(op, a, b) \in Word /\ X86("rem", a, b) \in Word
BY X86Assumption

\* A host instruction keeps the host state well-typed.
LEMMA ExecType ==
  ASSUME NEW h \in HostState, NEW o \in OpSet
  PROVE  Exec(h, o) \in HostState
<1>0. o.op \in HostOps /\ o.op \in X86Ops /\ o.dst \in Locs /\ o.src \in Sources
  BY DEF OpSet, HostOps
<1>1. Val(h, o.src) \in Word /\ h[o.dst] \in Word
  BY <1>0, ValFacts
<1>2. CASE o.op = "mov"
  <2>1. Exec(h, o) = [h EXCEPT ![o.dst] = Val(h, o.src)]
    BY <1>2 DEF Exec
  <2> QED BY <1>0, <1>1, <2>1 DEF HostState
<1>3. CASE o.op = "cmp"
  BY <1>3 DEF Exec
<1>4. CASE o.op \in {"div", "idiv"}
  <2> DEFINE v == Val(h, o.src)
             q == X86(o.op, h[RAX], v)
             m == X86("rem", h[RAX], v)
  <2>1. Exec(h, o) = [[h EXCEPT ![RAX] = q] EXCEPT ![RDX] = m]
    BY <1>4 DEF Exec, Divide
  <2>2. RAX \in Locs /\ RDX \in Locs
    <3>1. {0, 3} \subseteq AnyReg
      BY <1>0, <1>4 DEF HostOps, AnyReg
    <3>2. RAX = hostreg(0) /\ RDX = hostreg(3)
      BY DEF hostreg, Reg, XREG, RAX, RDX
    <3> QED BY <3>1, <3>2, Homes
  <2>3. q \in Word /\ m \in Word
    <3>1. h[RAX] \in Word
      BY <2>2 DEF HostState
    <3>2. \A a, b \in Word : X86(o.op, a, b) \in Word /\ X86("rem", a, b) \in Word
      BY <1>0, X86Closed
    <3> QED BY <1>1, <3>1, <3>2
  <2> QED BY <2>1, <2>2, <2>3 DEF HostState
<1>5. CASE o.op \notin {"mov", "cmp", "div", "idiv"}
  <2>1. Exec(h, o) = [h EXCEPT ![o.dst] = X86(o.op, h[o.dst], Val(h, o.src))]
    BY <1>5 DEF Exec
  <2>2. X86(o.op, h[o.dst], Val(h, o.src)) \in Word
    <3>1. \A a, b \in Word : X86(o.op, a, b) \in Word
      BY <1>0, X86Closed
    <3> QED BY <1>1, <3>1
  <2> QED BY <1>0, <2>1, <2>2 DEF HostState
<1> QED BY <1>2, <1>3, <1>4, <1>5

-----------------------------------------------------------------------------
(***************************************************************************)
(* Theorems about the running program.                                     *)
(***************************************************************************)
\* The invariant the refinement needs: types, and an instruction in progress
\* whenever host instructions are left.
Inv == TypeOK /\ (pend # <<>> => cur # NoInstr)

\* The parts of the type invariant, by the names the proofs use.
LEMMA TypeFacts ==
  ASSUME TypeOK
  PROVE  host \in HostState /\ pend \in Seq(OpSet) /\ Len(pend) <= MaxOps
         /\ cur \in Instrs \cup {NoInstr}
BY DEF TypeOK, HostState, OpSet, Sources

\* The invariant holds when the program starts.
LEMMA InitInv == Init => Inv
BY DEF Init, Inv, TypeOK, MaxOps, HostOps

\* Queueing the next translation keeps the invariant.
LEMMA FetchInv ==
  ASSUME Inv, NEW i \in Instrs, Fetch(i)
  PROVE  Inv'
<1>1. Listing(Translate(i))
  BY TranslateShape
<1>2. i # NoInstr
  BY InstrAssumption
<1>3. pend' = Translate(i) /\ cur' = i /\ host' = host
  BY DEF Fetch
<1>4. pend' \in Seq(OpSet) /\ Len(pend') <= MaxOps
  <2>1. \A n \in 0..MaxOps : n <= MaxOps
    BY DEF MaxOps
  <2> QED BY <1>1, <1>3, <2>1 DEF Listing
<1> QED BY <1>2, <1>3, <1>4 DEF Inv, TypeOK, OpSet, Sources

\* Running one host instruction keeps the invariant.
LEMMA RunOpInv ==
  ASSUME Inv, RunOp
  PROVE  Inv'
<1>1. host \in HostState /\ pend \in Seq(OpSet) /\ Len(pend) <= MaxOps /\ pend # <<>>
  BY TypeFacts DEF Inv, RunOp
<1>2. Head(pend) \in OpSet /\ Tail(pend) \in Seq(OpSet) /\ Len(Tail(pend)) = Len(pend) - 1
  BY <1>1, HeadTailProperties
<1>3. host' \in HostState
  BY <1>1, <1>2, ExecType DEF RunOp
<1>4. Len(Tail(pend)) <= MaxOps
  BY <1>1, <1>2, LenProperties DEF MaxOps
<1>5. pend' = Tail(pend) /\ cur' = cur /\ cur # NoInstr
  BY DEF RunOp, Inv
<1> QED BY <1>2, <1>3, <1>4, <1>5 DEF Inv, TypeOK, HostState, OpSet, Sources

\* Every step of the translated program keeps the invariant.
LEMMA StepInv == Inv /\ [Next]_vars => Inv'
<1> SUFFICES ASSUME Inv, [Next]_vars PROVE Inv'
  OBVIOUS
<1>1. CASE RunOp
  BY <1>1, RunOpInv
<1>2. CASE Retire
  BY <1>2 DEF Retire, Inv, TypeOK
<1>3. ASSUME NEW i \in Instrs, Fetch(i) PROVE Inv'
  BY <1>3, FetchInv
<1>4. CASE UNCHANGED vars
  BY <1>4 DEF vars, Inv, TypeOK
<1> QED BY <1>1, <1>2, <1>3, <1>4 DEF Next

\* The inductive invariant: types, and a translation under way whenever host
\* instructions are left; it is what the refinement needs.
THEOREM InvCorrect == Spec => []Inv
<1> QED BY InitInv, StepInv, PTL DEF Spec

\* Whatever the program, safe or not, the variables keep their types and no
\* translation is longer than MaxOps host instructions.
THEOREM TypeCorrect == Spec => []TypeOK
<1>1. Inv => TypeOK
  BY DEF Inv
<1> QED BY <1>1, InvCorrect, PTL

\* The view of a host state is a guest register file.
LEMMA ViewType ==
  ASSUME NEW h \in HostState
  PROVE  View(h) \in [Guest -> Word]
BY LocFacts DEF View, HostState, AnyReg, Homed

\* The initial states map to initial states of the interpreter.
LEMMA InitOracle == Init => Oracle!Init
<1> SUFFICES ASSUME Init PROVE Oracle!Init
  OBVIOUS
<1>1. host \in HostState /\ Flush(host, pend) = host
  BY FlushShort DEF Init, HostState
<1> QED BY <1>1, ViewType DEF Init, Oracle!Init

\* The copy of the interpreter the refinement instantiates is the same one.
LEMMA OracleStep == \A x, i : Oracle!Step(x, i) = Step(x, i)
BY DEF Step, Put, Result, Get, Trunc, MulAdd, Shifted, OracleShift,
       Oracle!Step, Oracle!Put, Oracle!Result, Oracle!Get, Oracle!Trunc,
       Oracle!MulAdd, Oracle!Shifted, Oracle!OracleShift

\* Every step maps to a step of the interpreter or to a stutter: fetching a safe
\* instruction executes it, retiring retires it, a host instruction stutters.
LEMMA StepOracle ==
  ASSUME \A i \in Instrs : Safe(i), Inv, [Next]_vars
  PROVE  [Oracle!Next]_<<View(Flush(host, pend)), cur>>
<1>0. host \in HostState /\ pend \in Seq(OpSet) /\ Len(pend) <= MaxOps
  BY TypeFacts DEF Inv
<1>1. CASE RunOp
  <2>1. Flush(host', pend') = Flush(host, pend)
    BY <1>0, <1>1, FlushStep DEF RunOp
  <2> QED BY <1>1, <2>1 DEF RunOp
<1>2. CASE Retire
  <2>1. Oracle!Retire
    BY <1>2 DEF Retire, Oracle!Retire
  <2> QED BY <2>1 DEF Oracle!Next
<1>3. ASSUME NEW i \in Instrs, Fetch(i)
      PROVE  Oracle!Execute(i)
  <2>1. pend = <<>> /\ host' = host /\ pend' = Translate(i) /\ cur = NoInstr /\ cur' = i
    BY <1>3 DEF Fetch, Inv
  <2>2. Flush(host, pend) = host
    BY <2>1, FlushShort
  <2>3. View(Flush(host, Translate(i))) = Step(View(host), i)
    BY <1>0, TranslateCorrect
  <2>4. View(Flush(host', pend')) = Step(View(Flush(host, pend)), i)
    BY <2>1, <2>2, <2>3
  <2> QED BY <2>1, <2>4, OracleStep DEF Oracle!Execute
<1>4. CASE UNCHANGED vars
  BY <1>4 DEF vars
<1> QED BY <1>1, <1>2, <1>3, <1>4 DEF Next, Oracle!Next

\* A program made of safe instructions implements the interpreter: its guest
\* registers change as arm_model.step says, whatever the host has run so far.
THEOREM Implements ==
  ASSUME \A i \in Instrs : Safe(i)
  PROVE  Spec => ImplementsOracle
<1>1. Inv /\ [Next]_vars => [Oracle!Next]_<<View(Flush(host, pend)), cur>>
  BY StepOracle
<1> QED BY <1>1, InitOracle, InvCorrect, PTL DEF Spec, ImplementsOracle, Oracle!Spec

-----------------------------------------------------------------------------
(***************************************************************************)
(* Encodability.                                                           *)
(***************************************************************************)
Enc(s) == \A k \in 1..Len(s) : EncodableOp(s[k])

\* A concatenation of encodable lists is encodable.
LEMMA EncCat ==
  ASSUME NEW s \in Seq(OpSet), NEW t \in Seq(OpSet), Enc(s), Enc(t)
  PROVE  Enc(s \o t)
<1>1. /\ Len(s) \in Nat /\ Len(t) \in Nat /\ Len(s \o t) = Len(s) + Len(t)
      /\ \A k \in 1..Len(s) + Len(t) : (s \o t)[k] = IF k <= Len(s) THEN s[k] ELSE t[k - Len(s)]
  BY ConcatProperties, LenProperties
<1> SUFFICES ASSUME NEW k \in 1..Len(s) + Len(t) PROVE EncodableOp((s \o t)[k])
  BY <1>1 DEF Enc
<1>2. CASE k <= Len(s)
  BY <1>1, <1>2 DEF Enc
<1>3. CASE ~(k <= Len(s))
  <2>1. k - Len(s) \in 1..Len(t)
    BY <1>1, <1>3
  <2>2. (s \o t)[k] = t[k - Len(s)]
    BY <1>1, <1>3
  <2> QED BY <2>1, <2>2 DEF Enc
<1> QED BY <1>2, <1>3

\* Encodability of lists of at most two instructions, one by one.
LEMMA EncShort ==
  /\ Enc(<<>>)
  /\ \A a : EncodableOp(a) => Enc(<<a>>)
  /\ \A a, b : EncodableOp(a) /\ EncodableOp(b) => Enc(<<a, b>>)
<1>1. Enc(<<>>)
  BY DEF Enc
<1>2. \A a : EncodableOp(a) => Enc(<<a>>)
  BY DEF Enc
<1>3. \A a, b : EncodableOp(a) /\ EncodableOp(b) => Enc(<<a, b>>)
  BY DEF Enc
<1> QED BY <1>1, <1>2, <1>3

RegisterOps == {"imul", "lzcnt", "bswap"}

\* When an instruction Op(op, d, s) can be encoded.
LEMMA EncOp ==
  \A op, d, s : ~is_mem(d) \/ (~is_mem(s) /\ op \notin RegisterOps)
                => EncodableOp(Op(op, d, s))
BY DEF EncodableOp, Op, RegisterOps

\* Which data operations may have a slot as destination.
LEMMA NotMem ==
  /\ ~is_mem(SCRATCH) /\ ~is_mem(RCX) /\ \A v : ~is_mem(Imm(v))
  /\ \A fn \in AluFns \cup ShiftFns : x86op[fn] \notin RegisterOps
  /\ "mov" \notin RegisterOps /\ "cmp" \notin RegisterOps
  /\ "and" \notin RegisterOps /\ "or" \notin RegisterOps
<1>1. ~is_mem(SCRATCH) /\ ~is_mem(RCX) /\ \A v : ~is_mem(Imm(v))
  BY DEF is_mem, SCRATCH, RCX, Reg, Imm, SPILL_BASE
<1>2. \A fn \in AluFns \cup ShiftFns : x86op[fn] \notin RegisterOps
  BY DEF AluFns, ShiftFns, x86op, RegisterOps
<1> QED BY <1>1, <1>2 DEF RegisterOps

\* move() never emits a memory-to-memory mov: that is what it is for.
LEMMA EncMove == \A d, s : Enc(move(d, s))
<1> TAKE d, s
<1>1. CASE d = s
  BY <1>1, EncShort DEF move
<1>2. CASE d # s /\ is_mem(d) /\ is_mem(s)
  <2>1. EncodableOp(Op("mov", SCRATCH, s)) /\ EncodableOp(Op("mov", d, SCRATCH))
    BY EncOp, NotMem
  <2> QED BY <1>2, <2>1, EncShort DEF move
<1>3. CASE d # s /\ ~(is_mem(d) /\ is_mem(s))
  <2>1. EncodableOp(Op("mov", d, s))
    BY <1>3, EncOp, NotMem
  <2> QED BY <1>3, <2>1, EncShort DEF move
<1> QED BY <1>1, <1>2, <1>3

\* Combine() stages a spilled source when the destination is spilled too.
LEMMA EncCombine ==
  ASSUME NEW op, op \notin RegisterOps, NEW d, NEW s
  PROVE  Enc(Combine(op, d, s))
<1>1. CASE is_mem(d) /\ is_mem(s)
  <2>1. EncodableOp(Op("mov", SCRATCH, s)) /\ EncodableOp(Op(op, d, SCRATCH))
    BY EncOp, NotMem
  <2> QED BY <1>1, <2>1, EncShort DEF Combine
<1>2. CASE ~(is_mem(d) /\ is_mem(s))
  <2>1. EncodableOp(Op(op, d, s))
    BY <1>2, EncOp
  <2> QED BY <1>2, <2>1, EncShort DEF Combine
<1> QED BY <1>1, <1>2

\* Compare() stages its first operand when both are spilled.
LEMMA EncCompare == \A a, b : Enc(Compare(a, b))
<1> TAKE a, b
<1>1. CASE is_mem(a) /\ is_mem(b)
  <2>1. EncodableOp(Op("mov", SCRATCH, a)) /\ EncodableOp(Op("cmp", SCRATCH, b))
    BY EncOp, NotMem
  <2> QED BY <1>1, <2>1, EncShort DEF Compare
<1>2. CASE ~(is_mem(a) /\ is_mem(b))
  <2>1. EncodableOp(Op("cmp", a, b))
    BY <1>2, EncOp, NotMem
  <2> QED BY <1>2, <2>1, EncShort DEF Compare
<1> QED BY <1>1, <1>2

\* The shape most forms share is encodable when its last instruction is.
LEMMA EncVia ==
  ASSUME NEW i \in Instrs, NEW op \in DataOps, NEW src \in Sources,
         ~is_mem(D(i)) \/ (~is_mem(src) /\ op \notin RegisterOps)
  PROVE  Enc(Via(i, op, src)) /\ Via(i, op, src) \in Seq(OpSet)
<1>1. D(i) \in Locs /\ N(i) \in Locs /\ op \in HostOps
  BY Fields, LocFacts, OpFacts
<1>2. move(D(i), N(i)) \in Seq(OpSet)
  BY <1>1, MoveShape
<1> DEFINE one == <<Op(op, D(i), src)>>
<1>3. one \in Seq(OpSet)
  <2>1. Op(op, D(i), src) \in OpSet
    BY <1>1, OpFacts
  <2> QED BY <2>1
<1>4. Enc(move(D(i), N(i))) /\ Enc(one)
  BY EncMove, EncOp, EncShort
<1> HIDE DEF one
<1>5. move(D(i), N(i)) \o one \in Seq(OpSet)
  BY <1>2, <1>3, ConcatProperties
<1> QED BY <1>2, <1>3, <1>4, <1>5, EncCat DEF Via, one

\* The translation of a safe instruction is encodable, form by form.
LEMMA EncTranslate ==
  ASSUME NEW i \in Instrs, Safe(i)
  PROVE  Enc(Translate(i))
<1>0. /\ D(i) \in Locs /\ N(i) \in Locs /\ M(i) \in Locs /\ A(i) \in Locs
      /\ SCRATCH \in Locs /\ Locs \subseteq Sources
      /\ Imm(i.imm) \in Sources /\ Imm(i.amt) \in Sources
      /\ i.sh \in ShiftFns /\ i.fn \in FnsOf(i.form)
  BY Fields, LocFacts
<1>1. CASE i.form = "alu_imm"
  <2>1. x86op[i.fn] \in DataOps /\ x86op[i.fn] \notin RegisterOps
    BY <1>0, <1>1, OpFacts, NotMem DEF FnsOf
  <2>2. Enc(Via(i, x86op[i.fn], Imm(i.imm)))
    BY <1>0, <2>1, NotMem, EncVia
  <2>3. Translate(i) = Via(i, x86op[i.fn], Imm(i.imm))
    BY <1>1 DEF Safe, SafeForm, Translate, AluImm
  <2> QED BY <2>2, <2>3
<1>2. CASE i.form = "subs_imm"
  <2>1. EncodableOp(Op("cmp", N(i), Imm(i.imm)))
    BY EncOp, NotMem
  <2> QED BY <1>2, <2>1, EncShort DEF Translate, SubsImm
<1>3. CASE i.form \in {"movz", "const"}
  <2>1. /\ EncodableOp(Op("mov", D(i), Imm(i.imm))) /\ EncodableOp(Op("mov", SCRATCH, Imm(i.imm)))
        /\ EncodableOp(Op("mov", D(i), SCRATCH))
    BY EncOp, NotMem
  <2>2. Enc(<<Op("mov", D(i), Imm(i.imm))>>) /\ Enc(<<Op("mov", SCRATCH, Imm(i.imm)), Op("mov", D(i), SCRATCH)>>)
    BY <2>1, EncShort
  <2> QED BY <1>3, <2>2 DEF Translate, Movz, Const, moveConst
<1>4. CASE i.form = "movk"
  <2>1. EncodableOp(Op("and", D(i), Imm(i.amt))) /\ EncodableOp(Op("or", D(i), Imm(i.imm)))
    BY EncOp, NotMem
  <2> QED BY <1>4, <2>1, EncShort DEF Translate, Movk
<1>5. CASE i.form = "alu_reg"
  <2>1. x86op[i.fn] \notin RegisterOps
    BY <1>0, <1>5, NotMem DEF FnsOf
  <2>2. /\ Enc(move(D(i), M(i))) /\ Enc(Compare(N(i), M(i)))
        /\ Enc(move(D(i), N(i))) /\ Enc(Combine(x86op[i.fn], D(i), M(i)))
    BY <2>1, EncMove, EncCombine, EncCompare, NotMem
  <2>3. move(D(i), N(i)) \in Seq(OpSet) /\ Combine(x86op[i.fn], D(i), M(i)) \in Seq(OpSet)
    <3>1. move(D(i), N(i)) \in Seq(OpSet)
      BY <1>0, MoveShape
    <3>2. x86op[i.fn] \in DataOps
      BY <1>0, <1>5, OpFacts DEF FnsOf
    <3>3. \E h \in HostState : TRUE
      <4>1. [l \in Locs |-> 0] \in HostState
        BY WordAssumption DEF HostState
      <4> QED BY <4>1
    <3>4. Combine(x86op[i.fn], D(i), M(i)) \in Seq(OpSet)
      BY <3>2, <3>3, Fields, CombineEffect
    <3> QED BY <3>1, <3>4
  <2>4. Enc(move(D(i), N(i)) \o Combine(x86op[i.fn], D(i), M(i)))
    BY <2>2, <2>3, EncCat
  <2> QED BY <1>5, <2>2, <2>4 DEF Translate, AluReg
<1>6. CASE i.form = "alu_shift"
  <2> DEFINE a == Op("mov", SCRATCH, M(i))
             b == Op(x86op[i.sh], SCRATCH, Imm(i.amt))
             s == <<a, b>>
             t == Via(i, x86op[i.fn], SCRATCH)
  <2>1. /\ x86op[i.fn] \in DataOps /\ x86op[i.fn] \notin RegisterOps
        /\ x86op[i.sh] \in DataOps /\ x86op[i.sh] \in HostOps
    BY <1>0, <1>6, OpFacts, NotMem DEF FnsOf
  <2>2. Enc(t) /\ t \in Seq(OpSet)
    BY <1>0, <2>1, NotMem, EncVia
  <2>3. EncodableOp(a) /\ EncodableOp(b)
    BY EncOp, NotMem
  <2>4. a \in OpSet /\ b \in OpSet
    BY <1>0, <2>1, OpFacts
  <2> HIDE DEF a, b, t
  <2>5. Enc(s) /\ s \in Seq(OpSet)
    BY <2>3, <2>4, EncShort
  <2>6. Translate(i) = s \o t
    BY <1>6 DEF Translate, AluShift, a, b, t
  <2> QED BY <2>2, <2>5, <2>6, EncCat
<1>7. CASE i.form \in {"pac", "none"}
  <2>1. Translate(i) = <<>>
    BY <1>7 DEF Safe, SafeForm, Translate, Pac
  <2> QED BY <2>1, EncShort
<1>8. CASE i.form = "madd"
  <2> DEFINE s == Via(i, "imul", M(i))
             a == Op(x86op[i.fn], D(i), A(i))
             t == IF i.ra = 31 THEN <<>> ELSE <<a>>
  <2>1. ~is_mem(D(i)) /\ i.fn = "add"
    BY <1>8 DEF Safe, SafeForm
  <2>2. Enc(s) /\ s \in Seq(OpSet)
    BY <1>0, <2>1, OpFacts, EncVia
  <2>3. EncodableOp(a)
    BY <2>1, EncOp
  <2>4. a \in OpSet
    <3>1. x86op[i.fn] \in HostOps
      BY <2>1, OpFacts DEF AluFns
    <3> QED BY <1>0, <3>1, OpFacts
  <2>5. Translate(i) = s \o t
    BY <1>8 DEF Translate, Madd
  <2> HIDE DEF s, a
  <2>6. Enc(t) /\ t \in Seq(OpSet)
    BY <2>3, <2>4, EncShort
  <2> HIDE DEF t
  <2> QED BY <2>2, <2>5, <2>6, EncCat
<1>9. CASE i.form = "shiftv"
  <2> DEFINE a == Op("mov", RCX, M(i))
             s == <<a>>
             t == Via(i, x86op[i.fn], RCX)
  <2>0. RCX \in Locs
    BY <1>9, FixedLocs, LocFacts
  <2>1. x86op[i.fn] \in DataOps /\ x86op[i.fn] \notin RegisterOps
    BY <1>0, <1>9, OpFacts, NotMem DEF FnsOf
  <2>2. Enc(t) /\ t \in Seq(OpSet)
    BY <1>0, <2>0, <2>1, NotMem, EncVia
  <2>3. EncodableOp(a) /\ a \in OpSet
    BY <1>0, <2>0, EncOp, NotMem, OpFacts
  <2>4. Translate(i) = s \o t
    BY <1>9 DEF Translate, ShiftV
  <2> HIDE DEF a, t
  <2>5. Enc(s) /\ s \in Seq(OpSet)
    BY <2>3, EncShort
  <2> QED BY <2>2, <2>4, <2>5, EncCat
<1>10. CASE i.form = "unary"
  <2>1. ~is_mem(D(i)) /\ x86op[i.fn] \in DataOps
    BY <1>0, <1>10, OpFacts DEF Safe, SafeForm, FnsOf
  <2> QED BY <1>0, <1>10, <2>1, EncVia DEF Translate, Unary
<1>11. CASE i.form = "hostcall"
  <2>1. Translate(i) = <<Op("mov", RDI, D(i))>>
    BY <1>11 DEF Translate, HostCall
  <2>2. ~is_mem(RDI)
    BY DEF is_mem, RDI, Reg, SPILL_BASE
  <2> QED BY <2>1, <2>2, EncOp, EncShort
<1>12. i.form \in Forms \ {"div", "counter", "svc"}
  BY Fields DEF Safe, SafeForm, Forms
<1> QED
  BY <1>1, <1>2, <1>3, <1>4, <1>5, <1>6, <1>7, <1>8, <1>9, <1>10, <1>11, <1>12 DEF Forms

\* A program made of safe instructions never reaches a host instruction the
\* x86 cannot encode: no memory-to-memory operand pair is emitted.
THEOREM EncodableCorrect ==
  ASSUME \A i \in Instrs : Safe(i)
  PROVE  Spec => []Encodable
<1>1. Init => Encodable
  BY DEF Init, Encodable
<1>2. Inv /\ Encodable /\ [Next]_vars => Encodable'
  <2> SUFFICES ASSUME Inv, Encodable, [Next]_vars PROVE Encodable'
    OBVIOUS
  <2>1. CASE RunOp
    <3>1. pend \in Seq(OpSet) /\ pend # <<>> /\ pend' = Tail(pend)
      BY <2>1, TypeFacts DEF Inv, RunOp
    <3>2. /\ Len(pend') = Len(pend) - 1 /\ Len(pend) \in Nat
          /\ \A k \in 1..Len(pend') : pend'[k] = pend[k + 1]
      BY <3>1, HeadTailProperties, LenProperties
    <3>3. \A k \in 1..Len(pend') : k + 1 \in 1..Len(pend)
      BY <3>2
    <3> QED BY <3>2, <3>3 DEF Encodable
  <2>2. CASE Retire
    BY <2>2 DEF Retire, Encodable
  <2>3. ASSUME NEW i \in Instrs, Fetch(i) PROVE Encodable'
    BY <2>3, EncTranslate DEF Fetch, Encodable, Enc
  <2>4. CASE UNCHANGED vars
    BY <2>4 DEF vars, Encodable
  <2> QED BY <2>1, <2>2, <2>3, <2>4 DEF Next
<1> QED BY <1>1, <1>2, InvCorrect, PTL DEF Spec
=============================================================================
