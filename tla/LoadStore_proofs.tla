-------------------------- MODULE LoadStore_proofs --------------------------
(***************************************************************************)
(* For every set of registers, every set of shadow registers and every     *)
(* program of safe loads, stores and register accesses: the translation    *)
(* has the guest's effect and stores nothing else on the way.              *)
(***************************************************************************)
EXTENDS LoadStore, FiniteSetTheorems, SequenceTheorems, TLAPS

HostRegs == Guest \cup {SCRATCH, Top}
Files == 1..Cardinality(SysRegs)
Memory == [Addr -> {0, 1}]
State == [h : [HostRegs -> Word], m : Memory, f : [Files -> Word]]

Mems == {Mem(b, index, double, k, narrow) :
           b \in HostRegs, index \in Guest \cup {None}, double \in BOOLEAN, k \in Word,
           narrow \in BOOLEAN}
Operands == {Loc(r) : r \in HostRegs} \cup Mems \cup {Slot(n) : n \in Nat}
              \cup {[at |-> "imm", v |-> k] : k \in Word}
OpSet == {Op(op, dst, src) : op \in {"mov", "movzx", "add"},
                             dst \in Operands, src \in Operands}

(***************************************************************************)
(* A translation takes the host from s to t, its memory holding at every   *)
(* point what it held or what the guest's holds in the end, M.             *)
(***************************************************************************)
Step(M, s, a, t) == /\ s \in State /\ t \in State /\ t = Exec(s, a)
                    /\ \A c \in Addr : t.m[c] \in {s.m[c], M[c]}

Runs(M, ops, s, t) ==
  \E run \in [0..Len(ops) -> State] :
    /\ run[0] = s /\ run[Len(ops)] = t
    /\ \A k \in 1..Len(ops) : Step(M, run[k - 1], ops[k], run[k])

\* at most n instructions
Leads(n, M, ops, s, t) == ops \in Seq(OpSet) /\ Len(ops) <= n /\ Runs(M, ops, s, t)
-----------------------------------------------------------------------------
(***************************************************************************)
(* Lists of instructions.                                                  *)
(***************************************************************************)
LEMMA LeadsNone ==
  ASSUME NEW M, NEW s \in State
  PROVE  Leads(0, M, <<>>, s, s)
<1>1. <<>> \in Seq(OpSet) /\ Len(<<>>) = 0
  OBVIOUS
<1> DEFINE run == [k \in 0..0 |-> s]
<1>2. run \in [0..0 -> State] /\ run[0] = s
  OBVIOUS
<1> HIDE DEF run
<1>3. Runs(M, <<>>, s, s)
  BY <1>1, <1>2 DEF Runs
<1> QED
  BY <1>1, <1>3 DEF Leads

LEMMA LeadsOne ==
  ASSUME NEW M, NEW s, NEW a \in OpSet, NEW t, Step(M, s, a, t)
  PROVE  Leads(1, M, <<a>>, s, t)
<1>1. <<a>> \in Seq(OpSet) /\ Len(<<a>>) = 1 /\ <<a>>[1] = a
  OBVIOUS
<1>2. s \in State /\ t \in State
  BY DEF Step
<1> DEFINE run == [k \in 0..1 |-> IF k = 0 THEN s ELSE t]
<1>3. run \in [0..1 -> State] /\ run[0] = s /\ run[1] = t
  BY <1>2
<1>4. \A k \in 1..1 : Step(M, run[k - 1], <<a>>[k], run[k])
  <2> TAKE k \in 1..1
  <2>1. k = 1 /\ k - 1 = 0
    OBVIOUS
  <2> HIDE DEF run
  <2> QED
    BY <1>1, <1>3, <2>1
<1> HIDE DEF run
<1>5. Runs(M, <<a>>, s, t)
  BY <1>1, <1>3, <1>4 DEF Runs
<1> QED
  BY <1>1, <1>5 DEF Leads

LEMMA LeadsCat ==
  ASSUME NEW M, NEW n \in Nat, NEW k \in Nat, NEW p, NEW q, NEW s, NEW u, NEW t,
         Leads(n, M, p, s, u), Leads(k, M, q, u, t)
  PROVE  Leads(n + k, M, p \o q, s, t)
<1> DEFINE lp == Len(p)
           lq == Len(q)
<1>1. p \in Seq(OpSet) /\ q \in Seq(OpSet) /\ lp \in Nat /\ lq \in Nat /\ lp <= n /\ lq <= k
  BY LenProperties DEF Leads
<1>2. /\ p \o q \in Seq(OpSet) /\ Len(p \o q) = lp + lq
      /\ \A j \in 1..lp + lq : (p \o q)[j] = IF j <= lp THEN p[j] ELSE q[j - lp]
  BY <1>1, ConcatProperties
<1>3. PICK one \in [0..lp -> State] :
        /\ one[0] = s /\ one[lp] = u
        /\ \A j \in 1..lp : Step(M, one[j - 1], p[j], one[j])
  BY DEF Leads, Runs
<1>4. PICK two \in [0..lq -> State] :
        /\ two[0] = u /\ two[lq] = t
        /\ \A j \in 1..lq : Step(M, two[j - 1], q[j], two[j])
  BY DEF Leads, Runs
<1> HIDE DEF lp, lq
<1> DEFINE run == [j \in 0..lp + lq |-> IF j <= lp THEN one[j] ELSE two[j - lp]]
<1>5. run \in [0..lp + lq -> State]
  <2>1. \A j \in 0..lp + lq : IF j <= lp THEN j \in 0..lp ELSE j - lp \in 0..lq
    BY <1>1
  <2> QED
    BY <2>1
<1>6. run[0] = s
  BY <1>1, <1>3
<1>7. run[lp + lq] = t
  <2>1. CASE lq = 0
    BY <1>1, <1>3, <1>4, <2>1
  <2>2. CASE lq # 0
    <3>1. lp + lq \in 0..lp + lq /\ ~(lp + lq <= lp) /\ lp + lq - lp = lq
      BY <1>1, <2>2
    <3>2. run[lp + lq] = two[lp + lq - lp]
      BY <1>1, <3>1
    <3> HIDE DEF run
    <3> QED
      BY <1>4, <3>1, <3>2
  <2> QED
    BY <2>1, <2>2
<1>8. \A j \in 1..lp + lq : Step(M, run[j - 1], (p \o q)[j], run[j])
  <2> SUFFICES ASSUME NEW j \in 1..lp + lq
               PROVE  Step(M, run[j - 1], (p \o q)[j], run[j])
    OBVIOUS
  <2>1. CASE j <= lp
    <3>1. j \in 1..lp /\ j - 1 \in 0..lp + lq /\ j - 1 <= lp /\ j \in 0..lp + lq
      BY <1>1, <2>1
    <3>2. run[j - 1] = one[j - 1] /\ run[j] = one[j] /\ (p \o q)[j] = p[j]
      BY <1>2, <2>1, <3>1
    <3> HIDE DEF run
    <3> QED
      BY <1>3, <3>1, <3>2
  <2>2. CASE ~(j <= lp)
    <3>1. j - lp \in 1..lq /\ j - 1 \in 0..lp + lq /\ j \in 0..lp + lq
      BY <1>1, <2>2
    <3>2. run[j] = two[j - lp] /\ (p \o q)[j] = q[j - lp]
      <4>1. run[j] = two[j - lp]
        BY <2>2, <3>1
      <4> HIDE DEF run
      <4> QED
        BY <1>2, <2>2, <4>1
    <3>3. run[j - 1] = two[j - lp - 1]
      <4>1. CASE j = lp + 1
        <5>1. run[j - 1] = one[lp] /\ j - lp - 1 = 0
          BY <1>1, <3>1, <4>1
        <5> HIDE DEF run
        <5> QED
          BY <1>3, <1>4, <5>1
      <4>2. CASE j # lp + 1
        <5>1. ~(j - 1 <= lp) /\ j - 1 - lp = j - lp - 1
          BY <1>1, <2>2, <4>2
        <5>2. run[j - 1] = two[j - 1 - lp]
          BY <3>1, <5>1
        <5> HIDE DEF run
        <5> QED
          BY <5>1, <5>2
      <4> QED
        BY <4>1, <4>2
    <3>4. Step(M, two[j - lp - 1], q[j - lp], two[j - lp])
      BY <1>4, <3>1
    <3> HIDE DEF run
    <3> QED
      BY <3>2, <3>3, <3>4
  <2> QED
    BY <2>1, <2>2
<1> HIDE DEF run
<1>9. Runs(M, p \o q, s, t)
  BY <1>2, <1>5, <1>6, <1>7, <1>8 DEF Runs
<1>10. lp + lq <= n + k
  BY <1>1
<1> QED
  BY <1>2, <1>9, <1>10 DEF Leads

\* The first instruction, and what it leaves.
LEMMA LeadsOn ==
  ASSUME NEW M, NEW n \in Nat, NEW ops, NEW s, NEW t, Leads(n, M, ops, s, t), ops # <<>>
  PROVE  LET u == Exec(s, Head(ops))
         IN Step(M, s, Head(ops), u) /\ Leads(n, M, Tail(ops), u, t)
<1> DEFINE l == Len(ops)
           u == Exec(s, Head(ops))
<1>1. ops \in Seq(OpSet) /\ l \in Nat /\ l # 0 /\ l <= n
  BY LenProperties, EmptySeq DEF Leads
<1>2. /\ Tail(ops) \in Seq(OpSet) /\ Head(ops) = ops[1] /\ Len(Tail(ops)) = l - 1
      /\ \A j \in 1..l - 1 : Tail(ops)[j] = ops[j + 1]
  BY <1>1, HeadTailProperties
<1>3. PICK run \in [0..l -> State] :
        /\ run[0] = s /\ run[l] = t
        /\ \A j \in 1..l : Step(M, run[j - 1], ops[j], run[j])
  BY DEF Leads, Runs
<1> HIDE DEF l
<1>4. Step(M, s, Head(ops), run[1])
  <2>1. 1 \in 1..l /\ 1 - 1 = 0
    BY <1>1
  <2> QED
    BY <1>2, <1>3, <2>1
<1>5. run[1] = u
  BY <1>4 DEF Step
<1> HIDE DEF u
<1> DEFINE rest == [j \in 0..l - 1 |-> run[j + 1]]
<1>6. \A j \in 0..l - 1 : j + 1 \in 0..l
  BY <1>1
<1>7. rest \in [0..l - 1 -> State] /\ rest[0] = u /\ rest[l - 1] = t
  <2>1. 0 \in 0..l - 1 /\ l - 1 \in 0..l - 1 /\ l - 1 + 1 = l /\ 0 + 1 = 1
    BY <1>1
  <2> QED
    BY <1>3, <1>5, <1>6, <2>1
<1>8. \A j \in 1..l - 1 : Step(M, rest[j - 1], Tail(ops)[j], rest[j])
  <2> TAKE j \in 1..l - 1
  <2>1. j + 1 \in 1..l /\ j - 1 \in 0..l - 1 /\ j \in 0..l - 1 /\ j - 1 + 1 = j + 1 - 1
    BY <1>1
  <2>2. rest[j - 1] = run[j + 1 - 1] /\ rest[j] = run[j + 1]
    BY <2>1
  <2> HIDE DEF rest
  <2> QED
    BY <1>2, <1>3, <2>1, <2>2
<1> HIDE DEF rest
<1>9. Runs(M, Tail(ops), u, t)
  BY <1>2, <1>7, <1>8 DEF Runs
<1>10. l - 1 <= n
  BY <1>1
<1> QED
  BY <1>2, <1>4, <1>5, <1>9, <1>10 DEF Leads, u

\* Nothing left to run.
LEMMA LeadsNowhere ==
  ASSUME NEW M, NEW n, NEW s, NEW t, Leads(n, M, <<>>, s, t)
  PROVE  s = t /\ s \in State
<1>1. Len(<<>>) = 0
  OBVIOUS
<1> QED
  BY <1>1 DEF Leads, Runs

\* Where a list leads to is a host state.
LEMMA LeadsEnds ==
  ASSUME NEW M, NEW n, NEW ops, NEW s, NEW h, NEW m, NEW f, Leads(n, M, ops, s, St(h, m, f))
  PROVE  h \in [HostRegs -> Word] /\ m \in Memory /\ f \in [Files -> Word]
<1>1. ops \in Seq(OpSet) /\ Len(ops) \in Nat
  BY LenProperties DEF Leads
<1>2. Len(ops) \in 0..Len(ops)
  BY <1>1
<1>3. St(h, m, f) \in State
  BY <1>2 DEF Leads, Runs
<1>4. St(h, m, f).h = h /\ St(h, m, f).m = m /\ St(h, m, f).f = f
  BY DEF St
<1> QED
  BY <1>3, <1>4 DEF State
-----------------------------------------------------------------------------
(***************************************************************************)
(* Words and memory.                                                       *)
(***************************************************************************)
LEMMA Sums ==
  /\ \A a, b \in Word : Plus(a, b) \in Word /\ Minus(a, b) \in Word
  /\ \A a \in Word : Plus(a, 0) = a
  /\ \A a, b, c \in Word : Plus(Plus(a, b), c) = Plus(a, Plus(b, c))
  /\ \A a \in Addr : Plus(a, 1) \in Addr \ {a}
<1>1. \A n \in 0..6 : n % 4 = IF n < 4 THEN n ELSE n - 4
  OBVIOUS
<1>2. \A n \in -3..3 : n % 4 = IF n < 0 THEN n + 4 ELSE n
  OBVIOUS
<1>3. \A a, b \in 0..3 : Plus(a, b) = IF a + b < 4 THEN a + b ELSE a + b - 4
  BY <1>1 DEF Plus
<1>4. \A a, b \in 0..3 : Minus(a, b) = IF a < b THEN a - b + 4 ELSE a - b
  BY <1>2 DEF Minus
<1>5. \A a, b \in 0..3 : Plus(a, b) \in 0..3 /\ Minus(a, b) \in 0..3
  BY <1>3, <1>4
<1>6. \A a, b, c \in 0..3 : Plus(Plus(a, b), c) = Plus(a, Plus(b, c))
  BY <1>3, <1>5
<1>7. \A a \in 0..3 : Plus(a, 0) = a /\ Plus(a, 1) # a
  BY <1>3
<1> QED
  BY <1>5, <1>6, <1>7 DEF Word, Addr

LEMMA Loads ==
  ASSUME NEW m \in Memory, NEW a \in Addr, NEW narrow \in BOOLEAN
  PROVE  Load(m, a, narrow) \in Word
<1>1. Plus(a, 1) \in Addr
  BY Sums
<1>2. m[a] \in {0, 1} /\ m[Plus(a, 1)] \in {0, 1}
  BY <1>1 DEF Memory
<1> QED
  BY <1>2 DEF Load, Word

LEMMA Stores ==
  ASSUME NEW m \in Memory, NEW a \in Addr, NEW narrow \in BOOLEAN, NEW v \in Word
  PROVE  Store(m, a, narrow, v) \in Memory
<1>1. Plus(a, 1) \in Addr
  BY Sums
<1>2. Low(v) \in {0, 1} /\ v \div 2 \in {0, 1}
  BY DEF Low, Word
<1> QED
  BY <1>1, <1>2 DEF Store, Memory

\* Two words a pair stores lie apart.
Whole(m, a, v) == Store(m, a, FALSE, v)

LEMMA StoredApart ==
  ASSUME NEW m \in Memory, NEW a \in Addr, NEW v \in Word, NEW w \in Word
  PROVE  LET one == Whole(m, a, v)
             two == Whole(one, Plus(a, 2), w)
         IN \A c \in Addr : one[c] \in {m[c], two[c]}
<1>1. a \in {0, 1, 2, 3} /\ Addr = {0, 1, 2, 3}
  BY DEF Addr
<1> DEFINE b == Plus(a, 1)
           d == Plus(a, 2)
           e == Plus(d, 1)
           one == Whole(m, a, v)
           two == Whole(one, d, w)
<1>2. /\ b \in Addr /\ d \in Addr /\ e \in Addr
      /\ a # d /\ a # e /\ b # d /\ b # e
  BY <1>1 DEF Plus
<1> HIDE DEF d
<1>3. one \in Memory
  BY Stores DEF Whole
<1>4. \A c \in Addr : c # a /\ c # b => one[c] = m[c]
  BY <1>1, <1>2 DEF Whole, Store, Memory
<1> HIDE DEF one
<1>5. \A c \in Addr : c # d /\ c # e => two[c] = one[c]
  BY <1>1, <1>2, <1>3 DEF Whole, Store, Memory
<1> HIDE DEF two, b, e
<1>6. \A c \in Addr : one[c] \in {m[c], two[c]}
  BY <1>2, <1>4, <1>5
<1> QED
  BY <1>6 DEF one, two, d
-----------------------------------------------------------------------------
(***************************************************************************)
(* One instruction.                                                        *)
(***************************************************************************)
LEMMA Places ==
  /\ Guest \subseteq HostRegs /\ SCRATCH \in HostRegs /\ Top \in HostRegs
  /\ SCRATCH \notin Guest /\ Top \notin Guest /\ SCRATCH # Top /\ None \notin Guest
  BY InstrsAssumption DEF HostRegs, SCRATCH, Top, None

LEMMA Operations ==
  /\ \A r, q \in HostRegs : mov(Loc(r), Loc(q)) \in OpSet
  /\ \A r \in HostRegs, o \in Mems : mov(Loc(r), o) \in OpSet /\ mov(o, Loc(r)) \in OpSet
  /\ \A r \in HostRegs, n \in Nat : /\ mov(Loc(r), Slot(n)) \in OpSet
                                   /\ mov(Slot(n), Loc(r)) \in OpSet
  /\ \A r \in HostRegs, k \in Word : Op("add", Loc(r), [at |-> "imm", v |-> k]) \in OpSet
  /\ \A r \in HostRegs, o \in Mems : load(r, o) \in OpSet
  /\ \A r \in HostRegs, n \in Nat : load(r, Slot(n)) \in OpSet
<1>1. /\ \A r \in HostRegs : Loc(r) \in Operands
      /\ \A o \in Mems : o \in Operands
      /\ \A n \in Nat : Slot(n) \in Operands
      /\ \A k \in Word : [at |-> "imm", v |-> k] \in Operands
  BY DEF Operands
<1>2. \A op \in {"mov", "movzx", "add"}, d, e \in Operands : Op(op, d, e) \in OpSet
  BY DEF OpSet
<1>3. \A d, e : mov(d, e) = Op("mov", d, e)
  BY DEF mov
<1>4. \A r, o : load(r, o) = Op("mov", Loc(r), o) \/ load(r, o) = Op("movzx", Loc(r), o)
  BY DEF load
<1> HIDE DEF Operands, OpSet
<1> QED
  BY <1>1, <1>2, <1>3, <1>4

\* A host state of these parts.
LEMMA States ==
  ASSUME NEW h \in [HostRegs -> Word], NEW m \in Memory, NEW f \in [Files -> Word]
  PROVE  /\ St(h, m, f) \in State
         /\ St(h, m, f).h = h /\ St(h, m, f).m = m /\ St(h, m, f).f = f
  BY DEF St, State

LEMMA Reads ==
  ASSUME NEW h, NEW m, NEW f
  PROVE  /\ \A r : Read(St(h, m, f), Loc(r)) = h[r]
         /\ \A n : Read(St(h, m, f), Slot(n)) = f[n + 1]
         /\ \A k : Read(St(h, m, f), [at |-> "imm", v |-> k]) = k
         /\ \A o \in Mems : Read(St(h, m, f), o)
                              = Load(m, HostAddress(St(h, m, f), o), o.narrow)
<1>1. /\ \A r : Read(St(h, m, f), Loc(r)) = h[r]
      /\ \A n : Read(St(h, m, f), Slot(n)) = f[n + 1]
      /\ \A k : Read(St(h, m, f), [at |-> "imm", v |-> k]) = k
  BY DEF Read, St, Loc, Slot
<1>2. \A o \in Mems : o.at = "mem"
  BY DEF Mems, Mem
<1>3. \A o \in Mems : Read(St(h, m, f), o) = Load(m, HostAddress(St(h, m, f), o), o.narrow)
  BY <1>2 DEF Read, St
<1> QED
  BY <1>1, <1>3

LEMMA Results ==
  ASSUME NEW s, NEW d, NEW e
  PROVE  /\ Result(s, mov(d, e)) = Read(s, e)
         /\ Result(s, Op("movzx", d, e)) = Read(s, e)
         /\ Result(s, Op("add", d, e)) = Plus(Read(s, d), Read(s, e))
<1>1. \A op : Op(op, d, e).op = op /\ Op(op, d, e).dst = d /\ Op(op, d, e).src = e
  BY DEF Op
<1>2. mov(d, e) = Op("mov", d, e)
  BY DEF mov
<1>3. /\ Result(s, Op("mov", d, e)) = Read(s, e)
      /\ Result(s, Op("movzx", d, e)) = Read(s, e)
  BY <1>1 DEF Result
<1>4. Result(s, Op("add", d, e)) = Plus(Read(s, d), Read(s, e))
  BY <1>1 DEF Result
<1> QED
  BY <1>2, <1>3, <1>4

\* What a store does.
LEMMA WriteMem ==
  ASSUME NEW h, NEW m, NEW f, NEW op, NEW o \in Mems, NEW e
  PROVE  LET v == Result(St(h, m, f), Op(op, o, e))
         IN Exec(St(h, m, f), Op(op, o, e))
              = St(h, Store(m, HostAddress(St(h, m, f), o), o.narrow, v), f)
<1> DEFINE a == HostAddress(St(h, m, f), o)
           v == Result(St(h, m, f), Op(op, o, e))
<1>1. Op(op, o, e).dst = o /\ o.at = "mem"
  BY DEF Op, Mems, Mem
<1>2. Exec(St(h, m, f), Op(op, o, e)) = [St(h, m, f) EXCEPT !.m = Store(@, a, o.narrow, v)]
  BY <1>1, Zenon DEF Exec
<1> HIDE DEF a, v
<1>3. [St(h, m, f) EXCEPT !.m = Store(@, a, o.narrow, v)] = St(h, Store(m, a, o.narrow, v), f)
  BY DEF St
<1> QED
  BY <1>2, <1>3 DEF a, v

LEMMA MemIs ==
  ASSUME NEW b \in HostRegs, NEW index \in Guest \cup {None}, NEW double \in BOOLEAN,
         NEW k \in Word, NEW narrow \in BOOLEAN
  PROVE  Mem(b, index, double, k, narrow) \in Mems
  BY DEF Mems

\* Where an operand in memory lies.
LEMMA Addresses ==
  ASSUME NEW h \in [HostRegs -> Word], NEW m, NEW f
  PROVE  /\ \A b \in HostRegs, index \in Guest, double \in BOOLEAN, narrow \in BOOLEAN :
              /\ Mem(b, index, double, 0, narrow) \in Mems
              /\ HostAddress(St(h, m, f), Mem(b, index, double, 0, narrow))
                   = Plus(h[b], IF double THEN Plus(h[index], h[index]) ELSE h[index])
         /\ \A o \in Mems : HostAddress(St(h, m, f), o) \in Addr /\ o.narrow \in BOOLEAN
<1>1. Addr = Word /\ 0 \in Word
  BY DEF Addr, Word
<1>2. \A r \in HostRegs : h[r] \in Word
  OBVIOUS
<1>3. \A b, index, double, k, narrow : index # None =>
        HostAddress(St(h, m, f), Mem(b, index, double, k, narrow))
          = Plus(Plus(h[b], k), IF double THEN Plus(h[index], h[index]) ELSE h[index])
  BY DEF HostAddress, Mem, St
<1>4. \A b \in HostRegs, index \in Guest, double \in BOOLEAN, narrow \in BOOLEAN :
        /\ Mem(b, index, double, 0, narrow) \in Mems
        /\ HostAddress(St(h, m, f), Mem(b, index, double, 0, narrow))
             = Plus(h[b], IF double THEN Plus(h[index], h[index]) ELSE h[index])
  <2> TAKE b \in HostRegs, index \in Guest, double \in BOOLEAN, narrow \in BOOLEAN
  <2>1. Mem(b, index, double, 0, narrow) \in Mems
    BY <1>1, MemIs
  <2>2. Plus(h[b], 0) = h[b] /\ index # None
    BY <1>2, Sums, Places
  <2> QED
    BY <1>3, <2>1, <2>2
<1>5. \A o \in Mems : HostAddress(St(h, m, f), o) \in Addr /\ o.narrow \in BOOLEAN
  <2> TAKE o \in Mems
  <2>1. /\ o.base \in HostRegs /\ o.index \in Guest \cup {None} /\ o.imm \in Word
        /\ o.narrow \in BOOLEAN
    BY DEF Mems, Mem
  <2> DEFINE n == IF o.index = None THEN 0 ELSE h[o.index]
             w == IF o.double THEN Plus(n, n) ELSE n
  <2>2. n \in Word
    BY <1>1, <1>2, <2>1, Places
  <2>3. HostAddress(St(h, m, f), o) = Plus(Plus(h[o.base], o.imm), w)
    BY DEF HostAddress, St
  <2> HIDE DEF n
  <2>4. w \in Word
    BY <2>2, Sums
  <2> HIDE DEF w
  <2>5. Plus(h[o.base], o.imm) \in Word
    BY <1>2, <2>1, Sums
  <2> QED
    BY <1>1, <2>1, <2>3, <2>4, <2>5, Sums
<1> QED
  BY <1>4, <1>5

\* The operand [b + k].
At(b, k, narrow) == Mem(b, None, FALSE, k, narrow)

LEMMA BaseAddress ==
  ASSUME NEW h \in [HostRegs -> Word], NEW m, NEW f, NEW b \in HostRegs, NEW k \in Word,
         NEW narrow \in BOOLEAN
  PROVE  /\ At(b, k, narrow) \in Mems
         /\ HostAddress(St(h, m, f), At(b, k, narrow)) = Plus(h[b], k)
         /\ At(b, k, narrow).base = b /\ At(b, k, narrow).narrow = narrow
<1> DEFINE o == At(b, k, narrow)
<1>1. /\ o.base = b /\ o.index = None /\ o.double = FALSE /\ o.imm = k
      /\ o.narrow = narrow
  BY DEF At, Mem
<1>2. HostAddress(St(h, m, f), o) = Plus(Plus(h[b], k), 0)
  BY <1>1 DEF HostAddress, St
<1>3. Plus(Plus(h[b], k), 0) = Plus(h[b], k)
  BY Sums
<1> DEFINE no == FALSE
<1>4. no \in BOOLEAN /\ None \in Guest \cup {None}
  OBVIOUS
<1>5. o = Mem(b, None, no, k, narrow)
  BY DEF At
<1> HIDE DEF no, o
<1>6. o \in Mems
  BY <1>4, <1>5, MemIs
<1> QED
  BY <1>1, <1>2, <1>3, <1>6 DEF o

LEMMA BaseIsMem ==
  ASSUME NEW b \in HostRegs, NEW k \in Word, NEW narrow \in BOOLEAN
  PROVE  At(b, k, narrow) \in Mems /\ At(b, k, narrow).narrow = narrow
<1> DEFINE no == FALSE
<1>1. no \in BOOLEAN /\ None \in Guest \cup {None}
  OBVIOUS
<1>2. At(b, k, narrow) = Mem(b, None, no, k, narrow)
  BY DEF At
<1>3. At(b, k, narrow).narrow = narrow
  BY DEF At, Mem
<1> HIDE DEF no
<1> QED
  BY <1>1, <1>2, <1>3, MemIs

\* An instruction with its result in a register.
LEMMA ToLoc ==
  ASSUME NEW M, NEW h \in [HostRegs -> Word], NEW m \in Memory, NEW f \in [Files -> Word],
         NEW op, NEW r \in HostRegs, NEW e, Op(op, Loc(r), e) \in OpSet,
         NEW v \in Word, Result(St(h, m, f), Op(op, Loc(r), e)) = v
  PROVE  /\ Leads(1, M, <<Op(op, Loc(r), e)>>, St(h, m, f), St([h EXCEPT ![r] = v], m, f))
         /\ [h EXCEPT ![r] = v] \in [HostRegs -> Word]
<1> DEFINE g == [h EXCEPT ![r] = v]
<1>1. g \in [HostRegs -> Word]
  OBVIOUS
<1>2. Exec(St(h, m, f), Op(op, Loc(r), e)) = St(g, m, f)
  <2>1. Op(op, Loc(r), e).dst = Loc(r) /\ Loc(r).at = "loc" /\ Loc(r).r = r
    BY DEF Op, Loc
  <2> DEFINE w == Result(St(h, m, f), Op(op, Loc(r), e))
  <2>2. Exec(St(h, m, f), Op(op, Loc(r), e)) = [St(h, m, f) EXCEPT !.h[r] = w]
    BY <2>1, Zenon DEF Exec
  <2>3. w = v
    OBVIOUS
  <2> HIDE DEF w
  <2>4. [St(h, m, f) EXCEPT !.h[r] = w] = St(g, m, f)
    BY <2>3 DEF St
  <2> QED
    BY <2>2, <2>4
<1> HIDE DEF g
<1>3. Step(M, St(h, m, f), Op(op, Loc(r), e), St(g, m, f))
  BY <1>1, <1>2, States DEF Step
<1> QED
  BY <1>1, <1>3, LeadsOne DEF g

\* mov to a register.
LEMMA MovToLoc ==
  ASSUME NEW M, NEW h \in [HostRegs -> Word], NEW m \in Memory, NEW f \in [Files -> Word],
         NEW r \in HostRegs, NEW e, mov(Loc(r), e) \in OpSet,
         NEW v \in Word, Read(St(h, m, f), e) = v
  PROVE  /\ Leads(1, M, <<mov(Loc(r), e)>>, St(h, m, f), St([h EXCEPT ![r] = v], m, f))
         /\ [h EXCEPT ![r] = v] \in [HostRegs -> Word]
<1>1. mov(Loc(r), e) = Op("mov", Loc(r), e)
  BY DEF mov
<1>2. Result(St(h, m, f), Op("mov", Loc(r), e)) = v /\ Op("mov", Loc(r), e) \in OpSet
  BY <1>1, Results
<1>3. /\ Leads(1, M, <<Op("mov", Loc(r), e)>>, St(h, m, f), St([h EXCEPT ![r] = v], m, f))
      /\ [h EXCEPT ![r] = v] \in [HostRegs -> Word]
  BY <1>2, ToLoc, Zenon
<1> QED
  BY <1>1, <1>3

\* mov or movzx to a register.
LEMMA LoadToLoc ==
  ASSUME NEW M, NEW h \in [HostRegs -> Word], NEW m \in Memory, NEW f \in [Files -> Word],
         NEW r \in HostRegs, NEW e, load(r, e) \in OpSet,
         NEW v \in Word, Read(St(h, m, f), e) = v
  PROVE  /\ Leads(1, M, <<load(r, e)>>, St(h, m, f), St([h EXCEPT ![r] = v], m, f))
         /\ [h EXCEPT ![r] = v] \in [HostRegs -> Word]
<1>1. CASE load(r, e) = mov(Loc(r), e)
  <2>1. mov(Loc(r), e) \in OpSet
    BY <1>1
  <2>2. /\ Leads(1, M, <<mov(Loc(r), e)>>, St(h, m, f), St([h EXCEPT ![r] = v], m, f))
        /\ [h EXCEPT ![r] = v] \in [HostRegs -> Word]
    BY <2>1, MovToLoc, Zenon
  <2> QED
    BY <1>1, <2>2
<1>2. CASE load(r, e) = Op("movzx", Loc(r), e)
  <2>1. Result(St(h, m, f), Op("movzx", Loc(r), e)) = v /\ Op("movzx", Loc(r), e) \in OpSet
    BY <1>2, Results
  <2>2. /\ Leads(1, M, <<Op("movzx", Loc(r), e)>>, St(h, m, f), St([h EXCEPT ![r] = v], m, f))
        /\ [h EXCEPT ![r] = v] \in [HostRegs -> Word]
    BY <2>1, ToLoc, Zenon
  <2> QED
    BY <1>2, <2>2
<1>3. load(r, e) = mov(Loc(r), e) \/ load(r, e) = Op("movzx", Loc(r), e)
  BY DEF load, mov
<1> QED
  BY <1>1, <1>2, <1>3

\* mov between registers.
LEMMA MovLocs ==
  ASSUME NEW M, NEW h \in [HostRegs -> Word], NEW m \in Memory, NEW f \in [Files -> Word],
         NEW r \in HostRegs, NEW q \in HostRegs
  PROVE  /\ Leads(1, M, <<mov(Loc(r), Loc(q))>>, St(h, m, f), St([h EXCEPT ![r] = h[q]], m, f))
         /\ [h EXCEPT ![r] = h[q]] \in [HostRegs -> Word]
<1>1. h[q] \in Word /\ mov(Loc(r), Loc(q)) \in OpSet
  BY Operations
<1>2. Read(St(h, m, f), Loc(q)) = h[q]
  BY Reads
<1> QED
  BY <1>1, <1>2, MovToLoc

\* mov to memory, of what the guest stores there.
LEMMA MovToMem ==
  ASSUME NEW M, NEW h \in [HostRegs -> Word], NEW m \in Memory, NEW f \in [Files -> Word],
         NEW r \in HostRegs, NEW o \in Mems,
         NEW n, n = Store(m, HostAddress(St(h, m, f), o), o.narrow, h[r]),
         \A c \in Addr : n[c] \in {m[c], M[c]}
  PROVE  Leads(1, M, <<mov(o, Loc(r))>>, St(h, m, f), St(h, n, f)) /\ n \in Memory
<1>1. mov(o, Loc(r)) = Op("mov", o, Loc(r)) /\ mov(o, Loc(r)) \in OpSet
  BY Operations DEF mov
<1>2. Result(St(h, m, f), Op("mov", o, Loc(r))) = h[r]
  BY <1>1, Results, Reads
<1>3. Exec(St(h, m, f), mov(o, Loc(r))) = St(h, n, f)
  BY <1>1, <1>2, WriteMem
<1>4. n \in Memory
  BY Addresses, Stores
<1>5. Step(M, St(h, m, f), mov(o, Loc(r)), St(h, n, f))
  BY <1>3, <1>4, States DEF Step
<1> QED
  BY <1>1, <1>4, <1>5, LeadsOne

\* mov to a slot of the shadow file.
LEMMA MovToFile ==
  ASSUME NEW M, NEW h \in [HostRegs -> Word], NEW m \in Memory, NEW f \in [Files -> Word],
         NEW r \in HostRegs, NEW n \in Nat
  PROVE  Leads(1, M, <<mov(Slot(n), Loc(r))>>, St(h, m, f), St(h, m, [f EXCEPT ![n + 1] = h[r]]))
<1> DEFINE g == [f EXCEPT ![n + 1] = h[r]]
<1>1. mov(Slot(n), Loc(r)) = Op("mov", Slot(n), Loc(r)) /\ mov(Slot(n), Loc(r)) \in OpSet
  BY Operations DEF mov
<1>2. Result(St(h, m, f), Op("mov", Slot(n), Loc(r))) = h[r]
  BY <1>1, Results, Reads
<1>3. Exec(St(h, m, f), mov(Slot(n), Loc(r))) = St(h, m, g)
  <2> DEFINE a == Op("mov", Slot(n), Loc(r))
             w == Result(St(h, m, f), a)
  <2>1. a.dst = Slot(n) /\ Slot(n).at = "file" /\ Slot(n).n = n
    BY DEF Op, Slot
  <2>2. Exec(St(h, m, f), a) = [St(h, m, f) EXCEPT !.f[n + 1] = w]
    BY <2>1, Zenon DEF Exec
  <2>3. w = h[r]
    BY <1>2
  <2> HIDE DEF w
  <2>4. [St(h, m, f) EXCEPT !.f[n + 1] = w] = St(h, m, g)
    BY <2>3 DEF St
  <2> QED
    BY <1>1, <2>2, <2>4
<1>4. g \in [Files -> Word]
  OBVIOUS
<1> HIDE DEF g
<1>5. Step(M, St(h, m, f), mov(Slot(n), Loc(r)), St(h, m, g))
  BY <1>3, <1>4, States DEF Step
<1> QED
  BY <1>1, <1>5, LeadsOne DEF g
-----------------------------------------------------------------------------
(***************************************************************************)
(* The building blocks of translations.                                    *)
(***************************************************************************)
\* From a host state to one that has the registers X and the memory w.
Reach(n, M, ops, h, m, f, X, w) ==
  \E g \in [HostRegs -> Word] :
    /\ Leads(n, M, ops, St(h, m, f), St(g, w, f))
    /\ \A q \in Guest : g[q] = X[q]

\* FromMem(r, o) reads the operand o into r and writes nothing else of the
\* guest's.
LEMMA FromMemLeads ==
  ASSUME NEW M, NEW h \in [HostRegs -> Word], NEW m \in Memory, NEW f \in [Files -> Word],
         NEW r \in Guest, NEW o, \A q \in HostRegs : load(q, o) \in OpSet,
         NEW X, X[r] \in Word, Read(St(h, m, f), o) = X[r],
         \A q \in Guest : q # r => X[q] = h[q]
  PROVE  Reach(2, M, FromMem(r, o), h, m, f, X, m)
<1>1. r \in HostRegs /\ SCRATCH \in HostRegs /\ SCRATCH \notin Guest /\ Guest \subseteq HostRegs
  BY Places
<1>2. CASE is_mem(r)
  <2> DEFINE one == [h EXCEPT ![SCRATCH] = X[r]]
             g == [one EXCEPT ![r] = one[SCRATCH]]
  <2>1. /\ Leads(1, M, <<load(SCRATCH, o)>>, St(h, m, f), St(one, m, f))
        /\ one \in [HostRegs -> Word]
    BY <1>1, LoadToLoc
  <2>2. one[SCRATCH] = X[r] /\ \A q \in Guest : one[q] = h[q]
    BY <1>1
  <2> HIDE DEF one
  <2>3. /\ Leads(1, M, <<mov(Loc(r), Loc(SCRATCH))>>, St(one, m, f), St(g, m, f))
        /\ g \in [HostRegs -> Word]
    BY <1>1, <2>1, MovLocs
  <2>4. \A q \in Guest : g[q] = X[q]
    BY <1>1, <2>1, <2>2
  <2> HIDE DEF g
  <2>5. FromMem(r, o) = <<load(SCRATCH, o)>> \o <<mov(Loc(r), Loc(SCRATCH))>>
    BY <1>2 DEF FromMem
  <2>6. Leads(1 + 1, M, FromMem(r, o), St(h, m, f), St(g, m, f))
    BY <2>1, <2>3, <2>5, LeadsCat
  <2> QED
    BY <2>3, <2>4, <2>6 DEF Reach
<1>3. CASE ~is_mem(r)
  <2> DEFINE g == [h EXCEPT ![r] = X[r]]
  <2>1. /\ Leads(1, M, <<load(r, o)>>, St(h, m, f), St(g, m, f))
        /\ g \in [HostRegs -> Word]
    BY <1>1, LoadToLoc
  <2>2. \A q \in Guest : g[q] = X[q]
    BY <1>1
  <2> HIDE DEF g
  <2>3. FromMem(r, o) = <<load(r, o)>>
    BY <1>3 DEF FromMem
  <2>4. Leads(2, M, FromMem(r, o), St(h, m, f), St(g, m, f))
    BY <2>1, <2>3 DEF Leads
  <2> QED
    BY <2>1, <2>2, <2>4 DEF Reach
<1> QED
  BY <1>2, <1>3

\* ToMem(o, r) stores r at the operand o, unless the scratch register is
\* needed for both.
LEMMA ToMemLeads ==
  ASSUME NEW M, NEW h \in [HostRegs -> Word], NEW m \in Memory, NEW f \in [Files -> Word],
         NEW r \in Guest, NEW o \in Mems, is_mem(r) => o.base # SCRATCH,
         NEW n, n = Store(m, HostAddress(St(h, m, f), o), o.narrow, h[r]),
         \A c \in Addr : n[c] \in {m[c], M[c]}
  PROVE  Reach(2, M, ToMem(o, r), h, m, f, h, n) /\ n \in Memory
<1>1. r \in HostRegs /\ SCRATCH \in HostRegs /\ SCRATCH \notin Guest /\ Guest \subseteq HostRegs
  BY Places
<1>2. CASE is_mem(r)
  <2> DEFINE g == [h EXCEPT ![SCRATCH] = h[r]]
  <2>1. /\ Leads(1, M, <<mov(Loc(SCRATCH), Loc(r))>>, St(h, m, f), St(g, m, f))
        /\ g \in [HostRegs -> Word]
    BY <1>1, MovLocs
  <2>2. g[SCRATCH] = h[r] /\ \A q \in HostRegs : q # SCRATCH => g[q] = h[q]
    BY <1>1
  <2> HIDE DEF g
  <2>3. HostAddress(St(g, m, f), o) = HostAddress(St(h, m, f), o)
    <3>1. o.base \in HostRegs /\ o.index \in Guest \cup {None}
      BY DEF Mems, Mem
    <3>2. g[o.base] = h[o.base]
      BY <1>2, <2>2, <3>1
    <3>3. o.index # None => g[o.index] = h[o.index]
      BY <1>1, <2>2, <3>1
    <3> QED
      BY <3>2, <3>3 DEF HostAddress, St
  <2>4. Leads(1, M, <<mov(o, Loc(SCRATCH))>>, St(g, m, f), St(g, n, f)) /\ n \in Memory
    BY <1>1, <2>1, <2>2, <2>3, MovToMem
  <2>5. ToMem(o, r) = <<mov(Loc(SCRATCH), Loc(r))>> \o <<mov(o, Loc(SCRATCH))>>
    BY <1>2 DEF ToMem
  <2>6. Leads(1 + 1, M, ToMem(o, r), St(h, m, f), St(g, n, f))
    BY <2>1, <2>4, <2>5, LeadsCat
  <2> QED
    BY <1>1, <2>1, <2>2, <2>4, <2>6 DEF Reach
<1>3. CASE ~is_mem(r)
  <2>1. Leads(1, M, <<mov(o, Loc(r))>>, St(h, m, f), St(h, n, f)) /\ n \in Memory
    BY <1>1, MovToMem
  <2>2. ToMem(o, r) = <<mov(o, Loc(r))>>
    BY <1>3 DEF ToMem
  <2>3. Leads(2, M, ToMem(o, r), St(h, m, f), St(h, n, f))
    BY <2>1, <2>2 DEF Leads
  <2> QED
    BY <2>1, <2>3 DEF Reach
<1> QED
  BY <1>2, <1>3

\* Before and after.
LEMMA ReachAfter ==
  ASSUME NEW M, NEW n \in Nat, NEW k \in Nat, NEW l \in Nat, n + k <= l,
         NEW p, NEW q, NEW h, NEW m, NEW f, NEW g, NEW u, NEW X, NEW w,
         Leads(n, M, p, St(h, m, f), St(g, u, f)), Reach(k, M, q, g, u, f, X, w)
  PROVE  Reach(l, M, p \o q, h, m, f, X, w)
<1>1. PICK e \in [HostRegs -> Word] :
        Leads(k, M, q, St(g, u, f), St(e, w, f)) /\ \A r \in Guest : e[r] = X[r]
  BY DEF Reach
<1>2. Leads(n + k, M, p \o q, St(h, m, f), St(e, w, f))
  BY <1>1, LeadsCat
<1>3. Len(p \o q) \in Nat
  BY <1>2, LenProperties DEF Leads
<1>4. Leads(l, M, p \o q, St(h, m, f), St(e, w, f))
  BY <1>2, <1>3 DEF Leads
<1> QED
  BY <1>1, <1>4 DEF Reach

LEMMA ReachMore ==
  ASSUME NEW M, NEW n \in Nat, NEW l \in Nat, n <= l,
         NEW p, NEW h, NEW m, NEW f, NEW X, NEW w, Reach(n, M, p, h, m, f, X, w)
  PROVE  Reach(l, M, p, h, m, f, X, w)
<1>1. PICK e \in [HostRegs -> Word] :
        Leads(n, M, p, St(h, m, f), St(e, w, f)) /\ \A r \in Guest : e[r] = X[r]
  BY DEF Reach
<1>2. Len(p) \in Nat
  BY <1>1, LenProperties DEF Leads
<1>3. Leads(l, M, p, St(h, m, f), St(e, w, f))
  BY <1>1, <1>2 DEF Leads
<1> QED
  BY <1>1, <1>3 DEF Reach

\* The base of an access, in the scratch register when it is spilled.
Staged(M, h, m, f, r) ==
  \E g \in [HostRegs -> Word] :
    /\ Leads(1, M, StagedBase(r), St(h, m, f), St(g, m, f))
    /\ Base(r) \in HostRegs /\ g[Base(r)] = h[r]
    /\ \A q \in Guest : g[q] = h[q]

LEMMA StagedLeads ==
  ASSUME NEW M, NEW h \in [HostRegs -> Word], NEW m \in Memory, NEW f \in [Files -> Word],
         NEW r \in Guest
  PROVE  Staged(M, h, m, f, r)
<1>1. r \in HostRegs /\ SCRATCH \in HostRegs /\ SCRATCH \notin Guest /\ Guest \subseteq HostRegs
  BY Places
<1>2. CASE is_mem(r)
  <2> DEFINE g == [h EXCEPT ![SCRATCH] = h[r]]
  <2>1. /\ Leads(1, M, <<mov(Loc(SCRATCH), Loc(r))>>, St(h, m, f), St(g, m, f))
        /\ g \in [HostRegs -> Word]
    BY <1>1, MovLocs
  <2>2. g[SCRATCH] = h[r] /\ \A q \in Guest : g[q] = h[q]
    BY <1>1
  <2> HIDE DEF g
  <2>3. StagedBase(r) = <<mov(Loc(SCRATCH), Loc(r))>> /\ Base(r) = SCRATCH
    BY <1>2 DEF StagedBase, Base
  <2> QED
    BY <1>1, <2>1, <2>2, <2>3 DEF Staged
<1>3. CASE ~is_mem(r)
  <2>1. StagedBase(r) = <<>> /\ Base(r) = r
    BY <1>3 DEF StagedBase, Base
  <2>2. Leads(0, M, <<>>, St(h, m, f), St(h, m, f))
    BY States, LeadsNone
  <2>3. Leads(1, M, StagedBase(r), St(h, m, f), St(h, m, f))
    BY <2>1, <2>2 DEF Leads
  <2> QED
    BY <1>1, <2>1, <2>3 DEF Staged
<1> QED
  BY <1>2, <1>3

LEMMA AddLeads ==
  ASSUME NEW M, NEW h \in [HostRegs -> Word], NEW m \in Memory, NEW f \in [Files -> Word],
         NEW r \in Guest, NEW k \in Word
  PROVE  LET g == [h EXCEPT ![r] = Plus(h[r], k)]
         IN Leads(1, M, Add(r, k), St(h, m, f), St(g, m, f)) /\ g \in [HostRegs -> Word]
<1>1. r \in HostRegs
  BY Places
<1> DEFINE e == [at |-> "imm", v |-> k]
           v == Plus(h[r], k)
<1>2. Op("add", Loc(r), e) \in OpSet
  BY <1>1, Operations
<1>3. v \in Word
  BY <1>1, Sums
<1>4. Read(St(h, m, f), Loc(r)) = h[r] /\ Read(St(h, m, f), e) = k
  BY Reads
<1>5. Add(r, k) = <<Op("add", Loc(r), e)>>
  BY DEF Add
<1> HIDE DEF e
<1>6. Result(St(h, m, f), Op("add", Loc(r), e)) = v
  BY <1>4, Results
<1> HIDE DEF v
<1>7. /\ Leads(1, M, <<Op("add", Loc(r), e)>>, St(h, m, f), St([h EXCEPT ![r] = v], m, f))
      /\ [h EXCEPT ![r] = v] \in [HostRegs -> Word]
  BY <1>1, <1>2, <1>3, <1>6, ToLoc
<1> QED
  BY <1>5, <1>7 DEF v
-----------------------------------------------------------------------------
(***************************************************************************)
(* The translations, form by form.  Guest and host agree before.           *)
(***************************************************************************)
Agreeing ==
  /\ x \in [Guest -> Word] /\ mem \in Memory /\ sys \in [SysRegs -> Word]
  /\ host \in [HostRegs -> Word] /\ hmem = mem /\ file \in [Files -> Word]
  /\ \A r \in Guest : host[r] = x[r]

LEMMA Fields ==
  ASSUME NEW i \in Instrs
  PROVE  /\ i.rt \in Guest /\ i.rn \in Guest /\ i.rm \in Guest /\ i.rt2 \in Guest
         /\ i.imm \in Word /\ i.narrow \in BOOLEAN /\ i.scaled \in BOOLEAN
         /\ i.key \in SysRegs /\ i.kind \in Kinds /\ i.form \in Forms
         /\ i.option \in {"full", "zero", "sign"}
<1>1. i \in Instr
  BY InstrsAssumption
<1> QED
  BY <1>1 DEF Instr, Word

\* The two ways to the values of a load.
LEMMA LoadedWord ==
  ASSUME NEW i \in Instrs, NEW a \in Addr, mem \in Memory, Safe(i)
  PROVE  /\ Loaded(i, a) = Load(mem, a, i.narrow)
         /\ Loaded(i, a) \in Word
<1>1. Loaded(i, a) = Load(mem, a, i.narrow)
  BY DEF Loaded, Safe
<1> QED
  BY <1>1, Fields, Loads

\* One access of a single register, once the address is in place.
LEMMA AccessLeads ==
  ASSUME Agreeing, NEW i \in Instrs, Safe(i), ~Two(i), i.form \notin {"ext", "mrs", "msr"},
         Address(i) \in Addr, Based(i) \in [Guest -> Word], Based(i)[i.rt] = x[i.rt],
         NEW h \in [HostRegs -> Word], \A r \in Guest : h[r] = Based(i)[r],
         NEW o \in Mems, o.narrow = i.narrow,
         HostAddress(St(h, mem, file), o) = Address(i),
         i.kind = "store" /\ is_mem(i.rt) => o.base # SCRATCH
  PROVE  Reach(2, GuestMem(i), Access(i, o), h, mem, file, GuestX(i), GuestMem(i))
<1> DEFINE M == GuestMem(i)
           X == GuestX(i)
           B == Based(i)
           a == Address(i)
<1>1. i.rt \in Guest /\ i.rt # 31 /\ i.narrow \in BOOLEAN /\ i.kind \in {"store", "load"}
  BY Fields DEF Safe
<1>2. mem \in Memory /\ file \in [Files -> Word] /\ x \in [Guest -> Word]
  BY DEF Agreeing
<1>3. M = AccessedMem(i) /\ X = AccessedX(i)
  BY DEF GuestMem, GuestX
<1> HIDE DEF M, X, B, a
<1>4. CASE i.kind = "store"
  <2>1. X = B
    BY <1>3, <1>4 DEF AccessedX, B
  <2>2. M = Store(mem, a, i.narrow, x[i.rt])
    BY <1>1, <1>3, <1>4 DEF AccessedMem, Value, a
  <2>3. h[i.rt] = x[i.rt]
    BY <1>1
  <2>4. M = Store(mem, HostAddress(St(h, mem, file), o), o.narrow, h[i.rt])
    BY <2>2, <2>3 DEF a
  <2>5. Reach(2, M, ToMem(o, i.rt), h, mem, file, h, M)
    <3>1. \A c \in Addr : M[c] \in {mem[c], M[c]}
      OBVIOUS
    <3> QED
      BY <1>1, <1>2, <1>4, <2>4, <3>1, ToMemLeads
  <2>6. Access(i, o) = ToMem(o, i.rt)
    BY <1>4 DEF Access
  <2> QED
    BY <2>1, <2>5, <2>6 DEF M, X, B, Reach
<1>5. CASE i.kind = "load"
  <2> DEFINE v == Loaded(i, a)
  <2>1. X = [B EXCEPT ![i.rt] = v]
    BY <1>1, <1>3, <1>5 DEF AccessedX, Put, B, a
  <2>2. M = mem
    BY <1>3, <1>5 DEF AccessedMem
  <2>3. v = Load(mem, a, i.narrow) /\ v \in Word
    BY <1>2, LoadedWord DEF a
  <2> HIDE DEF v
  <2>4. Read(St(h, mem, file), o) = v
    BY <2>3, Reads DEF a
  <2>5. \A q \in HostRegs : load(q, o) \in OpSet
    BY Operations
  <2>6. X[i.rt] = v /\ \A q \in Guest : q # i.rt => X[q] = h[q]
    BY <1>1, <2>1 DEF B
  <2>7. Reach(2, M, FromMem(i.rt, o), h, mem, file, X, mem)
    BY <1>1, <1>2, <2>3, <2>4, <2>5, <2>6, FromMemLeads
  <2>8. Access(i, o) = FromMem(i.rt, o)
    BY <1>5 DEF Access
  <2> QED
    BY <2>2, <2>7, <2>8 DEF M, X
<1> QED
  BY <1>1, <1>4, <1>5

\* What the guest does in the end is what the translation of i leads to.
Translated(i) == Reach(6, GuestMem(i), translate(i), host, mem, file, GuestX(i), GuestMem(i))

LEMMA ImmRight ==
  ASSUME Agreeing, NEW i \in Instrs, Safe(i), i.form = "imm"
  PROVE  Translated(i)
<1>1. /\ i.rt \in Guest /\ i.rn \in Guest /\ i.rt # 31 /\ i.narrow \in BOOLEAN
      /\ i.imm \in Word
  BY Fields DEF Safe
<1>2. /\ ~Two(i) /\ i.form \notin {"ext", "mrs", "msr"} /\ Based(i) = x
      /\ Address(i) = Plus(x[i.rn], Offset(i))
  BY DEF Two, Based, Written, Address
<1>3. Offset(i) \in Word
  BY <1>1, Sums DEF Offset
<1>4. Address(i) \in Addr
  BY <1>1, <1>2, <1>3, Sums DEF Agreeing, Word, Addr
<1>5. PICK g \in [HostRegs -> Word] :
        /\ Leads(1, GuestMem(i), StagedBase(i.rn), St(host, mem, file), St(g, mem, file))
        /\ Base(i.rn) \in HostRegs /\ g[Base(i.rn)] = host[i.rn]
        /\ \A q \in Guest : g[q] = host[q]
  <2>1. Staged(GuestMem(i), host, mem, file, i.rn)
    BY <1>1, StagedLeads DEF Agreeing
  <2> QED
    BY <2>1 DEF Staged
<1> DEFINE o == At(Base(i.rn), Offset(i), i.narrow)
<1>6. translate(i) = StagedBase(i.rn) \o Access(i, o)
  BY DEF translate, UnsignedOffset, At
<1> HIDE DEF o
<1>7. /\ o \in Mems /\ HostAddress(St(g, mem, file), o) = Plus(g[Base(i.rn)], Offset(i))
      /\ o.base = Base(i.rn) /\ o.narrow = i.narrow
  BY <1>1, <1>3, <1>5, BaseAddress DEF o
<1>8. HostAddress(St(g, mem, file), o) = Address(i)
  BY <1>1, <1>2, <1>5, <1>7 DEF Agreeing
<1>9. \A r \in Guest : g[r] = Based(i)[r]
  BY <1>2, <1>5 DEF Agreeing
<1>10. i.kind = "store" /\ is_mem(i.rt) => o.base # SCRATCH
  <2>1. i.kind = "store" /\ is_mem(i.rt) => ~is_mem(i.rn)
    BY DEF Safe
  <2>2. i.rn # SCRATCH
    BY <1>1, Places
  <2> QED
    BY <1>7, <2>1, <2>2 DEF Base
<1>11. Reach(2, GuestMem(i), Access(i, o), g, mem, file, GuestX(i), GuestMem(i))
  BY <1>1, <1>2, <1>4, <1>7, <1>8, <1>9, <1>10, AccessLeads DEF Agreeing
<1> QED
  BY <1>5, <1>6, <1>11, ReachAfter DEF Translated

LEMMA IndexedRight ==
  ASSUME Agreeing, NEW i \in Instrs, Safe(i), Supported(i), i.form \in {"unscaled", "pre", "post"}
  PROVE  Translated(i)
<1>1. /\ i.rt \in Guest /\ i.rn \in Guest /\ i.rt # 31 /\ i.narrow \in BOOLEAN
      /\ i.imm \in Word /\ ~is_mem(i.rn)
  BY Fields DEF Safe, Supported
<1>2. ~Two(i) /\ i.form \notin {"ext", "mrs", "msr"}
  BY DEF Two
<1>3. x \in [Guest -> Word] /\ host \in [HostRegs -> Word] /\ mem \in Memory
      /\ file \in [Files -> Word] /\ \A r \in Guest : host[r] = x[r]
  BY DEF Agreeing
<1>4. Addr = Word /\ 0 \in Word /\ Plus(x[i.rn], i.imm) \in Word /\ Plus(x[i.rn], 0) = x[i.rn]
  <2>1. Addr = Word /\ 0 \in Word
    BY DEF Addr, Word
  <2>2. x[i.rn] \in Word
    BY <1>1, <1>3
  <2> QED
    BY <1>1, <2>1, <2>2, Sums
<1>5. i.rn \in HostRegs /\ i.rn # SCRATCH /\ Guest \subseteq HostRegs
  BY <1>1, Places
<1> DEFINE M == GuestMem(i)
           X == GuestX(i)
           add == [host EXCEPT ![i.rn] = Plus(host[i.rn], i.imm)]
<1>6. Leads(1, M, Add(i.rn, i.imm), St(host, mem, file), St(add, mem, file))
      /\ add \in [HostRegs -> Word]
  BY <1>1, <1>3, AddLeads
<1>7. CASE i.form = "unscaled"
  <2> DEFINE o == At(i.rn, i.imm, i.narrow)
  <2>1. Based(i) = x /\ Address(i) = Plus(x[i.rn], i.imm)
    BY <1>7 DEF Based, Written, Address, Offset
  <2>2. Address(i) \in Addr
    BY <1>4, <2>1
  <2>3. translate(i) = (<<>> \o Access(i, o)) \o <<>>
    BY <1>7 DEF translate, Indexed, At
  <2> HIDE DEF o
  <2>4. /\ o \in Mems /\ HostAddress(St(host, mem, file), o) = Plus(host[i.rn], i.imm)
        /\ o.base = i.rn /\ o.narrow = i.narrow
    BY <1>1, <1>3, <1>5, BaseAddress DEF o
  <2>5. Reach(2, M, Access(i, o), host, mem, file, X, M)
    BY <1>1, <1>2, <1>3, <1>5, <2>1, <2>2, <2>4, AccessLeads
  <2>6. Access(i, o) \in Seq(OpSet)
    BY <2>5 DEF Reach, Leads
  <2>7. translate(i) = Access(i, o)
    BY <2>3, <2>6
  <2> QED
    BY <2>5, <2>7, ReachMore DEF Translated
<1>8. CASE i.form = "pre"
  <2> DEFINE o == At(i.rn, 0, i.narrow)
  <2>1. /\ Based(i) = [x EXCEPT ![i.rn] = Plus(@, i.imm)]
        /\ Address(i) = Plus(x[i.rn], i.imm)
    BY <1>8 DEF Based, Written, Address, Offset
  <2>2. Address(i) \in Addr
    BY <1>4, <2>1
  <2>3. Based(i) \in [Guest -> Word] /\ Based(i)[i.rt] = x[i.rt]
    <3>1. i.rt # i.rn
      BY <1>8 DEF Safe
    <3> QED
      BY <1>1, <1>3, <1>4, <2>1, <2>2, <3>1
  <2>4. \A r \in Guest : add[r] = Based(i)[r]
    BY <1>1, <1>3, <1>5, <2>1
  <2>5. add[i.rn] = Address(i)
    BY <1>1, <1>3, <1>5, <2>1
  <2> HIDE DEF add
  <2>6. translate(i) = (Add(i.rn, i.imm) \o Access(i, o)) \o <<>>
    BY <1>8 DEF translate, Indexed, At
  <2> HIDE DEF o
  <2>7. /\ o \in Mems /\ HostAddress(St(add, mem, file), o) = Plus(add[i.rn], 0)
        /\ o.base = i.rn /\ o.narrow = i.narrow
    BY <1>1, <1>4, <1>5, <1>6, BaseAddress DEF o
  <2>8. HostAddress(St(add, mem, file), o) = Address(i)
    BY <1>4, <2>2, <2>5, <2>7, Sums
  <2>9. Reach(2, M, Access(i, o), add, mem, file, X, M)
    BY <1>1, <1>2, <1>3, <1>5, <1>6, <2>2, <2>3, <2>4, <2>7, <2>8, AccessLeads
  <2>10. Reach(6, M, Add(i.rn, i.imm) \o Access(i, o), host, mem, file, X, M)
    BY <1>6, <2>9, ReachAfter
  <2>11. Add(i.rn, i.imm) \o Access(i, o) \in Seq(OpSet)
    BY <2>10 DEF Reach, Leads
  <2> QED
    BY <2>6, <2>10, <2>11 DEF Translated
<1>9. CASE i.form = "post"
  <2>1. i.imm = 0
    BY <1>9 DEF Safe
  <2> DEFINE o == At(i.rn, 0, i.narrow)
  <2>2. Address(i) = x[i.rn]
    BY <1>9 DEF Address
  <2>3. Plus(x[i.rn], 0) = x[i.rn] /\ Address(i) \in Addr
    BY <1>1, <1>3, <1>4, <2>2
  <2>4. Based(i) = x
    BY <1>1, <1>3, <1>9, <2>1, <2>3 DEF Based, Written
  <2>5. translate(i) = (<<>> \o Access(i, o)) \o Add(i.rn, i.imm)
    BY <1>9, <2>1 DEF translate, Indexed, At
  <2> HIDE DEF o
  <2>6. /\ o \in Mems /\ HostAddress(St(host, mem, file), o) = Plus(host[i.rn], 0)
        /\ o.base = i.rn /\ o.narrow = i.narrow
    BY <1>1, <1>3, <1>4, <1>5, BaseAddress DEF o
  <2>7. HostAddress(St(host, mem, file), o) = Address(i)
    BY <1>1, <1>3, <2>2, <2>3, <2>6
  <2>8. Reach(2, M, Access(i, o), host, mem, file, X, M)
    BY <1>1, <1>2, <1>3, <1>5, <2>3, <2>4, <2>6, <2>7, AccessLeads
  <2>9. PICK g \in [HostRegs -> Word] :
           /\ Leads(2, M, Access(i, o), St(host, mem, file), St(g, M, file))
           /\ \A r \in Guest : g[r] = X[r]
    BY <2>8 DEF Reach
  <2>10. M \in Memory
    BY <2>9, LeadsEnds
  <2> DEFINE e == [g EXCEPT ![i.rn] = Plus(g[i.rn], i.imm)]
  <2>11. Leads(1, M, Add(i.rn, i.imm), St(g, M, file), St(e, M, file)) /\ e \in [HostRegs -> Word]
    BY <1>1, <1>3, <2>10, AddLeads
  <2>12. \A r \in Guest : e[r] = X[r]
    <3>1. Plus(g[i.rn], 0) = g[i.rn]
      BY <1>5, Sums
    <3> QED
      BY <1>5, <2>1, <2>9, <3>1
  <2> HIDE DEF e
  <2>13. Access(i, o) \in Seq(OpSet)
    BY <2>9 DEF Leads
  <2>14. translate(i) = Access(i, o) \o Add(i.rn, i.imm)
    BY <2>5, <2>13
  <2>15. Reach(1, M, Add(i.rn, i.imm), g, M, file, X, M)
    BY <2>11, <2>12 DEF Reach
  <2> QED
    BY <2>9, <2>14, <2>15, ReachAfter DEF Translated
<1> QED
  BY <1>7, <1>8, <1>9

\* The operand [b + index] or [b + 2*index].
Of(b, index, double, narrow) == Mem(b, index, double, 0, narrow)

LEMMA IndexAddress ==
  ASSUME NEW h \in [HostRegs -> Word], NEW m, NEW f, NEW b \in HostRegs, NEW index \in Guest,
         NEW double \in BOOLEAN, NEW narrow \in BOOLEAN
  PROVE  /\ Of(b, index, double, narrow) \in Mems
         /\ HostAddress(St(h, m, f), Of(b, index, double, narrow))
              = Plus(h[b], IF double THEN Plus(h[index], h[index]) ELSE h[index])
         /\ Of(b, index, double, narrow).base = b
         /\ Of(b, index, double, narrow).narrow = narrow
<1> DEFINE o == Of(b, index, double, narrow)
<1>1. o.base = b /\ o.narrow = narrow
  BY DEF Of, Mem
<1>2. o \in Mems /\ HostAddress(St(h, m, f), o)
                      = Plus(h[b], IF double THEN Plus(h[index], h[index]) ELSE h[index])
  BY Addresses DEF Of
<1> QED
  BY <1>1, <1>2

LEMMA RegRight ==
  ASSUME Agreeing, NEW i \in Instrs, Safe(i), Supported(i), i.form = "reg"
  PROVE  Translated(i)
<1>1. /\ i.rt \in Guest /\ i.rn \in Guest /\ i.rm \in Guest /\ i.narrow \in BOOLEAN
      /\ i.rm # 31 /\ i.option = "full" /\ ~is_mem(i.rn)
  BY Fields DEF Safe, Supported
<1>2. ~Two(i) /\ i.form \notin {"ext", "mrs", "msr"} /\ Based(i) = x
  BY DEF Two, Based, Written
<1>3. x \in [Guest -> Word] /\ host \in [HostRegs -> Word] /\ mem \in Memory
      /\ file \in [Files -> Word] /\ \A r \in Guest : host[r] = x[r]
  BY DEF Agreeing
<1>4. i.rn \in HostRegs /\ i.rn # SCRATCH
  BY <1>1, Places
<1> DEFINE double == i.scaled /\ ~i.narrow
           n == IF double THEN Plus(x[i.rm], x[i.rm]) ELSE x[i.rm]
<1>5. double \in BOOLEAN
  OBVIOUS
<1>6. Address(i) = Plus(x[i.rn], n)
  <2>1. Extended(Value(i.rm), i.option) = x[i.rm]
    BY <1>1 DEF Extended, Value
  <2>2. Index(i) = n
    BY <2>1 DEF Index
  <2> HIDE DEF n
  <2> QED
    BY <2>2 DEF Address
<1> DEFINE o == Of(i.rn, i.rm, double, i.narrow)
<1>7. translate(i) = Access(i, o)
  BY DEF translate, RegisterOffset, Of
<1> HIDE DEF double
<1>8. n \in Word
  BY <1>1, <1>3, <1>5, Sums
<1>9. host[i.rn] = x[i.rn] /\ host[i.rm] = x[i.rm]
  BY <1>1, <1>3
<1>10. /\ o \in Mems /\ HostAddress(St(host, mem, file), o) = Plus(host[i.rn], n)
       /\ o.base = i.rn /\ o.narrow = i.narrow
  BY <1>1, <1>3, <1>4, <1>5, <1>9, IndexAddress
<1> HIDE DEF o, n
<1>11. Address(i) \in Addr
  BY <1>1, <1>3, <1>6, <1>8, Sums DEF Addr, Word
<1>12. Reach(2, GuestMem(i), Access(i, o), host, mem, file, GuestX(i), GuestMem(i))
  BY <1>1, <1>2, <1>3, <1>4, <1>6, <1>9, <1>10, <1>11, AccessLeads
<1> QED
  BY <1>7, <1>12, ReachMore DEF Translated

LEMMA OrderedRight ==
  ASSUME Agreeing, NEW i \in Instrs, Safe(i), Supported(i), i.form = "ordered"
  PROVE  Translated(i)
<1>1. /\ i.rt \in Guest /\ i.rn \in Guest /\ i.narrow \in BOOLEAN
      /\ ~is_mem(i.rt) /\ ~is_mem(i.rn)
  BY Fields DEF Safe, Supported
<1>2. ~Two(i) /\ i.form \notin {"ext", "mrs", "msr"} /\ Based(i) = x /\ Address(i) = x[i.rn]
  BY DEF Two, Based, Written, Address
<1>3. x \in [Guest -> Word] /\ host \in [HostRegs -> Word] /\ mem \in Memory
      /\ file \in [Files -> Word] /\ \A r \in Guest : host[r] = x[r]
  BY DEF Agreeing
<1>4. i.rn \in HostRegs /\ i.rn # SCRATCH
  BY <1>1, Places
<1>5. Address(i) \in Addr /\ 0 \in Word /\ Plus(host[i.rn], 0) = Address(i)
  <2>1. x[i.rn] \in Word /\ host[i.rn] = x[i.rn] /\ Word = Addr /\ 0 \in Word
    BY <1>1, <1>3 DEF Word, Addr
  <2>2. Plus(x[i.rn], 0) = x[i.rn]
    BY <2>1, Sums
  <2> QED
    BY <1>2, <2>1, <2>2
<1> DEFINE o == At(i.rn, 0, i.narrow)
<1>6. translate(i) = Access(i, o)
  <2>1. Ordered(i) = IF i.kind = "store" THEN <<mov(o, Loc(i.rt))>> ELSE <<mov(Loc(i.rt), o)>>
    BY DEF Ordered, At
  <2>2. translate(i) = Ordered(i)
    BY DEF translate
  <2>3. load(i.rt, o) = mov(Loc(i.rt), o)
    BY DEF load, Narrow, Safe, At, Mem, mov
  <2> HIDE DEF o
  <2> QED
    BY <1>1, <2>1, <2>2, <2>3 DEF Access, ToMem, FromMem
<1>7. /\ o \in Mems /\ HostAddress(St(host, mem, file), o) = Plus(host[i.rn], 0)
      /\ o.base = i.rn /\ o.narrow = i.narrow
  BY <1>1, <1>3, <1>4, <1>5, BaseAddress
<1> HIDE DEF o
<1>8. Reach(2, GuestMem(i), Access(i, o), host, mem, file, GuestX(i), GuestMem(i))
  BY <1>1, <1>2, <1>3, <1>4, <1>5, <1>7, AccessLeads
<1> QED
  BY <1>6, <1>8, ReachMore DEF Translated
-----------------------------------------------------------------------------
(***************************************************************************)
(* The halves of a pair: the stack instead of the scratch register.        *)
(***************************************************************************)
HalfStore(r, o) == IF is_mem(r) THEN <<mov(Loc(Top), Loc(r)), mov(o, Loc(Top))>>
                   ELSE <<mov(o, Loc(r))>>
HalfLoad(r, o) == IF is_mem(r) THEN <<mov(Loc(Top), o), mov(Loc(r), Loc(Top))>>
                  ELSE <<mov(Loc(r), o)>>

\* The scratch register is tracked with the guest's.
ReachBase(n, M, ops, h, m, f, X, w) ==
  \E g \in [HostRegs -> Word] :
    /\ Leads(n, M, ops, St(h, m, f), St(g, w, f))
    /\ \A q \in HostRegs : q # Top => g[q] = X[q]

LEMMA HalfStoreLeads ==
  ASSUME NEW M, NEW h \in [HostRegs -> Word], NEW m \in Memory, NEW f \in [Files -> Word],
         NEW r \in Guest, NEW o \in Mems, o.base # Top,
         NEW n, n = Store(m, HostAddress(St(h, m, f), o), o.narrow, h[r]),
         \A c \in Addr : n[c] \in {m[c], M[c]}
  PROVE  ReachBase(2, M, HalfStore(r, o), h, m, f, h, n) /\ n \in Memory
<1>1. r \in HostRegs /\ Top \in HostRegs /\ Top \notin Guest /\ Guest \subseteq HostRegs
  BY Places
<1>2. CASE is_mem(r)
  <2> DEFINE g == [h EXCEPT ![Top] = h[r]]
  <2>1. /\ Leads(1, M, <<mov(Loc(Top), Loc(r))>>, St(h, m, f), St(g, m, f))
        /\ g \in [HostRegs -> Word]
    BY <1>1, MovLocs
  <2>2. g[Top] = h[r] /\ \A q \in HostRegs : q # Top => g[q] = h[q]
    BY <1>1
  <2> HIDE DEF g
  <2>3. HostAddress(St(g, m, f), o) = HostAddress(St(h, m, f), o)
    <3>1. o.base \in HostRegs /\ o.index \in Guest \cup {None}
      BY DEF Mems, Mem
    <3>2. g[o.base] = h[o.base]
      BY <2>2, <3>1
    <3>3. o.index # None => g[o.index] = h[o.index]
      BY <1>1, <2>2, <3>1
    <3> QED
      BY <3>2, <3>3 DEF HostAddress, St
  <2>4. Leads(1, M, <<mov(o, Loc(Top))>>, St(g, m, f), St(g, n, f)) /\ n \in Memory
    BY <1>1, <2>1, <2>2, <2>3, MovToMem
  <2>5. HalfStore(r, o) = <<mov(Loc(Top), Loc(r))>> \o <<mov(o, Loc(Top))>>
    BY <1>2 DEF HalfStore
  <2>6. Leads(1 + 1, M, HalfStore(r, o), St(h, m, f), St(g, n, f))
    BY <2>1, <2>4, <2>5, LeadsCat
  <2> QED
    BY <1>1, <2>1, <2>2, <2>4, <2>6 DEF ReachBase
<1>3. CASE ~is_mem(r)
  <2>1. Leads(1, M, <<mov(o, Loc(r))>>, St(h, m, f), St(h, n, f)) /\ n \in Memory
    BY <1>1, MovToMem
  <2>2. HalfStore(r, o) = <<mov(o, Loc(r))>>
    BY <1>3 DEF HalfStore
  <2>3. Leads(2, M, HalfStore(r, o), St(h, m, f), St(h, n, f))
    BY <2>1, <2>2 DEF Leads
  <2> QED
    BY <2>1, <2>3 DEF ReachBase
<1> QED
  BY <1>2, <1>3

LEMMA HalfLoadLeads ==
  ASSUME NEW M, NEW h \in [HostRegs -> Word], NEW m \in Memory, NEW f \in [Files -> Word],
         NEW r \in Guest, NEW o \in Mems,
         NEW X, X[r] \in Word, Read(St(h, m, f), o) = X[r],
         \A q \in HostRegs : q # Top /\ q # r => X[q] = h[q]
  PROVE  ReachBase(2, M, HalfLoad(r, o), h, m, f, X, m)
<1>1. /\ r \in HostRegs /\ Top \in HostRegs /\ Top \notin Guest /\ Guest \subseteq HostRegs
      /\ r # Top
  BY Places
<1>2. \A q \in HostRegs : mov(Loc(q), o) \in OpSet
  BY Operations
<1>3. CASE is_mem(r)
  <2> DEFINE one == [h EXCEPT ![Top] = X[r]]
             g == [one EXCEPT ![r] = one[Top]]
  <2>1. /\ Leads(1, M, <<mov(Loc(Top), o)>>, St(h, m, f), St(one, m, f))
        /\ one \in [HostRegs -> Word]
    BY <1>1, <1>2, MovToLoc
  <2>2. one[Top] = X[r] /\ \A q \in HostRegs : q # Top => one[q] = h[q]
    BY <1>1
  <2> HIDE DEF one
  <2>3. /\ Leads(1, M, <<mov(Loc(r), Loc(Top))>>, St(one, m, f), St(g, m, f))
        /\ g \in [HostRegs -> Word]
    BY <1>1, <2>1, MovLocs
  <2>4. \A q \in HostRegs : q # Top => g[q] = X[q]
    BY <1>1, <2>1, <2>2
  <2> HIDE DEF g
  <2>5. HalfLoad(r, o) = <<mov(Loc(Top), o)>> \o <<mov(Loc(r), Loc(Top))>>
    BY <1>3 DEF HalfLoad
  <2>6. Leads(1 + 1, M, HalfLoad(r, o), St(h, m, f), St(g, m, f))
    BY <2>1, <2>3, <2>5, LeadsCat
  <2> QED
    BY <2>3, <2>4, <2>6 DEF ReachBase
<1>4. CASE ~is_mem(r)
  <2> DEFINE g == [h EXCEPT ![r] = X[r]]
  <2>1. /\ Leads(1, M, <<mov(Loc(r), o)>>, St(h, m, f), St(g, m, f))
        /\ g \in [HostRegs -> Word]
    BY <1>1, <1>2, MovToLoc
  <2>2. \A q \in HostRegs : q # Top => g[q] = X[q]
    BY <1>1
  <2> HIDE DEF g
  <2>3. HalfLoad(r, o) = <<mov(Loc(r), o)>>
    BY <1>4 DEF HalfLoad
  <2>4. Leads(2, M, HalfLoad(r, o), St(h, m, f), St(g, m, f))
    BY <2>1, <2>3 DEF Leads
  <2> QED
    BY <2>1, <2>2, <2>4 DEF ReachBase
<1> QED
  BY <1>3, <1>4

LEMMA BaseAfter ==
  ASSUME NEW M, NEW p, NEW q, NEW h, NEW m, NEW f, NEW g, NEW u, NEW X, NEW w,
         Leads(1, M, p, St(h, m, f), St(g, u, f)), ReachBase(2, M, q, g, u, f, X, w)
  PROVE  ReachBase(3, M, p \o q, h, m, f, X, w)
<1>1. PICK e \in [HostRegs -> Word] :
        /\ Leads(2, M, q, St(g, u, f), St(e, w, f))
        /\ \A r \in HostRegs : r # Top => e[r] = X[r]
  BY DEF ReachBase
<1>2. Leads(1 + 2, M, p \o q, St(h, m, f), St(e, w, f))
  BY <1>1, LeadsCat
<1> QED
  BY <1>1, <1>2 DEF ReachBase

LEMMA PairRight ==
  ASSUME Agreeing, NEW i \in Instrs, Safe(i), i.form = "pair"
  PROVE  Translated(i)
<1>1. /\ i.rt \in Guest /\ i.rt2 \in Guest /\ i.rn \in Guest /\ i.imm \in Word
      /\ i.narrow = FALSE /\ i.narrow \in BOOLEAN /\ i.kind \in {"store", "load"}
      /\ i.rt # 31 /\ i.rt2 # 31
  BY Fields, InstrsAssumption DEF Safe
<1>2. x \in [Guest -> Word] /\ host \in [HostRegs -> Word] /\ mem \in Memory
      /\ file \in [Files -> Word] /\ \A r \in Guest : host[r] = x[r]
  BY DEF Agreeing
<1>3. /\ Top \in HostRegs /\ SCRATCH \in HostRegs /\ Guest \subseteq HostRegs /\ SCRATCH # Top
      /\ Top \notin Guest /\ SCRATCH \notin Guest
  BY Places
<1> DEFINE M == GuestMem(i)
           X == GuestX(i)
           b == Base(i.rn)
           a == Plus(x[i.rn], i.imm)
           d == Plus(a, 2)
           k == Plus(i.imm, 0)
           l == Plus(i.imm, 2)
           o == At(b, k, i.narrow)
           e == At(b, l, i.narrow)
           staged == StagedBase(i.rn)
<1>4. Addr = Word /\ 0 \in Word /\ 2 \in Word
  BY DEF Addr, Word
<1>5. x[i.rn] \in Word
  BY <1>1, <1>2
<1>6. a \in Addr /\ d \in Addr /\ k \in Word /\ l \in Word
  BY <1>1, <1>4, <1>5, Sums
<1>7. Plus(x[i.rn], k) = a /\ Plus(x[i.rn], l) = d
  <2>1. k = i.imm
    BY <1>1, Sums
  <2>2. Plus(Plus(x[i.rn], i.imm), 2) = Plus(x[i.rn], Plus(i.imm, 2))
    <3>1. \A p, q, r \in Word : Plus(Plus(p, q), r) = Plus(p, Plus(q, r))
      BY Sums
    <3>2. 2 \in Word
      BY DEF Word
    <3> QED
      BY <1>1, <1>5, <3>1, <3>2
  <2> QED
    BY <2>1, <2>2
<1>8. b \in HostRegs /\ b # Top
  BY <1>1, <1>3 DEF Base
<1>9. PICK one \in [HostRegs -> Word] :
        /\ Leads(1, M, staged, St(host, mem, file), St(one, mem, file))
        /\ one[b] = x[i.rn] /\ \A r \in Guest : one[r] = x[r]
  <2>1. Staged(M, host, mem, file, i.rn)
    BY <1>1, <1>2, StagedLeads
  <2> HIDE DEF M, staged, b
  <2>2. Staged(M, host, mem, file, i.rn)
          => \E g \in [HostRegs -> Word] :
               /\ Leads(1, M, staged, St(host, mem, file), St(g, mem, file))
               /\ g[b] = host[i.rn] /\ \A r \in Guest : g[r] = host[r]
    BY DEF Staged, staged, b
  <2> QED
    BY <1>1, <1>2, <2>1, <2>2 DEF M
<1> HIDE DEF a, d, k, l, o, e, b, staged
<1>10. \A g \in [HostRegs -> Word], m \in Memory : g[b] = x[i.rn] =>
          /\ o \in Mems /\ HostAddress(St(g, m, file), o) = a
          /\ o.base = b /\ o.narrow = FALSE
          /\ e \in Mems /\ HostAddress(St(g, m, file), e) = d
          /\ e.base = b /\ e.narrow = FALSE
  <2> SUFFICES ASSUME NEW g \in [HostRegs -> Word], NEW m \in Memory, g[b] = x[i.rn]
               PROVE  /\ o \in Mems /\ HostAddress(St(g, m, file), o) = a
                      /\ o.base = b /\ o.narrow = FALSE
                      /\ e \in Mems /\ HostAddress(St(g, m, file), e) = d
                      /\ e.base = b /\ e.narrow = FALSE
    OBVIOUS
  <2>1. /\ o \in Mems /\ HostAddress(St(g, m, file), o) = Plus(g[b], k)
        /\ o.base = b /\ o.narrow = i.narrow
    BY <1>1, <1>6, <1>8, BaseAddress DEF o
  <2>2. /\ e \in Mems /\ HostAddress(St(g, m, file), e) = Plus(g[b], l)
        /\ e.base = b /\ e.narrow = i.narrow
    BY <1>1, <1>6, <1>8, BaseAddress DEF e
  <2> QED
    BY <1>1, <1>7, <2>1, <2>2
<1>11. /\ Two(i) /\ Based(i) = x /\ Address(i) = a
       /\ M = AccessedMem(i) /\ X = AccessedX(i)
  BY DEF Two, Based, Written, Address, Offset, GuestMem, GuestX, a
<1>12. CASE i.kind = "store"
  <2> DEFINE n == Whole(mem, a, x[i.rt])
  <2>1. M = Whole(n, d, x[i.rt2]) /\ X = x
    BY <1>1, <1>11, <1>12 DEF AccessedMem, AccessedX, Value, Whole, d
  <2>2. translate(i) = (staged \o HalfStore(i.rt, o)) \o HalfStore(i.rt2, e)
    BY <1>1, <1>12 DEF translate, Pair, HalfStore, At, o, e, k, l, b, staged
  <2>3. x[i.rt] \in Word /\ x[i.rt2] \in Word
    BY <1>1, <1>2
  <2>4. \A c \in Addr : n[c] \in {mem[c], M[c]}
    BY <1>2, <1>6, <2>1, <2>3, StoredApart DEF d
  <2> HIDE DEF n, M, X
  <2>5. n = Store(mem, HostAddress(St(one, mem, file), o), o.narrow, one[i.rt])
    BY <1>1, <1>2, <1>9, <1>10 DEF n, Whole
  <2>6. o \in Mems /\ o.base # Top
    BY <1>2, <1>8, <1>9, <1>10
  <2>7. ReachBase(2, M, HalfStore(i.rt, o), one, mem, file, one, n) /\ n \in Memory
    BY <1>1, <1>2, <2>4, <2>5, <2>6, HalfStoreLeads
  <2>8. ReachBase(3, M, staged \o HalfStore(i.rt, o), host, mem, file, one, n)
    BY <1>9, <2>7, BaseAfter DEF M
  <2>9. PICK g \in [HostRegs -> Word] :
          /\ Leads(3, M, staged \o HalfStore(i.rt, o), St(host, mem, file), St(g, n, file))
          /\ \A q \in HostRegs : q # Top => g[q] = one[q]
    BY <2>8 DEF ReachBase
  <2>10. g[b] = x[i.rn] /\ \A r \in Guest : g[r] = x[r]
    BY <1>3, <1>8, <1>9, <2>9
  <2>11. M = Store(n, HostAddress(St(g, n, file), e), e.narrow, g[i.rt2])
    BY <1>1, <1>10, <2>1, <2>7, <2>10 DEF Whole
  <2>12. e \in Mems /\ e.base # Top
    BY <1>8, <1>10, <2>7, <2>10
  <2>13. \A c \in Addr : M[c] \in {n[c], M[c]}
    OBVIOUS
  <2>14. ReachBase(2, M, HalfStore(i.rt2, e), g, n, file, g, M)
    BY <1>1, <1>2, <2>7, <2>11, <2>12, <2>13, HalfStoreLeads
  <2>15. Reach(2, M, HalfStore(i.rt2, e), g, n, file, X, M)
    BY <1>3, <2>1, <2>10, <2>14 DEF Reach, ReachBase
  <2>16. Reach(6, M, translate(i), host, mem, file, X, M)
    BY <2>2, <2>9, <2>15, ReachAfter
  <2> QED
    BY <2>16 DEF Translated, M, X
<1>13. CASE i.kind = "load"
  <2> DEFINE v == Load(mem, a, FALSE)
             w == Load(mem, d, FALSE)
             Y == [one EXCEPT ![i.rt] = v]
             Z == [Y EXCEPT ![i.rt2] = w]
  <2>1. M = mem /\ X = [[x EXCEPT ![i.rt] = v] EXCEPT ![i.rt2] = w]
    <3>1. M = mem
      BY <1>11, <1>13 DEF AccessedMem
    <3>2. Loaded(i, a) = v
      BY <1>1, <1>13 DEF Loaded
    <3> HIDE DEF v, w, M, X
    <3>3. X = Put(Put(x, i.rt, v), i.rt2, w)
      BY <1>11, <1>13, <3>2 DEF AccessedX, w, d
    <3> QED
      BY <1>1, <3>1, <3>3 DEF Put
  <2>2. translate(i) = (staged \o HalfLoad(i.rt, o)) \o HalfLoad(i.rt2, e)
    BY <1>1, <1>13 DEF translate, Pair, HalfLoad, At, o, e, k, l, b, staged
  <2>3. v \in Word /\ w \in Word
    BY <1>1, <1>2, <1>6, Loads
  <2>4. i.rt \in HostRegs /\ i.rt2 \in HostRegs /\ i.rt # Top /\ i.rt2 # Top
    BY <1>1, <1>3
  <2>5. i.rt # b
    <3>1. i.rt # i.rn \/ is_mem(i.rn)
      BY <1>13 DEF Safe
    <3> QED
      BY <1>1, <1>3, <3>1 DEF b, Base
  <2>6. o \in Mems /\ HostAddress(St(one, mem, file), o) = a /\ o.narrow = FALSE
    BY <1>2, <1>9, <1>10
  <2>7. Read(St(one, mem, file), o) = v
    <3>1. Read(St(one, mem, file), o) = Load(mem, HostAddress(St(one, mem, file), o), o.narrow)
      BY <2>6, Reads
    <3> QED
      BY <2>6, <3>1
  <2> HIDE DEF v, w, M, X
  <2>8. Y \in [HostRegs -> Word] /\ Y[i.rt] = v
        /\ \A q \in HostRegs : q # i.rt => Y[q] = one[q]
    BY <2>3, <2>4
  <2>9. Z \in [HostRegs -> Word] /\ Z[i.rt2] = w
        /\ \A q \in HostRegs : q # i.rt2 => Z[q] = Y[q]
    <3> HIDE DEF Y
    <3> QED
      BY <2>3, <2>4, <2>8
  <2> HIDE DEF Y, Z
  <2>10. ReachBase(2, M, HalfLoad(i.rt, o), one, mem, file, Y, mem)
    BY <1>1, <1>2, <2>3, <2>6, <2>7, <2>8, HalfLoadLeads
  <2>11. ReachBase(3, M, staged \o HalfLoad(i.rt, o), host, mem, file, Y, mem)
    BY <1>9, <2>10, BaseAfter DEF M
  <2>12. PICK g \in [HostRegs -> Word] :
           /\ Leads(3, M, staged \o HalfLoad(i.rt, o), St(host, mem, file), St(g, mem, file))
           /\ \A q \in HostRegs : q # Top => g[q] = Y[q]
    BY <2>11 DEF ReachBase
  <2>13. g[b] = x[i.rn]
    BY <1>8, <1>9, <2>5, <2>8, <2>12
  <2>14. e \in Mems /\ HostAddress(St(g, mem, file), e) = d /\ e.narrow = FALSE
    BY <1>2, <1>10, <2>13
  <2>15. Read(St(g, mem, file), e) = w
    <3>1. Read(St(g, mem, file), e) = Load(mem, HostAddress(St(g, mem, file), e), e.narrow)
      BY <2>14, Reads
    <3> QED
      BY <2>14, <3>1 DEF w
  <2>16. \A q \in HostRegs : q # Top /\ q # i.rt2 => Z[q] = g[q]
    BY <2>9, <2>12
  <2>17. ReachBase(2, M, HalfLoad(i.rt2, e), g, mem, file, Z, mem)
    BY <1>1, <1>2, <2>3, <2>9, <2>14, <2>15, <2>16, HalfLoadLeads
  <2>18. \A r \in Guest : Z[r] = X[r]
    BY <1>1, <1>2, <1>3, <1>9, <2>1, <2>8, <2>9
  <2>19. Reach(2, M, HalfLoad(i.rt2, e), g, mem, file, X, mem)
    BY <1>3, <2>17, <2>18 DEF Reach, ReachBase
  <2>20. Reach(6, M, translate(i), host, mem, file, X, mem)
    BY <2>2, <2>12, <2>19, ReachAfter
  <2> QED
    BY <2>1, <2>20 DEF Translated, M, X
<1> QED
  BY <1>1, <1>12, <1>13
-----------------------------------------------------------------------------
(***************************************************************************)
(* The shadow file: the slots D hold the system registers S.               *)
(***************************************************************************)
SlotsRight(D) ==
  /\ DOMAIN D \subseteq SysRegs
  /\ \A k \in DOMAIN D : D[k] \in 0..Cardinality(DOMAIN D) - 1
  /\ \A j, k \in DOMAIN D : D[j] = D[k] => j = k

Filed(S, D, f) ==
  /\ \A k \in SysRegs : S[k] = IF k \in DOMAIN D THEN f[D[k] + 1] ELSE 0
  /\ \A n \in Files : n > Cardinality(DOMAIN D) => f[n] = 0

LEMMA HandedOut ==
  ASSUME SlotsRight(slots), NEW key \in SysRegs
  PROVE  LET D == sysreg_slot(key)
         IN /\ SlotsRight(D) /\ key \in DOMAIN D /\ D[key] \in Nat /\ D[key] + 1 \in Files
            /\ \A S, f : Filed(S, slots, f) => Filed(S, D, f)
<1> DEFINE D == sysreg_slot(key)
           n == Cardinality(DOMAIN slots)
           size == Cardinality(SysRegs)
<1>1. IsFiniteSet(DOMAIN slots) /\ n \in Nat /\ size \in Nat /\ n <= size
  BY FiniteAssumption, FS_Subset, FS_CardinalityType DEF SlotsRight
<1>2. CASE key \in DOMAIN slots
  <2>1. D = slots
    BY <1>2 DEF sysreg_slot, HandOut
  <2>2. slots[key] \in 0..n - 1
    BY <1>2 DEF SlotsRight
  <2> HIDE DEF D, n
  <2>3. slots[key] \in Nat /\ slots[key] + 1 \in Files
    <3> HIDE DEF size
    <3>1. slots[key] + 1 \in 1..size
      BY <1>1, <2>2
    <3> QED
      BY <1>1, <2>2, <3>1 DEF Files, size
  <2> QED
    BY <1>2, <2>1, <2>3 DEF D
<1>3. CASE key \notin DOMAIN slots
  <2>1. D = [k \in DOMAIN slots \cup {key} |-> IF k = key THEN n ELSE slots[k]]
    BY <1>3 DEF sysreg_slot, HandOut
  <2> HIDE DEF D
  <2>2. /\ DOMAIN D = DOMAIN slots \cup {key} /\ D[key] = n
        /\ \A k \in DOMAIN slots : D[k] = slots[k]
    BY <1>3, <2>1
  <2>3. Cardinality(DOMAIN D) = n + 1
    BY <1>1, <1>3, <2>2, FS_AddElement
  <2>4. DOMAIN D \subseteq SysRegs
    BY <2>2 DEF SlotsRight
  <2>5. n + 1 <= size
    BY <2>3, <2>4, FiniteAssumption, FS_Subset
  <2>6. \A k \in DOMAIN slots : slots[k] \in 0..n - 1
    BY DEF SlotsRight
  <2> HIDE DEF n, size
  <2>7. SlotsRight(D)
    <3>1. \A k \in DOMAIN D : D[k] \in 0..Cardinality(DOMAIN D) - 1
      BY <1>1, <2>2, <2>3, <2>6
    <3>2. \A j, k \in DOMAIN D : D[j] = D[k] => j = k
      <4>1. \A j, k \in DOMAIN slots : slots[j] = slots[k] => j = k
        BY DEF SlotsRight
      <4>2. \A k \in DOMAIN slots : D[k] # n
        BY <1>1, <2>2, <2>6
      <4> QED
        BY <2>2, <4>1, <4>2
    <3> QED
      BY <2>4, <3>1, <3>2 DEF SlotsRight
  <2>8. D[key] \in Nat /\ D[key] + 1 \in Files
    BY <1>1, <2>2, <2>5 DEF Files, size
  <2>9. ASSUME NEW S, NEW f, Filed(S, slots, f)
        PROVE  Filed(S, D, f)
    <3>1. f[n + 1] = 0
      BY <1>1, <2>2, <2>8, <2>9 DEF Filed, n
    <3>2. ASSUME NEW k \in SysRegs
          PROVE  S[k] = IF k \in DOMAIN D THEN f[D[k] + 1] ELSE 0
      BY <1>3, <2>2, <2>9, <3>1 DEF Filed
    <3>3. ASSUME NEW a \in Files, a > Cardinality(DOMAIN D)
          PROVE  f[a] = 0
      <4>1. a \in Nat
        BY DEF Files
      <4>2. a > n
        BY <1>1, <2>3, <3>3, <4>1
      <4> QED
        BY <2>9, <4>2 DEF Filed, n
    <3> QED
      BY <3>2, <3>3 DEF Filed
  <2> QED
    BY <2>2, <2>7, <2>8, <2>9 DEF D
<1> QED
  BY <1>2, <1>3

\* Register and slot change together.
LEMMA FiledTogether ==
  ASSUME NEW D, SlotsRight(D), NEW key \in DOMAIN D, D[key] + 1 \in Files,
         NEW S \in [SysRegs -> Word], NEW f \in [Files -> Word], NEW v, Filed(S, D, f)
  PROVE  Filed([S EXCEPT ![key] = v], D, [f EXCEPT ![D[key] + 1] = v])
<1> DEFINE T == [S EXCEPT ![key] = v]
           g == [f EXCEPT ![D[key] + 1] = v]
           n == Cardinality(DOMAIN D)
<1>1. /\ DOMAIN D \subseteq SysRegs
      /\ \A k \in DOMAIN D : D[k] \in 0..n - 1
      /\ \A j, k \in DOMAIN D : D[j] = D[k] => j = k
  BY DEF SlotsRight
<1>2. \A k \in SysRegs : T[k] = IF k = key THEN v ELSE S[k]
  OBVIOUS
<1>3. \A a \in Files : g[a] = IF a = D[key] + 1 THEN v ELSE f[a]
  OBVIOUS
<1>4. n \in Nat
  BY <1>1, FiniteAssumption, FS_Subset, FS_CardinalityType
<1> HIDE DEF T, g, n
<1>5. \A k \in DOMAIN D : D[k] + 1 \in Files
  <2>1. n <= Cardinality(SysRegs) /\ Cardinality(SysRegs) \in Nat
    BY <1>1, FiniteAssumption, FS_Subset, FS_CardinalityType DEF n
  <2> QED
    BY <1>1, <1>4, <2>1 DEF Files
<1>6. ASSUME NEW k \in SysRegs
      PROVE  T[k] = IF k \in DOMAIN D THEN g[D[k] + 1] ELSE 0
  <2>1. CASE k = key
    BY <1>2, <1>3, <1>5, <2>1
  <2>2. CASE k # key /\ k \in DOMAIN D
    <3>1. D[k] # D[key] /\ D[k] \in 0..n - 1 /\ D[key] \in 0..n - 1
      BY <1>1, <2>2
    <3>2. D[k] + 1 # D[key] + 1
      BY <1>4, <3>1
    <3>3. S[k] = f[D[k] + 1]
      BY <2>2 DEF Filed
    <3> QED
      BY <1>2, <1>3, <1>5, <2>2, <3>2, <3>3
  <2>3. CASE k \notin DOMAIN D
    BY <1>2, <2>3 DEF Filed
  <2> QED
    BY <2>1, <2>2, <2>3
<1>7. ASSUME NEW a \in Files, a > n
      PROVE  g[a] = 0
  <2>1. a # D[key] + 1
    BY <1>1, <1>4, <1>7 DEF Files
  <2>2. f[a] = 0
    BY <1>7 DEF Filed, n
  <2> QED
    BY <1>3, <2>1, <2>2
<1> QED
  BY <1>6, <1>7 DEF Filed, T, g, n

\* ToMem to a slot.
ReachFile(M, ops, h, m, f, e) ==
  \E g \in [HostRegs -> Word] :
    /\ Leads(2, M, ops, St(h, m, f), St(g, m, e))
    /\ \A q \in Guest : g[q] = h[q]

LEMMA ToFileLeads ==
  ASSUME NEW M, NEW h \in [HostRegs -> Word], NEW m \in Memory, NEW f \in [Files -> Word],
         NEW r \in Guest, NEW n \in Nat,
         NEW e, e = [f EXCEPT ![n + 1] = h[r]]
  PROVE  ReachFile(M, ToMem(Slot(n), r), h, m, f, e)
<1>1. r \in HostRegs /\ SCRATCH \in HostRegs /\ SCRATCH \notin Guest /\ Guest \subseteq HostRegs
  BY Places
<1>2. CASE is_mem(r)
  <2> DEFINE g == [h EXCEPT ![SCRATCH] = h[r]]
             d == [f EXCEPT ![n + 1] = g[SCRATCH]]
  <2>1. /\ Leads(1, M, <<mov(Loc(SCRATCH), Loc(r))>>, St(h, m, f), St(g, m, f))
        /\ g \in [HostRegs -> Word]
    BY <1>1, MovLocs
  <2>2. g[SCRATCH] = h[r] /\ \A q \in Guest : g[q] = h[q]
    BY <1>1
  <2>3. d = e
    BY <2>2
  <2> HIDE DEF g
  <2>4. Leads(1, M, <<mov(Slot(n), Loc(SCRATCH))>>, St(g, m, f), St(g, m, d))
    BY <1>1, <2>1, MovToFile
  <2> HIDE DEF d
  <2>5. ToMem(Slot(n), r) = <<mov(Loc(SCRATCH), Loc(r))>> \o <<mov(Slot(n), Loc(SCRATCH))>>
    BY <1>2 DEF ToMem
  <2>6. Leads(1 + 1, M, ToMem(Slot(n), r), St(h, m, f), St(g, m, e))
    BY <2>1, <2>3, <2>4, <2>5, LeadsCat
  <2> QED
    BY <2>1, <2>2, <2>6 DEF ReachFile
<1>3. CASE ~is_mem(r)
  <2>1. Leads(1, M, <<mov(Slot(n), Loc(r))>>, St(h, m, f), St(h, m, e))
    BY <1>1, MovToFile
  <2>2. ToMem(Slot(n), r) = <<mov(Slot(n), Loc(r))>>
    BY <1>3 DEF ToMem
  <2>3. Leads(2, M, ToMem(Slot(n), r), St(h, m, f), St(h, m, e))
    BY <2>1, <2>2 DEF Leads
  <2> QED
    BY <2>3 DEF ReachFile
<1> QED
  BY <1>2, <1>3
-----------------------------------------------------------------------------
(***************************************************************************)
(* Every instruction of a safe translation assembles.                      *)
(***************************************************************************)
Good == {a \in OpSet : Assembles(a)}

\* A host register, the scratch register or the top of the stack.
InRegister(r) == r \in HostRegs /\ (r = Top \/ ~is_mem(r))

LEMMA GoodOps ==
  /\ \A r, q \in HostRegs : InRegister(r) \/ InRegister(q) => mov(Loc(r), Loc(q)) \in Good
  /\ \A r \in HostRegs, o \in Mems :
       InRegister(r) => /\ load(r, o) \in Good
                        /\ ~o.narrow => mov(Loc(r), o) \in Good /\ mov(o, Loc(r)) \in Good
  /\ \A r \in HostRegs, n \in Nat :
       InRegister(r) => load(r, Slot(n)) \in Good /\ mov(Slot(n), Loc(r)) \in Good
  /\ \A r \in HostRegs, k \in Word : Op("add", Loc(r), [at |-> "imm", v |-> k]) \in Good
<1>1. \A r : /\ ~Narrow(Loc(r)) /\ (InRegister(r) => ~InMemory(Loc(r)))
  BY DEF Narrow, InMemory, InRegister, Loc
<1>2. \A o \in Mems : Narrow(o) <=> o.narrow
  BY DEF Narrow, Mems, Mem
<1>3. \A n : ~Narrow(Slot(n))
  BY DEF Narrow, Slot
<1>4. \A op, d, e : /\ Op(op, d, e).op = op /\ Op(op, d, e).dst = d /\ Op(op, d, e).src = e
  BY DEF Op
<1>5. \A d, e : /\ Assembles(mov(d, e)) <=> /\ ~Narrow(d) /\ ~Narrow(e)
                                            /\ ~(InMemory(d) /\ InMemory(e))
                /\ Assembles(Op("add", d, e))
                /\ Assembles(Op("movzx", d, e))
  BY <1>4 DEF Assembles, mov
<1>6. \A r, e : InRegister(r) => Assembles(load(r, e))
  <2> TAKE r, e
  <2>1. CASE Narrow(e)
    BY <1>5, <2>1 DEF load
  <2>2. CASE ~Narrow(e)
    <3>1. load(r, e) = mov(Loc(r), e)
      BY <2>2 DEF load, mov
    <3> QED
      BY <1>1, <1>5, <2>2, <3>1
  <2> QED
    BY <2>1, <2>2
<1>7. \A r, q \in HostRegs : InRegister(r) \/ InRegister(q) => mov(Loc(r), Loc(q)) \in Good
  BY <1>1, <1>5, Operations DEF Good
<1>8. \A r \in HostRegs, o \in Mems :
        InRegister(r) => /\ load(r, o) \in Good
                         /\ ~o.narrow => mov(Loc(r), o) \in Good /\ mov(o, Loc(r)) \in Good
  BY <1>1, <1>2, <1>5, <1>6, Operations DEF Good
<1>9. \A r \in HostRegs, n \in Nat :
        InRegister(r) => load(r, Slot(n)) \in Good /\ mov(Slot(n), Loc(r)) \in Good
  BY <1>1, <1>3, <1>5, <1>6, Operations DEF Good
<1>10. \A r \in HostRegs, k \in Word : Op("add", Loc(r), [at |-> "imm", v |-> k]) \in Good
  BY <1>5, Operations DEF Good
<1> QED
  BY <1>7, <1>8, <1>9, <1>10

\* The lists the translations are put together from.
LEMMA GoodLists ==
  /\ <<>> \in Seq(Good)
  /\ \A a \in Good : <<a>> \in Seq(Good)
  /\ \A a, b \in Good : <<a, b>> \in Seq(Good)
  /\ \A p, q \in Seq(Good) : p \o q \in Seq(Good)
  OBVIOUS

LEMMA GoodBlocks ==
  ASSUME NEW r \in Guest
  PROVE  /\ InRegister(SCRATCH) /\ InRegister(Top) /\ (InRegister(r) <=> ~is_mem(r))
         /\ StagedBase(r) \in Seq(Good)
         /\ \A k \in Word : Add(r, k) \in Seq(Good)
         /\ \A o \in Mems : FromMem(r, o) \in Seq(Good)
         /\ \A o \in Mems : ~o.narrow => ToMem(o, r) \in Seq(Good)
         /\ \A n \in Nat : FromMem(r, Slot(n)) \in Seq(Good) /\ ToMem(Slot(n), r) \in Seq(Good)
         /\ \A o \in Mems : ~o.narrow => /\ HalfStore(r, o) \in Seq(Good)
                                         /\ HalfLoad(r, o) \in Seq(Good)
<1>1. r \in HostRegs /\ SCRATCH \in HostRegs /\ Top \in HostRegs /\ r # Top /\ r # SCRATCH
  BY Places
<1>2. InRegister(SCRATCH) /\ InRegister(Top) /\ (InRegister(r) <=> ~is_mem(r))
  BY <1>1 DEF InRegister, is_mem
<1>3. mov(Loc(SCRATCH), Loc(r)) \in Good /\ mov(Loc(r), Loc(SCRATCH)) \in Good
  BY <1>1, <1>2, GoodOps
<1>4. mov(Loc(Top), Loc(r)) \in Good /\ mov(Loc(r), Loc(Top)) \in Good
  BY <1>1, <1>2, GoodOps
<1>5. StagedBase(r) \in Seq(Good)
  BY <1>3, GoodLists DEF StagedBase
<1>6. \A k \in Word : Add(r, k) \in Seq(Good)
  BY <1>1, GoodOps, GoodLists DEF Add
<1>7. \A o \in Mems : FromMem(r, o) \in Seq(Good)
  <2> TAKE o \in Mems
  <2>1. load(SCRATCH, o) \in Good /\ (~is_mem(r) => load(r, o) \in Good)
    BY <1>1, <1>2, GoodOps
  <2> QED
    BY <1>3, <2>1, GoodLists DEF FromMem
<1>8. ASSUME NEW o \in Mems, ~o.narrow
      PROVE  /\ ToMem(o, r) \in Seq(Good)
             /\ HalfStore(r, o) \in Seq(Good) /\ HalfLoad(r, o) \in Seq(Good)
  <2>1. /\ mov(o, Loc(SCRATCH)) \in Good /\ mov(o, Loc(Top)) \in Good
        /\ mov(Loc(Top), o) \in Good
        /\ ~is_mem(r) => mov(o, Loc(r)) \in Good /\ mov(Loc(r), o) \in Good
    BY <1>1, <1>2, <1>8, GoodOps
  <2>2. ToMem(o, r) \in Seq(Good)
    BY <1>3, <2>1, GoodLists DEF ToMem
  <2>3. HalfStore(r, o) \in Seq(Good) /\ HalfLoad(r, o) \in Seq(Good)
    BY <1>4, <2>1, GoodLists DEF HalfStore, HalfLoad
  <2> QED
    BY <2>2, <2>3
<1>9. ASSUME NEW n \in Nat
      PROVE  FromMem(r, Slot(n)) \in Seq(Good) /\ ToMem(Slot(n), r) \in Seq(Good)
  <2>1. /\ load(SCRATCH, Slot(n)) \in Good /\ mov(Slot(n), Loc(SCRATCH)) \in Good
        /\ ~is_mem(r) => load(r, Slot(n)) \in Good /\ mov(Slot(n), Loc(r)) \in Good
    BY <1>1, <1>2, GoodOps
  <2>2. FromMem(r, Slot(n)) \in Seq(Good)
    BY <1>3, <2>1, GoodLists DEF FromMem
  <2>3. ToMem(Slot(n), r) \in Seq(Good)
    BY <1>3, <2>1, GoodLists DEF ToMem
  <2> QED
    BY <2>2, <2>3
<1> QED
  BY <1>2, <1>5, <1>6, <1>7, <1>8, <1>9

\* One access of a single register.
LEMMA GoodAccess ==
  ASSUME NEW i \in Instrs, Safe(i), NEW o \in Mems, o.narrow = i.narrow
  PROVE  Access(i, o) \in Seq(Good)
<1>1. i.rt \in Guest
  BY Fields
<1>2. CASE i.kind = "store"
  <2>1. ~o.narrow
    BY <1>2 DEF Safe
  <2>2. Access(i, o) = ToMem(o, i.rt)
    BY <1>2 DEF Access
  <2> QED
    BY <1>1, <2>1, <2>2, GoodBlocks
<1>3. CASE i.kind # "store"
  <2>1. Access(i, o) = FromMem(i.rt, o)
    BY <1>3 DEF Access
  <2> QED
    BY <1>1, <2>1, GoodBlocks
<1> QED
  BY <1>2, <1>3

LEMMA TranslatedGood ==
  ASSUME SlotsRight(slots), Filed(sys, slots, file), sys \in [SysRegs -> Word],
         file \in [Files -> Word],
         NEW i \in Instrs, Safe(i), Supported(i)
  PROVE  translate(i) \in Seq(Good)
<1>1. /\ i.rt \in Guest /\ i.rn \in Guest /\ i.rm \in Guest /\ i.rt2 \in Guest
      /\ i.imm \in Word /\ i.narrow \in BOOLEAN /\ i.scaled \in BOOLEAN /\ i.key \in SysRegs
      /\ i.form \in Forms
  BY Fields
<1>2. None \in Guest \cup {None} /\ Guest \subseteq HostRegs /\ SCRATCH \in HostRegs
  BY Places
<1>3. Base(i.rn) \in HostRegs
  BY <1>1, <1>2 DEF Base
<1> DEFINE no == FALSE
<1>4. no \in BOOLEAN /\ 0 \in Word
  BY DEF Word
<1>5. CASE i.form = "imm"
  <2> DEFINE o == Mem(Base(i.rn), None, FALSE, Offset(i), i.narrow)
  <2>1. Offset(i) \in Word
    BY <1>1, Sums DEF Offset
  <2>2. o \in Mems /\ o.narrow = i.narrow
    BY <1>1, <1>3, <2>1, BaseIsMem DEF At
  <2>3. translate(i) = StagedBase(i.rn) \o Access(i, o)
    BY <1>5 DEF translate, UnsignedOffset
  <2> HIDE DEF o
  <2> QED
    BY <1>1, <2>2, <2>3, GoodAccess, GoodBlocks, GoodLists
<1>6. CASE i.form \in {"unscaled", "pre", "post"}
  <2> DEFINE k == IF i.form = "pre" THEN 0 ELSE i.imm
             o == Mem(i.rn, None, FALSE, k, i.narrow)
             before == IF i.form = "pre" THEN Add(i.rn, i.imm) ELSE <<>>
             after == IF i.form = "post" THEN Add(i.rn, i.imm) ELSE <<>>
  <2>1. k \in Word
    BY <1>1, <1>4
  <2>2. translate(i) = before \o Access(i, o) \o after
    BY <1>6 DEF translate, Indexed
  <2> HIDE DEF k
  <2>3. o \in Mems /\ o.narrow = i.narrow
    BY <1>1, <1>2, <2>1, BaseIsMem DEF At
  <2>4. before \in Seq(Good) /\ after \in Seq(Good)
    BY <1>1, GoodBlocks, GoodLists
  <2> HIDE DEF o, before, after
  <2>5. Access(i, o) \in Seq(Good)
    BY <2>3, GoodAccess
  <2>6. before \o Access(i, o) \in Seq(Good)
    BY <2>4, <2>5, GoodLists
  <2> QED
    BY <2>2, <2>4, <2>6, GoodLists
<1>7. CASE i.form = "reg"
  <2> DEFINE double == i.scaled /\ ~i.narrow
             o == Mem(i.rn, i.rm, double, 0, i.narrow)
  <2>1. translate(i) = Access(i, o)
    BY <1>7 DEF translate, RegisterOffset
  <2>2. double \in BOOLEAN /\ o.narrow = i.narrow
    BY DEF Mem
  <2> HIDE DEF double
  <2>3. o \in Mems
    BY <1>1, <1>2, <1>4, <2>2, MemIs
  <2> HIDE DEF o
  <2> QED
    BY <2>1, <2>2, <2>3, GoodAccess
<1>8. CASE i.form = "pair"
  <2> DEFINE m(k) == Mem(Base(i.rn), None, FALSE, Plus(i.imm, k), FALSE)
  <2>1. \A k \in Word : m(k) \in Mems /\ ~m(k).narrow
    <3> TAKE k \in Word
    <3>1. Plus(i.imm, k) \in Word
      BY <1>1, Sums
    <3> QED
      BY <1>3, <1>4, <3>1, BaseIsMem DEF At
  <2>2. translate(i) = IF i.kind = "store"
                       THEN StagedBase(i.rn) \o HalfStore(i.rt, m(0)) \o HalfStore(i.rt2, m(2))
                       ELSE StagedBase(i.rn) \o HalfLoad(i.rt, m(0)) \o HalfLoad(i.rt2, m(2))
    BY <1>8 DEF translate, Pair, HalfStore, HalfLoad
  <2>3. 0 \in Word /\ 2 \in Word
    BY DEF Word
  <2> HIDE DEF m
  <2>4. /\ HalfStore(i.rt, m(0)) \in Seq(Good) /\ HalfStore(i.rt2, m(2)) \in Seq(Good)
        /\ HalfLoad(i.rt, m(0)) \in Seq(Good) /\ HalfLoad(i.rt2, m(2)) \in Seq(Good)
    BY <1>1, <2>1, <2>3, GoodBlocks
  <2>5. StagedBase(i.rn) \in Seq(Good)
    BY <1>1, GoodBlocks
  <2>6. /\ StagedBase(i.rn) \o HalfStore(i.rt, m(0)) \in Seq(Good)
        /\ StagedBase(i.rn) \o HalfLoad(i.rt, m(0)) \in Seq(Good)
    BY <2>4, <2>5, GoodLists
  <2> QED
    BY <2>2, <2>4, <2>6, GoodLists
<1>9. CASE i.form = "ordered"
  <2> DEFINE o == Mem(i.rn, None, FALSE, 0, i.narrow)
  <2>1. o \in Mems /\ o.narrow = i.narrow
    BY <1>1, <1>2, <1>4, BaseIsMem DEF At
  <2>2. ~i.narrow /\ InRegister(i.rt) /\ i.rt \in HostRegs
    BY <1>1, <1>2, <1>9, GoodBlocks DEF Safe
  <2>3. translate(i) = IF i.kind = "store" THEN <<mov(o, Loc(i.rt))>> ELSE <<mov(Loc(i.rt), o)>>
    BY <1>9 DEF translate, Ordered
  <2> HIDE DEF o
  <2>4. mov(o, Loc(i.rt)) \in Good /\ mov(Loc(i.rt), o) \in Good
    BY <2>1, <2>2, GoodOps
  <2> QED
    BY <2>3, <2>4, GoodLists
<1>10. CASE i.form \in {"mrs", "msr"}
  <2> DEFINE n == sysreg_slot(i.key)[i.key]
  <2>1. n \in Nat
    BY <1>1, HandedOut
  <2>2. translate(i) = FromMem(i.rt, Slot(n)) \/ translate(i) = ToMem(Slot(n), i.rt)
    BY <1>10 DEF translate, SystemRegister
  <2> HIDE DEF n
  <2> QED
    BY <1>1, <2>1, <2>2, GoodBlocks
<1> QED
  BY <1>1, <1>5, <1>6, <1>7, <1>8, <1>9, <1>10 DEF Forms, Safe
-----------------------------------------------------------------------------
(***************************************************************************)
(* The inductive invariant: whatever is left of a translation leads to the *)
(* guest's registers, memory and system registers.                         *)
(***************************************************************************)
Types ==
  /\ x \in [Guest -> Word] /\ mem \in Memory /\ sys \in [SysRegs -> Word]
  /\ host \in [HostRegs -> Word] /\ hmem \in Memory /\ file \in [Files -> Word]
  /\ SlotsRight(slots) /\ count \in 0..MaxInstrs

Final(s, M, ops, X, S, D) ==
  \E g \in [HostRegs -> Word], e \in [Files -> Word] :
    /\ Leads(6, M, ops, s, St(g, M, e))
    /\ \A r \in Guest : g[r] = X[r]
    /\ Filed(S, D, e)

IInv == Types /\ pend \in Seq(Good) /\ Final(St(host, hmem, file), mem, pend, x, sys, slots)

\* After a translation.
LEMMA Settled ==
  ASSUME IInv, pend = <<>>
  PROVE  Agreeing /\ Filed(sys, slots, file)
<1>1. PICK g \in [HostRegs -> Word], e \in [Files -> Word] :
        /\ Leads(6, mem, pend, St(host, hmem, file), St(g, mem, e))
        /\ \A r \in Guest : g[r] = x[r]
        /\ Filed(sys, slots, e)
  BY DEF IInv, Final
<1>2. St(host, hmem, file) = St(g, mem, e)
  BY <1>1, LeadsNowhere
<1>3. host = g /\ hmem = mem /\ file = e
  BY <1>2 DEF St
<1> QED
  BY <1>1, <1>3 DEF Agreeing, IInv, Types

\* The guest's instruction assigns registers and nothing else.
LEMMA GuestDomain ==
  ASSUME x \in [Guest -> Word], NEW i \in Instrs
  PROVE  \E V : GuestX(i) \in [Guest -> V]
<1>1. i.rt \in Guest /\ i.rt2 \in Guest /\ i.rn \in Guest
  BY Fields
<1> DEFINE a == Loaded(i, Address(i))
           b == Load(mem, Plus(Address(i), 2), FALSE)
           c == Plus(x[i.rn], i.imm)
           V == Word \cup {a, b, c, Sum(i), sys[i.key]}
<1>2. \A f \in [Guest -> V], r \in Guest, v \in V :
        [f EXCEPT ![r] = v] \in [Guest -> V] /\ Put(f, r, v) \in [Guest -> V]
  BY DEF Put
<1>3. /\ x \in [Guest -> V] /\ a \in V /\ b \in V /\ c \in V /\ Sum(i) \in V
      /\ sys[i.key] \in V
  OBVIOUS
<1>4. Based(i) \in [Guest -> V]
  <2>1. Based(i) = IF Written(i) THEN [x EXCEPT ![i.rn] = c] ELSE x
    BY DEF Based
  <2> HIDE DEF c, V
  <2> QED
    BY <1>1, <1>2, <1>3, <2>1
<1>5. AccessedX(i) = IF i.kind \in {"store", "prefetch"} THEN Based(i)
                     ELSE IF Two(i) THEN Put(Put(Based(i), i.rt, a), i.rt2, b)
                     ELSE Put(Based(i), i.rt, a)
  BY DEF AccessedX
<1> HIDE DEF a, b, c, V
<1>6. AccessedX(i) \in [Guest -> V]
  <2>1. Put(Based(i), i.rt, a) \in [Guest -> V]
    BY <1>1, <1>2, <1>3, <1>4
  <2>2. Put(Put(Based(i), i.rt, a), i.rt2, b) \in [Guest -> V]
    BY <1>1, <1>2, <1>3, <2>1
  <2> QED
    BY <1>4, <1>5, <2>1, <2>2
<1>7. CASE i.form = "ext"
  <2>1. GuestX(i) = IF i.rt = 31 /\ i.scaled THEN x ELSE [x EXCEPT ![i.rt] = Sum(i)]
    BY <1>7 DEF GuestX
  <2>2. [x EXCEPT ![i.rt] = Sum(i)] \in [Guest -> V]
    BY <1>1, <1>3
  <2> QED
    BY <1>3, <2>1, <2>2
<1>8. CASE i.form = "mrs"
  <2>1. GuestX(i) = Put(x, i.rt, sys[i.key])
    BY <1>8 DEF GuestX
  <2>2. Put(x, i.rt, sys[i.key]) \in [Guest -> V]
    BY <1>1, <1>3 DEF Put
  <2> QED
    BY <2>1, <2>2
<1>9. CASE i.form = "msr"
  BY <1>3, <1>9 DEF GuestX
<1>10. CASE i.form \notin {"ext", "mrs", "msr"}
  BY <1>6, <1>10 DEF GuestX
<1> QED
  BY <1>7, <1>8, <1>9, <1>10

\* A translation that leaves the shadow file alone.
LEMMA TranslatedFinal ==
  ASSUME Agreeing, NEW i \in Instrs, Translated(i), NEW D, Filed(sys, D, file)
  PROVE  /\ Final(St(host, hmem, file), GuestMem(i), translate(i), GuestX(i), sys, D)
         /\ GuestMem(i) \in Memory /\ GuestX(i) \in [Guest -> Word]
<1> DEFINE M == GuestMem(i)
           X == GuestX(i)
<1>1. PICK g \in [HostRegs -> Word] :
        /\ Leads(6, M, translate(i), St(host, mem, file), St(g, M, file))
        /\ \A r \in Guest : g[r] = X[r]
  BY DEF Translated, Reach
<1>2. M \in Memory
  BY <1>1, LeadsEnds
<1>3. PICK V : X \in [Guest -> V]
  BY GuestDomain DEF Agreeing
<1>4. hmem = mem /\ file \in [Files -> Word]
  BY DEF Agreeing
<1> HIDE DEF M, X
<1>5. X \in [Guest -> Word]
  BY <1>1, <1>3, Places
<1>6. Final(St(host, hmem, file), M, translate(i), X, sys, D)
  BY <1>1, <1>4 DEF Final
<1> QED
  BY <1>2, <1>5, <1>6 DEF M, X

\* MRS reads the register from its slot.
LEMMA MrsRight ==
  ASSUME Agreeing, SlotsRight(slots), Filed(sys, slots, file),
         NEW i \in Instrs, Safe(i), i.form = "mrs"
  PROVE  Translated(i) /\ Filed(sys, sysreg_slot(i.key), file)
<1> DEFINE D == sysreg_slot(i.key)
           n == D[i.key]
           X == GuestX(i)
<1>1. i.rt \in Guest /\ i.rt # 31 /\ i.key \in SysRegs
  BY Fields DEF Safe
<1>2. /\ x \in [Guest -> Word] /\ host \in [HostRegs -> Word] /\ mem \in Memory
      /\ sys \in [SysRegs -> Word] /\ file \in [Files -> Word]
      /\ \A r \in Guest : host[r] = x[r]
  BY DEF Agreeing
<1>3. i.key \in DOMAIN D /\ n \in Nat /\ n + 1 \in Files /\ Filed(sys, D, file)
  BY <1>1, HandedOut
<1>4. translate(i) = FromMem(i.rt, Slot(n))
  BY DEF translate, SystemRegister
<1>5. X = [x EXCEPT ![i.rt] = sys[i.key]] /\ GuestMem(i) = mem
  BY <1>1 DEF GuestX, GuestMem, Put
<1> HIDE DEF D, X
<1>6. sys[i.key] = file[n + 1] /\ sys[i.key] \in Word
  BY <1>1, <1>2, <1>3 DEF Filed
<1>7. X[i.rt] = sys[i.key] /\ \A q \in Guest : q # i.rt => X[q] = host[q]
  BY <1>1, <1>2, <1>5
<1> HIDE DEF n
<1>8. Read(St(host, mem, file), Slot(n)) = X[i.rt]
  BY <1>6, <1>7, Reads
<1>9. \A q \in HostRegs : load(q, Slot(n)) \in OpSet
  BY <1>3, Operations
<1>10. Reach(2, mem, FromMem(i.rt, Slot(n)), host, mem, file, X, mem)
  BY <1>1, <1>2, <1>6, <1>7, <1>8, <1>9, FromMemLeads
<1>11. Translated(i)
  BY <1>4, <1>5, <1>10, ReachMore DEF Translated, X
<1> QED
  BY <1>3, <1>11 DEF D

\* MSR writes it.
LEMMA MsrRight ==
  ASSUME Agreeing, SlotsRight(slots), Filed(sys, slots, file),
         NEW i \in Instrs, Safe(i), i.form = "msr"
  PROVE  LET D == sysreg_slot(i.key)
         IN /\ Final(St(host, hmem, file), mem, translate(i), x, GuestSys(i), D)
            /\ GuestMem(i) = mem /\ GuestX(i) = x /\ GuestSys(i) \in [SysRegs -> Word]
<1> DEFINE D == sysreg_slot(i.key)
           n == D[i.key]
           v == x[i.rt]
<1>1. i.rt \in Guest /\ i.rt # 31 /\ i.key \in SysRegs
  BY Fields DEF Safe
<1>2. /\ x \in [Guest -> Word] /\ host \in [HostRegs -> Word] /\ mem \in Memory
      /\ sys \in [SysRegs -> Word] /\ file \in [Files -> Word] /\ hmem = mem
      /\ \A r \in Guest : host[r] = x[r]
  BY DEF Agreeing
<1>3. /\ SlotsRight(D) /\ i.key \in DOMAIN D /\ n \in Nat /\ n + 1 \in Files
      /\ Filed(sys, D, file)
  BY <1>1, HandedOut
<1>4. translate(i) = ToMem(Slot(n), i.rt)
  BY DEF translate, SystemRegister
<1>5. GuestX(i) = x /\ GuestMem(i) = mem /\ GuestSys(i) = [sys EXCEPT ![i.key] = v]
  BY <1>1 DEF GuestX, GuestMem, GuestSys, Value
<1>6. host[i.rt] = v /\ v \in Word
  BY <1>1, <1>2
<1> HIDE DEF D, v
<1>7. Filed([sys EXCEPT ![i.key] = v], D, [file EXCEPT ![D[i.key] + 1] = v])
  BY <1>2, <1>3, FiledTogether
<1> DEFINE e == [file EXCEPT ![n + 1] = v]
<1>8. e \in [Files -> Word]
  BY <1>2, <1>3, <1>6
<1>9. PICK g \in [HostRegs -> Word] :
        /\ Leads(2, mem, ToMem(Slot(n), i.rt), St(host, mem, file), St(g, mem, e))
        /\ \A q \in Guest : g[q] = host[q]
  <2>1. e = [file EXCEPT ![n + 1] = host[i.rt]]
    BY <1>6
  <2> HIDE DEF e
  <2>2. ReachFile(mem, ToMem(Slot(n), i.rt), host, mem, file, e)
    BY <1>1, <1>2, <1>3, <2>1, ToFileLeads
  <2> QED
    BY <2>2 DEF ReachFile
<1>10. Filed([sys EXCEPT ![i.key] = v], D, e)
  BY <1>7
<1>11. [sys EXCEPT ![i.key] = v] \in [SysRegs -> Word]
  BY <1>2, <1>6
<1>12. Leads(6, mem, translate(i), St(host, hmem, file), St(g, mem, e))
  <2>1. Len(translate(i)) \in Nat
    BY <1>4, <1>9, LenProperties DEF Leads
  <2> HIDE DEF e, n
  <2> QED
    BY <1>2, <1>4, <1>9, <2>1 DEF Leads
<1>13. \A r \in Guest : g[r] = x[r]
  BY <1>2, <1>9
<1> DEFINE T == [sys EXCEPT ![i.key] = v]
<1> HIDE DEF e, n, T
<1>14. Final(St(host, hmem, file), mem, translate(i), x, T, D)
  BY <1>8, <1>10, <1>12, <1>13 DEF Final, T
<1> QED
  BY <1>5, <1>11, <1>14 DEF D, T
-----------------------------------------------------------------------------
(***************************************************************************)
(* The theorems.                                                           *)
(***************************************************************************)
LEMMA FetchIInv ==
  ASSUME OnlySafe, IInv, NEW i \in Instrs, Fetch(i)
  PROVE  IInv'
<1>1. Agreeing /\ Filed(sys, slots, file)
  BY Settled DEF Fetch
<1>2. Safe(i) /\ Supported(i) /\ SlotsRight(slots) /\ i.key \in SysRegs
  BY Fields DEF Fetch, IInv, Types
<1>3. /\ x' = GuestX(i) /\ mem' = GuestMem(i) /\ sys' = GuestSys(i) /\ pend' = translate(i)
      /\ host' = host /\ hmem' = hmem /\ file' = file
  BY DEF Fetch, GuestStep
<1>4. count' \in 0..MaxInstrs
  BY BoundAssumption DEF Fetch, IInv, Types
<1>5. /\ host \in [HostRegs -> Word] /\ hmem \in Memory /\ file \in [Files -> Word]
      /\ sys \in [SysRegs -> Word] /\ x \in [Guest -> Word] /\ mem \in Memory
  BY DEF IInv, Types
<1>6. /\ Final(St(host, hmem, file), GuestMem(i), translate(i), GuestX(i), GuestSys(i), slots')
      /\ GuestX(i) \in [Guest -> Word] /\ GuestMem(i) \in Memory
      /\ GuestSys(i) \in [SysRegs -> Word] /\ SlotsRight(slots')
  <2>1. CASE i.form = "msr"
    <3>1. slots' = sysreg_slot(i.key)
      BY <2>1 DEF Fetch
    <3> QED
      BY <1>1, <1>2, <1>5, <2>1, <3>1, MsrRight, HandedOut
  <2>2. CASE i.form # "msr"
    <3>1. GuestSys(i) = sys
      BY <2>2 DEF GuestSys
    <3>2. Translated(i) /\ Filed(sys, slots', file) /\ SlotsRight(slots')
      <4>1. CASE i.form = "mrs"
        <5>1. slots' = sysreg_slot(i.key)
          BY <4>1 DEF Fetch
        <5> QED
          BY <1>1, <1>2, <4>1, <5>1, MrsRight, HandedOut
      <4>2. CASE i.form # "mrs"
        <5>1. slots' = slots
          BY <2>2, <4>2 DEF Fetch
        <5>2. i.form \in Forms \ {"ext", "mrs", "msr", "pairwb"}
          BY <1>2, <2>2, <4>2, Fields DEF Safe
        <5>3. Translated(i)
          BY <1>1, <1>2, <5>2, ImmRight, IndexedRight, RegRight, PairRight, OrderedRight
             DEF Forms
        <5> QED
          BY <1>1, <1>2, <5>1, <5>3
      <4> QED
        BY <4>1, <4>2
    <3> QED
      BY <1>1, <1>5, <3>1, <3>2, TranslatedFinal
  <2> QED
    BY <2>1, <2>2
<1>7. translate(i) \in Seq(Good)
  BY <1>1, <1>2, <1>5, TranslatedGood
<1> QED
  BY <1>3, <1>4, <1>5, <1>6, <1>7 DEF IInv, Types

LEMMA RunOpStep ==
  ASSUME IInv, RunOp
  PROVE  IInv' /\ \A a \in Addr : hmem'[a] \in {hmem[a], mem[a]}
<1> DEFINE s == St(host, hmem, file)
           u == Exec(s, Head(pend))
<1>1. PICK g \in [HostRegs -> Word], e \in [Files -> Word] :
        /\ Leads(6, mem, pend, s, St(g, mem, e))
        /\ \A r \in Guest : g[r] = x[r]
        /\ Filed(sys, slots, e)
  BY DEF IInv, Final
<1>2. pend # <<>> /\ pend' = Tail(pend) /\ host' = u.h /\ hmem' = u.m /\ file' = u.f
  BY DEF RunOp
<1>3. UNCHANGED <<x, mem, sys, slots, count>>
  BY DEF RunOp
<1>4. Step(mem, s, Head(pend), u) /\ Leads(6, mem, Tail(pend), u, St(g, mem, e))
  BY <1>1, <1>2, LeadsOn
<1>5. s.m = hmem
  BY DEF St
<1> HIDE DEF s, u
<1>6. u \in State /\ \A a \in Addr : u.m[a] \in {s.m[a], mem[a]}
  BY <1>4 DEF Step
<1>7. /\ u.h \in [HostRegs -> Word] /\ u.m \in Memory /\ u.f \in [Files -> Word]
      /\ St(u.h, u.m, u.f) = u
  BY <1>6 DEF State, St
<1>8. St(host', hmem', file') = u
  BY <1>2, <1>7
<1>9. Final(St(host', hmem', file'), mem', pend', x', sys', slots')
  BY <1>1, <1>2, <1>3, <1>4, <1>8 DEF Final
<1>10. Types'
  BY <1>2, <1>3, <1>7 DEF IInv, Types
<1>11. pend' \in Seq(Good)
  BY <1>2 DEF IInv
<1> QED
  BY <1>2, <1>5, <1>6, <1>9, <1>10, <1>11 DEF IInv

LEMMA InitIInv == Init => IInv
<1> SUFFICES ASSUME Init
             PROVE  IInv
  OBVIOUS
<1>1. PICK s \in Starts : /\ x = s.x /\ mem = s.mem /\ hmem = s.mem
                          /\ host = [r \in HostRegs |-> IF r \in Guest THEN s.x[r] ELSE 0]
  BY DEF Init, HostRegs
<1>2. x \in [Guest -> Word] /\ mem \in Memory
  BY <1>1, StartsAssumption DEF Memory
<1>3. /\ sys = [k \in SysRegs |-> 0] /\ file = [n \in Files |-> 0]
      /\ slots = <<>> /\ pend = <<>> /\ count = 0
  BY DEF Init, Files
<1>4. 0 \in Word /\ 0 \in 0..MaxInstrs
  BY BoundAssumption DEF Word
<1>5. host \in [HostRegs -> Word] /\ \A r \in Guest : host[r] = x[r]
  BY <1>1, <1>2, <1>4, Places
<1>6. sys \in [SysRegs -> Word] /\ file \in [Files -> Word]
  BY <1>3, <1>4
<1>7. DOMAIN slots = {}
  BY <1>3
<1>8. SlotsRight(slots)
  BY <1>7 DEF SlotsRight
<1>9. Filed(sys, slots, file)
  BY <1>3, <1>7 DEF Filed
<1>10. Leads(0, mem, <<>>, St(host, hmem, file), St(host, hmem, file))
  BY <1>1, <1>2, <1>5, <1>6, States, LeadsNone
<1>11. Len(<<>>) = 0
  OBVIOUS
<1>12. Leads(6, mem, pend, St(host, hmem, file), St(host, hmem, file))
  BY <1>3, <1>10, <1>11 DEF Leads
<1>13. Final(St(host, hmem, file), mem, pend, x, sys, slots)
  BY <1>1, <1>5, <1>6, <1>9, <1>12 DEF Final
<1>14. pend \in Seq(Good)
  BY <1>3
<1> QED
  BY <1>1, <1>2, <1>3, <1>4, <1>5, <1>6, <1>8, <1>13, <1>14 DEF IInv, Types

LEMMA NextIInv == ASSUME OnlySafe, IInv, [Next]_vars PROVE IInv'
<1>1. CASE RunOp
  BY <1>1, RunOpStep
<1>2. CASE \E i \in Instrs : Fetch(i)
  BY <1>2, FetchIInv
<1>3. CASE UNCHANGED vars
  BY <1>3 DEF IInv, Types, Agreeing, vars
<1> QED
  BY <1>1, <1>2, <1>3 DEF Next

LEMMA TypesOK == ASSUME IInv PROVE TypeOK
<1>1. /\ x \in [Guest -> Word] /\ mem \in [Addr -> {0, 1}] /\ sys \in [SysRegs -> Word]
      /\ host \in [Guest \cup {SCRATCH, Top} -> Word] /\ hmem \in [Addr -> {0, 1}]
      /\ file \in [1..Cardinality(SysRegs) -> Word] /\ count \in 0..MaxInstrs
  BY DEF IInv, Types, HostRegs, Memory, Files
<1>2. DOMAIN slots \subseteq SysRegs
  BY DEF IInv, Types, SlotsRight
<1>3. ASSUME NEW k \in DOMAIN slots
      PROVE  slots[k] + 1 \in 1..Cardinality(SysRegs)
  <2>1. slots[k] \in 0..Cardinality(DOMAIN slots) - 1
    BY DEF IInv, Types, SlotsRight
  <2>2. /\ Cardinality(DOMAIN slots) <= Cardinality(SysRegs)
        /\ Cardinality(DOMAIN slots) \in Nat /\ Cardinality(SysRegs) \in Nat
    BY <1>2, FiniteAssumption, FS_Subset, FS_CardinalityType
  <2> QED
    BY <2>1, <2>2
<1>4. Len(pend) <= 6
  BY DEF IInv, Final, Leads
<1>5. \A n \in DOMAIN pend : Assembles(pend[n])
  <2>1. pend \in Seq(Good)
    BY DEF IInv
  <2>2. \A n \in DOMAIN pend : pend[n] \in Good
    BY <2>1
  <2> QED
    BY <2>2 DEF Good
<1> QED
  BY <1>1, <1>2, <1>3, <1>4, <1>5 DEF TypeOK

\* Registers, memory and shadow file keep their types, every slot handed out
\* lies in the file (sysreg_slot, a64_to_x64.py:83), and the translation of a
\* safe instruction is six instructions at most, each of which assembles.
THEOREM SafeTypes == ASSUME OnlySafe PROVE Spec => []TypeOK
<1>1. IInv /\ [Next]_vars => IInv'
  BY NextIInv
<1>2. IInv => TypeOK
  BY TypesOK
<1> QED
  BY <1>1, <1>2, InitIInv, PTL DEF Spec

\* After the translation of any safe load, store or system-register
\* instruction registers, memory and system registers are the guest's
\* (translate, a64_to_x64.py:178).
THEOREM SafeAccesses == ASSUME OnlySafe PROVE Spec => []AccessKept
<1>1. IInv /\ [Next]_vars => IInv'
  BY NextIInv
<1>2. IInv => AccessKept
  BY Settled DEF Agreeing, Filed, AccessKept
<1> QED
  BY <1>1, <1>2, InitIInv, PTL DEF Spec

\* No instruction of a translation leaves in memory anything but what was
\* there or what the guest's instruction stores (translate,
\* a64_to_x64.py:472-640).
THEOREM SafeStores == ASSUME OnlySafe PROVE Spec => NoStrayStore
<1>1. IInv /\ [Next]_vars => IInv'
  BY NextIInv
<1>2. IInv /\ [Next]_vars => [\A a \in Addr : hmem'[a] \in {hmem[a], mem[a]}]_vars
  <2>1. CASE IInv /\ RunOp
    BY <2>1, RunOpStep
  <2>2. ASSUME NEW i \in Instrs, Fetch(i)
        PROVE  \A a \in Addr : hmem'[a] \in {hmem[a], mem[a]}
    BY <2>2 DEF Fetch
  <2> QED
    BY <2>1, <2>2 DEF Next
<1> QED
  BY <1>1, <1>2, InitIInv, PTL DEF Spec, NoStrayStore
=============================================================================
