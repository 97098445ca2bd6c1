------------------------- MODULE Conditions_proofs -------------------------
(***************************************************************************)
(* For words of any size, any set of registers and any programs of safe    *)
(* instructions: guest and translation agree on the registers, the flags   *)
(* and the way of every branch.                                            *)
(***************************************************************************)
EXTENDS Conditions, TLAPS

HostRegs == Guest \cup {SCRATCH}
Flags == [SF : BOOLEAN, ZF : BOOLEAN, CF : BOOLEAN, OF : BOOLEAN]
NZCV == [N : BOOLEAN, Z : BOOLEAN, C : BOOLEAN, V : BOOLEAN]

TypeInv == /\ x \in [Guest -> Word] /\ nzcv \in NZCV
           /\ host \in [HostRegs -> Word] /\ flags \in Flags
           /\ live \in {"add", "sub", "and", "none"}

IInv == TypeInv /\ RegistersAgree /\ FlagsAgree /\ SameWay

\* A host state.
St(h, f) == [h |-> h, f |-> f]
-----------------------------------------------------------------------------
(***************************************************************************)
(* Arithmetic.                                                             *)
(***************************************************************************)
LEMMA Words ==
  ASSUME NEW a \in Word, NEW b \in Word, NEW c
  PROVE  /\ Sum3(a, b, c) \in Word /\ Invert(b) \in Word /\ And(a, b) \in Word
         /\ 0 \in Word /\ 1 \in Word
<1>1. Size \in Nat /\ Size >= 2
  BY SizeAssumption
<1>2. Bit(c) \in {0, 1}
  BY DEF Bit
<1>3. a + b + Bit(c) \in Int
  BY <1>1, <1>2 DEF Word
<1>4. Sum3(a, b, c) \in Word
  BY <1>1, <1>3 DEF Sum3, Word
<1> QED
  BY <1>1, <1>4, AndAssumption DEF Invert, Word

\* A comparison with zero is zero for zero only.
LEMMA MinusZero ==
  ASSUME NEW a \in Word
  PROVE  Sum3(a, Invert(0), TRUE) = a
<1>1. Size \in Nat /\ Size >= 2 /\ a \in 0..Size - 1
  BY SizeAssumption DEF Word
<1>2. a + Invert(0) + Bit(TRUE) = a + Size
  BY <1>1 DEF Invert, Bit
<1>3. (a + Size) % Size = a
  BY <1>1
<1>4. Sum3(a, Invert(0), TRUE) = (a + Invert(0) + Bit(TRUE)) % Size
  BY DEF Sum3
<1> QED
  BY <1>2, <1>3, <1>4, Zenon

\* Both machines derive flags that are truth values.
LEMMA FlagTypes ==
  ASSUME NEW r, NEW c \in BOOLEAN, NEW v \in BOOLEAN
  PROVE  HostFlags(r, c, v) \in Flags /\ GuestFlags(r, c, v) \in NZCV
<1>1. Negative(r) \in BOOLEAN /\ (r = 0) \in BOOLEAN
  BY DEF Negative
<1>2. HostFlags(r, c, v) \in Flags
  BY <1>1, Zenon DEF HostFlags, Flags
<1>3. GuestFlags(r, c, v) \in NZCV
  BY <1>1, Zenon DEF GuestFlags, NZCV
<1> QED
  BY <1>2, <1>3
-----------------------------------------------------------------------------
(***************************************************************************)
(* The host's instructions.                                                *)
(***************************************************************************)
LEMMA Operands ==
  /\ SCRATCH \notin Guest
  /\ \A n \in Word : Imm(n) \notin HostRegs /\ Imm(n) - 14 = n
  BY InstrsAssumption, SizeAssumption DEF HostRegs, SCRATCH, Imm, Word

\* What a host instruction may write: a register and the flags, one of them,
\* or the carry.
LEMMA Fields ==
  ASSUME NEW h, NEW f
  PROVE  St(h, f).h = h /\ St(h, f).f = f
  BY DEF St

LEMMA SetIs ==
  ASSUME NEW h, NEW f, NEW dst, NEW r, NEW c, NEW v
  PROVE  Set(St(h, f), dst, r, c, v) = St([h EXCEPT ![dst] = r], HostFlags(r, c, v))
  BY DEF Set, St

LEMMA FlagIs ==
  ASSUME NEW h, NEW f, NEW r, NEW c, NEW v
  PROVE  Flag(St(h, f), r, c, v) = St(h, HostFlags(r, c, v))
  BY DEF Flag, St

LEMMA MoveIs ==
  ASSUME NEW h, NEW f, NEW dst, NEW r
  PROVE  Move(St(h, f), dst, r) = St([h EXCEPT ![dst] = r], f)
  BY DEF Move, St

LEMMA BitIs ==
  ASSUME NEW h, NEW f, NEW v
  PROVE  [St(h, f) EXCEPT !.f.CF = v] = St(h, [f EXCEPT !.CF = v])
  BY DEF St

(***************************************************************************)
(* What each instruction makes of a host state and its operands.           *)
(***************************************************************************)
LEMMA ApplyMov ==
  ASSUME NEW st, NEW dst, NEW a, NEW b
  PROVE  Apply(st, "mov", dst, a, b)
           = Move(st, dst, b)
  BY Zenon DEF Apply

LEMMA ApplyAdd ==
  ASSUME NEW st, NEW dst, NEW a, NEW b
  PROVE  Apply(st, "add", dst, a, b)
           = Set(st, dst, Sum3(a, b, FALSE), Carry(a, b, FALSE), Overflow(a, b, FALSE))
  BY Zenon DEF Apply

LEMMA ApplySub ==
  ASSUME NEW st, NEW dst, NEW a, NEW b
  PROVE  Apply(st, "sub", dst, a, b)
           = Set(st, dst, Sum3(a, Invert(b), TRUE), ~Carry(a, Invert(b), TRUE),
                 Overflow(a, Invert(b), TRUE))
  BY Zenon DEF Apply

LEMMA ApplyAdc ==
  ASSUME NEW st, NEW dst, NEW a, NEW b
  PROVE  Apply(st, "adc", dst, a, b)
           = Set(st, dst, Sum3(a, b, st.f.CF), Carry(a, b, st.f.CF), Overflow(a, b, st.f.CF))
  BY Zenon DEF Apply

LEMMA ApplySbb ==
  ASSUME NEW st, NEW dst, NEW a, NEW b
  PROVE  Apply(st, "sbb", dst, a, b)
           = Set(st, dst, Sum3(a, Invert(b), ~st.f.CF), ~Carry(a, Invert(b), ~st.f.CF),
                 Overflow(a, Invert(b), ~st.f.CF))
  BY Zenon DEF Apply

LEMMA ApplyCmp ==
  ASSUME NEW st, NEW dst, NEW a, NEW b
  PROVE  Apply(st, "cmp", dst, a, b)
           = Flag(st, Sum3(a, Invert(b), TRUE), ~Carry(a, Invert(b), TRUE),
                  Overflow(a, Invert(b), TRUE))
  BY Zenon DEF Apply

LEMMA ApplyAnd ==
  ASSUME NEW st, NEW dst, NEW a, NEW b
  PROVE  Apply(st, "and", dst, a, b)
           = Set(st, dst, And(a, b), FALSE, FALSE)
  BY Zenon DEF Apply

LEMMA ApplyTest ==
  ASSUME NEW st, NEW dst, NEW a, NEW b
  PROVE  Apply(st, "test", dst, a, b)
           = Flag(st, And(a, b), FALSE, FALSE)
  BY Zenon DEF Apply

LEMMA ApplyBt ==
  ASSUME NEW st, NEW dst, NEW a, NEW b
  PROVE  Apply(st, "bt", dst, a, b)
           = [st EXCEPT !.f.CF = TestBit(a, b)]
  BY Zenon DEF Apply

LEMMA ApplyInc ==
  ASSUME NEW st, NEW dst, NEW a, NEW b
  PROVE  Apply(st, "inc", dst, a, b)
           = Set(st, dst, Sum3(a, 1, FALSE), st.f.CF, Overflow(a, 1, FALSE))
  BY Zenon DEF Apply

LEMMA ApplyNot ==
  ASSUME NEW st, NEW dst, NEW a, NEW b
  PROVE  Apply(st, "not", dst, a, b)
           = Move(st, dst, Invert(a))
  BY Zenon DEF Apply

LEMMA ApplyCmovB ==
  ASSUME NEW st, NEW dst, NEW a, NEW b
  PROVE  Apply(st, "b", dst, a, b)
           = IF st.f.CF THEN Move(st, dst, b) ELSE st
  BY Zenon DEF Apply, Cc

LEMMA ApplyCmovAe ==
  ASSUME NEW st, NEW dst, NEW a, NEW b
  PROVE  Apply(st, "ae", dst, a, b)
           = IF st.f.CF THEN st ELSE Move(st, dst, b)
  BY Zenon DEF Apply, Cc

\* An operand is a register or an immediate.
LEMMA ExecutedRegister ==
  ASSUME NEW h, h \in [HostRegs -> Word], NEW f, NEW op, NEW dst, NEW src \in HostRegs
  PROVE  Exec(St(h, f), op, dst, src) = Apply(St(h, f), op, dst, h[dst], h[src])
<1>1. St(h, f).h = h /\ DOMAIN h = HostRegs
  BY DEF St
<1>2. Operand(St(h, f), src) = h[src]
  BY <1>1 DEF Operand
<1> QED
  BY <1>1, <1>2, Zenon DEF Exec

LEMMA ExecutedImmediate ==
  ASSUME NEW h, h \in [HostRegs -> Word], NEW f, NEW op, NEW dst, NEW n \in Word
  PROVE  Exec(St(h, f), op, dst, Imm(n)) = Apply(St(h, f), op, dst, h[dst], n)
<1>1. St(h, f).h = h /\ DOMAIN h = HostRegs
  BY DEF St
<1>2. Operand(St(h, f), Imm(n)) = n
  BY <1>1, Operands DEF Operand
<1> QED
  BY <1>1, <1>2, Zenon DEF Exec

\* A move leaves the flags, and the state when it is to the same register.
LEMMA Moved ==
  ASSUME NEW h \in [HostRegs -> Word], NEW f, NEW dst \in HostRegs, NEW src \in HostRegs
  PROVE  /\ move(St(h, f), dst, src) = St([h EXCEPT ![dst] = h[src]], f)
         /\ [h EXCEPT ![dst] = h[src]] \in [HostRegs -> Word]
<1>1. CASE dst = src
  <2>1. [h EXCEPT ![dst] = h[src]] = h
    BY <1>1
  <2> QED
    BY <1>1, <2>1 DEF move
<1>2. CASE dst # src
  <2>1. Exec(St(h, f), "mov", dst, src) = St([h EXCEPT ![dst] = h[src]], f)
    <3>1. Exec(St(h, f), "mov", dst, src) = Apply(St(h, f), "mov", dst, h[dst], h[src])
      BY ExecutedRegister
    <3>2. Apply(St(h, f), "mov", dst, h[dst], h[src]) = Move(St(h, f), dst, h[src])
      BY ApplyMov
    <3>3. Move(St(h, f), dst, h[src]) = St([h EXCEPT ![dst] = h[src]], f)
      BY MoveIs
    <3> QED
      BY <3>1, <3>2, <3>3
  <2> QED
    BY <1>2, <2>1 DEF move
<1> QED
  BY <1>1, <1>2

\* A register written in a host state.
LEMMA Writes ==
  ASSUME NEW h \in [HostRegs -> Word], NEW d \in HostRegs, NEW v \in Word
  PROVE  /\ [h EXCEPT ![d] = v] \in [HostRegs -> Word]
         /\ [h EXCEPT ![d] = v][d] = v
         /\ \A r \in HostRegs : r # d => [h EXCEPT ![d] = v][r] = h[r]
         /\ \A w : [[h EXCEPT ![d] = v] EXCEPT ![d] = w] = [h EXCEPT ![d] = w]
  OBVIOUS
-----------------------------------------------------------------------------
(***************************************************************************)
(* What a translation has to make of the host state.                       *)
(***************************************************************************)
\* Flags f stand for the guest's g, set by an instruction of kind l.
Match(l, f, g) == l # "none" =>
  /\ f.SF = g.N /\ f.ZF = g.Z /\ f.OF = g.V
  /\ f.CF = (IF l = "sub" THEN ~g.C ELSE g.C)

Writing(i) == i.form \in {"alu", "adc", "csel", "mov"}
Branching(i) == i.form \in {"bcond", "cbz", "tbz"}
Guests(i) == IF Writing(i)
             THEN [x EXCEPT ![i.rd] = Result(i, x[i.rn], Second(i))] ELSE x

Right(i) ==
  \E h \in [HostRegs -> Word], f \in Flags :
    /\ Translate(St(host, flags), i) = St(h, f)
    /\ \A r \in Guest : h[r] = Guests(i)[r]
    /\ Match(LiveAfter(i), f, GuestNZCV(i, x[i.rn], Second(i)))
    /\ Branching(i) => Cc(Jump(i), f) = GuestWay(i)
    /\ LiveAfter(i) \in {"add", "sub", "and", "none"}
    /\ Guests(i) \in [Guest -> Word]
    /\ GuestNZCV(i, x[i.rn], Second(i)) \in NZCV

LEMMA SameFlags ==
  ASSUME NEW r, NEW c, NEW v
  PROVE  /\ Match("add", HostFlags(r, c, v), GuestFlags(r, c, v))
         /\ Match("and", HostFlags(r, c, v), GuestFlags(r, c, v))
         /\ Match("sub", HostFlags(r, ~c, v), GuestFlags(r, c, v))
  BY DEF Match, HostFlags, GuestFlags

LEMMA NoFlags ==
  ASSUME NEW f, NEW g
  PROVE  Match("none", f, g)
  BY DEF Match

\* What there is to know about an instruction and the state it starts in.
LEMMA Decoded ==
  ASSUME IInv, NEW i \in Instrs
  PROVE  /\ i.rd \in Guest /\ i.rn \in Guest /\ i.rm \in Guest
         /\ Guest \subseteq HostRegs /\ SCRATCH \in HostRegs /\ SCRATCH \notin Guest
         /\ i.imm \in Word /\ i.s \in BOOLEAN /\ i.cond \in 1..16
         /\ i.form \in Forms /\ i.fn \in Fns(i.form)
         /\ host \in [HostRegs -> Word] /\ flags \in Flags /\ nzcv \in NZCV
         /\ x \in [Guest -> Word]
         /\ x[i.rn] \in Word /\ x[i.rm] \in Word
         /\ host[i.rn] = x[i.rn] /\ host[i.rm] = x[i.rm] /\ host[i.rd] = x[i.rd]
         /\ Match(live, flags, nzcv) /\ live \in {"add", "sub", "and", "none"}
<1>1. /\ i \in Instr /\ i.fn \in Fns(i.form)
  BY InstrsAssumption
<1>2. /\ i.rd \in Guest /\ i.rn \in Guest /\ i.rm \in Guest /\ i.imm \in Word
      /\ i.s \in BOOLEAN /\ i.cond \in DOMAIN Conds /\ i.form \in Forms
  BY <1>1 DEF Instr
<1>3. DOMAIN Conds = 1..16
  BY DEF Conds
<1>4. Match(live, flags, nzcv)
  BY DEF IInv, FlagsAgree, Match
<1> QED
  BY <1>1, <1>2, <1>3, <1>4, Operands DEF IInv, TypeInv, RegistersAgree, HostRegs

\* Guest and host flags after fn on the same operands, the carry as fn has it.
LEMMA AluFlags ==
  ASSUME NEW a \in Word, NEW b \in Word, NEW c \in BOOLEAN
  PROVE  /\ Value("add", a, b, c) = Sum3(a, b, c)
         /\ Value("sub", a, b, c) = Sum3(a, Invert(b), c)
         /\ Value("and", a, b, c) = And(a, b)
         /\ NewNZCV("add", a, b, c)
              = GuestFlags(Sum3(a, b, c), Carry(a, b, c), Overflow(a, b, c))
         /\ NewNZCV("sub", a, b, c)
              = GuestFlags(Sum3(a, Invert(b), c), Carry(a, Invert(b), c), Overflow(a, Invert(b), c))
         /\ NewNZCV("and", a, b, c) = GuestFlags(And(a, b), FALSE, FALSE)
  BY DEF Value, NewNZCV, Other

\* Carries and overflows are truth values.
LEMMA CarryTypes ==
  ASSUME NEW a, NEW b, NEW c
  PROVE  Carry(a, b, c) \in BOOLEAN /\ (~Carry(a, b, c)) \in BOOLEAN /\ Overflow(a, b, c) \in BOOLEAN
<1>1. Carry(a, b, c) \in BOOLEAN
  BY DEF Carry
<1>2. Overflow(a, b, c) \in BOOLEAN
  BY DEF Overflow
<1>3. (~Carry(a, b, c)) \in BOOLEAN
  OBVIOUS
<1> QED
  BY <1>1, <1>2, <1>3

\* The destination's move, when the second operand survives it.
LEMMA FirstMove ==
  ASSUME IInv, NEW i \in Instrs, KeepsOperand(i)
  PROVE  LET h == [host EXCEPT ![i.rd] = x[i.rn]]
         IN /\ move(St(host, flags), i.rd, i.rn) = St(h, flags)
            /\ h \in [HostRegs -> Word]
            /\ h[i.rd] = x[i.rn] /\ h[i.rm] = x[i.rm]
            /\ \A r \in Guest : r # i.rd => h[r] = x[r]
            /\ \A w : [h EXCEPT ![i.rd] = w] = [host EXCEPT ![i.rd] = w]
<1>1. /\ move(St(host, flags), i.rd, i.rn) = St([host EXCEPT ![i.rd] = x[i.rn]], flags)
      /\ [host EXCEPT ![i.rd] = x[i.rn]] \in [HostRegs -> Word]
  BY Decoded, Moved
<1>2. \A r \in Guest : host[r] = x[r]
  BY DEF IInv, RegistersAgree
<1>3. i.rm # i.rd \/ i.rd = i.rn
  BY DEF KeepsOperand
<1>4. /\ i.rd \in HostRegs /\ i.rm \in HostRegs /\ Guest \subseteq HostRegs
      /\ host \in [HostRegs -> Word] /\ x[i.rn] \in Word /\ host[i.rm] = x[i.rm]
      /\ host[i.rn] = x[i.rn]
  BY Decoded
<1> DEFINE h == [host EXCEPT ![i.rd] = x[i.rn]]
<1>5. h[i.rd] = x[i.rn] /\ \A r \in HostRegs : r # i.rd => h[r] = host[r]
  BY <1>4
<1>6. h[i.rm] = x[i.rm]
  BY <1>3, <1>4, <1>5
<1>7. \A r \in Guest : r # i.rd => h[r] = x[r]
  BY <1>2, <1>4, <1>5
<1>8. \A w : [h EXCEPT ![i.rd] = w] = [host EXCEPT ![i.rd] = w]
  BY <1>4
<1> QED
  BY <1>1, <1>5, <1>6, <1>7, <1>8

\* The result of an instruction that writes rd and the flags or not.
LEMMA WritesRight ==
  ASSUME IInv, NEW i \in Instrs, i.form \in {"alu", "adc", "csel", "mov"},
         NEW r \in Word, r = Result(i, x[i.rn], Second(i)),
         NEW h \in [HostRegs -> Word], NEW f \in Flags,
         Translate(St(host, flags), i) = St(h, f),
         h[i.rd] = r, \A q \in Guest : q # i.rd => h[q] = x[q],
         Match(LiveAfter(i), f, GuestNZCV(i, x[i.rn], Second(i))),
         GuestNZCV(i, x[i.rn], Second(i)) \in NZCV,
         LiveAfter(i) \in {"add", "sub", "and", "none"}
  PROVE  Right(i)
<1>1. Writing(i) /\ ~Branching(i)
  BY DEF Writing, Branching
<1>2. Guests(i) = [x EXCEPT ![i.rd] = r]
  BY <1>1 DEF Guests
<1>3. Guests(i) \in [Guest -> Word] /\ \A q \in Guest : h[q] = Guests(i)[q]
  BY <1>2, Decoded
<1> QED
  BY <1>1, <1>3, Zenon DEF Right

\* The result of one that writes the flags alone.
LEMMA FlagsRight ==
  ASSUME IInv, NEW i \in Instrs, i.form \notin {"alu", "adc", "csel", "mov"},
         NEW f \in Flags, Translate(St(host, flags), i) = St(host, f),
         Match(LiveAfter(i), f, GuestNZCV(i, x[i.rn], Second(i))),
         GuestNZCV(i, x[i.rn], Second(i)) \in NZCV,
         LiveAfter(i) \in {"add", "sub", "and", "none"},
         Branching(i) => Cc(Jump(i), f) = GuestWay(i)
  PROVE  Right(i)
<1>1. Guests(i) = x
  BY DEF Guests, Writing
<1>2. \A q \in Guest : host[q] = x[q]
  BY DEF IInv, RegistersAgree
<1> QED
  BY <1>1, <1>2, Decoded, Zenon DEF Right

\* An operation on the moved operand, when guest and host flags match after it.
LEMMA SetRight ==
  ASSUME IInv, NEW i \in Instrs, i.form \in {"alu", "adc"}, KeepsOperand(i),
         NEW op, NEW r \in Word, NEW c \in BOOLEAN, NEW v \in BOOLEAN,
         Translate(St(host, flags), i) = Exec(move(St(host, flags), i.rd, i.rn), op, i.rd, i.rm),
         \A h : Apply(St(h, flags), op, i.rd, x[i.rn], x[i.rm]) = Set(St(h, flags), i.rd, r, c, v),
         r = Result(i, x[i.rn], x[i.rm]),
         Match(LiveAfter(i), HostFlags(r, c, v), GuestNZCV(i, x[i.rn], x[i.rm])),
         GuestNZCV(i, x[i.rn], x[i.rm]) \in NZCV,
         LiveAfter(i) \in {"add", "sub", "and", "none"}
  PROVE  Right(i)
<1> DEFINE h == [host EXCEPT ![i.rd] = x[i.rn]]
           g == [host EXCEPT ![i.rd] = r]
<1>1. /\ move(St(host, flags), i.rd, i.rn) = St(h, flags)
      /\ h \in [HostRegs -> Word]
      /\ h[i.rd] = x[i.rn] /\ h[i.rm] = x[i.rm]
      /\ \A w : [h EXCEPT ![i.rd] = w] = [host EXCEPT ![i.rd] = w]
  BY FirstMove
<1>2. i.rm \in HostRegs /\ i.rd \in HostRegs /\ host \in [HostRegs -> Word]
      /\ Guest \subseteq HostRegs
  BY Decoded
<1>3. Exec(St(h, flags), op, i.rd, i.rm) = Apply(St(h, flags), op, i.rd, h[i.rd], h[i.rm])
  <2> HIDE DEF h
  <2> QED
    BY <1>1, <1>2, ExecutedRegister
<1>4. Apply(St(h, flags), op, i.rd, x[i.rn], x[i.rm])
        = Set(St(h, flags), i.rd, r, c, v)
  <2>1. \A k : Apply(St(k, flags), op, i.rd, x[i.rn], x[i.rm])
                = Set(St(k, flags), i.rd, r, c, v)
    OBVIOUS
  <2> HIDE DEF h
  <2> QED
    BY <2>1, Zenon
<1>5. Set(St(h, flags), i.rd, r, c, v) = St([h EXCEPT ![i.rd] = r], HostFlags(r, c, v))
  <2> HIDE DEF h
  <2> QED
    BY SetIs
<1>6. [h EXCEPT ![i.rd] = r] = g
  BY <1>1
<1> HIDE DEF h
<1>7. Translate(St(host, flags), i) = St(g, HostFlags(r, c, v))
  <2> HIDE DEF g
  <2> QED
    BY <1>1, <1>3, <1>4, <1>5, <1>6
<1>8. Second(i) = x[i.rm]
  BY DEF Second
<1>9. \A q \in Guest : host[q] = x[q]
  BY DEF IInv, RegistersAgree
<1>10. /\ g \in [HostRegs -> Word] /\ g[i.rd] = r
       /\ \A q \in Guest : q # i.rd => g[q] = x[q]
  BY <1>2, <1>9
<1>11. HostFlags(r, c, v) \in Flags
  BY FlagTypes
<1> HIDE DEF g
<1> QED
  BY <1>7, <1>8, <1>10, <1>11, WritesRight

LEMMA AluRight ==
  ASSUME IInv, NEW i \in Instrs, i.form = "alu", Safe(i)
  PROVE  Right(i)
<1> DEFINE a == x[i.rn]
           b == x[i.rm]
           n == Invert(b)
<1>1. KeepsOperand(i)
  BY DEF Safe
<1>2. i.fn \in {"add", "sub", "and"} /\ a \in Word /\ b \in Word /\ nzcv \in NZCV
  BY Decoded DEF Fns
<1>3. Translate(St(host, flags), i) = Exec(move(St(host, flags), i.rd, i.rn), i.fn, i.rd, i.rm)
  BY DEF Translate, Alu
<1>4. Result(i, a, b) = Value(i.fn, a, b, FirstCarry(i))
  BY DEF Result
<1>5. GuestNZCV(i, a, b) = IF i.s THEN NewNZCV(i.fn, a, b, FirstCarry(i)) ELSE nzcv
  BY DEF GuestNZCV
<1>6. LiveAfter(i) = IF i.s THEN i.fn ELSE "none"
  <2>1. i.form = "alu" /\ i.form \notin {"cmp", "cmpi", "tst"}
    OBVIOUS
  <2> QED
    BY <2>1, Zenon DEF LiveAfter
<1>7. CASE i.fn = "add"
  <2> DEFINE r == Sum3(a, b, FALSE)
             c == Carry(a, b, FALSE)
             v == Overflow(a, b, FALSE)
  <2>1. r \in Word /\ c \in BOOLEAN /\ (c) \in BOOLEAN /\ v \in BOOLEAN
    BY <1>2, Words, CarryTypes
  <2>2. \A h : Apply(St(h, flags), "add", i.rd, a, b) = Set(St(h, flags), i.rd, r, c, v)
    BY ApplyAdd
  <2>3. FirstCarry(i) = FALSE
    BY <1>7 DEF FirstCarry
  <2>4. Result(i, a, b) = r /\ NewNZCV("add", a, b, FALSE) = GuestFlags(r, c, v)
    BY <1>2, <1>4, <1>7, <2>3, AluFlags
  <2>5. GuestFlags(r, c, v) \in NZCV /\ Match("add", HostFlags(r, c, v), GuestFlags(r, c, v))
    BY <2>1, FlagTypes, SameFlags
  <2>6. /\ Match(LiveAfter(i), HostFlags(r, c, v), GuestNZCV(i, a, b))
        /\ GuestNZCV(i, a, b) \in NZCV
    BY <1>2, <1>5, <1>6, <1>7, <2>3, <2>4, <2>5, NoFlags
  <2>7. LiveAfter(i) \in {"add", "sub", "and", "none"}
    BY <1>2, <1>6
  <2> HIDE DEF r, c, v
  <2> QED
    BY <1>1, <1>3, <1>7, <2>1, <2>2, <2>4, <2>6, <2>7, SetRight
<1>8. CASE i.fn = "sub"
  <2> DEFINE r == Sum3(a, n, TRUE)
             c == Carry(a, n, TRUE)
             v == Overflow(a, n, TRUE)
  <2>1. r \in Word /\ c \in BOOLEAN /\ (~c) \in BOOLEAN /\ v \in BOOLEAN
    BY <1>2, Words, CarryTypes
  <2>2. \A h : Apply(St(h, flags), "sub", i.rd, a, b) = Set(St(h, flags), i.rd, r, ~c, v)
    BY ApplySub
  <2>3. FirstCarry(i) = TRUE
    BY <1>8 DEF FirstCarry
  <2>4. Result(i, a, b) = r /\ NewNZCV("sub", a, b, TRUE) = GuestFlags(r, c, v)
    BY <1>2, <1>4, <1>8, <2>3, AluFlags
  <2>5. GuestFlags(r, c, v) \in NZCV /\ Match("sub", HostFlags(r, ~c, v), GuestFlags(r, c, v))
    BY <2>1, FlagTypes, SameFlags
  <2>6. /\ Match(LiveAfter(i), HostFlags(r, ~c, v), GuestNZCV(i, a, b))
        /\ GuestNZCV(i, a, b) \in NZCV
    BY <1>2, <1>5, <1>6, <1>8, <2>3, <2>4, <2>5, NoFlags
  <2>7. LiveAfter(i) \in {"add", "sub", "and", "none"}
    BY <1>2, <1>6
  <2> HIDE DEF r, c, v
  <2> QED
    BY <1>1, <1>3, <1>8, <2>1, <2>2, <2>4, <2>6, <2>7, SetRight
<1>9. CASE i.fn = "and"
  <2> DEFINE r == And(a, b)
             c == FALSE
             v == FALSE
  <2>1. r \in Word /\ c \in BOOLEAN /\ (c) \in BOOLEAN /\ v \in BOOLEAN
    BY <1>2, Words, CarryTypes
  <2>2. \A h : Apply(St(h, flags), "and", i.rd, a, b) = Set(St(h, flags), i.rd, r, c, v)
    BY ApplyAnd
  <2>3. FirstCarry(i) = FALSE
    BY <1>9 DEF FirstCarry
  <2>4. Result(i, a, b) = r /\ NewNZCV("and", a, b, FALSE) = GuestFlags(r, c, v)
    BY <1>2, <1>4, <1>9, <2>3, AluFlags
  <2>5. GuestFlags(r, c, v) \in NZCV /\ Match("and", HostFlags(r, c, v), GuestFlags(r, c, v))
    BY <2>1, FlagTypes, SameFlags
  <2>6. /\ Match(LiveAfter(i), HostFlags(r, c, v), GuestNZCV(i, a, b))
        /\ GuestNZCV(i, a, b) \in NZCV
    BY <1>2, <1>5, <1>6, <1>9, <2>3, <2>4, <2>5, NoFlags
  <2>7. LiveAfter(i) \in {"add", "sub", "and", "none"}
    BY <1>2, <1>6
  <2> HIDE DEF r, c, v
  <2> QED
    BY <1>1, <1>3, <1>9, <2>1, <2>2, <2>4, <2>6, <2>7, SetRight
<1> QED
  BY <1>2, <1>7, <1>8, <1>9

LEMMA AdcRight ==
  ASSUME IInv, NEW i \in Instrs, i.form = "adc", Safe(i)
  PROVE  Right(i)
<1> DEFINE a == x[i.rn]
           b == x[i.rm]
           n == Invert(b)
           cy == nzcv.C
<1>1. KeepsOperand(i) /\ CarrySafe(i.fn)
  BY DEF Safe
<1>2. /\ i.fn \in {"add", "sub"} /\ a \in Word /\ b \in Word /\ nzcv \in NZCV
      /\ cy \in BOOLEAN /\ Match(live, flags, nzcv)
  BY Decoded DEF Fns, NZCV
<1>3. Translate(St(host, flags), i)
        = Exec(move(St(host, flags), i.rd, i.rn), IF i.fn = "sub" THEN "sbb" ELSE "adc", i.rd, i.rm)
  BY DEF Translate, Adc
<1>4. Result(i, a, b) = Value(i.fn, a, b, cy)
  BY DEF Result
<1>5. GuestNZCV(i, a, b) = IF i.s THEN NewNZCV(i.fn, a, b, cy) ELSE nzcv
  BY DEF GuestNZCV
<1>6. LiveAfter(i) = IF i.s THEN i.fn ELSE "none"
  <2>1. i.form = "adc" /\ i.form \notin {"cmp", "cmpi", "tst"}
    OBVIOUS
  <2> QED
    BY <2>1, Zenon DEF LiveAfter
<1> HIDE DEF cy
<1>7. CASE i.fn = "add"
  <2> DEFINE r == Sum3(a, b, cy)
             c == Carry(a, b, cy)
             v == Overflow(a, b, cy)
  <2>1. r \in Word /\ c \in BOOLEAN /\ v \in BOOLEAN
    BY <1>2, Words, CarryTypes
  <2>2. flags.CF = cy
    BY <1>1, <1>2, <1>7, Zenon DEF CarrySafe, Match, cy
  <2>3. \A h : Apply(St(h, flags), "adc", i.rd, a, b) = Set(St(h, flags), i.rd, r, c, v)
    <3> TAKE h
    <3>1. St(h, flags).f.CF = cy
      BY <2>2, Fields
    <3>2. Apply(St(h, flags), "adc", i.rd, a, b)
            = Set(St(h, flags), i.rd, Sum3(a, b, St(h, flags).f.CF),
                  Carry(a, b, St(h, flags).f.CF), Overflow(a, b, St(h, flags).f.CF))
      BY ApplyAdc
    <3> QED
      BY <3>1, <3>2, Zenon
  <2>4. Result(i, a, b) = r /\ NewNZCV("add", a, b, cy) = GuestFlags(r, c, v)
    BY <1>2, <1>4, <1>7, AluFlags
  <2>5. GuestFlags(r, c, v) \in NZCV /\ Match("add", HostFlags(r, c, v), GuestFlags(r, c, v))
    BY <2>1, FlagTypes, SameFlags
  <2>6. /\ Match(LiveAfter(i), HostFlags(r, c, v), GuestNZCV(i, a, b))
        /\ GuestNZCV(i, a, b) \in NZCV
    BY <1>2, <1>5, <1>6, <1>7, <2>4, <2>5, NoFlags
  <2>7. LiveAfter(i) \in {"add", "sub", "and", "none"}
    BY <1>2, <1>6
  <2> HIDE DEF r, c, v
  <2> QED
    BY <1>1, <1>3, <1>7, <2>1, <2>3, <2>4, <2>6, <2>7, SetRight
<1>8. CASE i.fn = "sub"
  <2> DEFINE r == Sum3(a, n, cy)
             c == Carry(a, n, cy)
             v == Overflow(a, n, cy)
  <2>1. r \in Word /\ c \in BOOLEAN /\ (~c) \in BOOLEAN /\ v \in BOOLEAN
    BY <1>2, Words, CarryTypes
  <2>2. (~flags.CF) = cy
    <3>1. flags.CF = ~cy
      BY <1>1, <1>2, <1>8, Zenon DEF CarrySafe, Match, cy
    <3> QED
      BY <1>2, <3>1
  <2>3. \A h : Apply(St(h, flags), "sbb", i.rd, a, b) = Set(St(h, flags), i.rd, r, ~c, v)
    <3> TAKE h
    <3>1. (~St(h, flags).f.CF) = cy
      BY <2>2, Fields
    <3>2. Apply(St(h, flags), "sbb", i.rd, a, b)
            = Set(St(h, flags), i.rd, Sum3(a, n, ~St(h, flags).f.CF),
                  ~Carry(a, n, ~St(h, flags).f.CF), Overflow(a, n, ~St(h, flags).f.CF))
      BY ApplySbb
    <3> QED
      BY <3>1, <3>2, Zenon
  <2>4. Result(i, a, b) = r /\ NewNZCV("sub", a, b, cy) = GuestFlags(r, c, v)
    BY <1>2, <1>4, <1>8, AluFlags
  <2>5. GuestFlags(r, c, v) \in NZCV /\ Match("sub", HostFlags(r, ~c, v), GuestFlags(r, c, v))
    BY <2>1, FlagTypes, SameFlags
  <2>6. /\ Match(LiveAfter(i), HostFlags(r, ~c, v), GuestNZCV(i, a, b))
        /\ GuestNZCV(i, a, b) \in NZCV
    BY <1>2, <1>5, <1>6, <1>8, <2>4, <2>5, NoFlags
  <2>7. LiveAfter(i) \in {"add", "sub", "and", "none"}
    BY <1>2, <1>6
  <2> HIDE DEF r, c, v
  <2> QED
    BY <1>1, <1>3, <1>8, <2>1, <2>3, <2>4, <2>6, <2>7, SetRight
<1> QED
  BY <1>2, <1>7, <1>8

\* CMP, and TST with an immediate: the flags alone.
LEMMA ComparisonRight ==
  ASSUME IInv, NEW i \in Instrs, i.form \in {"cmp", "cmpi", "tst"}, Safe(i)
  PROVE  Right(i)
<1> DEFINE a == x[i.rn]
           b == Second(i)
           n == Invert(b)
<1>1. /\ i.fn = IF i.form = "tst" THEN "and" ELSE "sub"
      /\ a \in Word /\ b \in Word /\ host \in [HostRegs -> Word] /\ host[i.rn] = a
      /\ i.rn \in HostRegs /\ i.rm \in HostRegs
  BY Decoded DEF Fns, Safe, Second
<1>2. i.form \in {"cmp", "cmpi"} => host[i.rm] = x[i.rm] /\ i.imm \in Word
  BY Decoded
<1>3. /\ GuestNZCV(i, a, b) = NewNZCV(i.fn, a, b, FirstCarry(i))
      /\ LiveAfter(i) = i.fn
  BY Zenon DEF GuestNZCV, LiveAfter
<1>4. ~Branching(i) /\ i.form \notin {"alu", "adc", "csel", "mov"}
  BY DEF Branching
<1>5. CASE i.fn = "sub"
  <2> DEFINE r == Sum3(a, n, TRUE)
             c == Carry(a, n, TRUE)
             v == Overflow(a, n, TRUE)
  <2>1. c \in BOOLEAN /\ (~c) \in BOOLEAN /\ v \in BOOLEAN
    BY CarryTypes
  <2>2. Translate(St(host, flags), i) = Apply(St(host, flags), "cmp", i.rn, a, b)
    <3>1. CASE i.form = "cmp"
      <4>1. Translate(St(host, flags), i) = Exec(St(host, flags), "cmp", i.rn, i.rm)
        BY <3>1 DEF Translate, Cmp
      <4>2. b = host[i.rm]
        BY <1>2, <3>1 DEF Second
      <4>3. Exec(St(host, flags), "cmp", i.rn, i.rm)
              = Apply(St(host, flags), "cmp", i.rn, host[i.rn], host[i.rm])
        BY <1>1, ExecutedRegister
      <4> QED
        BY <1>1, <4>1, <4>2, <4>3
    <3>2. CASE i.form = "cmpi"
      <4>1. Translate(St(host, flags), i) = Exec(St(host, flags), "cmp", i.rn, Imm(i.imm))
        BY <3>2 DEF Translate, CmpImm
      <4>2. b = i.imm
        BY <3>2 DEF Second
      <4>3. Exec(St(host, flags), "cmp", i.rn, Imm(i.imm))
              = Apply(St(host, flags), "cmp", i.rn, host[i.rn], i.imm)
        BY <1>1, <1>2, <3>2, ExecutedImmediate
      <4> QED
        BY <1>1, <4>1, <4>2, <4>3
    <3> QED
      BY <1>1, <1>5, <3>1, <3>2
  <2>3. Apply(St(host, flags), "cmp", i.rn, a, b) = St(host, HostFlags(r, ~c, v))
    <3>1. Apply(St(host, flags), "cmp", i.rn, a, b) = Flag(St(host, flags), r, ~c, v)
      BY ApplyCmp
    <3> HIDE DEF r, c, v
    <3>2. Flag(St(host, flags), r, ~c, v) = St(host, HostFlags(r, ~c, v))
      BY FlagIs
    <3> QED
      BY <3>1, <3>2
  <2>4. HostFlags(r, ~c, v) \in Flags /\ GuestFlags(r, c, v) \in NZCV
    BY <2>1, FlagTypes
  <2>5. GuestNZCV(i, a, b) = GuestFlags(r, c, v)
    <3>1. FirstCarry(i) = TRUE
      BY <1>5 DEF FirstCarry
    <3> QED
      BY <1>1, <1>3, <1>5, <3>1, AluFlags
  <2>6. Match("sub", HostFlags(r, ~c, v), GuestFlags(r, c, v))
    BY SameFlags
  <2> HIDE DEF r, c, v, b
  <2> QED
    BY <1>3, <1>4, <1>5, <2>2, <2>3, <2>4, <2>5, <2>6, FlagsRight DEF b
<1>6. CASE i.form = "tst"
  <2> DEFINE r == And(a, b)
  <2>1. Translate(St(host, flags), i) = Apply(St(host, flags), "test", i.rn, a, b)
    <3>1. Translate(St(host, flags), i) = Exec(St(host, flags), "test", i.rn, Imm(i.imm))
      BY <1>6 DEF Translate, Tst
    <3>2. b = i.imm
      BY <1>6 DEF Second
    <3>3. i.imm \in Word
      BY Decoded
    <3>4. Exec(St(host, flags), "test", i.rn, Imm(i.imm))
            = Apply(St(host, flags), "test", i.rn, host[i.rn], i.imm)
      BY <1>1, <3>3, ExecutedImmediate
    <3> QED
      BY <1>1, <3>1, <3>2, <3>4, Zenon
  <2>3. Apply(St(host, flags), "test", i.rn, a, b) = St(host, HostFlags(r, FALSE, FALSE))
    <3> DEFINE c == FALSE
    <3>1. Apply(St(host, flags), "test", i.rn, a, b) = Flag(St(host, flags), r, c, c)
      BY ApplyTest
    <3> HIDE DEF r, c
    <3>2. Flag(St(host, flags), r, c, c) = St(host, HostFlags(r, c, c))
      BY FlagIs
    <3> QED
      BY <3>1, <3>2 DEF c
  <2>4. HostFlags(r, FALSE, FALSE) \in Flags /\ GuestFlags(r, FALSE, FALSE) \in NZCV
    BY FlagTypes
  <2>5. GuestNZCV(i, a, b) = GuestFlags(r, FALSE, FALSE)
    <3>1. FirstCarry(i) = FALSE
      BY <1>1, <1>6 DEF FirstCarry
    <3> QED
      BY <1>1, <1>3, <1>6, <3>1, AluFlags
  <2>6. Match("and", HostFlags(r, FALSE, FALSE), GuestFlags(r, FALSE, FALSE))
    BY SameFlags
  <2> HIDE DEF r, b
  <2> QED
    BY <1>1, <1>3, <1>4, <1>6, <2>1, <2>3, <2>4, <2>5, <2>6, FlagsRight DEF b
<1> QED
  BY <1>1, <1>5, <1>6

LEMMA MovRight ==
  ASSUME IInv, NEW i \in Instrs, i.form = "mov"
  PROVE  Right(i)
<1> DEFINE h == [host EXCEPT ![i.rd] = x[i.rm]]
<1>1. /\ i.rd \in HostRegs /\ i.rm \in HostRegs /\ host \in [HostRegs -> Word]
      /\ host[i.rm] = x[i.rm] /\ x[i.rm] \in Word /\ Guest \subseteq HostRegs
      /\ Match(live, flags, nzcv) /\ live \in {"add", "sub", "and", "none"}
      /\ flags \in Flags /\ nzcv \in NZCV
  BY Decoded
<1>2. Translate(St(host, flags), i) = move(St(host, flags), i.rd, i.rm)
  BY DEF Translate
<1>3. move(St(host, flags), i.rd, i.rm) = St(h, flags) /\ h \in [HostRegs -> Word]
  <2>1. /\ move(St(host, flags), i.rd, i.rm) = St([host EXCEPT ![i.rd] = host[i.rm]], flags)
        /\ [host EXCEPT ![i.rd] = host[i.rm]] \in [HostRegs -> Word]
    <3> HIDE DEF h
    <3> QED
      BY Decoded, Moved
  <2> QED
    BY <1>1, <2>1
<1>4. /\ Result(i, x[i.rn], Second(i)) = x[i.rm]
      /\ GuestNZCV(i, x[i.rn], Second(i)) = nzcv
      /\ LiveAfter(i) = live
  <2>1. i.form \notin {"alu", "adc", "csel", "cmp", "cmpi", "tst", "cbz", "tbz"}
    OBVIOUS
  <2>2. Second(i) = x[i.rm]
    BY <2>1 DEF Second
  <2>3. Result(i, x[i.rn], Second(i)) = Second(i)
    BY <2>1 DEF Result
  <2>4. GuestNZCV(i, x[i.rn], Second(i)) = nzcv
    BY <2>1 DEF GuestNZCV
  <2>5. LiveAfter(i) = live
    BY <2>1 DEF LiveAfter
  <2> QED
    BY <2>2, <2>3, <2>4, <2>5
<1>5. \A q \in Guest : host[q] = x[q]
  BY DEF IInv, RegistersAgree
<1>6. h[i.rd] = x[i.rm] /\ \A q \in Guest : q # i.rd => h[q] = x[q]
  BY <1>1, <1>5
<1> HIDE DEF h
<1> QED
  BY <1>1, <1>2, <1>3, <1>4, <1>6, WritesRight

(***************************************************************************)
(* CSEL and its kin.                                                       *)
(***************************************************************************)
\* A conditional move reads the carry alone: rd keeps the first operand when
\* the guest's condition holds.
LEMMA Selected ==
  ASSUME IInv, NEW i \in Instrs, i.form = "csel", Safe(i),
         NEW k \in [HostRegs -> Word], NEW f, f.CF = flags.CF, NEW src \in HostRegs
  PROVE  Exec(St(k, f), cc[i.cond], i.rd, src)
           = St(IF Holds(Conds[i.cond], nzcv) THEN k ELSE [k EXCEPT ![i.rd] = k[src]], f)
<1> DEFINE l == [k EXCEPT ![i.rd] = k[src]]
<1>1. live = "sub" /\ Conds[i.cond] \in {"cs", "cc"}
  BY DEF Safe
<1>2. i.cond \in 1..16 /\ nzcv.C \in BOOLEAN /\ Match(live, flags, nzcv)
  BY Decoded DEF NZCV
<1>3. f.CF = ~nzcv.C
  BY <1>1, <1>2 DEF Match
<1>4. /\ Exec(St(k, f), cc[i.cond], i.rd, src)
           = Apply(St(k, f), cc[i.cond], i.rd, k[i.rd], k[src])
  BY ExecutedRegister
<1>5. Move(St(k, f), i.rd, k[src]) = St(l, f)
  BY MoveIs
<1>6. St(k, f).f.CF = f.CF
  BY Fields
<1> HIDE DEF l
<1>7. CASE Conds[i.cond] = "cs"
  <2>1. i.cond = 3
    BY <1>2, <1>7 DEF Conds
  <2>2. cc[i.cond] = "b"
    BY <2>1 DEF cc
  <2>3. Holds(Conds[i.cond], nzcv) = nzcv.C
    BY <1>7 DEF Holds
  <2>4. Apply(St(k, f), "b", i.rd, k[i.rd], k[src])
          = IF f.CF THEN St(l, f) ELSE St(k, f)
    BY <1>5, <1>6, ApplyCmovB, Zenon
  <2> QED
    BY <1>2, <1>3, <1>4, <2>2, <2>3, <2>4 DEF l
<1>8. CASE Conds[i.cond] = "cc"
  <2>1. i.cond = 4
    BY <1>2, <1>8 DEF Conds
  <2>2. cc[i.cond] = "ae"
    BY <2>1 DEF cc
  <2>3. Holds(Conds[i.cond], nzcv) = ~nzcv.C
    BY <1>8 DEF Holds
  <2>4. Apply(St(k, f), "ae", i.rd, k[i.rd], k[src])
          = IF f.CF THEN St(k, f) ELSE St(l, f)
    BY <1>5, <1>6, ApplyCmovAe, Zenon
  <2> QED
    BY <1>2, <1>3, <1>4, <2>2, <2>3, <2>4 DEF l
<1> QED
  BY <1>1, <1>7, <1>8

\* The destination holds the first operand and src the second one, changed.
LEMMA SelectRight ==
  ASSUME IInv, NEW i \in Instrs, i.form = "csel", Safe(i),
         NEW k \in [HostRegs -> Word], NEW f \in Flags, f.CF = flags.CF, NEW src \in HostRegs,
         Translate(St(host, flags), i) = Exec(St(k, f), cc[i.cond], i.rd, src),
         k[i.rd] = x[i.rn], \A q \in Guest : q # i.rd => k[q] = x[q],
         k[src] = (CASE i.fn = "csinc" -> Sum3(x[i.rm], 1, FALSE)
                     [] i.fn = "csinv" -> Invert(x[i.rm])
                     [] i.fn = "csneg" -> Sum3(Invert(x[i.rm]), 1, FALSE)
                     [] OTHER          -> x[i.rm]),
         Match(LiveAfter(i), f, nzcv), LiveAfter(i) \in {"add", "sub", "and", "none"}
  PROVE  Right(i)
<1> DEFINE h == IF Holds(Conds[i.cond], nzcv) THEN k ELSE [k EXCEPT ![i.rd] = k[src]]
           r == IF Holds(Conds[i.cond], nzcv) THEN x[i.rn] ELSE k[src]
<1>1. Translate(St(host, flags), i) = St(h, f)
  <2>1. Exec(St(k, f), cc[i.cond], i.rd, src) = St(h, f)
    BY Selected
  <2> HIDE DEF h
  <2> QED
    BY <2>1
<1>2. /\ i.rd \in HostRegs /\ x[i.rn] \in Word /\ nzcv \in NZCV /\ Guest \subseteq HostRegs
  BY Decoded
<1>3. h \in [HostRegs -> Word] /\ r \in Word
  BY <1>2
<1>4. h[i.rd] = r /\ \A q \in Guest : q # i.rd => h[q] = x[q]
  BY <1>2
<1>5. r = Result(i, x[i.rn], Second(i))
  <2>1. Second(i) = x[i.rm]
    BY DEF Second
  <2>2. Result(i, x[i.rn], x[i.rm]) = Select(i, x[i.rn], x[i.rm])
    BY DEF Result
  <2>3. Select(i, x[i.rn], x[i.rm]) = r
    BY Zenon DEF Select
  <2> QED
    BY <2>1, <2>2, <2>3
<1>6. GuestNZCV(i, x[i.rn], Second(i)) = nzcv
  BY DEF GuestNZCV
<1> HIDE DEF h, r
<1> QED
  BY <1>1, <1>2, <1>3, <1>4, <1>5, <1>6, WritesRight

LEMMA CselRight ==
  ASSUME IInv, NEW i \in Instrs, i.form = "csel", Safe(i)
  PROVE  Right(i)
<1> DEFINE h == [host EXCEPT ![i.rd] = x[i.rn]]
           b == x[i.rm]
           k == [h EXCEPT ![SCRATCH] = b]
<1>1. i.rd # i.rm /\ i.fn \in {"csel", "csinc", "csinv"} /\ KeepsOperand(i)
  BY DEF Safe, KeepsOperand
<1>2. /\ move(St(host, flags), i.rd, i.rn) = St(h, flags)
      /\ h \in [HostRegs -> Word] /\ h[i.rd] = x[i.rn] /\ h[i.rm] = b
      /\ \A r \in Guest : r # i.rd => h[r] = x[r]
  BY <1>1, FirstMove
<1>3. /\ i.rd \in Guest /\ i.rm \in HostRegs /\ b \in Word /\ Guest \subseteq HostRegs
      /\ SCRATCH \in HostRegs /\ SCRATCH \notin Guest
      /\ flags \in Flags /\ flags.CF \in BOOLEAN
      /\ live \in {"add", "sub", "and", "none"} /\ Match(live, flags, nzcv)
  BY Decoded DEF Flags
<1> HIDE DEF h, b
<1>4. Exec(St(h, flags), "mov", SCRATCH, i.rm) = St(k, flags)
  <2>1. Exec(St(h, flags), "mov", SCRATCH, i.rm) = Apply(St(h, flags), "mov", SCRATCH, h[SCRATCH], b)
    BY <1>2, <1>3, ExecutedRegister
  <2>2. Apply(St(h, flags), "mov", SCRATCH, h[SCRATCH], b) = Move(St(h, flags), SCRATCH, b)
    BY ApplyMov
  <2>3. Move(St(h, flags), SCRATCH, b) = St(k, flags)
    BY MoveIs
  <2> QED
    BY <2>1, <2>2, <2>3
<1>5. k \in [HostRegs -> Word] /\ k[SCRATCH] = b
  BY <1>2, <1>3
<1>6. \A v : [k EXCEPT ![SCRATCH] = v] = [h EXCEPT ![SCRATCH] = v]
  BY <1>2, <1>3
<1>7. \A v \in Word :
        LET l == [h EXCEPT ![SCRATCH] = v]
        IN /\ l \in [HostRegs -> Word] /\ l[SCRATCH] = v /\ l[i.rd] = x[i.rn]
           /\ \A q \in Guest : q # i.rd => l[q] = x[q]
  BY <1>2, <1>3
<1> HIDE DEF k
<1>8. \A change : Exec(St(k, flags), change, SCRATCH, SCRATCH)
                  = Apply(St(k, flags), change, SCRATCH, b, b)
  <2> TAKE change
  <2>1. St(k, flags).h = k /\ DOMAIN k = HostRegs /\ SCRATCH \in HostRegs
    BY <1>3, <1>5 DEF St
  <2>2. Operand(St(k, flags), SCRATCH) = b
    BY <1>5, <2>1, Zenon DEF Operand
  <2>3. St(k, flags).h[SCRATCH] = b
    BY <1>5, <2>1, Zenon
  <2> QED
    BY <2>2, <2>3, Zenon DEF Exec
<1>9. CASE i.fn = "csel"
  <2>1. Translate(St(host, flags), i) = Exec(St(h, flags), cc[i.cond], i.rd, i.rm)
    BY <1>2, <1>9 DEF Translate, Csel
  <2>2. LiveAfter(i) = live
    BY <1>9 DEF LiveAfter
  <2>3. h[i.rm] = (CASE i.fn = "csinc" -> Sum3(b, 1, FALSE)
                     [] i.fn = "csinv" -> Invert(b)
                     [] i.fn = "csneg" -> Sum3(Invert(b), 1, FALSE)
                     [] OTHER          -> b)
    BY <1>2, <1>9
  <2> QED
    BY <1>2, <1>3, <2>1, <2>2, <2>3, SelectRight DEF b
<1>10. CASE i.fn = "csinc"
  <2> DEFINE v == Sum3(b, 1, FALSE)
             l == [h EXCEPT ![SCRATCH] = v]
             f == HostFlags(v, flags.CF, Overflow(b, 1, FALSE))
  <2>1. Translate(St(host, flags), i)
          = Exec(Exec(St(k, flags), "inc", SCRATCH, SCRATCH), cc[i.cond], i.rd, SCRATCH)
    BY <1>2, <1>4, <1>10 DEF Translate, Csel
  <2>2. Exec(St(k, flags), "inc", SCRATCH, SCRATCH) = St(l, f)
    <3> DEFINE o == Overflow(b, 1, FALSE)
    <3>1. Apply(St(k, flags), "inc", SCRATCH, b, b)
            = Set(St(k, flags), SCRATCH, v, St(k, flags).f.CF, o)
      BY ApplyInc
    <3>2. St(k, flags).f.CF = flags.CF
      BY Fields
    <3> HIDE DEF v, o
    <3>3. Set(St(k, flags), SCRATCH, v, flags.CF, o)
            = St([k EXCEPT ![SCRATCH] = v], HostFlags(v, flags.CF, o))
      BY SetIs
    <3>4. [k EXCEPT ![SCRATCH] = v] = l
      BY <1>6
    <3> QED
      BY <1>8, <3>1, <3>2, <3>3, <3>4 DEF o
  <2>3. v \in Word
    BY <1>3, Words
  <2>4. f \in Flags
    BY <1>3, CarryTypes, FlagTypes, Zenon
  <2>5. f.CF = flags.CF
    BY DEF HostFlags
  <2>6. LiveAfter(i) = "none"
    BY <1>10 DEF LiveAfter
  <2>7. v = (CASE i.fn = "csinc" -> Sum3(b, 1, FALSE)
               [] i.fn = "csinv" -> Invert(b)
               [] i.fn = "csneg" -> Sum3(Invert(b), 1, FALSE)
               [] OTHER          -> b)
    BY <1>10
  <2>8. /\ l \in [HostRegs -> Word] /\ l[SCRATCH] = v /\ l[i.rd] = x[i.rn]
        /\ \A q \in Guest : q # i.rd => l[q] = x[q]
    BY <1>7, <2>3, Zenon
  <2>9. Match(LiveAfter(i), f, nzcv)
    BY <2>6, NoFlags, Zenon
  <2> HIDE DEF v, l, f
  <2> QED
    BY <1>3, <2>1, <2>2, <2>4, <2>5, <2>6, <2>7, <2>8, <2>9, SelectRight DEF b
<1>11. CASE i.fn = "csinv"
  <2> DEFINE v == Invert(b)
             l == [h EXCEPT ![SCRATCH] = v]
  <2>1. Translate(St(host, flags), i)
          = Exec(Exec(St(k, flags), "not", SCRATCH, SCRATCH), cc[i.cond], i.rd, SCRATCH)
    BY <1>2, <1>4, <1>11 DEF Translate, Csel
  <2>2. Exec(St(k, flags), "not", SCRATCH, SCRATCH) = St(l, flags)
    <3>1. Apply(St(k, flags), "not", SCRATCH, b, b) = Move(St(k, flags), SCRATCH, v)
      BY ApplyNot, Zenon
    <3>2. Move(St(k, flags), SCRATCH, v) = St([k EXCEPT ![SCRATCH] = v], flags)
      BY MoveIs, Zenon
    <3> QED
      BY <1>6, <1>8, <3>1, <3>2, Zenon
  <2>3. v \in Word
    BY <1>3, Words
  <2>6. LiveAfter(i) = live
    BY <1>11 DEF LiveAfter
  <2>7. v = (CASE i.fn = "csinc" -> Sum3(b, 1, FALSE)
               [] i.fn = "csinv" -> Invert(b)
               [] i.fn = "csneg" -> Sum3(Invert(b), 1, FALSE)
               [] OTHER          -> b)
    BY <1>11
  <2>8. /\ l \in [HostRegs -> Word] /\ l[SCRATCH] = v /\ l[i.rd] = x[i.rn]
        /\ \A q \in Guest : q # i.rd => l[q] = x[q]
    BY <1>7, <2>3, Zenon
  <2> HIDE DEF v, l
  <2> QED
    BY <1>3, <2>1, <2>2, <2>6, <2>7, <2>8, SelectRight DEF b
<1> QED
  BY <1>1, <1>9, <1>10, <1>11
-----------------------------------------------------------------------------
(***************************************************************************)
(* The branches.                                                           *)
(***************************************************************************)
\* What the conditions read, on the host and on the guest.
LEMMA HostReads ==
  ASSUME NEW f
  PROVE  /\ Cc("e", f) = f.ZF
         /\ Cc("ne", f) = ~f.ZF
         /\ Cc("b", f) = f.CF
         /\ Cc("ae", f) = ~f.CF
         /\ Cc("s", f) = f.SF
         /\ Cc("ns", f) = ~f.SF
         /\ Cc("o", f) = f.OF
         /\ Cc("no", f) = ~f.OF
         /\ Cc("a", f) = (~f.CF /\ ~f.ZF)
         /\ Cc("be", f) = (f.CF \/ f.ZF)
         /\ Cc("ge", f) = (f.SF = f.OF)
         /\ Cc("l", f) = (f.SF # f.OF)
         /\ Cc("g", f) = (~f.ZF /\ f.SF = f.OF)
         /\ Cc("le", f) = (f.ZF \/ f.SF # f.OF)
         /\ Cc("mp", f) = TRUE
  BY Zenon DEF Cc

LEMMA GuestReads ==
  ASSUME NEW g
  PROVE  /\ Holds("eq", g) = g.Z
         /\ Holds("ne", g) = ~g.Z
         /\ Holds("cs", g) = g.C
         /\ Holds("cc", g) = ~g.C
         /\ Holds("mi", g) = g.N
         /\ Holds("pl", g) = ~g.N
         /\ Holds("vs", g) = g.V
         /\ Holds("vc", g) = ~g.V
         /\ Holds("hi", g) = (g.C /\ ~g.Z)
         /\ Holds("ls", g) = ~(g.C /\ ~g.Z)
         /\ Holds("ge", g) = (g.N = g.V)
         /\ Holds("lt", g) = (g.N # g.V)
         /\ Holds("gt", g) = (~g.Z /\ g.N = g.V)
         /\ Holds("le", g) = ~(~g.Z /\ g.N = g.V)
         /\ Holds("al", g) = TRUE
         /\ Holds("nv", g) = TRUE
  BY Zenon DEF Holds

\* Where a condition is safe the host's code for it reads what the guest's
\* condition reads.
LEMMA SameCondition ==
  ASSUME NEW c \in 1..16, NEW f \in Flags, NEW g \in NZCV, NEW l,
         Match(l, f, g), l # "none",
         \/ Conds[c] \in {"eq", "ne", "mi", "pl", "vs", "vc", "ge", "lt", "gt", "le", "al", "nv"}
         \/ Conds[c] \in {"cs", "cc"} /\ l # "sub"
         \/ Conds[c] \in {"hi", "ls"} /\ l = "sub"
  PROVE  Cc(cc[c], f) = Holds(Conds[c], g)
<1>1. /\ f.SF \in BOOLEAN /\ f.ZF \in BOOLEAN /\ f.CF \in BOOLEAN /\ f.OF \in BOOLEAN
      /\ g.N \in BOOLEAN /\ g.Z \in BOOLEAN /\ g.C \in BOOLEAN /\ g.V \in BOOLEAN
  BY DEF Flags, NZCV
<1>2. f.SF = g.N /\ f.ZF = g.Z /\ f.OF = g.V
  BY DEF Match
<1>3. l # "sub" => f.CF = g.C
  BY DEF Match
<1>4. l = "sub" => f.CF = ~g.C
  BY DEF Match
<1>5. CASE c = 1
  <2>1. Conds[c] = "eq" /\ cc[c] = "e"
    BY <1>5 DEF Conds, cc
  <2>3. Cc("e", f) = f.ZF /\ Holds("eq", g) = g.Z
    BY HostReads, GuestReads, Zenon
  <2>4. Cc("e", f) = Holds("eq", g)
    BY <1>2, <2>3
  <2> QED
    BY <2>1, <2>4
<1>6. CASE c = 2
  <2>1. Conds[c] = "ne" /\ cc[c] = "ne"
    BY <1>6 DEF Conds, cc
  <2>3. Cc("ne", f) = (~f.ZF) /\ Holds("ne", g) = (~g.Z)
    BY HostReads, GuestReads, Zenon
  <2>4. Cc("ne", f) = Holds("ne", g)
    BY <1>2, <2>3
  <2> QED
    BY <2>1, <2>4
<1>7. CASE c = 3
  <2>1. Conds[c] = "cs" /\ cc[c] = "b"
    BY <1>7 DEF Conds, cc
  <2>2. f.CF = g.C
    BY <1>3, <2>1
  <2>3. Cc("b", f) = f.CF /\ Holds("cs", g) = g.C
    BY HostReads, GuestReads, Zenon
  <2>4. Cc("b", f) = Holds("cs", g)
    BY <2>2, <2>3
  <2> QED
    BY <2>1, <2>4
<1>8. CASE c = 4
  <2>1. Conds[c] = "cc" /\ cc[c] = "ae"
    BY <1>8 DEF Conds, cc
  <2>2. f.CF = g.C
    BY <1>3, <2>1
  <2>3. Cc("ae", f) = ~f.CF /\ Holds("cc", g) = ~g.C
    BY HostReads, GuestReads, Zenon
  <2>4. Cc("ae", f) = Holds("cc", g)
    BY <2>2, <2>3
  <2> QED
    BY <2>1, <2>4
<1>9. CASE c = 5
  <2>1. Conds[c] = "mi" /\ cc[c] = "s"
    BY <1>9 DEF Conds, cc
  <2>3. Cc("s", f) = f.SF /\ Holds("mi", g) = g.N
    BY HostReads, GuestReads, Zenon
  <2>4. Cc("s", f) = Holds("mi", g)
    BY <1>2, <2>3
  <2> QED
    BY <2>1, <2>4
<1>10. CASE c = 6
  <2>1. Conds[c] = "pl" /\ cc[c] = "ns"
    BY <1>10 DEF Conds, cc
  <2>2. Cc("ns", f) = ~f.SF /\ Holds("pl", g) = ~g.N
    BY HostReads, GuestReads, Zenon
  <2>3. Cc("ns", f) = Holds("pl", g)
    BY <1>1, <1>2, <2>2
  <2> QED
    BY <2>1, <2>3
<1>11. CASE c = 7
  <2>1. Conds[c] = "vs" /\ cc[c] = "o"
    BY <1>11 DEF Conds, cc
  <2>3. Cc("o", f) = f.OF /\ Holds("vs", g) = g.V
    BY HostReads, GuestReads, Zenon
  <2>4. Cc("o", f) = Holds("vs", g)
    BY <1>2, <2>3
  <2> QED
    BY <2>1, <2>4
<1>12. CASE c = 8
  <2>1. Conds[c] = "vc" /\ cc[c] = "no"
    BY <1>12 DEF Conds, cc
  <2>2. Cc("no", f) = ~f.OF /\ Holds("vc", g) = ~g.V
    BY HostReads, GuestReads, Zenon
  <2>3. Cc("no", f) = Holds("vc", g)
    BY <1>1, <1>2, <2>2
  <2> QED
    BY <2>1, <2>3
<1>13. CASE c = 9
  <2>1. Conds[c] = "hi" /\ cc[c] = "a"
    BY <1>13 DEF Conds, cc
  <2>2. f.CF = ~g.C
    BY <1>4, <2>1
  <2>3. (~f.CF /\ ~f.ZF) = (g.C /\ ~g.Z)
    BY <1>1, <1>2, <2>2
  <2>5. Cc("a", f) = (~f.CF /\ ~f.ZF) /\ Holds("hi", g) = (g.C /\ ~g.Z)
    BY HostReads, GuestReads, Zenon
  <2>4. Cc("a", f) = Holds("hi", g)
    BY <1>1, <2>3, <2>5
  <2> QED
    BY <2>1, <2>4
<1>14. CASE c = 10
  <2>1. Conds[c] = "ls" /\ cc[c] = "be"
    BY <1>14 DEF Conds, cc
  <2>2. f.CF = ~g.C
    BY <1>4, <2>1
  <2>3. (f.CF \/ f.ZF) = ~(g.C /\ ~g.Z)
    BY <1>1, <1>2, <2>2
  <2>5. Cc("be", f) = (f.CF \/ f.ZF) /\ Holds("ls", g) = (~(g.C /\ ~g.Z))
    BY HostReads, GuestReads, Zenon
  <2>4. Cc("be", f) = Holds("ls", g)
    BY <1>1, <2>3, <2>5
  <2> QED
    BY <2>1, <2>4
<1>15. CASE c = 11
  <2>1. Conds[c] = "ge" /\ cc[c] = "ge"
    BY <1>15 DEF Conds, cc
  <2>2. Cc("ge", f) = (f.SF = f.OF) /\ Holds("ge", g) = (g.N = g.V)
    BY HostReads, GuestReads, Zenon
  <2>3. Cc("ge", f) = Holds("ge", g)
    BY <1>1, <1>2, <2>2
  <2> QED
    BY <2>1, <2>3
<1>16. CASE c = 12
  <2>1. Conds[c] = "lt" /\ cc[c] = "l"
    BY <1>16 DEF Conds, cc
  <2>2. Cc("l", f) = (f.SF # f.OF) /\ Holds("lt", g) = (g.N # g.V)
    BY HostReads, GuestReads, Zenon
  <2>3. Cc("l", f) = Holds("lt", g)
    BY <1>1, <1>2, <2>2
  <2> QED
    BY <2>1, <2>3
<1>17. CASE c = 13
  <2>1. Conds[c] = "gt" /\ cc[c] = "g"
    BY <1>17 DEF Conds, cc
  <2>2. Cc("g", f) = (~f.ZF /\ f.SF = f.OF) /\ Holds("gt", g) = (~g.Z /\ g.N = g.V)
    BY HostReads, GuestReads, Zenon
  <2>3. Cc("g", f) = Holds("gt", g)
    BY <1>1, <1>2, <2>2
  <2> QED
    BY <2>1, <2>3
<1>18. CASE c = 14
  <2>1. Conds[c] = "le" /\ cc[c] = "le"
    BY <1>18 DEF Conds, cc
  <2>2. (f.ZF \/ f.SF # f.OF) = ~(~g.Z /\ g.N = g.V)
    BY <1>1, <1>2
  <2>4. Cc("le", f) = (f.ZF \/ f.SF # f.OF) /\ Holds("le", g) = ~(~g.Z /\ g.N = g.V)
    BY HostReads, GuestReads, Zenon
  <2>3. Cc("le", f) = Holds("le", g)
    BY <1>1, <2>2, <2>4
  <2> QED
    BY <2>1, <2>3
<1>19. CASE c = 15
  <2>1. Conds[c] = "al" /\ cc[c] = "mp"
    BY <1>19 DEF Conds, cc
  <2>3. Cc("mp", f) = TRUE /\ Holds("al", g) = TRUE
    BY HostReads, GuestReads, Zenon
  <2>4. Cc("mp", f) = Holds("al", g)
    BY <1>2, <2>3
  <2> QED
    BY <2>1, <2>4
<1>20. CASE c = 16
  <2>1. Conds[c] = "nv" /\ cc[c] = "mp"
    BY <1>20 DEF Conds, cc
  <2>3. Cc("mp", f) = TRUE /\ Holds("nv", g) = TRUE
    BY HostReads, GuestReads, Zenon
  <2>4. Cc("mp", f) = Holds("nv", g)
    BY <1>2, <2>3
  <2> QED
    BY <2>1, <2>4
<1> QED
  BY <1>5, <1>6, <1>7, <1>8, <1>9, <1>10, <1>11, <1>12,
     <1>13, <1>14, <1>15, <1>16, <1>17, <1>18, <1>19, <1>20

LEMMA BcondRight ==
  ASSUME IInv, NEW i \in Instrs, i.form = "bcond", Safe(i)
  PROVE  Right(i)
<1>1. /\ i.cond \in 1..16 /\ flags \in Flags /\ nzcv \in NZCV
      /\ Match(live, flags, nzcv) /\ live \in {"add", "sub", "and", "none"}
  BY Decoded
<1>2. Translate(St(host, flags), i) = St(host, flags)
  BY DEF Translate, Test
<1>3. LiveAfter(i) = live
  BY DEF LiveAfter
<1>4. GuestNZCV(i, x[i.rn], Second(i)) = nzcv
  BY DEF GuestNZCV
<1>5. Jump(i) = cc[i.cond] /\ GuestWay(i) = Holds(Conds[i.cond], nzcv)
  BY DEF Jump, GuestWay
<1>6. Cc(cc[i.cond], flags) = Holds(Conds[i.cond], nzcv)
  <2>1. CASE Conds[i.cond] \in {"al", "nv"}
    <3>1. i.cond \in {15, 16}
      BY <1>1, <2>1 DEF Conds
    <3>2. cc[i.cond] = "mp"
      BY <3>1 DEF cc
    <3>3. Cc("mp", flags) = TRUE /\ Holds("al", nzcv) = TRUE /\ Holds("nv", nzcv) = TRUE
      BY HostReads, GuestReads, Zenon
    <3> QED
      BY <2>1, <3>2, <3>3
  <2>2. CASE live # "none" /\ CondSafe(Conds[i.cond])
    <3>1. \/ Conds[i.cond] \in {"eq", "ne", "mi", "pl", "vs", "vc", "ge", "lt", "gt", "le", "al", "nv"}
          \/ Conds[i.cond] \in {"cs", "cc"} /\ live # "sub"
          \/ Conds[i.cond] \in {"hi", "ls"} /\ live = "sub"
      BY <2>2 DEF CondSafe
    <3> QED
      BY <1>1, <2>2, <3>1, SameCondition
  <2>3. Conds[i.cond] \in {"al", "nv"} \/ (live # "none" /\ CondSafe(Conds[i.cond]))
    BY DEF Safe
  <2> QED
    BY <2>1, <2>2, <2>3
<1> QED
  BY <1>1, <1>2, <1>3, <1>4, <1>5, <1>6, FlagsRight

\* CBZ compares with zero and CBNZ jumps the other way.
LEMMA CbzRight ==
  ASSUME IInv, NEW i \in Instrs, i.form = "cbz"
  PROVE  Right(i)
<1> DEFINE a == x[i.rn]
           c == ~Carry(a, Invert(0), TRUE)
           v == Overflow(a, Invert(0), TRUE)
           f == HostFlags(a, c, v)
<1>1. /\ i.rn \in HostRegs /\ host \in [HostRegs -> Word] /\ host[i.rn] = a /\ a \in Word
      /\ i.s \in BOOLEAN /\ nzcv \in NZCV
  BY Decoded
<1>2. 0 \in Word /\ c \in BOOLEAN /\ v \in BOOLEAN
  BY <1>1, Words, CarryTypes
<1>3. Translate(St(host, flags), i) = Exec(St(host, flags), "cmp", i.rn, Imm(0))
  BY DEF Translate, Test
<1>4. Exec(St(host, flags), "cmp", i.rn, Imm(0)) = Apply(St(host, flags), "cmp", i.rn, a, 0)
  <2> HIDE DEF a
  <2>1. \A n \in Word : Exec(St(host, flags), "cmp", i.rn, Imm(n))
                        = Apply(St(host, flags), "cmp", i.rn, host[i.rn], n)
    BY <1>1, ExecutedImmediate
  <2> QED
    BY <1>1, <1>2, <2>1
<1>5. Apply(St(host, flags), "cmp", i.rn, a, 0) = Flag(St(host, flags), a, c, v)
  <2>1. Apply(St(host, flags), "cmp", i.rn, a, 0)
          = Flag(St(host, flags), Sum3(a, Invert(0), TRUE), c, v)
    BY ApplyCmp
  <2> HIDE DEF a, c, v
  <2> QED
    BY <1>1, <2>1, MinusZero
<1>6. Flag(St(host, flags), a, c, v) = St(host, f)
  <2> HIDE DEF a, c, v
  <2> QED
    BY FlagIs
<1>7. f \in Flags
  <2> HIDE DEF a, c, v
  <2> QED
    BY <1>2, FlagTypes
<1>8. LiveAfter(i) = "none"
  BY DEF LiveAfter
<1>9. GuestNZCV(i, x[i.rn], Second(i)) = nzcv
  BY DEF GuestNZCV
<1>10. f.ZF = (a = 0)
  BY DEF HostFlags
<1> HIDE DEF c, v, f
<1>11. Cc(Jump(i), f) = GuestWay(i)
  <2>1. Jump(i) = IF i.s THEN "ne" ELSE "e"
    BY DEF Jump
  <2>2. GuestWay(i) = ((a = 0) # i.s)
    BY DEF GuestWay
  <2>3. Cc("ne", f) = ~f.ZF /\ Cc("e", f) = f.ZF
    BY HostReads, Zenon
  <2> QED
    BY <1>1, <1>10, <2>1, <2>2, <2>3
<1>12. Translate(St(host, flags), i) = St(host, f)
  BY <1>3, <1>4, <1>5, <1>6
<1>13. Match(LiveAfter(i), f, nzcv)
  BY <1>8, NoFlags
<1> QED
  BY <1>1, <1>7, <1>8, <1>9, <1>11, <1>12, <1>13, FlagsRight

\* TBZ leaves the bit in the carry.
LEMMA TbzRight ==
  ASSUME IInv, NEW i \in Instrs, i.form = "tbz"
  PROVE  Right(i)
<1> DEFINE a == x[i.rn]
           t == TestBit(a, i.imm)
           f == [flags EXCEPT !.CF = t]
<1>1. /\ i.rn \in HostRegs /\ host \in [HostRegs -> Word] /\ host[i.rn] = a
      /\ i.imm \in Word /\ i.s \in BOOLEAN /\ nzcv \in NZCV /\ flags \in Flags
  BY Decoded
<1>2. t \in BOOLEAN
  BY DEF TestBit
<1> HIDE DEF t
<1>3. Translate(St(host, flags), i) = Exec(St(host, flags), "bt", i.rn, Imm(i.imm))
  BY DEF Translate, Test
<1>4. Exec(St(host, flags), "bt", i.rn, Imm(i.imm)) = Apply(St(host, flags), "bt", i.rn, a, i.imm)
  <2> HIDE DEF a
  <2> QED
    BY <1>1, ExecutedImmediate
<1>5. Apply(St(host, flags), "bt", i.rn, a, i.imm) = [St(host, flags) EXCEPT !.f.CF = t]
  BY ApplyBt DEF t
<1>6. [St(host, flags) EXCEPT !.f.CF = t] = St(host, f)
  BY DEF St
<1>7. f \in Flags /\ f.CF = t
  BY <1>1, <1>2 DEF Flags
<1>8. LiveAfter(i) = "none"
  BY DEF LiveAfter
<1>9. GuestNZCV(i, x[i.rn], Second(i)) = nzcv
  BY DEF GuestNZCV
<1> HIDE DEF f
<1>10. Cc(Jump(i), f) = GuestWay(i)
  <2>1. Jump(i) = IF i.s THEN "b" ELSE "ae"
    BY DEF Jump
  <2>2. GuestWay(i) = (t = i.s)
    BY DEF GuestWay, t
  <2>3. Cc("ae", f) = ~f.CF /\ Cc("b", f) = f.CF
    BY HostReads, Zenon
  <2> QED
    BY <1>1, <1>2, <1>7, <2>1, <2>2, <2>3
<1>11. Translate(St(host, flags), i) = St(host, f)
  BY <1>3, <1>4, <1>5, <1>6
<1>12. Match(LiveAfter(i), f, nzcv)
  BY <1>8, NoFlags
<1>13. i.form \notin {"alu", "adc", "csel", "mov"}
  OBVIOUS
<1> HIDE DEF a
<1> QED
  BY <1>1, <1>7, <1>8, <1>9, <1>10, <1>11, <1>12, <1>13, FlagsRight, Zenon

\* Every safe instruction is translated right.
LEMMA TranslatedRight ==
  ASSUME IInv, NEW i \in Instrs, Safe(i)
  PROVE  Right(i)
<1>1. i.form \in Forms
  BY Decoded
<1> QED
  BY <1>1, AluRight, AdcRight, ComparisonRight, MovRight, CselRight, BcondRight, CbzRight,
     TbzRight DEF Forms
-----------------------------------------------------------------------------
(***************************************************************************)
(* The invariant.                                                          *)
(***************************************************************************)
LEMMA InitIInv == Init => IInv
<1> SUFFICES ASSUME Init PROVE IInv
  OBVIOUS
<1>1. x \in [Guest -> Word] /\ 0 \in Word
  BY SizeAssumption DEF Init, Word
<1>2. /\ nzcv \in [{"N", "Z", "C", "V"} -> BOOLEAN]
      /\ host = [r \in HostRegs |-> IF r \in Guest THEN x[r] ELSE 0]
      /\ flags = [SF |-> nzcv.N, ZF |-> nzcv.Z, CF |-> nzcv.C, OF |-> nzcv.V]
      /\ live = "add" /\ went = <<TRUE, TRUE>>
  BY DEF Init, HostRegs
<1>3. nzcv \in NZCV
  BY <1>2 DEF NZCV
<1>4. host \in [HostRegs -> Word]
  BY <1>1, <1>2
<1>5. flags \in Flags
  BY <1>2, <1>3 DEF Flags, NZCV
<1>6. TypeInv
  BY <1>1, <1>2, <1>3, <1>4, <1>5 DEF TypeInv
<1>7. RegistersAgree
  BY <1>2 DEF RegistersAgree, HostRegs
<1>8. FlagsAgree
  BY <1>2 DEF FlagsAgree
<1>9. SameWay
  BY <1>2 DEF SameWay
<1> QED
  BY <1>6, <1>7, <1>8, <1>9 DEF IInv

LEMMA GuestWayType ==
  ASSUME IInv, NEW i \in Instrs
  PROVE  GuestWay(i) \in BOOLEAN
<1>1. CASE i.form = "bcond"
  <2>1. /\ nzcv.N \in BOOLEAN /\ nzcv.Z \in BOOLEAN /\ nzcv.C \in BOOLEAN /\ nzcv.V \in BOOLEAN
    BY Decoded DEF NZCV
  <2>2. Holds(Conds[i.cond], nzcv) \in BOOLEAN
    BY <2>1, Zenon DEF Holds
  <2> QED
    BY <1>1, <2>2 DEF GuestWay
<1>2. CASE i.form # "bcond"
  BY <1>2, Zenon DEF GuestWay
<1> QED
  BY <1>1, <1>2

LEMMA RunIInv ==
  ASSUME IInv, OnlySafe, NEW i \in Instrs, Run(i)
  PROVE  IInv'
<1>1. Safe(i) /\ GuestStep(i) /\ HostStep(i)
  BY DEF Run
<1>2. live' = LiveAfter(i) /\ went' = <<GuestWay(i), HostWay(i)>>
  BY DEF Run
<1>3. Right(i)
  BY <1>1, TranslatedRight
<1>4. PICK h \in [HostRegs -> Word], f \in Flags :
        /\ Translate(St(host, flags), i) = St(h, f)
        /\ \A r \in Guest : h[r] = Guests(i)[r]
        /\ Match(LiveAfter(i), f, GuestNZCV(i, x[i.rn], Second(i)))
        /\ Branching(i) => Cc(Jump(i), f) = GuestWay(i)
        /\ LiveAfter(i) \in {"add", "sub", "and", "none"}
        /\ Guests(i) \in [Guest -> Word]
        /\ GuestNZCV(i, x[i.rn], Second(i)) \in NZCV
  BY <1>3 DEF Right
<1>5. host' = h /\ flags' = f
  <2>1. HostStep(i) <=> host' = Translate(St(host, flags), i).h
                        /\ flags' = Translate(St(host, flags), i).f
    BY DEF HostStep, St
  <2> QED
    BY <1>1, <1>4, <2>1, Fields
<1>6. x' = Guests(i) /\ nzcv' = GuestNZCV(i, x[i.rn], Second(i))
  BY <1>1 DEF GuestStep, Guests, Writing
<1>7. TypeInv'
  BY <1>2, <1>4, <1>5, <1>6 DEF TypeInv
<1>8. RegistersAgree'
  BY <1>4, <1>5, <1>6 DEF RegistersAgree
<1>9. FlagsAgree'
  BY <1>2, <1>4, <1>5, <1>6 DEF FlagsAgree, Match
<1>10. SameWay'
  <2>1. HostWay(i) = GuestWay(i)
    <3>1. CASE Branching(i)
      <4>1. Cc(Jump(i), flags') = GuestWay(i)
        BY <1>4, <1>5, <3>1
      <4>2. HostWay(i) <=> Cc(Jump(i), flags')
        BY <3>1, Zenon DEF HostWay, Branching
      <4>3. HostWay(i) \in BOOLEAN /\ GuestWay(i) \in BOOLEAN
        BY GuestWayType DEF HostWay
      <4> QED
        BY <4>1, <4>2, <4>3
    <3>2. CASE ~Branching(i)
      <4>1. GuestWay(i) = TRUE
        BY <3>2, Zenon DEF GuestWay, Branching
      <4>2. HostWay(i) = TRUE
        BY <3>2 DEF HostWay, Branching
      <4> QED
        BY <4>1, <4>2
    <3> QED
      BY <3>1, <3>2
  <2> QED
    BY <1>2, <2>1 DEF SameWay
<1> QED
  BY <1>7, <1>8, <1>9, <1>10 DEF IInv

LEMMA NextIInv ==
  ASSUME OnlySafe, IInv, [Next]_vars
  PROVE  IInv'
<1>1. ASSUME NEW i \in Instrs, Run(i) PROVE IInv'
  BY <1>1, RunIInv
<1>2. CASE UNCHANGED vars
  BY <1>2 DEF vars, IInv, TypeInv, RegistersAgree, FlagsAgree, SameWay
<1> QED
  BY <1>1, <1>2 DEF Next
-----------------------------------------------------------------------------
LEMMA Invariant == ASSUME OnlySafe PROVE Spec => []IInv
<1>1. Init => IInv
  BY InitIInv
<1>2. IInv /\ [Next]_vars => IInv'
  BY NextIInv
<1> QED
  BY <1>1, <1>2, PTL DEF Spec

\* translate() in ibootcore/a64_to_x64.py: whatever programs of safe
\* instructions run, in any order and for any length, the guest's registers
\* are the architecture's.
THEOREM SafeRegisters == ASSUME OnlySafe PROVE Spec => []RegistersAgree
<1>1. IInv => RegistersAgree
  BY DEF IInv
<1> QED
  BY <1>1, Invariant, PTL

\* Every conditional branch, compare-and-branch and test-and-branch goes the
\* architecture's way, however long before it the flags were set.
THEOREM SafeBranches == ASSUME OnlySafe PROVE Spec => []SameWay
<1>1. IInv => SameWay
  BY DEF IInv
<1> QED
  BY <1>1, Invariant, PTL

\* The host's flags stand for the guest's, the carry inverted after a
\* subtraction, until a host instruction comes between.
THEOREM SafeFlags == ASSUME OnlySafe PROVE Spec => []FlagsAgree
<1>1. IInv => FlagsAgree
  BY DEF IInv
<1> QED
  BY <1>1, Invariant, PTL
=============================================================================
