--------------------------- MODULE Monitor_proofs ---------------------------
(***************************************************************************)
(* The bare-metal programs, for every payload length, table of cases, set  *)
(* of lines and memory at boot: types; the boot sector reaches the payload *)
(* in long mode; what is on the screen is the line that will be parsed;    *)
(* the verdicts, the picture and the printed sum are right; and a typed    *)
(* word acts on the guest registers as the interpreter says, which rests   *)
(* on the translator's TranslateCorrect.                                   *)
(*                                                                         *)
(* TableTo and parse_hex are recursive functions: what they return for     *)
(* every table and line follows from the least number at which it fails.   *)
(***************************************************************************)
EXTENDS A64ToX64_proofs, Monitor, FiniteSetTheorems, WellFoundedInduction

-----------------------------------------------------------------------------
(* Recursive functions *)

\* Induction over the naturals, for the numbers with a property: the least
\* number without it would have a predecessor with it.
LEMMA LeastNumber ==
  ASSUME NEW S, S \subseteq Nat, S # {}
  PROVE  \E x \in S : \A y \in S : x <= y
<1> DEFINE R == {p \in Nat \X Nat : p[1] < p[2]}
<1>1. IsWellFoundedOn(R, Nat)
  BY NatLessThanWellFounded DEF OpToRel
<1>2. \A a, b \in Nat : <<b, a>> \notin R => a <= b
  OBVIOUS
<1> HIDE DEF R
<1>3. PICK x \in S : \A y \in S : <<y, x>> \notin R
  BY <1>1, WFMin
<1> QED BY <1>2, <1>3

\* A set with 0 and with every successor of a member has every number.
LEMMA Counting ==
  ASSUME NEW S, 0 \in S, \A n \in Nat : n \in S => n + 1 \in S
  PROVE  Nat \subseteq S
<1> DEFINE T == Nat \ S
<1>1. ASSUME T # {} PROVE FALSE
  <2>1. T \subseteq Nat /\ T # {}
    BY <1>1
  <2> HIDE DEF T
  <2>2. PICK x \in T : \A y \in T : x <= y
    BY <2>1, LeastNumber
  <2> USE DEF T
  <2>3. x - 1 \in Nat /\ ~(x <= x - 1) /\ x - 1 + 1 = x
    BY <2>2
  <2> QED BY <2>2, <2>3
<1> QED BY <1>1

\* f follows step from c on, up to n.
Recursive(f, n, c, step) == f = [k \in 0..n |-> IF k = 0 THEN c ELSE step[k][f[k - 1]]]

\* A function defined by recursion over an interval exists.
LEMMA Recursion ==
  ASSUME NEW n \in Nat, NEW T, NEW c \in T, NEW step \in [1..n -> [T -> T]]
  PROVE  \E f \in [0..n -> T] : Recursive(f, n, c, step)
<1> DEFINE Follows(f, m) == f[0] = c /\ \A k \in 1..m : f[k] = step[k][f[k - 1]]
           S == {m \in Nat : m <= n => \E f \in [0..m -> T] : Follows(f, m)}
<1>1. 0 \in S
  <2>1. [k \in 0..0 |-> c] \in [0..0 -> T] /\ Follows([k \in 0..0 |-> c], 0)
    OBVIOUS
  <2> QED BY <2>1
<1>2. ASSUME NEW m \in Nat, m \in S PROVE m + 1 \in S
  <2> SUFFICES ASSUME m + 1 <= n PROVE \E f \in [0..(m + 1) -> T] : Follows(f, m + 1)
    OBVIOUS
  <2>1. PICK f \in [0..m -> T] : Follows(f, m)
    BY <1>2
  <2> DEFINE g == [k \in 0..(m + 1) |-> IF k = m + 1 THEN step[k][f[m]] ELSE f[k]]
  <2>2. m + 1 \in 1..n /\ f[m] \in T
    OBVIOUS
  <2>3. step[m + 1] \in [T -> T]
    BY <2>2
  <2>4. g \in [0..(m + 1) -> T]
    BY <2>2, <2>3
  <2>5. g[0] = c /\ \A k \in 1..(m + 1) : g[k] = step[k][g[k - 1]]
    <3>1. g[0] = c
      BY <2>1
    <3>2. ASSUME NEW k \in 1..(m + 1) PROVE g[k] = step[k][g[k - 1]]
      <4>1. k - 1 \in 0..m /\ k - 1 # m + 1 /\ g[k - 1] = f[k - 1]
        OBVIOUS
      <4>2. CASE k = m + 1
        BY <4>1, <4>2
      <4>3. CASE k # m + 1
        BY <4>1, <4>3, <2>1
      <4> QED BY <4>2, <4>3
    <3> QED BY <3>1, <3>2
  <2> HIDE DEF g
  <2> QED BY <2>4, <2>5
<1> HIDE DEF S
<1>3. n \in S
  BY <1>1, <1>2, Counting
<1> USE DEF S
<1>4. PICK f \in [0..n -> T] : Follows(f, n)
  BY <1>3
<1>5. f = [k \in 0..n |-> IF k = 0 THEN c ELSE step[k][f[k - 1]]]
  <2>1. \A k \in 0..n : f[k] = IF k = 0 THEN c ELSE step[k][f[k - 1]]
    BY <1>4
  <2> QED BY <2>1
<1> QED BY <1>5 DEF Recursive

\* The case table: cases in the order of the list, those that can be encoded.
LEMMA TableRecursion ==
  /\ TableTo \in [0..Len(Cases) -> Seq(Case)]
  /\ TableTo[0] = <<>>
  /\ \A n \in 1..Len(Cases) :
       TableTo[n] = IF translate_word(Cases[n].word) THEN Append(TableTo[n - 1], Cases[n])
                    ELSE TableTo[n - 1]
<1> DEFINE L == Len(Cases)
           T == Seq(Case)
           step == [k \in 1..L |-> [t \in T |->
                      IF translate_word(Cases[k].word) THEN Append(t, Cases[k]) ELSE t]]
           Is(f) == f = [n \in 0..L |->
                           IF n = 0 THEN <<>>
                           ELSE IF translate_word(Cases[n].word) THEN Append(f[n - 1], Cases[n])
                                ELSE f[n - 1]]
<1>1. L \in Nat /\ \A k \in 1..L : Cases[k] \in Case
  BY CasesAssumption
<1> HIDE DEF L
<1>2. step \in [1..L -> [T -> T]]
  <2>1. \A k \in 1..L : \A t \in T : Append(t, Cases[k]) \in T
    BY <1>1
  <2> QED BY <2>1
<1>3. <<>> \in T
  OBVIOUS
<1> HIDE DEF T
<1>4. \E f \in [0..L -> T] : Recursive(f, L, <<>>, step)
  <2> HIDE DEF step
  <2> QED BY <1>1, <1>2, <1>3, Recursion
<1>5. PICK f \in [0..L -> T] : f = [k \in 0..L |-> IF k = 0 THEN <<>> ELSE step[k][f[k - 1]]]
  BY <1>4 DEF Recursive
<1>6. Is(f)
  <2>1. \A k \in 0..L : k # 0 => step[k][f[k - 1]] =
           IF translate_word(Cases[k].word) THEN Append(f[k - 1], Cases[k]) ELSE f[k - 1]
    BY <1>1
  <2>2. \A k \in 0..L : f[k] = IF k = 0 THEN <<>> ELSE
           IF translate_word(Cases[k].word) THEN Append(f[k - 1], Cases[k]) ELSE f[k - 1]
    BY <1>5, <2>1
  <2> QED BY <2>2
<1>7. Is(TableTo)
  <2>1. TableTo = CHOOSE g : Is(g)
    BY DEF TableTo, L
  <2> HIDE DEF Is
  <2> QED BY <1>6, <2>1, Zenon
<1>9. \A n \in 0..L : TableTo[n] =
        IF n = 0 THEN <<>>
        ELSE IF translate_word(Cases[n].word) THEN Append(TableTo[n - 1], Cases[n])
             ELSE TableTo[n - 1]
  BY <1>7
<1>8. TableTo \in [0..L -> T]
  <2> DEFINE S == {m \in Nat : m \in 0..L => TableTo[m] \in T}
  <2>1. 0 \in S
    BY <1>1, <1>3, <1>7
  <2>2. ASSUME NEW m \in Nat, m \in S PROVE m + 1 \in S
    <3> SUFFICES ASSUME m + 1 \in 0..L PROVE TableTo[m + 1] \in T
      OBVIOUS
    <3>1. m \in 0..L /\ TableTo[m] \in T /\ m + 1 # 0 /\ m + 1 - 1 = m /\ m + 1 \in 1..L
      BY <1>1, <2>2
    <3>2. TableTo[m + 1] = IF translate_word(Cases[m + 1].word) THEN Append(TableTo[m], Cases[m + 1])
                           ELSE TableTo[m]
      BY <1>9, <3>1
    <3> QED BY <1>1, <3>1, <3>2 DEF T
  <2> HIDE DEF S
  <2>3. Nat \subseteq S
    BY <2>1, <2>2, Counting
  <2> USE DEF S
  <2>4. \A m \in 0..L : TableTo[m] \in T
    BY <1>1, <2>3
  <2>5. TableTo = [m \in 0..L |-> TableTo[m]]
    BY <1>7
  <2> QED BY <2>4, <2>5
<1>10. TableTo[0] = <<>> /\ \A n \in 1..L :
        TableTo[n] = IF translate_word(Cases[n].word) THEN Append(TableTo[n - 1], Cases[n])
                     ELSE TableTo[n - 1]
  <2>1. 0 \in 0..L /\ \A n \in 1..L : n \in 0..L /\ n # 0
    BY <1>1
  <2> QED BY <1>9, <2>1, Zenon
<1> QED BY <1>8, <1>10 DEF L, T

\* Every row of the table is a case.
LEMMA TestTable ==
  /\ test_table \in Seq(Case) /\ Len(test_table) \in 0..Len(Cases)
  /\ \A j \in 1..Len(test_table) : \E k \in DOMAIN Cases : test_table[j] = Cases[k]
<1> DEFINE L == Len(Cases)
           Good(t, m) == Len(t) <= m /\ \A j \in 1..Len(t) : \E k \in 1..L : t[j] = Cases[k]
           S == {m \in Nat : m \in 0..L => Good(TableTo[m], m)}
<1>1. L \in Nat /\ DOMAIN Cases = 1..L
  BY CasesAssumption
<1> HIDE DEF L
<1>2. /\ TableTo \in [0..L -> Seq(Case)] /\ TableTo[0] = <<>>
      /\ \A n \in 1..L :
           TableTo[n] = IF translate_word(Cases[n].word) THEN Append(TableTo[n - 1], Cases[n])
                        ELSE TableTo[n - 1]
  BY TableRecursion DEF L
<1>3. 0 \in S
  BY <1>2
<1>4. ASSUME NEW m \in Nat, m \in S PROVE m + 1 \in S
  <2> SUFFICES ASSUME m + 1 \in 0..L PROVE Good(TableTo[m + 1], m + 1)
    OBVIOUS
  <2>1. m \in 0..L /\ m + 1 \in 1..L /\ m + 1 - 1 = m /\ Good(TableTo[m], m)
    BY <1>1, <1>4
  <2>2. TableTo[m + 1] = IF translate_word(Cases[m + 1].word) THEN Append(TableTo[m], Cases[m + 1])
                         ELSE TableTo[m]
    <3> DEFINE n == m + 1
    <3>1. n \in 1..L /\ n - 1 = m
      BY <2>1
    <3> HIDE DEF n
    <3>2. TableTo[n] = IF translate_word(Cases[n].word) THEN Append(TableTo[n - 1], Cases[n])
                       ELSE TableTo[n - 1]
      BY <1>2, <3>1
    <3> QED BY <3>1, <3>2 DEF n
  <2> DEFINE t == TableTo[m]
  <2>3. t \in Seq(Case)
    BY <1>2, <2>1
  <2> HIDE DEF t
  <2>4. Good(Append(t, Cases[m + 1]), m + 1)
    BY <2>1, <2>3 DEF t
  <2>5. Good(t, m + 1)
    BY <2>1, <2>3 DEF t
  <2> QED BY <2>2, <2>4, <2>5 DEF t
<1> HIDE DEF S
<1>5. L \in S
  BY <1>1, <1>3, <1>4, Counting
<1> USE DEF S
<1>6. Good(test_table, L) /\ test_table \in Seq(Case)
  BY <1>1, <1>2, <1>5 DEF test_table, L
<1> QED BY <1>1, <1>6 DEF L

\* What the typed digits stand for is a number.
LEMMA ParsedNumber ==
  ASSUME NEW s \in Seq(Chars)
  PROVE  parse_hex(s) \in Nat
<1> DEFINE L == Len(s)
           step == [k \in 1..L |-> [t \in Nat |-> t * Base + Digit[s[k]]]]
           Is(f) == f = [k \in 0..L |-> IF k = 0 THEN 0 ELSE f[k - 1] * Base + Digit[s[k]]]
           value == CHOOSE f : Is(f)
<1>1. L \in Nat /\ \A k \in 1..L : Digit[s[k]] \in Nat
  BY MonitorAssumption DEF Chars
<1>2. parse_hex(s) = value[L]
  BY DEF parse_hex
<1> HIDE DEF L
<1>3. step \in [1..L -> [Nat -> Nat]]
  <2>1. \A a, b, c \in Nat : a * b + c \in Nat
    OBVIOUS
  <2>2. Base \in Nat
    BY MonitorAssumption
  <2>3. \A k \in 1..L : \A t \in Nat : t * Base + Digit[s[k]] \in Nat
    BY <1>1, <2>1, <2>2
  <2> QED BY <2>3
<1>4. \E f \in [0..L -> Nat] : Recursive(f, L, 0, step)
  <2> HIDE DEF step
  <2> QED BY <1>1, <1>3, Recursion
<1>5. PICK f \in [0..L -> Nat] : f = [k \in 0..L |-> IF k = 0 THEN 0 ELSE step[k][f[k - 1]]]
  BY <1>4 DEF Recursive
<1>6. Is(f)
  <2>1. \A k \in 0..L : f[k] = IF k = 0 THEN 0 ELSE f[k - 1] * Base + Digit[s[k]]
    <3> SUFFICES ASSUME NEW k \in 0..L, k # 0
                 PROVE  step[k][f[k - 1]] = f[k - 1] * Base + Digit[s[k]]
      BY <1>5
    <3>1. k \in 1..L /\ f[k - 1] \in Nat
      BY <1>1
    <3> QED BY <3>1
  <2> QED BY <2>1
<1>7. Is(value)
  <2> HIDE DEF Is
  <2> QED BY <1>6, Zenon
<1> DEFINE S == {m \in Nat : m \in 0..L => value[m] \in Nat}
<1> HIDE DEF value
<1>8. 0 \in S
  BY <1>1, <1>7
<1>9. ASSUME NEW m \in Nat, m \in S PROVE m + 1 \in S
  <2> SUFFICES ASSUME m + 1 \in 0..L PROVE value[m + 1] \in Nat
    OBVIOUS
  <2>1. m \in 0..L /\ value[m] \in Nat /\ m + 1 # 0 /\ m + 1 - 1 = m /\ m + 1 \in 1..L
    BY <1>1, <1>9
  <2>2. value[m + 1] = value[m] * Base + Digit[s[m + 1]]
    BY <1>7, <2>1
  <2>3. \A a, b, c \in Nat : a * b + c \in Nat
    OBVIOUS
  <2>4. Base \in Nat /\ Digit[s[m + 1]] \in Nat
    BY <1>1, <2>1, MonitorAssumption
  <2> QED BY <2>1, <2>2, <2>3, <2>4
<1> HIDE DEF S
<1>10. L \in S
  BY <1>1, <1>8, <1>9, Counting
<1> QED BY <1>1, <1>2, <1>10 DEF S
-----------------------------------------------------------------------------
(* Running a translated word *)

\* The guest registers of the bench live in four host registers.
LEMMA GuestHomes ==
  /\ \A n \in Guest : hostreg(n) \in Locs /\ hostreg(n) # SCRATCH /\ ~is_mem(hostreg(n))
  /\ \A m, n \in Guest : hostreg(m) = hostreg(n) => m = n
<1>1. Guest \subseteq AnyReg /\ Guest = 0..3
  BY MonitorAssumption DEF AnyReg
<1>2. \A n \in 0..3 : ~is_mem(hostreg(n))
  BY DEF hostreg, is_mem, XREG, Reg, SPILL_BASE
<1> QED BY <1>1, <1>2, Homes

\* A host state with f in the guest registers' homes and v everywhere else.
Around(f, v) == [l \in Locs |-> IF \E n \in Guest : hostreg(n) = l
                                THEN f[CHOOSE n \in Guest : hostreg(n) = l] ELSE v]

\* Loading a register file gives a host state that stands for it.
LEMMA Loaded ==
  ASSUME NEW f \in [Guest -> Word], NEW v \in Word
  PROVE  /\ Around(f, v) \in HostState /\ View(Around(f, v)) = f
         /\ \A n \in Guest : Around(f, v)[hostreg(n)] = f[n]
<1>1. \A l : (\E n \in Guest : hostreg(n) = l) =>
        /\ (CHOOSE n \in Guest : hostreg(n) = l) \in Guest
        /\ hostreg(CHOOSE n \in Guest : hostreg(n) = l) = l
  BY Zenon
<1>2. Around(f, v) \in HostState
  BY <1>1 DEF Around, HostState
<1>3. \A n \in Guest : Around(f, v)[hostreg(n)] = f[n]
  <2> TAKE n \in Guest
  <2> DEFINE l == hostreg(n)
             m == CHOOSE k \in Guest : hostreg(k) = l
  <2>1. m \in Guest /\ hostreg(m) = l
    BY <1>1
  <2>2. m = n /\ l \in Locs
    BY <2>1, GuestHomes
  <2>3. Around(f, v)[l] = f[m]
    BY <2>2 DEF Around
  <2> QED BY <2>2, <2>3
<1> QED BY <1>2, <1>3 DEF View

\* LoadFile and HostOf are such states, and zero and one are words.
LEMMA Loads ==
  /\ 0 \in Word /\ 1 \in Word
  /\ \A f : LoadFile(f) = Around(f, 0) /\ HostOf(f) = Around(f, 1)
  /\ \A h : Spill(h) = View(h)
<1>1. 0 \in Word /\ 1 \in Word
  BY WordAssumption, MonitorAssumption
<1> QED BY <1>1 DEF LoadFile, HostOf, Around, Spill, View
-----------------------------------------------------------------------------
\* Flushing a translation keeps the host state's type.
LEMMA FlushType ==
  ASSUME NEW i \in Instrs, NEW h \in HostState
  PROVE  Flush(h, Translate(i)) \in HostState
<1>1. Translate(i) \in Seq(OpSet)
  BY TranslateShape DEF Listing
<1>2. \A g \in HostState, k \in 1..5 : Apply(g, Translate(i), k) \in HostState
  <2> SUFFICES ASSUME NEW g \in HostState, NEW k \in 1..5
               PROVE  Apply(g, Translate(i), k) \in HostState
    OBVIOUS
  <2>1. k <= Len(Translate(i)) => Translate(i)[k] \in OpSet
    BY <1>1
  <2> QED BY <2>1, ExecType DEF Apply
<1> QED BY <1>2 DEF Flush

\* A translated word leaves a register file.
LEMMA BlockType ==
  ASSUME NEW f \in [Guest -> Word], NEW i \in Instrs
  PROVE  RunBlock(f, i) \in [Guest -> Word]
<1>1. LoadFile(f) \in HostState
  BY Loads, Loaded
<1>2. Flush(LoadFile(f), Translate(i)) \in HostState
  BY <1>1, FlushType
<1> QED BY <1>2, GuestHomes DEF RunBlock, Spill, HostState

\* The round trip through the host registers of a word translated safely.
LEMMA BlockCorrect ==
  ASSUME NEW f \in [Guest -> Word], NEW i \in Instrs, Safe(i)
  PROVE  RunBlock(f, i) = Step(f, i)
<1>1. LoadFile(f) \in HostState /\ View(LoadFile(f)) = f
  BY Loads, Loaded
<1>2. View(Flush(LoadFile(f), Translate(i))) = Step(View(LoadFile(f)), i)
  BY <1>1, TranslateCorrect
<1> QED BY <1>1, <1>2, Loads DEF RunBlock
-----------------------------------------------------------------------------
(* The verdict on a case *)

\* Two host states that agree on the locations S, whatever is elsewhere.
Agree(h, g, S) == DOMAIN h = Locs /\ DOMAIN g = Locs /\ \A l \in S : h[l] = g[l]

\* An instruction that writes S only from S, and such a list.
Own(o, S) == /\ o.op \notin {"div", "idiv"}
             /\ o.dst \in S => o.src \in S \/ o.src[1] = "imm"
Owns(ops, S) == \A k \in 1..Len(ops) : Own(ops[k], S)

\* What is elsewhere does not matter to such an instruction.
LEMMA AgreeStep ==
  ASSUME NEW S, S \subseteq Locs, NEW h, NEW g, Agree(h, g, S), NEW o, Own(o, S)
  PROVE  Agree(Exec(h, o), Exec(g, o), S)
<1>1. \A l : l \in S \/ l[1] = "imm" => Val(h, l) = Val(g, l)
  BY DEF Agree, Val
<1>2. CASE o.op = "mov"
  <2>1. /\ Exec(h, o) = [h EXCEPT ![o.dst] = Val(h, o.src)]
        /\ Exec(g, o) = [g EXCEPT ![o.dst] = Val(g, o.src)]
    BY <1>2 DEF Exec
  <2> QED BY <1>1, <2>1 DEF Agree, Own
<1>3. CASE o.op = "cmp"
  BY <1>3 DEF Exec
<1>4. CASE o.op \notin {"mov", "cmp"}
  <2>1. /\ Exec(h, o) = [h EXCEPT ![o.dst] = X86(o.op, h[o.dst], Val(h, o.src))]
        /\ Exec(g, o) = [g EXCEPT ![o.dst] = X86(o.op, g[o.dst], Val(g, o.src))]
    BY <1>4 DEF Exec, Own
  <2> QED BY <1>1, <2>1 DEF Agree, Own
<1> QED BY <1>2, <1>3, <1>4

\* Nor to such a list.
LEMMA AgreeFlush ==
  ASSUME NEW S, S \subseteq Locs, NEW h, NEW g, Agree(h, g, S), NEW ops, Owns(ops, S)
  PROVE  Agree(Flush(h, ops), Flush(g, ops), S)
<1>1. \A a, b : Agree(a, b, S) =>
        \A k \in 1..5 : Agree(Apply(a, ops, k), Apply(b, ops, k), S)
  <2> SUFFICES ASSUME NEW a, NEW b, Agree(a, b, S), NEW k \in 1..5
               PROVE  Agree(Apply(a, ops, k), Apply(b, ops, k), S)
    OBVIOUS
  <2>1. CASE k <= Len(ops)
    <3>1. Own(ops[k], S)
      BY <2>1 DEF Owns
    <3> QED BY <2>1, <3>1, AgreeStep DEF Apply
  <2>2. CASE ~(k <= Len(ops))
    BY <2>2 DEF Apply
  <2> QED BY <2>1, <2>2
<1> QED BY <1>1 DEF Flush

\* A move into the scratch register from S makes it one of S.
LEMMA AgreeScratch ==
  ASSUME NEW S, S \subseteq Locs, NEW h, NEW g, Agree(h, g, S), NEW s \in S, s[1] # "imm"
  PROVE  LET o == Op("mov", SCRATCH, s)
         IN  Agree(Exec(h, o), Exec(g, o), S \cup {SCRATCH})
<1> DEFINE o == Op("mov", SCRATCH, s)
<1>1. /\ Exec(h, o) = [h EXCEPT ![SCRATCH] = h[s]]
      /\ Exec(g, o) = [g EXCEPT ![SCRATCH] = g[s]]
  BY DEF Exec, Op, Val
<1>2. SCRATCH \in Locs
  BY LocFacts
<1> QED BY <1>1, <1>2 DEF Agree

\* A list is owned when its parts are.
LEMMA OwnsCat ==
  ASSUME NEW S, NEW s \in Seq(OpSet), NEW t \in Seq(OpSet), Owns(s, S), Owns(t, S)
  PROVE  Owns(s \o t, S)
<1>1. /\ Len(s) \in Nat /\ Len(t) \in Nat /\ Len(s \o t) = Len(s) + Len(t)
      /\ \A k \in 1..Len(s) + Len(t) : (s \o t)[k] = IF k <= Len(s) THEN s[k] ELSE t[k - Len(s)]
  BY ConcatProperties, LenProperties
<1> SUFFICES ASSUME NEW k \in 1..Len(s) + Len(t) PROVE Own((s \o t)[k], S)
  BY <1>1 DEF Owns
<1>2. CASE k <= Len(s)
  BY <1>1, <1>2 DEF Owns
<1>3. CASE ~(k <= Len(s))
  <2>1. k - Len(s) \in 1..Len(t)
    BY <1>1, <1>3
  <2>2. (s \o t)[k] = t[k - Len(s)]
    BY <1>1, <1>3
  <2> QED BY <2>1, <2>2 DEF Owns
<1> QED BY <1>2, <1>3

\* Lists of at most two instructions, one by one.
LEMMA OwnsShort ==
  ASSUME NEW S
  PROVE  /\ Owns(<<>>, S)
         /\ \A a : Own(a, S) => Owns(<<a>>, S)
         /\ \A a, b : Own(a, S) /\ Own(b, S) => Owns(<<a, b>>, S)
<1>1. Owns(<<>>, S)
  BY DEF Owns
<1>2. \A a : Own(a, S) => Owns(<<a>>, S)
  BY DEF Owns
<1>3. \A a, b : Own(a, S) /\ Own(b, S) => Owns(<<a, b>>, S)
  BY DEF Owns
<1> QED BY <1>1, <1>2, <1>3

\* The instructions the bench's words turn into, one kind at a time.
LEMMA OwnsOp ==
  ASSUME NEW S, NEW d, NEW op, op \notin {"div", "idiv"}
  PROVE  /\ \A v : Own(Op(op, d, Imm(v)), S)
         /\ \A s : s \in S \/ d \notin S => Own(Op(op, d, s), S)
BY DEF Own, Op, Imm

\* Moving a register of S anywhere.
LEMMA OwnsMove ==
  ASSUME NEW S, NEW d, NEW s \in S, ~is_mem(s)
  PROVE  Owns(move(d, s), S)
<1>1. CASE d = s
  BY <1>1, OwnsShort DEF move
<1>2. CASE d # s
  <2>1. Own(Op("mov", d, s), S)
    BY OwnsOp
  <2> QED BY <1>2, <2>1, OwnsShort DEF move
<1> QED BY <1>1, <1>2

GuestLocs == {hostreg(n) : n \in Guest}

\* The words of the bench, and where their operands are.
LEMMA CaseOperands ==
  ASSUME NEW i \in Instrs, i.form \in Interpreted, ~ReadsZero(i)
  PROVE  /\ i.form = "alu_imm" => N(i) \in GuestLocs
         /\ i.form = "alu_shift" => N(i) \in GuestLocs /\ M(i) \in GuestLocs
         /\ i.form = "alu_reg" => M(i) \in GuestLocs /\ (N(i) \in GuestLocs \/ (i.fn = "orr" /\ i.rn = 31))
         /\ GuestLocs \subseteq Locs /\ SCRATCH \notin GuestLocs
         /\ \A l \in GuestLocs : ~is_mem(l) /\ l[1] # "imm"
<1>1. \A r \in AnyReg : r # 31 => hostreg(r) \in GuestLocs
  BY DEF AnyReg, GuestLocs
<1>2. i.rn \in AnyReg /\ i.rm \in AnyReg
  BY Fields
<1>3. \A l \in GuestLocs : ~is_mem(l) /\ l[1] # "imm" /\ l \in Locs /\ l # SCRATCH
  BY GuestHomes, Homes DEF GuestLocs, AnyReg
<1> QED BY <1>1, <1>2, <1>3 DEF ReadsZero, N, M

\* The words that need no scratch register only read and write guest registers.
LEMMA OwnsCase ==
  ASSUME NEW i \in Instrs, i.form \in Interpreted \ {"alu_shift"}, ~ReadsZero(i)
  PROVE  Owns(Translate(i), GuestLocs)
<1> DEFINE S == GuestLocs
<1>0. /\ i.form = "alu_imm" => N(i) \in S
      /\ i.form = "alu_reg" => M(i) \in S /\ (N(i) \in S \/ (i.fn = "orr" /\ i.rn = 31))
      /\ SCRATCH \notin S /\ \A l \in S : ~is_mem(l)
  BY CaseOperands DEF Interpreted
<1>10. /\ D(i) \in Locs /\ N(i) \in Locs /\ M(i) \in Locs /\ Locs \subseteq Sources
       /\ Imm(i.imm) \in Sources /\ i.fn \in FnsOf(i.form)
  BY Fields, LocFacts
<1> HIDE DEF S
<1>1. CASE i.form = "alu_imm"
  <2>1. x86op[i.fn] \in DataOps
    BY <1>10, <1>1, OpFacts DEF FnsOf
  <2>2. x86op[i.fn] \notin {"div", "idiv"} /\ x86op[i.fn] \in HostOps
    BY <2>1, OpFacts DEF DataOps
  <2> DEFINE a == Op(x86op[i.fn], D(i), Imm(i.imm))
             c == Op("cmp", N(i), Imm(i.imm))
  <2>3. Own(a, S) /\ Own(c, S) /\ a \in OpSet
    BY <1>10, <2>2, OwnsOp, OpFacts
  <2>4. Owns(move(D(i), N(i)), S) /\ move(D(i), N(i)) \in Seq(OpSet)
    BY <1>0, <1>1, <1>10, OwnsMove, MoveShape
  <2>5. Translate(i) \in {<<c>>, move(D(i), N(i)) \o <<a>>}
    BY <1>1 DEF Translate, AluImm, Via
  <2> HIDE DEF a, c
  <2>6. Owns(<<a>>, S) /\ Owns(<<c>>, S) /\ <<a>> \in Seq(OpSet)
    BY <2>3, OwnsShort
  <2>7. Owns(move(D(i), N(i)) \o <<a>>, S)
    BY <2>4, <2>6, OwnsCat
  <2> QED BY <2>5, <2>6, <2>7 DEF S
<1>2. CASE i.form = "movz"
  <2>1. Own(Op("mov", D(i), Imm(i.imm)), S)
    BY OwnsOp
  <2> QED BY <1>2, <2>1, OwnsShort DEF Translate, Movz, S
<1>3. CASE i.form = "const"
  <2>1. /\ Own(Op("mov", D(i), Imm(i.imm)), S) /\ Own(Op("mov", SCRATCH, Imm(i.imm)), S)
        /\ is_mem(D(i)) => Own(Op("mov", D(i), SCRATCH), S)
    BY <1>0, OwnsOp
  <2> QED BY <1>3, <2>1, OwnsShort DEF Translate, Const, moveConst, S
<1>4. CASE i.form = "movk"
  <2>1. Own(Op("and", D(i), Imm(i.amt)), S) /\ Own(Op("or", D(i), Imm(i.imm)), S)
    BY OwnsOp
  <2> QED BY <1>4, <2>1, OwnsShort DEF Translate, Movk, S
<1>5. CASE i.form = "alu_reg"
  <2>1. x86op[i.fn] \in DataOps
    BY <1>10, <1>5, OpFacts DEF FnsOf
  <2>2. x86op[i.fn] \notin {"div", "idiv"} /\ x86op[i.fn] \in HostOps
    BY <2>1, OpFacts DEF DataOps
  <2> DEFINE a == Op(x86op[i.fn], D(i), M(i))
             c == Op("cmp", N(i), M(i))
  <2>3. Own(a, S) /\ a \in OpSet /\ Own(c, S)
    BY <1>0, <1>5, <1>10, <2>2, OwnsOp, OpFacts
  <2>4. ~is_mem(M(i)) /\ M(i) \in S
    BY <1>0, <1>5
  <2>5. Translate(i) \in {move(D(i), M(i)), <<c>>, move(D(i), N(i)) \o <<a>>}
    BY <1>5, <2>4 DEF Translate, AluReg, Compare, Combine
  <2>6. Translate(i) = move(D(i), N(i)) \o <<a>> => N(i) \in S \/ Translate(i) = move(D(i), M(i))
    BY <1>0, <1>5 DEF Translate, AluReg
  <2> HIDE DEF a, c
  <2>7. Owns(<<a>>, S) /\ Owns(<<c>>, S) /\ <<a>> \in Seq(OpSet)
    BY <2>3, OwnsShort
  <2>9. Owns(move(D(i), M(i)), S)
    BY <2>4, OwnsMove
  <2>8. ASSUME N(i) \in S PROVE Owns(move(D(i), N(i)) \o <<a>>, S)
    <3>1. Owns(move(D(i), N(i)), S) /\ move(D(i), N(i)) \in Seq(OpSet)
      BY <1>0, <1>10, <2>8, OwnsMove, MoveShape
    <3> QED BY <3>1, <2>7, OwnsCat
  <2> QED BY <2>5, <2>6, <2>7, <2>8, <2>9 DEF S
<1> QED BY <1>1, <1>2, <1>3, <1>4, <1>5 DEF Interpreted

\* A shifted operand waits in the scratch register.
LEMMA AgreeShift ==
  ASSUME NEW i \in Instrs, i.form = "alu_shift", ~ReadsZero(i),
         NEW h, NEW g, Agree(h, g, GuestLocs)
  PROVE  Agree(Flush(h, Translate(i)), Flush(g, Translate(i)), GuestLocs \cup {SCRATCH})
<1> DEFINE R == GuestLocs
           S == GuestLocs \cup {SCRATCH}
           a == Op("mov", SCRATCH, M(i))
           b == Op(x86op[i.sh], SCRATCH, Imm(i.amt))
           t == Via(i, x86op[i.fn], SCRATCH)
           h0 == [l \in Locs |-> 0]
<1>0. /\ N(i) \in R /\ M(i) \in R /\ R \subseteq Locs /\ SCRATCH \notin R
      /\ \A l \in R : ~is_mem(l) /\ l[1] # "imm"
  BY CaseOperands DEF Interpreted
<1>1. /\ D(i) \in Locs /\ N(i) \in Locs /\ M(i) \in Locs /\ SCRATCH \in Locs /\ Locs \subseteq Sources
      /\ Imm(i.amt) \in Sources /\ i.fn \in FnsOf(i.form) /\ i.sh \in ShiftFns
  BY Fields, LocFacts
<1>2. /\ x86op[i.fn] \in DataOps /\ x86op[i.sh] \in DataOps /\ x86op[i.fn] \in HostOps
      /\ x86op[i.sh] \in HostOps /\ "mov" \in HostOps
  BY <1>1, OpFacts DEF FnsOf
<1>3. x86op[i.fn] \notin {"div", "idiv"} /\ x86op[i.sh] \notin {"div", "idiv"}
  BY <1>2 DEF DataOps
<1>4. a \in OpSet /\ b \in OpSet /\ Own(b, S)
  BY <1>1, <1>2, <1>3, OpFacts, OwnsOp
<1>5. t \in Seq(OpSet) /\ Owns(t, S)
  <2> DEFINE c == Op(x86op[i.fn], D(i), SCRATCH)
  <2>1. c \in OpSet /\ Own(c, S)
    BY <1>1, <1>2, <1>3, OpFacts, OwnsOp
  <2>2. Owns(move(D(i), N(i)), S) /\ move(D(i), N(i)) \in Seq(OpSet)
    BY <1>0, <1>1, OwnsMove, MoveShape
  <2>3. t = move(D(i), N(i)) \o <<c>>
    BY DEF Via
  <2> HIDE DEF c, S, t
  <2>4. <<c>> \in Seq(OpSet) /\ Owns(<<c>>, S)
    BY <2>1, OwnsShort
  <2>5. move(D(i), N(i)) \o <<c>> \in Seq(OpSet)
    BY <2>2, <2>4, ConcatProperties
  <2> QED BY <2>2, <2>3, <2>4, <2>5, OwnsCat
<1>6. Translate(i) = <<a, b>> \o t
  BY DEF Translate, AluShift
<1>7. Agree(Exec(h, a), Exec(g, a), S)
  BY <1>0, AgreeScratch
<1>8. S \subseteq Locs
  BY <1>0, <1>1
<1>9. t \in Seq(OpSet) /\ Len(t) \in 1..3
  <2>1. D(i) \in Homed /\ N(i) \in Homed /\ h0 \in HostState
    BY Fields, WordAssumption DEF HostState
  <2> HIDE DEF h0
  <2> QED BY <1>1, <1>2, <2>1, MoveOp DEF Via
<1> HIDE DEF a, b, t, S
<1>10. Agree(Exec(Exec(h, a), b), Exec(Exec(g, a), b), S)
  BY <1>4, <1>7, <1>8, AgreeStep
<1>11. \A k : Flush(k, <<a, b>> \o t) = Flush(Exec(Exec(k, a), b), t)
  <2> TAKE k
  <2> DEFINE s == <<a, b>>
  <2>1. s \in Seq(OpSet) /\ Len(s) = 2
    BY <1>4
  <2>2. Flush(k, s) = Exec(Exec(k, a), b)
    BY FlushShort
  <2> HIDE DEF s
  <2>3. Len(s) + Len(t) <= MaxOps
    <3>1. \A n \in 1..3 : 2 + n <= MaxOps
      BY DEF MaxOps
    <3> QED BY <1>9, <2>1, <3>1
  <2>4. Flush(k, s \o t) = Flush(Flush(k, s), t)
    BY <1>9, <2>1, <2>3, FlushCat
  <2> QED BY <2>2, <2>4 DEF s
<1>12. Agree(Flush(h, Translate(i)), Flush(g, Translate(i)), S)
  BY <1>5, <1>6, <1>8, <1>10, <1>11, AgreeFlush
<1> QED BY <1>12 DEF S

\* What the monitor has in the other host registers does not show in the guest
\* registers: the block of a case is right exactly when its translation is.
LEMMA CaseVerdict ==
  ASSUME NEW c \in Case, c.word.form \in Interpreted, ~ReadsZero(c.word)
  PROVE  (RunBlock(CaseFile(c), c.word)[c.check] = Expect(c)) <=> Faithful(c)
<1> DEFINE i == c.word
           f == CaseFile(c)
           h == LoadFile(f)
           g == HostOf(f)
<1>0. i \in Instrs /\ c.check \in Guest /\ f \in [Guest -> Word]
  BY Loads DEF Case, CaseFile
<1> HIDE DEF i, f
<1>1. h \in HostState /\ g \in HostState /\ \A n \in Guest : h[hostreg(n)] = g[hostreg(n)]
  BY <1>0, Loads, Loaded
<1>2. Agree(h, g, GuestLocs)
  BY <1>1 DEF Agree, GuestLocs, HostState
<1>3. \A n \in Guest : hostreg(n) \in GuestLocs
  BY DEF GuestLocs
<1> HIDE DEF h, g
<1>4. CASE i.form = "alu_shift"
  <2>1. Agree(Flush(h, Translate(i)), Flush(g, Translate(i)), GuestLocs \cup {SCRATCH})
    BY <1>0, <1>2, <1>4, AgreeShift DEF i
  <2>2. \A n \in Guest : Flush(h, Translate(i))[hostreg(n)] = Flush(g, Translate(i))[hostreg(n)]
    BY <1>3, <2>1 DEF Agree
  <2> QED BY <1>0, <2>2 DEF Faithful, RunBlock, Spill, View, i, f, h, g
<1>5. CASE i.form # "alu_shift"
  <2>1. Owns(Translate(i), GuestLocs) /\ GuestLocs \subseteq Locs
    BY <1>0, <1>5, OwnsCase, CaseOperands DEF i
  <2>2. Agree(Flush(h, Translate(i)), Flush(g, Translate(i)), GuestLocs)
    BY <1>2, <2>1, AgreeFlush
  <2>3. \A n \in Guest : Flush(h, Translate(i))[hostreg(n)] = Flush(g, Translate(i))[hostreg(n)]
    BY <1>3, <2>2 DEF Agree
  <2> QED BY <1>0, <2>3 DEF Faithful, RunBlock, Spill, View, i, f, h, g
<1> QED BY <1>4, <1>5
-----------------------------------------------------------------------------
(* Cells, values and rows *)

\* A cell written at the end of the cells or before it.
LEMMA PutCFacts ==
  ASSUME NEW T, NEW e \in Seq(T), NEW k \in Nat \ {0}, NEW c \in T
  PROVE  /\ PutC(e, k, c) \in Seq(T)
         /\ k <= Len(e) + 1 =>
              /\ Len(PutC(e, k, c)) = IF k <= Len(e) THEN Len(e) ELSE Len(e) + 1
              /\ \A j \in 1..Len(PutC(e, k, c)) :
                   PutC(e, k, c)[j] = IF j = k THEN c ELSE e[j]
<1>1. CASE k <= Len(e)
  <2>1. k \in 1..Len(e)
    BY <1>1, LenProperties
  <2>2. /\ [e EXCEPT ![k] = c] \in Seq(T) /\ Len([e EXCEPT ![k] = c]) = Len(e)
        /\ \A j \in 1..Len(e) : [e EXCEPT ![k] = c][j] = IF j = k THEN c ELSE e[j]
    BY <2>1, ExceptSeq
  <2> QED BY <1>1, <2>2 DEF PutC
<1>2. CASE ~(k <= Len(e))
  <2>1. /\ Append(e, c) \in Seq(T) /\ Len(Append(e, c)) = Len(e) + 1 /\ Len(e) \in Nat
        /\ \A j \in 1..Len(e) : Append(e, c)[j] = e[j] /\ Append(e, c)[Len(e) + 1] = c
    BY AppendProperties, LenProperties
  <2>2. PutC(e, k, c) = Append(e, c)
    BY <1>2 DEF PutC
  <2>3. ASSUME k <= Len(e) + 1, NEW j \in 1..(Len(e) + 1)
        PROVE  Append(e, c)[j] = IF j = k THEN c ELSE e[j]
    <3>1. k = Len(e) + 1
      BY <1>2, <2>1, <2>3
    <3>2. Append(e, c)[Len(e) + 1] = c
      BY AppendProperties
    <3>3. CASE j = k
      BY <3>1, <3>2, <3>3
    <3>4. CASE j # k
      BY <2>1, <2>3, <3>1, <3>4
    <3> QED BY <3>3, <3>4
  <2> QED BY <1>2, <2>1, <2>2, <2>3
<1> QED BY <1>1, <1>2

\* The line without its last character.
LEMMA FrontFacts ==
  ASSUME NEW T, NEW s \in Seq(T), s # <<>>
  PROVE  /\ Front(s) \in Seq(T) /\ Len(Front(s)) = Len(s) - 1 /\ Len(s) \in Nat \ {0}
         /\ \A k \in 1..(Len(s) - 1) : Front(s)[k] = s[k]
<1>1. Len(s) \in Nat \ {0} /\ \A k \in 1..(Len(s) - 1) : s[k] \in T
  BY LenProperties, EmptySeq, ElementOfSeq
<1> DEFINE n == Len(s) - 1
<1>2. n \in Int /\ n - 1 + 1 = n /\ (1 <= n \/ n = 0) /\ \A k \in 1..n : 1 + k - 1 = k
  <2> DEFINE l == Len(s)
  <2>3. l \in Nat \ {0}
    BY <1>1
  <2> HIDE DEF l
  <2>1. \A m \in Nat \ {0} : /\ m - 1 \in Int /\ (1 <= m - 1 \/ m - 1 = 0)
                            /\ m - 1 - 1 + 1 = m - 1
    OBVIOUS
  <2>2. \A k \in Int : 1 + k - 1 = k
    OBVIOUS
  <2>4. n = l - 1
    BY DEF l
  <2> HIDE DEF n
  <2> QED BY <2>1, <2>2, <2>3, <2>4
<1>3. \A k \in 1..n : s[k] \in T
  BY <1>1
<1> HIDE DEF n
<1>4. /\ SubSeq(s, 1, n) \in Seq(T) /\ Len(SubSeq(s, 1, n)) = IF 1 <= n THEN n - 1 + 1 ELSE 0
      /\ \A k \in 1..(n - 1 + 1) : SubSeq(s, 1, n)[k] = s[1 + k - 1]
  BY <1>2, <1>3, SubSeqProperties
<1>5. Len(SubSeq(s, 1, n)) = n /\ \A k \in 1..n : SubSeq(s, 1, n)[k] = s[k]
  BY <1>2, <1>4
<1> QED BY <1>1, <1>4, <1>5 DEF Front, n

\* Words are what is left of a number modulo their count.
LEMMA Modulo ==
  \A n \in Nat : n % Cardinality(Word) \in Word
<1>1. Cardinality(Word) \in Nat /\ Word = 0..(Cardinality(Word) - 1) /\ 1 \in Word
  BY MonitorAssumption, FS_CardinalityType
<1> DEFINE w == Cardinality(Word)
<1>2. w \in Nat \ {0} /\ Word = 0..(w - 1)
  BY <1>1
<1> HIDE DEF w
<1>3. \A n \in Nat : n % w \in 0..(w - 1)
  BY <1>2
<1> QED BY <1>2, <1>3 DEF w

\* The value a line sets a register to is a word, whatever was typed.
LEMMA SetValueType ==
  ASSUME line \in Seq(Chars)
  PROVE  SetValue \in Word
<1> DEFINE s == SubSeq(line, 4, Len(line))
<1>1. s \in Seq(Chars)
  <2>1. Len(line) \in Int /\ 4 \in Int /\ \A k \in 4..Len(line) : line[k] \in Chars
    BY LenProperties, ElementOfSeq
  <2> QED BY <2>1, SubSeqProperties
<1> HIDE DEF s
<1>2. parse_hex(s) \in Nat
  BY <1>1, ParsedNumber
<1> QED BY <1>2, Modulo DEF SetValue, s

\* The cases of the table.
LEMMA TableCase ==
  ASSUME NEW k \in 1..Len(test_table)
  PROVE  /\ test_table[k] \in Case /\ test_table[k].word \in Instrs
         /\ CaseFile(test_table[k]) \in [Guest -> Word]
         /\ test_table[k].word.form \in Interpreted /\ ~ReadsZero(test_table[k].word)
<1>1. test_table[k] \in Case
  BY TestTable, ElementOfSeq
<1>2. PICK j \in DOMAIN Cases : test_table[k] = Cases[j]
  BY TestTable
<1>3. test_table[k].word.form \in Interpreted /\ ~ReadsZero(test_table[k].word)
  BY <1>2, CasesAssumption
<1> QED BY <1>1, <1>3, Loads DEF Case, CaseFile

\* Running a case gives a register file, and the verdict on the translation.
LEMMA RunCase ==
  ASSUME NEW k \in 1..Len(test_table)
  PROVE  LET c == test_table[k]
         IN  /\ RunBlock(CaseFile(c), c.word) \in [Guest -> Word]
             /\ (RunBlock(CaseFile(c), c.word)[c.check] = Expect(c)) <=> Faithful(c)
BY TableCase, BlockType, CaseVerdict
-----------------------------------------------------------------------------
(* Types *)

\* The typed variables, one by one.
LEMMA Typed ==
  ASSUME MonTypeOK
  PROVE  /\ program \in Programs /\ file \in [Guest -> Word]
         /\ line \in Seq(Chars) /\ echo \in Seq(Chars \cup {Blank})
         /\ row \in Nat /\ row \in 0..Len(Cases) /\ entered \in 0..MaxCommands
         /\ Len(Cases) \in Nat /\ MaxCommands \in Nat
<1>1. /\ program \in Programs /\ file \in [Guest -> Word]
      /\ line \in Seq(Chars) /\ echo \in Seq(Chars \cup {Blank})
      /\ row \in 0..Len(Cases) /\ entered \in 0..MaxCommands
  BY Zenon DEF MonTypeOK
<1>2. Len(Cases) \in Nat /\ MaxCommands \in Nat
  BY CasesAssumption, MonitorAssumption
<1>3. row \in Nat
  <2>1. \A n \in Nat : \A k \in 0..n : k \in Nat
    OBVIOUS
  <2> QED BY <1>1, <1>2, <2>1
<1> QED BY <1>1, <1>2, <1>3

\* Every variable has its type at power-on.
LEMMA InitTypes == MonInit => MonTypeOK
<1> SUFFICES ASSUME MonInit PROVE MonTypeOK
  OBVIOUS
<1>1. Files \subseteq [Guest -> Word] /\ Len(Cases) \in Nat /\ MaxCommands \in Nat
  BY MonitorAssumption, CasesAssumption
<1>2. at = "boot"
  BY DEF MonInit
<1>3. line \in Seq(Chars) /\ echo \in Seq(Chars \cup {Blank})
  BY DEF MonInit
<1>4. file \in [Guest -> Word] /\ row \in 0..Len(Cases) /\ entered \in 0..MaxCommands
  BY <1>1 DEF MonInit
<1>5. program \in Programs
  BY DEF MonInit
<1> QED BY <1>2, <1>3, <1>4, <1>5 DEF MonTypeOK

Places == {"boot", "reset", "lost", "start", "readkey", "command", "prompt", "test",
           "kbd", "bars", "sum", "print", "halt"}

\* The jump goes to the payload or past it.
LEMMA EnteredPlace == \A p : Entered(p) \in {"start", "lost"}
BY DEF Entered

\* The places, one by one.
LEMMA PlacesFacts ==
  /\ \A p : Entered(p) \in Places
  /\ "boot" \in Places /\ "reset" \in Places /\ "start" \in Places /\ "readkey" \in Places
  /\ "command" \in Places /\ "prompt" \in Places /\ "test" \in Places /\ "kbd" \in Places
  /\ "bars" \in Places /\ "sum" \in Places /\ "print" \in Places /\ "halt" \in Places
BY EnteredPlace DEF Places

\* Where a step goes.
LEMMA StepPlace ==
  ASSUME at \in Places, MonNext
  PROVE  at' \in Places
BY PlacesFacts DEF MonNext, Boot, Start2, TypeChar, Backspace, LineDone, Prompt, CmdRegs,
   CmdText, CmdSet,
   RunWord, CmdTest, TestRow, TestDone, Start1, EchoKey, StartGfx, Bar, BarsDone, StartDemo,
   Sum1, PrintDigit

\* The register file after a step.
LEMMA StepFile ==
  ASSUME MonTypeOK, MonNext
  PROVE  file' \in [Guest -> Word]
<1>0. file \in [Guest -> Word] /\ line \in Seq(Chars) /\ row \in Nat
  BY Typed
<1>1. CASE CmdSet
  <2>1. SetValue \in Word
    BY <1>0, SetValueType
  <2>2. file' = [file EXCEPT ![RegOf(line[2])] = SetValue]
    BY <1>1 DEF CmdSet
  <2> QED BY <1>0, <2>1, <2>2
<1>2. CASE RunWord
  <2>1. CASE Found = {}
    BY <1>0, <1>2, <2>1 DEF RunWord
  <2>2. CASE Found # {}
    <3> DEFINE first == CHOOSE k \in Found : \A j \in Found : k <= j
    <3>1. Found \subseteq 1..Len(test_table) /\ Len(test_table) \in Nat /\ Found \subseteq Nat
      <4>1. test_table \in Seq(Case)
        BY TestTable
      <4>2. DOMAIN test_table = 1..Len(test_table) /\ Len(test_table) \in Nat
        BY <4>1, LenProperties
      <4>3. \A k \in 1..Len(test_table) : k \in Nat
        OBVIOUS
      <4> QED BY <4>2, <4>3 DEF Found
    <3>2. first \in Found
      <4>1. \E k \in Found : \A j \in Found : k <= j
        BY <2>2, <3>1, LeastNumber
      <4> QED BY <4>1
    <3>3. file' = RunBlock(file, test_table[first].word)
      BY <1>2, <2>2 DEF RunWord
    <3> HIDE DEF first
    <3>4. test_table[first].word \in Instrs
      BY <3>1, <3>2, TableCase
    <3> QED BY <1>0, <3>3, <3>4, BlockType
  <2> QED BY <2>1, <2>2
<1>3. CASE TestRow \/ Bar
  <2>1. row + 1 \in 1..Len(test_table)
    <3>1. row < Len(test_table) /\ Len(test_table) \in Nat
      BY <1>3, TestTable DEF TestRow, Bar
    <3> QED BY <1>0, <3>1
  <2>2. file' = RunBlock(CaseFile(test_table[row + 1]), test_table[row + 1].word)
    BY <1>3 DEF TestRow, Bar
  <2> DEFINE k == row + 1
  <2> HIDE DEF k
  <2>3. RunBlock(CaseFile(test_table[k]), test_table[k].word) \in [Guest -> Word]
    BY <2>1, RunCase DEF k
  <2> QED BY <2>2, <2>3 DEF k
<1>4. CASE ~(CmdSet \/ RunWord \/ TestRow \/ Bar)
  <2>1. file' = file
    BY <1>4 DEF MonNext, Boot, Start2, TypeChar, Backspace, LineDone, Prompt, CmdRegs, CmdText,
       CmdTest, TestDone, Start1, EchoKey, StartGfx, BarsDone, StartDemo, Sum1, PrintDigit
  <2> QED BY <1>0, <2>1
<1> QED BY <1>1, <1>2, <1>3, <1>4

\* The rows run and the lines entered after a step.
LEMMA StepCounts ==
  ASSUME MonTypeOK, MonNext
  PROVE  row' \in 0..Len(Cases) /\ entered' \in 0..MaxCommands
<1>0. /\ row \in 0..Len(Cases) /\ entered \in 0..MaxCommands /\ Len(Cases) \in Nat
      /\ MaxCommands \in Nat /\ Len(test_table) \in 0..Len(Cases)
  BY TestTable, Typed
<1>1. row' = row \/ row' = 0 \/ (row < Len(test_table) /\ row' = row + 1)
  BY DEF MonNext, Boot, Start2, TypeChar, Backspace, LineDone, Prompt, CmdRegs, CmdText, CmdSet,
     RunWord, CmdTest, TestRow, TestDone, Start1, EchoKey, StartGfx, Bar, BarsDone, StartDemo,
     Sum1, PrintDigit
<1>2. entered' = entered \/ (entered < MaxCommands /\ entered' = entered + 1)
  BY DEF MonNext, Boot, Start2, TypeChar, Backspace, LineDone, Prompt, CmdRegs, CmdText, CmdSet,
     RunWord, CmdTest, TestRow, TestDone, Start1, EchoKey, StartGfx, Bar, BarsDone, StartDemo,
     Sum1, PrintDigit
<1>3. row' \in 0..Len(Cases)
  BY <1>0, <1>1
<1> QED BY <1>0, <1>2, <1>3

Cells == Chars \cup {Blank}
\* The line and the cells after a step.
LEMMA StepLine ==
  ASSUME MonTypeOK, MonNext
  PROVE  line' \in Seq(Chars) /\ echo' \in Seq(Cells)
<1>0. line \in Seq(Chars) /\ echo \in Seq(Cells) /\ Len(line) \in Nat /\ Chars \subseteq Cells
  BY Typed, LenProperties DEF Cells
<1>1. ASSUME NEW c \in Chars, TypeChar(c) PROVE line' \in Seq(Chars) /\ echo' \in Seq(Cells)
  <2>1. line' = Append(line, c) /\ echo' = PutC(echo, Len(line) + 1, c)
    BY <1>1 DEF TypeChar
  <2>2. Append(line, c) \in Seq(Chars)
    BY <1>0, AppendProperties
  <2>3. Len(line) + 1 \in Nat \ {0} /\ c \in Cells
    BY <1>0
  <2> QED BY <1>0, <2>1, <2>2, <2>3, PutCFacts
<1>2. CASE Backspace
  <2>1. line # <<>> /\ line' = Front(line) /\ echo' = PutC(echo, Len(line), Blank)
    BY <1>2 DEF Backspace
  <2>2. Front(line) \in Seq(Chars) /\ Len(line) \in Nat \ {0} /\ Blank \in Cells
    BY <1>0, <2>1, FrontFacts DEF Cells
  <2> QED BY <1>0, <2>1, <2>2, PutCFacts
<1>3. CASE EchoKey
  <2>1. PICK c \in Chars : echo' = Append(echo, c)
    BY <1>3 DEF EchoKey
  <2>2. Append(echo, c) \in Seq(Cells)
    BY <1>0, AppendProperties
  <2> QED BY <1>0, <1>3, <2>1, <2>2 DEF EchoKey
<1>4. CASE Start1 \/ Start2 \/ Prompt
  <2>1. (line' = line \/ line' = <<>>) /\ echo' = <<>>
    BY <1>4 DEF Start1, Start2, Prompt
  <2>2. <<>> \in Seq(Chars) /\ <<>> \in Seq(Cells)
    OBVIOUS
  <2> QED BY <1>0, <2>1, <2>2
<1>5. ASSUME line' = line, echo' = echo PROVE line' \in Seq(Chars) /\ echo' \in Seq(Cells)
  BY <1>0, <1>5
<1> QED BY <1>1, <1>2, <1>3, <1>4, <1>5 DEF MonNext, Boot, LineDone, CmdRegs, CmdText, CmdSet,
   screen,
     RunWord, CmdTest, TestRow, TestDone, StartGfx, Bar, BarsDone, StartDemo, Sum1, PrintDigit

\* Every variable keeps its type: a value set from the keyboard is cut to a
\* word whatever was typed, and no verdict is asked for past the table.
THEOREM MonitorTypes == MonSpec => []MonTypeOK
<1>1. MonTypeOK /\ MonNext => MonTypeOK'
  <2> SUFFICES ASSUME MonTypeOK, MonNext PROVE MonTypeOK'
    OBVIOUS
  <2>1. at' \in Places
    BY StepPlace DEF MonTypeOK, Places
  <2>2. program' = program
    BY DEF MonNext, Boot, Start2, TypeChar, Backspace, LineDone, Prompt, CmdRegs, CmdText,
       CmdSet,
       RunWord, CmdTest, TestRow, TestDone, Start1, EchoKey, StartGfx, Bar, BarsDone, StartDemo,
       Sum1, PrintDigit
  <2> QED BY <2>1, <2>2, StepFile, StepCounts, StepLine DEF MonTypeOK, Places, Cells
<1>2. MonTypeOK /\ UNCHANGED Monvars => MonTypeOK'
  BY DEF MonTypeOK, Monvars
<1> QED BY InitTypes, <1>1, <1>2, PTL DEF MonSpec
-----------------------------------------------------------------------------
(* The line on the screen *)

\* The cells hold the line and nothing but spaces beyond it.
OnScreen(l, e) == /\ Len(l) <= Len(e)
                  /\ \A k \in 1..Len(e) : e[k] = IF k <= Len(l) THEN l[k] ELSE Blank
EchoInv == at \in {"readkey", "command"} => OnScreen(line, echo)

\* What is put on the cell k lands there and nowhere else.
CellPut(d, e, k, c) == /\ Len(d) = IF k <= Len(e) THEN Len(e) ELSE Len(e) + 1
                     /\ \A j \in 1..Len(d) : d[j] = IF j = k THEN c ELSE e[j]
LEMMA PutCCell ==
  ASSUME NEW e \in Seq(Cells), NEW k \in Nat \ {0}, NEW c \in Cells, k <= Len(e) + 1
  PROVE  CellPut(PutC(e, k, c), e, k, c)
<1> DEFINE S == Cells
<1>1. e \in Seq(S) /\ c \in S
  OBVIOUS
<1> HIDE DEF S
<1> QED BY <1>1, PutCFacts DEF CellPut

\* A typed character goes where the cursor is.
LEMMA OnScreenType ==
  ASSUME NEW l \in Seq(Chars), NEW e \in Seq(Cells), NEW c \in Chars, OnScreen(l, e)
  PROVE  OnScreen(Append(l, c), PutC(e, Len(l) + 1, c))
<1> DEFINE m == Append(l, c)
           n == Len(l) + 1
           d == PutC(e, n, c)
<1>1. Len(l) \in Nat /\ Len(e) \in Nat /\ Len(l) <= Len(e) /\ n \in Nat \ {0} /\ c \in Cells
  BY LenProperties DEF OnScreen, Cells
<1>2. Len(m) = n /\ m[n] = c /\ \A k \in 1..Len(l) : m[k] = l[k]
  BY AppendProperties
<1> HIDE DEF d, m
<1>3. n <= Len(e) + 1
  BY <1>1
<1>4. /\ Len(d) = IF n <= Len(e) THEN Len(e) ELSE Len(e) + 1
      /\ \A j \in 1..Len(d) : d[j] = IF j = n THEN c ELSE e[j]
  <2> HIDE DEF n
  <2>1. CellPut(PutC(e, n, c), e, n, c)
    BY <1>1, <1>3, PutCCell
  <2> QED BY <2>1, Zenon DEF d, CellPut
<1>5. Len(d) \in Nat /\ n <= Len(d) /\ \A k \in 1..Len(d) : k # n => k \in 1..Len(e)
  BY <1>1, <1>4
<1>6. ASSUME NEW k \in 1..Len(d) PROVE d[k] = IF k <= n THEN m[k] ELSE Blank
  <2>1. CASE k = n
    BY <1>1, <1>2, <1>4, <2>1
  <2>2. CASE k < n
    <3>1. k \in 1..Len(l) /\ k \in 1..Len(e)
      BY <1>1, <2>2
    <3> QED BY <1>2, <1>4, <2>2, <3>1 DEF OnScreen
  <2>3. CASE k > n
    <3>1. k \in 1..Len(e) /\ ~(k <= Len(l)) /\ ~(k <= n) /\ k # n
      BY <1>1, <1>5, <2>3
    <3> QED BY <1>4, <3>1 DEF OnScreen
  <2> QED BY <1>1, <2>1, <2>2, <2>3
<1>7. OnScreen(m, d)
  BY <1>2, <1>5, <1>6 DEF OnScreen
<1> QED BY <1>7 DEF m, d

\* An erased character leaves a space.
LEMMA OnScreenErase ==
  ASSUME NEW l \in Seq(Chars), l # <<>>, NEW e \in Seq(Cells), OnScreen(l, e)
  PROVE  OnScreen(Front(l), PutC(e, Len(l), Blank))
<1> DEFINE m == Front(l)
           n == Len(l)
           d == PutC(e, n, Blank)
<1>1. n \in Nat \ {0} /\ Len(e) \in Nat /\ n <= Len(e) /\ Blank \in Cells
  BY FrontFacts, LenProperties DEF OnScreen, Cells
<1>2. Len(m) = n - 1 /\ \A k \in 1..(n - 1) : m[k] = l[k]
  BY FrontFacts
<1> HIDE DEF d, m, n
<1>3. n <= Len(e) + 1
  BY <1>1
<1>4. Len(d) = Len(e) /\ \A j \in 1..Len(d) : d[j] = IF j = n THEN Blank ELSE e[j]
  BY <1>1, <1>3, PutCFacts DEF d
<1>6. ASSUME NEW k \in 1..Len(d) PROVE d[k] = IF k <= n - 1 THEN m[k] ELSE Blank
  <2>0. e[k] = IF k <= n THEN l[k] ELSE Blank
    BY <1>4 DEF OnScreen, n
  <2>1. CASE k = n
    BY <1>1, <1>4, <2>1
  <2>2. CASE k < n
    <3>1. k \in 1..(n - 1)
      BY <1>1, <2>2
    <3> QED BY <1>1, <1>2, <1>4, <2>0, <2>2, <3>1
  <2>3. CASE k > n
    BY <1>1, <1>4, <2>0, <2>3
  <2> QED BY <1>1, <2>1, <2>2, <2>3
<1>7. OnScreen(m, d)
  BY <1>1, <1>2, <1>4, <1>6 DEF OnScreen
<1> QED BY <1>7 DEF m, d, n

\* The line and its cells after a step.
LEMMA StepEcho ==
  ASSUME MonTypeOK, EchoInv, MonNext
  PROVE  EchoInv'
<1>0. line \in Seq(Chars) /\ echo \in Seq(Cells)
  BY Typed DEF Cells
<1>1. ASSUME NEW c \in Chars, TypeChar(c) PROVE EchoInv'
  <2>1. at = "readkey" /\ line' = Append(line, c) /\ echo' = PutC(echo, Len(line) + 1, c)
    BY <1>1 DEF TypeChar
  <2> QED BY <1>0, <2>1, OnScreenType DEF EchoInv
<1>2. CASE Backspace
  <2>1. at = "readkey" /\ line # <<>> /\ line' = Front(line) /\ echo' = PutC(echo, Len(line), Blank)
    BY <1>2 DEF Backspace
  <2> QED BY <1>0, <2>1, OnScreenErase DEF EchoInv
<1>3. CASE Start2 \/ Prompt
  <2>1. line' = <<>> /\ echo' = <<>>
    BY <1>3 DEF Start2, Prompt
  <2> QED BY <2>1 DEF EchoInv, OnScreen
<1>4. CASE LineDone
  <2>1. at = "readkey" /\ line' = line /\ echo' = echo
    BY <1>4 DEF LineDone, screen
  <2> QED BY <2>1 DEF EchoInv
<1>5. CASE ~(\E c \in Chars : TypeChar(c)) /\ ~(Backspace \/ Start2 \/ Prompt \/ LineDone)
  <2>1. at' \notin {"readkey", "command"}
    BY <1>5, EnteredPlace DEF MonNext, Boot, CmdRegs, CmdText, CmdSet,
       RunWord, CmdTest, TestRow, TestDone, Start1, EchoKey, StartGfx, Bar, BarsDone, StartDemo,
       Sum1, PrintDigit
  <2> QED BY <2>1 DEF EchoInv
<1> QED BY <1>1, <1>2, <1>3, <1>4, <1>5

\* The user edits what the monitor will parse: after any typing and erasing,
\* and whatever ran before, the cells are the line and then spaces.
THEOREM EchoesCorrect == MonSpec => []Echoes
<1>1. MonInit => EchoInv
  BY DEF MonInit, EchoInv
<1>2. MonTypeOK /\ EchoInv /\ [MonNext]_Monvars => EchoInv'
  <2>1. MonTypeOK /\ EchoInv /\ MonNext => EchoInv'
    BY StepEcho
  <2>2. EchoInv /\ UNCHANGED Monvars => EchoInv'
    BY DEF EchoInv, Monvars
  <2> QED BY <2>1, <2>2
<1>3. MonTypeOK /\ EchoInv => Echoes
  <2> SUFFICES ASSUME MonTypeOK, EchoInv, at \in {"readkey", "command"}
               PROVE  IsPrefix(line, echo) /\ \A k \in DOMAIN echo : k > Len(line) => echo[k] = Blank
    BY DEF Echoes
  <2>0. line \in Seq(Chars) /\ echo \in Seq(Cells)
    BY Typed DEF Cells
  <2>1. Len(line) \in Nat /\ Len(echo) \in Nat /\ DOMAIN echo = 1..Len(echo) /\ OnScreen(line, echo)
    BY <2>0, LenProperties DEF EchoInv
  <2>2. \A k \in DOMAIN echo : k > Len(line) => echo[k] = Blank
    BY <2>1 DEF OnScreen
  <2>3. IsPrefix(line, echo)
    <3> DEFINE n == Len(line)
               s == SubSeq(echo, 1, n)
    <3>1. n \in Nat /\ \A k \in 1..n : echo[k] = line[k] /\ k \in 1..Len(echo)
      BY <2>1 DEF OnScreen
    <3>2. SubSeq(line, 1, n) = line
      BY <2>0, SubSeqFull
    <3>3. \A k \in 1..n : echo[k] \in Cells
      BY <2>0, <3>1, ElementOfSeq
    <3> HIDE DEF n
    <3>4. 1 \in Int /\ n \in Int /\ n - 1 + 1 = n /\ (IF 1 <= n THEN n - 1 + 1 ELSE 0) = n
          /\ \A k \in 1..n : 1 + k - 1 = k
      BY <3>1
    <3>5. /\ s \in Seq(Cells) /\ Len(s) = (IF 1 <= n THEN n - 1 + 1 ELSE 0)
          /\ \A k \in 1..(n - 1 + 1) : s[k] = echo[1 + k - 1]
      BY <3>3, <3>4, SubSeqProperties
    <3> HIDE DEF s
    <3>6. Len(s) = n /\ \A k \in 1..n : s[k] = line[k]
      BY <3>1, <3>4, <3>5
    <3>7. line \in Seq(Cells) /\ Len(line) = n
      BY <2>0 DEF Cells, n
    <3>8. s = line
      BY <3>5, <3>6, <3>7, SeqEqual
    <3>9. Len(line) <= Len(echo)
      BY <2>1 DEF OnScreen
    <3> QED BY <3>2, <3>8, <3>9 DEF IsPrefix, s, n
  <2> QED BY <2>2, <2>3
<1> QED BY <1>1, <1>2, <1>3, MonitorTypes, PTL DEF MonSpec
-----------------------------------------------------------------------------
(* The boot sector *)

\* The boot sector's states, one after each instruction.
\* TRUE and FALSE as values of fields.
Yes == TRUE
No == FALSE

Cpu(ip, bits, cr3, mem, gdt, mode13, loaded, wide) ==
  [ip |-> ip, bits |-> bits, cr3 |-> cr3, mem |-> mem, gdt |-> gdt, mode13 |-> mode13,
   loaded |-> loaded, wide |-> wide]
BitsOf(cr0, cr4, efer) == [r \in {"cr0", "cr4", "efer"} |->
                             CASE r = "cr0" -> cr0 [] r = "cr4" -> cr4 [] OTHER -> efer]
MemOf(a, b, c) == [t \in Tables |-> CASE t = 4096 -> a [] t = 8192 -> b [] OTHER -> c]

\* The program counter moves past the instruction.
LEMMA CpuNext ==
  ASSUME NEW k, NEW b, NEW r, NEW m, NEW g, NEW v, NEW l, NEW w, NEW c, c
          = Cpu(k, b, r, m, g, v, l, w)
  PROVE  [c EXCEPT !.ip = @ + 1] = Cpu(k + 1, b, r, m, g, v, l, w)
BY DEF Cpu

\* What each instruction does to such a state.
LEMMA BootEffects ==
  ASSUME NEW k, NEW b, NEW r, NEW m, NEW g, NEW v, NEW l, NEW w, NEW c, c
          = Cpu(k, b, r, m, g, v, l, w), NEW p
  PROVE  /\ Effect(p, c, Plain("int10")) = Cpu(k, b, r, m, g, Yes, l, w)
         /\ Effect(p, c, Plain("int13")) = Cpu(k, b, r, m, g, v, ReadSectors(p), w)
         /\ Effect(p, c, Plain("zero")) = Cpu(k, b, r, [t \in Tables |-> <<0, 0>>], g, v, l, w)
         /\ Effect(p, c, Plain("lgdt")) = Cpu(k, b, r, m, Yes, v, l, w)
         /\ Effect(p, c, Plain("cr3")) = Cpu(k, b, 4096, m, g, v, l, w)
         /\ Effect(p, c, Plain("jump")) = Cpu(k, b, r, m, g, v, l, Yes)
<1>11. \A n : [c EXCEPT !.bits = n] = Cpu(k, n, r, m, g, v, l, w)
  BY DEF Cpu
<1>12. \A n : [c EXCEPT !.cr3 = n] = Cpu(k, b, n, m, g, v, l, w)
  BY DEF Cpu
<1>13. \A n : [c EXCEPT !.mem = n] = Cpu(k, b, r, n, g, v, l, w)
  BY DEF Cpu
<1>14. \A n : [c EXCEPT !.gdt = n] = Cpu(k, b, r, m, n, v, l, w)
  BY DEF Cpu
<1>15. \A n : [c EXCEPT !.mode13 = n] = Cpu(k, b, r, m, g, n, l, w)
  BY DEF Cpu
<1>16. \A n : [c EXCEPT !.loaded = n] = Cpu(k, b, r, m, g, v, n, w)
  BY DEF Cpu
<1>17. \A n : [c EXCEPT !.wide = n] = Cpu(k, b, r, m, g, v, l, n)
  BY DEF Cpu
<1>10. c.bits = b /\ c.mem = m
  BY DEF Cpu
<1>1. Effect(p, c, Plain("int10")) = Cpu(k, b, r, m, g, Yes, l, w)
  <2>1. Effect(p, c, Plain("int10")) = [c EXCEPT !.mode13 = Yes]
    BY DEF Effect, Plain, Yes
  <2> QED BY <2>1, <1>15, Zenon
<1>2. Effect(p, c, Plain("int13")) = Cpu(k, b, r, m, g, v, ReadSectors(p), w)
  <2>1. Effect(p, c, Plain("int13")) = [c EXCEPT !.loaded = ReadSectors(p)]
    BY DEF Effect, Plain, Yes
  <2> QED BY <2>1, <1>16, Zenon
<1>3. Effect(p, c, Plain("zero")) = Cpu(k, b, r, [t \in Tables |-> <<0, 0>>], g, v, l, w)
  <2>1. Effect(p, c, Plain("zero")) = [c EXCEPT !.mem = [t \in Tables |-> <<0, 0>>]]
    BY DEF Effect, Plain, Yes
  <2> QED BY <2>1, <1>13, Zenon
<1>4. Effect(p, c, Plain("lgdt")) = Cpu(k, b, r, m, Yes, v, l, w)
  <2>1. Effect(p, c, Plain("lgdt")) = [c EXCEPT !.gdt = Yes]
    BY DEF Effect, Plain, Yes
  <2> QED BY <2>1, <1>14, Zenon
<1>5. Effect(p, c, Plain("cr3")) = Cpu(k, b, 4096, m, g, v, l, w)
  <2>1. Effect(p, c, Plain("cr3")) = [c EXCEPT !.cr3 = 4096]
    BY DEF Effect, Plain, Yes
  <2> QED BY <2>1, <1>12
<1>6. Effect(p, c, Plain("jump")) = Cpu(k, b, r, m, g, v, l, Yes)
  <2>1. Effect(p, c, Plain("jump")) = [c EXCEPT !.wide = Yes]
    BY DEF Effect, Plain, Yes
  <2> QED BY <2>1, <1>17, Zenon
<1> QED BY <1>1, <1>2, <1>3, <1>4, <1>5, <1>6, Zenon

PutAt(f, t, x) == [f EXCEPT ![t] = x]

\* A table entry is written.
LEMMA EntryEffect ==
  ASSUME NEW k, NEW b, NEW r, NEW m, NEW g, NEW v, NEW l, NEW w, NEW c, c
          = Cpu(k, b, r, m, g, v, l, w),
         NEW p, NEW t, NEW low, NEW x, x = PutAt(m[t], 2, low), NEW e, e = PutAt(m, t, x)
  PROVE  Effect(p, c, Entry(t, low)) = Cpu(k, b, r, e, g, v, l, w)
<1>1. Effect(p, c, Entry(t, low)) = [c EXCEPT !.mem = [c.mem EXCEPT ![t] = [c.mem[t] EXCEPT ![2] = low]]]
  BY DEF Effect, Entry
<1>2. c.mem = m
  BY DEF Cpu
<1>3. [c EXCEPT !.mem = e] = Cpu(k, b, r, e, g, v, l, w)
  BY DEF Cpu
<1>4. Effect(p, c, Entry(t, low)) = [c EXCEPT !.mem = e]
  BY <1>1, <1>2, Zenon DEF PutAt
<1> QED BY <1>3, <1>4

\* Bits are set in a control register.
LEMMA BitEffect ==
  ASSUME NEW k, NEW b, NEW r, NEW m, NEW g, NEW v, NEW l, NEW w, NEW c, c
          = Cpu(k, b, r, m, g, v, l, w),
         NEW p, NEW t, NEW s, NEW e, e = [b EXCEPT ![t] = b[t] \cup s]
  PROVE  Effect(p, c, SetBit(t, s)) = Cpu(k, e, r, m, g, v, l, w)
<1>1. Effect(p, c, SetBit(t, s)) = [c EXCEPT !.bits = [c.bits EXCEPT ![t] = c.bits[t] \cup s]]
  BY DEF Effect, SetBit
<1>2. c.bits = b
  BY DEF Cpu
<1>3. [c EXCEPT !.bits = e] = Cpu(k, e, r, m, g, v, l, w)
  BY DEF Cpu
<1> QED BY <1>1, <1>2, <1>3, Zenon

\* The three tables' entries and the three registers' bits, one at a time.
LEMMA MemFacts ==
  ASSUME NEW x, NEW y, NEW z, NEW e, NEW m, m = MemOf(x, y, z)
  PROVE  /\ m[4096] = x /\ m[8192] = y /\ m[12288] = z
         /\ [m EXCEPT ![4096] = e] = MemOf(e, y, z)
         /\ [m EXCEPT ![8192] = e] = MemOf(x, e, z)
         /\ [m EXCEPT ![12288] = e] = MemOf(x, y, e)
<1>1. m[4096] = x /\ m[8192] = y /\ m[12288] = z
  BY DEF MemOf, Tables
<1>2. [m EXCEPT ![4096] = e] = MemOf(e, y, z)
  BY DEF MemOf, Tables
<1>3. [m EXCEPT ![8192] = e] = MemOf(x, e, z)
  BY DEF MemOf, Tables
<1>4. [m EXCEPT ![12288] = e] = MemOf(x, y, e)
  BY DEF MemOf, Tables
<1> QED BY <1>1, <1>2, <1>3, <1>4

\* The control registers one by one, and one of them set.
LEMMA BitsFacts ==
  ASSUME NEW x, NEW y, NEW z, NEW e, NEW b, b = BitsOf(x, y, z)
  PROVE  /\ b["cr0"] = x /\ b["cr4"] = y /\ b["efer"] = z
         /\ [b EXCEPT !["cr0"] = e] = BitsOf(e, y, z)
         /\ [b EXCEPT !["cr4"] = e] = BitsOf(x, e, z)
         /\ [b EXCEPT !["efer"] = e] = BitsOf(x, y, e)
<1>1. b["cr0"] = x /\ b["cr4"] = y /\ b["efer"] = z
  BY DEF BitsOf
<1>2. [b EXCEPT !["cr0"] = e] = BitsOf(e, y, z)
  BY DEF BitsOf
<1>3. [b EXCEPT !["cr4"] = e] = BitsOf(x, e, z)
  BY DEF BitsOf
<1>4. [b EXCEPT !["efer"] = e] = BitsOf(x, y, e)
  BY DEF BitsOf
<1> QED BY <1>1, <1>2, <1>3, <1>4
-----------------------------------------------------------------------------
\* The instructions before the common part.
Bios(p) == CASE p = "monitor2" -> 1 [] p = "gfx" -> 2 [] OTHER -> 0
Picture(p) == IF p = "gfx" THEN Yes ELSE No
Read(p) == IF OnDisk(p) THEN ReadSectors(p) ELSE 0

\* Instruction s of the common part of p's boot sector.
BootAt(p, s) == BootSector(p)[Bios(p) + s]

\* The common part follows what the BIOS does for p.
LEMMA BootIs ==
  ASSUME NEW p, NEW n \in 0..2, Bios(p) = n
  PROVE  /\ BootAt(p, 1) = BootSector(p)[n + 1] /\ BootAt(p, 2) = BootSector(p)[n + 2]
         /\ BootAt(p, 3) = BootSector(p)[n + 3] /\ BootAt(p, 4) = BootSector(p)[n + 4]
         /\ BootAt(p, 5) = BootSector(p)[n + 5] /\ BootAt(p, 6) = BootSector(p)[n + 6]
         /\ BootAt(p, 7) = BootSector(p)[n + 7] /\ BootAt(p, 8) = BootSector(p)[n + 8]
         /\ BootAt(p, 9) = BootSector(p)[n + 9] /\ BootAt(p, 10) = BootSector(p)[n + 10]
BY DEF BootAt

\* The instructions of the common part, the same in every boot sector.
LEMMA BootCode ==
  ASSUME NEW p \in {"demo", "monitor", "monitor2", "gfx"}
  PROVE  /\ BootAt(p, 1) = Plain("zero") /\ BootAt(p, 2) = Entry(4096, 8195)
         /\ BootAt(p, 3) = Entry(8192, 12291) /\ BootAt(p, 4) = Entry(12288, 131)
         /\ BootAt(p, 5) = Plain("lgdt") /\ BootAt(p, 6) = SetBit("cr4", {"pae"})
         /\ BootAt(p, 7) = Plain("cr3") /\ BootAt(p, 8) = SetBit("efer", {"lme"})
         /\ BootAt(p, 9) = SetBit("cr0", {"pg", "pe"}) /\ BootAt(p, 10) = Plain("jump")
         /\ p = "monitor2" => BootSector(p)[1] = Plain("int13")
         /\ p = "gfx" => BootSector(p)[1] = Plain("int10") /\ BootSector(p)[2] = Plain("int13")
<1> DEFINE a1 == Plain("zero")
           a2 == Entry(4096, 8195)
           a3 == Entry(8192, 12291)
           a4 == Entry(12288, 131)
           a5 == Plain("lgdt")
           a6 == SetBit("cr4", {"pae"})
           a7 == Plain("cr3")
           a8 == SetBit("efer", {"lme"})
           a9 == SetBit("cr0", {"pg", "pe"})
           a10 == Plain("jump")
           d1 == Plain("int13")
           d2 == Plain("int10")
           T == {a1, a2, a3, a4, a5, a6, a7, a8, a9, a10, d1, d2}
<1>0. boot_image = <<a1, a2, a3, a4, a5>> \o <<a6, a7, a8, a9>> \o <<a10>>
  BY DEF boot_image, LongModeBits
<1>d. monitor2_image = <<d1>> \o boot_image /\ gfx_image = <<d2, d1>> \o boot_image
  BY DEF monitor2_image, gfx_image
<1> HIDE DEF a1, a2, a3, a4, a5, a6, a7, a8, a9, a10, d1, d2
<1> DEFINE u == <<a1, a2, a3, a4, a5>>
           v == <<a6, a7, a8, a9>>
           w == <<a10>>
<1>1. u \in Seq(T) /\ v \in Seq(T) /\ w \in Seq(T) /\ <<d1>> \in Seq(T) /\ <<d2, d1>> \in Seq(T)
  OBVIOUS
<1>2. /\ Len(u) = 5 /\ u[1] = a1 /\ u[2] = a2 /\ u[3] = a3 /\ u[4] = a4 /\ u[5] = a5
      /\ Len(v) = 4 /\ v[1] = a6 /\ v[2] = a7 /\ v[3] = a8 /\ v[4] = a9
      /\ Len(w) = 1 /\ w[1] = a10
      /\ Len(<<d1>>) = 1 /\ <<d1>>[1] = d1
      /\ Len(<<d2, d1>>) = 2 /\ <<d2, d1>>[1] = d2 /\ <<d2, d1>>[2] = d1
  OBVIOUS
<1> DEFINE e1 == <<d1>>
           e2 == <<d2, d1>>
<1> HIDE DEF u, v, w, T, e1, e2
<1>3. u \o v \in Seq(T) /\ Len(u \o v) = 9
      /\ \A k \in 1..9 : (u \o v)[k] = IF k <= 5 THEN u[k] ELSE v[k - 5]
  <2>1. u \o v \in Seq(T) /\ Len(u \o v) = Len(u) + Len(v)
        /\ \A k \in 1..Len(u) + Len(v) : (u \o v)[k] = IF k <= Len(u) THEN u[k] ELSE v[k - Len(u)]
    BY <1>1, ConcatProperties
  <2> QED BY <1>2, <2>1
<1> DEFINE uv == u \o v
<1> HIDE DEF uv
<1>4. boot_image \in Seq(T) /\ Len(boot_image) = 10
      /\ \A k \in 1..10 : boot_image[k] = IF k <= 9 THEN uv[k] ELSE w[k - 9]
  <2>1. uv \o w \in Seq(T) /\ Len(uv \o w) = Len(uv) + Len(w)
        /\ \A k \in 1..Len(uv) + Len(w) : (uv \o w)[k] = IF k <= Len(uv) THEN uv[k] ELSE w[k - Len(uv)]
    BY <1>1, <1>3, ConcatProperties DEF uv
  <2>2. boot_image = uv \o w
    BY <1>0 DEF u, v, w, uv
  <2>3. Len(uv) = 9
    BY <1>3 DEF uv
  <2> QED BY <1>2, <2>1, <2>2, <2>3
<1>5. /\ boot_image[1] = a1 /\ boot_image[2] = a2 /\ boot_image[3] = a3 /\ boot_image[4] = a4
      /\ boot_image[5] = a5 /\ boot_image[6] = a6 /\ boot_image[7] = a7 /\ boot_image[8] = a8
      /\ boot_image[9] = a9 /\ boot_image[10] = a10
  BY <1>2, <1>3, <1>4 DEF uv
<1> DEFINE q1 == e1 \o boot_image
           q2 == e2 \o boot_image
<1> HIDE DEF q1, q2
<1>6. /\ q1[2] = boot_image[1] /\ q1[3] = boot_image[2] /\ q1[4] = boot_image[3]
      /\ q1[5] = boot_image[4] /\ q1[6] = boot_image[5] /\ q1[7] = boot_image[6]
      /\ q1[8] = boot_image[7] /\ q1[9] = boot_image[8] /\ q1[10] = boot_image[9]
      /\ q1[11] = boot_image[10]
      /\ q1[1] = d1
  <2>1. \A k \in 1..Len(e1) + Len(boot_image) :
           q1[k] = IF k <= Len(e1) THEN e1[k] ELSE boot_image[k - Len(e1)]
    BY <1>1, <1>4, ConcatProperties DEF e1, q1
  <2>2. Len(e1) = 1 /\ e1[1] = d1 /\ Len(boot_image) = 10
    BY <1>2, <1>4 DEF e1
  <2>3. \A k \in 1..11 : q1[k] = IF k <= 1 THEN e1[k] ELSE boot_image[k - 1]
    BY <2>1, <2>2
  <2> QED BY <2>2, <2>3
<1>7. /\ q2[3] = boot_image[1] /\ q2[4] = boot_image[2] /\ q2[5] = boot_image[3]
      /\ q2[6] = boot_image[4] /\ q2[7] = boot_image[5] /\ q2[8] = boot_image[6]
      /\ q2[9] = boot_image[7] /\ q2[10] = boot_image[8] /\ q2[11] = boot_image[9]
      /\ q2[12] = boot_image[10]
      /\ q2[1] = d2 /\ q2[2] = d1
  <2>1. \A k \in 1..Len(e2) + Len(boot_image) :
           q2[k] = IF k <= Len(e2) THEN e2[k] ELSE boot_image[k - Len(e2)]
    BY <1>1, <1>4, ConcatProperties DEF e2, q2
  <2>2. Len(e2) = 2 /\ e2[1] = d2 /\ e2[2] = d1 /\ Len(boot_image) = 10
    BY <1>2, <1>4 DEF e2
  <2>3. \A k \in 1..12 : q2[k] = IF k <= 2 THEN e2[k] ELSE boot_image[k - 2]
    BY <2>1, <2>2
  <2> QED BY <2>2, <2>3
<1>8. /\ BootAt(p, 1) = boot_image[1] /\ BootAt(p, 2) = boot_image[2] /\ BootAt(p, 3) = boot_image[3]
      /\ BootAt(p, 4) = boot_image[4] /\ BootAt(p, 5) = boot_image[5] /\ BootAt(p, 6) = boot_image[6]
      /\ BootAt(p, 7) = boot_image[7] /\ BootAt(p, 8) = boot_image[8] /\ BootAt(p, 9) = boot_image[9]
      /\ BootAt(p, 10) = boot_image[10]
      /\ p = "monitor2" => BootSector(p)[1] = d1
      /\ p = "gfx" => BootSector(p)[1] = d2 /\ BootSector(p)[2] = d1
  <2>1. CASE p = "monitor2"
    <3>1. BootSector(p) = q1 /\ Bios(p) = 1
      BY <1>d, <2>1 DEF BootSector, Bios, e1, q1
    <3> QED BY <1>6, <2>1, <3>1, BootIs
  <2>2. CASE p = "gfx"
    <3>1. BootSector(p) = q2 /\ Bios(p) = 2
      BY <1>d, <2>2 DEF BootSector, Bios, e2, q2
    <3> QED BY <1>7, <2>2, <3>1, BootIs
  <2>3. CASE p \in {"demo", "monitor"}
    <3>1. BootSector(p) = boot_image /\ Bios(p) = 0
      BY <2>3 DEF BootSector, Bios, monitor_image
    <3> QED BY <2>3, <3>1, BootIs
  <2> QED BY <2>1, <2>2, <2>3
<1> QED BY <1>5, <1>8 DEF a1, a2, a3, a4, a5, a6, a7, a8, a9, a10, d1, d2
-----------------------------------------------------------------------------
(* What the processor holds at each instruction *)

\* The state before each instruction of the common part, and at the payload.
Mapped == MemOf(<<0, 8195>>, <<0, 12291>>, <<0, 131>>)
CpuAt(p, s) ==
  CASE s = 1 ->
         Cpu(Bios(p) + 1, BitsOf({}, {}, {}), 0, MemOf(<<1, 1>>, <<1, 1>>, <<1, 1>>), No, Picture(p), Read(p), No)
    [] s = 2 ->
         Cpu(Bios(p) + 2, BitsOf({}, {}, {}), 0, MemOf(<<0, 0>>, <<0, 0>>, <<0, 0>>), No, Picture(p), Read(p), No)
    [] s = 3 ->
         Cpu(Bios(p) + 3, BitsOf({}, {}, {}), 0, MemOf(<<0, 8195>>, <<0, 0>>, <<0, 0>>), No, Picture(p), Read(p), No)
    [] s = 4 ->
         Cpu(Bios(p) + 4, BitsOf({}, {}, {}), 0, MemOf(<<0, 8195>>, <<0, 12291>>, <<0, 0>>), No, Picture(p), Read(p), No)
    [] s = 5 -> Cpu(Bios(p) + 5, BitsOf({}, {}, {}), 0, Mapped, No, Picture(p), Read(p), No)
    [] s = 6 -> Cpu(Bios(p) + 6, BitsOf({}, {}, {}), 0, Mapped, Yes, Picture(p), Read(p), No)
    [] s = 7 ->
         Cpu(Bios(p) + 7, BitsOf({}, {"pae"}, {}), 0, Mapped, Yes, Picture(p), Read(p), No)
    [] s = 8 ->
         Cpu(Bios(p) + 8, BitsOf({}, {"pae"}, {}), 4096, Mapped, Yes, Picture(p), Read(p), No)
    [] s = 9 ->
         Cpu(Bios(p) + 9, BitsOf({}, {"pae"}, {"lme"}), 4096, Mapped, Yes, Picture(p), Read(p), No)
    [] s = 10 ->
         Cpu(Bios(p) + 10, BitsOf({"pg", "pe"}, {"pae"}, {"lme"}), 4096, Mapped, Yes, Picture(p), Read(p), No)
    [] s = 11 ->
         Cpu(Bios(p) + 11, BitsOf({"pg", "pe"}, {"pae"}, {"lme"}), 4096, Mapped, Yes, Picture(p), Read(p), Yes)

\* The state before a BIOS call.
PowerOn(k, mode13) == Cpu(k, BitsOf({}, {}, {}), 0, MemOf(<<1, 1>>, <<1, 1>>, <<1, 1>>), No, mode13, 0, No)

\* The tables map the page at 0.
LEMMA MappedFacts ==
  ASSUME NEW c, c.cr3 = 4096, c.mem = Mapped
  PROVE  Maps(c)
<1>1. Mapped[4096] = <<0, 8195>> /\ Mapped[8192] = <<0, 12291>> /\ Mapped[12288] = <<0, 131>>
  BY MemFacts DEF Mapped
<1>2. Table(<<0, 8195>>) = 8192 /\ Table(<<0, 12291>>) = 12288
  BY DEF Table
<1>3. Present(<<0, 8195>>) /\ Present(<<0, 12291>>)
  BY DEF Present
<1>4. 4096 \in Tables /\ 8192 \in Tables /\ 12288 \in Tables
  BY DEF Tables
<1> HIDE DEF Mapped, Table, Present, Tables
<1> QED BY <1>1, <1>2, <1>3, <1>4 DEF Maps

\* With the tables written and the three registers set, this is long mode.
LEMMA LongModeFacts ==
  ASSUME NEW k, NEW g, NEW v, NEW l, NEW w,
         NEW c, c = Cpu(k, BitsOf({"pg", "pe"}, {"pae"}, {"lme"}), 4096, Mapped, g, v, l, w)
  PROVE  LongMode(c)
<1>1. c.bits = BitsOf({"pg", "pe"}, {"pae"}, {"lme"}) /\ c.cr3 = 4096 /\ c.mem = Mapped
  BY DEF Cpu
<1>2. Maps(c)
  BY <1>1, MappedFacts
<1>3. c.bits["cr0"] = {"pg", "pe"} /\ c.bits["cr4"] = {"pae"} /\ c.bits["efer"] = {"lme"}
  BY <1>1, BitsFacts
<1> QED BY <1>2, <1>3 DEF LongMode

\* Before paging an instruction other than the jump survives.
LEMMA SurvivesReal ==
  ASSUME NEW k, NEW y, NEW z, NEW r, NEW m, NEW g, NEW v, NEW l, NEW w,
         NEW c, c = Cpu(k, BitsOf({}, y, z), r, m, g, v, l, w), NEW i, i.op # "jump"
  PROVE  Survives(c, i)
<1>1. c.bits = BitsOf({}, y, z)
  BY DEF Cpu
<1>2. c.bits["cr0"] = {}
  BY <1>1, BitsFacts
<1> QED BY <1>2 DEF Survives

\* The far jump has its mapping and its descriptor.
LEMMA SurvivesJump ==
  ASSUME NEW k, NEW v, NEW l, NEW w,
         NEW c, c = Cpu(k, BitsOf({"pg", "pe"}, {"pae"}, {"lme"}), 4096, Mapped, Yes, v, l, w)
  PROVE  Survives(c, Plain("jump"))
<1>1. LongMode(c)
  BY LongModeFacts
<1>2. "pg" \in c.bits["cr0"]
  BY <1>1 DEF LongMode
<1>3. c.gdt
  BY DEF Cpu, Yes
<1> QED BY <1>1, <1>2, <1>3 DEF Survives, Plain

\* One instruction, the next one after it.
Advance(p, c, i) == [Effect(p, c, i) EXCEPT !.ip = @ + 1]

\* The tables are cleared.
LEMMA Boot1 ==
  ASSUME NEW p \in {"demo", "monitor", "monitor2", "gfx"}, NEW c, c = CpuAt(p, 1)
  PROVE  Survives(c, Plain("zero")) /\ Advance(p, c, Plain("zero")) = CpuAt(p, 2)
<1> DEFINE n == Bios(p)
           v == Picture(p)
           l == Read(p)
<1>0. n \in Nat
  BY DEF Bios
<1>1. c = Cpu(n + 1, BitsOf({}, {}, {}), 0, MemOf(<<1, 1>>, <<1, 1>>, <<1, 1>>), No, v, l, No)
  BY DEF CpuAt
<1>2. CpuAt(p, 2)
        = Cpu(n + 2, BitsOf({}, {}, {}), 0, MemOf(<<0, 0>>, <<0, 0>>, <<0, 0>>), No, v, l, No)
  BY DEF CpuAt
<1> HIDE DEF n, v, l
<1>3. Survives(c, Plain("zero"))
  <2>1. Plain("zero").op # "jump"
    BY DEF Plain, Entry, SetBit
  <2> QED BY <1>1, <2>1, SurvivesReal
<1>4. Effect(p, c, Plain("zero"))
        = Cpu(n + 1, BitsOf({}, {}, {}), 0, MemOf(<<0, 0>>, <<0, 0>>, <<0, 0>>), No, v, l, No)
  <2>1. [t \in Tables |-> <<0, 0>>] = MemOf(<<0, 0>>, <<0, 0>>, <<0, 0>>)
    BY DEF MemOf
  <2> QED BY <1>1, <2>1, BootEffects
<1> DEFINE d == Effect(p, c, Plain("zero"))
<1> HIDE DEF d
<1>5. [d EXCEPT !.ip = @ + 1]
        = Cpu(n + 1 + 1, BitsOf({}, {}, {}), 0, MemOf(<<0, 0>>, <<0, 0>>, <<0, 0>>), No, v, l, No)
  BY <1>4, CpuNext DEF d
<1>6. n + 1 + 1 = n + 2
  BY <1>0
<1> QED BY <1>2, <1>3, <1>5, <1>6 DEF Advance, d

\* The first entry of the top table.
LEMMA Boot2 ==
  ASSUME NEW p \in {"demo", "monitor", "monitor2", "gfx"}, NEW c, c = CpuAt(p, 2)
  PROVE  Survives(c, Entry(4096, 8195)) /\ Advance(p, c, Entry(4096, 8195)) = CpuAt(p, 3)
<1> DEFINE n == Bios(p)
           v == Picture(p)
           l == Read(p)
<1>0. n \in Nat
  BY DEF Bios
<1>1. c = Cpu(n + 2, BitsOf({}, {}, {}), 0, MemOf(<<0, 0>>, <<0, 0>>, <<0, 0>>), No, v, l, No)
  BY DEF CpuAt
<1>2. CpuAt(p, 3)
        = Cpu(n + 3, BitsOf({}, {}, {}), 0, MemOf(<<0, 8195>>, <<0, 0>>, <<0, 0>>), No, v, l, No)
  BY DEF CpuAt
<1> HIDE DEF n, v, l
<1>3. Survives(c, Entry(4096, 8195))
  <2>1. Entry(4096, 8195).op # "jump"
    BY DEF Plain, Entry, SetBit
  <2> QED BY <1>1, <2>1, SurvivesReal
<1>4. Effect(p, c, Entry(4096, 8195))
        = Cpu(n + 2, BitsOf({}, {}, {}), 0, MemOf(<<0, 8195>>, <<0, 0>>, <<0, 0>>), No, v, l, No)
  <2> DEFINE m == MemOf(<<0, 0>>, <<0, 0>>, <<0, 0>>)
  <2>0. m = MemOf(<<0, 0>>, <<0, 0>>, <<0, 0>>) /\ c
          = Cpu(n + 2, BitsOf({}, {}, {}), 0, m, No, v, l, No)
    BY <1>1
  <2> HIDE DEF m
  <2>1. m[4096] = <<0, 0>>
    BY <2>0, MemFacts
  <2>2. [<<0, 0>> EXCEPT ![2] = 8195] = <<0, 8195>>
    OBVIOUS
  <2> DEFINE e == <<0, 8195>>
  <2> HIDE DEF e
  <2>3. [m EXCEPT ![4096] = e] = MemOf(<<0, 8195>>, <<0, 0>>, <<0, 0>>)
    <3>1. [m EXCEPT ![4096] = e] = MemOf(e, <<0, 0>>, <<0, 0>>)
      BY <2>0, MemFacts
    <3> QED BY <3>1 DEF e
  <2> DEFINE u == MemOf(<<0, 8195>>, <<0, 0>>, <<0, 0>>)
  <2> HIDE DEF u
  <2>4. u = [m EXCEPT ![4096] = e]
    BY <2>3 DEF u
  <2>6. e = [m[4096] EXCEPT ![2] = 8195]
    BY <2>1, <2>2 DEF e
  <2> DEFINE t == 4096
             low == 8195
  <2>7. u = PutAt(m, t, e) /\ e = PutAt(m[t], 2, low)
    BY <2>4, <2>6 DEF PutAt
  <2> HIDE DEF t, low
  <2>5. Effect(p, c, Entry(t, low)) = Cpu(n + 2, BitsOf({}, {}, {}), 0, u, No, v, l, No)
    BY <2>0, <2>7, EntryEffect
  <2> QED BY <2>5 DEF u, t, low
<1> DEFINE d == Effect(p, c, Entry(4096, 8195))
<1> HIDE DEF d
<1>5. [d EXCEPT !.ip = @ + 1]
        = Cpu(n + 2 + 1, BitsOf({}, {}, {}), 0, MemOf(<<0, 8195>>, <<0, 0>>, <<0, 0>>), No, v, l, No)
  BY <1>4, CpuNext DEF d
<1>6. n + 2 + 1 = n + 3
  BY <1>0
<1> QED BY <1>2, <1>3, <1>5, <1>6 DEF Advance, d

\* The first entry of the middle table.
LEMMA Boot3 ==
  ASSUME NEW p \in {"demo", "monitor", "monitor2", "gfx"}, NEW c, c = CpuAt(p, 3)
  PROVE  Survives(c, Entry(8192, 12291)) /\ Advance(p, c, Entry(8192, 12291)) = CpuAt(p, 4)
<1> DEFINE n == Bios(p)
           v == Picture(p)
           l == Read(p)
<1>0. n \in Nat
  BY DEF Bios
<1>1. c
        = Cpu(n + 3, BitsOf({}, {}, {}), 0, MemOf(<<0, 8195>>, <<0, 0>>, <<0, 0>>), No, v, l, No)
  BY DEF CpuAt
<1>2. CpuAt(p, 4)
        = Cpu(n + 4, BitsOf({}, {}, {}), 0, MemOf(<<0, 8195>>, <<0, 12291>>, <<0, 0>>), No, v, l, No)
  BY DEF CpuAt
<1> HIDE DEF n, v, l
<1>3. Survives(c, Entry(8192, 12291))
  <2>1. Entry(8192, 12291).op # "jump"
    BY DEF Plain, Entry, SetBit
  <2> QED BY <1>1, <2>1, SurvivesReal
<1>4. Effect(p, c, Entry(8192, 12291))
        = Cpu(n + 3, BitsOf({}, {}, {}), 0, MemOf(<<0, 8195>>, <<0, 12291>>, <<0, 0>>), No, v, l, No)
  <2> DEFINE m == MemOf(<<0, 8195>>, <<0, 0>>, <<0, 0>>)
  <2>0. m = MemOf(<<0, 8195>>, <<0, 0>>, <<0, 0>>) /\ c
          = Cpu(n + 3, BitsOf({}, {}, {}), 0, m, No, v, l, No)
    BY <1>1
  <2> HIDE DEF m
  <2>1. m[8192] = <<0, 0>>
    BY <2>0, MemFacts
  <2>2. [<<0, 0>> EXCEPT ![2] = 12291] = <<0, 12291>>
    OBVIOUS
  <2> DEFINE e == <<0, 12291>>
  <2> HIDE DEF e
  <2>3. [m EXCEPT ![8192] = e] = MemOf(<<0, 8195>>, <<0, 12291>>, <<0, 0>>)
    <3>1. [m EXCEPT ![8192] = e] = MemOf(<<0, 8195>>, e, <<0, 0>>)
      BY <2>0, MemFacts
    <3> QED BY <3>1 DEF e
  <2> DEFINE u == MemOf(<<0, 8195>>, <<0, 12291>>, <<0, 0>>)
  <2> HIDE DEF u
  <2>4. u = [m EXCEPT ![8192] = e]
    BY <2>3 DEF u
  <2>6. e = [m[8192] EXCEPT ![2] = 12291]
    BY <2>1, <2>2 DEF e
  <2> DEFINE t == 8192
             low == 12291
  <2>7. u = PutAt(m, t, e) /\ e = PutAt(m[t], 2, low)
    BY <2>4, <2>6 DEF PutAt
  <2> HIDE DEF t, low
  <2>5. Effect(p, c, Entry(t, low)) = Cpu(n + 3, BitsOf({}, {}, {}), 0, u, No, v, l, No)
    BY <2>0, <2>7, EntryEffect
  <2> QED BY <2>5 DEF u, t, low
<1> DEFINE d == Effect(p, c, Entry(8192, 12291))
<1> HIDE DEF d
<1>5. [d EXCEPT !.ip = @ + 1]
        = Cpu(n + 3 + 1, BitsOf({}, {}, {}), 0, MemOf(<<0, 8195>>, <<0, 12291>>, <<0, 0>>), No, v, l, No)
  BY <1>4, CpuNext DEF d
<1>6. n + 3 + 1 = n + 4
  BY <1>0
<1> QED BY <1>2, <1>3, <1>5, <1>6 DEF Advance, d

\* The 2 MiB page: from here the tables map the code.
LEMMA Boot4 ==
  ASSUME NEW p \in {"demo", "monitor", "monitor2", "gfx"}, NEW c, c = CpuAt(p, 4)
  PROVE  Survives(c, Entry(12288, 131)) /\ Advance(p, c, Entry(12288, 131)) = CpuAt(p, 5)
<1> DEFINE n == Bios(p)
           v == Picture(p)
           l == Read(p)
<1>0. n \in Nat
  BY DEF Bios
<1>1. c
        = Cpu(n + 4, BitsOf({}, {}, {}), 0, MemOf(<<0, 8195>>, <<0, 12291>>, <<0, 0>>), No, v, l, No)
  BY DEF CpuAt
<1>2. CpuAt(p, 5) = Cpu(n + 5, BitsOf({}, {}, {}), 0, Mapped, No, v, l, No)
  BY DEF CpuAt
<1> HIDE DEF n, v, l
<1>3. Survives(c, Entry(12288, 131))
  <2>1. Entry(12288, 131).op # "jump"
    BY DEF Plain, Entry, SetBit
  <2> QED BY <1>1, <2>1, SurvivesReal
<1>4. Effect(p, c, Entry(12288, 131)) = Cpu(n + 4, BitsOf({}, {}, {}), 0, Mapped, No, v, l, No)
  <2> DEFINE m == MemOf(<<0, 8195>>, <<0, 12291>>, <<0, 0>>)
  <2>0. m = MemOf(<<0, 8195>>, <<0, 12291>>, <<0, 0>>) /\ c
          = Cpu(n + 4, BitsOf({}, {}, {}), 0, m, No, v, l, No)
    BY <1>1
  <2> HIDE DEF m
  <2>1. m[12288] = <<0, 0>>
    BY <2>0, MemFacts
  <2>2. [<<0, 0>> EXCEPT ![2] = 131] = <<0, 131>>
    OBVIOUS
  <2> DEFINE e == <<0, 131>>
  <2> HIDE DEF e
  <2>3. [m EXCEPT ![12288] = e] = Mapped
    <3>1. [m EXCEPT ![12288] = e] = MemOf(<<0, 8195>>, <<0, 12291>>, e)
      BY <2>0, MemFacts
    <3> QED BY <3>1 DEF e, Mapped
  <2> DEFINE u == Mapped
  <2> HIDE DEF u
  <2>4. u = [m EXCEPT ![12288] = e]
    BY <2>3 DEF u
  <2>6. e = [m[12288] EXCEPT ![2] = 131]
    BY <2>1, <2>2 DEF e
  <2> DEFINE t == 12288
             low == 131
  <2>7. u = PutAt(m, t, e) /\ e = PutAt(m[t], 2, low)
    BY <2>4, <2>6 DEF PutAt
  <2> HIDE DEF t, low
  <2>5. Effect(p, c, Entry(t, low)) = Cpu(n + 4, BitsOf({}, {}, {}), 0, u, No, v, l, No)
    BY <2>0, <2>7, EntryEffect
  <2> QED BY <2>5 DEF u, t, low
<1> DEFINE d == Effect(p, c, Entry(12288, 131))
<1> HIDE DEF d
<1>5. [d EXCEPT !.ip = @ + 1] = Cpu(n + 4 + 1, BitsOf({}, {}, {}), 0, Mapped, No, v, l, No)
  BY <1>4, CpuNext DEF d
<1>6. n + 4 + 1 = n + 5
  BY <1>0
<1> QED BY <1>2, <1>3, <1>5, <1>6 DEF Advance, d

\* The descriptor table.
LEMMA Boot5 ==
  ASSUME NEW p \in {"demo", "monitor", "monitor2", "gfx"}, NEW c, c = CpuAt(p, 5)
  PROVE  Survives(c, Plain("lgdt")) /\ Advance(p, c, Plain("lgdt")) = CpuAt(p, 6)
<1> DEFINE n == Bios(p)
           v == Picture(p)
           l == Read(p)
<1>0. n \in Nat
  BY DEF Bios
<1>1. c = Cpu(n + 5, BitsOf({}, {}, {}), 0, Mapped, No, v, l, No)
  BY DEF CpuAt
<1>2. CpuAt(p, 6) = Cpu(n + 6, BitsOf({}, {}, {}), 0, Mapped, Yes, v, l, No)
  BY DEF CpuAt
<1> HIDE DEF n, v, l
<1>3. Survives(c, Plain("lgdt"))
  <2>1. Plain("lgdt").op # "jump"
    BY DEF Plain, Entry, SetBit
  <2> QED BY <1>1, <2>1, SurvivesReal
<1>4. Effect(p, c, Plain("lgdt")) = Cpu(n + 5, BitsOf({}, {}, {}), 0, Mapped, Yes, v, l, No)
  BY <1>1, BootEffects
<1> DEFINE d == Effect(p, c, Plain("lgdt"))
<1> HIDE DEF d
<1>5. [d EXCEPT !.ip = @ + 1] = Cpu(n + 5 + 1, BitsOf({}, {}, {}), 0, Mapped, Yes, v, l, No)
  BY <1>4, CpuNext DEF d
<1>6. n + 5 + 1 = n + 6
  BY <1>0
<1> QED BY <1>2, <1>3, <1>5, <1>6 DEF Advance, d

\* Physical address extension.
LEMMA Boot6 ==
  ASSUME NEW p \in {"demo", "monitor", "monitor2", "gfx"}, NEW c, c = CpuAt(p, 6)
  PROVE  /\ Survives(c, SetBit("cr4", {"pae"}))
         /\ Advance(p, c, SetBit("cr4", {"pae"})) = CpuAt(p, 7)
<1> DEFINE n == Bios(p)
           v == Picture(p)
           l == Read(p)
<1>0. n \in Nat
  BY DEF Bios
<1>1. c = Cpu(n + 6, BitsOf({}, {}, {}), 0, Mapped, Yes, v, l, No)
  BY DEF CpuAt
<1>2. CpuAt(p, 7) = Cpu(n + 7, BitsOf({}, {"pae"}, {}), 0, Mapped, Yes, v, l, No)
  BY DEF CpuAt
<1> HIDE DEF n, v, l
<1>3. Survives(c, SetBit("cr4", {"pae"}))
  <2>1. SetBit("cr4", {"pae"}).op # "jump"
    BY DEF Plain, Entry, SetBit
  <2> QED BY <1>1, <2>1, SurvivesReal
<1>4. Effect(p, c, SetBit("cr4", {"pae"}))
        = Cpu(n + 6, BitsOf({}, {"pae"}, {}), 0, Mapped, Yes, v, l, No)
  <2> DEFINE b == BitsOf({}, {}, {})
             e == {"pae"}
  <2>0. b = BitsOf({}, {}, {}) /\ c = Cpu(n + 6, b, 0, Mapped, Yes, v, l, No) /\ {} \cup e = e
    BY <1>1
  <2> HIDE DEF b, e
  <2>1. b["cr4"] = {}
    BY <2>0, BitsFacts
  <2>3. [b EXCEPT !["cr4"] = e] = BitsOf({}, e, {})
    BY <2>0, BitsFacts
  <2> DEFINE u == BitsOf({}, {"pae"}, {})
  <2> HIDE DEF u
  <2>4. u = [b EXCEPT !["cr4"] = b["cr4"] \cup e]
    BY <2>0, <2>1, <2>3 DEF u, e
  <2>5. Effect(p, c, SetBit("cr4", e)) = Cpu(n + 6, u, 0, Mapped, Yes, v, l, No)
    BY <2>0, <2>4, BitEffect
  <2> QED BY <2>5 DEF u, e
<1> DEFINE d == Effect(p, c, SetBit("cr4", {"pae"}))
<1> HIDE DEF d
<1>5. [d EXCEPT !.ip = @ + 1]
        = Cpu(n + 6 + 1, BitsOf({}, {"pae"}, {}), 0, Mapped, Yes, v, l, No)
  BY <1>4, CpuNext DEF d
<1>6. n + 6 + 1 = n + 7
  BY <1>0
<1> QED BY <1>2, <1>3, <1>5, <1>6 DEF Advance, d

\* cr3 at the top table.
LEMMA Boot7 ==
  ASSUME NEW p \in {"demo", "monitor", "monitor2", "gfx"}, NEW c, c = CpuAt(p, 7)
  PROVE  Survives(c, Plain("cr3")) /\ Advance(p, c, Plain("cr3")) = CpuAt(p, 8)
<1> DEFINE n == Bios(p)
           v == Picture(p)
           l == Read(p)
<1>0. n \in Nat
  BY DEF Bios
<1>1. c = Cpu(n + 7, BitsOf({}, {"pae"}, {}), 0, Mapped, Yes, v, l, No)
  BY DEF CpuAt
<1>2. CpuAt(p, 8) = Cpu(n + 8, BitsOf({}, {"pae"}, {}), 4096, Mapped, Yes, v, l, No)
  BY DEF CpuAt
<1> HIDE DEF n, v, l
<1>3. Survives(c, Plain("cr3"))
  <2>1. Plain("cr3").op # "jump"
    BY DEF Plain, Entry, SetBit
  <2> QED BY <1>1, <2>1, SurvivesReal
<1>4. Effect(p, c, Plain("cr3"))
        = Cpu(n + 7, BitsOf({}, {"pae"}, {}), 4096, Mapped, Yes, v, l, No)
  BY <1>1, BootEffects
<1> DEFINE d == Effect(p, c, Plain("cr3"))
<1> HIDE DEF d
<1>5. [d EXCEPT !.ip = @ + 1]
        = Cpu(n + 7 + 1, BitsOf({}, {"pae"}, {}), 4096, Mapped, Yes, v, l, No)
  BY <1>4, CpuNext DEF d
<1>6. n + 7 + 1 = n + 8
  BY <1>0
<1> QED BY <1>2, <1>3, <1>5, <1>6 DEF Advance, d

\* Long mode enabled.
LEMMA Boot8 ==
  ASSUME NEW p \in {"demo", "monitor", "monitor2", "gfx"}, NEW c, c = CpuAt(p, 8)
  PROVE  /\ Survives(c, SetBit("efer", {"lme"}))
         /\ Advance(p, c, SetBit("efer", {"lme"})) = CpuAt(p, 9)
<1> DEFINE n == Bios(p)
           v == Picture(p)
           l == Read(p)
<1>0. n \in Nat
  BY DEF Bios
<1>1. c = Cpu(n + 8, BitsOf({}, {"pae"}, {}), 4096, Mapped, Yes, v, l, No)
  BY DEF CpuAt
<1>2. CpuAt(p, 9) = Cpu(n + 9, BitsOf({}, {"pae"}, {"lme"}), 4096, Mapped, Yes, v, l, No)
  BY DEF CpuAt
<1> HIDE DEF n, v, l
<1>3. Survives(c, SetBit("efer", {"lme"}))
  <2>1. SetBit("efer", {"lme"}).op # "jump"
    BY DEF Plain, Entry, SetBit
  <2> QED BY <1>1, <2>1, SurvivesReal
<1>4. Effect(p, c, SetBit("efer", {"lme"}))
        = Cpu(n + 8, BitsOf({}, {"pae"}, {"lme"}), 4096, Mapped, Yes, v, l, No)
  <2> DEFINE b == BitsOf({}, {"pae"}, {})
             e == {"lme"}
  <2>0. /\ b = BitsOf({}, {"pae"}, {})
        /\ c = Cpu(n + 8, b, 4096, Mapped, Yes, v, l, No) /\ {} \cup e = e
    BY <1>1
  <2> HIDE DEF b, e
  <2>1. b["efer"] = {}
    BY <2>0, BitsFacts
  <2>3. [b EXCEPT !["efer"] = e] = BitsOf({}, {"pae"}, e)
    BY <2>0, BitsFacts
  <2> DEFINE u == BitsOf({}, {"pae"}, {"lme"})
  <2> HIDE DEF u
  <2>4. u = [b EXCEPT !["efer"] = b["efer"] \cup e]
    BY <2>0, <2>1, <2>3 DEF u, e
  <2>5. Effect(p, c, SetBit("efer", e)) = Cpu(n + 8, u, 4096, Mapped, Yes, v, l, No)
    BY <2>0, <2>4, BitEffect
  <2> QED BY <2>5 DEF u, e
<1> DEFINE d == Effect(p, c, SetBit("efer", {"lme"}))
<1> HIDE DEF d
<1>5. [d EXCEPT !.ip = @ + 1]
        = Cpu(n + 8 + 1, BitsOf({}, {"pae"}, {"lme"}), 4096, Mapped, Yes, v, l, No)
  BY <1>4, CpuNext DEF d
<1>6. n + 8 + 1 = n + 9
  BY <1>0
<1> QED BY <1>2, <1>3, <1>5, <1>6 DEF Advance, d

\* Paging on: the next instruction must be mapped.
LEMMA Boot9 ==
  ASSUME NEW p \in {"demo", "monitor", "monitor2", "gfx"}, NEW c, c = CpuAt(p, 9)
  PROVE  /\ Survives(c, SetBit("cr0", {"pg", "pe"}))
         /\ Advance(p, c, SetBit("cr0", {"pg", "pe"})) = CpuAt(p, 10)
<1> DEFINE n == Bios(p)
           v == Picture(p)
           l == Read(p)
<1>0. n \in Nat
  BY DEF Bios
<1>1. c = Cpu(n + 9, BitsOf({}, {"pae"}, {"lme"}), 4096, Mapped, Yes, v, l, No)
  BY DEF CpuAt
<1>2. CpuAt(p, 10)
        = Cpu(n + 10, BitsOf({"pg", "pe"}, {"pae"}, {"lme"}), 4096, Mapped, Yes, v, l, No)
  BY DEF CpuAt
<1> HIDE DEF n, v, l
<1>3. Survives(c, SetBit("cr0", {"pg", "pe"}))
  <2>1. SetBit("cr0", {"pg", "pe"}).op # "jump"
    BY DEF Plain, Entry, SetBit
  <2> QED BY <1>1, <2>1, SurvivesReal
<1>4. Effect(p, c, SetBit("cr0", {"pg", "pe"}))
        = Cpu(n + 9, BitsOf({"pg", "pe"}, {"pae"}, {"lme"}), 4096, Mapped, Yes, v, l, No)
  <2> DEFINE b == BitsOf({}, {"pae"}, {"lme"})
             e == {"pg", "pe"}
  <2>0. /\ b = BitsOf({}, {"pae"}, {"lme"})
        /\ c = Cpu(n + 9, b, 4096, Mapped, Yes, v, l, No) /\ {} \cup e = e
    BY <1>1
  <2> HIDE DEF b, e
  <2>1. b["cr0"] = {}
    BY <2>0, BitsFacts
  <2>3. [b EXCEPT !["cr0"] = e] = BitsOf(e, {"pae"}, {"lme"})
    BY <2>0, BitsFacts
  <2> DEFINE u == BitsOf({"pg", "pe"}, {"pae"}, {"lme"})
  <2> HIDE DEF u
  <2>4. u = [b EXCEPT !["cr0"] = b["cr0"] \cup e]
    BY <2>0, <2>1, <2>3 DEF u, e
  <2>5. Effect(p, c, SetBit("cr0", e)) = Cpu(n + 9, u, 4096, Mapped, Yes, v, l, No)
    BY <2>0, <2>4, BitEffect
  <2> QED BY <2>5 DEF u, e
<1> DEFINE d == Effect(p, c, SetBit("cr0", {"pg", "pe"}))
<1> HIDE DEF d
<1>5. [d EXCEPT !.ip = @ + 1]
        = Cpu(n + 9 + 1, BitsOf({"pg", "pe"}, {"pae"}, {"lme"}), 4096, Mapped, Yes, v, l, No)
  BY <1>4, CpuNext DEF d
<1>6. n + 9 + 1 = n + 10
  BY <1>0
<1> QED BY <1>2, <1>3, <1>5, <1>6 DEF Advance, d

\* The far jump into the payload.
LEMMA Boot10 ==
  ASSUME NEW p \in {"demo", "monitor", "monitor2", "gfx"}, NEW c, c = CpuAt(p, 10)
  PROVE  Survives(c, Plain("jump")) /\ Advance(p, c, Plain("jump")) = CpuAt(p, 11)
<1> DEFINE n == Bios(p)
           v == Picture(p)
           l == Read(p)
<1>0. n \in Nat
  BY DEF Bios
<1>1. c = Cpu(n + 10, BitsOf({"pg", "pe"}, {"pae"}, {"lme"}), 4096, Mapped, Yes, v, l, No)
  BY DEF CpuAt
<1>2. CpuAt(p, 11)
        = Cpu(n + 11, BitsOf({"pg", "pe"}, {"pae"}, {"lme"}), 4096, Mapped, Yes, v, l, Yes)
  BY DEF CpuAt
<1> HIDE DEF n, v, l
<1>3. Survives(c, Plain("jump"))
  BY <1>1, SurvivesJump
<1>4. Effect(p, c, Plain("jump"))
        = Cpu(n + 10, BitsOf({"pg", "pe"}, {"pae"}, {"lme"}), 4096, Mapped, Yes, v, l, Yes)
  BY <1>1, BootEffects
<1> DEFINE d == Effect(p, c, Plain("jump"))
<1> HIDE DEF d
<1>5. [d EXCEPT !.ip = @ + 1]
        = Cpu(n + 10 + 1, BitsOf({"pg", "pe"}, {"pae"}, {"lme"}), 4096, Mapped, Yes, v, l, Yes)
  BY <1>4, CpuNext DEF d
<1>6. n + 10 + 1 = n + 11
  BY <1>0
<1> QED BY <1>2, <1>3, <1>5, <1>6 DEF Advance, d

\* Each instruction of the common part survives and leads to the next state.
LEMMA BootAdvance ==
  ASSUME NEW p \in {"demo", "monitor", "monitor2", "gfx"}, NEW s \in 1..10, NEW c, c = CpuAt(p, s)
  PROVE  /\ Survives(c, BootAt(p, s)) /\ Advance(p, c, BootAt(p, s)) = CpuAt(p, s + 1)
         /\ BootAt(p, s).op = "jump" <=> s = 10
<1>0. /\ BootAt(p, 1) = Plain("zero") /\ BootAt(p, 2) = Entry(4096, 8195)
      /\ BootAt(p, 3) = Entry(8192, 12291) /\ BootAt(p, 4) = Entry(12288, 131)
      /\ BootAt(p, 5) = Plain("lgdt") /\ BootAt(p, 6) = SetBit("cr4", {"pae"})
      /\ BootAt(p, 7) = Plain("cr3") /\ BootAt(p, 8) = SetBit("efer", {"lme"})
      /\ BootAt(p, 9) = SetBit("cr0", {"pg", "pe"}) /\ BootAt(p, 10) = Plain("jump")
  BY BootCode
<1>1. /\ Plain("zero").op # "jump" /\ Plain("lgdt").op # "jump" /\ Plain("cr3").op # "jump"
      /\ \A t, low : Entry(t, low).op # "jump" /\ SetBit(t, low).op # "jump"
      /\ Plain("jump").op = "jump"
  BY DEF Plain, Entry, SetBit
<1>2. CASE s = 1
  BY <1>0, <1>1, <1>2, Boot1
<1>3. CASE s = 2
  BY <1>0, <1>1, <1>3, Boot2
<1>4. CASE s = 3
  BY <1>0, <1>1, <1>4, Boot3
<1>5. CASE s = 4
  BY <1>0, <1>1, <1>5, Boot4
<1>6. CASE s = 5
  BY <1>0, <1>1, <1>6, Boot5
<1>7. CASE s = 6
  BY <1>0, <1>1, <1>7, Boot6
<1>8. CASE s = 7
  BY <1>0, <1>1, <1>8, Boot7
<1>9. CASE s = 8
  BY <1>0, <1>1, <1>9, Boot8
<1>10. CASE s = 9
  BY <1>0, <1>1, <1>10, Boot9
<1>11. CASE s = 10
  BY <1>0, <1>1, <1>11, Boot10
<1> QED BY <1>2, <1>3, <1>4, <1>5, <1>6, <1>7, <1>8, <1>9, <1>10, <1>11

\* A BIOS call in real mode.
LEMMA BiosAdvance ==
  ASSUME NEW p, NEW k \in Nat, NEW v, NEW c, c = PowerOn(k, v)
  PROVE  /\ Survives(c, Plain("int10")) /\ Advance(p, c, Plain("int10")) = PowerOn(k + 1, Yes)
         /\ Survives(c, Plain("int13"))
         /\ Advance(p, c, Plain("int13")) =
              Cpu(k + 1, BitsOf({}, {}, {}), 0, MemOf(<<1, 1>>, <<1, 1>>, <<1, 1>>), No, v, ReadSectors(p), No)
<1> DEFINE b == BitsOf({}, {}, {})
           m == MemOf(<<1, 1>>, <<1, 1>>, <<1, 1>>)
<1>1. c = Cpu(k, b, 0, m, No, v, 0, No)
  BY DEF PowerOn
<1>2. Plain("int10").op # "jump" /\ Plain("int13").op # "jump"
  BY DEF Plain
<1>3. Survives(c, Plain("int10")) /\ Survives(c, Plain("int13"))
  BY <1>1, <1>2, SurvivesReal
<1> HIDE DEF b, m
<1>4. /\ Effect(p, c, Plain("int10")) = Cpu(k, b, 0, m, No, Yes, 0, No)
      /\ Effect(p, c, Plain("int13")) = Cpu(k, b, 0, m, No, v, ReadSectors(p), No)
  BY <1>1, BootEffects
<1> DEFINE d == Effect(p, c, Plain("int10"))
           e == Effect(p, c, Plain("int13"))
<1> HIDE DEF d, e
<1>5. [d EXCEPT !.ip = @ + 1] = Cpu(k + 1, b, 0, m, No, Yes, 0, No)
  BY <1>4, CpuNext DEF d
<1>6. [e EXCEPT !.ip = @ + 1] = Cpu(k + 1, b, 0, m, No, v, ReadSectors(p), No)
  BY <1>4, CpuNext DEF e
<1> QED BY <1>3, <1>5, <1>6 DEF Advance, PowerOn, b, m, d, e

\* The boot sector is at one of its states, or has handed over.
Booting(p, c) == \/ \E s \in 1..10 : c = CpuAt(p, s)
                 \/ p = "monitor2" /\ c = PowerOn(1, No)
                 \/ p = "gfx" /\ (c = PowerOn(1, No) \/ c = PowerOn(2, Yes))
BootInv == /\ program \in Programs
           /\ at = "boot" => Booting(program, cpu)
           /\ at # "boot" => /\ at # "reset" /\ cpu = CpuAt(program, 11)
                             /\ (at = "lost") <=> (Entered(program) = "lost")

\* The instruction the processor is at.
LEMMA CpuIp ==
  /\ \A p : \A s \in 1..10 : CpuAt(p, s).ip = Bios(p) + s
  /\ \A k, v : PowerOn(k, v).ip = k
<1>1. \A k, b, r, m, g, v, l, w : Cpu(k, b, r, m, g, v, l, w).ip = k
  BY DEF Cpu
<1>2. ASSUME NEW p, NEW s \in 1..10 PROVE CpuAt(p, s).ip = Bios(p) + s
  <2>1. s = 1 \/ s = 2 \/ s = 3 \/ s = 4 \/ s = 5 \/ s = 6 \/ s = 7 \/ s = 8 \/ s = 9 \/ s = 10
    OBVIOUS
  <2> QED BY <1>1, <2>1 DEF CpuAt
<1> QED BY <1>1, <1>2 DEF PowerOn

\* The programs and their payloads.
LEMMA ProgramFacts ==
  /\ Programs \subseteq {"demo", "monitor", "monitor2", "gfx"}
  /\ \A p \in Programs : PayloadBytes[p] \in Nat
BY MonitorAssumption

\* Power-on is the first instruction of every boot sector.
LEMMA InitBoot == MonInit => BootInv
<1> SUFFICES ASSUME MonInit PROVE BootInv
  OBVIOUS
<1>1. cpu = PowerOn(1, No)
  <2>1. BitsOf({}, {}, {}) = [r \in {"cr0", "cr4", "efer"} |-> {}]
    BY DEF BitsOf
  <2>2. MemOf(<<1, 1>>, <<1, 1>>, <<1, 1>>) = [t \in Tables |-> <<1, 1>>]
    BY DEF MemOf
  <2> QED BY <2>1, <2>2, Zenon DEF MonInit, PowerOn, Cpu, No
<1>2. program \in Programs /\ at = "boot"
  BY DEF MonInit
<1>3. CASE program \in {"demo", "monitor"}
  <2>1. Bios(program) = 0 /\ Picture(program) = No /\ Read(program) = 0
    BY <1>3 DEF Bios, Picture, Read, OnDisk
  <2>2. CpuAt(program, 1) = PowerOn(1, No)
    BY <2>1 DEF CpuAt, PowerOn
  <2> QED BY <1>1, <1>2, <2>2 DEF BootInv, Booting
<1>4. CASE program \in {"monitor2", "gfx"}
  BY <1>1, <1>2, <1>4 DEF BootInv, Booting
<1> QED BY <1>2, <1>3, <1>4, ProgramFacts

\* Every instruction of the boot sector, the BIOS calls included.
LEMMA StepBoot ==
  ASSUME BootInv, Boot
  PROVE  BootInv'
<1> DEFINE p == program
           c == cpu
           i == BootSector(p)[c.ip]
<1>0. at = "boot" /\ p \in Programs /\ p' = p /\ p \in {"demo", "monitor", "monitor2", "gfx"}
  BY ProgramFacts DEF Boot, BootInv
<1>1. IF Survives(c, i)
      THEN cpu' = Advance(p, c, i) /\ at' = IF i.op = "jump" THEN Entered(p) ELSE "boot"
      ELSE at' = "reset" /\ UNCHANGED cpu
  BY DEF Boot, Advance
<1>2. Booting(p, c)
  BY <1>0 DEF BootInv
<1>3. ASSUME NEW s \in 1..10, c = CpuAt(p, s) PROVE BootInv'
  <2>1. i = BootAt(p, s)
    BY <1>3, CpuIp DEF BootAt
  <2>2. Survives(c, i) /\ Advance(p, c, i) = CpuAt(p, s + 1) /\ (i.op = "jump" <=> s = 10)
    BY <1>0, <1>3, <2>1, BootAdvance
  <2>3. cpu' = CpuAt(p, s + 1) /\ at' = IF s = 10 THEN Entered(p) ELSE "boot"
    BY <1>1, <2>2
  <2>4. CASE s = 10
    BY <1>0, <2>3, <2>4, EnteredPlace DEF BootInv
  <2>5. CASE s # 10
    <3>1. s + 1 \in 1..10
      BY <2>5
    <3> DEFINE r == s + 1
    <3> HIDE DEF r
    <3>2. cpu' = CpuAt(p, r) /\ r \in 1..10 /\ at' = "boot"
      BY <2>3, <2>5, <3>1 DEF r
    <3> QED BY <1>0, <3>2 DEF BootInv, Booting
  <2> QED BY <2>4, <2>5
<1>4. CASE p = "monitor2" /\ c = PowerOn(1, No)
  <2>1. i = Plain("int13")
    BY <1>0, <1>4, CpuIp, BootCode
  <2>2. Survives(c, i) /\ i.op # "jump"
        /\ Advance(p, c, i)
                = Cpu(1 + 1, BitsOf({}, {}, {}), 0, MemOf(<<1, 1>>, <<1, 1>>, <<1, 1>>), No, No, ReadSectors(p), No)
    <3>1. Plain("int13").op # "jump"
      BY DEF Plain
    <3>2. 1 \in Nat
      OBVIOUS
    <3> QED BY <1>4, <2>1, <3>1, <3>2, BiosAdvance
  <2>3. Bios(p) = 1 /\ Picture(p) = No /\ Read(p) = ReadSectors(p)
    BY <1>4 DEF Bios, Picture, Read, OnDisk
  <2>4. Advance(p, c, i) = CpuAt(p, 1)
    BY <2>2, <2>3 DEF CpuAt
  <2>5. cpu' = CpuAt(p, 1) /\ at' = "boot" /\ 1 \in 1..10
    BY <1>1, <2>2, <2>4
  <2> QED BY <1>0, <2>5 DEF BootInv, Booting
<1>5. CASE p = "gfx" /\ c = PowerOn(1, No)
  <2>1. i = Plain("int10")
    BY <1>0, <1>5, CpuIp, BootCode
  <2>2. Survives(c, i) /\ i.op # "jump" /\ Advance(p, c, i) = PowerOn(1 + 1, Yes)
    <3>1. Plain("int10").op # "jump"
      BY DEF Plain
    <3>2. 1 \in Nat
      OBVIOUS
    <3> QED BY <1>5, <2>1, <3>1, <3>2, BiosAdvance
  <2>3. cpu' = PowerOn(2, Yes) /\ at' = "boot"
    BY <1>1, <2>2
  <2> QED BY <1>0, <1>5, <2>3 DEF BootInv, Booting
<1>6. CASE p = "gfx" /\ c = PowerOn(2, Yes)
  <2>1. i = Plain("int13")
    BY <1>0, <1>6, CpuIp, BootCode
  <2>2. Survives(c, i) /\ i.op # "jump"
        /\ Advance(p, c, i)
                = Cpu(2 + 1, BitsOf({}, {}, {}), 0, MemOf(<<1, 1>>, <<1, 1>>, <<1, 1>>), No, Yes, ReadSectors(p), No)
    <3>1. Plain("int13").op # "jump"
      BY DEF Plain
    <3>2. 2 \in Nat
      OBVIOUS
    <3> QED BY <1>6, <2>1, <3>1, <3>2, BiosAdvance
  <2>3. Bios(p) = 2 /\ Picture(p) = Yes /\ Read(p) = ReadSectors(p)
    BY <1>6 DEF Bios, Picture, Read, OnDisk
  <2>4. Advance(p, c, i) = CpuAt(p, 1)
    BY <2>2, <2>3 DEF CpuAt
  <2>5. cpu' = CpuAt(p, 1) /\ at' = "boot" /\ 1 \in 1..10
    BY <1>1, <2>2, <2>4
  <2> QED BY <1>0, <2>5 DEF BootInv, Booting
<1> QED BY <1>2, <1>3, <1>4, <1>5, <1>6 DEF Booting

\* The sectors that hold n bytes do, and no fewer.
LEMMA SectorsHold ==
  ASSUME NEW n \in Nat, NEW k \in Nat
  PROVE  /\ ((n + 511) \div 512) * 512 >= n /\ (n + 511) \div 512 \in Nat
         /\ (n + 511) \div 512 <= k <=> n <= k * 512
         /\ (n + 511) \div 512 = 0 <=> n = 0
OBVIOUS

\* One call reads a payload whole, or it is too long and nothing is read.
LEMMA PayloadRead ==
  ASSUME NEW p \in Programs
  PROVE  /\ Entered(p) = "lost" <=> OnDisk(p) /\ PayloadBytes[p] > ReadLimit * 512
         /\ OnDisk(p) /\ Entered(p) # "lost" => Read(p) * 512 >= PayloadBytes[p]
<1> DEFINE n == PayloadBytes[p]
           m == sectors(p)
<1>1. n \in Nat /\ ReadLimit \in Nat
  BY MonitorAssumption
<1>2. m = (n + 511) \div 512
  BY DEF sectors
<1> HIDE DEF n, m
<1>3. /\ m * 512 >= n /\ m \in Nat
      /\ m <= ReadLimit <=> n <= ReadLimit * 512
      /\ m = 0 <=> n = 0
  BY <1>1, <1>2, SectorsHold
<1>4. ReadSectors(p) = IF m <= ReadLimit THEN m ELSE 0
  BY DEF ReadSectors, m
<1>5. Entered(p) = IF OnDisk(p) /\ ReadSectors(p) # m THEN "lost" ELSE "start"
  BY DEF Entered, m
<1>6. Read(p) = IF OnDisk(p) THEN ReadSectors(p) ELSE 0
  BY DEF Read
<1>7. m <= ReadLimit \/ (m > ReadLimit /\ m # 0)
  BY <1>1, <1>3
<1>8. Entered(p) = "lost" <=> OnDisk(p) /\ m > ReadLimit
  BY <1>1, <1>3, <1>4, <1>5, <1>7
<1>9. n > ReadLimit * 512 <=> m > ReadLimit
  BY <1>1, <1>3
<1>10. OnDisk(p) /\ Entered(p) # "lost" => Read(p) = m
  BY <1>1, <1>3, <1>4, <1>6, <1>8
<1> QED BY <1>3, <1>8, <1>9, <1>10 DEF n

\* Every boot sector comes to its end without a triple fault, in long mode and,
\* for the picture, in mode 13h; the payload is read whole unless it is longer
\* than one call reads, and then the jump goes past it.
THEOREM EntersLongModeCorrect == MonSpec => []EntersLongMode
<1>1. BootInv /\ [MonNext]_Monvars => BootInv'
  <2> SUFFICES ASSUME BootInv, [MonNext]_Monvars PROVE BootInv'
    OBVIOUS
  <2>1. CASE Boot
    BY <2>1, StepBoot
  <2>2. CASE MonNext /\ ~Boot
    <3>1. at # "boot" /\ at' # "boot" /\ at' # "reset" /\ cpu' = cpu /\ program' = program
         /\ (at = "lost" <=> at' = "lost")
      BY <2>2 DEF BootInv, MonNext, Start2, TypeChar, Backspace, LineDone, Prompt, CmdRegs,
      CmdText, CmdSet,
         RunWord, CmdTest, TestRow, TestDone, Start1, EchoKey, StartGfx, Bar, BarsDone,
         StartDemo,
         Sum1, PrintDigit
    <3> QED BY <3>1 DEF BootInv
  <2>3. CASE UNCHANGED Monvars
    BY <2>3 DEF Monvars, BootInv
  <2> QED BY <2>1, <2>2, <2>3
<1>2. BootInv => EntersLongMode
  <2> SUFFICES ASSUME BootInv PROVE EntersLongMode
    OBVIOUS
  <2>1. at # "reset"
    BY DEF BootInv
  <2> SUFFICES ASSUME at # "boot"
               PROVE  /\ cpu.wide /\ LongMode(cpu)
                      /\ program = "gfx" => cpu.mode13
                      /\ (at = "lost") <=> (/\ OnDisk(program)
                                            /\ PayloadBytes[program] > ReadLimit * 512)
                      /\ OnDisk(program) /\ at # "lost" =>
                           cpu.loaded * 512 >= PayloadBytes[program]
    BY <2>1, Zenon DEF EntersLongMode
  <2> DEFINE p == program
             b == BitsOf({"pg", "pe"}, {"pae"}, {"lme"})
  <2>9. cpu = CpuAt(program, 11)
    BY Zenon DEF BootInv
  <2>2. cpu = Cpu(Bios(p) + 11, b, 4096, Mapped, Yes, Picture(p), Read(p), Yes)
    BY <2>9 DEF CpuAt
  <2>3. LongMode(cpu)
    BY <2>2, LongModeFacts
  <2> HIDE DEF b
  <2>4. cpu.wide = Yes /\ cpu.mode13 = Picture(p) /\ cpu.loaded = Read(p)
    BY <2>2 DEF Cpu
  <2>5. cpu.wide
    BY <2>4 DEF Yes
  <2>6. p = "gfx" => cpu.mode13
    BY <2>4 DEF Picture, Yes
  <2>7. p \in Programs /\ ((at = "lost") <=> (Entered(p) = "lost"))
    BY Zenon DEF BootInv
  <2> HIDE DEF p
  <2>8. /\ Entered(p) = "lost" <=> OnDisk(p) /\ PayloadBytes[p] > ReadLimit * 512
        /\ OnDisk(p) /\ Entered(p) # "lost" => Read(p) * 512 >= PayloadBytes[p]
    BY <2>7, PayloadRead
  <2> QED BY <2>3, <2>4, <2>5, <2>6, <2>7, <2>8 DEF p
<1> QED BY InitBoot, <1>1, <1>2, PTL DEF MonSpec
-----------------------------------------------------------------------------
(* The guest registers *)

\* A word has one translation, wherever in the table it is found.
LEMMA OneWord ==
  ASSUME NEW j \in 1..Len(test_table), NEW k \in 1..Len(test_table),
         test_table[j].number = test_table[k].number
  PROVE  test_table[j].word = test_table[k].word
<1>1. PICK a \in DOMAIN Cases : test_table[j] = Cases[a]
  BY TestTable
<1>2. PICK b \in DOMAIN Cases : test_table[k] = Cases[b]
  BY TestTable
<1>3. Cases[a].number = Cases[b].number
  BY <1>1, <1>2
<1>4. Cases[a].word = Cases[b].word
  BY <1>3, CasesAssumption
<1> QED BY <1>1, <1>2, <1>4

\* The rows run_word compares the typed number with.
LEMMA FoundRows ==
  /\ Found \subseteq 1..Len(test_table) /\ Found \subseteq Nat
  /\ \A k \in Found : test_table[k].number = parse_hex(line)
<1>1. test_table \in Seq(Case)
  BY TestTable
<1>2. DOMAIN test_table = 1..Len(test_table) /\ Len(test_table) \in Nat
  BY <1>1, LenProperties
<1>3. \A k \in 1..Len(test_table) : k \in Nat
  OBVIOUS
<1> QED BY <1>2, <1>3 DEF Found

\* A typed word runs its translation, whichever row it is found in.
LEMMA WordRuns ==
  ASSUME RunWord, NEW k \in Found
  PROVE  /\ test_table[k].word \in Instrs
         /\ file' = RunBlock(file, test_table[k].word)
<1> DEFINE first == CHOOSE m \in Found : \A j \in Found : m <= j
<1>1. \E m \in Found : \A j \in Found : m <= j
  BY FoundRows, LeastNumber
<1>2. first \in Found
  BY <1>1
<1>3. file' = RunBlock(file, test_table[first].word)
  BY DEF RunWord
<1> HIDE DEF first
<1>4. test_table[first].word = test_table[k].word
  BY <1>2, FoundRows, OneWord
<1>5. test_table[k].word \in Instrs
  BY FoundRows, TableCase
<1> QED BY <1>3, <1>4, <1>5

\* What the commands other than a word do to the register file.
LEMMA OtherCommands ==
  ASSUME MonNext, at = "command", ~IsWord
  PROVE  \/ file' = file
         \/ IsSet /\ file' = [file EXCEPT ![RegOf(line[2])] = SetValue]
BY DEF MonNext, Boot, Start2, TypeChar, Backspace, LineDone, Prompt, CmdRegs, CmdText, CmdSet,
   RunWord, CmdTest, TestRow, TestDone, Start1, EchoKey, StartGfx, Bar, BarsDone, StartDemo,
   Sum1, PrintDigit

\* A word entered is looked up and run, whatever else its characters could mean.
LEMMA WordCommand ==
  ASSUME MonTypeOK, MonNext, at = "command", IsWord
  PROVE  RunWord
<1>1. line \in Seq(Chars) /\ Len(line) > 1 /\ Len(line) # 1
  <2>1. line \in Seq(Chars)
    BY Typed
  <2> QED BY <2>1, LenProperties DEF IsWord
<1>2. \A c : Len(<<c>>) = 1
  OBVIOUS
<1>3. \A c : ~IsCommand(c)
  BY <1>1, <1>2 DEF IsCommand
<1>4. ~IsSet
  BY DEF IsSet, IsWord
<1> QED BY <1>1, <1>3, <1>4 DEF MonNext, Boot, Start2, TypeChar, Backspace, LineDone, Prompt,
   CmdRegs,
   CmdText, CmdSet, CmdTest, TestRow, TestDone, Start1, EchoKey, StartGfx, Bar, BarsDone,
      StartDemo,
   Sum1, PrintDigit

\* A typed word acts on the guest registers as the interpreter says wherever
\* its translation is safe, whatever the registers held, and no other command
\* but xN= and t touches them.
THEOREM RegistersKeptCorrect == MonSpec => RegistersKept
<1> DEFINE Kept == at = "command" =>
             IF IsWord
             THEN \A k \in Found : Safe(test_table[k].word) => file' = Step(file, test_table[k].word)
             ELSE file' # file => IsSet /\ \A n \in Guest : n # RegOf(line[2]) => file'[n] = file[n]
<1>1. MonTypeOK /\ [MonNext]_Monvars => [Kept]_Monvars
  <2> SUFFICES ASSUME MonTypeOK, MonNext, at = "command" PROVE Kept
    OBVIOUS
  <2>0. file \in [Guest -> Word]
    BY Typed
  <2>1. CASE IsWord
    <3> SUFFICES ASSUME NEW k \in Found, Safe(test_table[k].word)
                 PROVE  file' = Step(file, test_table[k].word)
      BY <2>1
    <3>1. RunWord
      BY <2>1, WordCommand
    <3> QED BY <2>0, <3>1, WordRuns, BlockCorrect
  <2>2. CASE ~IsWord
    <3> SUFFICES ASSUME file' # file
                 PROVE  IsSet /\ \A n \in Guest : n # RegOf(line[2]) => file'[n] = file[n]
      BY <2>2
    <3>1. IsSet /\ file' = [file EXCEPT ![RegOf(line[2])] = SetValue]
      BY <2>2, OtherCommands
    <3> QED BY <2>0, <3>1
  <2> QED BY <2>1, <2>2
<1>3. MonSpec => [][Kept]_Monvars
  <2> HIDE DEF Kept
  <2> QED BY <1>1, MonitorTypes, PTL DEF MonSpec
<1> QED BY <1>3 DEF RegistersKept
-----------------------------------------------------------------------------
(* The reports of t *)

\* The first n values of f, one after the other.
First(f, n) == [k \in 1..n |-> f[k]]

\* One value more.
LEMMA FirstGrows ==
  ASSUME NEW m \in Nat, NEW f, DOMAIN f = 1..m, NEW n \in Nat, n < m
  PROVE  /\ Len(First(f, n)) = n
         /\ Append(First(f, n), f[n + 1]) = First(f, n + 1)
<1> DEFINE T == {f[k] : k \in 1..m}
           s == First(f, n)
           t == First(f, n + 1)
<1>1. s \in Seq(T) /\ Len(s) = n /\ \A k \in 1..n : s[k] = f[k]
  BY DEF First
<1>2. t \in Seq(T) /\ Len(t) = n + 1 /\ \A k \in 1..(n + 1) : t[k] = f[k]
  BY DEF First
<1>3. f[n + 1] \in T
  BY n + 1 \in 1..m
<1> DEFINE x == f[n + 1]
<1> HIDE DEF s, t, T, x
<1>4. /\ Append(s, x) \in Seq(T) /\ Len(Append(s, x)) = Len(s) + 1
      /\ \A k \in 1..Len(s) : Append(s, x)[k] = s[k]
      /\ Append(s, x)[Len(s) + 1] = x
  BY <1>1, <1>3, AppendProperties DEF x
<1>5. \A k \in 1..(n + 1) : Append(s, x)[k] = t[k]
  BY <1>1, <1>2, <1>4 DEF x
<1>6. Append(s, x) = t
  BY <1>1, <1>2, <1>4, <1>5, SeqEqual
<1> QED BY <1>1, <1>6 DEF s, t, x

-----------------------------------------------------------------------------
\* What t shows of a row of the table.
Passes(k) == LET c == test_table[k] IN RunBlock(CaseFile(c), c.word)[c.check] = Expect(c)
Verdict(k) == IF Passes(k) THEN [ok |-> TRUE]
              ELSE [ok |-> FALSE, got |-> 0, want |-> Expect(test_table[k])]
Verdicts == [k \in 1..Len(test_table) |-> Verdict(k)]

RowsInv == at = "test" => row \in 0..Len(test_table) /\ shown = First(Verdicts, row)

\* Another row tested.
LEMMA StepTestRow ==
  ASSUME MonTypeOK, RowsInv, TestRow
  PROVE  RowsInv'
<1>1. /\ at = "test" /\ row < Len(test_table) /\ row' = row + 1
      /\ row \in Nat /\ Len(test_table) \in Nat /\ row + 1 \in 1..Len(test_table)
  <2>1. at = "test" /\ row < Len(test_table) /\ row' = row + 1
    BY DEF TestRow
  <2>2. row \in Nat /\ Len(test_table) \in Nat
    BY Typed, TestTable
  <2> QED BY <2>1, <2>2
<1>2. shown' = Append(shown, Verdict(row + 1))
  BY Zenon DEF TestRow, Verdict, Passes
<1>3. Verdict(row + 1) = Verdicts[row + 1] /\ DOMAIN Verdicts = 1..Len(test_table)
  BY <1>1 DEF Verdicts
<1>4. shown = First(Verdicts, row)
  BY <1>1 DEF RowsInv
<1>5. shown' = First(Verdicts, row + 1)
  BY <1>1, <1>2, <1>3, <1>4, FirstGrows
<1>6. row' \in 0..Len(test_table) /\ shown' = First(Verdicts, row')
  BY <1>1, <1>5
<1> QED BY <1>6 DEF RowsInv

\* The list begins empty, and only a row tested changes it.
LEMMA StepRows ==
  ASSUME MonTypeOK, RowsInv, MonNext
  PROVE  RowsInv'
<1>1. CASE TestRow
  BY <1>1, StepTestRow
<1>2. CASE CmdTest
  <2>1. row' = 0 /\ shown' = <<>> /\ Len(test_table) \in Nat
    BY <1>2, TestTable DEF CmdTest
  <2>2. First(Verdicts, 0) = <<>>
    BY DEF First
  <2>3. row' \in 0..Len(test_table) /\ shown' = First(Verdicts, row')
    BY <2>1, <2>2
  <2> QED BY <2>3 DEF RowsInv
<1>3. CASE ~(TestRow \/ CmdTest)
  <2>1. at' # "test"
    BY <1>3, EnteredPlace DEF MonNext, Boot, Start2, TypeChar, Backspace, LineDone, Prompt, CmdRegs, CmdText,
       CmdSet, RunWord, TestDone, Start1, EchoKey, StartGfx, Bar, BarsDone, StartDemo,
       Sum1, PrintDigit
  <2> QED BY <2>1 DEF RowsInv
<1> QED BY <1>1, <1>2, <1>3

\* A row is ok for exactly the translations that are right.
LEMMA VerdictRight ==
  ASSUME NEW k \in 1..Len(test_table)
  PROVE  Verdict(k).ok = Faithful(test_table[k]) /\ (Passes(k) <=> Faithful(test_table[k]))
<1>1. Passes(k) <=> Faithful(test_table[k])
  BY RunCase DEF Passes
<1>2. CASE Passes(k)
  <2>1. Verdict(k) = [ok |-> TRUE]
    BY <1>2 DEF Verdict
  <2>2. Verdict(k).ok = TRUE
    BY <2>1
  <2> QED BY <1>1, <1>2, <2>2, Zenon
<1>3. CASE ~Passes(k)
  <2>1. Verdict(k) = [ok |-> FALSE, got |-> 0, want |-> Expect(test_table[k])]
    BY <1>3 DEF Verdict
  <2>2. Verdict(k).ok = FALSE
    BY <2>1
  <2>3. Faithful(test_table[k]) \in BOOLEAN
    BY DEF Faithful
  <2> QED BY <1>1, <1>3, <2>2, <2>3, Zenon
<1> QED BY <1>1, <1>2, <1>3
-----------------------------------------------------------------------------
(* The picture *)

\* The bars drawn so far have the colours of their rows.
Colour(k) == IF Passes(k) THEN GREEN ELSE RED
Lit(k, p) == \A y \in BarLines(k - 1) : p[y] = Colour(k)
Painted(n, p) == DOMAIN p = 0..(H - 1) /\ \A k \in 1..n : Lit(k, p)

PictureInv ==
  program = "gfx" =>
    /\ at = "bars" => row \in 0..Len(test_table) /\ Painted(row, pixels)
    /\ at = "halt" => row \in 0..Len(test_table) /\ Painted(row, pixels)
    /\ at \notin {"bars", "halt"} => row = 0 /\ at \in {"boot", "start", "lost", "reset"}

\* A bar is on the picture and clear of the others.
LEMMA BarsApart ==
  /\ \A k \in 1..Len(test_table) : BarLines(k - 1) \subseteq 0..(H - 1)
  /\ \A j, k \in 1..Len(test_table) : j # k => BarLines(j - 1) \cap BarLines(k - 1) = {}
<1>1. Len(test_table) \in Nat /\ Len(test_table) * 16 + 14 <= H
  BY TestTable, BarsAssumption
<1> DEFINE m == Len(test_table)
<1> HIDE DEF m
<1>2. \A k \in 1..m : BarLines(k - 1) = (k * 16)..(k * 16 + 13)
  <2>1. \A n \in Int : (n - 1) * 16 + 16 = n * 16
    OBVIOUS
  <2> QED BY <1>1, <2>1 DEF BarLines, m
<1>3. \A k \in 1..m : BarLines(k - 1) \subseteq 0..(H - 1)
  <2>1. m \in Nat /\ m * 16 + 14 <= 200 /\ H = 200
    BY <1>1 DEF H, m
  <2>2. \A k \in 1..m : \A y \in (k * 16)..(k * 16 + 13) : y \in 0..199
    BY <2>1
  <2>3. 0..(H - 1) = 0..199
    BY <2>1
  <2> QED BY <1>2, <2>2, <2>3
<1>4. \A j, k \in 1..m : j # k => BarLines(j - 1) \cap BarLines(k - 1) = {}
  BY <1>1, <1>2 DEF m
<1> QED BY <1>3, <1>4 DEF m

\* A new bar leaves those before it.
LEMMA StepBar ==
  ASSUME MonTypeOK, PictureInv, Bar
  PROVE  PictureInv'
<1> SUFFICES ASSUME program = "gfx"
             PROVE  row' \in 0..Len(test_table) /\ Painted(row', pixels') /\ at' = "bars"
  BY DEF PictureInv, Bar
<1> DEFINE n == row + 1
           m == Len(test_table)
<1>1. /\ at = "bars" /\ at' = "bars" /\ row < m /\ row' = n
      /\ row \in Nat /\ m \in Nat /\ n \in 1..m
  <2>1. at = "bars" /\ at' = "bars" /\ row < Len(test_table) /\ row' = row + 1
    BY DEF Bar
  <2>2. row \in Nat /\ Len(test_table) \in Nat
    BY Typed, TestTable
  <2> QED BY <2>1, <2>2
<1>2. pixels' = [y \in DOMAIN pixels |-> IF y \in BarLines(row) THEN Colour(n) ELSE pixels[y]]
  BY Zenon DEF Bar, Colour, Passes
<1>3. Painted(row, pixels)
  BY <1>1 DEF PictureInv
<1>4. BarLines(row) = BarLines(n - 1)
  <2>1. n - 1 = row
    BY <1>1
  <2> QED BY <2>1
<1>5. DOMAIN pixels = 0..(H - 1) /\ DOMAIN pixels' = 0..(H - 1)
  BY <1>2, <1>3 DEF Painted
<1> HIDE DEF n
<1>6. Lit(n, pixels')
  <2>1. BarLines(n - 1) \subseteq 0..(H - 1)
    BY <1>1, BarsApart
  <2> QED BY <1>2, <1>4, <1>5, <2>1 DEF Lit
<1>7. ASSUME NEW k \in 1..row PROVE Lit(k, pixels')
  <2>1. k \in 1..m /\ k # n
    BY <1>1 DEF n
  <2>2. BarLines(k - 1) \subseteq 0..(H - 1) /\ BarLines(k - 1) \cap BarLines(n - 1) = {}
    BY <1>1, <2>1, BarsApart
  <2>3. Lit(k, pixels)
    BY <1>3 DEF Painted
  <2> QED BY <1>2, <1>4, <1>5, <2>2, <2>3 DEF Lit
<1>8. \A k \in 1..n : k = n \/ k \in 1..row
  BY <1>1 DEF n
<1>9. Painted(n, pixels')
  BY <1>5, <1>6, <1>7, <1>8 DEF Painted
<1> QED BY <1>1, <1>9

\* No step but a bar changes a picture that has been begun.
LEMMA StepPicture ==
  ASSUME MonTypeOK, PictureInv, MonNext
  PROVE  PictureInv'
<1>1. CASE Bar
  BY <1>1, StepBar
<1>2. CASE StartGfx
  <2>1. at' = "bars" /\ row' = 0 /\ Len(test_table) \in Nat
    BY <1>2, TestTable DEF StartGfx
  <2>2. pixels' = [y \in 0..(H - 1) |-> IF y < 8 THEN BLUE ELSE 0]
    BY <1>2 DEF StartGfx
  <2>3. Painted(0, pixels')
    BY <2>2 DEF Painted
  <2>4. row' \in 0..Len(test_table) /\ Painted(row', pixels')
    BY <2>1, <2>3
  <2> QED BY <2>1, <2>4 DEF PictureInv
<1>3. CASE ~(Bar \/ StartGfx)
  <2> SUFFICES ASSUME program' = "gfx"
               PROVE  /\ at' = "bars" => row' \in 0..Len(test_table) /\ Painted(row', pixels')
                      /\ at' = "halt" => row' \in 0..Len(test_table) /\ Painted(row', pixels')
                      /\ at' \notin {"bars", "halt"} =>
                           row' = 0 /\ at' \in {"boot", "start", "lost", "reset"}
    BY DEF PictureInv
  <2>1. program = "gfx"
    BY DEF MonNext, Boot, Start2, TypeChar, Backspace, LineDone, Prompt, CmdRegs, CmdText,
       CmdSet,
       RunWord, CmdTest, TestRow, TestDone, Start1, EchoKey, StartGfx, Bar, BarsDone, StartDemo,
       Sum1, PrintDigit
  <2>2. Boot \/ BarsDone
    BY <1>3, <2>1 DEF PictureInv, MonNext, Start2, TypeChar, Backspace, LineDone, Prompt,
       CmdRegs,
       CmdText, CmdSet, RunWord, CmdTest, TestRow, TestDone, Start1, EchoKey, StartDemo,
       Sum1, PrintDigit
  <2>3. CASE Boot
    <3>1. at = "boot" /\ row' = row /\ at' \in {"boot", "start", "lost", "reset"}
      BY <2>3, EnteredPlace DEF Boot
    <3> QED BY <2>1, <3>1 DEF PictureInv
  <2>4. CASE BarsDone
    <3>1. at = "bars" /\ at' = "halt" /\ row' = row /\ pixels' = pixels
      BY <2>4 DEF BarsDone, screen
    <3> QED BY <2>1, <3>1 DEF PictureInv
  <2> QED BY <2>2, <2>3, <2>4
<1> QED BY <1>1, <1>2, <1>3
-----------------------------------------------------------------------------
(* The demo *)

Total == (Count * (Count + 1)) \div 2
Nibble(k) == (Total \div 2^(4 * (Nibbles - k))) % 16
Printed == [k \in 1..Nibbles |-> HexChar(Nibble(k))]
\* rdx after n digits were printed
Rolled(n) == [k \in 1..Nibbles |-> Nibble(IF k + n <= Nibbles THEN k + n ELSE k + n - Nibbles)]

\* Halfway, what was added and what is still to be added make the sum.
DemoInv ==
  program = "demo" =>
    /\ at \in {"boot", "reset", "lost", "start", "sum", "print", "halt"}
    /\ at = "sum" => /\ shown = <<>>
                     /\ regs.rax \in Nat /\ regs.rbx \in Nat \ {0}
                     /\ 2 * regs.rax + regs.rbx * (regs.rbx + 1) = Count * (Count + 1)
    /\ at = "print" => /\ Len(shown) < Nibbles /\ Len(shown) \in Nat
                       /\ shown = First(Printed, Len(shown))
                       /\ "rdx" \in DOMAIN regs /\ regs.rdx = Rolled(Len(shown))
    /\ at = "halt" => shown = Printed

\* A power of two counts the subsets of an interval.
LEMMA PowerPositive ==
  ASSUME NEW n \in Nat
  PROVE  2^n \in Nat \ {0}
<1>1. IsFiniteSet(1..n) /\ Cardinality(1..n) = n
  BY FS_Interval
<1>2. IsFiniteSet(SUBSET (1..n)) /\ Cardinality(SUBSET (1..n)) = 2^n
  BY <1>1, FS_SUBSET
<1>3. SUBSET (1..n) # {}
  OBVIOUS
<1> QED BY <1>2, <1>3, FS_CardinalityType, FS_EmptySet

\* The digits of the sum are digits.
LEMMA NibbleType == \A k \in 1..Nibbles : Nibble(k) \in 0..15
<1> SUFFICES ASSUME NEW k \in 1..Nibbles PROVE Nibble(k) \in 0..15
  OBVIOUS
<1>1. Nibbles \in Nat /\ Count \in Nat
  BY MonitorAssumption
<1>2. Total \in Nat
  <2>1. \A n \in Nat : (n * (n + 1)) \div 2 \in Nat
    OBVIOUS
  <2> QED BY <1>1, <2>1 DEF Total
<1>3. 4 * (Nibbles - k) \in Nat
  BY <1>1
<1>4. 2^(4 * (Nibbles - k)) \in Nat \ {0}
  BY <1>3, PowerPositive
<1>5. \A a \in Nat : \A b \in Nat \ {0} : (a \div b) % 16 \in 0..15
  OBVIOUS
<1> DEFINE p == 2^(4 * (Nibbles - k))
<1> HIDE DEF p
<1>6. (Total \div p) % 16 \in 0..15
  BY <1>2, <1>4, <1>5 DEF p
<1> QED BY <1>6 DEF Nibble, p

\* What the demo adds up to.
LEMMA TotalIs ==
  ASSUME NEW n \in Nat, 2 * n = Count * (Count + 1)
  PROVE  n = Total
BY DEF Total

\* One more number added.
LEMMA StepSum ==
  ASSUME DemoInv, Sum1
  PROVE  DemoInv'
<1> SUFFICES ASSUME program = "demo" PROVE DemoInv'
  BY DEF DemoInv, Sum1
<1> DEFINE a == regs.rax
           b == regs.rbx
<1>1. /\ shown = <<>> /\ a \in Nat /\ b \in Nat \ {0}
      /\ 2 * a + b * (b + 1) = Count * (Count + 1)
  BY DEF DemoInv, Sum1
<1>2. /\ regs' = [rax |-> a + b, rbx |-> b - 1, rdx |-> NibblesOf(a + b)]
      /\ at' = (IF b - 1 # 0 THEN "sum" ELSE "print")
      /\ shown' = <<>> /\ program' = program
  BY <1>1 DEF Sum1, screen
<1>3. regs'.rax = a + b /\ regs'.rbx = b - 1 /\ regs'.rdx = NibblesOf(a + b) /\ "rdx" \in DOMAIN regs'
  BY <1>2
<1> HIDE DEF a, b
<1>4. a + b \in Nat /\ 2 * (a + b) + (b - 1) * (b - 1 + 1) = Count * (Count + 1)
  <2>1. \A m, n \in Nat : 2 * (m + n) + (n - 1) * (n - 1 + 1) = 2 * m + n * (n + 1)
    OBVIOUS
  <2> QED BY <1>1, <2>1
<1>5. CASE b - 1 # 0
  <2>1. b - 1 \in Nat \ {0}
    BY <1>1, <1>5
  <2> QED BY <1>2, <1>3, <1>4, <1>5, <2>1 DEF DemoInv
<1>6. CASE b - 1 = 0
  <2>1. a + b = Total
    <3>1. 2 * (a + b) = Count * (Count + 1)
      BY <1>1, <1>4, <1>6
    <3> QED BY <1>4, <3>1, TotalIs
  <2>2. NibblesOf(Total) = Rolled(0)
    <3>1. Nibbles \in Nat /\ \A k \in 1..Nibbles : k + 0 <= Nibbles /\ k + 0 = k
      BY MonitorAssumption
    <3> QED BY <3>1 DEF NibblesOf, Rolled, Nibble
  <2>3. Len(shown') = 0 /\ 0 < Nibbles /\ shown' = First(Printed, 0)
    <3>1. First(Printed, 0) = <<>>
      BY DEF First
    <3> QED BY <1>2, <3>1, MonitorAssumption
  <2>4. at' = "print"
    BY <1>2, <1>6
  <2> QED BY <1>2, <1>3, <2>1, <2>2, <2>3, <2>4 DEF DemoInv
<1> QED BY <1>5, <1>6

\* rol rdx, 4 brings the next digit to the bottom.
LEMMA RolledOn ==
  ASSUME NEW n \in Nat, n < Nibbles
  PROVE  LET r == Rolled(n)
             rolled == Tail(r) \o <<Head(r)>>
         IN  rolled = Rolled(n + 1) /\ Last(rolled) = Nibble(n + 1)
<1> DEFINE w == Nibbles
           T == 0..15
           r == Rolled(n)
           t == Rolled(n + 1)
           h == <<Head(r)>>
           q == Tail(r)
<1>1. w \in Nat \ {0}
  BY MonitorAssumption
<1>2. /\ \A k \in 1..w : (IF k + n <= w THEN k + n ELSE k + n - w) \in 1..w
      /\ \A k \in 1..w : (IF k + (n + 1) <= w THEN k + (n + 1) ELSE k + (n + 1) - w) \in 1..w
  BY <1>1
<1>3. /\ r \in Seq(T) /\ Len(r) = w
      /\ \A k \in 1..w : r[k] = Nibble(IF k + n <= w THEN k + n ELSE k + n - w)
  BY <1>1, <1>2, NibbleType DEF Rolled
<1>4. /\ t \in Seq(T) /\ Len(t) = w
      /\ \A k \in 1..w : t[k] = Nibble(IF k + (n + 1) <= w THEN k + (n + 1) ELSE k + (n + 1) - w)
  BY <1>1, <1>2, NibbleType DEF Rolled
<1> HIDE DEF r, t
<1>5. Head(r) = r[1] /\ r[1] = Nibble(n + 1) /\ r # <<>>
  <2>1. 1 + n = n + 1 /\ 1 + n <= w /\ 1 \in 1..w
    BY <1>1
  <2> QED BY <1>1, <1>3, <2>1
<1>6. /\ q \in Seq(T) /\ Len(q) = w - 1
      /\ \A k \in 1..(w - 1) : q[k] = r[k + 1]
  BY <1>1, <1>3, <1>5, HeadTailProperties
<1>7. h \in Seq(T) /\ Len(h) = 1 /\ h[1] = Nibble(n + 1)
  <2>1. Nibble(n + 1) \in T
    BY <1>1, NibbleType
  <2> QED BY <1>5, <2>1
<1> HIDE DEF q, h, T
<1> DEFINE s == q \o h
<1>8. /\ s \in Seq(T) /\ Len(s) = Len(q) + Len(h)
      /\ \A k \in 1..Len(s) : s[k] = IF k <= Len(q) THEN q[k] ELSE h[k - Len(q)]
  <2>1. /\ q \o h \in Seq(T) /\ Len(q \o h) = Len(q) + Len(h)
        /\ \A k \in 1..(Len(q) + Len(h)) :
             (q \o h)[k] = IF k <= Len(q) THEN q[k] ELSE h[k - Len(q)]
    BY <1>6, <1>7, ConcatProperties
  <2> QED BY <2>1
<1> HIDE DEF s
<1>9. Len(s) = w /\ \A k \in 1..w : s[k] = IF k <= w - 1 THEN r[k + 1] ELSE Nibble(n + 1)
  <2>1. Len(s) = w
    BY <1>1, <1>6, <1>7, <1>8
  <2>2. ASSUME NEW k \in 1..w PROVE s[k] = IF k <= w - 1 THEN r[k + 1] ELSE Nibble(n + 1)
    <3>1. CASE k <= w - 1
      <4>1. k \in 1..(w - 1)
        BY <1>1, <3>1
      <4> QED BY <1>6, <1>8, <2>1, <3>1, <4>1
    <3>2. CASE ~(k <= w - 1)
      <4>1. k - (w - 1) = 1
        BY <1>1, <3>2
      <4> QED BY <1>6, <1>7, <1>8, <2>1, <3>2, <4>1
    <3> QED BY <3>1, <3>2
  <2> QED BY <2>1, <2>2
<1>10. ASSUME NEW k \in 1..w PROVE s[k] = t[k]
  <2>1. CASE k <= w - 1
    <3>1. k + 1 \in 1..w /\ k + 1 + n = k + (n + 1)
      BY <1>1, <2>1
    <3>2. r[k + 1] = Nibble(IF k + (n + 1) <= w THEN k + (n + 1) ELSE k + (n + 1) - w)
      <4>1. r[k + 1] = Nibble(IF k + 1 + n <= w THEN k + 1 + n ELSE k + 1 + n - w)
        BY <1>3, <3>1
      <4>2. (IF k + 1 + n <= w THEN k + 1 + n ELSE k + 1 + n - w)
              = (IF k + (n + 1) <= w THEN k + (n + 1) ELSE k + (n + 1) - w)
        <5>1. \A a, b, c \in Int : (IF a + 1 + b <= c THEN a + 1 + b ELSE a + 1 + b - c)
                = (IF a + (b + 1) <= c THEN a + (b + 1) ELSE a + (b + 1) - c)
          OBVIOUS
        <5>2. k \in Int /\ n \in Int /\ w \in Int
          BY <1>1
        <5> HIDE DEF w
        <5> QED BY <5>1, <5>2
      <4> QED BY <4>1, <4>2
    <3> QED BY <1>4, <1>9, <2>1, <3>2
  <2>2. CASE ~(k <= w - 1)
    <3>1. ~(k + (n + 1) <= w) /\ k + (n + 1) - w = n + 1
      BY <1>1, <2>2
    <3> QED BY <1>4, <1>9, <2>2, <3>1
  <2> QED BY <2>1, <2>2
<1>11. s = t
  BY <1>4, <1>8, <1>9, <1>10, SeqEqual
<1>12. Last(s) = Nibble(n + 1)
  <2>1. Last(s) = s[w] /\ w \in 1..w /\ ~(w <= w - 1)
    BY <1>1, <1>9 DEF Last
  <2> QED BY <1>9, <2>1
<1> QED BY <1>11, <1>12 DEF s, q, h, r, t

\* Another digit printed.
LEMMA StepDigit ==
  ASSUME DemoInv, PrintDigit
  PROVE  DemoInv'
<1> SUFFICES ASSUME program = "demo" PROVE DemoInv'
  BY DEF DemoInv, PrintDigit
<1> DEFINE n == Len(shown)
           rolled == Tail(regs.rdx) \o <<Head(regs.rdx)>>
<1>1. /\ n \in Nat /\ n < Nibbles /\ shown = First(Printed, n)
      /\ "rdx" \in DOMAIN regs /\ regs.rdx = Rolled(n)
      /\ Nibbles \in Nat
  BY MonitorAssumption DEF DemoInv, PrintDigit
<1>2. /\ regs' = [regs EXCEPT !.rdx = rolled] /\ shown' = Append(shown, HexChar(Last(rolled)))
      /\ at' = (IF n + 1 = Nibbles THEN "halt" ELSE "print") /\ program' = program
  BY DEF PrintDigit
<1> HIDE DEF n
<1>3. rolled = Rolled(n + 1) /\ Last(rolled) = Nibble(n + 1)
  BY <1>1, RolledOn
<1> HIDE DEF rolled
<1>4. "rdx" \in DOMAIN regs' /\ regs'.rdx = Rolled(n + 1)
  BY <1>1, <1>2, <1>3
<1>5. Printed[n + 1] = HexChar(Nibble(n + 1)) /\ DOMAIN Printed = 1..Nibbles
  BY <1>1 DEF Printed
<1>6. shown' = First(Printed, n + 1)
  BY <1>1, <1>2, <1>3, <1>5, FirstGrows
<1>7. CASE n + 1 = Nibbles
  <2>1. First(Printed, n + 1) = Printed
    BY <1>7 DEF First, Printed
  <2> QED BY <1>2, <1>6, <1>7, <2>1 DEF DemoInv
<1>8. CASE n + 1 # Nibbles
  <2>1. Len(shown') = n + 1 /\ n + 1 < Nibbles /\ n + 1 \in Nat
    BY <1>1, <1>6, <1>8 DEF First
  <2> QED BY <1>2, <1>4, <1>6, <1>8, <2>1 DEF DemoInv
<1> QED BY <1>7, <1>8

\* The demo begins with nothing added.
LEMMA StepStart ==
  ASSUME DemoInv, StartDemo
  PROVE  DemoInv'
<1>1. /\ regs' = [rax |-> 0, rbx |-> Count, rdx |-> <<>>]
      /\ at' = "sum" /\ shown' = <<>> /\ program' = program
  BY DEF StartDemo
<1>2. regs'.rax = 0 /\ regs'.rbx = Count
  BY <1>1
<1>3. Count \in Nat \ {0} /\ 2 * 0 + Count * (Count + 1) = Count * (Count + 1)
  <2>1. \A n \in Nat : 2 * 0 + n * (n + 1) = n * (n + 1)
    OBVIOUS
  <2> QED BY <2>1, MonitorAssumption
<1> QED BY <1>1, <1>2, <1>3 DEF DemoInv

\* The steps of the demo are these and the boot.
LEMMA StepDemo ==
  ASSUME DemoInv, MonNext
  PROVE  DemoInv'
<1>1. CASE Sum1
  BY <1>1, StepSum
<1>2. CASE PrintDigit
  BY <1>2, StepDigit
<1>3. CASE StartDemo
  BY <1>3, StepStart
<1>4. CASE ~(Sum1 \/ PrintDigit \/ StartDemo)
  <2> SUFFICES ASSUME program' = "demo" PROVE DemoInv'
    BY DEF DemoInv
  <2>1. program = "demo"
    BY DEF MonNext, Boot, Start2, TypeChar, Backspace, LineDone, Prompt, CmdRegs, CmdText,
       CmdSet,
       RunWord, CmdTest, TestRow, TestDone, Start1, EchoKey, StartGfx, Bar, BarsDone, StartDemo,
       Sum1, PrintDigit
  <2>2. Boot
    BY <1>4, <2>1 DEF DemoInv, MonNext, Start2, TypeChar, Backspace, LineDone, Prompt, CmdRegs,
       CmdText, CmdSet, RunWord, CmdTest, TestRow, TestDone, Start1, EchoKey, StartGfx, Bar,
       BarsDone
  <2>3. at' \in {"boot", "start", "lost", "reset"}
    BY <2>2, EnteredPlace DEF Boot
  <2> QED BY <2>1, <2>3 DEF DemoInv
<1> QED BY <1>1, <1>2, <1>3, <1>4

\* emit_print_char: 48 more, and 7 more past 9.
LEMMA HexDigits == \A d \in 0..15 : HexChar(d) = Digits[d + 1]
<1> SUFFICES ASSUME NEW d \in 0..15 PROVE HexChar(d) = Digits[d + 1]
  OBVIOUS
<1>1. CASE d <= 7
  BY <1>1 DEF HexChar, Digits
<1>2. CASE d > 7
  BY <1>2 DEF HexChar, Digits
<1> QED BY <1>1, <1>2

\* The reports of the three programs that judge or print: t says ok and a bar
\* is green for exactly the translations that agree with the interpreter on
\* their case, no bar hides another, and the demo prints its sum in hex.
THEOREM ReportsCorrect == MonSpec => []Reports
<1> DEFINE Reporting == RowsInv /\ PictureInv /\ DemoInv
<1>1. MonInit => Reporting
  BY DEF MonInit, RowsInv, PictureInv, DemoInv
<1>2. MonTypeOK /\ Reporting /\ [MonNext]_Monvars => Reporting'
  <2>1. MonTypeOK /\ Reporting /\ MonNext => Reporting'
    BY StepRows, StepPicture, StepDemo
  <2>2. Reporting /\ UNCHANGED Monvars => Reporting'
    BY DEF RowsInv, PictureInv, DemoInv, Monvars
  <2> QED BY <2>1, <2>2
<1>3. MonTypeOK /\ Reporting => Reports
  <2> SUFFICES ASSUME MonTypeOK, Reporting PROVE Reports
    OBVIOUS
  <2>1. ASSUME at = "test", NEW k \in 1..row PROVE shown[k].ok = Faithful(test_table[k])
    <3>1. row \in 0..Len(test_table) /\ Len(test_table) \in Nat /\ shown = First(Verdicts, row)
      BY <2>1, TestTable DEF RowsInv
    <3>2. k \in 1..Len(test_table)
      BY <3>1
    <3>3. shown[k] = Verdict(k)
      BY <3>1, <3>2 DEF First, Verdicts
    <3> QED BY <3>2, <3>3, VerdictRight, Zenon
  <2>2. ASSUME program = "gfx", NEW k \in 1..row, NEW y \in BarLines(k - 1)
        PROVE  pixels[y] = IF Faithful(test_table[k]) THEN GREEN ELSE RED
    <3>1. row \in 0..Len(test_table) /\ Len(test_table) \in Nat /\ Painted(row, pixels)
      <4>1. Len(test_table) \in Nat /\ row \in Nat
        BY Typed, TestTable
      <4>2. at \in {"bars", "halt"}
        BY <2>2, <4>1 DEF PictureInv
      <4> QED BY <2>2, <4>1, <4>2 DEF PictureInv
    <3>2. k \in 1..Len(test_table)
      BY <3>1
    <3>3. pixels[y] = Colour(k)
      BY <3>1 DEF Painted, Lit
    <3> QED BY <3>2, <3>3, VerdictRight DEF Colour
  <2>3. ASSUME program = "demo", at = "halt"
        PROVE  shown = [k \in 1..Nibbles |->
                 Digits[((((Count * (Count + 1)) \div 2) \div 2^(4 * (Nibbles - k))) % 16) + 1]]
    <3>1. shown = [k \in 1..Nibbles |-> HexChar(Nibble(k))]
      BY <2>3 DEF DemoInv, Printed
    <3>2. \A k \in 1..Nibbles : HexChar(Nibble(k)) = Digits[Nibble(k) + 1]
      BY HexDigits, NibbleType
    <3>3. shown = [k \in 1..Nibbles |-> Digits[Nibble(k) + 1]]
      BY <3>1, <3>2
    <3> QED BY <3>3 DEF Nibble, Total
  <2> QED BY <2>1, <2>2, <2>3, Zenon DEF Reports
<1> HIDE DEF Reporting
<1> QED BY <1>1, <1>2, <1>3, MonitorTypes, PTL DEF MonSpec
=============================================================================
