------------------------- MODULE TextPatches_proofs -------------------------
(***************************************************************************)
(* The tools that rewrite the text, for every kernel that has the words    *)
(* they rely on and every sequence of tools.                               *)
(*                                                                         *)
(* The padding: IInv says that each stub lies in padding of the kernel     *)
(* nobody had patched, and no two share a word.                            *)
(*                                                                         *)
(* The behaviour: KeptInv says that each word somebody runs is at its      *)
(* address still, or is run in a stub instead, and BootInv what is left of *)
(* the routine that makes hypercalls.  From either to what a run does is a *)
(* simulation: a step of the kernel nobody had patched is, in the patched  *)
(* one, at most as many steps as the toll of its word, between states      *)
(* that differ in nothing but the return addresses inside the stubs.       *)
(***************************************************************************)
EXTENDS TextPatches, WellFoundedInduction, TLAPS

\* A set of numbers that is not empty has a smallest one.
LEMMA Smallest ==
  ASSUME NEW S \in SUBSET Nat, S # {}
  PROVE  \E a \in S : \A b \in S : a <= b
<1> DEFINE R == {p \in Nat \X Nat : p[1] < p[2]}
<1>1. IsWellFoundedOn(R, Nat)
  BY NatLessThanWellFounded DEF OpToRel
<1>2. \A a, b \in Nat : b < a => <<b, a>> \in R
  OBVIOUS
<1> HIDE DEF R
<1>3. PICK a \in S : \A b \in S : <<b, a>> \notin R
  BY <1>1, WFMin
<1>4. \A b \in S : ~(b < a)
  BY <1>2, <1>3
<1> QED BY <1>4

-----------------------------------------------------------------------------
(* Runs *)

\* A set with 0 and with every successor of a member has every number.
LEMMA Counting ==
  ASSUME NEW S, 0 \in S, \A n \in Nat : n \in S => n + 1 \in S
  PROVE  Nat \subseteq S
<1> DEFINE T == Nat \ S
<1>1. ASSUME T # {} PROVE FALSE
  <2>1. T \in SUBSET Nat /\ T # {}
    BY <1>1
  <2> HIDE DEF T
  <2>2. PICK x \in T : \A y \in T : x <= y
    BY <2>1, Smallest
  <2> USE DEF T
  <2>3. x - 1 \in Nat /\ ~(x <= x - 1) /\ x - 1 + 1 = x
    BY <2>2
  <2> QED BY <2>2, <2>3
<1> QED BY <1>1

\* The states of a run: each is one step of the processor after the one before.
LEMMA StepsOf ==
  ASSUME NEW img, NEW s0, NEW n \in Nat
  PROVE  /\ Steps(img, s0, n)[0] = s0
         /\ \A k \in 0..(n - 1) : Steps(img, s0, n)[k + 1] = Step(img, Steps(img, s0, n)[k])
<1> DEFINE Is(f, m) == f = [k \in 0..m |-> IF k = 0 THEN s0 ELSE Step(img, f[k - 1])]
           S == {m \in Nat : \E f : Is(f, m)}
<1>1. 0 \in S
  <2>1. Is([k \in 0..0 |-> s0], 0)
    OBVIOUS
  <2> QED BY <2>1
<1>2. ASSUME NEW m \in Nat, m \in S PROVE m + 1 \in S
  <2>1. PICK f : Is(f, m)
    BY <1>2
  <2> DEFINE g == [k \in 0..(m + 1) |-> IF k = m + 1 THEN Step(img, f[m]) ELSE f[k]]
  <2>2. \A k \in 0..(m + 1) : g[k] = IF k = 0 THEN s0 ELSE Step(img, g[k - 1])
    <3>1. g[0] = s0
      BY <2>1
    <3>2. ASSUME NEW k \in 1..(m + 1) PROVE g[k] = Step(img, g[k - 1])
      <4>1. k - 1 \in 0..m /\ k - 1 # m + 1 /\ g[k - 1] = f[k - 1]
        OBVIOUS
      <4>2. CASE k = m + 1
        BY <4>1, <4>2
      <4>3. CASE k # m + 1
        BY <4>1, <4>3, <2>1
      <4> QED BY <4>2, <4>3
    <3>3. \A k \in 0..(m + 1) : k # 0 => k \in 1..(m + 1)
      OBVIOUS
    <3> HIDE DEF g
    <3> QED BY <3>1, <3>2, <3>3
  <2>3. g = [k \in 0..(m + 1) |-> g[k]]
    OBVIOUS
  <2> HIDE DEF g
  <2>4. Is(g, m + 1)
    BY <2>2, <2>3
  <2> QED BY <2>4
<1> HIDE DEF S
<1>3. n \in S
  BY <1>1, <1>2, Counting
<1> USE DEF S
<1>4. Steps(img, s0, n) = CHOOSE f : Is(f, n)
  BY DEF Steps
<1>5. Is(Steps(img, s0, n), n)
  BY <1>3, <1>4
<1> HIDE DEF S
<1> DEFINE A == Steps(img, s0, n)
<1> HIDE DEF A
<1>6. A = [k \in 0..n |-> IF k = 0 THEN s0 ELSE Step(img, A[k - 1])]
  BY <1>5 DEF A
<1>7. ASSUME NEW k \in 0..(n - 1) PROVE A[k + 1] = Step(img, A[k])
  <2>1. k + 1 \in 0..n /\ k + 1 # 0 /\ k + 1 - 1 = k
    OBVIOUS
  <2> QED BY <1>6, <2>1
<1>8. A[0] = s0
  BY <1>6
<1> QED BY <1>7, <1>8 DEF A

\* B[m] is a state, and B goes on as the processor does for n steps.
Runs(img, B, m, n) == \A k \in m..(m + n - 1) : B[k + 1] = Step(img, B[k])

\* A run that has stopped stays as it is.
LEMMA Stopped ==
  ASSUME NEW img, NEW B, NEW n \in Nat, Runs(img, B, 0, n),
         NEW m \in 0..n, B[m].stop # "no"
  PROVE  B[n] = B[m]
<1> DEFINE S == {k \in Nat : m + k <= n => B[m + k] = B[m]}
<1>1. 0 \in S
  OBVIOUS
<1>2. ASSUME NEW k \in Nat, k \in S PROVE k + 1 \in S
  <2> SUFFICES ASSUME m + (k + 1) <= n PROVE B[m + (k + 1)] = B[m]
    OBVIOUS
  <2>1. m + k \in 0..(n - 1) /\ m + (k + 1) = (m + k) + 1 /\ m + k <= n
    OBVIOUS
  <2>2. B[m + k] = B[m]
    BY <1>2, <2>1
  <2>3. B[(m + k) + 1] = Step(img, B[m])
    <3>1. m + k \in 0..(0 + n - 1)
      BY <2>1
    <3>2. B[(m + k) + 1] = Step(img, B[m + k])
      BY <3>1 DEF Runs
    <3> QED BY <2>2, <3>2
  <2> QED BY <2>1, <2>3 DEF Step
<1> HIDE DEF S
<1>3. n - m \in S
  BY <1>1, <1>2, Counting
<1> USE DEF S
<1>4. m + (n - m) = n /\ m + (n - m) <= n
  OBVIOUS
<1> QED BY <1>3, <1>4

-----------------------------------------------------------------------------
(* One word at two addresses *)

\* A state of the processor, and the state with another place in the text and
\* other returns.
IsState(s) ==
  s = [pc |-> s.pc, x0 |-> s.x0, end |-> s.end, lr |-> s.lr, frames |-> s.frames,
       char |-> s.char, full |-> s.full, left |-> s.left, busy |-> s.busy,
       events |-> s.events, stop |-> s.stop]
With(s, p, l, f) ==
  [pc |-> p, x0 |-> s.x0, end |-> s.end, lr |-> l, frames |-> f,
   char |-> s.char, full |-> s.full, left |-> s.left, busy |-> s.busy,
   events |-> s.events, stop |-> s.stop]

\* The words that do something and go on to the next.
Working == {"work", "str_x0", "mov_x0", "nop", "save", "record", "uart_address", "adrp_x0",
            "ldrb_x0", "ldr_fr", "str_dr"}

\* The fields of such a state.
LEMMA WithFields ==
  ASSUME NEW s, NEW p, NEW l, NEW f
  PROVE  /\ With(s, p, l, f).pc = p /\ With(s, p, l, f).x0 = s.x0
         /\ With(s, p, l, f).lr = l /\ With(s, p, l, f).frames = f
         /\ With(s, p, l, f).stop = s.stop /\ With(s, p, l, f).events = s.events
         /\ IsState(With(s, p, l, f))
         /\ \A q, m, g : With(With(s, p, l, f), q, m, g) = With(s, q, m, g)
         /\ IsState(s) => s = With(s, s.pc, s.lr, s.frames)
BY DEF With, IsState

\* A word of Working does the same at every address, and leaves the returns.
LEMMA Works ==
  ASSUME NEW s, IsState(s), NEW w, w.op \in Working, NEW p, NEW l, NEW f
  PROVE  /\ IsState(Exec(s, w)) /\ Exec(s, w).stop = s.stop
         /\ Exec(s, w) = With(Exec(s, w), s.pc + 1, s.lr, s.frames)
         /\ Exec(With(s, p, l, f), w) = With(Exec(s, w), p + 1, l, f)
<1>1. CASE w.op = "work"
  BY <1>1 DEF Exec, Going, Did, With, IsState
<1>2. CASE w.op \in {"str_x0", "mov_x0"}
  BY <1>2 DEF Exec, Going, Did, With, IsState
<1>3. CASE w.op \in {"nop", "save", "record", "uart_address"}
  BY <1>3 DEF Exec, Going, Did, With, IsState
<1>4. CASE w.op = "adrp_x0"
  BY <1>4 DEF Exec, Going, Did, With, IsState
<1>5. CASE w.op = "ldrb_x0"
  BY <1>5 DEF Exec, Going, Did, With, IsState
<1>6. CASE w.op = "ldr_fr"
  BY <1>6 DEF Exec, Going, Did, With, IsState
<1>7. CASE w.op = "str_dr"
  BY <1>7 DEF Exec, Going, Did, With, IsState
<1> QED BY <1>1, <1>2, <1>3, <1>4, <1>5, <1>6, <1>7 DEF Working

\* A return address, and whether it carries a signature.
Link == [to : Int, signed : BOOLEAN]

\* The branch at q goes to r.
Bridge(img, q, r) ==
  /\ q \in 1..Len(img) /\ r \in Int \ {Exit, q}
  /\ img[q] = To("b", q, r)

\* The link b returns where a does, or to a branch there.
Similar(img, a, b) ==
  /\ a \in Link /\ b \in Link /\ a.signed = b.signed
  /\ a.to = b.to \/ Bridge(img, b.to, a.to)

\* The returns of a state, in the link register and on the stack, and those of
\* the run in the image.
Links(img, s, l, f) ==
  /\ Similar(img, s.lr, l)
  /\ s.frames \in Seq(Link) /\ f \in Seq(Link) /\ Len(f) = Len(s.frames)
  /\ \A i \in 1..Len(f) : Similar(img, s.frames[i], f[i])

\* A load does the same at every address, through a pointer that is valid.
LEMMA Loads ==
  ASSUME NEW s, IsState(s), NEW w, w.op = "load", Exec(s, w).stop \in {"no", "returned"},
         NEW p, NEW l, NEW f
  PROVE  /\ IsState(Exec(s, w)) /\ Exec(s, w).stop = s.stop
         /\ Exec(s, w) = With(Exec(s, w), s.pc + 1, s.lr, s.frames)
         /\ Exec(With(s, p, l, f), w) = With(Exec(s, w), p + 1, l, f)
<1>1. CASE s.x0 = Null
  BY <1>1 DEF Exec, Going, Did, With, IsState
<1>2. CASE s.x0 # Null
  BY <1>2 DEF Exec, Going, Did, With, IsState
<1> QED BY <1>1, <1>2

\* A word that uses its own address does the same for other returns.
LEMMA Jumps ==
  ASSUME NEW s, IsState(s), NEW w, w.op \in {"adr", "b", "cbz", "cbz_char", "tbnz_full"},
         NEW l, NEW f
  PROVE  /\ IsState(Exec(s, w)) /\ Exec(s, w).lr = s.lr /\ Exec(s, w).frames = s.frames
         /\ Exec(With(s, s.pc, l, f), w) = With(Exec(s, w), Exec(s, w).pc, l, f)
<1>1. CASE w.op = "adr"
  BY <1>1 DEF Exec, Going, Did, With, IsState
<1>2. CASE w.op = "b"
  BY <1>2 DEF Exec, Going, Goto, With, IsState
<1>3. CASE w.op = "cbz"
  BY <1>3 DEF Exec, Going, Goto, With, IsState
<1>4. CASE w.op = "cbz_char"
  BY <1>4 DEF Exec, Going, Goto, With, IsState
<1>5. CASE w.op = "tbnz_full"
  BY <1>5 DEF Exec, Going, Goto, With, IsState
<1> QED BY <1>1, <1>2, <1>3, <1>4, <1>5

\* A call sets the link to the word after it, and leaves the frames.
LEMMA Calling ==
  ASSUME NEW s, IsState(s), NEW w, w.op = "bl", NEW p, NEW l, NEW f
  PROVE  /\ IsState(Exec(s, w)) /\ Exec(s, w).frames = s.frames
         /\ Exec(s, w).lr = [to |-> s.pc + 1, signed |-> FALSE]
         /\ w.d # 0 => Exec(s, w).pc = s.pc + w.d /\ Exec(s, w).stop = s.stop
         /\ w.d = 0 => Exec(s, w).stop = "spins"
         /\ Exec(With(s, s.pc, l, f), w) =
              With(Exec(s, w), Exec(s, w).pc, [to |-> s.pc + 1, signed |-> FALSE], f)
BY DEF Exec, Goto, With, IsState

\* The prologue signs the link, whatever it is.
LEMMA Signs ==
  ASSUME NEW s, IsState(s), NEW w, w.op = "pacibsp", NEW p, NEW l, NEW f
  PROVE  /\ IsState(Exec(s, w)) /\ Exec(s, w).stop = s.stop
         /\ Exec(s, w) = With(Exec(s, w), s.pc + 1, [s.lr EXCEPT !.signed = TRUE], s.frames)
         /\ Exec(With(s, p, l, f), w) =
              With(Exec(s, w), p + 1, [l EXCEPT !.signed = TRUE], f)
BY DEF Exec, Going, With, IsState

\* The prologue saves the link in a frame.
LEMMA Pushes ==
  ASSUME NEW s, IsState(s), NEW w, w.op = "stp_frame", NEW p, NEW l, NEW f
  PROVE  /\ IsState(Exec(s, w)) /\ Exec(s, w).stop = s.stop
         /\ Exec(s, w) = With(Exec(s, w), s.pc + 1, s.lr, Append(s.frames, s.lr))
         /\ Exec(With(s, p, l, f), w) = With(Exec(s, w), p + 1, l, Append(f, l))
BY DEF Exec, Going, With, IsState

\* The frame on top, and those below it.
Last(f) == f[Len(f)]
Popped(f) == SubSeq(f, 1, Len(f) - 1)

\* The epilogue takes the link from the frame on top.
LEMMA Pops ==
  ASSUME NEW s, IsState(s), NEW w, w.op = "ldp_frame", NEW p, NEW l, NEW f,
         s.frames # <<>>, f # <<>>
  PROVE  /\ IsState(Exec(s, w)) /\ Exec(s, w).stop = s.stop
         /\ Exec(s, w) = With(Exec(s, w), s.pc + 1, Last(s.frames), Popped(s.frames))
         /\ Exec(With(s, p, l, f), w) = With(Exec(s, w), p + 1, Last(f), Popped(f))
BY DEF Exec, Going, With, IsState, Last, Popped

\* Without a frame the epilogue is a mistake the run stops at.
LEMMA PopsNothing ==
  ASSUME NEW s, IsState(s), NEW w, w.op = "ldp_frame", s.frames = <<>>
  PROVE  Exec(s, w).stop = "undefined"
BY DEF Exec, IsState

\* The link a return uses.
Used(w, l) == IF w.op = "ret" THEN l ELSE [l EXCEPT !.signed = ~@]

\* A return, with the link it uses.
LEMMA Returns ==
  ASSUME NEW s, IsState(s), NEW w, w.op \in {"ret", "retab"}
  PROVE  /\ Exec(s, w) = Return(s, Used(w, s.lr))
         /\ \A p, l, f : Exec(With(s, p, l, f), w) = Return(With(s, p, l, f), Used(w, l))
<1>1. \A z : Exec(z, w) = Return(z, Used(w, z.lr))
  <2>1. CASE w.op = "ret"
    BY <2>1 DEF Exec, Used
  <2>2. CASE w.op = "retab"
    BY <2>2 DEF Exec, Used
  <2> QED BY <2>1, <2>2
<1>2. \A p, l, f : With(s, p, l, f).lr = l
  BY WithFields
<1> QED BY <1>1, <1>2

\* Where a return leads: nowhere with a signed link, and out of the routine
\* only when the frames are gone.
LEMMA ReturnsTo ==
  ASSUME NEW s, IsState(s), NEW l
  PROVE  /\ IsState(Return(s, l))
         /\ Return(s, l).lr = s.lr /\ Return(s, l).frames = s.frames
         /\ l.signed = TRUE => Return(s, l) = [s EXCEPT !.stop = "bad return"]
         /\ l.signed = FALSE /\ l.to # Exit => Return(s, l) = [s EXCEPT !.pc = l.to]
         /\ l.signed = FALSE /\ l.to = Exit =>
              Return(s, l) = [s EXCEPT !.stop = IF s.frames = <<>> THEN "returned" ELSE "lost frame"]
BY DEF Return, IsState

\* Falls, jumps or returns: where the same word leads from two addresses.
Leads(img, s, q, s2, r) ==
  \/ s2.pc = s.pc + 1 /\ r = q + 1
  \/ r = s2.pc
  \/ Bridge(img, r, s2.pc)

\* Returns that are similar stay so when a frame is popped.
LEMMA SimilarPops ==
  ASSUME NEW img, NEW s, NEW l, NEW f, Links(img, s, l, f), s.frames # <<>>
  PROVE  /\ f # <<>> /\ Similar(img, Last(s.frames), Last(f))
         /\ Popped(s.frames) \in Seq(Link) /\ Popped(f) \in Seq(Link)
         /\ Len(Popped(f)) = Len(Popped(s.frames))
         /\ \A i \in 1..Len(Popped(f)) : Similar(img, Popped(s.frames)[i], Popped(f)[i])
<1> DEFINE a == s.frames
           n == Len(f)
<1>1. a \in Seq(Link) /\ f \in Seq(Link) /\ Len(a) = n /\ n \in Nat
      /\ \A i \in 1..n : Similar(img, a[i], f[i])
  BY DEF Links
<1> HIDE DEF a
<1>2. a # <<>>
  BY DEF a
<1>3. n > 0 /\ n \in 1..n /\ n - 1 \in Nat /\ n - 1 <= n
  BY <1>1, <1>2
<1>4. f # <<>>
  BY <1>3
<1>5. \A h \in Seq(Link) : Len(h) = n =>
        /\ SubSeq(h, 1, n - 1) \in Seq(Link) /\ Len(SubSeq(h, 1, n - 1)) = n - 1
        /\ \A i \in 1..(n - 1) : SubSeq(h, 1, n - 1)[i] = h[i]
  BY <1>3
<1>6. /\ Popped(a) \in Seq(Link) /\ Len(Popped(a)) = n - 1
      /\ \A i \in 1..(n - 1) : Popped(a)[i] = a[i]
  BY <1>1, <1>5 DEF Popped
<1>7. /\ Popped(f) \in Seq(Link) /\ Len(Popped(f)) = n - 1
      /\ \A i \in 1..(n - 1) : Popped(f)[i] = f[i]
  BY <1>1, <1>5 DEF Popped
<1>8. \A i \in 1..(n - 1) : i \in 1..n
  BY <1>3
<1> QED BY <1>1, <1>3, <1>4, <1>6, <1>7, <1>8 DEF Last, a

\* Or pushed.
LEMMA SimilarPushes ==
  ASSUME NEW img, NEW s, NEW l, NEW f, Links(img, s, l, f)
  PROVE  /\ Append(s.frames, s.lr) \in Seq(Link) /\ Append(f, l) \in Seq(Link)
         /\ Len(Append(f, l)) = Len(Append(s.frames, s.lr))
         /\ \A i \in 1..Len(Append(f, l)) : Similar(img, Append(s.frames, s.lr)[i], Append(f, l)[i])
<1> DEFINE a == s.frames
           b == s.lr
           n == Len(f)
<1>1. /\ a \in Seq(Link) /\ f \in Seq(Link) /\ Len(a) = n /\ n \in Nat
      /\ \A i \in 1..n : Similar(img, a[i], f[i])
      /\ Similar(img, b, l) /\ b \in Link /\ l \in Link
  BY DEF Links, Similar
<1> HIDE DEF a, b
<1>2. /\ Append(a, b) \in Seq(Link) /\ Append(f, l) \in Seq(Link)
      /\ Len(Append(a, b)) = n + 1 /\ Len(Append(f, l)) = n + 1
      /\ Append(a, b)[n + 1] = b /\ Append(f, l)[n + 1] = l
      /\ \A i \in 1..n : Append(a, b)[i] = a[i] /\ Append(f, l)[i] = f[i]
  BY <1>1
<1>3. \A i \in 1..(n + 1) : i = n + 1 \/ i \in 1..n
  BY <1>1
<1>4. \A i \in 1..(n + 1) : Similar(img, Append(a, b)[i], Append(f, l)[i])
  BY <1>1, <1>2, <1>3
<1> QED BY <1>2, <1>4 DEF a, b

\* Or when the link is signed or authenticated.
LEMMA SimilarSigned ==
  ASSUME NEW img, NEW a, NEW b, Similar(img, a, b)
  PROVE  /\ Similar(img, [a EXCEPT !.signed = TRUE], [b EXCEPT !.signed = TRUE])
         /\ Similar(img, [a EXCEPT !.signed = ~@], [b EXCEPT !.signed = ~@])
BY DEF Similar, Link

\* They are similar whatever else the state holds.
LEMMA LinksWith ==
  ASSUME NEW img, NEW s, NEW l, NEW f, Links(img, s, l, f), NEW s2,
         s2.lr = s.lr, s2.frames = s.frames
  PROVE  Links(img, s2, l, f)
BY DEF Links

-----------------------------------------------------------------------------
(* Two runs in step *)

\* The state T is the state S with similar returns, where the word leads from q.
InStep(img, s, q, S, T) ==
  /\ IsState(S)
  /\ \E r, l2, f2 : /\ T = With(S, r, l2, f2) /\ Links(img, S, l2, f2)
                    /\ S.stop = "no" => Leads(img, s, q, S, r)

\* To show that a state is in step with another.
LEMMA InStepIf ==
  ASSUME NEW img, NEW s, NEW q, NEW S, NEW T, NEW r, NEW l2, NEW f2,
         IsState(S), T = With(S, r, l2, f2), Links(img, S, l2, f2),
         S.stop = "no" => Leads(img, s, q, S, r)
  PROVE  InStep(img, s, q, S, T)
BY DEF InStep

\* Two runs that differ in where they are and where they return to do the same
\* for the same word, if it is at the same address or may be moved.
LEMMA Lockstep ==
  ASSUME NEW img, NEW s, IsState(s), s.stop = "no", s.pc \in Int, NEW l, NEW f, Links(img, s, l, f),
         NEW w, w.op \in Ordinary, NEW q, q = s.pc \/ ~PcRelative(w),
         Exec(s, w).stop \in {"no", "returned"}
  PROVE  InStep(img, s, q, Exec(s, w), Exec(With(s, q, l, f), w))
<1> DEFINE S == Exec(s, w)
           T == Exec(With(s, q, l, f), w)
<1>1. CASE w.op \in Working \cup {"load"}
  <2>1. /\ IsState(S) /\ S = With(S, s.pc + 1, s.lr, s.frames)
        /\ T = With(S, q + 1, l, f)
    BY <1>1, Works, Loads
  <2> HIDE DEF S, T
  <2>2. S.pc = s.pc + 1 /\ S.lr = s.lr /\ S.frames = s.frames
    BY <2>1, WithFields
  <2>3. Links(img, S, l, f)
    BY <2>2, LinksWith
  <2>4. Leads(img, s, q, S, q + 1)
    BY <2>2 DEF Leads
  <2> QED BY <2>1, <2>3, <2>4, InStepIf DEF S, T
<1>2. CASE w.op \in {"adr", "b", "cbz", "cbz_char", "tbnz_full"}
  <2>1. q = s.pc
    BY <1>2 DEF PcRelative
  <2>2. /\ IsState(S) /\ S.lr = s.lr /\ S.frames = s.frames
        /\ T = With(S, S.pc, l, f)
    BY <1>2, <2>1, Jumps
  <2> HIDE DEF S, T
  <2>3. Links(img, S, l, f)
    BY <2>2, LinksWith
  <2>4. Leads(img, s, q, S, S.pc)
    BY DEF Leads
  <2> QED BY <2>2, <2>3, <2>4, InStepIf DEF S, T
<1>3. CASE w.op = "bl"
  <2> DEFINE back == [to |-> s.pc + 1, signed |-> FALSE]
  <2>1. q = s.pc
    BY <1>3 DEF PcRelative
  <2>2. /\ IsState(S) /\ S.lr = back /\ S.frames = s.frames
        /\ T = With(S, S.pc, back, f)
    BY <1>3, <2>1, Calling
  <2> HIDE DEF S, T
  <2>3. s.pc \in Int
    OBVIOUS
  <2>4. back \in Link /\ Similar(img, back, back)
    BY <2>3 DEF Similar, Link
  <2> HIDE DEF back
  <2>5. Links(img, S, back, f)
    BY <2>2, <2>4 DEF Links
  <2>6. Leads(img, s, q, S, S.pc)
    BY DEF Leads
  <2> QED BY <2>2, <2>5, <2>6, InStepIf DEF S, T
<1>4. CASE w.op = "pacibsp"
  <2> DEFINE a2 == [s.lr EXCEPT !.signed = TRUE]
             l2 == [l EXCEPT !.signed = TRUE]
  <2>1. /\ IsState(S) /\ S = With(S, s.pc + 1, a2, s.frames)
        /\ T = With(S, q + 1, l2, f)
    BY <1>4, Signs
  <2>2. Similar(img, s.lr, l)
    BY DEF Links
  <2>3. Similar(img, a2, l2)
    BY <2>2, SimilarSigned
  <2> HIDE DEF S, T, a2, l2
  <2>4. S.pc = s.pc + 1 /\ S.lr = a2 /\ S.frames = s.frames
    BY <2>1, WithFields
  <2>5. Links(img, S, l2, f)
    BY <2>3, <2>4 DEF Links
  <2>6. Leads(img, s, q, S, q + 1)
    BY <2>4 DEF Leads
  <2> QED BY <2>1, <2>5, <2>6, InStepIf DEF S, T
<1>5. CASE w.op = "stp_frame"
  <2> DEFINE a2 == Append(s.frames, s.lr)
             f2 == Append(f, l)
  <2>1. /\ IsState(S) /\ S = With(S, s.pc + 1, s.lr, a2)
        /\ T = With(S, q + 1, l, f2)
    BY <1>5, Pushes
  <2>2. /\ a2 \in Seq(Link) /\ f2 \in Seq(Link) /\ Len(f2) = Len(a2)
        /\ \A i \in 1..Len(f2) : Similar(img, a2[i], f2[i])
    BY SimilarPushes
  <2> HIDE DEF S, T, a2, f2
  <2>3. S.pc = s.pc + 1 /\ S.lr = s.lr /\ S.frames = a2
    BY <2>1, WithFields
  <2>4. Links(img, S, l, f2)
    BY <2>2, <2>3 DEF Links
  <2>5. Leads(img, s, q, S, q + 1)
    BY <2>3 DEF Leads
  <2> QED BY <2>1, <2>4, <2>5, InStepIf DEF S, T
<1>6. CASE w.op = "ldp_frame"
  <2>1. s.frames # <<>>
    BY <1>6, PopsNothing
  <2> DEFINE a2 == Last(s.frames)
             b2 == Popped(s.frames)
             l2 == Last(f)
             f2 == Popped(f)
  <2>2. /\ f # <<>> /\ Similar(img, a2, l2)
        /\ b2 \in Seq(Link) /\ f2 \in Seq(Link) /\ Len(f2) = Len(b2)
        /\ \A i \in 1..Len(f2) : Similar(img, b2[i], f2[i])
    BY <2>1, SimilarPops
  <2>3. /\ IsState(S) /\ S = With(S, s.pc + 1, a2, b2)
        /\ T = With(S, q + 1, l2, f2)
    BY <1>6, <2>1, <2>2, Pops
  <2> HIDE DEF S, T, a2, b2, l2, f2
  <2>4. S.pc = s.pc + 1 /\ S.lr = a2 /\ S.frames = b2
    BY <2>3, WithFields
  <2>5. Links(img, S, l2, f2)
    BY <2>2, <2>4 DEF Links
  <2>6. Leads(img, s, q, S, q + 1)
    BY <2>4 DEF Leads
  <2> QED BY <2>3, <2>5, <2>6, InStepIf DEF S, T
<1>7. CASE w.op \in {"ret", "retab"}
  <2> DEFINE t == With(s, q, l, f)
             a2 == Used(w, s.lr)
             l2 == Used(w, l)
  <2>1. S = Return(s, a2) /\ T = Return(t, l2)
    BY <1>7, Returns
  <2>2. Similar(img, s.lr, l)
    BY DEF Links
  <2>3. Similar(img, a2, l2)
    BY <1>7, <2>2, SimilarSigned DEF Used
  <2>4. /\ IsState(t) /\ t.frames = f /\ t.lr = l /\ t.stop = "no"
    BY WithFields
  <2>5. f = <<>> <=> s.frames = <<>>
    BY DEF Links
  <2> HIDE DEF a2, l2, t, S, T
  <2>6. /\ IsState(S) /\ S.lr = s.lr /\ S.frames = s.frames
    BY <2>1, ReturnsTo
  <2>7. Links(img, S, l, f)
    BY <2>6, LinksWith
  <2>8. a2 \in Link /\ l2 \in Link /\ a2.signed \in BOOLEAN /\ a2.signed = l2.signed
        /\ (a2.to = l2.to \/ Bridge(img, l2.to, a2.to))
    BY <2>3 DEF Similar, Link
  <2>9. a2.to = Exit <=> l2.to = Exit
    BY <2>8 DEF Bridge, Exit
  <2>10. CASE a2.signed
    <3>1. S = [s EXCEPT !.stop = "bad return"]
      BY <2>1, <2>10, ReturnsTo
    <3> QED BY <3>1 DEF IsState, S
  <2>11. CASE ~a2.signed /\ a2.to = Exit
    <3>1. S = [s EXCEPT !.stop = IF s.frames = <<>> THEN "returned" ELSE "lost frame"]
      BY <2>1, <2>8, <2>11, ReturnsTo
    <3>2. T = [t EXCEPT !.stop = IF f = <<>> THEN "returned" ELSE "lost frame"]
      <4>1. l2.signed = FALSE /\ l2.to = Exit
        BY <2>8, <2>9, <2>11
      <4> QED BY <2>1, <2>4, <4>1, ReturnsTo
    <3>3. S.stop # "no"
      BY <3>1 DEF IsState
    <3>4. T = With(S, q, l, f)
      BY <2>5, <3>1, <3>2 DEF With, IsState, t
    <3> QED BY <2>6, <2>7, <3>3, <3>4, InStepIf DEF S, T
  <2>12. CASE ~a2.signed /\ a2.to # Exit
    <3>1. S = [s EXCEPT !.pc = a2.to]
      BY <2>1, <2>8, <2>12, ReturnsTo
    <3>2. T = [t EXCEPT !.pc = l2.to]
      <4>1. l2.signed = FALSE /\ l2.to # Exit
        BY <2>8, <2>9, <2>12
      <4> QED BY <2>1, <2>4, <4>1, ReturnsTo
    <3>3. S.pc = a2.to
      BY <3>1 DEF IsState
    <3>4. T = With(S, l2.to, l, f)
      BY <3>1, <3>2 DEF With, IsState, t
    <3>5. Leads(img, s, q, S, l2.to)
      BY <2>8, <3>3 DEF Leads
    <3> QED BY <2>6, <2>7, <3>4, <3>5, InStepIf DEF S, T
  <2> QED BY <2>10, <2>11, <2>12
<1>8. w.op \in Working \cup {"load", "adr", "b", "cbz", "cbz_char", "tbnz_full", "bl", "pacibsp",
                          "stp_frame", "ldp_frame", "ret", "retab"}
  BY DEF Ordinary, Ops, Padding, Working
<1> QED BY <1>1, <1>2, <1>3, <1>4, <1>5, <1>6, <1>7, <1>8

\* The steps of a part of a run.
LEMMA RunsOn ==
  ASSUME NEW img, NEW B, NEW m \in Nat, NEW n \in Nat, Runs(img, B, m, n), NEW j \in 0..(n - 1)
  PROVE  /\ B[m + j + 1] = Step(img, B[m + j]) /\ m + j \in Nat
         /\ Runs(img, B, m + j, n - j)
BY DEF Runs

\* A step executes the word at its address.
LEMMA StepWith ==
  ASSUME NEW img, NEW s, s.stop = "no", NEW q \in 1..Len(img), NEW l, NEW f
  PROVE  Step(img, With(s, q, l, f)) = Exec(With(s, q, l, f), img[q])
<1> DEFINE t == With(s, q, l, f)
<1>1. t.stop = "no" /\ t.pc = q
  BY WithFields
<1> HIDE DEF t
<1> QED BY <1>1 DEF Step, t

\* A branch changes nothing but the place.
LEMMA StepBranch ==
  ASSUME NEW img, NEW s, s.stop = "no", NEW q \in Int, q \in 1..Len(img), NEW r \in Int, r # q,
         img[q] = To("b", q, r), NEW l, NEW f
  PROVE  Step(img, With(s, q, l, f)) = With(s, r, l, f)
<1> DEFINE w == To("b", q, r)
<1>1. w.op = "b" /\ w.d = r - q
  BY DEF To
<1> HIDE DEF w
<1>2. w.d # 0 /\ q + w.d = r
  BY <1>1
<1>3. Exec(With(s, q, l, f), w) = Goto(With(s, q, l, f), w.d)
  BY <1>1 DEF Exec
<1>4. Goto(With(s, q, l, f), w.d) = With(s, r, l, f)
  BY <1>2 DEF Goto, With
<1> QED BY <1>3, <1>4, StepWith DEF w

\* A branch on a null argument.
LEMMA StepZero ==
  ASSUME NEW img, NEW s, s.stop = "no", NEW q \in Int, q \in 1..Len(img), NEW d \in Int \ {0},
         img[q] = [op |-> "cbz", d |-> d], NEW l, NEW f
  PROVE  Step(img, With(s, q, l, f)) = With(s, IF s.x0 = Null THEN q + d ELSE q + 1, l, f)
<1> DEFINE w == [op |-> "cbz", d |-> d]
           t == With(s, q, l, f)
<1>1. w.op = "cbz" /\ w.d = d
  OBVIOUS
<1>2. t.x0 = s.x0
  BY WithFields
<1> HIDE DEF w, t
<1>3. Exec(t, w) = IF s.x0 = 0 THEN Goto(t, d) ELSE Going(t)
  BY <1>1, <1>2 DEF Exec
<1>4. Goto(t, d) = With(s, q + d, l, f) /\ Going(t) = With(s, q + 1, l, f)
  BY DEF Goto, Going, With, t
<1> QED BY <1>3, <1>4, StepWith DEF w, t, Null

\* Not taken, for an argument that is not null.
LEMMA StepNotZero ==
  ASSUME NEW img, NEW s, s.stop = "no", s.x0 # Null, NEW q \in 1..Len(img), img[q].op = "cbz",
         NEW l, NEW f
  PROVE  Step(img, With(s, q, l, f)) = With(s, q + 1, l, f)
<1> DEFINE w == img[q]
           t == With(s, q, l, f)
<1>1. w.op = "cbz"
  OBVIOUS
<1>2. t.x0 = s.x0
  BY WithFields
<1> HIDE DEF w, t
<1>3. Exec(t, w) = Going(t)
  BY <1>1, <1>2 DEF Exec, Null
<1>4. Going(t) = With(s, q + 1, l, f)
  BY DEF Going, With, t
<1> QED BY <1>3, <1>4, StepWith DEF w, t

\* A word of the tracing stub.
LEMMA StepRecord ==
  ASSUME NEW img, NEW s, s.stop = "no", NEW q \in 1..Len(img),
         img[q].op \in {"record", "nop", "save"}, NEW l, NEW f
  PROVE  Step(img, With(s, q, l, f)) = With(s, q + 1, l, f)
<1>1. \A t : Exec(t, img[q]) = Going(t)
  BY DEF Exec
<1>2. Going(With(s, q, l, f)) = With(s, q + 1, l, f)
  BY DEF Going, With
<1> QED BY <1>1, <1>2, StepWith

\* n words that change nothing, from c on.
Recording(img, c, n) ==
  \A i \in 0..(n - 1) : c + i \in 1..Len(img) /\ img[c + i].op \in {"record", "nop", "save"}

\* n such words one after another.
LEMMA StepRecords ==
  ASSUME NEW img, NEW s, s.stop = "no", NEW c \in Nat, NEW n \in Nat, NEW l, NEW f,
         Recording(img, c, n),
         NEW B, NEW m \in Nat, Runs(img, B, m, n), B[m] = With(s, c, l, f)
  PROVE  B[m + n] = With(s, c + n, l, f)
<1> DEFINE S == {i \in Nat : i <= n => B[m + i] = With(s, c + i, l, f)}
<1>1. 0 \in S
  OBVIOUS
<1>2. ASSUME NEW i \in Nat, i \in S PROVE i + 1 \in S
  <2> SUFFICES ASSUME i + 1 <= n PROVE B[m + (i + 1)] = With(s, c + (i + 1), l, f)
    OBVIOUS
  <2>1. i \in 0..(n - 1) /\ m + (i + 1) = m + i + 1 /\ c + (i + 1) = (c + i) + 1
    OBVIOUS
  <2>2. B[m + i] = With(s, c + i, l, f)
    BY <1>2, <2>1
  <2>3. B[m + i + 1] = Step(img, With(s, c + i, l, f))
    <3>1. m + i \in m..(m + n - 1)
      BY <2>1
    <3>2. B[(m + i) + 1] = Step(img, B[m + i])
      BY <3>1 DEF Runs
    <3> QED BY <2>1, <2>2, <3>2
  <2>4. Step(img, With(s, c + i, l, f)) = With(s, (c + i) + 1, l, f)
    <3> DEFINE q == c + i
    <3>1. q \in 1..Len(img) /\ img[q].op \in {"record", "nop", "save"}
      BY <2>1 DEF Recording
    <3> HIDE DEF q
    <3>2. Step(img, With(s, q, l, f)) = With(s, q + 1, l, f)
      BY <3>1, StepRecord
    <3> QED BY <3>2 DEF q
  <2> QED BY <2>1, <2>3, <2>4
<1> HIDE DEF S
<1>3. n \in S
  BY <1>1, <1>2, Counting
<1> USE DEF S
<1> QED BY <1>3

-----------------------------------------------------------------------------
(* What the tools leave at an address *)

\* The words of the three stubs, for the word w at p and a stub at c.
TrapStub(w, p, c) == <<[op |-> "cbz", d |-> 4], To("bl", c + 1, p + w.d), To("b", c + 2, p + 1),
                       W("nop"), W("save"), W("save"), W("save"), [op |-> "b", d |-> 0]>>
GuardStub(w, p, c) == <<[op |-> "cbz", d |-> 3], w, To("b", c + 2, p + 1), W("ldp_frame"), W("retab")>>
TraceStub(w, p, c) == [i \in 1..13 |-> W("record")] \o <<w, To("b", c + 14, p + 1)>>

\* A branch at p to the words ws, which lie in what was padding.
Diverted(p, c, ws) ==
  /\ image[p] = To("b", p, c)
  /\ \A i \in 1..Len(ws) : /\ c + i - 1 \in Text
                           /\ was[c + i - 1].op \in Padding
                           /\ image[c + i - 1] = ws[i]

\* The stub of each tool, for the word w that was at p.
Trapping(w, p, c) == p \in Calls /\ w.op = "bl" /\ Diverted(p, c, TrapStub(w, p, c))
Guarding(w, p, c) == p = Guarded + 3 /\ ~PcRelative(w) /\ Diverted(p, c, GuardStub(w, p, c))
Tracing(w, p, c) == p \in Targets /\ ~PcRelative(w) /\ Diverted(p, c, TraceStub(w, p, c))

\* The word w is at p, or is run in a stub instead.
Faithful(w, p) == \/ image[p] = w
                  \/ \E c \in Text : Trapping(w, p, c) \/ Guarding(w, p, c) \/ Tracing(w, p, c)

\* The run in state t of the image does what the run in state s does.
Sim(s, t) ==
  /\ IsState(s)
  /\ \E r, l, f : /\ t = With(s, r, l, f) /\ Links(image, s, l, f)
                  /\ s.stop = "no" => r = s.pc

\* To show that a state does what another does.
LEMMA SimIf ==
  ASSUME NEW s, NEW t, NEW r, NEW l, NEW f, IsState(s), t = With(s, r, l, f), Links(image, s, l, f),
         s.stop = "no" => r = s.pc
  PROVE  Sim(s, t)
BY DEF Sim

\* The words of the stubs.
LEMMA TrapWords ==
  ASSUME NEW w, NEW p, NEW c
  PROVE  LET ws == TrapStub(w, p, c)
         IN /\ Len(ws) = 8
            /\ ws[1] = [op |-> "cbz", d |-> 4] /\ ws[2] = To("bl", c + 1, p + w.d)
            /\ ws[3] = To("b", c + 2, p + 1)
            /\ \A i \in 4..7 : ws[i].op \in {"nop", "save"}
            /\ ws[8] = [op |-> "b", d |-> 0]
<1> DEFINE x == To("bl", c + 1, p + w.d)
           y == To("b", c + 2, p + 1)
<1> HIDE DEF x, y
<1>1. TrapStub(w, p, c) = <<[op |-> "cbz", d |-> 4], x, y,
                            W("nop"), W("save"), W("save"), W("save"), [op |-> "b", d |-> 0]>>
  BY DEF TrapStub, x, y
<1>2. W("nop").op = "nop" /\ W("save").op = "save"
  BY DEF W
<1>3. \A i \in 4..7 : i = 4 \/ i = 5 \/ i = 6 \/ i = 7
  OBVIOUS
<1> QED BY <1>1, <1>2, <1>3 DEF x, y

\* Those of null_guard.
LEMMA GuardWords ==
  ASSUME NEW w, NEW p, NEW c
  PROVE  LET ws == GuardStub(w, p, c)
         IN /\ Len(ws) = 5
            /\ ws[1] = [op |-> "cbz", d |-> 3] /\ ws[2] = w /\ ws[3] = To("b", c + 2, p + 1)
            /\ ws[4] = W("ldp_frame") /\ ws[5] = W("retab")
<1> DEFINE y == To("b", c + 2, p + 1)
           u == W("ldp_frame")
           v == W("retab")
<1> HIDE DEF y, u, v
<1>1. GuardStub(w, p, c) = <<[op |-> "cbz", d |-> 3], w, y, u, v>>
  BY DEF GuardStub, y, u, v
<1> QED BY <1>1 DEF y, u, v

\* And of trace_wait.
LEMMA TraceWords ==
  ASSUME NEW w, NEW p, NEW c
  PROVE  LET ws == TraceStub(w, p, c)
         IN /\ Len(ws) = 15
            /\ \A i \in 1..13 : ws[i] = W("record")
            /\ ws[14] = w /\ ws[15] = To("b", c + 14, p + 1)
<1> DEFINE y == To("b", c + 14, p + 1)
           u == W("record")
           head == [i \in 1..13 |-> u]
           tail == <<w, y>>
<1> HIDE DEF y, u
<1>1. TraceStub(w, p, c) = head \o tail
  BY DEF TraceStub, y, u
<1>2. Len(head) = 13 /\ \A i \in 1..13 : head[i] = u
  OBVIOUS
<1>3. Len(tail) = 2 /\ tail[1] = w /\ tail[2] = y
  OBVIOUS
<1>4. /\ Len(head \o tail) = 15
      /\ \A i \in 1..13 : (head \o tail)[i] = u
      /\ (head \o tail)[14] = w /\ (head \o tail)[15] = y
  BY <1>2, <1>3
<1> QED BY <1>1, <1>4 DEF y, u

-----------------------------------------------------------------------------
(* One word of the kernel, in the image *)

\* After the word itself, at most one branch is left to the other run's place.
LEMMA Arrives ==
  ASSUME Len(image) \in Nat, NEW s, s.stop = "no", s.pc \in Int,
         NEW q \in Int, q = s.pc \/ Bridge(image, q + 1, s.pc + 1),
         NEW S, NEW B, NEW m \in Nat, InStep(image, s, q, S, B[m]), Runs(image, B, m, 1)
  PROVE  \E j \in 0..1 : Sim(S, B[m + j])
<1>1. PICK r, l, f : /\ B[m] = With(S, r, l, f) /\ Links(image, S, l, f) /\ IsState(S)
                     /\ S.stop = "no" => Leads(image, s, q, S, r)
  BY DEF InStep
<1>2. m + 0 = m /\ 0 \in 0..1 /\ 1 \in 0..1
  OBVIOUS
<1>3. CASE S.stop # "no"
  <2>1. Sim(S, B[m])
    BY <1>1, <1>3, SimIf
  <2> QED BY <1>2, <2>1
<1>4. CASE S.stop = "no" /\ r = S.pc
  <2>1. Sim(S, B[m])
    BY <1>1, <1>4, SimIf
  <2> QED BY <1>2, <2>1
<1>5. ASSUME S.stop = "no", Bridge(image, r, S.pc) PROVE Sim(S, B[m + 1])
  <2>1. B[m + 1] = Step(image, B[m])
    BY DEF Runs
  <2>2. r \in Int /\ r \in 1..Len(image) /\ S.pc \in Int /\ S.pc # r /\ image[r] = To("b", r, S.pc)
    BY <1>5 DEF Bridge
  <2>3. Step(image, With(S, r, l, f)) = With(S, S.pc, l, f)
    BY <1>5, <2>2, StepBranch
  <2> QED BY <1>1, <2>1, <2>3, SimIf
<1>6. CASE S.stop = "no" /\ r # S.pc
  <2>1. Bridge(image, r, S.pc)
    BY <1>1, <1>6 DEF Leads
  <2> QED BY <1>2, <1>5, <1>6, <2>1
<1> QED BY <1>3, <1>4, <1>6

\* The word itself.
LEMMA ExecutesWord ==
  ASSUME NEW s, IsState(s), s.stop = "no", s.pc \in Int,
         NEW l, NEW f, Links(image, s, l, f), NEW w, w.op \in Ordinary,
         Exec(s, w).stop \in {"no", "returned"},
         NEW q \in 1..Len(image), image[q] = w, q = s.pc \/ ~PcRelative(w),
         NEW B, NEW m \in Nat, B[m] = With(s, q, l, f), Runs(image, B, m, 1)
  PROVE  InStep(image, s, q, Exec(s, w), B[m + 1])
<1>1. B[m + 1] = Step(image, B[m])
  BY DEF Runs
<1>2. B[m + 1] = Exec(With(s, q, l, f), w)
  BY <1>1, StepWith
<1>3. InStep(image, s, q, Exec(s, w), Exec(With(s, q, l, f), w))
  BY Lockstep
<1> QED BY <1>2, <1>3

\* A part of a run is one.
LEMMA RunsPart ==
  ASSUME NEW img, NEW B, NEW m \in Nat, NEW n \in Nat, Runs(img, B, m, n),
         NEW j \in Nat, NEW k \in Nat, j + k <= n
  PROVE  Runs(img, B, m + j, k) /\ m + j \in Nat
BY DEF Runs

\* The word at its own address.
LEMMA PlainStep ==
  ASSUME Len(image) \in Nat, NEW s, IsState(s), s.stop = "no", s.pc \in 1..Len(image),
         NEW l, NEW f, Links(image, s, l, f), NEW w, w.op \in Ordinary,
         Exec(s, w).stop \in {"no", "returned"}, image[s.pc] = w,
         NEW B, NEW m \in Nat, B[m] = With(s, s.pc, l, f), Runs(image, B, m, 2)
  PROVE  \E j \in 1..2 : Sim(Exec(s, w), B[m + j])
<1>1. Runs(image, B, m, 1) /\ Runs(image, B, m + 1, 1) /\ m + 1 \in Nat /\ s.pc \in Int
  BY RunsPart DEF Runs
<1> DEFINE q == s.pc
           S == Exec(s, w)
<1>2. q \in 1..Len(image) /\ q \in Int /\ q = s.pc
  OBVIOUS
<1>3. InStep(image, s, q, S, B[m + 1])
  <2> HIDE DEF q
  <2> QED BY <1>1, <1>2, ExecutesWord
<1> HIDE DEF q, S
<1>4. \E j \in 0..1 : Sim(S, B[(m + 1) + j])
  BY <1>1, <1>2, <1>3, Arrives
<1>5. PICK j \in 0..1 : Sim(S, B[(m + 1) + j])
  BY <1>4
<1>6. (m + 1) + j = m + (j + 1) /\ j + 1 \in 1..2
  OBVIOUS
<1> QED BY <1>5, <1>6 DEF S

\* The words of a stub, by their distance from its start.
StubAt(p, c, ws) ==
  \A k \in 0..(Len(ws) - 1) : c + k \in Text /\ c + k # p /\ image[c + k] = ws[k + 1]

\* The words of a diversion, which its own site is none of.
LEMMA StubWords ==
  ASSUME NEW p, NEW c \in Int, NEW ws, Len(ws) \in Nat, Diverted(p, c, ws), was[p].op \notin Padding
  PROVE  StubAt(p, c, ws)
<1> SUFFICES ASSUME NEW k \in 0..(Len(ws) - 1)
             PROVE  c + k \in Text /\ c + k # p /\ image[c + k] = ws[k + 1]
  BY DEF StubAt
<1>1. k + 1 \in 1..Len(ws) /\ c + (k + 1) - 1 = c + k
  OBVIOUS
<1>2. c + k \in Text /\ was[c + k].op \in Padding /\ image[c + k] = ws[k + 1]
  BY <1>1 DEF Diverted
<1> QED BY <1>2

\* A diversion branches to its stub.
LEMMA Diverts ==
  ASSUME Len(image) \in Nat, Text \subseteq 1..Len(image), NEW s, s.stop = "no",
         NEW p \in Int, p \in Text, s.pc = p, was[p].op \notin Padding,
         NEW c \in Int, NEW ws, Len(ws) \in Nat \ {0}, Diverted(p, c, ws),
         NEW l, NEW f, NEW B, NEW m \in Nat, B[m] = With(s, p, l, f), Runs(image, B, m, 1)
  PROVE  B[m + 1] = With(s, c, l, f)
<1>1. B[m + 1] = Step(image, B[m])
  BY DEF Runs
<1>2. image[p] = To("b", p, c)
  BY DEF Diverted
<1>3. c # p
  <2>1. 0 \in 0..(Len(ws) - 1) /\ c + 0 = c
    OBVIOUS
  <2>2. StubAt(p, c, ws)
    BY StubWords
  <2> QED BY <2>1, <2>2 DEF StubAt
<1>4. Step(image, With(s, p, l, f)) = With(s, c, l, f)
  BY <1>2, <1>3, StepBranch
<1> QED BY <1>1, <1>4

\* Through the stub of trace_wait.
LEMMA TraceStep ==
  ASSUME Len(image) \in Nat, Text \subseteq 1..Len(image), NEW s, IsState(s), s.stop = "no",
         NEW p \in Int, p \in Text, s.pc = p, was[p].op \notin Padding,
         NEW l, NEW f, Links(image, s, l, f), NEW w, w.op \in Ordinary,
         Exec(s, w).stop \in {"no", "returned"}, NEW c \in Text, Tracing(w, p, c),
         NEW B, NEW m \in Nat, B[m] = With(s, p, l, f), Runs(image, B, m, 16)
  PROVE  \E j \in 1..16 : Sim(Exec(s, w), B[m + j])
<1> DEFINE ws == TraceStub(w, p, c)
           S == Exec(s, w)
           q == c + 13
<1>1. c \in Int /\ c \in Nat
  BY DEF Text
<1>2. /\ Len(ws) = 15 /\ \A i \in 1..13 : ws[i] = W("record")
      /\ ws[14] = w /\ ws[15] = To("b", c + 14, p + 1)
  BY TraceWords
<1>3. Diverted(p, c, ws) /\ ~PcRelative(w)
  BY DEF Tracing
<1> HIDE DEF ws
<1>4. \A k \in 0..14 : c + k \in Text /\ c + k # p /\ image[c + k] = ws[k + 1]
  <2>1. Len(ws) \in Nat /\ Len(ws) - 1 = 14
    BY <1>2
  <2>2. StubAt(p, c, ws)
    <3>1. Len(ws) \in Nat
      BY <2>1
    <3> QED BY <1>1, <1>3, <3>1, StubWords
  <2> QED BY <2>1, <2>2 DEF StubAt
<1>5. B[m + 1] = With(s, c, l, f)
  <2>1. Runs(image, B, m, 1) /\ Len(ws) \in Nat \ {0}
    BY <1>2 DEF Runs
  <2> QED BY <1>1, <1>3, <2>1, Diverts
<1>6. B[m + 14] = With(s, q, l, f)
  <2> DEFINE n == 13
  <2>1. n \in Nat /\ \A i \in 0..(n - 1) : i \in 0..14 /\ i + 1 \in 1..13
    OBVIOUS
  <2>2. Runs(image, B, m + 1, n) /\ m + 1 \in Nat
    BY RunsPart
  <2> HIDE DEF n
  <2>3. W("record").op = "record"
    BY DEF W
  <2>4. ASSUME NEW i \in 0..(n - 1)
        PROVE  c + i \in 1..Len(image) /\ image[c + i].op \in {"record", "nop", "save"}
    <3>1. c + i \in Text /\ image[c + i] = ws[i + 1]
      BY <1>4, <2>1
    <3>2. ws[i + 1] = W("record")
      BY <1>2, <2>1
    <3> QED BY <2>3, <3>1, <3>2
  <2>7. Recording(image, c, n)
    BY <2>4 DEF Recording
  <2>5. B[(m + 1) + n] = With(s, c + n, l, f)
    <3>1. n \in Nat /\ c \in Nat
      BY <1>1, <2>1
    <3> DEFINE k == m + 1
    <3>2. k \in Nat /\ Runs(image, B, k, n) /\ B[k] = With(s, c, l, f)
      BY <1>5, <2>2
    <3> HIDE DEF k
    <3>3. B[k + n] = With(s, c + n, l, f)
      BY <3>1, <3>2, <2>7, StepRecords
    <3> QED BY <3>3 DEF k
  <2>6. (m + 1) + n = m + 14
    BY DEF n
  <2> QED BY <2>5, <2>6 DEF n
<1>7. /\ q \in Int /\ q \in 1..Len(image) /\ image[q] = w
      /\ q + 1 \in 1..Len(image) /\ image[q + 1] = To("b", q + 1, p + 1) /\ q # p
  <2>1. c + 13 \in Text /\ c + 13 # p /\ image[c + 13] = ws[13 + 1]
    BY <1>4
  <2>2. c + 14 \in Text /\ image[c + 14] = ws[14 + 1] /\ (c + 13) + 1 = c + 14
    BY <1>1, <1>4
  <2>3. 13 + 1 = 14 /\ 14 + 1 = 15
    OBVIOUS
  <2> QED BY <1>1, <1>2, <2>1, <2>2, <2>3
<1> HIDE DEF q
<1>8. Bridge(image, q + 1, s.pc + 1)
  BY <1>7, <1>1 DEF Bridge, Exit, Text
<1>9. Runs(image, B, m + 14, 1) /\ m + 14 \in Nat /\ Runs(image, B, m + 15, 1) /\ m + 15 \in Nat
  BY RunsPart
<1>10. InStep(image, s, q, S, B[m + 15])
  <2>1. InStep(image, s, q, S, B[(m + 14) + 1])
    BY <1>3, <1>6, <1>7, <1>9, ExecutesWord
  <2>2. (m + 14) + 1 = m + 15
    OBVIOUS
  <2> QED BY <2>1, <2>2
<1> HIDE DEF S
<1>11. PICK j \in 0..1 : Sim(S, B[(m + 15) + j])
  BY <1>7, <1>8, <1>9, <1>10, Arrives
<1>12. (m + 15) + j = m + (j + 15) /\ j + 15 \in 1..16
  OBVIOUS
<1> QED BY <1>11, <1>12 DEF S

\* Through the stub of null_guard, for an argument that is not null.
LEMMA GuardStep ==
  ASSUME Len(image) \in Nat, Text \subseteq 1..Len(image), NEW s, IsState(s), s.stop = "no",
         NEW p \in Int, p \in Text, s.pc = p, was[p].op \notin Padding, s.x0 # Null,
         NEW l, NEW f, Links(image, s, l, f), NEW w, w.op \in Ordinary,
         Exec(s, w).stop \in {"no", "returned"}, NEW c \in Text, Guarding(w, p, c),
         NEW B, NEW m \in Nat, B[m] = With(s, p, l, f), Runs(image, B, m, 16)
  PROVE  \E j \in 1..16 : Sim(Exec(s, w), B[m + j])
<1> DEFINE ws == GuardStub(w, p, c)
           S == Exec(s, w)
           q == c + 1
<1>1. c \in Int /\ c \in Nat
  BY DEF Text
<1>2. /\ Len(ws) = 5 /\ ws[1] = [op |-> "cbz", d |-> 3] /\ ws[2] = w
      /\ ws[3] = To("b", c + 2, p + 1)
  BY GuardWords
<1>3. Diverted(p, c, ws) /\ ~PcRelative(w)
  BY DEF Guarding
<1> HIDE DEF ws
<1>4. \A k \in 0..4 : c + k \in Text /\ c + k # p /\ image[c + k] = ws[k + 1]
  <2>1. Len(ws) \in Nat /\ Len(ws) - 1 = 4
    BY <1>2
  <2>2. StubAt(p, c, ws)
    <3>1. Len(ws) \in Nat
      BY <2>1
    <3> QED BY <1>1, <1>3, <3>1, StubWords
  <2> QED BY <2>1, <2>2 DEF StubAt
<1>5. B[m + 1] = With(s, c, l, f)
  <2>1. Runs(image, B, m, 1) /\ Len(ws) \in Nat \ {0}
    BY <1>2, RunsPart DEF Runs
  <2> QED BY <1>1, <1>3, <2>1, Diverts
<1>6. B[m + 2] = With(s, q, l, f)
  <2>1. c \in 1..Len(image) /\ image[c].op = "cbz"
    <3>1. c + 0 \in Text /\ image[c + 0] = ws[0 + 1] /\ c + 0 = c /\ 0 + 1 = 1
      BY <1>1, <1>4
    <3>2. image[c] = ws[1]
      BY <3>1
    <3>3. c \in 1..Len(image)
      OBVIOUS
    <3> QED BY <1>2, <3>2, <3>3
  <2>2. Runs(image, B, m + 1, 1) /\ m + 1 \in Nat
    BY RunsPart
  <2>3. B[(m + 1) + 1] = Step(image, B[m + 1])
    BY <2>2 DEF Runs
  <2>4. Step(image, With(s, c, l, f)) = With(s, c + 1, l, f)
    BY <1>1, <2>1, StepNotZero
  <2>5. (m + 1) + 1 = m + 2
    OBVIOUS
  <2> QED BY <1>5, <2>3, <2>4, <2>5
<1>7. /\ q \in Int /\ q \in 1..Len(image) /\ image[q] = w
      /\ q + 1 \in 1..Len(image) /\ image[q + 1] = To("b", q + 1, p + 1) /\ q # p
  <2>1. c + 1 \in Text /\ c + 1 # p /\ image[c + 1] = ws[1 + 1]
    BY <1>4
  <2>2. c + 2 \in Text /\ image[c + 2] = ws[2 + 1] /\ (c + 1) + 1 = c + 2
    BY <1>1, <1>4
  <2>3. 1 + 1 = 2 /\ 2 + 1 = 3
    OBVIOUS
  <2> QED BY <1>1, <1>2, <2>1, <2>2, <2>3
<1> HIDE DEF q
<1>8. Bridge(image, q + 1, s.pc + 1)
  BY <1>7, <1>1 DEF Bridge, Exit, Text
<1>9. Runs(image, B, m + 2, 1) /\ m + 2 \in Nat /\ Runs(image, B, m + 3, 1) /\ m + 3 \in Nat
  BY RunsPart
<1>10. InStep(image, s, q, S, B[m + 3])
  <2>1. InStep(image, s, q, S, B[(m + 2) + 1])
    BY <1>3, <1>6, <1>7, <1>9, ExecutesWord
  <2>2. (m + 2) + 1 = m + 3
    OBVIOUS
  <2> QED BY <2>1, <2>2
<1> HIDE DEF S
<1>11. PICK j \in 0..1 : Sim(S, B[(m + 3) + j])
  BY <1>7, <1>8, <1>9, <1>10, Arrives
<1>12. (m + 3) + j = m + (j + 3) /\ j + 3 \in 1..16
  OBVIOUS
<1> QED BY <1>11, <1>12 DEF S

\* A call, of what is r words from it or at r.
LEMMA StepCall ==
  ASSUME NEW s, s.stop = "no", NEW q \in Int, NEW r \in Int, r # q, NEW l, NEW f,
         NEW w, w.op = "bl", w.d \in Int, q + w.d = r
  PROVE  Exec(With(s, q, l, f), w) = With(s, r, [to |-> q + 1, signed |-> FALSE], f)
<1> DEFINE t == With(s, q, l, f)
           back == [to |-> q + 1, signed |-> FALSE]
<1>1. w.d # 0
  OBVIOUS
<1>2. t.pc = q
  BY WithFields
<1>3. Goto(t, w.d) = With(s, r, l, f)
  BY <1>1 DEF Goto, With
<1> HIDE DEF t
<1>4. Exec(t, w) = [Goto(t, w.d) EXCEPT !.lr = back]
  BY <1>2 DEF Exec
<1> HIDE DEF back
<1>5. [With(s, r, l, f) EXCEPT !.lr = back] = With(s, r, back, f)
  BY DEF With
<1> QED BY <1>3, <1>4, <1>5 DEF t, back

\* A call of an address.
IsCall(w) == w.op = "bl" /\ w.d \in Int

\* The word leads to one that is no padding.
Lands(s, w) == was[Exec(s, w).pc].op \notin Padding

\* Through the stub of cond_trap, for an argument that is not null.
LEMMA TrapStep ==
  ASSUME Len(image) \in Nat, Text \subseteq 1..Len(image), NEW s, IsState(s), s.stop = "no",
         NEW p \in Int, p \in Text, s.pc = p, was[p].op \notin Padding, s.x0 # Null,
         NEW l, NEW f, Links(image, s, l, f), NEW w, IsCall(w),
         Exec(s, w).stop \in {"no", "returned"}, NEW c \in Text, Trapping(w, p, c),
         Lands(s, w),
         NEW B, NEW m \in Nat, B[m] = With(s, p, l, f), Runs(image, B, m, 16)
  PROVE  \E j \in 1..16 : Sim(Exec(s, w), B[m + j])
<1> DEFINE ws == TrapStub(w, p, c)
           S == Exec(s, w)
           r == p + w.d
           x == To("bl", c + 1, r)
           back == [to |-> c + 2, signed |-> FALSE]
           home == [to |-> p + 1, signed |-> FALSE]
<1>1. c \in Int /\ c \in Nat
  BY DEF Text
<1>2. /\ Len(ws) = 8 /\ ws[1] = [op |-> "cbz", d |-> 4] /\ ws[2] = x
      /\ ws[3] = To("b", c + 2, p + 1)
  BY TrapWords
<1>3. Diverted(p, c, ws) /\ w.op = "bl" /\ w.d \in Int
  BY DEF Trapping, IsCall
<1>4. w.d # 0
  BY <1>3, Calling
<1>5. r \in Int /\ r # p
  BY <1>3, <1>4
<1>6. S = With(s, r, home, s.frames) /\ S.pc = r /\ S.stop = "no" /\ S.lr = home /\ S.frames = s.frames
  <2>1. s = With(s, p, s.lr, s.frames)
    BY WithFields
  <2>2. Exec(With(s, p, s.lr, s.frames), w) = With(s, r, home, s.frames)
    BY <1>3, <1>5, StepCall
  <2>3. S = With(s, r, home, s.frames)
    BY <2>1, <2>2
  <2> HIDE DEF S, r, home
  <2> QED BY <2>3, WithFields
<1> HIDE DEF ws, x, back, home, r, S
<1>7. \A k \in 0..7 : c + k \in Text /\ c + k # p /\ image[c + k] = ws[k + 1]
  <2>1. Len(ws) \in Nat /\ Len(ws) - 1 = 7
    BY <1>2
  <2>2. StubAt(p, c, ws)
    <3>1. Len(ws) \in Nat
      BY <2>1
    <3> QED BY <1>1, <1>3, <3>1, StubWords
  <2> QED BY <2>1, <2>2 DEF StubAt
<1>8. B[m + 1] = With(s, c, l, f)
  <2>1. Runs(image, B, m, 1) /\ Len(ws) \in Nat \ {0}
    BY <1>2, RunsPart DEF Runs
  <2> QED BY <1>1, <1>3, <2>1, Diverts
<1>9. B[m + 2] = With(s, c + 1, l, f)
  <2>1. c \in 1..Len(image) /\ image[c].op = "cbz"
    <3>1. c + 0 \in Text /\ image[c + 0] = ws[0 + 1] /\ c + 0 = c /\ 0 + 1 = 1
      BY <1>1, <1>7
    <3>2. image[c] = ws[1]
      BY <3>1
    <3>3. c \in 1..Len(image)
      OBVIOUS
    <3> QED BY <1>2, <3>2, <3>3
  <2>2. Runs(image, B, m + 1, 1) /\ m + 1 \in Nat
    BY RunsPart
  <2>3. B[(m + 1) + 1] = Step(image, B[m + 1])
    BY <2>2 DEF Runs
  <2>4. Step(image, With(s, c, l, f)) = With(s, c + 1, l, f)
    BY <1>1, <2>1, StepNotZero
  <2>5. (m + 1) + 1 = m + 2
    OBVIOUS
  <2> QED BY <1>8, <2>3, <2>4, <2>5
<1>10. /\ c + 1 \in 1..Len(image) /\ image[c + 1] = x
       /\ c + 2 \in 1..Len(image) /\ image[c + 2] = To("b", c + 2, p + 1) /\ c + 1 # p
  <2>1. c + 1 \in Text /\ c + 1 # p /\ image[c + 1] = ws[1 + 1]
    BY <1>7
  <2>2. c + 2 \in Text /\ image[c + 2] = ws[2 + 1]
    BY <1>7
  <2>3. 1 + 1 = 2 /\ 2 + 1 = 3
    OBVIOUS
  <2> QED BY <1>1, <1>2, <2>1, <2>2, <2>3
<1>11. r # c + 1
  <2>1. 1 + 1 \in 1..Len(ws) /\ c + (1 + 1) - 1 = c + 1
    BY <1>1, <1>2
  <2>2. was[c + 1].op \in Padding
    BY <1>3, <2>1 DEF Diverted
  <2> QED BY <1>6, <2>2 DEF S, Lands
<1>12. B[m + 3] = With(s, r, back, f)
  <2>1. Runs(image, B, m + 2, 1) /\ m + 2 \in Nat
    BY RunsPart
  <2>2. B[(m + 2) + 1] = Step(image, B[m + 2])
    BY <2>1 DEF Runs
  <2>3. Step(image, With(s, c + 1, l, f)) = Exec(With(s, c + 1, l, f), x)
    BY <1>10, StepWith
  <2>4. x.op = "bl" /\ x.d \in Int /\ (c + 1) + x.d = r /\ (c + 1) \in Int
    BY <1>1, <1>3, <1>5 DEF To, x
  <2> HIDE DEF x, r
  <2>5. Exec(With(s, c + 1, l, f), x) = With(s, r, [to |-> (c + 1) + 1, signed |-> FALSE], f)
    BY <1>5, <1>11, <2>4, StepCall
  <2>6. (m + 2) + 1 = m + 3 /\ (c + 1) + 1 = c + 2
    BY <1>1
  <2> QED BY <1>9, <2>2, <2>3, <2>5, <2>6 DEF back
<1>13. Similar(image, home, back)
  <2>1. home \in Link /\ back \in Link /\ home.signed = back.signed /\ home.to = p + 1 /\ back.to = c + 2
    BY <1>1 DEF Link, home, back
  <2>2. Bridge(image, c + 2, p + 1)
    BY <1>1, <1>10 DEF Bridge, Exit, Text
  <2> QED BY <2>1, <2>2 DEF Similar
<1> HIDE DEF home, back, r, x, S
<1>14. Links(image, S, back, f)
  BY <1>6, <1>13 DEF Links
<1>15. B[m + 3] = With(S, S.pc, back, f) /\ IsState(S)
  BY <1>6, <1>12, WithFields
<1>16. Sim(S, B[m + 3])
  BY <1>14, <1>15, SimIf
<1>17. 3 \in 1..16
  OBVIOUS
<1> QED BY <1>16, <1>17 DEF S

-----------------------------------------------------------------------------
(* The simulation *)

\* Where the tools divert.
Sites == {Guarded + 3} \cup Calls \cup Targets
\* Where they stop a null argument.
Hazard == {Guarded + 3} \cup Calls

\* A word that is at its address or diverted, in a run that has not stopped.
LEMMA FaithfulStep ==
  ASSUME Len(image) \in Nat, Text \subseteq 1..Len(image), NEW s, s.stop = "no",
         NEW p \in 1..Len(image), s.pc = p, was[p].op \notin Padding, p \in Hazard => s.x0 # Null,
         NEW w, w.op \in Ordinary, w.op = "bl" => w.d \in Int, Faithful(w, p),
         Exec(s, w).stop \in {"no", "returned"}, Exec(s, w).stop = "no" => Lands(s, w),
         NEW B, NEW m \in Nat, Sim(s, B[m]), Runs(image, B, m, Toll(s))
  PROVE  \E j \in 0..Toll(s) : Sim(Exec(s, w), B[m + j])
<1>1. p \in Int /\ p \in 1..Len(image)
  OBVIOUS
<1>2. PICK l, f : B[m] = With(s, p, l, f) /\ Links(image, s, l, f) /\ IsState(s)
  BY DEF Sim
<1>3. Toll(s) = IF p \in Sites THEN 16 ELSE 2
  BY DEF Toll, Sites, Detour
<1>4. CASE image[p] = w
  <2>1. Runs(image, B, m, 2)
    BY <1>3 DEF Runs
  <2>2. \E j \in 1..2 : Sim(Exec(s, w), B[m + j])
    BY <1>1, <1>2, <1>4, <2>1, PlainStep
  <2>3. 1..2 \subseteq 0..Toll(s)
    BY <1>3
  <2> QED BY <2>2, <2>3
<1>5. CASE image[p] # w
  <2>1. PICK c \in Text : Trapping(w, p, c) \/ Guarding(w, p, c) \/ Tracing(w, p, c)
    BY <1>5 DEF Faithful
  <2>2. p \in Sites
    BY <2>1 DEF Trapping, Guarding, Tracing, Sites
  <2>3. Toll(s) = 16
    BY <1>3, <2>2
  <2>8. p \in Text /\ p \in Int
    BY <1>1, <2>2, AddressAssumption DEF Sites
  <2>7. Runs(image, B, m, 16)
    BY <2>3
  <2>9. (\E j \in 1..16 : Sim(Exec(s, w), B[m + j])) => \E j \in 0..Toll(s) : Sim(Exec(s, w), B[m + j])
    <3>1. 1..16 \subseteq 0..Toll(s)
      BY <2>3
    <3> QED BY <3>1
  <2>4. CASE Trapping(w, p, c)
    <3>1. w.op = "bl" /\ s.x0 # Null
      BY <2>4 DEF Trapping, Hazard
    <3>2. Exec(s, w).stop = "no"
      <4>1. w.d # 0
        BY <1>2, <3>1, Calling
      <4> QED BY <1>2, <3>1, <4>1, Calling
    <3>3. Lands(s, w) /\ IsCall(w)
      BY <3>1, <3>2 DEF IsCall
    <3>4. \E j \in 1..16 : Sim(Exec(s, w), B[m + j])
      <4>1. IsState(s) /\ Links(image, s, l, f) /\ B[m] = With(s, p, l, f)
        BY <1>2
      <4>2. s.x0 # Null /\ Lands(s, w) /\ IsCall(w) /\ p \in Text /\ p \in Int
        BY <2>8, <3>1, <3>3
      <4> QED BY <2>4, <2>7, <4>1, <4>2, TrapStep
    <3> QED BY <2>9, <3>4
  <2>5. CASE Guarding(w, p, c)
    <3>1. s.x0 # Null
      BY <2>5 DEF Guarding, Hazard
    <3>2. \E j \in 1..16 : Sim(Exec(s, w), B[m + j])
      BY <1>2, <2>8, <2>5, <2>7, <3>1, GuardStep
    <3> QED BY <2>9, <3>2
  <2>6. CASE Tracing(w, p, c)
    <3>1. \E j \in 1..16 : Sim(Exec(s, w), B[m + j])
      BY <1>2, <2>8, <2>6, <2>7, TraceStep
    <3> QED BY <2>9, <3>1
  <2> QED BY <2>1, <2>4, <2>5, <2>6
<1> QED BY <1>4, <1>5

\* The words of P are in ref and, in the image, faithful to it.
Reflects(ref, P) ==
  \A p \in P : /\ p \in 1..Len(image) /\ p \in 1..Len(ref) /\ was[p].op \notin Padding
               /\ ref[p].op \in Ordinary /\ (ref[p].op = "bl" => ref[p].d \in Int)
               /\ Faithful(ref[p], p)

\* A is a run of ref over words of P, never with a null argument where one is
\* stopped.
Passes(ref, P, A, n) ==
  /\ \A k \in 0..(n - 1) : /\ A[k + 1] = Step(ref, A[k])
                           /\ A[k].stop = "no" => /\ A[k].pc \in P
                                                  /\ A[k].pc \in Hazard => A[k].x0 # Null
  /\ \A k \in 0..n : /\ A[k].stop \in {"no", "returned"}
                     /\ A[k].stop = "no" => was[A[k].pc].op \notin Padding

\* The tolls of the run A have been paid for.
Pays(A, paid, n, N) ==
  /\ \A k \in 0..n : paid[k] \in 0..N
  /\ \A k \in 0..(n - 1) : paid[k] + Toll(A[k]) <= paid[k + 1]

\* What is run in ref is run in the image, in no more steps than the tolls.
LEMMA Simulation ==
  ASSUME Len(image) \in Nat, Text \subseteq 1..Len(image), NEW ref, NEW P, Reflects(ref, P),
         NEW n \in Nat, NEW A, Passes(ref, P, A, n), NEW N \in Nat, NEW paid, Pays(A, paid, n, N),
         NEW B, Runs(image, B, 0, N), Sim(A[0], B[0])
  PROVE  \E m \in 0..N : Sim(A[n], B[m])
<1> DEFINE At(k) == \E m \in 0..paid[k] : Sim(A[k], B[m])
           K == {k \in Nat : k <= n => At(k)}
<1>1. 0 \in K
  <2>1. 0 \in 0..n /\ paid[0] \in 0..N
    BY DEF Pays
  <2>2. 0 \in 0..paid[0]
    BY <2>1
  <2> QED BY <2>2
<1>2. ASSUME NEW k \in Nat, k \in K PROVE k + 1 \in K
  <2> SUFFICES ASSUME k + 1 <= n PROVE At(k + 1)
    OBVIOUS
  <2>1. k \in 0..(n - 1) /\ k \in 0..n /\ k + 1 \in 0..n /\ k <= n
    OBVIOUS
  <2>2. PICK m \in 0..paid[k] : Sim(A[k], B[m])
    BY <1>2, <2>1
  <2> DEFINE s == A[k]
             S == A[k + 1]
  <2>3. /\ S = Step(ref, s) /\ s.stop \in {"no", "returned"} /\ S.stop \in {"no", "returned"}
        /\ S.stop = "no" => was[S.pc].op \notin Padding
        /\ s.stop = "no" => s.pc \in P /\ (s.pc \in Hazard => s.x0 # Null)
    BY <2>1 DEF Passes
  <2>4. paid[k] \in Nat /\ paid[k + 1] \in 0..N /\ paid[k] + Toll(s) <= paid[k + 1]
    BY <2>1 DEF Pays
  <2> HIDE DEF s, S
  <2>5. CASE s.stop # "no"
    <3>1. S = s /\ Toll(s) = 0
      BY <2>3, <2>5 DEF Step, Toll
    <3>2. m \in 0..paid[k + 1]
      BY <2>4, <3>1
    <3>3. Sim(S, B[m])
      BY <2>2, <3>1 DEF s
    <3> QED BY <3>2, <3>3 DEF S
  <2>6. CASE s.stop = "no"
    <3> DEFINE p == s.pc
               w == ref[p]
    <3>1. /\ p \in 1..Len(image) /\ p \in 1..Len(ref) /\ was[p].op \notin Padding
          /\ w.op \in Ordinary /\ (w.op = "bl" => w.d \in Int) /\ Faithful(w, p)
          /\ (p \in Hazard => s.x0 # Null)
      BY <2>3, <2>6 DEF Reflects
    <3>2. S = Exec(s, w)
      BY <2>3, <2>6, <3>1 DEF Step
    <3>3. Toll(s) \in {2, 16}
      BY <2>6 DEF Toll, Detour
    <3>4. Runs(image, B, m, Toll(s)) /\ m \in Nat
      <4>1. m + Toll(s) <= N /\ m \in Nat
        BY <2>4, <3>3
      <4> QED BY <3>3, <4>1 DEF Runs
    <3>5. Sim(s, B[m])
      BY <2>2 DEF s
    <3>6. s.pc = p
      OBVIOUS
    <3>9. Exec(s, w).stop \in {"no", "returned"} /\ (Exec(s, w).stop = "no" => Lands(s, w))
      BY <2>3, <3>2 DEF Lands
    <3> HIDE DEF p, w
    <3>7. PICK j \in 0..Toll(s) : Sim(Exec(s, w), B[m + j])
      BY <2>6, <3>1, <3>4, <3>5, <3>6, <3>9, FaithfulStep
    <3>8. m + j \in 0..paid[k + 1]
      BY <2>4, <3>3
    <3> QED BY <3>2, <3>7, <3>8 DEF S
  <2> QED BY <2>5, <2>6
<1> HIDE DEF K
<1>3. n \in K
  BY <1>1, <1>2, Counting
<1> USE DEF K
<1>4. PICK m \in 0..paid[n] : Sim(A[n], B[m])
  BY <1>3
<1>5. paid[n] \in 0..N
  BY DEF Pays
<1>6. m \in 0..N
  BY <1>5
<1> QED BY <1>4, <1>6

-----------------------------------------------------------------------------
(* The padding *)

\* The length of a function of the numbers from 1 to n.
LEMMA LenOf ==
  ASSUME NEW n \in Nat, NEW f, f = [i \in 1..n |-> f[i]]
  PROVE  Len(f) = n /\ DOMAIN f = 1..n
<1> DEFINE S == {f[i] : i \in 1..n}
<1>1. f \in [1..n -> S]
  OBVIOUS
<1>2. f \in Seq(S)
  BY <1>1
<1> QED BY <1>1, <1>2

\* The operations of instructions.
Code == Ops \ Padding

\* The image is as long as the kernel, and a word of padding in it has been
\* there from the start.
ImageInv ==
  /\ was \in Kernels
  /\ Len(image) = Size /\ DOMAIN image = 1..Size
  /\ \A i \in 1..Size : image[i].op \in Ops
  /\ \A i \in 1..Size : image[i].op \in Padding => was[i].op \in Padding

\* A stub took words that were padding, and none of them is padding any more.
StubInv ==
  /\ stubs \in Seq(SUBSET Int)
  /\ \A n \in DOMAIN stubs : \A i \in stubs[n] :
       i \in 1..Size /\ image[i].op \in Code /\ was[i].op \in Padding

\* The tools, by the names under which applied has them.
Tools == {"stub_hypercalls", "hvc_impl", "stub_scratch", "patch",
          "cond_trap", "null_guard", "trace_wait", "early_console"}

\* The padding's invariant.
IInv == ImageInv /\ StubInv /\ StubsApart /\ applied \subseteq Tools
-----------------------------------------------------------------------------
\* Addresses of the text are words of the kernel.
LEMMA TextInside ==
  ASSUME IInv
  PROVE  /\ Size \in Nat /\ Text \subseteq 1..Size /\ TextEnd \in Nat
         /\ Len(image) = Size
BY KernelAssumption, AddressAssumption DEF IInv, ImageInv, Size, Text

\* A tool that replaces words by instructions in place.
LEMMA InPlace ==
  ASSUME IInv, was' = was, stubs' = stubs, applied' \subseteq Tools,
         image' = [i \in 1..Size |-> image'[i]],
         \A i \in 1..Size : image'[i] = image[i] \/ image'[i].op \in Code
  PROVE  IInv'
<1>1. Len(image') = Size /\ DOMAIN image' = 1..Size
  BY TextInside, LenOf
<1>2. Size' = Size
  BY DEF Size
<1>3. ImageInv'
  BY <1>1, <1>2 DEF IInv, ImageInv, Code
<1>4. StubInv'
  BY <1>2 DEF IInv, StubInv
<1> QED BY <1>3, <1>4 DEF IInv, StubsApart

\* A diversion into padding.
LEMMA DivertKeeps ==
  ASSUME IInv, NEW tool \in Tools, NEW site \in Text, NEW cave \in Text, NEW words,
         Len(words) \in Nat, \A k \in 1..Len(words) : words[k].op \in Code,
         \A j \in cave..(cave + Len(words) - 1) : j \in Text /\ image[j].op \in Padding,
         Divert(tool, site, cave, words)
  PROVE  IInv'
<1> DEFINE taken == cave..(cave + Len(words) - 1)
           put == Put(image, cave, words)
<1>1. cave \in Nat /\ Size \in Nat /\ Text \subseteq 1..Size /\ Len(image) = Size
  BY TextInside DEF Text
<1>2. put = [i \in 1..Size |-> IF i \in taken THEN words[i - cave + 1] ELSE image[i]]
  BY <1>1 DEF Put
<1>3. \A i \in taken : put[i].op \in Code
  BY <1>1, <1>2
<1>4. \A i \in 1..Size \ taken : put[i] = image[i]
  BY <1>2
<1>5. image' = [put EXCEPT ![site] = To("b", site, cave)]
  BY DEF Divert
<1>6. To("b", site, cave).op \in Code
  BY DEF To, Code, Ops, Padding
<1> HIDE DEF put
<1>7. image' = [i \in 1..Size |-> IF i = site THEN To("b", site, cave) ELSE put[i]]
  BY <1>2, <1>5
<1>8. \A i \in 1..Size : image'[i] = image[i] \/ image'[i].op \in Code
  BY <1>3, <1>4, <1>6, <1>7
<1>9. \A i \in taken : i \in 1..Size /\ image'[i].op \in Code
  BY <1>1, <1>3, <1>6, <1>7
<1>10. Len(image') = Size /\ DOMAIN image' = 1..Size /\ Size' = Size /\ was' = was
  BY <1>1, <1>7, LenOf DEF Divert, Size
<1>11. ImageInv'
  BY <1>8, <1>10 DEF IInv, ImageInv, Code
<1>12. \A i \in taken : was[i].op \in Padding /\ image[i].op \notin Code
  BY <1>1 DEF IInv, ImageInv, Code
<1>13. /\ stubs \in Seq(SUBSET Int) /\ stubs' = Append(stubs, taken)
       /\ taken \in SUBSET Int
  BY <1>1 DEF IInv, StubInv, Divert
<1> HIDE DEF taken
<1>14. /\ stubs' \in Seq(SUBSET Int) /\ Len(stubs') = Len(stubs) + 1 /\ Len(stubs) \in Nat
       /\ DOMAIN stubs' = 1..(Len(stubs) + 1) /\ DOMAIN stubs = 1..Len(stubs)
       /\ stubs'[Len(stubs) + 1] = taken
       /\ \A n \in 1..Len(stubs) : stubs'[n] = stubs[n]
  BY <1>13
<1>15. \A n \in DOMAIN stubs : \A i \in stubs[n] :
         i \in 1..Size /\ image[i].op \in Code /\ was[i].op \in Padding
  BY DEF IInv, StubInv
<1>16. \A n \in DOMAIN stubs' : \A i \in stubs'[n] :
         i \in 1..Size /\ image'[i].op \in Code /\ was[i].op \in Padding
  BY <1>8, <1>9, <1>12, <1>14, <1>15
<1>17. StubInv'
  BY <1>10, <1>14, <1>16 DEF StubInv
<1>18. \A n \in DOMAIN stubs : stubs[n] \cap taken = {}
  BY <1>12, <1>15
<1>19. StubsApart'
  BY <1>10, <1>14, <1>16, <1>18 DEF IInv, StubsApart
<1> QED BY <1>11, <1>17, <1>19 DEF IInv, Divert

\* The tool diverts the word at site, and takes padding for its stub.
Diversion(tool, site) ==
  \E cave \in Text : \E words :
    /\ Len(words) \in Nat /\ \A k \in 1..Len(words) : words[k].op \in Code
    /\ \A j \in cave..(cave + Len(words) - 1) : j \in Text /\ image[j].op \in Padding
    /\ Divert(tool, site, cave, words)

\* A diversion keeps the padding's invariant.
LEMMA DiversionIInv ==
  ASSUME IInv, NEW tool \in Tools, NEW site \in Text, Diversion(tool, site)
  PROVE  IInv'
<1>1. PICK cave \in Text : \E words :
         /\ Len(words) \in Nat /\ \A k \in 1..Len(words) : words[k].op \in Code
         /\ \A j \in cave..(cave + Len(words) - 1) : j \in Text /\ image[j].op \in Padding
         /\ Divert(tool, site, cave, words)
  BY DEF Diversion
<1>2. PICK words :
         /\ Len(words) \in Nat /\ \A k \in 1..Len(words) : words[k].op \in Code
         /\ \A j \in cave..(cave + Len(words) - 1) : j \in Text /\ image[j].op \in Padding
         /\ Divert(tool, site, cave, words)
  BY <1>1
<1> QED BY <1>2, DivertKeeps

-----------------------------------------------------------------------------
(* The searches find padding *)

\* What find_padding returns is the start of want words of zeros.
LEMMA FindPadding ==
  ASSUME IInv, NEW want \in Nat \ {0}, NEW near \in Text,
         find_padding(image, want, near) # 0
  PROVE  LET a == find_padding(image, want, near)
         IN a \in Text /\ Zeros(image, a, want)
<1> DEFINE found == {i \in Text : /\ Zeros(image, i, want)
                                  /\ (i - RunStart(image, i)) % want = 0}
           nearer(a, b) == \/ Distance(a, near) < Distance(b, near)
                           \/ Distance(a, near) = Distance(b, near) /\ a <= b
<1>1. found \subseteq Text /\ Text \subseteq Nat /\ near \in Nat /\ found # {}
  BY TextInside DEF find_padding, Text
<1>2. \A a \in found : Zeros(image, a, want)
  OBVIOUS
<1>3. find_padding(image, want, near) = CHOOSE a \in found : \A b \in found : nearer(a, b)
  BY <1>1 DEF find_padding
<1> HIDE DEF found
<1>4. \E a \in found : \A b \in found : nearer(a, b)
  <2> DEFINE distances == {Distance(a, near) : a \in found}
  <2>1. distances \in SUBSET Nat /\ distances # {}
    <3>1. \A a \in found : a \in Nat
      BY <1>1
    <3>2. \A a \in found : Distance(a, near) \in Nat
      BY <1>1, <3>1 DEF Distance
    <3> QED BY <1>1, <3>2
  <2>2. PICK d \in distances : \A e \in distances : d <= e
    BY <2>1, Smallest
  <2> DEFINE nearest == {a \in found : Distance(a, near) = d}
  <2>3. nearest \in SUBSET Nat /\ nearest # {}
    BY <1>1, <2>2
  <2>4. PICK a \in nearest : \A b \in nearest : a <= b
    BY <2>3, Smallest
  <2>5. \A b \in found : Distance(b, near) \in Nat /\ d <= Distance(b, near)
    BY <2>1, <2>2
  <2>6. a \in found /\ Distance(a, near) = d /\ d \in Nat
    BY <2>1, <2>4
  <2>7. ASSUME NEW b \in found
        PROVE  nearer(a, b)
    <3>1. CASE Distance(b, near) = d
      BY <2>4, <2>6, <3>1
    <3>2. CASE Distance(b, near) # d
      BY <2>5, <2>6, <3>2
    <3> QED BY <3>1, <3>2
  <2> QED BY <2>6, <2>7
<1> HIDE DEF nearer
<1> QED BY <1>1, <1>2, <1>3, <1>4

\* What find_run returns is the start of sixteen words of zeros, or the word
\* before it if that one is a literal.
LEMMA FindRun ==
  ASSUME IInv, find_run(image) # 0
  PROVE  LET a == find_run(image)
         IN /\ a \in Text
            /\ \/ Zeros(image, a, 16)
               \/ ~Aligned(image, a) /\ Zeros(image, a + 1, 16)
<1> DEFINE found == {i \in Text : Zeros(image, i, CaveWords)}
           first == CHOOSE a \in found : \A b \in found : a <= b
<1>1. found \in SUBSET Nat /\ found # {}
  BY TextInside DEF find_run, Text
<1>2. first \in found
  <2> HIDE DEF found
  <2> QED BY <1>1, Smallest
<1>3. first \in Text /\ Zeros(image, first, 16)
  BY <1>2 DEF CaveWords
<1>4. find_run(image) = IF first > 1 /\ ZeroTail(image[first - 1]) THEN first - 1 ELSE first
  BY <1>1 DEF find_run
<1> HIDE DEF first
<1>5. CASE first > 1 /\ ZeroTail(image[first - 1])
  <2>1. find_run(image) = first - 1 /\ first \in Int
    BY <1>3, <1>4, <1>5, TextInside DEF Text
  <2>2. first - 1 \in Text /\ first - 1 + 1 = first
    BY <1>3, <1>5, TextInside DEF Text
  <2> QED BY <1>3, <1>5, <2>1, <2>2 DEF Aligned
<1>6. CASE ~(first > 1 /\ ZeroTail(image[first - 1]))
  BY <1>3, <1>4, <1>6
<1> QED BY <1>5, <1>6

\* The word a diversion moves is an instruction.
LEMMA MovedWord ==
  ASSUME IInv, NEW site \in {Guarded + 3} \cup Targets
  PROVE  site \in Text /\ image[site].op \in Code
BY TextInside, SiteAssumption, AddressAssumption DEF IInv, ImageInv, Code

-----------------------------------------------------------------------------
(* One lemma per kind of tool *)

\* Answering hypercalls, and patching a known address.
LEMMA AnswerIInv ==
  ASSUME IInv, StubHypercalls \/ HvcImpl \/ StubScratch \/ Patch
  PROVE  IInv'
<1>1. applied' \subseteq Tools /\ was' = was /\ stubs' = stubs
  BY DEF StubHypercalls, HvcImpl, StubScratch, Patch, IInv, Tools
<1>2. W("movz_0").op \in Code /\ W("adrp_x0").op \in Code /\ W("nop").op \in Code
  BY DEF W, Code, Ops, Padding
<1>3. ASSUME NEW sites, image' = Answer(sites)
      PROVE  IInv'
  <2>1. image' = [i \in 1..Size |-> IF i \in sites THEN W("movz_0") ELSE image[i]]
    BY <1>3 DEF Answer
  <2>2. image' = [i \in 1..Size |-> image'[i]]
    BY <2>1
  <2>3. \A i \in 1..Size : image'[i] = image[i] \/ image'[i].op \in Code
    BY <1>2, <2>1
  <2> QED BY <1>1, <2>2, <2>3, InPlace
<1>4. CASE StubHypercalls
  BY <1>3, <1>4 DEF StubHypercalls
<1>5. CASE HvcImpl
  BY <1>3, <1>5 DEF HvcImpl
<1>6. CASE StubScratch
  <2> DEFINE sites == ScratchSites(image)
  <2>1. image' = [i \in 1..Size |-> CASE i \in sites -> W("adrp_x0")
                                      [] i - 1 \in sites -> W("nop")
                                      [] OTHER -> image[i]]
    BY <1>6 DEF StubScratch
  <2> HIDE DEF sites
  <2>2. image' = [i \in 1..Size |-> image'[i]]
    BY <2>1
  <2>3. \A i \in 1..Size : image'[i] = image[i] \/ image'[i].op \in Code
    BY <1>2, <2>1
  <2> QED BY <1>1, <2>2, <2>3, InPlace
<1>7. CASE Patch
  <2>1. image' = [image EXCEPT ![PvSite] = W("movz_0")]
    BY <1>7 DEF Patch
  <2>2. DOMAIN image = 1..Size
    BY DEF IInv, ImageInv
  <2>3. image' = [i \in 1..Size |-> image'[i]]
    BY <2>1, <2>2
  <2>4. \A i \in 1..Size : image'[i] = image[i] \/ image'[i].op \in Code
    BY <1>2, <2>1, <2>2
  <2> QED BY <1>1, <2>3, <2>4, InPlace
<1> QED BY <1>4, <1>5, <1>6, <1>7

\* The routine of early_console is written over instructions or padding alike.
LEMMA ConsoleIInv ==
  ASSUME IInv, EarlyConsole(Printer)
  PROVE  IInv'
<1> DEFINE ws == build(Printer)
<1>1. Len(ws) = 11 /\ \A k \in 1..11 : ws[k].op \in Code
  <2> DEFINE head == [i \in 1..4 |-> W("uart_address")]
             tail == <<W("ldrb_x0"), To("cbz_char", Printer + 5, Printer + 10), W("ldr_fr"),
                       To("tbnz_full", Printer + 7, Printer + 6), W("str_dr"),
                       To("b", Printer + 9, Printer + 4), W("ret")>>
  <2>1. ws = head \o tail
    BY DEF build
  <2>2. Len(head) = 4 /\ \A k \in 1..4 : head[k].op \in Code
    BY DEF W, Code, Ops, Padding
  <2>3. Len(tail) = 7 /\ \A k \in 1..7 : tail[k].op \in Code
    BY DEF W, To, Code, Ops, Padding
  <2> QED BY <2>1, <2>2, <2>3
<1>2. Printer \in Nat /\ Size \in Nat /\ Len(image) = Size
  BY TextInside, AddressAssumption DEF Text
<1>3. image' = [i \in 1..Size |-> IF i \in Printer..(Printer + Len(ws) - 1)
                                  THEN ws[i - Printer + 1] ELSE image[i]]
  BY <1>2 DEF EarlyConsole, Put
<1>4. applied' \subseteq Tools /\ was' = was /\ stubs' = stubs
  BY DEF EarlyConsole, IInv, Tools
<1> HIDE DEF ws
<1>5. image' = [i \in 1..Size |-> image'[i]]
  BY <1>3
<1>6. \A i \in 1..Size : image'[i] = image[i] \/ image'[i].op \in Code
  BY <1>1, <1>2, <1>3
<1> QED BY <1>4, <1>5, <1>6, InPlace

\* cond_trap's stub is the eight words it asked for.
LEMMA CondTrapDiverts ==
  ASSUME IInv, NEW site \in Calls, CondTrap(site)
  PROVE  Diversion("cond_trap", site)
<1> DEFINE stub == find_padding(image, 8, site)
           words == <<[op |-> "cbz", d |-> 4],
                      To("bl", stub + 1, site + image[site].d),
                      To("b", stub + 2, site + 1),
                      W("nop"), W("save"), W("save"), W("save"),
                      [op |-> "b", d |-> 0]>>
<1>1. stub # 0 /\ Divert("cond_trap", site, stub, words)
  BY DEF CondTrap
<1>2. site \in Text
  BY AddressAssumption
<1>3. stub \in Text /\ Zeros(image, stub, 8)
  BY <1>1, <1>2, FindPadding
<1>4. Len(words) = 8 /\ \A k \in 1..8 : words[k].op \in Code
  BY DEF To, W, Code, Ops, Padding
<1> HIDE DEF words, stub
<1>5. \A j \in stub..(stub + Len(words) - 1) : j \in Text /\ image[j].op \in Padding
  BY <1>3, <1>4 DEF Zeros, Padding
<1>6. Len(words) \in Nat /\ \A k \in 1..Len(words) : words[k].op \in Code
  BY <1>4
<1> QED BY <1>1, <1>3, <1>5, <1>6 DEF Diversion

\* null_guard asks for six words and writes five.
LEMMA NullGuardDiverts ==
  ASSUME IInv, NullGuard
  PROVE  Diversion("null_guard", Guarded + 3)
<1> DEFINE site == Guarded + 3
           stub == find_padding(image, 6, site)
           words == <<[op |-> "cbz", d |-> 3], image[site], To("b", stub + 2, site + 1),
                      W("ldp_frame"), W("retab")>>
<1>1. stub # 0 /\ Divert("null_guard", site, stub, words)
  BY DEF NullGuard
<1>2. site \in Text /\ image[site].op \in Code
  BY MovedWord
<1>3. stub \in Text /\ Zeros(image, stub, 6)
  BY <1>1, <1>2, FindPadding
<1>4. Len(words) = 5 /\ \A k \in 1..5 : words[k].op \in Code
  BY <1>2 DEF To, W, Code, Ops, Padding
<1> HIDE DEF words, stub, site
<1>5. stub \in Int /\ \A j \in stub..(stub + 5) : j \in Text /\ image[j].op \in Padding
  BY <1>3 DEF Zeros, Padding, Text
<1>6. \A j \in stub..(stub + Len(words) - 1) : j \in Text /\ image[j].op \in Padding
  BY <1>4, <1>5
<1>7. Len(words) \in Nat /\ \A k \in 1..Len(words) : words[k].op \in Code
  BY <1>4
<1> QED BY <1>1, <1>3, <1>6, <1>7 DEF Diversion, site

\* trace_wait writes fifteen words into an aligned cave, and sixteen words'
\* worth of bytes from the literal on into one that is not.
LEMMA TraceWaitDiverts ==
  ASSUME IInv, NEW target \in Targets, NEW given \in BOOLEAN, TraceWait(target, given)
  PROVE  Diversion("trace_wait", target)
<1> DEFINE cave == find_run(image)
           detour == [i \in 1..13 |-> W("record")]
                       \o <<image[target], To("b", cave + 14, target + 1)>>
           garbage == [i \in 1..CaveWords |-> W("garbage")]
           words == IF Aligned(image, cave) THEN detour ELSE garbage
<1>1. cave # 0 /\ Divert("trace_wait", target, cave, words)
  BY DEF TraceWait
<1>2. target \in Text /\ image[target].op \in Code
  BY MovedWord
<1>3. /\ cave \in Text
      /\ \/ Zeros(image, cave, 16)
         \/ ~Aligned(image, cave) /\ Zeros(image, cave + 1, 16)
  BY <1>1, FindRun
<1>4. Len(detour) = 15 /\ \A k \in 1..15 : detour[k].op \in Code
  <2> DEFINE head == [i \in 1..13 |-> W("record")]
             tail == <<image[target], To("b", cave + 14, target + 1)>>
  <2>1. detour = head \o tail
    OBVIOUS
  <2>2. Len(head) = 13 /\ \A k \in 1..13 : head[k].op \in Code
    BY DEF W, Code, Ops, Padding
  <2>3. Len(tail) = 2 /\ \A k \in 1..2 : tail[k].op \in Code
    BY <1>2 DEF To, Code, Ops, Padding
  <2> QED BY <2>1, <2>2, <2>3
<1>5. Len(garbage) = 16 /\ \A k \in 1..16 : garbage[k].op \in Code
  BY DEF CaveWords, W, Code, Ops, Padding
<1> HIDE DEF detour, garbage
<1>6. /\ Len(words) \in {15, 16}
      /\ \A k \in 1..Len(words) : words[k].op \in Code
  BY <1>4, <1>5
<1> HIDE DEF words, cave
<1>7. \A j \in cave..(cave + Len(words) - 1) : j \in Text /\ image[j].op \in Padding
  <2>1. /\ cave \in Int
        /\ \A j \in cave..(cave + Len(words) - 1) : j \in cave..(cave + 15)
    <3>1. cave \in Int
      BY <1>3 DEF Text
    <3>2. \A n \in {15, 16} : \A j \in cave..(cave + n - 1) : j \in cave..(cave + 15)
      BY <3>1
    <3> QED BY <1>6, <3>1, <3>2
  <2>2. CASE Zeros(image, cave, 16)
    <3>1. \A j \in cave..(cave + 15) : j \in Text /\ image[j].op \in Padding
      BY <2>1, <2>2 DEF Zeros, Padding
    <3> QED BY <2>1, <3>1
  <2>3. CASE ~Aligned(image, cave) /\ Zeros(image, cave + 1, 16)
    <3>1. \A j \in (cave + 1)..(cave + 16) : j \in Text /\ image[j].op \in Padding
      BY <2>1, <2>3 DEF Zeros, Padding
    <3>2. image[cave].op \in Padding
      BY <2>3 DEF Aligned, ZeroTail, Padding
    <3>3. \A j \in cave..(cave + 15) : j = cave \/ j \in (cave + 1)..(cave + 16)
      BY <2>1
    <3> QED BY <1>3, <2>1, <3>1, <3>2, <3>3
  <2> QED BY <1>3, <2>2, <2>3
<1> QED BY <1>1, <1>3, <1>6, <1>7 DEF Diversion

-----------------------------------------------------------------------------
\* The words of a kernel.
LEMMA KernelWords ==
  ASSUME NEW k \in Kernels
  PROVE  \A i \in 1..Len(k) : k[i].op \in Ops /\ (k[i].op = "bl" => k[i].d \in Int)
BY KernelAssumption, Zenon

\* The kernel nobody has patched.
LEMMA InitIInv == Init => IInv
<1> SUFFICES ASSUME Init PROVE IInv
  OBVIOUS
<1>1. was \in Kernels /\ image = was /\ Len(was) \in Nat /\ was = [i \in 1..Len(was) |-> was[i]]
  BY KernelAssumption DEF Init
<1>2. ImageInv
  <2>1. \A i \in 1..Size : was[i].op \in Ops
    BY <1>1, KernelWords DEF Size
  <2>2. DOMAIN was = 1..Size
    BY <1>1 DEF Size
  <2> QED BY <1>1, <2>1, <2>2 DEF ImageInv, Size
<1>3. stubs = <<>> /\ applied = {}
  BY DEF Init
<1> QED BY <1>2, <1>3 DEF IInv, StubInv, StubsApart

\* Every tool keeps the padding's invariant.
LEMMA StepIInv == IInv /\ [Next]_vars => IInv'
<1> SUFFICES ASSUME IInv, [Next]_vars PROVE IInv'
  OBVIOUS
<1>1. CASE UNCHANGED vars
  <2>1. ImageInv' /\ StubInv'
    BY <1>1 DEF vars, IInv, ImageInv, StubInv, Size
  <2> QED BY <1>1, <2>1 DEF vars, IInv, StubsApart
<1>2. ASSUME NEW tool \in Tools, NEW site \in {Guarded + 3} \cup Calls \cup Targets, Diversion(tool, site)
      PROVE  IInv'
  <2>1. site \in Text
    BY AddressAssumption
  <2> QED BY <1>2, <2>1, DiversionIInv
<1>3. {"cond_trap", "null_guard", "trace_wait"} \subseteq Tools
  BY DEF Tools
<1> QED BY <1>1, <1>2, <1>3, AnswerIInv, ConsoleIInv, CondTrapDiverts, NullGuardDiverts, TraceWaitDiverts
        DEF Next

\* The padding's invariant holds after any sequence of tools.
THEOREM PaddingInvariant == Spec => []IInv
BY InitIInv, StepIInv, PTL DEF Spec

\* For every kernel and every sequence of tools the file stays as long as it
\* was and is made of words the tools know.
THEOREM PatchesTypeCorrect == Spec => []TypeOK
<1>1. IInv => TypeOK
  <2> SUFFICES ASSUME IInv PROVE TypeOK
    OBVIOUS
  <2>1. DOMAIN was = 1..Size
    BY KernelAssumption DEF IInv, ImageInv, Size
  <2> QED BY <2>1 DEF IInv, ImageInv, StubInv, Tools, TypeOK
<1> QED BY <1>1, PaddingInvariant, PTL

\* For every kernel whose diverted words are instructions, whatever tools are
\* run and in whatever order: each stub lies in padding of the kernel as it
\* was, and no two of them share a word.
THEOREM StubsApartCorrect == Spec => []StubsApart
<1>1. IInv => StubsApart
  BY DEF IInv
<1> QED BY <1>1, PaddingInvariant, PTL

\* A toll is paid for each step.
LEMMA PaidOf ==
  ASSUME NEW A, NEW n \in Nat
  PROVE  /\ Paid(A, n)[0] = 0
         /\ \A k \in 0..(n - 1) : Paid(A, n)[k + 1] = Paid(A, n)[k] + Toll(A[k])
<1> DEFINE Is(f, m) == f = [k \in 0..m |-> IF k = 0 THEN 0 ELSE f[k - 1] + Toll(A[k - 1])]
           S == {m \in Nat : \E f : Is(f, m)}
<1>1. 0 \in S
  <2>1. Is([k \in 0..0 |-> 0], 0)
    OBVIOUS
  <2> QED BY <2>1
<1>2. ASSUME NEW m \in Nat, m \in S PROVE m + 1 \in S
  <2>1. PICK f : Is(f, m)
    BY <1>2
  <2> DEFINE g == [k \in 0..(m + 1) |-> IF k = m + 1 THEN f[m] + Toll(A[m]) ELSE f[k]]
  <2>2. \A k \in 0..(m + 1) : g[k] = IF k = 0 THEN 0 ELSE g[k - 1] + Toll(A[k - 1])
    <3>1. g[0] = 0
      BY <2>1
    <3>2. ASSUME NEW k \in 1..(m + 1) PROVE g[k] = g[k - 1] + Toll(A[k - 1])
      <4>1. k - 1 \in 0..m /\ k - 1 # m + 1 /\ g[k - 1] = f[k - 1]
        OBVIOUS
      <4>2. CASE k = m + 1
        <5>1. k - 1 = m /\ g[k] = f[m] + Toll(A[m])
          BY <4>2
        <5> QED BY <4>1, <5>1
      <4>3. CASE k # m + 1
        BY <4>1, <4>3, <2>1
      <4> QED BY <4>2, <4>3
    <3>3. \A k \in 0..(m + 1) : k # 0 => k \in 1..(m + 1)
      OBVIOUS
    <3> HIDE DEF g
    <3> QED BY <3>1, <3>2, <3>3
  <2>3. g = [k \in 0..(m + 1) |-> g[k]]
    OBVIOUS
  <2> HIDE DEF g
  <2>4. Is(g, m + 1)
    BY <2>2, <2>3
  <2> QED BY <2>4
<1> HIDE DEF S
<1>3. n \in S
  BY <1>1, <1>2, Counting
<1> USE DEF S
<1>4. Paid(A, n) = CHOOSE f : Is(f, n)
  BY DEF Paid
<1>5. Is(Paid(A, n), n)
  BY <1>3, <1>4
<1> HIDE DEF S
<1> DEFINE F == Paid(A, n)
<1> HIDE DEF F
<1>6. F = [k \in 0..n |-> IF k = 0 THEN 0 ELSE F[k - 1] + Toll(A[k - 1])]
  BY <1>5 DEF F
<1>7. ASSUME NEW k \in 0..(n - 1) PROVE F[k + 1] = F[k] + Toll(A[k])
  <2>1. k + 1 \in 0..n /\ k + 1 # 0 /\ k + 1 - 1 = k
    OBVIOUS
  <2> QED BY <1>6, <2>1
<1>8. F[0] = 0
  BY <1>6
<1> QED BY <1>7, <1>8 DEF F

\* A toll is nothing, two steps or a detour.
LEMMA TollIs == \A s : Toll(s) \in {0, 2, 16}
BY DEF Toll, Detour

\* If all can be paid in the end, it could be paid all along.
LEMMA PaysAlong ==
  ASSUME NEW A, NEW n \in Nat, NEW N \in Nat, Paid(A, n)[n] <= N
  PROVE  Pays(A, Paid(A, n), n, N)
<1> DEFINE F == Paid(A, n)
           Up == {k \in Nat : k <= n => F[k] \in Nat}
           Down == {k \in Nat : k <= n => F[n - k] <= N}
<1>1. F[0] = 0 /\ \A k \in 0..(n - 1) : F[k + 1] = F[k] + Toll(A[k])
  BY PaidOf
<1>2. F[n] <= N
  OBVIOUS
<1> HIDE DEF F
<1>3. Nat \subseteq Up
  <2>1. 0 \in Up
    BY <1>1
  <2>2. ASSUME NEW k \in Nat, k \in Up PROVE k + 1 \in Up
    <3> SUFFICES ASSUME k + 1 <= n PROVE F[k + 1] \in Nat
      OBVIOUS
    <3>1. k \in 0..(n - 1) /\ F[k] \in Nat
      BY <2>2
    <3>2. F[k + 1] = F[k] + Toll(A[k]) /\ Toll(A[k]) \in {0, 2, 16}
      BY <1>1, <3>1, TollIs
    <3> QED BY <3>1, <3>2
  <2> HIDE DEF Up
  <2> QED BY <2>1, <2>2, Counting
<1>4. \A k \in 0..n : F[k] \in Nat
  BY <1>3
<1>5. Nat \subseteq Down
  <2>1. 0 \in Down
    <3>1. n - 0 = n
      OBVIOUS
    <3> QED BY <1>2, <3>1
  <2>2. ASSUME NEW k \in Nat, k \in Down PROVE k + 1 \in Down
    <3> SUFFICES ASSUME k + 1 <= n PROVE F[n - (k + 1)] <= N
      OBVIOUS
    <3> DEFINE i == n - (k + 1)
    <3>1. i \in 0..(n - 1) /\ i \in 0..n /\ i + 1 \in 0..n /\ i + 1 = n - k /\ k <= n
      OBVIOUS
    <3>2. F[n - k] <= N
      BY <2>2, <3>1
    <3>3. F[i + 1] = F[i] + Toll(A[i]) /\ Toll(A[i]) \in {0, 2, 16}
      BY <1>1, <3>1, TollIs
    <3>4. F[i] \in Nat /\ F[i + 1] \in Nat
      BY <1>4, <3>1
    <3>5. F[i + 1] <= N
      BY <3>1, <3>2
    <3> HIDE DEF i
    <3>6. F[i] <= N
      BY <3>3, <3>4, <3>5
    <3> QED BY <3>6 DEF i
  <2> HIDE DEF Down
  <2> QED BY <2>1, <2>2, Counting
<1>6. ASSUME NEW k \in 0..n PROVE F[k] \in 0..N
  <2>1. n - k \in Nat /\ n - k <= n /\ n - (n - k) = k
    OBVIOUS
  <2>2. F[k] <= N
    BY <1>5, <2>1
  <2> QED BY <1>4, <2>2
<1>7. ASSUME NEW k \in 0..(n - 1) PROVE F[k] + Toll(A[k]) <= F[k + 1]
  <2>1. F[k + 1] = F[k] + Toll(A[k]) /\ k + 1 \in 0..n
    BY <1>1
  <2>2. F[k + 1] \in Nat
    BY <1>4, <2>1
  <2> QED BY <2>1, <2>2
<1> QED BY <1>6, <1>7 DEF Pays, F

\* The word of the console's routine at address p.
ConsoleWord(p) == build(Printer)[p - Printer + 1]

\* As long as what was moved can be moved: the words that no tool answers or
\* overwrites are faithful, those of the console are once it is there, and the
\* guard is in place once it has been set.
KeptInv ==
  Movable =>
    /\ \A p \in Text : Undisturbed(was, p) => Faithful(was[p], p)
    /\ "early_console" \in applied =>
         PrintArea \subseteq 1..Size /\ \A p \in PrintArea : Faithful(ConsoleWord(p), p)
    /\ "null_guard" \in applied => \E c \in Text : Guarding(was[Guarded + 3], Guarded + 3, c)

\* No word of the booting routine is one it had not, or an answer; a word that
\* spins follows the call it checks, or the zero that answers it.
Answered == applied \cap {"stub_hypercalls", "hvc_impl", "stub_scratch"} # {}
BootInv ==
  /\ image[BootEnd].op = "ret"
  /\ \A i \in Boot..(BootEnd - 1) :
       /\ image[i].op \in Straight \cup {"str_x0", "mov_x0", "hvc", "cbnz_self", "movz_0", "adrp_x0"}
       /\ image[i].op = "cbnz_self" =>
            /\ i > Boot
            /\ image[i - 1].op \in {"hvc", "movz_0"}
            /\ Answered => image[i - 1].op = "movz_0"

-----------------------------------------------------------------------------
(* What the invariant says of runs *)

\* A run that starts is alike itself.
LEMMA StartSim ==
  ASSUME NEW e \in Int, NEW x, NEW n, NEW busy
  PROVE  LET s == Start(e, x, n, busy)
         IN Sim(s, s) /\ s.pc = e /\ s.x0 = x /\ s.stop = "no" /\ IsState(s)
<1> DEFINE s == Start(e, x, n, busy)
<1>1. s.pc = e /\ s.x0 = x /\ s.stop = "no" /\ s.lr = [to |-> Exit, signed |-> FALSE] /\ s.frames = <<>>
  BY DEF Start
<1>2. IsState(s)
  BY DEF Start, IsState
<1> HIDE DEF s
<1>3. s.lr \in Link /\ Similar(image, s.lr, s.lr)
  BY <1>1 DEF Link, Similar, Exit
<1>4. s.frames \in Seq(Link) /\ Len(s.frames) = 0
  BY <1>1
<1>5. Links(image, s, s.lr, s.frames)
  BY <1>3, <1>4 DEF Links
<1>6. s = With(s, s.pc, s.lr, s.frames)
  BY <1>2, WithFields
<1>7. Sim(s, s)
  BY <1>2, <1>5, <1>6, SimIf
<1> QED BY <1>1, <1>2, <1>7 DEF s

\* The states of a run are a run.
LEMMA StepsRuns ==
  ASSUME NEW img, NEW s0, NEW n \in Nat
  PROVE  Runs(img, Steps(img, s0, n), 0, n) /\ Steps(img, s0, n)[0] = s0
<1>1. 0 + n - 1 = n - 1
  OBVIOUS
<1> QED BY <1>1, StepsOf DEF Runs

\* Alike runs that have stopped have done the same.
LEMMA SimStopped ==
  ASSUME NEW s, NEW t, Sim(s, t)
  PROVE  t.stop = s.stop /\ t.events = s.events
BY WithFields DEF Sim

\* The image, its text and the kernel.
LEMMA ImageText ==
  ASSUME IInv
  PROVE  Len(image) = Size /\ Size \in Nat /\ Text \subseteq 1..Len(image) /\ was \in Kernels
         /\ Size = Len(was)
BY TextInside DEF IInv, ImageInv, Size

\* A routine that is quiet does in the image what it does in the kernel.
LEMMA QuietKept ==
  ASSUME IInv, KeptInv, Movable, NEW e \in Int, Quiet(was, Start(e, 1, 0, 0))
  PROVE  Behaviour(image, e, 1) = Behaviour(was, e, 1)
<1> DEFINE s0 == Start(e, 1, 0, 0)
           A == Steps(was, s0, Fuel)
           B == Steps(image, s0, Fuel)
           P == {p \in Text : Undisturbed(was, p)}
           paid == Paid(A, Fuel)
<1>1. Fuel \in Nat
  BY FuelAssumption
<1>2. /\ Len(image) = Size /\ Size \in Nat /\ Text \subseteq 1..Len(image) /\ was \in Kernels
      /\ Size = Len(was)
  BY ImageText
<1>3. /\ A[Fuel].stop = "returned" /\ paid[Fuel] <= Fuel
      /\ \A k \in 0..Fuel : A[k].stop = "no" =>
           Undisturbed(was, A[k].pc) /\ (A[k].pc \in Hazard => A[k].x0 # Null)
  BY DEF Quiet, Hazard
<1>4. A[0] = s0 /\ (\A k \in 0..(Fuel - 1) : A[k + 1] = Step(was, A[k])) /\ Runs(was, A, 0, Fuel)
  BY <1>1, StepsOf, StepsRuns
<1>5. B[0] = s0 /\ (\A k \in 0..(Fuel - 1) : B[k + 1] = Step(image, B[k])) /\ Runs(image, B, 0, Fuel)
  BY <1>1, StepsOf, StepsRuns
<1>6. Sim(s0, s0)
  BY StartSim
<1>7. Pays(A, paid, Fuel, Fuel)
  BY <1>1, <1>3, PaysAlong
<1> HIDE DEF A, B, s0, paid
<1>8. \A p \in Text : Undisturbed(was, p) => was[p].op \in Ordinary /\ was[p].op \notin Padding
  BY DEF Undisturbed, Ordinary
<1>9. Reflects(was, P)
  <2> SUFFICES ASSUME NEW p \in P
               PROVE  /\ p \in 1..Len(image) /\ p \in 1..Len(was) /\ was[p].op \notin Padding
                      /\ was[p].op \in Ordinary /\ (was[p].op = "bl" => was[p].d \in Int)
                      /\ Faithful(was[p], p)
    BY DEF Reflects
  <2>1. p \in 1..Len(was) /\ p \in 1..Len(image)
    BY <1>2
  <2>2. Faithful(was[p], p)
    BY DEF KeptInv
  <2> QED BY <1>2, <1>8, <2>1, <2>2, KernelWords
<1>10. \A k \in 0..Fuel : A[k].stop \in {"no", "returned"}
  <2> SUFFICES ASSUME NEW k \in 0..Fuel, A[k].stop # "no" PROVE A[k].stop = "returned"
    OBVIOUS
  <2>1. A[Fuel] = A[k]
    BY <1>1, <1>4, Stopped
  <2> QED BY <1>3, <2>1
<1>11. Passes(was, P, A, Fuel)
  <2>1. \A k \in 0..(Fuel - 1) : k \in 0..Fuel
    BY <1>1
  <2>2. \A k \in 0..Fuel : A[k].stop = "no" => A[k].pc \in P /\ was[A[k].pc].op \notin Padding
    BY <1>3, <1>8 DEF Undisturbed
  <2> HIDE DEF P
  <2> QED BY <1>3, <1>4, <1>10, <2>1, <2>2 DEF Passes
<1> HIDE DEF P
<1>12. PICK m \in 0..Fuel : Sim(A[Fuel], B[m])
  BY <1>1, <1>2, <1>4, <1>5, <1>6, <1>7, <1>9, <1>11, Simulation
<1>13. B[m].stop = "returned" /\ B[m].events = A[Fuel].events
  BY <1>3, <1>12, SimStopped
<1>14. B[Fuel] = B[m]
  BY <1>1, <1>5, <1>13, Stopped
<1>15. Behaviour(image, e, 1) = <<B[Fuel].stop, B[Fuel].events>>
  BY DEF Behaviour, Run, B, s0
<1>16. Behaviour(was, e, 1) = <<A[Fuel].stop, A[Fuel].events>>
  BY DEF Behaviour, Run, A, s0
<1> QED BY <1>3, <1>13, <1>14, <1>15, <1>16

\* The invariant says that every routine does for a valid pointer what it did.
LEMMA WorkKeptFrom ==
  ASSUME IInv, KeptInv
  PROVE  WorkKept
<1> SUFFICES ASSUME Movable, NEW e \in Entries
             PROVE  Behaviour(image, e, 1) = Behaviour(was, e, 1)
  BY DEF WorkKept
<1>1. was \in Kernels
  BY ImageText
<1>2. Quiet(was, Start(e, 1, 0, 0)) /\ e \in Int
  BY <1>1, EntryAssumption, AddressAssumption DEF Text
<1> QED BY <1>2, QuietKept

-----------------------------------------------------------------------------
(* A null argument *)

\* The call that was diverted stops in its stub.
LEMMA TrapHandled ==
  ASSUME IInv, KeptInv, Movable, NEW p \in Calls, image[p].op = "b"
  PROVE  Behaviour(image, p, Null) = <<"spins", <<>>>>
<1>1. /\ Len(image) = Size /\ Size \in Nat /\ Text \subseteq 1..Len(image) /\ was \in Kernels
      /\ Len(image) \in Nat
  BY ImageText
<1>2. /\ p \in Text /\ Undisturbed(was, p) /\ was[p].op = "bl" /\ was[p].op \notin Padding /\ p \in Int
  BY <1>1, RoutineAssumption, AddressAssumption DEF Padding, Text
<1> DEFINE w == was[p]
<1>3. Faithful(w, p)
  BY <1>2 DEF KeptInv
<1>4. PcRelative(w) /\ image[p] # w
  BY <1>2 DEF PcRelative
<1>5. PICK c \in Text : Trapping(w, p, c)
  BY <1>3, <1>4 DEF Faithful, Guarding, Tracing
<1> DEFINE ws == TrapStub(w, p, c)
<1>6. c \in Int /\ c \in Nat
  BY DEF Text
<1>7. /\ Len(ws) = 8 /\ ws[1] = [op |-> "cbz", d |-> 4]
      /\ \A i \in 4..7 : ws[i].op \in {"nop", "save"}
      /\ ws[8] = [op |-> "b", d |-> 0]
  BY TrapWords
<1>8. Diverted(p, c, ws)
  BY <1>5 DEF Trapping
<1> HIDE DEF ws, w
<1>9. Len(ws) \in Nat \ {0} /\ Len(ws) \in Nat /\ Len(ws) - 1 = 7
  BY <1>7
<1>10. \A k \in 0..7 : c + k \in Text /\ image[c + k] = ws[k + 1]
  <2>1. StubAt(p, c, ws)
    BY <1>2, <1>6, <1>8, <1>9, StubWords
  <2> QED BY <1>9, <2>1 DEF StubAt
<1> DEFINE s == Start(p, Null, 0, 0)
           B == Steps(image, s, Fuel)
           l == [to |-> Exit, signed |-> FALSE]
           f == <<>>
<1>11. /\ s = With(s, p, l, f) /\ s.stop = "no" /\ s.x0 = Null /\ s.pc = p /\ s.events = <<>>
  BY DEF Start, With
<1>12. Fuel \in Nat /\ Fuel >= 64
  BY FuelAssumption DEF Detour
<1>13. B[0] = s /\ Runs(image, B, 0, Fuel)
  BY <1>12, StepsRuns
<1>14. Behaviour(image, p, Null) = <<B[Fuel].stop, B[Fuel].events>>
  BY DEF Behaviour, Run
<1> HIDE DEF B, s, l, f
<1>15. /\ Runs(image, B, 0, 1) /\ Runs(image, B, 2, 3)
       /\ B[2] = Step(image, B[1]) /\ B[6] = Step(image, B[5])
  <2>1. 1 \in 0..(0 + Fuel - 1) /\ 5 \in 0..(0 + Fuel - 1) /\ 1 + 1 = 2 /\ 5 + 1 = 6
    BY <1>12
  <2>2. 0..(0 + 1 - 1) \subseteq 0..(0 + Fuel - 1) /\ 2..(2 + 3 - 1) \subseteq 0..(0 + Fuel - 1)
    BY <1>12
  <2> QED BY <1>13, <2>1, <2>2 DEF Runs
<1>16. B[1] = With(s, c, l, f)
  <2> DEFINE m == 0
  <2>1. m \in Nat /\ m + 1 = 1 /\ Runs(image, B, m, 1)
    BY <1>15
  <2>2. B[m] = With(s, p, l, f)
    BY <1>11, <1>13
  <2> HIDE DEF m
  <2>3. was[p].op \notin Padding /\ p \in Text /\ p \in Int /\ s.pc = p /\ s.stop = "no"
        /\ Len(image) \in Nat /\ Text \subseteq 1..Len(image) /\ c \in Int
        /\ Len(ws) \in Nat \ {0} /\ Diverted(p, c, ws) /\ m \in Nat /\ Runs(image, B, m, 1)
    BY <1>1, <1>2, <1>6, <1>8, <1>9, <1>11, <2>1
  <2>4. B[m + 1] = With(s, c, l, f)
    BY <2>2, <2>3, Diverts
  <2> QED BY <2>1, <2>4
<1>17. B[2] = With(s, c + 4, l, f)
  <2>1. c \in 1..Len(image) /\ image[c] = [op |-> "cbz", d |-> 4]
    <3>1. c + 0 \in Text /\ image[c + 0] = ws[0 + 1] /\ c + 0 = c /\ 0 + 1 = 1
      BY <1>6, <1>10
    <3> QED BY <1>1, <1>7, <3>1
  <2>2. Step(image, With(s, c, l, f)) = With(s, c + 4, l, f)
    BY <1>6, <1>11, <2>1, StepZero
  <2> QED BY <1>15, <1>16, <2>2
<1>18. B[5] = With(s, c + 7, l, f)
  <2> DEFINE n == 3
             k == c + 4
  <2>1. n \in Nat /\ k \in Nat /\ \A i \in 0..(n - 1) : 4 + i \in 0..7 /\ (4 + i) + 1 \in 4..7 /\ c + (4 + i) = k + i
    BY <1>6
  <2>2. 2 + n = 5 /\ k + n = c + 7
    BY <1>6
  <2> HIDE DEF k
  <2>3. Runs(image, B, 2, n) /\ B[2] = With(s, k, l, f)
    BY <1>15, <1>17 DEF k
  <2> HIDE DEF n
  <2>4. Recording(image, k, n)
    <3> SUFFICES ASSUME NEW i \in 0..(n - 1)
                 PROVE  k + i \in 1..Len(image) /\ image[k + i].op \in {"record", "nop", "save"}
      BY DEF Recording
    <3>1. c + (4 + i) \in Text /\ image[c + (4 + i)] = ws[(4 + i) + 1]
      BY <1>10, <2>1
    <3>2. ws[(4 + i) + 1].op \in {"nop", "save"}
      BY <1>7, <2>1
    <3> QED BY <1>1, <2>1, <3>1, <3>2
  <2>5. B[2 + n] = With(s, k + n, l, f)
    BY <1>11, <2>1, <2>3, <2>4, StepRecords
  <2> QED BY <2>2, <2>5
<1>19. B[6] = [With(s, c + 7, l, f) EXCEPT !.stop = "spins"]
  <2> DEFINE q == c + 7
             t == With(s, q, l, f)
  <2>1. q \in 1..Len(image) /\ image[q] = [op |-> "b", d |-> 0]
    <3>1. q \in Text /\ image[q] = ws[7 + 1] /\ 7 + 1 = 8
      BY <1>10
    <3> QED BY <1>1, <1>7, <3>1
  <2> HIDE DEF q
  <2>2. Step(image, t) = Exec(t, [op |-> "b", d |-> 0])
    BY <1>11, <2>1, StepWith
  <2> HIDE DEF t
  <2>3. Exec(t, [op |-> "b", d |-> 0]) = [t EXCEPT !.stop = "spins"]
    BY DEF Exec, Goto
  <2> QED BY <1>15, <1>18, <2>2, <2>3 DEF t, q
<1>20. B[6].stop = "spins" /\ B[6].events = <<>>
  BY <1>11, <1>19 DEF With
<1>21. B[Fuel] = B[6]
  <2>1. 6 \in 0..Fuel
    BY <1>12
  <2> QED BY <1>12, <1>13, <1>20, <2>1, Stopped
<1> QED BY <1>14, <1>20, <1>21

\* Signing a link.
LEMMA SignedLink ==
  ASSUME NEW a
  PROVE  [[to |-> a, signed |-> FALSE] EXCEPT !.signed = TRUE] = [to |-> a, signed |-> TRUE]
<1> DEFINE l == [to |-> a, signed |-> FALSE]
           m == [l EXCEPT !.signed = TRUE]
           n == [to |-> a, signed |-> TRUE]
<1>1. DOMAIN l = {"to", "signed"} /\ l.to = a
  OBVIOUS
<1>2. DOMAIN n = {"to", "signed"} /\ n.to = a /\ n.signed = TRUE
  OBVIOUS
<1>3. n = [x \in {"to", "signed"} |-> n[x]]
  OBVIOUS
<1> HIDE DEF l
<1>4. m = [x \in {"to", "signed"} |-> m[x]] /\ m["to"] = a /\ m["signed"] = TRUE
  BY <1>1
<1> HIDE DEF m, n
<1>5. n["to"] = a /\ n["signed"] = TRUE
  BY <1>2
<1>6. \A x \in {"to", "signed"} : m[x] = n[x]
  BY <1>4, <1>5
<1>7. m = n
  BY <1>3, <1>4, <1>6
<1> QED BY <1>7 DEF l, m, n

\* The prologue of the routine that is guarded.
LEMMA Prologue ==
  ASSUME NEW k, \A i \in 0..3 : Guarded + i \in 1..Len(k),
         k[Guarded].op = "pacibsp", k[Guarded + 1].op = "stp_frame", k[Guarded + 2].op \in Straight,
         NEW A, A[0] = Start(Guarded, Null, 0, 0), Guarded \in Int,
         \A i \in 0..2 : A[i + 1] = Step(k, A[i])
  PROVE  /\ \A i \in 0..3 : A[i].pc = Guarded + i /\ A[i].stop = "no"
         /\ IsState(A[3]) /\ A[3].x0 = Null
         /\ A[3].frames = <<[to |-> Exit, signed |-> TRUE]>>
<1> DEFINE l0 == [to |-> Exit, signed |-> FALSE]
           l1 == [to |-> Exit, signed |-> TRUE]
           s0 == Start(Guarded, Null, 0, 0)
           f1 == <<l1>>
<1>1. s0 = With(s0, Guarded, l0, <<>>) /\ s0.stop = "no" /\ s0.pc = Guarded /\ s0.x0 = Null
  BY DEF Start, With
<1>2. [l0 EXCEPT !.signed = TRUE] = l1 /\ Append(<<>>, l1) = f1
  <2>1. [l0 EXCEPT !.signed = TRUE] = l1
    BY SignedLink
  <2> HIDE DEF l0, l1
  <2>2. Append(<<>>, l1) = f1
    OBVIOUS
  <2> QED BY <2>1, <2>2
<1>3. Guarded + 0 = Guarded /\ Guarded \in 1..Len(k) /\ Guarded + 1 \in 1..Len(k) /\ Guarded + 2 \in 1..Len(k)
  <2>1. 0 \in 0..3 /\ 1 \in 0..3 /\ 2 \in 0..3 /\ Guarded + 0 = Guarded
    OBVIOUS
  <2>2. Guarded + 0 \in 1..Len(k) /\ Guarded + 1 \in 1..Len(k) /\ Guarded + 2 \in 1..Len(k)
    BY <2>1
  <2> QED BY <2>1, <2>2
<1>4. A[1] = Step(k, A[0]) /\ A[2] = Step(k, A[1]) /\ A[3] = Step(k, A[2])
  <2>1. 0 + 1 = 1 /\ 1 + 1 = 2 /\ 2 + 1 = 3 /\ 0 \in 0..2 /\ 1 \in 0..2 /\ 2 \in 0..2
    OBVIOUS
  <2> QED BY <2>1
<1> HIDE DEF s0
<1>5. A[1] = With(s0, Guarded + 1, l1, <<>>)
  <2>1. A[1] = Exec(With(s0, Guarded, l0, <<>>), k[Guarded])
    BY <1>1, <1>3, <1>4, StepWith DEF s0
  <2>2. Exec(With(s0, Guarded, l0, <<>>), k[Guarded]) = With(s0, Guarded + 1, [l0 EXCEPT !.signed = TRUE], <<>>)
    BY DEF Exec, Going, With
  <2> QED BY <1>2, <2>1, <2>2
<1> HIDE DEF l0, l1
<1>6. A[2] = With(s0, Guarded + 2, l1, f1)
  <2>1. A[2] = Exec(With(s0, Guarded + 1, l1, <<>>), k[Guarded + 1])
    BY <1>1, <1>3, <1>4, <1>5, StepWith
  <2>2. Exec(With(s0, Guarded + 1, l1, <<>>), k[Guarded + 1])
          = With(s0, (Guarded + 1) + 1, l1, Append(<<>>, l1))
    BY DEF Exec, Going, With
  <2>3. (Guarded + 1) + 1 = Guarded + 2
    OBVIOUS
  <2> QED BY <1>2, <2>1, <2>2, <2>3
<1> HIDE DEF f1
<1>7. /\ IsState(A[3]) /\ A[3].stop = "no" /\ A[3].pc = Guarded + 3 /\ A[3].frames = f1
      /\ A[3].x0 = Null
  <2> DEFINE t == With(s0, Guarded + 2, l1, f1)
             w == k[Guarded + 2]
  <2>1. A[3] = Exec(t, w)
    BY <1>1, <1>3, <1>4, <1>6, StepWith
  <2>2. IsState(t) /\ t.stop = "no" /\ t.pc = Guarded + 2 /\ t.frames = f1 /\ t.x0 = Null
    BY <1>1, WithFields
  <2> HIDE DEF t
  <2>3. Exec(t, w).x0 = t.x0 /\ Exec(t, w).pc = t.pc + 1 /\ Exec(t, w).frames = t.frames
        /\ Exec(t, w).stop = t.stop /\ IsState(Exec(t, w))
    <3>1. CASE w.op = "work"
      BY <2>2, <3>1 DEF Exec, Did, Going, IsState
    <3>2. CASE w.op \in {"nop", "save"}
      BY <2>2, <3>2 DEF Exec, Going, IsState
    <3> QED BY <3>1, <3>2 DEF Straight
  <2>4. Guarded + 2 + 1 = Guarded + 3
    OBVIOUS
  <2> QED BY <2>1, <2>2, <2>3, <2>4
<1>8. /\ A[0].pc = Guarded + 0 /\ A[0].stop = "no"
      /\ A[1].pc = Guarded + 1 /\ A[1].stop = "no"
      /\ A[2].pc = Guarded + 2 /\ A[2].stop = "no"
  BY <1>1, <1>3, <1>5, <1>6, WithFields DEF s0
<1>9. \A i \in 0..3 : i = 0 \/ i = 1 \/ i = 2 \/ i = 3
  OBVIOUS
<1>10. \A i \in 0..3 : A[i].pc = Guarded + i /\ A[i].stop = "no"
  BY <1>7, <1>8, <1>9
<1> QED BY <1>7, <1>10 DEF f1, l1

\* The stub undoes the frame and returns.
LEMMA GuardReturns ==
  ASSUME Len(image) \in Nat, Text \subseteq 1..Len(image), NEW s, IsState(s), s.stop = "no",
         s.x0 = Null, s.frames = <<[to |-> Exit, signed |-> TRUE]>>,
         NEW p \in Int, p \in Text, s.pc = p, was[p].op \notin Padding,
         NEW w, NEW c \in Text, Guarding(w, p, c),
         NEW B, NEW m \in Nat, Sim(s, B[m]), Runs(image, B, m, 4)
  PROVE  B[m + 4].stop = "returned"
<1> DEFINE ws == GuardStub(w, p, c)
<1>1. PICK l, f : B[m] = With(s, p, l, f) /\ Links(image, s, l, f)
  BY DEF Sim
<1>2. c \in Int /\ c \in Nat
  BY DEF Text
<1>3. /\ Len(ws) = 5 /\ ws[1] = [op |-> "cbz", d |-> 3]
      /\ ws[4] = W("ldp_frame") /\ ws[5] = W("retab")
  BY GuardWords
<1>4. Diverted(p, c, ws)
  BY DEF Guarding
<1> HIDE DEF ws
<1>5. Len(ws) \in Nat \ {0} /\ Len(ws) \in Nat /\ Len(ws) - 1 = 4
  BY <1>3
<1>6. \A k \in 0..4 : c + k \in Text /\ image[c + k] = ws[k + 1]
  <2>1. StubAt(p, c, ws)
    BY <1>2, <1>4, <1>5, StubWords
  <2> QED BY <1>5, <2>1 DEF StubAt
<1>7. /\ Runs(image, B, m, 1) /\ B[m + 2] = Step(image, B[m + 1])
      /\ B[m + 3] = Step(image, B[m + 2]) /\ B[m + 4] = Step(image, B[m + 3])
  <2>1. /\ m + 1 \in m..(m + 4 - 1) /\ m + 2 \in m..(m + 4 - 1) /\ m + 3 \in m..(m + 4 - 1)
        /\ m \in m..(m + 4 - 1)
        /\ (m + 1) + 1 = m + 2 /\ (m + 2) + 1 = m + 3 /\ (m + 3) + 1 = m + 4
    OBVIOUS
  <2>2. m..(m + 1 - 1) \subseteq m..(m + 4 - 1)
    OBVIOUS
  <2> QED BY <2>1, <2>2 DEF Runs
<1>8. B[m + 1] = With(s, c, l, f)
  <2>1. Len(ws) \in Nat \ {0} /\ c \in Int
    BY <1>2, <1>5
  <2>2. Runs(image, B, m, 1)
    BY <1>7
  <2> QED BY <1>1, <1>4, <2>1, <2>2, Diverts
<1>9. B[m + 2] = With(s, c + 3, l, f)
  <2>1. c \in 1..Len(image) /\ image[c] = [op |-> "cbz", d |-> 3]
    <3>1. c + 0 \in Text /\ image[c + 0] = ws[0 + 1] /\ c + 0 = c /\ 0 + 1 = 1
      BY <1>2, <1>6
    <3> QED BY <1>3, <3>1
  <2> DEFINE d == 3
  <2>2. d \in Int \ {0} /\ image[c] = [op |-> "cbz", d |-> d]
    BY <2>1
  <2> HIDE DEF d
  <2>3. Step(image, With(s, c, l, f)) = With(s, IF s.x0 = Null THEN c + d ELSE c + 1, l, f)
    BY <1>2, <2>1, <2>2, StepZero
  <2>4. Step(image, With(s, c, l, f)) = With(s, c + d, l, f)
    BY <2>3
  <2> QED BY <1>7, <1>8, <2>4 DEF d
<1>10. /\ c + 3 \in 1..Len(image) /\ image[c + 3] = W("ldp_frame")
       /\ c + 4 \in 1..Len(image) /\ image[c + 4] = W("retab")
  <2>1. c + 3 \in Text /\ image[c + 3] = ws[3 + 1] /\ c + 4 \in Text /\ image[c + 4] = ws[4 + 1]
    BY <1>6
  <2>2. 3 + 1 = 4 /\ 4 + 1 = 5
    OBVIOUS
  <2> QED BY <1>3, <2>1, <2>2
<1>11. Len(f) = 1 /\ f[1] \in Link /\ f[1].to = Exit /\ f[1].signed = TRUE /\ f \in Seq(Link)
  <2> DEFINE k == [to |-> Exit, signed |-> TRUE]
  <2>1. k.to = Exit /\ k.signed = TRUE
    OBVIOUS
  <2> HIDE DEF k
  <2>2. Len(s.frames) = 1 /\ s.frames[1] = k
    BY DEF k
  <2>3. Len(f) = 1 /\ f \in Seq(Link) /\ Similar(image, k, f[1])
    <3>1. f \in Seq(Link) /\ Len(f) = Len(s.frames)
          /\ \A i \in 1..Len(f) : Similar(image, s.frames[i], f[i])
      BY <1>1 DEF Links
    <3>2. Len(f) = 1 /\ 1 \in 1..1
      BY <2>2, <3>1
    <3> QED BY <2>2, <3>1, <3>2
  <2>4. f[1] \in Link /\ k.signed = f[1].signed /\ (k.to = f[1].to \/ Bridge(image, f[1].to, k.to))
    BY <2>3 DEF Similar
  <2> QED BY <2>1, <2>3, <2>4 DEF Bridge
<1> DEFINE t == With(s, c + 3, l, f)
           u == Exec(t, W("ldp_frame"))
<1>12. B[m + 3] = u
  <2> DEFINE q == c + 3
  <2>1. q \in 1..Len(image) /\ image[q] = W("ldp_frame")
    BY <1>10
  <2> HIDE DEF q
  <2>2. Step(image, With(s, q, l, f)) = Exec(With(s, q, l, f), W("ldp_frame"))
    BY <2>1, StepWith
  <2> QED BY <1>7, <1>9, <2>2 DEF q
<1>13. IsState(u) /\ u.stop = "no" /\ u.pc = c + 4 /\ u.lr = f[1] /\ u.frames = <<>>
  <2>1. IsState(t) /\ t.stop = "no" /\ t.frames = f /\ t.pc = c + 3
    BY WithFields
  <2>2. W("ldp_frame").op = "ldp_frame"
    BY DEF W
  <2>3. f # <<>> /\ f[Len(f)] = f[1] /\ SubSeq(f, 1, Len(f) - 1) = <<>>
    BY <1>11
  <2> HIDE DEF t
  <2>4. u = [Going(t) EXCEPT !.lr = f[Len(f)], !.frames = SubSeq(@, 1, Len(@) - 1)]
    BY <2>1, <2>2, <2>3 DEF Exec
  <2>5. Going(t).frames = f /\ IsState(Going(t)) /\ Going(t).stop = "no" /\ Going(t).pc = (c + 3) + 1
    BY <2>1 DEF Going, IsState
  <2> DEFINE g == Going(t)
  <2> HIDE DEF g
  <2>6. IsState(g) /\ g.frames = f /\ g.stop = "no" /\ g.pc = c + 4
    BY <1>2, <2>5 DEF g
  <2> DEFINE e == SubSeq(f, 1, Len(f) - 1)
             h == f[Len(f)]
  <2>7. u = [g EXCEPT !.lr = h, !.frames = e]
    BY <2>4, <2>6 DEF g
  <2> HIDE DEF e, h, u
  <2>8. IsState(u) /\ u.stop = g.stop /\ u.pc = g.pc /\ u.lr = h /\ u.frames = e
    BY <2>6, <2>7 DEF IsState
  <2> QED BY <2>3, <2>6, <2>8 DEF e, h
<1> HIDE DEF t, u
<1>14. B[m + 4] = Exec(u, W("retab"))
  <2>1. u.pc \in 1..Len(image) /\ image[u.pc] = W("retab")
    BY <1>10, <1>13
  <2> QED BY <1>7, <1>12, <1>13, <2>1 DEF Step
<1>15. Exec(u, W("retab")) = Return(u, [f[1] EXCEPT !.signed = ~@])
  <2>1. W("retab").op = "retab"
    BY DEF W
  <2>2. Exec(u, W("retab")) = Return(u, Used(W("retab"), u.lr))
    BY <1>13, <2>1, Returns
  <2> QED BY <1>13, <2>1, <2>2 DEF Used
<1>16. [f[1] EXCEPT !.signed = ~@].to = Exit /\ [f[1] EXCEPT !.signed = ~@].signed = FALSE
  BY <1>11 DEF Link
<1>17. Return(u, [f[1] EXCEPT !.signed = ~@]) = [u EXCEPT !.stop = "returned"]
  <2> DEFINE k == [f[1] EXCEPT !.signed = ~@]
  <2>1. k.signed = FALSE /\ k.to = Exit
    BY <1>16
  <2> HIDE DEF k
  <2>2. Return(u, k) = [u EXCEPT !.stop = "returned"]
    BY <1>13, <2>1, ReturnsTo
  <2> QED BY <2>2 DEF k
<1>18. [u EXCEPT !.stop = "returned"].stop = "returned"
  BY <1>13 DEF IsState
<1> QED BY <1>14, <1>15, <1>17, <1>18

\* The guarded routine returns for a null argument.
LEMMA GuardHandled ==
  ASSUME IInv, KeptInv, Movable, "null_guard" \in applied
  PROVE  Behaviour(image, Guarded, Null)[1] = "returned"
<1> DEFINE s == Start(Guarded, Null, 0, 0)
           A == Steps(was, s, 3)
           B == Steps(image, s, Fuel)
           p == Guarded + 3
           P == {Guarded + i : i \in 0..2}
           paid == [k \in 0..3 |-> 16 * k]
<1>1. /\ Len(image) = Size /\ Size \in Nat /\ Text \subseteq 1..Len(image) /\ was \in Kernels
      /\ Size = Len(was) /\ Len(image) \in Nat
  BY ImageText
<1>2. Guarded \in Int
  BY AddressAssumption DEF Text
<1>3. \A i \in 0..3 : Undisturbed(was, Guarded + i)
  <2>1. \A i \in 0..3 : Guarded + i \in Guarded..(Guarded + 3)
    BY <1>2
  <2> QED BY <1>1, <2>1, RoutineAssumption
<1>4. \A i \in 0..3 : /\ Guarded + i \in Text /\ Guarded + i \in 1..Len(was)
                      /\ Guarded + i \in 1..Len(image)
                      /\ was[Guarded + i].op \in Ordinary /\ was[Guarded + i].op \notin Padding
                      /\ Faithful(was[Guarded + i], Guarded + i)
  BY <1>1, <1>3 DEF Undisturbed, Ordinary, KeptInv
<1>5. was[Guarded].op = "pacibsp" /\ was[Guarded + 1].op = "stp_frame" /\ was[Guarded + 2].op \in Straight
  BY <1>1, RoutineAssumption
<1>6. PICK c \in Text : Guarding(was[p], p, c)
  BY DEF KeptInv
<1>7. Fuel \in Nat /\ Fuel >= 64
  BY FuelAssumption DEF Detour
<1>8. A[0] = s /\ \A k \in 0..2 : A[k + 1] = Step(was, A[k])
  <2>1. 3 \in Nat /\ 3 - 1 = 2
    OBVIOUS
  <2> QED BY <2>1, StepsOf
<1>9. B[0] = s /\ Runs(image, B, 0, Fuel)
  BY <1>7, StepsRuns
<1>10. Behaviour(image, Guarded, Null)[1] = B[Fuel].stop
  BY DEF Behaviour, Run
<1> HIDE DEF A, B, s
<1>11. /\ \A i \in 0..3 : A[i].pc = Guarded + i /\ A[i].stop = "no"
       /\ IsState(A[3]) /\ A[3].x0 = Null
       /\ A[3].frames = <<[to |-> Exit, signed |-> TRUE]>>
  <2>1. \A i \in 0..3 : Guarded + i \in 1..Len(was)
    BY <1>4
  <2>2. A[0] = Start(Guarded, Null, 0, 0)
    BY <1>8 DEF s
  <2> QED BY <1>2, <1>5, <1>8, <2>1, <2>2, Prologue
<1>12. Sim(s, s)
  BY <1>2, StartSim DEF s
<1>13. \A i \in 0..2 : Guarded + i \notin Hazard
  <2>1. \A i \in 0..2 : i = 0 \/ i = 1 \/ i = 2
    OBVIOUS
  <2>2. \A q \in Calls : was[q].op = "bl"
    BY <1>1, RoutineAssumption
  <2>3. \A i \in 0..2 : was[Guarded + i].op # "bl"
    BY <1>2, <1>5, <2>1 DEF Straight
  <2>4. \A i \in 0..2 : Guarded + i # Guarded + 3
    BY <1>2
  <2> QED BY <2>2, <2>3, <2>4 DEF Hazard
<1>14. Reflects(was, P)
  <2> SUFFICES ASSUME NEW i \in 0..2
               PROVE  LET q == Guarded + i
                      IN /\ q \in 1..Len(image) /\ q \in 1..Len(was) /\ was[q].op \notin Padding
                         /\ was[q].op \in Ordinary /\ (was[q].op = "bl" => was[q].d \in Int)
                         /\ Faithful(was[q], q)
    BY DEF Reflects
  <2>1. i \in 0..3
    OBVIOUS
  <2> DEFINE q == Guarded + i
  <2>2. /\ q \in 1..Len(image) /\ q \in 1..Len(was) /\ was[q].op \notin Padding
        /\ was[q].op \in Ordinary /\ Faithful(was[q], q)
    BY <1>4, <2>1
  <2> HIDE DEF q
  <2>3. was[q].op = "bl" => was[q].d \in Int
    BY <1>1, <2>2, KernelWords
  <2> QED BY <2>2, <2>3 DEF q
<1>15. Passes(was, P, A, 3)
  <2>1. 3 - 1 = 2 /\ 0..2 \subseteq 0..3
    OBVIOUS
  <2>2. \A k \in 0..2 : A[k].pc \in P /\ A[k].pc \notin Hazard
    BY <1>11, <1>13, <2>1
  <2>3. \A k \in 0..3 : A[k].stop \in {"no", "returned"} /\ was[A[k].pc].op \notin Padding
    BY <1>4, <1>11
  <2> HIDE DEF P
  <2> QED BY <1>8, <2>1, <2>2, <2>3 DEF Passes
<1>16. Pays(A, paid, 3, 48)
  <2>1. \A k \in 0..3 : paid[k] = 16 * k /\ paid[k] \in 0..48
    OBVIOUS
  <2>2. \A k \in 0..2 : k \in 0..3 /\ k + 1 \in 0..3
    OBVIOUS
  <2> HIDE DEF paid
  <2>3. ASSUME NEW k \in 0..2 PROVE paid[k] + Toll(A[k]) <= paid[k + 1]
    <3>1. Toll(A[k]) \in {0, 2, 16} /\ paid[k] = 16 * k /\ paid[k + 1] = 16 * (k + 1)
      BY <2>1, <2>2, TollIs
    <3> QED BY <3>1
  <2>4. 3 - 1 = 2
    OBVIOUS
  <2> QED BY <2>1, <2>3, <2>4 DEF Pays
<1> HIDE DEF P, paid
<1>17. \E m \in 0..48 : Sim(A[3], B[m])
  <2> DEFINE n == 3
             N == 48
  <2>1. n \in Nat /\ N \in Nat /\ Runs(image, B, 0, N)
    BY <1>7, <1>9 DEF Runs
  <2>2. Passes(was, P, A, n) /\ Pays(A, paid, n, N) /\ Sim(A[0], B[0])
    BY <1>8, <1>9, <1>12, <1>15, <1>16
  <2> HIDE DEF n, N
  <2>3. \E m \in 0..N : Sim(A[n], B[m])
    BY <1>1, <1>14, <2>1, <2>2, Simulation
  <2> QED BY <2>3 DEF n, N
<1>18. PICK m \in 0..48 : Sim(A[3], B[m])
  BY <1>17
<1>19. m \in Nat /\ m + 4 \in 0..Fuel /\ Runs(image, B, m, 4)
  <2>1. m \in Nat /\ m + 4 \in 0..Fuel /\ m..(m + 4 - 1) \subseteq 0..(0 + Fuel - 1)
    BY <1>7
  <2> QED BY <1>9, <2>1 DEF Runs
<1>20. p \in Int /\ p \in Text /\ A[3].pc = p /\ was[p].op \notin Padding /\ A[3].stop = "no"
  BY <1>2, <1>4, <1>11
<1> HIDE DEF p
<1>21. B[m + 4].stop = "returned"
  BY <1>1, <1>6, <1>11, <1>18, <1>19, <1>20, GuardReturns
<1>22. B[Fuel] = B[m + 4]
  <2> DEFINE k == m + 4
  <2>1. k \in 0..Fuel /\ B[k].stop # "no"
    BY <1>19, <1>21
  <2> HIDE DEF k
  <2>2. B[Fuel] = B[k]
    BY <1>7, <1>9, <2>1, Stopped
  <2> QED BY <2>2 DEF k
<1> QED BY <1>10, <1>21, <1>22

\* The invariant says that a null argument is stopped where it is guarded.
LEMMA NullHandledFrom ==
  ASSUME IInv, KeptInv
  PROVE  NullHandled
BY GuardHandled, TrapHandled DEF NullHandled

\* The words of the console's routine, by their distance from its start.
PrintsAt(img) ==
  /\ \A o \in 0..10 : Printer + o \in 1..Len(img)
  /\ \A o \in 0..3 : img[Printer + o] = [op |-> "uart_address"]
  /\ img[Printer + 4] = [op |-> "ldrb_x0"]
  /\ img[Printer + 5] = [op |-> "cbz_char", d |-> 5]
  /\ img[Printer + 6] = [op |-> "ldr_fr"]
  /\ img[Printer + 7] = [op |-> "tbnz_full", d |-> -1]
  /\ img[Printer + 8] = [op |-> "str_dr"]
  /\ img[Printer + 9] = [op |-> "b", d |-> -5]
  /\ img[Printer + 10] = [op |-> "ret"]

\* The words early_console assembles.
LEMMA ConsoleWords ==
  /\ Len(build(Printer)) = 11
  /\ \A o \in 0..3 : ConsoleWord(Printer + o) = [op |-> "uart_address"]
  /\ ConsoleWord(Printer + 4) = [op |-> "ldrb_x0"]
  /\ ConsoleWord(Printer + 5) = [op |-> "cbz_char", d |-> 5]
  /\ ConsoleWord(Printer + 6) = [op |-> "ldr_fr"]
  /\ ConsoleWord(Printer + 7) = [op |-> "tbnz_full", d |-> -1]
  /\ ConsoleWord(Printer + 8) = [op |-> "str_dr"]
  /\ ConsoleWord(Printer + 9) = [op |-> "b", d |-> -5]
  /\ ConsoleWord(Printer + 10) = [op |-> "ret"]
<1> DEFINE head == [i \in 1..4 |-> W("uart_address")]
           x == To("cbz_char", Printer + 5, Printer + 10)
           y == To("tbnz_full", Printer + 7, Printer + 6)
           z == To("b", Printer + 9, Printer + 4)
           tail == <<W("ldrb_x0"), x, W("ldr_fr"), y, W("str_dr"), z, W("ret")>>
           ws == build(Printer)
<1>1. Printer \in Int
  BY AddressAssumption DEF Text
<1>2. x = [op |-> "cbz_char", d |-> 5] /\ y = [op |-> "tbnz_full", d |-> -1] /\ z = [op |-> "b", d |-> -5]
  <2>1. (Printer + 10) - (Printer + 5) = 5 /\ (Printer + 6) - (Printer + 7) = -1
        /\ (Printer + 4) - (Printer + 9) = -5
    BY <1>1
  <2> QED BY <2>1 DEF To
<1>3. ws = head \o tail
  BY DEF build
<1> HIDE DEF x, y, z, ws
<1>4. Len(head) = 4 /\ \A i \in 1..4 : head[i] = W("uart_address")
  OBVIOUS
<1>5. /\ Len(tail) = 7 /\ tail[1] = W("ldrb_x0") /\ tail[2] = x /\ tail[3] = W("ldr_fr")
      /\ tail[4] = y /\ tail[5] = W("str_dr") /\ tail[6] = z /\ tail[7] = W("ret")
  OBVIOUS
<1> HIDE DEF head, tail
<1>8. head \in Seq({W("uart_address")}) /\ tail \in Seq({tail[i] : i \in 1..7})
  BY DEF head, tail
<1>6. /\ Len(ws) = 11 /\ \A i \in 1..4 : ws[i] = W("uart_address")
      /\ ws[5] = W("ldrb_x0") /\ ws[6] = x /\ ws[7] = W("ldr_fr")
      /\ ws[8] = y /\ ws[9] = W("str_dr") /\ ws[10] = z /\ ws[11] = W("ret")
  BY <1>3, <1>4, <1>5 DEF head, tail
<1>7. \A o \in 0..10 : ConsoleWord(Printer + o) = ws[o + 1]
  <2>1. \A o \in 0..10 : (Printer + o) - Printer + 1 = o + 1
    BY <1>1
  <2> QED BY <2>1 DEF ConsoleWord, ws
<1>9. /\ \A o \in 0..3 : o + 1 \in 1..4 /\ o \in 0..10
      /\ 4 + 1 = 5 /\ 5 + 1 = 6 /\ 6 + 1 = 7 /\ 7 + 1 = 8 /\ 8 + 1 = 9 /\ 9 + 1 = 10 /\ 10 + 1 = 11
      /\ 4 \in 0..10 /\ 5 \in 0..10 /\ 6 \in 0..10 /\ 7 \in 0..10 /\ 8 \in 0..10 /\ 9 \in 0..10
      /\ 10 \in 0..10
  OBVIOUS
<1>10. \A o \in 0..3 : ConsoleWord(Printer + o) = W("uart_address")
  BY <1>6, <1>7, <1>9
<1>11. /\ ConsoleWord(Printer + 4) = ws[5] /\ ConsoleWord(Printer + 5) = ws[6]
       /\ ConsoleWord(Printer + 6) = ws[7] /\ ConsoleWord(Printer + 7) = ws[8]
       /\ ConsoleWord(Printer + 8) = ws[9] /\ ConsoleWord(Printer + 9) = ws[10]
       /\ ConsoleWord(Printer + 10) = ws[11]
  BY <1>7, <1>9
<1> QED BY <1>2, <1>6, <1>10, <1>11 DEF W, ws

\* The steps that j characters take at most.
Rest(j) == j * (2 * Busy + 6)

\* Each character takes at most 2 * Busy + 6 of them.
LEMMA RestIs ==
  /\ Rest(0) = 0
  /\ \A j \in Nat : Rest(j) \in Nat
  /\ \A j \in Nat \ {0} : Rest(j) = Rest(j - 1) + 2 * Busy + 6
  /\ \A j \in 0..Chars : Rest(j) <= Rest(Chars)
<1> DEFINE c == 2 * Busy + 6
<1>1. c \in Nat /\ Chars \in Nat /\ Busy \in Nat
  BY FuelAssumption
<1>2. c = 2 * Busy + 6 /\ \A j : Rest(j) = j * c
  BY DEF Rest
<1> HIDE DEF c
<1>3. Rest(0) = 0
  BY <1>1, <1>2
<1>4. ASSUME NEW j \in Nat PROVE Rest(j) \in Nat /\ Rest(j + 1) = Rest(j) + c
  <2>1. j * c \in Nat /\ (j + 1) * c = j * c + c
    BY <1>1
  <2> QED BY <1>2, <2>1
<1>5. ASSUME NEW j \in Nat \ {0} PROVE Rest(j) = Rest(j - 1) + 2 * Busy + 6
  <2>1. j - 1 \in Nat /\ (j - 1) + 1 = j
    OBVIOUS
  <2>2. Rest(j) = Rest(j - 1) + c /\ Rest(j - 1) \in Nat
    BY <1>4, <2>1
  <2> QED BY <1>1, <1>2, <2>2
<1>6. ASSUME NEW j \in 0..Chars PROVE Rest(j) <= Rest(Chars)
  <2> DEFINE S == {k \in Nat : Rest(j) <= Rest(j + k)}
  <2>1. 0 \in S
    BY <1>4
  <2>2. ASSUME NEW k \in Nat, k \in S PROVE k + 1 \in S
    <3>1. Rest(j + k) \in Nat /\ Rest((j + k) + 1) = Rest(j + k) + c /\ j + (k + 1) = (j + k) + 1
      BY <1>4
    <3>2. Rest(j) <= Rest(j + k) /\ Rest(j) \in Nat
      BY <1>4, <2>2
    <3> QED BY <1>1, <3>1, <3>2
  <2> HIDE DEF S
  <2>3. Nat \subseteq S
    BY <2>1, <2>2, Counting
  <2>4. Chars - j \in Nat /\ j + (Chars - j) = Chars
    BY <1>1
  <2> USE DEF S
  <2> QED BY <2>3, <2>4
<1> QED BY <1>3, <1>4, <1>5, <1>6

-----------------------------------------------------------------------------
(* The console's routine, after it has sent i of n characters *)

\* What a state has of the string: i characters sent, the port still to be read
\* full s.left times.
Printing(s, i, n, busy) ==
  /\ IsState(s)
  /\ i \in 0..n /\ s.end = 1 + n /\ s.busy = busy /\ s.left \in 0..busy
  /\ s.lr = [to |-> Exit, signed |-> FALSE] /\ s.frames = <<>>
  /\ s.events = [j \in 1..i |-> j]

\* It is at its o-th word with x0 = a, and has at most r steps to go.
At(s, o, a) == s.stop = "no" /\ s.pc = Printer + o /\ s.x0 = a

\* Its words one by one: the port's address and the next character, the test for
\* the end, the wait, the test whether the port is full, the character sent,
\* the way back, and the return.
AtNext(s, o, i, n, busy, r) ==
  Printing(s, i, n, busy) /\ At(s, o, 1 + i) /\ r >= Rest(n - i) + 7 - o
AtTest(s, i, n, busy, r) ==
  /\ Printing(s, i, n, busy) /\ At(s, 5, 2 + i) /\ r >= Rest(n - i) + 2
  /\ \/ i = n /\ s.char = FALSE
     \/ i < n /\ s.char = TRUE
AtWait(s, i, n, busy, r) ==
  Printing(s, i, n, busy) /\ At(s, 6, 2 + i) /\ i < n /\ r >= Rest(n - i - 1) + 2 * s.left + 7
AtFull(s, i, n, busy, r) ==
  /\ Printing(s, i, n, busy) /\ At(s, 7, 2 + i) /\ i < n
  /\ \/ s.full = TRUE /\ r >= Rest(n - i - 1) + 2 * s.left + 8
     \/ s.full = FALSE /\ s.left = 0 /\ r >= Rest(n - i - 1) + 6
AtSend(s, i, n, busy, r) ==
  /\ Printing(s, i, n, busy) /\ At(s, 8, 2 + i) /\ i < n /\ s.left = 0
  /\ r >= Rest(n - i - 1) + 5
AtBack(s, i, n, busy, r) ==
  Printing(s, i, n, busy) /\ At(s, 9, 1 + i) /\ r >= Rest(n - i) + 4
AtRet(s, i, n, busy, r) ==
  Printing(s, i, n, busy) /\ At(s, 10, 2 + i) /\ i = n /\ r >= 1

\* Its first word is behind it.
Prints(s, n, busy, r) ==
  \E i \in 0..n :
    \/ \E o \in 1..4 : AtNext(s, o, i, n, busy, r)
    \/ AtTest(s, i, n, busy, r) \/ AtWait(s, i, n, busy, r) \/ AtFull(s, i, n, busy, r)
    \/ AtSend(s, i, n, busy, r) \/ AtBack(s, i, n, busy, r) \/ AtRet(s, i, n, busy, r)

\* It has returned, with every character sent once and in order.
Printed(s, n) == s.stop = "returned" /\ s.events = [j \in 1..n |-> j]

\* What a step leaves alone.
Same(s, t) == /\ IsState(t) /\ t.end = s.end /\ t.busy = s.busy /\ t.lr = s.lr
              /\ t.frames = s.frames /\ t.events = s.events /\ t.stop = s.stop

\* What a state that leaves the rest alone has of the string.
LEMMA PrintsOn ==
  ASSUME NEW s, NEW t, NEW i, NEW n, NEW busy, Printing(s, i, n, busy), Same(s, t),
         t.left \in 0..busy
  PROVE  Printing(t, i, n, busy)
BY DEF Printing, Same

\* A step executes the word of the routine at its distance.
LEMMA PrintStep ==
  ASSUME NEW img, PrintsAt(img), NEW s, NEW o \in 0..10, NEW a, At(s, o, a)
  PROVE  Step(img, s) = Exec(s, img[Printer + o])
BY DEF PrintsAt, At, Step

\* The address of the port, and the next character.
LEMMA NextPrints ==
  ASSUME NEW img, PrintsAt(img), NEW n \in Nat, NEW busy \in 0..Busy, NEW r \in Nat,
         NEW s, NEW o \in 0..4, NEW i \in 0..n, AtNext(s, o, i, n, busy, r)
  PROVE  LET t == Step(img, s)
         IN \/ o + 1 \in 1..4 /\ AtNext(t, o + 1, i, n, busy, r - 1)
            \/ AtTest(t, i, n, busy, r - 1)
<1>1. Printing(s, i, n, busy) /\ At(s, o, 1 + i) /\ r >= Rest(n - i) + 7 - o
  BY DEF AtNext
<1> DEFINE t == Step(img, s)
<1>2. IsState(s) /\ s.left \in 0..busy /\ s.end = 1 + n /\ s.pc = Printer + o /\ s.x0 = 1 + i
      /\ s.stop = "no"
  BY <1>1 DEF Printing, At
<1>3. o \in 0..10 /\ Printer \in Int /\ Rest(n - i) \in Nat /\ n - i \in Nat
  <2>1. n - i \in Nat
    OBVIOUS
  <2> QED BY <2>1, RestIs, AddressAssumption DEF Text
<1>4. t = Exec(s, img[Printer + o])
  BY <1>1, <1>3, PrintStep
<1>5. CASE o \in 0..3
  <2>1. img[Printer + o].op = "uart_address"
    <3>1. \A k \in 0..3 : img[Printer + k] = [op |-> "uart_address"]
      BY Zenon DEF PrintsAt
    <3>2. img[Printer + o] = [op |-> "uart_address"]
      BY <1>5, <3>1
    <3> QED BY <3>2
  <2>2. t = Going(s)
    BY <1>4, <2>1 DEF Exec
  <2> HIDE DEF t
  <2>3. Same(s, t) /\ t.pc = Printer + o + 1 /\ t.x0 = 1 + i /\ t.left = s.left
    BY <1>2, <2>2 DEF Going, IsState, Same
  <2>4. Printing(t, i, n, busy)
    BY <1>1, <1>2, <2>3, PrintsOn
  <2>5. At(t, o + 1, 1 + i)
    BY <1>2, <1>3, <2>3 DEF At, Same
  <2>6. o + 1 \in 1..4 /\ r - 1 >= Rest(n - i) + 7 - (o + 1)
    BY <1>1, <1>3, <1>5
  <2>7. AtNext(t, o + 1, i, n, busy, r - 1)
    BY <2>4, <2>5, <2>6 DEF AtNext
  <2> QED BY <2>6, <2>7 DEF t
<1>6. CASE o = 4
  <2>1. img[Printer + o].op = "ldrb_x0"
    <3>1. img[Printer + 4].op = "ldrb_x0"
      BY DEF PrintsAt
    <3> QED BY <1>6, <3>1
  <2>2. t = [Going(s) EXCEPT !.char = s.x0 # s.end, !.x0 = @ + 1]
    BY <1>4, <2>1 DEF Exec
  <2> HIDE DEF t
  <2>3. Same(s, t) /\ t.pc = Printer + o + 1 /\ t.x0 = 1 + i + 1 /\ t.left = s.left
        /\ t.char = (s.x0 # s.end)
    BY <1>2, <2>2 DEF Going, IsState, Same
  <2>4. Printing(t, i, n, busy)
    BY <1>1, <1>2, <2>3, PrintsOn
  <2>5. At(t, 5, 2 + i)
    BY <1>2, <1>3, <1>6, <2>3 DEF At, Same
  <2>6. r - 1 >= Rest(n - i) + 2
    BY <1>1, <1>3, <1>6
  <2>7. (i = n /\ t.char = FALSE) \/ (i < n /\ t.char = TRUE)
    <3>1. s.x0 = s.end => t.char = FALSE
      BY <2>3
    <3>2. s.x0 # s.end => t.char = TRUE
      BY <2>3
    <3>3. (i = n /\ s.x0 = s.end) \/ (i < n /\ s.x0 # s.end)
      BY <1>2
    <3> QED BY <3>1, <3>2, <3>3
  <2>8. AtTest(t, i, n, busy, r - 1)
    BY <2>4, <2>5, <2>6, <2>7 DEF AtTest
  <2> QED BY <2>8 DEF t
<1> QED BY <1>5, <1>6

\* A character is there, or the string is at its end.
LEMMA TestPrints ==
  ASSUME NEW img, PrintsAt(img), NEW n \in Nat, NEW busy \in 0..Busy, NEW r \in Nat,
         NEW s, NEW i \in 0..n, AtTest(s, i, n, busy, r)
  PROVE  LET t == Step(img, s)
         IN AtWait(t, i, n, busy, r - 1) \/ AtRet(t, i, n, busy, r - 1)
<1> DEFINE t == Step(img, s)
           w == [op |-> "cbz_char", d |-> 5]
<1>1. /\ Printing(s, i, n, busy) /\ At(s, 5, 2 + i) /\ r >= Rest(n - i) + 2
      /\ \/ i = n /\ s.char = FALSE
         \/ i < n /\ s.char = TRUE
  BY DEF AtTest
<1>2. IsState(s) /\ s.left \in 0..busy /\ s.pc = Printer + 5 /\ s.x0 = 2 + i /\ s.stop = "no"
  BY <1>1 DEF Printing, At
<1>3. Printer \in Int /\ 5 \in 0..10 /\ Rest(n - i) \in Nat /\ n - i \in Nat
  <2>1. n - i \in Nat
    OBVIOUS
  <2> QED BY <2>1, RestIs, AddressAssumption DEF Text
<1>4. t = Exec(s, w)
  BY <1>1, <1>3, PrintStep DEF PrintsAt
<1>5. t = IF ~s.char THEN Goto(s, 5) ELSE Going(s)
  BY <1>4 DEF Exec
<1> HIDE DEF t, w
<1>6. CASE i = n
  <2>1. s.char = FALSE
    BY <1>1, <1>6
  <2>2. t = [s EXCEPT !.pc = @ + 5]
    BY <1>5, <2>1 DEF Goto
  <2>3. Same(s, t) /\ t.pc = Printer + 5 + 5 /\ t.x0 = 2 + i /\ t.left = s.left
    BY <1>2, <2>2 DEF IsState, Same
  <2>4. Printing(t, i, n, busy)
    BY <1>1, <1>2, <2>3, PrintsOn
  <2>5. At(t, 10, 2 + i)
    BY <1>2, <1>3, <2>3 DEF At, Same
  <2>6. r - 1 >= 1
    BY <1>1, <1>3
  <2> QED BY <1>6, <2>4, <2>5, <2>6 DEF AtRet, t
<1>7. CASE i < n
  <2>1. s.char = TRUE
    BY <1>1, <1>7
  <2>2. t = Going(s)
    BY <1>5, <2>1
  <2>3. Same(s, t) /\ t.pc = Printer + 5 + 1 /\ t.x0 = 2 + i /\ t.left = s.left
    BY <1>2, <2>2 DEF Going, IsState, Same
  <2>4. Printing(t, i, n, busy)
    BY <1>1, <1>2, <2>3, PrintsOn
  <2>5. At(t, 6, 2 + i)
    BY <1>2, <1>3, <2>3 DEF At, Same
  <2>6. r - 1 >= Rest(n - i - 1) + 2 * t.left + 7
    <3>1. n - i \in Nat \ {0} /\ n - i - 1 = (n - i) - 1 /\ n - i - 1 \in Nat
      BY <1>7
    <3> DEFINE j == n - i
    <3>2. j \in Nat \ {0}
      BY <3>1
    <3> HIDE DEF j
    <3>3. Rest(j) = Rest(j - 1) + 2 * Busy + 6 /\ Rest(j - 1) \in Nat
      <4>1. j - 1 \in Nat
        BY <3>2
      <4> QED BY <3>2, <4>1, RestIs
    <3>4. t.left \in Nat /\ t.left <= Busy /\ Busy \in Nat
      BY <1>2, <2>3, FuelAssumption
    <3>5. r >= Rest(j) + 2
      BY <1>1 DEF j
    <3>6. r - 1 >= Rest(j - 1) + 2 * t.left + 7
      BY <3>3, <3>4, <3>5
    <3> QED BY <3>6 DEF j
  <2> QED BY <1>7, <2>4, <2>5, <2>6 DEF AtWait, t
<1> QED BY <1>6, <1>7

\* The port is asked whether it is full.
LEMMA WaitPrints ==
  ASSUME NEW img, PrintsAt(img), NEW n \in Nat, NEW busy \in 0..Busy, NEW r \in Nat,
         NEW s, NEW i \in 0..n, AtWait(s, i, n, busy, r)
  PROVE  AtFull(Step(img, s), i, n, busy, r - 1)
<1> DEFINE t == Step(img, s)
           w == [op |-> "ldr_fr"]
           rest == Rest(n - i - 1)
<1>1. /\ Printing(s, i, n, busy) /\ At(s, 6, 2 + i) /\ i < n /\ r >= rest + 2 * s.left + 7
  BY DEF AtWait
<1>2. IsState(s) /\ s.left \in 0..busy /\ s.pc = Printer + 6 /\ s.x0 = 2 + i /\ s.stop = "no"
  BY <1>1 DEF Printing, At
<1>3. Printer \in Int /\ 6 \in 0..10 /\ rest \in Nat
  <2>1. n - i - 1 \in Nat
    BY <1>1
  <2>2. Rest(n - i - 1) \in Nat
    BY <2>1, RestIs
  <2> QED BY <2>2, AddressAssumption DEF Text
<1>4. t = Exec(s, w)
  BY <1>1, <1>3, PrintStep DEF PrintsAt
<1>5. t = [Going(s) EXCEPT !.full = s.left > 0, !.left = IF @ > 0 THEN @ - 1 ELSE 0]
  BY <1>4 DEF Exec
<1> HIDE DEF t, w, rest
<1>6. Same(s, t) /\ t.pc = Printer + 6 + 1 /\ t.x0 = 2 + i
  BY <1>2, <1>5 DEF Going, IsState, Same
<1>7. t.left = (IF s.left > 0 THEN s.left - 1 ELSE 0) /\ t.full = (s.left > 0)
  BY <1>2, <1>5 DEF Going, IsState
<1>8. t.left \in 0..busy
  BY <1>2, <1>7
<1>9. Printing(t, i, n, busy) /\ At(t, 7, 2 + i)
  <2>1. At(t, 7, 2 + i)
    BY <1>2, <1>3, <1>6 DEF At, Same
  <2> QED BY <1>1, <1>6, <1>8, <2>1, PrintsOn
<1>10. CASE s.left > 0
  <2>1. t.full = TRUE /\ t.left = s.left - 1
    BY <1>7, <1>10
  <2>2. r - 1 >= rest + 2 * t.left + 8
    BY <1>1, <1>2, <1>3, <2>1
  <2> QED BY <1>1, <1>9, <2>1, <2>2 DEF AtFull, t, rest
<1>11. CASE ~(s.left > 0)
  <2>1. t.full = FALSE /\ t.left = 0 /\ s.left = 0
    <3>1. s.left = 0 /\ t.left = 0
      BY <1>2, <1>7, <1>11
    <3>2. (s.left > 0) = FALSE
      BY <3>1
    <3>3. t.full = (s.left > 0)
      BY <1>7
    <3> QED BY <3>1, <3>2, <3>3, Zenon
  <2>2. r - 1 >= rest + 6
    BY <1>1, <1>3, <2>1
  <2> QED BY <1>1, <1>9, <2>1, <2>2 DEF AtFull, t, rest
<1> QED BY <1>10, <1>11

\* It is asked again as long as it is.
LEMMA FullPrints ==
  ASSUME NEW img, PrintsAt(img), NEW n \in Nat, NEW busy \in 0..Busy, NEW r \in Nat,
         NEW s, NEW i \in 0..n, AtFull(s, i, n, busy, r)
  PROVE  LET t == Step(img, s)
         IN AtWait(t, i, n, busy, r - 1) \/ AtSend(t, i, n, busy, r - 1)
<1> DEFINE t == Step(img, s)
           w == [op |-> "tbnz_full", d |-> -1]
           rest == Rest(n - i - 1)
<1>1. /\ Printing(s, i, n, busy) /\ At(s, 7, 2 + i) /\ i < n
      /\ \/ s.full = TRUE /\ r >= rest + 2 * s.left + 8
         \/ s.full = FALSE /\ s.left = 0 /\ r >= rest + 6
  BY DEF AtFull
<1>2. IsState(s) /\ s.left \in 0..busy /\ s.pc = Printer + 7 /\ s.x0 = 2 + i /\ s.stop = "no"
  BY <1>1 DEF Printing, At
<1>3. Printer \in Int /\ 7 \in 0..10 /\ rest \in Nat
  <2>1. n - i - 1 \in Nat
    BY <1>1
  <2>2. Rest(n - i - 1) \in Nat
    BY <2>1, RestIs
  <2> QED BY <2>2, AddressAssumption DEF Text
<1>4. t = Exec(s, w)
  BY <1>1, <1>3, PrintStep DEF PrintsAt
<1>5. t = IF s.full THEN Goto(s, -1) ELSE Going(s)
  BY <1>4 DEF Exec
<1> HIDE DEF t, w, rest
<1>6. CASE s.full = TRUE /\ r >= rest + 2 * s.left + 8
  <2>1. t = [s EXCEPT !.pc = @ + (-1)]
    BY <1>5, <1>6 DEF Goto
  <2>2. Same(s, t) /\ t.pc = Printer + 7 + (-1) /\ t.x0 = 2 + i /\ t.left = s.left
    BY <1>2, <2>1 DEF IsState, Same
  <2>3. Printing(t, i, n, busy)
    BY <1>1, <1>2, <2>2, PrintsOn
  <2>4. At(t, 6, 2 + i)
    BY <1>2, <1>3, <2>2 DEF At, Same
  <2>5. r - 1 >= rest + 2 * t.left + 7
    BY <1>2, <1>3, <1>6, <2>2
  <2> QED BY <1>1, <2>3, <2>4, <2>5 DEF AtWait, t, rest
<1>7. CASE s.full = FALSE /\ s.left = 0 /\ r >= rest + 6
  <2>1. t = Going(s)
    BY <1>5, <1>7
  <2>2. Same(s, t) /\ t.pc = Printer + 7 + 1 /\ t.x0 = 2 + i /\ t.left = s.left
    BY <1>2, <2>1 DEF Going, IsState, Same
  <2>3. Printing(t, i, n, busy)
    BY <1>1, <1>2, <2>2, PrintsOn
  <2>4. At(t, 8, 2 + i)
    BY <1>2, <1>3, <2>2 DEF At, Same
  <2>5. r - 1 >= rest + 5
    BY <1>3, <1>7
  <2> QED BY <1>1, <1>7, <2>2, <2>3, <2>4, <2>5 DEF AtSend, t, rest
<1> QED BY <1>1, <1>6, <1>7

\* The character is sent.
LEMMA SendPrints ==
  ASSUME NEW img, PrintsAt(img), NEW n \in Nat, NEW busy \in 0..Busy, NEW r \in Nat,
         NEW s, NEW i \in 0..n, AtSend(s, i, n, busy, r)
  PROVE  i + 1 \in 0..n /\ AtBack(Step(img, s), i + 1, n, busy, r - 1)
<1> DEFINE t == Step(img, s)
           w == [op |-> "str_dr"]
           e == [j \in 1..i |-> j]
<1>1. /\ Printing(s, i, n, busy) /\ At(s, 8, 2 + i) /\ i < n /\ s.left = 0
      /\ r >= Rest(n - i - 1) + 5
  BY DEF AtSend
<1>2. IsState(s) /\ s.pc = Printer + 8 /\ s.x0 = 2 + i /\ s.stop = "no" /\ s.events = e
      /\ s.end = 1 + n /\ s.busy = busy /\ s.lr = [to |-> Exit, signed |-> FALSE] /\ s.frames = <<>>
  BY <1>1 DEF Printing, At
<1>3. Printer \in Int /\ 8 \in 0..10 /\ i + 1 \in 0..n
  BY <1>1, AddressAssumption DEF Text
<1>4. t = Exec(s, w)
  <2>1. img[Printer + 8] = w
    BY DEF PrintsAt
  <2>2. t = Exec(s, img[Printer + 8])
    BY <1>1, <1>3, PrintStep
  <2> QED BY <2>1, <2>2
<1>5. t = [Did(s, s.x0 - 1) EXCEPT !.left = s.busy]
  <2>1. ~(s.left > 0)
    BY <1>1
  <2> QED BY <1>4, <2>1 DEF Exec
<1> HIDE DEF t, w, e
<1>6. /\ IsState(t) /\ t.end = s.end /\ t.busy = s.busy /\ t.lr = s.lr /\ t.frames = s.frames
      /\ t.stop = s.stop /\ t.pc = Printer + 8 + 1 /\ t.x0 = 2 + i /\ t.left = busy
      /\ t.events = Append(e, s.x0 - 1)
  BY <1>2, <1>5 DEF Did, Going, IsState
<1>7. Append(e, s.x0 - 1) = [j \in 1..(i + 1) |-> j]
  <2>1. s.x0 - 1 = i + 1
    BY <1>2
  <2>2. e \in Seq(Nat) /\ Len(e) = i /\ \A j \in 1..i : e[j] = j
    BY DEF e
  <2> DEFINE g == Append(e, i + 1)
  <2>3. Len(g) = i + 1 /\ g \in Seq(Nat) /\ \A j \in 1..(i + 1) : g[j] = j
    BY <2>2
  <2> HIDE DEF g
  <2>4. g = [j \in 1..(i + 1) |-> g[j]]
    BY <2>3
  <2>5. g = [j \in 1..(i + 1) |-> j]
    BY <2>3, <2>4
  <2> QED BY <2>1, <2>5 DEF g
<1>8. Printing(t, i + 1, n, busy)
  <2>1. t.left \in 0..busy
    BY <1>6
  <2> QED BY <1>2, <1>3, <1>6, <1>7, <2>1 DEF Printing
<1>9. At(t, 9, 1 + (i + 1))
  BY <1>2, <1>3, <1>6 DEF At
<1>10. r - 1 >= Rest(n - (i + 1)) + 4
  <2>1. n - (i + 1) = n - i - 1 /\ n - i - 1 \in Nat
    BY <1>1
  <2>2. Rest(n - i - 1) \in Nat
    BY <2>1, RestIs
  <2> QED BY <1>1, <2>1, <2>2
<1> QED BY <1>3, <1>8, <1>9, <1>10 DEF AtBack, t

\* Back to the next character.
LEMMA BackPrints ==
  ASSUME NEW img, PrintsAt(img), NEW n \in Nat, NEW busy \in 0..Busy, NEW r \in Nat,
         NEW s, NEW i \in 0..n, AtBack(s, i, n, busy, r)
  PROVE  AtNext(Step(img, s), 4, i, n, busy, r - 1)
<1> DEFINE t == Step(img, s)
           w == [op |-> "b", d |-> -5]
<1>1. /\ Printing(s, i, n, busy) /\ At(s, 9, 1 + i) /\ r >= Rest(n - i) + 4
  BY DEF AtBack
<1>2. IsState(s) /\ s.left \in 0..busy /\ s.pc = Printer + 9 /\ s.x0 = 1 + i /\ s.stop = "no"
  BY <1>1 DEF Printing, At
<1>3. Printer \in Int /\ 9 \in 0..10 /\ Rest(n - i) \in Nat
  <2>1. n - i \in Nat
    OBVIOUS
  <2> QED BY <2>1, RestIs, AddressAssumption DEF Text
<1>4. t = Exec(s, w)
  BY <1>1, <1>3, PrintStep DEF PrintsAt
<1>5. t = [s EXCEPT !.pc = @ + (-5)]
  BY <1>4 DEF Exec, Goto
<1> HIDE DEF t, w
<1>6. Same(s, t) /\ t.pc = Printer + 9 + (-5) /\ t.x0 = 1 + i /\ t.left = s.left
  BY <1>2, <1>5 DEF IsState, Same
<1>7. Printing(t, i, n, busy)
  BY <1>1, <1>2, <1>6, PrintsOn
<1>8. At(t, 4, 1 + i)
  BY <1>2, <1>3, <1>6 DEF At, Same
<1>9. r - 1 >= Rest(n - i) + 7 - 4
  BY <1>1, <1>3
<1> QED BY <1>7, <1>8, <1>9 DEF AtNext, t

\* The string is at its end.
LEMMA RetPrints ==
  ASSUME NEW img, PrintsAt(img), NEW n \in Nat, NEW busy \in 0..Busy, NEW r \in Nat,
         NEW s, NEW i \in 0..n, AtRet(s, i, n, busy, r)
  PROVE  Printed(Step(img, s), n)
<1> DEFINE t == Step(img, s)
           w == [op |-> "ret"]
           k == [to |-> Exit, signed |-> FALSE]
<1>1. Printing(s, i, n, busy) /\ At(s, 10, 2 + i) /\ i = n
  BY DEF AtRet
<1>2. IsState(s) /\ s.events = [j \in 1..n |-> j] /\ s.lr = k /\ s.frames = <<>>
  BY <1>1 DEF Printing
<1>3. 10 \in 0..10
  OBVIOUS
<1>4. t = Exec(s, w)
  BY <1>1, <1>3, PrintStep DEF PrintsAt
<1>5. t = Return(s, k)
  <2>1. w.op = "ret"
    OBVIOUS
  <2> HIDE DEF w, k
  <2>2. t = Return(s, Used(w, s.lr))
    BY <1>2, <1>4, <2>1, Returns
  <2> QED BY <1>2, <2>1, <2>2 DEF Used
<1>6. k.signed = FALSE /\ k.to = Exit
  OBVIOUS
<1> HIDE DEF t, k, w
<1>7. t = [s EXCEPT !.stop = "returned"]
  BY <1>2, <1>5, <1>6, ReturnsTo
<1>8. t.stop = "returned" /\ t.events = s.events
  BY <1>2, <1>7 DEF IsState
<1> QED BY <1>2, <1>8 DEF Printed, t

\* One step of the routine, and one less to go.
LEMMA PrintsOneStep ==
  ASSUME NEW img, PrintsAt(img), NEW n \in Nat, NEW busy \in 0..Busy, NEW r \in Nat,
         NEW s, Prints(s, n, busy, r)
  PROVE  Prints(Step(img, s), n, busy, r - 1) \/ Printed(Step(img, s), n)
<1> DEFINE t == Step(img, s)
<1>1. PICK i \in 0..n :
        \/ \E o \in 1..4 : AtNext(s, o, i, n, busy, r)
        \/ AtTest(s, i, n, busy, r) \/ AtWait(s, i, n, busy, r) \/ AtFull(s, i, n, busy, r)
        \/ AtSend(s, i, n, busy, r) \/ AtBack(s, i, n, busy, r) \/ AtRet(s, i, n, busy, r)
  BY DEF Prints
<1>2. CASE \E o \in 1..4 : AtNext(s, o, i, n, busy, r)
  <2>1. PICK o \in 1..4 : AtNext(s, o, i, n, busy, r)
    BY <1>2
  <2>2. o \in 0..4
    OBVIOUS
  <2>3. \/ o + 1 \in 1..4 /\ AtNext(t, o + 1, i, n, busy, r - 1)
        \/ AtTest(t, i, n, busy, r - 1)
    BY <2>1, <2>2, NextPrints
  <2> HIDE DEF t
  <2>4. Prints(t, n, busy, r - 1)
    BY <2>3 DEF Prints
  <2> QED BY <2>4 DEF t
<1>3. CASE AtTest(s, i, n, busy, r)
  <2>1. AtWait(t, i, n, busy, r - 1) \/ AtRet(t, i, n, busy, r - 1)
    BY <1>3, TestPrints
  <2> HIDE DEF t
  <2>2. Prints(t, n, busy, r - 1)
    BY <2>1 DEF Prints
  <2> QED BY <2>2 DEF t
<1>4. CASE AtWait(s, i, n, busy, r)
  <2>1. AtFull(t, i, n, busy, r - 1)
    BY <1>4, WaitPrints
  <2> HIDE DEF t
  <2>2. Prints(t, n, busy, r - 1)
    BY <2>1 DEF Prints
  <2> QED BY <2>2 DEF t
<1>5. CASE AtFull(s, i, n, busy, r)
  <2>1. AtWait(t, i, n, busy, r - 1) \/ AtSend(t, i, n, busy, r - 1)
    BY <1>5, FullPrints
  <2> HIDE DEF t
  <2>2. Prints(t, n, busy, r - 1)
    BY <2>1 DEF Prints
  <2> QED BY <2>2 DEF t
<1>6. CASE AtSend(s, i, n, busy, r)
  <2>1. i + 1 \in 0..n /\ AtBack(t, i + 1, n, busy, r - 1)
    BY <1>6, SendPrints
  <2> HIDE DEF t
  <2>2. Prints(t, n, busy, r - 1)
    BY <2>1 DEF Prints
  <2> QED BY <2>2 DEF t
<1>7. CASE AtBack(s, i, n, busy, r)
  <2>1. 4 \in 1..4 /\ AtNext(t, 4, i, n, busy, r - 1)
    BY <1>7, BackPrints
  <2> HIDE DEF t
  <2>2. Prints(t, n, busy, r - 1)
    BY <2>1 DEF Prints
  <2> QED BY <2>2 DEF t
<1>8. CASE AtRet(s, i, n, busy, r)
  BY <1>8, RetPrints
<1> QED BY <1>1, <1>2, <1>3, <1>4, <1>5, <1>6, <1>7, <1>8

\* Where a routine that prints is, and that it has steps to go.
LEMMA PrintsWhere ==
  ASSUME NEW n \in Nat, NEW busy \in 0..Busy, NEW r \in Int, NEW s, Prints(s, n, busy, r)
  PROVE  /\ r >= 1 /\ s.stop = "no" /\ s.x0 # Null
         /\ \E o \in 1..10 : s.pc = Printer + o
<1>1. PICK i \in 0..n :
        \/ \E o \in 1..4 : AtNext(s, o, i, n, busy, r)
        \/ AtTest(s, i, n, busy, r) \/ AtWait(s, i, n, busy, r) \/ AtFull(s, i, n, busy, r)
        \/ AtSend(s, i, n, busy, r) \/ AtBack(s, i, n, busy, r) \/ AtRet(s, i, n, busy, r)
  BY DEF Prints
<1>2. \A j \in Nat : Rest(j) \in Nat
  BY RestIs
<1>3. n - i \in Nat /\ (i < n => n - i - 1 \in Nat)
  OBVIOUS
<1> DEFINE x == Rest(n - i)
           y == Rest(n - i - 1)
<1>4. x \in Nat /\ (i < n => y \in Nat)
  BY <1>2, <1>3
<1> HIDE DEF x, y
<1>5. CASE \E o \in 1..4 : AtNext(s, o, i, n, busy, r)
  <2>1. PICK o \in 1..4 : At(s, o, 1 + i) /\ r >= x + 7 - o
    BY <1>5 DEF AtNext, x
  <2>2. r >= 1 /\ 1 + i # 0 /\ o \in 1..10
    BY <1>4, <2>1
  <2> QED BY <2>1, <2>2 DEF At, Null
<1>6. CASE AtTest(s, i, n, busy, r)
  <2>1. At(s, 5, 2 + i) /\ r >= x + 2
    BY <1>6 DEF AtTest, x
  <2>2. r >= 1 /\ 2 + i # 0 /\ 5 \in 1..10
    BY <1>4, <2>1
  <2> QED BY <2>1, <2>2 DEF At, Null
<1>7. CASE AtWait(s, i, n, busy, r)
  <2>1. At(s, 6, 2 + i) /\ i < n /\ r >= y + 2 * s.left + 7 /\ s.left \in 0..busy
    BY <1>7 DEF AtWait, Printing, y
  <2>2. r >= 1 /\ 2 + i # 0 /\ 6 \in 1..10
    BY <1>4, <2>1
  <2> QED BY <2>1, <2>2 DEF At, Null
<1>8. CASE AtFull(s, i, n, busy, r)
  <2>1. At(s, 7, 2 + i) /\ i < n /\ s.left \in 0..busy
        /\ (r >= y + 2 * s.left + 8 \/ r >= y + 6)
    BY <1>8 DEF AtFull, Printing, y
  <2>2. r >= 1 /\ 2 + i # 0 /\ 7 \in 1..10
    BY <1>4, <2>1
  <2> QED BY <2>1, <2>2 DEF At, Null
<1>9. CASE AtSend(s, i, n, busy, r)
  <2>1. At(s, 8, 2 + i) /\ i < n /\ r >= y + 5
    BY <1>9 DEF AtSend, y
  <2>2. r >= 1 /\ 2 + i # 0 /\ 8 \in 1..10
    BY <1>4, <2>1
  <2> QED BY <2>1, <2>2 DEF At, Null
<1>10. CASE AtBack(s, i, n, busy, r)
  <2>1. At(s, 9, 1 + i) /\ r >= x + 4
    BY <1>10 DEF AtBack, x
  <2>2. r >= 1 /\ 1 + i # 0 /\ 9 \in 1..10
    BY <1>4, <2>1
  <2> QED BY <2>1, <2>2 DEF At, Null
<1>11. CASE AtRet(s, i, n, busy, r)
  <2>1. At(s, 10, 2 + i) /\ r >= 1
    BY <1>11 DEF AtRet
  <2>2. 2 + i # 0 /\ 10 \in 1..10
    OBVIOUS
  <2> QED BY <2>1, <2>2 DEF At, Null
<1> QED BY <1>1, <1>5, <1>6, <1>7, <1>8, <1>9, <1>10, <1>11

\* The run of the routine: it is done before its steps are.
LEMMA PrintsRun ==
  ASSUME NEW img, PrintsAt(img), NEW n \in 0..Chars, NEW busy \in 0..Busy,
         NEW M \in Nat, M = 7 + Rest(Chars),
         NEW A, A[0] = Start(Printer, 1, n, busy), Runs(img, A, 0, M)
  PROVE  /\ \A k \in 1..M : Prints(A[k], n, busy, M - k) \/ Printed(A[k], n)
         /\ Printed(A[M], n)
<1>1. n \in Nat /\ Rest(n) \in Nat /\ Rest(n) <= Rest(Chars) /\ Rest(Chars) \in Nat /\ Chars \in Nat
  <2>1. Chars \in Nat /\ n \in Nat
    BY FuelAssumption
  <2> QED BY <2>1, RestIs
<1>2. AtNext(A[0], 0, 0, n, busy, M)
  <2>1. Printing(A[0], 0, n, busy)
    <3> DEFINE s == Start(Printer, 1, n, busy)
               e == [j \in 1..0 |-> j]
    <3>1. IsState(s) /\ s.end = 1 + n /\ s.busy = busy /\ s.left = 0
          /\ s.lr = [to |-> Exit, signed |-> FALSE] /\ s.frames = <<>> /\ s.events = <<>>
      BY DEF Start, IsState
    <3>2. e = <<>>
      OBVIOUS
    <3>3. 0 \in 0..n /\ 0 \in 0..busy
      BY <1>1, FuelAssumption
    <3> HIDE DEF s
    <3> QED BY <3>1, <3>2, <3>3 DEF Printing, s
  <2>2. At(A[0], 0, 1 + 0)
    <3>1. Printer + 0 = Printer
      BY AddressAssumption DEF Text
    <3> QED BY <3>1 DEF At, Start
  <2>3. M >= Rest(n - 0) + 7 - 0
    <3>1. n - 0 = n
      BY <1>1
    <3> QED BY <1>1, <3>1
  <2> QED BY <2>1, <2>2, <2>3 DEF AtNext
<1>3. \A k \in 0..(M - 1) : A[k + 1] = Step(img, A[k])
  BY DEF Runs
<1> DEFINE Fine(k) == Prints(A[k], n, busy, M - k) \/ Printed(A[k], n)
           S == {k \in Nat : k + 1 <= M => Fine(k + 1)}
<1>4. M >= 7
  BY <1>1
<1>5. 0 \in S
  <2> DEFINE o == 0
             i == 0
  <2>1. o \in 0..4 /\ i \in 0..n /\ AtNext(A[0], o, i, n, busy, M) /\ o + 1 = 1
    BY <1>1, <1>2
  <2>2. A[1] = Step(img, A[0])
    <3>1. 0 \in 0..(M - 1) /\ 0 + 1 = 1
      BY <1>4
    <3> QED BY <1>3, <3>1
  <2> HIDE DEF o, i
  <2>3. \/ o + 1 \in 1..4 /\ AtNext(A[1], o + 1, i, n, busy, M - 1)
        \/ AtTest(A[1], i, n, busy, M - 1)
    BY <1>1, <2>1, <2>2, NextPrints
  <2>4. Prints(A[1], n, busy, M - 1)
    BY <2>1, <2>3 DEF Prints
  <2>5. 0 + 1 = 1
    OBVIOUS
  <2> QED BY <2>4, <2>5
<1>6. ASSUME NEW k \in Nat, k \in S PROVE k + 1 \in S
  <2> SUFFICES ASSUME (k + 1) + 1 <= M PROVE Fine((k + 1) + 1)
    OBVIOUS
  <2> DEFINE m == k + 1
             r == M - m
             s == A[m]
             t == A[m + 1]
  <2>1. m \in 0..(M - 1) /\ m <= M /\ r \in Nat /\ M - (m + 1) = r - 1
    OBVIOUS
  <2>2. Prints(s, n, busy, r) \/ Printed(s, n)
    BY <1>6, <2>1
  <2>3. t = Step(img, s)
    BY <1>3, <2>1
  <2> HIDE DEF s, t, r
  <2>4. CASE Prints(s, n, busy, r)
    <3>1. Prints(t, n, busy, r - 1) \/ Printed(t, n)
      BY <1>1, <2>1, <2>3, <2>4, PrintsOneStep
    <3> QED BY <2>1, <3>1 DEF t
  <2>5. CASE Printed(s, n)
    <3>1. t = s
      BY <2>3, <2>5 DEF Printed, Step
    <3> QED BY <2>5, <3>1 DEF t
  <2> QED BY <2>2, <2>4, <2>5
<1> HIDE DEF S
<1>7. Nat \subseteq S
  BY <1>5, <1>6, Counting
<1> USE DEF S
<1>8. ASSUME NEW k \in 1..M PROVE Fine(k)
  <2>1. k - 1 \in Nat /\ (k - 1) + 1 = k /\ k <= M
    OBVIOUS
  <2> QED BY <1>7, <2>1
<1>9. Printed(A[M], n)
  <2>1. M \in 1..M /\ M - M = 0 /\ 0 \in Int /\ ~(0 >= 1)
    BY <1>4
  <2>2. Fine(M)
    BY <1>8, <2>1
  <2>3. ASSUME Prints(A[M], n, busy, 0) PROVE FALSE
    <3> DEFINE r == 0
    <3>1. r \in Int /\ Prints(A[M], n, busy, r)
      BY <2>3
    <3> HIDE DEF r
    <3>2. r >= 1
      BY <1>1, <3>1, PrintsWhere
    <3> QED BY <3>2 DEF r
  <2> QED BY <2>1, <2>2, <2>3
<1> QED BY <1>8, <1>9

-----------------------------------------------------------------------------
(* The console, in the image *)

\* The words of the console are none that a tool answers.
LEMMA ConsoleOrdinary ==
  \A p \in PrintArea : ConsoleWord(p).op \in Ordinary /\ ConsoleWord(p).op # "bl"
<1> SUFFICES ASSUME NEW p \in PrintArea
             PROVE  ConsoleWord(p).op \in Ordinary /\ ConsoleWord(p).op # "bl"
  OBVIOUS
<1>1. Printer \in Int
  BY AddressAssumption DEF Text
<1> DEFINE o == p - Printer
<1>2. o \in 0..10 /\ p = Printer + o
  BY <1>1 DEF PrintArea
<1> HIDE DEF o
<1> DEFINE w == ConsoleWord(p)
<1>3. \/ o \in 0..3 \/ o = 4 \/ o = 5 \/ o = 6 \/ o = 7 \/ o = 8 \/ o = 9 \/ o = 10
  BY <1>2
<1>4. w.op \in {"uart_address", "ldrb_x0", "cbz_char", "ldr_fr", "tbnz_full", "str_dr", "b", "ret"}
  <2>1. CASE o \in 0..3
    <3>1. w = [op |-> "uart_address"]
      BY <1>2, <2>1, ConsoleWords
    <3> QED BY <3>1
  <2>2. CASE o = 4
    <3>1. w = [op |-> "ldrb_x0"]
      BY <1>2, <2>2, ConsoleWords
    <3> QED BY <3>1
  <2>3. CASE o = 5
    <3>1. w = [op |-> "cbz_char", d |-> 5]
      BY <1>2, <2>3, ConsoleWords
    <3> QED BY <3>1
  <2>4. CASE o = 6
    <3>1. w = [op |-> "ldr_fr"]
      BY <1>2, <2>4, ConsoleWords
    <3> QED BY <3>1
  <2>5. CASE o = 7
    <3>1. w = [op |-> "tbnz_full", d |-> -1]
      BY <1>2, <2>5, ConsoleWords
    <3> QED BY <3>1
  <2>6. CASE o = 8
    <3>1. w = [op |-> "str_dr"]
      BY <1>2, <2>6, ConsoleWords
    <3> QED BY <3>1
  <2>7. CASE o = 9
    <3>1. w = [op |-> "b", d |-> -5]
      BY <1>2, <2>7, ConsoleWords
    <3> QED BY <3>1
  <2>8. CASE o = 10
    <3>1. w = [op |-> "ret"]
      BY <1>2, <2>8, ConsoleWords
    <3> QED BY <3>1
  <2> QED BY <1>3, <2>1, <2>2, <2>3, <2>4, <2>5, <2>6, <2>7, <2>8
<1> HIDE DEF w
<1>5. w.op \in Ordinary /\ w.op # "bl"
  BY <1>4 DEF Ordinary, Ops, Padding
<1> QED BY <1>5 DEF w

\* No tool diverts a word of the console but the first.
LEMMA ConsoleSites ==
  ASSUME was \in Kernels, NEW o \in 1..10
  PROVE  Printer + o \notin Sites
<1>1. Printer \in Int /\ Guarded \in Int
  BY AddressAssumption DEF Text
<1>2. Printer + o \in PrintArea /\ Printer + o # Printer
  BY <1>1 DEF PrintArea
<1>3. Guarded + 3 \notin PrintArea
  <2>1. Guarded + 3 \in Guarded..(Guarded + 3)
    BY <1>1
  <2>2. Undisturbed(was, Guarded + 3)
    BY <2>1, RoutineAssumption
  <2> QED BY <2>2 DEF Undisturbed
<1>4. \A p \in Calls : p \notin PrintArea
  BY RoutineAssumption DEF Undisturbed
<1>5. Targets \cap PrintArea \subseteq {Printer}
  BY RoutineAssumption
<1> QED BY <1>2, <1>3, <1>4, <1>5 DEF Sites

\* The console's routine in the kernel nobody else has patched.
Console == Put(was, Printer, build(Printer))

\* What that kernel has where the routine was written.
LEMMA ConsoleIs ==
  ASSUME IInv, PrintArea \subseteq 1..Size
  PROVE  /\ Len(Console) = Size /\ PrintsAt(Console)
         /\ \A p \in PrintArea : Console[p] = ConsoleWord(p)
<1>1. Size \in Nat /\ Size = Len(was)
  BY ImageText
<1>2. Printer \in Int /\ Len(build(Printer)) = 11
  BY AddressAssumption, ConsoleWords DEF Text
<1>3. Printer + Len(build(Printer)) - 1 = Printer + 10
  BY <1>2
<1>4. Console = [i \in 1..Size |-> IF i \in PrintArea THEN ConsoleWord(i) ELSE was[i]]
  BY <1>1, <1>3 DEF Console, Put, PrintArea, ConsoleWord
<1> DEFINE f == Console
<1> HIDE DEF f
<1>5. f = [i \in 1..Size |-> f[i]]
  BY <1>4 DEF f
<1>6. Len(f) = Size
  BY <1>1, <1>5, LenOf
<1>7. \A p \in PrintArea : Console[p] = ConsoleWord(p)
  BY <1>4
<1>8. \A o \in 0..10 : Printer + o \in PrintArea
  BY <1>2 DEF PrintArea
<1>9. \A o \in 0..10 : Printer + o \in 1..Len(f)
  BY <1>6, <1>8
<1>10. \A o \in 0..10 : Console[Printer + o] = ConsoleWord(Printer + o)
  BY <1>7, <1>8
<1>11. \A o \in 0..3 : o \in 0..10
  OBVIOUS
<1>12. \A o \in 0..3 : Console[Printer + o] = [op |-> "uart_address"]
  BY <1>10, <1>11, ConsoleWords
<1>13. /\ 4 \in 0..10 /\ 5 \in 0..10 /\ 6 \in 0..10 /\ 7 \in 0..10 /\ 8 \in 0..10 /\ 9 \in 0..10
       /\ 10 \in 0..10
  OBVIOUS
<1>14. /\ Console[Printer + 4] = ConsoleWord(Printer + 4) /\ Console[Printer + 5] = ConsoleWord(Printer + 5)
       /\ Console[Printer + 6] = ConsoleWord(Printer + 6) /\ Console[Printer + 7] = ConsoleWord(Printer + 7)
       /\ Console[Printer + 8] = ConsoleWord(Printer + 8) /\ Console[Printer + 9] = ConsoleWord(Printer + 9)
       /\ Console[Printer + 10] = ConsoleWord(Printer + 10)
  BY <1>10, <1>13
<1>15. PrintsAt(Console)
  BY <1>9, <1>12, <1>14, ConsoleWords DEF PrintsAt, f
<1> QED BY <1>6, <1>7, <1>15 DEF f

\* The console's routine prints, also through the stub of a trace.
LEMMA ConsoleRun ==
  ASSUME IInv, KeptInv, Movable, "early_console" \in applied, NEW n \in 0..Chars, NEW busy \in 0..Busy
  PROVE  LET end == Run(image, Start(Printer, 1, n, busy), Fuel)
         IN end.stop = "returned" /\ end.events = [i \in 1..n |-> i]
<1> DEFINE s0 == Start(Printer, 1, n, busy)
           M == 7 + Rest(Chars)
           A == Steps(Console, s0, M)
           B == Steps(image, s0, Fuel)
           paid == [k \in 0..M |-> IF k = 0 THEN 0 ELSE 14 + 2 * k]
<1>1. /\ Len(image) = Size /\ Size \in Nat /\ Text \subseteq 1..Len(image) /\ was \in Kernels
      /\ Size = Len(was) /\ Len(image) \in Nat
  BY ImageText
<1>2. PrintArea \subseteq 1..Size /\ \A p \in PrintArea : Faithful(ConsoleWord(p), p)
  BY DEF KeptInv
<1>3. /\ Len(Console) = Size /\ PrintsAt(Console)
      /\ \A p \in PrintArea : Console[p] = ConsoleWord(p)
  BY <1>2, ConsoleIs
<1>4. \A p \in PrintArea : was[p].op \notin Padding
  <2>1. \A p \in PrintArea : p \in 1..Len(was)
    BY <1>1, <1>2
  <2> QED BY <1>1, <2>1, RoutineAssumption
<1>5. Reflects(Console, PrintArea)
  BY <1>1, <1>2, <1>3, <1>4, ConsoleOrdinary DEF Reflects
<1>6. Printer \in Int /\ \A o \in 0..10 : Printer + o \in PrintArea
  <2>1. Printer \in Text
    BY AddressAssumption
  <2>2. Printer \in Int
    BY <2>1, AddressAssumption DEF Text
  <2> QED BY <2>2 DEF PrintArea
<1>7. M \in Nat /\ M >= 7 /\ Fuel \in Nat /\ 14 + 2 * M <= Fuel
  <2>1. Chars \in Nat /\ Fuel \in Nat
    BY FuelAssumption
  <2>2. Rest(Chars) \in Nat
    BY <2>1, RestIs
  <2>3. Fuel >= 16 + 2 * (7 + Rest(Chars))
    BY FuelAssumption DEF Detour, Rest
  <2> QED BY <2>1, <2>2, <2>3
<1>8. M = 7 + Rest(Chars)
  OBVIOUS
<1> HIDE DEF M
<1>9. A[0] = s0 /\ Runs(Console, A, 0, M) /\ \A k \in 0..(M - 1) : A[k + 1] = Step(Console, A[k])
  BY <1>7, StepsOf, StepsRuns
<1>10. B[0] = s0 /\ Runs(image, B, 0, Fuel)
  BY <1>7, StepsRuns
<1>11. Run(image, s0, Fuel) = B[Fuel]
  BY DEF Run
<1> HIDE DEF A, B
<1>12. /\ \A k \in 1..M : Prints(A[k], n, busy, M - k) \/ Printed(A[k], n)
       /\ Printed(A[M], n)
  BY <1>3, <1>7, <1>8, <1>9, PrintsRun
<1>13. s0.pc = Printer /\ s0.stop = "no" /\ s0.x0 = 1 /\ Sim(s0, s0)
  BY <1>6, StartSim
<1> HIDE DEF s0
<1>14. ASSUME NEW k \in 1..M
       PROVE  \/ /\ A[k].stop = "no" /\ A[k].x0 # Null
                 /\ \E o \in 1..10 : A[k].pc = Printer + o
              \/ A[k].stop = "returned"
  <2> DEFINE r == M - k
  <2>1. r \in Int /\ (Prints(A[k], n, busy, r) \/ Printed(A[k], n)) /\ n \in Nat
    BY <1>7, <1>12, FuelAssumption
  <2> HIDE DEF r
  <2> QED BY <2>1, PrintsWhere DEF Printed
<1>15. \A k \in 0..M : /\ A[k].stop \in {"no", "returned"}
                       /\ A[k].stop = "no" => A[k].pc \in PrintArea /\ A[k].x0 # Null
  <2>1. 0 \in 0..10 /\ Printer + 0 = Printer /\ (\A o \in 1..10 : o \in 0..10)
        /\ \A k \in 0..M : k = 0 \/ k \in 1..M
    BY <1>6
  <2>2. A[0].stop = "no" /\ A[0].pc \in PrintArea /\ A[0].x0 # Null
    BY <1>6, <1>9, <1>13, <2>1 DEF Null
  <2>3. \A k \in 1..M : /\ A[k].stop \in {"no", "returned"}
                        /\ A[k].stop = "no" => A[k].pc \in PrintArea /\ A[k].x0 # Null
    BY <1>6, <1>14, <2>1
  <2> QED BY <2>1, <2>2, <2>3
<1>16. Passes(Console, PrintArea, A, M)
  <2>1. \A k \in 0..(M - 1) : k \in 0..M
    BY <1>7
  <2>2. \A k \in 0..M : A[k].stop = "no" => was[A[k].pc].op \notin Padding
    BY <1>4, <1>15
  <2> QED BY <1>9, <1>15, <2>1, <2>2 DEF Passes
<1>17. Pays(A, paid, M, Fuel)
  <2>1. \A k \in 0..M : paid[k] = IF k = 0 THEN 0 ELSE 14 + 2 * k
    OBVIOUS
  <2> HIDE DEF paid
  <2>2. ASSUME NEW k \in 0..M PROVE paid[k] \in 0..Fuel
    BY <1>7, <2>1
  <2>3. ASSUME NEW k \in 0..(M - 1) PROVE paid[k] + Toll(A[k]) <= paid[k + 1]
    <3>1. k \in 0..M /\ k + 1 \in 0..M /\ k + 1 # 0
      BY <1>7
    <3>2. paid[k + 1] = 14 + 2 * (k + 1) /\ Toll(A[k]) \in {0, 2, 16}
      BY <2>1, <3>1, TollIs
    <3>3. CASE k = 0
      <4>1. paid[k] = 0
        BY <2>1, <3>1, <3>3
      <4> QED BY <3>2, <3>3, <4>1
    <3>4. CASE k # 0
      <4>1. k \in 1..M /\ paid[k] = 14 + 2 * k
        BY <2>1, <3>1, <3>4
      <4>2. Toll(A[k]) \in {0, 2}
        <5>1. A[k].stop = "no" => A[k].pc \notin Sites
          BY <1>1, <1>14, <4>1, ConsoleSites
        <5> QED BY <5>1 DEF Toll, Sites
      <4> QED BY <3>1, <3>2, <4>1, <4>2
    <3> QED BY <3>3, <3>4
  <2> QED BY <2>2, <2>3 DEF Pays
<1> HIDE DEF paid
<1>18. PICK m \in 0..Fuel : Sim(A[M], B[m])
  <2>1. Sim(A[0], B[0])
    BY <1>9, <1>10, <1>13
  <2> QED BY <1>1, <1>5, <1>7, <1>10, <1>16, <1>17, <2>1, Simulation
<1>19. B[m].stop = "returned" /\ B[m].events = [i \in 1..n |-> i]
  BY <1>12, <1>18, SimStopped DEF Printed
<1>20. B[Fuel] = B[m]
  BY <1>7, <1>10, <1>19, Stopped
<1> QED BY <1>11, <1>19, <1>20 DEF s0

\* The invariant says that the console prints.
LEMMA ConsolePrintsFrom ==
  ASSUME IInv, KeptInv
  PROVE  ConsolePrints
BY ConsoleRun DEF ConsolePrints

-----------------------------------------------------------------------------
(* The booting routine *)

\* The booting routine on its way: about to run a word that does not spin.
Booting(s) ==
  /\ s.stop = "no" /\ IsState(s)
  /\ s.pc \in Boot..BootEnd /\ s.lr = [to |-> Exit, signed |-> FALSE]
  /\ image[s.pc].op = "cbnz_self" => s.x0 = 0

\* The booting routine lies in the text.
LEMMA BootEndInText == BootEnd \in Text /\ Boot \in Text /\ BootEnd \in Int /\ Boot \in Int
BY AddressAssumption, BootAssumption DEF Text

\* It goes on, or has returned.
Boots(s) == Booting(s) \/ s.stop \in {"returned", "lost frame"}

\* One step of the booting routine, once its hypercalls are answered.
LEMMA BootStep ==
  ASSUME IInv, BootInv, Answered, NEW s, Booting(s)
  PROVE  Booting(Step(image, s)) \/ Step(image, s).stop \in {"returned", "lost frame"}
<1> DEFINE t == Step(image, s)
           p == s.pc
           w == image[p]
           k == [to |-> Exit, signed |-> FALSE]
<1>1. Boot..BootEnd \subseteq 1..Len(image) /\ Boot \in Int /\ BootEnd \in Int
  BY BootEndInText, BootAssumption, ImageText
<1>2. IsState(s) /\ p \in Boot..BootEnd /\ s.stop = "no" /\ s.lr = k /\ p \in Int
      /\ (w.op = "cbnz_self" => s.x0 = 0)
  BY <1>1 DEF Booting
<1>3. t = Exec(s, w)
  BY <1>1, <1>2 DEF Step
<1>4. CASE p = BootEnd
  <2>1. w.op = "ret"
    BY <1>4 DEF BootInv
  <2>2. t = Return(s, k)
    <3> HIDE DEF w, k
    <3>1. t = Return(s, Used(w, s.lr))
      BY <1>2, <1>3, <2>1, Returns
    <3> QED BY <1>2, <2>1, <3>1 DEF Used
  <2>3. k.signed = FALSE /\ k.to = Exit
    OBVIOUS
  <2> HIDE DEF k, t
  <2>4. t = [s EXCEPT !.stop = IF s.frames = <<>> THEN "returned" ELSE "lost frame"]
    BY <1>2, <2>2, <2>3, ReturnsTo
  <2>5. t.stop \in {"returned", "lost frame"}
    BY <1>2, <2>4 DEF IsState
  <2> QED BY <2>5 DEF t
<1>5. CASE p # BootEnd
  <2>1. p \in Boot..(BootEnd - 1) /\ p + 1 \in Boot..BootEnd
    BY <1>1, <1>2, <1>5
  <2>2. w.op \in {"work", "nop", "save", "str_x0", "mov_x0", "hvc", "cbnz_self", "movz_0", "adrp_x0"}
    BY <2>1 DEF BootInv, Straight
  <2> HIDE DEF t, w, p, k
  <2>3. /\ IsState(t) /\ t.stop = s.stop /\ t.pc = s.pc + 1 /\ t.lr = s.lr
        /\ w.op = "movz_0" => t.x0 = 0
    <3>1. CASE w.op = "work"
      BY <1>2, <1>3, <3>1 DEF Exec, Did, Going, IsState
    <3>2. CASE w.op \in {"str_x0", "mov_x0"}
      BY <1>2, <1>3, <3>2 DEF Exec, Did, Going, IsState
    <3>3. CASE w.op \in {"nop", "save"}
      BY <1>2, <1>3, <3>3 DEF Exec, Going, IsState
    <3>4. CASE w.op = "hvc"
      BY <1>2, <1>3, <3>4 DEF Exec, Going, IsState
    <3>5. CASE w.op = "movz_0"
      BY <1>2, <1>3, <3>5 DEF Exec, Going, IsState
    <3>6. CASE w.op = "adrp_x0"
      BY <1>2, <1>3, <3>6 DEF Exec, Going, IsState
    <3>7. CASE w.op = "cbnz_self"
      <4>1. t = Going(s)
        BY <1>2, <1>3, <3>7 DEF Exec
      <4> QED BY <1>2, <3>7, <4>1 DEF Going, IsState
    <3> QED BY <2>2, <3>1, <3>2, <3>3, <3>4, <3>5, <3>6, <3>7
  <2>4. t.pc = p + 1
    BY <2>3 DEF p
  <2>5. image[p + 1].op = "cbnz_self" => w.op = "movz_0"
    <3>1. CASE p + 1 = BootEnd
      BY <3>1 DEF BootInv
    <3>2. CASE p + 1 # BootEnd
      <4>1. p + 1 \in Boot..(BootEnd - 1) /\ (p + 1) - 1 = p
        BY <1>1, <1>2, <2>1, <3>2
      <4> QED BY <4>1 DEF BootInv, w
    <3> QED BY <3>1, <3>2
  <2>6. Booting(t)
    BY <1>2, <2>1, <2>3, <2>4, <2>5 DEF Booting, k
  <2> QED BY <2>6 DEF t
<1> QED BY <1>4, <1>5

\* The invariant says that the booting routine does not spin.
LEMMA NeverHangsFrom ==
  ASSUME IInv, BootInv
  PROVE  NeverHangs
<1> SUFFICES ASSUME Answered PROVE Behaviour(image, Boot, 1)[1] # "spins"
  BY DEF NeverHangs, Answered
<1> DEFINE s0 == Start(Boot, 1, 0, 0)
           B == Steps(image, s0, Fuel)
           S == {k \in Nat : k <= Fuel => Boots(B[k])}
<1>1. Fuel \in Nat
  BY FuelAssumption
<1>2. B[0] = s0 /\ \A k \in 0..(Fuel - 1) : B[k + 1] = Step(image, B[k])
  BY <1>1, StepsOf
<1>3. Behaviour(image, Boot, 1)[1] = B[Fuel].stop
  BY DEF Behaviour, Run
<1>4. Booting(s0)
  <2>1. Boot \in Boot..BootEnd
    BY BootAssumption, BootEndInText, AddressAssumption DEF Text
  <2>2. image[Boot].op # "cbnz_self"
    <3>1. Boot \in Int /\ BootEnd \in Int /\ Boot <= BootEnd /\ ~(Boot > Boot)
      BY BootAssumption, BootEndInText, AddressAssumption DEF Text
    <3>2. CASE Boot = BootEnd
      BY <3>2 DEF BootInv
    <3>3. CASE Boot # BootEnd
      <4>1. Boot \in Boot..(BootEnd - 1)
        BY <3>1, <3>3
      <4> QED BY <3>1, <4>1 DEF BootInv
    <3> QED BY <3>2, <3>3
  <2>3. s0.pc = Boot /\ s0.stop = "no" /\ s0.lr = [to |-> Exit, signed |-> FALSE] /\ IsState(s0)
    BY DEF Start, IsState
  <2> HIDE DEF s0
  <2> QED BY <2>1, <2>2, <2>3 DEF Booting
<1> HIDE DEF B, s0
<1>5. 0 \in S
  BY <1>2, <1>4 DEF Boots
<1>6. ASSUME NEW k \in Nat, k \in S PROVE k + 1 \in S
  <2> SUFFICES ASSUME k + 1 <= Fuel PROVE Boots(B[k + 1])
    OBVIOUS
  <2>1. k \in 0..(Fuel - 1) /\ k <= Fuel
    BY <1>1
  <2>2. Boots(B[k]) /\ B[k + 1] = Step(image, B[k])
    BY <1>2, <1>6, <2>1
  <2>3. CASE Booting(B[k])
    BY <2>2, <2>3, BootStep DEF Boots
  <2>4. CASE B[k].stop \in {"returned", "lost frame"}
    <3>1. B[k + 1] = B[k]
      BY <2>2, <2>4 DEF Step
    <3> QED BY <2>4, <3>1 DEF Boots
  <2> QED BY <2>2, <2>3, <2>4 DEF Boots
<1> HIDE DEF S
<1>7. Fuel \in S
  BY <1>1, <1>5, <1>6, Counting
<1> USE DEF S
<1>8. Boots(B[Fuel])
  BY <1>1, <1>7
<1>9. B[Fuel].stop # "spins"
  BY <1>8 DEF Boots, Booting
<1> QED BY <1>3, <1>9

-----------------------------------------------------------------------------
(* What the tools keep *)

\* Words that no tool answers or takes for padding.
OrdinaryWords(ws) == \A i \in 1..Len(ws) : ws[i].op \in Ordinary

\* The words the tools write.
LEMMA OrdinaryOps ==
  /\ \A f, t, op : To(op, f, t).op = op
  /\ \A op : W(op).op = op
  /\ {"cbz", "b", "bl", "nop", "save", "record", "ldp_frame", "retab"} \subseteq Ordinary
  /\ Ordinary \cap {"hvc", "movz_0", "cbnz_self", "garbage", "zero", "literal"} = {}
BY DEF To, W, Ordinary, Ops, Padding

\* The words of a stub are ordinary if the word that is moved is.
LEMMA StubOrdinary ==
  ASSUME NEW w, w.op \in Ordinary, NEW p, NEW c
  PROVE  /\ OrdinaryWords(TrapStub(w, p, c)) /\ OrdinaryWords(GuardStub(w, p, c))
         /\ OrdinaryWords(TraceStub(w, p, c))
<1>1. OrdinaryWords(TrapStub(w, p, c))
  <2> DEFINE ws == TrapStub(w, p, c)
  <2>1. /\ Len(ws) = 8
        /\ ws[1] = [op |-> "cbz", d |-> 4] /\ ws[2] = To("bl", c + 1, p + w.d)
        /\ ws[3] = To("b", c + 2, p + 1)
        /\ \A i \in 4..7 : ws[i].op \in {"nop", "save"}
        /\ ws[8] = [op |-> "b", d |-> 0]
    BY TrapWords
  <2> HIDE DEF ws
  <2>2. ws[1].op = "cbz" /\ ws[2].op = "bl" /\ ws[3].op = "b" /\ ws[8].op = "b"
    BY <2>1, OrdinaryOps
  <2>3. \A i \in 1..8 : i = 1 \/ i = 2 \/ i = 3 \/ i \in 4..7 \/ i = 8
    OBVIOUS
  <2>4. \A i \in 1..8 : ws[i].op \in {"cbz", "b", "bl", "nop", "save"}
    BY <2>1, <2>2, <2>3
  <2> QED BY <2>1, <2>4, OrdinaryOps DEF OrdinaryWords, ws
<1>2. OrdinaryWords(GuardStub(w, p, c))
  <2> DEFINE ws == GuardStub(w, p, c)
  <2>1. /\ Len(ws) = 5
        /\ ws[1] = [op |-> "cbz", d |-> 3] /\ ws[2] = w /\ ws[3] = To("b", c + 2, p + 1)
        /\ ws[4] = W("ldp_frame") /\ ws[5] = W("retab")
    BY GuardWords
  <2> HIDE DEF ws
  <2>2. ws[1].op = "cbz" /\ ws[2].op \in Ordinary /\ ws[3].op = "b" /\ ws[4].op = "ldp_frame"
        /\ ws[5].op = "retab"
    BY <2>1, OrdinaryOps
  <2>3. \A i \in 1..5 : i = 1 \/ i = 2 \/ i = 3 \/ i = 4 \/ i = 5
    OBVIOUS
  <2>4. \A i \in 1..5 : ws[i].op \in Ordinary
    BY <2>2, <2>3, OrdinaryOps
  <2> QED BY <2>1, <2>4 DEF OrdinaryWords, ws
<1>3. OrdinaryWords(TraceStub(w, p, c))
  <2> DEFINE ws == TraceStub(w, p, c)
  <2>1. /\ Len(ws) = 15
        /\ \A i \in 1..13 : ws[i] = W("record")
        /\ ws[14] = w /\ ws[15] = To("b", c + 14, p + 1)
    BY TraceWords
  <2> HIDE DEF ws
  <2>2. (\A i \in 1..13 : ws[i].op = "record") /\ ws[14].op \in Ordinary /\ ws[15].op = "b"
    BY <2>1, OrdinaryOps
  <2>3. \A i \in 1..15 : i \in 1..13 \/ i = 14 \/ i = 15
    OBVIOUS
  <2>4. \A i \in 1..15 : ws[i].op \in Ordinary
    BY <2>2, <2>3, OrdinaryOps
  <2> QED BY <2>1, <2>4 DEF OrdinaryWords, ws
<1> QED BY <1>1, <1>2, <1>3

\* A tool leaves the stubs alone.
Kept == \A j \in Text : was[j].op \in Padding /\ image[j].op \in Ordinary => image'[j] = image[j]

\* A diversion whose site is left alone stays as it is.
LEMMA DivertedKept ==
  ASSUME was' = was, Kept, NEW p, NEW c, NEW ws, OrdinaryWords(ws), Diverted(p, c, ws),
         image'[p] = image[p]
  PROVE  Diverted(p, c, ws)'
<1>1. ASSUME NEW i \in 1..Len(ws) PROVE image'[c + i - 1] = ws[i]
  <2> DEFINE j == c + i - 1
  <2>1. j \in Text /\ was[j].op \in Padding /\ image[j] = ws[i]
    BY DEF Diverted
  <2>2. image[j].op \in Ordinary
    BY <2>1 DEF OrdinaryWords
  <2> HIDE DEF j
  <2>3. image'[j] = image[j]
    BY <2>1, <2>2 DEF Kept
  <2> QED BY <2>1, <2>3 DEF j
<1>2. image'[p] = To("b", p, c)
  BY DEF Diverted
<1>3. \A i \in 1..Len(ws) : c + i - 1 \in Text /\ was'[c + i - 1].op \in Padding
  BY DEF Diverted
<1> QED BY <1>1, <1>2, <1>3 DEF Diverted

\* And so does that of null_guard.
LEMMA GuardingKept ==
  ASSUME was' = was, Kept, NEW p, NEW w, w.op \in Ordinary, NEW c, Guarding(w, p, c),
         image'[p] = image[p]
  PROVE  Guarding(w, p, c)'
<1> DEFINE ws == GuardStub(w, p, c)
<1>1. Diverted(p, c, ws) /\ OrdinaryWords(ws)
  BY StubOrdinary DEF Guarding
<1> HIDE DEF ws
<1>2. Diverted(p, c, ws)'
  BY <1>1, DivertedKept
<1> QED BY <1>2 DEF Guarding, ws

\* What a tool does not touch stays faithful.
LEMMA FaithfulKept ==
  ASSUME was' = was, Kept, NEW p, NEW w, w.op \in Ordinary, Faithful(w, p), image'[p] = image[p]
  PROVE  Faithful(w, p)'
<1>1. CASE image[p] = w
  BY <1>1 DEF Faithful
<1>2. ASSUME NEW c \in Text, Trapping(w, p, c) PROVE Trapping(w, p, c)'
  <2> DEFINE ws == TrapStub(w, p, c)
  <2>1. Diverted(p, c, ws) /\ OrdinaryWords(ws)
    BY <1>2, StubOrdinary DEF Trapping
  <2> HIDE DEF ws
  <2>2. Diverted(p, c, ws)'
    BY <2>1, DivertedKept
  <2> QED BY <1>2, <2>2 DEF Trapping, ws
<1>3. ASSUME NEW c \in Text, Guarding(w, p, c) PROVE Guarding(w, p, c)'
  BY <1>3, GuardingKept
<1>4. ASSUME NEW c \in Text, Tracing(w, p, c) PROVE Tracing(w, p, c)'
  <2> DEFINE ws == TraceStub(w, p, c)
  <2>1. Diverted(p, c, ws) /\ OrdinaryWords(ws)
    BY <1>4, StubOrdinary DEF Tracing
  <2> HIDE DEF ws
  <2>2. Diverted(p, c, ws)'
    BY <2>1, DivertedKept
  <2> QED BY <1>4, <2>2 DEF Tracing, ws
<1> QED BY <1>1, <1>2, <1>3, <1>4 DEF Faithful

\* A faithful word, and the branch in its place, are ordinary.
LEMMA FaithfulOrdinary ==
  ASSUME NEW p, NEW w, w.op \in Ordinary, Faithful(w, p)
  PROVE  /\ image[p].op \in Ordinary
         /\ image[p] = w \/ image[p].op = "b"
<1>1. ASSUME NEW c, image[p] = To("b", p, c) PROVE image[p].op = "b"
  BY <1>1, OrdinaryOps
<1>2. image[p] = w \/ image[p].op = "b"
  BY <1>1 DEF Faithful, Trapping, Guarding, Tracing, Diverted
<1> QED BY <1>2, OrdinaryOps

\* Where the word patch.py knows and the console's are.
LEMMA CodeSites ==
  ASSUME IInv
  PROVE  /\ PvSite \notin PrintArea /\ PvSite \in Text /\ was[PvSite].op \notin Padding
         /\ \A p \in PrintArea : p \in 1..Size => was[p].op \notin Padding
         /\ \A p \in Text : Undisturbed(was, p) => /\ p \notin PrintArea /\ p # PvSite
                                                   /\ was[p].op \in Ordinary
         /\ Undisturbed(was, Guarded + 3) /\ Guarded + 3 \in Text
<1>1. was \in Kernels /\ Size = Len(was) /\ Text \subseteq 1..Size /\ Len(image) = Size
  BY ImageText
<1>2. PvSite \in Text /\ Guarded \in Int
  BY AddressAssumption DEF Text
<1>3. /\ \A p \in PrintArea \cup {PvSite} : p \in 1..Len(was) => was[p].op \notin Padding
      /\ PvSite \notin PrintArea
  BY <1>1, RoutineAssumption
<1>4. Undisturbed(was, Guarded + 3)
  <2>1. Guarded + 3 \in Guarded..(Guarded + 3)
    BY <1>2
  <2> QED BY <1>1, <2>1, RoutineAssumption
<1>5. was[PvSite].op \notin Padding
  BY <1>1, <1>2, <1>3
<1> QED BY <1>1, <1>2, <1>3, <1>4, <1>5 DEF Undisturbed

\* Answering hypercalls and patch.py change no word that is run elsewhere.
LEMMA InPlaceKept ==
  ASSUME IInv, KeptInv, was' = was, moved' = moved,
         "early_console" \in applied' => "early_console" \in applied,
         "null_guard" \in applied' => "null_guard" \in applied,
         \A i \in 1..Size : image[i].op \in Ordinary /\ i # PvSite => image'[i] = image[i]
  PROVE  KeptInv'
<1> SUFFICES ASSUME Movable'
             PROVE  /\ \A p \in Text : Undisturbed(was', p) => Faithful(was[p], p)'
                    /\ "early_console" \in applied' =>
                         /\ PrintArea \subseteq 1..(Size')
                         /\ \A p \in PrintArea : Faithful(ConsoleWord(p), p)'
                    /\ "null_guard" \in applied' =>
                         \E c \in Text : Guarding(was[Guarded + 3], Guarded + 3, c)'
  BY DEF KeptInv
<1>1. Movable /\ Size' = Size /\ Text \subseteq 1..Size
  BY ImageText DEF Movable, Size
<1>2. Kept
  BY <1>1, CodeSites DEF Kept
<1>3. ASSUME NEW p \in 1..Size, p # PvSite, NEW w, w.op \in Ordinary, Faithful(w, p)
      PROVE  Faithful(w, p)' /\ image'[p] = image[p]
  <2>1. image'[p] = image[p]
    BY <1>3, FaithfulOrdinary
  <2> QED BY <1>2, <1>3, <2>1, FaithfulKept
<1>4. ASSUME NEW p \in Text, Undisturbed(was', p) PROVE Faithful(was[p], p)' /\ image'[p] = image[p]
  <2> SUFFICES ASSUME NEW w, w = was[p] PROVE Faithful(w, p)' /\ image'[p] = image[p]
    BY DEF Faithful, Trapping, Guarding, Tracing, Diverted
  <2>1. w.op \in Ordinary /\ p # PvSite /\ p \in 1..Size
    BY <1>1, <1>4, CodeSites
  <2>2. Faithful(w, p)
    BY <1>1, <1>4 DEF KeptInv
  <2> QED BY <1>3, <2>1, <2>2
<1>5. ASSUME "early_console" \in applied'
      PROVE  /\ PrintArea \subseteq 1..(Size')
             /\ \A p \in PrintArea : Faithful(ConsoleWord(p), p)'
  <2>1. PrintArea \subseteq 1..Size /\ \A p \in PrintArea : Faithful(ConsoleWord(p), p)
    BY <1>1, <1>5 DEF KeptInv
  <2>2. ASSUME NEW p \in PrintArea PROVE Faithful(ConsoleWord(p), p)'
    <3>1. p \in 1..Size /\ p # PvSite /\ ConsoleWord(p).op \in Ordinary
      BY <2>1, CodeSites, ConsoleOrdinary
    <3> QED BY <1>3, <2>1, <3>1
  <2> QED BY <1>1, <2>1, <2>2
<1>6. ASSUME "null_guard" \in applied'
      PROVE  \E c \in Text : Guarding(was[Guarded + 3], Guarded + 3, c)'
  <2> DEFINE q == Guarded + 3
  <2>1. PICK c \in Text : Guarding(was[q], q, c)
    BY <1>1, <1>6 DEF KeptInv
  <2>2. q \in Text /\ Undisturbed(was, q) /\ was[q].op \in Ordinary
    BY CodeSites
  <2>3. image'[q] = image[q]
    BY <1>4, <2>2
  <2> HIDE DEF q
  <2>4. Guarding(was[q], q, c)'
    <3> SUFFICES ASSUME NEW w, w = was[q] PROVE Guarding(w, q, c)'
      BY DEF Guarding, Diverted
    <3> QED BY <1>2, <2>1, <2>2, <2>3, GuardingKept
  <2> QED BY <2>4 DEF q
<1> QED BY <1>4, <1>5, <1>6

\* Answering hypercalls, and patching a known address.
LEMMA AnswerKept ==
  ASSUME IInv, KeptInv, StubHypercalls \/ HvcImpl \/ StubScratch \/ Patch
  PROVE  KeptInv'
<1>1. was' = was /\ moved' = moved
      /\ ("early_console" \in applied' => "early_console" \in applied)
      /\ ("null_guard" \in applied' => "null_guard" \in applied)
  BY DEF StubHypercalls, HvcImpl, StubScratch, Patch
<1>2. \A i \in 1..Size : image[i].op \in Ordinary =>
        image[i].op \notin {"hvc", "movz_0", "cbnz_self"}
  BY OrdinaryOps
<1>3. \A i \in 1..Size : image[i].op \in Ordinary /\ i # PvSite => image'[i] = image[i]
  <2>1. ASSUME NEW sites, image' = Answer(sites), \A i \in sites : image[i].op = "hvc"
        PROVE  \A i \in 1..Size : image[i].op \in Ordinary => image'[i] = image[i]
    BY <1>2, <2>1 DEF Answer
  <2>2. CASE StubHypercalls
    BY <2>1, <2>2 DEF StubHypercalls, find_sites, IsHvc
  <2>3. CASE HvcImpl
    BY <2>1, <2>3 DEF HvcImpl, IsHvc
  <2>4. CASE StubScratch
    <3> DEFINE sites == ScratchSites(image)
    <3>1. image' = [i \in 1..Size |-> CASE i \in sites -> W("adrp_x0")
                                        [] i - 1 \in sites -> W("nop")
                                        [] OTHER -> image[i]]
      BY <2>4 DEF StubScratch
    <3>2. ASSUME NEW i \in 1..Size, image[i].op \in Ordinary
          PROVE  i \notin sites /\ i - 1 \notin sites
      <4>1. i \notin sites
        BY <1>2, <3>2 DEF ScratchSites
      <4>2. (i - 1) + 1 = i
        OBVIOUS
      <4>3. \A j \in sites : image[j + 1].op = "cbnz_self"
        BY DEF ScratchSites, SpinsNext
      <4> QED BY <1>2, <3>2, <4>1, <4>2, <4>3
    <3> HIDE DEF sites
    <3> QED BY <3>1, <3>2
  <2>5. CASE Patch
    <3>1. image' = [image EXCEPT ![PvSite] = W("movz_0")] /\ DOMAIN image = 1..Size
      BY <2>5 DEF Patch, IInv, ImageInv
    <3> QED BY <3>1
  <2> QED BY <2>2, <2>3, <2>4, <2>5
<1> QED BY <1>1, <1>3, InPlaceKept

\* The console is written over words nobody has taken.
LEMMA ConsoleKept ==
  ASSUME IInv, KeptInv, EarlyConsole(Printer)
  PROVE  KeptInv'
<1>1. was' = was /\ moved' = moved /\ applied' = applied \cup {"early_console"}
  BY DEF EarlyConsole
<1> SUFFICES ASSUME Movable'
             PROVE  /\ \A p \in Text : Undisturbed(was', p) => Faithful(was[p], p)'
                    /\ /\ PrintArea \subseteq 1..(Size')
                       /\ \A p \in PrintArea : Faithful(ConsoleWord(p), p)'
                    /\ "null_guard" \in applied' =>
                         \E c \in Text : Guarding(was[Guarded + 3], Guarded + 3, c)'
  BY DEF KeptInv
<1>2. /\ Movable /\ Size' = Size /\ Text \subseteq 1..Size /\ Size \in Nat /\ Len(image) = Size
  BY <1>1, ImageText DEF Movable, Size
<1>3. Printer \in Int /\ Len(build(Printer)) = 11 /\ Printer \in Nat /\ Printer >= 1
      /\ Printer + Len(build(Printer)) - 1 = Printer + 10
  <2>1. Printer \in Int /\ Printer \in Nat /\ Printer >= 1
    BY AddressAssumption DEF Text
  <2>2. Len(build(Printer)) = 11
    BY ConsoleWords
  <2> QED BY <2>1, <2>2
<1>4. PrintArea \subseteq 1..Size
  <2>1. Printer + 10 <= Size
    BY <1>3 DEF EarlyConsole
  <2> QED BY <1>2, <1>3, <2>1 DEF PrintArea
<1>5. image' = [i \in 1..Size |-> IF i \in PrintArea THEN ConsoleWord(i) ELSE image[i]]
  BY <1>2, <1>3 DEF EarlyConsole, Put, PrintArea, ConsoleWord
<1>6. Kept
  BY <1>2, <1>5, CodeSites DEF Kept
<1>7. ASSUME NEW p \in Text, Undisturbed(was', p) PROVE Faithful(was[p], p)' /\ image'[p] = image[p]
  <2> SUFFICES ASSUME NEW w, w = was[p] PROVE Faithful(w, p)' /\ image'[p] = image[p]
    BY <1>1 DEF Faithful, Trapping, Guarding, Tracing, Diverted
  <2>1. w.op \in Ordinary /\ p \notin PrintArea /\ p \in 1..Size
    BY <1>1, <1>2, <1>7, CodeSites
  <2>2. Faithful(w, p)
    BY <1>1, <1>2, <1>7 DEF KeptInv
  <2>3. image'[p] = image[p]
    BY <1>5, <2>1
  <2> QED BY <1>1, <1>6, <2>1, <2>2, <2>3, FaithfulKept
<1>8. \A p \in PrintArea : Faithful(ConsoleWord(p), p)'
  <2>1. \A p \in PrintArea : image'[p] = ConsoleWord(p)
    BY <1>4, <1>5
  <2> QED BY <2>1 DEF Faithful
<1>9. ASSUME "null_guard" \in applied'
      PROVE  \E c \in Text : Guarding(was[Guarded + 3], Guarded + 3, c)'
  <2> DEFINE q == Guarded + 3
  <2>0. "null_guard" \in applied
    BY <1>1, <1>9
  <2>1. PICK c \in Text : Guarding(was[q], q, c)
    BY <1>2, <2>0 DEF KeptInv
  <2>2. q \in Text /\ Undisturbed(was, q) /\ was[q].op \in Ordinary
    BY CodeSites
  <2>3. image'[q] = image[q]
    BY <1>1, <1>7, <2>2
  <2> HIDE DEF q
  <2>4. Guarding(was[q], q, c)'
    <3> SUFFICES ASSUME NEW w, w = was[q] PROVE Guarding(w, q, c)'
      BY <1>1 DEF Guarding, Diverted
    <3> QED BY <1>1, <1>6, <2>1, <2>2, <2>3, GuardingKept
  <2> QED BY <2>4 DEF q
<1> QED BY <1>2, <1>4, <1>7, <1>8, <1>9

\* What a diversion writes.
LEMMA DivertWrites ==
  ASSUME IInv, NEW tool, NEW site \in Text, was[site].op \notin Padding, NEW cave \in Text,
         NEW words, Len(words) \in Nat,
         \A j \in cave..(cave + Len(words) - 1) : j \in Text /\ image[j].op = "zero",
         Divert(tool, site, cave, words)
  PROVE  /\ was' = was /\ applied' = applied \cup {tool} /\ Size' = Size
         /\ \A p \in 1..Size : image[p].op \in Ordinary /\ p # site => image'[p] = image[p]
         /\ Diverted(site, cave, words)'
         /\ Kept
<1> DEFINE taken == cave..(cave + Len(words) - 1)
           put == Put(image, cave, words)
<1>1. was' = was /\ applied' = applied \cup {tool} /\ Size' = Size
  BY DEF Divert, Size
<1>2. cave \in Int /\ Size \in Nat /\ Text \subseteq 1..Size /\ Len(image) = Size /\ site \in 1..Size
  BY ImageText DEF Text
<1>3. put = [i \in 1..Size |-> IF i \in taken THEN words[i - cave + 1] ELSE image[i]]
  BY <1>2 DEF Put
<1>4. image' = [put EXCEPT ![site] = To("b", site, cave)]
  BY DEF Divert
<1> HIDE DEF put
<1>5. image' = [i \in 1..Size |-> IF i = site THEN To("b", site, cave) ELSE put[i]]
  BY <1>2, <1>3, <1>4
<1>6. \A j \in taken : j \in Text /\ image[j].op \in Padding /\ was[j].op \in Padding /\ j # site
  <2>1. \A j \in taken : j \in Text /\ image[j].op \in Padding
    BY DEF Padding
  <2> HIDE DEF taken
  <2>2. \A j \in taken : was[j].op \in Padding
    BY <1>2, <2>1 DEF IInv, ImageInv
  <2> QED BY <2>1, <2>2
<1>7. ASSUME NEW p \in 1..Size, image[p].op \in Ordinary, p # site PROVE image'[p] = image[p]
  <2>1. p \notin taken
    BY <1>6, <1>7, OrdinaryOps DEF Padding
  <2> HIDE DEF taken
  <2> QED BY <1>3, <1>5, <1>7, <2>1
<1>8. Diverted(site, cave, words)'
  <2>1. image'[site] = To("b", site, cave)
    BY <1>2, <1>5
  <2>2. ASSUME NEW i \in 1..Len(words)
        PROVE  /\ cave + i - 1 \in Text /\ was[cave + i - 1].op \in Padding
               /\ image'[cave + i - 1] = words[i]
    <3> DEFINE j == cave + i - 1
    <3>1. j \in taken /\ j - cave + 1 = i
      BY <1>2
    <3> HIDE DEF j, taken
    <3>2. j \in Text /\ was[j].op \in Padding /\ j # site /\ j \in 1..Size
      BY <1>2, <1>6, <3>1
    <3>3. image'[j] = words[i]
      BY <1>3, <1>5, <3>1, <3>2
    <3> QED BY <3>2, <3>3 DEF j
  <2> QED BY <1>1, <2>1, <2>2 DEF Diverted
<1>9. Kept
  <2> HIDE DEF taken
  <2> QED BY <1>2, <1>7 DEF Kept
<1> QED BY <1>1, <1>7, <1>8, <1>9

\* A diversion keeps what is run elsewhere.
LEMMA DivertKept ==
  ASSUME IInv, KeptInv, was' = was, Size' = Size, Kept, NEW site \in Text,
         \A p \in 1..Size : image[p].op \in Ordinary /\ p # site => image'[p] = image[p],
         "early_console" \in applied' => "early_console" \in applied,
         Movable' => Movable /\ image[site].op # "b",
         \A w : Movable' /\ w = image[site] /\ w.op \in Ordinary => Faithful(w, site)',
         "null_guard" \in applied' /\ Movable' =>
           \/ "null_guard" \in applied
           \/ \E c \in Text : Guarding(was[Guarded + 3], Guarded + 3, c)'
  PROVE  KeptInv'
<1> SUFFICES ASSUME Movable'
             PROVE  /\ \A p \in Text : Undisturbed(was', p) => Faithful(was[p], p)'
                    /\ "early_console" \in applied' =>
                         /\ PrintArea \subseteq 1..(Size')
                         /\ \A p \in PrintArea : Faithful(ConsoleWord(p), p)'
                    /\ "null_guard" \in applied' =>
                         \E c \in Text : Guarding(was[Guarded + 3], Guarded + 3, c)'
  BY DEF KeptInv
<1>1. Movable /\ Text \subseteq 1..Size /\ image[site].op # "b"
  BY ImageText
<1>2. ASSUME NEW p \in 1..Size, NEW w, w.op \in Ordinary, Faithful(w, p)
      PROVE  Faithful(w, p)'
  <2>1. image[p].op \in Ordinary /\ (image[p] = w \/ image[p].op = "b")
    BY <1>2, FaithfulOrdinary
  <2>2. CASE p = site
    <3>1. w = image[site]
      BY <1>1, <2>1, <2>2
    <3> QED BY <1>2, <2>2, <3>1
  <2>3. CASE p # site
    <3>1. image'[p] = image[p]
      BY <2>1, <2>3
    <3> QED BY <1>2, <3>1, FaithfulKept
  <2> QED BY <2>2, <2>3
<1>3. ASSUME NEW p \in Text, Undisturbed(was', p) PROVE Faithful(was[p], p)'
  <2> SUFFICES ASSUME NEW w, w = was[p] PROVE Faithful(w, p)'
    BY DEF Faithful, Trapping, Guarding, Tracing, Diverted
  <2>1. w.op \in Ordinary /\ p \in 1..Size
    BY <1>1, <1>3, CodeSites
  <2>2. Faithful(w, p)
    BY <1>1, <1>3 DEF KeptInv
  <2> QED BY <1>2, <2>1, <2>2
<1>4. ASSUME "early_console" \in applied'
      PROVE  /\ PrintArea \subseteq 1..(Size')
             /\ \A p \in PrintArea : Faithful(ConsoleWord(p), p)'
  <2>1. PrintArea \subseteq 1..Size /\ \A p \in PrintArea : Faithful(ConsoleWord(p), p)
    BY <1>1, <1>4 DEF KeptInv
  <2>2. ASSUME NEW p \in PrintArea PROVE Faithful(ConsoleWord(p), p)'
    BY <1>2, <2>1, ConsoleOrdinary
  <2> QED BY <2>1, <2>2
<1>5. ASSUME "null_guard" \in applied
      PROVE  \E c \in Text : Guarding(was[Guarded + 3], Guarded + 3, c)'
  <2> DEFINE q == Guarded + 3
  <2>1. PICK c \in Text : Guarding(was[q], q, c)
    BY <1>1, <1>5 DEF KeptInv
  <2>2. q \in Text /\ Undisturbed(was, q) /\ was[q].op \in Ordinary
    BY CodeSites
  <2> HIDE DEF q
  <2>3. image[q].op = "b"
    BY <2>1, OrdinaryOps DEF Guarding, Diverted
  <2>4. image'[q] = image[q]
    BY <1>1, <2>2, <2>3, OrdinaryOps
  <2>5. Guarding(was[q], q, c)'
    <3> SUFFICES ASSUME NEW w, w = was[q] PROVE Guarding(w, q, c)'
      BY DEF Guarding, Diverted
    <3> QED BY <2>1, <2>2, <2>4, GuardingKept
  <2> QED BY <2>5 DEF q
<1> QED BY <1>3, <1>4, <1>5

-----------------------------------------------------------------------------
(* The three diversions *)

\* cond_trap moves a call into its stub.
LEMMA CondTrapKept ==
  ASSUME IInv, KeptInv, NEW site \in Calls, CondTrap(site)
  PROVE  KeptInv'
<1>1. was \in Kernels /\ site \in Text /\ Text \subseteq 1..Size
  BY ImageText, AddressAssumption
<1>2. was[site].op = "bl" /\ was[site].op \notin Padding
  BY <1>1, RoutineAssumption DEF Padding
<1>3. image[site].op = "bl" /\ moved' = moved
  BY DEF CondTrap
<1>4. PICK w : w = image[site]
  OBVIOUS
<1>5. PICK c : c = find_padding(image, 8, site)
  OBVIOUS
<1> DEFINE ws == TrapStub(w, site, c)
<1>6. c # 0 /\ Divert("cond_trap", site, c, ws)
  BY <1>4, <1>5 DEF CondTrap, TrapStub
<1>7. c \in Text /\ Zeros(image, c, 8)
  BY <1>1, <1>5, <1>6, FindPadding
<1>8. Len(ws) = 8
  BY TrapWords
<1> HIDE DEF ws
<1>9. Len(ws) \in Nat /\ \A j \in c..(c + Len(ws) - 1) : j \in Text /\ image[j].op = "zero"
  BY <1>7, <1>8 DEF Zeros
<1>10. /\ was' = was /\ applied' = applied \cup {"cond_trap"} /\ Size' = Size
       /\ \A p \in 1..Size : image[p].op \in Ordinary /\ p # site => image'[p] = image[p]
       /\ Diverted(site, c, ws)'
       /\ Kept
  BY <1>1, <1>2, <1>6, <1>7, <1>9, DivertWrites
<1>11. Trapping(w, site, c)'
  BY <1>3, <1>4, <1>10 DEF Trapping, ws
<1>12. \A v : Movable' /\ v = image[site] /\ v.op \in Ordinary => Faithful(v, site)'
  BY <1>4, <1>7, <1>11 DEF Faithful
<1>13. Movable' => Movable /\ image[site].op # "b"
  BY <1>3 DEF Movable
<1>14. /\ "early_console" \in applied' => "early_console" \in applied
       /\ "null_guard" \in applied' => "null_guard" \in applied
  BY <1>10
<1> QED BY <1>1, <1>10, <1>12, <1>13, <1>14, DivertKept

\* null_guard moves a word that may be moved into its stub, or Movable is false
\* from then on.
LEMMA NullGuardKept ==
  ASSUME IInv, KeptInv, NullGuard
  PROVE  KeptInv'
<1> DEFINE site == Guarded + 3
<1>1. /\ was \in Kernels /\ site \in Text /\ Text \subseteq 1..Size
      /\ Undisturbed(was, site) /\ was[site].op \in Ordinary
  BY ImageText, CodeSites
<1>2. was[site].op \notin Padding
  BY <1>1, OrdinaryOps DEF Padding
<1>3. PICK w : w = image[site]
  OBVIOUS
<1>4. PICK c : c = find_padding(image, 6, site)
  OBVIOUS
<1> DEFINE ws == GuardStub(w, site, c)
<1>5. c # 0 /\ Divert("null_guard", site, c, ws)
      /\ moved' = moved \cup {[word |-> image[site], aligned |-> TRUE]}
  BY <1>3, <1>4 DEF NullGuard, GuardStub
<1>6. c \in Text /\ Zeros(image, c, 6)
  <2> HIDE DEF site, ws
  <2> QED BY <1>1, <1>4, <1>5, FindPadding
<1>7. Len(ws) = 5
  BY GuardWords
<1> HIDE DEF ws
<1>8. Len(ws) \in Nat /\ \A j \in c..(c + Len(ws) - 1) : j \in Text /\ image[j].op = "zero"
  <2>1. c \in Int
    BY <1>6 DEF Text
  <2>2. Len(ws) \in Nat /\ \A j \in c..(c + Len(ws) - 1) : j \in c..(c + 6 - 1)
    BY <1>7, <2>1
  <2> QED BY <1>6, <2>2 DEF Zeros
<1>18. site = Guarded + 3
  OBVIOUS
<1> HIDE DEF site
<1>9. /\ was' = was /\ applied' = applied \cup {"null_guard"} /\ Size' = Size
      /\ \A p \in 1..Size : image[p].op \in Ordinary /\ p # site => image'[p] = image[p]
      /\ Diverted(site, c, ws)'
      /\ Kept
  BY <1>1, <1>2, <1>5, <1>6, <1>8, DivertWrites
<1>10. Movable' => Movable /\ ~PcRelative(w)
  <2> DEFINE m == [word |-> image[site], aligned |-> TRUE]
  <2>1. m \in moved' /\ moved \subseteq moved' /\ m.word = w
    BY <1>3, <1>5
  <2> HIDE DEF m
  <2> QED BY <2>1 DEF Movable
<1>11. Movable' => Guarding(w, site, c)'
  BY <1>9, <1>10, <1>18 DEF Guarding, ws
<1>12. \A v : Movable' /\ v = image[site] /\ v.op \in Ordinary => Faithful(v, site)'
  BY <1>3, <1>6, <1>11 DEF Faithful
<1>13. Movable' => Movable /\ image[site].op # "b"
  BY <1>3, <1>10 DEF PcRelative
<1>14. Movable' => w = was[site]
  <2> SUFFICES ASSUME Movable' PROVE w = was[site]
    OBVIOUS
  <2>1. Faithful(was[site], site)
    BY <1>1, <1>13 DEF KeptInv
  <2> QED BY <1>3, <1>13, <2>1, OrdinaryOps DEF Faithful, Trapping, Guarding, Tracing, Diverted
<1>15. Movable' => \E b \in Text : Guarding(was[Guarded + 3], Guarded + 3, b)'
  <2> SUFFICES ASSUME Movable' PROVE Guarding(was[site], site, c)'
    BY <1>6, <1>18
  <2>1. w = was[site] /\ Guarding(w, site, c)'
    BY <1>11, <1>14
  <2> QED BY <1>9, <2>1 DEF Guarding, Diverted
<1>16. "early_console" \in applied' => "early_console" \in applied
  BY <1>9
<1> QED BY <1>1, <1>9, <1>12, <1>13, <1>15, <1>16, DivertKept

\* So does trace_wait, and an unaligned cave makes Movable false.
LEMMA TraceWaitKept ==
  ASSUME IInv, KeptInv, NEW site \in Targets, NEW given \in BOOLEAN, TraceWait(site, given)
  PROVE  KeptInv'
<1>1. was \in Kernels /\ site \in Text /\ Text \subseteq 1..Size
  BY ImageText, AddressAssumption
<1>2. was[site].op \notin Padding
  BY <1>1, SiteAssumption
<1>3. PICK w : w = image[site]
  OBVIOUS
<1>4. PICK c : c = find_run(image)
  OBVIOUS
<1>5. c # 0 /\ moved' = moved \cup {[word |-> image[site], aligned |-> Aligned(image, c)]}
  BY <1>4 DEF TraceWait
<1> SUFFICES ASSUME Movable' PROVE KeptInv'
  BY DEF KeptInv
<1>6. Movable /\ ~PcRelative(w) /\ Aligned(image, c)
  <2> DEFINE m == [word |-> image[site], aligned |-> Aligned(image, c)]
  <2>1. m \in moved' /\ moved \subseteq moved' /\ m.word = w /\ (m.aligned = Aligned(image, c))
    BY <1>3, <1>5
  <2> HIDE DEF m
  <2>2. m.aligned /\ ~PcRelative(m.word)
    BY <2>1 DEF Movable
  <2> QED BY <2>1, <2>2 DEF Movable
<1> DEFINE ws == TraceStub(w, site, c)
<1>7. Divert("trace_wait", site, c, ws)
  BY <1>3, <1>4, <1>6 DEF TraceWait, TraceStub
<1>8. c \in Text /\ Zeros(image, c, 16)
  BY <1>4, <1>5, <1>6, FindRun
<1>9. Len(ws) = 15
  BY TraceWords
<1> HIDE DEF ws
<1>10. Len(ws) \in Nat /\ \A j \in c..(c + Len(ws) - 1) : j \in Text /\ image[j].op = "zero"
  <2>1. c \in Int
    BY <1>8 DEF Text
  <2>2. Len(ws) \in Nat /\ \A j \in c..(c + Len(ws) - 1) : j \in c..(c + 16 - 1)
    BY <1>9, <2>1
  <2> QED BY <1>8, <2>2 DEF Zeros
<1>11. /\ was' = was /\ applied' = applied \cup {"trace_wait"} /\ Size' = Size
       /\ \A p \in 1..Size : image[p].op \in Ordinary /\ p # site => image'[p] = image[p]
       /\ Diverted(site, c, ws)'
       /\ Kept
  BY <1>1, <1>2, <1>7, <1>8, <1>10, DivertWrites
<1>12. Tracing(w, site, c)'
  BY <1>6, <1>11 DEF Tracing, ws
<1>13. \A v : Movable' /\ v = image[site] /\ v.op \in Ordinary => Faithful(v, site)'
  BY <1>3, <1>8, <1>12 DEF Faithful
<1>14. Movable' => Movable /\ image[site].op # "b"
  BY <1>3, <1>6 DEF PcRelative
<1>15. /\ "early_console" \in applied' => "early_console" \in applied
       /\ "null_guard" \in applied' => "null_guard" \in applied
  BY <1>11
<1> QED BY <1>1, <1>11, <1>13, <1>14, <1>15, DivertKept

-----------------------------------------------------------------------------
(* The booting routine *)

\* A tool that answers nothing, and leaves the routine alone.
LEMMA BootKept ==
  ASSUME BootInv, Answered' = Answered, \A i \in Boot..BootEnd : image'[i] = image[i]
  PROVE  BootInv'
<1>1. Boot \in Int /\ BootEnd \in Int /\ BootEnd \in Boot..BootEnd
  BY BootEndInText, BootAssumption
<1>2. image'[BootEnd].op = "ret"
  BY <1>1 DEF BootInv
<1>3. ASSUME NEW i \in Boot..(BootEnd - 1)
      PROVE  /\ image'[i] = image[i]
             /\ i > Boot => image'[i - 1] = image[i - 1]
  <2>1. i \in Boot..BootEnd /\ (i > Boot => i - 1 \in Boot..BootEnd)
    BY <1>1
  <2> QED BY <2>1
<1> QED BY <1>2, <1>3 DEF BootInv

\* The words of the routine are not padding.
LEMMA BootCode ==
  ASSUME IInv, BootInv
  PROVE  \A i \in Boot..BootEnd : i \in Text /\ i \in 1..Size /\ image[i].op \notin Padding
<1>1. Boot \in Int /\ BootEnd \in Int /\ Boot..BootEnd \subseteq Text /\ Text \subseteq 1..Size
  BY BootEndInText, BootAssumption, ImageText
<1>2. \A i \in Boot..BootEnd : i = BootEnd \/ i \in Boot..(BootEnd - 1)
  BY <1>1
<1>3. image[BootEnd].op \notin Padding
  BY DEF BootInv, Padding
<1>4. \A i \in Boot..(BootEnd - 1) : image[i].op \notin Padding
  BY DEF BootInv, Padding, Straight
<1> QED BY <1>1, <1>2, <1>3, <1>4

\* The diversions and the console are elsewhere.
LEMMA BootDiverted ==
  ASSUME IInv, BootInv, NEW tool \in {"cond_trap", "null_guard", "trace_wait"},
         NEW site \in {Guarded + 3} \cup Calls \cup Targets, Diversion(tool, site)
  PROVE  BootInv'
<1>1. PICK cave \in Text : \E words :
         /\ Len(words) \in Nat /\ \A k \in 1..Len(words) : words[k].op \in Code
         /\ \A j \in cave..(cave + Len(words) - 1) : j \in Text /\ image[j].op \in Padding
         /\ Divert(tool, site, cave, words)
  BY DEF Diversion
<1>2. PICK words :
         /\ Len(words) \in Nat /\ \A k \in 1..Len(words) : words[k].op \in Code
         /\ \A j \in cave..(cave + Len(words) - 1) : j \in Text /\ image[j].op \in Padding
         /\ Divert(tool, site, cave, words)
  BY <1>1
<1> DEFINE taken == cave..(cave + Len(words) - 1)
           put == Put(image, cave, words)
<1>3. Len(image) = Size /\ Size \in Nat
  BY ImageText
<1>4. put = [i \in 1..Size |-> IF i \in taken THEN words[i - cave + 1] ELSE image[i]]
  BY <1>3 DEF Put
<1>5. image' = [put EXCEPT ![site] = To("b", site, cave)]
  BY <1>2 DEF Divert
<1>6. \A j \in taken : image[j].op \in Padding
  BY <1>2
<1> HIDE DEF put, taken
<1>7. site \notin Boot..BootEnd
  BY BootAssumption
<1>8. \A i \in Boot..BootEnd : image'[i] = image[i]
  <2> SUFFICES ASSUME NEW i \in Boot..BootEnd PROVE image'[i] = image[i]
    OBVIOUS
  <2>1. i # site /\ i \in 1..Size /\ i \notin taken
    BY <1>6, <1>7, BootCode
  <2> QED BY <1>4, <1>5, <2>1
<1>9. Answered' = Answered
  BY <1>2 DEF Divert, Answered
<1> QED BY <1>8, <1>9, BootKept

\* The console is written elsewhere.
LEMMA BootConsole ==
  ASSUME IInv, BootInv, EarlyConsole(Printer)
  PROVE  BootInv'
<1>1. Len(image) = Size /\ Size \in Nat
  BY ImageText
<1>2. Printer \in Int
  BY AddressAssumption DEF Text
<1>3. Len(build(Printer)) = 11
  BY ConsoleWords
<1>4. image' = [i \in 1..Size |-> IF i \in PrintArea THEN ConsoleWord(i) ELSE image[i]]
  <2>1. Printer + Len(build(Printer)) - 1 = Printer + 10
    BY <1>2, <1>3
  <2> QED BY <1>1, <2>1 DEF EarlyConsole, Put, PrintArea, ConsoleWord
<1>5. \A i \in Boot..BootEnd : image'[i] = image[i]
  <2>1. \A i \in Boot..BootEnd : i \notin PrintArea
    BY BootAssumption
  <2> QED BY <1>4, <2>1, BootCode
<1>6. Answered' = Answered
  BY DEF EarlyConsole, Answered
<1> QED BY <1>5, <1>6, BootKept

\* The two tools that put a zero in place of a call whose answer is checked.
LEMMA BootAnswers ==
  ASSUME IInv, BootInv, NEW sites, image' = Answer(sites), \A i \in sites : image[i].op = "hvc",
         \A i \in Boot..(BootEnd - 1) :
           i > Boot /\ image[i].op = "cbnz_self" /\ image[i - 1].op = "hvc" => i - 1 \in sites
  PROVE  BootInv'
<1>1. Boot \in Int /\ BootEnd \in Int /\ BootEnd \in Boot..BootEnd
  BY BootEndInText, BootAssumption
<1>2. \A i \in Boot..BootEnd : image'[i] = IF i \in sites THEN W("movz_0") ELSE image[i]
  BY BootCode DEF Answer
<1>3. W("movz_0").op = "movz_0"
  BY OrdinaryOps
<1>4. image'[BootEnd].op = "ret"
  <2>1. BootEnd \notin sites
    BY DEF BootInv
  <2> QED BY <1>1, <1>2, <2>1 DEF BootInv
<1>5. ASSUME NEW i \in Boot..(BootEnd - 1)
      PROVE  /\ image'[i].op \in Straight \cup {"str_x0", "mov_x0", "hvc", "cbnz_self", "movz_0", "adrp_x0"}
             /\ image'[i].op = "cbnz_self" => i > Boot /\ image'[i - 1].op = "movz_0"
  <2>1. i \in Boot..BootEnd /\ (i > Boot => i - 1 \in Boot..BootEnd)
    BY <1>1
  <2>2. image'[i] = image[i] \/ image'[i].op = "movz_0"
    BY <1>2, <1>3, <2>1
  <2>3. image[i].op \in Straight \cup {"str_x0", "mov_x0", "hvc", "cbnz_self", "movz_0", "adrp_x0"}
        /\ (image[i].op = "cbnz_self" => i > Boot /\ image[i - 1].op \in {"hvc", "movz_0"})
    BY DEF BootInv
  <2>4. ASSUME image'[i].op = "cbnz_self" PROVE i > Boot /\ image'[i - 1].op = "movz_0"
    <3>1. image[i].op = "cbnz_self"
      BY <2>2, <2>4
    <3>2. i > Boot /\ image[i - 1].op \in {"hvc", "movz_0"}
      BY <2>3, <3>1
    <3>3. CASE image[i - 1].op = "hvc"
      BY <1>2, <1>3, <2>1, <3>1, <3>2, <3>3
    <3>4. CASE image[i - 1].op = "movz_0"
      BY <1>2, <1>3, <2>1, <3>2, <3>4
    <3> QED BY <3>2, <3>3, <3>4
  <2> QED BY <2>2, <2>3, <2>4
<1> QED BY <1>4, <1>5 DEF BootInv

\* stub_scratch takes the check away with the call.
LEMMA BootScratch ==
  ASSUME IInv, BootInv, StubScratch
  PROVE  BootInv'
<1> DEFINE sites == ScratchSites(image)
<1>1. /\ Boot \in Int /\ BootEnd \in Int /\ BootEnd \in Boot..BootEnd
      /\ Boot..BootEnd \subseteq Text
  BY BootEndInText, BootAssumption
<1>2. image' = [i \in 1..Size |-> CASE i \in sites -> W("adrp_x0")
                                    [] i - 1 \in sites -> W("nop")
                                    [] OTHER -> image[i]]
  BY DEF StubScratch
<1>3. W("adrp_x0").op = "adrp_x0" /\ W("nop").op = "nop"
  BY OrdinaryOps
<1>4. \A i \in sites : image[i].op \in {"hvc", "movz_0"} /\ image[i + 1].op = "cbnz_self"
  BY DEF ScratchSites, SpinsNext
<1>5. ASSUME NEW i \in Boot..(BootEnd - 1), i > Boot, image[i].op = "cbnz_self",
             image[i - 1].op \in {"hvc", "movz_0"}
      PROVE  i - 1 \in sites
  <2>1. i - 1 \in Boot..BootEnd /\ i \in Boot..BootEnd /\ (i - 1) + 1 = i
    BY <1>1, <1>5
  <2> QED BY <1>1, <1>5, <2>1 DEF ScratchSites, SpinsNext
<1> HIDE DEF sites
<1>6. \A i \in Boot..BootEnd : image'[i] = CASE i \in sites -> W("adrp_x0")
                                             [] i - 1 \in sites -> W("nop")
                                             [] OTHER -> image[i]
  BY <1>2, BootCode
<1>7. image'[BootEnd].op = "ret"
  <2>1. image[BootEnd].op = "ret" /\ (BootEnd - 1) + 1 = BootEnd
    BY <1>1 DEF BootInv
  <2>2. BootEnd \notin sites /\ BootEnd - 1 \notin sites
    BY <1>4, <2>1
  <2> QED BY <1>1, <1>6, <2>1, <2>2
<1>8. ASSUME NEW i \in Boot..(BootEnd - 1)
      PROVE  /\ image'[i].op \in Straight \cup {"str_x0", "mov_x0", "hvc", "cbnz_self", "movz_0", "adrp_x0"}
             /\ image'[i].op # "cbnz_self"
  <2>1. i \in Boot..BootEnd
    BY <1>1
  <2>2. image[i].op \in Straight \cup {"str_x0", "mov_x0", "hvc", "cbnz_self", "movz_0", "adrp_x0"}
        /\ (image[i].op = "cbnz_self" => i > Boot /\ image[i - 1].op \in {"hvc", "movz_0"})
    BY DEF BootInv
  <2>3. CASE i \in sites
    <3>1. (i - 1) + 1 = i
      BY <1>1
    <3>2. image[i].op \in {"hvc", "movz_0"}
      BY <1>4, <2>3
    <3>3. i - 1 \notin sites
      <4>1. i - 1 \in sites => image[(i - 1) + 1].op = "cbnz_self"
        BY <1>4
      <4> QED BY <3>1, <3>2, <4>1
    <3>4. image'[i] = W("adrp_x0")
      BY <1>6, <2>1, <2>3, <3>3
    <3> QED BY <1>3, <3>4
  <2>4. CASE i \notin sites /\ i - 1 \in sites
    <3>1. image'[i].op = "nop"
      BY <1>3, <1>6, <2>1, <2>4
    <3> QED BY <3>1 DEF Straight
  <2>5. CASE i \notin sites /\ i - 1 \notin sites
    <3>1. image'[i] = image[i]
      BY <1>6, <2>1, <2>5
    <3>2. image[i].op # "cbnz_self"
      BY <1>5, <2>2, <2>5
    <3> QED BY <2>2, <3>1, <3>2
  <2> QED BY <2>3, <2>4, <2>5
<1> QED BY <1>7, <1>8 DEF BootInv

\* patch.py may answer a call, and writes over no return.
LEMMA BootPatched ==
  ASSUME IInv, BootInv, Patch
  PROVE  BootInv'
<1>1. Boot \in Int /\ BootEnd \in Int /\ BootEnd \in Boot..BootEnd /\ PvSite # BootEnd
  BY BootEndInText, BootAssumption
<1>2. image' = [image EXCEPT ![PvSite] = W("movz_0")] /\ DOMAIN image = 1..Size
  BY DEF Patch, IInv, ImageInv
<1>3. W("movz_0").op = "movz_0"
  BY OrdinaryOps
<1>4. \A i \in Boot..BootEnd : image'[i] = IF i = PvSite THEN W("movz_0") ELSE image[i]
  BY <1>2, BootCode
<1>5. Answered' = Answered
  BY DEF Patch, Answered
<1>6. image'[BootEnd].op = "ret"
  BY <1>1, <1>4 DEF BootInv
<1>7. ASSUME NEW i \in Boot..(BootEnd - 1)
      PROVE  /\ image'[i].op \in Straight \cup {"str_x0", "mov_x0", "hvc", "cbnz_self", "movz_0", "adrp_x0"}
             /\ image'[i].op = "cbnz_self" =>
                  /\ i > Boot
                  /\ image'[i - 1].op \in {"hvc", "movz_0"}
                  /\ Answered => image'[i - 1].op = "movz_0"
  <2>1. i \in Boot..BootEnd /\ (i > Boot => i - 1 \in Boot..BootEnd)
    BY <1>1
  <2>2. image'[i] = image[i] \/ image'[i].op = "movz_0"
    BY <1>3, <1>4, <2>1
  <2>3. i > Boot => image'[i - 1] = image[i - 1] \/ image'[i - 1].op = "movz_0"
    BY <1>3, <1>4, <2>1
  <2>4. /\ image[i].op \in Straight \cup {"str_x0", "mov_x0", "hvc", "cbnz_self", "movz_0", "adrp_x0"}
        /\ image[i].op = "cbnz_self" =>
             /\ i > Boot
             /\ image[i - 1].op \in {"hvc", "movz_0"}
             /\ Answered => image[i - 1].op = "movz_0"
    BY DEF BootInv
  <2> QED BY <2>2, <2>3, <2>4
<1> QED BY <1>5, <1>6, <1>7 DEF BootInv

-----------------------------------------------------------------------------
(* The theorems *)

\* Both invariants hold of the kernel nobody has patched.
LEMMA InitBehaves == Init => KeptInv /\ BootInv
<1> SUFFICES ASSUME Init PROVE KeptInv /\ BootInv
  OBVIOUS
<1>1. was \in Kernels /\ image = was /\ applied = {}
  BY DEF Init
<1>2. KeptInv
  <2>1. \A p \in Text : Faithful(was[p], p)
    BY <1>1 DEF Faithful
  <2> QED BY <1>1, <2>1 DEF KeptInv
<1>3. BootInv
  <2>1. was[BootEnd].op = "ret"
    BY <1>1, BootAssumption
  <2>2. \A i \in Boot..(BootEnd - 1) :
          /\ was[i].op \in Straight \cup {"str_x0", "mov_x0", "hvc", "cbnz_self"}
          /\ was[i].op = "cbnz_self" => i > Boot /\ was[i - 1].op = "hvc"
    BY <1>1, BootAssumption
  <2> QED BY <1>1, <2>1, <2>2 DEF BootInv, Answered
<1> QED BY <1>2, <1>3

\* Every tool keeps what is run elsewhere.
LEMMA StepKept == IInv /\ KeptInv /\ [Next]_vars => KeptInv'
<1> SUFFICES ASSUME IInv, KeptInv, [Next]_vars PROVE KeptInv'
  OBVIOUS
<1>1. CASE UNCHANGED vars
  BY <1>1 DEF vars, KeptInv, Movable, Faithful, Trapping, Guarding, Tracing, Diverted, Size
<1> QED BY <1>1, AnswerKept, ConsoleKept, CondTrapKept, NullGuardKept, TraceWaitKept DEF Next

\* Every tool keeps what is left of the booting routine.
LEMMA StepBoot == IInv /\ BootInv /\ [Next]_vars => BootInv'
<1> SUFFICES ASSUME IInv, BootInv, [Next]_vars PROVE BootInv'
  OBVIOUS
<1>1. CASE UNCHANGED vars
  BY <1>1 DEF vars, BootInv, Answered
<1>2. ASSUME NEW i \in Boot..(BootEnd - 1), i > Boot, image[i].op = "cbnz_self",
             image[i - 1].op = "hvc"
      PROVE  /\ i - 1 \in Text /\ (i - 1) + 1 \in Text /\ i - 1 \in 1..Size
             /\ IsHvc(image, i - 1) /\ SpinsNext(image, i - 1)
             /\ classify(image, i - 1) = "checker"
  <2>1. i \in Boot..BootEnd /\ i - 1 \in Boot..BootEnd /\ (i - 1) + 1 = i /\ i \in Int
    BY <1>2, BootEndInText
  <2>2. i \in 1..Size /\ i - 1 \in 1..Size /\ i \in Text /\ i - 1 \in Text /\ Size \in Nat
        /\ Len(image) = Size
    BY <2>1, BootCode, ImageText
  <2>3. i - 1 < Len(image)
    BY <2>2
  <2> QED BY <1>2, <2>1, <2>2, <2>3 DEF IsHvc, SpinsNext, classify
<1>3. CASE StubHypercalls
  <2> DEFINE sites == find_sites(image)
  <2>1. image' = Answer(sites) /\ \A i \in sites : image[i].op = "hvc"
    BY <1>3 DEF StubHypercalls, find_sites, IsHvc
  <2>2. \A i \in Boot..(BootEnd - 1) :
          i > Boot /\ image[i].op = "cbnz_self" /\ image[i - 1].op = "hvc" => i - 1 \in sites
    BY <1>2 DEF find_sites
  <2> HIDE DEF sites
  <2> QED BY <2>1, <2>2, BootAnswers
<1>4. CASE HvcImpl
  <2> DEFINE sites == {i \in 1..Size : IsHvc(image, i) /\ classify(image, i) = "checker"}
  <2>1. image' = Answer(sites) /\ \A i \in sites : image[i].op = "hvc"
    BY <1>4 DEF HvcImpl, IsHvc
  <2>2. \A i \in Boot..(BootEnd - 1) :
          i > Boot /\ image[i].op = "cbnz_self" /\ image[i - 1].op = "hvc" => i - 1 \in sites
    BY <1>2
  <2> HIDE DEF sites
  <2> QED BY <2>1, <2>2, BootAnswers
<1> QED BY <1>1, <1>3, <1>4, BootScratch, BootPatched, BootConsole, BootDiverted,
           CondTrapDiverts, NullGuardDiverts, TraceWaitDiverts DEF Next

\* The three invariants hold after any sequence of tools.
THEOREM KeptInvariant == Spec => [](IInv /\ KeptInv /\ BootInv)
BY InitIInv, StepIInv, InitBehaves, StepKept, StepBoot, PTL DEF Spec

\* null_guard.py:18, cond_trap.py:17: for every kernel and every sequence of
\* tools, as long as what was displaced can be moved, each routine among Entries
\* does for a valid pointer what it did in the kernel as it was.
THEOREM WorkKeptCorrect == Spec => []WorkKept
BY KeptInvariant, WorkKeptFrom, PTL

\* The guarded routine returns on a null argument with its frame undone, and a
\* call cond_trap diverted stops in its stub, for every kernel and every
\* sequence of tools that moves only what can be moved.
THEOREM NullHandledCorrect == Spec => []NullHandled
BY KeptInvariant, NullHandledFrom, PTL

\* Once one of the three tools has answered the hypercalls, the routine that
\* makes them does not spin on a refused one, whatever was run before or after.
THEOREM NeverHangsCorrect == Spec => []NeverHangs
BY KeptInvariant, NeverHangsFrom, PTL

\* The console's routine sends each character once, in order, and returns, for
\* every string of up to Chars characters and every port that is read full up
\* to Busy times, also through the stub of a trace.
THEOREM ConsolePrintsCorrect == Spec => []ConsolePrints
BY KeptInvariant, ConsolePrintsFrom, PTL

=============================================================================
