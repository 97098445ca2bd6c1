--------------------------- MODULE Probes_proofs ---------------------------
(***************************************************************************)
(* What is found out by running a patched kernel: the two searches that    *)
(* boot it again and again, and the ring its calls are traced into.        *)
(*                                                                         *)
(* The sweep over every table, text and set of executed functions: types,  *)
(* a record of functions that execute and nothing else, and all of them    *)
(* when a boot fires no trap.                                              *)
(***************************************************************************)
EXTENDS Sweep, BisectCalls, TraceRing, FiniteSetTheorems, TLAPS

\* A state file, whole, cut short or not there, records each executed function
\* it excludes once.
Good(s) ==
  /\ s.kind \in {"absent", "partial", "state"}
  /\ s.hits \in Seq(Executed)
  /\ s.excluded = {s.hits[k] : k \in DOMAIN s.hits}
  /\ IsFiniteSet(s.excluded) /\ Cardinality(s.excluded) = Len(s.hits)

\* While a patched image waits to be booted, and after the last boot, no
\* invocation is writing, the file can be read, and the image was made from it.
ImageInv ==
  /\ traps \subseteq function_table \ constructors(function_table)
  /\ next \in {"patch", "boot", "exclude", "stop"}
  /\ next \in {"boot", "stop"} => Readable /\ traps = Selected(file.excluded)
  /\ next = "stop" => runs \cap traps = {}

\* What fired executes and is a function that was trapped.
FiredInv ==
  /\ fired \in Executed \cup {Nobody}
  /\ next = "exclude" => fired \in Executed

IInv == Good(file) /\ Good(saving) /\ ImageInv /\ FiredInv /\ crashes \in 0..MaxCrashes
-----------------------------------------------------------------------------
\* The walks leave a word as a function only if it is an address in the text.
LEMMA TableInText == function_table \subseteq Text
<1>1. \A d \in {-1, 1} : Walk(d) \subseteq Text
  <2> SUFFICES ASSUME NEW d \in {-1, 1}, NEW q \in DOMAIN Table, (q - Anchor) * d > 0,
                      \A r \in DOMAIN Table :
                        (r - Anchor) * d > 0 /\ (q - r) * d >= 0 => Entry(r)
               PROVE  Table[q] \in Text
    BY DEF Walk
  <2>1. q \in Int
    BY TableAssumption
  <2>2. (q - q) * d >= 0
    BY <2>1
  <2> QED BY <2>2 DEF Entry
<1> QED BY <1>1 DEF function_table

\* No file is a good state.
LEMMA AbsentGood == Good(Absent) /\ Good(Partial)
BY FS_EmptySet DEF Good, Absent, Partial

\* Recording an executed function that is not excluded yet.
LEMMA RecordGood ==
  ASSUME Good(file), NEW f \in Executed, f \notin file.excluded
  PROVE  Good(State(file.excluded \cup {f}, Append(file.hits, f)))
<1> DEFINE h == file.hits
           g == Append(h, f)
<1>1. h \in Seq(Executed) /\ g \in Seq(Executed) /\ Len(g) = Len(h) + 1
  BY DEF Good
<1>2. DOMAIN g = 1..(Len(h) + 1) /\ DOMAIN h = 1..Len(h) /\ Len(h) \in Nat
  BY <1>1
<1>3. g[Len(h) + 1] = f /\ \A k \in DOMAIN h : g[k] = h[k]
  BY <1>1, <1>2
<1> HIDE DEF g, h
<1>4. {g[k] : k \in DOMAIN g} = {h[k] : k \in DOMAIN h} \cup {f}
  BY <1>2, <1>3
<1>5. file.excluded = {h[k] : k \in DOMAIN h} /\ Cardinality(file.excluded) = Len(h)
  BY DEF Good, h
<1>6. IsFiniteSet(file.excluded \cup {f}) /\ Cardinality(file.excluded \cup {f}) = Len(h) + 1
  BY <1>5, FS_AddElement DEF Good
<1> QED BY <1>1, <1>4, <1>5, <1>6 DEF Good, State, g, h
-----------------------------------------------------------------------------
\* The loop starts without a file and without a patched image.
LEMMA InitIInv == Init => IInv
BY AbsentGood, CrashAssumption DEF Init, IInv, ImageInv, FiredInv

\* What is trapped is in the table and not dropped statically.
LEMMA PatchIInv == IInv /\ Patch => IInv'
<1> SUFFICES ASSUME IInv, Patch PROVE IInv'
  OBVIOUS
<1>1. Good(file)' /\ Good(saving)'
  BY DEF IInv, Patch, Good, Executed
<1>2. ImageInv'
  BY DEF IInv, ImageInv, Patch, Selected, Readable
<1>3. FiredInv'
  BY DEF IInv, FiredInv, Patch, Executed
<1> QED BY <1>1, <1>2, <1>3 DEF IInv, Patch

\* A trap that fires is a function that executes; if none does, nothing trapped
\* executes.
LEMMA BootIInv == IInv /\ Boot => IInv'
<1> SUFFICES ASSUME IInv, Boot PROVE IInv'
  OBVIOUS
<1>1. Good(file)' /\ Good(saving)'
  BY DEF IInv, Boot, Good, Executed
<1>2. \/ fired' = Nobody /\ next' = "stop" /\ runs \cap traps = {}
      \/ fired' \in runs \cap traps /\ next' = "exclude"
  BY DEF Boot
<1>3. ImageInv'
  BY <1>2 DEF IInv, ImageInv, Boot, Selected, Readable
<1>4. runs \cap traps \subseteq Executed
  BY DEF IInv, ImageInv, Executed
<1>5. FiredInv'
  BY <1>2, <1>4 DEF IInv, FiredInv, Boot, Executed
<1> QED BY <1>1, <1>3, <1>5 DEF IInv, Boot

\* The file is truncated and the new record still to be written.
LEMMA ExcludeIInv == IInv /\ Exclude => IInv'
<1> SUFFICES ASSUME IInv, Exclude PROVE IInv'
  OBVIOUS
<1>1. fired \in Executed /\ fired \notin file.excluded /\ next \in {"exclude", "patch"}
  BY DEF IInv, FiredInv, Exclude, CanExclude
<1>2. Good(saving')
  BY <1>1, RecordGood DEF IInv, Exclude, Record
<1>3. Good(saving)' /\ Good(file)'
  BY <1>2, AbsentGood DEF Exclude, Record, Good, Executed
<1>4. ImageInv' /\ FiredInv'
  BY <1>1 DEF IInv, ImageInv, FiredInv, Exclude, Record, Selected, Executed
<1> QED BY <1>3, <1>4 DEF IInv, Exclude, Record

\* The record is written to its end, the invocation is killed before, or a
\* file cut short is deleted.
LEMMA FileIInv == IInv /\ (Save \/ Crash \/ Discard) => IInv'
<1> SUFFICES ASSUME IInv, Save \/ Crash \/ Discard PROVE IInv'
  OBVIOUS
<1>1. runs' = runs /\ traps' = traps /\ fired' = fired
  BY DEF Save, Crash, Discard
<1>2. Good(file') /\ Good(saving')
  BY AbsentGood DEF IInv, Save, Crash, Discard
<1>3. Good(file)' /\ Good(saving)'
  BY <1>1, <1>2 DEF Good, Executed
<1>4. next \notin {"boot", "stop"}
  BY DEF IInv, ImageInv, Readable, Save, Crash, Discard
<1>5. next' \in {next, "patch"}
  BY DEF Save, Crash, Discard
<1>6. ImageInv' /\ FiredInv'
  BY <1>1, <1>4, <1>5 DEF IInv, ImageInv, FiredInv, Executed
<1>7. crashes' \in 0..MaxCrashes
  BY CrashAssumption DEF IInv, Save, Crash, Discard
<1> QED BY <1>3, <1>6, <1>7 DEF IInv

\* The inductive invariant holds in every state of the loop.
THEOREM SweepInvariant == Spec => []IInv
<1>1. IInv /\ UNCHANGED vars => IInv'
  <2> SUFFICES ASSUME IInv, UNCHANGED vars PROVE IInv'
    OBVIOUS
  <2>1. Good(file)' /\ Good(saving)'
    BY DEF vars, IInv, Good, Executed
  <2>2. ImageInv' /\ FiredInv'
    BY DEF vars, IInv, ImageInv, FiredInv, Executed, Readable, Selected
  <2> QED BY <2>1, <2>2 DEF vars, IInv
<1>2. IInv /\ [Next]_vars => IInv'
  BY <1>1, PatchIInv, BootIInv, ExcludeIInv, FileIInv DEF Next
<1> QED BY InitIInv, <1>2, PTL DEF Spec
-----------------------------------------------------------------------------
\* Whatever executes and whenever an invocation is killed, the variables keep
\* their types.
THEOREM SweepTypeCorrect == Spec => []TypeOK
<1>1. IInv => TypeOK
  <2> SUFFICES ASSUME IInv PROVE TypeOK
    OBVIOUS
  <2>1. Executed \subseteq function_table /\ Executed \subseteq Text
    BY TableInText DEF Executed
  <2>2. ASSUME NEW s, Good(s)
        PROVE  /\ s.kind \in {"absent", "partial", "state"}
               /\ s.excluded \subseteq Text /\ s.hits \in Seq(Text)
    BY <2>1, <2>2 DEF Good
  <2> QED BY <2>1, <2>2 DEF IInv, ImageInv, FiredInv, TypeOK
<1> QED BY <1>1, SweepInvariant, PTL

\* For every table and every set of executed functions: the record never names
\* a function that does not execute, none twice, and is what is excluded.
THEOREM HitsGenuineCorrect == Spec => []HitsGenuine
<1>1. IInv => HitsGenuine
  BY DEF IInv, Good, HitsGenuine
<1> QED BY <1>1, SweepInvariant, PTL

\* For every table and every set of executed functions: a boot in which
\* nothing fires leaves the record of all of them.
THEOREM CompleteCorrect == Spec => []Complete
<1>1. IInv => Complete
  <2> SUFFICES ASSUME IInv, next = "stop"
               PROVE  Executed = {file.hits[k] : k \in DOMAIN file.hits}
    BY DEF Complete
  <2>1. file.excluded = {file.hits[k] : k \in DOMAIN file.hits} /\ file.hits \in Seq(Executed)
    BY DEF IInv, Good
  <2>2. Executed \subseteq file.excluded
    BY DEF IInv, ImageInv, Selected, Executed
  <2>3. \A k \in DOMAIN file.hits : file.hits[k] \in Executed
    BY <2>1
  <2> QED BY <2>1, <2>2, <2>3
<1> QED BY <1>1, SweepInvariant, PTL
-----------------------------------------------------------------------------
(***************************************************************************)
(* The search for the call that never returns, over every number of call   *)
(* sites: the interval stays one, no site above it is reached, one at its  *)
(* lower end or just below is, and each boot halves it.                    *)
(***************************************************************************)
\* The interval is within the sites and not empty, and an image that waits to
\* be booted traps from a site below its upper end.
IntervalInv ==
  /\ visited \subseteq Site /\ block \in visited
  /\ lo \in Site /\ hi \in Site /\ lo <= hi
  /\ from = -1 \/ from \in lo..(hi - 1)

\* A fired trap shows that a site from the one below the interval on is
\* reached, a boot without one that none above the interval is.
ReachInv == /\ \E s \in visited : s >= lo - 1
            /\ \A s \in visited : s <= hi

Suspects == IntervalInv /\ ReachInv
-----------------------------------------------------------------------------
\* A search begins with all the sites.
LEMMA InitSuspects == BCInit => Suspects
BY SitesAssumption DEF BCInit, Suspects, IntervalInv, ReachInv, Site

\* The middle of an interval of two sites or more is below its upper end.
LEMMA PatchSuspects == Suspects /\ PatchFrom => Suspects'
<1> SUFFICES ASSUME Suspects, PatchFrom PROVE Suspects'
  OBVIOUS
<1>1. lo \in Int /\ hi \in Int /\ lo < hi /\ from' = (lo + hi) \div 2
  BY SitesAssumption DEF Suspects, IntervalInv, PatchFrom, Site
<1>2. from' \in lo..(hi - 1)
  BY <1>1
<1> QED BY <1>2 DEF Suspects, IntervalInv, ReachInv, PatchFrom

\* A trap fired at a reached site, which is from the middle on; a boot in which
\* none did never reached one from there on.
LEMMA BootSuspects == Suspects /\ BootPatched => Suspects'
<1> SUFFICES ASSUME Suspects, BootPatched PROVE Suspects'
  OBVIOUS
<1>1. /\ from \in lo..(hi - 1) /\ from \in Site /\ lo \in Site /\ hi \in Site
      /\ visited \subseteq Site /\ block \in visited
  BY SitesAssumption DEF Suspects, IntervalInv, BootPatched, Site
<1>2. visited' = visited /\ block' = block /\ from' = -1
  BY DEF BootPatched
<1>3. CASE Fired
  <2>1. lo' = from + 1 /\ hi' = hi
    BY <1>3 DEF BootPatched, Narrow
  <2>2. PICK s \in visited : s >= from
    BY <1>3 DEF Fired, trapped
  <2>3. s >= lo' - 1
    BY <1>1, <2>1, <2>2, SitesAssumption DEF Site
  <2>4. \A v \in visited : v <= hi'
    BY <2>1 DEF Suspects, ReachInv
  <2>5. ReachInv'
    BY <1>2, <2>3, <2>4 DEF ReachInv
  <2>6. IntervalInv'
    BY <1>1, <1>2, <2>1, SitesAssumption DEF IntervalInv, Site
  <2> QED BY <2>5, <2>6 DEF Suspects
<1>4. CASE ~Fired
  <2>1. lo' = lo /\ hi' = from
    BY <1>4 DEF BootPatched, Narrow
  <2>2. \A s \in visited : s \notin trapped(from)
    BY <1>4 DEF Fired
  <2>3. \A s \in visited : s < from
    BY <1>1, <2>2, SitesAssumption DEF trapped, Site
  <2>4. ReachInv'
    BY <1>1, <1>2, <2>1, <2>3, SitesAssumption DEF Suspects, ReachInv, Site
  <2>5. IntervalInv'
    BY <1>1, <1>2, <2>1, SitesAssumption DEF IntervalInv, Site
  <2> QED BY <2>4, <2>5 DEF Suspects
<1> QED BY <1>3, <1>4

\* The interval and what its ends stand for hold throughout a search.
THEOREM IntervalCorrect == BCSpec => []Suspects
<1>1. Suspects /\ UNCHANGED BCvars => Suspects'
  BY DEF Suspects, IntervalInv, ReachInv, BCvars
<1>2. Suspects /\ [BCNext]_BCvars => Suspects'
  BY <1>1, PatchSuspects, BootSuspects DEF BCNext
<1> QED BY InitSuspects, <1>2, PTL DEF BCSpec

\* For every number of call sites and whatever order they run in, the rule of
\* the docstring never gives up the upper end too early.
THEOREM UpperBoundCorrect == BCSpec => []UpperBound
<1>1. Suspects => UpperBound
  BY DEF Suspects, IntervalInv, ReachInv, UpperBound
<1> QED BY <1>1, IntervalCorrect, PTL
-----------------------------------------------------------------------------
\* One exponent more doubles a power of two: the subsets of 1..n + 1 are those
\* of 1..n, with and without n + 1.
LEMMA PowerOfTwo ==
  ASSUME NEW n \in Nat
  PROVE  2^n \in Nat /\ 2^(n + 1) = 2 * 2^n
<1> DEFINE S == 1..n
           T == 1..(n + 1)
           A == SUBSET S
           With(X) == X \cup {n + 1}
           B == {With(X) : X \in A}
<1>1. IsFiniteSet(A) /\ Cardinality(A) = 2^n
  <2>1. IsFiniteSet(S) /\ Cardinality(S) = n
    BY FS_Interval
  <2> QED
    BY <2>1, FS_SUBSET
<1>2. IsFiniteSet(T) /\ Cardinality(SUBSET T) = 2^(n + 1)
  <2>1. IsFiniteSet(T) /\ Cardinality(T) = n + 1
    BY FS_Interval
  <2> QED
    BY <2>1, FS_SUBSET
<1>3. IsFiniteSet(B) /\ Cardinality(B) = Cardinality(A)
  <2> DEFINE f == [X \in A |-> With(X)]
  <2>1. \A X \in A : n + 1 \notin X
    OBVIOUS
  <2>2. f \in Bijection(A, B)
    <3>1. \A X, Y \in A : With(X) = With(Y) => X = Y
      BY <2>1
    <3>2. \A b \in B : \E X \in A : f[X] = b
      OBVIOUS
    <3>3. f \in [A -> B]
      OBVIOUS
    <3> QED
      BY <3>1, <3>2, <3>3, Zenon DEF Bijection, Injection, Surjection, IsInjective
  <2> HIDE DEF f, A, B
  <2>3. ExistsBijection(A, B)
    BY <2>2 DEF ExistsBijection
  <2> QED
    BY <1>1, <2>3, FS_Bijection
<1>4. A \cap B = {}
  BY n + 1 \notin S
<1>5. SUBSET T = A \cup B
  <2>1. ASSUME NEW X \in SUBSET T PROVE X \in A \cup B
    <3>1. CASE n + 1 \in X
      <4>1. X \ {n + 1} \in A
        OBVIOUS
      <4>2. X = With(X \ {n + 1})
        BY <3>1
      <4> QED
        BY <4>1, <4>2
    <3>2. CASE n + 1 \notin X
      BY <3>2
    <3> QED
      BY <3>1, <3>2
  <2>2. S \subseteq T /\ n + 1 \in T
    OBVIOUS
  <2>3. \A X \in A : X \in SUBSET T /\ With(X) \in SUBSET T
    BY <2>2
  <2>4. \A X \in A \cup B : X \in SUBSET T
    BY <2>3
  <2> HIDE DEF A, B, T
  <2> QED
    BY <2>1, <2>4
<1>6. Cardinality(A \cup B) = Cardinality(A) + Cardinality(B) - Cardinality(A \cap B)
  <2> HIDE DEF A, B
  <2> QED
    BY <1>1, <1>3, FS_Union
<1>7. Cardinality(A \cap B) = 0
  BY <1>4, FS_EmptySet
<1>8. Cardinality(A) \in Nat
  BY <1>1, FS_CardinalityType
<1> DEFINE a == Cardinality(A)
           t == Cardinality(SUBSET T)
<1>9. t = a + a - 0
  <2> HIDE DEF A, B, T
  <2>1. Cardinality(SUBSET T) = Cardinality(A) + Cardinality(A) - 0
    BY <1>3, <1>5, <1>6, <1>7, Zenon
  <2> QED
    BY <2>1, Zenon
<1>10. a \in Nat /\ t = 2 * a
  <2> HIDE DEF a, t
  <2>1. a \in Nat
    BY <1>8 DEF a
  <2> QED
    BY <1>9, <2>1
<1> HIDE DEF A, T
<1> QED
  BY <1>1, <1>2, <1>10, Zenon

\* The boots left are enough for the sites still suspected.
HalvingInv ==
  /\ boots \in 0..Boots
  /\ from # -1 => from = (lo + hi) \div 2
  /\ hi - lo + 1 <= 2^(Boots - boots)

LEMMA InitHalving == BCInit => HalvingInv
<1> SUFFICES ASSUME BCInit PROVE HalvingInv
  OBVIOUS
<1>1. Boots - 0 = Boots
  BY SitesAssumption
<1>2. 2^Boots \in Nat
  BY SitesAssumption, PowerOfTwo
<1>3. 2^(Boots - boots) = 2^Boots
  BY <1>1 DEF BCInit
<1> QED
  BY <1>2, <1>3, SitesAssumption DEF BCInit, HalvingInv

\* Each half of an interval needs one boot less.
LEMMA BootHalving == Suspects /\ HalvingInv /\ BootPatched => HalvingInv'
<1> SUFFICES ASSUME Suspects, HalvingInv, BootPatched PROVE HalvingInv'
  OBVIOUS
<1> DEFINE n == Boots - boots
<1>1. /\ lo \in Int /\ hi \in Int /\ from \in lo..(hi - 1)
      /\ from = (lo + hi) \div 2 /\ boots' = boots + 1 /\ from' = -1
      /\ lo < hi
  BY SitesAssumption DEF Suspects, IntervalInv, HalvingInv, BootPatched, Site
<1>2. n \in Nat /\ boots \in Nat /\ hi - lo + 1 <= 2^n /\ Boots \in Nat
  BY SitesAssumption DEF HalvingInv
<1>3. n # 0
  <2>1. 2^0 = 1
    OBVIOUS
  <2> HIDE DEF n
  <2>2. ASSUME n = 0 PROVE FALSE
    <3>1. 2^n = 1
      BY <2>1, <2>2
    <3> QED
      BY <1>1, <1>2, <3>1
  <2> QED
    BY <2>2
<1>4. n - 1 \in Nat /\ 2^(n - 1) \in Nat /\ 2^n = 2 * 2^(n - 1)
  <2>1. n - 1 \in Nat /\ (n - 1) + 1 = n
    BY <1>2, <1>3
  <2>2. 2^(n - 1) \in Nat /\ 2^((n - 1) + 1) = 2 * 2^(n - 1)
    <3> HIDE DEF n
    <3> QED
      BY <2>1, PowerOfTwo
  <2> HIDE DEF n
  <2> QED
    BY <2>1, <2>2
<1>5. Boots - boots' = n - 1
  BY <1>1, <1>2
<1> DEFINE h == 2^(n - 1)
<1>6. hi - lo + 1 <= 2 * h /\ h \in Nat
  BY <1>2, <1>4
<1>7. hi' - lo' + 1 <= h
  <2> HIDE DEF h, n
  <2>1. CASE Fired
    <3>1. lo' = from + 1 /\ hi' = hi
      BY <2>1 DEF BootPatched, Narrow
    <3> QED
      BY <1>1, <1>6, <3>1
  <2>2. CASE ~Fired
    <3>1. hi' = from /\ lo' = lo
      BY <2>2 DEF BootPatched, Narrow
    <3> QED
      BY <1>1, <1>6, <3>1
  <2> QED
    BY <2>1, <2>2
<1>8. boots' \in 0..Boots
  BY <1>1, <1>2, <1>3
<1>9. hi' - lo' + 1 <= 2^(Boots - boots')
  <2> HIDE DEF n
  <2> QED
    BY <1>5, <1>7
<1> QED
  BY <1>1, <1>8, <1>9 DEF HalvingInv

LEMMA PatchHalving == HalvingInv /\ PatchFrom => HalvingInv'
BY DEF HalvingInv, PatchFrom

\* For every number of call sites, every set of reached ones and every order,
\* the search is over after as many boots as it takes to double one site up to
\* all of them, and the interval then names the last site reached or the one
\* after it.
THEOREM SettlesCorrect == BCSpec => []Settles
<1>1. HalvingInv /\ UNCHANGED BCvars => HalvingInv'
  BY DEF HalvingInv, BCvars
<1>2. Suspects /\ HalvingInv /\ [BCNext]_BCvars => HalvingInv'
  BY <1>1, PatchHalving, BootHalving DEF BCNext
<1>3. Suspects /\ HalvingInv => Settles
  <2> SUFFICES ASSUME Suspects, HalvingInv PROVE Settles
    OBVIOUS
  <2>1. lo \in Int /\ hi \in Int /\ lo <= hi /\ boots <= Boots /\ visited \subseteq Int
    BY SitesAssumption DEF Suspects, IntervalInv, HalvingInv, Site
  <2>2. ASSUME boots = Boots PROVE lo = hi
    <3>1. Boots - boots = 0
      BY <2>2, SitesAssumption
    <3>2. 2^(Boots - boots) = 1
      <4>1. 2^0 = 1
        OBVIOUS
      <4> QED
        BY <3>1, <4>1, Zenon
    <3> QED
      BY <2>1, <3>2 DEF HalvingInv
  <2>3. ASSUME lo = hi PROVE \E s \in {hi - 1, hi} : Highest(s)
    <3>1. PICK s \in visited : s >= hi - 1
      BY <2>3 DEF Suspects, ReachInv
    <3>2. \A v \in visited : v <= hi
      BY DEF Suspects, ReachInv
    <3>3. CASE hi \in visited
      BY <3>2, <3>3 DEF Highest
    <3>4. CASE hi \notin visited
      <4>1. \A v \in visited : v <= hi - 1
        BY <2>1, <3>2, <3>4
      <4>2. s = hi - 1
        BY <2>1, <3>1, <4>1
      <4> QED BY <3>1, <4>1, <4>2 DEF Highest
    <3> QED BY <3>3, <3>4
  <2> QED
    BY <2>1, <2>2, <2>3 DEF Settles
<1> QED BY InitHalving, IntervalCorrect, <1>2, <1>3, PTL DEF BCSpec
-----------------------------------------------------------------------------
(***************************************************************************)
(* The trace ring for every number of flows and every ring size: types,    *)
(* the index never running ahead, and the last Ring entries kept whole     *)
(* when no increment was lost and no flow was lapped.                      *)
(***************************************************************************)

\* The flows that have a call under way.
Busy(f) == pc[f] # "idle"

\* The flows that have not stored their index yet.
Unclaimed(f) == pc[f] \in {"ldr", "str"}

\* What of an entry is already in memory.
Stored(f) == IF pc[f] = "event" THEN {"thread"}
             ELSE IF pc[f] = "caller" THEN {"thread", "event"} ELSE {}

(***************************************************************************)
(* Calls are numbered once, and a call is claimed from its str on.         *)
(***************************************************************************)
CallsInv ==
  /\ \A f \in Flows : Busy(f) => blk[f] \in 1..started /\ blk[f] \notin done
  /\ \A f, g \in Flows : Busy(f) /\ Busy(g) /\ blk[f] = blk[g] => f = g
  /\ \A f \in Flows : Unclaimed(f) => claim[blk[f]] = 0
  /\ \A f \in Flows : Storing(f) => claim[blk[f]] = x8[f]
  /\ \A b \in Claimed : b <= started
  /\ done \subseteq Claimed

\* The index is behind the number of claims, a loaded one by at most one.
CountInv ==
  /\ NeverAhead
  /\ \A f \in Flows : pc[f] = "str" => x8[f] \in 1..(Cardinality(Claimed) + 1)
  /\ \A f \in Flows : Storing(f) => x8[f] # 0

\* As long as nothing raced, claims are distinct and the newest one is idx.
ClaimInv ==
  ~raced => /\ \A b \in Claimed : claim[b] <= idx
            /\ \A b, c \in Claimed : claim[b] = claim[c] => b = c

\* As long as nothing raced, finished and half-written entries are there.
EntryInv ==
  wrap /\ ~raced =>
    \A f \in Flows : Storing(f) /\ x8[f] + Ring > idx =>
      \A fld \in Stored(f) : mem[x8[f] % Ring][fld] = blk[f]

RingInv == RingTypeOK /\ CallsInv /\ CountInv /\ ClaimInv /\ KeepsLast /\ EntryInv
\* The three sets of program counters are abbreviations everywhere below.
USE DEF Busy, Unclaimed, Storing, Field
-----------------------------------------------------------------------------
\* Two numbers less than Ring apart have different remainders.
LEMMA ModApart ==
  ASSUME NEW a \in Nat, NEW b \in Nat, a < b, b < a + Ring
  PROVE  a % Ring # b % Ring
<1>1. Ring \in Nat /\ Ring > 0
  BY RingAssumption
<1> SUFFICES ASSUME a % Ring = b % Ring PROVE FALSE
  OBVIOUS
<1> DEFINE p == a \div Ring
           q == b \div Ring
<1>2. /\ p \in Int /\ q \in Int
      /\ a = Ring * p + (a % Ring)
      /\ b = Ring * q + (b % Ring)
  BY <1>1
<1> HIDE DEF p, q
<1>3. b - a = Ring * (q - p)
  BY <1>1, <1>2, SMT
<1>4. q - p \in Int /\ Ring * (q - p) > 0 /\ Ring * (q - p) < Ring
  BY <1>1, <1>2, <1>3
<1>5. CASE q - p <= 0
  BY <1>1, <1>4, <1>5, SMT
<1>6. CASE q - p >= 1
  BY <1>1, <1>4, <1>6, SMT
<1> QED BY <1>4, <1>5, <1>6

\* Slots of a ring are memory.
LEMMA SlotType == \A v \in Nat : wrap => Slot(v) = v % Ring /\ v % Ring \in Slots
<1> TAKE v \in Nat
<1>1. v % Ring \in 0..Ring - 1
  BY RingAssumption
<1> QED BY <1>1, RingAssumption, BlocksAssumption DEF Slot, Slots, Limit

-----------------------------------------------------------------------------
\* The invariant holds before the first call.
LEMMA InitRingInv == RingInit => RingInv
<1> SUFFICES ASSUME RingInit PROVE RingInv
  OBVIOUS
<1>1. RingTypeOK
  <2>1. mem \in [Slots -> [Field -> Block \cup {Nothing}]]
    BY DEF RingInit
  <2>2. started \in 0..MaxBlocks
    BY BlocksAssumption DEF RingInit
  <2>3. raced \in BOOLEAN
    BY DEF RingInit
  <2> QED BY <2>1, <2>2, <2>3 DEF RingInit, RingTypeOK
<1>2. Claimed = {}
  BY DEF RingInit, Claimed
<1>3. NeverAhead
  BY <1>2, FS_EmptySet DEF RingInit, NeverAhead
<1>4. \A f \in Flows : ~Busy(f) /\ ~Unclaimed(f) /\ ~Storing(f)
  BY DEF RingInit, Busy, Unclaimed, Storing, Field
<1>5. CallsInv /\ CountInv
  BY <1>2, <1>3, <1>4 DEF RingInit, CallsInv, CountInv, Unclaimed
<1>6. ClaimInv /\ KeepsLast /\ EntryInv
  BY <1>2, <1>4 DEF RingInit, ClaimInv, KeepsLast, EntryInv
<1> QED BY <1>1, <1>3, <1>5, <1>6 DEF RingInv, CountInv

\* The set of claims is finite.
LEMMA ClaimedFinite == IsFiniteSet(Claimed) /\ Cardinality(Claimed) \in Nat
<1>1. IsFiniteSet(Block)
  BY FS_Interval, BlocksAssumption DEF Block
<1> QED BY <1>1, FS_Subset, FS_CardinalityType DEF Claimed

-----------------------------------------------------------------------------
(***************************************************************************)
(* One lemma per action.                                                   *)
(***************************************************************************)
\* Entering the detour keeps the invariant.
LEMMA CallRingInv ==
  ASSUME RingInv, NEW f \in Flows, Call(f)
  PROVE  RingInv'
<1>1. started + 1 \in Block /\ started \in Nat
  BY BlocksAssumption DEF RingInv, RingTypeOK, Call, Block
<1>2. RingTypeOK'
  BY <1>1, BlocksAssumption DEF RingInv, RingTypeOK, Call
<1>3. Claimed' = Claimed
  BY DEF Claimed, Call
<1>4. /\ pc[f] = "idle" /\ pc'[f] = "ldr" /\ blk'[f] = started + 1
      /\ \A g \in Flows \ {f} : pc'[g] = pc[g] /\ blk'[g] = blk[g]
      /\ \A g \in Flows : Storing(g)' <=> Storing(g)
  BY DEF Call, RingInv, RingTypeOK, Storing, Field
<1>5. claim[started + 1] = 0 /\ started + 1 \notin done
  BY <1>1 DEF RingInv, CallsInv, Claimed
<1>6. CallsInv'
  <2>1. \A g \in Flows : Busy(g)' => blk'[g] \in 1..started' /\ blk'[g] \notin done'
    BY <1>1, <1>4, <1>5 DEF Call, Busy, RingInv, CallsInv
  <2>2. \A g, h \in Flows : Busy(g)' /\ Busy(h)' /\ blk'[g] = blk'[h] => g = h
    BY <1>1, <1>4 DEF Busy, RingInv, CallsInv
  <2>3. \A g \in Flows : Unclaimed(g)' => claim'[blk'[g]] = 0
    BY <1>4, <1>5 DEF Call, Unclaimed, RingInv, CallsInv
  <2>4. \A g \in Flows : Storing(g)' => claim'[blk'[g]] = x8'[g]
    BY <1>4 DEF Call, Storing, Field, RingInv, CallsInv
  <2>5. (\A b \in Claimed' : b <= started') /\ done' \subseteq Claimed'
    BY <1>1, <1>3 DEF Call, RingInv, CallsInv, Claimed, Block
  <2> QED BY <2>1, <2>2, <2>3, <2>4, <2>5 DEF CallsInv
<1>7. CountInv'
  BY <1>3, <1>4 DEF Call, RingInv, CountInv, NeverAhead
<1>8. ClaimInv' /\ KeepsLast'
  BY <1>3 DEF Call, RingInv, ClaimInv, KeepsLast, Whole
<1>9. EntryInv'
  <2>1. \A g \in Flows : Storing(g)' => blk'[g] = blk[g] /\ Stored(g)' = Stored(g) /\ x8'[g] = x8[g]
    BY <1>4 DEF Call, Storing, Stored, Field
  <2> QED BY <1>4, <2>1 DEF Call, RingInv, EntryInv
<1> QED BY <1>2, <1>6, <1>7, <1>8, <1>9 DEF RingInv, CountInv

\* Loading the index keeps the invariant.
LEMMA LdrRingInv ==
  ASSUME RingInv, NEW f \in Flows, Ldr(f)
  PROVE  RingInv'
<1>1. RingTypeOK'
  BY DEF RingInv, RingTypeOK, Ldr, Load
<1>2. Claimed' = Claimed
  BY DEF Claimed, Ldr, Load
<1>3. /\ pc[f] = "ldr" /\ pc'[f] = "str" /\ x8'[f] = idx + 1
      /\ \A g \in Flows \ {f} : pc'[g] = pc[g] /\ x8'[g] = x8[g]
  BY DEF Ldr, Load, RingInv, RingTypeOK
<1>4. \A g \in Flows : pc'[g] = pc[g] \/ (pc[g] = "ldr" /\ pc'[g] = "str")
  BY <1>3
<1>4b. \A g \in Flows : pc'[g] \in Field => x8'[g] = x8[g] /\ pc'[g] = pc[g]
  BY <1>3
<1>5. CallsInv'
  <2>1. blk' = blk /\ started' = started /\ done' = done /\ claim' = claim
    BY DEF Ldr, Load
  <2>2. /\ \A g \in Flows : Busy(g)' => blk'[g] \in 1..started' /\ blk'[g] \notin done'
        /\ \A g, h \in Flows : Busy(g)' /\ Busy(h)' /\ blk'[g] = blk'[h] => g = h
    BY <1>4, <1>4b, <2>1 DEF RingInv, CallsInv
  <2>3. /\ \A g \in Flows : Unclaimed(g)' => claim'[blk'[g]] = 0
        /\ \A g \in Flows : Storing(g)' => claim'[blk'[g]] = x8'[g]
    BY <1>4, <1>4b, <2>1 DEF RingInv, CallsInv
  <2>4. (\A b \in Claimed' : b <= started') /\ done' \subseteq Claimed'
    BY <1>2, <2>1 DEF RingInv, CallsInv
  <2> QED BY <2>2, <2>3, <2>4 DEF CallsInv
<1>6. CountInv'
  <2>1. idx \in Nat /\ Cardinality(Claimed) \in Nat /\ idx <= Cardinality(Claimed)
    BY ClaimedFinite DEF RingInv, RingTypeOK, CountInv, NeverAhead
  <2>2. \A g \in Flows : pc'[g] = "str" => x8'[g] \in 1..(Cardinality(Claimed') + 1)
    BY <1>2, <1>3, <2>1 DEF RingInv, CountInv
  <2>3. \A g \in Flows : Storing(g)' => x8'[g] # 0
    BY <1>4, <1>4b DEF RingInv, CountInv
  <2> QED BY <1>2, <2>1, <2>2, <2>3 DEF CountInv, NeverAhead, Ldr, Load
<1>7. ClaimInv' /\ KeepsLast'
  BY <1>2 DEF Ldr, Load, RingInv, ClaimInv, KeepsLast, Whole
<1>8. EntryInv'
  BY <1>4, <1>4b DEF Ldr, Load, RingInv, EntryInv, Stored
<1> QED BY <1>1, <1>5, <1>6, <1>7, <1>8 DEF RingInv, CountInv

\* Storing the index keeps the invariant.
LEMMA StrRingInv ==
  ASSUME RingInv, NEW f \in Flows, Str(f)
  PROVE  RingInv'
<1>1. /\ pc[f] = "str" /\ pc'[f] = "thread" /\ idx' = x8[f]
      /\ \A g \in Flows \ {f} : pc'[g] = pc[g]
      /\ blk' = blk /\ x8' = x8 /\ mem' = mem /\ done' = done /\ started' = started
      /\ wrap' = wrap
  BY DEF Str, RingInv, RingTypeOK
<1>2. /\ blk[f] \in Block /\ blk[f] \in 1..started /\ blk[f] \notin done
      /\ claim[blk[f]] = 0
      /\ \A g \in Flows \ {f} : pc[g] # "idle" => blk[g] # blk[f]
  <2>1. blk[f] \in 1..started /\ blk[f] \notin done /\ claim[blk[f]] = 0
    BY <1>1 DEF RingInv, CallsInv
  <2>2. \A g \in Flows \ {f} : pc[g] # "idle" => blk[g] # blk[f]
    BY <1>1 DEF RingInv, CallsInv
  <2>3. started \in 0..MaxBlocks
    BY DEF RingInv, RingTypeOK
  <2> QED BY <2>1, <2>2, <2>3, BlocksAssumption DEF Block
<1>3. claim' = [claim EXCEPT ![blk[f]] = x8[f]]
  BY DEF Str
<1>4. x8[f] \in Nat /\ x8[f] # 0 /\ idx \in Nat /\ claim \in [Block -> Nat]
  BY <1>1, ClaimedFinite DEF RingInv, RingTypeOK, CountInv
<1>5. claim' \in [Block -> Nat] /\ claim'[blk[f]] = x8[f]
  BY <1>2, <1>3, <1>4
<1>6. \A b \in Block \ {blk[f]} : claim'[b] = claim[b]
  BY <1>3, <1>4
<1>7. Claimed' = Claimed \cup {blk[f]} /\ blk[f] \notin Claimed
  BY <1>2, <1>4, <1>5, <1>6 DEF Claimed
<1>8. Cardinality(Claimed') = Cardinality(Claimed) + 1 /\ Cardinality(Claimed) \in Nat
  BY <1>7, ClaimedFinite, FS_AddElement
<1>9. \A g \in Flows : pc[g] # "idle" => blk[g] \in Block
  BY BlocksAssumption DEF RingInv, RingTypeOK, CallsInv, Block
<1>10. RingTypeOK'
  BY <1>4, <1>5 DEF Str, RingInv, RingTypeOK
<1>11. CallsInv'
  <2>1. /\ \A g \in Flows : Busy(g)' => blk'[g] \in 1..started' /\ blk'[g] \notin done'
        /\ \A g, h \in Flows : Busy(g)' /\ Busy(h)' /\ blk'[g] = blk'[h] => g = h
    BY <1>1 DEF RingInv, CallsInv
  <2>2. \A g \in Flows : Unclaimed(g)' => claim'[blk'[g]] = 0
    BY <1>1, <1>2, <1>6, <1>9 DEF RingInv, CallsInv
  <2>3. \A g \in Flows : Storing(g)' => claim'[blk'[g]] = x8'[g]
    BY <1>1, <1>2, <1>5, <1>6, <1>9 DEF RingInv, CallsInv
  <2>4. (\A b \in Claimed' : b <= started') /\ done' \subseteq Claimed'
    BY <1>1, <1>2, <1>7 DEF RingInv, CallsInv
  <2> QED BY <2>1, <2>2, <2>3, <2>4 DEF CallsInv
<1>12. CountInv'
  <2>1. x8[f] <= Cardinality(Claimed) + 1
    BY <1>1, <1>8 DEF RingInv, CountInv
  <2>2. \A g \in Flows : pc'[g] = "str" => x8'[g] \in 1..(Cardinality(Claimed') + 1)
    BY <1>1, <1>8 DEF RingInv, CountInv
  <2>3. \A g \in Flows : pc'[g] \in Field => x8'[g] # 0
    BY <1>1, <1>4 DEF RingInv, CountInv
  <2> QED BY <1>1, <1>8, <2>1, <2>2, <2>3 DEF CountInv, NeverAhead
<1>13. ~raced' => ~raced /\ x8[f] = idx + 1
  <2>1. ~raced' => ~raced /\ idx = x8[f] - 1
    BY DEF Str
  <2> QED BY <1>4, <2>1
<1>14. ClaimInv'
  <2> SUFFICES ASSUME ~raced'
               PROVE  /\ \A b \in Claimed' : claim'[b] <= idx'
                      /\ \A b, c \in Claimed' : claim'[b] = claim'[c] => b = c
    BY DEF ClaimInv
  <2>1. \A b \in Claimed : claim'[b] = claim[b] /\ claim[b] <= idx /\ claim[b] \in Nat
    BY <1>4, <1>6, <1>7, <1>13 DEF RingInv, ClaimInv, Claimed
  <2>2. \A b, c \in Claimed : claim[b] = claim[c] => b = c
    BY <1>13 DEF RingInv, ClaimInv
  <2> QED BY <1>1, <1>4, <1>5, <1>7, <1>13, <2>1, <2>2
<1>15. KeepsLast'
  <2> SUFFICES ASSUME wrap', ~raced', NEW b \in done, claim'[b] + Ring > idx'
               PROVE  \A fld \in Field : mem'[claim'[b] % Ring][fld] = b
    BY <1>1 DEF KeepsLast, Whole
  <2>1. b \in Block /\ claim'[b] = claim[b] /\ claim[b] \in Nat
    BY <1>2, <1>4, <1>6 DEF RingInv, CallsInv, Claimed
  <2>2. claim[b] + Ring > idx
    BY <1>1, <1>4, <1>13, <2>1, RingAssumption
  <2>3. \A fld \in Field : mem[claim[b] % Ring][fld] = b
    BY <1>1, <1>13, <2>2 DEF RingInv, KeepsLast, Whole
  <2> QED BY <1>1, <2>1, <2>3
<1>16. EntryInv'
  <2> SUFFICES ASSUME wrap', ~raced', NEW g \in Flows, pc'[g] \in Field,
                      x8'[g] + Ring > idx', NEW fld \in Stored(g)'
               PROVE  mem'[x8'[g] % Ring][fld] = blk'[g]
    BY DEF EntryInv
  <2>1. g # f /\ pc'[g] = pc[g] /\ fld \in Stored(g)
    BY <1>1 DEF Stored
  <2>2. x8[g] + Ring > idx
    BY <1>1, <1>4, <1>13, RingAssumption DEF RingInv, RingTypeOK
  <2>3. mem[x8[g] % Ring][fld] = blk[g]
    BY <1>1, <1>13, <2>1, <2>2 DEF RingInv, EntryInv
  <2> QED BY <1>1, <2>3
<1> QED BY <1>10, <1>11, <1>12, <1>14, <1>15, <1>16 DEF RingInv, CountInv

\* Storing one field of an entry keeps the invariant.
LEMMA StoreRingInv ==
  ASSUME RingInv, NEW f \in Flows, Store(f)
  PROVE  RingInv'
<1>1. /\ pc[f] \in Field /\ pc'[f] = After(pc[f])
      /\ \A g \in Flows \ {f} : pc'[g] = pc[g]
      /\ idx' = idx /\ blk' = blk /\ x8' = x8 /\ started' = started /\ claim' = claim
      /\ wrap' = wrap
  BY DEF Store, RingInv, RingTypeOK
<1>2. /\ pc[f] = "thread" => pc'[f] = "event"
      /\ pc[f] = "event" => pc'[f] = "caller"
      /\ pc[f] = "caller" => pc'[f] = "idle"
  BY <1>1 DEF After
<1>3. /\ pc[f] = "caller" => done' = done \cup {blk[f]}
      /\ pc[f] # "caller" => done' = done
  BY DEF Store
<1>4. /\ blk[f] \in Block /\ blk[f] \notin done /\ claim[blk[f]] = x8[f] /\ x8[f] # 0
      /\ \A g \in Flows \ {f} : pc[g] # "idle" => blk[g] # blk[f]
  <2>1. blk[f] \in 1..started /\ blk[f] \notin done /\ claim[blk[f]] = x8[f]
    BY <1>1 DEF RingInv, CallsInv
  <2>2. x8[f] # 0
    BY <1>1 DEF RingInv, CountInv
  <2>3. \A g \in Flows \ {f} : pc[g] # "idle" => blk[g] # blk[f]
    BY <1>1 DEF RingInv, CallsInv
  <2>4. started \in 0..MaxBlocks
    BY DEF RingInv, RingTypeOK
  <2> QED BY <2>1, <2>2, <2>3, <2>4, BlocksAssumption DEF Block
<1>5. Claimed' = Claimed /\ blk[f] \in Claimed
  BY <1>1, <1>4 DEF Claimed
<1>6. done' \subseteq done \cup {blk[f]}
  BY <1>3
<1>7. idx \in Nat /\ x8[f] \in Nat /\ claim \in [Block -> Nat] /\ blk[f] \in Block \cup {Nothing}
  BY <1>4 DEF RingInv, RingTypeOK
<1>8. RingTypeOK'
  <2>1. Content(f, pc[f]) \in Block \cup {Nothing}
    BY <1>4 DEF Content
  <2>2. mem' \in [Slots -> [Field -> Block \cup {Nothing}]]
    BY <1>1, <2>1 DEF Store, RingInv, RingTypeOK
  <2>3. pc' \in [Flows -> {"idle", "ldr", "str"} \cup Field]
    BY <1>1, <1>2 DEF Store, RingInv, RingTypeOK
  <2>4. raced' \in BOOLEAN
    BY DEF Store
  <2>5. done' \subseteq Block
    BY <1>4, <1>6 DEF RingInv, RingTypeOK
  <2> QED BY <1>1, <2>2, <2>3, <2>4, <2>5 DEF RingInv, RingTypeOK
<1>9. CallsInv'
  <2>1. \A g \in Flows : pc'[g] # "idle" => pc[g] # "idle"
    BY <1>1
  <2>2. \A g \in Flows : Busy(g)' => blk'[g] \in 1..started' /\ blk'[g] \notin done'
    <3>1. \A g \in Flows : pc[g] # "idle" => blk[g] \in 1..started /\ blk[g] \notin done
      BY DEF RingInv, CallsInv
    <3>2. pc'[f] # "idle" => done' = done
      BY <1>1, <1>2, <1>3
    <3> QED BY <1>1, <1>4, <1>6, <2>1, <3>1, <3>2
  <2>3. \A g, h \in Flows : Busy(g)' /\ Busy(h)' /\ blk'[g] = blk'[h] => g = h
    BY <1>1, <2>1 DEF RingInv, CallsInv
  <2>4. \A g \in Flows : Unclaimed(g)' => claim'[blk'[g]] = 0
    BY <1>1, <1>2 DEF RingInv, CallsInv
  <2>5. \A g \in Flows : Storing(g)' => claim'[blk'[g]] = x8'[g]
    BY <1>1 DEF RingInv, CallsInv
  <2>6. (\A b \in Claimed' : b <= started') /\ done' \subseteq Claimed'
    BY <1>1, <1>5, <1>6 DEF RingInv, CallsInv
  <2> QED BY <2>2, <2>3, <2>4, <2>5, <2>6 DEF CallsInv
<1>10. CountInv'
  <2>1. \A g \in Flows : pc'[g] = "str" => x8'[g] \in 1..(Cardinality(Claimed') + 1)
    BY <1>1, <1>2, <1>5 DEF RingInv, CountInv
  <2>2. \A g \in Flows : pc'[g] \in Field => x8'[g] # 0
    BY <1>1 DEF RingInv, CountInv
  <2> QED BY <1>1, <1>5, <2>1, <2>2 DEF RingInv, CountInv, NeverAhead
<1>11. raced' = (raced \/ (wrap /\ idx >= x8[f] + Ring))
  BY DEF Store
<1>12. ClaimInv'
  <2>1. ~raced' => ~raced
    BY <1>11
  <2> QED BY <1>1, <1>5, <2>1 DEF RingInv, ClaimInv
<1> DEFINE s == x8[f] % Ring
<1>13. ASSUME wrap, ~raced'
       PROVE  /\ ~raced /\ idx < x8[f] + Ring /\ x8[f] <= idx
              /\ mem'[s][pc[f]] = blk[f]
              /\ \A fld \in Field \ {pc[f]} : mem'[s][fld] = mem[s][fld]
              /\ \A t \in Slots \ {s} : mem'[t] = mem[t]
  <2>1. ~raced /\ ~(idx >= x8[f] + Ring)
    BY <1>11, <1>13
  <2>2. idx < x8[f] + Ring
    BY <1>7, <2>1, RingAssumption
  <2>3. x8[f] <= idx
    BY <1>4, <1>5, <2>1 DEF RingInv, ClaimInv
  <2>4. Slot(x8[f]) = s /\ s \in Slots
    BY <1>7, <1>13, SlotType
  <2>5. Content(f, pc[f]) = blk[f]
    BY <1>13 DEF Content, Skips
  <2>6. mem' = [mem EXCEPT ![s][pc[f]] = blk[f]]
    BY <2>4, <2>5 DEF Store
  <2>7. mem \in [Slots -> [Field -> Block \cup {Nothing}]]
    BY DEF RingInv, RingTypeOK
  <2> HIDE DEF s
  <2> QED BY <1>1, <2>1, <2>2, <2>3, <2>4, <2>6, <2>7
<1>14. ASSUME wrap, ~raced', NEW b \in Claimed \ {blk[f]}, claim[b] + Ring > idx
       PROVE  mem'[claim[b] % Ring] = mem[claim[b] % Ring]
  <2>1. /\ claim[b] \in Nat /\ claim[b] <= idx /\ claim[b] # x8[f]
    BY <1>4, <1>5, <1>7, <1>13, <1>14 DEF RingInv, ClaimInv, Claimed
  <2>2. claim[b] % Ring # s
    <3>1. CASE claim[b] < x8[f]
      BY <1>7, <1>13, <1>14, <2>1, <3>1, ModApart, RingAssumption
    <3>2. CASE x8[f] < claim[b]
      BY <1>7, <1>13, <1>14, <2>1, <3>2, ModApart, RingAssumption
    <3> QED BY <1>7, <2>1, <3>1, <3>2
  <2>3. claim[b] % Ring \in Slots
    BY <1>14, <2>1, SlotType
  <2> QED BY <1>13, <1>14, <2>2, <2>3
<1>15. ASSUME wrap, ~raced'
       PROVE  \A fld \in Stored(f) : mem[s][fld] = blk[f]
  BY <1>1, <1>7, <1>13, <1>15, RingAssumption DEF RingInv, EntryInv
<1> HIDE DEF s
<1>16. KeepsLast'
  <2> SUFFICES ASSUME wrap', ~raced', NEW b \in done', claim[b] + Ring > idx
               PROVE  \A fld \in Field : mem'[claim[b] % Ring][fld] = b
    BY <1>1 DEF KeepsLast, Whole
  <2>0. wrap
    BY <1>1
  <2>1. CASE b = blk[f]
    <3>1. pc[f] = "caller"
      BY <1>3, <1>4, <2>1
    <3>2. mem[s]["thread"] = blk[f] /\ mem[s]["event"] = blk[f]
      BY <2>0, <1>15, <3>1 DEF Stored
    <3> QED BY <1>4, <2>0, <1>13, <2>1, <3>1, <3>2 DEF s
  <2>2. CASE b # blk[f]
    <3>1. b \in done /\ b \in Claimed
      BY <1>6, <2>2 DEF RingInv, CallsInv
    <3>2. \A fld \in Field : mem[claim[b] % Ring][fld] = b
      BY <2>0, <1>13, <3>1 DEF RingInv, KeepsLast, Whole
    <3> QED BY <2>0, <1>14, <2>2, <3>1, <3>2
  <2> QED BY <2>1, <2>2
<1>17. EntryInv'
  <2> SUFFICES ASSUME wrap', ~raced', NEW g \in Flows, pc'[g] \in Field,
                      x8[g] + Ring > idx, NEW fld \in Stored(g)'
               PROVE  mem'[x8[g] % Ring][fld] = blk[g]
    BY <1>1 DEF EntryInv
  <2>0. wrap
    BY <1>1
  <2>1. CASE g = f
    <3>1. fld \in Stored(f) \cup {pc[f]} /\ fld \in Field
      BY <1>1, <1>2, <2>1 DEF Stored
    <3>2. fld # pc[f] => mem[s][fld] = blk[f]
      BY <2>0, <1>15, <3>1
    <3> QED BY <2>0, <1>13, <2>1, <3>1, <3>2 DEF s
  <2>2. CASE g # f
    <3>1. pc[g] \in Field /\ fld \in Stored(g)
      BY <1>1, <2>2 DEF Stored
    <3>2. mem[x8[g] % Ring][fld] = blk[g]
      BY <2>0, <1>13, <3>1 DEF RingInv, EntryInv
    <3>3. blk[g] \in Claimed \ {blk[f]} /\ claim[blk[g]] = x8[g]
      <4>1. blk[g] # blk[f] /\ claim[blk[g]] = x8[g] /\ x8[g] # 0
        BY <1>4, <2>2, <3>1 DEF RingInv, CallsInv, CountInv
      <4>2. blk[g] \in 1..started /\ started \in 0..MaxBlocks
        BY <3>1 DEF RingInv, CallsInv, RingTypeOK
      <4> QED BY <4>1, <4>2, BlocksAssumption DEF Claimed, Block
    <3> QED BY <2>0, <1>14, <3>2, <3>3
  <2> QED BY <2>1, <2>2
<1> QED BY <1>8, <1>9, <1>10, <1>12, <1>16, <1>17 DEF RingInv, CountInv

-----------------------------------------------------------------------------
\* Every step of the detours keeps the invariant.
LEMMA StepRingInv == RingInv /\ [RingNext]_ringvars => RingInv'
<1> SUFFICES ASSUME RingInv, [RingNext]_ringvars PROVE RingInv'
  OBVIOUS
<1>1. ASSUME NEW f \in Flows, Call(f) \/ Ldr(f) \/ Str(f) \/ Store(f)
      PROVE  RingInv'
  BY <1>1, CallRingInv, LdrRingInv, StrRingInv, StoreRingInv
<1>2. CASE UNCHANGED ringvars
  <2>1. RingTypeOK' /\ Claimed' = Claimed
    BY <1>2 DEF ringvars, RingInv, RingTypeOK, Claimed
  <2>2. CallsInv' /\ CountInv' /\ ClaimInv'
    BY <1>2, <2>1 DEF ringvars, RingInv, CallsInv, CountInv, NeverAhead, ClaimInv
  <2>3. KeepsLast' /\ EntryInv'
    BY <1>2 DEF ringvars, RingInv, KeepsLast, EntryInv, Whole, Stored
  <2> QED BY <2>1, <2>2, <2>3 DEF RingInv
<1> QED BY <1>1, <1>2 DEF RingNext

\* The inductive invariant: calls are numbered once, the index trails the
\* claims, and until something races claims are distinct and entries stay.
THEOREM RingInvCorrect == RingSpec => []RingInv
BY InitRingInv, StepRingInv, PTL DEF RingSpec

\* Whatever the interleaving, the variables keep their types.
THEOREM RingTypeCorrect == RingSpec => []RingTypeOK
<1>1. RingInv => RingTypeOK
  BY DEF RingInv
<1> QED BY <1>1, RingInvCorrect, PTL

\* For any number of flows: the ring's index never counts more calls than
\* stored it, however their loads and stores interleave.
THEOREM NeverAheadCorrect == RingSpec => []NeverAhead
<1>1. RingInv => NeverAhead
  BY DEF RingInv, CountInv
<1> QED BY <1>1, RingInvCorrect, PTL

\* For any number of flows and any ring size: lost increments and lapped
\* writers are the only ways the ring loses one of its last Ring entries.
THEOREM KeepsLastCorrect == RingSpec => []KeepsLast
<1>1. RingInv => KeepsLast
  BY DEF RingInv
<1> QED BY <1>1, RingInvCorrect, PTL
-----------------------------------------------------------------------------
(***************************************************************************)
(* Where the stores of either kind of ring go.                             *)
(***************************************************************************)
\* A wrapping ring stays below Ring.
LEMMA StepInRing == RingInv /\ InRing /\ [RingNext]_ringvars => InRing'
<1> SUFFICES ASSUME RingInv, InRing, [RingNext]_ringvars, wrap', NEW s \in Slots, s >= Ring
             PROVE  Whole(s, Nothing)'
  BY DEF InRing
<1>1. CASE mem' = mem /\ wrap' = wrap
  BY <1>1 DEF InRing, Whole
<1>2. ASSUME NEW f \in Flows, Store(f)
      PROVE  Whole(s, Nothing)'
  <2>1. wrap /\ x8[f] \in Nat
    BY <1>2 DEF Store, RingInv, RingTypeOK
  <2>2. Slot(x8[f]) # s
    BY <2>1, RingAssumption DEF Slot
  <2>3. mem'[s] = mem[s]
    BY <1>2, <2>2 DEF Store, RingInv, RingTypeOK
  <2> QED BY <2>1, <2>3 DEF InRing, Whole
<1>3. [RingNext]_ringvars => (mem' = mem /\ wrap' = wrap) \/ \E f \in Flows : Store(f)
  BY DEF RingNext, ringvars, Call, Ldr, Load, Str
<1> QED BY <1>1, <1>2, <1>3

\* For any number of flows and any ring size: a wrapping ring writes its own
\* slots and no memory behind them.
THEOREM InRingCorrect == RingSpec => []InRing
<1>1. RingInit => InRing
  BY DEF RingInit, InRing, Whole
<1> QED BY <1>1, RingInvCorrect, StepInRing, PTL DEF RingSpec

\* What a one-shot ring has of the entries under way; slot 0 takes the
\* leftovers, and no claim is 0.
FirstInv ==
  ~wrap /\ ~raced =>
    \A f \in Flows : Storing(f) /\ x8[f] < Limit =>
      \A fld \in Stored(f) : mem[x8[f]][fld] = blk[f]

\* Every step keeps the finished and the half-written entries of a one-shot
\* ring.
LEMMA StepFirst ==
  RingInv /\ KeepsFirst /\ FirstInv /\ [RingNext]_ringvars => KeepsFirst' /\ FirstInv'
<1> SUFFICES ASSUME RingInv, KeepsFirst, FirstInv, [RingNext]_ringvars, ~wrap', ~raced'
             PROVE  KeepsFirst' /\ FirstInv'
  BY DEF KeepsFirst, FirstInv
<1>1. ASSUME NEW f \in Flows, Call(f)
      PROVE  KeepsFirst' /\ FirstInv'
  <2>1. \A g \in Flows : Storing(g)' => Storing(g) /\ Stored(g)' = Stored(g) /\ blk'[g] = blk[g]
    BY <1>1 DEF Call, Stored, RingInv, RingTypeOK
  <2> QED BY <1>1, <2>1 DEF Call, KeepsFirst, FirstInv, Whole
<1>2. ASSUME NEW f \in Flows, Ldr(f)
      PROVE  KeepsFirst' /\ FirstInv'
  <2>1. \A g \in Flows : Storing(g)' => Storing(g) /\ Stored(g)' = Stored(g) /\ x8'[g] = x8[g]
    BY <1>2 DEF Ldr, Load, Stored, RingInv, RingTypeOK
  <2> QED BY <1>2, <2>1 DEF Ldr, Load, KeepsFirst, FirstInv, Whole
<1>3. ASSUME NEW f \in Flows, Str(f)
      PROVE  KeepsFirst' /\ FirstInv'
  <2>1. pc' = [pc EXCEPT ![f] = "thread"] /\ mem' = mem /\ blk' = blk /\ x8' = x8
        /\ done' = done /\ wrap' = wrap /\ ~raced
    BY <1>3 DEF Str
  <2>2. \A b \in done : claim'[b] = claim[b]
    <3>1. pc[f] = "str" /\ blk[f] \notin done
      BY <1>3 DEF Str, RingInv, CallsInv
    <3>2. done \subseteq Block /\ claim \in [Block -> Nat]
      BY DEF RingInv, RingTypeOK
    <3> QED BY <1>3, <3>1, <3>2 DEF Str
  <2>3. KeepsFirst'
    BY <2>1, <2>2 DEF KeepsFirst, Whole
  <2>4. \A g \in Flows : Storing(g)' => (Storing(g) /\ Stored(g)' = Stored(g)) \/ Stored(g)' = {}
    BY <2>1 DEF Stored, RingInv, RingTypeOK
  <2>5. FirstInv'
    BY <2>1, <2>4 DEF FirstInv
  <2> QED BY <2>3, <2>5
<1>4. ASSUME NEW f \in Flows, Store(f)
      PROVE  KeepsFirst' /\ FirstInv'
  <2> DEFINE v == x8[f]
  <2>1. /\ pc[f] \in Field /\ pc' = [pc EXCEPT ![f] = After(pc[f])]
        /\ pc \in [Flows -> {"idle", "ldr", "str"} \cup Field]
        /\ blk' = blk /\ x8' = x8 /\ claim' = claim /\ wrap' = wrap /\ ~wrap /\ ~raced
        /\ done' = IF pc[f] = "caller" THEN done \cup {blk[f]} ELSE done
        /\ mem' = [mem EXCEPT ![Slot(v)][pc[f]] = Content(f, pc[f])]
    BY <1>4 DEF Store, RingInv, RingTypeOK
  <2>2. /\ v \in Nat /\ v # 0 /\ claim[blk[f]] = v
        /\ mem \in [Slots -> [Field -> Block \cup {Nothing}]]
    BY <2>1 DEF RingInv, RingTypeOK, CallsInv, CountInv
  <2>3. ASSUME NEW w \in Nat, w # 0, w # v
        PROVE  mem'[w] = mem[w]
    <3>1. Slot(v) # w
      BY <2>1, <2>3 DEF Slot
    <3> QED BY <2>1, <2>2, <3>1
  <2>4. ASSUME v < Limit
        PROVE  /\ mem'[v][pc[f]] = blk[f]
               /\ \A fld \in Field \ {pc[f]} : mem'[v][fld] = mem[v][fld]
    <3>1. Slot(v) = v /\ v \in Slots
      BY <2>1, <2>2, <2>4, BlocksAssumption, RingAssumption DEF Slot, Skips, Slots, Limit
    <3>2. Content(f, pc[f]) = blk[f]
      BY <2>1, <2>2, <2>4, RingAssumption DEF Content, Skips, Limit
    <3> QED BY <2>1, <2>2, <3>1, <3>2
  <2>5. \A fld \in Stored(f) : v < Limit => mem[v][fld] = blk[f]
    BY <2>1 DEF FirstInv
  <2>6. ASSUME NEW g \in Flows \ {f}, pc[g] \in Field
        PROVE  x8[g] \in Nat /\ x8[g] # 0 /\ x8[g] # v
    <3>1. /\ blk[g] # blk[f] /\ claim[blk[g]] = x8[g] /\ x8[g] # 0 /\ x8[g] \in Nat
          /\ blk[g] \in Block /\ blk[f] \in Block
      <4>1. blk[g] \in 1..started /\ blk[f] \in 1..started /\ started \in 0..MaxBlocks
        BY <2>1, <2>6 DEF RingInv, CallsInv, RingTypeOK
      <4>2. blk[g] \in Block /\ blk[f] \in Block
        BY <4>1, BlocksAssumption DEF Block
      <4>3. blk[g] # blk[f] /\ claim[blk[g]] = x8[g]
        BY <2>1, <2>6 DEF RingInv, CallsInv
      <4>4. x8[g] # 0 /\ x8[g] \in Nat
        BY <2>6 DEF RingInv, CountInv, RingTypeOK
      <4> QED BY <4>2, <4>3, <4>4
    <3>2. blk[g] \in Claimed /\ blk[f] \in Claimed
      BY <2>2, <3>1 DEF Claimed
    <3> QED BY <2>1, <2>2, <3>1, <3>2 DEF RingInv, ClaimInv
  <2> HIDE DEF v
  <2>7. KeepsFirst'
    <3> SUFFICES ASSUME NEW b \in done', claim[b] < Limit
                 PROVE  \A fld \in Field : mem'[claim[b]][fld] = b
      BY <2>1 DEF KeepsFirst, Whole, Limit
    <3>1. CASE b \in done
      <4>1. b # blk[f] /\ b \in Claimed /\ claim[b] \in Nat /\ claim[b] # 0 /\ blk[f] \in Block
        <5>1. blk[f] \notin done /\ blk[f] \in 1..started /\ started \in 0..MaxBlocks
          BY <2>1 DEF RingInv, CallsInv, RingTypeOK
        <5>2. b \in Claimed
          BY <3>1 DEF RingInv, CallsInv
        <5>3. b \in Block /\ claim[b] # 0 /\ claim[b] \in Nat
          BY <5>2 DEF Claimed, RingInv, RingTypeOK
        <5>4. blk[f] \in Block
          BY <5>1, BlocksAssumption DEF Block
        <5> QED BY <3>1, <5>1, <5>2, <5>3, <5>4
      <4>2. blk[f] \in Claimed
        BY <2>2, <4>1 DEF Claimed
      <4>3. claim[b] # v
        BY <2>1, <2>2, <4>1, <4>2 DEF RingInv, ClaimInv
      <4>4. \A fld \in Field : mem[claim[b]][fld] = b
        BY <2>1, <3>1 DEF KeepsFirst, Whole
      <4> QED BY <2>3, <4>1, <4>3, <4>4
    <3>2. CASE b \notin done
      <4>1. pc[f] = "caller" /\ b = blk[f]
        BY <2>1, <3>2
      <4>2. mem[v]["thread"] = b /\ mem[v]["event"] = b
        BY <2>2, <2>5, <4>1 DEF Stored
      <4> QED BY <2>2, <2>4, <4>1, <4>2
    <3> QED BY <3>1, <3>2
  <2>8. FirstInv'
    <3> SUFFICES ASSUME NEW g \in Flows, pc'[g] \in Field, x8[g] < Limit, NEW fld \in Stored(g)'
                 PROVE  mem'[x8[g]][fld] = blk[g]
      BY <2>1 DEF FirstInv, Limit
    <3>1. CASE g = f
      <4>1. fld \in Stored(f) \cup {pc[f]} /\ fld \in Field
        BY <2>1, <3>1 DEF Stored, After
      <4> QED BY <2>4, <2>5, <3>1, <4>1 DEF v
    <3>2. CASE g # f
      <4>1. pc[g] \in Field /\ fld \in Stored(g)
        BY <2>1, <3>2 DEF Stored
      <4>2. mem[x8[g]][fld] = blk[g]
        BY <2>1, <4>1 DEF FirstInv
      <4> QED BY <2>3, <2>6, <3>2, <4>1, <4>2
    <3> QED BY <3>1, <3>2
  <2> QED BY <2>7, <2>8
<1>5. CASE UNCHANGED ringvars
  BY <1>5 DEF ringvars, KeepsFirst, FirstInv, Whole, Stored
<1> QED BY <1>1, <1>2, <1>3, <1>4, <1>5 DEF RingNext

\* For any number of flows and any ring size: unless an increment was lost, a
\* one-shot ring keeps every call recorded below the limit, whatever the calls
\* past it leave in slot 0.
THEOREM KeepsFirstCorrect == RingSpec => []KeepsFirst
<1>1. RingInit => KeepsFirst /\ FirstInv
  BY DEF RingInit, KeepsFirst, FirstInv
<1> QED BY <1>1, RingInvCorrect, StepFirst, PTL DEF RingSpec
=============================================================================
