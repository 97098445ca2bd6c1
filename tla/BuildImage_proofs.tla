------------------------- MODULE BuildImage_proofs -------------------------
(***************************************************************************)
(* The layout of every kernel under every command line build_image         *)
(* accepts, and the files of a directory after any sequence of commands.   *)
(***************************************************************************)
EXTENDS BuildImage, WellFoundedInduction, TLAPS

Kernels == ByHand \cup UNION {Range(p.holds) : p \in Packages}
-----------------------------------------------------------------------------
(***************************************************************************)
(* Rounding up.                                                            *)
(***************************************************************************)
LEMMA Megabytes ==
  ASSUME NEW n \in Nat
  PROVE  /\ align(n, MiB) \in Nat /\ n <= align(n, MiB)
         /\ align(n, MiB) % MiB = 0 /\ align(n, MiB) % PAGE = 0
<1>1. MiB = 1048576 /\ PAGE = 4096
  BY DEF MiB, KiB, PAGE
<1> QED
  BY <1>1 DEF align

LEMMA Pages ==
  ASSUME NEW n \in Nat
  PROVE  align(n, PAGE) \in Nat /\ n <= align(n, PAGE) /\ align(n, PAGE) % PAGE = 0
<1>1. PAGE = 4096
  BY DEF KiB, PAGE
<1> QED
  BY <1>1 DEF align

LEMMA Sixteens ==
  ASSUME NEW n \in Nat
  PROVE  align(n, 16) \in Nat /\ n <= align(n, 16)
BY DEF align

\* Whole pages in front are kept by the rounding.
LEMMA PagesAfter ==
  ASSUME NEW m \in Nat, m % PAGE = 0, NEW n \in Nat
  PROVE  align(m + n, PAGE) = m + align(n, PAGE)
<1>1. PAGE = 4096
  BY DEF KiB, PAGE
<1> QED
  BY <1>1 DEF align

\* What a register narrower than its modulus holds.
LEMMA SmallRemainder ==
  ASSUME NEW a \in Nat, NEW b \in Nat \ {0}, a < b
  PROVE  a % b = a
<1>1. a = b * 0 + a /\ 0 <= a /\ a < b
  OBVIOUS
<1> QED
  BY <1>1
-----------------------------------------------------------------------------
(***************************************************************************)
(* Least and greatest elements.                                            *)
(***************************************************************************)
LEMMA Least ==
  ASSUME NEW S \in SUBSET Nat, S # {}
  PROVE  Min(S) \in S /\ \A y \in S : Min(S) <= y
<1> DEFINE R == {p \in Nat \X Nat : p[1] < p[2]}
<1>1. IsWellFoundedOn(R, Nat)
  BY NatLessThanWellFounded DEF OpToRel
<1>2. \A a, b \in Nat : b < a => <<b, a>> \in R
  OBVIOUS
<1> HIDE DEF R
<1>3. PICK x \in S : \A y \in S : <<y, x>> \notin R
  BY <1>1, WFMin
<1>4. \A y \in S : x <= y
  <2>1. \A y \in S : y \in Nat /\ x \in Nat
    BY <1>3
  <2>2. \A y \in S : ~(y < x)
    BY <1>2, <1>3, <2>1, Zenon
  <2> QED
    BY <2>1, <2>2
<1> QED
  BY <1>3, <1>4, Zenon DEF Min

LEMMA Greatest ==
  ASSUME NEW n \in Nat, NEW S \in SUBSET (1..n), S # {}
  PROVE  Max(S) \in S
<1> DEFINE T == {n - x : x \in S}
<1>1. T \in SUBSET Nat /\ T # {}
  <2>1. \A x \in S : n - x \in Nat
    OBVIOUS
  <2> QED
    BY <2>1
<1>2. PICK t \in T : \A u \in T : t <= u
  <2> HIDE DEF T
  <2> QED
    BY <1>1, Least
<1>3. PICK x \in S : t = n - x
  BY <1>2
<1>4. \A y \in S : x >= y
  <2> SUFFICES ASSUME NEW y \in S PROVE x >= y
    OBVIOUS
  <2>1. n - y \in T /\ x \in Nat /\ y \in Nat
    BY <1>3
  <2>2. t <= n - y
    BY <1>2, <2>1
  <2> QED
    BY <1>3, <2>1, <2>2
<1> QED
  BY <1>3, <1>4, Zenon DEF Max

LEMMA GreaterOfTwo ==
  ASSUME NEW b \in Nat
  PROVE  Max({0, b}) = b
BY DEF Max
-----------------------------------------------------------------------------
(***************************************************************************)
(* Kernels.                                                                *)
(***************************************************************************)
LEMMA Commands ==
  ASSUME NEW k \in Kernels
  PROVE  /\ Len(k.cmds) \in Nat /\ DOMAIN k.cmds = 1..Len(k.cmds)
         /\ \A i \in DOMAIN k.cmds : k.cmds[i] \in Range(k.cmds)
<1>1. k.cmds \in Seq(Range(k.cmds))
  BY KernelsAssumption, Zenon DEF Kernels
<1> QED
  BY <1>1 DEF Range

LEMMA Fields ==
  ASSUME NEW k \in Kernels
  PROVE  /\ k.len \in Nat
         /\ \A c \in Range(k.cmds) : c.cmd = "segment" => c.vmaddr \in Nat
         /\ \A c \in Range(k.cmds) : c.cmd = "thread" => c.pc \in Nat
<1>1. k \in ByHand \cup UNION {Range(p.holds) : p \in Packages}
  BY DEF Kernels
<1>2. /\ k.len \in Nat
      /\ \A c \in Range(k.cmds) : /\ c.cmd = "segment" => c.vmaddr \in Nat /\ c.vmsize \in Nat
                                  /\ c.cmd = "thread" => c.pc \in Nat
  BY <1>1, KernelsAssumption, Zenon
<1>3. ASSUME NEW c \in Range(k.cmds), c.cmd = "segment" PROVE c.vmaddr \in Nat
  BY <1>2, <1>3
<1>4. ASSUME NEW c \in Range(k.cmds), c.cmd = "thread" PROVE c.pc \in Nat
  BY <1>2, <1>4
<1> QED
  BY <1>2, <1>3, <1>4

LEMMA LowAddress ==
  ASSUME NEW k \in Kernels, Segments(k) # {}
  PROVE  VmLow(k) \in Nat
<1> DEFINE S == {s.vmaddr : s \in Segments(k)}
<1>1. \A s \in Segments(k) : s \in Range(k.cmds) /\ s.cmd = "segment"
  <2>1. \A i \in Seen(k) : k.cmds[i] \in Range(k.cmds)
    BY Commands DEF Seen
  <2> QED
    BY <2>1 DEF Segments
<1>2. \A s \in Segments(k) : s.vmaddr \in Nat
  <2> SUFFICES ASSUME NEW s \in Segments(k) PROVE s.vmaddr \in Nat
    OBVIOUS
  <2>1. s \in Range(k.cmds) /\ s.cmd = "segment"
    BY <1>1
  <2> QED
    BY <2>1, Fields
<1>3. S \in SUBSET Nat /\ S # {}
  BY <1>2
<1>4. Min(S) \in Nat
  <2> HIDE DEF S
  <2> QED
    BY <1>3, Least
<1> QED
  BY <1>4 DEF VmLow

LEMMA EntryPoint ==
  ASSUME NEW k \in Kernels
  PROVE  Entry(k) \in Int
<1> DEFINE threads == {i \in Seen(k) : k.cmds[i].cmd = "thread"}
<1>1. CASE threads = {}
  BY <1>1 DEF Entry, NoEntry
<1>2. CASE threads # {}
  <2>1. threads \in SUBSET (1..Len(k.cmds)) /\ Len(k.cmds) \in Nat
    BY Commands DEF Seen
  <2>2. Max(threads) \in threads
    BY <1>2, <2>1, Greatest
  <2>3. k.cmds[Max(threads)] \in Range(k.cmds) /\ k.cmds[Max(threads)].cmd = "thread"
    BY <2>1, <2>2, Commands
  <2>4. k.cmds[Max(threads)].pc \in Nat
    BY <2>3, Fields
  <2> QED
    BY <1>2, <2>4 DEF Entry
<1> QED
  BY <1>1, <1>2
-----------------------------------------------------------------------------
(***************************************************************************)
(* Layouts.                                                                *)
(***************************************************************************)
\* The options, one by one.
LEMMA OptionTypes ==
  ASSUME NEW o \in Options
  PROVE  /\ o.phys \in Nat /\ o.ram \in Nat /\ o.mem \in Nat /\ o.ncpus \in Nat
         /\ o.tc \in Nat /\ o.tc_at \in Nat /\ o.rd \in Nat /\ o.reserve \in Nat
         /\ o.tramp_at \in Nat /\ o.fb.at \in Nat /\ o.fb.w \in Nat /\ o.fb.h \in Nat
         /\ o.fb_init \in BOOLEAN /\ o.logo \in BOOLEAN
         /\ RamBase(o) \in Nat /\ Bytes(Tree(o)) \in Nat
<1>1. \A n \in {o.phys, o.ram, o.mem, o.ncpus, o.tc, o.tc_at, o.rd, o.reserve, o.root_hash,
               o.os_environment, o.cmdline, o.tramp_at, o.mmio, o.fb.at, o.fb.w, o.fb.h} : n \in Nat
  BY OptionsAssumption, Zenon
<1>2. {o.tramp, o.fb_init, o.logo} \subseteq BOOLEAN
  BY OptionsAssumption, Zenon
<1>3. Bytes(Tree(o)) \in Nat
  BY TreesAssumption, Zenon
<1>4. /\ o.phys \in Nat /\ o.ram \in Nat /\ o.mem \in Nat /\ o.ncpus \in Nat
      /\ o.tc \in Nat /\ o.tc_at \in Nat /\ o.rd \in Nat /\ o.reserve \in Nat
      /\ o.tramp_at \in Nat /\ o.fb.at \in Nat /\ o.fb.w \in Nat /\ o.fb.h \in Nat
  BY <1>1
<1>5. RamBase(o) \in Nat
  BY <1>4 DEF RamBase
<1> QED
  BY <1>2, <1>3, <1>4, <1>5

\* The parts of the image follow one another, and start on the boundaries the
\* code rounds up to.
ImageGood(o, m, i) ==
  /\ i.kernel = [at |-> o.phys, len |-> m.file_size]
  /\ i.dt.at = o.phys + align(m.file_size, MiB) /\ i.dt.len = Bytes(Tree(o))
  /\ i.ba.at = o.phys + align(align(m.file_size, MiB) + Bytes(Tree(o)), PAGE)
  /\ i.ba.len = SIZEOF_BOOT_ARGS
  /\ i.dt.at \in Nat /\ i.ba.at \in Nat /\ i.total \in Nat
  /\ o.phys + m.file_size <= i.dt.at
  /\ i.dt.at + i.dt.len <= i.ba.at
  /\ i.ba.at + SIZEOF_BOOT_ARGS <= o.phys + i.total
  /\ (i.dt.at - o.phys) % MiB = 0 /\ (i.ba.at - o.phys) % PAGE = 0 /\ i.total % MiB = 0

LEMMA ImageLaidOut ==
  ASSUME NEW o \in Options, NEW m, m.file_size \in Nat
  PROVE  ImageGood(o, m, Image(o, m))
<1> DEFINE len == Bytes(Tree(o))
           dt == align(m.file_size, MiB)
           ba == align(dt + len, PAGE)
           total == align(ba + SIZEOF_BOOT_ARGS, MiB)
           i == Image(o, m)
<1>1. o.phys \in Nat /\ len \in Nat
  BY OptionTypes
<1>2. dt \in Nat /\ m.file_size <= dt /\ dt % MiB = 0
  BY Megabytes
<1>3. ba \in Nat /\ dt + len <= ba /\ ba % PAGE = 0
  <2> HIDE DEF dt, len
  <2>1. dt + len \in Nat
    BY <1>1, <1>2
  <2> QED
    BY <2>1, Pages
<1>4. total \in Nat /\ ba + 1152 <= total /\ total % MiB = 0 /\ SIZEOF_BOOT_ARGS = 1152
  <2> HIDE DEF ba
  <2>1. ba + SIZEOF_BOOT_ARGS \in Nat /\ SIZEOF_BOOT_ARGS = 1152
    BY <1>3 DEF SIZEOF_BOOT_ARGS
  <2> QED
    BY <2>1, Megabytes
<1>5. /\ i.kernel = [at |-> o.phys, len |-> m.file_size]
      /\ i.dt.at = o.phys + dt /\ i.dt.len = len
      /\ i.ba.at = o.phys + ba /\ i.ba.len = SIZEOF_BOOT_ARGS
      /\ i.total = total
  BY DEF Image
<1>6. i.dt.at - o.phys = dt /\ i.ba.at - o.phys = ba
  <2> HIDE DEF dt, ba, i
  <2> QED
    BY <1>1, <1>2, <1>3, <1>5
<1>7. /\ i.dt.at \in Nat /\ i.ba.at \in Nat /\ i.total \in Nat
      /\ o.phys + m.file_size <= i.dt.at
      /\ i.dt.at + i.dt.len <= i.ba.at
      /\ i.ba.at + SIZEOF_BOOT_ARGS <= o.phys + i.total
  <2> HIDE DEF dt, ba, i, len, total
  <2> QED
    BY <1>1, <1>2, <1>3, <1>4, <1>5
<1>8. (i.dt.at - o.phys) % MiB = 0 /\ (i.ba.at - o.phys) % PAGE = 0
  <2> HIDE DEF dt, ba, i
  <2> QED
    BY <1>2, <1>3, <1>6
<1> HIDE DEF dt, ba, len, total
<1> QED
  BY <1>4, <1>5, <1>7, <1>8 DEF ImageGood, dt, ba, len

\* What is loaded above the image, and the end of it.
Ascending(o, i) ==
  /\ AfterRamdisk(o, i) \in Nat /\ Top(o, i) \in Nat
  /\ o.phys + i.total <= AfterRamdisk(o, i) /\ AfterRamdisk(o, i) <= Top(o, i)
  /\ o.rd > 0 => /\ Ramdisk(o, i).at \in Nat /\ Ramdisk(o, i).len = o.rd
                 /\ o.phys + i.total <= Ramdisk(o, i).at
                 /\ Ramdisk(o, i).at + o.rd <= AfterRamdisk(o, i)
  /\ o.reserve > 0 => /\ Scratch(o, i) = [at |-> AfterRamdisk(o, i), len |-> o.reserve]
                      /\ AfterRamdisk(o, i) + o.reserve <= Top(o, i)

LEMMA AboveImage ==
  ASSUME NEW o \in Options, NEW i, i.total \in Nat
  PROVE  Ascending(o, i)
<1> DEFINE e == o.phys + i.total
           r == align(e, MiB)
           a == AfterRamdisk(o, i)
<1>1. o.phys \in Nat /\ o.rd \in Nat /\ o.reserve \in Nat /\ e \in Nat
  BY OptionTypes
<1>2. r \in Nat /\ e <= r
  <2> HIDE DEF e
  <2> QED
    BY <1>1, Megabytes
<1>3. o.rd > 0 => Ramdisk(o, i) = [at |-> r, len |-> o.rd]
  BY DEF Ramdisk
<1>4. a \in Nat /\ e <= a /\ (o.rd > 0 => r + o.rd <= a)
  <2>1. CASE o.rd = 0
    BY <1>1, <2>1 DEF AfterRamdisk
  <2>2. CASE o.rd > 0
    <3>1. a = align(r + o.rd, MiB)
      BY <1>3, <2>2 DEF AfterRamdisk
    <3> HIDE DEF r, a
    <3>2. r + o.rd \in Nat
      BY <1>1, <1>2
    <3>3. a \in Nat /\ r + o.rd <= a
      BY <3>1, <3>2, Megabytes
    <3> HIDE DEF e
    <3> QED
      BY <1>1, <1>2, <3>3
  <2> QED
    BY <1>1, <2>1, <2>2
<1>5. /\ Top(o, i) \in Nat /\ a <= Top(o, i)
      /\ o.reserve > 0 => a + o.reserve <= Top(o, i)
  <2>1. CASE o.reserve = 0
    BY <1>4, <2>1 DEF Top
  <2>2. CASE o.reserve > 0
    <3>1. Top(o, i) = align(a + o.reserve, MiB)
      BY <2>2 DEF Top
    <3> HIDE DEF a
    <3>2. a + o.reserve \in Nat
      BY <1>1, <1>4
    <3>3. Top(o, i) \in Nat /\ a + o.reserve <= Top(o, i)
      BY <3>1, <3>2, Megabytes
    <3> QED
      BY <1>1, <1>4, <3>3
  <2> QED
    BY <1>1, <2>1, <2>2
<1>6. o.reserve > 0 => Scratch(o, i) = [at |-> a, len |-> o.reserve]
  BY DEF Scratch
<1> HIDE DEF r
<1> QED
  BY <1>1, <1>2, <1>3, <1>4, <1>5, <1>6 DEF Ascending

LEMMA Parsed ==
  ASSUME NEW k \in Kernels, NEW o, Accepted(k, o)
  PROVE  /\ parse(k).file_size \in Nat /\ parse(k).vm_low \in Nat /\ parse(k).entry \in Int
         /\ TrustCacheFits(o) /\ RamBase(o) <= o.phys
         /\ Bytes(Filled(o, Image(o, parse(k)))) = Bytes(Tree(o))
<1>1. Segments(k) # {} /\ RamBase(o) <= o.phys /\ TrustCacheFits(o)
  BY DEF Accepted
<1>2. Bytes(Layout(o, parse(k)).tree) = Layout(o, parse(k)).image.dt.len
  BY DEF Accepted
<1>3. /\ Layout(o, parse(k)).tree = Filled(o, Image(o, parse(k)))
      /\ Layout(o, parse(k)).image = Image(o, parse(k))
  BY DEF Layout
<1>4. Image(o, parse(k)).dt.len = Bytes(Tree(o))
  BY DEF Image
<1>5. k.len \in Nat /\ VmLow(k) \in Nat /\ Entry(k) \in Int
  BY <1>1, Fields, LowAddress, EntryPoint
<1>6. parse(k).file_size = k.len /\ parse(k).vm_low = VmLow(k) /\ parse(k).entry = Entry(k)
  BY DEF parse
<1> QED
  BY <1>1, <1>2, <1>3, <1>4, <1>5, <1>6

\* A layout's parts.
LEMMA LayoutIs ==
  ASSUME NEW o, NEW m
  PROVE  LET l == Layout(o, m)
         IN /\ l.o = o /\ l.m = m /\ l.image = Image(o, m) /\ l.tree = Filled(o, Image(o, m))
            /\ l.tc = TrustCache(o) /\ l.rd = Ramdisk(o, Image(o, m))
            /\ l.scratch = Scratch(o, Image(o, m))
            /\ l.scratch_virt = (IF o.reserve = 0 THEN 0
                                 ELSE m.vm_low - o.phys + AfterRamdisk(o, Image(o, m)))
            /\ l.args = boot_args(o, m, Image(o, m), Filled(o, Image(o, m)))
BY DEF Layout

LEMMA ArgumentsAre ==
  ASSUME NEW o, NEW m, NEW i, NEW tree
  PROVE  LET a == boot_args(o, m, i, tree)
         IN /\ a.virtBase = m.vm_low - (o.phys - RamBase(o)) /\ a.physBase = RamBase(o)
            /\ a.memSize = o.mem /\ a.topOfKernelData = Top(o, i)
            /\ a.deviceTreeP = a.virtBase + (i.dt.at - RamBase(o))
            /\ a.deviceTreeLength = Bytes(tree) /\ a.video = Video(o)
BY DEF boot_args

\* r is before s, when both take room.
Before(r, s) == r.len = 0 \/ s.len = 0 \/ End(r) <= s.at

LEMMA BeforeApart ==
  ASSUME NEW r, NEW s, Before(r, s)
  PROVE  Apart(r, s) /\ Apart(s, r)
BY DEF Before, Apart

LEMMA AllBefore ==
  ASSUME NEW r1, NEW r2, NEW r3, NEW r4, NEW r5, NEW r6,
         Before(r6, r1), Before(r6, r2), Before(r6, r3), Before(r6, r4), Before(r6, r5),
         Before(r1, r2), Before(r1, r3), Before(r1, r4), Before(r1, r5),
         Before(r2, r3), Before(r2, r4), Before(r2, r5),
         Before(r3, r4), Before(r3, r5), Before(r4, r5)
  PROVE  \A built : built = <<r1, r2, r3, r4, r5, r6>> =>
           \A i, j \in DOMAIN built : i # j => Apart(built[i], built[j])
<1> TAKE built
<1> HAVE built = <<r1, r2, r3, r4, r5, r6>>
<1>1. /\ \A r \in {r1, r2, r3, r4, r5} : Apart(r6, r) /\ Apart(r, r6)
      /\ \A r \in {r2, r3, r4, r5} : Apart(r1, r) /\ Apart(r, r1)
      /\ \A r \in {r3, r4, r5} : Apart(r2, r) /\ Apart(r, r2)
      /\ \A r \in {r4, r5} : Apart(r3, r) /\ Apart(r, r3)
      /\ Apart(r4, r5) /\ Apart(r5, r4)
  BY BeforeApart
<1>2. /\ DOMAIN built = {1, 2, 3, 4, 5, 6}
      /\ built[1] = r1 /\ built[2] = r2 /\ built[3] = r3
      /\ built[4] = r4 /\ built[5] = r5 /\ built[6] = r6
  OBVIOUS
<1>3. \A i, j \in {1, 2, 3, 4, 5, 6} : i # j => Apart(built[i], built[j])
  BY <1>1, <1>2
<1> QED
  BY <1>2, <1>3

LEMMA PlacedIs ==
  ASSUME NEW l, NEW built,
         built = <<l.image.kernel, l.image.dt, l.image.ba, l.rd, l.scratch, l.tc>>,
         \A i, j \in DOMAIN built : i # j => Apart(built[i], built[j]),
         \A i \in 1..5 : built[i].len > 0 => End(built[i]) <= l.args.topOfKernelData,
         l.tc.len > 0 => l.args.physBase <= l.tc.at /\ End(l.tc) <= l.args.topOfKernelData
  PROVE  Placed(l)
BY Zenon DEF Placed

\* Nothing overlaps, and what the kernel must not allocate over is below the
\* top it is given.
LEMMA LayoutPlaced ==
  ASSUME NEW k \in Kernels, NEW o \in Options, Accepted(k, o)
  PROVE  Placed(Layout(o, parse(k)))
<1> DEFINE m == parse(k)
           l == Layout(o, m)
           i == Image(o, m)
           top == Top(o, i)
           after == AfterRamdisk(o, i)
<1>1. m.file_size \in Nat /\ TrustCacheFits(o)
  BY Parsed
<1>2. ImageGood(o, m, i)
  BY <1>1, ImageLaidOut
<1> HIDE DEF m, i
<1>3. Ascending(o, i)
  BY <1>2, AboveImage DEF ImageGood
<1>4. /\ o.phys \in Nat /\ o.tc \in Nat /\ o.tc_at \in Nat /\ o.rd \in Nat /\ o.reserve \in Nat
      /\ RamBase(o) \in Nat /\ Bytes(Tree(o)) \in Nat
  BY OptionTypes
<1>5. /\ l.image = i /\ l.tc = TrustCache(o) /\ l.rd = Ramdisk(o, i) /\ l.scratch = Scratch(o, i)
      /\ l.args.topOfKernelData = top /\ l.args.physBase = RamBase(o)
  BY LayoutIs, ArgumentsAre DEF i
<1> HIDE DEF l
<1>6. /\ i.kernel.at = o.phys /\ i.kernel.len = m.file_size
      /\ i.dt.at \in Nat /\ i.dt.len \in Nat /\ i.ba.at \in Nat /\ i.ba.len = 1152 /\ i.total \in Nat
      /\ End(i.kernel) <= i.dt.at /\ End(i.dt) <= i.ba.at /\ End(i.ba) <= o.phys + i.total
  BY <1>2, <1>4 DEF ImageGood, End, SIZEOF_BOOT_ARGS
<1>7. /\ after \in Nat /\ top \in Nat /\ o.phys + i.total <= after /\ after <= top
      /\ l.rd.len > 0 => o.phys + i.total <= l.rd.at /\ End(l.rd) <= after
      /\ l.rd.len = 0 \/ (l.rd.len > 0 /\ l.rd.at \in Nat)
      /\ l.rd.len \in Nat
  <2>1. CASE o.rd = 0
    BY <1>3, <1>5, <2>1 DEF Ascending, Ramdisk, Nowhere
  <2>2. CASE o.rd > 0
    BY <1>3, <1>4, <1>5, <2>2 DEF Ascending, End
  <2> QED
    BY <1>4, <2>1, <2>2
<1>8. /\ l.scratch.len > 0 => l.scratch.at = after /\ End(l.scratch) <= top
      /\ l.scratch.len \in Nat
  <2>1. CASE o.reserve = 0
    BY <1>5, <2>1 DEF Scratch, Nowhere
  <2>2. CASE o.reserve > 0
    BY <1>3, <1>4, <1>5, <2>2 DEF Ascending, End
  <2> QED
    BY <1>4, <2>1, <2>2
<1>9. /\ l.tc.len > 0 => l.tc.at \in Nat /\ RamBase(o) <= l.tc.at /\ End(l.tc) <= o.phys
      /\ l.tc.len \in Nat
  <2>1. CASE o.tc = 0
    BY <1>5, <2>1 DEF TrustCache, Nowhere
  <2>2. CASE o.tc > 0
    BY <1>1, <1>4, <1>5, <2>2 DEF TrustCache, TrustCacheFits, End
  <2> QED
    BY <1>4, <2>1, <2>2
<1> HIDE DEF top, after
<1>10. /\ Before(l.tc, i.kernel) /\ Before(l.tc, i.dt) /\ Before(l.tc, i.ba)
       /\ Before(l.tc, l.rd) /\ Before(l.tc, l.scratch)
  <2>1. /\ o.phys <= i.kernel.at /\ o.phys <= i.dt.at /\ o.phys <= i.ba.at
        /\ l.rd.len > 0 => o.phys <= l.rd.at
        /\ l.scratch.len > 0 => o.phys <= l.scratch.at
        /\ i.kernel.at \in Nat /\ i.dt.at \in Nat /\ i.ba.at \in Nat
        /\ l.rd.len > 0 => l.rd.at \in Nat
        /\ l.scratch.len > 0 => l.scratch.at \in Nat
    BY <1>1, <1>4, <1>6, <1>7, <1>8 DEF End
  <2>2. l.tc.len > 0 => End(l.tc) \in Nat /\ End(l.tc) <= o.phys
    BY <1>9 DEF End
  <2>3. ASSUME NEW r, r.len > 0 => r.at \in Nat /\ o.phys <= r.at, r.len \in Nat
        PROVE  Before(l.tc, r)
    <3>1. CASE l.tc.len = 0 \/ r.len = 0
      BY <3>1 DEF Before
    <3>2. CASE l.tc.len > 0 /\ r.len > 0
      BY <1>4, <2>2, <2>3, <3>2 DEF Before
    <3> QED
      BY <1>9, <2>3, <3>1, <3>2
  <2> QED
    BY <1>1, <1>6, <1>7, <1>8, <2>1, <2>3
<1>11. /\ Before(i.kernel, i.dt) /\ Before(i.kernel, i.ba)
       /\ Before(i.kernel, l.rd) /\ Before(i.kernel, l.scratch)
  BY <1>1, <1>4, <1>6, <1>7, <1>8 DEF Before, End
<1>12. /\ Before(i.dt, i.ba) /\ Before(i.dt, l.rd) /\ Before(i.dt, l.scratch)
       /\ Before(i.ba, l.rd) /\ Before(i.ba, l.scratch) /\ Before(l.rd, l.scratch)
  BY <1>4, <1>6, <1>7, <1>8 DEF Before, End
<1> DEFINE built == <<i.kernel, i.dt, i.ba, l.rd, l.scratch, l.tc>>
<1>13. \A a, b \in DOMAIN built : a # b => Apart(built[a], built[b])
  <2>1. built = <<i.kernel, i.dt, i.ba, l.rd, l.scratch, l.tc>>
    OBVIOUS
  <2> HIDE DEF built
  <2>2. \A b : b = <<i.kernel, i.dt, i.ba, l.rd, l.scratch, l.tc>> =>
          \A a, c \in DOMAIN b : a # c => Apart(b[a], b[c])
    BY <1>10, <1>11, <1>12, AllBefore
  <2> QED
    BY <2>1, <2>2, Zenon
<1>14. \A n \in 1..5 : built[n].len > 0 => End(built[n]) <= top
  <2>1. /\ End(i.kernel) <= top /\ End(i.dt) <= top /\ End(i.ba) <= top
    BY <1>1, <1>4, <1>6, <1>7 DEF End
  <2>2. /\ l.rd.len > 0 => End(l.rd) <= top
        /\ l.scratch.len > 0 => End(l.scratch) <= top
    BY <1>7, <1>8 DEF End
  <2>3. /\ built[1] = i.kernel /\ built[2] = i.dt /\ built[3] = i.ba
        /\ built[4] = l.rd /\ built[5] = l.scratch
    OBVIOUS
  <2> HIDE DEF built
  <2>4. \A n \in {1, 2, 3, 4, 5} : built[n].len > 0 => End(built[n]) <= top
    BY <2>1, <2>2, <2>3
  <2> QED
    BY <2>4
<1>15. l.tc.len > 0 => RamBase(o) <= l.tc.at /\ End(l.tc) <= top
  BY <1>4, <1>6, <1>7, <1>9 DEF End
<1>16. Placed(l)
  <2>1. <<l.image.kernel, l.image.dt, l.image.ba, l.rd, l.scratch, l.tc>> = built
    BY <1>5
  <2>2. l.args.topOfKernelData = top /\ l.args.physBase = RamBase(o)
    BY <1>5
  <2> HIDE DEF built
  <2> QED
    BY <1>13, <1>14, <1>15, <2>1, <2>2, PlacedIs
<1> QED
  BY <1>16 DEF l, m

\* One window: what is handed over as a virtual address is that of the thing it
\* names.
LEMMA LayoutWindow ==
  ASSUME NEW k \in Kernels, NEW o \in Options, Accepted(k, o)
  PROVE  WindowAgrees(Layout(o, parse(k)))
<1> DEFINE m == parse(k)
           l == Layout(o, m)
           i == Image(o, m)
           after == AfterRamdisk(o, i)
<1>1. m.file_size \in Nat /\ m.vm_low \in Nat
  BY Parsed
<1>2. ImageGood(o, m, i)
  BY <1>1, ImageLaidOut
<1> HIDE DEF m, i
<1>3. Ascending(o, i)
  BY <1>2, AboveImage DEF ImageGood
<1>4. /\ l.o = o /\ l.m = m /\ l.image = i /\ l.scratch = Scratch(o, i)
      /\ l.scratch_virt = (IF o.reserve = 0 THEN 0 ELSE m.vm_low - o.phys + after)
      /\ l.args.virtBase = m.vm_low - (o.phys - RamBase(o)) /\ l.args.physBase = RamBase(o)
      /\ l.args.deviceTreeP = l.args.virtBase + (i.dt.at - RamBase(o))
  BY LayoutIs, ArgumentsAre DEF i
<1> HIDE DEF l
<1>5. o.phys \in Nat /\ RamBase(o) \in Nat /\ o.reserve \in Nat /\ i.dt.at \in Nat /\ after \in Nat
  BY <1>2, <1>3, OptionTypes DEF ImageGood, Ascending
<1> HIDE DEF after
<1>6. PhysToVirt(l, o.phys) = m.vm_low
  BY <1>1, <1>4, <1>5 DEF PhysToVirt
<1>7. PhysToVirt(l, i.dt.at) = l.args.deviceTreeP
  BY <1>1, <1>4, <1>5 DEF PhysToVirt
<1>8. l.scratch.len > 0 => PhysToVirt(l, l.scratch.at) = l.scratch_virt
  <2>1. CASE o.reserve = 0
    BY <1>4, <2>1 DEF Scratch, Nowhere
  <2>2. CASE o.reserve > 0
    <3>1. l.scratch.at = after /\ l.scratch_virt = m.vm_low - o.phys + after
      BY <1>3, <1>4, <1>5, <2>2 DEF Ascending, after
    <3> QED
      BY <1>1, <1>4, <1>5, <3>1 DEF PhysToVirt
  <2> QED
    BY <1>5, <2>1, <2>2
<1>9. WindowAgrees(l)
  BY <1>4, <1>6, <1>7, <1>8 DEF WindowAgrees
<1> QED
  BY <1>9 DEF l, m
-----------------------------------------------------------------------------
(***************************************************************************)
(* The tree of a layout.                                                   *)
(***************************************************************************)
\* The i-th of n functions is the first that has the key.
FirstAt(fs, n, i, key) ==
  /\ n \in Nat /\ DOMAIN fs = 1..n /\ i \in 1..n
  /\ key \in DOMAIN fs[i] /\ \A j \in 1..(i - 1) : key \notin DOMAIN fs[j]

\* Of several nodes or properties of one name the first counts.
LEMMA FirstCounts ==
  ASSUME NEW fs, NEW n, NEW i, NEW key, FirstAt(fs, n, i, key)
  PROVE  key \in DOMAIN JoinAll(fs) /\ JoinAll(fs)[key] = fs[i][key]
<1>0. /\ n \in Nat /\ DOMAIN fs = 1..n /\ i \in 1..n
      /\ key \in DOMAIN fs[i] /\ \A j \in 1..(i - 1) : key \notin DOMAIN fs[j]
  BY DEF FirstAt
<1> DEFINE P(j) == j \in DOMAIN fs /\ key \in DOMAIN fs[j] /\ \A h \in 1..(j - 1) : key \notin DOMAIN fs[h]
           first == CHOOSE j \in DOMAIN fs : key \in DOMAIN fs[j] /\ \A h \in 1..(j - 1) : key \notin DOMAIN fs[h]
<1>1. P(i)
  BY <1>0
<1>2. P(first)
  BY <1>1, Zenon
<1> HIDE DEF first
<1>3. first = i
  <2>1. first \in 1..n /\ i \in 1..n /\ n \in Nat
    BY <1>0, <1>2
  <2>2. CASE first < i
    <3>1. first \in 1..(i - 1)
      BY <2>1, <2>2
    <3> QED
      BY <1>0, <1>2, <3>1
  <2>3. CASE i < first
    <3>1. i \in 1..(first - 1)
      BY <2>1, <2>3
    <3> QED
      BY <1>0, <1>2, <3>1
  <2> QED
    BY <2>1, <2>2, <2>3
<1>4. key \in UNION {DOMAIN fs[j] : j \in DOMAIN fs}
  BY <1>1
<1>5. key \in DOMAIN JoinAll(fs) /\ JoinAll(fs)[key] = fs[first][key]
  BY <1>4 DEF JoinAll, first
<1> QED
  BY <1>3, <1>5

LEMMA JoinedFirst ==
  ASSUME NEW f, NEW g, NEW key, key \in DOMAIN f
  PROVE  key \in DOMAIN Join(f, g) /\ Join(f, g)[key] = f[key]
BY DEF Join

LEMMA JoinedRest ==
  ASSUME NEW f, NEW g, NEW key, key \notin DOMAIN f, key \in DOMAIN g
  PROVE  key \in DOMAIN Join(f, g) /\ Join(f, g)[key] = g[key]
BY DEF Join

LEMMA OneIs ==
  ASSUME NEW key, NEW value
  PROVE  DOMAIN One(key, value) = {key} /\ One(key, value)[key] = value
BY DEF One

\* When no two have a name in common, each keeps what it has.
LEMMA AllCount ==
  ASSUME NEW fs, NEW n \in Nat, DOMAIN fs = 1..n,
         \A i, j \in 1..n : i # j => DOMAIN fs[i] \cap DOMAIN fs[j] = {}
  PROVE  /\ \A key : key \in DOMAIN JoinAll(fs) <=> \E i \in 1..n : key \in DOMAIN fs[i]
         /\ \A i \in 1..n : \A key \in DOMAIN fs[i] :
              key \in DOMAIN JoinAll(fs) /\ JoinAll(fs)[key] = fs[i][key]
<1>1. \A key : key \in DOMAIN JoinAll(fs) <=> \E i \in 1..n : key \in DOMAIN fs[i]
  BY DEF JoinAll
<1>2. ASSUME NEW i \in 1..n, NEW key \in DOMAIN fs[i]
      PROVE  key \in DOMAIN JoinAll(fs) /\ JoinAll(fs)[key] = fs[i][key]
  <2>1. \A j \in 1..(i - 1) : j \in 1..n /\ i # j
    OBVIOUS
  <2>2. FirstAt(fs, n, i, key)
    BY <2>1 DEF FirstAt
  <2> QED
    BY <2>2, FirstCounts
<1> QED
  BY <1>1, <1>2

\* A node of properties, one by one.
Properties(fs, n, ks, vs) ==
  /\ n \in Nat /\ DOMAIN fs = 1..n
  /\ \A i \in 1..n : fs[i] = One(ks[i], vs[i])
  /\ \A i, j \in 1..n : ks[i] = ks[j] => i = j

LEMMA NodeOf ==
  ASSUME NEW fs, NEW n, NEW ks, NEW vs, Properties(fs, n, ks, vs)
  PROVE  /\ \A key : key \in DOMAIN JoinAll(fs) <=> \E i \in 1..n : key = ks[i]
         /\ \A i \in 1..n : JoinAll(fs)[ks[i]] = vs[i]
<1>1. /\ n \in Nat /\ DOMAIN fs = 1..n
      /\ \A i \in 1..n : fs[i] = One(ks[i], vs[i])
      /\ \A i, j \in 1..n : ks[i] = ks[j] => i = j
  BY DEF Properties
<1>2. \A i \in 1..n : DOMAIN fs[i] = {ks[i]} /\ fs[i][ks[i]] = vs[i]
  <2> SUFFICES ASSUME NEW i \in 1..n PROVE DOMAIN fs[i] = {ks[i]} /\ fs[i][ks[i]] = vs[i]
    OBVIOUS
  <2>1. DOMAIN One(ks[i], vs[i]) = {ks[i]} /\ One(ks[i], vs[i])[ks[i]] = vs[i]
    BY OneIs, Zenon
  <2> QED
    BY <1>1, <2>1
<1>3. \A i, j \in 1..n : i # j => DOMAIN fs[i] \cap DOMAIN fs[j] = {}
  BY <1>1, <1>2
<1>4. /\ \A key : key \in DOMAIN JoinAll(fs) <=> \E i \in 1..n : key \in DOMAIN fs[i]
      /\ \A i \in 1..n : \A key \in DOMAIN fs[i] :
           key \in DOMAIN JoinAll(fs) /\ JoinAll(fs)[key] = fs[i][key]
  BY <1>1, <1>3, AllCount
<1> QED
  BY <1>2, <1>4

\* A node of two properties, of three, and so on to six: the keys, which differ,
\* and what the node then holds.  One lemma for each number, since a step can
\* only expand a tuple of known length.
TwoOf(fs, k1, v1, k2, v2) ==
  /\ fs = <<One(k1, v1), One(k2, v2)>>
  /\ k1 \notin {k2}

TwoAre(f, k1, v1, k2, v2) ==
  /\ DOMAIN f = {k1, k2}
  /\ f[k1] = v1 /\ f[k2] = v2

LEMMA Two ==
  ASSUME NEW fs, NEW k1, NEW v1, NEW k2, NEW v2, TwoOf(fs, k1, v1, k2, v2)
  PROVE  TwoAre(JoinAll(fs), k1, v1, k2, v2)
<1> DEFINE ks == <<k1, k2>>
           vs == <<v1, v2>>
<1>1. 1..2 = {1, 2}
  OBVIOUS
<1>2. ks[1] = k1 /\ vs[1] = v1 /\ ks[2] = k2 /\ vs[2] = v2
  OBVIOUS
<1>3. /\ DOMAIN fs = 1..2
      /\ fs[1] = One(k1, v1) /\ fs[2] = One(k2, v2)
  BY DEF TwoOf
<1> HIDE DEF ks, vs
<1>4. Properties(fs, 2, ks, vs)
  BY <1>1, <1>2, <1>3 DEF Properties, TwoOf
<1>5. /\ \A key : key \in DOMAIN JoinAll(fs) <=> \E i \in 1..2 : key = ks[i]
      /\ \A i \in 1..2 : JoinAll(fs)[ks[i]] = vs[i]
  BY <1>4, NodeOf
<1>6. DOMAIN JoinAll(fs) = {k1, k2}
  <2>1. \A key : (\E i \in 1..2 : key = ks[i]) <=> key \in {k1, k2}
    BY <1>1, <1>2
  <2> QED
    BY <1>5, <2>1
<1>7. JoinAll(fs)[k1] = v1 /\ JoinAll(fs)[k2] = v2
  <2>1. JoinAll(fs)[ks[1]] = vs[1] /\ JoinAll(fs)[ks[2]] = vs[2]
    BY <1>5
  <2> QED
    BY <1>2, <2>1
<1> QED
  BY <1>6, <1>7 DEF TwoAre

ThreeOf(fs, k1, v1, k2, v2, k3, v3) ==
  /\ fs = <<One(k1, v1), One(k2, v2), One(k3, v3)>>
  /\ k1 \notin {k2, k3} /\ k2 \notin {k3}

ThreeAre(f, k1, v1, k2, v2, k3, v3) ==
  /\ DOMAIN f = {k1, k2, k3}
  /\ f[k1] = v1 /\ f[k2] = v2 /\ f[k3] = v3

LEMMA Three ==
  ASSUME NEW fs, NEW k1, NEW v1, NEW k2, NEW v2, NEW k3, NEW v3,
         ThreeOf(fs, k1, v1, k2, v2, k3, v3)
  PROVE  ThreeAre(JoinAll(fs), k1, v1, k2, v2, k3, v3)
<1> DEFINE ks == <<k1, k2, k3>>
           vs == <<v1, v2, v3>>
<1>1. 1..3 = {1, 2, 3}
  OBVIOUS
<1>2. ks[1] = k1 /\ vs[1] = v1 /\ ks[2] = k2 /\ vs[2] = v2 /\
      ks[3] = k3 /\ vs[3] = v3
  OBVIOUS
<1>3. /\ DOMAIN fs = 1..3
      /\ fs[1] = One(k1, v1) /\ fs[2] = One(k2, v2) /\ fs[3] = One(k3, v3)
  BY DEF ThreeOf
<1> HIDE DEF ks, vs
<1>4. Properties(fs, 3, ks, vs)
  BY <1>1, <1>2, <1>3 DEF Properties, ThreeOf
<1>5. /\ \A key : key \in DOMAIN JoinAll(fs) <=> \E i \in 1..3 : key = ks[i]
      /\ \A i \in 1..3 : JoinAll(fs)[ks[i]] = vs[i]
  BY <1>4, NodeOf
<1>6. DOMAIN JoinAll(fs) = {k1, k2, k3}
  <2>1. \A key : (\E i \in 1..3 : key = ks[i]) <=> key \in {k1, k2, k3}
    BY <1>1, <1>2
  <2> QED
    BY <1>5, <2>1
<1>7. JoinAll(fs)[k1] = v1 /\ JoinAll(fs)[k2] = v2 /\ JoinAll(fs)[k3] = v3
  <2>1. JoinAll(fs)[ks[1]] = vs[1] /\ JoinAll(fs)[ks[2]] = vs[2] /\
        JoinAll(fs)[ks[3]] = vs[3]
    BY <1>5
  <2> QED
    BY <1>2, <2>1
<1> QED
  BY <1>6, <1>7 DEF ThreeAre

FourOf(fs, k1, v1, k2, v2, k3, v3, k4, v4) ==
  /\ fs = <<One(k1, v1), One(k2, v2), One(k3, v3), One(k4, v4)>>
  /\ k1 \notin {k2, k3, k4} /\ k2 \notin {k3, k4} /\ k3 \notin {k4}

FourAre(f, k1, v1, k2, v2, k3, v3, k4, v4) ==
  /\ DOMAIN f = {k1, k2, k3, k4}
  /\ f[k1] = v1 /\ f[k2] = v2 /\ f[k3] = v3 /\ f[k4] = v4

LEMMA Four ==
  ASSUME NEW fs, NEW k1, NEW v1, NEW k2, NEW v2, NEW k3, NEW v3, NEW k4, NEW v4,
         FourOf(fs, k1, v1, k2, v2, k3, v3, k4, v4)
  PROVE  FourAre(JoinAll(fs), k1, v1, k2, v2, k3, v3, k4, v4)
<1> DEFINE ks == <<k1, k2, k3, k4>>
           vs == <<v1, v2, v3, v4>>
<1>1. 1..4 = {1, 2, 3, 4}
  OBVIOUS
<1>2. ks[1] = k1 /\ vs[1] = v1 /\ ks[2] = k2 /\ vs[2] = v2 /\
      ks[3] = k3 /\ vs[3] = v3 /\ ks[4] = k4 /\ vs[4] = v4
  OBVIOUS
<1>3. /\ DOMAIN fs = 1..4
      /\ fs[1] = One(k1, v1) /\ fs[2] = One(k2, v2) /\ fs[3] = One(k3, v3) /\
         fs[4] = One(k4, v4)
  BY DEF FourOf
<1> HIDE DEF ks, vs
<1>4. Properties(fs, 4, ks, vs)
  BY <1>1, <1>2, <1>3 DEF Properties, FourOf
<1>5. /\ \A key : key \in DOMAIN JoinAll(fs) <=> \E i \in 1..4 : key = ks[i]
      /\ \A i \in 1..4 : JoinAll(fs)[ks[i]] = vs[i]
  BY <1>4, NodeOf
<1>6. DOMAIN JoinAll(fs) = {k1, k2, k3, k4}
  <2>1. \A key : (\E i \in 1..4 : key = ks[i]) <=> key \in {k1, k2, k3, k4}
    BY <1>1, <1>2
  <2> QED
    BY <1>5, <2>1
<1>7. JoinAll(fs)[k1] = v1 /\ JoinAll(fs)[k2] = v2 /\ JoinAll(fs)[k3] = v3 /\
      JoinAll(fs)[k4] = v4
  <2>1. JoinAll(fs)[ks[1]] = vs[1] /\ JoinAll(fs)[ks[2]] = vs[2] /\
        JoinAll(fs)[ks[3]] = vs[3] /\ JoinAll(fs)[ks[4]] = vs[4]
    BY <1>5
  <2> QED
    BY <1>2, <2>1
<1> QED
  BY <1>6, <1>7 DEF FourAre

FiveOf(fs, k1, v1, k2, v2, k3, v3, k4, v4, k5, v5) ==
  /\ fs = <<One(k1, v1), One(k2, v2), One(k3, v3), One(k4, v4), One(k5, v5)>>
  /\ k1 \notin {k2, k3, k4, k5} /\ k2 \notin {k3, k4, k5} /\ k3 \notin {k4, k5} /\
     k4 \notin {k5}

FiveAre(f, k1, v1, k2, v2, k3, v3, k4, v4, k5, v5) ==
  /\ DOMAIN f = {k1, k2, k3, k4, k5}
  /\ f[k1] = v1 /\ f[k2] = v2 /\ f[k3] = v3 /\ f[k4] = v4 /\ f[k5] = v5

LEMMA Five ==
  ASSUME NEW fs, NEW k1, NEW v1, NEW k2, NEW v2, NEW k3, NEW v3, NEW k4, NEW v4,
         NEW k5, NEW v5, FiveOf(fs, k1, v1, k2, v2, k3, v3, k4, v4, k5, v5)
  PROVE  FiveAre(JoinAll(fs), k1, v1, k2, v2, k3, v3, k4, v4, k5, v5)
<1> DEFINE ks == <<k1, k2, k3, k4, k5>>
           vs == <<v1, v2, v3, v4, v5>>
<1>1. 1..5 = {1, 2, 3, 4, 5}
  OBVIOUS
<1>2. ks[1] = k1 /\ vs[1] = v1 /\ ks[2] = k2 /\ vs[2] = v2 /\
      ks[3] = k3 /\ vs[3] = v3 /\ ks[4] = k4 /\ vs[4] = v4 /\
      ks[5] = k5 /\ vs[5] = v5
  OBVIOUS
<1>3. /\ DOMAIN fs = 1..5
      /\ fs[1] = One(k1, v1) /\ fs[2] = One(k2, v2) /\ fs[3] = One(k3, v3) /\
         fs[4] = One(k4, v4) /\ fs[5] = One(k5, v5)
  BY DEF FiveOf
<1> HIDE DEF ks, vs
<1>4. Properties(fs, 5, ks, vs)
  BY <1>1, <1>2, <1>3 DEF Properties, FiveOf
<1>5. /\ \A key : key \in DOMAIN JoinAll(fs) <=> \E i \in 1..5 : key = ks[i]
      /\ \A i \in 1..5 : JoinAll(fs)[ks[i]] = vs[i]
  BY <1>4, NodeOf
<1>6. DOMAIN JoinAll(fs) = {k1, k2, k3, k4, k5}
  <2>1. \A key : (\E i \in 1..5 : key = ks[i]) <=> key \in {k1, k2, k3, k4, k5}
    BY <1>1, <1>2
  <2> QED
    BY <1>5, <2>1
<1>7. JoinAll(fs)[k1] = v1 /\ JoinAll(fs)[k2] = v2 /\ JoinAll(fs)[k3] = v3 /\
      JoinAll(fs)[k4] = v4 /\ JoinAll(fs)[k5] = v5
  <2>1. JoinAll(fs)[ks[1]] = vs[1] /\ JoinAll(fs)[ks[2]] = vs[2] /\
        JoinAll(fs)[ks[3]] = vs[3] /\ JoinAll(fs)[ks[4]] = vs[4] /\
        JoinAll(fs)[ks[5]] = vs[5]
    BY <1>5
  <2> QED
    BY <1>2, <2>1
<1> QED
  BY <1>6, <1>7 DEF FiveAre

SixOf(fs, k1, v1, k2, v2, k3, v3, k4, v4, k5, v5, k6, v6) ==
  /\ fs = <<One(k1, v1), One(k2, v2), One(k3, v3), One(k4, v4), One(k5, v5),
            One(k6, v6)>>
  /\ k1 \notin {k2, k3, k4, k5, k6} /\ k2 \notin {k3, k4, k5, k6} /\
     k3 \notin {k4, k5, k6} /\ k4 \notin {k5, k6} /\ k5 \notin {k6}

SixAre(f, k1, v1, k2, v2, k3, v3, k4, v4, k5, v5, k6, v6) ==
  /\ DOMAIN f = {k1, k2, k3, k4, k5, k6}
  /\ f[k1] = v1 /\ f[k2] = v2 /\ f[k3] = v3 /\ f[k4] = v4 /\ f[k5] = v5 /\ f[k6] = v6

LEMMA Six ==
  ASSUME NEW fs, NEW k1, NEW v1, NEW k2, NEW v2, NEW k3, NEW v3, NEW k4, NEW v4,
         NEW k5, NEW v5, NEW k6, NEW v6,
         SixOf(fs, k1, v1, k2, v2, k3, v3, k4, v4, k5, v5, k6, v6)
  PROVE  SixAre(JoinAll(fs), k1, v1, k2, v2, k3, v3, k4, v4, k5, v5, k6, v6)
<1> DEFINE ks == <<k1, k2, k3, k4, k5, k6>>
           vs == <<v1, v2, v3, v4, v5, v6>>
<1>1. 1..6 = {1, 2, 3, 4, 5, 6}
  OBVIOUS
<1>2. ks[1] = k1 /\ vs[1] = v1 /\ ks[2] = k2 /\ vs[2] = v2 /\
      ks[3] = k3 /\ vs[3] = v3 /\ ks[4] = k4 /\ vs[4] = v4 /\
      ks[5] = k5 /\ vs[5] = v5 /\ ks[6] = k6 /\ vs[6] = v6
  OBVIOUS
<1>3. /\ DOMAIN fs = 1..6
      /\ fs[1] = One(k1, v1) /\ fs[2] = One(k2, v2) /\ fs[3] = One(k3, v3) /\
         fs[4] = One(k4, v4) /\ fs[5] = One(k5, v5) /\ fs[6] = One(k6, v6)
  BY DEF SixOf
<1> HIDE DEF ks, vs
<1>4. Properties(fs, 6, ks, vs)
  BY <1>1, <1>2, <1>3 DEF Properties, SixOf
<1>5. /\ \A key : key \in DOMAIN JoinAll(fs) <=> \E i \in 1..6 : key = ks[i]
      /\ \A i \in 1..6 : JoinAll(fs)[ks[i]] = vs[i]
  BY <1>4, NodeOf
<1>6. DOMAIN JoinAll(fs) = {k1, k2, k3, k4, k5, k6}
  <2>1. \A key : (\E i \in 1..6 : key = ks[i]) <=> key \in {k1, k2, k3, k4, k5, k6}
    BY <1>1, <1>2
  <2> QED
    BY <1>5, <2>1
<1>7. JoinAll(fs)[k1] = v1 /\ JoinAll(fs)[k2] = v2 /\ JoinAll(fs)[k3] = v3 /\
      JoinAll(fs)[k4] = v4 /\ JoinAll(fs)[k5] = v5 /\ JoinAll(fs)[k6] = v6
  <2>1. JoinAll(fs)[ks[1]] = vs[1] /\ JoinAll(fs)[ks[2]] = vs[2] /\
        JoinAll(fs)[ks[3]] = vs[3] /\ JoinAll(fs)[ks[4]] = vs[4] /\
        JoinAll(fs)[ks[5]] = vs[5] /\ JoinAll(fs)[ks[6]] = vs[6]
    BY <1>5
  <2> QED
    BY <1>2, <2>1
<1> QED
  BY <1>6, <1>7 DEF SixAre

\* The nodes minimal_vmapple_tree builds: which properties each has, and those
\* that another node or boot_args must agree with.
LEMMA RootNode ==
  /\ DOMAIN Root = {"compatible", "model", "#address-cells", "#size-cells"}
  /\ Root["model"] = Str(13)
<1> DEFINE fs == <<One("compatible", Str(23)), One("model", Str(13)),
                   One("#address-cells", U32(2)), One("#size-cells", U32(2))>>
<1>1. Root = JoinAll(fs)
  BY DEF Root
<1>2. FourOf(fs, "compatible", Str(23), "model", Str(13), "#address-cells", U32(2),
                "#size-cells", U32(2))
  BY DEF FourOf
<1> HIDE DEF fs
<1>3. FourAre(JoinAll(fs), "compatible", Str(23), "model", Str(13),
                            "#address-cells", U32(2), "#size-cells", U32(2))
  BY <1>2, Four
<1> QED
  BY <1>1, <1>3 DEF FourAre

LEMMA MeasuredNode ==
  ASSUME NEW d
  PROVE  /\ DOMAIN Measured(d) = {"dram-base", "dram-size", "debug-enabled", "random-seed",
                                  "chip-id", "unique-chip-id"}
         /\ Measured(d)["dram-base"] = U64(d.ram_base)
         /\ Measured(d)["random-seed"] = [len |-> RANDOM_SEED_BYTES, v |-> <<1>>]
<1> DEFINE seed == [len |-> RANDOM_SEED_BYTES, v |-> <<1>>]
           fs == <<One("dram-base", U64(d.ram_base)),
                   One("dram-size", U64(d.ram_size)), One("debug-enabled", U32(0)),
                   One("random-seed", seed), One("chip-id", U32(0)),
                   One("unique-chip-id", U64(0))>>
<1>1. Measured(d) = JoinAll(fs)
  BY DEF Measured
<1> HIDE DEF seed
<1>2. SixOf(fs, "dram-base", U64(d.ram_base), "dram-size", U64(d.ram_size),
               "debug-enabled", U32(0), "random-seed", seed, "chip-id", U32(0),
               "unique-chip-id", U64(0))
  BY DEF SixOf
<1> HIDE DEF fs
<1>3. SixAre(JoinAll(fs), "dram-base", U64(d.ram_base), "dram-size", U64(d.ram_size),
                           "debug-enabled", U32(0), "random-seed", seed,
                           "chip-id", U32(0), "unique-chip-id", U64(0))
  BY <1>2, Six
<1> QED
  BY <1>1, <1>3 DEF SixAre, seed

LEMMA NvramNode ==
  /\ DOMAIN Nvram = {"nvram-proxy-data", "nvram-total-size", "nvram-bank-size",
                     "nvram-bank-count", "nvram-current-bank"}
  /\ Nvram["nvram-bank-count"] = U32(1)
<1> DEFINE fs == <<One("nvram-proxy-data", Raw(NVRAM_BYTES)),
                   One("nvram-total-size", U32(NVRAM_BYTES)),
                   One("nvram-bank-size", U32(NVRAM_BYTES)),
                   One("nvram-bank-count", U32(1)), One("nvram-current-bank", U32(0))>>
<1>1. Nvram = JoinAll(fs)
  BY DEF Nvram
<1>2. FiveOf(fs, "nvram-proxy-data", Raw(NVRAM_BYTES),
                "nvram-total-size", U32(NVRAM_BYTES),
                "nvram-bank-size", U32(NVRAM_BYTES), "nvram-bank-count", U32(1),
                "nvram-current-bank", U32(0))
  BY DEF FiveOf
<1> HIDE DEF fs
<1>3. FiveAre(JoinAll(fs), "nvram-proxy-data", Raw(NVRAM_BYTES),
                            "nvram-total-size", U32(NVRAM_BYTES),
                            "nvram-bank-size", U32(NVRAM_BYTES),
                            "nvram-bank-count", U32(1), "nvram-current-bank", U32(0))
  BY <1>2, Five
<1> QED
  BY <1>1, <1>3 DEF FiveAre

LEMMA DefaultsNode ==
  /\ DOMAIN Defaults = {"serial-device", "vmm-present", "pmap-max-asids"}
  /\ Defaults["serial-device"] = U32(UART_PHANDLE)
<1> DEFINE fs == <<One("serial-device", U32(UART_PHANDLE)), One("vmm-present", U32(1)),
                   One("pmap-max-asids", U32(16384))>>
<1>1. Defaults = JoinAll(fs)
  BY DEF Defaults
<1>2. ThreeOf(fs, "serial-device", U32(UART_PHANDLE), "vmm-present", U32(1),
                 "pmap-max-asids", U32(16384))
  BY DEF ThreeOf
<1> HIDE DEF fs
<1>3. ThreeAre(JoinAll(fs), "serial-device", U32(UART_PHANDLE), "vmm-present", U32(1),
                             "pmap-max-asids", U32(16384))
  BY <1>2, Three
<1> QED
  BY <1>1, <1>3 DEF ThreeAre

LEMMA UtilNode ==
  /\ DOMAIN Util = {"regions", "AAPL,phandle"}
  /\ Util["AAPL,phandle"] = U32(UTIL_PHANDLE)
<1> DEFINE regions == Cells(4, FlattenSeq(UtilRegions))
           fs == <<One("regions", regions), One("AAPL,phandle", U32(UTIL_PHANDLE))>>
<1>1. Util = JoinAll(fs)
  BY DEF Util
<1> HIDE DEF regions
<1>2. TwoOf(fs, "regions", regions, "AAPL,phandle", U32(UTIL_PHANDLE))
  BY DEF TwoOf
<1> HIDE DEF fs
<1>3. TwoAre(JoinAll(fs), "regions", regions, "AAPL,phandle", U32(UTIL_PHANDLE))
  BY <1>2, Two
<1> QED
  BY <1>1, <1>3 DEF TwoAre, regions

LEMMA CpuNode ==
  ASSUME NEW i
  PROVE  /\ DOMAIN Cpu(i) = {"reg", "state", "timebase-frequency", "reg-private",
                             "interrupt-parent"}
         /\ Cpu(i)["state"] = [len |-> 8, v |-> <<IF i = 0 THEN "running" ELSE "waiting">>]
         /\ Cpu(i)["timebase-frequency"] = U32(timebase_hz)
         /\ Cpu(i)["reg-private"] = Reg(gic_redist + (i * GICR_STRIDE), GICR_STRIDE)
         /\ Cpu(i)["interrupt-parent"] = U32(GIC_PHANDLE)
<1> DEFINE state == [len |-> 8, v |-> <<IF i = 0 THEN "running" ELSE "waiting">>]
           frame == Reg(gic_redist + (i * GICR_STRIDE), GICR_STRIDE)
           fs == <<One("reg", U32(i)), One("state", state),
                   One("timebase-frequency", U32(timebase_hz)),
                   One("reg-private", frame), One("interrupt-parent", U32(GIC_PHANDLE))>>
<1>1. Cpu(i) = JoinAll(fs)
  BY DEF Cpu
<1> HIDE DEF state, frame
<1>2. FiveOf(fs, "reg", U32(i), "state", state, "timebase-frequency", U32(timebase_hz),
                "reg-private", frame, "interrupt-parent", U32(GIC_PHANDLE))
  BY DEF FiveOf
<1> HIDE DEF fs
<1>3. FiveAre(JoinAll(fs), "reg", U32(i), "state", state,
                            "timebase-frequency", U32(timebase_hz),
                            "reg-private", frame, "interrupt-parent", U32(GIC_PHANDLE))
  BY <1>2, Five
<1> QED
  BY <1>1, <1>3 DEF FiveAre, state, frame

LEMMA ArmIoNode ==
  /\ DOMAIN ArmIo = {"device_type", "ranges"}
  /\ ArmIo["ranges"] = Cells(8, <<0, soc_base, soc_size>>)
<1> DEFINE window == Cells(8, <<0, soc_base, soc_size>>)
           fs == <<One("device_type", Str(11)), One("ranges", window)>>
<1>1. ArmIo = JoinAll(fs)
  BY DEF ArmIo
<1> HIDE DEF window
<1>2. TwoOf(fs, "device_type", Str(11), "ranges", window)
  BY DEF TwoOf
<1> HIDE DEF fs
<1>3. TwoAre(JoinAll(fs), "device_type", Str(11), "ranges", window)
  BY <1>2, Two
<1> QED
  BY <1>1, <1>3 DEF TwoAre, window

LEMMA GicNode ==
  /\ DOMAIN Gic = {"reg", "interrupt-controller", "AAPL,phandle"}
  /\ Gic["reg"] = Cells(8, <<gic_dist - soc_base, 64 * KiB, gic_redist - soc_base, gic_redist_size,
                             gic_msi_frame - soc_base, 4 * KiB>>)
  /\ Gic["AAPL,phandle"] = U32(GIC_PHANDLE)
<1> DEFINE regs == Cells(8, <<gic_dist - soc_base, 64 * KiB, gic_redist - soc_base, gic_redist_size,
                             gic_msi_frame - soc_base, 4 * KiB>>)
           fs == <<One("reg", regs), One("interrupt-controller", Str(6)),
                   One("AAPL,phandle", U32(GIC_PHANDLE))>>
<1>1. Gic = JoinAll(fs)
  BY DEF Gic
<1> HIDE DEF regs
<1>2. ThreeOf(fs, "reg", regs, "interrupt-controller", Str(6),
                 "AAPL,phandle", U32(GIC_PHANDLE))
  BY DEF ThreeOf
<1> HIDE DEF fs
<1>3. ThreeAre(JoinAll(fs), "reg", regs, "interrupt-controller", Str(6),
                             "AAPL,phandle", U32(GIC_PHANDLE))
  BY <1>2, Three
<1> QED
  BY <1>1, <1>3 DEF ThreeAre, regs

LEMMA UartNode ==
  /\ DOMAIN Uart = {"reg", "AAPL,phandle"}
  /\ Uart["reg"] = Reg(uart_base - soc_base, 4 * KiB)
  /\ Uart["AAPL,phandle"] = U32(UART_PHANDLE)
<1> DEFINE regs == Reg(uart_base - soc_base, 4 * KiB)
           fs == <<One("reg", regs), One("AAPL,phandle", U32(UART_PHANDLE))>>
<1>1. Uart = JoinAll(fs)
  BY DEF Uart
<1> HIDE DEF regs
<1>2. TwoOf(fs, "reg", regs, "AAPL,phandle", U32(UART_PHANDLE))
  BY DEF TwoOf
<1> HIDE DEF fs
<1>3. TwoAre(JoinAll(fs), "reg", regs, "AAPL,phandle", U32(UART_PHANDLE))
  BY <1>2, Two
<1> QED
  BY <1>1, <1>3 DEF TwoAre, regs

LEMMA PcieNode ==
  /\ DOMAIN Pcie = {"reg", "bus-range", "ranges", "device-interrupt-parent",
                    "msi-frame-index", "AAPL,phandle"}
  /\ Pcie["reg"] = Reg(PCIE_ECAM_BASE - soc_base, PCIE_ECAM_SIZE)
  /\ Pcie["device-interrupt-parent"] = U32(GIC_PHANDLE)
  /\ Pcie["msi-frame-index"] = U32(2)
  /\ Pcie["AAPL,phandle"] = U32(PCIE_PHANDLE)
<1> DEFINE regs == Reg(PCIE_ECAM_BASE - soc_base, PCIE_ECAM_SIZE)
           buses == Cells(4, <<0, (PCIE_ECAM_SIZE \div MiB) - 1>>)
           windows == [len |-> 28 * Len(PCIE_RANGES),
                       v |-> FlattenSeq([k \in DOMAIN PCIE_RANGES |-> PcieRange(PCIE_RANGES[k])])]
           fs == <<One("reg", regs), One("bus-range", buses), One("ranges", windows),
                   One("device-interrupt-parent", U32(GIC_PHANDLE)),
                   One("msi-frame-index", U32(2)),
                   One("AAPL,phandle", U32(PCIE_PHANDLE))>>
<1>1. Pcie = JoinAll(fs)
  BY DEF Pcie
<1> HIDE DEF regs, buses, windows
<1>2. SixOf(fs, "reg", regs, "bus-range", buses, "ranges", windows,
               "device-interrupt-parent", U32(GIC_PHANDLE), "msi-frame-index", U32(2),
               "AAPL,phandle", U32(PCIE_PHANDLE))
  BY DEF SixOf
<1> HIDE DEF fs
<1>3. SixAre(JoinAll(fs), "reg", regs, "bus-range", buses, "ranges", windows,
                           "device-interrupt-parent", U32(GIC_PHANDLE),
                           "msi-frame-index", U32(2), "AAPL,phandle", U32(PCIE_PHANDLE))
  BY <1>2, Six
<1> QED
  BY <1>1, <1>3 DEF SixAre, regs, buses, windows

LEMMA DisplayNode ==
  ASSUME NEW fb
  PROVE  /\ DOMAIN Framebuffer(fb) = {"address", "width", "height", "depth", "stride"}
         /\ Framebuffer(fb)["address"] = U64(fb.at)
         /\ Framebuffer(fb)["stride"] = U32(fb.w * 4)
<1> DEFINE fs == <<One("address", U64(fb.at)), One("width", U32(fb.w)),
                   One("height", U32(fb.h)), One("depth", U32(32)),
                   One("stride", U32(fb.w * 4))>>
<1>1. Framebuffer(fb) = JoinAll(fs)
  BY DEF Framebuffer
<1>2. FiveOf(fs, "address", U64(fb.at), "width", U32(fb.w), "height", U32(fb.h),
                "depth", U32(32), "stride", U32(fb.w * 4))
  BY DEF FiveOf
<1> HIDE DEF fs
<1>3. FiveAre(JoinAll(fs), "address", U64(fb.at), "width", U32(fb.w),
                            "height", U32(fb.h), "depth", U32(32),
                            "stride", U32(fb.w * 4))
  BY <1>2, Five
<1> QED
  BY <1>1, <1>3 DEF FiveAre

LEMMA NoOtherNames ==
  ASSUME NEW fs, NEW key, \A i \in DOMAIN fs : key \notin DOMAIN fs[i]
  PROVE  key \notin DOMAIN JoinAll(fs)
BY DEF JoinAll

\* The nodes of a tree, those of the cores aside, which come seventh while the
\* display has no node yet.
NodeNames == <<"/", "chosen", "memory-map", "defaults", "util", "memory", "framebuffer",
               "arm-io", "gic", "uart0", "pcie">>
Cores(d) == {CpuName(i) : i \in 0..(d.ncpus - 1)}
OwnNames(d) ==
  /\ \A i \in 1..11 : NodeNames[i] \notin Cores(d)
  /\ \A i, j \in 0..(d.ncpus - 1) : CpuName(i) = CpuName(j) => i = j

\* What each of them holds.
NodesOf(t, d) ==
  /\ t["/"] = Root /\ t["chosen"] = Chosen(d) /\ t["defaults"] = Defaults /\ t["util"] = Util
  /\ t["memory"] = Memory(d) /\ t["arm-io"] = ArmIo /\ t["gic"] = Gic /\ t["uart0"] = Uart
  /\ t["pcie"] = Pcie
  /\ \A i \in 0..(d.ncpus - 1) : t[CpuName(i)] = Cpu(i)

FixedNodes == {"/", "chosen", "memory-map", "defaults", "util", "memory", "arm-io", "gic",
               "uart0", "pcie"}

LEMMA NamesDiffer == \A i, j \in 1..11 : NodeNames[i] = NodeNames[j] => i = j
<1>1. 1..11 = {1, 2, 3, 4, 5, 6, 7, 8, 9, 10, 11}
  OBVIOUS
<1> QED
  BY <1>1 DEF NodeNames

LEMMA MinimalTree ==
  ASSUME NEW d, OwnNames(d)
  PROVE  LET t == minimal_vmapple_tree(d)
         IN /\ DOMAIN t = FixedNodes \cup Cores(d)
            /\ NodesOf(t, d) /\ t["memory-map"] = MemoryMap(d)
<1> DEFINE cpus == [n \in {CpuName(i) : i \in 0..(d.ncpus - 1)} |->
                      Cpu(CHOOSE i \in 0..(d.ncpus - 1) : n = CpuName(i))]
           fs == <<One("/", Root), One("chosen", Chosen(d)), One("memory-map", MemoryMap(d)),
                   One("defaults", Defaults), One("util", Util), One("memory", Memory(d)), cpus,
                   One("arm-io", ArmIo), One("gic", Gic), One("uart0", Uart), One("pcie", Pcie)>>
<1>1. minimal_vmapple_tree(d) = JoinAll(fs)
  BY DEF minimal_vmapple_tree
<1>2. /\ fs[1] = One("/", Root) /\ fs[2] = One("chosen", Chosen(d))
      /\ fs[3] = One("memory-map", MemoryMap(d)) /\ fs[4] = One("defaults", Defaults)
      /\ fs[5] = One("util", Util) /\ fs[6] = One("memory", Memory(d)) /\ fs[7] = cpus
      /\ fs[8] = One("arm-io", ArmIo) /\ fs[9] = One("gic", Gic) /\ fs[10] = One("uart0", Uart)
      /\ fs[11] = One("pcie", Pcie) /\ DOMAIN fs = 1..11
  <2> HIDE DEF cpus
  <2> QED
    OBVIOUS
<1>3. DOMAIN cpus = Cores(d)
  BY DEF Cores
<1>4. ASSUME NEW i \in 0..(d.ncpus - 1) PROVE CpuName(i) \in Cores(d) /\ cpus[CpuName(i)] = Cpu(i)
  <2> DEFINE first == CHOOSE j \in 0..(d.ncpus - 1) : CpuName(i) = CpuName(j)
  <2>1. first \in 0..(d.ncpus - 1) /\ CpuName(i) = CpuName(first)
    OBVIOUS
  <2>2. CpuName(i) \in Cores(d)
    BY DEF Cores
  <2>3. cpus[CpuName(i)] = Cpu(first)
    BY <2>2 DEF Cores
  <2> HIDE DEF first, cpus
  <2>4. first = i
    BY <2>1 DEF OwnNames
  <2> QED
    BY <2>2, <2>3, <2>4
<1> HIDE DEF cpus, fs
<1>5. /\ DOMAIN fs[1] = {"/"} /\ DOMAIN fs[2] = {"chosen"} /\ DOMAIN fs[3] = {"memory-map"}
      /\ DOMAIN fs[4] = {"defaults"} /\ DOMAIN fs[5] = {"util"} /\ DOMAIN fs[6] = {"memory"}
      /\ DOMAIN fs[7] = Cores(d) /\ DOMAIN fs[8] = {"arm-io"} /\ DOMAIN fs[9] = {"gic"}
      /\ DOMAIN fs[10] = {"uart0"} /\ DOMAIN fs[11] = {"pcie"}
  BY <1>2, <1>3, OneIs
<1>6. 1..11 = {1, 2, 3, 4, 5, 6, 7, 8, 9, 10, 11}
  OBVIOUS
<1>7. \A i, j \in 1..11 : i # j => DOMAIN fs[i] \cap DOMAIN fs[j] = {}
  <2>1. \A i \in 1..11 : i # 7 => DOMAIN fs[i] = {NodeNames[i]}
    BY <1>5, <1>6 DEF NodeNames
  <2> QED
    BY <1>5, <2>1, NamesDiffer DEF OwnNames
<1>8. /\ \A key : key \in DOMAIN JoinAll(fs) <=> \E i \in 1..11 : key \in DOMAIN fs[i]
      /\ \A i \in 1..11 : \A key \in DOMAIN fs[i] :
           key \in DOMAIN JoinAll(fs) /\ JoinAll(fs)[key] = fs[i][key]
  BY <1>2, <1>7, AllCount
<1>9. DOMAIN JoinAll(fs) = FixedNodes \cup Cores(d)
  <2>1. \A key : (\E i \in 1..11 : key \in DOMAIN fs[i]) <=> key \in FixedNodes \cup Cores(d)
    BY <1>5, <1>6 DEF FixedNodes
  <2> QED
    BY <1>8, <2>1
<1>10. /\ fs[1]["/"] = Root /\ fs[2]["chosen"] = Chosen(d) /\ fs[3]["memory-map"] = MemoryMap(d)
       /\ fs[4]["defaults"] = Defaults /\ fs[5]["util"] = Util /\ fs[6]["memory"] = Memory(d)
       /\ fs[8]["arm-io"] = ArmIo /\ fs[9]["gic"] = Gic /\ fs[10]["uart0"] = Uart
       /\ fs[11]["pcie"] = Pcie
  <2>1. /\ One("/", Root)["/"] = Root /\ One("chosen", Chosen(d))["chosen"] = Chosen(d)
        /\ One("memory-map", MemoryMap(d))["memory-map"] = MemoryMap(d)
        /\ One("defaults", Defaults)["defaults"] = Defaults /\ One("util", Util)["util"] = Util
        /\ One("memory", Memory(d))["memory"] = Memory(d) /\ One("arm-io", ArmIo)["arm-io"] = ArmIo
        /\ One("gic", Gic)["gic"] = Gic /\ One("uart0", Uart)["uart0"] = Uart
        /\ One("pcie", Pcie)["pcie"] = Pcie
    BY OneIs, Zenon
  <2> QED
    BY <1>2, <2>1
<1>11. /\ JoinAll(fs)["/"] = Root /\ JoinAll(fs)["chosen"] = Chosen(d)
       /\ JoinAll(fs)["memory-map"] = MemoryMap(d) /\ JoinAll(fs)["defaults"] = Defaults
       /\ JoinAll(fs)["util"] = Util /\ JoinAll(fs)["memory"] = Memory(d)
  <2>1. /\ JoinAll(fs)["/"] = fs[1]["/"] /\ JoinAll(fs)["chosen"] = fs[2]["chosen"]
        /\ JoinAll(fs)["memory-map"] = fs[3]["memory-map"]
        /\ JoinAll(fs)["defaults"] = fs[4]["defaults"]
        /\ JoinAll(fs)["util"] = fs[5]["util"] /\ JoinAll(fs)["memory"] = fs[6]["memory"]
    BY <1>5, <1>8
  <2> QED
    BY <1>10, <2>1
<1>12. /\ JoinAll(fs)["arm-io"] = ArmIo /\ JoinAll(fs)["gic"] = Gic
       /\ JoinAll(fs)["uart0"] = Uart /\ JoinAll(fs)["pcie"] = Pcie
  <2>1. /\ JoinAll(fs)["arm-io"] = fs[8]["arm-io"] /\ JoinAll(fs)["gic"] = fs[9]["gic"]
        /\ JoinAll(fs)["uart0"] = fs[10]["uart0"] /\ JoinAll(fs)["pcie"] = fs[11]["pcie"]
    BY <1>5, <1>8
  <2> QED
    BY <1>10, <2>1
<1>13. ASSUME NEW i \in 0..(d.ncpus - 1) PROVE JoinAll(fs)[CpuName(i)] = Cpu(i)
  <2>1. CpuName(i) \in DOMAIN fs[7] /\ fs[7][CpuName(i)] = Cpu(i)
    BY <1>2, <1>4, <1>5
  <2> QED
    BY <1>8, <2>1
<1> QED
  BY <1>1, <1>9, <1>11, <1>12, <1>13 DEF NodesOf

LEMMA OtherName ==
  ASSUME NEW key, NEW k, NEW v, NEW c, key # k
  PROVE  key \notin DOMAIN One(k, v) /\ key \notin DOMAIN When(c, One(k, v))
<1>1. DOMAIN One(k, v) = {k}
  BY OneIs, Zenon
<1>2. DOMAIN None = {}
  BY DEF None
<1> QED
  BY <1>1, <1>2 DEF When

\* What tells a node with a handle, or a core.
Marks == {"AAPL,phandle", "reg-private"}

\* /chosen: what the loader measured wins, and of the rest only Apple's can
\* have a handle.
LEMMA ChosenNode ==
  ASSUME NEW d
  PROVE  /\ "dram-base" \in DOMAIN Chosen(d) /\ Chosen(d)["dram-base"] = U64(d.ram_base)
         /\ Chosen(d)["random-seed"] = [len |-> RANDOM_SEED_BYTES, v |-> <<1>>]
         /\ "reg-private" \notin DOMAIN Chosen(d)
         /\ "AAPL,phandle" \in DOMAIN Chosen(d) =>
              /\ "AAPL,phandle" \in DOMAIN AppleChosen
              /\ Chosen(d)["AAPL,phandle"] = AppleChosen["AAPL,phandle"]
<1> DEFINE cs == <<Measured(d), Nvram, BootPolicy(d), AppleChosen>>
           bs == <<One("crypto-hash-method", Str(8)),
                   When(d.os_environment > 0, One("osenvironment", U32(d.os_environment))),
                   When(d.root_hash > 0, One("root-hash", Raw(d.root_hash)))>>
<1>1. Chosen(d) = JoinAll(cs) /\ BootPolicy(d) = JoinAll(bs)
  BY DEF Chosen, BootPolicy
<1>2. /\ DOMAIN cs = 1..4 /\ cs[1] = Measured(d) /\ cs[2] = Nvram /\ cs[3] = BootPolicy(d)
      /\ cs[4] = AppleChosen
  OBVIOUS
<1>3. ASSUME NEW key \in Marks PROVE key \notin DOMAIN BootPolicy(d)
  <2>1. DOMAIN bs = {1, 2, 3}
    OBVIOUS
  <2>2. key \notin DOMAIN bs[1] /\ key \notin DOMAIN bs[2] /\ key \notin DOMAIN bs[3]
    <3>1. key # "crypto-hash-method" /\ key # "osenvironment" /\ key # "root-hash"
      BY DEF Marks
    <3> QED
      BY <3>1, OtherName
  <2> HIDE DEF bs
  <2>3. \A i \in DOMAIN bs : key \notin DOMAIN bs[i]
    BY <2>1, <2>2
  <2> QED
    BY <1>1, <2>3, NoOtherNames
<1> HIDE DEF cs, bs
<1>4. /\ DOMAIN cs[1] = {"dram-base", "dram-size", "debug-enabled", "random-seed", "chip-id",
                         "unique-chip-id"}
      /\ DOMAIN cs[2] = {"nvram-proxy-data", "nvram-total-size", "nvram-bank-size",
                         "nvram-bank-count", "nvram-current-bank"}
  BY <1>2, MeasuredNode, NvramNode
<1>5. ASSUME NEW key \in DOMAIN cs[1]
      PROVE  key \in DOMAIN Chosen(d) /\ Chosen(d)[key] = Measured(d)[key]
  <2>1. FirstAt(cs, 4, 1, key)
    BY <1>2, <1>5 DEF FirstAt
  <2>2. key \in DOMAIN JoinAll(cs) /\ JoinAll(cs)[key] = cs[1][key]
    BY <2>1, FirstCounts
  <2> QED
    BY <1>1, <1>2, <2>2
<1>6. ASSUME NEW key \in Marks
      PROVE  /\ key \notin DOMAIN AppleChosen => key \notin DOMAIN Chosen(d)
             /\ key \in DOMAIN AppleChosen => Chosen(d)[key] = AppleChosen[key]
  <2>1. key \notin DOMAIN cs[1] /\ key \notin DOMAIN cs[2] /\ key \notin DOMAIN cs[3]
    BY <1>2, <1>3, <1>4 DEF Marks
  <2>2. ASSUME key \notin DOMAIN AppleChosen PROVE key \notin DOMAIN Chosen(d)
    <3>1. 1..4 = {1, 2, 3, 4}
      OBVIOUS
    <3>2. \A i \in DOMAIN cs : key \notin DOMAIN cs[i]
      BY <1>2, <2>1, <2>2, <3>1
    <3> QED
      BY <1>1, <3>2, NoOtherNames
  <2>3. ASSUME key \in DOMAIN AppleChosen PROVE Chosen(d)[key] = AppleChosen[key]
    <3>1. \A j \in 1..(4 - 1) : j = 1 \/ j = 2 \/ j = 3
      OBVIOUS
    <3>2. FirstAt(cs, 4, 4, key)
      BY <1>2, <2>1, <2>3, <3>1 DEF FirstAt
    <3>3. JoinAll(cs)[key] = cs[4][key]
      BY <3>2, FirstCounts
    <3> QED
      BY <1>1, <1>2, <3>3
  <2> QED
    BY <2>2, <2>3
<1>7. /\ "dram-base" \in DOMAIN Chosen(d) /\ Chosen(d)["dram-base"] = Measured(d)["dram-base"]
      /\ Chosen(d)["random-seed"] = Measured(d)["random-seed"]
  BY <1>4, <1>5
<1>8. "reg-private" \notin DOMAIN Chosen(d)
  BY <1>6, ChosenAssumption DEF Marks
<1>9. "AAPL,phandle" \in DOMAIN Chosen(d) =>
        /\ "AAPL,phandle" \in DOMAIN AppleChosen
        /\ Chosen(d)["AAPL,phandle"] = AppleChosen["AAPL,phandle"]
  BY <1>6 DEF Marks
<1> QED
  BY <1>7, <1>8, <1>9, MeasuredNode

\* The memory map has no handle and is no processor, whatever is loaded.
PlainMap(map) == "AAPL,phandle" \notin DOMAIN map /\ "reg-private" \notin DOMAIN map

LEMMA MemoryMapPlain ==
  ASSUME NEW d
  PROVE  PlainMap(MemoryMap(d))
<1> DEFINE fs == <<One("kernel-only", Str(4)), One("DeviceTree", Reg(0, 0)),
                   One("BootArgs", Reg(0, 0)), When(d.ramdisk, One("RAMDisk", Reg(0, 0))),
                   When(d.trustcache, One("TrustCache", Reg(0, 0)))>>
<1>1. MemoryMap(d) = JoinAll(fs)
  BY DEF MemoryMap
<1> SUFFICES ASSUME NEW key \in Marks
             PROVE  key \notin DOMAIN MemoryMap(d)
  BY DEF PlainMap, Marks
<1>2. /\ DOMAIN fs = 1..5 /\ fs[1] = One("kernel-only", Str(4))
      /\ fs[2] = One("DeviceTree", Reg(0, 0)) /\ fs[3] = One("BootArgs", Reg(0, 0))
      /\ fs[4] = When(d.ramdisk, One("RAMDisk", Reg(0, 0)))
      /\ fs[5] = When(d.trustcache, One("TrustCache", Reg(0, 0)))
  OBVIOUS
<1> HIDE DEF fs
<1>3. /\ key # "kernel-only" /\ key # "DeviceTree" /\ key # "BootArgs" /\ key # "RAMDisk"
      /\ key # "TrustCache"
  BY DEF Marks
<1>4. /\ key \notin DOMAIN fs[1] /\ key \notin DOMAIN fs[2] /\ key \notin DOMAIN fs[3]
      /\ key \notin DOMAIN fs[4] /\ key \notin DOMAIN fs[5]
  BY <1>2, <1>3, OtherName
<1>5. 1..5 = {1, 2, 3, 4, 5}
  OBVIOUS
<1>6. \A i \in DOMAIN fs : key \notin DOMAIN fs[i]
  BY <1>2, <1>4, <1>5
<1> QED
  BY <1>1, <1>6, NoOtherNames

\* What build_image makes of the command line for minimal_vmapple_tree.
Machine(o) == [ram_base |-> RamBase(o), ram_size |-> o.mem, ncpus |-> o.ncpus,
               trustcache |-> o.tc > 0, ramdisk |-> o.rd > 0,
               root_hash |-> o.root_hash, os_environment |-> o.os_environment]

\* The tree of a command line, whatever has been announced in it.
IsTree(t, o) ==
  /\ DOMAIN t = FixedNodes \cup Cores(Machine(o))
                  \cup (IF o.fb.w > 0 THEN {"framebuffer"} ELSE {})
  /\ NodesOf(t, Machine(o)) /\ PlainMap(t["memory-map"])
  /\ o.fb.w > 0 => t["framebuffer"] = Framebuffer(o.fb)

LEMMA MachineOf ==
  ASSUME NEW o \in Options
  PROVE  /\ Machine(o).ram_base = RamBase(o) /\ Machine(o).ram_size = o.mem
         /\ Machine(o).ncpus = o.ncpus
         /\ OwnNames(Machine(o)) /\ "framebuffer" \notin Cores(Machine(o))
<1>1. /\ Machine(o).ram_base = RamBase(o) /\ Machine(o).ram_size = o.mem
      /\ Machine(o).ncpus = o.ncpus
  BY DEF Machine
<1>2. /\ Cores(Machine(o)) = {CpuName(i) : i \in 0..(o.ncpus - 1)}
      /\ \A i, j \in 0..(o.ncpus - 1) : CpuName(i) = CpuName(j) => i = j
  BY <1>1, TreesAssumption DEF Cores
<1>3. \A i \in 0..(o.ncpus - 1) :
        CpuName(i) \notin {"/", "chosen", "memory-map", "defaults", "util", "memory", "arm-io",
                           "gic", "uart0", "pcie", "framebuffer"}
  BY TreesAssumption
<1>4. \A i \in 1..11 :
        NodeNames[i] \in {"/", "chosen", "memory-map", "defaults", "util", "memory", "arm-io",
                          "gic", "uart0", "pcie", "framebuffer"}
  <2>1. 1..11 = {1, 2, 3, 4, 5, 6, 7, 8, 9, 10, 11}
    OBVIOUS
  <2> QED
    BY <2>1 DEF NodeNames
<1> QED
  BY <1>1, <1>2, <1>3, <1>4 DEF OwnNames

LEMMA WholeTree ==
  ASSUME NEW o \in Options
  PROVE  IsTree(Tree(o), o)
<1> DEFINE base == minimal_vmapple_tree(Machine(o))
           display == One("framebuffer", Framebuffer(o.fb))
           t == Join(base, display)
<1>1. Tree(o) = IF o.fb.w > 0 THEN t ELSE base
  BY DEF Tree, Machine
<1>2. /\ DOMAIN base = FixedNodes \cup Cores(Machine(o))
      /\ NodesOf(base, Machine(o)) /\ base["memory-map"] = MemoryMap(Machine(o))
  BY MinimalTree, MachineOf
<1>3. PlainMap(base["memory-map"])
  BY <1>2, MemoryMapPlain
<1>4. DOMAIN display = {"framebuffer"} /\ display["framebuffer"] = Framebuffer(o.fb)
  BY OneIs, Zenon
<1>5. "framebuffer" \notin DOMAIN base
  <2>1. "framebuffer" \notin FixedNodes
    BY DEF FixedNodes
  <2> QED
    BY <1>2, <2>1, MachineOf
<1> HIDE DEF base, display
<1>6. CASE o.fb.w > 0
  <2>1. Tree(o) = t
    BY <1>1, <1>6
  <2>2. DOMAIN t = DOMAIN base \cup {"framebuffer"}
    BY <1>4 DEF Join
  <2>3. \A n \in DOMAIN base : t[n] = base[n]
    BY JoinedFirst, Zenon
  <2>4. t["framebuffer"] = Framebuffer(o.fb)
    BY <1>4, <1>5, JoinedRest
  <2> HIDE DEF t
  <2>5. /\ NodesOf(t, Machine(o)) /\ t["memory-map"] = base["memory-map"]
    <3>1. /\ {"/", "chosen", "memory-map", "defaults", "util", "memory", "arm-io", "gic", "uart0",
              "pcie"} \subseteq DOMAIN base
          /\ \A i \in 0..(Machine(o).ncpus - 1) : CpuName(i) \in DOMAIN base
      BY <1>2 DEF FixedNodes, Cores
    <3> QED
      BY <1>2, <2>3, <3>1 DEF NodesOf
  <2> QED
    BY <1>2, <1>3, <1>6, <2>1, <2>2, <2>4, <2>5 DEF IsTree
<1>7. CASE ~(o.fb.w > 0)
  BY <1>1, <1>2, <1>3, <1>7 DEF IsTree
<1> QED
  BY <1>6, <1>7

\* What boot_args says too: where RAM is, how much, and where the display is.
Describes(t, o) ==
  /\ t["memory"]["reg"].v = <<RamBase(o), o.mem>>
  /\ t["chosen"]["dram-base"].v = <<RamBase(o)>>
  /\ o.fb.w > 0 => /\ t["framebuffer"]["address"].v = <<o.fb.at>>
                   /\ t["framebuffer"]["stride"].v = <<o.fb.w * 4>>

LEMMA TreeDescribes ==
  ASSUME NEW o \in Options, NEW t, IsTree(t, o)
  PROVE  Describes(t, o)
<1>1. t["chosen"] = Chosen(Machine(o)) /\ t["memory"] = Memory(Machine(o))
  BY DEF IsTree, NodesOf
<1>2. Memory(Machine(o))["reg"] = Reg(RamBase(o), o.mem)
  BY OneIs, MachineOf DEF Memory
<1>3. Chosen(Machine(o))["dram-base"] = U64(RamBase(o))
  BY ChosenNode, MachineOf
<1>4. o.fb.w > 0 => t["framebuffer"] = Framebuffer(o.fb)
  BY DEF IsTree
<1>5. /\ U64(RamBase(o)).v = <<RamBase(o)>> /\ Reg(RamBase(o), o.mem).v = <<RamBase(o), o.mem>>
      /\ U64(o.fb.at).v = <<o.fb.at>> /\ U32(o.fb.w * 4).v = <<o.fb.w * 4>>
  BY DEF U64, U32, Reg, Cells
<1>6. /\ Framebuffer(o.fb)["address"] = U64(o.fb.at)
      /\ Framebuffer(o.fb)["stride"] = U32(o.fb.w * 4)
  BY DisplayNode
<1> QED
  BY <1>1, <1>2, <1>3, <1>4, <1>5, <1>6 DEF Describes

\* An entry of the memory map.
Mapped(t, key, base, size) ==
  /\ "memory-map" \in DOMAIN t /\ key \in DOMAIN t["memory-map"]
  /\ t["memory-map"][key].v = <<base, size>>

LEMMA Announced ==
  ASSUME NEW o \in Options, NEW t, IsTree(t, o), NEW key, key \notin Marks, NEW base, NEW size
  PROVE  LET u == Announce(t, key, base, size)
         IN /\ IsTree(u, o)
            /\ Mapped(u, key, base, size)
            /\ \A other, b, s : other # key /\ Mapped(t, other, b, s) => Mapped(u, other, b, s)
<1> DEFINE u == Announce(t, key, base, size)
           new == One(key, Reg(base, size))
<1>1. /\ FixedNodes \cup Cores(Machine(o)) \subseteq DOMAIN t /\ "memory-map" \in DOMAIN t
  BY DEF IsTree, FixedNodes
<1>2. /\ DOMAIN u = DOMAIN t /\ \A n \in DOMAIN t \ {"memory-map"} : u[n] = t[n]
      /\ u["memory-map"] = Join(new, t["memory-map"])
  BY <1>1 DEF Announce
<1>3. DOMAIN new = {key} /\ new[key] = Reg(base, size)
  BY OneIs, Zenon
<1>4. Reg(base, size).v = <<base, size>>
  BY DEF Reg, Cells
<1> HIDE DEF new, u
<1>5. Mapped(u, key, base, size)
  <2>1. key \in DOMAIN new
    BY <1>3
  <2>2. key \in DOMAIN Join(new, t["memory-map"]) /\ Join(new, t["memory-map"])[key] = new[key]
    BY <2>1, JoinedFirst
  <2> QED
    BY <1>1, <1>2, <1>3, <1>4, <2>2 DEF Mapped
<1>6. ASSUME NEW other, NEW b, NEW s, other # key, Mapped(t, other, b, s)
      PROVE  Mapped(u, other, b, s)
  <2>1. other \notin DOMAIN new /\ other \in DOMAIN t["memory-map"]
    BY <1>3, <1>6 DEF Mapped
  <2>2. /\ other \in DOMAIN Join(new, t["memory-map"])
        /\ Join(new, t["memory-map"])[other] = t["memory-map"][other]
    BY <2>1, JoinedRest
  <2> QED
    BY <1>1, <1>2, <1>6, <2>2 DEF Mapped
<1>7. IsTree(u, o)
  <2>1. PlainMap(u["memory-map"])
    <3>1. \A k : k \in DOMAIN Join(new, t["memory-map"]) => k = key \/ k \in DOMAIN t["memory-map"]
      BY <1>3 DEF Join
    <3>2. key # "AAPL,phandle" /\ key # "reg-private"
      BY DEF Marks
    <3>3. PlainMap(t["memory-map"])
      BY DEF IsTree
    <3> QED
      BY <1>2, <3>1, <3>2, <3>3 DEF PlainMap
  <2>2. NodesOf(u, Machine(o))
    <3>1. /\ {"/", "chosen", "defaults", "util", "memory", "arm-io", "gic", "uart0", "pcie"}
               \subseteq DOMAIN t \ {"memory-map"}
      BY <1>1 DEF FixedNodes
    <3>2. \A i \in 0..(Machine(o).ncpus - 1) : CpuName(i) \in DOMAIN t \ {"memory-map"}
      <4>1. \A i \in 0..(Machine(o).ncpus - 1) : CpuName(i) \in Cores(Machine(o))
        BY DEF Cores
      <4>2. "memory-map" \notin Cores(Machine(o))
        <5>1. 3 \in 1..11 /\ NodeNames[3] = "memory-map"
          BY DEF NodeNames
        <5> QED
          BY <5>1, MachineOf DEF OwnNames
      <4> QED
        BY <1>1, <4>1, <4>2
    <3>3. NodesOf(t, Machine(o))
      BY DEF IsTree
    <3> QED
      BY <1>2, <3>1, <3>2, <3>3 DEF NodesOf
  <2>3. o.fb.w > 0 => "framebuffer" \in DOMAIN t \ {"memory-map"}
    BY DEF IsTree
  <2> QED
    BY <1>2, <2>1, <2>2, <2>3 DEF IsTree
<1> QED
  BY <1>5, <1>6, <1>7 DEF u

\* Announcing what is loaded leaves the machine described as it was.
LEMMA FilledIs ==
  ASSUME NEW o \in Options, NEW i
  PROVE  LET t == Filled(o, i)
         IN /\ IsTree(t, o)
            /\ Mapped(t, "DeviceTree", i.dt.at, i.dt.len)
            /\ Mapped(t, "BootArgs", i.ba.at, i.ba.len)
            /\ o.tc > 0 => Mapped(t, "TrustCache", o.tc_at, o.tc)
            /\ o.rd > 0 => Mapped(t, "RAMDisk", Ramdisk(o, i).at, o.rd)
<1> DEFINE a == Tree(o)
           b == Announce(a, "DeviceTree", i.dt.at, i.dt.len)
           t0 == Announce(b, "BootArgs", i.ba.at, i.ba.len)
           t1 == IF o.tc = 0 THEN t0 ELSE Announce(t0, "TrustCache", o.tc_at, o.tc)
           t2 == IF o.rd = 0 THEN t1 ELSE Announce(t1, "RAMDisk", Ramdisk(o, i).at, o.rd)
<1>1. Filled(o, i) = t2
  BY DEF Filled
<1>2. IsTree(a, o)
  BY WholeTree
<1>3. o.tc \in Nat /\ o.rd \in Nat
  BY OptionTypes
<1>4. "DeviceTree" \notin Marks /\ "BootArgs" \notin Marks /\ "TrustCache" \notin Marks
      /\ "RAMDisk" \notin Marks
  BY DEF Marks
<1> HIDE DEF a
<1>5. IsTree(b, o) /\ Mapped(b, "DeviceTree", i.dt.at, i.dt.len)
  BY <1>2, <1>4, Announced
<1> HIDE DEF b
<1>6. /\ IsTree(t0, o) /\ Mapped(t0, "BootArgs", i.ba.at, i.ba.len)
      /\ Mapped(t0, "DeviceTree", i.dt.at, i.dt.len)
  <2>1. /\ IsTree(t0, o) /\ Mapped(t0, "BootArgs", i.ba.at, i.ba.len)
        /\ \A other, x, s : other # "BootArgs" /\ Mapped(b, other, x, s) => Mapped(t0, other, x, s)
    BY <1>4, <1>5, Announced, Zenon
  <2> HIDE DEF t0
  <2>2. "DeviceTree" # "BootArgs"
    OBVIOUS
  <2> QED
    BY <1>5, <2>1, <2>2
<1> HIDE DEF t0
<1>7. /\ IsTree(t1, o) /\ Mapped(t1, "BootArgs", i.ba.at, i.ba.len)
      /\ Mapped(t1, "DeviceTree", i.dt.at, i.dt.len)
      /\ o.tc > 0 => Mapped(t1, "TrustCache", o.tc_at, o.tc)
  <2>1. CASE o.tc = 0
    BY <1>6, <2>1
  <2>2. CASE o.tc > 0
    <3> DEFINE u == Announce(t0, "TrustCache", o.tc_at, o.tc)
    <3>1. /\ IsTree(u, o) /\ Mapped(u, "TrustCache", o.tc_at, o.tc)
          /\ \A other, x, s : other # "TrustCache" /\ Mapped(t0, other, x, s) => Mapped(u, other, x, s)
      BY <1>4, <1>6, Announced, Zenon
    <3>2. t1 = u
      BY <2>2
    <3> HIDE DEF u, t1
    <3>3. Mapped(u, "DeviceTree", i.dt.at, i.dt.len) /\ Mapped(u, "BootArgs", i.ba.at, i.ba.len)
      BY <1>6, <3>1
    <3> QED
      BY <3>1, <3>2, <3>3
  <2> QED
    BY <1>3, <2>1, <2>2
<1> HIDE DEF t1
<1>8. /\ IsTree(t2, o) /\ Mapped(t2, "BootArgs", i.ba.at, i.ba.len)
      /\ Mapped(t2, "DeviceTree", i.dt.at, i.dt.len)
      /\ o.tc > 0 => Mapped(t2, "TrustCache", o.tc_at, o.tc)
      /\ o.rd > 0 => Mapped(t2, "RAMDisk", Ramdisk(o, i).at, o.rd)
  <2>1. CASE o.rd = 0
    BY <1>7, <2>1
  <2>2. CASE o.rd > 0
    <3> DEFINE u == Announce(t1, "RAMDisk", Ramdisk(o, i).at, o.rd)
    <3>1. /\ IsTree(u, o) /\ Mapped(u, "RAMDisk", Ramdisk(o, i).at, o.rd)
          /\ \A other, x, s : other # "RAMDisk" /\ Mapped(t1, other, x, s) => Mapped(u, other, x, s)
      BY <1>4, <1>7, Announced, Zenon
    <3>2. t2 = u
      BY <2>2
    <3> HIDE DEF u, t2
    <3>3. /\ Mapped(u, "DeviceTree", i.dt.at, i.dt.len) /\ Mapped(u, "BootArgs", i.ba.at, i.ba.len)
          /\ o.tc > 0 => Mapped(u, "TrustCache", o.tc_at, o.tc)
      BY <1>7, <3>1
    <3> QED
      BY <3>1, <3>2, <3>3
  <2> QED
    BY <1>3, <2>1, <2>2
<1> HIDE DEF t2
<1> QED
  BY <1>1, <1>8

\* The tree and boot_args of a layout describe one machine, and where things
\* are.
LEMMA LayoutMachine ==
  ASSUME NEW k \in Kernels, NEW o \in Options, Accepted(k, o)
  PROVE  SameMachine(Layout(o, parse(k)))
<1> DEFINE m == parse(k)
           l == Layout(o, m)
           i == Image(o, m)
           t == Filled(o, i)
<1>1. m.file_size \in Nat /\ Bytes(t) = Bytes(Tree(o))
  BY Parsed
<1>2. ImageGood(o, m, i)
  BY <1>1, ImageLaidOut
<1> HIDE DEF m, i
<1>3. /\ IsTree(t, o) /\ Describes(t, o)
      /\ Mapped(t, "DeviceTree", i.dt.at, i.dt.len)
      /\ Mapped(t, "BootArgs", i.ba.at, i.ba.len)
      /\ o.tc > 0 => Mapped(t, "TrustCache", o.tc_at, o.tc)
      /\ o.rd > 0 => Mapped(t, "RAMDisk", Ramdisk(o, i).at, o.rd)
  <2>1. IsTree(t, o)
    BY FilledIs
  <2> HIDE DEF t
  <2>2. Describes(t, o)
    BY <2>1, TreeDescribes
  <2> USE DEF t
  <2> QED
    BY <2>1, <2>2, FilledIs
<1> HIDE DEF t
<1>4. /\ l.o = o /\ l.image = i /\ l.tree = t /\ l.tc = TrustCache(o) /\ l.rd = Ramdisk(o, i)
      /\ l.args.physBase = RamBase(o) /\ l.args.memSize = o.mem
      /\ l.args.deviceTreeLength = Bytes(t) /\ l.args.video = Video(o)
  BY LayoutIs, ArgumentsAre DEF i, t
<1> HIDE DEF l
<1>5. o.tc \in Nat /\ o.rd \in Nat /\ o.fb.w \in Nat
  BY OptionTypes
<1>6. ASSUME NEW key, NEW r, r.len > 0 => Mapped(t, key, r.at, r.len)
      PROVE  Announces(l, key, r)
  BY <1>4, <1>6 DEF Announces, MapEntry, Mapped
<1>7. Announces(l, "DeviceTree", l.image.dt) /\ Announces(l, "BootArgs", l.image.ba)
  <2>1. Announces(l, "DeviceTree", i.dt)
    BY <1>3, <1>6
  <2>2. Announces(l, "BootArgs", i.ba)
    BY <1>3, <1>6
  <2> QED
    BY <1>4, <2>1, <2>2
<1>8. Announces(l, "TrustCache", l.tc)
  <2>1. CASE o.tc = 0
    BY <1>4, <2>1 DEF TrustCache, Nowhere, Announces
  <2>2. CASE o.tc > 0
    <3>1. l.tc = [at |-> o.tc_at, len |-> o.tc]
      BY <1>4, <2>2 DEF TrustCache
    <3>2. l.tc.at = o.tc_at /\ l.tc.len = o.tc
      BY <3>1
    <3>3. Mapped(t, "TrustCache", l.tc.at, l.tc.len)
      BY <1>3, <2>2, <3>2
    <3> QED
      BY <1>6, <3>3
  <2> QED
    BY <1>5, <2>1, <2>2
<1>9. Announces(l, "RAMDisk", l.rd)
  <2>1. CASE o.rd = 0
    BY <1>4, <2>1 DEF Ramdisk, Nowhere, Announces
  <2>2. CASE o.rd > 0
    <3>1. l.rd.len = o.rd
      BY <1>4, <2>2 DEF Ramdisk
    <3>2. Mapped(t, "RAMDisk", l.rd.at, l.rd.len)
      BY <1>3, <1>4, <2>2, <3>1
    <3> QED
      BY <1>6, <3>2
  <2> QED
    BY <1>5, <2>1, <2>2
<1>10. Bytes(l.tree) = l.args.deviceTreeLength /\ l.args.deviceTreeLength = l.image.dt.len
  BY <1>1, <1>2, <1>4 DEF ImageGood
<1>11. o.fb.w > 0 => l.args.video[1] = o.fb.at /\ l.args.video[3] = o.fb.w * 4
  <2> SUFFICES ASSUME o.fb.w > 0 PROVE l.args.video[1] = o.fb.at /\ l.args.video[3] = o.fb.w * 4
    OBVIOUS
  <2>1. Video(o) = <<o.fb.at, 1, o.fb.w * 4, o.fb.w, o.fb.h, 32>>
    BY <1>5 DEF Video
  <2> QED
    BY <1>4, <2>1
<1>12. SameMachine(l)
  BY <1>3, <1>4, <1>7, <1>8, <1>9, <1>10, <1>11 DEF SameMachine, Describes
<1> QED
  BY <1>12 DEF l, m
-----------------------------------------------------------------------------
(***************************************************************************)
(* The stubs.                                                              *)
(***************************************************************************)
\* The stub written next to a layout enters it.
LEMMA LayoutStub ==
  ASSUME NEW k \in Kernels, NEW o \in Options, Accepted(k, o)
  PROVE  StubAgrees(Layout(o, parse(k)), Stub(Layout(o, parse(k))))
<1> DEFINE m == parse(k)
           l == Layout(o, m)
           i == Image(o, m)
           s == Stub(l)
           d == Display(o)
<1>1. m.vm_low \in Nat /\ m.entry \in Int
  BY Parsed
<1> HIDE DEF m, i
<1>2. /\ l.o = o /\ l.m = m /\ l.image = i
      /\ l.args.virtBase = m.vm_low - (o.phys - RamBase(o)) /\ l.args.physBase = RamBase(o)
      /\ l.args.video = Video(o)
  BY LayoutIs, ArgumentsAre DEF i
<1> HIDE DEF l
<1>3. /\ o.phys \in Nat /\ RamBase(o) \in Nat /\ o.tramp_at \in Nat
      /\ o.fb.at \in Nat /\ o.fb.w \in Nat /\ o.fb.h \in Nat
      /\ o.fb_init \in BOOLEAN /\ o.logo \in BOOLEAN
  BY OptionTypes
<1>4. /\ s.at = o.tramp_at /\ s.x0 = i.ba.at /\ s.entry = o.phys + (m.entry - m.vm_low)
      /\ s.display = d /\ s.code = CodeLen(d.words)
      /\ s.picture = IF d.words = BlitWords
                     THEN [at |-> o.tramp_at + PictureOffset(o, CodeLen(d.words)),
                           len |-> o.fb.w * o.fb.h * 4]
                     ELSE Nowhere
  BY <1>2 DEF Stub
<1> HIDE DEF s
<1>5. PhysToVirt(l, s.entry) = m.entry
  BY <1>1, <1>2, <1>3, <1>4 DEF PhysToVirt
<1>6. BlitWords = 52 /\ FillWords = 49 /\ CodeLen(52) = 252
  BY DEF BlitWords, FillWords, SetUpWords, load64, load32, CodeLen
<1>7. /\ d.words = BlitWords => d.blit_from = DataAt(o)
      /\ d.words > 0 => /\ o.fb.w # 0 /\ d.to = o.fb.at /\ d.bar0 = o.fb.at % BarSpan
                        /\ d.pixels = o.fb.w * o.fb.h
  <2>1. CASE ~o.fb_init \/ o.fb.w = 0
    <3>1. d = NoDisplay
      BY <2>1 DEF Display
    <3> QED
      BY <1>6, <3>1 DEF NoDisplay
  <2>2. CASE o.fb_init /\ o.fb.w # 0 /\ o.logo
    <3>1. d = bochs_fb(o, BlitWords, DataAt(o))
      BY <2>2 DEF Display
    <3> QED
      BY <2>2, <3>1 DEF bochs_fb
  <2>3. CASE o.fb_init /\ o.fb.w # 0 /\ ~o.logo
    <3>1. d = bochs_fb(o, FillWords, 0)
      BY <2>3 DEF Display
    <3>2. d.words = 49 /\ o.fb.w # 0
      BY <1>6, <2>3, <3>1 DEF bochs_fb
    <3> QED
      BY <1>6, <3>1, <3>2 DEF bochs_fb
  <2> QED
    BY <1>3, <2>1, <2>2, <2>3
<1> HIDE DEF d
<1>8. ASSUME d.words > 0
      PROVE  /\ d.to = l.args.video[1]
             /\ d.to < BarSpan => d.bar0 = d.to
             /\ d.pixels * 4 = l.args.video[3] * l.args.video[5]
  <2>1. Video(o) = <<o.fb.at, 1, o.fb.w * 4, o.fb.w, o.fb.h, 32>>
    BY <1>7, <1>8 DEF Video
  <2>2. l.args.video[1] = o.fb.at /\ l.args.video[3] = o.fb.w * 4 /\ l.args.video[5] = o.fb.h
    BY <1>2, <2>1
  <2>3. o.fb.at < BarSpan => o.fb.at % BarSpan = o.fb.at
    BY <1>3, BuildAssumption, SmallRemainder
  <2>4. o.fb.w * o.fb.h * 4 = o.fb.w * 4 * o.fb.h
    <3>1. \A a, b \in Nat : a * b * 4 = a * 4 * b
      OBVIOUS
    <3> QED
      BY <1>3, <3>1
  <2> QED
    BY <1>7, <1>8, <2>2, <2>3, <2>4
<1>9. ASSUME s.picture.len > 0
      PROVE  /\ s.picture.at = d.blit_from
             /\ s.picture.at >= s.at + s.code
             /\ s.picture.len = d.pixels * 4
  <2>1. d.words = BlitWords
    <3>1. CASE d.words # BlitWords
      BY <1>4, <1>9, <3>1 DEF Nowhere
    <3> QED
      BY <3>1
  <2>2. s.code = 252 /\ d.words > 0
    BY <1>4, <1>6, <2>1
  <2>3. /\ s.picture.at = o.tramp_at + PictureOffset(o, 252)
        /\ s.picture.len = o.fb.w * o.fb.h * 4
    BY <1>4, <1>6, <2>1
  <2>4. DataAt(o) = align(o.tramp_at + 252, 16)
    BY <1>6 DEF DataAt
  <2>5. DataAt(o) \in Nat /\ o.tramp_at + 252 <= DataAt(o)
    <3>1. o.tramp_at + 252 \in Nat
      BY <1>3
    <3> QED
      BY <2>4, <3>1, Sixteens
  <2>6. PictureOffset(o, 252) = DataAt(o) - o.tramp_at
    <3> DEFINE pad == DataAt(o) - o.tramp_at - 252
    <3>1. pad \in Nat
      BY <1>3, <2>5
    <3>2. Max({0, pad}) = pad
      <4> HIDE DEF pad
      <4> QED
        BY <3>1, GreaterOfTwo
    <3>3. PictureOffset(o, 252) = 252 + pad
      BY <3>2 DEF PictureOffset
    <3> QED
      BY <1>3, <2>5, <3>3
  <2> QED
    BY <1>3, <1>4, <1>7, <2>1, <2>2, <2>3, <2>5, <2>6
<1>10. StubAgrees(l, s)
  BY <1>2, <1>4, <1>5, <1>8, <1>9 DEF StubAgrees
<1> QED
  BY <1>10 DEF l, m, s
-----------------------------------------------------------------------------
(***************************************************************************)
(* The directory, after any sequence of commands.                          *)
(***************************************************************************)
\* A layout some command line makes of some kernel.
IsLayout(l) == \E k \in Kernels, o \in Options : Accepted(k, o) /\ l = Layout(o, parse(k))

Directory ==
  /\ DOMAIN files = {"members", "kernel", "loadmap", "image", "devicetree", "stub"}
  /\ files["members"] \in {Missing, Partial} \cup {p.at : p \in Packages}
  /\ files["image"] \in {Missing, Partial} \/ IsLayout(files["image"])
  /\ files["devicetree"] = Missing \/ files["devicetree"] \in Nat

Command ==
  /\ DOMAIN cmd = {"name", "pkg", "kern", "o"}
  /\ cmd.name \in {"none", "build_all", "build_image", "from_build"}
  /\ cmd.name = "build_all" => cmd.pkg \in Packages /\ cmd.o \in Options
  /\ cmd.name = "build_image" => cmd.kern \in ByHand /\ cmd.o \in Options

\* A kernel out of the package; the one asked for, if no listing misleads.
FromPackage(kern, p) == /\ kern \in Range(p.holds)
                        /\ Unmistakable(p) => kern = p.holds[p.at]

\* The kernel being built; build_all has it and its load map from its package.
Ready ==
  /\ cmd.name \in {"build_all", "build_image"}
  /\ cmd.name = "build_all" => /\ FromPackage(cmd.kern, cmd.pkg) /\ files["kernel"] = cmd.kern
                               /\ files["loadmap"] = parse(cmd.kern)
LaidOut == Accepted(cmd.kern, cmd.o) /\ work = Layout(cmd.o, parse(cmd.kern))

\* What the steps taken so far have established.
Phases ==
  /\ pc \in {"carve", "dump", "extract", "loadmap", "drop"} => cmd.name = "build_all"
  /\ pc = "loadmap" => FromPackage(cmd.kern, cmd.pkg) /\ files["kernel"] = cmd.kern
  /\ pc = "layout" => Ready
  /\ pc \in {"image", "stub", "drop"} => Ready /\ LaidOut
  /\ pc \in {"stub", "drop"} => files["image"] = work
  /\ pc = "read" => cmd.name = "from_build"

Ended ==
  pc = "done" =>
    /\ cmd.name # "from_build" => Ready /\ LaidOut /\ files["image"] = work
    /\ cmd.name = "build_image" /\ cmd.o.tramp => files["stub"] = Stub(work)
    /\ cmd.name = "from_build" => files["stub"] = FromBuildStub

IInv == pc \in Labels /\ runs \in 0..MaxRuns /\ Directory /\ Command /\ Phases /\ Ended

LEMMA Initially == Init => IInv
<1> SUFFICES ASSUME Init PROVE IInv
  OBVIOUS
<1>1. /\ pc = "idle" /\ runs = 0 /\ DOMAIN files = {"members", "kernel", "loadmap", "image", "devicetree", "stub"}
      /\ files["members"] = Missing /\ files["image"] = Missing /\ files["devicetree"] = Missing
      /\ DOMAIN cmd = {"name", "pkg", "kern", "o"} /\ cmd.name = "none"
  BY DEF Init, NoCommand
<1>2. Directory /\ Command
  BY <1>1 DEF Directory, Command
<1>3. Phases /\ Ended
  BY <1>1 DEF Phases, Ended
<1>4. pc \in Labels /\ runs \in 0..MaxRuns
  BY <1>1, BuildAssumption DEF Labels, Stopped
<1> QED
  BY <1>2, <1>3, <1>4 DEF IInv

\* A file written leaves the others alone.
LEMMA Saved ==
  ASSUME NEW file, NEW value, Save(file, value)
  PROVE  /\ DOMAIN files' = DOMAIN files
         /\ \A f \in DOMAIN files : f # file => files'[f] = files[f]
         /\ file \in DOMAIN files => files'[file] = value
BY DEF Save

\* A command starts.
LEMMA Started ==
  ASSUME IInv, NEW name, NEW first, NEW pkg, NEW kern, NEW o, Begin(name, first, pkg, kern, o),
         \/ name = "build_all" /\ first = "carve" /\ pkg \in Packages /\ o \in Options
         \/ name = "build_image" /\ first = "layout" /\ kern \in ByHand /\ o \in Options
         \/ name = "from_build" /\ first = "read"
  PROVE  IInv'
<1>1. /\ pc' = first /\ runs' = runs + 1 /\ runs < MaxRuns /\ files' = files
      /\ cmd' = [name |-> name, pkg |-> pkg, kern |-> kern, o |-> o]
  BY DEF Begin
<1>2. /\ DOMAIN cmd' = {"name", "pkg", "kern", "o"}
      /\ cmd'.name = name /\ cmd'.pkg = pkg /\ cmd'.kern = kern /\ cmd'.o = o
  BY <1>1
<1>3. runs' \in 0..MaxRuns /\ pc' \in Labels
  BY <1>1, BuildAssumption DEF IInv, Labels, Stopped
<1>4. Directory'
  BY <1>1 DEF IInv, Directory
<1>5. Command'
  BY <1>2 DEF Command
<1>6. Phases'
  BY <1>1, <1>2 DEF Phases, Ready
<1>7. Ended'
  BY <1>1 DEF Ended
<1> QED
  BY <1>3, <1>4, <1>5, <1>6, <1>7 DEF IInv

LEMMA CarveKeeps == ASSUME IInv, Carve PROVE IInv'
<1>1. /\ pc = "carve" /\ cmd' = cmd /\ work' = work /\ runs' = runs
      /\ \/ pc' = "dump" /\ Save("members", Partial)
         \/ pc' \in {"failed", "extract"} /\ files' = files
  <2>1. CASE files["members"] = Missing
    BY <2>1 DEF Carve, Goto
  <2>2. CASE files["members"] = Partial
    BY <2>2, BuildAssumption DEF Carve, Goto
  <2>3. CASE files["members"] # Missing /\ files["members"] # Partial
    BY <2>3 DEF Carve, Goto
  <2> QED
    BY <2>1, <2>2, <2>3
<1>2. Directory'
  <2>1. CASE files' = files
    BY <2>1 DEF IInv, Directory
  <2>2. CASE Save("members", Partial)
    BY <2>2, Saved DEF IInv, Directory
  <2> QED
    BY <1>1, <2>1, <2>2
<1>3. Command' /\ pc' \in Labels /\ runs' \in 0..MaxRuns
  BY <1>1 DEF IInv, Command, Labels, Stopped
<1>4. Phases' /\ Ended'
  BY <1>1 DEF IInv, Phases, Ended
<1> QED
  BY <1>2, <1>3, <1>4 DEF IInv

LEMMA DumpKeeps == ASSUME IInv, Dump PROVE IInv'
<1>1. /\ pc = "dump" /\ pc' = "extract" /\ cmd' = cmd /\ work' = work /\ runs' = runs
      /\ Save("members", cmd.pkg.at)
  BY DEF Dump, Goto
<1>2. cmd.name = "build_all" /\ cmd.pkg \in Packages
  BY <1>1 DEF IInv, Phases, Command
<1>3. Directory'
  <2>1. cmd.pkg.at \in {p.at : p \in Packages}
    BY <1>2
  <2> QED
    BY <1>1, <2>1, Saved DEF IInv, Directory
<1>4. Command' /\ pc' \in Labels /\ runs' \in 0..MaxRuns
  BY <1>1 DEF IInv, Command, Labels, Stopped
<1>5. Phases' /\ Ended'
  BY <1>1, <1>2 DEF Phases, Ended
<1> QED
  BY <1>3, <1>4, <1>5 DEF IInv

\* What the listing in the directory finds in a package.
LEMMA Found ==
  ASSUME Directory, NEW p \in Packages, files["members"] \in DOMAIN p.holds
  PROVE  FromPackage(p.holds[files["members"]], p)
<1>1. files["members"] \notin {Missing, Partial}
  BY PackagesAssumption
<1>2. PICK q \in Packages : files["members"] = q.at
  BY <1>1 DEF Directory
<1>3. p.holds[files["members"]] \in Range(p.holds)
  BY DEF Range
<1> QED
  BY <1>2, <1>3 DEF FromPackage, Unmistakable

LEMMA ExtractKeeps == ASSUME IInv, Extract PROVE IInv'
<1> DEFINE kern == cmd.pkg.holds[files["members"]]
<1>1. /\ pc = "extract" /\ work' = work /\ runs' = runs
      /\ \/ /\ files["members"] \in DOMAIN cmd.pkg.holds
            /\ pc' = "loadmap" /\ Save("kernel", kern)
            /\ cmd' = [cmd EXCEPT !.kern = kern]
         \/ pc' = "failed" /\ cmd' = cmd /\ files' = files
  BY DEF Extract, Goto
<1>2. cmd.name = "build_all" /\ cmd.pkg \in Packages /\ cmd.o \in Options
  BY <1>1 DEF IInv, Phases, Command
<1>3. CASE pc' = "failed" /\ cmd' = cmd /\ files' = files
  <2>1. Directory' /\ Command'
    BY <1>3 DEF IInv, Directory, Command
  <2> QED
    BY <1>1, <1>3, <2>1 DEF IInv, Phases, Ended, Labels, Stopped
<1>4. CASE /\ files["members"] \in DOMAIN cmd.pkg.holds
           /\ pc' = "loadmap" /\ Save("kernel", kern)
           /\ cmd' = [cmd EXCEPT !.kern = kern]
  <2>1. FromPackage(kern, cmd.pkg)
    BY <1>2, <1>4, Found DEF IInv
  <2> HIDE DEF kern
  <2>2. /\ DOMAIN cmd' = {"name", "pkg", "kern", "o"}
        /\ cmd'.name = cmd.name /\ cmd'.pkg = cmd.pkg /\ cmd'.o = cmd.o
        /\ cmd'.kern = kern
    BY <1>4 DEF IInv, Command
  <2>3. Directory' /\ files'["kernel"] = kern
    BY <1>4, Saved DEF IInv, Directory
  <2>4. Command'
    BY <1>2, <2>2 DEF Command
  <2>5. FromPackage(cmd'.kern, cmd'.pkg)
    BY <2>1, <2>2
  <2>6. Phases' /\ Ended'
    BY <1>2, <1>4, <2>2, <2>3, <2>5 DEF Phases, Ended
  <2>7. pc' \in Labels /\ runs' \in 0..MaxRuns
    BY <1>1, <1>4 DEF IInv, Labels, Stopped
  <2> QED
    BY <2>3, <2>4, <2>6, <2>7 DEF IInv
<1> QED
  BY <1>1, <1>3, <1>4

LEMMA LoadMapKeeps == ASSUME IInv, LoadMap PROVE IInv'
<1>1. /\ pc = "loadmap" /\ pc' \in {"failed", "layout"} /\ cmd' = cmd /\ work' = work /\ runs' = runs
      /\ Save("loadmap", parse(cmd.kern))
  BY DEF LoadMap, Goto
<1>2. cmd.name = "build_all" /\ FromPackage(cmd.kern, cmd.pkg) /\ files["kernel"] = cmd.kern
  BY <1>1 DEF IInv, Phases
<1>3. /\ Directory' /\ files'["kernel"] = cmd.kern /\ files'["loadmap"] = parse(cmd.kern)
  <2>1. /\ DOMAIN files' = DOMAIN files
        /\ \A f \in DOMAIN files : f # "loadmap" => files'[f] = files[f]
        /\ "loadmap" \in DOMAIN files => files'["loadmap"] = parse(cmd.kern)
    BY <1>1, Saved
  <2> QED
    BY <1>2, <2>1 DEF IInv, Directory
<1>4. Command' /\ pc' \in Labels /\ runs' \in 0..MaxRuns
  BY <1>1 DEF IInv, Command, Labels, Stopped
<1>5. Ready'
  BY <1>1, <1>2, <1>3 DEF Ready
<1>6. Phases' /\ Ended'
  BY <1>1, <1>5 DEF Phases, Ended
<1> QED
  BY <1>3, <1>4, <1>6 DEF IInv

LEMMA LayOutKeeps == ASSUME IInv, LayOut PROVE IInv'
<1>1. /\ pc = "layout" /\ cmd' = cmd /\ files' = files /\ runs' = runs
      /\ \/ /\ pc' = "image" /\ Accepted(cmd.kern, cmd.o)
            /\ work' = Layout(cmd.o, parse(cmd.kern))
         \/ pc' = "failed"
  BY DEF LayOut, Goto
<1>2. Ready
  BY <1>1 DEF IInv, Phases
<1>3. Directory' /\ Command' /\ pc' \in Labels /\ runs' \in 0..MaxRuns
  BY <1>1 DEF IInv, Directory, Command, Labels, Stopped
<1>4. Ready' /\ (pc' = "image" => LaidOut')
  BY <1>1, <1>2 DEF Ready, LaidOut
<1>5. Phases' /\ Ended'
  BY <1>1, <1>4 DEF Phases, Ended
<1> QED
  BY <1>3, <1>5 DEF IInv

\* The layout at hand is one of a kernel and of options there are.
LEMMA WorkIsLayout ==
  ASSUME Command, Ready, LaidOut
  PROVE  /\ IsLayout(work) /\ work.o = cmd.o
         /\ cmd.kern \in Kernels /\ cmd.o \in Options
<1>1. cmd.kern \in Kernels /\ cmd.o \in Options
  <2>1. CASE cmd.name = "build_all"
    <3>1. cmd.pkg \in Packages /\ cmd.o \in Options /\ cmd.kern \in Range(cmd.pkg.holds)
      BY <2>1 DEF Command, Ready, FromPackage
    <3> QED
      BY <3>1 DEF Kernels
  <2>2. CASE cmd.name = "build_image"
    BY <2>2 DEF Command, Kernels
  <2> QED
    BY <2>1, <2>2 DEF Ready
<1>2. work.o = cmd.o
  BY LayoutIs DEF LaidOut
<1> QED
  BY <1>1, <1>2 DEF IsLayout, LaidOut

LEMMA WriteImageKeeps == ASSUME IInv, WriteImage PROVE IInv'
<1>1. /\ pc = "image" /\ pc' = AfterImage /\ cmd' = cmd /\ work' = work /\ runs' = runs
      /\ Save("image", work)
  BY DEF WriteImage, Goto
<1>2. Ready /\ LaidOut
  BY <1>1 DEF IInv, Phases
<1>3. IsLayout(work) /\ work.o = cmd.o
  BY <1>2, WorkIsLayout DEF IInv
<1>4. /\ AfterImage \in {"failed", "stub", "drop", "done"}
      /\ AfterImage = "drop" => cmd.name = "build_all"
      /\ AfterImage = "done" => ~work.o.tramp
  BY DEF AfterImage
<1>5. /\ Directory' /\ files'["image"] = work
      /\ files'["kernel"] = files["kernel"] /\ files'["loadmap"] = files["loadmap"]
  <2>1. /\ DOMAIN files' = DOMAIN files
        /\ \A f \in DOMAIN files : f # "image" => files'[f] = files[f]
        /\ "image" \in DOMAIN files => files'["image"] = work
    BY <1>1, Saved
  <2> QED
    BY <1>3, <2>1 DEF IInv, Directory
<1>6. Command' /\ pc' \in Labels /\ runs' \in 0..MaxRuns
  BY <1>1, <1>4 DEF IInv, Command, Labels, Stopped
<1>7. Ready' /\ LaidOut'
  BY <1>1, <1>2, <1>5 DEF Ready, LaidOut
<1>8. Phases'
  BY <1>1, <1>4, <1>5, <1>7 DEF Phases
<1>9. Ended'
  BY <1>1, <1>3, <1>4, <1>5, <1>7 DEF Ended, Ready
<1> QED
  BY <1>5, <1>6, <1>8, <1>9 DEF IInv

LEMMA WriteStubKeeps == ASSUME IInv, WriteStub PROVE IInv'
<1>1. /\ pc = "stub" /\ pc' = "done" /\ cmd' = cmd /\ work' = work /\ runs' = runs
      /\ Save("stub", Stub(work))
  BY DEF WriteStub, Goto
<1>2. Ready /\ LaidOut /\ files["image"] = work
  BY <1>1 DEF IInv, Phases
<1>3. /\ Directory' /\ files'["stub"] = Stub(work) /\ files'["image"] = work
      /\ files'["kernel"] = files["kernel"] /\ files'["loadmap"] = files["loadmap"]
  <2>1. /\ DOMAIN files' = DOMAIN files
        /\ \A f \in DOMAIN files : f # "stub" => files'[f] = files[f]
        /\ "stub" \in DOMAIN files => files'["stub"] = Stub(work)
    BY <1>1, Saved
  <2> QED
    BY <1>2, <2>1 DEF IInv, Directory
<1>4. Command' /\ pc' \in Labels /\ runs' \in 0..MaxRuns
  BY <1>1 DEF IInv, Command, Labels, Stopped
<1>5. Ready' /\ LaidOut'
  BY <1>1, <1>2, <1>3 DEF Ready, LaidOut
<1>6. Phases' /\ Ended'
  BY <1>1, <1>3, <1>5 DEF Phases, Ended, Ready
<1> QED
  BY <1>3, <1>4, <1>6 DEF IInv

LEMMA DropKeeps == ASSUME IInv, Drop PROVE IInv'
<1> DEFINE bytes == Serialised(cmd.o)
<1>1. /\ pc = "drop" /\ pc' = "done" /\ cmd' = cmd /\ work' = work /\ runs' = runs
      /\ Save("devicetree", bytes)
  BY DEF Drop, Goto
<1>2. Ready /\ LaidOut /\ files["image"] = work /\ cmd.name = "build_all"
  BY <1>1 DEF IInv, Phases
<1>3. bytes \in Nat
  <2>1. cmd.o \in Options
    BY <1>2 DEF IInv, Command
  <2> QED
    BY <2>1, TreesAssumption DEF Serialised
<1> HIDE DEF bytes
<1>4. /\ Directory' /\ files'["image"] = work
      /\ files'["kernel"] = files["kernel"] /\ files'["loadmap"] = files["loadmap"]
  <2>1. /\ DOMAIN files' = DOMAIN files
        /\ \A f \in DOMAIN files : f # "devicetree" => files'[f] = files[f]
        /\ "devicetree" \in DOMAIN files => files'["devicetree"] = bytes
    BY <1>1, Saved
  <2> QED
    BY <1>2, <1>3, <2>1 DEF IInv, Directory
<1>5. Command' /\ pc' \in Labels /\ runs' \in 0..MaxRuns
  BY <1>1 DEF IInv, Command, Labels, Stopped
<1>6. Ready' /\ LaidOut'
  BY <1>1, <1>2, <1>4 DEF Ready, LaidOut
<1>7. Phases' /\ Ended'
  BY <1>1, <1>2, <1>4, <1>6 DEF Phases, Ended
<1> QED
  BY <1>4, <1>5, <1>7 DEF IInv

LEMMA ReadBuildKeeps == ASSUME IInv, ReadBuild PROVE IInv'
<1>1. /\ pc = "read" /\ cmd' = cmd /\ work' = work /\ runs' = runs
      /\ \/ pc' = "failed" /\ files' = files
         \/ pc' = "done" /\ Save("stub", FromBuildStub)
  BY Zenon DEF ReadBuild, Goto
<1>2. cmd.name = "from_build"
  BY <1>1 DEF IInv, Phases
<1>3. Command' /\ pc' \in Labels /\ runs' \in 0..MaxRuns
  BY <1>1 DEF IInv, Command, Labels, Stopped
<1>4. CASE pc' = "failed" /\ files' = files
  <2>1. Directory'
    BY <1>4 DEF IInv, Directory
  <2> QED
    BY <1>3, <1>4, <2>1 DEF IInv, Phases, Ended
<1>5. CASE pc' = "done" /\ Save("stub", FromBuildStub)
  <2>1. /\ DOMAIN files' = DOMAIN files
        /\ \A f \in DOMAIN files : f # "stub" => files'[f] = files[f]
        /\ "stub" \in DOMAIN files => files'["stub"] = FromBuildStub
    BY <1>5, Saved
  <2>2. /\ Directory' /\ files'["stub"] = FromBuildStub
        /\ files'["devicetree"] = files["devicetree"] /\ files'["loadmap"] = files["loadmap"]
    BY <2>1 DEF IInv, Directory
  <2>3. FromBuildStub' = FromBuildStub
    BY <2>2 DEF FromBuildStub
  <2>4. Phases' /\ Ended'
    BY <1>1, <1>2, <1>5, <2>2, <2>3 DEF Phases, Ended
  <2> QED
    BY <1>3, <2>2, <2>4 DEF IInv
<1> QED
  BY <1>1, <1>4, <1>5

LEMMA CutShortKeeps == ASSUME IInv, CutShort PROVE IInv'
<1>1. /\ pc \in Labels /\ pc' = "failed" /\ cmd' = cmd /\ work' = work /\ runs' = runs
      /\ \/ \E file \in {"kernel", "loadmap", "image", "stub"} : Save(file, Partial)
         \/ \E n \in Nat : Save("devicetree", n)
  BY BuildAssumption DEF CutShort, Goto, IInv
<1>2. Directory'
  <2>1. CASE \E file \in {"kernel", "loadmap", "image", "stub"} : Save(file, Partial)
    <3>1. PICK file \in {"kernel", "loadmap", "image", "stub"} : Save(file, Partial)
      BY <2>1
    <3>2. /\ DOMAIN files' = DOMAIN files
          /\ \A f \in DOMAIN files : f # file => files'[f] = files[f]
          /\ file \in DOMAIN files => files'[file] = Partial
      BY <3>1, Saved
    <3> QED
      BY <3>2 DEF IInv, Directory
  <2>2. CASE \E n \in Nat : Save("devicetree", n)
    <3>1. PICK n \in Nat : Save("devicetree", n)
      BY <2>2
    <3>2. /\ DOMAIN files' = DOMAIN files
          /\ \A f \in DOMAIN files : f # "devicetree" => files'[f] = files[f]
          /\ "devicetree" \in DOMAIN files => files'["devicetree"] = n
      BY <3>1, Saved
    <3> QED
      BY <3>2 DEF IInv, Directory
  <2> QED
    BY <1>1, <2>1, <2>2
<1>3. Command' /\ pc' \in Labels /\ runs' \in 0..MaxRuns
  BY <1>1 DEF IInv, Command, Labels, Stopped
<1>4. Phases' /\ Ended'
  BY <1>1 DEF Phases, Ended
<1> QED
  BY <1>2, <1>3, <1>4 DEF IInv

\* A command interrupted between two files, or no step at all.
LEMMA NothingKeeps ==
  ASSUME IInv, UNCHANGED <<cmd, files, work, runs>>, pc' = pc \/ pc' = "failed"
  PROVE  IInv'
<1>1. cmd' = cmd /\ files' = files /\ work' = work /\ runs' = runs
  OBVIOUS
<1>2. Directory' /\ Command' /\ pc' \in Labels /\ runs' \in 0..MaxRuns
  BY <1>1 DEF IInv, Directory, Command, Labels, Stopped
<1>3. (Ready' <=> Ready) /\ (LaidOut' <=> LaidOut) /\ FromBuildStub' = FromBuildStub
  BY <1>1 DEF Ready, LaidOut, FromBuildStub
<1>4. Phases' /\ Ended'
  BY <1>1, <1>3 DEF IInv, Phases, Ended
<1> QED
  BY <1>2, <1>4 DEF IInv

LEMMA StepKeeps == IInv /\ [Next]_vars => IInv'
<1> SUFFICES ASSUME IInv, [Next]_vars PROVE IInv'
  OBVIOUS
<1>1. CASE BuildAll
  BY <1>1, Started DEF BuildAll
<1>2. CASE BuildImage
  BY <1>2, Started DEF BuildImage
<1>3. CASE FromBuild
  BY <1>3, Started DEF FromBuild
<1>4. CASE Carve \/ Dump \/ Extract \/ LoadMap
  BY <1>4, CarveKeeps, DumpKeeps, ExtractKeeps, LoadMapKeeps
<1>5. CASE LayOut \/ WriteImage \/ WriteStub \/ Drop \/ ReadBuild
  BY <1>5, LayOutKeeps, WriteImageKeeps, WriteStubKeeps, DropKeeps, ReadBuildKeeps
<1>6. CASE Interrupt
  BY <1>6, NothingKeeps DEF Interrupt, Goto
<1>7. CASE CutShort
  BY <1>7, CutShortKeeps
<1>8. CASE UNCHANGED vars
  BY <1>8, NothingKeeps DEF vars
<1> QED
  BY <1>1, <1>2, <1>3, <1>4, <1>5, <1>6, <1>7, <1>8 DEF Next

THEOREM DirectoryInvariant == Spec => []IInv
<1>1. Init => IInv
  BY Initially
<1>2. IInv /\ [Next]_vars => IInv'
  BY StepKeeps
<1> QED
  BY <1>1, <1>2, PTL DEF Spec
-----------------------------------------------------------------------------
(***************************************************************************)
(* What follows.                                                           *)
(***************************************************************************)
\* Every file holds what its writer makes; images start and end on megabytes
\* (build_image's rounding).
THEOREM BuildTypeCorrect == Spec => []TypeOK
<1>1. IInv => TypeOK
  <2> SUFFICES ASSUME IInv PROVE TypeOK
    OBVIOUS
  <2>1. ASSUME files["image"] \notin {Missing, Partial}
        PROVE  LET l == files["image"]
               IN /\ (l.image.dt.at - l.o.phys) % MiB = 0
                  /\ (l.image.ba.at - l.o.phys) % PAGE = 0
                  /\ l.image.total % MiB = 0
    <3>1. PICK k \in Kernels, o \in Options :
            Accepted(k, o) /\ files["image"] = Layout(o, parse(k))
      BY <2>1 DEF IInv, Directory, IsLayout
    <3>2. files["image"].o = o /\ files["image"].image = Image(o, parse(k))
      BY <3>1, LayoutIs
    <3>3. ImageGood(o, parse(k), Image(o, parse(k)))
      BY <3>1, Parsed, ImageLaidOut
    <3> QED
      BY <3>2, <3>3 DEF ImageGood
  <2> QED
    BY <2>1 DEF IInv, Directory, Command, TypeOK
<1> QED
  BY <1>1, DirectoryInvariant, PTL

\* What trampoline adds up from the load map and the serialised tree is where
\* the image has its boot_args.
LEMMA AddedUp ==
  ASSUME IInv, NEW k \in Kernels, NEW o \in Options, Accepted(k, o),
         files["image"] = Layout(o, parse(k)), AddsUp(files["image"])
  PROVE  FromBuildStub.x0 = files["image"].image.ba.at
<1> DEFINE m == parse(k)
           i == Image(o, m)
           dt == align(m.file_size, MiB)
           given == files["devicetree"]
<1>1. m.file_size \in Nat
  BY Parsed
<1>2. ImageGood(o, m, i)
  BY <1>1, ImageLaidOut
<1>3. files["image"].image = i /\ files["image"].m = m /\ files["image"].o = o
  BY LayoutIs
<1> HIDE DEF m, i
<1>4. /\ m = files["loadmap"] /\ o.phys = DefaultPhys /\ given # Missing
      /\ align(i.dt.len, PAGE) = align(given, PAGE)
  BY <1>3 DEF AddsUp
<1>5. given \in Nat
  BY <1>4 DEF IInv, Directory
<1>6. dt \in Nat /\ dt % PAGE = 0
  BY <1>1, Megabytes
<1>7. Bytes(Tree(o)) \in Nat /\ i.dt.len = Bytes(Tree(o))
  BY <1>2, OptionTypes DEF ImageGood
<1>8. /\ i.ba.at = o.phys + align(dt + Bytes(Tree(o)), PAGE)
      /\ FromBuildStub.x0 = DefaultPhys + align(dt + given, PAGE)
  BY <1>2, <1>4 DEF ImageGood, FromBuildStub
<1> HIDE DEF dt, given
<1>9. /\ align(dt + given, PAGE) = dt + align(given, PAGE)
      /\ align(dt + Bytes(Tree(o)), PAGE) = dt + align(Bytes(Tree(o)), PAGE)
  BY <1>5, <1>6, <1>7, PagesAfter
<1> QED
  BY <1>3, <1>4, <1>7, <1>8, <1>9

\* Whatever commands were run before in the directory, an image in it has its
\* parts apart and agreeing on one machine; the stub build_image leaves enters
\* it, and so does the one trampoline adds up.
THEOREM HandsOverCorrect == Spec => []HandsOver
<1>1. IInv => HandsOver
  <2> SUFFICES ASSUME IInv, files["image"] \notin {Missing, Partial}
               PROVE  LET l == files["image"]
                      IN /\ Placed(l) /\ WindowAgrees(l) /\ SameMachine(l)
                         /\ pc = "done" /\ cmd.name = "build_image" /\ cmd.o.tramp =>
                              StubAgrees(l, files["stub"])
                         /\ pc = "done" /\ cmd.name = "from_build" /\ AddsUp(l) =>
                              files["stub"].x0 = l.image.ba.at
    BY Zenon DEF HandsOver
  <2>1. PICK k \in Kernels, o \in Options :
          Accepted(k, o) /\ files["image"] = Layout(o, parse(k))
    BY DEF IInv, Directory, IsLayout
  <2>2. Placed(files["image"]) /\ WindowAgrees(files["image"]) /\ SameMachine(files["image"])
    BY <2>1, LayoutPlaced, LayoutWindow, LayoutMachine
  <2>3. ASSUME pc = "done", cmd.name = "build_image", cmd.o.tramp
        PROVE  StubAgrees(files["image"], files["stub"])
    <3>1. Ready /\ LaidOut /\ files["image"] = work /\ files["stub"] = Stub(work)
      BY <2>3 DEF IInv, Ended
    <3>2. cmd.kern \in Kernels /\ cmd.o \in Options
      BY <3>1, WorkIsLayout DEF IInv
    <3> QED
      BY <3>1, <3>2, LayoutStub DEF LaidOut
  <2>4. ASSUME pc = "done", cmd.name = "from_build", AddsUp(files["image"])
        PROVE  files["stub"].x0 = files["image"].image.ba.at
    <3>1. files["stub"] = FromBuildStub
      BY <2>4 DEF IInv, Ended
    <3> QED
      BY <2>1, <2>4, <3>1, AddedUp
  <2> QED
    BY <2>2, <2>3, <2>4
<1> QED
  BY <1>1, DirectoryInvariant, PTL

\* build_all, once done, has built one kernel throughout, of the package it was
\* given, whatever listing and files were there before; and the one it was asked
\* for, unless an offset another listing has finds a second kernel there.
THEOREM CoherentCorrect == Spec => []Coherent
<1>1. IInv => Coherent
  <2> SUFFICES ASSUME IInv, pc = "done", cmd.name = "build_all"
               PROVE  /\ files["kernel"] \in Range(cmd.pkg.holds)
                      /\ Unmistakable(cmd.pkg) => files["kernel"] = cmd.pkg.holds[cmd.pkg.at]
                      /\ files["loadmap"] = parse(files["kernel"])
                      /\ files["image"].m = files["loadmap"] /\ files["image"].o = cmd.o
    BY DEF Coherent
  <2>1. Ready /\ LaidOut /\ files["image"] = work
    BY DEF IInv, Ended
  <2>2. work.m = parse(cmd.kern) /\ work.o = cmd.o
    BY <2>1, LayoutIs DEF LaidOut
  <2> QED
    BY <2>1, <2>2 DEF Ready, FromPackage
<1> QED
  BY <1>1, DirectoryInvariant, PTL
-----------------------------------------------------------------------------
(***************************************************************************)
(* What the kernel follows through the tree.                               *)
(***************************************************************************)
\* Which nodes are cores, and which have a handle.
\* What makes a node one that can be referred to, and one that is a core.
HasHandle(f) == "AAPL,phandle" \in DOMAIN f
IsCore(f) == "reg-private" \in DOMAIN f

LEMMA MarksOfNodes ==
  /\ ~IsCore(Root) /\ ~IsCore(Defaults) /\ ~IsCore(Util) /\ ~IsCore(ArmIo) /\ ~IsCore(Gic)
  /\ ~IsCore(Uart) /\ ~IsCore(Pcie)
  /\ ~HasHandle(Root) /\ ~HasHandle(Defaults) /\ ~HasHandle(ArmIo)
  /\ HasHandle(Util) /\ HasHandle(Gic) /\ HasHandle(Uart) /\ HasHandle(Pcie)
<1>1. ~IsCore(Root) /\ ~HasHandle(Root)
  BY RootNode DEF IsCore, HasHandle
<1>2. ~IsCore(Defaults) /\ ~HasHandle(Defaults)
  BY DefaultsNode DEF IsCore, HasHandle
<1>3. ~IsCore(Util) /\ HasHandle(Util)
  BY UtilNode DEF IsCore, HasHandle
<1>4. ~IsCore(ArmIo) /\ ~HasHandle(ArmIo)
  BY ArmIoNode DEF IsCore, HasHandle
<1>5. ~IsCore(Gic) /\ HasHandle(Gic)
  BY GicNode DEF IsCore, HasHandle
<1>6. ~IsCore(Uart) /\ HasHandle(Uart)
  BY UartNode DEF IsCore, HasHandle
<1>7. ~IsCore(Pcie) /\ HasHandle(Pcie)
  BY PcieNode DEF IsCore, HasHandle
<1> QED
  BY <1>1, <1>2, <1>3, <1>4, <1>5, <1>6, <1>7

LEMMA CoresAreMarked ==
  ASSUME NEW i
  PROVE  IsCore(Cpu(i)) /\ ~HasHandle(Cpu(i))
<1>1. DOMAIN Cpu(i) = {"reg", "state", "timebase-frequency", "reg-private", "interrupt-parent"}
  BY CpuNode
<1> QED
  BY <1>1 DEF IsCore, HasHandle

LEMMA DisplayUnmarked ==
  ASSUME NEW fb
  PROVE  ~IsCore(Framebuffer(fb)) /\ ~HasHandle(Framebuffer(fb))
<1>1. DOMAIN Framebuffer(fb) = {"address", "width", "height", "depth", "stride"}
  BY DisplayNode
<1> QED
  BY <1>1 DEF IsCore, HasHandle

LEMMA MarkedNodes ==
  ASSUME NEW o \in Options, NEW t, IsTree(t, o)
  PROVE  /\ \A n : n \in Cpus(t) <=> \E i \in 0..(o.ncpus - 1) : n = CpuName(i)
         /\ \A n \in Phandles(t) : n \in {"chosen", "util", "gic", "uart0", "pcie"}
<1>1. /\ ~IsCore(t["/"]) /\ ~IsCore(t["defaults"]) /\ ~IsCore(t["util"]) /\ ~IsCore(t["arm-io"])
      /\ ~IsCore(t["gic"]) /\ ~IsCore(t["uart0"]) /\ ~IsCore(t["pcie"])
      /\ ~HasHandle(t["/"]) /\ ~HasHandle(t["defaults"]) /\ ~HasHandle(t["arm-io"])
  BY MarksOfNodes DEF IsTree, NodesOf
<1>2. ~IsCore(t["chosen"])
  BY ChosenNode DEF IsTree, NodesOf, IsCore
<1>3. ~IsCore(t["memory-map"]) /\ ~HasHandle(t["memory-map"])
  BY DEF IsTree, PlainMap, IsCore, HasHandle
<1>4. ~IsCore(t["memory"]) /\ ~HasHandle(t["memory"])
  <2>1. "reg-private" # "reg" /\ "AAPL,phandle" # "reg"
    OBVIOUS
  <2>2. t["memory"] = One("reg", Reg(Machine(o).ram_base, Machine(o).ram_size))
    BY DEF IsTree, NodesOf, Memory
  <2> QED
    BY <2>1, <2>2, OtherName DEF IsCore, HasHandle
<1>5. o.fb.w > 0 => ~IsCore(t["framebuffer"]) /\ ~HasHandle(t["framebuffer"])
  BY DisplayUnmarked DEF IsTree
<1>6. ASSUME NEW i \in 0..(o.ncpus - 1)
      PROVE  CpuName(i) \in DOMAIN t /\ IsCore(t[CpuName(i)]) /\ ~HasHandle(t[CpuName(i)])
  <2>1. t[CpuName(i)] = Cpu(i) /\ CpuName(i) \in DOMAIN t
    BY MachineOf DEF IsTree, NodesOf, Cores
  <2> QED
    BY <2>1, CoresAreMarked
<1>7. ASSUME NEW n \in DOMAIN t
      PROVE  \/ n \in FixedNodes
             \/ o.fb.w > 0 /\ n = "framebuffer"
             \/ \E i \in 0..(o.ncpus - 1) : n = CpuName(i)
  BY MachineOf DEF IsTree, Cores
<1>8. ASSUME NEW n \in FixedNodes
      PROVE  /\ ~IsCore(t[n])
             /\ HasHandle(t[n]) => n \in {"chosen", "util", "gic", "uart0", "pcie"}
  <2>1. \/ n = "/" \/ n = "chosen" \/ n = "memory-map" \/ n = "defaults" \/ n = "util"
        \/ n = "memory" \/ n = "arm-io" \/ n = "gic" \/ n = "uart0" \/ n = "pcie"
    BY DEF FixedNodes
  <2> QED
    BY <1>1, <1>2, <1>3, <1>4, <2>1
<1>9. \A n : n \in Cpus(t) <=> \E i \in 0..(o.ncpus - 1) : n = CpuName(i)
  <2>1. \A n : n \in Cpus(t) <=> n \in DOMAIN t /\ IsCore(t[n])
    BY DEF Cpus, IsCore
  <2>2. \A n \in DOMAIN t : IsCore(t[n]) => \E i \in 0..(o.ncpus - 1) : n = CpuName(i)
    BY <1>5, <1>7, <1>8
  <2> QED
    BY <1>6, <2>1, <2>2
<1>10. \A n \in Phandles(t) : n \in {"chosen", "util", "gic", "uart0", "pcie"}
  <2>1. \A n \in Phandles(t) : n \in DOMAIN t /\ HasHandle(t[n])
    BY DEF Phandles, HasHandle
  <2> QED
    BY <1>5, <1>6, <1>7, <1>8, <2>1
<1> QED
  BY <1>9, <1>10

\* The handles of the devices, and of /chosen, if Apple's has one.
Handle(t, n) == t[n]["AAPL,phandle"].v

LEMMA Handles ==
  ASSUME NEW o \in Options, NEW t, IsTree(t, o)
  PROVE  /\ {"util", "gic", "uart0", "pcie"} \subseteq Phandles(t)
         /\ Handle(t, "util") = <<UTIL_PHANDLE>> /\ Handle(t, "gic") = <<GIC_PHANDLE>>
         /\ Handle(t, "uart0") = <<UART_PHANDLE>> /\ Handle(t, "pcie") = <<PCIE_PHANDLE>>
         /\ "chosen" \in Phandles(t) => Handle(t, "chosen") \notin {<<UART_PHANDLE>>, <<GIC_PHANDLE>>}
<1>1. /\ t["util"] = Util /\ t["gic"] = Gic /\ t["uart0"] = Uart /\ t["pcie"] = Pcie
      /\ t["chosen"] = Chosen(Machine(o))
  BY DEF IsTree, NodesOf
<1>2. {"util", "gic", "uart0", "pcie"} \subseteq DOMAIN t
  BY DEF IsTree, FixedNodes
<1>3. \A x : U32(x).v = <<x>>
  BY DEF U32
<1>4. {"util", "gic", "uart0", "pcie"} \subseteq Phandles(t)
  BY <1>1, <1>2, UtilNode, GicNode, UartNode, PcieNode DEF Phandles
<1>5. /\ Handle(t, "util") = <<UTIL_PHANDLE>> /\ Handle(t, "gic") = <<GIC_PHANDLE>>
      /\ Handle(t, "uart0") = <<UART_PHANDLE>> /\ Handle(t, "pcie") = <<PCIE_PHANDLE>>
  BY <1>1, <1>3, UtilNode, GicNode, UartNode, PcieNode DEF Handle
<1>6. "chosen" \in Phandles(t) => Handle(t, "chosen") \notin {<<UART_PHANDLE>>, <<GIC_PHANDLE>>}
  <2>1. SUFFICES ASSUME "chosen" \in Phandles(t)
                 PROVE  Handle(t, "chosen") \notin {<<UART_PHANDLE>>, <<GIC_PHANDLE>>}
    OBVIOUS
  <2>2. "AAPL,phandle" \in DOMAIN Chosen(Machine(o))
    BY <1>1, <2>1 DEF Phandles
  <2>3. /\ "AAPL,phandle" \in DOMAIN AppleChosen
        /\ Handle(t, "chosen") = AppleChosen["AAPL,phandle"].v
    BY <1>1, <2>2, ChosenNode DEF Handle
  <2> QED
    BY <2>3, ChosenAssumption
<1> QED
  BY <1>4, <1>5, <1>6

\* Every handle that is referred to is that of the UART or of the interrupt
\* controller.
LEMMA TreeRefers ==
  ASSUME NEW o \in Options, NEW t, IsTree(t, o)
  PROVE  \A ref \in References(t) : Names1(t, ref)
<1>1. ASSUME NEW n, NEW ref, n \in {"gic", "uart0"}, Handle(t, n) = ref,
             ref \in {<<UART_PHANDLE>>, <<GIC_PHANDLE>>}
      PROVE  Names1(t, ref)
  <2>1. n \in Phandles(t)
    BY <1>1, Handles
  <2>2. ASSUME NEW k \in Phandles(t), Handle(t, k) = ref PROVE k = n
    <3>1. k \in {"chosen", "util", "gic", "uart0", "pcie"}
      BY MarkedNodes
    <3>2. /\ <<UTIL_PHANDLE>> \notin {<<UART_PHANDLE>>, <<GIC_PHANDLE>>}
          /\ <<PCIE_PHANDLE>> \notin {<<UART_PHANDLE>>, <<GIC_PHANDLE>>}
          /\ <<UART_PHANDLE>> # <<GIC_PHANDLE>>
      BY DEF UTIL_PHANDLE, PCIE_PHANDLE, UART_PHANDLE, GIC_PHANDLE
    <3>3. k \notin {"chosen", "util", "pcie"}
      BY <1>1, <2>2, <3>2, Handles
    <3> QED
      BY <1>1, <2>2, <3>1, <3>2, <3>3, Handles
  <2> QED
    BY <1>1, <2>1, <2>2 DEF Names1, Handle
<1>2. \A x : U32(x).v = <<x>>
  BY DEF U32
<1>3. \A ref \in References(t) : ref = <<UART_PHANDLE>> \/ ref = <<GIC_PHANDLE>>
  <2>1. /\ t["defaults"]["serial-device"].v = <<UART_PHANDLE>>
        /\ t["pcie"]["device-interrupt-parent"].v = <<GIC_PHANDLE>>
    BY <1>2, DefaultsNode, PcieNode DEF IsTree, NodesOf
  <2>2. ASSUME NEW n \in Cpus(t) PROVE t[n]["interrupt-parent"].v = <<GIC_PHANDLE>>
    <3>1. PICK i \in 0..(o.ncpus - 1) : n = CpuName(i)
      BY MarkedNodes
    <3>2. t[CpuName(i)] = Cpu(i)
      BY MachineOf DEF IsTree, NodesOf
    <3> QED
      BY <1>2, <3>1, <3>2, CpuNode
  <2> QED
    BY <2>1, <2>2 DEF References
<1> QED
  BY <1>1, <1>3, Handles

LEMMA InterruptRegisters ==
  Gic["reg"].len = 48 /\ Gic["reg"].v = <<0, 65536, 655360, 16121856, 131072, 4096>>
<1>1. Gic["reg"] = Cells(8, <<gic_dist - soc_base, 64 * KiB, gic_redist - soc_base,
                             gic_redist_size, gic_msi_frame - soc_base, 4 * KiB>>)
  BY GicNode, Zenon
<1>2. /\ gic_dist - soc_base = 0 /\ 64 * KiB = 65536 /\ gic_redist - soc_base = 655360
      /\ gic_redist_size = 16121856 /\ gic_msi_frame - soc_base = 131072 /\ 4 * KiB = 4096
  BY DEF gic_dist, gic_redist, gic_msi_frame, gic_redist_size, soc_base, MiB, KiB
<1>3. Gic["reg"] = Cells(8, <<0, 65536, 655360, 16121856, 131072, 4096>>)
  BY <1>1, <1>2
<1> QED
  BY <1>3 DEF Cells

\* The registers of the devices: five ranges, apart, in the window of arm-io.
LEMMA TreeRegisters ==
  ASSUME NEW o \in Options, NEW t, IsTree(t, o)
  PROVE  /\ AllApart(Registers(t))
         /\ \A r \in Registers(t) : Inside(r, [at |-> 0, len |-> t["arm-io"]["ranges"].v[3]])
         /\ (t["pcie"]["msi-frame-index"].v[1] + 1) * 16 <= t["gic"]["reg"].len
<1> DEFINE g == Gic["reg"]
           u == Uart["reg"]
           p == Pcie["reg"]
           dist == [at |-> 0, len |-> 65536]
           redist == [at |-> 655360, len |-> 16121856]
           msi == [at |-> 131072, len |-> 4096]
           uart == [at |-> 16777216, len |-> 4096]
           ecam == [at |-> 922746880, len |-> 16777216]
<1>1. g.len = 48 /\ g.v = <<0, 65536, 655360, 16121856, 131072, 4096>>
  BY InterruptRegisters
<1>2. u.len = 16 /\ u.v = <<16777216, 4096>>
  <2>1. u = Reg(uart_base - soc_base, 4 * KiB)
    BY UartNode, Zenon
  <2> HIDE DEF u
  <2> QED
    BY <2>1 DEF Reg, Cells, uart_base, soc_base, MiB, KiB
<1>3. p.len = 16 /\ p.v = <<922746880, 16777216>>
  <2>1. p = Reg(PCIE_ECAM_BASE - soc_base, PCIE_ECAM_SIZE)
    BY PcieNode, Zenon
  <2> HIDE DEF p
  <2> QED
    BY <2>1 DEF Reg, Cells, PCIE_ECAM_BASE, PCIE_ECAM_SIZE, soc_base, MiB, KiB
<1>4. t["gic"]["reg"] = g /\ t["uart0"]["reg"] = u /\ t["pcie"]["reg"] = p
  BY DEF IsTree, NodesOf
<1>5. t["arm-io"]["ranges"].v[3] = 939524096
  BY ArmIoNode DEF IsTree, NodesOf, Cells, soc_base, soc_size, MiB, KiB
<1>6. t["pcie"]["msi-frame-index"].v[1] = 2
  <2>1. t["pcie"]["msi-frame-index"] = U32(2)
    <3>1. Pcie["msi-frame-index"] = U32(2)
      BY PcieNode, Zenon
    <3> QED
      BY <3>1 DEF IsTree, NodesOf
  <2> QED
    BY <2>1 DEF U32
<1> HIDE DEF g, u, p
<1>7. \A r \in Ranges(g) : r = dist \/ r = redist \/ r = msi
  <2>1. 1..(g.len \div 16) = {1, 2, 3}
    BY <1>1
  <2>2. /\ g.v[2 * 1 - 1] = 0 /\ g.v[2 * 1] = 65536 /\ g.v[2 * 2 - 1] = 655360
        /\ g.v[2 * 2] = 16121856 /\ g.v[2 * 3 - 1] = 131072 /\ g.v[2 * 3] = 4096
    BY <1>1
  <2> QED
    BY <2>1, <2>2 DEF Ranges
<1>8. \A r \in Ranges(u) : r = uart
  <2>1. 1..(u.len \div 16) = {1}
    BY <1>2
  <2>2. u.v[2 * 1 - 1] = 16777216 /\ u.v[2 * 1] = 4096
    BY <1>2
  <2> QED
    BY <2>1, <2>2 DEF Ranges
<1>9. \A r \in Ranges(p) : r = ecam
  <2>1. 1..(p.len \div 16) = {1}
    BY <1>3
  <2>2. p.v[2 * 1 - 1] = 922746880 /\ p.v[2 * 1] = 16777216
    BY <1>3
  <2> QED
    BY <2>1, <2>2 DEF Ranges
<1>10. \A r \in Registers(t) : r = dist \/ r = redist \/ r = msi \/ r = uart \/ r = ecam
  BY <1>4, <1>7, <1>8, <1>9 DEF Registers
<1>11. AllApart(Registers(t))
  <2> SUFFICES ASSUME NEW r \in Registers(t), NEW s \in Registers(t), r # s PROVE Apart(r, s)
    BY DEF AllApart
  <2>1. /\ r = dist \/ r = redist \/ r = msi \/ r = uart \/ r = ecam
        /\ s = dist \/ s = redist \/ s = msi \/ s = uart \/ s = ecam
    BY <1>10
  <2> QED
    BY <2>1 DEF Apart, End
<1>12. \A r \in Registers(t) : Inside(r, [at |-> 0, len |-> 939524096])
  BY <1>10 DEF Inside, End
<1> QED
  BY <1>1, <1>4, <1>5, <1>6, <1>11, <1>12

\* As many cores as the redistributor region has frames for.
MaxCores == 123

LEMMA TreeFrames ==
  ASSUME NEW o \in Options, NEW t, IsTree(t, o), o.ncpus <= MaxCores
  PROVE  /\ AllApart(Frames(t))
         /\ \A f \in Frames(t) : Inside(f, Redistributor(t))
<1>1. o.ncpus \in Nat
  BY OptionTypes
<1>2. ASSUME NEW f \in Frames(t)
      PROVE  \E i \in 0..(o.ncpus - 1) :
               f = [of |-> CpuName(i), at |-> 134873088 + (i * 131072), len |-> 131072]
  <2>1. PICK n \in Cpus(t) : f = [of |-> n, at |-> t[n]["reg-private"].v[1],
                                  len |-> t[n]["reg-private"].v[2]]
    BY <1>2 DEF Frames
  <2>2. PICK i \in 0..(o.ncpus - 1) : n = CpuName(i)
    BY MarkedNodes
  <2>3. t[n] = Cpu(i)
    BY <2>2, MachineOf DEF IsTree, NodesOf
  <2>4. t[n]["reg-private"] = Reg(gic_redist + (i * GICR_STRIDE), GICR_STRIDE)
    <3>1. Cpu(i)["reg-private"] = Reg(gic_redist + (i * GICR_STRIDE), GICR_STRIDE)
      BY CpuNode, Zenon
    <3> QED
      BY <2>3, <3>1
  <2>5. /\ Reg(gic_redist + (i * GICR_STRIDE), GICR_STRIDE).v[1] = 134873088 + (i * 131072)
        /\ Reg(gic_redist + (i * GICR_STRIDE), GICR_STRIDE).v[2] = 131072
    BY DEF Reg, Cells, gic_redist, gic_dist, GICR_STRIDE, MiB, KiB
  <2> QED
    BY <2>1, <2>2, <2>4, <2>5
<1>3. /\ Redistributor(t).at = 134873088 /\ Redistributor(t).len = 16121856
  <2>1. /\ Gic["reg"].v[3] = 655360 /\ Gic["reg"].v[4] = 16121856
    BY InterruptRegisters
  <2> QED
    BY <2>1 DEF IsTree, NodesOf, Redistributor, soc_base, MiB, KiB
<1>4. \A f \in Frames(t) : Inside(f, Redistributor(t))
  <2> SUFFICES ASSUME NEW f \in Frames(t) PROVE Inside(f, Redistributor(t))
    OBVIOUS
  <2>1. PICK i \in 0..(o.ncpus - 1) :
          f = [of |-> CpuName(i), at |-> 134873088 + (i * 131072), len |-> 131072]
    BY <1>2
  <2>2. i \in Int /\ 0 <= i /\ i <= 122
    BY <1>1 DEF MaxCores
  <2>3. f.at = 134873088 + (i * 131072) /\ f.len = 131072
    BY <2>1
  <2> QED
    BY <1>3, <2>2, <2>3 DEF Inside, End
<1>5. AllApart(Frames(t))
  <2> SUFFICES ASSUME NEW r \in Frames(t), NEW s \in Frames(t), r # s PROVE Apart(r, s)
    BY DEF AllApart
  <2>1. PICK i \in 0..(o.ncpus - 1) :
          r = [of |-> CpuName(i), at |-> 134873088 + (i * 131072), len |-> 131072]
    BY <1>2
  <2>2. PICK j \in 0..(o.ncpus - 1) :
          s = [of |-> CpuName(j), at |-> 134873088 + (j * 131072), len |-> 131072]
    BY <1>2
  <2>3. i # j /\ i \in Int /\ j \in Int
    BY <1>1, <2>1, <2>2
  <2>4. /\ r.at = 134873088 + (i * 131072) /\ r.len = 131072
        /\ s.at = 134873088 + (j * 131072) /\ s.len = 131072
    BY <2>1, <2>2
  <2> QED
    BY <2>3, <2>4 DEF Apart, End
<1> QED
  BY <1>4, <1>5

\* The event stream: a counter at 62.5 MHz has a bit that turns about once a
\* microsecond.
LEMMA EventStream == EventBit(62) \in Nat /\ EventBit(62) < 64
<1> DEFINE low == FloorLog2(62)
<1>1. 2^5 = 32 /\ 2^(5 + 1) = 64
  OBVIOUS
<1>2. low \in 0..30
  <2>1. \E k \in 0..30 : 2^k <= 62 /\ 62 < 2^(k + 1)
    BY <1>1
  <2> QED
    BY <2>1 DEF FloorLog2
<1> HIDE DEF low
<1>3. EventBit(62) = LET up == IF 62 % 2^low # 0 THEN low + 1 ELSE low
                     IN IF up # 0 THEN up - 1 ELSE 0
  BY DEF EventBit, low
<1> QED
  BY <1>2, <1>3

LEMMA TreeTimebase ==
  ASSUME NEW o \in Options, NEW t, IsTree(t, o), o.ncpus > 0
  PROVE  check_timebase(t)
<1>1. "arm-io" \in DOMAIN t
  BY DEF IsTree, FixedNodes
<1>2. t["arm-io"] = ArmIo /\ t["chosen"] = Chosen(Machine(o))
  BY DEF IsTree, NodesOf
<1>3. /\ "device_type" \in DOMAIN ArmIo
      /\ ArmIo["ranges"].len >= 24 /\ ArmIo["ranges"].v[2] # 0
  BY ArmIoNode DEF Cells, soc_base, soc_size, MiB, KiB
<1>4. /\ Chosen(Machine(o))["random-seed"].len = RANDOM_SEED_BYTES
      /\ Chosen(Machine(o))["random-seed"].v # <<0>>
  <2>1. Chosen(Machine(o))["random-seed"] = [len |-> RANDOM_SEED_BYTES, v |-> <<1>>]
    BY ChosenNode
  <2> QED
    BY <2>1
<1>5. \A n : n \in Running(t) <=> n \in Cpus(t) /\ t[n]["state"].v = <<"running">>
  BY DEF Running
<1>6. Running(t) # {}
  <2>1. o.ncpus \in Nat /\ 0 \in 0..(o.ncpus - 1)
    BY OptionTypes
  <2>2. CpuName(0) \in Cpus(t) /\ t[CpuName(0)] = Cpu(0)
    BY <2>1, MarkedNodes, MachineOf DEF IsTree, NodesOf
  <2>3. Cpu(0)["state"].v = <<"running">>
    <3>1. Cpu(0)["state"] = [len |-> 8, v |-> <<IF 0 = 0 THEN "running" ELSE "waiting">>]
      BY CpuNode
    <3> QED
      BY <3>1
  <2> QED
    BY <1>5, <2>2, <2>3
<1>7. \A n \in Running(t) : t[n]["timebase-frequency"].v[1] \div 1000000 = 62
  <2> SUFFICES ASSUME NEW n \in Running(t)
               PROVE  t[n]["timebase-frequency"].v[1] \div 1000000 = 62
    OBVIOUS
  <2>1. PICK i \in 0..(o.ncpus - 1) : n = CpuName(i)
    BY <1>5, MarkedNodes
  <2>2. t[n] = Cpu(i)
    BY <2>1, MachineOf DEF IsTree, NodesOf
  <2>3. t[n]["timebase-frequency"].v[1] = 62500000
    <3>1. Cpu(i)["timebase-frequency"] = U32(timebase_hz)
      BY CpuNode, Zenon
    <3> QED
      BY <2>2, <3>1 DEF U32, timebase_hz
  <2> QED
    BY <2>3
<1> QED
  BY <1>1, <1>2, <1>3, <1>4, <1>6, <1>7, EventStream DEF check_timebase

\* The image in the directory, if there is one, was built for a number of cores
\* the machine has redistributor frames for; build_image itself never asks.
CoresFit == files["image"] \notin {Missing, Partial} => files["image"].o.ncpus \in 1..MaxCores

\* Whatever the options, up to the cores there are frames for, the tree of an
\* image is one a kernel can follow: handles, registers, frames and timebase.
THEOREM TreeHoldsCorrect == Spec => [](CoresFit => TreeHolds)
<1>1. IInv => (CoresFit => TreeHolds)
  <2> DEFINE t == files["image"].tree
  <2> SUFFICES ASSUME IInv, CoresFit, files["image"] \notin {Missing, Partial}
               PROVE  /\ \A ref \in References(t) : Names1(t, ref)
                      /\ AllApart(Registers(t)) /\ AllApart(Frames(t))
                      /\ \A r \in Registers(t) :
                           Inside(r, [at |-> 0, len |-> t["arm-io"]["ranges"].v[3]])
                      /\ \A f \in Frames(t) : Inside(f, Redistributor(t))
                      /\ (t["pcie"]["msi-frame-index"].v[1] + 1) * 16 <= t["gic"]["reg"].len
                      /\ check_timebase(t)
    BY Zenon DEF TreeHolds
  <2>1. PICK k \in Kernels, o \in Options :
          Accepted(k, o) /\ files["image"] = Layout(o, parse(k))
    BY DEF IInv, Directory, IsLayout
  <2>2. t = Filled(o, Image(o, parse(k))) /\ files["image"].o = o
    BY <2>1, LayoutIs
  <2>3. IsTree(t, o)
    BY <2>2, FilledIs
  <2>4. o.ncpus \in Nat /\ o.ncpus > 0 /\ o.ncpus <= MaxCores
    BY <2>2 DEF CoresFit, MaxCores
  <2> HIDE DEF t
  <2>5. \A ref \in References(t) : Names1(t, ref)
    BY <2>3, TreeRefers
  <2>6. /\ AllApart(Registers(t))
        /\ \A r \in Registers(t) : Inside(r, [at |-> 0, len |-> t["arm-io"]["ranges"].v[3]])
        /\ (t["pcie"]["msi-frame-index"].v[1] + 1) * 16 <= t["gic"]["reg"].len
    BY <2>3, TreeRegisters
  <2>7. AllApart(Frames(t)) /\ \A f \in Frames(t) : Inside(f, Redistributor(t))
    BY <2>3, <2>4, TreeFrames
  <2>8. check_timebase(t)
    BY <2>3, <2>4, TreeTimebase
  <2> QED
    BY <2>5, <2>6, <2>7, <2>8
<1> QED
  BY <1>1, DirectoryInvariant, PTL
=============================================================================
