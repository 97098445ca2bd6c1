----------------------------- MODULE BuildImage -----------------------------
(***************************************************************************)
(* ibootcore/build_image.py, with the commands around it: build_all.py     *)
(* runs it on a package and leaves its pieces in a directory, and          *)
(* trampoline.py --from-build reads them back.  A command is a sequence of *)
(* steps that write files; it may fail, or be interrupted, at any of them, *)
(* and the files stay for the next command.                                *)
(***************************************************************************)
EXTENDS DeviceTree

CONSTANTS Packages,    \* [at, holds]: where its listing has the kernel asked for, and
                       \* the kernel that can be extracted at an offset of it
          Options,     \* the command lines of build_image
          ByHand,      \* the kernels build_image is run on directly
          DefaultPhys, \* --phys-base, which trampoline --from-build assumes
          BarSpan,     \* 2^32: a BAR is loaded from a 32-bit register
          Cuts,        \* the lengths a write of the device tree may be cut short at
          MaxRuns,     \* bound: commands run in the directory
          Missing,     \* no such file
          Partial      \* a file opened for writing, and not written to its end

ASSUME BuildAssumption == /\ DefaultPhys \in Nat /\ MaxRuns \in Nat /\ BarSpan \in Nat \ {0}
                          /\ Missing # Partial /\ Cuts \subseteq Nat

\* A package has a kernel where its own listing says.
ASSUME PackagesAssumption ==
  \A p \in Packages : p.at \in DOMAIN p.holds /\ DOMAIN p.holds \cap {Missing, Partial} = {}

\* What argparse makes of a command line, zero for an option that was not given.
ASSUME OptionsAssumption ==
  \A o \in Options :
    /\ \A n \in {o.phys, o.ram, o.mem, o.ncpus, o.tc, o.tc_at, o.rd, o.reserve, o.root_hash,
                 o.os_environment, o.cmdline, o.tramp_at, o.mmio, o.fb.at, o.fb.w, o.fb.h} : n \in Nat
    /\ {o.tramp, o.fb_init, o.logo} \subseteq BOOLEAN

\* What loadmap.parse reads of a kernel is a sequence of commands, their fields
\* unsigned.
ASSUME KernelsAssumption ==
  \A k \in ByHand \cup UNION {Range(p.holds) : p \in Packages} :
    /\ k.len \in Nat
    /\ k.cmds \in Seq(Range(k.cmds))
    /\ \A c \in Range(k.cmds) : /\ c.cmd = "segment" => c.vmaddr \in Nat /\ c.vmsize \in Nat
                                /\ c.cmd = "thread" => c.pc \in Nat

VARIABLES pc,      \* the next step of the running command, or how it ended
          cmd,     \* the running command: [name, pkg, kern, o]
          files,   \* the directory: what each file holds
          work,    \* the layout build_image has computed
          runs     \* bound: commands started

vars == <<pc, cmd, files, work, runs>>

NoEntry == -1            \* entry is None
SIZEOF_BOOT_ARGS == 1152
PAGE == 4 * KiB

align(n, a) == ((n + a - 1) \div a) * a
-----------------------------------------------------------------------------
(* loadmap.parse: the load commands up to one of size zero *)

Seen(k) == {i \in DOMAIN k.cmds : \A j \in 1..i : k.cmds[j].size > 0}
Segments(k) == {c \in {k.cmds[i] : i \in Seen(k)} : c.cmd = "segment" /\ c.vmsize > 0}
VmLow(k) == Min({s.vmaddr : s \in Segments(k)})
VmHigh(k) == Max({s.vmaddr + s.vmsize : s \in Segments(k)})
Entry(k) == LET threads == {i \in Seen(k) : k.cmds[i].cmd = "thread"}
            IN IF threads = {} THEN NoEntry ELSE k.cmds[Max(threads)].pc

parse(k) == [file_size |-> k.len, vm_low |-> VmLow(k), vm_span |-> VmHigh(k) - VmLow(k),
             entry |-> Entry(k)]
-----------------------------------------------------------------------------
(* build_image: where everything goes *)

RamBase(o) == IF o.ram = 0 THEN o.phys ELSE o.ram

Tree(o) ==
  LET base == minimal_vmapple_tree(
                [ram_base |-> RamBase(o), ram_size |-> o.mem, ncpus |-> o.ncpus,
                 trustcache |-> o.tc > 0, ramdisk |-> o.rd > 0,
                 root_hash |-> o.root_hash, os_environment |-> o.os_environment])
  IN IF o.fb.w > 0 THEN Join(base, One("framebuffer", Framebuffer(o.fb))) ELSE base

\* The length of a tree is a sum of lengths; each core has a name of its own.
ASSUME TreesAssumption ==
  \A o \in Options :
    /\ Bytes(Tree(o)) \in Nat /\ Bytes(Tree([o EXCEPT !.fb.w = 0])) \in Nat
    /\ \A i \in 0..(o.ncpus - 1) :
         /\ CpuName(i) \notin {"/", "chosen", "memory-map", "defaults", "util", "memory", "arm-io",
                               "gic", "uart0", "pcie", "framebuffer"}
         /\ \A j \in 0..(o.ncpus - 1) : CpuName(i) = CpuName(j) => i = j

\* Fill in an entry of chosen/memory-map.
Announce(tree, key, base, size) ==
  [tree EXCEPT !["memory-map"] = Join(One(key, Reg(base, size)), @)]

\* What needs no room is at address zero with length zero.
Nowhere == [at |-> 0, len |-> 0]

\* (mutant) the tree is put right behind the kernel
ImageTight(o, m) ==
  LET dt == m.file_size
      len == Bytes(Tree(o))
      ba == align(dt + len, PAGE)
  IN [kernel |-> [at |-> o.phys, len |-> m.file_size],
      dt |-> [at |-> o.phys + dt, len |-> len],
      ba |-> [at |-> o.phys + ba, len |-> SIZEOF_BOOT_ARGS],
      total |-> align(ba + SIZEOF_BOOT_ARGS, MiB)]

\* The image: kernel, device tree, boot_args.  It is rounded up to a megabyte.
Image(o, m) ==
  LET dt == align(m.file_size, MiB)
      len == Bytes(Tree(o))
      ba == align(dt + len, PAGE)
  IN [kernel |-> [at |-> o.phys, len |-> m.file_size],
      dt |-> [at |-> o.phys + dt, len |-> len],
      ba |-> [at |-> o.phys + ba, len |-> SIZEOF_BOOT_ARGS],
      total |-> align(ba + SIZEOF_BOOT_ARGS, MiB)]

TrustCache(o) == IF o.tc = 0 THEN Nowhere ELSE [at |-> o.tc_at, len |-> o.tc]
TrustCacheFits(o) == o.tc > 0 => RamBase(o) <= o.tc_at /\ o.tc_at + o.tc <= o.phys

Ramdisk(o, i) == IF o.rd = 0 THEN Nowhere
                 ELSE [at |-> align(o.phys + i.total, MiB), len |-> o.rd]
AfterRamdisk(o, i) ==
  IF o.rd = 0 THEN o.phys + i.total ELSE align(Ramdisk(o, i).at + o.rd, MiB)

Scratch(o, i) == IF o.reserve = 0 THEN Nowhere
                 ELSE [at |-> AfterRamdisk(o, i), len |-> o.reserve]

\* (mutant) the ramdisk is not counted
TopPastImage(o, i) ==
  IF o.reserve = 0 THEN o.phys + i.total ELSE align(o.phys + i.total + o.reserve, MiB)

Top(o, i) ==
  IF o.reserve = 0 THEN AfterRamdisk(o, i) ELSE align(AfterRamdisk(o, i) + o.reserve, MiB)

Filled(o, i) ==
  LET t0 == Announce(Announce(Tree(o), "DeviceTree", i.dt.at, i.dt.len),
                     "BootArgs", i.ba.at, i.ba.len)
      t1 == IF o.tc = 0 THEN t0 ELSE Announce(t0, "TrustCache", o.tc_at, o.tc)
  IN IF o.rd = 0 THEN t1 ELSE Announce(t1, "RAMDisk", Ramdisk(o, i).at, o.rd)

\* bootargs.build.  The window starts at the base of RAM, and deviceTreeP is
\* virtual.
Video(o) == IF o.fb.w = 0 THEN <<0, 0, 0, 0, 0, 0>>
            ELSE <<o.fb.at, 1, o.fb.w * 4, o.fb.w, o.fb.h, 32>>
boot_args(o, m, i, tree) ==
  LET virtBase == m.vm_low - (o.phys - RamBase(o))
  IN [virtBase |-> virtBase, physBase |-> RamBase(o), memSize |-> o.mem,
      topOfKernelData |-> Top(o, i),
      deviceTreeP |-> virtBase + (i.dt.at - RamBase(o)), deviceTreeLength |-> Bytes(tree),
      video |-> Video(o)]

CommandLineFits(o) == o.cmdline < 1024

\* The layout of one build.
Layout(o, m) ==
  LET i == Image(o, m)
      tree == Filled(o, i)
  IN [o |-> o, m |-> m, image |-> i, tree |-> tree, tc |-> TrustCache(o),
      rd |-> Ramdisk(o, i), scratch |-> Scratch(o, i),
      scratch_virt |-> IF o.reserve = 0 THEN 0 ELSE m.vm_low - o.phys + AfterRamdisk(o, i),
      args |-> boot_args(o, m, i, tree)]

\* main's checks, up to the size the filled tree must keep.
Accepted(k, o) == /\ Segments(k) # {}
                  /\ parse(k).vm_span = k.len
                  /\ RamBase(o) <= o.phys
                  /\ TrustCacheFits(o)
                  /\ CommandLineFits(o)
                  /\ Bytes(Layout(o, parse(k)).tree) = Layout(o, parse(k)).image.dt.len
-----------------------------------------------------------------------------
(* The stub, counted in instructions *)

\* What the assemblers of bochs_fb make of an address and of a word; a store
\* or a branch is one.
load64 == 4
load32 == 2

\* bochs_fb.build: config space, BARs and decode; registers and modes; then
\* the screen, filled by a loop of three instructions or copied by one of four.
SetUpWords == 2 * load64 + 9 * load32 + 12
FillWords == SetUpWords + load64 + 2 * load32 + 3
BlitWords == SetUpWords + 2 * load64 + load32 + 4
bochs_fb(o, words, blit_from) ==
  [bar0 |-> o.fb.at % BarSpan, bar2 |-> o.mmio % BarSpan, to |-> o.fb.at,
   pixels |-> o.fb.w * o.fb.h, words |-> words, blit_from |-> blit_from]
NoDisplay == [bar0 |-> 0, bar2 |-> 0, to |-> 0, pixels |-> 0, words |-> 0, blit_from |-> 0]

\* trampoline.build: masks, two addresses of four instructions, br.
CodeLen(words) == 4 * (words + 2 + 2 * load64 + 1)

\* Where the picture goes: after the code, sized by a probe of equal length.
DataAt(o) == align(o.tramp_at + CodeLen(BlitWords), 16)

Display(o) == IF ~o.fb_init \/ o.fb.w = 0 THEN NoDisplay
              ELSE IF o.logo THEN bochs_fb(o, BlitWords, DataAt(o))
              ELSE bochs_fb(o, FillWords, 0)

\* Python's bytes * pad is empty when pad is negative.
PictureOffset(o, code) == code + Max({0, DataAt(o) - o.tramp_at - code})
Stub(l) ==
  LET o == l.o
      d == Display(o)
      code == CodeLen(d.words)
  IN [at |-> o.tramp_at, x0 |-> l.image.ba.at, entry |-> o.phys + (l.m.entry - l.m.vm_low),
      display |-> d, code |-> code,
      picture |-> IF d.words = BlitWords
                  THEN [at |-> o.tramp_at + PictureOffset(o, code), len |-> o.fb.w * o.fb.h * 4]
                  ELSE Nowhere]
-----------------------------------------------------------------------------
NoCommand == [name |-> "none", pkg |-> Missing, kern |-> Missing, o |-> Missing]

Init == /\ pc = "idle" /\ cmd = NoCommand /\ work = Missing /\ runs = 0
        /\ files = [f \in {"members", "kernel", "loadmap", "image", "devicetree", "stub"} |->
                      Missing]

Stopped == {"idle", "done", "failed"}
Begin(name, first, pkg, kern, o) ==
  /\ pc \in Stopped
  /\ runs < MaxRuns
  /\ runs' = runs + 1
  /\ pc' = first
  /\ cmd' = [name |-> name, pkg |-> pkg, kern |-> kern, o |-> o]
  /\ work' = Missing
  /\ UNCHANGED files

Goto(label) == pc' = label /\ UNCHANGED <<runs>>
Save(file, value) == files' = [files EXCEPT ![file] = value]

\* build_all takes no options but the base, the size and the geometry.
Plain(o) == /\ o.ram = 0 /\ o.ncpus = 1 /\ o.tc = 0 /\ o.rd = 0 /\ o.reserve = 0
            /\ o.root_hash = 0 /\ o.os_environment = 0 /\ ~o.tramp /\ ~o.fb_init /\ ~o.logo

BuildAll == \E p \in Packages, o \in Options :
              Plain(o) /\ Begin("build_all", "carve", p, Missing, o)
BuildImage == \E k \in ByHand, o \in Options : Begin("build_image", "layout", Missing, k, o)
FromBuild == Begin("from_build", "read", Missing, Missing, Missing)

\* json.load raises on a file that was cut short; without one the package is
\* scanned and the file opened for writing.
Carve == /\ pc = "carve"
         /\ CASE files["members"] = Missing -> Goto("dump") /\ Save("members", Partial)
              [] files["members"] = Partial -> Goto("failed") /\ UNCHANGED files
              [] OTHER -> Goto("extract") /\ UNCHANGED files
         /\ UNCHANGED <<cmd, work>>

Dump == /\ pc = "dump"
        /\ Goto("extract")
        /\ Save("members", cmd.pkg.at)
        /\ UNCHANGED <<cmd, work>>

\* (mutant) a kernel extracted before is used again, as the listing is
ExtractOnce ==
  /\ pc = "extract"
  /\ LET kern == IF files["kernel"] \in {Missing, Partial} THEN cmd.pkg.holds[cmd.pkg.at]
                 ELSE files["kernel"]
     IN Goto("loadmap") /\ Save("kernel", kern) /\ cmd' = [cmd EXCEPT !.kern = kern]
  /\ UNCHANGED work

\* The cached listing may be that of another package, and is not checked: its
\* offset is read in this one.  What is there may not inflate, or be no Image4,
\* or it is a kernel, not always the one asked for.
Extract ==
  /\ pc = "extract"
  /\ IF files["members"] \in DOMAIN cmd.pkg.holds
     THEN LET kern == cmd.pkg.holds[files["members"]]
          IN Goto("loadmap") /\ Save("kernel", kern) /\ cmd' = [cmd EXCEPT !.kern = kern]
     ELSE Goto("failed") /\ UNCHANGED <<cmd, files>>
  /\ UNCHANGED work

\* Printing an entry of None raises, after the file was written.
LoadMap == /\ pc = "loadmap"
           /\ IF Segments(cmd.kern) = {} \/ Entry(cmd.kern) = NoEntry
              THEN Goto("failed") ELSE Goto("layout")
           /\ Save("loadmap", parse(cmd.kern))
           /\ UNCHANGED <<cmd, work>>

\* Everything up to the image file: nothing is written before all checks.
LayOut == /\ pc = "layout"
          /\ IF Accepted(cmd.kern, cmd.o)
             THEN Goto("image") /\ work' = Layout(cmd.o, parse(cmd.kern))
             ELSE Goto("failed") /\ UNCHANGED work
          /\ UNCHANGED <<cmd, files>>

AfterImage == IF work.m.entry = NoEntry THEN "failed"
              ELSE IF work.o.tramp THEN "stub"
              ELSE IF cmd.name = "build_all" THEN "drop" ELSE "done"
WriteImage == /\ pc = "image"
              /\ Goto(AfterImage)
              /\ Save("image", work)
              /\ UNCHANGED <<cmd, work>>

WriteStub == /\ pc = "stub"
             /\ Goto("done")
             /\ Save("stub", Stub(work))
             /\ UNCHANGED <<cmd, work>>

\* build_all serialises the tree once more, on its own: no display in it.
Serialised(o) == Bytes(Tree([o EXCEPT !.fb.w = 0]))
Drop == /\ pc = "drop"
        /\ Goto("done")
        /\ Save("devicetree", Serialised(cmd.o))
        /\ UNCHANGED <<cmd, work>>

\* trampoline --from-build adds up the lengths again, and takes the entry as
\* it is, virtual.
FromBuildStub ==
  LET dt_len == IF files["devicetree"] = Missing THEN 0 ELSE files["devicetree"]
      ba_off == align(align(files["loadmap"].file_size, MiB) + dt_len, PAGE)
  IN [at |-> 0, x0 |-> DefaultPhys + ba_off, entry |-> files["loadmap"].entry,
      display |-> NoDisplay, code |-> CodeLen(0), picture |-> Nowhere]

\* json.load raises on a load map that was cut short, too.
MapReads == files["loadmap"] \notin {Missing, Partial} /\ files["loadmap"].entry # NoEntry
ReadBuild == /\ pc = "read"
             /\ IF MapReads THEN Goto("done") /\ Save("stub", FromBuildStub)
                            ELSE Goto("failed") /\ UNCHANGED files
             /\ UNCHANGED <<cmd, work>>

\* A file is opened and written in place, with no other name until it is
\* whole.  A write cut short leaves some of it; of the device tree only its
\* length is ever asked for.
CutShort ==
  /\ \/ /\ pc = "extract" /\ files["members"] \in DOMAIN cmd.pkg.holds
        /\ Save("kernel", Partial)
     \/ pc = "loadmap" /\ Save("loadmap", Partial)
     \/ pc = "image" /\ Save("image", Partial)
     \/ pc = "stub" /\ Save("stub", Partial)
     \/ pc = "read" /\ MapReads /\ Save("stub", Partial)
     \/ pc = "drop" /\ \E n \in Cuts : n < Serialised(cmd.o) /\ Save("devicetree", n)
  /\ Goto("failed")
  /\ UNCHANGED <<cmd, work>>

Interrupt == pc \notin Stopped /\ Goto("failed") /\ UNCHANGED <<cmd, files, work>>

Next == \/ BuildAll \/ BuildImage \/ FromBuild
        \/ Carve \/ Dump \/ Extract \/ LoadMap \/ LayOut \/ WriteImage \/ WriteStub \/ Drop
        \/ ReadBuild \/ CutShort \/ Interrupt

Spec == Init /\ [][Next]_vars
-----------------------------------------------------------------------------
Labels == Stopped \cup {"carve", "dump", "extract", "loadmap", "layout", "image", "stub",
                        "drop", "read"}

\* Every file holds what its writer makes; images start and end on megabytes.
TypeOK ==
  /\ pc \in Labels /\ runs \in 0..MaxRuns
  /\ cmd.name \in {"none", "build_all", "build_image", "from_build"}
  /\ files["members"] \in {Missing, Partial} \cup {p.at : p \in Packages}
  /\ files["image"] \notin {Missing, Partial} =>
       LET l == files["image"]
       IN /\ (l.image.dt.at - l.o.phys) % MiB = 0
          /\ (l.image.ba.at - l.o.phys) % PAGE = 0
          /\ l.image.total % MiB = 0
-----------------------------------------------------------------------------
(* What the kernel is handed *)

End(r) == r.at + r.len
Apart(r, s) == r.len = 0 \/ s.len = 0 \/ End(r) <= s.at \/ End(s) <= r.at

\* Nothing built overlaps, and the kernel allocates over none of it.
Placed(l) ==
  LET built == <<l.image.kernel, l.image.dt, l.image.ba, l.rd, l.scratch, l.tc>>
  IN /\ \A i, j \in DOMAIN built : i # j => Apart(built[i], built[j])
     /\ \A i \in 1..5 : built[i].len > 0 => End(built[i]) <= l.args.topOfKernelData
     /\ l.tc.len > 0 => l.args.physBase <= l.tc.at /\ End(l.tc) <= l.args.topOfKernelData

\* The window: the kernel finds the image at its link address, and every
\* virtual address handed over is that of the thing it names.
PhysToVirt(l, p) == l.args.virtBase + (p - l.args.physBase)
WindowAgrees(l) ==
  /\ PhysToVirt(l, l.o.phys) = l.m.vm_low
  /\ PhysToVirt(l, l.image.dt.at) = l.args.deviceTreeP
  /\ l.scratch.len > 0 => PhysToVirt(l, l.scratch.at) = l.scratch_virt

\* The tree and boot_args describe one machine, and where things are.
MapEntry(l, key) == l.tree["memory-map"][key].v
Announces(l, key, r) == r.len > 0 => MapEntry(l, key) = <<r.at, r.len>>
SameMachine(l) ==
  /\ Announces(l, "DeviceTree", l.image.dt) /\ Announces(l, "BootArgs", l.image.ba)
  /\ Announces(l, "TrustCache", l.tc) /\ Announces(l, "RAMDisk", l.rd)
  /\ Bytes(l.tree) = l.args.deviceTreeLength /\ l.args.deviceTreeLength = l.image.dt.len
  /\ l.tree["memory"]["reg"].v = <<l.args.physBase, l.args.memSize>>
  /\ l.tree["chosen"]["dram-base"].v = <<l.args.physBase>>
  /\ l.o.fb.w > 0 => /\ l.tree["framebuffer"]["address"].v = <<l.args.video[1]>>
                     /\ l.tree["framebuffer"]["stride"].v = <<l.args.video[3]>>

\* The stub enters this image: boot_args, the entry point, and a display that
\* is where it was announced and painted whole.
StubAgrees(l, s) ==
  LET d == s.display
  IN /\ s.x0 = l.image.ba.at
     /\ PhysToVirt(l, s.entry) = l.m.entry
     /\ d.words > 0 => /\ d.to = l.args.video[1]
                       /\ d.to < BarSpan => d.bar0 = d.to
                       /\ d.pixels * 4 = l.args.video[3] * l.args.video[5]
     /\ s.picture.len > 0 => /\ s.picture.at = d.blit_from
                             /\ s.picture.at >= s.at + s.code
                             /\ s.picture.len = d.pixels * 4

\* What trampoline --from-build adds up is where this image has its boot_args,
\* if it was built at the base assumed and the display's node fits the page.
AddsUp(l) ==
  /\ l.m = files["loadmap"] /\ Plain(l.o) /\ l.o.phys = DefaultPhys
  /\ files["devicetree"] # Missing
  /\ align(l.image.dt.len, PAGE) = align(files["devicetree"], PAGE)

\* A command that ran to its end leaves an image whose parts do not overlap
\* and agree on the machine, and a stub that enters it: whatever was in the
\* directory before, and whichever options moved the tree or the ramdisk.
HandsOver ==
  files["image"] \notin {Missing, Partial} =>
    LET l == files["image"]
    IN /\ Placed(l) /\ WindowAgrees(l) /\ SameMachine(l)
       /\ pc = "done" /\ cmd.name = "build_image" /\ cmd.o.tramp => StubAgrees(l, files["stub"])
       /\ pc = "done" /\ cmd.name = "from_build" /\ AddsUp(l) =>
            files["stub"].x0 = l.image.ba.at

\* No listing there is has an offset that finds another kernel in this package.
Unmistakable(p) ==
  \A q \in Packages : q.at \in DOMAIN p.holds => p.holds[q.at] = p.holds[p.at]

\* build_all, once done, has built one kernel throughout, of the package it was
\* given and with its own options: no file of a run before, cut short or on
\* another package, gets into it.  That it is the kernel asked for holds only
\* where a cached listing cannot be mistaken.
Coherent ==
  pc = "done" /\ cmd.name = "build_all" =>
    /\ files["kernel"] \in Range(cmd.pkg.holds)
    /\ Unmistakable(cmd.pkg) => files["kernel"] = cmd.pkg.holds[cmd.pkg.at]
    /\ files["loadmap"] = parse(files["kernel"])
    /\ files["image"].m = files["loadmap"] /\ files["image"].o = cmd.o
-----------------------------------------------------------------------------
(* What the kernel follows through the tree *)

Phandles(tree) == {n \in DOMAIN tree : "AAPL,phandle" \in DOMAIN tree[n]}
Names1(tree, ref) == \E n \in Phandles(tree) :
                       /\ tree[n]["AAPL,phandle"].v = ref
                       /\ \A k \in Phandles(tree) : tree[k]["AAPL,phandle"].v = ref => k = n
References(tree) == {tree["defaults"]["serial-device"].v,
                     tree["pcie"]["device-interrupt-parent"].v}
                    \cup {tree[n]["interrupt-parent"].v : n \in Cpus(tree)}

\* The registers of a node, as ranges of the window it is in.
Ranges(p) == {[at |-> p.v[2 * i - 1], len |-> p.v[2 * i]] : i \in 1..(p.len \div 16)}
Registers(tree) == UNION {Ranges(tree[n]["reg"]) : n \in {"gic", "uart0", "pcie"}}
Frames(tree) == {[of |-> n, at |-> tree[n]["reg-private"].v[1], len |-> tree[n]["reg-private"].v[2]]
                   : n \in Cpus(tree)}
Redistributor(tree) == [at |-> soc_base + tree["gic"]["reg"].v[3], len |-> tree["gic"]["reg"].v[4]]

AllApart(rs) == \A r, s \in rs : r # s => Apart(r, s)
Inside(r, s) == s.at <= r.at /\ End(r) <= End(s)

\* In every image the tree is one a kernel can follow: each phandle named is
\* that of one node, device registers lie apart in the window of arm-io, each
\* core has a redistributor frame of its own, the MSI frame is there to map,
\* and check_timebase holds.
TreeHolds ==
  files["image"] \notin {Missing, Partial} =>
    LET tree == files["image"].tree
    IN /\ \A ref \in References(tree) : Names1(tree, ref)
       /\ AllApart(Registers(tree)) /\ AllApart(Frames(tree))
       /\ \A r \in Registers(tree) : Inside(r, [at |-> 0, len |-> tree["arm-io"]["ranges"].v[3]])
       /\ \A f \in Frames(tree) : Inside(f, Redistributor(tree))
       /\ (tree["pcie"]["msi-frame-index"].v[1] + 1) * 16 <= tree["gic"]["reg"].len
       /\ check_timebase(tree)
=============================================================================
