----------------------------- MODULE DeviceTree -----------------------------
(***************************************************************************)
(* ibootcore/devicetree.py: the tree minimal_vmapple_tree builds, its      *)
(* length when serialised, and check_timebase.                             *)
(*                                                                         *)
(* A tree is a function from the names of its nodes to their properties, a *)
(* property its length in bytes and the numbers in it.  Of the texts only  *)
(* the length counts.  Properties nothing refers to and that are the same  *)
(* in every tree (product names, clocks, psci, rtc, empty nodes) are left  *)
(* out: they lengthen every tree alike.  An address is at least three      *)
(* digits shorter than the machine's word, so no sum here wraps.           *)
(***************************************************************************)
EXTENDS Integers, Sequences, FiniteSetsExt, SequencesExt

CONSTANTS AppleChosen  \* /chosen of the installer's tree: property to value

KiB == 1024
MiB == 1024 * KiB

Raw(n) == [len |-> n, v |-> <<>>]
Str(n) == Raw(n + 1)
U32(x) == [len |-> 4, v |-> <<x>>]
U64(x) == [len |-> 8, v |-> <<x>>]
Cells(width, xs) == [len |-> width * Len(xs), v |-> xs]
Reg(base, size) == Cells(8, <<base, size>>)

One(key, value) == [k \in {key} |-> value]
None == [k \in {} |-> Raw(0)]
When(cond, props) == IF cond THEN props ELSE None

\* The properties of f, then those of g that f lacks; of several, the first
\* that has a property counts.
Join(f, g) == [k \in DOMAIN f \cup DOMAIN g |-> IF k \in DOMAIN f THEN f[k] ELSE g[k]]
JoinAll(fs) ==
  [k \in UNION {DOMAIN fs[i] : i \in DOMAIN fs} |->
     LET first == CHOOSE i \in DOMAIN fs : k \in DOMAIN fs[i] /\ \A j \in 1..(i - 1) : k \notin DOMAIN fs[j]
     IN fs[first][k]]
-----------------------------------------------------------------------------
(* The machine the defaults describe: QEMU's virt *)

GICR_STRIDE == 131072
UART_PHANDLE == 1
GIC_PHANDLE == 2
PCIE_PHANDLE == 3
UTIL_PHANDLE == 73
RANDOM_SEED_BYTES == 256
NVRAM_BYTES == 8192

soc_base == 128 * MiB
soc_size == 896 * MiB
gic_dist == 128 * MiB
gic_redist == gic_dist + 640 * KiB
gic_redist_size == 15744 * KiB
gic_msi_frame == gic_dist + 128 * KiB
uart_base == 144 * MiB
PCIE_ECAM_BASE == 1008 * MiB
PCIE_ECAM_SIZE == 16 * MiB
\* <<flags, pci address, cpu address, size>>
PCIE_RANGES == <<<<1, 0, 1007 * MiB + 960 * KiB, 64 * KiB>>,
                 <<2, 256 * MiB, 256 * MiB, 751 * MiB + 960 * KiB>>>>
timebase_hz == 62500000

-----------------------------------------------------------------------------
(* The nodes.  o: [ram_base, ram_size, ncpus, trustcache, ramdisk,         *)
(* root_hash, os_environment]                                              *)

Root == JoinAll(<<One("compatible", Str(23)), One("model", Str(13)),
                  One("#address-cells", U32(2)), One("#size-cells", U32(2))>>)

Measured(o) == JoinAll(<<One("dram-base", U64(o.ram_base)), One("dram-size", U64(o.ram_size)),
                         One("debug-enabled", U32(0)),
                         One("random-seed", [len |-> RANDOM_SEED_BYTES, v |-> <<1>>]),
                         One("chip-id", U32(0)), One("unique-chip-id", U64(0))>>)

Nvram == JoinAll(<<One("nvram-proxy-data", Raw(NVRAM_BYTES)), One("nvram-total-size", U32(NVRAM_BYTES)),
                   One("nvram-bank-size", U32(NVRAM_BYTES)), One("nvram-bank-count", U32(1)),
                   One("nvram-current-bank", U32(0))>>)

BootPolicy(o) ==
  JoinAll(<<One("crypto-hash-method", Str(8)),
            When(o.os_environment > 0, One("osenvironment", U32(o.os_environment))),
            When(o.root_hash > 0, One("root-hash", Raw(o.root_hash)))>>)

\* Apple's /chosen has a handle of its own, and is no processor.
ASSUME ChosenAssumption ==
  /\ "reg-private" \notin DOMAIN AppleChosen
  /\ "AAPL,phandle" \in DOMAIN AppleChosen =>
       AppleChosen["AAPL,phandle"].v \notin {<<UART_PHANDLE>>, <<GIC_PHANDLE>>, <<PCIE_PHANDLE>>,
                                             <<UTIL_PHANDLE>>}

\* What this loader measured wins over Apple's values.
Chosen(o) == JoinAll(<<Measured(o), Nvram, BootPolicy(o), AppleChosen>>)

\* Entries are reserved at full size, and only for what there is.
MemoryMap(o) ==
  JoinAll(<<One("kernel-only", Str(4)), One("DeviceTree", Reg(0, 0)), One("BootArgs", Reg(0, 0)),
            When(o.ramdisk, One("RAMDisk", Reg(0, 0))),
            When(o.trustcache, One("TrustCache", Reg(0, 0)))>>)

Defaults == JoinAll(<<One("serial-device", U32(UART_PHANDLE)), One("vmm-present", U32(1)),
                      One("pmap-max-asids", U32(16384))>>)

\* <<id, offset, size>>
UtilRegions == <<<<1, 0, 10 * MiB>>, <<2, 10 * MiB, MiB>>, <<3, 11 * MiB, 5 * MiB>>,
                 <<7, 16 * MiB, 4 * KiB>>, <<4, 16 * MiB + 4 * KiB, 5 * MiB - 4 * KiB>>,
                 <<5, 21 * MiB, 5 * MiB>>, <<6, 26 * MiB, 6 * MiB>>>>
Util == JoinAll(<<One("regions", Cells(4, FlattenSeq(UtilRegions))),
                  One("AAPL,phandle", U32(UTIL_PHANDLE))>>)

Memory(o) == One("reg", Reg(o.ram_base, o.ram_size))

\* (mutant) every core is given the first one's redistributor
CpuFirstFrame(i) ==
  JoinAll(<<One("reg", U32(i)), One("state", [len |-> 8, v |-> <<IF i = 0 THEN "running" ELSE "waiting">>]),
            One("timebase-frequency", U32(timebase_hz)),
            One("reg-private", Reg(gic_redist, GICR_STRIDE)),
            One("interrupt-parent", U32(GIC_PHANDLE))>>)

\* The redistributor frames are absolute; only the first core runs.
Cpu(i) ==
  JoinAll(<<One("reg", U32(i)), One("state", [len |-> 8, v |-> <<IF i = 0 THEN "running" ELSE "waiting">>]),
            One("timebase-frequency", U32(timebase_hz)),
            One("reg-private", Reg(gic_redist + (i * GICR_STRIDE), GICR_STRIDE)),
            One("interrupt-parent", U32(GIC_PHANDLE))>>)

ArmIo == JoinAll(<<One("device_type", Str(11)), One("ranges", Cells(8, <<0, soc_base, soc_size>>))>>)

\* From here on reg is relative to arm-io.
Gic == JoinAll(<<One("reg", Cells(8, <<gic_dist - soc_base, 64 * KiB,
                                       gic_redist - soc_base, gic_redist_size,
                                       gic_msi_frame - soc_base, 4 * KiB>>)),
                 One("interrupt-controller", Str(6)), One("AAPL,phandle", U32(GIC_PHANDLE))>>)

Uart == JoinAll(<<One("reg", Reg(uart_base - soc_base, 4 * KiB)),
                  One("AAPL,phandle", U32(UART_PHANDLE))>>)

PcieRange(r) == <<r[1], r[2], r[3] - soc_base, r[4]>>
Pcie ==
  JoinAll(<<One("reg", Reg(PCIE_ECAM_BASE - soc_base, PCIE_ECAM_SIZE)),
            One("bus-range", Cells(4, <<0, (PCIE_ECAM_SIZE \div MiB) - 1>>)),
            One("ranges", [len |-> 28 * Len(PCIE_RANGES),
                           v |-> FlattenSeq([k \in DOMAIN PCIE_RANGES |-> PcieRange(PCIE_RANGES[k])])]),
            One("device-interrupt-parent", U32(GIC_PHANDLE)), One("msi-frame-index", U32(2)),
            One("AAPL,phandle", U32(PCIE_PHANDLE))>>)

\* Nodes are named by their path; a CPU by its number.
CpuName(i) == "cpu" \o ToString(i)
minimal_vmapple_tree(o) ==
  JoinAll(<<One("/", Root), One("chosen", Chosen(o)), One("memory-map", MemoryMap(o)),
            One("defaults", Defaults), One("util", Util), One("memory", Memory(o)),
            [n \in {CpuName(i) : i \in 0..(o.ncpus - 1)} |->
               Cpu(CHOOSE i \in 0..(o.ncpus - 1) : n = CpuName(i))],
            One("arm-io", ArmIo), One("gic", Gic), One("uart0", Uart), One("pcie", Pcie)>>)

\* build_image adds the node of the display.
Framebuffer(fb) == JoinAll(<<One("address", U64(fb.at)), One("width", U32(fb.w)),
                             One("height", U32(fb.h)), One("depth", U32(32)),
                             One("stride", U32(fb.w * 4))>>)
-----------------------------------------------------------------------------
(* serialise: a node is two counts, then its properties, each a 32-byte    *)
(* name, a length and the value padded to four bytes.                      *)

_pad4(n) == (4 - (n % 4)) % 4
PropBytes(p) == 36 + p.len + _pad4(p.len)
NodeBytes(n) == 8 + MapThenSumSet(LAMBDA k : PropBytes(n[k]), DOMAIN n)
Bytes(tree) == MapThenSumSet(LAMBDA n : NodeBytes(tree[n]), DOMAIN tree)
-----------------------------------------------------------------------------
(* check_timebase: XNU's own arithmetic over the tree *)

Cpus(tree) == {n \in DOMAIN tree : "reg-private" \in DOMAIN tree[n]}
Running(tree) == {n \in Cpus(tree) : tree[n]["state"].v = <<"running">>}

FloorLog2(x) == CHOOSE k \in 0..30 : 2^k <= x /\ x < 2^(k + 1)
EventBit(ticks) ==
  LET low == FloorLog2(ticks)
      up == IF ticks % 2^low # 0 THEN low + 1 ELSE low
  IN IF up # 0 THEN up - 1 ELSE 0

check_timebase(tree) ==
  /\ "arm-io" \in DOMAIN tree
  /\ "device_type" \in DOMAIN tree["arm-io"]
  /\ tree["arm-io"]["ranges"].len >= 24 /\ tree["arm-io"]["ranges"].v[2] # 0
  /\ tree["chosen"]["random-seed"].len = RANDOM_SEED_BYTES
  /\ tree["chosen"]["random-seed"].v # <<0>>
  /\ Running(tree) # {}
  /\ \A n \in Running(tree) :
       LET ticks == tree[n]["timebase-frequency"].v[1] \div 1000000
       IN ticks > 0 /\ EventBit(ticks) < 64
=============================================================================
