---------------------------- MODULE MCBuildImage ----------------------------
(***************************************************************************)
(* QEMU's virt with half a gigabyte of RAM at 0x40000000, the image above  *)
(* it, and a link address below 2^31.  What the machine has at 2^32 is at  *)
(* 2^30 here.                                                              *)
(***************************************************************************)
EXTENDS BuildImage

ramAt == 1024 * MiB
imageAt == 1136 * MiB
linkAt == 1792 * MiB

Segment(at, size) == [cmd |-> "segment", size |-> 72, vmaddr |-> at, vmsize |-> size]
Thread(pc_) == [cmd |-> "thread", size |-> 288, pc |-> pc_]
Stop == [cmd |-> "segment", size |-> 0, vmaddr |-> 0, vmsize |-> MiB]

\* Segments out of order, an empty one far away, and a command of size zero.
kernelA == [len |-> 3 * MiB + 8 * KiB,
            cmds |-> <<Segment(linkAt + MiB, 2 * MiB + 8 * KiB), Segment(MiB, 0),
                       Segment(linkAt, MiB), Thread(linkAt + MiB + 128), Stop>>]
kernelB == [len |-> 2 * MiB, cmds |-> <<Thread(linkAt + 64), Segment(linkAt, 2 * MiB)>>]
\* Not one to one; without an entry; without segments.
gaps == [len |-> MiB, cmds |-> <<Segment(linkAt, MiB), Segment(linkAt + 4 * MiB, MiB)>>]
headless == [len |-> MiB, cmds |-> <<Segment(linkAt, MiB)>>]
empty == [len |-> MiB, cmds |-> <<Thread(linkAt)>>]

\* The third has two kernels; the one it is not asked for is where the first
\* has its own.
ThreePackages ==
  {[at |-> 1, holds |-> 1 :> kernelA], [at |-> 2, holds |-> 2 :> kernelB],
   [at |-> 3, holds |-> (1 :> kernelA) @@ (3 :> kernelB)]}
SomeKernels == {kernelA, gaps, headless, empty}

NoScreen == [at |-> 768 * MiB, w |-> 0, h |-> 0]
Screen == [at |-> 768 * MiB, w |-> 1024, h |-> 768]
High == [at |-> ramAt + 256 * MiB, w |-> 1024, h |-> 768]

plain == [phys |-> imageAt, ram |-> 0, mem |-> 512 * MiB, fb |-> Screen, ncpus |-> 1,
          tc |-> 0, tc_at |-> 1120 * MiB, rd |-> 0, reserve |-> 0, root_hash |-> 0,
          os_environment |-> 0, cmdline |-> 24, tramp |-> FALSE, tramp_at |-> 1040 * MiB,
          fb_init |-> FALSE, logo |-> FALSE, mmio |-> 800 * MiB]
full == [plain EXCEPT !.ram = ramAt, !.ncpus = 4, !.tc = 70000, !.rd = 5 * MiB + 512,
                      !.reserve = 300 * KiB, !.root_hash = 3000, !.os_environment = 4,
                      !.tramp = TRUE, !.fb_init = TRUE, !.logo = TRUE]
SomeOptions ==
  {plain, [plain EXCEPT !.fb = NoScreen], [plain EXCEPT !.phys = imageAt + MiB],
   [plain EXCEPT !.cmdline = 1024],
   [plain EXCEPT !.tramp = TRUE], [plain EXCEPT !.ram = imageAt + MiB],
   full, [full EXCEPT !.fb = High], [full EXCEPT !.fb = NoScreen],
   [full EXCEPT !.reserve = 0, !.ncpus = 2, !.tc = 0],
   [full EXCEPT !.rd = 0, !.logo = FALSE],
   [full EXCEPT !.tc_at = imageAt], [full EXCEPT !.ram = 0],
   [full EXCEPT !.ncpus = 8, !.rd = 0, !.reserve = MiB, !.tramp_at = @ + 4]}

\* /chosen as Apple's tree has it: of the 93 properties of the shipped file
\* those the loader has too, the handle, and the length of the rest.
Chosen93 == JoinAll(<<One("the rest", Raw(4648)), One("osenvironment", Raw(32)),
                      One("AAPL,phandle", U32(4)), One("crypto-hash-method", Str(8)),
                      One("debug-enabled", U32(0)), One("chip-id", U32(0)), One("unique-chip-id", U64(0)),
                      One("random-seed", [len |-> RANDOM_SEED_BYTES, v |-> <<0>>]),
                      One("nvram-bank-size", U32(0)), One("nvram-bank-count", U32(0)),
                      One("nvram-current-bank", U32(0))>>)
=============================================================================
