----------------------------- MODULE Containers -----------------------------
(***************************************************************************)
(* The readers of Apple's containers: streams and archives (pbzx.py,       *)
(* tools/pbzx_cpio.py, udif.py, aea.py, ibootim.py), the two scans of a    *)
(* raw image (tools/zip_carve.py, tools/image_arch_scan.py), apfs_omap.py, *)
(* which resolves an object id through the newest object map, and          *)
(* apfs_seal.py, which clears the sealed flag of volume superblocks in     *)
(* place.                                                                  *)
(*                                                                         *)
(* Each reads one file, and one step is one turn of its loop.  A file is   *)
(* what its writer laid out: parts with their lengths, so a part is        *)
(* recognised where the writer put it and nowhere else.  job.cut is the    *)
(* length the file has; a damaged one is shorter than what was laid out.   *)
(***************************************************************************)
EXTENDS Integers, Sequences, FiniteSetsExt, SequencesExt

CONSTANTS RingN,       \* N, the window of lzss
          RingF,       \* F, the longest match
          ChunkBlocks, \* chunk_blocks: how many blocks apfs_seal reads at once
          BlockSize    \* block_size of a container

ASSUME RingNAssumption == RingN \in Nat /\ RingF \in 1..RingN
ASSUME ChunkAssumption == /\ ChunkBlocks \in Nat \ {0}
                          /\ BlockSize \in Nat /\ BlockSize > 192 /\ BlockSize % 4 = 0

VARIABLES job,  \* the file, and which reader is run on it: job.fmt
          pc,   \* "run", "done", or "raised"
          at,   \* where the reader is
          out   \* what it has put out

vars == <<job, pc, at, out>>

Runs(fmt) == pc = "run" /\ job.fmt = fmt /\ UNCHANGED job
Stop(how) == pc' = how /\ UNCHANGED <<at, out>>
Put(item, next) == out' = Append(out, item) /\ at' = next /\ UNCHANGED pc
Pass(next) == at' = next /\ UNCHANGED <<pc, out>>

Pad(i, n) == (n - (i % n)) % n
Total(s, Len_(_)) == FoldLeft(LAMBDA sum, x : sum + Len_(x), 0, s)

\* The first part of s that begins at offset i, given where each begins; 0 if
\* there is none.
PartAt(s, From(_), i) ==
  LET here == {k \in DOMAIN s : From(k) = i} IN IF here = {} THEN 0 ELSE Min(here)
-----------------------------------------------------------------------------
(* pbzx: magic and chunk size, then blocks of two lengths and data.  out:  *)
(* <<block, bytes>>                                                        *)

BlockFrom(k) == 12 + Total(SubSeq(job.blocks, 1, k - 1), LAMBDA b : 16 + b.clen)

\* A block whose lengths are equal is taken as it is.
Plain(k, n) == LET b == job.blocks[k]
               IN IF b.stored = (b.clen = b.ulen) THEN <<k, n>> ELSE <<0, n>>

\* blocks reads the magic and the chunk size and raises if they are not all
\* there; pbzx_decode asks for the magic only.
pbzx_header == /\ Runs(job.fmt) /\ job.fmt \in {"pbzx", "payload"}
               /\ at = 0
               /\ LET needed == IF job.fmt = "pbzx" THEN 12 ELSE 4
                  IN IF job.cut < needed THEN Stop("raised") ELSE Pass(12)

\* pbzx.blocks: a block that is not all there ends the stream.
blocks == /\ Runs("pbzx") /\ at > 0
          /\ LET k == PartAt(job.blocks, BlockFrom, at)
             IN IF at + 16 > job.cut \/ k = 0 \/ at + 16 + job.blocks[k].clen > job.cut
                THEN Stop("done")
                ELSE Put(Plain(k, job.blocks[k].ulen), at + 16 + job.blocks[k].clen)

\* pbzx_cpio.pbzx_decode: a slice may be shorter than asked for.
pbzx_decode ==
  /\ Runs("payload") /\ at > 0
  /\ LET k == PartAt(job.blocks, BlockFrom, at)
         there == Min({job.blocks[k].clen, job.cut - (at + 16)})
     IN IF at + 16 > job.cut \/ k = 0 THEN Stop("done")
        ELSE IF job.blocks[k].clen = job.blocks[k].ulen THEN Put(Plain(k, there), at + 16 + there)
        ELSE IF there < job.blocks[k].clen THEN Stop("raised")
        ELSE Put(Plain(k, job.blocks[k].ulen), at + 16 + there)
-----------------------------------------------------------------------------
(* cpio_iter.  out: <<member, bytes of its name, bytes of its body>>       *)

NEWC == 110
ODC == 76

\* The writer's layout: newc pads the name and the body to four bytes.
MemberEnd(i, m) == IF m.kind = "newc"
                   THEN LET body == i + NEWC + m.name + Pad(i + NEWC + m.name, 4)
                        IN body + m.size + Pad(body + m.size, 4)
                   ELSE i + ODC + m.name + m.size
MemberFrom(k) == FoldLeft(MemberEnd, 0, SubSeq(job.members, 1, k - 1))

There(from, n) == Max({0, Min({n, job.cut - from})})

BodyAt(m, i) == IF m.kind = "newc" THEN i + NEWC + m.name + Pad(i + NEWC + m.name, 4)
                ELSE i + ODC + m.name

After(m, i) == LET end == BodyAt(m, i) + m.size
               IN IF m.kind = "newc" THEN end + Pad(end, 4) ELSE end

\* The magic is checked record by record; the trailer is not a member, but is
\* only recognised by the whole of its name.
cpio_iter ==
  /\ Runs("cpio")
  /\ LET k == PartAt(job.members, MemberFrom, at)
         m == job.members[k]
         size == IF m.kind = "newc" THEN NEWC ELSE ODC
         named == There(at + size, m.name - 1) = m.name - 1
     IN IF at + ODC > job.cut \/ k = 0 \/ at + size > job.cut \/ (m.trailer /\ named)
        THEN Stop("done")
        ELSE Put(<<k, There(at + size, m.name - 1), There(BodyAt(m, at), m.size)>>, After(m, at))
-----------------------------------------------------------------------------
(* udif: the block map is replayed.  out: the disk, sector by sector.      *)

Zeros == <<0, 0>>  \* a sector nothing was put in

Sectors(part, c) == (part.start + c.sec)..(part.start + c.sec + c.cnt - 1)
Chunks == UNION {{[part |-> p, c |-> p.chunks[i]] : i \in DOMAIN p.chunks} : p \in Range(job.parts)}
DiskSize == Max({0} \cup {x.part.start + x.c.sec + x.c.cnt : x \in {y \in Chunks : y.c.kind # "end"}})

\* What decode makes of a chunk, for its sector number n.
decode(c, n) == IF c.kind \in {"zero", "ignore"} THEN Zeros ELSE <<c.data, n>>

\* The trailer is the last block of the file: in a cut one it is not found, and
\* no disk is begun.
read_trailer == /\ Runs("udif")
                /\ at = <<0, 0>>
                /\ IF job.cut < job.len THEN Stop("raised")
                   ELSE /\ out' = [s \in 0..(DiskSize - 1) |-> Zeros]
                        /\ at' = <<1, 1>>
                        /\ UNCHANGED pc

\* An end ends nothing; an unknown kind raises.
Udif ==
  /\ Runs("udif") /\ at[1] > 0
  /\ LET part == job.parts[at[1]]
         c == part.chunks[at[2]]
     IN IF at[1] > Len(job.parts) THEN Stop("done")
        ELSE IF at[2] > Len(part.chunks) THEN Pass(<<at[1] + 1, 1>>)
        ELSE IF c.kind = "adc" THEN Stop("raised")
        ELSE IF c.kind = "end" THEN Pass(<<at[1], at[2] + 1>>)
        ELSE /\ out' = [s \in DOMAIN out |-> IF s \in Sectors(part, c)
                                             THEN decode(c, s - part.start - c.sec) ELSE out[s]]
             /\ at' = <<at[1], at[2] + 1>>
             /\ UNCHANGED pc
-----------------------------------------------------------------------------
(* aea: clusters of segments, each cluster behind its own header.  at:     *)
(* [off, cluster, seg, data, bad]: where the cluster begins and where its  *)
(* next segment does, and the failures counted.  out: <<cluster, segment,  *)
(* bytes written>>.  A segment: [orig, enc, damaged, gives], the last what *)
(* its decompressor makes of it.                                           *)

FIRST_CLUSTER == 144
Raises == -1
cluster_header_len == job.spc * 40 + 32 + job.spc * 32
ClusterLen(segs) == cluster_header_len + Total(segs, LAMBDA s : s.enc)
ClusterFrom(k) == FIRST_CLUSTER + Total(SubSeq(job.clusters, 1, k - 1), ClusterLen)

Written == Total(out, LAMBDA x : x[3])

\* A slice of the file is as long as there are bytes.
SegmentThere(seg) == Max({0, Min({seg.enc, job.cut - at.data})})

\* A blob as long as the segment is stored.  What is cut does not decompress;
\* without compression it is taken as it is.
decompress(seg, there) == IF there = seg.orig \/ job.algo = "-" THEN there
                          ELSE IF there < seg.enc THEN Raises ELSE seg.gives

DigestHolds(seg, there) == ~seg.damaged /\ there = seg.enc

\* A cluster is begun only while bytes are missing, and up to the limit.
aea_header ==
  /\ Runs("aea")
  /\ at.seg = 0
  /\ IF Written >= job.original \/ (job.limit > 0 /\ at.cluster > job.limit) THEN Stop("done")
     ELSE Pass([at EXCEPT !.seg = 1, !.data = at.off + cluster_header_len])

\* The entry of the segment can be read: the file has it, and the header is
\* where the writer put it, for the key belongs to the number of the cluster.
EntryThere == /\ at.cluster <= Len(job.clusters) /\ at.off = ClusterFrom(at.cluster)
              /\ at.off + (at.seg - 1) * 40 + 8 <= job.cut

\* What comes out is written whatever its digest; failures are counted for
\* one kind of checksum only.
aea_segment ==
  /\ Runs("aea")
  /\ at.seg > 0
  /\ IF Written >= job.original \/ at.seg > job.spc
     THEN Pass([at EXCEPT !.off = at.data, !.cluster = @ + 1, !.seg = 0])
     ELSE IF ~EntryThere THEN Stop("raised")
     ELSE IF at.seg > Len(job.clusters[at.cluster])
     THEN Pass([at EXCEPT !.off = at.data, !.cluster = @ + 1, !.seg = 0])
     ELSE LET seg == job.clusters[at.cluster][at.seg]
              there == SegmentThere(seg)
              plain == decompress(seg, there)
              fails == job.checksum = 2 /\ ~DigestHolds(seg, there)
          IN IF plain = Raises THEN Stop("raised")
             ELSE Put(<<at.cluster, at.seg, plain>>,
                      [at EXCEPT !.seg = @ + 1, !.data = @ + seg.enc,
                                 !.bad = IF fails THEN @ + 1 ELSE @])
-----------------------------------------------------------------------------
(* ibootim.lzss_decompress: flag bits, low bit first, say literal or copy. *)
(* at: [i, flags, ring, r]                                                 *)

THRESHOLD == 2
Space == 32
Bit(n, k) == (n \div 2^k) % 2

StoreByte(s, c) == [s EXCEPT !.ring[s.r] = c, !.r = (s.r + 1) % RingN, !.new = Append(@, c)]
CopyByte(s, from) == StoreByte(s, s.ring[from % RingN])

\* The token at index i: what it stores and how far it reads, or nothing left.
Literal(s, i) == [StoreByte(s, job.src[i]) EXCEPT !.i = i + 1]
CopyLength(b) == (b % 16) + THRESHOLD + 1
Match(s, i) ==
  LET b == job.src[i + 1]
      pos == job.src[i] + (b \div 16) * 256
  IN [FoldLeft(CopyByte, s, [k \in 1..CopyLength(b) |-> pos + k - 1]) EXCEPT !.i = i + 2]

lzss_decompress ==
  /\ Runs("lzss")
  /\ LET shifted == at.flags \div 2
         fresh == Bit(shifted, 8) = 0
         flags == IF fresh THEN job.src[at.i] + 65280 ELSE shifted
         i == IF fresh THEN at.i + 1 ELSE at.i
         start == [at EXCEPT !.flags = flags, !.new = <<>>]
         next == IF flags % 2 = 1 THEN Literal(start, i) ELSE Match(start, i)
     IN IF at.i > job.cut \/ i + (1 - (flags % 2)) > job.cut
        THEN Stop("done")
        ELSE /\ out' = out \o next.new
             /\ at' = [next EXCEPT !.new = <<>>]
             /\ pc' = IF Len(out) + Len(next.new) >= job.expected THEN "done" ELSE pc

LzssStart == [i |-> 1, flags |-> 0, ring |-> [n \in 0..(RingN - 1) |-> Space],
              r |-> RingN - RingF, new |-> <<>>]
-----------------------------------------------------------------------------
(* The scans: a window of the last OVERLAP bytes and the next CHUNK.  at:  *)
(* [pos, carry_pos]; out: the headers found, with their offsets.           *)

CHUNK == 8 * 1024 * 1024
OVERLAP(fmt) == IF fmt = "zip" THEN 65536 ELSE 4096

Window(fmt) == [from |-> at.carry, to |-> at.pos + Min({CHUNK, job.cut - at.pos})]
\* (mutant) the windows do not overlap
NextWindowApart(w) == [pos |-> w.to, carry |-> w.to]

NextWindow(w) == [pos |-> w.to, carry |-> Max({w.from, w.to - OVERLAP(job.fmt)})]

\* Those of the headers wholly inside the window, in order.  parse_lfh and the
\* checks of image_arch_scan turn down what no writer makes.
Found(heads, w) == SetToSortSeq({h \in heads : h.valid /\ w.from <= h.at /\ h.at + h.len <= w.to},
                                LAMBDA g, h : g.at < h.at)

\* zip_carve lists a member once, whatever the number of windows it is in.  Its
\* size stands for the CRC and the compressed size.
SameMember(g, h) == g.name = h.name /\ g.size = h.size
AddMember(list, h) == IF \E g \in Range(list) : SameMember(g, h) THEN list ELSE Append(list, h)

scan_zip == /\ Runs("zip")
            /\ IF at.pos >= job.cut THEN Stop("done")
               ELSE /\ out' = FoldLeft(AddMember, out, Found(job.heads, Window("zip")))
                    /\ at' = NextWindow(Window("zip"))
                    /\ UNCHANGED pc

\* One magic after the other; nothing remembers a header found before.
NEEDLES == <<"thin64", "thin32", "fat", "fat64">>
ofKind(n) == {h \in job.heads : h.kind = NEEDLES[n]}
scan_arch == /\ Runs("arch")
             /\ IF at.pos >= job.cut THEN Stop("done")
                ELSE /\ out' = out \o FlattenSeq([n \in DOMAIN NEEDLES |-> Found(ofKind(n), Window("arch"))])
                     /\ at' = NextWindow(Window("arch"))
                     /\ UNCHANGED pc
-----------------------------------------------------------------------------
(* apfs_omap: at is [node, limit], the node being searched and the         *)
(* transaction looked for.  A node: [ok, leaf, entries], an entry          *)
(* [oid, xid, val]; out: <<>> or <<val>>.  Block zero, the ring and the    *)
(* nodes are blocks of the file.                                           *)

\* What checked makes of block n, if it is ok on disk: of a block beyond the
\* file there is no checksum to unpack, part of one may not be whole words.
BytesOf(n) == Max({0, Min({BlockSize, job.cut - n * BlockSize})})
checked(n, ok) == IF BytesOf(n) = BlockSize THEN IF ok THEN "ok" ELSE "fails"
                  ELSE IF BytesOf(n) < 8 \/ BytesOf(n) % 4 # 0 THEN "raises" ELSE "fails"

\* The highest transaction in the descriptor ring, or the one in block zero.
InRing(i) == checked(job.ring_at + i - 1, job.ring[i].ok)
newest == LET good == {i \in DOMAIN job.ring : InRing(i) = "ok" /\ job.ring[i].nxsb}
          IN IF good = {} THEN job.head ELSE Max({job.ring[i].xid : i \in good})

\* Block zero is read without its checksum, up to the fields asked for.
newest_nxsb ==
  /\ Runs("omap")
  /\ at.node = 0
  /\ IF job.cut < 192 \/ \E i \in DOMAIN job.ring : InRing(i) = "raises" THEN Stop("raised")
     ELSE Pass([node |-> job.root, limit |-> newest])

\* The last entry of the node, in the order they are stored, that is not
\* beyond the object at the transaction looked for; 0 if all are.
Beyond(e) == e.oid > job.oid \/ (e.oid = job.oid /\ e.xid > at.limit)
Best(entries) == LET under == {i \in DOMAIN entries : ~Beyond(entries[i])}
                 IN IF under = {} THEN 0 ELSE Max(under)

omap_lookup ==
  /\ Runs("omap")
  /\ at.node > 0
  /\ LET node == job.nodes[at.node]
         read == checked(job.tree_at + at.node - 1, node.ok)
         best == Best(node.entries)
     IN IF read = "raises" THEN Stop("raised")
        ELSE IF read = "fails" \/ best = 0 THEN Stop("done")
        ELSE IF ~node.leaf THEN Pass([at EXCEPT !.node = node.entries[best].val])
        ELSE IF node.entries[best].oid # job.oid THEN Stop("done")
        ELSE out' = <<node.entries[best].val>> /\ pc' = "done" /\ UNCHANGED at
-----------------------------------------------------------------------------
(* apfs_seal --write: out is the image as it is on disk, in blocks.  at:   *)
(* [index, fpos, chunk, i]: the count of blocks read before, the file      *)
(* position in bytes (-1 while nothing was read), the blocks in memory and *)
(* the one looked at.                                                      *)

SealStart == [index |-> 0, fpos |-> -1, chunk |-> <<>>, i |-> 0]

\* The magic is compared before the sizes behind it are unpacked.
SealHead == /\ Runs("seal")
            /\ at.fpos = -1
            /\ IF job.cut < 36 THEN Stop("done")
               ELSE IF job.cut < 48 THEN Stop("raised")
               ELSE Pass([at EXCEPT !.fpos = 0])

\* Of the bytes read the whole blocks are looked at.
ReadChunk == /\ Runs("seal")
             /\ at.i = 0 /\ at.fpos >= 0
             /\ LET bytes == Max({0, Min({ChunkBlocks * BlockSize, job.cut - at.fpos})})
                    end == at.fpos + bytes
                    chunk == SubSeq(out, at.fpos \div BlockSize + 1, end \div BlockSize)
                IN IF bytes = 0 THEN Stop("done")
                   ELSE Pass([at EXCEPT !.chunk = chunk, !.i = 1, !.fpos = end])

Live(b) == b.apsb /\ b.ok
Chosen(n) == job.only = {} \/ n \in job.only

\* The new checksum is made for the new flags.
Unsealed(b) == [b EXCEPT !.sealed = FALSE, !.ok = TRUE]

\* (mutant) the file position is left behind the block written
UnsealAndDrift(n, b) == /\ out' = [out EXCEPT ![n + 1] = Unsealed(b)]
                        /\ at' = [at EXCEPT !.i = @ + 1, !.fpos = (n + 1) * BlockSize]

\* After the write the file is put back where the next chunk begins.
Unseal(n, b) == /\ out' = [out EXCEPT ![n + 1] = Unsealed(b)]
                /\ at' = [at EXCEPT !.i = @ + 1, !.fpos = (at.index + ChunkBlocks) * BlockSize]

LookAtBlock ==
  /\ Runs("seal")
  /\ at.i > 0
  /\ IF at.i > Len(at.chunk)
     THEN Pass([at EXCEPT !.index = @ + ChunkBlocks, !.i = 0])
     ELSE LET b == at.chunk[at.i]
              n == at.index + at.i - 1
          IN IF Live(b) /\ b.sealed /\ Chosen(n) THEN Unseal(n, b) /\ UNCHANGED pc
             ELSE Pass([at EXCEPT !.i = @ + 1])
=============================================================================
