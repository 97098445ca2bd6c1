------------------------------ MODULE Decoders ------------------------------
(***************************************************************************)
(* Every reader on every file of Jobs, whole or cut short, and what its    *)
(* output must be.                                                         *)
(***************************************************************************)
EXTENDS Containers

CONSTANTS Jobs  \* the files, as their writers laid them out

Start(j) == CASE j.fmt \in {"pbzx", "payload", "cpio"} -> 0
              [] j.fmt = "udif" -> <<0, 0>>
              [] j.fmt = "aea"  -> [off |-> FIRST_CLUSTER, cluster |-> 1, seg |-> 0, data |-> 0, bad |-> 0]
              [] j.fmt = "lzss" -> LzssStart
              [] j.fmt \in {"zip", "arch"} -> [pos |-> 0, carry |-> 0]
              [] j.fmt = "omap" -> [node |-> 0, limit |-> 0]
              [] j.fmt = "seal" -> SealStart

Init == /\ job \in Jobs
        /\ pc = "run"
        /\ at = Start(job)
        /\ out = IF job.fmt = "seal" THEN job.image ELSE <<>>

Next == \/ pbzx_header \/ blocks \/ pbzx_decode \/ cpio_iter \/ read_trailer \/ Udif
        \/ aea_header \/ aea_segment \/ lzss_decompress \/ scan_zip \/ scan_arch
        \/ newest_nxsb \/ omap_lookup \/ SealHead \/ ReadChunk \/ LookAtBlock

Spec == Init /\ [][Next]_vars
-----------------------------------------------------------------------------
(* What the writers put in *)

Whole == job.cut = job.len

\* The bytes a sequence of tokens stands for, each copy looked up in all that
\* came before it: byte n of the output is last in the window at the position
\* it was written to.
WrittenAt(n) == (RingN - RingF + n - 1) % RingN
LastAt(bytes, pos, fill) ==
  LET ns == {n \in DOMAIN bytes : WrittenAt(n) = pos % RingN}
  IN IF ns = {} THEN fill ELSE bytes[Max(ns)]
Expand(bytes, t, fill) ==
  IF t.lit THEN Append(bytes, t.c)
  ELSE FoldLeft(LAMBDA bs, k : Append(bs, LastAt(bs, t.pos + k - 1, fill)), bytes,
                [k \in 1..t.len |-> k])
Text(tokens, fill) == FoldLeft(LAMBDA bytes, t : Expand(bytes, t, fill), <<>>, tokens)

\* The sector the chunk of a part puts at s.
DiskAt(s) == LET over == {x \in Chunks : x.c.kind # "end" /\ s \in Sectors(x.part, x.c)}
             IN IF over = {} THEN {Zeros} ELSE {decode(x.c, s - x.part.start - x.c.sec) : x \in over}

Segments == FlattenSeq([k \in DOMAIN job.clusters |->
                          [n \in DOMAIN job.clusters[k] |-> <<k, n>>]])

\* What was written of the segment x[1], x[2] is what was put in.
AsPutIn(x) == LET seg == job.clusters[x[1]][x[2]] IN ~seg.damaged /\ x[3] = seg.orig
Spoilt == {k \in DOMAIN out : ~AsPutIn(out[k])}
WasDamaged(x) == job.clusters[x[1]][x[2]].damaged
CutFrom(k) == ~Whole /\ job.algo = "-" /\ k..Len(out) \subseteq Spoilt

Members == SelectSeq([k \in DOMAIN job.members |-> k], LAMBDA k : ~job.members[k].trailer)

\* The mapping of the object at the newest transaction not after that of the
\* newest superblock that is whole.
Leaves == UNION {Range(job.nodes[n].entries) : n \in {m \in DOMAIN job.nodes : job.nodes[m].leaf}}
InFile(n) == (n + 1) * BlockSize <= job.cut
NewestXid == LET good == {i \in DOMAIN job.ring :
                            job.ring[i].ok /\ job.ring[i].nxsb /\ InFile(job.ring_at + i - 1)}
                 Newer(i, j) == job.ring[i].xid <= job.ring[j].xid
             IN IF good = {} THEN job.head
                ELSE job.ring[CHOOSE j \in good : \A i \in good : Newer(i, j)].xid
Mappings == {e \in Leaves : e.oid = job.oid /\ e.xid <= NewestXid}
Current == {e.val : e \in {m \in Mappings : \A k \in Mappings : k.xid <= m.xid}}

ToUnseal(n) == InFile(n - 1) /\ Live(job.image[n]) /\ job.image[n].sealed /\ Chosen(n - 1)

\* Header h is read twice by scans that overlap: it ends before a border, and
\* begins at most the overlap before it.
InOverlap(h) == \E b \in 1..(job.cut \div CHUNK) :
                  b * CHUNK - OVERLAP(job.fmt) <= h.at /\ h.at + h.len <= b * CHUNK
Times(h) == Cardinality({k \in DOMAIN out : out[k] = h})

\* The k-th thing put out is the k-th of seq, and only the last may be short.
InOrder(seq) == /\ Len(out) <= Len(seq)
                /\ \A k \in DOMAIN out : out[k][1] = seq[k]

\* At every step what has come out is right: blocks and members in order and
\* as long as they were, only the last of a cut file short (the name of a cut
\* trailer comes out as a member's); every sector that of the chunk that covers
\* it; segments in order and as they were put in, but for damaged ones and the
\* last of a cut file without compression, and under the checksum that is
\* looked at each of those counted; bytes of the text; headers that are there,
\* no member of a zip twice, none else twice but from an overlap; the newest
\* mapping; and no block changed but a sealed one asked for.
NothingWrong ==
  CASE job.fmt \in {"pbzx", "payload"} ->
         /\ InOrder([k \in DOMAIN job.blocks |-> k])
         /\ \A k \in DOMAIN out : /\ out[k][2] <= job.blocks[k].ulen
                                  /\ out[k][2] < job.blocks[k].ulen => ~Whole /\ k = Len(out)
    [] job.fmt = "cpio" ->
         /\ InOrder([k \in DOMAIN job.members |-> k])
         /\ \A k \in DOMAIN out :
              LET m == job.members[k]
              IN (m.trailer \/ out[k][2] < m.name - 1 \/ out[k][3] # m.size) =>
                   ~Whole /\ k = Len(out)
    [] job.fmt = "udif" -> \A s \in DOMAIN out : out[s] \in {Zeros} \cup DiskAt(s)
    [] job.fmt = "aea" ->
         /\ IsPrefix([k \in DOMAIN out |-> <<out[k][1], out[k][2]>>], Segments)
         /\ \A k \in Spoilt : WasDamaged(out[k]) \/ CutFrom(k)
         /\ at.bad = IF job.checksum = 2 THEN Cardinality(Spoilt) ELSE 0
    [] job.fmt = "lzss" -> IsPrefix(out, Text(job.tokens, Space))
    [] job.fmt = "zip" ->
         \A k \in DOMAIN out : /\ out[k] \in job.heads /\ out[k].valid
                              /\ \A j \in DOMAIN out : SameMember(out[j], out[k]) => j = k
    [] job.fmt = "arch" ->
         \A h \in Range(out) : /\ h \in job.heads /\ h.valid
                              /\ Times(h) <= IF InOverlap(h) THEN 2 ELSE 1
    [] job.fmt = "omap" -> \A k \in DOMAIN out : out[k] \in Current
    [] job.fmt = "seal" ->
         \A n \in DOMAIN out : out[n] = job.image[n] \/ (ToUnseal(n) /\ out[n] = Unsealed(job.image[n]))

\* A reader that ends without an error on a whole file has put out all of it:
\* no window border, cluster border, trailing chunk or last token loses any.
\* The reader of clusters, even on a cut file: what it wrote was all there is,
\* unless some of that is spoilt or it was told to stop.
NothingMissed ==
  pc = "done" /\ (Whole \/ job.fmt = "aea") =>
    CASE job.fmt \in {"pbzx", "payload"} -> Len(out) = Len(job.blocks)
      [] job.fmt = "cpio" -> Len(out) = Len(Members)
      [] job.fmt = "udif" -> \A s \in DOMAIN out : out[s] \in DiskAt(s)
      [] job.fmt = "aea" -> Spoilt = {} /\ job.limit = 0 => Len(out) = Len(Segments)
      [] job.fmt = "lzss" -> Len(out) >= job.expected
      [] job.fmt = "zip" -> \A h \in job.heads : h.valid => \E k \in DOMAIN out : SameMember(out[k], h)
      [] job.fmt = "arch" -> \A h \in job.heads : h.valid => h \in Range(out)
      [] job.fmt = "omap" -> (\A n \in DOMAIN job.nodes : job.nodes[n].ok) => Range(out) = Current
      [] job.fmt = "seal" -> \A n \in DOMAIN out : ToUnseal(n) => out[n] = Unsealed(job.image[n])
-----------------------------------------------------------------------------
(* What the docstrings say *)

\* udif.py:11-13, '0xffffffff ends the map': of a chunk behind an end of its
\* part, nothing gets onto the disk.
EndEndsMap ==
  job.fmt = "udif" =>
    \A p \in Range(job.parts) : \A i, j \in DOMAIN p.chunks :
      i < j /\ p.chunks[i].kind = "end" =>
        \A s \in DOMAIN out : out[s][1] # 0 => out[s][1] # p.chunks[j].data

\* ibootim.py:29-31, 'buffer prefilled with zeros rather than spaces': what a
\* match copies from the window before anything was written there is zero.
PrefilledWithZeros == job.fmt = "lzss" => IsPrefix(out, Text(job.tokens, 0))
=============================================================================
