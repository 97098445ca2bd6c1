----------------------------- MODULE MCDecoders -----------------------------
(***************************************************************************)
(* Small files of every kind, whole and cut: streams, archives, pictures   *)
(* and disks at every length, raw images at the borders of the real        *)
(* windows, files of blocks around the borders of their blocks.  Trees of  *)
(* two levels; an lzss window of sixteen bytes.                            *)
(***************************************************************************)
EXTENDS Decoders, Checksums

Cut(j, at_) == [f \in DOMAIN j \cup {"cut"} |-> IF f = "cut" THEN at_ ELSE j[f]]
EveryCut(js) == UNION {{Cut(j, c) : c \in 0..j.len} : j \in js}
Uncut(js) == {Cut(j, j.len) : j \in js}

Block(u, c) == [ulen |-> u, clen |-> c, stored |-> u = c]
StreamLen(bs) == 12 + Total(bs, LAMBDA b : 16 + b.clen)
Streams == {<<>>, <<Block(9, 4), Block(6, 6)>>, <<Block(5, 5), Block(8, 3), Block(2, 2)>>}
PbzxFiles == {[fmt |-> f, blocks |-> bs, len |-> StreamLen(bs)] :
                f \in {"pbzx", "payload"}, bs \in Streams}

Member(kind, name, size) == [kind |-> kind, name |-> name, size |-> size, trailer |-> FALSE]
Trailer(kind) == [kind |-> kind, name |-> 11, size |-> 0, trailer |-> TRUE]
Archives == UNION {{<<Member(k, 4, 5), Member(k, 7, 0), Trailer(k)>>, <<Member(k, 5, 3)>>,
                    <<Member(k, 2, 9), Member(k, 3, 2)>>} : k \in {"newc", "odc"}}
CpioFiles == {[fmt |-> "cpio", members |-> ms, len |-> FoldLeft(MemberEnd, 0, ms)] : ms \in Archives}

Chunk(kind, sec, cnt, data) == [kind |-> kind, sec |-> sec, cnt |-> cnt, data |-> data]
End == Chunk("end", 0, 0, 0)
Maps == {<<[start |-> 0, chunks |-> <<Chunk("raw", 0, 2, 1), Chunk("zero", 2, 1, 0), End>>],
           [start |-> 3, chunks |-> <<Chunk("zlib", 1, 2, 2), Chunk("ignore", 0, 1, 0), End>>]>>,
         <<[start |-> 2, chunks |-> <<End, Chunk("lzfse", 0, 3, 3)>>],
           [start |-> 0, chunks |-> <<Chunk("raw", 1, 1, 4)>>]>>,
         <<[start |-> 0, chunks |-> <<Chunk("raw", 0, 1, 1), Chunk("adc", 1, 1, 2)>>]>>}
Disks == {[fmt |-> "udif", parts |-> ps, len |-> 600] : ps \in Maps}

Seg(orig, enc) == [orig |-> orig, enc |-> enc, damaged |-> FALSE, gives |-> orig]
Damaged(orig, enc, gives) == [orig |-> orig, enc |-> enc, damaged |-> TRUE, gives |-> gives]
\* Stored or not; damaged so that nothing decompresses, or the wrong bytes, or
\* too few, or too many.
Packed == {<<<<Seg(8, 5), Seg(8, 8)>>, <<Seg(8, 3), Seg(2, 2)>>>>,
           <<<<Damaged(8, 8, 8), Seg(8, 4)>>, <<Seg(8, 7)>>>>,
           <<<<Damaged(8, 6, Raises)>>>>,
           <<<<Damaged(8, 6, 8), Damaged(8, 8, 8)>>, <<Seg(4, 4)>>>>,
           <<<<Seg(8, 6), Damaged(8, 6, 3)>>, <<Seg(8, 5)>>>>,
           <<<<Damaged(8, 6, 16), Seg(8, 4)>>>>}
Unpacked == {<<<<Seg(8, 8), Seg(8, 8)>>, <<Damaged(4, 4, 4)>>>>, <<<<Seg(8, 8)>>, <<Seg(3, 3)>>>>}
ArchiveLen(cs, spc) ==
  FIRST_CLUSTER + Total(cs, LAMBDA c : spc * 72 + 32 + Total(c, LAMBDA s : s.enc))
Aea(cs, algo, checksum, limit) ==
  [fmt |-> "aea", spc |-> 2, clusters |-> cs, len |-> ArchiveLen(cs, 2), algo |-> algo,
   checksum |-> checksum, limit |-> limit,
   original |-> Total(cs, LAMBDA c : Total(c, LAMBDA s : s.orig))]
AeaFiles == {Aea(cs, "e", k, n) : cs \in Packed, k \in {0, 2}, n \in {0, 1}}
            \cup {Aea(cs, "-", k, 0) : cs \in Unpacked, k \in {0, 2}}

Lit(c) == [lit |-> TRUE, c |-> c]
Copy(pos, len) == [lit |-> FALSE, pos |-> pos, len |-> len]
FlagByte(ts) == FoldLeft(LAMBDA n, k : n + (IF ts[k].lit THEN 2^(k - 1) ELSE 0), 0,
                         [k \in DOMAIN ts |-> k])
TokenBytes(t) == IF t.lit THEN <<t.c>> ELSE <<t.pos, t.len - THRESHOLD - 1>>
Group(ts) == <<FlagByte(ts)>> \o FlattenSeq([k \in DOMAIN ts |-> TokenBytes(ts[k])])
Encode(ts) == IF Len(ts) <= 8 THEN Group(ts)
              ELSE Group(SubSeq(ts, 1, 8)) \o Group(SubSeq(ts, 9, Len(ts)))
Pictures == {<<Lit(1), Lit(2), Copy(12, 4), Copy(0, 3), Lit(3), Copy(14, 4), Copy(1, 3), Lit(4),
               Copy(3, 4), Lit(5), Copy(9, 3)>>,
             <<Copy(5, 3), Lit(7), Lit(8), Lit(9), Lit(1), Lit(2), Lit(3), Lit(4), Lit(5)>>,
             <<Lit(6)>>}
LzssFiles == {[fmt |-> "lzss", tokens |-> ts, src |-> Encode(ts), len |-> Len(Encode(ts)),
               expected |-> Len(Text(ts, Space))] : ts \in Pictures}

MiB8 == 8 * 1024 * 1024
Header(at_, name, len, kind) ==
  [at |-> at_, name |-> name, size |-> 7, len |-> len, kind |-> kind, valid |-> TRUE]
Across == Header(MiB8 - 20, 2, 32, "thin64")
Heads == {Header(100, 1, 48, "fat"), Across, Header(MiB8 - 4000, 3, 72, "fat64"),
          Header(MiB8 - 48, 7, 48, "fat"), Header(MiB8 - 4090, 7, 32, "thin64"),
          [Header(MiB8, 4, 4126, "fat") EXCEPT !.valid = FALSE],
          Header(2 * MiB8 - 1, 5, 1032, "fat64"),
          Header(2 * MiB8 + 9000, 2, 32, "thin64"), Header(2 * MiB8 + 11968, 6, 32, "thin64")}
Images == {[fmt |-> f, heads |-> hs, len |-> 2 * MiB8 + 12000] :
             f \in {"zip", "arch"}, hs \in {Heads, Heads \ {Across}}}
ImageCuts == Uncut(Images) \cup
             {Cut(j, c) : j \in Images, c \in {0, 120, MiB8 - 1, MiB8 + 10, 2 * MiB8 + 11980}}

Entry(oid, xid, val) == [oid |-> oid, xid |-> xid, val |-> val]
Leaf(es) == [ok |-> TRUE, leaf |-> TRUE, entries |-> es]
Root(es) == [ok |-> TRUE, leaf |-> FALSE, entries |-> es]
Mapped == <<Entry(2, 1, 21), Entry(2, 4, 24), Entry(3, 2, 32), Entry(3, 6, 36), Entry(5, 3, 53)>>
Split(n) == (1 :> Root(<<Entry(Mapped[1].oid, Mapped[1].xid, 2),
                         Entry(Mapped[n + 1].oid, Mapped[n + 1].xid, 3)>>))
            @@ (2 :> Leaf(SubSeq(Mapped, 1, n))) @@ (3 :> Leaf(SubSeq(Mapped, n + 1, 5)))
Torn(nodes) == [nodes EXCEPT ![3].ok = FALSE]
Super(ok, nxsb, xid) == [ok |-> ok, nxsb |-> nxsb, xid |-> xid]
Rings == {<<Super(TRUE, TRUE, 2), Super(TRUE, FALSE, 9), Super(TRUE, TRUE, 5), Super(FALSE, TRUE, 8)>>,
          <<Super(TRUE, TRUE, 7), Super(TRUE, TRUE, 3)>>, <<Super(FALSE, TRUE, 4)>>}
Trees == {Split(n) : n \in 1..4} \cup {Torn(Split(n)) : n \in 1..4} \cup {1 :> Leaf(Mapped)}
\* The ring before the tree, or behind it.
ObjectMap(t, r, o, ringFirst) ==
  [fmt |-> "omap", nodes |-> t, root |-> 1, ring |-> r, head |-> 1, oid |-> o,
   ring_at |-> IF ringFirst THEN 1 ELSE 1 + Cardinality(DOMAIN t),
   tree_at |-> IF ringFirst THEN 1 + Len(r) ELSE 1,
   len |-> (1 + Len(r) + Cardinality(DOMAIN t)) * BlockSize]
Maps2 == {ObjectMap(t, r, o, b) : t \in Trees, r \in Rings, o \in 1..6, b \in BOOLEAN}

Vol(apsb, ok, sealed) == [apsb |-> apsb, ok |-> ok, sealed |-> sealed]
Sealed == Vol(TRUE, TRUE, TRUE)
Data == Vol(FALSE, TRUE, TRUE)
Volumes == {<<Data, Sealed, Data, Vol(TRUE, FALSE, TRUE), Sealed, Data, Vol(TRUE, TRUE, FALSE), Sealed>>,
            <<Data, Data, Sealed, Sealed, Sealed, Data, Sealed>>}
SealRuns == {[fmt |-> "seal", image |-> v, only |-> bs, len |-> Len(v) * BlockSize] :
               v \in Volumes, bs \in {{}, {4}, {1, 6}}}

\* Within a block: nothing of it, not a checksum, not a word, the head's fields.
BlockCuts(js) ==
  UNION {{Cut(j, n * BlockSize + d) :
            n \in 0..(j.len \div BlockSize - 1), d \in {0, 7, 8, 35, 36, 47, 48, 191, 192, BlockSize - 1}} : j \in js}

SomeJobs == EveryCut(PbzxFiles \cup CpioFiles \cup LzssFiles \cup Disks \cup AeaFiles)
            \cup ImageCuts \cup Uncut(Maps2 \cup SealRuns)
            \cup BlockCuts({j \in Maps2 : j.oid \in {3, 4} /\ j.nodes \in {Split(2), Torn(Split(3))}})
            \cup BlockCuts(SealRuns)
DocJobs == Uncut(Disks \cup LzssFiles)
=============================================================================
