------------------------------ MODULE Checksums ------------------------------
(***************************************************************************)
(* The checksums of apfs_seal.py, apfs_omap.py and nvram_image.py, and the *)
(* partitions nvram_image lays out, each against what its reader relies on *)
(***************************************************************************)
EXTENDS Integers, Sequences, FiniteSetsExt, SequencesExt

(* fletcher64 of words, in a modulus m (2^32 - 1 in the code)              *)

FletcherSums(words, m) ==
  FoldLeft(LAMBDA s, w : LET one == (s[1] + w) % m IN <<one, (s[2] + one) % m>>, <<0, 0>>, words)

\* <<low word, high word>>
fletcher64(words, m) ==
  LET s == FletcherSums(words, m)
      c1 == m - ((s[1] + s[2]) % m)
      c2 == m - ((s[1] + c1) % m)
  IN <<c1, c2>>

Bodies(m) == UNION {[1..n -> 0..m] : n \in 0..4}

\* Summed on through its own checksum a block gives zero, whatever is in it,
\* a word of all ones among the rest.
ASSUME FletcherCloses ==
  \A body \in Bodies(4) : FletcherSums(body \o fletcher64(body, 4), 4) = <<0, 0>>

\* Clearing a flag never leaves the checksum as it was.
ASSUME FletcherSeesOneWord ==
  \A body \in Bodies(3) : \A k \in DOMAIN body, w \in 0..3 :
    w % 3 # body[k] % 3 => fletcher64([body EXCEPT ![k] = w], 3) # fletcher64(body, 3)
-----------------------------------------------------------------------------
(* chrp_checksum: a sum of bytes with end-around carry                     *)

EndAround(t) == LET f[n \in 0..t] == IF n > 255 THEN f[(n % 256) + (n \div 256)] ELSE n IN f[t]
chrp_checksum(sig, len, name) ==
  EndAround(sig + (len % 256) + (len \div 256) + FoldLeft(LAMBDA a, b : a + b, 0, name))

\* The sum modulo 255, where only an empty sum is zero: a header of one
\* checksum never passes for one of zeros.
ASSUME EndAroundIsModulo ==
  \A t \in 0..3840 : EndAround(t) = IF t = 0 THEN 0 ELSE ((t - 1) % 255) + 1
-----------------------------------------------------------------------------
(* nvram_image.build: offsets and lengths, in blocks of 16 bytes           *)

APPLE_BLOCKS == 2

\* The Apple header, then a system and a common partition.
nvram_partitions(blocks) ==
  LET remaining == blocks - APPLE_BLOCKS
      system == remaining \div 2
  IN <<[at |-> 0, len |-> APPLE_BLOCKS], [at |-> APPLE_BLOCKS, len |-> system],
       [at |-> APPLE_BLOCKS + system, len |-> remaining - system]>>

\* Followed by their lengths, the headers lead from one to the next and to
\* the end of the store, and each has a block of its own.  (With three blocks
\* the system partition has none, and the common header replaces its.)
Chained(blocks) ==
  LET p == nvram_partitions(blocks)
  IN /\ \A k \in 1..2 : p[k + 1].at = p[k].at + p[k].len
     /\ p[3].at + p[3].len = blocks
     /\ \A k \in 1..3 : p[k].len >= 1
ASSUME PartitionsChain == \A blocks \in 4..2048 : Chained(blocks)
ASSUME NoneInThree == ~Chained(3)
=============================================================================
