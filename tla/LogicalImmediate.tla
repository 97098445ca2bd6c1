--------------------------- MODULE LogicalImmediate ---------------------------
(***************************************************************************)
(* decode_bitmask of a64_to_x64.py: the value an arm64 logical immediate   *)
(* stands for, as the set of its bits that are one.                        *)
(***************************************************************************)
EXTENDS Integers, FiniteSetsExt

Unallocated == {}  \* None: no value is zero

\* bit_length() - 1: of (n << 6) | (~imms & 0x3f) the highest one
HighestOne(x) == IF x = 0 THEN -1 ELSE Max({k \in 0..6 : 2^k <= x})

\* s + 1 ones, turned right by r within an element, repeated over the width.
decode_bitmask(n, imms, immr, width) ==
  LET length == HighestOne(n * 64 + (63 - imms))
      esize == 2^length
      s == imms % esize
      r == immr % esize
  IN IF length < 1 \/ esize > width \/ s = esize - 1 THEN Unallocated
     ELSE {i \in 0..(width - 1) : (i + r) % esize <= s}

Encodings == {0, 1} \X (0..63) \X (0..63)
Immediates(width) ==
  {decode_bitmask(e[1], e[2], e[3], width) : e \in Encodings} \ {Unallocated}

\* The values the architecture allows: one run of ones, around the end of an
\* element if need be, in elements of every power of two.
Runs(esize) == {{(from + k) % esize : k \in 0..(ones - 1)} :
                  from \in 0..(esize - 1), ones \in 1..(esize - 1)}
Repeated(run, esize, width) == {i \in 0..(width - 1) : i % esize \in run}
Patterns(width) ==
  UNION {{Repeated(run, esize, width) : run \in Runs(esize)} :
           esize \in {e \in {2, 4, 8, 16, 32, 64} : e <= width}}

ASSUME EveryPattern == \A width \in {32, 64} : Immediates(width) = Patterns(width)

\* No w-form reaches beyond its register, and n = 1 is no w-form.
ASSUME NoWideElement ==
  \A imms, immr \in 0..63 : decode_bitmask(1, imms, immr, 32) = Unallocated
=============================================================================
