---------------------------- MODULE BisectCalls ----------------------------
(***************************************************************************)
(* ibootcore/bisect_calls.py: find which call of a function never returns, *)
(* by patching brk #0 over its call sites from an index onward, booting    *)
(* and narrowing the interval by the rule of the docstring.                *)
(***************************************************************************)
EXTENDS Integers

CONSTANTS N,     \* the number of call sites, in address order
          Boots  \* the boots a search may take

ASSUME SitesAssumption == N \in Nat \ {0} /\ Boots \in Nat /\ 2^Boots >= N

VARIABLES visited,  \* the call sites the function reaches before it blocks
          block,    \* the one that never returns
          from,     \* --from of the image last written, -1 before the first
          lo, hi,   \* the sites still suspected
          boots     \* boots so far

BCvars == <<visited, block, from, lo, hi, boots>>
-----------------------------------------------------------------------------
Site == 0..N - 1

\* sites[args.start:]: the site at the index is trapped with those after it.
\* Mutants: the sites up to the index; the site before it as well.
trappedUpTo(start) == {s \in Site : s <= start}

trappedBefore(start) == {s \in Site : s >= start - 1}

trapped(start) == {s \in Site : s >= start}

\* Branches may skip sites and loops may revisit them, so the call that blocks
\* need not be the highest one reached.
BCInit == /\ visited \in SUBSET Site
          /\ block \in visited
          /\ from = -1
          /\ lo = 0 /\ hi = N - 1
          /\ boots = 0

\* bisect_calls.py --from k, for the middle of the interval.
PatchFrom == /\ from = -1
             /\ lo < hi
             /\ from' = (lo + hi) \div 2
             /\ UNCHANGED <<visited, block, lo, hi, boots>>

\* "if a trap fires, execution reached call k, so the block is later; if none
\* fires, the block is at or before k".
Narrow(fired) ==
  IF fired THEN lo' = from + 1 /\ UNCHANGED hi ELSE hi' = from /\ UNCHANGED lo

\* The image is booted; a trap fires when any trapped site is reached.
Fired == visited \cap trapped(from) # {}
BootPatched == /\ from # -1
               /\ Narrow(Fired)
               /\ from' = -1
               /\ boots' = boots + 1
               /\ UNCHANGED <<visited, block>>

BCNext == PatchFrom \/ BootPatched

BCSpec == BCInit /\ [][BCNext]_BCvars
-----------------------------------------------------------------------------
\* The rule never gives up the upper end too early: whatever order the calls
\* run in, the blocking call is not above the interval.
UpperBound == block <= hi

\* The last site the function reaches, in address order; it is the one that
\* blocks when nothing branches around or back.
Highest(s) == s \in visited /\ \A v \in visited : v <= s

\* The search is over after log2 N boots, and then the interval names the last
\* site reached or the one after it, whatever the function's branches do.
Settles == /\ boots <= Boots
           /\ boots = Boots => lo = hi
           /\ lo = hi => \E s \in {hi - 1, hi} : Highest(s)

\* "if a trap fires, execution reached call k, so the block is later; [...] Six
\* boots settle forty calls": in a function without branches the search ends
\* on the call that blocks.
SettlesExactly == boots = Boots /\ visited = 0..block => block = hi
=============================================================================
