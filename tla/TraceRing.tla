----------------------------- MODULE TraceRing -----------------------------
(***************************************************************************)
(* ibootcore/trace_wait.py: emit() plants a detour on assert_wait that     *)
(* appends (thread, event, caller) to a ring in guest memory.  The detour  *)
(* takes no lock, so every processor, and every thread preempted inside    *)
(* it, is a flow of control of its own.  One action is one access to       *)
(* shared memory with the register-only instructions that follow it.       *)
(***************************************************************************)
EXTENDS Integers, FiniteSets

CONSTANTS Flows,     \* flows of control that can be in the detour at once
          Ring,      \* RING, a power of two in the code
          MaxBlocks, \* bound: calls of assert_wait
          Nothing    \* memory nobody has written, and registers with leftovers

ASSUME RingAssumption == Ring \in Nat \ {0}
ASSUME BlocksAssumption == MaxBlocks \in Nat /\ Nothing \notin Nat

Block == 1..MaxBlocks
Field == {"thread", "event", "caller"}

\* RING_LIMIT_WORD is cmp x8, #16, lsl #12: 65536, twice RING.
Limit == 2 * Ring

VARIABLES wrap,    \* WRAP, which the command line sets once for all stubs
          idx,     \* the index word at the start of the scratch range
          mem,     \* mem[s][fld]: the block whose field is stored in slot s
          pc,      \* what each flow does next
          blk,     \* the call of assert_wait each flow is recording
          x8,      \* register x8 of each flow, before it is masked
          started, \* calls of assert_wait so far
          claim,   \* history: the index each call stored
          done,    \* history: the calls recorded completely
          raced    \* history: an index or an entry was overwritten by mistake

ringvars == <<wrap, idx, mem, pc, blk, x8, started, claim, done, raced>>
-----------------------------------------------------------------------------
Slots == 0..(MaxBlocks + Limit)

(***************************************************************************)
(* Where the three stores of an entry go, and what they write.  Wrapping   *)
(* masks the index.  One-shot compares it with the limit; b.hs +4 then     *)
(* skips mrs, mov and add but not the stores, which use the unscaled base  *)
(* (slot 0) and whatever x10 and x11 held.                                 *)
(***************************************************************************)
Skips(v) == ~wrap /\ v >= Limit

\* Mutants of Slot: the index is not masked; one-shot masks it too.
SlotUnmasked(v) == v
SlotMasked(v) == v % Ring

Slot(v) == IF wrap THEN v % Ring ELSE IF Skips(v) THEN 0 ELSE v

Content(f, fld) == IF Skips(x8[f]) /\ fld # "caller" THEN Nothing ELSE blk[f]

\* The flow is past its claim and still has stores to do.
Storing(f) == pc[f] \in Field

RingInit == /\ wrap \in BOOLEAN
            /\ idx = 0
            /\ mem = [s \in Slots |-> [fld \in Field |-> Nothing]]
            /\ pc = [f \in Flows |-> "idle"]
            /\ blk = [f \in Flows |-> 0]
            /\ x8 = [f \in Flows |-> 0]
            /\ started = 0
            /\ claim = [b \in Block |-> 0]
            /\ done = {}
            /\ raced = FALSE

\* assert_wait is called and branches to the cave; adrp and add find x9.
Call(f) == /\ pc[f] = "idle"
           /\ started < MaxBlocks
           /\ started' = started + 1
           /\ blk' = [blk EXCEPT ![f] = started + 1]
           /\ pc' = [pc EXCEPT ![f] = "ldr"]
           /\ UNCHANGED <<wrap, idx, mem, x8, claim, done, raced>>

\* ldr x8, [x9]; add x8, x8, #inc
Load(f, inc) == /\ pc[f] = "ldr"
                /\ x8' = [x8 EXCEPT ![f] = idx + inc]
                /\ pc' = [pc EXCEPT ![f] = "str"]
                /\ UNCHANGED <<wrap, idx, mem, blk, started, claim, done, raced>>

\* Mutants of Ldr: the index advances by the sixteen-byte units of an entry;
\* the addition is encoded as a subtraction.
LdrTwice(f) == Load(f, 2)
LdrBackwards(f) == Load(f, -1)

Ldr(f) == Load(f, 1)

\* str x8, [x9], then the mask or the comparison, and the entry's address.
\* An increment of another flow since ldr is lost.
Str(f) == /\ pc[f] = "str"
          /\ idx' = x8[f]
          /\ claim' = [claim EXCEPT ![blk[f]] = x8[f]]
          /\ raced' = (raced \/ idx # x8[f] - 1)
          /\ pc' = [pc EXCEPT ![f] = "thread"]
          /\ UNCHANGED <<wrap, mem, blk, x8, started, done>>

\* The order of the three stores.  In the mutant the second one is missing.
AfterSkipping(fld) == IF fld = "thread" THEN "caller" ELSE "idle"

After(fld) == CASE fld = "thread" -> "event"
                [] fld = "event"  -> "caller"
                [] OTHER          -> "idle"

\* str x10 / x11 / x30, [x9, #32 / #40 / #48]; after the last one the
\* displaced instruction runs and the detour branches back.  A flow that the
\* others have lapped overwrites a newer entry.
Store(f) ==
  /\ Storing(f)
  /\ mem' = [mem EXCEPT ![Slot(x8[f])][pc[f]] = Content(f, pc[f])]
  /\ raced' = (raced \/ (wrap /\ idx >= x8[f] + Ring))
  /\ pc' = [pc EXCEPT ![f] = After(pc[f])]
  /\ done' = IF pc[f] = "caller" THEN done \cup {blk[f]} ELSE done
  /\ UNCHANGED <<wrap, idx, blk, x8, started, claim>>

RingNext == \E f \in Flows : Call(f) \/ Ldr(f) \/ Str(f) \/ Store(f)

RingSpec == RingInit /\ [][RingNext]_ringvars
-----------------------------------------------------------------------------
Whole(s, b) == \A fld \in Field : mem[s][fld] = b

RingTypeOK == /\ wrap \in BOOLEAN
              /\ idx \in Nat
              /\ mem \in [Slots -> [Field -> Block \cup {Nothing}]]
              /\ pc \in [Flows -> {"idle", "ldr", "str"} \cup Field]
              /\ blk \in [Flows -> {0} \cup Block]
              /\ x8 \in [Flows -> Nat]
              /\ started \in 0..MaxBlocks
              /\ claim \in [Block -> Nat]
              /\ done \subseteq Block
              /\ raced \in BOOLEAN

\* Whatever the interleaving, the index never counts more calls than stored
\* it: a lost increment makes it fall behind, nothing makes it run ahead.
Claimed == {b \in Block : claim[b] # 0}
NeverAhead == idx <= Cardinality(Claimed)

\* Whatever the interleaving, a wrapping ring writes slots below Ring only.
InRing == wrap => \A s \in Slots : s >= Ring => Whole(s, Nothing)

\* "Wrapping keeps the last RING": unless an increment was lost or a flow was
\* lapped, each of the last Ring claims that was recorded is in its slot whole.
KeepsLast ==
  wrap /\ ~raced => \A b \in done : claim[b] + Ring > idx => Whole(claim[b] % Ring, b)

\* "One-shot keeps the first RING blocks": unless an increment was lost, every
\* call recorded below the limit keeps its slot, whatever comes later.
KeepsFirst ==
  ~wrap /\ ~raced => \A b \in done : claim[b] < Limit => Whole(claim[b], b)
=============================================================================
