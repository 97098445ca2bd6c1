------------------------------ MODULE A64ToX64 ------------------------------
(***************************************************************************)
(* The program translate() emits, run one host instruction per step;       *)
(* flushing what is left of the current list gives the guest registers it  *)
(* stands for.                                                             *)
(***************************************************************************)
EXTENDS Translation

CONSTANT StackTop  \* the guest's stack pointer at the start

ASSUME StackAssumption == StackTop \in Word

VARIABLES host,  \* contents of the host locations
          pend,  \* host instructions of the current translation still to run
          cur    \* the guest instruction they translate

vars == <<host, pend, cur>>
-----------------------------------------------------------------------------
Init == /\ host \in [Locs -> Word]
        /\ host[Slot(31)] = StackTop
        /\ pend = <<>>
        /\ cur = NoInstr

\* Mutant of Fetch: the next translation is queued before this one is done.
FetchEarly(i) == pend' = pend \o Translate(i) /\ cur' = i /\ UNCHANGED host

\* Control reaches the next translated guest instruction.
Fetch(i) == /\ cur = NoInstr
            /\ pend' = Translate(i)
            /\ cur' = i
            /\ UNCHANGED host

\* div by zero raises #DE: the translation has nothing to handle it with.
Faults(o) == o.op \in {"div", "idiv"} /\ Val(host, o.src) = 0

RunOp == /\ pend # <<>>
         /\ ~Faults(Head(pend))
         /\ host' = Exec(host, Head(pend))
         /\ pend' = Tail(pend)
         /\ UNCHANGED cur

\* The translation has run to its end; the next one follows it in memory.
Retire == /\ pend = <<>>
          /\ cur # NoInstr
          /\ cur' = NoInstr
          /\ UNCHANGED <<host, pend>>

Next == RunOp \/ Retire \/ \E i \in Instrs : Fetch(i)

Spec == Init /\ [][Next]_vars /\ WF_vars(RunOp \/ Retire)
-----------------------------------------------------------------------------
Oracle == INSTANCE ArmModel WITH x <- View(Flush(host, pend)), ir <- cur

\* The translated program implements the interpreter: every guest
\* instruction leaves the guest registers as arm_model.step does.
ImplementsOracle == Oracle!Spec

\* translate()'s contract, "Raises Unsupported for instructions with no
\* meaning-preserving equivalent": from any state between two guest
\* instructions, running a translation to its end is one oracle step.
MeaningPreserved ==
  cur = NoInstr => \A i \in Instrs :
                   View(Flush(host, Translate(i))) = Step(View(host), i)

\* Types of the variables, and the bound on the length of a translation.
TypeOK == /\ host \in [Locs -> Word]
          /\ pend \in Seq([op : HostOps, dst : Locs, src : Locs \cup {Imm(v) : v \in Word}])
          /\ Len(pend) <= MaxOps
          /\ cur \in Instrs \cup {NoInstr}

\* "x86 cannot encode a memory-to-memory move": no emitted instruction has
\* two spilled operands, and IMUL, LZCNT and BSWAP write a register.
Encodable == \A k \in 1..Len(pend) : EncodableOp(pend[k])
=============================================================================
