------------------------------- MODULE Sweep -------------------------------
(***************************************************************************)
(* ibootcore/sweep.py: find the functions of a kext that execute.  Each    *)
(* round patches brk #0 over every function not excluded yet, boots, and   *)
(* records the one that fires; the exclusions live in a JSON file between  *)
(* invocations.  A function is the address of its entry point.             *)
(***************************************************************************)
EXTENDS Integers, Sequences, FiniteSets, FiniteSetsExt

CONSTANTS Table,      \* the words of the __DATA_CONST table, one per 16 bytes
          Anchor,     \* position in Table of TABLE_ANCHOR
          Text,       \* addresses inside the kext's text
          CtorCalls,  \* addresses of its calls of METACLASS_CTOR
          MaxCrashes, \* bound: invocations killed in the middle of save_state
          Nobody      \* no function

ASSUME TableAssumption == /\ Table \in Seq(Nat)
                          /\ Anchor \in DOMAIN Table
                          /\ Table[Anchor] \in Text
                          /\ CtorCalls \subseteq Text
                          /\ Text \subseteq Nat
                          /\ Nobody \notin Nat
ASSUME CrashAssumption == MaxCrashes \in Nat

VARIABLES file,    \* data/sweep-state.json: Absent, Partial or a state
          saving,  \* the state an invocation is writing, Absent if none is
          traps,   \* the functions patched in the kernel image
          next,    \* what the loop of the docstring does next
          fired,   \* what the last boot reported
          runs,    \* the functions that execute when the kernel boots
          crashes  \* invocations killed so far

vars == <<file, saving, traps, next, fired, runs, crashes>>
-----------------------------------------------------------------------------
(***************************************************************************)
(* function_table(): walk away from the anchor in both directions while    *)
(* the words are entry points.  The anchor itself is stepped over.         *)
(***************************************************************************)
Entry(p) == p \in DOMAIN Table /\ Table[p] \in Text

\* The anchor is position Anchor; from it, n positions in direction d.
Walk(d) == {Table[p] : p \in {q \in DOMAIN Table :
              /\ (q - Anchor) * d > 0
              /\ \A r \in DOMAIN Table : (r - Anchor) * d > 0 /\ (q - r) * d >= 0 => Entry(r)}}

function_table == Walk(-1) \cup Walk(1)

\* The entry points there really are.
EntryPoints == function_table \cup {Table[Anchor]}

(***************************************************************************)
(* constructors(): the function a call of the metaclass constructor is in  *)
(* is the last entry of the list at or below it.                           *)
(***************************************************************************)
Owner(fl, addr) == Max({f \in fl : f <= addr})

constructors(fl) ==
  {Owner(fl, addr) : addr \in {a \in CtorCalls : \E f \in fl : f <= a}}

\* The functions still to be trapped.  Mutants: every word is trapped; only
\* the addresses above the last hit are; the exclusions are forgotten.
SelectedText(excluded) == Text \ (excluded \cup constructors(function_table))
SelectedAbove(excluded) == {f \in function_table \ constructors(function_table) :
                              \A e \in excluded : e < f}
SelectedAgain(excluded) == function_table \ constructors(function_table)

Selected(excluded) == function_table \ (excluded \cup constructors(function_table))
-----------------------------------------------------------------------------
Absent == [kind |-> "absent", excluded |-> {}, hits |-> <<>>]
Partial == [Absent EXCEPT !.kind = "partial"]
State(ex, hits) == [kind |-> "state", excluded |-> ex, hits |-> hits]

\* load_state() raises on a file that was cut short.
Readable == file.kind # "partial" /\ saving = Absent

Init == /\ file = Absent
        /\ saving = Absent
        /\ traps = {}
        /\ next = "patch"
        /\ fired = Nobody
        /\ runs \in SUBSET EntryPoints
        /\ crashes = 0

\* sweep.py --patch
Patch == /\ next = "patch"
         /\ Readable
         /\ traps' = Selected(file.excluded)
         /\ next' = "boot"
         /\ UNCHANGED <<file, saving, fired, runs, crashes>>

\* The image is booted.  Threads of the guest run in any order, so any trapped
\* function that executes may be the first; it panics the guest.
Boot == /\ next = "boot"
        /\ IF runs \cap traps = {} THEN fired' = Nobody /\ next' = "stop"
           ELSE fired' \in runs \cap traps /\ next' = "exclude"
        /\ UNCHANGED <<file, saving, traps, runs, crashes>>

\* sweep.py --exclude, the address of the last boot, maybe given twice: a new
\* address is appended and save_state opens the file for writing, which
\* truncates it.  In the mutant a known address is appended too.
Record(f) ==
  /\ saving' = State(file.excluded \cup {f}, Append(file.hits, f))
  /\ file' = Partial
  /\ UNCHANGED <<traps, next, fired, runs, crashes>>

CanExclude == Readable /\ (next = "exclude" \/ (next = "patch" /\ fired # Nobody))

ExcludeTwice == CanExclude /\ Len(file.hits) < 9 /\ Record(fired)

Exclude == CanExclude /\ fired \notin file.excluded /\ Record(fired)

\* json.dump has written the last byte.
Save == /\ saving # Absent
        /\ file' = saving
        /\ saving' = Absent
        /\ next' = "patch"
        /\ UNCHANGED <<traps, fired, runs, crashes>>

\* The invocation is killed between the truncation and the last byte.
Crash == /\ saving # Absent
         /\ crashes < MaxCrashes
         /\ crashes' = crashes + 1
         /\ saving' = Absent
         /\ UNCHANGED <<file, traps, next, fired, runs>>

\* Every later invocation raises until somebody deletes the file.
Discard == /\ file.kind = "partial" /\ saving = Absent
           /\ file' = Absent
           /\ UNCHANGED <<saving, traps, next, fired, runs, crashes>>

Next == Patch \/ Boot \/ Exclude \/ Save \/ Crash \/ Discard

Spec == Init /\ [][Next]_vars /\ WF_vars(Patch \/ Boot \/ Exclude \/ Save \/ Discard)
-----------------------------------------------------------------------------
Executed == (runs \cap function_table) \ constructors(function_table)

TypeOK == /\ \A s \in {file, saving} :
                /\ s.kind \in {"absent", "partial", "state"}
                /\ s.excluded \subseteq Text
                /\ s.hits \in Seq(Text)
          /\ traps \subseteq function_table
          /\ next \in {"patch", "boot", "exclude", "stop"}
          /\ fired \in function_table \cup {Nobody}
          /\ crashes \in 0..MaxCrashes

\* The record is a list of functions that really execute, each once, and it
\* names exactly the exclusions, in every state the file is ever left in.
HitsGenuine ==
  /\ \A k \in DOMAIN file.hits : file.hits[k] \in Executed
  /\ Cardinality(file.excluded) = Len(file.hits)
  /\ file.excluded = {file.hits[k] : k \in DOMAIN file.hits}

\* When a boot fires no trap, the record is the complete list of the functions
\* in the table that execute, even if the file was lost on the way.
Complete == next = "stop" => Executed = {file.hits[k] : k \in DOMAIN file.hits}

\* The loop ends with a boot in which nothing fires, killed invocations or
\* not: no function can fire for ever.
Terminates == <>(next = "stop")

\* "The exclusion list persists between runs": between two invocations the
\* state file can be read.
Persists == saving = Absent => Readable
=============================================================================
