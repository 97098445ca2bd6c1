------------------------------ MODULE TextPatches ------------------------------
(***************************************************************************)
(* The tools that rewrite the kernel's text, run one after another in any  *)
(* order, each on what the one before it wrote: the three that answer      *)
(* hypercalls (stub_hypercalls.py, stub_scratch.py, hvc_impl.py), the      *)
(* named patches of patch.py, the three that divert an instruction into a  *)
(* stub in the padding (cond_trap.py, null_guard.py, trace_wait.py) and    *)
(* the routine early_console.py writes over the kernel's print routine.    *)
(*                                                                         *)
(* The kernel file is a sequence of words; an address is an index of it,   *)
(* as the collection maps one to one.  A word is a record of its           *)
(* operation and, for a branch, the distance in words.  How the patched    *)
(* kernel behaves is found by running it: Run is the processor.            *)
(*                                                                         *)
(* The branches reach everywhere: text is smaller than 128 MiB.            *)
(***************************************************************************)
EXTENDS TextRun, FiniteSets

CONSTANTS
  Kernels,       \* kernel files, of one length and with one text segment
  TextEnd,       \* the text segment __TEXT_EXEC is 1..TextEnd
  Boot, BootEnd, \* a routine that makes hypercalls, and its return
  PvSite,        \* PATCHES["skip-pv-pac"]: the address patch.py knows
  Guarded,       \* null_guard --func
  Calls,         \* cond_trap --at
  Targets,       \* trace_wait --func or --at
  Printer,       \* early_console --at
  RingEntries,   \* RING of trace_wait.py
  Entries,       \* the routines whose behaviour must be kept
  Chars, Busy,   \* the longest string printed, and how often the port is read full
  Fuel           \* an upper bound on the steps of a run

VARIABLES
  was,           \* the kernel before any tool
  image,         \* the file the last tool wrote
  applied,       \* the tools that have been run
  stubs,         \* the addresses each diversion's stub took, in order
  moved          \* the words that were moved to a stub: [word, aligned]

vars == <<was, image, applied, stubs, moved>>

Size == Len(was)
Text == 1..TextEnd

W(op) == [op |-> op]
To(op, from, target) == [op |-> op, d |-> target - from]

\* (mutant) inserting where the tools overwrite
PutInserting(img, a, ws) == SubSeq(img, 1, a - 1) \o ws \o SubSeq(img, a, Len(img))

\* Write the words ws from address a on.
Put(img, a, ws) == [i \in 1..Len(img) |->
                      IF i \in a..(a + Len(ws) - 1) THEN ws[i - a + 1] ELSE img[i]]

\* The operations of words, and those a word of the text may have that is not
\* an instruction.
Ops == {"work", "str_x0", "mov_x0", "adr", "nop", "save", "record", "uart_address",
        "hvc", "movz_0", "adrp_x0", "cbnz_self", "cbz", "load", "b", "bl", "pacibsp",
        "stp_frame", "ldp_frame", "ret", "retab", "ldrb_x0", "cbz_char", "ldr_fr",
        "tbnz_full", "str_dr", "zero", "literal", "garbage"}
Padding == {"zero", "literal"}

ASSUME KernelAssumption ==
  \A k \in Kernels :
    /\ Len(k) \in Nat /\ k = [i \in 1..Len(k) |-> k[i]]
    /\ \A i \in 1..Len(k) : k[i].op \in Ops /\ (k[i].op = "bl" => k[i].d \in Int)

ASSUME AddressAssumption ==
  /\ TextEnd \in Nat
  /\ \A k \in Kernels : Len(k) >= TextEnd
  /\ RingEntries \in Nat
  /\ {Boot, PvSite, Guarded, Guarded + 3, Printer} \cup Calls \cup Targets \cup Entries
       \subseteq Text

\* The words that are moved into a stub are instructions.
ASSUME SiteAssumption ==
  \A k \in Kernels, site \in {Guarded + 3} \cup Targets : k[site].op \notin Padding

\* What the console's routine is written over, and the words a routine has
\* that the tools answering hypercalls leave alone.
PrintArea == Printer..(Printer + 10)
Ordinary == Ops \ ({"hvc", "movz_0", "cbnz_self", "garbage"} \cup Padding)
Undisturbed(k, p) == p \in Text \ (PrintArea \cup {PvSite}) /\ k[p].op \in Ordinary

\* The sites of the tools: patch.py's and the console's lie in code; the
\* others have nothing to do with either, and no hypercall is diverted.  The
\* routine that is guarded begins as the tool expects, a call is a call, and a
\* trace inside the console is of its first word.
Straight == {"work", "nop", "save"}
ASSUME RoutineAssumption ==
  \A k \in Kernels :
    /\ \A p \in PrintArea \cup {PvSite} : p \in 1..Len(k) => k[p].op \notin Padding
    /\ PvSite \notin PrintArea
    /\ \A p \in Guarded..(Guarded + 3) : Undisturbed(k, p)
    /\ k[Guarded].op = "pacibsp" /\ k[Guarded + 1].op = "stp_frame"
    /\ k[Guarded + 2].op \in Straight
    /\ \A p \in Calls : Undisturbed(k, p) /\ k[p].op = "bl"
    /\ Targets \cap PrintArea \subseteq {Printer}

\* The routine that makes hypercalls: straight on to its return, a word that
\* spins only after a hypercall, and nothing that is diverted.
ASSUME BootAssumption ==
  /\ Boot..BootEnd \subseteq Text \ (Calls \cup Targets \cup PrintArea \cup {Guarded + 3})
  /\ BootEnd \in Text /\ Boot <= BootEnd /\ PvSite # BootEnd
  /\ \A k \in Kernels :
       /\ k[BootEnd].op = "ret"
       /\ \A i \in Boot..(BootEnd - 1) :
            /\ k[i].op \in Straight \cup {"str_x0", "mov_x0", "hvc", "cbnz_self"}
            /\ k[i].op = "cbnz_self" => i > Boot /\ k[i - 1].op = "hvc"

-----------------------------------------------------------------------------
(* Hypercalls: find the sites, answer them *)

IsHvc(img, i) == i < Len(img) /\ img[i].op = "hvc"
SpinsNext(img, i) == img[i + 1].op = "cbnz_self"

classify(img, i) ==
  CASE img[i + 1].op \in {"cbnz_self", "cbz"} -> "checker"
    [] img[i + 1].op \in {"str_x0", "mov_x0"} -> "consumer"
    [] OTHER -> "other"

\* stub_hypercalls: only in executable segments, only hvc ; cbnz x0, .
find_sites(img) == {i \in Text : i + 1 \in Text /\ IsHvc(img, i) /\ SpinsNext(img, i)}

Answer(sites) == [i \in 1..Size |-> IF i \in sites THEN W("movz_0") ELSE image[i]]

StubHypercalls ==
  /\ image' = Answer(find_sites(image))
  /\ applied' = applied \cup {"stub_hypercalls"}
  /\ UNCHANGED <<was, stubs, moved>>

\* hvc_impl goes over the whole file, data included, by what follows the call.
HvcImpl ==
  /\ image' = Answer({i \in 1..Size : IsHvc(image, i) /\ classify(image, i) = "checker"})
  /\ applied' = applied \cup {"hvc_impl"}
  /\ UNCHANGED <<was, stubs, moved>>

\* stub_scratch accepts the call or the zero an earlier tool left in its place,
\* and takes the check away with it.
ScratchSites(img) == {i \in Text : /\ i + 1 \in Text
                                   /\ img[i].op \in {"hvc", "movz_0"}
                                   /\ SpinsNext(img, i)}

\* (mutant) the check stays, as the header of stub_scratch.py warns
StubScratchKeepingCheck ==
  /\ image' = [i \in 1..Size |-> IF i \in ScratchSites(image) THEN W("adrp_x0") ELSE image[i]]
  /\ applied' = applied \cup {"stub_scratch"}
  /\ UNCHANGED <<was, stubs, moved>>

StubScratch ==
  /\ LET sites == ScratchSites(image)
     IN image' = [i \in 1..Size |->
                    CASE i \in sites -> W("adrp_x0")
                      [] i - 1 \in sites -> W("nop")
                      [] OTHER -> image[i]]
  /\ applied' = applied \cup {"stub_scratch"}
  /\ UNCHANGED <<was, stubs, moved>>

\* patch.py writes the word wherever the address is, whatever is there.
Patch ==
  /\ PvSite \in 1..Size
  /\ image' = [image EXCEPT ![PvSite] = W("movz_0")]
  /\ applied' = applied \cup {"patch"}
  /\ UNCHANGED <<was, stubs, moved>>

-----------------------------------------------------------------------------
(* Padding *)

Zeros(img, i, n) == \A j \in i..(i + n - 1) : j \in Text /\ img[j].op = "zero"

RunStart(img, i) == CHOOSE s \in 1..i : /\ Zeros(img, s, i - s + 1)
                                        /\ s = 1 \/ img[s - 1].op # "zero"

Distance(a, b) == IF a > b THEN a - b ELSE b - a

\* (mutant) the count is not reset by a word that is not zero
FindPaddingNoReset(img, want, near) ==
  LET found == {i \in Text : i + want - 1 \in Text /\ img[i].op = "zero"}
  IN IF found = {} THEN 0 ELSE CHOOSE a \in found : TRUE

\* The scan counts a run of zeros and starts to count again after each find,
\* so only every want-th word of a run is considered; of those the one closest
\* to the site, the first of two.  0: there is none.
find_padding(img, want, near) ==
  LET found == {i \in Text : /\ Zeros(img, i, want)
                             /\ (i - RunStart(img, i)) % want = 0}
      nearer(a, b) == \/ Distance(a, near) < Distance(b, near)
                      \/ Distance(a, near) = Distance(b, near) /\ a <= b
  IN IF found = {} THEN 0 ELSE CHOOSE a \in found : \A b \in found : nearer(a, b)

\* trace_wait: the first 64 zero bytes of the text.  The search is by bytes: a
\* run after a literal that ends in zero bytes is found inside the literal.
ZeroTail(w) == w.op = "literal"
CaveWords == 16
find_run(img) ==
  LET found == {i \in Text : Zeros(img, i, CaveWords)}
      first == CHOOSE a \in found : \A b \in found : a <= b
  IN CASE found = {} -> 0
       [] found # {} /\ first > 1 /\ ZeroTail(img[first - 1]) -> first - 1
       [] OTHER -> first

Aligned(img, cave) == ~ZeroTail(img[cave])

\* The zeros of the data segment that are to hold the ring, when no reserved
\* address is given.
Reserve == 4 + 4 * RingEntries
ScratchFound(img) == \E i \in (TextEnd + 1)..(Size - Reserve + 1) :
                       \A j \in i..(i + Reserve - 1) : img[j].op = "zero"

-----------------------------------------------------------------------------
(* Diversions: a branch at the site, a stub in the padding *)

Divert(tool, site, cave, words) ==
  /\ image' = [Put(image, cave, words) EXCEPT ![site] = To("b", site, cave)]
  /\ applied' = applied \cup {tool}
  /\ stubs' = Append(stubs, cave..(cave + Len(words) - 1))
  /\ UNCHANGED was

\* (mutant) the stub branches back to the call instead of past it
CondTrapBackToCall(site) ==
  LET stub == find_padding(image, 8, site)
  IN /\ image[site].op = "bl"
     /\ stub # 0
     /\ Divert("cond_trap", site, stub,
               <<[op |-> "cbz", d |-> 4], To("bl", stub + 1, site + image[site].d),
                 To("b", stub + 2, site), W("nop"), W("save"), W("save"), W("save"),
                 [op |-> "b", d |-> 0]>>)
     /\ UNCHANGED moved

\* cond_trap: call as before, but stop for good when the argument is zero.
CondTrap(site) ==
  LET want == 8
      stub == find_padding(image, want, site)
      callee == site + image[site].d
      words == <<[op |-> "cbz", d |-> 4],
                 To("bl", stub + 1, callee),
                 To("b", stub + 2, site + 1),
                 W("nop"), W("save"), W("save"), W("save"),
                 [op |-> "b", d |-> 0]>>
  IN /\ image[site].op = "bl"
     /\ stub # 0
     /\ Divert("cond_trap", site, stub, words)
     /\ UNCHANGED moved

\* (mutant) the first attempt: the stub returns without undoing the frame
NullGuardPlainRet ==
  LET site == Guarded + 3
      stub == find_padding(image, 6, site)
  IN /\ stub # 0
     /\ Divert("null_guard", site, stub,
               <<[op |-> "cbz", d |-> 3], image[site], To("b", stub + 2, site + 1), W("ret")>>)
     /\ moved' = moved \cup {[word |-> image[site], aligned |-> TRUE]}

\* null_guard: the instruction after the three of the prologue moves into the
\* stub, which returns for the routine when the argument is null.
NullGuard ==
  LET want == 6
      site == Guarded + 3
      stub == find_padding(image, want, site)
      words == <<[op |-> "cbz", d |-> 3],
                 image[site],
                 To("b", stub + 2, site + 1),
                 W("ldp_frame"),
                 W("retab")>>
  IN /\ stub # 0
     /\ Divert("null_guard", site, stub, words)
     /\ moved' = moved \cup {[word |-> image[site], aligned |-> TRUE]}

\* trace_wait: thirteen words that record the call, the displaced word, and a
\* branch back.  A cave that is not on a word boundary gets words that are no
\* instructions; the branch distances are rounded down.
TraceWait(target, scratchGiven) ==
  LET cave == find_run(image)
      words == [i \in 1..13 |-> W("record")]
                 \o <<image[target], To("b", cave + 14, target + 1)>>
      asFound == IF Aligned(image, cave) THEN words
                 ELSE [i \in 1..CaveWords |-> W("garbage")]
  IN /\ cave # 0
     /\ scratchGiven \/ ScratchFound(image)
     /\ Divert("trace_wait", target, cave, asFound)
     /\ moved' = moved \cup {[word |-> image[target], aligned |-> Aligned(image, cave)]}

-----------------------------------------------------------------------------
(* The console *)

\* (mutant) the wait label one word late: the port is read once
BuildLateLabel(at) ==
  [i \in 1..4 |-> W("uart_address")]
    \o <<W("ldrb_x0"), To("cbz_char", at + 5, at + 10), W("ldr_fr"),
         To("tbnz_full", at + 7, at + 8), W("str_dr"), To("b", at + 9, at + 4), W("ret")>>

\* The routine's own labels: next, wait and done.
build(at) ==
  LET next == at + 4
      wait == at + 6
      done == at + 10
  IN [i \in 1..4 |-> W("uart_address")]
       \o <<W("ldrb_x0"),
            To("cbz_char", at + 5, done),
            W("ldr_fr"),
            To("tbnz_full", at + 7, wait),
            W("str_dr"),
            To("b", at + 9, next),
            W("ret")>>

\* The bound leaves room for eight words; the other three raise an error.
EarlyConsole(at) ==
  /\ at - 1 < Size - 8
  /\ at + Len(build(at)) - 1 <= Size
  /\ image' = Put(image, at, build(at))
  /\ applied' = applied \cup {"early_console"}
  /\ UNCHANGED <<was, stubs, moved>>

-----------------------------------------------------------------------------
(* What is run, and for how long *)

\* Steps of a patched kernel in place of one: a diversion and the way back,
\* and a return that first goes back to a call that was diverted.
Detour == 16
Toll(s) == CASE s.stop # "no" -> 0
             [] s.stop = "no" /\ s.pc \in {Guarded + 3} \cup Calls \cup Targets -> Detour
             [] OTHER -> 2

Paid(states, n) ==
  LET sum[k \in 0..n] == IF k = 0 THEN 0 ELSE sum[k - 1] + Toll(states[k - 1]) IN sum

\* The run of a routine that nobody but the diverting tools touches: it comes
\* to its return, with a valid pointer in x0 wherever a null one is stopped,
\* and all its tolls can be paid.
Quiet(k, s0) ==
  LET states == Steps(k, s0, Fuel)
  IN /\ states[Fuel].stop = "returned"
     /\ Paid(states, Fuel)[Fuel] <= Fuel
     /\ \A n \in 0..Fuel : states[n].stop = "no" =>
          /\ Undisturbed(k, states[n].pc)
          /\ states[n].pc \in {Guarded + 3} \cup Calls => states[n].x0 # Null

ASSUME EntryAssumption == \A k \in Kernels, e \in Entries : Quiet(k, Start(e, 1, 0, 0))

ASSUME FuelAssumption ==
  /\ Chars \in Nat /\ Busy \in Nat /\ Fuel \in Nat
  /\ Fuel >= 4 * Detour
  /\ Fuel >= Detour + 2 * (7 + Chars * (2 * Busy + 6))

-----------------------------------------------------------------------------
Init ==
  /\ was \in Kernels
  /\ image = was
  /\ applied = {}
  /\ stubs = <<>>
  /\ moved = {}

Next ==
  \/ StubHypercalls
  \/ HvcImpl
  \/ StubScratch
  \/ Patch
  \/ \E site \in Calls : CondTrap(site)
  \/ NullGuard
  \/ \E target \in Targets, given \in BOOLEAN : TraceWait(target, given)
  \/ EarlyConsole(Printer)

Spec == Init /\ [][Next]_vars

-----------------------------------------------------------------------------
(* Properties *)

TypeOK ==
  /\ was \in Kernels
  /\ DOMAIN image = DOMAIN was /\ \A i \in DOMAIN image : image[i].op \in Ops
  /\ applied \subseteq {"stub_hypercalls", "hvc_impl", "stub_scratch", "patch",
                        "cond_trap", "null_guard", "trace_wait", "early_console"}
  /\ \A i \in DOMAIN stubs : stubs[i] \subseteq 1..Size

\* What a stub may take: padding nobody has taken.  Every stub lies in words
\* that were zero in the kernel nobody had patched (one starts in the bytes of
\* a literal when the search found it there), and no two stubs share a word,
\* whichever tools took them, in whatever order.
StubsApart ==
  /\ \A n \in DOMAIN stubs : \A i \in stubs[n] : was[i].op \in Padding
  /\ \A m, n \in DOMAIN stubs : m # n => stubs[m] \cap stubs[n] = {}

\* A word that computes with its own address means something else in a stub,
\* and a branch an earlier diversion has left is such a word.
PcRelative(w) ==
  w.op \in {"b", "bl", "adr", "cbz", "cbnz_self", "cbz_char", "tbnz_full"}
Movable == \A m \in moved : m.aligned /\ ~PcRelative(m.word)

Behaviour(img, entry, x0) ==
  LET end == Run(img, Start(entry, x0, 0, 0), Fuel) IN <<end.stop, end.events>>

\* "Non-null arguments fall straight through and behave exactly as before"
\* (null_guard.py:18), "non-zero arguments are unaffected" (cond_trap.py:17):
\* as long as what was displaced can be moved, every routine that is diverted,
\* or calls one that is, does for a valid pointer what it did before, whatever
\* was diverted and in whatever order, and returns as it did.
WorkKept ==
  Movable => \A entry \in Entries : Behaviour(image, entry, 1) = Behaviour(was, entry, 1)

\* The routine null_guard has diverted returns on a null argument instead of
\* faulting, with its frame undone and its return address authenticated once.
\* A call cond_trap has diverted stops at the stub when the argument is zero,
\* before the callee, and at no other time.
NullHandled ==
  Movable =>
    /\ "null_guard" \in applied => Behaviour(image, Guarded, Null)[1] = "returned"
    /\ \A site \in Calls : image[site].op = "b" =>
         Behaviour(image, site, Null) = <<"spins", <<>>>>

\* Once any of the three tools has answered the hypercalls, the kernel no
\* longer hangs on a refused one, whichever of them run after it.
NeverHangs ==
  applied \cap {"stub_hypercalls", "hvc_impl", "stub_scratch"} # {} =>
    Behaviour(image, Boot, 1)[1] # "spins"

\* The routine that replaces the kernel's print routine sends each character of
\* the string once, in order, however long the port stays busy, and returns,
\* also when its first instruction has been diverted since.
ConsolePrints ==
  "early_console" \in applied /\ Movable =>
    \A n \in 0..Chars, busy \in 0..Busy :
      LET end == Run(image, Start(Printer, 1, n, busy), Fuel)
      IN end.stop = "returned" /\ end.events = [i \in 1..n |-> i]
=============================================================================
