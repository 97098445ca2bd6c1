------------------------------- MODULE LoadStore -------------------------------
(***************************************************************************)
(* ibootcore/a64_to_x64.py: the translation of loads and stores, of the    *)
(* extended-register forms and of accesses to system registers.  Guest and *)
(* translation run side by side: the guest executes an instruction at      *)
(* once, the host the list translate() emits for it, one instruction per   *)
(* step.                                                                   *)
(*                                                                         *)
(* A word is two bits; each of the four addresses holds one bit.  A full   *)
(* access (qword) is two cells, a narrow one (byte or halfword) a single   *)
(* cell, and addresses wrap like words.  Accesses to a dword, whose loads  *)
(* are a mov between a dword and a full register, are left out.            *)
(***************************************************************************)
EXTENDS Integers, Sequences, FiniteSets

CONSTANTS Guest,      \* guest registers, a subset of 0..31
          SysRegs,    \* system registers that hold state and nothing more
          Instrs,     \* the decoded instructions
          Starts,     \* the contents of registers and memory at the start
          OnlySafe,   \* TRUE: only where the translation is right
          MaxInstrs   \* a bound on the length of a program

VARIABLES x, mem, sys,         \* the guest's registers, memory, system registers
          host, hmem, file,    \* the host's: locations, memory, shadow file
          slots,               \* _sysreg_slots, the slots handed out so far
          pend,                \* what is left of the current translation
          count                \* instructions so far

vars == <<x, mem, sys, host, hmem, file, slots, pend, count>>

Word == 0..3
Addr == 0..3

\* Of each decoded form the fields it uses; the others are 0 or FALSE.
Forms == {"imm", "unscaled", "post", "pre", "reg", "pair", "pairwb", "ordered",
          "ext", "mrs", "msr"}
Kinds == {"store", "load", "loadsigned", "prefetch"}
Instr == [form : Forms, kind : Kinds, narrow : BOOLEAN, rt : Guest, rn : Guest,
          rm : Guest, rt2 : Guest, imm : {0, 1, 3}, option : {"full", "zero", "sign"},
          scaled : BOOLEAN, key : SysRegs]

ASSUME InstrsAssumption == /\ Guest \subseteq 0..31 /\ Instrs \subseteq Instr
                           /\ \A i \in Instrs : i.form \in {"pair", "pairwb"} => ~i.narrow
ASSUME StartsAssumption == Starts \subseteq [x : [Guest -> Word], mem : [Addr -> {0, 1}]]
ASSUME FiniteAssumption == IsFiniteSet(SysRegs)
ASSUME BoundAssumption == MaxInstrs \in Nat /\ OnlySafe \in BOOLEAN

-----------------------------------------------------------------------------
(* Words and memory *)

Plus(a, b) == (a + b) % 4
Minus(a, b) == (a - b) % 4
Signed(bit) == 3 * bit
Low(v) == v % 2
Load(m, a, narrow) == IF narrow THEN m[a] ELSE m[a] + 2 * m[Plus(a, 1)]
Store(m, a, narrow, v) ==
  IF narrow THEN [m EXCEPT ![a] = Low(v)]
  ELSE [m EXCEPT ![a] = Low(v), ![Plus(a, 1)] = v \div 2]
Extended(v, option) ==
  CASE option = "zero" -> Low(v) [] option = "sign" -> Signed(Low(v)) [] OTHER -> v

-----------------------------------------------------------------------------
(* The guest *)

\* Register 31 is the stack pointer as a base and zero as a value.
Value(r) == IF r = 31 THEN 0 ELSE x[r]
Put(f, r, v) == IF r = 31 THEN f ELSE [f EXCEPT ![r] = v]

\* The scale of a pair's and of an unsigned offset is the access size.
Offset(i) == IF i.form = "imm" /\ ~i.narrow THEN Plus(i.imm, i.imm) ELSE i.imm
Index(i) == LET v == Extended(Value(i.rm), i.option)
            IN IF i.scaled /\ ~i.narrow THEN Plus(v, v) ELSE v
Address(i) ==
  CASE i.form \in {"post", "ordered"} -> x[i.rn]
    [] i.form = "reg" -> Plus(x[i.rn], Index(i))
    [] OTHER -> Plus(x[i.rn], Offset(i))

Loaded(i, a) == LET v == Load(mem, a, i.narrow)
                IN IF i.kind = "loadsigned" /\ i.narrow THEN Signed(v) ELSE v
Written(i) == i.form \in {"post", "pre", "pairwb"}

Two(i) == i.form \in {"pair", "pairwb"}
Based(i) == IF Written(i) THEN [x EXCEPT ![i.rn] = Plus(@, i.imm)] ELSE x

AccessedX(i) ==
  LET a == Address(i)
      one == Put(Based(i), i.rt, Loaded(i, a))
  IN IF i.kind \in {"store", "prefetch"} THEN Based(i)
     ELSE IF Two(i) THEN Put(one, i.rt2, Load(mem, Plus(a, 2), FALSE)) ELSE one

AccessedMem(i) ==
  LET a == Address(i)
      stored == Store(mem, a, i.narrow, Value(i.rt))
  IN IF i.kind # "store" THEN mem
     ELSE IF Two(i) THEN Store(stored, Plus(a, 2), FALSE, Value(i.rt2)) ELSE stored

\* ADD or SUB Xd|SP, Xn|SP, Xm, option #shift; as a comparison it has no result.
\* kind: load for ADD, store for SUB; scaled: the flags are set.
Sum(i) == LET v == Extended(Value(i.rm), i.option)
          IN IF i.kind = "store" THEN Minus(x[i.rn], v) ELSE Plus(x[i.rn], v)

GuestX(i) ==
  CASE i.form = "ext" -> IF i.rt = 31 /\ i.scaled THEN x ELSE [x EXCEPT ![i.rt] = Sum(i)]
    [] i.form = "mrs" -> Put(x, i.rt, sys[i.key])
    [] i.form = "msr" -> x
    [] OTHER          -> AccessedX(i)
GuestMem(i) == IF i.form \in {"ext", "mrs", "msr"} THEN mem ELSE AccessedMem(i)
GuestSys(i) == IF i.form = "msr" THEN [sys EXCEPT ![i.key] = Value(i.rt)] ELSE sys

GuestStep(i) == x' = GuestX(i) /\ mem' = GuestMem(i) /\ sys' = GuestSys(i)

-----------------------------------------------------------------------------
(* The translation: operands are registers or slots of the register file   *)
(* (the guest's number for both), the scratch register, the top of the     *)
(* stack, an address [base + index*scale + imm] or a slot of the shadow    *)
(* file.                                                                   *)

SCRATCH == 32
Top == 33                        \* where push leaves its operand
is_mem(r) == r >= 13 /\ r # SCRATCH
None == 34

Loc(r) == [at |-> "loc", r |-> r]
Mem(base, index, double, imm, narrow) ==
  [at |-> "mem", base |-> base, index |-> index, double |-> double, imm |-> imm,
   narrow |-> narrow]
Slot(n) == [at |-> "file", n |-> n]
Op(op, dst, src) == [op |-> op, dst |-> dst, src |-> src]
mov(dst, src) == Op("mov", dst, src)
Narrow(o) == o.at = "mem" /\ o.narrow

\* mov where it exists: not between a narrow operand and a register, nor
\* between two operands in memory, where spilled registers are; push and pop
\* have one operand.
InMemory(o) == o.at \in {"mem", "file"} \/ (o.at = "loc" /\ o.r # Top /\ is_mem(o.r))
Assembles(o) == o.op = "mov" => /\ ~Narrow(o.dst) /\ ~Narrow(o.src)
                                /\ ~(InMemory(o.dst) /\ InMemory(o.src))

move(dst, src) ==
  CASE dst = src -> <<>>
    [] dst # src /\ is_mem(dst) /\ is_mem(src) ->
         <<mov(Loc(SCRATCH), Loc(src)), mov(Loc(dst), Loc(SCRATCH))>>
    [] OTHER -> <<mov(Loc(dst), Loc(src))>>

\* A value between a location and an operand that is memory.  A narrow load
\* extends, a narrow store is a mov all the same.
load(r, m) == Op(IF Narrow(m) THEN "movzx" ELSE "mov", Loc(r), m)
ToMem(m, r) == IF is_mem(r) THEN <<mov(Loc(SCRATCH), Loc(r)), mov(m, Loc(SCRATCH))>>
               ELSE <<mov(m, Loc(r))>>
FromMem(r, m) == IF is_mem(r) THEN <<load(SCRATCH, m), mov(Loc(r), Loc(SCRATCH))>>
                 ELSE <<load(r, m)>>

\* Every opc but 0 is a load, and every load is movzx or mov.
Access(i, m) == IF i.kind = "store" THEN ToMem(m, i.rt) ELSE FromMem(i.rt, m)
Add(r, imm) == <<Op("add", Loc(r), [at |-> "imm", v |-> imm])>>

\* The base in the scratch register when it is spilled.
Base(r) == IF is_mem(r) THEN SCRATCH ELSE r
StagedBase(r) == IF is_mem(r) THEN <<mov(Loc(SCRATCH), Loc(r))>> ELSE <<>>

\* (mutant) the offset is not scaled by the access size
UnscaledOffset(i) ==
  StagedBase(i.rn) \o Access(i, Mem(Base(i.rn), None, FALSE, i.imm, i.narrow))

UnsignedOffset(i) ==
  StagedBase(i.rn) \o Access(i, Mem(Base(i.rn), None, FALSE, Offset(i), i.narrow))

\* Unscaled, pre- and post-index.  Only pre-index leaves the offset out of the
\* address.  A spilled base is refused.
Indexed(i) ==
  LET m == Mem(i.rn, None, FALSE, IF i.form = "pre" THEN 0 ELSE i.imm, i.narrow)
  IN (IF i.form = "pre" THEN Add(i.rn, i.imm) ELSE <<>>)
       \o Access(i, m)
       \o (IF i.form = "post" THEN Add(i.rn, i.imm) ELSE <<>>)

\* The index is used in full whatever the option field says.
RegisterOffset(i) ==
  Access(i, Mem(i.rn, i.rm, i.scaled /\ ~i.narrow, 0, i.narrow))

\* (mutant) a spilled register of a pair is staged through the scratch register
PairThroughScratch(i) ==
  LET m(k) == Mem(Base(i.rn), None, FALSE, Plus(i.imm, k), FALSE)
  IN StagedBase(i.rn)
       \o (IF i.kind = "store" THEN ToMem(m(0), i.rt) \o ToMem(m(2), i.rt2)
           ELSE FromMem(i.rt, m(0)) \o FromMem(i.rt2, m(2)))

\* A spilled register of a pair goes through the stack, since the base may be
\* in the scratch register.  The base is never written back.
Pair(i) ==
  LET m(k) == Mem(Base(i.rn), None, FALSE, Plus(i.imm, k), FALSE)
      out(r, k) ==
        CASE i.kind = "store" /\ is_mem(r) ->
               <<mov(Loc(Top), Loc(r)), mov(m(k), Loc(Top))>>
          [] i.kind = "store" /\ ~is_mem(r) -> <<mov(m(k), Loc(r))>>
          [] i.kind # "store" /\ is_mem(r) ->
               <<mov(Loc(Top), m(k)), mov(Loc(r), Loc(Top))>>
          [] OTHER -> <<mov(Loc(r), m(k))>>
  IN StagedBase(i.rn) \o out(i.rt, 0) \o out(i.rt2, 2)

\* LDAR and STLR
Ordered(i) == LET m == Mem(i.rn, None, FALSE, 0, i.narrow)
              IN IF i.kind = "store" THEN <<mov(m, Loc(i.rt))>> ELSE <<mov(Loc(i.rt), m)>>

\* The words of the extended-register forms are those of the shifted-register
\* ones with bit 21 set, and the test for those (411) does not look at it:
\* option and shift are read as the amount of a left shift, which is 0 for UXTB
\* and 24 or more for SXTB and UXTX.  In words of two bits it is one.
ExtendedAsShifted(i) ==
  LET op(src) == Op(IF i.kind = "store" THEN "sub" ELSE "add", Loc(i.rt), Loc(src))
      first == IF i.rt # i.rn THEN move(i.rt, i.rn) ELSE <<>>
  IN CASE i.option # "zero" ->
            <<mov(Loc(SCRATCH), Loc(i.rm)), Op("shl", Loc(SCRATCH), [at |-> "imm", v |-> 1])>>
              \o first \o <<op(SCRATCH)>>
       [] i.option = "zero" /\ i.rt = 31 /\ i.scaled -> <<>>       \* cmp rn, rm
       [] OTHER -> first \o (IF is_mem(i.rt) /\ is_mem(i.rm)
                             THEN <<mov(Loc(SCRATCH), Loc(i.rm)), op(SCRATCH)>>
                             ELSE <<op(i.rm)>>)

HandOut(key, n) == IF key \in DOMAIN slots THEN slots
                   ELSE [k \in DOMAIN slots \cup {key} |-> IF k = key THEN n ELSE slots[k]]

\* (mutant) counted after the register is entered
SlotAfterEntry(key) == HandOut(key, Cardinality(DOMAIN slots \cup {key}))

\* Slots in the order of first use.
sysreg_slot(key) == HandOut(key, Cardinality(DOMAIN slots))

SystemRegister(i) ==
  LET s == Slot(sysreg_slot(i.key)[i.key])
  IN IF i.form = "mrs" THEN FromMem(i.rt, s) ELSE ToMem(s, i.rt)

Supported(i) ==
  /\ i.form \in {"unscaled", "pre", "post", "ordered"} => ~is_mem(i.rn)
  /\ i.form = "reg" => ~is_mem(i.rn) /\ ~is_mem(i.rm)

translate(i) ==
  CASE i.form = "imm" -> UnsignedOffset(i)
    [] i.form \in {"unscaled", "pre", "post"} -> Indexed(i)
    [] i.form = "reg" -> RegisterOffset(i)
    [] i.form \in {"pair", "pairwb"} -> Pair(i)
    [] i.form = "ordered" -> Ordered(i)
    [] i.form = "ext" -> ExtendedAsShifted(i)
    [] OTHER -> SystemRegister(i)

(***************************************************************************)
(* Where the translation is right.  The code tests none of it:             *)
(*  - a store whose base and source are both spilled stages both in the    *)
(*    scratch register and stores through the value (472-479);             *)
(*  - register 31 as a value is zero, its slot is the stack pointer (60);  *)
(*  - LDRS* is a zero-extending load, PRFM a load that overwrites the      *)
(*    register its hint number names (475, 516, 541);                      *)
(*  - a post-indexed access uses the offset twice: in the address, where   *)
(*    it does not belong, and in the base (508);                           *)
(*  - a register offset ignores UXTW and SXTW (528-540);                   *)
(*  - pre- and post-indexed pairs do not write the base back (552, 568),   *)
(*    and LDP of its own base loads the second word from elsewhere (580);  *)
(*  - a narrow store is a mov between a narrow operand and a full register *)
(*    (475-480, 509-515, 541-546);                                         *)
(*  - LDAR and STLR of a spilled register or of a narrow width have two    *)
(*    memory operands or operands of two widths (638-640);                 *)
(*  - the extended-register forms are translated as shifted ones (411).    *)
(***************************************************************************)
Safe(i) ==
  /\ i.form # "ext"
  /\ i.kind = "load" \/ (i.kind = "store" /\ ~i.narrow)
  /\ i.form = "imm" /\ i.kind = "store" => ~(is_mem(i.rn) /\ is_mem(i.rt))
  /\ i.rt # 31 /\ i.rt2 # 31
  /\ i.form = "reg" => i.rm # 31
  /\ i.form = "post" => i.imm = 0
  /\ i.form \in {"pre", "post"} => i.rt # i.rn
  /\ i.form = "reg" => i.option = "full"
  /\ i.form # "pairwb"
  /\ i.form = "pair" /\ i.kind = "load" => i.rt # i.rn \/ is_mem(i.rn)
  /\ i.form = "ordered" => ~is_mem(i.rt) /\ ~i.narrow

-----------------------------------------------------------------------------
(* The host *)

\* A host state st: its locations h, its memory m and the shadow file f.
HostAddress(st, o) ==
  LET index == IF o.index = None THEN 0 ELSE st.h[o.index]
  IN Plus(Plus(st.h[o.base], o.imm), IF o.double THEN Plus(index, index) ELSE index)

Read(st, o) ==
  CASE o.at = "loc"  -> st.h[o.r]
    [] o.at = "mem"  -> Load(st.m, HostAddress(st, o), o.narrow)
    [] o.at = "file" -> st.f[o.n + 1]
    [] OTHER         -> o.v

Result(st, o) ==
  CASE o.op = "add" -> Plus(Read(st, o.dst), Read(st, o.src))
    [] o.op = "sub" -> Minus(Read(st, o.dst), Read(st, o.src))
    [] o.op = "shl" -> Plus(Read(st, o.dst), Read(st, o.dst))
    [] OTHER -> Read(st, o.src)

Exec(st, o) ==
  LET v == Result(st, o)
  IN CASE o.dst.at = "loc" -> [st EXCEPT !.h[o.dst.r] = v]
       [] o.dst.at = "mem" -> [st EXCEPT !.m = Store(@, HostAddress(st, o.dst), o.dst.narrow, v)]
       [] OTHER            -> [st EXCEPT !.f[o.dst.n + 1] = v]

St(h, m, f) == [h |-> h, m |-> m, f |-> f]

RunOp ==
  /\ pend # <<>>
  /\ pend' = Tail(pend)
  /\ LET st == Exec(St(host, hmem, file), Head(pend))
     IN host' = st.h /\ hmem' = st.m /\ file' = st.f
  /\ UNCHANGED <<x, mem, sys, slots, count>>

Fetch(i) ==
  /\ pend = <<>> /\ count < MaxInstrs
  /\ Supported(i) /\ (OnlySafe => Safe(i))
  /\ count' = count + 1
  /\ GuestStep(i)
  /\ pend' = translate(i)
  /\ slots' = IF i.form \in {"mrs", "msr"} THEN sysreg_slot(i.key) ELSE slots
  /\ UNCHANGED <<host, hmem, file>>

Init ==
  /\ \E s \in Starts :
       /\ x = s.x /\ host = [r \in Guest \cup {SCRATCH, Top} |->
                               IF r \in Guest THEN s.x[r] ELSE 0]
       /\ mem = s.mem /\ hmem = s.mem
  /\ sys = [k \in SysRegs |-> 0]
  /\ file = [n \in 1..Cardinality(SysRegs) |-> 0]
  /\ slots = <<>>
  /\ pend = <<>>
  /\ count = 0

Next == RunOp \/ \E i \in Instrs : Fetch(i)

Spec == Init /\ [][Next]_vars

-----------------------------------------------------------------------------
(* Properties *)

TypeOK ==
  /\ x \in [Guest -> Word] /\ mem \in [Addr -> {0, 1}] /\ sys \in [SysRegs -> Word]
  /\ host \in [Guest \cup {SCRATCH, Top} -> Word] /\ hmem \in [Addr -> {0, 1}]
  /\ file \in [1..Cardinality(SysRegs) -> Word]
  /\ DOMAIN slots \subseteq SysRegs /\ \A k \in DOMAIN slots : slots[k] + 1 \in DOMAIN file
  /\ Len(pend) <= 6 /\ \A n \in DOMAIN pend : Assembles(pend[n])
  /\ count \in 0..MaxInstrs

\* "Raises Unsupported for instructions with no meaning-preserving equivalent"
\* (a64_to_x64.py:180), so what it does translate keeps the meaning: after each
\* translation registers, memory and system registers are the guest's.
AccessKept ==
  pend = <<>> =>
    /\ \A r \in Guest : host[r] = x[r]
    /\ hmem = mem
    /\ \A k \in SysRegs : sys[k] = IF k \in DOMAIN slots THEN file[slots[k] + 1] ELSE 0

\* In the middle of a translation, too, memory holds what it held or what the
\* guest's instruction makes of it: whoever else looks sees no third value.
NoStrayStore == [][\A a \in Addr : hmem'[a] \in {hmem[a], mem[a]}]_vars
=============================================================================
