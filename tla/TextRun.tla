-------------------------------- MODULE TextRun --------------------------------
(***************************************************************************)
(* The processor that runs the kernel's text, as far as the patchers'      *)
(* stubs and the words they displace need it: x0, the link register with   *)
(* or without a pointer signature, the frames on the stack, and a serial   *)
(* port that is busy for a while after each character.  What a run did is  *)
(* the sequence of its events and how it stopped.                          *)
(*                                                                         *)
(* Registers other than these are not state.  Recording an entry           *)
(* (trace_wait.py:62-115) overwrites x8 to x11, and without WRAP also the  *)
(* flags; it leaves the state below alone, which shows nothing of code     *)
(* that holds a value in them across the traced word.                      *)
(***************************************************************************)
EXTENDS Integers, Sequences

Null == 0
NotSupported == -1              \* what the virtual machine answers to hvc
ScratchPage == 1000             \* the page stub_scratch points x0 to
Exit == 0                       \* the return address of the routine that is run

\* A run of the routine at entry; the string at x0 has n characters, and the
\* port reads full `busy` times after each one.
Start(entry, x0, n, busy) ==
  [pc |-> entry, x0 |-> x0, end |-> x0 + n, lr |-> [to |-> Exit, signed |-> FALSE],
   frames |-> <<>>, char |-> FALSE, full |-> FALSE, left |-> 0, busy |-> busy,
   events |-> <<>>, stop |-> "no"]

Going(s) == [s EXCEPT !.pc = @ + 1]
Goto(s, d) == IF d = 0 THEN [s EXCEPT !.stop = "spins"] ELSE [s EXCEPT !.pc = @ + d]
Did(s, e) == [Going(s) EXCEPT !.events = Append(@, e)]
Return(s, lr) ==
  CASE lr.signed -> [s EXCEPT !.stop = "bad return"]
    [] ~lr.signed /\ lr.to = Exit ->
         [s EXCEPT !.stop = IF s.frames = <<>> THEN "returned" ELSE "lost frame"]
    [] OTHER -> [s EXCEPT !.pc = lr.to]

Exec(s, w) ==
  CASE w.op = "work" -> Did(s, w.id)
    [] w.op \in {"str_x0", "mov_x0"} -> Did(s, w.op)
    [] w.op = "adr" -> Did(s, s.pc + w.d)
    [] w.op \in {"nop", "save", "record", "uart_address"} -> Going(s)
    [] w.op = "hvc" -> [Going(s) EXCEPT !.x0 = NotSupported]
    [] w.op = "movz_0" -> [Going(s) EXCEPT !.x0 = 0]
    [] w.op = "adrp_x0" -> [Going(s) EXCEPT !.x0 = ScratchPage]
    [] w.op = "cbnz_self" -> IF s.x0 # 0 THEN Goto(s, 0) ELSE Going(s)
    [] w.op = "cbz" -> IF s.x0 = 0 THEN Goto(s, w.d) ELSE Going(s)
    [] w.op = "load" -> IF s.x0 = Null THEN [s EXCEPT !.stop = "abort"] ELSE Did(s, "load")
    [] w.op = "b" -> Goto(s, w.d)
    [] w.op = "bl" -> [Goto(s, w.d) EXCEPT !.lr = [to |-> s.pc + 1, signed |-> FALSE]]
    [] w.op = "pacibsp" -> [Going(s) EXCEPT !.lr.signed = TRUE]
    [] w.op = "stp_frame" -> [Going(s) EXCEPT !.frames = Append(@, s.lr)]
    [] w.op = "ldp_frame" /\ s.frames # <<>> ->
         [Going(s) EXCEPT !.lr = s.frames[Len(s.frames)],
                          !.frames = SubSeq(@, 1, Len(@) - 1)]
    [] w.op = "ret" -> Return(s, s.lr)
    [] w.op = "retab" -> Return(s, [s.lr EXCEPT !.signed = ~@])
    [] w.op = "ldrb_x0" -> [Going(s) EXCEPT !.char = s.x0 # s.end, !.x0 = @ + 1]
    [] w.op = "cbz_char" -> IF ~s.char THEN Goto(s, w.d) ELSE Going(s)
    [] w.op = "ldr_fr" -> [Going(s) EXCEPT !.full = s.left > 0,
                                           !.left = IF @ > 0 THEN @ - 1 ELSE 0]
    [] w.op = "tbnz_full" -> IF s.full THEN Goto(s, w.d) ELSE Going(s)
    [] w.op = "str_dr" -> [(IF s.left > 0 THEN Going(s) ELSE Did(s, s.x0 - 1))
                             EXCEPT !.left = s.busy]
    [] OTHER -> [s EXCEPT !.stop = "undefined"]   \* padding, literals, garbage

\* One step; a run that has stopped stays as it is.
Step(img, s) ==
  CASE s.stop # "no" -> s
    [] s.stop = "no" /\ s.pc \in 1..Len(img) -> Exec(s, img[s.pc])
    [] OTHER -> [s EXCEPT !.stop = "undefined"]

\* The states of a run, from the start to n steps after it.
Steps(img, s0, n) ==
  LET after[k \in 0..n] == IF k = 0 THEN s0
                           ELSE LET s == after[k - 1] IN Step(img, s)
  IN after

\* The state in which a run stops, or has not stopped after fuel steps.
Run(img, s0, fuel) == Steps(img, s0, fuel)[fuel]
=============================================================================
