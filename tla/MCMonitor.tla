----------------------------- MODULE MCMonitor -----------------------------
(***************************************************************************)
(* The cases of monitor2.py over two-bit registers, with one the           *)
(* translator gets wrong (rd is the second operand) and one translate_word *)
(* cannot encode.  The lines reach every command and every way a line can  *)
(* be bad.                                                                 *)
(***************************************************************************)
EXTENDS Monitor, TwoBitWords

MCGuest == 0..3
I(form, fn, rd, rn, rm, imm) ==
  [form |-> form, fn |-> fn, sh |-> "lsl", sf |-> 1, rd |-> rd, rn |-> rn, rm |-> rm,
   ra |-> 31, imm |-> imm, amt |-> 1]
TestCase(word, number, x1, x2, check) ==
  [word |-> word, number |-> number, x1 |-> x1, x2 |-> x2, check |-> check]

MCCases ==
  <<TestCase(I("movz", "add", 1, 31, 31, 3), 1, 0, 0, 1),
    TestCase(I("movz", "add", 2, 31, 31, 2), 2, 0, 0, 2),
    TestCase(I("alu_reg", "add", 0, 1, 2, 0), 3, 1, 3, 0),
    TestCase(I("alu_reg", "sub", 0, 1, 2, 0), 4, 3, 1, 0),
    TestCase(I("alu_reg", "sub", 2, 1, 2, 0), 5, 3, 1, 2),
    TestCase(I("alu_reg", "orr", 3, 31, 2, 0), 6, 0, 2, 3),
    TestCase(I("alu_shift", "add", 0, 1, 2, 0), 7, 1, 1, 0),
    TestCase(I("alu_imm", "add", 1, 1, 31, 1), 8, 3, 0, 1),
    TestCase(I("alu_imm", "sub", 1, 1, 31, 1), 9, 0, 0, 1),
    TestCase(I("alu_reg", "and", 0, 1, 2, 0), 10, 3, 1, 0),
    TestCase(I("alu_reg", "orr", 0, 1, 2, 0), 11, 1, 2, 0),
    TestCase(I("alu_reg", "eor", 0, 3, 2, 0), 12, 3, 1, 0)>>
MCInstrs == {MCCases[k].word : k \in DOMAIN MCCases}

MCPrograms == {"demo", "monitor", "monitor2", "gfx"}
MCPayloadBytes == [p \in MCPrograms |-> IF p = "monitor2" THEN 2100 ELSE 1024]
MCFiles == {[n \in 0..3 |-> 0], [n \in 0..3 |-> n]}
MCLines == {<<"r">>, <<"h">>, <<"c">>, <<"t">>, <<"x">>, <<"x", "1">>,
            <<"x", "1", "=", "3">>, <<"x", "2", "=", "1", "2">>, <<"x", "r", "=">>,
            <<"0", "3">>, <<"1", "0">>, <<"1", "1">>, <<"1", "2">>, <<"3", "0">>,
            <<"1", "3">>, <<"3", "3">>, <<"1", "2", "3">>}
MCDigit == [c \in Chars |-> CASE c = "0" -> 0 [] c = "1" -> 1 [] c = "2" -> 2 [] OTHER -> 3]
=============================================================================
