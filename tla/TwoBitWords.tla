---------------------------- MODULE TwoBitWords ----------------------------
(***************************************************************************)
(* Two-bit registers for the small instances, so that carries, truncation  *)
(* and shifts all happen: the data operations of arm64 and of x86-64.      *)
(***************************************************************************)
EXTENDS Integers, Bitwise

W == 0..3
LowBit(a) == a % 2
Neg(a) == (4 - a) % 4
Signed(a) == IF a < 2 THEN a ELSE a - 4
Abs(a) == IF Signed(a) < 0 THEN Neg(a) ELSE a

Left(a, n) == IF n >= 2 THEN 0 ELSE (a * 2^n) % 4
Right(a, n) == IF n >= 2 THEN 0 ELSE a \div 2^n
SignRight(a, n) == IF Signed(a) < 0 THEN 3 - Right(3 - a, n) ELSE Right(a, n)
Rotate(a, n) == Right(a, n % 2) | Left(a, 2 - (n % 2))
Quot(a, b) == IF b = 0 THEN 0 ELSE a \div b
SQuot(a, b) == IF (Signed(a) < 0) # (Signed(b) < 0)
               THEN Neg(Quot(Abs(a), Abs(b))) ELSE Quot(Abs(a), Abs(b))
LeadingZeros(a) == IF a = 0 THEN 2 ELSE IF a = 1 THEN 1 ELSE 0
Swap(a) == (a % 2) * 2 + a \div 2

MCArm(fn, a, b) ==
  CASE fn \in {"add", "adds"} -> (a + b) % 4
    [] fn \in {"sub", "subs"} -> (a + Neg(b)) % 4
    [] fn \in {"and", "ands"} -> a & b
    [] fn = "orr" -> a | b
    [] fn = "eor" -> a ^^ b
    [] fn = "lsl" -> Left(a, b)
    [] fn = "lsr" -> Right(a, b)
    [] fn = "asr" -> SignRight(a, b)
    [] fn = "ror" -> Rotate(a, b)
    [] fn = "clz" -> LeadingZeros(a)
    [] fn = "rev" -> Swap(a)
    [] fn = "mul" -> (a * b) % 4
    [] fn = "udiv" -> Quot(a, b)
    [] fn = "sdiv" -> SQuot(a, b)
    [] OTHER -> a

MCX86(op, a, b) ==
  CASE op = "add" -> (a + b) % 4
    [] op = "sub" -> (a + 4 - b) % 4
    [] op = "and" -> a & b
    [] op = "or" -> a | b
    [] op = "xor" -> a ^^ b
    [] op = "imul" -> (a * b) % 4
    [] op = "shl" -> Left(a, b)
    [] op = "shr" -> Right(a, b)
    [] op = "sar" -> SignRight(a, b)
    [] op = "ror" -> Rotate(a, b)
    [] op = "lzcnt" -> LeadingZeros(b)
    [] op = "bswap" -> Swap(b)
    [] op = "div" -> Quot(a, b)
    [] op = "idiv" -> SQuot(a, b)
    [] op = "rem" -> IF b = 0 THEN a ELSE a % b
    [] op = "hi" -> a \div 2
    [] op = "half" -> 1
    [] OTHER -> a
=============================================================================
