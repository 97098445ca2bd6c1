----------------------------- MODULE MCTsoHost -----------------------------
(***************************************************************************)
(* Two processors, two addresses, programs of two accesses and whatever    *)
(* is between them: store buffering, message passing and load buffering,   *)
(* each with every kind of barrier or none.                                *)
(***************************************************************************)
EXTENDS TsoHost, TLC

CONSTANTS p1, p2, x, y

TwoProcs == {p1, p2}
TwoAddrs == {x, y}

I(kind, a) == [kind |-> kind, addr |-> a]
Accesses == {I(kind, a) : kind \in {"ldr", "str", "ldar", "stlr"}, a \in TwoAddrs}

Pairs == {<<a, b>> : a, b \in Accesses}
Plain == {o \in Accesses : o.kind \in {"ldr", "str"}}
Fenced == {<<a, I(f, x), b>> : a, b \in Plain, f \in {"dmb", "dsb"}}
Candidates == Pairs \cup Fenced

\* The programs whose order the translation keeps; either address may be the
\* first, so the first processor starts with x.  Then a pair that it breaks.
Kept == {P \in [TwoProcs -> {s \in Candidates : ~Exposed(s)}] : P[p1][1].addr = x}
StoreBuffering ==
  {(p1 :> <<I("str", x), I("dmb", x), I("ldr", y)>> @@
    p2 :> <<I("str", y), I("dmb", x), I("ldr", x)>>)}
=============================================================================
