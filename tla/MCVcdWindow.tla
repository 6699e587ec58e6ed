----------------------------- MODULE MCVcdWindow -----------------------------
(* Two identifiers: of two names, of one name, and one that no $var declares. *)
EXTENDS VcdWindow

Named(a, b) == [i \in {"i1", "i2"} |-> IF i = "i1" THEN a ELSE b]
MCDeclarations == {Named("clk", "d"), Named("clk", "clk"), Named("d", None)}

From(a, b) == [lo |-> a, hi |-> b]
MCWindows == {From(None, None), From(1, 2), From(2, 2), From(0, 1)}
=============================================================================
