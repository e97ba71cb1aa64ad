--------------------------- MODULE MCTradeCreate ---------------------------
(***************************************************************************)
(* TradeCreate on a small instance: two offers and none, two SKUs that can *)
(* be bought together (named in either order) or one alone, and one token, *)
(* which two requests use.                                                 *)
(***************************************************************************)
EXTENDS TradeCreate, TLC

CONSTANTS s1, s2

MCSKUs == {s1, s2}
MCBaskets == {<<s1>>, <<s1, s2>>, <<s2, s1>>}

=============================================================================
