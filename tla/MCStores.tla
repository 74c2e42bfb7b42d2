------------------------------ MODULE MCStores ------------------------------
EXTENDS Stores, TLC

CONSTANTS a, b, w1, w2

Contents == {<<>>, <<a>>, <<a, b>>, <<b, a>>}
Versions == w1 :> <<a, b>> @@ w2 :> <<b, a>>
=============================================================================
