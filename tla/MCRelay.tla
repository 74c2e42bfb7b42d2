------------------------------ MODULE MCRelay ------------------------------
EXTENDS Relay, TLC

CONSTANTS x, y, f, g, r1, r2, home

Listing == <<f, g>>
\* A file that grows from nothing or shrinks to it, one that changes; and a
\* directory.
Sources == {(f :> <<>> @@ g :> <<x>>), (f :> <<x>> @@ g :> <<y>>),
            (f :> Directory @@ g :> <<y>>)}

\* One file, for two receivers into one destination.
OneListing == <<f>>
OneSource  == {(f :> <<x>>), (f :> <<y>>)}

Shared  == [r \in Receiver |-> home]

ReceiverSymmetry == Permutations({r1, r2})
=============================================================================
