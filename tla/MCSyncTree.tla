----------------------------- MODULE MCSyncTree -----------------------------
(* SyncTree on trees with two names at the top and one in each directory. *)
EXTENDS SyncTree
CONSTANTS a, b, x, v1, v2

Order == <<<<a>>, <<a, x>>, <<b>>, <<b, x>>>>

\* What a tree may have at name n, and below it.
At(top, sub) == [top |-> top, sub |-> sub, tmp |-> FALSE]
Links(n) == {At(Link(t), None) : t \in Top \ {<<n>>}}
SrcAt(n) == Links(n) \cup IF n = a
            THEN {At(File(v1), None), At(Dir(Writable), File(v1)), At(Dir(ReadOnly), File(v1))}
            ELSE {At(File(v2), None), At(None, None)}
DstAt(n) == Links(n) \cup {At(File(v2), None), At(Dir(Writable), File(v2))} \cup IF n = a
            THEN {At(Link(Elsewhere), None), At(None, None), At(Dir(Writable), Dir(Writable)),
                  [At(Dir(Writable), None) EXCEPT !.tmp = TRUE]}
            ELSE {At(None, None), At(Dir(ReadOnly), File(v2))}

Tree(f) == [p \in Path |-> IF Len(p) = 1 THEN f[p[1]].top ELSE f[p[1]].sub]
Both(At_(_)) == {f \in [Name -> UNION {At_(n) : n \in Name}] : \A n \in Name : f[n] \in At_(n)}
Sources == {Tree(f) : f \in Both(SrcAt)}
Dests == {[tree |-> Tree(f), staged |-> {<<n>> : n \in {m \in Name : f[m].tmp}}] : f \in Both(DstAt)}
Excluding == {{}, {<<b>>, <<a, x>>}}
WorkerSymmetry == Permutations(Worker)
=============================================================================
