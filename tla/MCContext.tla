------------------------------ MODULE MCContext ------------------------------
EXTENDS Context, TLC
CONSTANTS boss, kid, t1, t2

\* kid is a child of boss, which is a child of "/root/usr".
DadChain == (Root :> None) @@ (Usr :> Root) @@ (boss :> Usr) @@ (kid :> boss)

Symmetry == Permutations(Pool)
=============================================================================
