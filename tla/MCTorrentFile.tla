---- MODULE MCTorrentFile ----
EXTENDS TorrentFile, TLC
CONSTANTS q1, q2, q3, a1, a2, b1, A, B
MCNameOf == a1 :> A @@ a2 :> A @@ b1 :> B
MCSizeOf == a1 :> 3 @@ a2 :> 2 @@ b1 :> 2
Symmetry == Permutations(Requests)
====
