------------------------------ MODULE MCKvStore ------------------------------
EXTENDS KvStore, TLC

CONSTANTS k1, k2, k3, b1, b2

\* Two keys that collide, and one alone in its bucket.
MCHash == k1 :> b1 @@ k2 :> b1 @@ k3 :> b2
=============================================================================
