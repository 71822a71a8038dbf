----------------------------- MODULE MCMediaCache -----------------------------
(* Two keys of two kinds, two goroutines, two channels.                     *)
EXTENDS MediaCache, TLC

CONSTANTS k1, k2, image, audio, t1, t2, c1, c2

TwoKinds == (k1 :> image) @@ (k2 :> audio)
\* The two keys may be exchanged together with their kinds.
Exchange == (k1 :> k2) @@ (k2 :> k1) @@ (image :> audio) @@ (audio :> image)
CacheSymmetry == Permutations({t1, t2}) \cup Permutations({c1, c2}) \cup {Exchange}
==============================================================================
