------------------------- MODULE MCConditioningCache -------------------------
(* Two clips that were in one file one after the other, one at another rate, *)
(* one with fewer frames than its codes need, and one too short.             *)
EXTENDS ConditioningCache, TLC

Clip(path, samples, rate, seconds, frames) ==
  [path |-> path, samples |-> samples, rate |-> rate, finite |-> TRUE,
   seconds |-> seconds, codes |-> 2, frames |-> frames]

Threads == Permutations(Users)

MCClips ==
  {Clip("a.wav", "ann", 24, 2, 4), Clip("a.wav", "bob", 24, 2, 5), Clip("c.wav", "cat", 16, 2, 4),
   Clip("d.wav", "dan", 24, 2, 3), Clip("e.wav", "eve", 24, 0, 4)}
=============================================================================
