--------------------------- MODULE MCAcousticBatch ---------------------------
(* Streams on a rung that is captured, past the context window, and longer   *)
(* than what is captured; a short one, the final of a stream of one code and *)
(* those of clauses, three of them alike.  Four voices: two of one length,   *)
(* one longer that declares less than it brings, one with frames missing.    *)
EXTENDS AcousticBatch

MCReference == [v \in {"ann", "bob", "eve", "bad"} |->
  CASE v = "ann" -> [tokens |-> 2, declared |-> 2, frames |-> 4, complete |-> TRUE]
    [] v = "bob" -> [tokens |-> 2, declared |-> 0, frames |-> 5, complete |-> TRUE]
    [] v = "eve" -> [tokens |-> 4, declared |-> 3, frames |-> 8, complete |-> TRUE]
    [] v = "bad" -> [tokens |-> 2, declared |-> 2, frames |-> 3, complete |-> TRUE]]

Stream(id, voice, count, offset, seed) ==
  [id |-> id, voice |-> voice, count |-> count, offset |-> offset,
   final |-> FALSE, streaming |-> TRUE, seed |-> seed]
Ending(id, voice, count, streaming) ==
  [id |-> id, voice |-> voice, count |-> count, offset |-> 0,
   final |-> TRUE, streaming |-> streaming, seed |-> "7"]

MCRows ==
  {Stream("a", "ann", 3, 0, "7"), Stream("b", "bob", 3, 0, "7"), Stream("c", "eve", 3, 0, "7"),
   Stream("d", "ann", 3, 3, NoSeed), Stream("e", "ann", 9, 0, "7"), Stream("f", "bob", 2, 0, "7"),
   Ending("g", "eve", 1, TRUE), Ending("h", "ann", 4, FALSE), Ending("i", "bad", 4, FALSE),
   Ending("j", "bob", 4, FALSE), Ending("k", "ann", 4, FALSE)}
=============================================================================
