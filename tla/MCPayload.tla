------------------------------ MODULE MCPayload -------------------------------
(* Chunks that are empty, shorter than a block, as long as one, and longer    *)
(* than two.                                                                  *)
EXTENDS Payload
CONSTANTS a, b
SomeBytes  == {a, b}
SomeChunks == {<<>>, <<a>>, <<b, a>>, <<a, a, b>>, <<b, a, a, b, b, a, b>>}
==============================================================================
