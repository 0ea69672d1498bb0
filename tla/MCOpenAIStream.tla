--------------------------- MODULE MCOpenAIStream ---------------------------
(* Model checking of OpenAIStream.  MaxChunks bounds what the provider sends. *)
EXTENDS OpenAIStream
=============================================================================
