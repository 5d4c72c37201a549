--------------------------- MODULE MCOpenAIStream ---------------------------
(* OpenAIStream for TLC. *)
EXTENDS OpenAIStream
=============================================================================
