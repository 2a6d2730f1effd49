--------------------------- MODULE MCClientProvider ---------------------------
(* Callers that share a key.                                                   *)
EXTENDS ClientProvider

MCKeyOf == [c \in Callers |-> "key"]
=============================================================================
