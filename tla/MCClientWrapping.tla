-------------------------- MODULE MCClientWrapping --------------------------
(* A small instance of ClientWrapping: a client of many ways to ask.        *)
EXTENDS ClientWrapping

MCKind == [p \in Paths |-> CASE p = "stream" -> "frozen" [] p = "generate" -> "managed"
                             [] p = "agenerate" -> "missing" [] OTHER -> "plain"]
MCWrappers == {<<"create">>, <<"chat", "generate">>, <<"create", "stream", "chat", "agenerate">>}
=============================================================================
