------------------------- MODULE MCRequestPipeline -------------------------
(* Small instances of RequestPipeline: a global and a user budget. *)
EXTENDS RequestPipeline, TLC

MCLimit == [b \in Budgets |-> IF b = "global" THEN 3 ELSE 1]
MCMaxCost == <<4, 3>>
Plain == [on |-> {"global", "user"}, stream |-> FALSE, known |-> TRUE]
Stream == [on |-> {"global"}, stream |-> TRUE, known |-> TRUE]
Unknown == [on |-> {"global"}, stream |-> FALSE, known |-> FALSE]
MCKinds == {Plain, Stream, Unknown}
Strict == [ghost |-> FALSE, persist |-> TRUE, strict |-> TRUE, policy |-> "estimate"]
Lenient == [Strict EXCEPT !.strict = FALSE]
Ghost == [Strict EXCEPT !.ghost = TRUE]
GhostDropped == [Ghost EXCEPT !.persist = FALSE]
Blocking == [Strict EXCEPT !.policy = "block"]
Allowing == [Lenient EXCEPT !.policy = "allow"]
MCConfigs == {Strict, Lenient, Ghost, GhostDropped, Blocking, Allowing}
MCStrict == {Strict}
MCBlocking == {Blocking}
Symmetric == Permutations(Calls)
=============================================================================
