------------------------- MODULE MCManualRecording -------------------------
(* Small instances of ManualRecording: a global and a user budget. *)
EXTENDS ManualRecording, TLC

MCLimit == [b \in Budgets |-> IF b = "global" THEN 2 ELSE 1]
MCMaxCost == <<3, 2>>
Priced2 == [on |-> {"global", "user"}, known |-> TRUE]
Unknown == [on |-> {"global"}, known |-> FALSE]
MCKinds == {Priced2, Unknown}
Strict == [ghost |-> FALSE, persist |-> TRUE, strict |-> TRUE, policy |-> "estimate"]
Allowing == [Strict EXCEPT !.strict = FALSE, !.policy = "allow"]
Ghost == [Strict EXCEPT !.ghost = TRUE, !.policy = "block"]
Unkept == [Strict EXCEPT !.ghost = TRUE, !.persist = FALSE]
MCConfigs == {Strict, Allowing, Ghost, Unkept}
Symmetric == Permutations(Callers)
=============================================================================
