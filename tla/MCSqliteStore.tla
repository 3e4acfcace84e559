--------------------------- MODULE MCSqliteStore ---------------------------
(* Small instances of SqliteStore: "global" before "user" in the dimensions; *)
(* an old record of the user, and a later one that only counts globally.     *)
EXTENDS SqliteStore, TLC

CONSTANTS old, other

MCRank == [k \in Keys |-> IF k = "global" THEN 0 ELSE 1]
MCKeysOf == [r \in Records |-> IF r = other THEN {"global"} ELSE {"global", "user"}]
MCStamp == [r \in Records |-> IF r = old THEN 0 ELSE 1]
Symmetric == Permutations(Threads)
=============================================================================
