--------------------------- MODULE MCMemoryStore ---------------------------
(* A small instance of MemoryStore.  Stores without a file have the two     *)
(* dimensions "global" and "user", in this order, and three kinds of        *)
(* record; the third and fourth are a user's, and the fourth, for which the *)
(* ring must evict, is of the first day.  A user's budget is never windowed *)
(* there; in place of all budgets the user_project budget "pair" may be set,*)
(* never to be reset.                                                       *)
(* Stores with a file have records of one kind and no windowed budget, and  *)
(* may crash, twice while no rewrite was cut short and no key was wrong;    *)
(* nor does a second write fail, and then without a budget, but there.      *)
(* (A crash of the others only brings back the first state.)                *)
(* The days are 0 and 2, far enough apart for a retention of one day to     *)
(* drop a record: nothing happens on day 1.                                 *)
EXTENDS MemoryStore

MCRank == [k \in Keys |-> IF k = "global" THEN 0 ELSE 1]
BilledUser == [keys |-> {"global", "user", "pair"}, billable |-> TRUE]
BilledOther == [keys |-> {"global"}, billable |-> TRUE]
BlockedUser == [keys |-> {"global", "user", "pair"}, billable |-> FALSE]
MCKinds == {BilledUser, BilledOther, BlockedUser}
MCAges == {-1, 1}

Small ==
  IF mode = "none"
  THEN /\ crashes = 0
       /\ \A i \in 1..Len(log) : i >= MaxRecords =>
            log[i].keys = BilledUser.keys /\ log[i].billable /\ (i = MaxRecords \/ log[i].ts = 0)
       /\ cycle["user"] # "windowed" /\ cycle["pair"] # "windowed"
       /\ cycle["pair"] # "none" => cycle["user"] = "none" /\ cycle["global"] = "none"
  ELSE /\ \A i \in 1..Len(log) : log[i].keys = BilledOther.keys
       /\ cycle["user"] = "none" /\ cycle["pair"] = "none" /\ cycle["global"] # "windowed"
       /\ maxAge # -1
       /\ spoiled => crashes <= 1 /\ damage <= 1
       /\ damage = 2 => cycle["global"] = "none"
NothingOnDayOne == (now = 1 => now' = 2) /\ \A i \in 1..Len(log') : log'[i].ts # 1
MCNext == Next /\ Small' /\ NothingOnDayOne
MCSpec == Init /\ [][MCNext]_vars
=============================================================================
