--------------------------- MODULE MCBudgetScopes ---------------------------
(* A small instance of BudgetScopes: plain identifiers, one with a colon,   *)
(* one that is blank, and budgets for all of them.                          *)
EXTENDS BudgetScopes

Call(user, project) ==
  [f \in Fields |-> CASE f = "user" -> user [] f = "project" -> project
                      [] f \in Optional -> None [] OTHER -> <<"openai">>]
InTenant(q, tenant) == [q EXCEPT !["tenant"] = tenant]
MCRequests ==
  { [InTenant(Call(<<"ann">>, <<"app">>), <<"acme">>) EXCEPT !["agent"] = Empty],
    [Call(<<"ann">>, <<"web">>) EXCEPT !["agent"] = <<"bot">>],
    InTenant(Call(<<"ann", "app">>, <<"app">>), Blank) }

Budget(scope, id, cycle, limit) == [scope |-> scope, id |-> id, cycle |-> cycle, limit |-> limit]
MCRules ==
  { Budget("global", All, "monthly", 1),
    Budget("user", <<"ann">>, "weekly", 0),
    Budget("user_project", <<"ann", "app">>, "never", 0),
    Budget("user_project", <<"ann", "app", "app">>, "never", 0),
    Budget("tenant", <<"acme">>, "never", 0),
    Budget("tenant", Blank, "never", 0),
    Budget("agent", <<"bot">>, "daily", 0),
    Budget("team", <<"ann">>, "daily", 0) }
=============================================================================
