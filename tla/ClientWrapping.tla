--------------------------- MODULE ClientWrapping ---------------------------
(***************************************************************************)
(* The methods of a client that InterceptionLayer (core/interceptor.py)    *)
(* replaces by tracked ones, and puts back.  What an attribute holds is    *)
(* the sequence of ledgers whose tracked functions a call passes, from the *)
(* outside in; the client's own method is the empty sequence.  Each of     *)
(* them records the call, so a ledger that is there twice bills it twice.  *)
(*                                                                         *)
(* Each ledger has a layer of its own, and what a layer has saved is kept  *)
(* under id(client), the client's address: when the client is collected,   *)
(* another one may get its address.  Calls of wrap_* and unwrap come one   *)
(* at a time.  What a tracked function does is RequestPipeline's matter;   *)
(* proxies (wrap_proxy) change nothing and are left out.                   *)
(* Operators commented "Mistake" are wrong on purpose and used nowhere.    *)
(***************************************************************************)
EXTENDS Integers, SequencesExt

CONSTANTS
  Ledgers,
  Paths,      \* attribute paths, "chat.completions.create"
  Kind,       \* of the attribute at each path: see below
  Wrappers,   \* the wrap_* methods, each the sequence of paths it tries
  Anchored,   \* paths whose parent object keeps the client alive
  MaxClients, \* bound: later clients that get the address
  MaxNested   \* bound: tracked functions around a method

ASSUME WrappingConstants ==
  /\ Kind \in [Paths -> {"plain", "missing", "frozen", "managed"}]
  /\ Wrappers \subseteq Seq(Paths) /\ Anchored \subseteq Paths
  /\ {MaxClients, MaxNested} \subseteq Nat

\* The property object of the class, for attributes that are properties:
\* "frozen" if it has no setter, "managed" if it has one.
Descriptor == <<"property">>

VARIABLES
  held,     \* what each attribute of the client holds
  saved,    \* _original_methods[id(client)] of each ledger, oldest first
  client,   \* which client has the address
  orderly   \* each unwrap has found its own functions outermost (history)

wrapVars == <<held, saved, client, orderly>>

WrapInit ==
  /\ held = [p \in Paths |-> <<>>] /\ client = 0
  /\ saved = [l \in Ledgers |-> <<>>] /\ orderly = TRUE

-----------------------------------------------------------------------------
(* wrap_openai, wrap_gemini, ... *)

SavedPaths(l) == {e.path : e \in ToSet(saved[l])}

\* A path that a wrapper tries twice is found among the originals the second time.
Tried(w) == {i \in DOMAIN w : Kind[w[i]] # "missing" /\ \A j \in 1..(i - 1) : w[j] # w[i]}
\* Mistake: a path that is wrapped already is wrapped again.
NewAndOld(l, w) == Tried(w)
\* Paths that _wrap_attr does not find among the originals; one at which there
\* is no attribute raises before anything is saved.
New(l, w) == {i \in Tried(w) : w[i] \notin SavedPaths(l)}

Original(p) == IF Kind[p] = "plain" THEN held[p] ELSE Descriptor
Entry(p) == [path |-> p, of |-> client, was |-> Original(p)]

\* The places in increasing order.
Ascending(I) ==
  {at \in [1..Cardinality(I) -> I] : \A i, j \in DOMAIN at : i < j => at[i] < at[j]}

\* An attribute is saved, then set; setting one that is frozen raises.  The
\* error ends a wrapper that has one path, others go on with the next.
Wrap(l, w) ==
  LET paths == {w[i] : i \in New(l, w)} IN
  /\ \A p \in paths : Len(held[p]) < MaxNested
  /\ \E at \in Ascending(New(l, w)) :
       saved' = [saved EXCEPT ![l] = @ \o [i \in DOMAIN at |-> Entry(w[at[i]])]]
  /\ held' = [p \in Paths |->
                IF p \in paths /\ Kind[p] # "frozen" THEN <<l>> \o held[p] ELSE held[p]]
  /\ UNCHANGED <<client, orderly>>

-----------------------------------------------------------------------------
(* unwrap *)

\* Setting a frozen attribute raises here, too, when all entries are gone
\* from the originals already: those behind it are not restored.
Restored(l) ==
  LET frozen == {i \in DOMAIN saved[l] : Kind[saved[l][i].path] = "frozen"}
  IN {saved[l][i] : i \in {j \in DOMAIN saved[l] : \A k \in frozen : j < k}}

\* Entries of an earlier client restore that one's attributes.
Mine(l) == {e \in Restored(l) : e.of = client}

Unwrap(l) ==
  /\ held' = [p \in Paths |->
       IF \E e \in Mine(l) : e.path = p THEN (CHOOSE e \in Mine(l) : e.path = p).was ELSE held[p]]
  /\ saved' = [saved EXCEPT ![l] = <<>>]
  /\ orderly' = /\ orderly /\ Restored(l) = ToSet(saved[l])
                /\ \A e \in Mine(l) : Kind[e.path] = "plain" => Head(held[e.path]) = l
  /\ UNCHANGED client

\* The application drops the client; it is collected, unless a saved parent
\* object refers to it, and the next client is made at its address.
NextClient ==
  /\ client < MaxClients /\ client' = client + 1
  /\ \A l \in Ledgers : \A e \in ToSet(saved[l]) : e.of = client => e.path \notin Anchored
  /\ held' = [p \in Paths |-> <<>>] /\ orderly' = TRUE
  /\ UNCHANGED saved

WrapNext ==
  \/ \E l \in Ledgers : Unwrap(l) \/ \E w \in Wrappers : Wrap(l, w)
  \/ NextClient

WrapSpec == WrapInit /\ [][WrapNext]_wrapVars

-----------------------------------------------------------------------------
(* Properties *)

Tracking(l, p) == \E e \in ToSet(saved[l]) : e.path = p /\ e.of = client

\* However several ledgers wrap a client, with overlapping wrappers, again and
\* again, and unwrap it in the reverse order: a call is recorded by exactly the
\* ledgers that have its method wrapped, by each once (_wrap_attr is meant to
\* be idempotent, unwrap to leave no trace).
TrackedByWrappers ==
  orderly => \A p \in Paths : Kind[p] = "plain" =>
    /\ ToSet(held[p]) = {l \in Ledgers : Tracking(l, p)}
    /\ Len(held[p]) = Cardinality(ToSet(held[p]))

-----------------------------------------------------------------------------
(* What the documentation says and the code does not do *)

\* README.md:77: "Wrap once - tracking is now automatic": a client that has
\* been wrapped is tracked.
WrappedIsTracked ==
  [][\A l \in Ledgers, w \in Wrappers : orderly /\ Wrap(l, w) =>
       \A p \in ToSet(w) : Kind[p] = "plain" => l \in ToSet(held'[p])]_wrapVars

\* CHANGELOG.md:19: "`_wrap_attr` stores class-level descriptors so `unwrap()`
\* restores them": unwrapped attributes are what they were.
DescriptorsRestored ==
  (\A l \in Ledgers : saved[l] = <<>>) /\ orderly => \A p \in Paths : held[p] = <<>>
=============================================================================
