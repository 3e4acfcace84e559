----------------------------- MODULE HookChain -----------------------------
(***************************************************************************)
(* The chain of on_record hooks of a ledger's interceptor.  Only the first *)
(* hook is known to the interceptor; each one calls the one it found when  *)
(* it was installed.  The log adapter (tokenledger/ext/logging_adapter.py) *)
(* and OpenTelemetry (ext/opentelemetry.py) capture that hook for good;    *)
(* the live server (ext/live_server.py) keeps it in an attribute that each *)
(* start overwrites.  "app" is a hook of the application that was there    *)
(* first (a WebhookNotifier, say).  One thread installs and removes hooks. *)
(***************************************************************************)
EXTENDS Integers, Sequences, FiniteSets

CONSTANT LogHooks   \* one for each call of attach_log_handler

VARIABLES
  installed,  \* interceptor.on_record
  next,       \* the hook each hook calls; of "live", _original_on_record
  previous,   \* _PREVIOUS[ledger] of the log adapter, or "unset"
  unused,     \* log hooks not attached yet, and "otel" before instrument_ledger
  stack,      \* the hooks that should run by the calls so far, first to last (history)
  orderly,    \* hooks came off newest first only (history)
  tangled     \* the server was started while its hook was in the chain (history)

chain == <<installed, next, previous, unused>>
chainHistory == <<stack, orderly, tangled>>

Hooks == {"app", "live", "otel"} \cup LogHooks
ASSUME HookNames == "none" \notin LogHooks /\ "unset" \notin LogHooks
                    /\ LogHooks \cap {"app", "live", "otel"} = {} /\ IsFiniteSet(LogHooks)

ChainInit ==
  /\ installed = "app" /\ next = [h \in Hooks |-> "none"]
  /\ previous = "unset" /\ unused = LogHooks \cup {"otel"}
  /\ stack = <<"app">> /\ orderly = TRUE /\ tangled = FALSE

\* The hook that is called n calls after hook h, and all hooks that are called.
CalledAfter(h) ==
  LET walk[n \in 0..Cardinality(Hooks)] ==
        IF n = 0 THEN h
        ELSE IF walk[n - 1] = "none" THEN "none" ELSE next[walk[n - 1]]
  IN walk
Reached(h) == {CalledAfter(h)[n] : n \in 0..Cardinality(Hooks)} \ {"none"}
\* A chain that is longer than there are hooks never ends.
Endless == CalledAfter(installed)[Cardinality(Hooks)] # "none"

Push(h) == stack' = <<h>> \o stack
Pop == stack' = Tail(stack)
\* The step leaves the order: the stack says nothing from here on.
Disorder == orderly' = FALSE /\ stack' = <<>>

-----------------------------------------------------------------------------
(* attach_log_handler, detach_log_handler *)

\* Mistake: the new hook calls nobody.
Nobody == "none"
\* _PREVIOUS.get(ledger, interceptor.on_record)
Original == IF previous = "unset" THEN installed ELSE previous

\* The log hook that is attached already.
LogPlace == CHOOSE n \in 1..Len(stack) : stack[n] \in LogHooks

\* A second log hook calls what the first one called: it takes the place of the
\* first one and of every hook installed since.
Attach(h) ==
  /\ h \in LogHooks \cap unused
  /\ unused' = unused \ {h}
  /\ next' = [next EXCEPT ![h] = Original]
  /\ installed' = h
  /\ previous' = Original
  /\ stack' = IF ~orderly THEN stack
              ELSE IF previous = "unset" THEN <<h>> \o stack
              ELSE <<h>> \o SubSeq(stack, LogPlace + 1, Len(stack))
  /\ UNCHANGED <<orderly, tangled>>

\* What the ledger is left with when its hook is taken off.
Detached == IF previous = "unset" THEN "none" ELSE previous

\* detach_log_handler(ledger, hook): a hook that is not the first one stays.
DetachHook(h) ==
  /\ installed = h /\ h \in LogHooks
  /\ installed' = Detached /\ previous' = "unset"
  /\ IF orderly THEN Pop ELSE UNCHANGED stack
  /\ UNCHANGED <<next, unused, orderly, tangled>>

\* detach_log_handler(ledger): whatever is installed is taken off with it.
DetachAny ==
  /\ previous # "unset"
  /\ installed' = previous /\ previous' = "unset"
  /\ IF orderly /\ installed \in LogHooks THEN Pop /\ UNCHANGED orderly ELSE Disorder
  /\ UNCHANGED <<next, unused, tangled>>

(* instrument_ledger *)
Instrument ==
  /\ "otel" \in unused /\ unused' = unused \ {"otel"}
  /\ next' = [next EXCEPT !["otel"] = installed]
  /\ installed' = "otel"
  /\ IF orderly THEN Push("otel") ELSE UNCHANGED stack
  /\ UNCHANGED <<previous, orderly, tangled>>

-----------------------------------------------------------------------------
(* LiveServer.start and stop, as far as the chain is concerned *)

\* start: the installed hook, even the server's own, becomes the one to call.
HookLive(bound) ==
  /\ next' = [next EXCEPT !["live"] = installed]
  /\ tangled' = (tangled \/ "live" \in Reached(installed))
  /\ installed' = IF bound THEN "live" ELSE installed
  /\ IF "live" \in Reached(installed) THEN Disorder
     ELSE /\ IF orderly /\ bound THEN Push("live") ELSE UNCHANGED stack
          /\ UNCHANGED orderly
  /\ UNCHANGED <<previous, unused>>

\* Mistake: stop restores the hook it found, whatever was installed since.
AlwaysRestored == next["live"]
\* if self.ledger.interceptor.on_record is self._on_record
Restored == IF installed = "live" THEN next["live"] ELSE installed

UnhookLive ==
  /\ installed' = Restored
  /\ IF installed = "live" THEN (IF orderly THEN Pop ELSE UNCHANGED stack) /\ UNCHANGED orderly
     ELSE IF "live" \in Reached(installed) THEN Disorder ELSE UNCHANGED <<stack, orderly>>
  /\ UNCHANGED <<next, previous, unused, tangled>>

-----------------------------------------------------------------------------
(* Properties *)

\* The hook of the application is never lost, and no chain is endless, whatever
\* order servers, loggers and spans are added and removed in, as long as the
\* server is not started again while its own hook is still in the chain.
AppHookRuns == ~tangled => ~Endless /\ "app" \in Reached(installed)

\* While hooks come off newest first, the hooks that run are those installed and
\* not removed, the newest first, except that a further log hook takes the place
\* of the log hook before it and of every hook installed in between (attach,
\* detach, start, stop, instrument).
ChainIsStack ==
  orderly => \A n \in 0..Cardinality(Hooks) :
    CalledAfter(installed)[n] = IF n < Len(stack) THEN stack[n + 1] ELSE "none"

-----------------------------------------------------------------------------
(* What the documentation says and the code does not do *)

\* logging_adapter.py:50: "any previously installed on_record hook still runs
\* after this one", and docs/advanced.md:271: "Multiple attach_log_handler() calls
\* chain": attaching takes no hook out of the chain.  The second attach does.
AttachKeepsHooks ==
  [][(\E h \in LogHooks : Attach(h)) => Reached(installed) \subseteq Reached(installed)']_chain

\* docs/advanced.md:272: detaching restores the callback that was active before
\* the attach: that is what attaching keeps for it.  The second attach keeps what
\* was active before the first.
DetachRestores == [][(\E h \in LogHooks : Attach(h)) => previous' = installed]_chain
=============================================================================
