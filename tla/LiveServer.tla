----------------------------- MODULE LiveServer -----------------------------
(***************************************************************************)
(* The live spend server (tokenledger/ext/live_server.py) on the chain of  *)
(* on_record hooks: threads that record walk the chain and publish into    *)
(* the bounded queues of the subscribers; a handler thread per client      *)
(* writes its queue out; stop() puts an end marker into every queue while  *)
(* it holds the lock that publishing, subscribing and unsubscribing need.  *)
(* Operators commented "Mistake" are wrong on purpose and used nowhere.    *)
(***************************************************************************)
EXTENDS HookChain

CONSTANTS
  Recorders,   \* threads that record
  Clients,     \* places for connections to /stream
  Cap,         \* maxsize of a subscriber's queue
  MaxDepth,    \* Python's recursion limit, in passes through the server's hook
  MaxNotes,    \* bound: records
  MaxOps       \* bound: calls that change the chain or the server

ASSUME LiveConstants ==
  /\ Cap \in Nat \ {0} /\ MaxDepth \in Nat \ {0}
  /\ MaxNotes \in Nat /\ MaxOps \in Nat

VARIABLES
  running,   \* _httpd is not None
  ctl,       \* where a running stop() is: "free" if none is
  subs,      \* _subscribers
  waiting,   \* subscribers that stop() has still to give the end marker
  conn,      \* what each handler thread does next
  inbox,     \* the queue of each subscriber
  rpc,       \* what each recording thread does next
  rec,       \* the record it publishes
  depth,     \* how often the server's hook was entered for it
  targets,   \* subscribers it has still to put it to
  notes,     \* records so far
  ops        \* calls of the controlling thread so far

clients == <<conn, inbox>>
recorders == <<rpc, rec, depth, targets>>
server == <<running, ctl, subs, waiting>>
liveVars == <<chain, chainHistory, server, clients, recorders, notes, ops>>

Bye == 0                       \* the end marker, None
LockFree == ctl # "ending"

LiveInit ==
  /\ ChainInit
  /\ running = FALSE /\ ctl = "free" /\ subs = {} /\ waiting = {}
  /\ conn = [c \in Clients |-> "none"] /\ inbox = [c \in Clients |-> <<>>]
  /\ rpc = [r \in Recorders |-> "idle"] /\ rec = [r \in Recorders |-> 0]
  /\ depth = [r \in Recorders |-> 0] /\ targets = [r \in Recorders |-> {}]
  /\ notes = 0 /\ ops = 0

-----------------------------------------------------------------------------
(* The controlling thread *)

Called == ctl = "free" /\ ops < MaxOps /\ ops' = ops + 1

ChangeHooks ==
  /\ Called
  /\ (\E h \in LogHooks : Attach(h) \/ DetachHook(h)) \/ DetachAny \/ Instrument
  /\ UNCHANGED <<server, clients, recorders, notes>>

\* The port is bound, or OSError leaves the hook as it was.
Start(bound) ==
  /\ Called /\ ~running
  /\ HookLive(bound)
  /\ running' = bound
  /\ UNCHANGED <<ctl, subs, waiting, clients, recorders, notes>>

\* No more connections are accepted; handler threads go on.
Shutdown ==
  /\ Called
  /\ running' = FALSE /\ ctl' = "shutdown"
  /\ UNCHANGED <<chain, chainHistory, subs, waiting, clients, recorders, notes>>

TakeLock ==
  /\ ctl = "shutdown"
  /\ ctl' = "ending" /\ waiting' = subs
  /\ UNCHANGED <<chain, chainHistory, running, subs, clients, recorders, notes, ops>>

\* sub.put(None): waits for room.
PutBye(c) == [inbox EXCEPT ![c] = Append(@, Bye)]

EndStream(c) ==
  /\ ctl = "ending" /\ c \in waiting /\ Len(inbox[c]) < Cap
  /\ inbox' = PutBye(c)
  /\ waiting' = waiting \ {c}
  /\ UNCHANGED <<chain, chainHistory, running, ctl, subs, conn, recorders, notes, ops>>

ClearSubscribers ==
  /\ ctl = "ending" /\ waiting = {}
  /\ subs' = {} /\ ctl' = "unhook"
  /\ UNCHANGED <<chain, chainHistory, running, waiting, clients, recorders, notes, ops>>

Unhook ==
  /\ ctl = "unhook" /\ ctl' = "free"
  /\ UnhookLive
  /\ UNCHANGED <<running, subs, waiting, clients, recorders, notes, ops>>

StopGoesOn == TakeLock \/ (\E c \in Clients : EndStream(c)) \/ ClearSubscribers \/ Unhook

-----------------------------------------------------------------------------
(* Recording threads *)

\* The walk goes on at hook h until it meets the server's hook, or its end.
GoOn(r, h, times) ==
  IF "live" \in Reached(h) /\ times < MaxDepth
  THEN /\ rpc' = [rpc EXCEPT ![r] = "copy"] /\ depth' = [depth EXCEPT ![r] = times + 1]
       /\ UNCHANGED rec
  ELSE \* the record is through, or RecursionError
       /\ rpc' = [rpc EXCEPT ![r] = "idle"] /\ depth' = [depth EXCEPT ![r] = 0]
       /\ rec' = [rec EXCEPT ![r] = 0]

Record(r) ==
  /\ rpc[r] = "idle" /\ notes < MaxNotes /\ "live" \in Reached(installed)
  /\ notes' = notes + 1
  /\ rpc' = [rpc EXCEPT ![r] = "copy"] /\ depth' = [depth EXCEPT ![r] = 1]
  /\ rec' = [rec EXCEPT ![r] = notes']
  /\ UNCHANGED <<chain, chainHistory, server, clients, targets, ops>>

\* _publish: the subscribers are copied under the lock.
CopySubscribers(r) ==
  /\ rpc[r] = "copy" /\ LockFree
  /\ targets' = [targets EXCEPT ![r] = subs]
  /\ rpc' = [rpc EXCEPT ![r] = "put"]
  /\ UNCHANGED <<chain, chainHistory, server, clients, rec, depth, notes, ops>>

\* put_nowait, one target after the other; a full queue drops the record.
TargetDone(r, c) == targets[r] \ {c}

\* queue.Queue(maxsize=1000)
HasRoom(c) == Len(inbox[c]) < Cap

Put(r, c) ==
  /\ rpc[r] = "put" /\ c \in targets[r]
  /\ inbox' = IF HasRoom(c) THEN [inbox EXCEPT ![c] = Append(@, rec[r])] ELSE inbox
  /\ targets' = [targets EXCEPT ![r] = TargetDone(r, c)]
  /\ UNCHANGED <<chain, chainHistory, server, conn, rpc, rec, depth, notes, ops>>

\* if self._original_on_record: read now, it may have changed since.
CallOriginal(r) ==
  /\ rpc[r] = "put" /\ targets[r] = {}
  /\ GoOn(r, next["live"], depth[r])
  /\ UNCHANGED <<chain, chainHistory, server, clients, targets, notes, ops>>

-----------------------------------------------------------------------------
(* Handler threads *)

Becomes(c, phase) == conn' = [conn EXCEPT ![c] = phase]

Connect(c) ==
  /\ running /\ conn[c] = "none" /\ Becomes(c, "accepted")
  /\ UNCHANGED <<chain, chainHistory, server, inbox, recorders, notes, ops>>

\* The first thing written is the retry interval.
Subscribe(c) ==
  /\ conn[c] = "accepted" /\ LockFree
  /\ subs' = subs \cup {c}
  /\ Becomes(c, "writing")
  /\ UNCHANGED <<chain, chainHistory, running, ctl, waiting, inbox, recorders, notes, ops>>

\* The end marker ends the loop, a record is written out.
Get(c) ==
  /\ conn[c] = "reading" /\ inbox[c] # <<>>
  /\ inbox' = [inbox EXCEPT ![c] = Tail(@)]
  /\ Becomes(c, IF Head(inbox[c]) = Bye THEN "leaving" ELSE "writing")
  /\ UNCHANGED <<chain, chainHistory, server, recorders, notes, ops>>

\* queue.Empty: a heartbeat is written.
Heartbeat(c) ==
  /\ conn[c] = "reading" /\ inbox[c] = <<>> /\ Becomes(c, "writing")
  /\ UNCHANGED <<chain, chainHistory, server, inbox, recorders, notes, ops>>

\* wfile.write returns when the client has taken enough: the socket has no timeout.
Written(c) ==
  /\ conn[c] = "writing" /\ Becomes(c, "reading")
  /\ UNCHANGED <<chain, chainHistory, server, inbox, recorders, notes, ops>>

\* The client is gone.
WriteFails(c) ==
  /\ conn[c] = "writing" /\ Becomes(c, "leaving")
  /\ UNCHANGED <<chain, chainHistory, server, inbox, recorders, notes, ops>>

\* Mistake: a stream that is over stays subscribed.
StaysSubscribed(c) == subs
\* self._subscribers.remove(sub)
Unsubscribed(c) == subs \ {c}

\* finally: _unsubscribe.  Puts to the old queue no longer matter.
Unsubscribe(c) ==
  /\ conn[c] = "leaving" /\ LockFree
  /\ subs' = Unsubscribed(c)
  /\ Becomes(c, "none")
  /\ inbox' = [inbox EXCEPT ![c] = <<>>]
  /\ targets' = [r \in Recorders |-> targets[r] \ {c}]
  /\ UNCHANGED <<chain, chainHistory, running, ctl, waiting, rpc, rec, depth, notes, ops>>

-----------------------------------------------------------------------------
Publishes(r) == CopySubscribers(r) \/ (\E c \in Clients : Put(r, c)) \/ CallOriginal(r)
Serves(c) == Subscribe(c) \/ Get(c) \/ Unsubscribe(c)
ClientDoes(c) == Connect(c) \/ Written(c) \/ WriteFails(c)

LiveNext ==
  \/ ChangeHooks \/ (\E bound \in BOOLEAN : Start(bound)) \/ Shutdown \/ StopGoesOn
  \/ \E r \in Recorders : Record(r) \/ Publishes(r)
  \/ \E c \in Clients : Serves(c) \/ Heartbeat(c) \/ ClientDoes(c)

LiveSpec == LiveInit /\ [][LiveNext]_liveVars

\* The threads of the program run.  Nothing is assumed of a client: it may leave
\* what is written to it unread for ever, and nothing has to be recorded.
LiveFairSpec ==
  /\ LiveSpec /\ WF_liveVars(StopGoesOn)
  /\ \A r \in Recorders : WF_liveVars(Publishes(r))
  /\ \A c \in Clients : WF_liveVars(Serves(c))

-----------------------------------------------------------------------------
(* Properties *)

\* Every variable has its type; queues keep their bound.
LiveTypeOK ==
  /\ installed \in Hooks \cup {"none"} /\ next \in [Hooks -> Hooks \cup {"none"}]
  /\ previous \in Hooks \cup {"none", "unset"} /\ unused \subseteq Hooks
  /\ running \in BOOLEAN /\ ctl \in {"free", "shutdown", "ending", "unhook"}
  /\ subs \subseteq Clients /\ waiting \subseteq subs
  /\ \A c \in Clients :
       /\ conn[c] \in {"none", "accepted", "reading", "writing", "leaving"}
       /\ Len(inbox[c]) <= Cap
  /\ \A r \in Recorders :
       /\ rpc[r] \in {"idle", "copy", "put"} /\ rec[r] \in 0..notes
       /\ depth[r] \in 0..MaxDepth /\ targets[r] \subseteq Clients

\* stop() waits, with the lock held, for room in a queue that its handler does
\* not read: the handler has failed and waits for that lock, or it is blocked in
\* a write to a client that reads no more.
Stuck ==
  /\ ctl = "ending"
  /\ \E c \in waiting : conn[c] \in {"leaving", "writing"} /\ Len(inbox[c]) = Cap

\* stop() returns although it waits for full queues with the lock held, unless it
\* is stuck for ever on a handler that failed or whose client does not read: no
\* publisher, no ended stream and no slow but reading client keeps it from it.
StopReturns == ctl # "free" ~> (ctl = "free" \/ []Stuck)
=============================================================================
