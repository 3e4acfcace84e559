--------------------------- MODULE SystemMonitor ---------------------------
(***************************************************************************)
(* The system metrics collector (tokenledger/core/system.py).  Threads of  *)
(* the application start and stop it and take snapshots; a collector       *)
(* thread takes one in each pass of its loop.  A snapshot is taken under   *)
(* the lock, and probing the machine may take longer than the five seconds *)
(* for which stop() waits; start() and stop() take no lock.                *)
(*                                                                         *)
(* A sample is named by the number of its collection.                      *)
(* Operators commented "Mistake" are wrong on purpose and used nowhere.    *)
(***************************************************************************)
EXTENDS Integers, Sequences, FiniteSets

CONSTANTS
  Users,        \* threads of the application
  Collectors,   \* collector threads there may be, each is started once
  Keep,         \* 10_000, the samples that are kept
  MaxSamples,   \* bound: collections
  MaxCalls      \* bound: calls by the application

ASSUME MonitorConstants ==
  /\ "none" \notin Users \cup Collectors /\ Users \cap Collectors = {} /\ Keep \in Nat \ {0}
  /\ IsFiniteSet(Collectors) /\ MaxSamples \in Nat /\ MaxCalls \in Nat

Participants == Users \cup Collectors

VARIABLES
  thread,    \* _thread
  created,   \* collectors that are some Thread object
  stopFlag,  \* _stop is set
  holder,    \* the thread in the lock, or "none"
  last,      \* _last_snapshot: number of the sample, or 0
  metrics,   \* samples kept, oldest first
  doing,     \* what each thread does next
  target,    \* the thread a stop() joins, or a start() made
  samples,   \* collections so far
  calls,     \* calls so far
  late,      \* joins that timed out (history)
  contested  \* two threads were in start or stop at once (history)

shared == <<thread, created, stopFlag>>
sampling == <<holder, last, metrics, samples>>
monitorVars == <<shared, sampling, doing, target, calls, late, contested>>

MonitorInit ==
  /\ thread = "none" /\ created = {} /\ stopFlag = FALSE
  /\ holder = "none" /\ last = 0 /\ metrics = <<>> /\ samples = 0
  /\ doing = [t \in Participants |-> IF t \in Users THEN "idle" ELSE "new"]
  /\ target = [u \in Users |-> "none"]
  /\ calls = 0 /\ late = 0 /\ contested = FALSE

GoesTo(t, phase) == doing' = [doing EXCEPT ![t] = phase]
Alive(t) == t \in Collectors /\ doing[t] \notin {"new", "ended"}
Begun == {t \in Collectors : doing[t] # "new"}
Running == {t \in Collectors : Alive(t)}
InControl(u) == doing[u] \in {"clear", "create", "begin", "look", "join", "joining", "forget"}

-----------------------------------------------------------------------------
(* start *)

\* Mistake: whether the collector still runs is not asked.
NeverRuns == FALSE
\* self._thread and self._thread.is_alive(): a stop between the two reads could
\* only make the call raise, which leaves everything as it is.
AlreadyRuns == Alive(thread)

Call(u, phase) ==
  /\ doing[u] = "idle" /\ calls < MaxCalls
  /\ calls' = calls + 1
  /\ GoesTo(u, phase)
  /\ contested' = (contested \/ (phase \in {"clear", "look"} /\ \E v \in Users \ {u} : InControl(v)))

StartCalled(u) ==
  /\ Call(u, IF AlreadyRuns THEN "idle" ELSE "clear")
  /\ UNCHANGED <<shared, sampling, target, late>>

ClearFlag(u) ==
  /\ doing[u] = "clear" /\ GoesTo(u, "create")
  /\ stopFlag' = FALSE
  /\ UNCHANGED <<thread, created, sampling, target, calls, late, contested>>

CreateThread(u) ==
  /\ doing[u] = "create" /\ GoesTo(u, "begin")
  /\ created # Collectors
  /\ thread' = CHOOSE t \in Collectors \ created : TRUE
  /\ created' = created \cup {thread'}
  /\ UNCHANGED <<stopFlag, sampling, target, calls, late, contested>>

\* self._thread.start(): another thread's, if it was replaced; it raises if
\* that was forgotten, or started, meanwhile.
BeginThread(u) ==
  /\ doing[u] = "begin"
  /\ doing' = [t \in Participants |->
       IF t = u THEN "idle" ELSE IF t = thread /\ doing[t] = "new" THEN "test" ELSE doing[t]]
  /\ UNCHANGED <<shared, sampling, target, calls, late, contested>>

-----------------------------------------------------------------------------
(* stop *)

StopCalled(u) ==
  /\ Call(u, "look")
  /\ stopFlag' = TRUE
  /\ UNCHANGED <<thread, created, sampling, target, late>>

\* if self._thread
LookForThread(u) ==
  /\ doing[u] = "look" /\ GoesTo(u, IF thread = "none" THEN "idle" ELSE "join")
  /\ UNCHANGED <<shared, sampling, target, calls, late, contested>>

\* Forgotten meanwhile by another stop, or not begun: the join raises.
JoinRaises(u) ==
  /\ doing[u] = "join" /\ thread \notin Begun
  /\ GoesTo(u, "idle")
  /\ UNCHANGED <<shared, sampling, target, calls, late, contested>>

Join(u) ==
  /\ doing[u] = "join" /\ thread \in Begun
  /\ target' = [target EXCEPT ![u] = thread]
  /\ GoesTo(u, "joining")
  /\ UNCHANGED <<shared, sampling, calls, late, contested>>

Joined(u) ==
  /\ doing[u] = "joining" /\ doing[target[u]] = "ended"
  /\ GoesTo(u, "forget")
  /\ UNCHANGED <<shared, sampling, target, calls, late, contested>>

\* timeout=5: somebody is still probing, or a start has cleared the flag.
JoinTimesOut(u) ==
  /\ doing[u] = "joining" /\ Alive(target[u]) /\ (holder # "none" \/ ~stopFlag)
  /\ GoesTo(u, "forget") /\ late' = late + 1
  /\ UNCHANGED <<shared, sampling, target, calls, contested>>

\* self._thread = None
ForgetThread(u) ==
  /\ doing[u] = "forget"
  /\ thread' = "none" /\ target' = [target EXCEPT ![u] = "none"]
  /\ GoesTo(u, "idle")
  /\ UNCHANGED <<created, stopFlag, sampling, calls, late, contested>>

-----------------------------------------------------------------------------
(* snapshot *)

\* Where a thread goes when its snapshot is over, whether it raised or not.
Back(t) == IF t \in Users THEN "idle" ELSE "wait"

AskSnapshot(u) ==
  /\ Call(u, "ask")
  /\ UNCHANGED <<shared, sampling, target, late>>

\* The lock; self._thread is not None
EnterLock(t) ==
  /\ doing[t] = "ask" /\ holder = "none"
  /\ holder' = t
  /\ GoesTo(t, IF thread = "none" THEN "probe" ELSE "reread")
  /\ UNCHANGED <<shared, last, metrics, samples, target, calls, late, contested>>

\* self._thread.is_alive() and self._last_snapshot is not None
OthersSample(t) == Alive(thread) /\ last # 0
\* self.metrics[-10_000:]
Kept(list) == IF Len(list) > Keep THEN SubSeq(list, Len(list) - Keep + 1, Len(list)) ELSE list

Leave(t) == holder' = "none" /\ GoesTo(t, Back(t))

\* The thread was forgotten between the two reads: AttributeError.
ThreadGone(t) ==
  /\ doing[t] = "reread" /\ thread = "none"
  /\ Leave(t)
  /\ UNCHANGED <<shared, last, metrics, samples, target, calls, late, contested>>

Reuse(t) ==
  /\ doing[t] = "reread" /\ thread # "none" /\ OthersSample(t)
  /\ metrics' = Kept(Append(metrics, last))
  /\ Leave(t)
  /\ UNCHANGED <<shared, last, samples, target, calls, late, contested>>

NothingToReuse(t) ==
  /\ doing[t] = "reread" /\ thread # "none" /\ ~OthersSample(t)
  /\ GoesTo(t, "probe")
  /\ UNCHANGED <<shared, sampling, target, calls, late, contested>>

\* Mistake: the first sample stays the one that is reused.
FirstKept == IF last = 0 THEN samples + 1 ELSE last
\* self._last_snapshot = dict(record)
Newest == samples + 1

Collect(t) ==
  /\ doing[t] = "probe" /\ samples < MaxSamples
  /\ samples' = samples + 1
  /\ last' = Newest
  /\ metrics' = Kept(Append(metrics, samples + 1))
  /\ Leave(t)
  /\ UNCHANGED <<shared, target, calls, late, contested>>

\* A probe raises: nothing is recorded, and the collector goes on.
ProbeFails(t) ==
  /\ doing[t] = "probe" /\ Leave(t)
  /\ UNCHANGED <<shared, last, metrics, samples, target, calls, late, contested>>

Clear(u) ==
  /\ holder = "none" /\ Call(u, "idle")
  /\ metrics' = <<>>
  /\ UNCHANGED <<shared, holder, last, samples, target, late>>

-----------------------------------------------------------------------------
(* _collect_loop *)

\* Mistake: the loop is left in its wait only.
NotTested == FALSE
\* not self._stop.is_set()
Stopped == stopFlag

TestFlag(t) ==
  /\ t \in Collectors /\ doing[t] = "test"
  /\ GoesTo(t, IF Stopped THEN "ended" ELSE "ask")
  /\ UNCHANGED <<shared, sampling, target, calls, late, contested>>

\* self._stop.wait(interval): the flag is set, or the interval is over.
Waited(t) ==
  /\ t \in Collectors /\ doing[t] = "wait" /\ GoesTo(t, "test")
  /\ UNCHANGED <<shared, sampling, target, calls, late, contested>>

-----------------------------------------------------------------------------
TakesSnapshot(t) ==
  EnterLock(t) \/ ThreadGone(t) \/ Reuse(t) \/ NothingToReuse(t) \/ Collect(t) \/ ProbeFails(t)
Controls(u) ==
  \/ ClearFlag(u) \/ CreateThread(u) \/ BeginThread(u)
  \/ LookForThread(u) \/ JoinRaises(u) \/ Join(u) \/ Joined(u) \/ JoinTimesOut(u) \/ ForgetThread(u)

MonitorNext ==
  \/ \E u \in Users :
       StartCalled(u) \/ StopCalled(u) \/ Clear(u) \/ AskSnapshot(u) \/ Controls(u)
  \/ \E t \in Participants : TakesSnapshot(t)
  \/ \E t \in Collectors : TestFlag(t) \/ Waited(t)

MonitorSpec == MonitorInit /\ [][MonitorNext]_monitorVars

\* Threads that have begun run on; the application's calls are finitely many, so
\* nobody is kept from the lock for ever.
MonitorFairSpec ==
  /\ MonitorSpec
  /\ \A u \in Users : WF_monitorVars(Controls(u))
  /\ \A t \in Participants : WF_monitorVars(TakesSnapshot(t))
  /\ \A t \in Collectors : WF_monitorVars(TestFlag(t) \/ Waited(t))

-----------------------------------------------------------------------------
(* Properties *)

\* Every variable has its type; a thread is in the lock exactly while it reads
\* the collector's state or probes, and no more samples are kept than fit.
MonitorTypeOK ==
  /\ thread \in created \cup {"none"} /\ created \subseteq Collectors
  /\ holder \in Participants \cup {"none"} /\ last \in 0..samples
  /\ \A t \in Participants : holder = t <=> doing[t] \in {"reread", "probe"}
  /\ Len(metrics) <= Keep /\ \A i \in 1..Len(metrics) : metrics[i] \in 1..samples
  /\ \A u \in Users : target[u] \in created \cup {"none"}

\* get_summary takes the first and last entries for the ends of the period:
\* the samples are kept in the order in which they were collected, however
\* collectors, snapshots and restarts interleave (snapshot, _last_snapshot).
InOrder == \A i, j \in 1..Len(metrics) : i < j => metrics[i] <= metrics[j]

\* A start makes no second collector: there are more than one only if joins
\* timed out (each leaves one behind, which a later start sets going again) or
\* threads start and stop the monitor at the same time (start, stop).
OneCollector == contested \/ Cardinality(Running) <= 1 + late

\* Once the monitor is stopped for good every collector ends, those a timed-out
\* join left behind too (stop, _collect_loop).
StoppedForGood == (<>[]stopFlag) => <>[](Running = {})

-----------------------------------------------------------------------------
(* What the documentation says and the code does not do *)

\* system.py:201: "snapshot returns the last background-collected sample": a
\* collector collects.  It reuses the last sample like every other caller, so
\* while it runs there is no second one.
CollectorCollects == [][\A t \in Collectors : ~Reuse(t)]_monitorVars
=============================================================================
