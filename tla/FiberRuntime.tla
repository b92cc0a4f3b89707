---------------------------- MODULE FiberRuntime ----------------------------
(***************************************************************************)
(* The fiber registry of crates/nlos-runtime-tokio: admission, execution,  *)
(* cancellation, join, detach, reaping and shutdown of fiber generations.  *)
(*                                                                         *)
(* Threads (Callers) call the adapter concurrently and every fiber runs as *)
(* one Tokio task.  A critical section is one action; a call that takes    *)
(* several locks in turn, or reads a flag outside a lock, is several       *)
(* actions, with the place the caller stands at in call[c].at.  Locks that *)
(* are held across actions are visible: TerminalFree, WaitsFree,           *)
(* ScopesFree and fibersLock.                                              *)
(*                                                                         *)
(* A record (an Arc<FiberRecord>) and a scope (an Arc<CancellationScope>)  *)
(* is an index, so a thread that resolved a handle earlier keeps the       *)
(* record it resolved after the registry has moved on.  Calls that return  *)
(* an error without a change of state are stuttering steps.  Metering and  *)
(* the exit value are left out; the wait registries are in other modules.  *)
(***************************************************************************)
EXTENDS Naturals, Sequences, FiniteSets

CONSTANTS Callers,                 \* threads that call the adapter
          Fibers,                  \* ExecutionFiberId
          Generations,             \* fiber generations that are spawned
          ScopeKeys,               \* records [id, generation]
          Ops,                     \* the calls the threads make
          MaxLiveFibers,           \* max_live_fibers
          TombstoneCapacity,       \* tombstone_capacity
          ScopeTombstoneCapacity,  \* scope_tombstone_capacity
          MaxRecords,              \* bound on spawned records, for model checking
          MaxScopes,               \* bound on created scopes, for model checking
          None

VARIABLES
  records,          \* every FiberRecord created, with the step its task is at
  fibers,           \* FiberRegistry.fibers; 0 when there is no record
  tombstones,       \* FiberRegistry.tombstones
  scopeObjs,        \* every CancellationScope created
  scopes,           \* ScopeRegistry.scopes (by_id is derived from it)
  scopeTombstones,  \* ScopeRegistry.tombstones
  permits,          \* free permits of the admission semaphore
  shutdown,         \* Inner.shutdown
  fibersLock,       \* the caller that holds the fibers mutex across actions
  call              \* what each thread is doing

registryVars == <<fibers, tombstones, fibersLock>>
scopeVars == <<scopeObjs, scopes, scopeTombstones>>
vars == <<records, registryVars, scopeVars, permits, shutdown, call>>

TaskStep == {"spawned", "armed", "awaiting", "finishing", "reap", "release", "exiting", "ended"}
TerminalOutcome == {"pending", "finished", "consumed"}
\* seen: the notification count the Notified future captured; exits: how many
\* joiners were handed the exit (history, for ExitOnce).
FiberRecord == [fiber : Fibers, generation : Generations, key : ScopeKeys, scope : Nat,
                terminal : TerminalOutcome, reapOnTerminal : BOOLEAN,
                task : TaskStep, seen : BOOLEAN, exits : Nat]
CancellationScope == [cancelled : BOOLEAN, notified : BOOLEAN]
ScopeEntry == [obj : Nat, refs : Nat]
Step == {"idle", "admit", "acquire", "check", "register", "unscope",
         "join", "parked", "mark", "inspect", "reap", "release", "notify", "sweep",
         "flag", "snapshot", "wake", "scan", "drain", "again"}
Idle == [at |-> "idle", fiber |-> None, generation |-> 0, key |-> None, ref |-> 0,
         todo |-> {}, found |-> {}]

Recs == DOMAIN records
Registered == {r \in Recs : fibers[records[r].fiber] = r}
Pending(r) == records[r].terminal = "pending"

TypeOK ==
  /\ records \in Seq(FiberRecord)
  /\ fibers \in [Fibers -> 0 .. Len(records)]
  /\ \A i \in DOMAIN tombstones : tombstones[i] \in Fibers \X Generations
  /\ scopeObjs \in Seq(CancellationScope)
  /\ scopes \in [ScopeKeys -> ScopeEntry]
  /\ \A i \in DOMAIN scopeTombstones : scopeTombstones[i] \in ScopeKeys
  /\ permits \in 0 .. MaxLiveFibers
  /\ shutdown \in BOOLEAN
  /\ fibersLock \in Callers \cup {None}
  /\ \A c \in Callers : call[c].at \in Step
  /\ Len(tombstones) <= TombstoneCapacity
  /\ Len(scopeTombstones) <= ScopeTombstoneCapacity

Init ==
  /\ records = <<>>
  /\ fibers = [f \in Fibers |-> 0]
  /\ tombstones = <<>>
  /\ scopeObjs = <<>>
  /\ scopes = [k \in ScopeKeys |-> [obj |-> 0, refs |-> 0]]
  /\ scopeTombstones = <<>>
  /\ permits = MaxLiveFibers
  /\ shutdown = FALSE
  /\ fibersLock = None
  /\ call = [c \in Callers |-> Idle]

(***************************************************************************)
(* Locks.  reap_fiber runs inside the terminal mutex of its record; a task *)
(* that finishes also holds the waits mutex; a cancellation notifies while *)
(* it holds the scopes mutex.                                              *)
(***************************************************************************)
TerminalFree(r) ==
  /\ records[r].task \notin {"reap", "release"}
  /\ \A c \in Callers : ~(call[c].at \in {"reap", "release"} /\ call[c].ref = r)
WaitsFree == \A r \in Recs : records[r].task \notin {"reap", "release"}
ScopesFree == \A c \in Callers : call[c].at # "notify"
FibersFree == fibersLock = None

\* clean_shutdown is under way, and spawn_fiber is: "Callers must not admit new
\* fibers while this drain runs", so neither begins during the other.
Draining == \E c \in Callers : call[c].at \in {"scan", "drain", "again", "flag"}
Spawning ==
  \E c \in Callers : call[c].at \in {"admit", "acquire", "check", "register", "unscope"}

\* Moves thread c to a step.
Goto(c, at) == call' = [call EXCEPT ![c].at = at]
Return(c) == call' = [call EXCEPT ![c] = Idle]

(***************************************************************************)
(* Faulty variants of the operators below, one per plausible slip in the   *)
(* code; no action uses them.                                              *)
(***************************************************************************)
\* A rejected admission keeps its scope reference.
KeepScope(c) ==
  /\ call[c].at = "unscope"
  /\ permits' = permits + 1
  /\ Return(c)
  /\ UNCHANGED <<records, registryVars, scopeVars, shutdown>>

\* A join leaves the exit for the next joiner.
LeaveExit(r) == records' = [records EXCEPT ![r].exits = @ + 1]

\* detach_fiber leaves the reaping to the task, ended or not.
MarkOnly(c) ==
  /\ call[c].at = "mark"
  /\ records' = [records EXCEPT ![call[c].ref].reapOnTerminal = TRUE]
  /\ Return(c)
  /\ UNCHANGED <<registryVars, scopeVars, permits, shutdown>>

\* notify_shutdown is forgotten.
ForgetJoiners(c) ==
  /\ call[c].at = "wake"
  /\ Return(c)
  /\ UNCHANGED <<records, registryVars, scopeVars, permits, shutdown>>

\* The Notified future is created after the flag was checked.
CheckThenArm(r) ==
  /\ records[r].task = "armed"
  /\ records' = [records EXCEPT ![r].task = "awaiting",
                                ![r].seen = scopeObjs[records[r].scope].notified]
  /\ UNCHANGED <<registryVars, scopeVars, permits, shutdown, call>>

\* The scope of a record that left the registry is released at once, without
\* counting the references.
ReleaseScope(s, k) == [s EXCEPT ![k] = [obj |-> 0, refs |-> 0]]

\* The drain looks at one record only.
DrainOne(c) ==
  /\ call[c].at = "scan"
  /\ fibersLock' = None
  /\ \/ /\ call[c].found = {}
        /\ Goto(c, "flag")
     \/ \E r \in call[c].found :
          call' = [call EXCEPT ![c].at = "drain", ![c].ref = r, ![c].found = {}]
  /\ UNCHANGED <<records, fibers, tombstones, scopeVars, permits, shutdown>>

(***************************************************************************)
(* The registries.                                                         *)
(***************************************************************************)
\* A FIFO ring of the given capacity: the oldest entries give way.
Push(ring, capacity, x) ==
  IF capacity = 0 THEN ring
  ELSE LET n == Len(ring) IN
       Append(IF n >= capacity THEN SubSeq(ring, n - capacity + 2, n) ELSE ring, x)

InRing(ring, x) == \E i \in DOMAIN ring : ring[i] = x

\* FiberRegistry::resolve, the success branch.
Resolves(f, g, r) == fibers[f] = r /\ r # 0 /\ records[r].generation = g

\* FiberRegistry::reap: the record registered under the id is removed.
Reap(r) ==
  /\ fibers' = [fibers EXCEPT ![records[r].fiber] = 0]
  /\ tombstones' = Push(tombstones, TombstoneCapacity,
                        <<records[r].fiber, records[r].generation>>)

\* ScopeRegistry::acquire, the fence: a live generation, or within the ring a
\* reaped one, locks the id.
AcquireAllowed(k) ==
  LET live == {j \in ScopeKeys : j.id = k.id /\ scopes[j].refs > 0} IN
  IF live # {} THEN k \in live
  ELSE \A i \in DOMAIN scopeTombstones : scopeTombstones[i].id = k.id => scopeTombstones[i] = k

\* ScopeRegistry::release on the entries: the last reference removes one.
DropReference(s, k) ==
  IF s[k].refs = 1 THEN [s EXCEPT ![k] = [obj |-> 0, refs |-> 0]]
  ELSE IF s[k].refs = 0 THEN s
  ELSE [s EXCEPT ![k].refs = @ - 1]

Release(k) ==
  /\ ScopesFree
  /\ scopes' = DropReference(scopes, k)
  /\ scopeTombstones' = IF scopes[k].refs = 1
                        THEN Push(scopeTombstones, ScopeTombstoneCapacity, k)
                        ELSE scopeTombstones
  /\ UNCHANGED scopeObjs

(***************************************************************************)
(* spawn_fiber.                                                            *)
(***************************************************************************)
\* The shutdown gate; a spawn that passed it goes on even if shutdown follows.
SpawnGate(c, f, g, k) ==
  /\ "spawn" \in Ops /\ call[c] = Idle
  /\ Len(records) < MaxRecords /\ Len(scopeObjs) < MaxScopes
  /\ ~Draining
  /\ ~shutdown
  /\ call' = [call EXCEPT ![c].at = "admit", ![c].fiber = f, ![c].generation = g, ![c].key = k]
  /\ UNCHANGED <<records, registryVars, scopeVars, permits, shutdown>>

SpawnAdmit(c) ==
  /\ call[c].at = "admit"
  /\ \/ permits > 0 /\ permits' = permits - 1 /\ Goto(c, "acquire")
     \/ permits = 0 /\ UNCHANGED permits /\ Return(c)
  /\ UNCHANGED <<records, registryVars, scopeVars, shutdown>>

SpawnFenced(c) ==
  /\ call[c].at = "acquire"
  /\ ScopesFree
  /\ ~AcquireAllowed(call[c].key)
  /\ permits' = permits + 1
  /\ Return(c)
  /\ UNCHANGED <<records, registryVars, scopeVars, shutdown>>

SpawnAcquire(c) ==
  LET k == call[c].key
      fresh == scopes[k].refs = 0
      obj == IF fresh THEN Len(scopeObjs) + 1 ELSE scopes[k].obj
  IN  /\ call[c].at = "acquire"
      /\ ScopesFree
      /\ AcquireAllowed(k)
      /\ scopeObjs' = IF fresh THEN Append(scopeObjs, [cancelled |-> FALSE, notified |-> FALSE])
                      ELSE scopeObjs
      /\ scopes' = [scopes EXCEPT ![k] = [obj |-> obj, refs |-> @.refs + 1]]
      /\ call' = [call EXCEPT ![c].at = "check", ![c].ref = obj]
      /\ UNCHANGED <<records, registryVars, scopeTombstones, permits, shutdown>>

\* The scope is looked at outside the scopes mutex.
SpawnCheck(c) ==
  /\ call[c].at = "check"
  /\ Goto(c, IF scopeObjs[call[c].ref].cancelled THEN "unscope" ELSE "register")
  /\ UNCHANGED <<records, registryVars, scopeVars, permits, shutdown>>

\* The id is free, and this generation is not in the tombstone window.
Admissible(f, g) == fibers[f] = 0 /\ ~InRing(tombstones, <<f, g>>)

SpawnRegister(c) ==
  LET f == call[c].fiber
      g == call[c].generation
  IN  /\ call[c].at = "register"
      /\ FibersFree
      /\ IF Admissible(f, g)
         THEN /\ records' = Append(records,
                   [fiber |-> f, generation |-> g, key |-> call[c].key, scope |-> call[c].ref,
                    terminal |-> "pending", reapOnTerminal |-> FALSE,
                    task |-> "spawned", seen |-> FALSE, exits |-> 0])
              /\ fibers' = [fibers EXCEPT ![f] = Len(records) + 1]
              /\ Return(c)
         ELSE UNCHANGED <<records, fibers>> /\ Goto(c, "unscope")
      /\ UNCHANGED <<tombstones, fibersLock, scopeVars, permits, shutdown>>

\* The rejected admission gives back its reference and its permit.
SpawnReject(c) ==
  /\ call[c].at = "unscope"
  /\ Release(call[c].key)
  /\ permits' = permits + 1
  /\ Return(c)
  /\ UNCHANGED <<records, registryVars, shutdown>>

(***************************************************************************)
(* run_fiber: the task of record r.                                        *)
(***************************************************************************)
\* Starts: looks at the scope, then creates the Notified future.
TaskStart(r) ==
  /\ records[r].task = "spawned"
  /\ records' = IF scopeObjs[records[r].scope].cancelled
                THEN [records EXCEPT ![r].task = "finishing"]
                ELSE [records EXCEPT ![r].task = "armed",
                                     ![r].seen = scopeObjs[records[r].scope].notified]
  /\ UNCHANGED <<registryVars, scopeVars, permits, shutdown, call>>

\* CancellationScope::cancelled checks the flag once the future exists.
TaskPoll(r) ==
  /\ records[r].task = "armed"
  /\ records' = [records EXCEPT ![r].task =
                   IF scopeObjs[records[r].scope].cancelled THEN "finishing" ELSE "awaiting"]
  /\ UNCHANGED <<registryVars, scopeVars, permits, shutdown, call>>

\* The notification arrives.
TaskCancelled(r) ==
  /\ records[r].task = "awaiting"
  /\ scopeObjs[records[r].scope].notified # records[r].seen
  /\ records' = [records EXCEPT ![r].task = "finishing"]
  /\ UNCHANGED <<registryVars, scopeVars, permits, shutdown, call>>

\* The fiber's future returns or panics, or its deadline passes.
TaskReturns(r) ==
  /\ records[r].task = "awaiting"
  /\ records' = [records EXCEPT ![r].task = "finishing"]
  /\ UNCHANGED <<registryVars, scopeVars, permits, shutdown, call>>

\* Joiners of r parked on the condition variable look again.
NotifyJoiners(r) ==
  call' = [c \in Callers |-> IF call[c].at = "parked" /\ call[c].ref = r
                             THEN [call[c] EXCEPT !.at = "join"] ELSE call[c]]

\* FiberRecord::finish, inside the waits and terminal mutexes.
TaskFinish(r) ==
  /\ records[r].task = "finishing"
  /\ WaitsFree /\ TerminalFree(r)
  /\ records' = [records EXCEPT ![r].terminal = "finished",
                                ![r].task = IF records[r].reapOnTerminal
                                             THEN "reap" ELSE "exiting"]
  /\ NotifyJoiners(r)
  /\ UNCHANGED <<registryVars, scopeVars, permits, shutdown>>

\* Inner::reap_fiber: the scope is released only by the call that reaped.
TaskReap(r) ==
  /\ records[r].task = "reap"
  /\ FibersFree
  /\ IF fibers[records[r].fiber] # 0
     THEN Reap(r) /\ records' = [records EXCEPT ![r].task = "release"]
     ELSE UNCHANGED <<fibers, tombstones>> /\ records' = [records EXCEPT ![r].task = "exiting"]
  /\ UNCHANGED <<fibersLock, scopeVars, permits, shutdown, call>>

TaskRelease(r) ==
  /\ records[r].task = "release"
  /\ Release(records[r].key)
  /\ records' = [records EXCEPT ![r].task = "exiting"]
  /\ UNCHANGED <<registryVars, permits, shutdown, call>>

\* The admission permit is dropped with the task.
TaskExit(r) ==
  /\ records[r].task = "exiting"
  /\ permits' = permits + 1
  /\ records' = [records EXCEPT ![r].task = "ended"]
  /\ UNCHANGED <<registryVars, scopeVars, shutdown, call>>

(***************************************************************************)
(* join_fiber and detach_fiber.                                            *)
(***************************************************************************)
\* record_for, the first step of both.
ResolveHandle(c, op, at, f, g) ==
  /\ op \in Ops /\ call[c] = Idle
  /\ FibersFree
  /\ \E r \in Recs :
       /\ Resolves(f, g, r)
       /\ call' = [call EXCEPT ![c].at = at, ![c].ref = r]
  /\ UNCHANGED <<records, registryVars, scopeVars, permits, shutdown>>

JoinResolve(c, f, g) == ResolveHandle(c, "join", "join", f, g)
DetachResolve(c, f, g) == ResolveHandle(c, "detach", "mark", f, g)

\* The exit of r is handed to a joiner.
Consume(r) == records' = [records EXCEPT ![r].terminal = "consumed", ![r].exits = @ + 1]

\* FiberRecord::join, one turn of its loop inside the terminal mutex.
JoinCheck(c) ==
  LET r == call[c].ref IN
  /\ call[c].at = "join"
  /\ TerminalFree(r)
  /\ \/ records[r].terminal = "finished" /\ Consume(r) /\ Goto(c, "reap")
     \/ records[r].terminal = "consumed" /\ UNCHANGED records /\ Return(c)
     \/ Pending(r) /\ shutdown /\ UNCHANGED records /\ Return(c)
     \/ Pending(r) /\ ~shutdown /\ UNCHANGED records /\ Goto(c, "parked")
  /\ UNCHANGED <<registryVars, scopeVars, permits, shutdown>>

DetachMark(c) ==
  /\ call[c].at = "mark"
  /\ records' = [records EXCEPT ![call[c].ref].reapOnTerminal = TRUE]
  /\ Goto(c, "inspect")
  /\ UNCHANGED <<registryVars, scopeVars, permits, shutdown>>

DetachInspect(c) ==
  /\ call[c].at = "inspect"
  /\ TerminalFree(call[c].ref)
  /\ IF records[call[c].ref].terminal = "finished" THEN Goto(c, "reap") ELSE Return(c)
  /\ UNCHANGED <<records, registryVars, scopeVars, permits, shutdown>>

\* Inner::reap_fiber called by a joiner or a detacher.
CallerReap(c) ==
  /\ call[c].at = "reap"
  /\ FibersFree
  /\ IF fibers[records[call[c].ref].fiber] # 0
     THEN Reap(call[c].ref) /\ Goto(c, "release")
     ELSE UNCHANGED <<fibers, tombstones>> /\ Return(c)
  /\ UNCHANGED <<records, fibersLock, scopeVars, permits, shutdown>>

CallerRelease(c) ==
  /\ call[c].at = "release"
  /\ Release(records[call[c].ref].key)
  /\ Return(c)
  /\ UNCHANGED <<records, registryVars, permits, shutdown>>

(***************************************************************************)
(* cancel_scope and cancel_process_fibers.                                 *)
(***************************************************************************)
\* CancellationScope::cancel of a set of live scopes: first the flags.
CancelFlags(c, objs) ==
  /\ scopeObjs' = [i \in DOMAIN scopeObjs |->
                     IF i \in objs THEN [scopeObjs[i] EXCEPT !.cancelled = TRUE] ELSE scopeObjs[i]]
  /\ call' = [call EXCEPT ![c] = [Idle EXCEPT !.at = "notify", !.todo = objs]]
  /\ UNCHANGED <<records, registryVars, scopes, scopeTombstones, permits, shutdown>>

\* A second cancel of a scope changes nothing and is left out.
CancelScope(c, k) ==
  /\ "cancel" \in Ops /\ call[c] = Idle
  /\ ScopesFree
  /\ scopes[k].refs > 0
  /\ ~scopeObjs[scopes[k].obj].cancelled
  /\ CancelFlags(c, {scopes[k].obj})

\* The sweep collects the scope keys of the fenced process' fibers, any subset
\* of the registered ones.  A sweep whose scopes are all cancelled already
\* changes nothing and is left out.
SweepCollect(c) ==
  /\ "sweep" \in Ops /\ call[c] = Idle
  /\ FibersFree
  /\ \E matched \in SUBSET Registered :
       /\ \E r \in matched : ~scopeObjs[records[r].scope].cancelled
       /\ call' = [call EXCEPT ![c].at = "sweep", ![c].todo = {records[r].key : r \in matched}]
  /\ UNCHANGED <<records, registryVars, scopeVars, permits, shutdown>>

\* One scopes guard for all keys; a key that vanished is skipped.
SweepCancel(c) ==
  /\ call[c].at = "sweep"
  /\ ScopesFree
  /\ CancelFlags(c, {scopes[k].obj : k \in {j \in call[c].todo : scopes[j].refs > 0}})

\* notify_waiters, still inside the scopes mutex.
CancelNotify(c) ==
  /\ call[c].at = "notify"
  /\ scopeObjs' = [i \in DOMAIN scopeObjs |->
                     IF i \in call[c].todo THEN [scopeObjs[i] EXCEPT !.notified = TRUE]
                     ELSE scopeObjs[i]]
  /\ Return(c)
  /\ UNCHANGED <<records, registryVars, scopes, scopeTombstones, permits, shutdown>>

(***************************************************************************)
(* shutdown and clean_shutdown.                                            *)
(***************************************************************************)
\* A second shutdown changes nothing and is left out.
ShutdownFlag(c) ==
  /\ \/ "shutdown" \in Ops /\ call[c] = Idle /\ ~shutdown
     \/ call[c].at = "flag"
  /\ shutdown' = TRUE
  /\ Goto(c, "snapshot")
  /\ UNCHANGED <<records, registryVars, scopeVars, permits>>

ShutdownSnapshot(c) ==
  /\ call[c].at = "snapshot"
  /\ FibersFree
  /\ call' = [call EXCEPT ![c].at = "wake", ![c].todo = Registered]
  /\ UNCHANGED <<records, registryVars, scopeVars, permits, shutdown>>

\* FiberRecord::notify_shutdown on one record of the snapshot.
ShutdownWake(c) ==
  /\ call[c].at = "wake"
  /\ \/ call[c].todo = {} /\ Return(c)
     \/ \E r \in call[c].todo :
          /\ TerminalFree(r)
          /\ call' = [d \in Callers |->
                        IF d = c THEN [call[c] EXCEPT !.todo = @ \ {r}]
                        ELSE IF call[d].at = "parked" /\ call[d].ref = r /\ Pending(r)
                        THEN [call[d] EXCEPT !.at = "join"] ELSE call[d]]
  /\ UNCHANGED <<records, registryVars, scopeVars, permits, shutdown>>

\* clean_shutdown takes the fibers mutex and keeps it while it looks at the
\* outcome of every record, each under that record's terminal mutex.
CleanLock(c) ==
  /\ \/ "clean" \in Ops /\ call[c] = Idle /\ ~shutdown /\ ~Spawning
     \/ call[c].at = "again"
  /\ FibersFree
  /\ fibersLock' = c
  /\ call' = [call EXCEPT ![c] = [Idle EXCEPT !.at = "scan", !.todo = Registered]]
  /\ UNCHANGED <<records, fibers, tombstones, scopeVars, permits, shutdown>>

CleanScan(c) ==
  /\ call[c].at = "scan"
  /\ \E r \in call[c].todo :
       /\ TerminalFree(r)
       /\ call' = [call EXCEPT ![c].todo = @ \ {r},
                               ![c].found = IF Pending(r) THEN @ \cup {r} ELSE @]
  /\ UNCHANGED <<records, registryVars, scopeVars, permits, shutdown>>

\* The mutex is released; shutdown follows once nothing was found pending,
\* else one pending record is awaited.
CleanUnlock(c) ==
  /\ call[c].at = "scan"
  /\ call[c].todo = {}
  /\ fibersLock' = None
  /\ \/ call[c].found = {} /\ Goto(c, "flag")
     \/ \E r \in call[c].found :
          call' = [call EXCEPT ![c].at = "drain", ![c].ref = r, ![c].found = {}]
  /\ UNCHANGED <<records, fibers, tombstones, scopeVars, permits, shutdown>>

\* wait_until_terminal.
CleanDrain(c) ==
  /\ call[c].at = "drain"
  /\ TerminalFree(call[c].ref)
  /\ ~Pending(call[c].ref)
  /\ Goto(c, "again")
  /\ UNCHANGED <<records, registryVars, scopeVars, permits, shutdown>>

(***************************************************************************)
(* The specification.                                                      *)
(***************************************************************************)
\* A step of a call that has begun.
Continue(c) ==
  \/ SpawnAdmit(c) \/ SpawnFenced(c) \/ SpawnAcquire(c) \/ SpawnCheck(c)
  \/ SpawnRegister(c) \/ SpawnReject(c)
  \/ JoinCheck(c) \/ DetachMark(c) \/ DetachInspect(c) \/ CallerReap(c) \/ CallerRelease(c)
  \/ SweepCancel(c) \/ CancelNotify(c)
  \/ call[c].at = "flag" /\ ShutdownFlag(c)
  \/ ShutdownSnapshot(c) \/ ShutdownWake(c)
  \/ call[c].at = "again" /\ CleanLock(c)
  \/ CleanScan(c) \/ CleanUnlock(c) \/ CleanDrain(c)

Begin(c) ==
  \/ \E f \in Fibers, g \in Generations :
       \/ \E k \in ScopeKeys : SpawnGate(c, f, g, k)
       \/ JoinResolve(c, f, g) \/ DetachResolve(c, f, g)
  \/ \E k \in ScopeKeys : CancelScope(c, k)
  \/ SweepCollect(c)
  \/ call[c] = Idle /\ (ShutdownFlag(c) \/ CleanLock(c))

\* A step the executor takes for a task it has to poll.
TaskStepOf(r) ==
  \/ TaskStart(r) \/ TaskPoll(r) \/ TaskCancelled(r)
  \/ TaskFinish(r) \/ TaskReap(r) \/ TaskRelease(r) \/ TaskExit(r)

Next ==
  \/ \E c \in Callers : Begin(c) \/ Continue(c)
  \/ \E r \in Recs : TaskStepOf(r) \/ TaskReturns(r)

\* Threads that have begun a call are scheduled and the executor polls woken
\* tasks; a fiber's own future need not return, and nobody has to begin a call.
Fairness ==
  /\ \A c \in Callers : WF_vars(Continue(c))
  /\ \A r \in 1 .. MaxRecords + Cardinality(Callers) : WF_vars(r \in Recs /\ TaskStepOf(r))

Spec == Init /\ [][Next]_vars /\ Fairness

(***************************************************************************)
(* Properties.                                                             *)
(***************************************************************************)
\* A scope's count is the number of outstanding acquisitions: one per
\* registered record, per spawn between its acquisition and its outcome, and
\* per reaper that has removed the record but not yet released the scope
\* (SCOPE-IDX-002).
RefsExact ==
  \A k \in ScopeKeys :
    scopes[k].refs =
      Cardinality({r \in Registered : records[r].key = k})
      + Cardinality({r \in Recs : records[r].task = "release" /\ records[r].key = k})
      + Cardinality({c \in Callers :
          \/ call[c].at \in {"check", "register", "unscope"} /\ call[c].key = k
          \/ call[c].at = "release" /\ records[call[c].ref].key = k})

\* No admission permit is lost or minted: at most max_live_fibers tasks exist at
\* once.
PermitsExact ==
  permits + Cardinality({r \in Recs : records[r].task # "ended"})
          + Cardinality({c \in Callers :
              call[c].at \in {"acquire", "check", "register", "unscope"}}) = MaxLiveFibers

\* Whichever way a spawn or a fiber ends (rejected, fenced, finished, cancelled,
\* detached, reaped late), it gives back exactly what it took: the scope
\* references and the admission permits are exact, and the tables, with the
\* tombstones it leaves, stay within their types and rings.
AccountsExact == TypeOK /\ RefsExact /\ PermitsExact

\* Every fiber that has not ended is registered and holds a reference of its
\* own scope ("every unreaped fiber record referencing the scope holds exactly
\* one"), so cancel_scope reaches it: no fiber runs on under a scope nobody
\* can cancel any more, whoever reaps other generations of its id.
LiveIsCancellable ==
  \A r \in Recs : Pending(r) =>
    fibers[records[r].fiber] = r /\ scopes[records[r].key].obj = records[r].scope

\* The exit of a fiber generation is handed to at most one joiner, and only
\* after that generation ended.
ExitOnce ==
  \A r \in Recs : records[r].exits <= 1 /\ (records[r].exits = 1 => ~Pending(r))

\* The detach/terminal race leaves no record behind: once a detached fiber has
\* ended and neither its task nor a detacher or joiner still has to look, the
\* registry does not hold it.
DetachedIsReclaimed ==
  \A r \in Recs :
    /\ records[r].reapOnTerminal /\ ~Pending(r) /\ TerminalFree(r)
    /\ \A c \in Callers : ~(call[c].at = "inspect" /\ call[c].ref = r)
    => fibers[records[r].fiber] # r

\* No join parks for ever across shutdown, even on a fiber that never ends.
JoinsReturn == \A c \in Callers : (call[c].at = "parked" /\ shutdown) ~> call[c].at # "parked"

\* A cancelled fiber ends: a cancellation is seen by the flag or by the
\* notification, never lost between the two.
CancelEnds ==
  \A r \in 1 .. MaxRecords :
    (r \in Recs /\ scopeObjs[records[r].scope].cancelled) ~> (r \in Recs /\ ~Pending(r))

\* clean_shutdown raises the shutdown flag only when every fiber has ended,
\* however many scans that takes (nothing is admitted meanwhile).
DrainStep ==
  shutdown' /\ ~shutdown => \A r \in Recs : ~Pending(r)
DrainsBeforeShutdown == [][DrainStep]_vars

=============================================================================
