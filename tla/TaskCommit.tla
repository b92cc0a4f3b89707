----------------------------- MODULE TaskCommit -----------------------------
(***************************************************************************)
(* The commit plane of one task in nlos-task: attempts race for the single *)
(* commit permit, the holder drives its effect slots, and finalize or      *)
(* close ends the permit; quarantine, adoption and reconciliation handle a *)
(* slot whose outcome is unknown; the authority lease, the assignment rows *)
(* and the takeover fence hand the task to a successor term.               *)
(*                                                                         *)
(* Every public method of TaskStore is one immediate SQLite transaction,   *)
(* hence one action.  A refused call rolls back and is not a step; a       *)
(* replayed call returns what the first one stored and is not a step       *)
(* either.  A registry binding (generation and root) is its generation, a  *)
(* lease binding its term and epoch.  The task is outside any task group   *)
(* and the working-set profile is unbounded.  Permit lifetimes, activation *)
(* and resource proofs only refuse, so they only make an action not happen.*)
(***************************************************************************)
EXTENDS Integers, Sequences, FiniteSets

CONSTANTS
    Attempts,       \* attempts; an attempt holds at most one permit, ever
    Effects,        \* logical effects, planned afresh by every attempt
    Required,       \* the effects planned as required
    Conditional,    \* the required effects that carry a condition
    Participants,   \* endpoints of the participant registry
    TaskStoreSelf,  \* the store's own entry, there from the start
    Endpoint,       \* the participant that performs an effect
    MaxGeneration,  \* bound: registry generations
    MaxTies,        \* bound: rows created in the millisecond of the one before
    Scopes          \* bound: the attempts, effects, participants and lease terms explored
                    \* together, and the cancels, renewals, retirements and unsigned barriers

ASSUME ConstantsMatch ==
    /\ Conditional \subseteq Required /\ Required \subseteq Effects
    /\ Endpoint \in [Effects -> Participants] /\ TaskStoreSelf \in Participants
    /\ Scopes \subseteq [attempts : SUBSET Attempts, effects : SUBSET Effects,
                          participants : SUBSET Participants, terms : Nat, faults : Nat]
    /\ MaxGeneration \in Nat \ {0} /\ MaxTies \in Nat

VARIABLES
    task,        \* head, retry fence and cancel epoch of the task row
    attempt,     \* attempt rows: state and the snapshot's head and fence
    permit,      \* permit rows, by holder
    slots,       \* effect slots, by holder and effect
    history,     \* effect history: effect, holder, outcome
    adoption,    \* how the permit was adopted: none, same term, cross term
    receipt,     \* outcome of the receipt that ended the attempt
    registry,    \* current registry generation
    lease,       \* current authority lease
    assignments, \* assignment rows in (created_at_ms, assignment_id) order
    takeovers,   \* takeover receipts, by the generation they froze
    performed,   \* history: the effects the outside world has carried out
    bounds       \* bound: the scope explored and the disturbances left in it

taskVars == <<task, attempt, receipt>>
effectVars == <<slots, history, performed>>
termVars == <<registry, lease, assignments, takeovers>>
vars == <<taskVars, permit, effectVars, adoption, termVars, bounds>>

\* One disturbance less is left.
Disturb == bounds.faults > 0 /\ bounds' = [bounds EXCEPT !.faults = @ - 1]

-----------------------------------------------------------------------------
(* Leases and the assignment table. *)

NoLease == [term |-> 0, epoch |-> 0]
Binding == [term |-> lease.term, epoch |-> lease.epoch]

\* validate_authority_lease_binding_in_transaction: the exact current
\* binding, unexpired.
LeaseHolds(l) == l = NoLease \/ (l = Binding /\ lease.live)

SameAssignment(r, s) == r.lease.term = s.lease.term /\ r.gen = s.gen

\* insert_assignment: the primary key is derived from term and generation.
\* A row created in the same millisecond as the newest one is ordered by its
\* identifier, a digest, so it may land before that row.
Ties(rows) == Cardinality({i \in 2..Len(rows) : rows[i].at = rows[i - 1].at})
InsertRow(rows, l, g) ==
    LET row == [lease |-> l, gen |-> g, state |-> "Active", at |-> 1]
        n   == Len(rows)
        t   == rows[n].at
    IN  IF rows = <<>> THEN {<<row>>}
        ELSE IF \E i \in DOMAIN rows : SameAssignment(rows[i], row) THEN {}
        ELSE {Append(rows, [row EXCEPT !.at = t + 1])} \cup
             {SubSeq(rows, 1, i - 1) \o <<[row EXCEPT !.at = t]>> \o SubSeq(rows, i, n) :
                  i \in {j \in DOMAIN rows : rows[j].at = t /\ Ties(rows) < MaxTies}}

Marked(rows, i, s) == [rows EXCEPT ![i].state = s]

\* load_current_assignment: ORDER BY created_at_ms DESC, assignment_id DESC.
Current(rows) == rows[Len(rows)]
RowOf(rows, t, g) == {i \in DOMAIN rows : rows[i].lease.term = t /\ rows[i].gen = g}

\* Faulty variant of EnsureActive; no action uses it: the replaced row is left
\* in force.
EnsureBeside(rows, l, g) ==
    IF l = NoLease THEN {rows} ELSE InsertRow(rows, l, g)

\* ensure_active_assignment: the tables that may result; none is a refusal.
EnsureActive(rows, l, g) ==
    IF l = NoLease THEN {rows}
    ELSE IF rows = <<>> THEN InsertRow(rows, l, g)
    ELSE LET n == Len(rows) IN
         IF Current(rows).state # "Active" \/ Current(rows).lease.term > l.term THEN {}
         ELSE IF SameAssignment(Current(rows), [lease |-> l, gen |-> g])
              THEN {[rows EXCEPT ![n].lease = l]}
              ELSE InsertRow(Marked(rows, n, "Fenced"), l, g)

-----------------------------------------------------------------------------
(* What a call checks before it writes. *)

Outstanding(a) == permit[a].state \in {"Issued", "Quarantined"}

\* check_head_unchanged, validate_frozen_binding, check_commit_context.
HeadHeld(a) == task.head = permit[a].head /\ task.fence = permit[a].fence
FrozenFor(a) == registry.gen = permit[a].gen /\ registry.state = "FrozenForPermit"
CommitContext(a) == HeadHeld(a) /\ FrozenFor(a)

\* check_holder, the context, and no adoption: what the holder's own slot
\* writes need.
HolderMayWrite(a) ==
    /\ permit[a].state = "Issued" /\ CommitContext(a)
    /\ adoption[a] = "none" /\ LeaseHolds(permit[a].lease)

\* SlotState::blocks_finalization.
Ended == {"Absent", "NoEffect", "NotApplicable", "EffectClosed", "ConfirmedNoEffect"}
Blocking(a) == {e \in Effects : slots[a][e] \notin Ended}
Unknown(a) == {e \in Effects : slots[a][e] = "EffectUnknown"}
Closed(a) == {e \in Effects : slots[a][e] = "EffectClosed"}

\* Faulty variant of ClosedInHistory; no action uses it: the history is not
\* asked.
ClosedByNobody(e) == FALSE

\* check_not_closed_in_history.
ClosedInHistory(e) == \E h \in history : h.effect = e /\ h.outcome = "EffectClosed"

\* validate_cross_term_adoption_context: the takeover that froze the permit's
\* generation is complete, both rows it left behind are fenced, and the row
\* in force belongs to the successor lease and its registry chain.
CrossContext(a) ==
    LET g == permit[a].gen
        k == takeovers[g]
    IN  /\ permit[a].lease # NoLease
        /\ k.state = "Complete" /\ k.old = permit[a].lease.term /\ LeaseHolds(k.lease)
        /\ \E i \in RowOf(assignments, k.old, g) :
               assignments[i].state = "Fenced" /\ assignments[i].lease = permit[a].lease
        /\ permit[a].cancel = task.cancel
        /\ \E i \in RowOf(assignments, k.lease.term, g) : assignments[i].state = "Fenced"
        /\ registry.gen > g /\ registry.state \in {"Open", "FrozenForPermit"}
        /\ LET c == Current(assignments)
           IN  c.state = "Active" /\ c.lease = k.lease /\ c.gen \in (g + 1)..registry.gen

\* What finalize and close check (finalize also the head): under a cross-term adoption the successor's
\* context stands in for the permit's own lease and frozen registry.
TerminalGate(a) ==
    /\ permit[a].state = "Issued"
    /\ \/ adoption[a] = "cross" /\ CrossContext(a)
       \/ adoption[a] # "cross" /\ LeaseHolds(permit[a].lease) /\ FrozenFor(a)

-----------------------------------------------------------------------------
(* Attempts and the commit permit. *)

NoPermit == [state |-> "None", head |-> 0, fence |-> 0, cancel |-> 0, gen |-> 1,
             lease |-> NoLease, sealed |-> FALSE, mapped |-> {}]
NoTakeover == [state |-> "None", lease |-> NoLease, old |-> 0, known |-> FALSE,
               members |-> {}, observed |-> {}, unsigned |-> {}]

Init ==
    /\ task = [head |-> 0, fence |-> 0, cancel |-> 0]
    /\ attempt = [a \in Attempts |-> [state |-> "None", head |-> 0, fence |-> 0]]
    /\ permit = [a \in Attempts |-> NoPermit]
    /\ slots = [a \in Attempts |-> [e \in Effects |-> "Absent"]]
    /\ history = {} /\ performed = {}
    /\ adoption = [a \in Attempts |-> "none"]
    /\ receipt = [a \in Attempts |-> "none"]
    /\ registry = [gen |-> 1, state |-> "Open", members |-> {TaskStoreSelf}]
    /\ lease = [term |-> 0, epoch |-> 0, live |-> FALSE]
    /\ assignments = <<>>
    /\ takeovers = [g \in 1..MaxGeneration |-> NoTakeover]
    /\ bounds \in Scopes

\* register_attempt.  The caller brings the snapshot of the head; one it read
\* a while ago is the snapshot of a registration at that time.
RegisterAttempt(a) ==
    /\ a \in bounds.attempts /\ attempt[a].state = "None" /\ task.cancel = 0
    /\ attempt' = [attempt EXCEPT ![a] =
                      [state |-> "Created", head |-> task.head, fence |-> task.fence]]
    /\ UNCHANGED <<task, receipt, permit, effectVars, adoption, termVars, bounds>>

\* validate_head_binding.
StaleHead(a) == attempt[a].head # task.head \/ attempt[a].fence # task.fence

\* Faulty variant of Verdict; no action uses it: a quarantined permit does not
\* stand in the way.
VerdictOverIssued(a) ==
    CASE StaleHead(a)                                      -> "Conflicted"
      [] ~StaleHead(a) /\ \E b \in Attempts : permit[b].state = "Issued" -> "Superseded"
      [] OTHER                                             -> "Issued"

\* compete_for_permit: the verdict on an open candidate.
Verdict(a) ==
    CASE StaleHead(a)                                     -> "Conflicted"
      [] ~StaleHead(a) /\ \E b \in Attempts : Outstanding(b) -> "Superseded"
      [] OTHER                                            -> "Issued"

\* freeze_for_permit: an open generation is frozen in place, one left frozen
\* by an earlier permit is superseded by the next.
FreezeForPermit ==
    [registry EXCEPT !.state = "FrozenForPermit",
                     !.gen = IF registry.state = "Open" THEN @ ELSE @ + 1]

\* A write set seals only over an open registry whose members include the
\* endpoints it names, and the permit must find that generation unchanged.
\* It names an endpoint for as many of the planned effects as it likes.
MaySeal(mapped) ==
    /\ registry.state = "Open" /\ \A e \in mapped : Endpoint[e] \in registry.members
    /\ assignments # <<>> => Current(assignments).state = "Active"

\* issue_permit.
IssuePermit(a, l, plan, mapped, sealed) ==
    /\ LeaseHolds(l) /\ registry.state # "FrozenForTakeover"
    /\ IF sealed THEN MaySeal(mapped) ELSE mapped = {}
    /\ FreezeForPermit.gen <= MaxGeneration
    /\ \E rows \in EnsureActive(assignments, l, FreezeForPermit.gen) : assignments' = rows
    /\ registry' = FreezeForPermit
    /\ permit' = [permit EXCEPT ![a] =
                     [state |-> "Issued", head |-> attempt[a].head, fence |-> attempt[a].fence,
                      cancel |-> task.cancel, gen |-> FreezeForPermit.gen, lease |-> l,
                      sealed |-> sealed, mapped |-> mapped]]
    /\ slots' = [slots EXCEPT ![a] =
                    [e \in Effects |-> IF e \in plan THEN "Planned" ELSE "Absent"]]
    /\ attempt' = [attempt EXCEPT ![a].state = "CommitPermitted"]
    /\ UNCHANGED <<lease, takeovers>>

\* request_commit_permit, with or without a lease and a sealed write set.  A
\* cancelled task has no open candidate left: cancel_task has closed them.
RequestCommitPermit(a) ==
    /\ attempt[a].state = "Created"
    /\ \/ /\ Verdict(a) # "Issued"
          /\ attempt' = [attempt EXCEPT ![a].state = Verdict(a)]
          /\ UNCHANGED <<permit, slots, termVars>>
       \/ /\ Verdict(a) = "Issued"
          /\ \E l \in {NoLease, Binding}, plan \in SUBSET bounds.effects, sealed \in BOOLEAN :
                 \E mapped \in SUBSET plan : IssuePermit(a, l, plan, mapped, sealed)
    /\ UNCHANGED <<task, receipt, history, performed, adoption, bounds>>

\* cancel_task: closes every open candidate; an issued permit is untouched.
CancelTask ==
    /\ task.cancel = 0 /\ Disturb
    /\ task' = [task EXCEPT !.cancel = 1]
    /\ LET open == {a \in Attempts : attempt[a].state = "Created"}
       IN  /\ attempt' = [a \in Attempts |-> IF a \in open
                             THEN [attempt[a] EXCEPT !.state = "Cancelled"] ELSE attempt[a]]
           /\ receipt' = [a \in Attempts |-> IF a \in open
                             THEN "CancelledBeforeEffect" ELSE receipt[a]]
    /\ UNCHANGED <<permit, effectVars, adoption, termVars>>

-----------------------------------------------------------------------------
(* The holder's effect slots. *)

SetSlot(a, e, s) == slots' = [slots EXCEPT ![a][e] = s]
Entry(a, e, o) == [effect |-> e, holder |-> a, outcome |-> o]

\* request_effect_permit.
RequestEffectPermit(a, e) ==
    /\ slots[a][e] = "Planned" /\ HolderMayWrite(a)
    /\ permit[a].cancel = task.cancel /\ ~ClosedInHistory(e)
    /\ SetSlot(a, e, "Permitted")
    /\ UNCHANGED <<taskVars, permit, history, performed, adoption, termVars, bounds>>

\* Faulty variant of ConsumeDispatchToken; no action uses it: the cancel epoch
\* is only compared when the token is minted.
DispatchRegardless(a, e) ==
    /\ slots[a][e] = "Permitted" /\ HolderMayWrite(a)
    /\ SetSlot(a, e, "Dispatched")
    /\ UNCHANGED <<taskVars, permit, history, performed, adoption, termVars, bounds>>

\* consume_dispatch_token.
ConsumeDispatchToken(a, e) ==
    /\ slots[a][e] = "Permitted" /\ HolderMayWrite(a)
    /\ permit[a].cancel = task.cancel
    /\ SetSlot(a, e, "Dispatched")
    /\ UNCHANGED <<taskVars, permit, history, performed, adoption, termVars, bounds>>

\* The outside world carries a dispatched effect out, at any later time until
\* the authority learns that it did not happen.  An endpoint that has
\* acknowledged a takeover barrier takes no more work of the frozen term.
Perform(a, e) ==
    /\ slots[a][e] \in {"Dispatched", "EffectUnknown"} /\ <<a, e>> \notin performed
    /\ LET k == takeovers[permit[a].gen]
       IN  permit[a].lease # NoLease => Endpoint[e] \notin k.observed \cup k.unsigned
    /\ performed' = performed \cup {<<a, e>>}
    /\ UNCHANGED <<taskVars, permit, slots, history, adoption, termVars, bounds>>

\* record_effect_outcome: closed with a proof, or given up as unknown.
RecordEffectOutcome(a, e) ==
    /\ slots[a][e] = "Dispatched" /\ HolderMayWrite(a)
    /\ \/ /\ <<a, e>> \in performed
          /\ SetSlot(a, e, "EffectClosed")
          /\ history' = history \cup {Entry(a, e, "EffectClosed")}
       \/ /\ SetSlot(a, e, "EffectUnknown")
          /\ UNCHANGED history
    /\ UNCHANGED <<taskVars, permit, performed, adoption, termVars, bounds>>

\* Faulty variant of GivableUp; no action uses it: a dispatched slot may still
\* be given up.
GivableUpLate(a, e) == slots[a][e] \in {"Planned", "Permitted", "Dispatched"}

\* record_no_effect: a slot not yet dispatched is given up.
GivableUp(a, e) == slots[a][e] \in {"Planned", "Permitted"}
RecordNoEffect(a, e) ==
    /\ GivableUp(a, e) /\ HolderMayWrite(a)
    /\ \/ SetSlot(a, e, "NoEffect")
       \/ e \in Conditional /\ SetSlot(a, e, "NotApplicable")
    /\ UNCHANGED <<taskVars, permit, history, performed, adoption, termVars, bounds>>

\* reconcile_late_operation_outcome: the operation store reports completion of
\* a dispatched effect, also under a quarantined permit.
ReconcileLateOutcome(a, e) ==
    /\ Outstanding(a) /\ slots[a][e] = "Dispatched" /\ <<a, e>> \in performed
    /\ adoption[a] = "none" /\ registry.state # "FrozenForTakeover"
    /\ LeaseHolds(permit[a].lease)
    /\ SetSlot(a, e, "EffectClosed")
    /\ history' = history \cup {Entry(a, e, "EffectClosed")}
    /\ UNCHANGED <<taskVars, permit, performed, adoption, termVars, bounds>>

-----------------------------------------------------------------------------
(* Finalize, close, quarantine, adoption and reconciliation. *)

\* evaluate_required: the slots a satisfaction proof can be given for.
Provable(a) == {e \in Required : slots[a][e] \in {"EffectClosed", "NotApplicable"}}
RequiredOf(a) == {e \in Required : slots[a][e] # "Absent"}

\* close_permit, insert_receipt and set_attempt_state.
EndPermit(a, outcome, state) ==
    /\ permit' = [permit EXCEPT ![a].state = "Closed"]
    /\ receipt' = [receipt EXCEPT ![a] = outcome]
    /\ attempt' = [attempt EXCEPT ![a].state = state]

\* finalize_legacy: no evaluation of required effects.
FinalizeCommit(a) ==
    /\ TerminalGate(a) /\ HeadHeld(a) /\ Blocking(a) = {}
    /\ EndPermit(a, "Committed", "Committed")
    /\ task' = [task EXCEPT !.head = @ + 1]
    /\ UNCHANGED <<effectVars, adoption, termVars, bounds>>

\* finalize_commit_v3 with the proofs the caller presents: committed, or a
\* partial outcome that raises the retry fence.  The registry stays frozen.
FinalizeCommitV3(a, proved) ==
    /\ TerminalGate(a) /\ HeadHeld(a) /\ Blocking(a) = {} /\ proved \subseteq Provable(a)
    /\ LET missing == RequiredOf(a) \ proved
           outcome == IF missing = {} THEN "Committed"
                      ELSE IF proved # {} THEN "PartialEffect" ELSE "FailedAfterEffect"
       IN  /\ missing # {} => Closed(a) # {}
           /\ EndPermit(a, outcome, IF outcome = "FailedAfterEffect" THEN "Failed" ELSE "Committed")
           /\ task' = [task EXCEPT !.head = @ + 1,
                                   !.fence = IF missing = {} THEN @ ELSE @ + 1]
           /\ history' = history \cup {Entry(a, e, "PartialEffect") : e \in missing}
    /\ UNCHANGED <<slots, performed, adoption, termVars, bounds>>

\* quarantine_permit, by finalize_commit_v3 or close_permit over an unknown
\* slot.
QuarantinePermit(a) ==
    /\ TerminalGate(a) /\ Unknown(a) # {}
    /\ permit' = [permit EXCEPT ![a].state = "Quarantined"]
    /\ UNCHANGED <<taskVars, effectVars, adoption, termVars, bounds>>

\* reopen_registry_and_rotate_assignment_on_permit_closure.
Reopened(rows) ==
    IF rows # <<>> /\ Current(rows).state = "Active"
    THEN InsertRow(Marked(rows, Len(rows), "Fenced"), Current(rows).lease, registry.gen + 1)
    ELSE {rows}
ReopenAfterClosure(a) ==
    IF FrozenFor(a)
    THEN /\ registry.gen < MaxGeneration
         /\ registry' = [registry EXCEPT !.gen = @ + 1, !.state = "Open"]
         /\ \E rows \in Reopened(assignments) : assignments' = rows
    ELSE UNCHANGED <<registry, assignments>>

\* close_permit: nothing happened, the head does not move.
ClosePermit(a) ==
    /\ TerminalGate(a) /\ Blocking(a) = {} /\ Closed(a) = {}
    /\ \/ EndPermit(a, "CancelledBeforeEffect", "Cancelled")
       \/ EndPermit(a, "FailedBeforeEffect", "Failed")
    /\ ReopenAfterClosure(a)
    /\ UNCHANGED <<task, effectVars, adoption, lease, takeovers, bounds>>

\* adopt_permit and adopt_permit_across_takeover.
AdoptPermit(a) ==
    /\ permit[a].state = "Quarantined" /\ adoption[a] = "none"
    /\ \/ /\ registry.state # "FrozenForTakeover" /\ LeaseHolds(permit[a].lease)
          /\ adoption' = [adoption EXCEPT ![a] = "same"]
       \/ /\ CrossContext(a)
          /\ adoption' = [adoption EXCEPT ![a] = "cross"]
    /\ UNCHANGED <<taskVars, permit, effectVars, termVars, bounds>>

\* reconcile_effect: the verdict on an unknown slot; the permit leaves
\* quarantine with the last one.
ReconcileEffect(a, e) ==
    /\ permit[a].state = "Quarantined" /\ slots[a][e] = "EffectUnknown"
    /\ \/ adoption[a] = "cross" /\ CrossContext(a)
       \/ adoption[a] = "same" /\ registry.state # "FrozenForTakeover"
          /\ LeaseHolds(permit[a].lease)
    /\ \/ /\ <<a, e>> \in performed
          /\ SetSlot(a, e, "EffectClosed")
          /\ history' = history \cup {Entry(a, e, "EffectClosed")}
       \/ /\ <<a, e>> \notin performed
          /\ SetSlot(a, e, "ConfirmedNoEffect")
          /\ history' = history \cup {Entry(a, e, "ConfirmedNoEffect")}
    /\ permit' = IF Unknown(a) = {e} THEN [permit EXCEPT ![a].state = "Issued"] ELSE permit
    /\ UNCHANGED <<taskVars, performed, adoption, termVars, bounds>>

-----------------------------------------------------------------------------
(* The participant registry, the authority lease and the takeover. *)

\* register_verified_participant, into the next generation.
Joined(p) == [registry EXCEPT !.gen = @ + 1, !.members = @ \cup {p}]
RegisterParticipant(p) ==
    /\ registry.state = "Open" /\ p \in bounds.participants \ registry.members
    /\ registry.gen < MaxGeneration
    /\ registry' = Joined(p)
    /\ UNCHANGED <<taskVars, permit, effectVars, adoption, lease, assignments, takeovers, bounds>>

\* admit_or_verify_dist_task_operation: under the row in force, which belongs
\* to the lease, a participant joins if it has to, and the row follows it.
AdmitParticipantOperation(p) ==
    /\ assignments # <<>> /\ Current(assignments).state = "Active"
    /\ Current(assignments).lease = Binding /\ lease.live /\ registry.state = "Open"
    /\ \/ p \in registry.members /\ UNCHANGED registry
       \/ /\ p \in bounds.participants \ registry.members /\ registry.gen < MaxGeneration
          /\ registry' = Joined(p)
    /\ \E rows \in EnsureActive(assignments, Binding, registry'.gen) : assignments' = rows
    /\ UNCHANGED <<taskVars, permit, effectVars, adoption, lease, takeovers, bounds>>

\* acquire_lease: first acquisition, the next term once the lease is dead, or
\* a renewal by its holder, which keeps the term and changes the binding.
AcquireLease ==
    /\ \/ ~lease.live /\ lease.term < bounds.terms
          /\ lease' = [term |-> lease.term + 1, epoch |-> lease.epoch + 1, live |-> TRUE]
          /\ UNCHANGED bounds
       \/ lease.live
          /\ lease' = [lease EXCEPT !.epoch = @ + 1]
          /\ Disturb
    /\ UNCHANGED <<taskVars, permit, effectVars, adoption, registry, assignments, takeovers>>

ExpireLease ==
    /\ lease.live
    /\ lease' = [lease EXCEPT !.live = FALSE]
    /\ UNCHANGED <<taskVars, permit, effectVars, adoption, registry, assignments, takeovers, bounds>>

\* load_outstanding_operation_participants: unknown without a sealed write set,
\* and where one plans effects and names no endpoint at all.  Only the
\* endpoints named, and the registry, are members.
PlannedBy(a) == {e \in Effects : slots[a][e] # "Absent"}
MembersKnown ==
    \A a \in Attempts : Outstanding(a) =>
        permit[a].sealed /\ (PlannedBy(a) = {} \/ permit[a].mapped # {})
FenceMembers ==
    registry.members \cup
    {Endpoint[e] : e \in UNION {permit[a].mapped : a \in {b \in Attempts : Outstanding(b)}}}

\* prepare_authority_takeover_fence: freezes the registry, and puts the row in
\* force, of an older term and bound to that very generation, on hold.
PrepareTakeoverFence ==
    /\ lease.live /\ registry.state # "FrozenForTakeover"
    /\ registry' = [registry EXCEPT !.state = "FrozenForTakeover"]
    /\ \/ /\ assignments = <<>>
          /\ UNCHANGED <<assignments, takeovers>>
       \/ /\ assignments # <<>>
          /\ LET c == Current(assignments)
             IN  /\ c.gen = registry.gen /\ c.state = "Active" /\ c.lease.term < lease.term
                 /\ takeovers' = [takeovers EXCEPT ![registry.gen] =
                        [state |-> "Pending", lease |-> Binding, old |-> c.lease.term,
                         known |-> MembersKnown, members |-> FenceMembers,
                         observed |-> {}, unsigned |-> {}]]
          /\ assignments' = Marked(assignments, Len(assignments), "TakeoverPending")
    /\ UNCHANGED <<taskVars, permit, effectVars, adoption, lease, bounds>>

\* record_authority_takeover_barrier_receipt, unsigned or signed; the first
\* record of a participant is never replaced.
RecordBarrier(p) ==
    LET g == registry.gen
        k == takeovers[g]
    IN  /\ registry.state = "FrozenForTakeover" /\ k.state = "Pending"
        /\ k.known /\ p \in k.members \ (k.observed \cup k.unsigned)
        /\ \/ takeovers' = [takeovers EXCEPT ![g].observed = @ \cup {p}] /\ UNCHANGED bounds
           \/ /\ Disturb
              /\ takeovers' = [takeovers EXCEPT ![g].unsigned = @ \cup {p}]
        /\ UNCHANGED <<taskVars, permit, effectVars, adoption, registry, lease, assignments>>

\* Faulty variant of Covered; no action uses it: one observation is enough.
CoveredByOne(k) == k.known /\ k.unsigned = {} /\ k.observed # {}

\* validate_takeover_completion_coverage.
Covered(k) == k.known /\ k.unsigned = {} /\ k.members \subseteq k.observed

\* complete_authority_takeover.
CompleteTakeover ==
    LET g == registry.gen
        k == takeovers[g]
    IN  /\ registry.state = "FrozenForTakeover" /\ k.state = "Pending"
        /\ LeaseHolds(k.lease) /\ Covered(k)
        /\ \E i \in RowOf(assignments, k.old, g) :
               /\ assignments[i].state = "TakeoverPending"
               /\ \E rows \in InsertRow(Marked(assignments, i, "Fenced"), k.lease, g) :
                      assignments' = rows
        /\ takeovers' = [takeovers EXCEPT ![g].state = "Complete"]
        /\ UNCHANGED <<taskVars, permit, effectVars, adoption, registry, lease, bounds>>

\* reopen_successor_registry.
ReopenSuccessorRegistry ==
    LET g == registry.gen
        k == takeovers[g]
    IN  /\ registry.state = "FrozenForTakeover" /\ k.state = "Complete"
        /\ LeaseHolds(k.lease) /\ g < MaxGeneration
        /\ \E i \in RowOf(assignments, k.lease.term, g) :
               /\ assignments[i].state = "Active"
               /\ \E rows \in InsertRow(Marked(assignments, i, "Fenced"), k.lease, g + 1) :
                      assignments' = rows
        /\ registry' = [registry EXCEPT !.gen = g + 1, !.state = "Open"]
        /\ UNCHANGED <<taskVars, permit, effectVars, adoption, lease, takeovers, bounds>>

\* expire_authority_assignment and quarantine_authority_assignment.
RetireAssignment ==
    /\ Disturb
    /\ \E i \in DOMAIN assignments :
           /\ assignments[i].state \in {"Active", "TakeoverPending"}
           /\ assignments' = Marked(assignments, i, "Retired")
    /\ UNCHANGED <<taskVars, permit, effectVars, adoption, registry, lease, takeovers>>

Next ==
    \/ \E a \in Attempts :
           \/ RegisterAttempt(a) \/ RequestCommitPermit(a)
           \/ FinalizeCommit(a) \/ \E proved \in SUBSET Required : FinalizeCommitV3(a, proved)
           \/ QuarantinePermit(a) \/ ClosePermit(a) \/ AdoptPermit(a)
           \/ \E e \in Effects :
                  \/ RequestEffectPermit(a, e) \/ ConsumeDispatchToken(a, e)
                  \/ Perform(a, e) \/ RecordEffectOutcome(a, e) \/ RecordNoEffect(a, e)
                  \/ ReconcileLateOutcome(a, e) \/ ReconcileEffect(a, e)
    \/ CancelTask
    \/ \E p \in Participants :
           RegisterParticipant(p) \/ AdmitParticipantOperation(p) \/ RecordBarrier(p)
    \/ AcquireLease \/ ExpireLease
    \/ PrepareTakeoverFence \/ CompleteTakeover \/ ReopenSuccessorRegistry
    \/ RetireAssignment

Spec == Init /\ [][Next]_vars

-----------------------------------------------------------------------------
(* Properties. *)

\* A task has at most one permit outstanding, issued or quarantined, and as
\* long as it is, the task head stands where the permit saw it, its attempt
\* is the one admitted, and the registry generation it froze has been left
\* only by a completed takeover (commit_permits_single_active covers only
\* issued permits; the rest is up to compete_for_permit and the terminals).
OutstandingOwnsTask ==
    \A a \in Attempts : Outstanding(a) =>
        /\ \A b \in Attempts \ {a} : ~Outstanding(b)
        /\ HeadHeld(a) /\ attempt[a].state = "CommitPermitted"
        /\ registry.gen = permit[a].gen => registry.state # "Open"
        /\ registry.gen # permit[a].gen => takeovers[permit[a].gen].state = "Complete"

\* A logical effect is carried out at most once, whichever attempts planned
\* it and however their permits ended (check_not_closed_in_history together
\* with the slots that block finalize and close).
PerformedOnce ==
    \A x, y \in performed : x[2] = y[2] => x = y

\* Once a permit has ended, its slots say what happened: closed exactly where
\* the effect was carried out, nowhere under a "before effect" receipt, and
\* somewhere, with the retry fence raised, under a partial one (close_permit,
\* partial_outcome_and_entries).
ReceiptsTellTheTruth ==
    \A a \in Attempts : permit[a].state = "Closed" =>
        /\ \A e \in Effects : <<a, e>> \in performed <=> slots[a][e] = "EffectClosed"
        /\ receipt[a] \in {"CancelledBeforeEffect", "FailedBeforeEffect"} => Closed(a) = {}
        /\ receipt[a] \in {"PartialEffect", "FailedAfterEffect"} =>
               Closed(a) # {} /\ task.fence > permit[a].fence

\* At most one assignment row is in force, and the row a lease-bound permit
\* was admitted under is kept for its adoption: "exactly one Active assignment
\* exists per task" (ensure_active_assignment).
AssignmentsAgree ==
    /\ \A i, j \in DOMAIN assignments :
           {assignments[i].state, assignments[j].state} \subseteq {"Active", "TakeoverPending"}
               => i = j
    /\ \A a \in Attempts : Outstanding(a) /\ permit[a].lease # NoLease =>
           \E i \in RowOf(assignments, permit[a].lease.term, permit[a].gen) :
               assignments[i].lease = permit[a].lease

\* What a step may still do once the task is cancelled.
FrozenStep ==
    task.cancel = 1 =>
        \A a \in Attempts :
            /\ permit[a].state = "None" => permit'[a].state = "None"
            /\ \A e \in Effects : slots'[a][e] \in {"Permitted", "Dispatched"} =>
                                      slots'[a][e] = slots[a][e]

\* After cancel_task no permit is issued, and nothing is minted or dispatched.
CancelFreezes == [][FrozenStep]_vars

\* Once a takeover is complete, no effect of the term it fenced is carried out
\* any more if the sealed write set names its endpoint, so that what the
\* successor reconciles stays true (prepare, the barriers and
\* validate_takeover_completion_coverage).
QuietAfterTakeover ==
    [][\A x \in performed' \ performed :
           permit[x[1]].lease # NoLease /\ x[2] \in permit[x[1]].mapped =>
               takeovers[permit[x[1]].gen].state # "Complete"]_vars

\* The fence of a takeover is known only where the participant mapping is
\* complete, as its receipt documents ("`None` means that mapping is not
\* complete"): it includes the endpoint of every effect planned under the
\* permit it froze.
KnownFenceIsComplete ==
    \A a \in Attempts : Outstanding(a) /\ takeovers[permit[a].gen].known =>
        \A e \in PlannedBy(a) : Endpoint[e] \in takeovers[permit[a].gen].members

=============================================================================
