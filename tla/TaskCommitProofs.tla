------------------------- MODULE TaskCommitProofs -------------------------
(***************************************************************************)
(* Proofs about TaskCommit, for any attempts, effects, participants and    *)
(* bounds: the outstanding permit owns the task, a logical effect is       *)
(* carried out at most once, receipts tell the truth, a cancelled task     *)
(* starts nothing new, an attempt that lost the task writes nothing more,  *)
(* and the log's assignments agree with the attempts they made.            *)
(***************************************************************************)
EXTENDS TaskCommit, SequenceTheorems, TLAPS

\* The shape of the tables, as far as the argument reads them.
TaskShape == task = [head |-> task.head, fence |-> task.fence, cancel |-> task.cancel]
AttemptShape ==
    attempt = [a \in Attempts |-> [state |-> attempt[a].state, head |-> attempt[a].head,
                                   fence |-> attempt[a].fence]]
PermitShape ==
    /\ permit = [a \in Attempts |->
           [state |-> permit[a].state, head |-> permit[a].head, fence |-> permit[a].fence,
            cancel |-> permit[a].cancel, gen |-> permit[a].gen, lease |-> permit[a].lease,
            sealed |-> permit[a].sealed, mapped |-> permit[a].mapped]]
    /\ \A a \in Attempts : permit[a].gen \in 1..MaxGeneration
SlotStates == Ended \cup {"Planned", "Permitted", "Dispatched", "EffectUnknown"}
SlotShape == slots \in [Attempts -> [Effects -> SlotStates]]
RegistryShape ==
    /\ registry = [gen |-> registry.gen, state |-> registry.state, members |-> registry.members]
    /\ registry.gen \in 1..MaxGeneration
LeaseShape ==
    /\ lease = [term |-> lease.term, epoch |-> lease.epoch, live |-> lease.live]
    /\ lease.term \in Nat /\ lease.epoch \in Nat
TakeoverShape == takeovers = [g \in 1..MaxGeneration |-> takeovers[g]]
Shape ==
    /\ TaskShape /\ AttemptShape /\ PermitShape /\ SlotShape
    /\ RegistryShape /\ LeaseShape /\ TakeoverShape
    /\ performed \subseteq Attempts \X Effects

\* An outstanding permit owns the task; the registry never falls behind the
\* generation the permit froze.
Owns ==
    /\ OutstandingOwnsTask
    /\ \A a \in Attempts : Outstanding(a) => permit[a].gen <= registry.gen

\* A slot is touched only under a permit, left unsettled only under an
\* outstanding one, and carried out only past dispatch; the history records
\* every closed slot before the permit ends, and no effect it records as
\* closed is underway.
Underway == {"Permitted", "Dispatched", "EffectUnknown"}
SlotsSettle ==
    /\ \A a \in Attempts, e \in Effects :
           /\ attempt[a].state \in {"None", "Created"} => slots[a][e] = "Absent"
           /\ ~Outstanding(a) => slots[a][e] \in Ended
           /\ slots[a][e] = "EffectClosed" => ClosedInHistory(e)
           /\ slots[a][e] \in Underway => ~ClosedInHistory(e)
           /\ <<a, e>> \in performed =>
                  slots[a][e] \in {"Dispatched", "EffectUnknown", "EffectClosed"}

IInv == Shape /\ Owns /\ SlotsSettle /\ PerformedOnce

\* Nothing is outstanding or carried out before the first permit.
LEMMA InitIInv ==
    ASSUME Init
    PROVE  IInv
  <1>1. TaskShape /\ AttemptShape /\ SlotShape /\ RegistryShape /\ LeaseShape /\ TakeoverShape
    BY ConstantsMatch DEF Init, TaskShape, AttemptShape, SlotShape, SlotStates, Ended,
       RegistryShape, LeaseShape, TakeoverShape
  <1>2. PermitShape
    BY ConstantsMatch DEF Init, PermitShape, NoPermit
  <1>3. Shape
    BY <1>1, <1>2, Zenon DEF Init, Shape
  <1>4. Owns
    BY Zenon DEF Init, Owns, OutstandingOwnsTask, Outstanding, NoPermit
  <1>5. SlotsSettle /\ PerformedOnce
    BY Zenon DEF Init, SlotsSettle, Ended, Underway, Outstanding, PerformedOnce
  <1> QED  BY <1>3, <1>4, <1>5, Zenon DEF IInv

\* Leases, retired rows and adoptions touch nothing the argument reads.
LEMMA LeaseSteps ==
    ASSUME IInv, AcquireLease \/ ExpireLease \/ RetireAssignment
                 \/ \E a \in Attempts : AdoptPermit(a)
    PROVE  IInv'
  <1>1. UNCHANGED <<task, attempt, permit, slots, history, performed, registry, takeovers>>
    BY Zenon DEF AcquireLease, ExpireLease, RetireAssignment, AdoptPermit, taskVars, effectVars,
           termVars
  <1>2. LeaseShape'
    <2>1. LeaseShape
      BY Zenon DEF IInv, Shape
    <2>2. \/ lease' = [term |-> lease.term + 1, epoch |-> lease.epoch + 1, live |-> TRUE]
          \/ lease' = [lease EXCEPT !.epoch = @ + 1]
          \/ lease' = [lease EXCEPT !.live = FALSE]
          \/ lease' = lease
      BY Zenon DEF AcquireLease, ExpireLease, RetireAssignment, AdoptPermit, termVars
    <2> QED  BY <2>1, <2>2 DEF LeaseShape
  <1>3. Shape'
    BY <1>1, <1>2, Zenon DEF IInv, Shape, TaskShape, AttemptShape, PermitShape, SlotShape,
       RegistryShape, TakeoverShape
  <1>4. Owns'
    BY <1>1, Zenon DEF IInv, Owns, OutstandingOwnsTask, Outstanding, HeadHeld
  <1>5. SlotsSettle' /\ PerformedOnce'
    BY <1>1 DEF IInv, SlotsSettle, Outstanding, ClosedInHistory, PerformedOnce
  <1> QED  BY <1>3, <1>4, <1>5, Zenon DEF IInv

\* Registry and takeover steps: an outstanding permit's generation is frozen,
\* so only the successor's reopening, after the takeover is complete, moves
\* the registry past it.
LEMMA RegistrySteps ==
    ASSUME IInv, \/ \E p \in Participants : RegisterParticipant(p) \/ AdmitParticipantOperation(p)
                                                \/ RecordBarrier(p)
                 \/ PrepareTakeoverFence \/ CompleteTakeover \/ ReopenSuccessorRegistry
    PROVE  IInv'
  <1>0. RegistryShape /\ TakeoverShape /\ PermitShape /\ MaxGeneration \in Nat
    BY ConstantsMatch, Zenon DEF IInv, Shape
  <1>1. UNCHANGED <<task, attempt, permit, slots, history, performed, lease>>
    BY Zenon DEF RegisterParticipant, AdmitParticipantOperation, RecordBarrier, PrepareTakeoverFence,
           CompleteTakeover, ReopenSuccessorRegistry, taskVars, effectVars
  <1>2. /\ TakeoverShape'
        /\ \A g \in 1..MaxGeneration : g # registry.gen => takeovers'[g] = takeovers[g]
    BY <1>0, Zenon DEF TakeoverShape, RegisterParticipant, AdmitParticipantOperation, RecordBarrier,
           PrepareTakeoverFence, CompleteTakeover, ReopenSuccessorRegistry
  <1>3. /\ RegistryShape'
        /\ \/ registry' = registry
           \/ registry.state = "Open" /\ registry'.gen = registry.gen + 1
           \/ registry'.gen = registry.gen /\ registry'.state # "Open"
           \/ /\ takeovers[registry.gen].state = "Complete" /\ takeovers' = takeovers
              /\ registry'.gen = registry.gen + 1
    <2>1. ASSUME NEW p \in Participants, registry.state = "Open", registry.gen < MaxGeneration,
                 registry' = Joined(p)
          PROVE  <1>3!:
      <3>1. /\ registry.state = "Open" /\ registry.gen < MaxGeneration
            /\ registry' = [registry EXCEPT !.gen = @ + 1, !.members = @ \cup {p}]
        BY <2>1, Zenon DEF Joined
      <3>2. registry' = [gen |-> registry.gen + 1, state |-> registry.state,
                         members |-> registry.members \cup {p}]
        BY <1>0, <3>1, Zenon DEF RegistryShape
      <3>3. registry.gen + 1 \in 1..MaxGeneration
        BY <1>0, <3>1 DEF RegistryShape
      <3>4. RegistryShape' /\ registry'.gen = registry.gen + 1
        BY <3>2, <3>3, Zenon DEF RegistryShape
      <3> QED  BY <3>1, <3>4, Zenon
    <2>2. ASSUME NEW p \in Participants,
                 RegisterParticipant(p) \/ AdmitParticipantOperation(p) \/ RecordBarrier(p)
          PROVE  <1>3!:
      <3>1. CASE RegisterParticipant(p)
        BY <2>1, <3>1, Zenon DEF RegisterParticipant
      <3>2. CASE AdmitParticipantOperation(p)
        <4>1. CASE registry' = registry
          BY <1>0, <4>1, Zenon DEF RegistryShape
        <4>2. CASE registry' # registry
          BY <2>1, <3>2, <4>2, Zenon DEF AdmitParticipantOperation
        <4> QED  BY <4>1, <4>2, Zenon
      <3>3. CASE RecordBarrier(p)
        BY <1>0, <3>3, Zenon DEF RegistryShape, RecordBarrier
      <3> QED  BY <2>2, <3>1, <3>2, <3>3, Zenon
    <2>3. CASE PrepareTakeoverFence
      BY <1>0, <2>3, Zenon DEF RegistryShape, PrepareTakeoverFence
    <2>4. CASE CompleteTakeover
      BY <1>0, <2>4, Zenon DEF RegistryShape, CompleteTakeover
    <2>5. CASE ReopenSuccessorRegistry
      <3>1. /\ takeovers[registry.gen].state = "Complete" /\ registry.gen < MaxGeneration
            /\ registry' = [registry EXCEPT !.gen = registry.gen + 1, !.state = "Open"]
            /\ takeovers' = takeovers
        BY <2>5, Zenon DEF ReopenSuccessorRegistry
      <3>2. registry' = [gen |-> registry.gen + 1, state |-> "Open",
                         members |-> registry.members]
        BY <1>0, <3>1, Zenon DEF RegistryShape
      <3>3. registry.gen + 1 \in 1..MaxGeneration
        BY <1>0, <3>1 DEF RegistryShape
      <3>4. RegistryShape' /\ registry'.gen = registry.gen + 1
        BY <3>2, <3>3, Zenon DEF RegistryShape
      <3> QED  BY <3>1, <3>4, Zenon
    <2> QED  BY <2>2, <2>3, <2>4, <2>5, Zenon
  <1>4. Shape'
    BY <1>1, <1>2, <1>3, Zenon DEF IInv, Shape, TaskShape, AttemptShape, PermitShape, SlotShape,
       LeaseShape
  <1>5. Owns'
    <2> SUFFICES ASSUME NEW a \in Attempts, Outstanding(a)
                 PROVE  /\ \A b \in Attempts \ {a} : ~Outstanding(b)
                        /\ HeadHeld(a) /\ attempt[a].state = "CommitPermitted"
                        /\ registry'.gen = permit[a].gen => registry'.state # "Open"
                        /\ registry'.gen # permit[a].gen =>
                               takeovers'[permit[a].gen].state = "Complete"
                        /\ permit[a].gen <= registry'.gen
      BY <1>1, Zenon DEF Owns, OutstandingOwnsTask, Outstanding, HeadHeld
    <2>1. /\ \A b \in Attempts \ {a} : ~Outstanding(b)
          /\ HeadHeld(a) /\ attempt[a].state = "CommitPermitted"
      BY Zenon DEF IInv, Owns, OutstandingOwnsTask
    <2>2. PICK g \in 1..MaxGeneration : g = permit[a].gen
      BY <1>0, Zenon DEF PermitShape
    <2>3. /\ registry.gen = g => registry.state # "Open"
          /\ registry.gen # g => takeovers[g].state = "Complete"
          /\ g <= registry.gen
      BY <2>2, Zenon DEF IInv, Owns, OutstandingOwnsTask
    <2>4. registry.gen \in Nat /\ registry'.gen \in Nat
      BY <1>0, <1>3 DEF RegistryShape
    <2>5. /\ registry'.gen = g => registry'.state # "Open"
          /\ registry'.gen # g => takeovers'[g].state = "Complete"
          /\ g <= registry'.gen
      <3>1. CASE registry.gen = g
        BY <1>0, <1>2, <1>3, <2>3, <2>4, <3>1
      <3>2. CASE registry.gen # g
        BY <1>0, <1>2, <1>3, <2>3, <2>4, <3>2
      <3> QED  BY <3>1, <3>2, Zenon
    <2> QED  BY <2>1, <2>2, <2>5, Zenon
  <1>6. SlotsSettle' /\ PerformedOnce'
    BY <1>1 DEF IInv, SlotsSettle, Outstanding, ClosedInHistory, PerformedOnce
  <1> QED  BY <1>4, <1>5, <1>6, Zenon DEF IInv

\* One slot of the outstanding permit is written: it stays accounted for.  A
\* closed slot enters the history, and no other attempt has it underway.
LEMMA SlotWritten ==
    ASSUME IInv, NEW a \in Attempts, NEW e \in Effects, NEW s \in SlotStates,
           SetSlot(a, e, s), Outstanding(a), slots[a][e] # "Absent",
           UNCHANGED <<attempt, performed>>,
           \A b \in Attempts : Outstanding(b)' <=> Outstanding(b),
           <<a, e>> \in performed => s \in {"Dispatched", "EffectUnknown", "EffectClosed"},
           s \in Underway => ~ClosedInHistory(e),
           s = "EffectClosed" => ClosedInHistory(e)',
           s # "EffectClosed" => (ClosedInHistory(e)' <=> ClosedInHistory(e)),
           \A f \in Effects \ {e} : ClosedInHistory(f)' <=> ClosedInHistory(f)
    PROVE  SlotShape' /\ SlotsSettle' /\ PerformedOnce'
  <1>1. /\ SlotShape' /\ slots'[a][e] = s
        /\ \A b \in Attempts, f \in Effects : b # a \/ f # e => slots'[b][f] = slots[b][f]
    BY Zenon DEF IInv, Shape, SlotShape, SetSlot
  <1>2. ASSUME NEW b \in Attempts, NEW f \in Effects
        PROVE  /\ attempt[b].state \in {"None", "Created"} => slots'[b][f] = "Absent"
               /\ ~Outstanding(b) => slots'[b][f] \in Ended
               /\ slots'[b][f] = "EffectClosed" => ClosedInHistory(f)'
               /\ slots'[b][f] \in Underway => ~ClosedInHistory(f)'
               /\ <<b, f>> \in performed =>
                      slots'[b][f] \in {"Dispatched", "EffectUnknown", "EffectClosed"}
    <2>1. CASE b = a /\ f = e
      <3>1. attempt[a].state \notin {"None", "Created"}
        BY Zenon DEF IInv, SlotsSettle
      <3>2. s \in Underway => ~ClosedInHistory(e)'
        BY Zenon DEF Underway
      <3> QED  BY <1>1, <2>1, <3>1, <3>2, Zenon
    <2>2. CASE b # a /\ f = e
      <3>1. ~Outstanding(b) /\ slots'[b][e] = slots[b][e]
        BY <1>1, <2>2 DEF IInv, Owns, OutstandingOwnsTask
      <3>2. slots[b][e] \in Ended /\ slots[b][e] \notin Underway
        BY <3>1, Zenon DEF IInv, SlotsSettle, Ended, Underway
      <3>3. slots[b][e] = "EffectClosed" => ClosedInHistory(e)'
        BY Zenon DEF IInv, SlotsSettle
      <3> QED  BY <2>2, <3>1, <3>2, <3>3, Zenon DEF IInv, SlotsSettle
    <2>3. CASE f # e
      <3>1. slots'[b][f] = slots[b][f] /\ (ClosedInHistory(f)' <=> ClosedInHistory(f))
        BY <1>1, <2>3, Zenon
      <3> QED  BY <3>1, Zenon DEF IInv, SlotsSettle
    <2> QED  BY <2>1, <2>2, <2>3, Zenon
  <1>3. SlotsSettle'
    BY <1>2, Zenon DEF SlotsSettle
  <1>4. PerformedOnce'
    BY Zenon DEF IInv, PerformedOnce
  <1> QED  BY <1>1, <1>3, <1>4, Zenon

\* An entry closes its own effect, if it says so, and no other.
LEMMA HistoryEntry ==
    ASSUME NEW a, NEW e, NEW o, NEW f, history' = history \cup {Entry(a, e, o)}
    PROVE  ClosedInHistory(f)' <=> (ClosedInHistory(f) \/ (f = e /\ o = "EffectClosed"))
  <1>1. Entry(a, e, o).effect = e /\ Entry(a, e, o).outcome = o
    BY Zenon DEF Entry
  <1>2. \A h : h \in history' <=> h \in history \/ h = Entry(a, e, o)
    BY Zenon
  <1> QED  BY <1>1, <1>2, Zenon DEF ClosedInHistory

\* The steps on the slots of the permit in force leave its ownership alone.
\* Carrying an effect out finds it open in the history, so that no earlier
\* permit has carried it out.
LEMMA SlotSteps ==
    ASSUME IInv, NEW a \in Attempts, NEW e \in Effects,
           \/ RequestEffectPermit(a, e) \/ ConsumeDispatchToken(a, e) \/ Perform(a, e)
           \/ RecordEffectOutcome(a, e) \/ RecordNoEffect(a, e) \/ ReconcileLateOutcome(a, e)
    PROVE  IInv'
  <1>1. UNCHANGED <<task, attempt, permit, registry, lease, takeovers>>
    BY Zenon DEF RequestEffectPermit, ConsumeDispatchToken, Perform, RecordEffectOutcome,
           RecordNoEffect, ReconcileLateOutcome, taskVars, termVars
  <1>2. /\ TaskShape' /\ AttemptShape' /\ PermitShape' /\ RegistryShape' /\ LeaseShape'
        /\ TakeoverShape'
    BY <1>1, Zenon DEF IInv, Shape, TaskShape, AttemptShape, PermitShape, RegistryShape, LeaseShape,
       TakeoverShape
  <1>3. Owns'
    BY <1>1, Zenon DEF IInv, Owns, OutstandingOwnsTask, Outstanding, HeadHeld
  <1>4. \A b \in Attempts : Outstanding(b)' <=> Outstanding(b)
    BY <1>1, Zenon DEF Outstanding
  <1>5. /\ slots[a][e] \in Underway => ~ClosedInHistory(e)
        /\ <<a, e>> \in performed =>
               slots[a][e] \in {"Dispatched", "EffectUnknown", "EffectClosed"}
    BY Zenon DEF IInv, SlotsSettle
  <1>6. /\ performed' \subseteq Attempts \X Effects
        /\ SlotShape' /\ SlotsSettle' /\ PerformedOnce'
    <2>1. CASE Perform(a, e)
      <3>1. /\ slots[a][e] \in {"Dispatched", "EffectUnknown"} /\ slots' = slots
            /\ history' = history /\ performed' = performed \cup {<<a, e>>}
        BY <2>1, Zenon DEF Perform
      <3>2. performed' \subseteq Attempts \X Effects /\ SlotShape'
        BY <3>1 DEF IInv, Shape, SlotShape
      <3>3. SlotsSettle'
        BY <1>1, <3>1 DEF IInv, SlotsSettle, Outstanding, ClosedInHistory
      <3>4. ~ClosedInHistory(e) /\ Outstanding(a)
        BY <3>1, Zenon DEF IInv, SlotsSettle, Underway, Ended
      <3>5. \A b \in Attempts : <<b, e>> \in performed => b = a
        BY <3>4, Zenon DEF IInv, Owns, OutstandingOwnsTask, SlotsSettle, Ended
      <3>6. \A x \in performed : x[2] = e => x = <<a, e>>
        BY <3>5 DEF IInv, Shape
      <3>7. PerformedOnce'
        BY <3>1, <3>6 DEF IInv, PerformedOnce
      <3> QED  BY <3>2, <3>3, <3>7, Zenon
    <2>2. CASE RequestEffectPermit(a, e)
      <3>1. /\ slots[a][e] = "Planned" /\ Outstanding(a) /\ ~ClosedInHistory(e)
            /\ SetSlot(a, e, "Permitted") /\ performed' = performed /\ history' = history
        BY <2>2, Zenon DEF RequestEffectPermit, HolderMayWrite, Outstanding
      <3>2. \A f \in Effects : ClosedInHistory(f)' <=> ClosedInHistory(f)
        BY <3>1, Zenon DEF ClosedInHistory
      <3> QED  BY <1>1, <1>4, <1>5, <3>1, <3>2, SlotWritten, Zenon DEF SlotStates, IInv, Shape
    <2>3. CASE ConsumeDispatchToken(a, e)
      <3>1. /\ slots[a][e] = "Permitted" /\ Outstanding(a)
            /\ SetSlot(a, e, "Dispatched") /\ performed' = performed /\ history' = history
        BY <2>3, Zenon DEF ConsumeDispatchToken, HolderMayWrite, Outstanding
      <3>2. \A f \in Effects : ClosedInHistory(f)' <=> ClosedInHistory(f)
        BY <3>1, Zenon DEF ClosedInHistory
      <3>3. ~ClosedInHistory(e)
        BY <1>5, <3>1, Zenon DEF Underway
      <3> QED  BY <1>1, <1>4, <3>1, <3>2, <3>3, SlotWritten, Zenon DEF SlotStates, IInv, Shape
    <2>4. CASE RecordNoEffect(a, e)
      <3>1. /\ slots[a][e] \in {"Planned", "Permitted"} /\ Outstanding(a)
            /\ performed' = performed /\ history' = history
        BY <2>4, Zenon DEF RecordNoEffect, GivableUp, HolderMayWrite, Outstanding
      <3>2. PICK s \in {"NoEffect", "NotApplicable"} : SetSlot(a, e, s)
        BY <2>4, Zenon DEF RecordNoEffect
      <3>3. \A f \in Effects : ClosedInHistory(f)' <=> ClosedInHistory(f)
        BY <3>1, Zenon DEF ClosedInHistory
      <3>4. <<a, e>> \notin performed
        BY <1>5, <3>1, Zenon
      <3>5. s \in SlotStates /\ s \notin Underway /\ s # "EffectClosed"
        BY <3>2, Zenon DEF SlotStates, Ended, Underway
      <3> QED  BY <1>1, <1>4, <3>1, <3>2, <3>3, <3>4, <3>5, SlotWritten, Zenon DEF IInv, Shape
    <2>5. CASE RecordEffectOutcome(a, e) \/ ReconcileLateOutcome(a, e)
      <3>1. slots[a][e] = "Dispatched" /\ Outstanding(a) /\ performed' = performed
        BY <2>5, Zenon DEF RecordEffectOutcome, ReconcileLateOutcome, HolderMayWrite, Outstanding
      <3>2. \/ /\ SetSlot(a, e, "EffectClosed")
               /\ history' = history \cup {Entry(a, e, "EffectClosed")}
            \/ SetSlot(a, e, "EffectUnknown") /\ history' = history
        BY <2>5, Zenon DEF RecordEffectOutcome, ReconcileLateOutcome
      <3>3. ~ClosedInHistory(e)
        BY <1>5, <3>1, Zenon DEF Underway
      <3>4. CASE SetSlot(a, e, "EffectUnknown") /\ history' = history
        <4>1. \A f \in Effects : ClosedInHistory(f)' <=> ClosedInHistory(f)
          BY <3>4, Zenon DEF ClosedInHistory
        <4> QED  BY <1>1, <1>4, <3>1, <3>3, <3>4, <4>1, SlotWritten, Zenon DEF SlotStates, IInv, Shape
      <3>5. CASE /\ SetSlot(a, e, "EffectClosed")
                 /\ history' = history \cup {Entry(a, e, "EffectClosed")}
        <4>1. /\ ClosedInHistory(e)'
              /\ \A f \in Effects \ {e} : ClosedInHistory(f)' <=> ClosedInHistory(f)
          BY <3>5, HistoryEntry, Zenon
        <4>2. "EffectClosed" \in SlotStates /\ "EffectClosed" \notin Underway
          BY Zenon DEF SlotStates, Ended, Underway
        <4> QED  BY <1>1, <1>4, <3>1, <3>5, <4>1, <4>2, SlotWritten, Zenon DEF IInv, Shape
      <3> QED  BY <3>2, <3>4, <3>5, Zenon
    <2> QED  BY <2>1, <2>2, <2>3, <2>4, <2>5, Zenon
  <1> QED  BY <1>2, <1>3, <1>6, Zenon DEF IInv, Shape

\* A permit row changes state; the rest of the table stands.
LEMMA PermitMarked ==
    ASSUME PermitShape, NEW a \in Attempts, NEW s, permit' = [permit EXCEPT ![a].state = s]
    PROVE  /\ PermitShape' /\ permit'[a].state = s
           /\ \A b \in Attempts \ {a} : permit'[b] = permit[b]
           /\ \A b \in Attempts : /\ permit'[b].head = permit[b].head
                                  /\ permit'[b].fence = permit[b].fence
                                  /\ permit'[b].gen = permit[b].gen
                                  /\ permit'[b].cancel = permit[b].cancel
                                  /\ permit'[b].lease = permit[b].lease
                                  /\ permit'[b].mapped = permit[b].mapped
  <1>1. permit[a] = [state |-> permit[a].state, head |-> permit[a].head,
                     fence |-> permit[a].fence, cancel |-> permit[a].cancel,
                     gen |-> permit[a].gen, lease |-> permit[a].lease,
                     sealed |-> permit[a].sealed, mapped |-> permit[a].mapped]
    BY Zenon DEF PermitShape
  <1>2. /\ permit' = [b \in Attempts |-> permit'[b]]
        /\ permit'[a] = [permit[a] EXCEPT !.state = s]
        /\ \A b \in Attempts \ {a} : permit'[b] = permit[b]
    BY Zenon DEF PermitShape
  <1>3. permit'[a] = [state |-> s, head |-> permit[a].head, fence |-> permit[a].fence,
                      cancel |-> permit[a].cancel, gen |-> permit[a].gen,
                      lease |-> permit[a].lease, sealed |-> permit[a].sealed, mapped |-> permit[a].mapped]
    BY <1>1, <1>2, Zenon
  <1>4. ASSUME NEW b \in Attempts
        PROVE  /\ permit'[b] = [state |-> permit'[b].state, head |-> permit'[b].head,
                                fence |-> permit'[b].fence, cancel |-> permit'[b].cancel,
                                gen |-> permit'[b].gen, lease |-> permit'[b].lease,
                                sealed |-> permit'[b].sealed, mapped |-> permit'[b].mapped]
               /\ permit'[b].gen \in 1..MaxGeneration
    <2>1. CASE b = a
      BY <1>3, <2>1, Zenon DEF PermitShape
    <2>2. CASE b # a
      BY <1>2, <2>2, Zenon DEF PermitShape
    <2> QED  BY <2>1, <2>2, Zenon
  <1>5. PermitShape'
    BY <1>2, <1>4, Zenon DEF PermitShape
  <1> QED  BY <1>2, <1>3, <1>5, Zenon

\* An attempt row changes state; the rest of the table stands.
LEMMA AttemptMarked ==
    ASSUME AttemptShape, NEW a \in Attempts, NEW s, attempt' = [attempt EXCEPT ![a].state = s]
    PROVE  /\ AttemptShape' /\ attempt'[a].state = s
           /\ \A b \in Attempts \ {a} : attempt'[b] = attempt[b]
  <1>1. attempt' = [b \in Attempts |-> IF b = a
                       THEN [state |-> s, head |-> attempt[a].head, fence |-> attempt[a].fence]
                       ELSE attempt[b]]
    BY DEF AttemptShape
  <1> QED  BY <1>1 DEF AttemptShape

\* A permit ends with every slot of its attempt settled, and leaves nothing
\* outstanding behind.
LEMMA EndSteps ==
    ASSUME IInv, NEW a \in Attempts,
           \/ FinalizeCommit(a) \/ ClosePermit(a)
           \/ \E proved \in SUBSET Required : FinalizeCommitV3(a, proved)
    PROVE  IInv'
  <1>1. /\ Outstanding(a) /\ Blocking(a) = {}
        /\ permit' = [permit EXCEPT ![a].state = "Closed"]
        /\ UNCHANGED <<slots, performed, lease, takeovers>>
    BY Zenon DEF FinalizeCommit, FinalizeCommitV3, ClosePermit, TerminalGate, Outstanding, EndPermit,
       effectVars, termVars
  <1>2. PICK s \in {"Committed", "Failed", "Cancelled"} :
            attempt' = [attempt EXCEPT ![a].state = s]
    BY Zenon DEF FinalizeCommit, FinalizeCommitV3, ClosePermit, EndPermit
  <1>3. TaskShape'
    <2>1. TaskShape
      BY Zenon DEF IInv, Shape
    <2>2. \/ task' = [task EXCEPT !.head = @ + 1]
          \/ \E f : task' = [task EXCEPT !.head = @ + 1, !.fence = f]
          \/ task' = task
      BY Zenon DEF FinalizeCommit, FinalizeCommitV3, ClosePermit
    <2> QED  BY <2>1, <2>2, Zenon DEF TaskShape
  <1>4. RegistryShape'
    <2>1. RegistryShape /\ MaxGeneration \in Nat
      BY ConstantsMatch, Zenon DEF IInv, Shape
    <2>2. \/ registry' = registry
          \/ /\ registry.gen < MaxGeneration
             /\ registry' = [registry EXCEPT !.gen = @ + 1, !.state = "Open"]
      BY Zenon DEF FinalizeCommit, FinalizeCommitV3, ClosePermit, ReopenAfterClosure, termVars
    <2>3. CASE registry.gen < MaxGeneration
               /\ registry' = [registry EXCEPT !.gen = @ + 1, !.state = "Open"]
      <3>1. registry' = [gen |-> registry.gen + 1, state |-> "Open",
                         members |-> registry.members]
        BY <2>1, <2>3, Zenon DEF RegistryShape
      <3>2. registry.gen + 1 \in 1..MaxGeneration
        BY <2>1, <2>3 DEF RegistryShape
      <3> QED  BY <3>1, <3>2, Zenon DEF RegistryShape
    <2> QED  BY <2>1, <2>2, <2>3, Zenon DEF RegistryShape
  <1>5. /\ PermitShape' /\ permit'[a].state = "Closed"
        /\ \A b \in Attempts \ {a} : permit'[b] = permit[b]
    BY <1>1, PermitMarked, Zenon DEF IInv, Shape
  <1>6. /\ AttemptShape' /\ attempt'[a].state = s
        /\ \A b \in Attempts \ {a} : attempt'[b] = attempt[b]
    BY <1>2, AttemptMarked, Zenon DEF IInv, Shape
  <1>7. Shape'
    BY <1>1, <1>3, <1>4, <1>5, <1>6, Zenon DEF IInv, Shape, SlotShape, LeaseShape, TakeoverShape
  <1>8. \A b \in Attempts : ~Outstanding(b)'
    BY <1>1, <1>5, Zenon DEF IInv, Owns, OutstandingOwnsTask, Outstanding
  <1>9. Owns'
    BY <1>8, Zenon DEF Owns, OutstandingOwnsTask
  <1>10. \A f \in Effects : ClosedInHistory(f)' <=> ClosedInHistory(f)
    <2>1. history' = history
          \/ \E missing : history' = history \cup {Entry(a, e, "PartialEffect") : e \in missing}
      BY Zenon DEF FinalizeCommit, FinalizeCommitV3, ClosePermit, effectVars
    <2>2. \A e : Entry(a, e, "PartialEffect").outcome # "EffectClosed"
      BY Zenon DEF Entry
    <2>3. \A h : h.outcome = "EffectClosed" => (h \in history' <=> h \in history)
      BY <2>1, <2>2, Zenon
    <2> QED  BY <2>3, Zenon DEF ClosedInHistory
  <1>11. ASSUME NEW b \in Attempts, NEW f \in Effects
         PROVE  /\ attempt'[b].state \in {"None", "Created"} => slots[b][f] = "Absent"
                /\ slots[b][f] \in Ended
                /\ slots[b][f] = "EffectClosed" => ClosedInHistory(f)
                /\ slots[b][f] \in Underway => ~ClosedInHistory(f)
                /\ <<b, f>> \in performed =>
                       slots[b][f] \in {"Dispatched", "EffectUnknown", "EffectClosed"}
    <2>1. CASE b = a
      <3>1. slots[a][f] \in Ended
        BY <1>1, Zenon DEF Blocking
      <3> QED  BY <1>6, <2>1, <3>1, Zenon DEF IInv, SlotsSettle
    <2>2. CASE b # a
      <3>1. ~Outstanding(b) /\ attempt'[b] = attempt[b]
        BY <1>1, <1>6, <2>2, Zenon DEF IInv, Owns, OutstandingOwnsTask
      <3> QED  BY <3>1, Zenon DEF IInv, SlotsSettle
    <2> QED  BY <2>1, <2>2, Zenon
  <1>12. SlotsSettle'
    BY <1>1, <1>10, <1>11, Zenon DEF SlotsSettle
  <1>13. PerformedOnce'
    BY <1>1, Zenon DEF IInv, PerformedOnce
  <1> QED  BY <1>7, <1>9, <1>12, <1>13, Zenon DEF IInv

\* Quarantine and reconciliation move the permit between its two outstanding
\* states, and settle a slot with what the outside world did.
LEMMA HoldSteps ==
    ASSUME IInv, NEW a \in Attempts,
           QuarantinePermit(a) \/ \E e \in Effects : ReconcileEffect(a, e)
    PROVE  IInv'
  <1>1. Outstanding(a) /\ UNCHANGED <<task, attempt, performed, registry, lease, takeovers>>
    BY Zenon DEF QuarantinePermit, ReconcileEffect, TerminalGate, Outstanding, taskVars, effectVars,
       termVars
  <1>2. \/ permit' = permit
        \/ \E s \in {"Issued", "Quarantined"} : permit' = [permit EXCEPT ![a].state = s]
    BY Zenon DEF QuarantinePermit, ReconcileEffect
  <1>3. /\ PermitShape'
        /\ \A b \in Attempts : /\ Outstanding(b)' <=> Outstanding(b)
                               /\ permit'[b].head = permit[b].head
                               /\ permit'[b].fence = permit[b].fence
                               /\ permit'[b].gen = permit[b].gen
    <2>1. CASE permit' = permit
      BY <2>1, Zenon DEF IInv, Shape, PermitShape, Outstanding
    <2>2. ASSUME NEW s \in {"Issued", "Quarantined"}, permit' = [permit EXCEPT ![a].state = s]
          PROVE  <1>3!:
      <3>1. /\ PermitShape' /\ permit'[a].state = s
            /\ \A b \in Attempts \ {a} : permit'[b] = permit[b]
            /\ \A b \in Attempts : /\ permit'[b].head = permit[b].head
                                   /\ permit'[b].fence = permit[b].fence
                                   /\ permit'[b].gen = permit[b].gen
        BY <2>2, PermitMarked, Zenon DEF IInv, Shape
      <3> QED  BY <1>1, <3>1, Zenon DEF Outstanding
    <2> QED  BY <1>2, <2>1, <2>2, Zenon
  <1>4. Owns'
    <2>1. Owns /\ task' = task /\ attempt' = attempt /\ registry' = registry
          /\ takeovers' = takeovers
      BY <1>1, Zenon DEF IInv
    <2>2. \A b \in Attempts : HeadHeld(b)' <=> HeadHeld(b)
      BY <1>3, <2>1, Zenon DEF HeadHeld
    <2>3. \A b \in Attempts : /\ Outstanding(b)' <=> Outstanding(b)
                              /\ permit'[b].gen = permit[b].gen
      BY <1>3, Zenon
    <2> QED  BY <2>1, <2>2, <2>3, Zenon DEF Owns, OutstandingOwnsTask
  <1>5. SlotShape' /\ SlotsSettle' /\ PerformedOnce'
    <2>1. CASE QuarantinePermit(a)
      <3>1. UNCHANGED <<slots, history>>
        BY <2>1, Zenon DEF QuarantinePermit, effectVars
      <3>2. SlotShape' /\ PerformedOnce'
        BY <1>1, <3>1, Zenon DEF IInv, Shape, SlotShape, PerformedOnce
      <3>3. SlotsSettle'
        BY <1>1, <1>3, <3>1 DEF IInv, SlotsSettle, ClosedInHistory
      <3> QED  BY <3>2, <3>3, Zenon
    <2>2. ASSUME NEW e \in Effects, ReconcileEffect(a, e)
          PROVE  <1>5!:
      <3>1. slots[a][e] = "EffectUnknown"
        BY <2>2, Zenon DEF ReconcileEffect
      <3>2. PICK s \in {"EffectClosed", "ConfirmedNoEffect"} :
                /\ SetSlot(a, e, s) /\ history' = history \cup {Entry(a, e, s)}
                /\ <<a, e>> \in performed => s = "EffectClosed"
        BY <2>2, Zenon DEF ReconcileEffect
      <3>3. \A f : ClosedInHistory(f)' <=> (ClosedInHistory(f) \/ (f = e /\ s = "EffectClosed"))
        BY <3>2, HistoryEntry, Zenon
      <3>4. s \in SlotStates /\ s \notin Underway
        BY <3>2, Zenon DEF SlotStates, Ended, Underway
      <3> QED  BY <1>1, <1>3, <3>1, <3>2, <3>3, <3>4, SlotWritten, Zenon
    <2> QED  BY <2>1, <2>2, Zenon
  <1>6. Shape'
    BY <1>1, <1>3, <1>5, Zenon DEF IInv, Shape, TaskShape, AttemptShape, RegistryShape, LeaseShape,
       TakeoverShape
  <1> QED  BY <1>4, <1>5, <1>6, Zenon DEF IInv

\* A new attempt holds nothing, and cancelling closes only open candidates.
LEMMA AttemptSteps ==
    ASSUME IInv, CancelTask \/ \E a \in Attempts : RegisterAttempt(a)
    PROVE  IInv'
  <1>1. UNCHANGED <<permit, slots, history, performed, registry, lease, takeovers>>
    BY Zenon DEF CancelTask, RegisterAttempt, effectVars, termVars
  <1>2. TaskShape' /\ task'.head = task.head /\ task'.fence = task.fence
    <2>1. TaskShape
      BY Zenon DEF IInv, Shape
    <2>2. task' = task \/ task' = [task EXCEPT !.cancel = 1]
      BY Zenon DEF CancelTask, RegisterAttempt
    <2> QED  BY <2>1, <2>2, Zenon DEF TaskShape
  <1>3. /\ AttemptShape'
        /\ \A b \in Attempts :
               \/ attempt'[b] = attempt[b]
               \/ /\ attempt[b].state \in {"None", "Created"}
                  /\ attempt'[b].state # "CommitPermitted"
    <2>1. AttemptShape
      BY Zenon DEF IInv, Shape
    <2>2. ASSUME NEW a \in Attempts, RegisterAttempt(a)
          PROVE  <1>3!:
      <3>1. /\ attempt[a].state = "None"
            /\ attempt' = [attempt EXCEPT ![a] =
                              [state |-> "Created", head |-> task.head, fence |-> task.fence]]
        BY <2>2, Zenon DEF RegisterAttempt
      <3> QED  BY <2>1, <3>1, Zenon DEF AttemptShape
    <2>3. CASE CancelTask
      <3>1. attempt' = [a \in Attempts |-> IF a \in {b \in Attempts : attempt[b].state = "Created"}
                           THEN [attempt[a] EXCEPT !.state = "Cancelled"] ELSE attempt[a]]
        BY <2>3, Zenon DEF CancelTask
      <3>2. ASSUME NEW b \in Attempts
            PROVE  /\ attempt'[b] = [state |-> attempt'[b].state, head |-> attempt'[b].head,
                                     fence |-> attempt'[b].fence]
                   /\ \/ attempt'[b] = attempt[b]
                      \/ /\ attempt[b].state = "Created"
                         /\ attempt'[b].state = "Cancelled"
        <4>1. attempt[b] = [state |-> attempt[b].state, head |-> attempt[b].head,
                            fence |-> attempt[b].fence]
          BY <2>1, Zenon DEF AttemptShape
        <4>2. CASE attempt[b].state = "Created"
          BY <3>1, <4>1, <4>2, Zenon
        <4>3. CASE attempt[b].state # "Created"
          BY <3>1, <4>1, <4>3, Zenon
        <4> QED  BY <4>2, <4>3, Zenon
      <3>3. attempt' = [b \in Attempts |-> attempt'[b]]
        BY <3>1, Zenon
      <3>4. AttemptShape'
        BY <3>2, <3>3, Zenon DEF AttemptShape
      <3> QED  BY <3>2, <3>4, Zenon
    <2> QED  BY <2>2, <2>3, Zenon
  <1>4. Shape'
    BY <1>1, <1>2, <1>3, Zenon DEF IInv, Shape, PermitShape, SlotShape, RegistryShape, LeaseShape,
       TakeoverShape
  <1>5. Owns'
    <2>1. \A b \in Attempts : Outstanding(b)' <=> Outstanding(b)
      BY <1>1, Zenon DEF Outstanding
    <2>2. \A b \in Attempts : Outstanding(b) => attempt'[b].state = "CommitPermitted"
      BY <1>3, Zenon DEF IInv, Owns, OutstandingOwnsTask
    <2> QED  BY <1>1, <1>2, <2>1, <2>2, Zenon DEF IInv, Owns, OutstandingOwnsTask, HeadHeld
  <1>6. SlotsSettle' /\ PerformedOnce'
    <2>1. \A b \in Attempts : Outstanding(b)' <=> Outstanding(b)
      BY <1>1, Zenon DEF Outstanding
    <2>2. \A b \in Attempts : attempt'[b].state \in {"None", "Created"} =>
                                  attempt[b].state \in {"None", "Created"}
      BY <1>3, Zenon
    <2>3. SlotsSettle'
      BY <1>1, <2>1, <2>2 DEF IInv, SlotsSettle, ClosedInHistory
    <2> QED  BY <1>1, <2>3, Zenon DEF IInv, PerformedOnce
  <1> QED  BY <1>4, <1>5, <1>6, Zenon DEF IInv

\* A permit is issued only over no outstanding one, at the head it is bound
\* to, and freezes the generation it is bound to; a refused candidate ends.
LEMMA CommitPermitSteps ==
    ASSUME IInv, NEW a \in Attempts, RequestCommitPermit(a)
    PROVE  IInv'
  <1>1. /\ attempt[a].state = "Created"
        /\ UNCHANGED <<task, history, performed, lease, takeovers>>
    BY Zenon DEF RequestCommitPermit, IssuePermit, termVars
  <1>2. \A f \in Effects : slots[a][f] = "Absent" /\ <<a, f>> \notin performed
    BY <1>1, Zenon DEF IInv, SlotsSettle
  <1>3. PICK s \in {"Conflicted", "Superseded", "CommitPermitted"} :
            attempt' = [attempt EXCEPT ![a].state = s]
    BY Zenon DEF RequestCommitPermit, IssuePermit, Verdict
  <1>4. /\ AttemptShape' /\ attempt'[a].state = s
        /\ \A b \in Attempts \ {a} : attempt'[b] = attempt[b]
    BY <1>3, AttemptMarked, Zenon DEF IInv, Shape
  <1>5. \A f : ClosedInHistory(f)' <=> ClosedInHistory(f)
    BY <1>1, Zenon DEF ClosedInHistory
  <1>6. TaskShape' /\ LeaseShape' /\ TakeoverShape' /\ PerformedOnce'
    BY <1>1, Zenon DEF IInv, Shape, TaskShape, LeaseShape, TakeoverShape, PerformedOnce
  <1>7. CASE UNCHANGED <<permit, slots, registry>>
    <2>1. \A b \in Attempts : Outstanding(b)' <=> Outstanding(b)
      BY <1>7, Zenon DEF Outstanding
    <2>2. ~Outstanding(a)
      BY <1>1, Zenon DEF IInv, Owns, OutstandingOwnsTask
    <2>3. PermitShape' /\ SlotShape' /\ RegistryShape'
      BY <1>7, Zenon DEF IInv, Shape, PermitShape, SlotShape, RegistryShape
    <2>4. Owns'
      <3>1. \A b \in Attempts : Outstanding(b) => attempt'[b] = attempt[b]
        BY <1>4, <2>2, Zenon
      <3>2. \A b \in Attempts : HeadHeld(b)' <=> HeadHeld(b)
        BY <1>1, <1>7, Zenon DEF HeadHeld
      <3>3. Owns /\ takeovers' = takeovers /\ registry' = registry /\ permit' = permit
        BY <1>1, <1>7, Zenon DEF IInv
      <3> QED  BY <2>1, <3>1, <3>2, <3>3, Zenon DEF Owns, OutstandingOwnsTask
    <2>5. SlotsSettle'
      BY <1>1, <1>2, <1>4, <1>5, <1>7, <2>1, Zenon DEF IInv, SlotsSettle
    <2> QED  BY <1>1, <1>4, <1>6, <2>3, <2>4, <2>5, Zenon DEF IInv, Shape
  <1>8. ASSUME NEW l, NEW plan, NEW mapped, NEW sealed, IssuePermit(a, l, plan, mapped, sealed),
               Verdict(a) = "Issued"
        PROVE  IInv'
    <2>1. ~StaleHead(a) /\ \A b \in Attempts : ~Outstanding(b)
      BY <1>8, Zenon DEF Verdict
    <2>2. PICK g : /\ g = (IF registry.state = "Open" THEN registry.gen ELSE registry.gen + 1)
                   /\ registry' = [registry EXCEPT !.state = "FrozenForPermit", !.gen = g]
                   /\ FreezeForPermit = [registry EXCEPT !.state = "FrozenForPermit", !.gen = g]
      BY <1>8, Zenon DEF IssuePermit, FreezeForPermit
    <2>3. RegistryShape /\ MaxGeneration \in Nat
      BY ConstantsMatch, Zenon DEF IInv, Shape
    <2>4. registry' = [gen |-> g, state |-> "FrozenForPermit", members |-> registry.members]
          /\ FreezeForPermit.gen = g
      BY <2>2, <2>3, Zenon DEF RegistryShape
    <2>5. g \in 1..MaxGeneration
      <3>1. g <= MaxGeneration
        BY <1>8, <2>4, Zenon DEF IssuePermit
      <3> QED  BY <2>2, <2>3, <3>1 DEF RegistryShape
    <2>6. RegistryShape'
      BY <2>4, <2>5, Zenon DEF RegistryShape
    <2>7. permit' = [permit EXCEPT ![a] =
              [state |-> "Issued", head |-> attempt[a].head, fence |-> attempt[a].fence,
               cancel |-> task.cancel, gen |-> g, lease |-> l, sealed |-> sealed, mapped |-> mapped]]
      BY <1>8, <2>4, Zenon DEF IssuePermit
    <2>8. /\ PermitShape' /\ permit'[a].state = "Issued" /\ permit'[a].gen = g
          /\ permit'[a].head = attempt[a].head /\ permit'[a].fence = attempt[a].fence
          /\ \A b \in Attempts \ {a} : permit'[b] = permit[b]
      <3>1. PermitShape
        BY Zenon DEF IInv, Shape
      <3>2. /\ permit' = [b \in Attempts |-> permit'[b]]
            /\ permit'[a] = [state |-> "Issued", head |-> attempt[a].head,
                             fence |-> attempt[a].fence, cancel |-> task.cancel, gen |-> g,
                             lease |-> l, sealed |-> sealed, mapped |-> mapped]
            /\ \A b \in Attempts \ {a} : permit'[b] = permit[b]
        BY <2>7, <3>1, Zenon DEF PermitShape
      <3>3. ASSUME NEW b \in Attempts
            PROVE  /\ permit'[b] = [state |-> permit'[b].state, head |-> permit'[b].head,
                                    fence |-> permit'[b].fence, cancel |-> permit'[b].cancel,
                                    gen |-> permit'[b].gen, lease |-> permit'[b].lease,
                                    sealed |-> permit'[b].sealed, mapped |-> permit'[b].mapped]
                   /\ permit'[b].gen \in 1..MaxGeneration
        <4>1. CASE b = a
          BY <2>5, <3>2, <4>1
        <4>2. CASE b # a
          BY <3>1, <3>2, <4>2, Zenon DEF PermitShape
        <4> QED  BY <4>1, <4>2, Zenon
      <3>4. PermitShape'
        BY <3>2, <3>3, Zenon DEF PermitShape
      <3> QED  BY <3>2, <3>4
    <2>9. Outstanding(a)' /\ \A b \in Attempts \ {a} : ~Outstanding(b)'
      BY <2>1, <2>8, Zenon DEF Outstanding
    <2>10. attempt'[a].state = "CommitPermitted"
      BY <1>8 DEF IssuePermit, IInv, Shape, AttemptShape
    <2>11. HeadHeld(a)' /\ registry'.gen = permit'[a].gen /\ registry'.state # "Open"
      BY <1>1, <2>1, <2>4, <2>8, Zenon DEF HeadHeld, StaleHead
    <2>12. Owns'
      <3>1. OutstandingOwnsTask'
        BY <2>9, <2>10, <2>11, Zenon DEF OutstandingOwnsTask
      <3>2. permit'[a].gen <= registry'.gen
        BY <2>4, <2>5, <2>8
      <3> QED  BY <2>9, <3>1, <3>2, Zenon DEF Owns
    <2>13. /\ SlotShape' /\ \A f \in Effects : slots'[a][f] \in {"Planned", "Absent"}
           /\ \A b \in Attempts \ {a} : slots'[b] = slots[b]
      BY <1>8, Zenon DEF IssuePermit, IInv, Shape, SlotShape, SlotStates, Ended
    <2>14. ASSUME NEW b \in Attempts, NEW f \in Effects
           PROVE  /\ attempt'[b].state \in {"None", "Created"} => slots'[b][f] = "Absent"
                  /\ ~Outstanding(b)' => slots'[b][f] \in Ended
                  /\ slots'[b][f] = "EffectClosed" => ClosedInHistory(f)
                  /\ slots'[b][f] \in Underway => ~ClosedInHistory(f)
                  /\ <<b, f>> \in performed =>
                         slots'[b][f] \in {"Dispatched", "EffectUnknown", "EffectClosed"}
      <3>1. CASE b = a
        BY <1>2, <2>9, <2>10, <2>13, <3>1, Zenon DEF Underway
      <3>2. CASE b # a
        <4>1. attempt'[b] = attempt[b] /\ slots'[b] = slots[b] /\ ~Outstanding(b)
          BY <1>4, <2>1, <2>13, <3>2, Zenon
        <4> QED  BY <4>1 DEF IInv, SlotsSettle
      <3> QED  BY <3>1, <3>2, Zenon
    <2>15. SlotsSettle'
      BY <1>1, <1>5, <2>14, Zenon DEF SlotsSettle
    <2> QED  BY <1>1, <1>4, <1>6, <2>6, <2>8, <2>12, <2>13, <2>15, Zenon DEF IInv, Shape
  <1> QED  BY <1>7, <1>8, Zenon DEF RequestCommitPermit, termVars

\* Every step keeps the inductive invariant.
LEMMA StepIInv ==
    ASSUME IInv, [Next]_vars
    PROVE  IInv'
  <1>1. CASE UNCHANGED vars
    <2>1. UNCHANGED <<task, attempt, permit, slots, history, performed, registry, lease,
                      takeovers>>
      BY <1>1, Zenon DEF vars, taskVars, effectVars, termVars
    <2>2. Shape'
      BY <2>1, Zenon DEF IInv, Shape, TaskShape, AttemptShape, PermitShape, SlotShape, RegistryShape,
         LeaseShape, TakeoverShape
    <2>3. Owns'
      BY <2>1, Zenon DEF IInv, Owns, OutstandingOwnsTask, Outstanding, HeadHeld
    <2>4. SlotsSettle' /\ PerformedOnce'
      BY <2>1 DEF IInv, SlotsSettle, Outstanding, ClosedInHistory, PerformedOnce
    <2> QED  BY <2>2, <2>3, <2>4, Zenon DEF IInv
  <1>2. CASE Next
    BY <1>2, LeaseSteps, RegistrySteps, SlotSteps, EndSteps, HoldSteps, AttemptSteps,
       CommitPermitSteps, Zenon DEF Next
  <1> QED  BY <1>1, <1>2, Zenon

\* Cancelling closes every open candidate, so that every permit was issued
\* before it, in the first cancel epoch.
CancelSettled ==
    /\ task.cancel \in {0, 1}
    /\ task.cancel = 1 => \A a \in Attempts : attempt[a].state # "Created"
    /\ \A a \in Attempts : permit[a].cancel = 0

\* What a step does to the permits, the slots and the cancel epoch: a permit
\* comes only to an open candidate, and a slot is minted or dispatched only in
\* the epoch of its permit.
LEMMA PermitsUnderCancel ==
    ASSUME IInv, CancelSettled, Next
    PROVE  CancelSettled' /\ FrozenStep
  <1> DEFINE Goal == CancelSettled' /\ FrozenStep
  <1>1. ASSUME UNCHANGED <<task, attempt, permit, slots>>
        PROVE  Goal
    BY <1>1, Zenon DEF CancelSettled, FrozenStep
  <1>2. ASSUME NEW a \in Attempts, NEW e \in Effects,
               \/ RequestEffectPermit(a, e) \/ ConsumeDispatchToken(a, e)
               \/ RecordEffectOutcome(a, e) \/ RecordNoEffect(a, e)
               \/ ReconcileLateOutcome(a, e) \/ ReconcileEffect(a, e)
        PROVE  Goal
    <2>1. UNCHANGED <<task, attempt>>
      BY <1>2, Zenon DEF RequestEffectPermit, ConsumeDispatchToken, RecordEffectOutcome,
         RecordNoEffect, ReconcileLateOutcome, ReconcileEffect, taskVars
    <2>2. PICK s \in SlotStates :
              /\ SetSlot(a, e, s)
              /\ s \in {"Permitted", "Dispatched"} => permit[a].cancel = task.cancel
      BY <1>2 DEF RequestEffectPermit, ConsumeDispatchToken, RecordEffectOutcome,
         RecordNoEffect, ReconcileLateOutcome, ReconcileEffect, SlotStates, Ended
    <2>3. /\ slots'[a][e] = s
          /\ \A b \in Attempts, f \in Effects : b # a \/ f # e => slots'[b][f] = slots[b][f]
      BY <2>2, Zenon DEF IInv, Shape, SlotShape, SetSlot
    <2>4. \A b \in Attempts : /\ permit[b].state = "None" => permit'[b].state = "None"
                              /\ permit'[b].cancel = permit[b].cancel
      <3>1. CASE permit' = permit
        BY <3>1, Zenon
      <3>2. CASE permit' # permit
        <4>1. permit[a].state = "Quarantined" /\ permit' = [permit EXCEPT ![a].state = "Issued"]
          BY <1>2, <3>2, Zenon DEF RequestEffectPermit, ConsumeDispatchToken, RecordEffectOutcome,
             RecordNoEffect, ReconcileLateOutcome, ReconcileEffect
        <4> QED  BY <4>1, PermitMarked DEF IInv, Shape
      <3> QED  BY <3>1, <3>2, Zenon
    <2> QED  BY <2>1, <2>2, <2>3, <2>4 DEF CancelSettled, FrozenStep
  <1>3. ASSUME NEW a \in Attempts,
               \/ FinalizeCommit(a) \/ ClosePermit(a) \/ QuarantinePermit(a)
               \/ \E proved \in SUBSET Required : FinalizeCommitV3(a, proved)
        PROVE  Goal
    <2>1. /\ permit[a].state = "Issued" /\ UNCHANGED slots
          /\ \E s \in {"Closed", "Quarantined"} : permit' = [permit EXCEPT ![a].state = s]
      BY <1>3, Zenon DEF FinalizeCommit, FinalizeCommitV3, ClosePermit, QuarantinePermit, TerminalGate,
         EndPermit, effectVars
    <2>2. \A b \in Attempts : /\ permit[b].state = "None" => permit'[b].state = "None"
                              /\ permit'[b].cancel = permit[b].cancel
      BY <2>1, PermitMarked DEF IInv, Shape
    <2>3. task'.cancel = task.cancel
      <3>1. TaskShape
        BY Zenon DEF IInv, Shape
      <3>2. \/ task' = [task EXCEPT !.head = @ + 1]
            \/ \E f : task' = [task EXCEPT !.head = @ + 1, !.fence = f]
            \/ task' = task
        BY <1>3, Zenon DEF FinalizeCommit, FinalizeCommitV3, ClosePermit, QuarantinePermit, taskVars
      <3> QED  BY <3>1, <3>2, Zenon DEF TaskShape
    <2>4. \A b \in Attempts : attempt'[b].state = "Created" => attempt[b].state = "Created"
      <3>1. \/ attempt' = attempt
            \/ \E s \in {"Committed", "Failed", "Cancelled"} :
                   attempt' = [attempt EXCEPT ![a].state = s]
        BY <1>3, Zenon DEF FinalizeCommit, FinalizeCommitV3, ClosePermit, QuarantinePermit, EndPermit,
           taskVars
      <3>2. ASSUME NEW s \in {"Committed", "Failed", "Cancelled"},
                   attempt' = [attempt EXCEPT ![a].state = s]
            PROVE  /\ attempt'[a].state # "Created"
                   /\ \A b \in Attempts \ {a} : attempt'[b] = attempt[b]
        BY <3>2, AttemptMarked, Zenon DEF IInv, Shape
      <3> QED  BY <3>1, <3>2, Zenon
    <2> QED  BY <2>1, <2>2, <2>3, <2>4 DEF CancelSettled, FrozenStep
  <1>4. ASSUME NEW a \in Attempts, RegisterAttempt(a)
        PROVE  Goal
    BY <1>4 DEF RegisterAttempt, CancelSettled, FrozenStep, effectVars
  <1>5. CASE CancelTask
    <2>1. UNCHANGED <<permit, slots>> /\ task.cancel = 0
      BY <1>5, Zenon DEF CancelTask, effectVars
    <2>2. task'.cancel = 1
      BY <1>5, Zenon DEF CancelTask, IInv, Shape, TaskShape
    <2>3. ASSUME NEW b \in Attempts
          PROVE  attempt'[b].state # "Created"
      <3>1. attempt' = [a \in Attempts |-> IF a \in {c \in Attempts : attempt[c].state = "Created"}
                           THEN [attempt[a] EXCEPT !.state = "Cancelled"] ELSE attempt[a]]
        BY <1>5, Zenon DEF CancelTask
      <3>2. attempt[b] = [state |-> attempt[b].state, head |-> attempt[b].head,
                          fence |-> attempt[b].fence]
        BY Zenon DEF IInv, Shape, AttemptShape
      <3> QED  BY <3>1, <3>2, Zenon
    <2> QED  BY <2>1, <2>2, <2>3, Zenon DEF CancelSettled, FrozenStep
  <1>6. ASSUME NEW a \in Attempts, RequestCommitPermit(a)
        PROVE  Goal
    <2>1. attempt[a].state = "Created" /\ UNCHANGED task /\ task.cancel = 0
      BY <1>6, Zenon DEF RequestCommitPermit, CancelSettled
    <2>2. \A b \in Attempts : permit'[b].cancel = 0
      <3>1. CASE permit' = permit
        BY <3>1, Zenon DEF CancelSettled
      <3>2. ASSUME NEW l, NEW plan, NEW mapped, NEW sealed, IssuePermit(a, l, plan, mapped, sealed)
            PROVE  \A b \in Attempts : permit'[b].cancel = 0
        BY <2>1, <3>2, Zenon DEF IssuePermit, CancelSettled, IInv, Shape, PermitShape
      <3> QED  BY <1>6, <3>1, <3>2, Zenon DEF RequestCommitPermit
    <2> QED  BY <2>1, <2>2, Zenon DEF CancelSettled, FrozenStep
  <1> QED
    BY <1>1, <1>2, <1>3, <1>4, <1>5, <1>6, Zenon
       DEF Next, AcquireLease, ExpireLease, RetireAssignment, AdoptPermit, RegisterParticipant,
           AdmitParticipantOperation, RecordBarrier, PrepareTakeoverFence, CompleteTakeover,
           ReopenSuccessorRegistry, Perform, taskVars, effectVars

\* Closed slots were carried out, fences are numbers, and what the receipt of an
\* ended permit says is true.
TruthOf(a) ==
    permit[a].state = "Closed" =>
        /\ \A e \in Effects : <<a, e>> \in performed <=> slots[a][e] = "EffectClosed"
        /\ receipt[a] \in {"CancelledBeforeEffect", "FailedBeforeEffect"} => Closed(a) = {}
        /\ receipt[a] \in {"PartialEffect", "FailedAfterEffect"} =>
               Closed(a) # {} /\ task.fence > permit[a].fence
Truth ==
    /\ receipt = [a \in Attempts |-> receipt[a]]
    /\ task.fence \in Nat
    /\ \A a \in Attempts : attempt[a].fence \in Nat /\ permit[a].fence \in Nat
    /\ \A a \in Attempts, e \in Effects : slots[a][e] = "EffectClosed" => <<a, e>> \in performed
    /\ \A a \in Attempts : TruthOf(a)

\* A step on the outstanding permit a leaves the truth about the others alone.
LEMMA TruthElsewhere ==
    ASSUME Truth, NEW a \in Attempts, UNCHANGED <<task, attempt, receipt>>,
           permit'[a].state # "Closed", permit'[a].fence = permit[a].fence,
           \A b \in Attempts \ {a} : permit'[b] = permit[b],
           \A b \in Attempts, e \in Effects :
               b # a => /\ slots'[b][e] = slots[b][e]
                        /\ <<b, e>> \in performed' <=> <<b, e>> \in performed,
           \A e \in Effects : slots'[a][e] = "EffectClosed" => <<a, e>> \in performed'
    PROVE  Truth'
  <1>1. ASSUME NEW b \in Attempts
        PROVE  TruthOf(b)'
    <2>1. CASE b = a
      BY <2>1, Zenon DEF TruthOf
    <2>2. CASE b # a
      <3>1. permit'[b] = permit[b] /\ Closed(b)' = Closed(b)
        BY <2>2, Zenon DEF Closed
      <3>2. \A e \in Effects : /\ slots'[b][e] = slots[b][e]
                               /\ <<b, e>> \in performed' <=> <<b, e>> \in performed
        BY <2>2, Zenon
      <3> QED  BY <3>1, <3>2, Zenon DEF Truth, TruthOf
    <2> QED  BY <2>1, <2>2, Zenon
  <1>2. ASSUME NEW b \in Attempts
        PROVE  /\ attempt'[b].fence \in Nat /\ permit'[b].fence \in Nat
               /\ \A e \in Effects : slots'[b][e] = "EffectClosed" => <<b, e>> \in performed'
    <2>1. CASE b = a
      BY <2>1, Zenon DEF Truth
    <2>2. CASE b # a
      BY <2>2, Zenon DEF Truth
    <2> QED  BY <2>1, <2>2, Zenon
  <1> QED  BY <1>1, <1>2, Zenon DEF Truth

\* The slot steps: a slot is closed only when its effect was carried out, and
\* the permit stays outstanding.
LEMMA TruthSlotSteps ==
    ASSUME IInv, Truth, NEW a \in Attempts, NEW e \in Effects,
           \/ RequestEffectPermit(a, e) \/ ConsumeDispatchToken(a, e) \/ Perform(a, e)
           \/ RecordEffectOutcome(a, e) \/ RecordNoEffect(a, e)
           \/ ReconcileLateOutcome(a, e) \/ ReconcileEffect(a, e)
    PROVE  Truth'
  <1>1. UNCHANGED <<task, attempt, receipt>>
    BY Zenon DEF RequestEffectPermit, ConsumeDispatchToken, Perform, RecordEffectOutcome,
       RecordNoEffect, ReconcileLateOutcome, ReconcileEffect, taskVars
  <1>2. Outstanding(a)
    <2>1. CASE Perform(a, e)
      BY <2>1, Zenon DEF Perform, IInv, SlotsSettle, Ended
    <2>2. CASE ~Perform(a, e)
      BY <2>2, Zenon DEF RequestEffectPermit, ConsumeDispatchToken, RecordEffectOutcome,
         RecordNoEffect, ReconcileLateOutcome, ReconcileEffect, HolderMayWrite, Outstanding
    <2> QED  BY <2>1, <2>2, Zenon
  <1>3. /\ permit'[a].state # "Closed" /\ permit'[a].fence = permit[a].fence
        /\ \A b \in Attempts \ {a} : permit'[b] = permit[b]
    <2>1. CASE permit' = permit
      BY <1>2, <2>1, Zenon DEF Outstanding
    <2>2. CASE permit' # permit
      <3>1. permit' = [permit EXCEPT ![a].state = "Issued"]
        BY <2>2, Zenon DEF RequestEffectPermit, ConsumeDispatchToken, Perform, RecordEffectOutcome,
           RecordNoEffect, ReconcileLateOutcome, ReconcileEffect
      <3>2. /\ permit'[a].state = "Issued" /\ permit'[a].fence = permit[a].fence
            /\ \A b \in Attempts \ {a} : permit'[b] = permit[b]
        BY <3>1, PermitMarked, Zenon DEF IInv, Shape
      <3> QED  BY <3>2, Zenon
    <2> QED  BY <2>1, <2>2, Zenon
  <1>4. CASE Perform(a, e)
    <2>1. slots' = slots /\ performed' = performed \cup {<<a, e>>}
      BY <1>4, Zenon DEF Perform
    <2>2. \A b \in Attempts, f \in Effects : b # a =>
              (<<b, f>> \in performed' <=> <<b, f>> \in performed)
      BY <2>1, Zenon
    <2>3. \A f \in Effects : slots'[a][f] = "EffectClosed" => <<a, f>> \in performed'
      BY <2>1, Zenon DEF Truth
    <2> QED  BY <1>1, <1>3, <2>1, <2>2, <2>3, TruthElsewhere, Zenon
  <1>5. CASE ~Perform(a, e)
    <2>1. PICK s \in SlotStates :
              /\ SetSlot(a, e, s) /\ performed' = performed
              /\ s = "EffectClosed" => <<a, e>> \in performed
      BY <1>5 DEF RequestEffectPermit, ConsumeDispatchToken, RecordEffectOutcome,
         RecordNoEffect, ReconcileLateOutcome, ReconcileEffect, SlotStates, Ended
    <2>2. /\ slots'[a][e] = s
          /\ \A b \in Attempts, f \in Effects : b # a \/ f # e => slots'[b][f] = slots[b][f]
      BY <2>1, Zenon DEF IInv, Shape, SlotShape, SetSlot
    <2>3. \A f \in Effects : slots'[a][f] = "EffectClosed" => <<a, f>> \in performed'
      BY <2>1, <2>2, Zenon DEF Truth
    <2> QED  BY <1>1, <1>3, <2>1, <2>2, <2>3, TruthElsewhere, Zenon
  <1> QED  BY <1>4, <1>5, Zenon

\* A permit ends with no slot open, so that carried out and closed coincide;
\* the receipt is chosen by what is closed, and a partial one raises the fence.
LEMMA TruthEndSteps ==
    ASSUME IInv, Truth, NEW a \in Attempts,
           \/ FinalizeCommit(a) \/ ClosePermit(a)
           \/ \E proved \in SUBSET Required : FinalizeCommitV3(a, proved)
    PROVE  Truth'
  <1>1. /\ Blocking(a) = {} /\ permit' = [permit EXCEPT ![a].state = "Closed"]
        /\ permit[a].state = "Issued" /\ UNCHANGED <<slots, performed>>
    BY Zenon DEF FinalizeCommit, FinalizeCommitV3, ClosePermit, TerminalGate, EndPermit, effectVars
  <1>2. /\ permit'[a].state = "Closed" /\ permit'[a].fence = permit[a].fence
        /\ \A b \in Attempts \ {a} : permit'[b] = permit[b]
    BY <1>1, PermitMarked, Zenon DEF IInv, Shape
  <1>3. \A b \in Attempts : attempt'[b].fence = attempt[b].fence
    <2>1. PICK s : attempt' = [attempt EXCEPT ![a].state = s]
      BY Zenon DEF FinalizeCommit, FinalizeCommitV3, ClosePermit, EndPermit
    <2>2. attempt' = [b \in Attempts |-> IF b = a
                       THEN [state |-> s, head |-> attempt[a].head, fence |-> attempt[a].fence]
                       ELSE attempt[b]]
      BY <2>1 DEF IInv, Shape, AttemptShape
    <2> QED  BY <2>2, Zenon
  <1> DEFINE Says(r) ==
          /\ receipt' = [receipt EXCEPT ![a] = r]
          /\ r \in {"CancelledBeforeEffect", "FailedBeforeEffect"} => Closed(a) = {}
          /\ r \in {"PartialEffect", "FailedAfterEffect"} =>
                 Closed(a) # {} /\ task'.fence = task.fence + 1 /\ HeadHeld(a)
          /\ task'.fence = task.fence \/ task'.fence = task.fence + 1
  <1>4. PICK o : Says(o)
    <2>1. TaskShape
      BY Zenon DEF IInv, Shape
    <2>2. CASE FinalizeCommit(a)
      <3>1. receipt' = [receipt EXCEPT ![a] = "Committed"] /\ task' = [task EXCEPT !.head = @ + 1]
        BY <2>2, Zenon DEF FinalizeCommit, EndPermit
      <3>2. task'.fence = task.fence
        BY <2>1, <3>1, Zenon DEF TaskShape
      <3> QED  BY <3>1, <3>2, Zenon
    <2>3. CASE ClosePermit(a)
      <3>1. /\ Closed(a) = {} /\ task' = task
            /\ \E r \in {"CancelledBeforeEffect", "FailedBeforeEffect"} :
                   receipt' = [receipt EXCEPT ![a] = r]
        BY <2>3, Zenon DEF ClosePermit, EndPermit
      <3> QED  BY <3>1, Zenon
    <2>4. ASSUME NEW proved \in SUBSET Required, FinalizeCommitV3(a, proved)
          PROVE  \E r : Says(r)
      <3>1. PICK missing, r :
                /\ missing = RequiredOf(a) \ proved
                /\ r = IF missing = {} THEN "Committed"
                       ELSE IF proved # {} THEN "PartialEffect" ELSE "FailedAfterEffect"
                /\ missing # {} => Closed(a) # {}
                /\ receipt' = [receipt EXCEPT ![a] = r] /\ HeadHeld(a)
                /\ task' = [task EXCEPT !.head = @ + 1,
                                        !.fence = IF missing = {} THEN @ ELSE @ + 1]
        BY <2>4, Zenon DEF FinalizeCommitV3, EndPermit
      <3>2. task'.fence = IF missing = {} THEN task.fence ELSE task.fence + 1
        BY <2>1, <3>1, Zenon DEF TaskShape
      <3>3. Says(r)
        BY <3>1, <3>2, Zenon
      <3> QED  BY <3>3, Zenon
    <2>5. (\E r : Says(r)) \/ ~(FinalizeCommit(a) \/ ClosePermit(a)
                                \/ \E proved \in SUBSET Required : FinalizeCommitV3(a, proved))
      BY <2>2, <2>3, <2>4, Zenon
    <2> QED  BY <2>5, Zenon
  <1>5. /\ receipt' = [b \in Attempts |-> receipt'[b]] /\ receipt'[a] = o
        /\ \A b \in Attempts \ {a} : receipt'[b] = receipt[b]
    BY <1>4, Zenon DEF Truth
  <1>6. task'.fence \in Nat /\ task'.fence >= task.fence
    BY <1>4 DEF Truth
  <1>7. \A b \in Attempts : Closed(b)' = Closed(b)
    BY <1>1, Zenon DEF Closed
  <1>8. TruthOf(a)'
    <2>1. \A e \in Effects : slots[a][e] \in Ended
      BY <1>1, Zenon DEF Blocking
    <2>2. \A e \in Effects : <<a, e>> \in performed <=> slots[a][e] = "EffectClosed"
      BY <2>1, Zenon DEF Ended, IInv, SlotsSettle, Truth
    <2>3. o \in {"PartialEffect", "FailedAfterEffect"} => task'.fence > permit'[a].fence
      BY <1>2, <1>4 DEF HeadHeld, Truth
    <2> QED  BY <1>1, <1>4, <1>5, <1>7, <2>2, <2>3, Zenon DEF TruthOf
  <1>9. ASSUME NEW b \in Attempts, b # a
        PROVE  TruthOf(b)'
    <2>1. permit'[b] = permit[b] /\ receipt'[b] = receipt[b] /\ Closed(b)' = Closed(b)
      BY <1>2, <1>5, <1>7, <1>9, Zenon
    <2>2. permit[b].fence \in Nat /\ task.fence \in Nat
      BY Zenon DEF Truth
    <2>3. task.fence > permit[b].fence => task'.fence > permit[b].fence
      BY <1>6, <2>2
    <2>4. TruthOf(b)
      BY Zenon DEF Truth
    <2> QED  BY <1>1, <2>1, <2>3, <2>4, Zenon DEF TruthOf
  <1>10. \A b \in Attempts : attempt'[b].fence \in Nat /\ permit'[b].fence \in Nat
    BY <1>2, <1>3, Zenon DEF Truth
  <1> QED  BY <1>1, <1>5, <1>6, <1>8, <1>9, <1>10, Zenon DEF Truth

\* The steps of open candidates: nothing of theirs was carried out.
LEMMA TruthAttemptSteps ==
    ASSUME IInv, Truth,
           CancelTask \/ \E a \in Attempts : RegisterAttempt(a) \/ RequestCommitPermit(a)
    PROVE  Truth'
  <1>1. ASSUME NEW a \in Attempts, RegisterAttempt(a)
        PROVE  Truth'
    <2>1. UNCHANGED <<task, receipt, permit, slots, performed>>
      BY <1>1, Zenon DEF RegisterAttempt, effectVars
    <2>2. \A b \in Attempts : attempt'[b].fence \in Nat
      BY <1>1, Zenon DEF RegisterAttempt, Truth, IInv, Shape, AttemptShape
    <2> QED  BY <2>1, <2>2, Zenon DEF Truth, TruthOf, Closed
  <1>2. CASE CancelTask
    <2>1. UNCHANGED <<permit, slots, performed>>
      BY <1>2, Zenon DEF CancelTask, effectVars
    <2>2. task'.fence = task.fence
      BY <1>2, Zenon DEF CancelTask, IInv, Shape, TaskShape
    <2>3. ASSUME NEW b \in Attempts
          PROVE  attempt'[b].fence \in Nat
      <3>1. attempt' = [a \in Attempts |-> IF a \in {c \in Attempts : attempt[c].state = "Created"}
                           THEN [attempt[a] EXCEPT !.state = "Cancelled"] ELSE attempt[a]]
        BY <1>2, Zenon DEF CancelTask
      <3>2. attempt[b] = [state |-> attempt[b].state, head |-> attempt[b].head,
                          fence |-> attempt[b].fence] /\ attempt[b].fence \in Nat
        BY Zenon DEF IInv, Shape, AttemptShape, Truth
      <3> QED  BY <3>1, <3>2, Zenon
    <2>4. receipt' = [a \in Attempts |-> IF attempt[a].state = "Created"
                                         THEN "CancelledBeforeEffect" ELSE receipt[a]]
      BY <1>2, Zenon DEF CancelTask
    <2>5. ASSUME NEW b \in Attempts
          PROVE  TruthOf(b)'
      <3>1. CASE attempt[b].state = "Created"
        <4>1. \A e \in Effects : slots[b][e] = "Absent" /\ <<b, e>> \notin performed
          BY <3>1, Zenon DEF IInv, SlotsSettle
        <4>2. Closed(b)' = {} /\ receipt'[b] = "CancelledBeforeEffect"
          BY <2>1, <2>4, <3>1, <4>1, Zenon DEF Closed
        <4> QED  BY <2>1, <4>1, <4>2, Zenon DEF TruthOf
      <3>2. CASE attempt[b].state # "Created"
        <4>1. receipt'[b] = receipt[b] /\ Closed(b)' = Closed(b)
          BY <2>1, <2>4, <3>2, Zenon DEF Closed
        <4> QED  BY <2>1, <2>2, <4>1, Zenon DEF Truth, TruthOf
      <3> QED  BY <3>1, <3>2, Zenon
    <2>6. receipt' = [a \in Attempts |-> receipt'[a]]
      BY <2>4, Zenon
    <2> QED  BY <2>1, <2>2, <2>3, <2>5, <2>6, Zenon DEF Truth
  <1>3. ASSUME NEW a \in Attempts, RequestCommitPermit(a)
        PROVE  Truth'
    <2>1. /\ attempt[a].state = "Created" /\ UNCHANGED <<task, receipt, performed>>
          /\ \E s : attempt' = [attempt EXCEPT ![a].state = s]
      BY <1>3, Zenon DEF RequestCommitPermit, IssuePermit
    <2>2. \A b \in Attempts : attempt'[b].fence = attempt[b].fence
      <3>1. PICK s : attempt' = [attempt EXCEPT ![a].state = s]
        BY <2>1, Zenon
      <3>2. attempt' = [b \in Attempts |-> IF b = a
                         THEN [state |-> s, head |-> attempt[a].head, fence |-> attempt[a].fence]
                         ELSE attempt[b]]
        BY <3>1 DEF IInv, Shape, AttemptShape
      <3> QED  BY <3>2, Zenon
    <2>3. CASE UNCHANGED <<permit, slots>>
      BY <2>1, <2>2, <2>3, Zenon DEF Truth, TruthOf, Closed
    <2>4. ASSUME NEW l, NEW plan, NEW mapped, NEW sealed, IssuePermit(a, l, plan, mapped, sealed)
          PROVE  Truth'
      <3>1. /\ permit'[a].state # "Closed" /\ permit'[a].fence = attempt[a].fence
            /\ \A b \in Attempts \ {a} : permit'[b] = permit[b]
        BY <2>4, Zenon DEF IssuePermit, IInv, Shape, PermitShape
      <3>2. /\ \A e \in Effects : slots'[a][e] # "EffectClosed"
            /\ \A b \in Attempts \ {a} : slots'[b] = slots[b]
        BY <2>4, Zenon DEF IssuePermit, IInv, Shape, SlotShape
      <3>3. ASSUME NEW b \in Attempts
            PROVE  /\ TruthOf(b)' /\ permit'[b].fence \in Nat
                   /\ \A e \in Effects : slots'[b][e] = "EffectClosed" => <<b, e>> \in performed'
        <4>1. CASE b = a
          BY <3>1, <3>2, <4>1, Zenon DEF TruthOf, Truth
        <4>2. CASE b # a
          <5>1. permit'[b] = permit[b] /\ slots'[b] = slots[b]
            BY <3>1, <3>2, <4>2, Zenon
          <5>2. Closed(b)' = Closed(b)
            BY <5>1, Zenon DEF Closed
          <5> QED  BY <2>1, <5>1, <5>2, Zenon DEF Truth, TruthOf
        <4> QED  BY <4>1, <4>2, Zenon
      <3> QED  BY <2>1, <2>2, <3>3, Zenon DEF Truth
    <2> QED  BY <1>3, <2>3, <2>4, Zenon DEF RequestCommitPermit
  <1> QED  BY <1>1, <1>2, <1>3, Zenon

\* Every step keeps the truth of the receipts.
LEMMA StepTruth ==
    ASSUME IInv, Truth, [Next]_vars
    PROVE  Truth'
  <1>1. ASSUME UNCHANGED <<task, attempt, permit, slots, performed, receipt>>
        PROVE  Truth'
    BY <1>1, Zenon DEF Truth, TruthOf, Closed
  <1>2. ASSUME NEW a \in Attempts, QuarantinePermit(a)
        PROVE  Truth'
    <2>1. /\ permit' = [permit EXCEPT ![a].state = "Quarantined"]
          /\ UNCHANGED <<task, attempt, receipt, slots, performed>>
      BY <1>2, Zenon DEF QuarantinePermit, taskVars, effectVars
    <2>2. /\ permit'[a].state = "Quarantined" /\ permit'[a].fence = permit[a].fence
          /\ \A b \in Attempts \ {a} : permit'[b] = permit[b]
      BY <2>1, PermitMarked, Zenon DEF IInv, Shape
    <2>3. \A e \in Effects : slots'[a][e] = "EffectClosed" => <<a, e>> \in performed'
      BY <2>1, Zenon DEF Truth
    <2> QED  BY <2>1, <2>2, <2>3, TruthElsewhere, Zenon
  <1>3. CASE UNCHANGED vars
    BY <1>1, <1>3, Zenon DEF vars, taskVars, effectVars
  <1>4. CASE Next
    BY <1>1, <1>2, <1>4, TruthSlotSteps, TruthEndSteps, TruthAttemptSteps, Zenon
       DEF Next, AcquireLease, ExpireLease, RetireAssignment, AdoptPermit, RegisterParticipant,
           AdmitParticipantOperation, RecordBarrier, PrepareTakeoverFence, CompleteTakeover,
           ReopenSuccessorRegistry, taskVars, effectVars
  <1> QED  BY <1>3, <1>4, Zenon

-----------------------------------------------------------------------------
(* The assignment table and the takeover fence. *)

Lease == [term : Nat, epoch : Nat]
RowState == {"Active", "TakeoverPending", "Fenced", "Retired"}
Row == [lease : Lease, gen : Nat, at : Nat, state : RowState]

\* A row is in force, and the table has one that binds a generation to a lease.
Live(row) == row.state \in {"Active", "TakeoverPending"}
Single(rows) == \A i, j \in DOMAIN rows : Live(rows[i]) /\ Live(rows[j]) => i = j
Holds(rows, l, g) == \E i \in DOMAIN rows : rows[i].lease = l /\ rows[i].gen = g

\* A sequence with one element put in at place k.
Put(rows, k, x) == SubSeq(rows, 1, k - 1) \o <<x>> \o SubSeq(rows, k, Len(rows))
Shifted(rows, k, x, new) ==
    /\ new \in Seq(Row) /\ Len(new) = Len(rows) + 1 /\ new[k] = x
    /\ \A i \in 1..(k - 1) : new[i] = rows[i]
    /\ \A i \in (k + 1)..(Len(rows) + 1) : new[i] = rows[i - 1]
LEMMA PutIn ==
    ASSUME NEW rows \in Seq(Row), NEW x \in Row, NEW k \in 1..Len(rows),
           NEW new, new = Put(rows, k, x)
    PROVE  Shifted(rows, k, x, new)
  <1>0. Len(rows) \in Nat /\ DOMAIN rows = 1..Len(rows) /\ k \in Nat
    BY LenProperties
  <1> DEFINE p == SubSeq(rows, 1, k - 1)
             q == SubSeq(rows, k, Len(rows))
             w == <<x>>
             r == p \o w
  <1>1. p \in Seq(Row) /\ Len(p) = k - 1 /\ \A i \in 1..(k - 1) : p[i] = rows[i]
    <2>1. /\ 1 \in Int /\ k - 1 \in Int /\ \A i \in 1..(k - 1) : rows[i] \in Row
          /\ \A i \in 1..(k - 1) : 1 + i - 1 = i
      BY <1>0, ElementOfSeq
    <2>2. /\ p \in Seq(Row) /\ Len(p) = IF 1 <= k - 1 THEN (k - 1) - 1 + 1 ELSE 0
          /\ \A i \in 1..((k - 1) - 1 + 1) : p[i] = rows[1 + i - 1]
      BY <2>1, SubSeqProperties
    <2> HIDE DEF p
    <2> QED  BY <1>0, <2>1, <2>2
  <1>2. /\ q \in Seq(Row) /\ Len(q) = Len(rows) - k + 1
        /\ \A i \in 1..(Len(rows) - k + 1) : q[i] = rows[k + i - 1]
    <2>1. k \in Int /\ Len(rows) \in Int /\ \A i \in k..Len(rows) : rows[i] \in Row
      BY <1>0, ElementOfSeq
    <2>2. /\ q \in Seq(Row) /\ Len(q) = IF k <= Len(rows) THEN Len(rows) - k + 1 ELSE 0
          /\ \A i \in 1..(Len(rows) - k + 1) : q[i] = rows[k + i - 1]
      BY <2>1, SubSeqProperties
    <2> HIDE DEF q
    <2> QED  BY <1>0, <2>2
  <1>3. w \in Seq(Row) /\ Len(w) = 1 /\ w[1] = x
    OBVIOUS
  <1> HIDE DEF p, q, w
  <1>4. /\ r \in Seq(Row) /\ Len(r) = k
        /\ \A i \in 1..(k - 1) : r[i] = rows[i]
        /\ r[k] = x
    <2>1. /\ r \in Seq(Row) /\ Len(r) = (k - 1) + 1
          /\ \A i \in 1..((k - 1) + 1) : r[i] = IF i <= k - 1 THEN p[i] ELSE w[i - (k - 1)]
      <3>1. /\ p \o w \in Seq(Row) /\ Len(p \o w) = Len(p) + Len(w)
            /\ \A i \in 1..(Len(p) + Len(w)) :
                   (p \o w)[i] = IF i <= Len(p) THEN p[i] ELSE w[i - Len(p)]
        BY <1>1, <1>3, ConcatProperties, Zenon
      <3> QED  BY <1>1, <1>3, <3>1, Zenon
    <2>2. k \in 1..((k - 1) + 1) /\ ~(k <= k - 1) /\ k - (k - 1) = 1 /\ (k - 1) + 1 = k
      BY <1>0
    <2>3. r[k] = x
      BY <1>3, <2>1, <2>2, Zenon
    <2>4. ASSUME NEW i \in 1..(k - 1) PROVE r[i] = rows[i]
      <3>1. i \in 1..((k - 1) + 1) /\ i <= k - 1
        BY <1>0
      <3> HIDE DEF r
      <3> QED  BY <1>1, <2>1, <3>1, Zenon
    <2> HIDE DEF r
    <2> QED  BY <2>1, <2>2, <2>3, <2>4, Zenon
  <1>5. new = r \o q
    BY Zenon DEF Put, p, q, w
  <1> HIDE DEF r
  <1>6. /\ new \in Seq(Row) /\ Len(new) = k + (Len(rows) - k + 1)
        /\ \A i \in 1..(k + (Len(rows) - k + 1)) : new[i] = IF i <= k THEN r[i] ELSE q[i - k]
    <2>1. /\ r \o q \in Seq(Row) /\ Len(r \o q) = Len(r) + Len(q)
          /\ \A i \in 1..(Len(r) + Len(q)) :
                 (r \o q)[i] = IF i <= Len(r) THEN r[i] ELSE q[i - Len(r)]
      BY <1>2, <1>4, ConcatProperties, Zenon
    <2> QED  BY <1>2, <1>4, <1>5, <2>1, Zenon
  <1>7. ASSUME NEW i \in (k + 1)..(Len(rows) + 1)
        PROVE  new[i] = rows[i - 1]
    <2>1. i - k \in 1..(Len(rows) - k + 1) /\ i \in 1..(k + (Len(rows) - k + 1)) /\ ~(i <= k)
      BY <1>0, <1>7
    <2>2. new[i] = q[i - k] /\ q[i - k] = rows[k + (i - k) - 1]
      BY <1>2, <1>6, <2>1, Zenon
    <2>3. k + (i - k) - 1 = i - 1
      BY <1>0, <1>7
    <2> QED  BY <2>2, <2>3, Zenon
  <1>8. /\ k + (Len(rows) - k + 1) = Len(rows) + 1
        /\ \A i \in 1..k : i \in 1..(k + (Len(rows) - k + 1)) /\ i <= k
        /\ k \in 1..k /\ \A i \in 1..(k - 1) : i \in 1..k
    BY <1>0
  <1>9. \A i \in 1..k : new[i] = r[i]
    BY <1>6, <1>8, Zenon
  <1> QED  BY <1>4, <1>6, <1>7, <1>8, <1>9, Zenon DEF Shifted

\* insert_assignment adds one row and keeps every other.
Grown(rows, new, l, g) ==
    /\ new \in Seq(Row)
    /\ \A i \in DOMAIN rows : \E j \in DOMAIN new : new[j] = rows[i]
    /\ \E k \in DOMAIN new :
           /\ new[k].lease = l /\ new[k].gen = g
           /\ \A j \in DOMAIN new \ {k} : \E i \in DOMAIN rows : new[j] = rows[i]

LEMMA RowInserted ==
    ASSUME NEW rows \in Seq(Row), NEW l \in Lease, NEW g \in Nat,
           NEW new \in InsertRow(rows, l, g)
    PROVE  Grown(rows, new, l, g)
  <1> DEFINE n == Len(rows)
             first == [lease |-> l, gen |-> g, state |-> "Active", at |-> 1]
             row(t) == [first EXCEPT !.at = t]
  <1>0. n \in Nat /\ DOMAIN rows = 1..n
    BY LenProperties, Zenon
  <1>1. \A t \in Nat : row(t) \in Row /\ row(t).lease = l /\ row(t).gen = g
    BY Zenon DEF Row, RowState
  <1>2. CASE rows = <<>>
    <2>1. new = <<first>>
      BY <1>2, Zenon DEF InsertRow
    <2>2. first \in Row /\ first.lease = l /\ first.gen = g
      BY Zenon DEF Row, RowState
    <2> HIDE DEF first
    <2>3. new \in Seq(Row) /\ DOMAIN new = {1} /\ new[1] = first
      BY <2>1, <2>2
    <2>4. DOMAIN rows = {}
      BY <1>2
    <2> QED  BY <2>2, <2>3, <2>4, Zenon DEF Grown
  <1>3. CASE rows # <<>>
    <2> DEFINE t == rows[n].at
    <2>1. n \in 1..n /\ t \in Nat /\ t + 1 \in Nat
      <3>1. n # 0
        BY <1>0, <1>3, EmptySeq, Zenon
      <3>2. n \in 1..n
        BY <1>0, <3>1
      <3>3. rows[n] \in Row
        BY <3>2, ElementOfSeq, Zenon
      <3> QED  BY <3>2, <3>3 DEF Row
    <2>2. \/ new = Append(rows, row(t + 1))
          \/ \E i \in DOMAIN rows : new = SubSeq(rows, 1, i - 1) \o <<row(t)>> \o SubSeq(rows, i, n)
      <3> HIDE DEF first
      <3>1. new \in {Append(rows, row(t + 1))} \cup
                    {SubSeq(rows, 1, i - 1) \o <<row(t)>> \o SubSeq(rows, i, n) :
                         i \in {j \in DOMAIN rows : rows[j].at = t /\ Ties(rows) < MaxTies}}
        BY <1>3, Zenon DEF InsertRow, first
      <3> HIDE DEF row, t
      <3> QED  BY <3>1, Zenon
    <2>3. /\ row(t) \in Row /\ row(t).lease = l /\ row(t).gen = g
          /\ row(t + 1) \in Row /\ row(t + 1).lease = l /\ row(t + 1).gen = g
      BY <1>1, <2>1, Zenon
    <2> HIDE DEF t, row
    <2>4. CASE new = Append(rows, row(t + 1))
      <3>1. /\ new \in Seq(Row) /\ Len(new) = n + 1 /\ new[n + 1] = row(t + 1)
            /\ \A i \in 1..n : new[i] = rows[i]
        BY <2>3, <2>4, AppendProperties
      <3>2. DOMAIN new = 1..(n + 1)
        BY <3>1, LenProperties, Zenon
      <3>3. n + 1 \in DOMAIN new /\ \A j \in DOMAIN new \ {n + 1} : j \in DOMAIN rows
        BY <1>0, <3>2
      <3>4. \A i \in DOMAIN rows : i \in DOMAIN new
        BY <1>0, <3>2
      <3> QED  BY <1>0, <2>3, <3>1, <3>3, <3>4, Zenon DEF Grown
    <2>5. ASSUME NEW k \in DOMAIN rows,
                 new = SubSeq(rows, 1, k - 1) \o <<row(t)>> \o SubSeq(rows, k, n)
          PROVE  Grown(rows, new, l, g)
      <3>1. /\ new \in Seq(Row) /\ Len(new) = n + 1 /\ new[k] = row(t)
            /\ \A i \in 1..(k - 1) : new[i] = rows[i]
            /\ \A i \in (k + 1)..(n + 1) : new[i] = rows[i - 1]
        <4>1. PICK x \in Row : x = row(t)
          BY <2>3, Zenon
        <4>2. new = Put(rows, k, x) /\ k \in 1..Len(rows)
          BY <1>0, <2>5, <4>1, Zenon DEF Put
        <4>3. Shifted(rows, k, x, new)
          BY <4>2, PutIn, Zenon
        <4> QED  BY <4>1, <4>3, Zenon DEF Shifted
      <3>2. DOMAIN new = 1..(n + 1) /\ k \in DOMAIN new
        BY <1>0, <3>1, LenProperties
      <3>3. ASSUME NEW j \in DOMAIN new \ {k}
            PROVE  \E i \in DOMAIN rows : new[j] = rows[i]
        <4>1. CASE j < k
          <5>1. j \in 1..(k - 1) /\ j \in DOMAIN rows
            BY <1>0, <3>2, <4>1
          <5> QED  BY <3>1, <5>1, Zenon
        <4>2. CASE j > k
          <5>1. j \in (k + 1)..(n + 1) /\ j - 1 \in DOMAIN rows
            BY <1>0, <3>2, <4>2
          <5> QED  BY <3>1, <5>1, Zenon
        <4> QED  BY <1>0, <3>2, <3>3, <4>1, <4>2
      <3>4. ASSUME NEW i \in DOMAIN rows
            PROVE  \E j \in DOMAIN new : new[j] = rows[i]
        <4>1. CASE i < k
          <5>1. i \in 1..(k - 1) /\ i \in DOMAIN new
            BY <1>0, <3>2, <4>1
          <5> QED  BY <3>1, <5>1, Zenon
        <4>2. CASE i >= k
          <5>1. i + 1 \in (k + 1)..(n + 1) /\ i + 1 \in DOMAIN new /\ (i + 1) - 1 = i
            BY <1>0, <3>2, <4>2
          <5> QED  BY <3>1, <5>1, Zenon
        <4> QED  BY <1>0, <4>1, <4>2
      <3> QED  BY <2>3, <3>1, <3>2, <3>3, <3>4, Zenon DEF Grown
    <2> QED  BY <2>2, <2>4, <2>5, Zenon
  <1> QED  BY <1>2, <1>3, Zenon

\* A row changes state; the table binds what it bound.
LEMMA RowMarked ==
    ASSUME NEW rows \in Seq(Row), NEW i \in DOMAIN rows,
           NEW s \in RowState, NEW new, new = Marked(rows, i, s)
    PROVE  /\ new \in Seq(Row) /\ DOMAIN new = DOMAIN rows
           /\ new[i].state = s /\ new[i].lease = rows[i].lease /\ new[i].gen = rows[i].gen
           /\ \A j \in DOMAIN rows \ {i} : new[j] = rows[j]
  <1> DEFINE c == [rows[i] EXCEPT !.state = s]
  <1>0. DOMAIN rows = 1..Len(rows) /\ rows[i] \in Row
    BY LenProperties, ElementOfSeq, Zenon
  <1>1. c \in Row /\ c.state = s /\ c.lease = rows[i].lease /\ c.gen = rows[i].gen
    BY <1>0, Zenon DEF Row
  <1>2. new = [rows EXCEPT ![i] = c]
    BY Zenon DEF Marked
  <1> HIDE DEF c
  <1>3. new \in Seq(Row) /\ DOMAIN new = DOMAIN rows
    BY <1>0, <1>1, <1>2, ExceptSeq
  <1> QED  BY <1>1, <1>2, <1>3, Zenon

\* The row in force gives way to a takeover or is retired.
LEMMA RowDemoted ==
    ASSUME NEW rows \in Seq(Row), Single(rows), NEW i \in DOMAIN rows, Live(rows[i]),
           NEW s \in {"TakeoverPending", "Retired"}, NEW new, new = Marked(rows, i, s)
    PROVE  /\ new \in Seq(Row) /\ Single(new)
           /\ \A m, h : Holds(rows, m, h) => Holds(new, m, h)
  <1>1. /\ new \in Seq(Row) /\ DOMAIN new = DOMAIN rows
        /\ new[i].state = s /\ new[i].lease = rows[i].lease /\ new[i].gen = rows[i].gen
        /\ \A j \in DOMAIN rows \ {i} : new[j] = rows[j]
    <2>1. s \in RowState
      BY Zenon DEF RowState
    <2> QED  BY <2>1, RowMarked
  <1>2. Single(new)
    BY <1>1 DEF Single, Live
  <1>3. \A m, h : Holds(rows, m, h) => Holds(new, m, h)
    BY <1>1, Zenon DEF Holds
  <1> QED  BY <1>1, <1>2, <1>3, Zenon

\* The row in force is fenced and another takes its place.
LEMMA RowRotated ==
    ASSUME NEW rows \in Seq(Row), Single(rows), NEW i \in DOMAIN rows, Live(rows[i]),
           NEW l \in Lease, NEW g \in Nat, NEW new \in InsertRow(Marked(rows, i, "Fenced"), l, g)
    PROVE  /\ new \in Seq(Row) /\ Single(new) /\ Holds(new, l, g)
           /\ \A m, h : Holds(rows, m, h) => Holds(new, m, h)
  <1>0. PICK mid : mid = Marked(rows, i, "Fenced")
    BY Zenon
  <1>1. /\ mid \in Seq(Row) /\ DOMAIN mid = DOMAIN rows
        /\ mid[i].state = "Fenced" /\ mid[i].lease = rows[i].lease /\ mid[i].gen = rows[i].gen
        /\ \A j \in DOMAIN rows \ {i} : mid[j] = rows[j]
    <2>1. "Fenced" \in RowState
      BY Zenon DEF RowState
    <2> QED  BY <1>0, <2>1, RowMarked
  <1>2. \A j \in DOMAIN mid : ~Live(mid[j])
    BY <1>1, Zenon DEF Single, Live
  <1>3. /\ new \in Seq(Row)
        /\ \A j \in DOMAIN mid : \E k \in DOMAIN new : new[k] = mid[j]
        /\ \E k \in DOMAIN new :
               /\ new[k].lease = l /\ new[k].gen = g
               /\ \A j \in DOMAIN new \ {k} : \E h \in DOMAIN mid : new[j] = mid[h]
    <2>1. new \in InsertRow(mid, l, g)
      BY <1>0, Zenon
    <2>2. Grown(mid, new, l, g)
      BY <1>1, <2>1, RowInserted, Zenon
    <2> QED  BY <2>2, Zenon DEF Grown
  <1>4. Single(new)
    BY <1>2, <1>3, Zenon DEF Single
  <1>5. ASSUME NEW m, NEW h, Holds(rows, m, h)
        PROVE  Holds(new, m, h)
    <2>1. PICK j \in DOMAIN rows : rows[j].lease = m /\ rows[j].gen = h
      BY <1>5, Zenon DEF Holds
    <2>2. mid[j].lease = m /\ mid[j].gen = h /\ j \in DOMAIN mid
      BY <1>1, <2>1, Zenon
    <2> QED  BY <1>3, <2>2, Zenon DEF Holds
  <1> QED  BY <1>3, <1>4, <1>5, Zenon DEF Holds

\* ensure_active_assignment puts a row for the lease and the generation in
\* force and drops no row of another generation.
LEMMA RowEnsured ==
    ASSUME NEW rows \in Seq(Row), Single(rows), NEW l \in Lease, NEW g \in Nat,
           NEW new \in EnsureActive(rows, l, g)
    PROVE  /\ new \in Seq(Row) /\ Single(new)
           /\ l # NoLease => Holds(new, l, g)
           /\ \A m, h : h # g /\ Holds(rows, m, h) => Holds(new, m, h)
  <1> DEFINE n == Len(rows)
  <1>0. n \in Nat /\ DOMAIN rows = 1..n
    BY LenProperties, Zenon
  <1>1. CASE l = NoLease
    BY <1>1, Zenon DEF EnsureActive
  <1>2. CASE l # NoLease /\ rows = <<>>
    <2>1. new \in InsertRow(rows, l, g) /\ DOMAIN rows = {}
      BY <1>2 DEF EnsureActive
    <2>2. /\ new \in Seq(Row)
          /\ \E k \in DOMAIN new : /\ new[k].lease = l /\ new[k].gen = g
                                   /\ \A j \in DOMAIN new \ {k} : FALSE
      <3>1. Grown(rows, new, l, g)
        BY <2>1, RowInserted, Zenon
      <3> QED  BY <2>1, <3>1, Zenon DEF Grown
    <2> QED  BY <2>1, <2>2 DEF Single, Holds
  <1>3. CASE l # NoLease /\ rows # <<>>
    <2>1. n \in DOMAIN rows
      BY <1>0, <1>3, EmptySeq
    <2>2. /\ rows[n].state = "Active"
          /\ \/ /\ rows[n].gen = g /\ new = [rows EXCEPT ![n].lease = l]
             \/ new \in InsertRow(Marked(rows, n, "Fenced"), l, g)
      BY <1>3, Zenon DEF EnsureActive, Current, SameAssignment
    <2>3. CASE rows[n].gen = g /\ new = [rows EXCEPT ![n].lease = l]
      <3> DEFINE c == [rows[n] EXCEPT !.lease = l]
      <3>1. rows[n] \in Row
        BY <1>0, <2>1, ElementOfSeq, Zenon
      <3>2. c \in Row /\ c.state = rows[n].state /\ c.lease = l /\ c.gen = g
        BY <2>3, <3>1, Zenon DEF Row
      <3>3. new = [rows EXCEPT ![n] = c]
        BY <2>3, Zenon
      <3> HIDE DEF c
      <3>4. new \in Seq(Row) /\ DOMAIN new = DOMAIN rows
        BY <1>0, <2>1, <3>2, <3>3, ExceptSeq, Zenon
      <3>5. new[n] = c /\ \A j \in DOMAIN rows \ {n} : new[j] = rows[j]
        BY <2>1, <3>3, Zenon
      <3>6. Single(new)
        BY <3>2, <3>4, <3>5, Zenon DEF Single, Live
      <3>7. Holds(new, l, g)
        BY <2>1, <3>2, <3>4, <3>5, Zenon DEF Holds
      <3>8. \A m, h : h # g /\ Holds(rows, m, h) => Holds(new, m, h)
        BY <2>3, <3>4, <3>5, Zenon DEF Holds
      <3> QED  BY <3>4, <3>6, <3>7, <3>8, Zenon
    <2>4. CASE new \in InsertRow(Marked(rows, n, "Fenced"), l, g)
      BY <2>1, <2>2, <2>4, RowRotated, Zenon DEF Live
    <2> QED  BY <2>2, <2>3, <2>4, Zenon
  <1> QED  BY <1>1, <1>2, <1>3, Zenon

\* What a step may make of the current generation: one frozen for a takeover
\* stays so until it is left, and one that is left is never current again.
RegistryMoved ==
    \/ /\ registry'.gen = registry.gen
       /\ registry.state = "FrozenForTakeover" => registry'.state = "FrozenForTakeover"
    \/ registry'.gen = registry.gen + 1

\* What a step may make of an outstanding permit and the effects it maps.
PermitKept(a) ==
    /\ Outstanding(a) /\ permit'[a].gen = permit[a].gen /\ permit'[a].lease = permit[a].lease
    /\ permit'[a].mapped = permit[a].mapped

\* A permit is issued in a generation that no takeover has frozen, with none
\* other outstanding.
LEMMA PermitIssued ==
    ASSUME IInv, NEW a \in Attempts, NEW l, NEW plan, NEW mapped, NEW sealed,
           IssuePermit(a, l, plan, mapped, sealed), Verdict(a) = "Issued"
    PROVE  /\ permit'[a].gen = registry'.gen /\ permit'[a].lease = l
           /\ registry'.gen = FreezeForPermit.gen /\ registry'.gen \in Nat
           /\ registry'.gen \in {registry.gen, registry.gen + 1}
           /\ registry.state # "FrozenForTakeover"
           /\ \A b \in Attempts \ {a} : ~Outstanding(b)'
  <1>1. /\ \A b \in Attempts : ~Outstanding(b)
        /\ registry' = FreezeForPermit /\ registry.state # "FrozenForTakeover"
        /\ permit' = [permit EXCEPT ![a] =
               [state |-> "Issued", head |-> attempt[a].head, fence |-> attempt[a].fence,
                cancel |-> task.cancel, gen |-> FreezeForPermit.gen, lease |-> l,
                sealed |-> sealed, mapped |-> mapped]]
    BY Zenon DEF IssuePermit, Verdict
  <1>2. PermitShape /\ RegistryShape
    BY Zenon DEF IInv, Shape
  <1>3. /\ permit'[a].gen = FreezeForPermit.gen /\ permit'[a].lease = l
        /\ \A b \in Attempts \ {a} : permit'[b] = permit[b]
    BY <1>1, <1>2, Zenon DEF PermitShape
  <1>4. PICK g : /\ g = (IF registry.state = "Open" THEN registry.gen ELSE registry.gen + 1)
                 /\ registry' = [registry EXCEPT !.state = "FrozenForPermit", !.gen = g]
    BY <1>1, Zenon DEF FreezeForPermit
  <1>5. registry'.gen = g
    BY <1>2, <1>4, Zenon DEF RegistryShape
  <1>6. g \in Nat /\ g \in {registry.gen, registry.gen + 1}
    BY <1>2, <1>4 DEF RegistryShape
  <1> QED  BY <1>1, <1>3, <1>5, <1>6, Zenon DEF Outstanding

LEMMA RegistryAdvances ==
    ASSUME IInv, [Next]_vars
    PROVE  RegistryMoved
  <1>0. RegistryShape
    BY Zenon DEF IInv, Shape
  <1>1. CASE UNCHANGED registry
    BY <1>1, Zenon DEF RegistryMoved
  <1>2. ASSUME NEW p, registry' = Joined(p)
        PROVE  RegistryMoved
    BY <1>0, <1>2, Zenon DEF Joined, RegistryShape, RegistryMoved
  <1>3. ASSUME NEW a \in Attempts, RequestCommitPermit(a)
        PROVE  RegistryMoved
    <2>1. \/ UNCHANGED registry
          \/ \E l, plan, mapped, sealed : IssuePermit(a, l, plan, mapped, sealed) /\ Verdict(a) = "Issued"
      BY <1>3, Zenon DEF RequestCommitPermit, termVars
    <2> QED  BY <1>1, <2>1, PermitIssued, Zenon DEF RegistryMoved
  <1>4. ASSUME NEW a \in Attempts, ClosePermit(a)
        PROVE  RegistryMoved
    <2>1. \/ UNCHANGED registry
          \/ registry' = [registry EXCEPT !.gen = @ + 1, !.state = "Open"]
      BY <1>4, Zenon DEF ClosePermit, ReopenAfterClosure
    <2> QED  BY <1>0, <1>1, <2>1, Zenon DEF RegistryShape, RegistryMoved
  <1>5. CASE PrepareTakeoverFence
    BY <1>0, <1>5, Zenon DEF PrepareTakeoverFence, RegistryShape, RegistryMoved
  <1>6. CASE ReopenSuccessorRegistry
    BY <1>0, <1>6, Zenon DEF ReopenSuccessorRegistry, RegistryShape, RegistryMoved
  <1>7. ASSUME NEW p \in Participants,
               RegisterParticipant(p) \/ AdmitParticipantOperation(p) \/ RecordBarrier(p)
        PROVE  RegistryMoved
    BY <1>1, <1>2, <1>7, Zenon DEF RegisterParticipant, AdmitParticipantOperation, RecordBarrier
  <1>8. CASE UNCHANGED termVars
    BY <1>1, <1>8, Zenon DEF termVars
  <1>9. CASE AcquireLease \/ ExpireLease \/ CompleteTakeover \/ RetireAssignment
    BY <1>1, <1>9, Zenon DEF AcquireLease, ExpireLease, CompleteTakeover, RetireAssignment
  <1>10. ASSUME NEW a \in Attempts,
                \/ RegisterAttempt(a) \/ FinalizeCommit(a) \/ QuarantinePermit(a) \/ AdoptPermit(a)
                \/ \E proved \in SUBSET Required : FinalizeCommitV3(a, proved)
         PROVE  RegistryMoved
    BY <1>8, <1>10, Zenon DEF RegisterAttempt, FinalizeCommit, QuarantinePermit, AdoptPermit,
                       FinalizeCommitV3
  <1>11. ASSUME NEW a \in Attempts, NEW e \in Effects,
                \/ RequestEffectPermit(a, e) \/ ConsumeDispatchToken(a, e) \/ Perform(a, e)
                \/ RecordEffectOutcome(a, e) \/ RecordNoEffect(a, e)
                \/ ReconcileLateOutcome(a, e) \/ ReconcileEffect(a, e)
         PROVE  RegistryMoved
    BY <1>8, <1>11, Zenon DEF RequestEffectPermit, ConsumeDispatchToken, Perform, RecordEffectOutcome,
                       RecordNoEffect, ReconcileLateOutcome, ReconcileEffect
  <1>12. CASE CancelTask \/ UNCHANGED vars
    BY <1>8, <1>12, Zenon DEF CancelTask, vars
  <1> QED  BY <1>3, <1>4, <1>5, <1>6, <1>7, <1>9, <1>10, <1>11, <1>12, Zenon DEF Next

\* A permit that is outstanding after a step was so before, in the same
\* generation and with the same mapping, unless the step issued it.
LEMMA PermitsStand ==
    ASSUME IInv, [Next]_vars, NEW a \in Attempts, Outstanding(a)'
    PROVE  \/ PermitKept(a)
           \/ RequestCommitPermit(a) /\ ~Outstanding(a)
  <1>0. PermitShape
    BY Zenon DEF IInv, Shape
  <1>1. CASE UNCHANGED permit
    BY <1>1, Zenon DEF PermitKept, Outstanding
  <1>2. ASSUME NEW b \in Attempts, RequestCommitPermit(b)
        PROVE  PermitKept(a) \/ (RequestCommitPermit(a) /\ ~Outstanding(a))
    <2>1. ~Outstanding(b)
      BY <1>2, Zenon DEF RequestCommitPermit, IInv, Owns, OutstandingOwnsTask
    <2>2. CASE b # a
      <3>1. \/ UNCHANGED permit
            \/ \E l, plan, mapped, sealed : IssuePermit(b, l, plan, mapped, sealed) /\ Verdict(b) = "Issued"
        BY <1>2, Zenon DEF RequestCommitPermit
      <3> QED  BY <1>1, <2>2, <3>1, PermitIssued, Zenon
    <2> QED  BY <1>2, <2>1, <2>2, Zenon
  <1>3. ASSUME NEW b \in Attempts, NEW s, permit' = [permit EXCEPT ![b].state = s],
               s \in {"Closed", "Quarantined", "Issued"}, Outstanding(b)
        PROVE  PermitKept(a)
    <2>1. /\ permit'[b].state = s /\ \A c \in Attempts \ {b} : permit'[c] = permit[c]
          /\ permit'[a].gen = permit[a].gen /\ permit'[a].lease = permit[a].lease
          /\ permit'[a].mapped = permit[a].mapped
      BY <1>0, <1>3, PermitMarked, Zenon
    <2> QED  BY <1>3, <2>1, Zenon DEF PermitKept, Outstanding
  <1>4. ASSUME NEW b \in Attempts, NEW e \in Effects,
               \/ RequestEffectPermit(b, e) \/ ConsumeDispatchToken(b, e) \/ Perform(b, e)
               \/ RecordEffectOutcome(b, e) \/ RecordNoEffect(b, e) \/ ReconcileLateOutcome(b, e)
        PROVE  UNCHANGED permit
    BY <1>4, Zenon DEF RequestEffectPermit, ConsumeDispatchToken, Perform, RecordEffectOutcome,
                  RecordNoEffect, ReconcileLateOutcome
  <1>5. ASSUME NEW b \in Attempts, NEW e \in Effects, ReconcileEffect(b, e)
        PROVE  PermitKept(a)
    <2>1. /\ permit[b].state = "Quarantined"
          /\ permit' = permit \/ permit' = [permit EXCEPT ![b].state = "Issued"]
      BY <1>5, Zenon DEF ReconcileEffect
    <2> QED  BY <1>1, <1>3, <2>1, Zenon DEF PermitKept, Outstanding
  <1>6. ASSUME NEW b \in Attempts,
               \/ FinalizeCommit(b) \/ ClosePermit(b) \/ QuarantinePermit(b)
               \/ \E proved \in SUBSET Required : FinalizeCommitV3(b, proved)
        PROVE  PermitKept(a)
    <2>1. /\ Outstanding(b)
          /\ \E s \in {"Closed", "Quarantined"} : permit' = [permit EXCEPT ![b].state = s]
      BY <1>6, Zenon DEF FinalizeCommit, ClosePermit, QuarantinePermit, FinalizeCommitV3, TerminalGate,
                  EndPermit, effectVars, Outstanding
    <2> QED  BY <1>3, <2>1, Zenon
  <1>7. CASE UNCHANGED vars
    BY <1>1, <1>7, Zenon DEF vars, effectVars
  <1>8. ASSUME NEW b \in Attempts, RegisterAttempt(b) \/ AdoptPermit(b)
        PROVE  PermitKept(a)
    BY <1>1, <1>8, Zenon DEF RegisterAttempt, AdoptPermit, effectVars, PermitKept, Outstanding
  <1>9. ASSUME NEW p \in Participants,
                RegisterParticipant(p) \/ AdmitParticipantOperation(p) \/ RecordBarrier(p)
         PROVE  UNCHANGED permit
    BY <1>9, Zenon DEF RegisterParticipant, AdmitParticipantOperation, RecordBarrier, effectVars
  <1>10. CASE \/ CancelTask \/ AcquireLease \/ ExpireLease \/ PrepareTakeoverFence
              \/ CompleteTakeover \/ ReopenSuccessorRegistry \/ RetireAssignment
    <2>1. UNCHANGED permit
      BY <1>10, Zenon DEF CancelTask, AcquireLease, ExpireLease, PrepareTakeoverFence, CompleteTakeover,
                   ReopenSuccessorRegistry, RetireAssignment, effectVars
    <2> QED  BY <1>1, <2>1, Zenon
  <1> QED  BY <1>1, <1>2, <1>4, <1>5, <1>6, <1>7, <1>8, <1>9, <1>10, Zenon DEF Next

\* The takeovers: a record belongs to a generation that is frozen for it or
\* past, it names every endpoint that the permit of its generation maps an
\* effect to, and a complete one has heard from all that it names.
FenceShape ==
    \A g \in 1..MaxGeneration :
        /\ takeovers[g] = [state |-> takeovers[g].state, lease |-> takeovers[g].lease,
                           old |-> takeovers[g].old, known |-> takeovers[g].known,
                           members |-> takeovers[g].members, observed |-> takeovers[g].observed,
                           unsigned |-> takeovers[g].unsigned]
        /\ takeovers[g].lease \in Lease
Reached(g) ==
    \A a \in Attempts, e \in Effects :
        Outstanding(a) /\ permit[a].gen = g /\ e \in permit[a].mapped =>
            Endpoint[e] \in takeovers[g].members
Fenced(g) ==
    /\ g < registry.gen \/ (g = registry.gen /\ registry.state = "FrozenForTakeover")
    /\ takeovers[g].state = "Complete" => takeovers[g].members \subseteq takeovers[g].observed
    /\ Reached(g)
Fences == FenceShape /\ \A g \in 1..MaxGeneration : takeovers[g].state # "None" => Fenced(g)

\* A step that keeps a takeover, or what it names, keeps it a fence.
LEMMA FenceKept ==
    ASSUME IInv, Fences, [Next]_vars, NEW g \in 1..MaxGeneration, takeovers[g].state # "None",
           takeovers'[g].members = takeovers[g].members,
           takeovers'[g].state = "Complete" => takeovers'[g].members \subseteq takeovers'[g].observed
    PROVE  Fenced(g)'
  <1>0. RegistryShape /\ RegistryShape' /\ RegistryMoved /\ Fenced(g) /\ g \in Nat
    <2>1. IInv'
      BY StepIInv, Zenon
    <2>2. RegistryMoved
      BY RegistryAdvances, Zenon
    <2>3. RegistryShape /\ RegistryShape'
      BY <2>1, Zenon DEF IInv, Shape
    <2>4. Fenced(g) /\ g \in Nat
      BY DEF Fences
    <2> QED  BY <2>2, <2>3, <2>4, Zenon
  <1>1. g < registry'.gen \/ (g = registry'.gen /\ registry'.state = "FrozenForTakeover")
    BY <1>0 DEF RegistryShape, RegistryMoved, Fenced
  <1>2. ASSUME NEW a \in Attempts, NEW e \in Effects, Outstanding(a)', permit'[a].gen = g,
               e \in permit'[a].mapped
        PROVE  Endpoint[e] \in takeovers'[g].members
    <2>1. CASE PermitKept(a)
      BY <1>0, <1>2, <2>1, Zenon DEF PermitKept, Fenced, Reached
    <2>2. CASE RequestCommitPermit(a) /\ ~Outstanding(a)
      <3>1. \/ UNCHANGED permit
            \/ \E l, plan, mapped, sealed : IssuePermit(a, l, plan, mapped, sealed) /\ Verdict(a) = "Issued"
        BY <2>2, Zenon DEF RequestCommitPermit
      <3>2. ~UNCHANGED permit
        BY <1>2, <2>2, Zenon DEF Outstanding
      <3>3. g \in {registry.gen, registry.gen + 1} /\ registry.state # "FrozenForTakeover"
        BY <1>2, <3>1, <3>2, PermitIssued, Zenon
      <3> QED  BY <1>0, <3>3 DEF Fenced, RegistryShape
    <2> QED  BY <1>2, <2>1, <2>2, PermitsStand, Zenon
  <1> QED  BY <1>1, <1>2, Zenon DEF Fenced, Reached

LEMMA FencesStep ==
    ASSUME IInv, Fences, [Next]_vars
    PROVE  Fences'
  <1>0. /\ RegistryShape /\ TakeoverShape /\ FenceShape /\ Binding \in Lease
        /\ registry.gen \in 1..MaxGeneration
    BY Zenon DEF IInv, Shape, Fences, RegistryShape, LeaseShape, Binding, Lease
  <1>1. PICK g \in 1..MaxGeneration : g = registry.gen
    BY <1>0, Zenon
  <1>2. CASE UNCHANGED takeovers
    BY <1>2, FenceKept, Zenon DEF Fences, FenceShape, Fenced
  <1>3. ASSUME NEW k, takeovers' = [takeovers EXCEPT ![g] = k],
               k = [state |-> k.state, lease |-> k.lease, old |-> k.old, known |-> k.known,
                    members |-> k.members, observed |-> k.observed, unsigned |-> k.unsigned],
               k.lease \in Lease,
               takeovers'[g] = k => Fenced(g)'
        PROVE  Fences'
    <2>1. takeovers'[g] = k /\ \A h \in 1..MaxGeneration \ {g} : takeovers'[h] = takeovers[h]
      BY <1>0, <1>3, Zenon DEF TakeoverShape
    <2>2. FenceShape'
      BY <1>0, <1>3, <2>1, Zenon DEF FenceShape
    <2>3. ASSUME NEW h \in 1..MaxGeneration, h # g, takeovers'[h].state # "None"
          PROVE  Fenced(h)'
      <3>1. takeovers'[h] = takeovers[h]
        BY <2>1, <2>3, Zenon
      <3> QED  BY <2>3, <3>1, FenceKept, Zenon DEF Fences, Fenced
    <2> QED  BY <1>3, <2>1, <2>2, <2>3, Zenon DEF Fences
  <1>4. CASE PrepareTakeoverFence
    <2> DEFINE k == [state |-> "Pending", lease |-> Binding,
                     old |-> Current(assignments).lease.term, known |-> MembersKnown,
                     members |-> FenceMembers, observed |-> {}, unsigned |-> {}]
    <2>1. takeovers' = takeovers \/ takeovers' = [takeovers EXCEPT ![g] = k]
      BY <1>1, <1>4, Zenon DEF PrepareTakeoverFence
    <2>2. /\ k = [state |-> k.state, lease |-> k.lease, old |-> k.old, known |-> k.known,
                  members |-> k.members, observed |-> k.observed, unsigned |-> k.unsigned]
          /\ k.lease = Binding /\ k.members = FenceMembers /\ k.state # "Complete"
      BY Zenon
    <2> HIDE DEF k
    <2>3. /\ registry'.gen = g /\ registry'.state = "FrozenForTakeover"
          /\ UNCHANGED permit
      BY <1>0, <1>1, <1>4, Zenon DEF PrepareTakeoverFence, RegistryShape
    <2>4. ASSUME NEW a \in Attempts, NEW e \in Effects, Outstanding(a), e \in permit[a].mapped
          PROVE  Endpoint[e] \in k.members
      BY <2>2, <2>4, Zenon DEF FenceMembers
    <2>5. ASSUME takeovers'[g] = k
          PROVE  Fenced(g)'
      <3>1. Reached(g)'
        BY <2>3, <2>4, <2>5, Zenon DEF Reached, Outstanding
      <3> QED  BY <2>2, <2>3, <2>5, <3>1, Zenon DEF Fenced
    <2> QED  BY <1>0, <1>2, <1>3, <2>1, <2>2, <2>5, Zenon
  <1>5. ASSUME NEW p \in Participants, RecordBarrier(p)
        PROVE  Fences'
    <2>1. PICK s, t : /\ takeovers' = [takeovers EXCEPT ![g] =
                             [state |-> "Pending", lease |-> takeovers[g].lease,
                              old |-> takeovers[g].old, known |-> takeovers[g].known,
                              members |-> takeovers[g].members, observed |-> s, unsigned |-> t]]
                      /\ takeovers[g].state = "Pending"
      <3>1. /\ takeovers[g].state = "Pending"
            /\ \/ takeovers' = [takeovers EXCEPT ![g].observed = takeovers[g].observed \cup {p}]
               \/ takeovers' = [takeovers EXCEPT ![g].unsigned = takeovers[g].unsigned \cup {p}]
        BY <1>1, <1>5, Zenon DEF RecordBarrier
      <3>2. takeovers[g] = [state |-> "Pending", lease |-> takeovers[g].lease,
                            old |-> takeovers[g].old, known |-> takeovers[g].known,
                            members |-> takeovers[g].members, observed |-> takeovers[g].observed,
                            unsigned |-> takeovers[g].unsigned]
        BY <1>0, <3>1, Zenon DEF FenceShape
      <3>3. ASSUME NEW s
            PROVE  /\ [takeovers[g] EXCEPT !.observed = s] =
                        [state |-> "Pending", lease |-> takeovers[g].lease,
                         old |-> takeovers[g].old, known |-> takeovers[g].known,
                         members |-> takeovers[g].members, observed |-> s,
                         unsigned |-> takeovers[g].unsigned]
                   /\ [takeovers[g] EXCEPT !.unsigned = s] =
                        [state |-> "Pending", lease |-> takeovers[g].lease,
                         old |-> takeovers[g].old, known |-> takeovers[g].known,
                         members |-> takeovers[g].members, observed |-> takeovers[g].observed,
                         unsigned |-> s]
        BY <3>2
      <3>4. PICK s : \/ takeovers' = [takeovers EXCEPT ![g] = [takeovers[g] EXCEPT !.observed = s]]
                     \/ takeovers' = [takeovers EXCEPT ![g] = [takeovers[g] EXCEPT !.unsigned = s]]
        BY <3>1, Zenon
      <3>5. \/ takeovers' = [takeovers EXCEPT ![g] =
                  [state |-> "Pending", lease |-> takeovers[g].lease,
                   old |-> takeovers[g].old, known |-> takeovers[g].known,
                   members |-> takeovers[g].members, observed |-> s,
                   unsigned |-> takeovers[g].unsigned]]
            \/ takeovers' = [takeovers EXCEPT ![g] =
                  [state |-> "Pending", lease |-> takeovers[g].lease,
                   old |-> takeovers[g].old, known |-> takeovers[g].known,
                   members |-> takeovers[g].members, observed |-> takeovers[g].observed,
                   unsigned |-> s]]
        BY <3>3, <3>4, Zenon
      <3> QED  BY <3>1, <3>5, Zenon
    <2> DEFINE k == [state |-> "Pending", lease |-> takeovers[g].lease, old |-> takeovers[g].old,
                     known |-> takeovers[g].known, members |-> takeovers[g].members,
                     observed |-> s, unsigned |-> t]
    <2>2. /\ k = [state |-> k.state, lease |-> k.lease, old |-> k.old, known |-> k.known,
                  members |-> k.members, observed |-> k.observed, unsigned |-> k.unsigned]
          /\ k.lease = takeovers[g].lease /\ k.members = takeovers[g].members
          /\ k.state # "Complete" /\ takeovers' = [takeovers EXCEPT ![g] = k]
      BY <2>1, Zenon
    <2> HIDE DEF k
    <2>3. takeovers'[g] = k => Fenced(g)'
      BY <2>1, <2>2, FenceKept, Zenon
    <2> QED  BY <1>0, <1>3, <2>2, <2>3, Zenon DEF FenceShape
  <1>6. CASE CompleteTakeover
    <2> DEFINE k == [state |-> "Complete", lease |-> takeovers[g].lease, old |-> takeovers[g].old,
                     known |-> takeovers[g].known, members |-> takeovers[g].members,
                     observed |-> takeovers[g].observed, unsigned |-> takeovers[g].unsigned]
    <2>1. /\ takeovers[g].state = "Pending" /\ Covered(takeovers[g])
          /\ takeovers' = [takeovers EXCEPT ![g].state = "Complete"]
      BY <1>1, <1>6, Zenon DEF CompleteTakeover
    <2>2. takeovers' = [takeovers EXCEPT ![g] = k]
      <3>1. takeovers[g] = [state |-> takeovers[g].state, lease |-> takeovers[g].lease,
                            old |-> takeovers[g].old, known |-> takeovers[g].known,
                            members |-> takeovers[g].members, observed |-> takeovers[g].observed,
                            unsigned |-> takeovers[g].unsigned]
        BY <1>0, Zenon DEF FenceShape
      <3>2. ASSUME NEW s
            PROVE  [takeovers[g] EXCEPT !.state = s] =
                     [state |-> s, lease |-> takeovers[g].lease, old |-> takeovers[g].old,
                      known |-> takeovers[g].known, members |-> takeovers[g].members,
                      observed |-> takeovers[g].observed, unsigned |-> takeovers[g].unsigned]
        BY <3>1
      <3> QED  BY <2>1, <3>2, Zenon
    <2>3. /\ k = [state |-> k.state, lease |-> k.lease, old |-> k.old, known |-> k.known,
                  members |-> k.members, observed |-> k.observed, unsigned |-> k.unsigned]
          /\ k.lease = takeovers[g].lease /\ k.members = takeovers[g].members
          /\ k.observed = takeovers[g].observed
      BY Zenon
    <2> HIDE DEF k
    <2>4. takeovers'[g] = k => Fenced(g)'
      BY <2>1, <2>3, FenceKept, Zenon DEF Covered
    <2> QED  BY <1>0, <1>3, <2>2, <2>3, <2>4, Zenon DEF FenceShape
  <1>7. CASE UNCHANGED termVars
    BY <1>2, <1>7, Zenon DEF termVars
  <1>8. ASSUME NEW a \in Attempts, RequestCommitPermit(a) \/ ClosePermit(a)
        PROVE  Fences'
    BY <1>2, <1>8, Zenon DEF RequestCommitPermit, IssuePermit, ClosePermit, termVars
  <1>9. CASE \/ \E p \in Participants : RegisterParticipant(p) \/ AdmitParticipantOperation(p)
             \/ AcquireLease \/ ExpireLease \/ ReopenSuccessorRegistry \/ RetireAssignment
    BY <1>2, <1>9, Zenon DEF RegisterParticipant, AdmitParticipantOperation, AcquireLease, ExpireLease,
                      ReopenSuccessorRegistry, RetireAssignment
  <1>10. ASSUME NEW a \in Attempts,
                \/ RegisterAttempt(a) \/ FinalizeCommit(a) \/ QuarantinePermit(a) \/ AdoptPermit(a)
                \/ \E proved \in SUBSET Required : FinalizeCommitV3(a, proved)
         PROVE  Fences'
    BY <1>7, <1>10, Zenon DEF RegisterAttempt, FinalizeCommit, QuarantinePermit, AdoptPermit,
                       FinalizeCommitV3
  <1>11. ASSUME NEW a \in Attempts, NEW e \in Effects,
                \/ RequestEffectPermit(a, e) \/ ConsumeDispatchToken(a, e) \/ Perform(a, e)
                \/ RecordEffectOutcome(a, e) \/ RecordNoEffect(a, e)
                \/ ReconcileLateOutcome(a, e) \/ ReconcileEffect(a, e)
         PROVE  Fences'
    BY <1>7, <1>11, Zenon DEF RequestEffectPermit, ConsumeDispatchToken, Perform, RecordEffectOutcome,
                       RecordNoEffect, ReconcileLateOutcome, ReconcileEffect
  <1>12. CASE CancelTask \/ UNCHANGED vars
    BY <1>7, <1>12, Zenon DEF CancelTask, vars
  <1> QED  BY <1>4, <1>5, <1>6, <1>8, <1>9, <1>10, <1>11, <1>12, Zenon DEF Next

\* Only Perform carries an effect out, for the holder of an outstanding permit
\* and through an endpoint that no barrier has silenced.
LEMMA QuietStep ==
    ASSUME IInv, Fences, [Next]_vars, NEW x \in performed' \ performed,
           permit[x[1]].lease # NoLease, x[2] \in permit[x[1]].mapped
    PROVE  takeovers[permit[x[1]].gen].state # "Complete"
  <1>1. PICK a \in Attempts, e \in Effects : Perform(a, e)
    <2>1. ASSUME NEW a \in Attempts,
                 \/ RegisterAttempt(a) \/ RequestCommitPermit(a) \/ FinalizeCommit(a)
                 \/ \E proved \in SUBSET Required : FinalizeCommitV3(a, proved)
                 \/ QuarantinePermit(a) \/ ClosePermit(a) \/ AdoptPermit(a)
          PROVE  performed' = performed
      BY <2>1, Zenon DEF effectVars, RegisterAttempt, RequestCommitPermit, FinalizeCommit,
                  FinalizeCommitV3, QuarantinePermit, ClosePermit, AdoptPermit
    <2>2. ASSUME NEW a \in Attempts, NEW e \in Effects,
                 \/ RequestEffectPermit(a, e) \/ ConsumeDispatchToken(a, e)
                 \/ RecordEffectOutcome(a, e) \/ RecordNoEffect(a, e)
                 \/ ReconcileLateOutcome(a, e) \/ ReconcileEffect(a, e)
          PROVE  performed' = performed
      BY <2>2, Zenon DEF RequestEffectPermit, ConsumeDispatchToken, RecordEffectOutcome, RecordNoEffect,
                  ReconcileLateOutcome, ReconcileEffect
    <2>3. ASSUME NEW p \in Participants,
                 RegisterParticipant(p) \/ AdmitParticipantOperation(p) \/ RecordBarrier(p)
          PROVE  performed' = performed
      BY <2>3, Zenon DEF RegisterParticipant, AdmitParticipantOperation, RecordBarrier, effectVars
    <2>4. ASSUME \/ CancelTask \/ AcquireLease \/ ExpireLease \/ PrepareTakeoverFence
                 \/ CompleteTakeover \/ ReopenSuccessorRegistry \/ RetireAssignment
                 \/ UNCHANGED vars
          PROVE  performed' = performed
      BY <2>4, Zenon DEF CancelTask, AcquireLease, ExpireLease, PrepareTakeoverFence, CompleteTakeover,
                  ReopenSuccessorRegistry, RetireAssignment, vars, effectVars
    <2> QED  BY <2>1, <2>2, <2>3, <2>4, Zenon DEF Next
  <1>2. /\ x = <<a, e>> /\ slots[a][e] \in {"Dispatched", "EffectUnknown"}
        /\ Endpoint[e] \notin takeovers[permit[a].gen].observed
    BY <1>1 DEF Perform
  <1>3. Outstanding(a) /\ permit[a].gen \in 1..MaxGeneration
    BY <1>2, Zenon DEF IInv, SlotsSettle, Ended, Shape, PermitShape
  <1>4. ASSUME takeovers[permit[a].gen].state = "Complete"
        PROVE  FALSE
    <2>1. PICK g \in 1..MaxGeneration : g = permit[a].gen
      BY <1>3, Zenon
    <2>2. Fenced(g)
      BY <1>4, <2>1, Zenon DEF Fences
    <2> QED  BY <1>2, <1>3, <1>4, <2>1, <2>2, Zenon DEF Fenced, Reached
  <1> QED  BY <1>2, <1>4, Zenon

\* The assignment rows: one is in force at most, and the row that an
\* outstanding permit was admitted under is there.
Rows ==
    /\ assignments \in Seq(Row) /\ Single(assignments)
    /\ \A a \in Attempts : Outstanding(a) /\ permit[a].lease # NoLease =>
           Holds(assignments, permit[a].lease, permit[a].gen)

\* A step that issues no permit keeps them when it drops no row that an
\* outstanding permit needs.
LEMMA RowsKept ==
    ASSUME IInv, Rows, [Next]_vars, \A a \in Attempts : ~RequestCommitPermit(a),
           assignments' \in Seq(Row), Single(assignments'),
           \A a \in Attempts : Outstanding(a) =>
               (Holds(assignments, permit[a].lease, permit[a].gen) =>
                    Holds(assignments', permit[a].lease, permit[a].gen))
    PROVE  Rows'
  <1>1. \A a \in Attempts : Outstanding(a)' => PermitKept(a)
    BY PermitsStand, Zenon
  <1> QED  BY <1>1, Zenon DEF Rows, PermitKept

LEMMA RowsStep ==
    ASSUME IInv, Fences, Rows, [Next]_vars
    PROVE  Rows'
  <1>0. /\ assignments \in Seq(Row) /\ Single(assignments) /\ Binding \in Lease
        /\ NoLease \in Lease /\ RegistryShape /\ registry.gen \in Nat /\ registry.gen + 1 \in Nat
        /\ DOMAIN assignments = 1..Len(assignments) /\ Len(assignments) \in Nat
    BY LenProperties
       DEF Rows, IInv, Shape, RegistryShape, LeaseShape, Binding, Lease, NoLease
  <1>1. \A g \in 1..MaxGeneration : takeovers[g].lease \in Lease
    BY Zenon DEF Fences, FenceShape
  <1>2. ASSUME UNCHANGED assignments, \A a \in Attempts : ~RequestCommitPermit(a)
        PROVE  Rows'
    BY <1>0, <1>2, RowsKept, Zenon
  <1>3. ASSUME NEW a \in Attempts, RequestCommitPermit(a)
        PROVE  Rows'
    <2>1. CASE UNCHANGED <<permit, assignments>>
      BY <1>0, <2>1, Zenon DEF Rows, Outstanding
    <2>2. ASSUME NEW l \in {NoLease, Binding}, NEW plan, NEW mapped, NEW sealed,
                 IssuePermit(a, l, plan, mapped, sealed), Verdict(a) = "Issued"
          PROVE  Rows'
      <3>1. /\ permit'[a].gen = registry'.gen /\ permit'[a].lease = l
            /\ registry'.gen = FreezeForPermit.gen /\ registry'.gen \in Nat
            /\ \A b \in Attempts \ {a} : ~Outstanding(b)'
        BY <2>2, PermitIssued, Zenon
      <3>2. assignments' \in EnsureActive(assignments, l, registry'.gen) /\ l \in Lease
        BY <1>0, <2>2, <3>1, Zenon DEF IssuePermit
      <3>3. /\ assignments' \in Seq(Row) /\ Single(assignments')
            /\ l # NoLease => Holds(assignments', l, registry'.gen)
        BY <1>0, <3>1, <3>2, RowEnsured, Zenon
      <3> QED  BY <3>1, <3>3, Zenon DEF Rows
    <2> QED  BY <1>3, <2>1, <2>2, Zenon DEF RequestCommitPermit, termVars
  <1>4. ASSUME NEW i \in DOMAIN assignments, Live(assignments[i]), NEW l \in Lease, NEW g \in Nat,
               assignments' \in InsertRow(Marked(assignments, i, "Fenced"), l, g),
               \A a \in Attempts : ~RequestCommitPermit(a)
        PROVE  Rows'
    <2>1. /\ assignments' \in Seq(Row) /\ Single(assignments')
          /\ \A m, h : Holds(assignments, m, h) => Holds(assignments', m, h)
      BY <1>0, <1>4, RowRotated, Zenon
    <2> QED  BY <1>4, <2>1, RowsKept, Zenon
  <1>5. ASSUME NEW i \in DOMAIN assignments, Live(assignments[i]),
               NEW s \in {"TakeoverPending", "Retired"}, assignments' = Marked(assignments, i, s),
               \A a \in Attempts : ~RequestCommitPermit(a)
        PROVE  Rows'
    <2>1. /\ assignments' \in Seq(Row) /\ Single(assignments')
          /\ \A m, h : Holds(assignments, m, h) => Holds(assignments', m, h)
      BY <1>0, <1>5, RowDemoted, Zenon
    <2> QED  BY <1>5, <2>1, RowsKept, Zenon
  <1>6. ASSUME assignments # <<>>
        PROVE  Len(assignments) \in DOMAIN assignments
    BY <1>0, <1>6, EmptySeq
  <1>7. CASE \E a \in Attempts : RequestCommitPermit(a)
    BY <1>3, <1>7, Zenon
  <1>8. CASE \A a \in Attempts : ~RequestCommitPermit(a)
    <2>1. ASSUME NEW a \in Attempts, ClosePermit(a)
          PROVE  Rows'
      <3>1. \/ UNCHANGED assignments
            \/ /\ assignments # <<>> /\ Current(assignments).state = "Active"
               /\ assignments' \in InsertRow(Marked(assignments, Len(assignments), "Fenced"),
                                             Current(assignments).lease, registry.gen + 1)
        BY <2>1, Zenon DEF ClosePermit, ReopenAfterClosure, Reopened
      <3>2. CASE /\ assignments # <<>> /\ Current(assignments).state = "Active"
                 /\ assignments' \in InsertRow(Marked(assignments, Len(assignments), "Fenced"),
                                               Current(assignments).lease, registry.gen + 1)
        <4>1. /\ Len(assignments) \in DOMAIN assignments
              /\ Live(assignments[Len(assignments)])
              /\ Current(assignments) = assignments[Len(assignments)]
          BY <1>6, <3>2, Zenon DEF Current, Live
        <4>2. Current(assignments).lease \in Lease
          <5>1. assignments[Len(assignments)] \in Row
            BY <1>0, <4>1, ElementOfSeq, Zenon
          <5> QED  BY <4>1, <5>1, Zenon DEF Row
        <4> QED  BY <1>0, <1>4, <1>8, <3>2, <4>1, <4>2, Zenon
      <3> QED  BY <1>2, <1>8, <3>1, <3>2, Zenon
    <2>2. ASSUME NEW p \in Participants, AdmitParticipantOperation(p)
          PROVE  Rows'
      <3>1. /\ registry.state = "Open"
            /\ registry'.gen \in {registry.gen, registry.gen + 1}
            /\ assignments' \in EnsureActive(assignments, Binding, registry'.gen)
        BY <1>0, <2>2, Zenon DEF AdmitParticipantOperation, Joined, RegistryShape
      <3>2. registry'.gen \in Nat
        BY <1>0, <3>1, Zenon
      <3>3. /\ assignments' \in Seq(Row) /\ Single(assignments')
            /\ \A m, h : h # registry'.gen /\ Holds(assignments, m, h) => Holds(assignments', m, h)
        BY <1>0, <3>1, <3>2, RowEnsured, Zenon
      <3>4. ASSUME NEW a \in Attempts, Outstanding(a)
            PROVE  permit[a].gen # registry'.gen
        <4>1. permit[a].gen # registry.gen /\ permit[a].gen <= registry.gen
          BY <3>1, <3>4, Zenon DEF IInv, Owns, OutstandingOwnsTask
        <4>2. permit[a].gen \in Nat
          BY DEF IInv, Shape, PermitShape
        <4>3. registry.gen \in Nat /\ registry'.gen \in {registry.gen, registry.gen + 1}
          BY <1>0, <3>1, Zenon
        <4> QED  BY <4>1, <4>2, <4>3
      <3> QED  BY <1>8, <3>3, <3>4, RowsKept, Zenon
    <2>3. CASE PrepareTakeoverFence
      <3>1. \/ UNCHANGED assignments
            \/ /\ assignments # <<>> /\ assignments[Len(assignments)].state = "Active"
               /\ assignments' = Marked(assignments, Len(assignments), "TakeoverPending")
        BY <2>3, Zenon DEF PrepareTakeoverFence, Current
      <3> QED  BY <1>2, <1>5, <1>6, <1>8, <3>1, Zenon DEF Live
    <2>4. PICK g \in 1..MaxGeneration : g = registry.gen
      BY <1>0, Zenon DEF RegistryShape
    <2>5. CASE CompleteTakeover
      <3>1. PICK i \in DOMAIN assignments :
                /\ assignments[i].state = "TakeoverPending"
                /\ assignments' \in InsertRow(Marked(assignments, i, "Fenced"), takeovers[g].lease, g)
        BY <2>4, <2>5, Zenon DEF CompleteTakeover, RowOf
      <3> QED  BY <1>1, <1>4, <1>8, <3>1 DEF Live
    <2>6. CASE ReopenSuccessorRegistry
      <3>1. PICK i \in DOMAIN assignments :
                /\ assignments[i].state = "Active"
                /\ assignments' \in
                       InsertRow(Marked(assignments, i, "Fenced"), takeovers[g].lease, g + 1)
        BY <2>4, <2>6, Zenon DEF ReopenSuccessorRegistry, RowOf
      <3>2. g + 1 \in Nat
        OBVIOUS
      <3> QED  BY <1>1, <1>4, <1>8, <3>1, <3>2, Zenon DEF Live
    <2>7. CASE RetireAssignment
      <3>1. PICK i \in DOMAIN assignments :
                Live(assignments[i]) /\ assignments' = Marked(assignments, i, "Retired")
        BY <2>7, Zenon DEF RetireAssignment, Live
      <3> QED  BY <1>5, <1>8, <3>1, Zenon
    <2>8. CASE UNCHANGED termVars
      BY <1>2, <1>8, <2>8, Zenon DEF termVars
    <2>9. CASE \/ \E p \in Participants : RegisterParticipant(p) \/ RecordBarrier(p)
               \/ AcquireLease \/ ExpireLease
      BY <1>2, <1>8, <2>9, Zenon DEF RegisterParticipant, RecordBarrier, AcquireLease, ExpireLease
    <2>10. ASSUME NEW a \in Attempts,
                  \/ RegisterAttempt(a) \/ FinalizeCommit(a) \/ QuarantinePermit(a)
                  \/ \E proved \in SUBSET Required : FinalizeCommitV3(a, proved)
                  \/ AdoptPermit(a)
           PROVE  Rows'
      BY <2>8, <2>10, Zenon DEF RegisterAttempt, FinalizeCommit, QuarantinePermit, AdoptPermit,
                         FinalizeCommitV3
    <2>11. ASSUME NEW a \in Attempts, NEW e \in Effects,
                  \/ RequestEffectPermit(a, e) \/ ConsumeDispatchToken(a, e) \/ Perform(a, e)
                  \/ RecordEffectOutcome(a, e) \/ RecordNoEffect(a, e)
                  \/ ReconcileLateOutcome(a, e) \/ ReconcileEffect(a, e)
           PROVE  Rows'
      BY <2>8, <2>11, Zenon DEF RequestEffectPermit, ConsumeDispatchToken, Perform, RecordEffectOutcome,
                         RecordNoEffect, ReconcileLateOutcome, ReconcileEffect
    <2>12. CASE CancelTask \/ UNCHANGED vars
      BY <2>8, <2>12, Zenon DEF CancelTask, vars
    <2> QED  BY <1>8, <2>1, <2>2, <2>3, <2>5, <2>6, <2>7, <2>9, <2>10, <2>11, <2>12, Zenon DEF Next
  <1> QED  BY <1>7, <1>8, Zenon

\* No takeover and no row exist before the first lease.
LEMMA InitTerms ==
    ASSUME Init
    PROVE  Fences /\ Rows
  <1>1. Fences
    BY Zenon DEF Init, Fences, FenceShape, NoTakeover, NoLease, Lease
  <1>2. assignments \in Seq(Row) /\ DOMAIN assignments = {}
    <2>1. assignments = << >>
      BY Zenon DEF Init
    <2>2. << >> \in Seq(Row) /\ DOMAIN << >> = {}
      OBVIOUS
    <2> QED  BY <2>1, <2>2, Zenon
  <1>3. \A a \in Attempts : ~Outstanding(a)
    BY Zenon DEF Init, NoPermit, Outstanding
  <1> QED  BY <1>1, <1>2, <1>3, Zenon DEF Rows, Single

\* A task never has two permits outstanding; while one is, the head it saw
\* stands and the generation it froze is left only by a completed takeover.
THEOREM OwnershipHolds == Spec => []OutstandingOwnsTask
  <1>1. IInv => OutstandingOwnsTask
    BY Zenon DEF IInv, Owns
  <1> QED  BY <1>1, InitIInv, StepIInv, PTL DEF Spec

\* No logical effect is carried out twice, whichever attempts planned it and
\* however their permits were quarantined, adopted, taken over or ended.
THEOREM EffectsOnce == Spec => []PerformedOnce
  <1>1. IInv => PerformedOnce
    BY Zenon DEF IInv
  <1> QED  BY <1>1, InitIInv, StepIInv, PTL DEF Spec

\* Once cancel_task has run, no permit is issued and no effect is minted or
\* dispatched, whatever permit is still outstanding.
THEOREM CancellationHolds == Spec => CancelFreezes
  <1>1. Init => CancelSettled
    <2>1. Init => task.cancel = 0
      BY DEF Init
    <2>2. Init => \A a \in Attempts : permit[a] = NoPermit
      BY Zenon DEF Init
    <2>3. NoPermit.cancel = 0
      BY Zenon DEF NoPermit
    <2> QED  BY <2>1, <2>2, <2>3 DEF CancelSettled
  <1>2. CancelSettled /\ UNCHANGED vars => CancelSettled'
    BY Zenon DEF CancelSettled, vars, taskVars
  <1>3. IInv /\ CancelSettled /\ [Next]_vars => CancelSettled' /\ [FrozenStep]_vars
    BY <1>2, PermitsUnderCancel, Zenon
  <1> QED  BY <1>1, <1>3, InitIInv, StepIInv, PTL DEF Spec, CancelFreezes

\* The receipt that ended a permit tells the truth about its effects: closed
\* slots are exactly those carried out, a "before effect" receipt has none, and
\* a partial one has some and has raised the retry fence.
THEOREM ReceiptsHold == Spec => []ReceiptsTellTheTruth
  <1>1. Init => Truth
    <2> SUFFICES ASSUME Init
                 PROVE  Truth
      BY Zenon
    <2>1. \A a \in Attempts : permit[a].state # "Closed" /\ permit[a].fence = 0
      BY Zenon DEF Init, NoPermit
    <2>2. task.fence = 0 /\ \A a \in Attempts : attempt[a].fence = 0
      BY Zenon DEF Init
    <2>3. receipt = [a \in Attempts |-> receipt[a]]
      BY Zenon DEF Init
    <2>4. \A a \in Attempts, e \in Effects : slots[a][e] # "EffectClosed"
      BY Zenon DEF Init
    <2> QED  BY <2>1, <2>2, <2>3, <2>4 DEF Truth, TruthOf
  <1>2. Truth => ReceiptsTellTheTruth
    BY Zenon DEF Truth, TruthOf, ReceiptsTellTheTruth
  <1> QED  BY <1>1, <1>2, InitIInv, StepIInv, StepTruth, PTL DEF Spec

\* Whatever permits, closures, admissions, takeovers and retirements do to the
\* assignment table, at most one row is in force, and the row that admitted
\* the outstanding permit is there for its adoption.
THEOREM AssignmentsHold == Spec => []AssignmentsAgree
  <1>1. IInv /\ Rows => AssignmentsAgree
    <2> SUFFICES ASSUME IInv, Rows PROVE AssignmentsAgree
      BY Zenon
    <2>1. \A i, j \in DOMAIN assignments :
              {assignments[i].state, assignments[j].state} \subseteq {"Active", "TakeoverPending"}
                  => i = j
      BY Zenon DEF Rows, Single, Live
    <2>2. ASSUME NEW a \in Attempts, Outstanding(a), permit[a].lease # NoLease
          PROVE  \E i \in RowOf(assignments, permit[a].lease.term, permit[a].gen) :
                     assignments[i].lease = permit[a].lease
      BY <2>2, Zenon DEF Rows, Holds, RowOf
    <2> QED  BY <2>1, <2>2, Zenon DEF AssignmentsAgree
  <1>2. Init => IInv /\ Fences /\ Rows
    BY InitIInv, InitTerms, Zenon
  <1>3. IInv /\ Fences /\ Rows /\ [Next]_vars => IInv' /\ Fences' /\ Rows'
    BY StepIInv, FencesStep, RowsStep, Zenon
  <1> QED  BY <1>1, <1>2, <1>3, PTL DEF Spec

\* A completed takeover has silenced every endpoint that the write set of the
\* fenced term's permit names, so no effect mapped to one follows it.  (An
\* effect whose endpoint the write set leaves out may still follow: the fence
\* does not ask that endpoint.)
THEOREM TakeoverQuiets == Spec => QuietAfterTakeover
  <1>1. Init => IInv /\ Fences
    BY InitIInv, InitTerms, Zenon
  <1>2. IInv /\ Fences /\ [Next]_vars => IInv' /\ Fences'
    BY StepIInv, FencesStep, Zenon
  <1>3. IInv /\ Fences /\ [Next]_vars =>
            [\A x \in performed' \ performed :
                 permit[x[1]].lease # NoLease /\ x[2] \in permit[x[1]].mapped =>
                     takeovers[permit[x[1]].gen].state # "Complete"]_vars
    BY QuietStep, Zenon
  <1> QED  BY <1>1, <1>2, <1>3, PTL DEF Spec, QuietAfterTakeover
=============================================================================
