---------------------------- MODULE WaitRegistry ----------------------------
(***************************************************************************)
(* The Wait authority (nlos-wait): the durable rows "wake me when the      *)
(* Channel has committed sequence T", the notifications that flip them and *)
(* the cancellations.  Every method reads the Channel first, which never   *)
(* goes away once created, and then runs one Immediate transaction, so     *)
(* every operation is one step.                                            *)
(*                                                                         *)
(* A WaitId is derived from the binding, the target and the register key,  *)
(* and a key answers for one triple only, so the key stands for the id.    *)
(* Timestamps and the Channel fence snapshot of a row are left out:        *)
(* nothing reads them back.                                                *)
(***************************************************************************)
EXTENDS ChannelQueue

CONSTANTS
  WaitIds,      \* register keys, and the waits they identify
  NotifyKeys    \* idempotency keys of the notifiers

\* The keys notify_commits may be called under: those of the notifiers, and
\* the domain-reserved key of each wait.
SelfNotifyKey(w) == <<"self", w>>
ReceiptKeys == NotifyKeys \cup {SelfNotifyKey(w) : w \in WaitIds}

ASSUME ReservedKeyAssumption == \A w \in WaitIds : SelfNotifyKey(w) \notin NotifyKeys

VARIABLES
  rows,       \* the wait rows, by wait; NoRow before registration
  receipts    \* the notify receipts, by key

rowVars == <<rows, receipts>>

NoRow == [state |-> "none", fiber |-> "none", target |-> 0, upTo |-> 0]

WaitInit ==
  /\ rows = [w \in WaitIds |-> NoRow]
  /\ receipts = [k \in {} |-> {}]

\* The rows list_waits returns, and those still waiting.
Listed == {w \in WaitIds : rows[w].state # "none"}
PendingRows == {w \in WaitIds : rows[w].state = "pending"}

\* channel_high_water.
HighWater == MaxWritten

(***************************************************************************)
(* Faulty variants; no action uses them.                                   *)
(***************************************************************************)
\* Every row up to the sequence is flipped, cancelled and woken ones too.
SelectAll(upTo) == {w \in Listed : rows[w].target <= upTo}

-----------------------------------------------------------------------------
(* register_wait.                                                          *)
RegisterVerdict(w, fiber, target) ==
  CASE rows[w].state = "none" -> "registered"
    [] rows[w].state # "none" /\ rows[w].fiber = fiber /\ rows[w].target = target -> "replayed"
    [] OTHER -> "conflict"

RegisterWait(w, fiber, target) ==
  /\ rows' = IF RegisterVerdict(w, fiber, target) = "registered"
             THEN [rows EXCEPT ![w] = [state |-> "pending", fiber |-> fiber,
                                       target |-> target, upTo |-> 0]]
             ELSE rows
  /\ UNCHANGED receipts

-----------------------------------------------------------------------------
(* notify_commits: flips what is pending up to the sequence, under a key   *)
(* whose replay answers with what it flipped.  Nothing relates the         *)
(* sequence to the Channel; that is left to the callers.                   *)
SelectPending(upTo) == {w \in PendingRows : rows[w].target <= upTo}

NotifyVerdict(key, upTo) ==
  CASE key \notin DOMAIN receipts -> "notified"
    [] key \in DOMAIN receipts /\ receipts[key].upTo = upTo -> "replayed"
    [] OTHER -> "conflict"

\* The WakeReport handed back.
Report(key, upTo) ==
  IF key \in DOMAIN receipts THEN receipts[key].woken ELSE SelectPending(upTo)

NotifyCommits(key, upTo) ==
  IF NotifyVerdict(key, upTo) = "notified"
  THEN /\ rows' = [w \in WaitIds |->
                     IF w \in SelectPending(upTo)
                     THEN [rows[w] EXCEPT !.state = "woken", !.upTo = upTo] ELSE rows[w]]
       /\ receipts' = [k \in DOMAIN receipts \cup {key} |->
                         IF k = key THEN [upTo |-> upTo, woken |-> SelectPending(upTo)]
                         ELSE receipts[k]]
  ELSE UNCHANGED rowVars

-----------------------------------------------------------------------------
(* cancel_wait: only a pending row; a replay under the same key answers    *)
(* with the cancelled row and writes nothing.                              *)
Cancellable(w) == rows[w].state = "pending"

CancelWait(w) ==
  /\ Cancellable(w)
  /\ rows' = [rows EXCEPT ![w].state = "cancelled"]
  /\ UNCHANGED receipts

-----------------------------------------------------------------------------
\* Every wake is accounted for once: a wait is WOKEN exactly when one receipt
\* lists it, at the sequence of that receipt and at or above its target.  So a
\* replayed notification reports rows that are all still WOKEN, which deliver
\* (channel_wait.rs) relies on, and no cancelled row was ever woken.
WakesAccounted ==
  /\ \A k \in DOMAIN receipts : \A w \in receipts[k].woken :
       rows[w].state = "woken" /\ rows[w].upTo = receipts[k].upTo
  /\ \A w \in WaitIds : rows[w].state = "woken" =>
       /\ rows[w].upTo >= rows[w].target
       /\ Cardinality({k \in DOMAIN receipts : w \in receipts[k].woken}) = 1

=============================================================================
