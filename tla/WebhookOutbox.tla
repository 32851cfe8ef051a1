--------------------------- MODULE WebhookOutbox ---------------------------
(***************************************************************************)
(* Webhooks of one repository: the hooks an administrator keeps, and the   *)
(* outbox of deliveries that requests fill and that requests and the cron  *)
(* trigger drain.  A delivery is a row of D1 and a payload in R2.  An       *)
(* invocation claims the row under a token with a lease, sends the payload  *)
(* and writes what came back.  Times are kept as what is left of them:      *)
(* `due` and `lease` count down to 0, which is "at or before now".          *)
(***************************************************************************)
EXTENDS Integers, FiniteSets, FiniteSetsExt

CONSTANTS
    Hooks,           \* ids of hooks
    Ids,             \* ids of deliveries; an id is never used twice
    Workers,         \* invocations of the worker: requests and cron triggers
    None, Gone,      \* not there yet; deleted
    ContentTypes,    \* application/json and application/x-www-form-urlencoded
    EventSets,       \* what administrators subscribe their hooks to
    MaxAttempts,     \* MAX_DELIVERY_ATTEMPTS
    Lease,           \* DELIVERY_LEASE_MS
    RetryBase,       \* first pause before a retry
    RetryCap,        \* longest pause before a retry
    AttemptLimit,    \* longest time from a claim to its last write
    MaxCrashes,      \* bound: invocations that die
    DieInLast,       \* an invocation may also die in the last attempt of a delivery
    RedeliverSpent   \* administrators also redeliver what has no attempts left

ASSUME OutboxAssumption ==
    /\ {MaxAttempts, Lease, RetryBase, RetryCap} \subseteq Nat \ {0}
    /\ {AttemptLimit, MaxCrashes} \subseteq Nat
    /\ {DieInLast, RedeliverSpent} \subseteq BOOLEAN
    /\ None # Gone

VARIABLES
    hooks,     \* webhooks
    rows,      \* webhook_deliveries
    local,     \* what an invocation holds in memory
    sends,     \* ghost: requests made to the receiver, per delivery
    crashes    \* ghost: invocations that have died

vars == <<hooks, rows, local, sends, crashes>>

-----------------------------------------------------------------------------
\* Events of the features, and the names hooks subscribe to.

IssueEvents == {"issue.opened", "issue.closed", "issue.commented", "issue.comment_edited"}
PullEvents == {"pull_request.merged", "pull_request.review.submitted", "push"}
ForkEvents == {"fork.created", "fork.synced"}
ReleaseEvents == {"release.published"}

IssueWebhookEvent(type) ==
    IF type \in {"issue.commented", "issue.comment_edited"} THEN "issue_comment" ELSE "issues"

PullWebhookEvent(type) ==
    CASE type = "push" -> "push"
      [] type = "pull_request.review.submitted" -> "pull_request_review"
      [] OTHER -> "pull_request"

ForkWebhookEvent(type) == IF type = "fork.synced" THEN "push" ELSE "fork"

\* What the sinks of the event bridge make of an event of a feature.
BridgedEvent(type) ==
    CASE type \in IssueEvents -> IssueWebhookEvent(type)
      [] type \in PullEvents -> PullWebhookEvent(type)
      [] type \in ForkEvents -> ForkWebhookEvent(type)
      [] type \in ReleaseEvents -> "release"

Subscribes(events, event) == "*" \in events \/ event \in events

-----------------------------------------------------------------------------
NoTime == -1

Lower(a, b) == IF a < b THEN a ELSE b

\* The pause after a failed attempt, NoTime when it was the last.
NextRetryDelay(attempt) ==
    IF attempt >= MaxAttempts THEN NoTime
    ELSE Lower(RetryBase * 2 ^ (attempt - 1), RetryCap)

HookRow == [events : EventSets, active : BOOLEAN, type : ContentTypes]

\* `attempt` counts claims; `type` is how the payload in R2 was encoded; `due` is
\* NoTime or what is left.
Row == [hook : Hooks, status : {"pending", "success", "failed"}, attempt : 0..MaxAttempts,
        due : Int, claim : Workers \cup {None}, lease : Nat,
        type : ContentTypes, stored : BOOLEAN]

ASSUME NamesAssumption ==
    /\ None \notin Workers
    /\ None \notin Row /\ Gone \notin Row
    /\ None \notin HookRow /\ Gone \notin HookRow

\* A hook to deliver to, as it was when it was read; `attempt` and `type` of the new row.
Target == [hook : Hooks, attempt : 0..MaxAttempts, type : ContentTypes]

Pcs == {"idle", "working", "claimed", "sending", "sent"}

\* `targets`: deliveries still to be committed; `batch`: rows still to be tried;
\* `attempt`: the row's count as this invocation read it; `age`: since its claim.
Local == [pc : Pcs, targets : SUBSET Target, batch : SUBSET Ids, cur : Ids \cup {None},
          attempt : 0..MaxAttempts, age : Nat, result : {"none", "ok", "failed", "permanent"}]

Idle == [pc |-> "idle", targets |-> {}, batch |-> {}, cur |-> None,
         attempt |-> 0, age |-> 0, result |-> "none"]

Present(i) == rows[i] \notin {None, Gone}

TypeOK ==
    /\ hooks \in [Hooks -> HookRow \cup {None, Gone}]
    /\ rows \in [Ids -> Row \cup {None, Gone}]
    /\ \A i \in Ids : Present(i) => rows[i].due >= NoTime
    /\ local \in [Workers -> Local]
    /\ sends \in [Ids -> Nat]
    /\ crashes \in 0..MaxCrashes

Init ==
    /\ hooks = [h \in Hooks |-> None]
    /\ rows = [i \in Ids |-> None]
    /\ local = [w \in Workers |-> Idle]
    /\ sends = [i \in Ids |-> 0]
    /\ crashes = 0

\* The invocation's memory when nothing of its work is left.
Rest(l) == IF l.targets = {} /\ l.batch = {} THEN Idle ELSE l

-----------------------------------------------------------------------------
\* Administration.  Refused bodies change nothing.

CreateHook(h, events, active, type) ==
    /\ hooks[h] = None
    /\ events # {}
    /\ hooks' = [hooks EXCEPT ![h] = [events |-> events, active |-> active, type |-> type]]
    /\ UNCHANGED <<rows, local, sends, crashes>>

PatchHook(h, events, active, type) ==
    /\ hooks[h] \notin {None, Gone}
    /\ events # {}
    /\ hooks' = [hooks EXCEPT ![h] = [events |-> events, active |-> active, type |-> type]]
    /\ UNCHANGED <<rows, local, sends, crashes>>

\* The rows of its deliveries go with the hook (ON DELETE CASCADE).
DeleteHook(h) ==
    /\ hooks[h] \notin {None, Gone}
    /\ hooks' = [hooks EXCEPT ![h] = Gone]
    /\ rows' = [i \in Ids |-> IF Present(i) /\ rows[i].hook = h THEN Gone ELSE rows[i]]
    /\ UNCHANGED <<local, sends, crashes>>

-----------------------------------------------------------------------------
\* Committing deliveries.

\* Bound: there are ids for what is to be committed.
IdsLeft(n) ==
    n + MapThenSumSet(LAMBDA w : Cardinality(local[w].targets), Workers)
        <= Cardinality({i \in Ids : rows[i] = None})

Begin(w, targets, batch) ==
    /\ local[w].pc = "idle"
    /\ targets # {} \/ batch # {}
    /\ IdsLeft(Cardinality(targets))
    /\ local' = [local EXCEPT ![w] = [Idle EXCEPT !.pc = "working", !.targets = targets, !.batch = batch]]
    /\ UNCHANGED <<hooks, rows, sends, crashes>>

FirstAttempt(h) == [hook |-> h, attempt |-> 0, type |-> hooks[h].type]

\* An event of a feature is fanned out to the hooks that are active now.
Dispatch(w, type) ==
    Begin(w, {FirstAttempt(h) : h \in {g \in Hooks :
                /\ hooks[g] \notin {None, Gone}
                /\ hooks[g].active
                /\ Subscribes(hooks[g].events, BridgedEvent(type))}}, {})

\* A ping goes to its hook, active or not.
Ping(w, h) == hooks[h] \notin {None, Gone} /\ Begin(w, {FirstAttempt(h)}, {})

\* A new delivery that counts on from the one it repeats, with that one's payload.
Redeliver(w, i) ==
    /\ Present(i)
    /\ RedeliverSpent \/ rows[i].attempt < MaxAttempts
    /\ Begin(w, {[hook |-> rows[i].hook, attempt |-> rows[i].attempt,
                  type |-> IF rows[i].stored THEN rows[i].type ELSE hooks[rows[i].hook].type]}, {})

NewRow(t, stored) ==
    [hook |-> t.hook, status |-> IF stored THEN "pending" ELSE "failed",
     attempt |-> IF stored THEN t.attempt ELSE MaxAttempts,
     due |-> IF stored THEN 0 ELSE NoTime,
     claim |-> None, lease |-> 0, type |-> t.type, stored |-> stored]

\* The payload is put first; without it the row records a failure that is final.
CommitIntent(w, t, i, stored) ==
    /\ local[w].pc = "working" /\ local[w].batch = {} /\ t \in local[w].targets
    /\ rows[i] = None
    /\ hooks[t.hook] # Gone
    /\ rows' = [rows EXCEPT ![i] = NewRow(t, stored)]
    /\ LET l == local[w]
       IN  local' = [local EXCEPT ![w] = Rest([l EXCEPT !.targets = l.targets \ {t},
                                                        !.batch = IF stored THEN {i} ELSE {}])]
    /\ UNCHANGED <<hooks, sends, crashes>>

\* The hook was deleted meanwhile: the INSERT throws, and the rest of the event is lost.
CommitRefused(w, t) ==
    /\ local[w].pc = "working" /\ local[w].batch = {} /\ t \in local[w].targets
    /\ hooks[t.hook] = Gone
    /\ local' = [local EXCEPT ![w] = Idle]
    /\ UNCHANGED <<hooks, rows, sends, crashes>>

-----------------------------------------------------------------------------
\* Attempts.

\* Mutant: the lease is not looked at.
DueWhateverLease(i) ==
    /\ Present(i)
    /\ rows[i].status \in {"pending", "failed"}
    /\ rows[i].attempt < MaxAttempts
    /\ rows[i].due = 0

\* Mutant: only rows nobody has claimed are due, also when the claimant died.
DueUnclaimed(i) ==
    /\ Present(i)
    /\ rows[i].status \in {"pending", "failed"}
    /\ rows[i].attempt < MaxAttempts
    /\ rows[i].due = 0
    /\ rows[i].claim = None

Due(i) ==
    /\ Present(i)
    /\ rows[i].status \in {"pending", "failed"}
    /\ rows[i].attempt < MaxAttempts
    /\ rows[i].due = 0
    /\ rows[i].claim = None \/ rows[i].lease = 0

\* A drain takes the rows that are due; each is claimed on its own later.
Drain(w) == Begin(w, {}, {i \in Ids : Due(i)})

\* One UPDATE: the row is taken if it is still due, else it is left to who has it.
Claim(w, i) ==
    /\ local[w].pc = "working" /\ i \in local[w].batch
    /\ IF Due(i)
       THEN /\ rows' = [rows EXCEPT ![i].claim = w, ![i].lease = Lease, ![i].attempt = @ + 1]
            /\ local' = [local EXCEPT ![w].pc = "claimed", ![w].cur = i, ![w].age = 0,
                                      ![w].batch = @ \ {i}, ![w].attempt = rows[i].attempt + 1]
       ELSE /\ LET l == local[w]
               IN  local' = [local EXCEPT ![w] = Rest([l EXCEPT !.batch = l.batch \ {i}])]
            /\ UNCHANGED rows
    /\ UNCHANGED <<hooks, sends, crashes>>

\* Hook and payload are read: without one of them the delivery has failed for good;
\* a secret that does not open under the key of today fails this attempt only.
Prepare(w, signs) ==
    LET i == local[w].cur
        lost == ~Present(i) \/ ~rows[i].stored
    IN  /\ local[w].pc = "claimed"
        /\ local' = [local EXCEPT ![w].pc = IF ~lost /\ signs THEN "sending" ELSE "sent",
                                  ![w].result = IF lost THEN "permanent" ELSE IF signs THEN "none" ELSE "failed"]
        /\ UNCHANGED <<hooks, rows, sends, crashes>>

\* The receiver answers 2xx, or anything else, or not in time.
Send(w, result) ==
    /\ local[w].pc = "sending"
    /\ sends' = [sends EXCEPT ![local[w].cur] = @ + 1]
    /\ local' = [local EXCEPT ![w].pc = "sent", ![w].result = result]
    /\ UNCHANGED <<hooks, rows, crashes>>

RetryAfter(l) == IF l.result = "failed" THEN NextRetryDelay(l.attempt) ELSE NoTime

\* Written by id, whoever has the claim now.
FinishAttempt(w) ==
    LET l == local[w] IN
    /\ l.pc = "sent"
    /\ rows' = IF ~Present(l.cur) THEN rows
               ELSE [rows EXCEPT ![l.cur].status = IF l.result = "ok" THEN "success" ELSE "failed",
                                 ![l.cur].claim = None, ![l.cur].lease = 0,
                                 ![l.cur].due = RetryAfter(l)]
    /\ local' = [local EXCEPT ![w] = Rest([l EXCEPT !.pc = "working", !.cur = None, !.attempt = 0,
                                                    !.age = 0, !.result = "none"])]
    /\ UNCHANGED <<hooks, sends, crashes>>

-----------------------------------------------------------------------------
\* The world outside.

InAttempt(w) == local[w].pc \in {"claimed", "sending", "sent"}

Elapse(t) == IF t > 0 THEN t - 1 ELSE t

\* Time passes when somebody waits for it, and never past an attempt's limit.
Tick ==
    /\ \A w \in Workers : InAttempt(w) => local[w].age < AttemptLimit
    /\ \E i \in Ids : Present(i) /\ (rows[i].due > 0 \/ rows[i].lease > 0)
    /\ rows' = [i \in Ids |-> IF Present(i)
                              THEN [rows[i] EXCEPT !.due = Elapse(@), !.lease = Elapse(@)]
                              ELSE rows[i]]
    /\ local' = [w \in Workers |-> IF InAttempt(w) THEN [local[w] EXCEPT !.age = @ + 1] ELSE local[w]]
    /\ UNCHANGED <<hooks, sends, crashes>>

\* The invocation is gone with all it held.
Crash(w) ==
    /\ crashes < MaxCrashes
    /\ local[w].pc # "idle"
    /\ DieInLast \/ local[w].attempt < MaxAttempts
    /\ local' = [local EXCEPT ![w] = Idle]
    /\ crashes' = crashes + 1
    /\ UNCHANGED <<hooks, rows, sends>>

-----------------------------------------------------------------------------
Administer ==
    \E h \in Hooks :
        \/ \E events \in EventSets, active \in BOOLEAN, type \in ContentTypes :
              CreateHook(h, events, active, type) \/ PatchHook(h, events, active, type)
        \/ DeleteHook(h)

Request(w) ==
    \/ \E type \in IssueEvents \cup PullEvents \cup ForkEvents \cup ReleaseEvents : Dispatch(w, type)
    \/ \E h \in Hooks : Ping(w, h)
    \/ \E i \in Ids : Redeliver(w, i)

\* Invocations that have begun.
Proceed(w) ==
    \/ \E t \in local[w].targets : CommitRefused(w, t)
    \/ \E t \in local[w].targets, i \in Ids, stored \in BOOLEAN : CommitIntent(w, t, i, stored)
    \/ \E i \in local[w].batch : Claim(w, i)
    \/ \E signs \in BOOLEAN : Prepare(w, signs)
    \/ \E result \in {"ok", "failed"} : Send(w, result)
    \/ FinishAttempt(w)

Next ==
    \/ Administer
    \/ \E w \in Workers : Request(w) \/ Drain(w) \/ Proceed(w) \/ Crash(w)
    \/ Tick

Spec == Init /\ [][Next]_vars

\* The cron trigger drains again and again, invocations go on, and time passes.
FairSpec ==
    /\ Spec
    /\ WF_vars(Tick)
    /\ \A w \in Workers : WF_vars(Proceed(w)) /\ WF_vars(Drain(w))

-----------------------------------------------------------------------------
\* A delivery that reached its receiver is not put back among the failed or due
\* ones by an invocation that tried the same delivery (deliverExisting's lease).
SuccessIsFinal ==
    [][\A i \in Ids : Present(i) /\ rows[i].status = "success" =>
          rows'[i] = Gone \/ rows'[i].status = "success"]_vars

Settled(i) ==
    \/ rows[i] = Gone
    \/ Present(i) /\ rows[i].status = "success"
    \/ Present(i) /\ rows[i].status = "failed" /\ (rows[i].due = NoTime \/ rows[i].attempt = MaxAttempts)

\* Every delivery that is committed ends: sent, or failed with nothing left to try,
\* also when invocations die in the middle of attempts (not kept if one dies in
\* the last attempt of a delivery: its row stays pending and is not selected again).
DeliveriesSettle == \A i \in Ids : (rows[i] # None) ~> Settled(i)

\* A payload is sent under the content type it was encoded for.  The type is read
\* again at each attempt, the payload is not encoded again: not kept by the code
\* when the hook's type is changed between two attempts.
BodyMatchesHeader ==
    [][\A w \in Workers, i \in Ids :
          local[w].cur = i /\ sends'[i] # sends[i] /\ Present(i) => rows[i].type = hooks[rows[i].hook].type]_vars

=============================================================================
