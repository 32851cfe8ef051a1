------------------------ MODULE WebhookOutboxProofs ------------------------
(***************************************************************************)
(* A webhook that reached its receiver stays so, for any number of hooks,    *)
(* deliveries, invocations, attempts and crashes, when an attempt ends       *)
(* before its lease does.                                                    *)
(*                                                                         *)
(* FinishAttempt writes by id, whoever has the claim.  What keeps two         *)
(* invocations apart is time: an attempt that is under way has its row's      *)
(* claim, and what is left of the lease and the attempt's age make up the     *)
(* lease (Held).  As the age never reaches the lease, the row is not due, and *)
(* nobody else can claim it, end it or find it sent.                          *)
(***************************************************************************)
EXTENDS WebhookOutbox, TLAPS

\* The hooks, rows and invocations have their types.
Shaped ==
    /\ hooks \in [Hooks -> HookRow \cup {None, Gone}]
    /\ rows \in [Ids -> Row \cup {None, Gone}]
    /\ local \in [Workers -> Local]

\* A row is there as long as its hook is (ON DELETE CASCADE); what is still to be
\* committed was read from a hook that was there.
Owned ==
    /\ \A i \in Ids : Present(i) => hooks[rows[i].hook] \notin {None, Gone}
    /\ \A w \in Workers : \A t \in local[w].targets : hooks[t.hook] # None

\* An attempt has the claim of its row, and its age is what the lease has run down.
Held ==
    \A w \in Workers : InAttempt(w) =>
        /\ local[w].cur \in Ids /\ rows[local[w].cur] # None
        /\ local[w].age <= AttemptLimit
        /\ Present(local[w].cur) =>
             /\ rows[local[w].cur].claim = w
             /\ rows[local[w].cur].status # "success"
             /\ rows[local[w].cur].lease + local[w].age >= Lease

OutboxInv == Shaped /\ Owned /\ Held

LEMMA IdleIsLocal == Idle \in Local
BY OutboxAssumption DEF Idle, Local, Pcs

LEMMA RestIsLocal ==
    ASSUME NEW l \in Local
    PROVE  Rest(l) \in Local /\ Rest(l) \in {l, Idle}
BY IdleIsLocal DEF Rest

\* The pause before a retry is a number.
LEMMA RetryIsNumber ==
    ASSUME NEW l \in Local
    PROVE  RetryAfter(l) \in Int
<1>1. l.attempt \in Int /\ RetryBase \in Int /\ RetryCap \in Int
    BY OutboxAssumption DEF Local
<1>2. RetryBase * 2 ^ (l.attempt - 1) \in Int
    BY <1>1
<1> QED BY <1>1, <1>2 DEF RetryAfter, NextRetryDelay, Lower, NoTime

\* No two attempts are at one delivery that is there, and none is at one that is due.
LEMMA OneHolder ==
    ASSUME Held, NEW v \in Workers, NEW w \in Workers, InAttempt(v), InAttempt(w),
           local[v].cur = local[w].cur, Present(local[w].cur)
    PROVE  v = w
BY DEF Held

LEMMA DueIsFree ==
    ASSUME OutboxInv, AttemptLimit < Lease, NEW i \in Ids, Due(i),
           NEW w \in Workers, InAttempt(w)
    PROVE  local[w].cur # i
<1> SUFFICES ASSUME local[w].cur = i PROVE FALSE
    OBVIOUS
<1>1. rows[i].claim = w /\ rows[i].lease + local[w].age >= Lease /\ local[w].age <= AttemptLimit
    BY DEF OutboxInv, Held, Due
<1>2. local[w].age \in Nat /\ rows[i].lease \in Nat
    BY DEF OutboxInv, Shaped, Local, Row, Due, Present
<1>3. rows[i].lease # 0 /\ rows[i].claim # None
    BY <1>1, <1>2, OutboxAssumption, NamesAssumption
<1> QED BY <1>3 DEF Due

Statuses == {"pending", "success", "failed"}
Results == {"none", "ok", "failed", "permanent"}

\* What the steps make of a row is a row.
LEMMA RowUpdates ==
    ASSUME NEW r \in Row
    PROVE  /\ \A c \in Workers \cup {None}, n \in Nat, a \in 0..MaxAttempts :
                [r EXCEPT !.claim = c, !.lease = n, !.attempt = a] \in Row
           /\ \A s \in Statuses, c \in Workers \cup {None}, n \in Nat, d \in Int :
                [r EXCEPT !.status = s, !.claim = c, !.lease = n, !.due = d] \in Row
           /\ \A d \in Int, n \in Nat : [r EXCEPT !.due = d, !.lease = n] \in Row
<1>1. ASSUME NEW q \in Row
      PROVE  /\ \A c \in Workers \cup {None} : [q EXCEPT !.claim = c] \in Row
             /\ \A n \in Nat : [q EXCEPT !.lease = n] \in Row
             /\ \A a \in 0..MaxAttempts : [q EXCEPT !.attempt = a] \in Row
             /\ \A d \in Int : [q EXCEPT !.due = d] \in Row
             /\ \A s \in Statuses : [q EXCEPT !.status = s] \in Row
    BY DEF Row, Statuses
<1>2. ASSUME NEW c \in Workers \cup {None}, NEW n \in Nat, NEW a \in 0..MaxAttempts
      PROVE  [r EXCEPT !.claim = c, !.lease = n, !.attempt = a] \in Row
    <2>1. [r EXCEPT !.claim = c, !.lease = n, !.attempt = a]
            = [[[r EXCEPT !.claim = c] EXCEPT !.lease = n] EXCEPT !.attempt = a]
        OBVIOUS
    <2> QED BY <1>1, <2>1
<1>3. ASSUME NEW s \in Statuses, NEW c \in Workers \cup {None}, NEW n \in Nat, NEW d \in Int
      PROVE  [r EXCEPT !.status = s, !.claim = c, !.lease = n, !.due = d] \in Row
    <2>1. [r EXCEPT !.status = s, !.claim = c, !.lease = n, !.due = d]
            = [[[[r EXCEPT !.status = s] EXCEPT !.claim = c] EXCEPT !.lease = n] EXCEPT !.due = d]
        OBVIOUS
    <2> QED BY <1>1, <2>1
<1>4. ASSUME NEW d \in Int, NEW n \in Nat
      PROVE  [r EXCEPT !.due = d, !.lease = n] \in Row
    <2>1. [r EXCEPT !.due = d, !.lease = n] = [[r EXCEPT !.due = d] EXCEPT !.lease = n]
        OBVIOUS
    <2> QED BY <1>1, <2>1
<1> QED BY <1>2, <1>3, <1>4

\* What they make of an invocation's memory is one.
LEMMA LocalUpdates ==
    ASSUME NEW l \in Local
    PROVE  /\ \A p \in Pcs, i \in Ids, n \in Nat, b \in SUBSET Ids, a \in 0..MaxAttempts :
                [l EXCEPT !.pc = p, !.cur = i, !.age = n, !.batch = b, !.attempt = a] \in Local
           /\ \A p \in Pcs, r \in Results, a \in 0..MaxAttempts, n \in Nat :
                [l EXCEPT !.pc = p, !.cur = None, !.attempt = a, !.age = n, !.result = r] \in Local
           /\ \A p \in Pcs, r \in Results : [l EXCEPT !.pc = p, !.result = r] \in Local
           /\ \A n \in Nat : [l EXCEPT !.age = n] \in Local
<1>1. ASSUME NEW q \in Local
      PROVE  /\ \A p \in Pcs : [q EXCEPT !.pc = p] \in Local
             /\ \A i \in Ids \cup {None} : [q EXCEPT !.cur = i] \in Local
             /\ \A n \in Nat : [q EXCEPT !.age = n] \in Local
             /\ \A b \in SUBSET Ids : [q EXCEPT !.batch = b] \in Local
             /\ \A a \in 0..MaxAttempts : [q EXCEPT !.attempt = a] \in Local
             /\ \A r \in Results : [q EXCEPT !.result = r] \in Local
    BY DEF Local, Results
<1>2. ASSUME NEW p \in Pcs, NEW i \in Ids, NEW n \in Nat, NEW b \in SUBSET Ids,
             NEW a \in 0..MaxAttempts
      PROVE  [l EXCEPT !.pc = p, !.cur = i, !.age = n, !.batch = b, !.attempt = a] \in Local
    <2>1. [l EXCEPT !.pc = p, !.cur = i, !.age = n, !.batch = b, !.attempt = a]
            = [[[[[l EXCEPT !.pc = p] EXCEPT !.cur = i] EXCEPT !.age = n]
                 EXCEPT !.batch = b] EXCEPT !.attempt = a]
        OBVIOUS
    <2> QED BY <1>1, <2>1
<1>3. ASSUME NEW p \in Pcs, NEW r \in Results, NEW a \in 0..MaxAttempts, NEW n \in Nat
      PROVE  [l EXCEPT !.pc = p, !.cur = None, !.attempt = a, !.age = n, !.result = r] \in Local
    <2>1. [l EXCEPT !.pc = p, !.cur = None, !.attempt = a, !.age = n, !.result = r]
            = [[[[[l EXCEPT !.pc = p] EXCEPT !.cur = None] EXCEPT !.attempt = a]
                 EXCEPT !.age = n] EXCEPT !.result = r]
        OBVIOUS
    <2> QED BY <1>1, <2>1
<1>4. ASSUME NEW p \in Pcs, NEW r \in Results
      PROVE  [l EXCEPT !.pc = p, !.result = r] \in Local
    <2>1. [l EXCEPT !.pc = p, !.result = r] = [[l EXCEPT !.pc = p] EXCEPT !.result = r]
        OBVIOUS
    <2> QED BY <1>1, <2>1
<1> QED BY <1>1, <1>2, <1>3, <1>4

-----------------------------------------------------------------------------
(* The administrator.                                                       *)

LEMMA AdministerKeeps ==
    ASSUME OutboxInv, Administer
    PROVE  OutboxInv'
<1> USE DEF OutboxInv
<1>1. ASSUME NEW h \in Hooks, NEW events \in EventSets, NEW active \in BOOLEAN,
             NEW type \in ContentTypes,
             CreateHook(h, events, active, type) \/ PatchHook(h, events, active, type)
      PROVE  OutboxInv'
    <2> DEFINE row == [events |-> events, active |-> active, type |-> type]
    <2>1. /\ hooks' = [hooks EXCEPT ![h] = row] /\ UNCHANGED <<rows, local>>
          /\ row \in HookRow /\ row \notin {None, Gone}
        BY <1>1, NamesAssumption DEF CreateHook, PatchHook, HookRow
    <2> HIDE DEF row
    <2>2. Shaped'
        BY <2>1 DEF Shaped
    <2>3. Owned'
        BY <2>1 DEF Shaped, Owned, Present, Row
    <2>4. Held'
        BY <2>1 DEF Held, InAttempt, Present
    <2> QED BY <2>2, <2>3, <2>4
<1>2. ASSUME NEW h \in Hooks, DeleteHook(h)
      PROVE  OutboxInv'
    <2>1. /\ hooks' = [hooks EXCEPT ![h] = Gone] /\ UNCHANGED local
          /\ rows' = [i \in Ids |-> IF Present(i) /\ rows[i].hook = h THEN Gone ELSE rows[i]]
        BY <1>2 DEF DeleteHook
    <2>2. Shaped'
        BY <2>1 DEF Shaped
    <2>3. Owned'
        BY <2>1, OutboxAssumption DEF Shaped, Owned, Present
    <2>4. Held'
        BY <2>1, OutboxAssumption DEF Held, InAttempt, Present
    <2> QED BY <2>2, <2>3, <2>4
<1> QED BY <1>1, <1>2 DEF Administer

-----------------------------------------------------------------------------
(* The invocations.                                                         *)

\* One that begins or ends holds no row; the rows and the others stay.
LEMMA RestingKeeps ==
    ASSUME OutboxInv, NEW w \in Workers, NEW l \in Local, l.pc \in {"idle", "working"},
           \A t \in l.targets : hooks[t.hook] # None,
           local' = [local EXCEPT ![w] = l], UNCHANGED <<hooks, rows>>
    PROVE  OutboxInv'
<1> USE DEF OutboxInv
<1>1. Shaped'
    BY DEF Shaped
<1>2. Owned'
    BY DEF Shaped, Owned, Present
<1>3. Held'
    BY DEF Shaped, Held, InAttempt, Present
<1> QED BY <1>1, <1>2, <1>3

LEMMA BeginKeeps ==
    ASSUME OutboxInv, NEW w \in Workers, NEW targets \in SUBSET Target, NEW batch \in SUBSET Ids,
           \A t \in targets : hooks[t.hook] # None, Begin(w, targets, batch)
    PROVE  OutboxInv'
<1> DEFINE l == [Idle EXCEPT !.pc = "working", !.targets = targets, !.batch = batch]
<1>1. /\ l \in Local /\ l.pc = "working" /\ l.targets = targets
      /\ local' = [local EXCEPT ![w] = l] /\ UNCHANGED <<hooks, rows>>
    BY IdleIsLocal DEF Begin, Idle, Local, Pcs
<1> HIDE DEF l
<1> QED BY <1>1, RestingKeeps

LEMMA RequestKeeps ==
    ASSUME OutboxInv, NEW w \in Workers, Request(w) \/ Drain(w)
    PROVE  OutboxInv'
<1> USE DEF OutboxInv
<1>1. ASSUME NEW h \in Hooks, hooks[h] \notin {None, Gone}
      PROVE  FirstAttempt(h) \in Target /\ FirstAttempt(h).hook = h
    BY <1>1, OutboxAssumption DEF FirstAttempt, Target, Shaped, HookRow
<1>2. ASSUME NEW type, Dispatch(w, type)
      PROVE  OutboxInv'
    <2> DEFINE Now == {g \in Hooks : /\ hooks[g] \notin {None, Gone}
                                     /\ hooks[g].active
                                     /\ Subscribes(hooks[g].events, BridgedEvent(type))}
               targets == {FirstAttempt(h) : h \in Now}
    <2>1. targets \in SUBSET Target /\ \A t \in targets : hooks[t.hook] # None
        BY <1>1
    <2>2. Begin(w, targets, {})
        BY <1>2 DEF Dispatch
    <2> HIDE DEF targets
    <2> QED BY <2>1, <2>2, BeginKeeps
<1>3. ASSUME NEW h \in Hooks, Ping(w, h)
      PROVE  OutboxInv'
    BY <1>1, <1>3, BeginKeeps DEF Ping
<1>4. ASSUME NEW i \in Ids, Redeliver(w, i)
      PROVE  OutboxInv'
    <2> DEFINE t == [hook |-> rows[i].hook, attempt |-> rows[i].attempt,
                     type |-> IF rows[i].stored THEN rows[i].type ELSE hooks[rows[i].hook].type]
    <2>1. Present(i) /\ Begin(w, {t}, {})
        BY <1>4 DEF Redeliver
    <2>2. rows[i] \in Row /\ hooks[rows[i].hook] \notin {None, Gone}
        BY <2>1 DEF Present, Shaped, Owned
    <2>3. hooks[rows[i].hook] \in HookRow
        BY <2>2 DEF Shaped, Row
    <2>4. t \in Target /\ hooks[t.hook] # None
        BY <2>2, <2>3 DEF Target, Row, HookRow
    <2> HIDE DEF t
    <2> QED BY <2>1, <2>4, BeginKeeps
<1>5. CASE Drain(w)
    <2> DEFINE batch == {i \in Ids : Due(i)}
    <2>1. Begin(w, {}, batch) /\ batch \in SUBSET Ids
        BY <1>5 DEF Drain
    <2> HIDE DEF batch
    <2> QED BY <2>1, BeginKeeps
<1> QED BY <1>2, <1>3, <1>4, <1>5 DEF Request

\* A row that is committed was not there, so that no attempt is at it.
LEMMA CommitKeeps ==
    ASSUME OutboxInv, NEW w \in Workers, NEW t \in local[w].targets, NEW i \in Ids,
           NEW stored \in BOOLEAN, CommitIntent(w, t, i, stored)
    PROVE  OutboxInv'
<1> USE DEF OutboxInv
<1> DEFINE l == [local[w] EXCEPT !.targets = local[w].targets \ {t},
                                 !.batch = IF stored THEN {i} ELSE {}]
           row == NewRow(t, stored)
<1>1. /\ local[w].pc = "working" /\ rows[i] = None /\ hooks[t.hook] # Gone
      /\ rows' = [rows EXCEPT ![i] = row] /\ UNCHANGED hooks
      /\ local' = [local EXCEPT ![w] = Rest(l)]
    BY DEF CommitIntent
<1>2. local[w] \in Local /\ t \in Target /\ hooks[t.hook] # None
    BY DEF Shaped, Local, Owned
<1>3. /\ l \in Local /\ l.pc = "working" /\ l.targets \subseteq local[w].targets
    BY <1>1, <1>2 DEF Local
<1>4. row \in Row /\ row \notin {None, Gone} /\ row.hook = t.hook
    BY <1>2, OutboxAssumption, NamesAssumption DEF NewRow, Row, Target, NoTime
<1> HIDE DEF row, l
<1>5. /\ Rest(l) \in Local /\ Rest(l).pc \in {"idle", "working"}
      /\ Rest(l).targets \subseteq local[w].targets
    BY <1>3, IdleIsLocal DEF Rest, Idle
<1>6. Shaped'
    BY <1>1, <1>4, <1>5 DEF Shaped
<1>7. Owned'
    BY <1>1, <1>2, <1>4, <1>5 DEF Shaped, Owned, Present
<1>8. Held'
    BY <1>1, <1>5 DEF Shaped, Held, InAttempt, Present
<1> QED BY <1>6, <1>7, <1>8

\* A row is claimed by one that finds it due, and nobody is at it then.
LEMMA ClaimKeeps ==
    ASSUME OutboxInv, AttemptLimit < Lease, NEW w \in Workers, NEW i \in local[w].batch,
           Claim(w, i)
    PROVE  OutboxInv'
<1> USE DEF OutboxInv
<1>1. local[w] \in Local /\ i \in Ids /\ local[w].pc = "working" /\ UNCHANGED hooks
    BY DEF Claim, Shaped, Local
<1>2. CASE ~Due(i)
    <2> DEFINE l == [local[w] EXCEPT !.batch = local[w].batch \ {i}]
    <2>1. /\ l \in Local /\ l.pc = "working" /\ l.targets = local[w].targets
          /\ local' = [local EXCEPT ![w] = Rest(l)] /\ UNCHANGED rows
        BY <1>1, <1>2 DEF Claim, Local
    <2> HIDE DEF l
    <2>2. Rest(l) \in Local /\ Rest(l).pc \in {"idle", "working"}
          /\ \A t \in Rest(l).targets : hooks[t.hook] # None
        BY <2>1, IdleIsLocal DEF Rest, Idle, Owned
    <2> HIDE DEF OutboxInv
    <2> QED BY <1>1, <2>1, <2>2, RestingKeeps
<1>3. CASE Due(i)
    <2> DEFINE row == [rows[i] EXCEPT !.claim = w, !.lease = Lease, !.attempt = rows[i].attempt + 1]
               l == [local[w] EXCEPT !.pc = "claimed", !.cur = i, !.age = 0,
                                     !.batch = local[w].batch \ {i}, !.attempt = rows[i].attempt + 1]
    <2>1. rows' = [rows EXCEPT ![i] = row] /\ local' = [local EXCEPT ![w] = l]
        BY <1>1, <1>3 DEF Claim, Shaped, Local, Row, Due, Present
    <2>2. rows[i] \in Row /\ rows[i].attempt < MaxAttempts /\ rows[i].status # "success"
        BY <1>1, <1>3 DEF Due, Present, Shaped
    <2>a. rows[i].attempt + 1 \in 0..MaxAttempts /\ Lease \in Nat
        BY <2>2, OutboxAssumption DEF Row
    <2>b. row \in Row /\ l \in Local
        <3>1. w \in Workers \cup {None} /\ "claimed" \in Pcs /\ 0 \in Nat
              /\ local[w].batch \ {i} \in SUBSET Ids
            BY <1>1 DEF Local, Pcs
        <3>2. row \in Row
            BY <2>2, <2>a, <3>1, RowUpdates, Zenon
        <3>3. l \in Local
            BY <1>1, <2>a, <3>1, LocalUpdates, Zenon
        <3> QED BY <3>2, <3>3
    <2>3. /\ row \in Row /\ row \notin {None, Gone} /\ row.hook = rows[i].hook
          /\ row.claim = w /\ row.lease = Lease /\ row.status # "success"
        BY <2>2, <2>b, NamesAssumption DEF Row
    <2>4. /\ l \in Local /\ l.pc = "claimed" /\ l.cur = i /\ l.age = 0
          /\ l.targets = local[w].targets
        BY <1>1, <2>b DEF Local
    <2>5. \A v \in Workers \ {w} : InAttempt(v) => local[v].cur # i
        BY <1>1, <1>3, DueIsFree
    <2> HIDE DEF row, l
    <2>6. Shaped'
        BY <1>1, <2>1, <2>3, <2>4 DEF Shaped
    <2>7. Owned'
        BY <1>1, <1>3, <2>1, <2>3, <2>4 DEF Shaped, Owned, Present, Due
    <2>8. Held'
        <3> SUFFICES ASSUME NEW v \in Workers, InAttempt(v)'
                     PROVE  /\ local'[v].cur \in Ids /\ rows'[local'[v].cur] # None
                            /\ local'[v].age <= AttemptLimit
                            /\ Present(local[v].cur)' =>
                                 /\ rows'[local'[v].cur].claim = v
                                 /\ rows'[local'[v].cur].status # "success"
                                 /\ rows'[local'[v].cur].lease + local'[v].age >= Lease
            BY DEF Held
        <3>1. CASE v = w
            BY <1>1, <2>1, <2>3, <2>4, <3>1, OutboxAssumption DEF Shaped
        <3>2. CASE v # w
            <4>1. local'[v] = local[v] /\ InAttempt(v) /\ local[v].cur # i
                BY <2>1, <2>5, <3>2 DEF InAttempt, Shaped
            <4>2. rows'[local[v].cur] = rows[local[v].cur]
                BY <2>1, <4>1 DEF Shaped, Held
            <4> QED BY <4>1, <4>2 DEF Held, Present
        <3> QED BY <3>1, <3>2
    <2> QED BY <2>6, <2>7, <2>8
<1> QED BY <1>2, <1>3

\* What an attempt does before it writes changes only its own memory.
LEMMA AttemptKeeps ==
    ASSUME OutboxInv, NEW w \in Workers, NEW signs \in BOOLEAN, NEW result \in {"ok", "failed"},
           Prepare(w, signs) \/ Send(w, result)
    PROVE  OutboxInv'
<1> USE DEF OutboxInv
<1>1. PICK pc \in {"sending", "sent"}, r \in {"none", "ok", "failed", "permanent"} :
        local' = [local EXCEPT ![w].pc = pc, ![w].result = r]
    BY DEF Prepare, Send
<1>2. InAttempt(w) /\ UNCHANGED <<hooks, rows>>
    BY DEF Prepare, Send, InAttempt
<1>3. /\ local'[w] = [local[w] EXCEPT !.pc = pc, !.result = r]
      /\ \A v \in Workers \ {w} : local'[v] = local[v]
    BY <1>1 DEF Shaped, Local
<1>4. Shaped'
    <2>0. pc \in Pcs /\ r \in Results /\ local[w] \in Local
        BY DEF Shaped, Pcs, Results
    <2>a. [local[w] EXCEPT !.pc = pc, !.result = r] \in Local
        BY <2>0, LocalUpdates, Zenon
    <2>1. local'[w] \in Local
        BY <1>3, <2>a
    <2> QED BY <1>1, <1>2, <1>3, <2>1 DEF Shaped
<1>5. \A v \in Workers : /\ local'[v].cur = local[v].cur /\ local'[v].age = local[v].age
                         /\ local'[v].targets = local[v].targets /\ (InAttempt(v)' => InAttempt(v))
    BY <1>2, <1>3 DEF Shaped, Local, InAttempt
<1>6. Owned'
    BY <1>2, <1>5 DEF Owned, Present
<1>7. Held'
    <2> SUFFICES ASSUME NEW v \in Workers, InAttempt(v)'
                 PROVE  /\ local'[v].cur \in Ids /\ rows'[local'[v].cur] # None
                        /\ local'[v].age <= AttemptLimit
                        /\ Present(local[v].cur)' =>
                             /\ rows'[local'[v].cur].claim = v
                             /\ rows'[local'[v].cur].status # "success"
                             /\ rows'[local'[v].cur].lease + local'[v].age >= Lease
        BY DEF Held
    <2>1. InAttempt(v) /\ local'[v].cur = local[v].cur /\ local'[v].age = local[v].age
        BY <1>5
    <2> QED BY <1>2, <2>1 DEF Held, Present
<1> QED BY <1>4, <1>6, <1>7

\* An attempt that ends writes a row that is its own, if it is there at all.
LEMMA FinishKeeps ==
    ASSUME OutboxInv, NEW w \in Workers, FinishAttempt(w)
    PROVE  OutboxInv'
<1> USE DEF OutboxInv
<1> DEFINE i == local[w].cur
           l == [local[w] EXCEPT !.pc = "working", !.cur = None, !.attempt = 0,
                                 !.age = 0, !.result = "none"]
           row == [rows[i] EXCEPT !.status = IF local[w].result = "ok" THEN "success" ELSE "failed",
                                  !.claim = None, !.lease = 0, !.due = RetryAfter(local[w])]
<1>1. /\ InAttempt(w) /\ UNCHANGED hooks /\ local' = [local EXCEPT ![w] = Rest(l)]
      /\ local[w] \in Local /\ i \in Ids
    BY DEF FinishAttempt, InAttempt, Shaped, Held
<1>2. /\ l \in Local /\ l.pc = "working" /\ l.targets = local[w].targets
    <2>0. "working" \in Pcs /\ "none" \in Results /\ 0 \in Nat /\ 0 \in 0..MaxAttempts
        BY OutboxAssumption DEF Pcs, Results
    <2>1. l \in Local
        BY <1>1, <2>0, LocalUpdates, Zenon
    <2> QED BY <1>1, <2>1 DEF Local
<1> HIDE DEF l
<1>3. /\ Rest(l) \in Local /\ Rest(l).pc \in {"idle", "working"}
      /\ Rest(l).targets \subseteq local[w].targets
    BY <1>2, IdleIsLocal DEF Rest, Idle
<1>4. CASE ~Present(i)
    <2>1. UNCHANGED rows
        BY <1>4 DEF FinishAttempt
    <2>2. \A t \in Rest(l).targets : hooks[t.hook] # None
        BY <1>3 DEF Owned
    <2> HIDE DEF OutboxInv, i
    <2> QED BY <1>1, <1>3, <2>1, <2>2, RestingKeeps
<1>5. CASE Present(i)
    <2>1. rows[i] \in Row
        BY <1>1, <1>5 DEF Shaped, Present
    <2>2. rows' = [rows EXCEPT ![i] = row]
        BY <1>1, <1>5, <2>1 DEF FinishAttempt, Shaped, Row
    <2>3. RetryAfter(local[w]) \in Int
        BY <1>1, RetryIsNumber
    <2>a. row \in Row
        BY <2>1, <2>3, RowUpdates DEF Statuses
    <2>4. row \in Row /\ row \notin {None, Gone} /\ row.hook = rows[i].hook
        BY <2>1, <2>a, NamesAssumption DEF Row
    <2>5. \A v \in Workers \ {w} : InAttempt(v) => local[v].cur # i
        BY <1>1, <1>5, OneHolder
    <2> HIDE DEF row, i
    <2>6. Shaped'
        BY <1>1, <1>3, <2>2, <2>4 DEF Shaped
    <2>7. Owned'
        BY <1>1, <1>3, <1>5, <2>2, <2>4 DEF Shaped, Owned, Present
    <2>8. Held'
        BY <1>1, <1>3, <2>2, <2>5 DEF Shaped, Held, InAttempt, Present
    <2> QED BY <2>6, <2>7, <2>8
<1> QED BY <1>4, <1>5

-----------------------------------------------------------------------------
(* Time, and the whole.                                                     *)

\* A step of time takes as much of the lease as it adds to the age.
LEMMA TickKeeps ==
    ASSUME OutboxInv, AttemptLimit < Lease, Tick
    PROVE  OutboxInv'
<1> USE DEF OutboxInv
<1>1. /\ \A w \in Workers : InAttempt(w) => local[w].age < AttemptLimit
      /\ UNCHANGED hooks
      /\ rows' = [i \in Ids |-> IF Present(i)
                                THEN [rows[i] EXCEPT !.due = Elapse(rows[i].due), !.lease = Elapse(rows[i].lease)]
                                ELSE rows[i]]
      /\ local' = [w \in Workers |-> IF InAttempt(w) THEN [local[w] EXCEPT !.age = local[w].age + 1]
                                     ELSE local[w]]
    BY DEF Tick
<1>2. \A i \in Ids : Present(i) => rows[i] \in Row
    BY DEF Present, Shaped
<1>3. \A i \in Ids : Present(i) =>
        /\ rows'[i] \in Row /\ rows'[i] \notin {None, Gone}
        /\ rows'[i].hook = rows[i].hook /\ rows'[i].status = rows[i].status
        /\ rows'[i].claim = rows[i].claim /\ rows'[i].lease = Elapse(rows[i].lease)
    <2> SUFFICES ASSUME NEW i \in Ids, Present(i)
                 PROVE  /\ rows'[i] \in Row /\ rows'[i] \notin {None, Gone}
                        /\ rows'[i].hook = rows[i].hook /\ rows'[i].status = rows[i].status
                        /\ rows'[i].claim = rows[i].claim
                        /\ rows'[i].lease = Elapse(rows[i].lease)
        OBVIOUS
    <2> DEFINE due == Elapse(rows[i].due)
               lease == Elapse(rows[i].lease)
    <2>1. rows'[i] = [rows[i] EXCEPT !.due = due, !.lease = lease]
        BY <1>1
    <2>2. rows[i] \in Row /\ due \in Int /\ lease \in Nat
        BY <1>2 DEF Row, Elapse
    <2> HIDE DEF due, lease
    <2>3. rows'[i] \in Row
        <3>1. [rows[i] EXCEPT !.due = due, !.lease = lease] \in Row
            BY <2>2, RowUpdates, Zenon
        <3> QED BY <2>1, <3>1
    <2> QED BY <2>1, <2>2, <2>3, NamesAssumption DEF Row, lease
<1>4. \A i \in Ids : ~Present(i) => rows'[i] = rows[i]
    BY <1>1
<1>5. \A i \in Ids : Present(i)' <=> Present(i)
    BY <1>3, <1>4 DEF Present
<1>6. \A w \in Workers :
        /\ local'[w] \in Local /\ local'[w].cur = local[w].cur
        /\ local'[w].targets = local[w].targets /\ (InAttempt(w)' <=> InAttempt(w))
        /\ InAttempt(w) => local'[w].age = local[w].age + 1
    <2> SUFFICES ASSUME NEW w \in Workers
                 PROVE  /\ local'[w] \in Local /\ local'[w].cur = local[w].cur
                        /\ local'[w].targets = local[w].targets
                        /\ InAttempt(w)' <=> InAttempt(w)
                        /\ InAttempt(w) => local'[w].age = local[w].age + 1
        OBVIOUS
    <2>1. local[w] \in Local /\ local[w].age + 1 \in Nat
        BY DEF Shaped, Local
    <2>2. CASE InAttempt(w)
        <3>1. local'[w] = [local[w] EXCEPT !.age = local[w].age + 1]
            BY <1>1, <2>2
        <3>2. local'[w] \in Local
            BY <2>1, <3>1, LocalUpdates
        <3> QED BY <2>1, <2>2, <3>1, <3>2 DEF Local, InAttempt
    <2>3. CASE ~InAttempt(w)
        BY <1>1, <2>1, <2>3 DEF InAttempt
    <2> QED BY <2>2, <2>3
<1>7. Shaped'
    <2>1. rows' = [i \in Ids |-> rows'[i]] /\ local' = [w \in Workers |-> local'[w]]
        BY <1>1
    <2>2. \A i \in Ids : rows'[i] \in Row \cup {None, Gone}
        BY <1>3, <1>4 DEF Shaped
    <2> QED BY <1>1, <1>6, <2>1, <2>2 DEF Shaped
<1>8. Owned'
    <2>1. ASSUME NEW i \in Ids, Present(i)'
          PROVE  hooks'[rows'[i].hook] \notin {None, Gone}
        BY <1>1, <1>3, <1>5, <2>1 DEF Owned
    <2>2. ASSUME NEW w \in Workers, NEW t \in local'[w].targets
          PROVE  hooks'[t.hook] # None
        BY <1>1, <1>6, <2>2 DEF Owned
    <2> QED BY <2>1, <2>2 DEF Owned
<1>9. Held'
    <2> SUFFICES ASSUME NEW w \in Workers, InAttempt(w)'
                 PROVE  /\ local'[w].cur \in Ids /\ rows'[local'[w].cur] # None
                        /\ local'[w].age <= AttemptLimit
                        /\ Present(local[w].cur)' =>
                             /\ rows'[local'[w].cur].claim = w
                             /\ rows'[local'[w].cur].status # "success"
                             /\ rows'[local'[w].cur].lease + local'[w].age >= Lease
        BY DEF Held
    <2> DEFINE i == local[w].cur
    <2>1. InAttempt(w) /\ i \in Ids /\ rows[i] # None /\ local'[w].cur = i
        BY <1>6 DEF Held
    <2>2. local'[w].age = local[w].age + 1 /\ local[w].age < AttemptLimit /\ local[w].age \in Nat
        BY <1>1, <1>6, <2>1 DEF Shaped, Local
    <2>3. rows'[i] # None
        BY <1>3, <1>4, <2>1
    <2>4. ASSUME Present(i)
          PROVE  /\ rows'[i].claim = w /\ rows'[i].status # "success"
                 /\ rows'[i].lease + local'[w].age >= Lease
        <3>1. rows[i].claim = w /\ rows[i].status # "success" /\ rows[i].lease + local[w].age >= Lease
            BY <2>1, <2>4 DEF Held
        <3>2. rows[i].lease \in Nat /\ rows'[i].lease = Elapse(rows[i].lease)
            BY <1>2, <1>3, <2>1, <2>4 DEF Row
        <3>3. rows'[i].lease = rows[i].lease - 1
            BY <2>2, <3>1, <3>2, OutboxAssumption DEF Elapse
        <3> QED BY <1>3, <2>1, <2>2, <2>4, <3>1, <3>2, <3>3, OutboxAssumption
    <2> QED BY <1>5, <2>1, <2>2, <2>3, <2>4, OutboxAssumption
<1> QED BY <1>7, <1>8, <1>9

\* An invocation that dies or is refused leaves what it has to the lease.
LEMMA IdleKeeps ==
    ASSUME OutboxInv, NEW w \in Workers, local' = [local EXCEPT ![w] = Idle],
           UNCHANGED <<hooks, rows>>
    PROVE  OutboxInv'
<1>1. Idle \in Local /\ Idle.pc = "idle" /\ Idle.targets = {}
    BY IdleIsLocal DEF Idle
<1> QED BY <1>1, RestingKeeps

LEMMA InitOutbox == Init => OutboxInv
<1> SUFFICES ASSUME Init PROVE OutboxInv
    OBVIOUS
<1>1. Idle \in Local /\ Idle.pc = "idle" /\ Idle.targets = {}
    BY IdleIsLocal DEF Idle
<1> QED BY <1>1 DEF Init, OutboxInv, Shaped, Owned, Held, InAttempt, Present

LEMMA NextOutbox ==
    ASSUME AttemptLimit < Lease, OutboxInv, [Next]_vars
    PROVE  OutboxInv'
<1>1. CASE Administer
    BY <1>1, AdministerKeeps
<1>2. ASSUME NEW w \in Workers, Request(w) \/ Drain(w)
      PROVE  OutboxInv'
    BY <1>2, RequestKeeps
<1>3. ASSUME NEW w \in Workers, Proceed(w)
      PROVE  OutboxInv'
    <2>1. ASSUME NEW t \in local[w].targets, CommitRefused(w, t)
          PROVE  OutboxInv'
        BY <2>1, IdleKeeps DEF CommitRefused
    <2> QED BY <1>3, <2>1, CommitKeeps, ClaimKeeps, AttemptKeeps, FinishKeeps DEF Proceed
<1>4. ASSUME NEW w \in Workers, Crash(w)
      PROVE  OutboxInv'
    BY <1>4, IdleKeeps DEF Crash
<1>5. CASE Tick
    BY <1>5, TickKeeps
<1>6. CASE UNCHANGED vars
    <2>1. UNCHANGED <<hooks, rows, local>>
        BY <1>6 DEF vars
    <2> QED BY <2>1 DEF OutboxInv, Shaped, Owned, Held, InAttempt, Present
<1> QED BY <1>1, <1>2, <1>3, <1>4, <1>5, <1>6 DEF Next

\* A step leaves a delivery that was sent as it is, or deletes it with its hook.
LEMMA SentStays ==
    ASSUME OutboxInv, Next, NEW i \in Ids, Present(i), rows[i].status = "success"
    PROVE  rows'[i] = Gone \/ rows'[i].status = "success"
<1> USE DEF OutboxInv
<1>1. CASE Administer
    BY <1>1 DEF Administer, CreateHook, PatchHook, DeleteHook
<1>2. ASSUME NEW w \in Workers, Request(w) \/ Drain(w) \/ Crash(w)
      PROVE  UNCHANGED rows
    BY <1>2 DEF Request, Drain, Dispatch, Ping, Redeliver, Begin, Crash
<1>3. ASSUME NEW w \in Workers, NEW t, NEW j \in Ids, NEW stored, CommitIntent(w, t, j, stored)
      PROVE  rows'[i] = rows[i]
    BY <1>3 DEF CommitIntent, Shaped, Present
<1>4. ASSUME NEW w \in Workers, NEW j \in local[w].batch, Claim(w, j)
      PROVE  rows'[i] = rows[i]
    <2>1. CASE Due(j)
        BY <1>4, <2>1 DEF Claim, Due, Shaped
    <2>2. CASE ~Due(j)
        BY <1>4, <2>2 DEF Claim
    <2> QED BY <2>1, <2>2
<1>5. ASSUME NEW w \in Workers, FinishAttempt(w)
      PROVE  rows'[i] = rows[i]
    <2>1. local[w].cur # i
        BY <1>5 DEF FinishAttempt, Held, InAttempt
    <2> QED BY <1>5, <2>1 DEF FinishAttempt, Shaped
<1>6. ASSUME NEW w \in Workers, NEW t, CommitRefused(w, t)
      PROVE  UNCHANGED rows
    BY <1>6 DEF CommitRefused
<1>7. ASSUME NEW w \in Workers, NEW signs, NEW result, Prepare(w, signs) \/ Send(w, result)
      PROVE  UNCHANGED rows
    BY <1>7 DEF Prepare, Send
<1>8. CASE Tick
    BY <1>8 DEF Tick, Shaped, Present, Row
<1>9. ASSUME NEW w \in Workers, Proceed(w)
      PROVE  rows'[i] = rows[i]
    BY <1>3, <1>4, <1>5, <1>6, <1>7, <1>9 DEF Proceed
<1> QED BY <1>1, <1>2, <1>8, <1>9 DEF Next

\* deliverExisting's lease: a delivery that reached its receiver is not put back among
\* the failed or due ones by an invocation that tried the same delivery, whoever dies
\* and whatever is drained meanwhile, when an attempt ends before its lease does.
THEOREM SentStaysSent == AttemptLimit < Lease => (Spec => SuccessIsFinal)
<1> SUFFICES ASSUME AttemptLimit < Lease PROVE Spec => SuccessIsFinal
    OBVIOUS
<1>1. OutboxInv /\ [Next]_vars =>
        [\A i \in Ids : Present(i) /\ rows[i].status = "success" =>
            rows'[i] = Gone \/ rows'[i].status = "success"]_vars
    BY SentStays
<1> QED BY <1>1, InitOutbox, NextOutbox, PTL DEF Spec, SuccessIsFinal

=============================================================================
