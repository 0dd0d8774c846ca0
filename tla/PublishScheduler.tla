--------------------------- MODULE PublishScheduler ---------------------------
(***************************************************************************)
(* The publish scheduler (publishScheduler.ts) and the leader lock it      *)
(* shares with the plugin scheduler (advisoryLock.ts).                     *)
(*                                                                         *)
(* Every host starts a tick every ten seconds, whether or not its last one *)
(* has ended.  A tick that wins the leader lock lists the due rows and     *)
(* fires them one after the other; users schedule, cancel, publish,        *)
(* retract and delete rows meanwhile.                                      *)
(*                                                                         *)
(* A Postgres advisory lock belongs to a database session and counts: the  *)
(* session that holds it can take it again.  A host reaches the database   *)
(* through a pool, so its queries may use any session of the pool, and a   *)
(* session can end while its host goes on.                                 *)
(***************************************************************************)
EXTENDS RowStore, FiniteSets

CONSTANTS
    NoRow,      \* a tick fires no row
    Hosts,      \* server processes
    Ticks,      \* concurrent ticks of one host
    Conns,      \* sessions in the pool of one host
    Postgres,   \* FALSE: SQLite, where every tick leads
    Failures,   \* TRUE: a publish, its event, a revert or a release can fail
    Crashes,    \* TRUE: a host can stop and be restarted
    LockErrors, \* TRUE: the query for the lock can fail
    SessionEnds,    \* TRUE: a session of the pool can end under a tick
    BatchLimit, \* TICK_BATCH_LIMIT
    MaxTime,    \* bound: the clock
    MaxHolds,   \* bound: holds of a session from which on releases find it
    MaxVersions \* bound: publications of a row

ASSUME SchedulerAssumption ==
    /\ Times \subseteq 1..MaxTime /\ NoTime \notin Nat
    /\ Postgres \in BOOLEAN /\ Failures \in BOOLEAN
    /\ Crashes \in BOOLEAN /\ LockErrors \in BOOLEAN /\ SessionEnds \in BOOLEAN
    /\ BatchLimit \in Nat \ {0} /\ MaxHolds \in Nat \ {0}
    /\ IsFiniteSet(Hosts \X Ticks)

VARIABLES
    row,        \* the data_rows table
    now,        \* the clock
    lock,       \* how often each session holds the advisory lock
    tick,       \* each tick's progress
    up          \* the hosts that run

vars == <<row, now, lock, tick, up>>

TickIds == Hosts \X Ticks
Sessions == Hosts \X Conns
Host(x) == x[1]

(* token: what tryAcquireLeader returned.  due: the rows listed and not yet *)
(* fired, with the time they were listed under.  row: the row being fired. *)
Tick == [pc : {"idle", "list", "fire", "emit", "revert"},
         token : {"none", "pg-advisory", "sqlite-leader"},
         due : SUBSET (Rows \X Times), row : Rows \cup {NoRow}]

TypeOK ==
    /\ row \in [Rows -> Row]
    /\ now \in Nat
    /\ lock \in [Sessions -> Nat]
    /\ tick \in [TickIds -> Tick]
    /\ up \subseteq Hosts

NoTick == [pc |-> "idle", token |-> "none", due |-> {}, row |-> NoRow]

Init ==
    /\ \E t \in Tables, s \in Slugs : row = [r \in Rows |-> NewRow(t, s)]
    /\ now = 0
    /\ lock = [s \in Sessions |-> 0]
    /\ tick = [t \in TickIds |-> NoTick]
    /\ up = Hosts

-----------------------------------------------------------------------------
(* The leader lock.                                                        *)

Pool(t) == {s \in Sessions : Host(s) = Host(t)}

(* pg_try_advisory_lock in session s *)
Granted(s) == \A z \in Sessions \ {s} : lock[z] = 0

(* The timer of a host fires. *)
Timer(t) == tick[t].pc = "idle" /\ Host(t) \in up

Lead(t, token) ==
    /\ tick' = [tick EXCEPT ![t].pc = "list", ![t].token = token]
    /\ UNCHANGED <<row, now, up>>

(* Mutant: the query was answered, and its answer is not looked at. *)
LeadPostgresAnyway(t) ==
    /\ Postgres /\ Timer(t)
    /\ \E s \in Pool(t) : lock' = IF Granted(s) THEN [lock EXCEPT ![s] = @ + 1] ELSE lock
    /\ Lead(t, "pg-advisory")

(* tryAcquireLeader; a tick that is not granted the lock does nothing *)
LeadPostgres(t) ==
    /\ Postgres /\ Timer(t)
    /\ \E s \in Pool(t) : Granted(s) /\ lock' = [lock EXCEPT ![s] = @ + 1]
    /\ Lead(t, "pg-advisory")

(* tryAcquireLeader: the query throws, because this is SQLite or because   *)
(* the database could not be reached                                       *)
LeadSqlite(t) ==
    /\ ~Postgres \/ LockErrors
    /\ Timer(t)
    /\ Lead(t, "sqlite-leader")
    /\ UNCHANGED lock

(* releaseLeader: pg_advisory_unlock in any session of the pool; one that  *)
(* does not hold the lock releases nothing, and an error is only logged    *)
Release(t) ==
    IF tick[t].token = "pg-advisory"
    THEN \/ \E s \in Pool(t) : lock[s] > 0 /\ lock' = [lock EXCEPT ![s] = @ - 1]
         \/ /\ Failures \/ \E s \in Pool(t) : lock[s] = 0
            /\ \A s \in Pool(t) : lock[s] < MaxHolds
            /\ UNCHANGED lock
    ELSE UNCHANGED lock

-----------------------------------------------------------------------------
(* A tick.                                                                 *)

Due(r) == row[r].status = "scheduled" /\ ~row[r].deleted
          /\ row[r].at # NoTime /\ row[r].at <= now

(* listDuePublishSchedules: the oldest first, BatchLimit at most *)
List(t) ==
    /\ tick[t].pc = "list"
    /\ LET due == {r \in Rows : Due(r)} IN
       \E D \in SUBSET due :
          /\ Cardinality(D) = IF Cardinality(due) < BatchLimit THEN Cardinality(due) ELSE BatchLimit
          /\ \A r \in D, q \in due \ D : row[r].at <= row[q].at
          /\ tick' = [tick EXCEPT ![t].pc = "fire", ![t].due = {<<r, row[r].at>> : r \in D}]
    /\ UNCHANGED <<row, now, lock, up>>

First(D) == {d \in D : \A e \in D : d[2] <= e[2]}

(* fireOne, publishDataRow: the transaction of the publish *)
Persist(t, r) ==
    /\ tick[t].pc = "fire"
    /\ ~row[r].deleted /\ row[r].active.no < MaxVersions
    /\ \E d \in First(tick[t].due) :
          /\ d[1] = r
          /\ tick' = [tick EXCEPT ![t].pc = "emit", ![t].due = @ \ {d}, ![t].row = r]
    /\ row' = [row EXCEPT ![r] = Persisted(@)]
    /\ UNCHANGED <<now, lock, up>>

(* The row is gone, or the transaction fails. *)
PersistFails(t, r) ==
    /\ tick[t].pc = "fire"
    /\ row[r].deleted \/ Failures
    /\ \E d \in First(tick[t].due) :
          /\ d[1] = r
          /\ tick' = [tick EXCEPT ![t].pc = "revert", ![t].due = @ \ {d}, ![t].row = r]
    /\ UNCHANGED <<row, now, lock, up>>

(* emitContentEntryUpdated *)
Emit(t) ==
    /\ tick[t].pc = "emit"
    /\ \/ tick' = [tick EXCEPT ![t].pc = "fire", ![t].row = NoRow]
       \/ (Failures /\ tick' = [tick EXCEPT ![t].pc = "revert"])
    /\ UNCHANGED <<row, now, lock, up>>

(* Mutant: a failed publish is logged and the row left as it is. *)
RevertNothing(t) ==
    /\ tick[t].pc = "revert"
    /\ tick' = [tick EXCEPT ![t].pc = "fire", ![t].row = NoRow]
    /\ UNCHANGED <<row, now, lock, up>>

(* fireOne, catch: cancelScheduledPublish, whose own error is logged *)
Revert(t) ==
    /\ tick[t].pc = "revert"
    /\ LET r == tick[t].row IN
       IF row[r].status = "scheduled" /\ ~row[r].deleted
       THEN row' = [row EXCEPT ![r] = Cancelled(@)] \/ (Failures /\ UNCHANGED row)
       ELSE UNCHANGED row
    /\ tick' = [tick EXCEPT ![t].pc = "fire", ![t].row = NoRow]
    /\ UNCHANGED <<now, lock, up>>

End(t) ==
    /\ tick[t].pc = "fire" /\ tick[t].due = {}
    /\ Release(t)
    /\ tick' = [tick EXCEPT ![t] = NoTick]
    /\ UNCHANGED <<row, now, up>>

(* The list query fails: the tick ends, the lock is released. *)
ListFails(t) ==
    /\ Failures /\ tick[t].pc = "list"
    /\ Release(t)
    /\ tick' = [tick EXCEPT ![t] = NoTick]
    /\ UNCHANGED <<row, now, up>>

(* A host stops: its sessions end, and with them the locks they held. *)
Crash(h) ==
    /\ Crashes /\ h \in up
    /\ up' = up \ {h}
    /\ lock' = [s \in Sessions |-> IF Host(s) = h THEN 0 ELSE lock[s]]
    /\ tick' = [t \in TickIds |-> IF Host(t) = h THEN NoTick ELSE tick[t]]
    /\ UNCHANGED <<row, now>>

Restart(h) ==
    /\ h \notin up
    /\ up' = up \cup {h}
    /\ UNCHANGED <<row, now, lock, tick>>

(* A session is closed: the lock it held is free, and the ticks of its     *)
(* host are not told.                                                      *)
EndSession(s) ==
    /\ SessionEnds /\ lock[s] > 0
    /\ lock' = [lock EXCEPT ![s] = 0]
    /\ UNCHANGED <<row, now, tick, up>>

-----------------------------------------------------------------------------
(* Users and time.                                                         *)

(* The row changes to d in one statement. *)
Update(r, d) ==
    /\ ~row[r].deleted /\ d # row[r]
    /\ row' = [row EXCEPT ![r] = d]
    /\ UNCHANGED <<now, lock, tick, up>>

(* handleRowSchedulePost *)
Schedule(r) == \E w \in Times : w > now /\ Update(r, Scheduled(row[r], w))

(* handleRowScheduleDelete *)
Cancel(r) == row[r].status = "scheduled" /\ Update(r, Cancelled(row[r]))

(* handleRowPublish *)
Publish(r) == row[r].active.no < MaxVersions /\ Update(r, Persisted(row[r]))

(* handleRowStatus *)
SetStatus(r) == \E s \in {"draft", "unpublished"} : Update(r, Retracted(row[r], s))

(* handleRowItemDelete *)
Delete(r) == Update(r, SoftDeleted(row[r]))

Pass ==
    /\ now < MaxTime
    /\ now' = now + 1
    /\ UNCHANGED <<row, lock, tick, up>>

-----------------------------------------------------------------------------
Start(t) == LeadPostgres(t) \/ LeadSqlite(t)

Proceed(t) ==
    \/ List(t) \/ ListFails(t) \/ Emit(t) \/ Revert(t) \/ End(t)
    \/ \E r \in Rows : Persist(t, r) \/ PersistFails(t, r)

User(r) == Schedule(r) \/ Cancel(r) \/ Publish(r) \/ SetStatus(r) \/ Delete(r)

Next ==
    \/ \E t \in TickIds : Start(t) \/ Proceed(t)
    \/ \E r \in Rows : User(r)
    \/ \E h \in Hosts : Crash(h) \/ Restart(h)
    \/ \E s \in Sessions : EndSession(s)
    \/ Pass

Spec == Init /\ [][Next]_vars

(* setInterval starts tick after tick on every host that is up (that the   *)
(* query for the lock fails is owed by nobody).  Hosts do not stop and     *)
(* start over and over, and somebody starts one when none runs; a host     *)
(* that has stopped need not come back.                                    *)
Ticking ==
    /\ \A t \in TickIds : WF_vars(LeadPostgres(t) \/ (~Postgres /\ LeadSqlite(t)))
    /\ WF_vars(up = {} /\ \E h \in Hosts : Restart(h))
    /\ <>[][UNCHANGED up]_vars

(* What a tick awaits settles.  Errors do not go on for ever: a tick that  *)
(* keeps starting lists at last, and a row that keeps failing is reverted  *)
(* at last.                                                                *)
FairSpec ==
    /\ Spec
    /\ Ticking
    /\ \A t \in TickIds : /\ WF_vars(Proceed(t))
                          /\ SF_vars(List(t))
                          /\ SF_vars(Revert(t) /\ row' # row)

-----------------------------------------------------------------------------
(* Properties.                                                             *)

(* publishScheduler.ts: "Only ONE host instance ticks at a time". *)
OneLeader ==
    \A t, u \in TickIds : tick[t].pc # "idle" /\ tick[u].pc # "idle" => Host(t) = Host(u)

(* publishScheduler.ts: "either way it's no longer selected by subsequent  *)
(* ticks": a row that is due does not stay due for ever.                   *)
DueRowsLeave == \A r \in Rows : Due(r) ~> ~Due(r)

(* publishScheduler.ts: "Each scheduled row fires AT MOST ONCE per          *)
(* scheduled_publish_at": a tick publishes only rows that are still        *)
(* scheduled, and due.                                                     *)
FiresOnlyDue == [][\A t \in TickIds, r \in Rows : Persist(t, r) => Due(r)]_vars
=============================================================================
