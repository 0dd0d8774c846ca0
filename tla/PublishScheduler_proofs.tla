----------------------- MODULE PublishScheduler_proofs -----------------------
(***************************************************************************)
(* One host leads at a time, for any number of hosts, ticks and pooled     *)
(* sessions, as long as the query for the lock does not fail and no        *)
(* session ends under a tick: at most one session holds the lock, and a    *)
(* host with n ticks under way has a session that holds it n times at      *)
(* least.  (A tick may release in the wrong session, or fail to; that      *)
(* leaves the lock held too often, never too seldom.)  The types, and that *)
(* a scheduled row has a time, need no such condition.                     *)
(***************************************************************************)
EXTENDS PublishScheduler, FiniteSetTheorems, TLAPS

(* The types of what the lock depends on *)
LockTyped ==
    /\ lock \in [Sessions -> Nat]
    /\ tick \in [TickIds -> Tick]

Active(h) == {t \in TickIds : Host(t) = h /\ tick[t].pc # "idle"}

OneHolder == \A s, z \in Sessions : lock[s] > 0 /\ lock[z] > 0 => s = z

Covered ==
    \A t \in TickIds : tick[t].pc # "idle" =>
        \E s \in Pool(t) : lock[s] >= Cardinality(Active(Host(t)))

ByLock == \A t \in TickIds : tick[t].pc # "idle" => tick[t].token = "pg-advisory"

LInv == LockTyped /\ OneHolder /\ Covered /\ ByLock

(* schedule.ts: a scheduled row always has a time to be selected by. *)
ScheduledHasTime == \A r \in Rows : row[r].status = "scheduled" => row[r].at # NoTime

RowInv == row \in [Rows -> Row] /\ ScheduledHasTime

-----------------------------------------------------------------------------
(* A step inside a tick: the same ticks are under way, with the same lock. *)
LEMMA InnerStep ==
  ASSUME LInv, NEW t \in TickIds, NEW q \in Tick,
         tick' = [tick EXCEPT ![t] = q], UNCHANGED lock,
         tick[t].pc # "idle", q.pc # "idle", q.token = tick[t].token
  PROVE  LInv'
<1>1. LockTyped'
  BY DEF LInv, LockTyped
<1>2. \A u \in TickIds : /\ tick'[u].pc = "idle" <=> tick[u].pc = "idle"
                         /\ tick'[u].token = tick[u].token
  BY DEF LInv, LockTyped
<1>3. \A h : Active(h)' = Active(h)
  BY <1>2 DEF Active
<1>4. Covered' /\ OneHolder' /\ ByLock'
  BY <1>2, <1>3 DEF LInv, Covered, OneHolder, ByLock, Pool
<1> QED BY <1>1, <1>4 DEF LInv

LEMMA ActiveFinite ==
  ASSUME NEW h
  PROVE  IsFiniteSet(Active(h)) /\ Cardinality(Active(h)) \in Nat
  BY SchedulerAssumption, FS_Subset, FS_CardinalityType DEF Active, TickIds

LEMMA Leads ==
  ASSUME LInv, NEW t \in TickIds, LeadPostgres(t)
  PROVE  LInv'
<1> DEFINE h == Host(t)
           q == [tick[t] EXCEPT !.pc = "list", !.token = "pg-advisory"]
<1>1. PICK s \in Pool(t) : Granted(s) /\ lock' = [lock EXCEPT ![s] = @ + 1]
  BY DEF LeadPostgres
<1>2. s \in Sessions /\ Host(s) = h /\ lock[s] \in Nat
  BY <1>1 DEF Pool, LInv, LockTyped
<1>3. q \in Tick /\ q.pc = "list" /\ q.token = "pg-advisory"
  BY DEF LInv, LockTyped, Tick
<1>4. tick' = [tick EXCEPT ![t] = q] /\ tick[t].pc = "idle"
  BY DEF LeadPostgres, Lead, Timer, LInv, LockTyped, Tick
<1> HIDE DEF q
<1>5. LockTyped'
  BY <1>1, <1>2, <1>3, <1>4 DEF LInv, LockTyped
<1>6. /\ tick'[t] = q
      /\ \A u \in TickIds : u # t => tick'[u] = tick[u]
  BY <1>4 DEF LInv, LockTyped
<1>7. ByLock'
  BY <1>3, <1>6 DEF LInv, ByLock
<1>8. /\ lock'[s] = lock[s] + 1
      /\ \A z \in Sessions : z # s => lock'[z] = 0
  BY <1>1, <1>2 DEF LInv, LockTyped, Granted
<1>9. OneHolder'
  BY <1>8 DEF OneHolder
<1>10. ASSUME NEW u \in TickIds, tick'[u].pc # "idle"
       PROVE  Host(u) = h
  <2>1. CASE u = t
    BY <2>1
  <2>2. CASE u # t
    <3>1. tick[u].pc # "idle"
      BY <1>6, <1>10, <2>2
    <3>2. PICK z \in Pool(u) : lock[z] >= Cardinality(Active(Host(u)))
      BY <3>1 DEF LInv, Covered
    <3>3. u \in Active(Host(u))
      BY <3>1 DEF Active
    <3>4. Cardinality(Active(Host(u))) # 0
      BY <3>3, ActiveFinite, FS_EmptySet
    <3>5. z \in Sessions /\ lock[z] # 0
      BY <3>2, <3>4, ActiveFinite DEF Pool, LInv, LockTyped
    <3>6. z = s
      BY <1>1, <3>5 DEF Granted
    <3> QED BY <1>2, <3>2, <3>6 DEF Pool
  <2> QED BY <2>1, <2>2
<1>11. Active(h)' = Active(h) \cup {t} /\ t \notin Active(h)
  BY <1>3, <1>4, <1>6 DEF Active
<1>12. Cardinality(Active(h)') = Cardinality(Active(h)) + 1
  BY <1>11, ActiveFinite, FS_AddElement
<1>13. lock[s] >= Cardinality(Active(h))
  <2>1. CASE Active(h) = {}
    BY <1>2, <2>1, FS_EmptySet
  <2>2. CASE Active(h) # {}
    <3>1. PICK u \in TickIds : Host(u) = h /\ tick[u].pc # "idle"
      BY <2>2 DEF Active
    <3>2. PICK z \in Pool(u) : lock[z] >= Cardinality(Active(h))
      BY <3>1 DEF LInv, Covered
    <3>3. Cardinality(Active(h)) # 0
      BY <2>2, ActiveFinite, FS_EmptySet
    <3>4. z \in Sessions /\ lock[z] # 0
      BY <3>2, <3>3, ActiveFinite DEF Pool, LInv, LockTyped
    <3>5. z = s
      BY <1>1, <3>4 DEF Granted
    <3> QED BY <3>2, <3>5
  <2> QED BY <2>1, <2>2
<1>14. lock'[s] >= Cardinality(Active(h)')
  BY <1>2, <1>8, <1>12, <1>13, ActiveFinite
<1>15. Covered'
  <2> SUFFICES ASSUME NEW u \in TickIds, tick'[u].pc # "idle"
               PROVE  \E z \in Pool(u) : lock'[z] >= Cardinality(Active(Host(u))')
    BY DEF Covered, Pool
  <2>1. Host(u) = h
    BY <1>10
  <2>2. s \in Pool(u)
    BY <1>2, <2>1 DEF Pool
  <2> QED BY <1>14, <2>1, <2>2
<1> QED BY <1>5, <1>7, <1>9, <1>15 DEF LInv

(* A release leaves no session with less than no hold. *)
LEMMA ReleaseTyped ==
  ASSUME LockTyped, NEW t \in TickIds, Release(t)
  PROVE  lock' \in [Sessions -> Nat]
<1>1. CASE UNCHANGED lock
  BY <1>1 DEF LockTyped
<1>2. ASSUME NEW s \in Pool(t), lock[s] > 0, lock' = [lock EXCEPT ![s] = @ - 1]
      PROVE  lock' \in [Sessions -> Nat]
  <2>1. s \in Sessions /\ lock[s] \in Nat
    BY DEF Pool, LockTyped
  <2>2. lock[s] - 1 \in Nat
    BY <1>2, <2>1
  <2> QED BY <1>2, <2>1, <2>2 DEF LockTyped
<1> QED BY <1>1, <1>2 DEF Release

(* The end of a tick: its host has one tick less under way, and at most one *)
(* session of its pool holds the lock once less.                           *)
LEMMA Ends ==
  ASSUME LInv, NEW t \in TickIds, tick[t].pc # "idle", Release(t),
         tick' = [tick EXCEPT ![t] = NoTick]
  PROVE  LInv'
<1> DEFINE h == Host(t)
           q == NoTick
<1>1. q \in Tick /\ q.pc = "idle" /\ q.token = "none"
  BY DEF NoTick, LInv, LockTyped, Tick
<1> HIDE DEF q
<1>2. /\ tick'[t] = q
      /\ \A u \in TickIds : u # t => tick'[u] = tick[u]
  BY DEF LInv, LockTyped, q
<1>3. UNCHANGED lock \/ \E s \in Pool(t) : lock[s] > 0 /\ lock' = [lock EXCEPT ![s] = @ - 1]
  BY DEF Release
<1>4. /\ \A z \in Sessions : lock[z] \in Nat /\ lock'[z] \in Nat
                            /\ (lock'[z] = lock[z] \/ lock'[z] = lock[z] - 1)
      /\ \A z \in Sessions : Host(z) # h => lock'[z] = lock[z]
  BY <1>3 DEF Pool, LInv, LockTyped
<1>5. LockTyped'
  <2>1. tick' \in [TickIds -> Tick]
    BY <1>1 DEF LInv, LockTyped, q
  <2>2. lock' \in [Sessions -> Nat]
    BY ReleaseTyped DEF LInv
  <2> QED BY <2>1, <2>2 DEF LockTyped
<1>6. ByLock'
  BY <1>1, <1>2 DEF LInv, ByLock
<1>7. OneHolder'
  BY <1>4 DEF LInv, OneHolder, LockTyped
<1>8. Active(h)' = Active(h) \ {t} /\ t \in Active(h)
  BY <1>1, <1>2 DEF Active
<1>9. Cardinality(Active(h)') = Cardinality(Active(h)) - 1
  BY <1>8, ActiveFinite, FS_RemoveElement
<1>10. \A g : g # h => Active(g)' = Active(g)
  BY <1>1, <1>2 DEF Active
<1>11. ASSUME NEW u \in TickIds, tick'[u].pc # "idle"
       PROVE  \E z \in Pool(u) : lock'[z] >= Cardinality(Active(Host(u))')
  <2>1. u # t /\ tick[u].pc # "idle"
    BY <1>1, <1>2, <1>11
  <2>2. PICK z \in Pool(u) : lock[z] >= Cardinality(Active(Host(u)))
    BY <2>1 DEF LInv, Covered
  <2>3. z \in Sessions /\ Host(z) = Host(u)
    BY DEF Pool
  <2>4. CASE Host(u) = h
    <3>1. lock'[z] >= lock[z] - 1
      BY <1>4, <2>3
    <3>2. Cardinality(Active(h)) \in Nat /\ lock[z] \in Nat /\ lock'[z] \in Nat
      BY <1>5, <2>3, ActiveFinite DEF LockTyped, LInv
    <3> QED BY <1>9, <2>2, <2>4, <3>1, <3>2
  <2>5. CASE Host(u) # h
    BY <1>4, <1>10, <2>2, <2>3, <2>5
  <2> QED BY <2>4, <2>5
<1> QED BY <1>5, <1>6, <1>7, <1>11 DEF LInv, Covered, Pool

(* A host that stops has no tick under way; the others have what they had. *)
LEMMA HostStops ==
  ASSUME LInv, NEW h \in Hosts, Crash(h)
  PROVE  LInv'
<1>1. \A t \in TickIds : /\ Host(t) = h => tick'[t] = NoTick
                         /\ Host(t) # h => tick'[t] = tick[t]
  BY DEF Crash
<1>2. \A s \in Sessions : lock'[s] = IF Host(s) = h THEN 0 ELSE lock[s]
  BY DEF Crash
<1>3. \A t \in TickIds : NoTick \in Tick /\ NoTick.pc = "idle"
  BY DEF NoTick, LInv, LockTyped, Tick
<1>4. LockTyped'
  <2>1. \A t \in TickIds : tick'[t] \in Tick
    BY <1>1, <1>3 DEF LInv, LockTyped
  <2>2. tick' \in [TickIds -> Tick]
    BY <2>1 DEF Crash
  <2>3. lock' \in [Sessions -> Nat]
    BY DEF Crash, LInv, LockTyped
  <2> QED BY <2>2, <2>3 DEF LockTyped
<1>5. OneHolder' /\ ByLock'
  BY <1>1, <1>2, <1>3 DEF LInv, OneHolder, ByLock
<1>6. \A g : g # h => Active(g)' = Active(g)
  BY <1>1 DEF Active
<1>7. ASSUME NEW u \in TickIds, tick'[u].pc # "idle"
      PROVE  \E z \in Pool(u) : lock'[z] >= Cardinality(Active(Host(u))')
  <2>1. Host(u) # h /\ tick[u].pc # "idle"
    BY <1>1, <1>3, <1>7
  <2>2. PICK z \in Pool(u) : lock[z] >= Cardinality(Active(Host(u)))
    BY <2>1 DEF LInv, Covered
  <2> QED BY <1>2, <1>6, <2>1, <2>2 DEF Pool
<1> QED BY <1>4, <1>5, <1>7 DEF LInv, Covered, Pool

(* The steps between the start and the end of a tick keep its token. *)
LEMMA Proceeds ==
  ASSUME LInv, RowInv, NEW t \in TickIds, Proceed(t)
  PROVE  LInv'
<1>0. tick[t] \in Tick /\ tick \in [TickIds -> Tick]
  BY DEF LInv, LockTyped
<1>1. CASE List(t)
  <2> DEFINE d(D) == {<<r, row[r].at>> : r \in D}
  <2>0. PICK D \in SUBSET {r \in Rows : Due(r)} :
           tick' = [tick EXCEPT ![t].pc = "fire", ![t].due = d(D)]
    BY <1>1 DEF List
  <2>1. d(D) \in SUBSET (Rows \X Times)
    BY <2>0 DEF Due, RowInv, Row
  <2> HIDE DEF d
  <2> DEFINE z == [tick[t] EXCEPT !.pc = "fire", !.due = d(D)]
  <2>2. z \in Tick /\ z.pc # "idle" /\ z.token = tick[t].token
    BY <1>0, <2>1 DEF Tick
  <2>3. tick' = [tick EXCEPT ![t] = z] /\ tick[t].pc # "idle" /\ UNCHANGED lock
    BY <1>0, <2>0, <1>1 DEF List
  <2> HIDE DEF z
  <2> QED BY <2>2, <2>3, InnerStep
<1>2. ASSUME NEW r \in Rows, Persist(t, r)
      PROVE  LInv'
  <2>1. PICK d \in First(tick[t].due) :
           tick' = [tick EXCEPT ![t].pc = "emit", ![t].due = @ \ {d}, ![t].row = r]
    BY <1>2 DEF Persist
  <2> DEFINE z == [tick[t] EXCEPT !.pc = "emit", !.due = @ \ {d}, !.row = r]
  <2>2. z \in Tick /\ z.pc # "idle" /\ z.token = tick[t].token
    BY <1>0, <2>1 DEF Tick
  <2>3. tick' = [tick EXCEPT ![t] = z] /\ tick[t].pc # "idle" /\ UNCHANGED lock
    BY <1>0, <2>1, <1>2 DEF Persist
  <2> HIDE DEF z
  <2> QED BY <2>2, <2>3, InnerStep
<1>3. ASSUME NEW r \in Rows, PersistFails(t, r)
      PROVE  LInv'
  <2>1. PICK d \in First(tick[t].due) :
           tick' = [tick EXCEPT ![t].pc = "revert", ![t].due = @ \ {d}, ![t].row = r]
    BY <1>3 DEF PersistFails
  <2> DEFINE z == [tick[t] EXCEPT !.pc = "revert", !.due = @ \ {d}, !.row = r]
  <2>2. z \in Tick /\ z.pc # "idle" /\ z.token = tick[t].token
    BY <1>0, <2>1 DEF Tick
  <2>3. tick' = [tick EXCEPT ![t] = z] /\ tick[t].pc # "idle" /\ UNCHANGED lock
    BY <1>0, <2>1, <1>3 DEF PersistFails
  <2> HIDE DEF z
  <2> QED BY <2>2, <2>3, InnerStep
<1>4. CASE Emit(t) \/ Revert(t)
  <2>1. PICK p \in {"fire", "revert"}, r \in {NoRow, tick[t].row} :
           tick' = [tick EXCEPT ![t].pc = p, ![t].row = r]
    BY <1>4, <1>0 DEF Emit, Revert, Tick
  <2> DEFINE z == [tick[t] EXCEPT !.pc = p, !.row = r]
  <2>2. z \in Tick /\ z.pc # "idle" /\ z.token = tick[t].token
    BY <1>0, <2>1 DEF Tick
  <2>3. tick' = [tick EXCEPT ![t] = z] /\ tick[t].pc # "idle" /\ UNCHANGED lock
    BY <1>0, <2>1, <1>4 DEF Emit, Revert
  <2> HIDE DEF z
  <2> QED BY <2>2, <2>3, InnerStep
<1>5. CASE End(t) \/ ListFails(t)
  <2>1. tick[t].pc # "idle" /\ Release(t) /\ tick' = [tick EXCEPT ![t] = NoTick]
    BY <1>5 DEF End, ListFails
  <2> QED BY <2>1, Ends
<1> QED BY <1>1, <1>2, <1>3, <1>4, <1>5 DEF Proceed

-----------------------------------------------------------------------------
(* The rows: whoever writes one, its status and its time change together.  *)

LEMMA RowStarts == Init => RowInv
  BY SchedulerAssumption DEF Init, NewRow, RowInv, ScheduledHasTime, Row, Statuses

LEMMA RowWritten ==
  ASSUME RowInv, NEW r \in Rows, NEW d \in Row,
         d.status = "scheduled" => d.at # NoTime,
         row' = [row EXCEPT ![r] = d]
  PROVE  RowInv'
<1>1. row' \in [Rows -> Row] /\ row'[r] = d /\ \A x \in Rows : x # r => row'[x] = row[x]
  BY DEF RowInv
<1> QED BY <1>1 DEF RowInv, ScheduledHasTime

LEMMA RowSteps ==
  ASSUME RowInv, [Next]_vars
  PROVE  RowInv'
<1>1. ASSUME NEW r \in Rows
      PROVE  /\ row[r] \in Row
             /\ row[r].status = "scheduled" => row[r].at # NoTime
  BY DEF RowInv, ScheduledHasTime
<1>2. ASSUME NEW r \in Rows, NEW d \in {Persisted(row[r]), Cancelled(row[r]), SoftDeleted(row[r])}
      PROVE  d \in Row /\ (d.status = "scheduled" => d.at # NoTime)
  <2> DEFINE e == row[r]
  <2>1. e \in Row /\ (e.status = "scheduled" => e.at # NoTime)
    BY <1>1
  <2> HIDE DEF e
  <2>2. Persisted(e) \in Row /\ Persisted(e).status = "published"
    <3> DEFINE a == [no |-> e.active.no + 1, slug |-> e.slug]
    <3>1. a \in [no : Nat, slug : Slugs]
      <4>1. e.active.no + 1 \in Nat /\ e.slug \in Slugs
        BY <2>1 DEF Row
      <4> QED BY <4>1
    <3>2. Persisted(e) = [e EXCEPT !.status = "published", !.active = a]
      BY DEF Persisted
    <3> HIDE DEF a
    <3> QED BY <2>1, <3>1, <3>2 DEF Row, Statuses
  <2>3. Cancelled(e) \in Row /\ Cancelled(e).status = "draft"
    BY <2>1 DEF Cancelled, Row, Statuses
  <2>4. SoftDeleted(e) \in Row /\ SoftDeleted(e).status = e.status /\ SoftDeleted(e).at = e.at
    BY <2>1 DEF SoftDeleted, Row, Statuses
  <2>5. d \in {Persisted(e), Cancelled(e), SoftDeleted(e)}
    BY DEF e
  <2> QED BY <2>1, <2>2, <2>3, <2>4, <2>5
<1>3. ASSUME NEW r \in Rows, NEW s \in {"draft", "unpublished"}
      PROVE  Retracted(row[r], s) \in Row /\ Retracted(row[r], s).status # "scheduled"
  BY <1>1 DEF Retracted, Row, Statuses
<1>4. ASSUME NEW r \in Rows, NEW w \in Times
      PROVE  Scheduled(row[r], w) \in Row /\ Scheduled(row[r], w).at # NoTime
  <2>1. w # NoTime
    <3>1. w \in 1..MaxTime
      BY SchedulerAssumption
    <3> QED BY <3>1, SchedulerAssumption
  <2>2. Scheduled(row[r], w) \in Row /\ Scheduled(row[r], w).at = w
    BY <1>1 DEF Scheduled, Row, Statuses
  <2> QED BY <2>1, <2>2
<1>5. CASE UNCHANGED row
  BY <1>5 DEF RowInv, ScheduledHasTime
<1>6. ASSUME NEW r \in Rows, User(r)
      PROVE  RowInv'
  <2>1. CASE Schedule(r)
    BY <2>1, <1>4, RowWritten DEF Schedule, Update
  <2>2. CASE Cancel(r) \/ Publish(r) \/ Delete(r)
    <3>1. PICK d \in {Persisted(row[r]), Cancelled(row[r]), SoftDeleted(row[r])} : row' = [row EXCEPT ![r] = d]
      BY <2>2 DEF Cancel, Publish, Delete, Update
    <3> QED BY <3>1, <1>2, RowWritten
  <2>3. CASE SetStatus(r)
    BY <2>3, <1>3, RowWritten DEF SetStatus, Update
  <2> QED BY <1>6, <2>1, <2>2, <2>3 DEF User
<1>7. ASSUME NEW t \in TickIds, Revert(t), ~UNCHANGED row
      PROVE  RowInv'
  <2>2. row' = [row EXCEPT ![tick[t].row] = Cancelled(@)]
    BY <1>7 DEF Revert
  <2>3. CASE tick[t].row \notin Rows
    <3>1. row' = row
      BY <2>2, <2>3 DEF RowInv
    <3> QED BY <3>1, <1>7
  <2>4. CASE tick[t].row \in Rows
    <3>1. row' = [row EXCEPT ![tick[t].row] = Cancelled(row[tick[t].row])]
      BY <2>2, <2>4 DEF RowInv
    <3> QED BY <3>1, <2>4, <1>2, RowWritten
  <2> QED BY <2>3, <2>4
<1>8. ASSUME NEW t \in TickIds, NEW r \in Rows, Persist(t, r)
      PROVE  RowInv'
  <2>1. row' = [row EXCEPT ![r] = Persisted(row[r])]
    BY <1>8 DEF Persist, RowInv
  <2> QED BY <2>1, <1>2, RowWritten
<1>9. CASE UNCHANGED vars
  BY <1>9, <1>5 DEF vars
<1>10. CASE \E t \in TickIds : Start(t) \/ List(t) \/ ListFails(t) \/ Emit(t) \/ End(t)
                               \/ \E r \in Rows : PersistFails(t, r)
  BY <1>10, <1>5 DEF Start, LeadPostgres, LeadSqlite, Lead, List, ListFails, Emit, End, PersistFails
<1>11. CASE Pass \/ (\E h \in Hosts : Crash(h) \/ Restart(h)) \/ \E s \in Sessions : EndSession(s)
  BY <1>11, <1>5 DEF Pass, Crash, Restart, EndSession
<1> QED BY <1>5, <1>6, <1>7, <1>8, <1>9, <1>10, <1>11 DEF Next, Proceed

-----------------------------------------------------------------------------
(* schedule.ts: a scheduled row has a time, whoever wrote it last.         *)
THEOREM ScheduleTheorem == Spec => []ScheduledHasTime
<1>1. RowInv /\ [Next]_vars => RowInv'
  BY RowSteps
<1>2. RowInv => ScheduledHasTime
  BY DEF RowInv
<1> QED BY RowStarts, <1>1, <1>2, PTL DEF Spec

LEMMA LockStarts == Init => LInv
<1> SUFFICES ASSUME Init PROVE LInv
  OBVIOUS
<1>1. \A t \in TickIds : tick[t].pc = "idle"
  BY DEF Init, NoTick
<1>2. LockTyped
  BY DEF Init, NoTick, LockTyped, Tick
<1>3. OneHolder
  BY DEF Init, OneHolder
<1> QED BY <1>1, <1>2, <1>3 DEF LInv, Covered, ByLock

LEMMA LockSteps ==
  ASSUME Postgres, ~LockErrors, ~SessionEnds, LInv, RowInv, [Next]_vars
  PROVE  LInv'
<1>1. CASE UNCHANGED <<lock, tick>>
  <2>1. LockTyped' /\ OneHolder' /\ ByLock'
    BY <1>1 DEF LInv, LockTyped, OneHolder, ByLock
  <2>2. Covered'
    BY <1>1 DEF LInv, Covered, Active, Pool
  <2> QED BY <2>1, <2>2 DEF LInv
<1>2. ASSUME NEW r \in Rows, User(r)
      PROVE  UNCHANGED <<lock, tick>>
  BY <1>2 DEF User, Schedule, Cancel, Publish, SetStatus, Delete, Update
<1>3. CASE Pass \/ (\E h \in Hosts : Restart(h)) \/ (\E s \in Sessions : EndSession(s)) \/ UNCHANGED vars
  BY <1>3, <1>1 DEF Pass, Restart, EndSession, vars
<1>4. ASSUME NEW t \in TickIds, Start(t)
      PROVE  LInv'
  BY <1>4, Leads DEF Start, LeadSqlite
<1> QED BY <1>1, <1>2, <1>3, <1>4, Proceeds, HostStops DEF Next

(* publishScheduler.ts: "Only ONE host instance ticks at a time".  On       *)
(* Postgres, with the lock's query answered and sessions that last, two    *)
(* ticks under way belong to one host: both hosts would have a session     *)
(* that holds the lock.                                                    *)
THEOREM LeaderTheorem ==
  ASSUME Postgres, ~LockErrors, ~SessionEnds
  PROVE  Spec => []OneLeader
<1>1. Init => LInv /\ RowInv
  BY LockStarts, RowStarts
<1>2. LInv /\ RowInv /\ [Next]_vars => LInv' /\ RowInv'
  BY LockSteps, RowSteps
<1>3. LInv => OneLeader
  <2> SUFFICES ASSUME LInv, NEW t \in TickIds, NEW u \in TickIds,
                      tick[t].pc # "idle", tick[u].pc # "idle"
               PROVE  Host(t) = Host(u)
    BY DEF OneLeader
  <2>1. ASSUME NEW x \in TickIds, tick[x].pc # "idle"
        PROVE  \E s \in Sessions : Host(s) = Host(x) /\ lock[s] > 0
    <3>1. PICK s \in Pool(x) : lock[s] >= Cardinality(Active(Host(x)))
      BY <2>1 DEF LInv, Covered
    <3>2. x \in Active(Host(x))
      BY <2>1 DEF Active
    <3>3. Cardinality(Active(Host(x))) # 0 /\ Cardinality(Active(Host(x))) \in Nat
      BY <3>2, ActiveFinite, FS_EmptySet
    <3>4. s \in Sessions /\ Host(s) = Host(x) /\ lock[s] \in Nat
      BY DEF Pool, LInv, LockTyped
    <3> QED BY <3>1, <3>3, <3>4
  <2> QED BY <2>1 DEF LInv, OneHolder
<1> QED BY <1>1, <1>2, <1>3, PTL DEF Spec

-----------------------------------------------------------------------------
(* The types, also on SQLite, when the lock's query fails and when         *)
(* sessions end.                                                           *)

SInv == LockTyped /\ RowInv /\ now \in Nat /\ up \subseteq Hosts

(* A tick goes on, and takes nothing that is not a tick's. *)
LEMMA TickTyped ==
  ASSUME LockTyped, NEW t \in TickIds, NEW q \in Tick, tick' = [tick EXCEPT ![t] = q],
         lock' \in [Sessions -> Nat]
  PROVE  LockTyped'
  BY DEF LockTyped

LEMMA ProceedTyped ==
  ASSUME LockTyped, RowInv, NEW t \in TickIds, Proceed(t)
  PROVE  LockTyped'
<1>0. tick[t] \in Tick /\ tick \in [TickIds -> Tick] /\ lock \in [Sessions -> Nat]
  BY DEF LockTyped
<1>1. CASE List(t)
  <2> DEFINE d(D) == {<<r, row[r].at>> : r \in D}
  <2>0. PICK D \in SUBSET {r \in Rows : Due(r)} :
           tick' = [tick EXCEPT ![t].pc = "fire", ![t].due = d(D)]
    BY <1>1 DEF List
  <2>1. d(D) \in SUBSET (Rows \X Times)
    BY <2>0 DEF Due, RowInv, Row
  <2> HIDE DEF d
  <2> DEFINE z == [tick[t] EXCEPT !.pc = "fire", !.due = d(D)]
  <2>2. z \in Tick
    BY <1>0, <2>1 DEF Tick
  <2>3. tick' = [tick EXCEPT ![t] = z] /\ UNCHANGED lock
    BY <1>0, <2>0, <1>1 DEF List
  <2> HIDE DEF z
  <2> QED BY <1>0, <2>2, <2>3, TickTyped
<1>2. ASSUME NEW r \in Rows, Persist(t, r) \/ PersistFails(t, r)
      PROVE  LockTyped'
  <2>1. PICK d \in First(tick[t].due), p \in {"emit", "revert"} :
           tick' = [tick EXCEPT ![t].pc = p, ![t].due = @ \ {d}, ![t].row = r]
    BY <1>2 DEF Persist, PersistFails
  <2> DEFINE z == [tick[t] EXCEPT !.pc = p, !.due = @ \ {d}, !.row = r]
  <2>2. z \in Tick
    BY <1>0, <2>1 DEF Tick
  <2>3. tick' = [tick EXCEPT ![t] = z] /\ UNCHANGED lock
    BY <1>0, <2>1, <1>2 DEF Persist, PersistFails
  <2> HIDE DEF z
  <2> QED BY <1>0, <2>2, <2>3, TickTyped
<1>3. CASE Emit(t) \/ Revert(t)
  <2>1. PICK p \in {"fire", "revert"}, r \in {NoRow, tick[t].row} :
           tick' = [tick EXCEPT ![t].pc = p, ![t].row = r]
    BY <1>3, <1>0 DEF Emit, Revert, Tick
  <2> DEFINE z == [tick[t] EXCEPT !.pc = p, !.row = r]
  <2>2. z \in Tick
    BY <1>0, <2>1 DEF Tick
  <2>3. tick' = [tick EXCEPT ![t] = z] /\ UNCHANGED lock
    BY <1>0, <2>1, <1>3 DEF Emit, Revert
  <2> HIDE DEF z
  <2> QED BY <1>0, <2>2, <2>3, TickTyped
<1>4. CASE End(t) \/ ListFails(t)
  <2>1. Release(t) /\ tick' = [tick EXCEPT ![t] = NoTick]
    BY <1>4 DEF End, ListFails
  <2>2. NoTick \in Tick
    BY <1>0 DEF NoTick, Tick
  <2> QED BY <2>1, <2>2, ReleaseTyped, TickTyped
<1> QED BY <1>1, <1>2, <1>3, <1>4 DEF Proceed

LEMMA StartTyped ==
  ASSUME LockTyped, NEW t \in TickIds, Start(t)
  PROVE  LockTyped'
<1>1. PICK k \in {"pg-advisory", "sqlite-leader"} :
         tick' = [tick EXCEPT ![t].pc = "list", ![t].token = k]
  BY DEF Start, LeadPostgres, LeadSqlite, Lead
<1>2. lock' \in [Sessions -> Nat]
  <2>1. UNCHANGED lock \/ \E s \in Sessions : lock' = [lock EXCEPT ![s] = @ + 1]
    BY DEF Start, LeadPostgres, LeadSqlite, Pool
  <2> QED BY <2>1 DEF LockTyped
<1> DEFINE q == [tick[t] EXCEPT !.pc = "list", !.token = k]
<1>3. q \in Tick
  BY <1>1 DEF LockTyped, Tick
<1>4. tick' = [tick EXCEPT ![t] = q]
  BY <1>1 DEF LockTyped
<1> HIDE DEF q
<1> QED BY <1>2, <1>3, <1>4, TickTyped

LEMMA CrashTyped ==
  ASSUME LockTyped, NEW h \in Hosts, Crash(h)
  PROVE  LockTyped'
<1>1. \A t \in TickIds : NoTick \in Tick /\ tick[t] \in Tick
  BY DEF NoTick, LockTyped, Tick
<1>2. tick' \in [TickIds -> Tick]
  BY <1>1 DEF Crash
<1>3. lock' \in [Sessions -> Nat]
  BY DEF Crash, LockTyped
<1> QED BY <1>2, <1>3 DEF LockTyped

(* Every variable keeps its type, on both databases and whatever fails: in *)
(* particular a tick lists rows under a time they were scheduled for, and  *)
(* no session holds the lock less than not at all (advisoryLock.ts).       *)
THEOREM TypeCorrect == Spec => []TypeOK
<1>1. Init => SInv
  <2>1. LInv => LockTyped
    BY DEF LInv
  <2>2. Init => now \in Nat /\ up \subseteq Hosts
    BY DEF Init
  <2> QED BY <2>1, <2>2, RowStarts, LockStarts DEF SInv
<1>2. SInv /\ [Next]_vars => SInv'
  <2> SUFFICES ASSUME SInv, [Next]_vars PROVE SInv'
    OBVIOUS
  <2>1. RowInv'
    BY RowSteps DEF SInv
  <2>2. now' \in Nat
    <3>1. UNCHANGED now \/ now' = now + 1
      BY DEF Next, Start, LeadPostgres, LeadSqlite, Lead, Proceed, List, ListFails, Emit, Revert,
             End, Persist, PersistFails, User, Schedule, Cancel, Publish, SetStatus, Delete,
             Update, Crash, Restart, EndSession, Pass, vars
    <3> QED BY <3>1 DEF SInv
  <2>3. up' \subseteq Hosts
    <3>1. UNCHANGED up \/ \E h \in Hosts : up' = up \ {h} \/ up' = up \cup {h}
      BY DEF Next, Start, LeadPostgres, LeadSqlite, Lead, Proceed, List, ListFails, Emit, Revert,
             End, Persist, PersistFails, User, Schedule, Cancel, Publish, SetStatus, Delete,
             Update, Crash, Restart, EndSession, Pass, vars
    <3> QED BY <3>1 DEF SInv
  <2>4. LockTyped'
    <3>1. ASSUME UNCHANGED <<lock, tick>> PROVE LockTyped'
      BY <3>1 DEF SInv, LockTyped
    <3>2. ASSUME NEW r \in Rows, User(r) PROVE LockTyped'
      BY <3>1, <3>2 DEF User, Schedule, Cancel, Publish, SetStatus, Delete, Update
    <3>3. CASE Pass \/ (\E h \in Hosts : Restart(h)) \/ UNCHANGED vars
      BY <3>1, <3>3 DEF Pass, Restart, vars
    <3>4. ASSUME NEW s \in Sessions, EndSession(s) PROVE LockTyped'
      BY <3>4 DEF EndSession, SInv, LockTyped
    <3> QED BY <3>2, <3>3, <3>4, StartTyped, ProceedTyped, CrashTyped DEF Next, SInv
  <2> QED BY <2>1, <2>2, <2>3, <2>4 DEF SInv
<1>3. SInv => TypeOK
  BY DEF SInv, RowInv, LockTyped, TypeOK
<1> QED BY <1>1, <1>2, <1>3, PTL DEF Spec
=============================================================================
