-------------------------- MODULE RenderCache_proofs --------------------------
(***************************************************************************)
(* What a request's factory read is never older than what has been         *)
(* announced when its page is served from the cache, and no key is         *)
(* rendered twice at a time, for any number of requests, keys, writers and *)
(* entries; and the order of the entries is that of their last uses, so    *)
(* that what is evicted is what was used the longest ago.                  *)
(***************************************************************************)
EXTENDS RenderCache, PublishClock_proofs, SequenceTheorems

Rendering == {"rendering", "rendered"}

(* The types that the proof needs; the order of the entries does not matter *)
Typed ==
    /\ cache \in [Keys -> Entry \cup {None}]
    /\ inFlight \in [Keys -> Requests \cup {None}]
    /\ req \in [Requests -> Request]

(* No entry and no render is tagged with a version still to come, and those *)
(* of the current version saw every announced change.                       *)
Current ==
    /\ \A k \in Keys : cache[k] # None =>
          /\ cache[k].version <= version
          /\ cache[k].version = version => cache[k].data >= floor
    /\ \A r \in Requests : req[r].pc \in Rendering =>
          /\ req[r].start <= version
          /\ req[r].pc = "rendered" /\ req[r].start = version => req[r].data >= floor

(* Whoever renders a key owns its slot. *)
Owned == \A r \in Requests : req[r].pc \in Rendering => inFlight[req[r].key] = r

IInv == ClockInv /\ Typed /\ Current /\ Owned

-----------------------------------------------------------------------------
(* A step of one request that writes nothing but its own record. *)
LEMMA OwnStep ==
  ASSUME IInv, NEW r \in Requests, NEW q \in Request,
         req' = [req EXCEPT ![r] = q],
         UNCHANGED <<clock, cache>>,
         inFlight' \in [Keys -> Requests \cup {None}],
         q.pc \in Rendering =>
            /\ q.start <= version
            /\ q.pc = "rendered" /\ q.start = version => q.data >= floor,
         q.pc \in Rendering => inFlight'[q.key] = r,
         \A s \in Requests \ {r} : req[s].pc \in Rendering => inFlight'[req[s].key] = s
  PROVE  IInv'
<1>1. ClockInv'
  BY ClockStands DEF IInv
<1>2. Typed'
  BY DEF IInv, Typed
<1>3. /\ req'[r] = q
      /\ \A s \in Requests \ {r} : req'[s] = req[s]
      /\ UNCHANGED <<version, floor, cache>>
  BY DEF IInv, Typed, clock
<1>4. Current'
  BY <1>3 DEF IInv, Current
<1>5. Owned'
  BY <1>3 DEF IInv, Owned
<1> QED BY <1>1, <1>2, <1>4, <1>5 DEF IInv

(* A request that is no longer rendering. *)
LEMMA IdleStep ==
  ASSUME IInv, NEW r \in Requests, NEW q \in Request, q.pc \notin Rendering,
         req[r].pc \notin Rendering,
         req' = [req EXCEPT ![r] = q],
         UNCHANGED <<clock, cache, inFlight>>
  PROVE  IInv'
  BY OwnStep DEF IInv, Typed, Owned

LEMMA Finished ==
  ASSUME IInv, NEW r \in Requests, Finish(r), req[r].pc \notin Rendering,
         UNCHANGED <<clock, cache, inFlight>>
  PROVE  IInv'
<1> DEFINE q == [req[r] EXCEPT !.pc = "idle", !.start = 0, !.resolved = 0, !.data = 0]
<1>1. q \in Request /\ q.pc \notin Rendering
  BY DEF IInv, Typed, Request, Rendering
<1>2. req' = [req EXCEPT ![r] = q]
  BY DEF Finish, IInv, Typed, Request
<1> HIDE DEF q
<1> QED BY <1>1, <1>2, IdleStep

(* A render that settles frees the slot of its key; the entry it may store *)
(* saw every announced change.                                             *)
LEMMA Settled ==
  ASSUME IInv, NEW r \in Requests, req[r].pc \in Rendering, Settle(r),
         cache' \in [Keys -> Entry \cup {None}],
         \A k \in Keys : \/ cache'[k] \in {cache[k], None}
                         \/ /\ cache'[k].version = version
                            /\ cache'[k].data >= floor
  PROVE  IInv'
<1>1. ClockInv'
  BY ClockStands DEF IInv, Settle
<1>2. UNCHANGED <<version, floor>>
  BY DEF Settle, clock
<1>3. \A s \in Requests : \/ req'[s] = req[s] /\ s # r
                          \/ req'[s].pc = "idle" /\ req'[s] \in Request
  BY DEF Settle, IInv, Typed, Request
<1>4. Typed'
  <2>1. req' \in [Requests -> Request]
    BY <1>3 DEF Settle, IInv, Typed
  <2> QED BY <2>1 DEF Settle, IInv, Typed
<1>5. Current'
  <2>1. version \in Nat /\ floor \in Nat
    BY DEF IInv, ClockInv, ClockTypeOK
  <2>2. \A k \in Keys : cache'[k] # None =>
          /\ cache'[k].version <= version
          /\ cache'[k].version = version => cache'[k].data >= floor
    BY <2>1 DEF IInv, Current
  <2>3. \A s \in Requests : req'[s].pc \in Rendering => req'[s] = req[s]
    BY <1>3 DEF Rendering
  <2> QED BY <1>2, <2>2, <2>3 DEF IInv, Current
<1>6. Owned'
  <2> SUFFICES ASSUME NEW s \in Requests, req'[s].pc \in Rendering
               PROVE  inFlight'[req'[s].key] = s
    BY DEF Owned
  <2>1. req'[s] = req[s] /\ s # r
    BY <1>3 DEF Rendering
  <2>2. req[s].key # req[r].key
    BY <2>1 DEF IInv, Owned
  <2>3. req[s].key \in Keys
    BY DEF IInv, Typed, Request
  <2> QED BY <2>1, <2>2, <2>3 DEF Settle, IInv, Owned, Typed
<1> QED BY <1>1, <1>4, <1>5, <1>6 DEF IInv

-----------------------------------------------------------------------------
LEMMA Starts == Init => IInv
<1> SUFFICES ASSUME Init PROVE IInv
  OBVIOUS
<1>1. ClockInv
  BY ClockStarts DEF Init
<1>2. Typed
  BY DEF Init, Typed, Request
<1>3. \A r \in Requests : req[r].pc = "idle"
  BY DEF Init
<1> QED BY <1>1, <1>2, <1>3 DEF IInv, Init, Current, Owned, Rendering

LEMMA Writes ==
  ASSUME IInv, NEW w \in Writers, Write(w)
  PROVE  IInv'
<1>1. UNCHANGED <<cache, inFlight, req>>
  BY DEF Write
<1>2. Typed' /\ Owned'
  BY <1>1 DEF IInv, Typed, Owned
<1>3. CASE PublishCommit(w) \/ RetractCommit(w)
  <2>1. ClockInv' /\ UNCHANGED <<version, floor>>
    BY <1>3, ClockCommits DEF IInv
  <2>2. Current'
    BY <1>1, <2>1 DEF IInv, Current
  <2> QED BY <1>2, <2>1, <2>2 DEF IInv
<1>4. CASE PublishBump(w) \/ RetractBump(w)
  <2>1. ClockInv' /\ version' = version + 1
    BY <1>4, ClockBumps DEF IInv
  <2>2. version \in Nat
    BY DEF IInv, ClockInv, ClockTypeOK
  <2>3. \A k \in Keys : cache[k] # None => cache[k].version \in Nat
    BY DEF IInv, Typed, Entry
  <2>4. \A r \in Requests : req[r].start \in Nat
    BY DEF IInv, Typed, Request
  <2>5. Current'
    BY <1>1, <2>1, <2>2, <2>3, <2>4 DEF IInv, Current
  <2> QED BY <1>2, <2>1, <2>5 DEF IInv
<1> QED BY <1>3, <1>4 DEF Write

LEMMA Renders ==
  ASSUME IInv, NEW r \in Requests, Render(r)
  PROVE  IInv'
<1> DEFINE q == [req[r] EXCEPT !.pc = "rendering", !.start = version]
<1>1. /\ q \in Request /\ q.pc = "rendering" /\ q.start = version /\ q.key = req[r].key
      /\ req[r].key \in Keys /\ version \in Nat
  BY DEF IInv, Typed, Request, ClockInv, ClockTypeOK
<1>2. req' = [req EXCEPT ![r] = q]
  BY DEF Render, IInv, Typed, Request
<1> HIDE DEF q
<1>3. inFlight' \in [Keys -> Requests \cup {None}] /\ inFlight'[q.key] = r
  BY <1>1 DEF Render, IInv, Typed
<1>4. \A s \in Requests \ {r} : req[s].pc \in Rendering => inFlight'[req[s].key] = s
  <2> SUFFICES ASSUME NEW s \in Requests \ {r}, req[s].pc \in Rendering
               PROVE  inFlight'[req[s].key] = s
    OBVIOUS
  <2>1. inFlight[req[s].key] = s /\ req[s].key \in Keys
    BY DEF IInv, Typed, Owned, Request
  <2>2. inFlight[req[r].key] # s
    BY CacheAssumption DEF Render
  <2> QED BY <1>1, <2>1, <2>2 DEF Render, IInv, Typed
<1>5. q.start <= version /\ q.pc # "rendered" /\ UNCHANGED <<clock, cache>>
  BY <1>1 DEF Render
<1> QED BY <1>1, <1>2, <1>3, <1>4, <1>5, OwnStep

LEMMA Reads ==
  ASSUME IInv, NEW r \in Requests, FactoryRead(r)
  PROVE  IInv'
<1> DEFINE q == [req[r] EXCEPT !.pc = "rendered", !.data = content]
<1>1. /\ q \in Request /\ q.pc = "rendered" /\ q.start = req[r].start /\ q.key = req[r].key
      /\ q.data = content
  BY DEF IInv, Typed, Request, ClockInv, ClockTypeOK
<1>2. req' = [req EXCEPT ![r] = q]
  BY DEF FactoryRead, IInv, Typed, Request
<1> HIDE DEF q
<1>3. req[r].start <= version /\ content >= floor
  BY DEF IInv, Current, ClockInv, ClockTypeOK, Announced, FactoryRead, Rendering
<1>4. inFlight[req[r].key] = r
  BY DEF IInv, Owned, FactoryRead, Rendering
<1>5. \A s \in Requests : req[s].pc \in Rendering => inFlight[req[s].key] = s
  BY DEF IInv, Owned
<1>6. UNCHANGED <<clock, cache, inFlight>> /\ inFlight \in [Keys -> Requests \cup {None}]
  BY DEF FactoryRead, IInv, Typed
<1> QED BY <1>1, <1>2, <1>3, <1>4, <1>5, <1>6, OwnStep

LEMMA Ends ==
  ASSUME IInv, NEW r \in Requests, RenderEnd(r)
  PROVE  IInv'
<1>1. req[r].pc = "rendered" /\ req[r].pc \in Rendering /\ Settle(r)
  BY DEF RenderEnd, Rendering
<1>2. CASE version # req[r].start
  <2>1. cache' = cache
    BY <1>2 DEF RenderEnd
  <2>2. cache' \in [Keys -> Entry \cup {None}]
    BY <2>1 DEF IInv, Typed
  <2> QED BY <1>1, <2>1, <2>2, Settled
<1>3. CASE version = req[r].start
  <2> DEFINE e == [version |-> req[r].start, resolved |-> req[r].resolved, data |-> req[r].data]
             k == req[r].key
  <2>1. e \in Entry /\ e.version = version /\ e.data = req[r].data /\ k \in Keys
    BY <1>3 DEF Entry, IInv, Typed, Request
  <2>2. e.data >= floor
    BY <1>1, <1>3, <2>1 DEF IInv, Current
  <2>3. Store(k, e)
    BY <1>3 DEF RenderEnd
  <2> HIDE DEF e, k
  <2>4. PICK v : \/ cache' = [cache EXCEPT ![v] = None, ![k] = e]
                 \/ cache' = [cache EXCEPT ![k] = e]
    BY <2>3 DEF Store
  <2>5. /\ cache' \in [Keys -> Entry \cup {None}]
        /\ \A j \in Keys : cache'[j] \in {cache[j], None} \/ cache'[j] = e
    BY <2>1, <2>4 DEF IInv, Typed
  <2> QED BY <1>1, <2>1, <2>2, <2>5, Settled
<1> QED BY <1>2, <1>3

LEMMA Fails ==
  ASSUME IInv, NEW r \in Requests, RenderFails(r)
  PROVE  IInv'
<1>1. req[r].pc \in Rendering /\ Settle(r) /\ cache' = cache
  BY DEF RenderFails, Rendering
<1>2. cache' \in [Keys -> Entry \cup {None}]
  BY <1>1 DEF IInv, Typed
<1> QED BY <1>1, <1>2, Settled

(* The steps that neither start nor end a render *)
LEMMA OtherSteps ==
  ASSUME IInv, NEW r \in Requests, NEW k \in Keys,
         \/ PeekHit(r, k) \/ PeekMiss(r, k)
         \/ Resolve(r) \/ ResolveElse(r) \/ Hit(r) \/ Join(r)
  PROVE  IInv'
<1>0. UNCHANGED <<clock, cache, inFlight>>
  BY DEF PeekHit, PeekMiss, Resolve, ResolveElse, Hit, Join
<1>1. CASE PeekHit(r, k)
  <2>1. UNCHANGED <<clock, cache, inFlight, req>>
    BY <1>1 DEF PeekHit
  <2>2. ClockInv'
    BY <1>0, ClockStands DEF IInv
  <2> QED BY <2>1, <2>2 DEF IInv, Typed, Current, Owned, clock
<1>2. CASE PeekMiss(r, k)
  <2> DEFINE q == [req[r] EXCEPT !.pc = "resolving", !.key = k]
  <2>1. q \in Request /\ q.pc \notin Rendering
    BY DEF IInv, Typed, Request, Rendering
  <2>2. req' = [req EXCEPT ![r] = q] /\ req[r].pc \notin Rendering
    BY <1>2 DEF PeekMiss, IInv, Typed, Request, Rendering
  <2> HIDE DEF q
  <2> QED BY <1>0, <2>1, <2>2, IdleStep
<1>3. CASE Resolve(r)
  <2> DEFINE q == [req[r] EXCEPT !.pc = "resolved", !.resolved = content]
  <2>1. q \in Request /\ q.pc \notin Rendering
    BY DEF IInv, Typed, Request, Rendering, ClockInv, ClockTypeOK
  <2>2. req' = [req EXCEPT ![r] = q] /\ req[r].pc \notin Rendering
    BY <1>3 DEF Resolve, IInv, Typed, Request, Rendering
  <2> HIDE DEF q
  <2> QED BY <1>0, <2>1, <2>2, IdleStep
<1>4. CASE ResolveElse(r)
  BY <1>0, <1>4, Finished DEF ResolveElse, Rendering
<1>5. CASE Hit(r)
  BY <1>0, <1>5, Finished DEF Hit, Rendering
<1>6. CASE Join(r)
  <2> DEFINE q == [req[r] EXCEPT !.pc = "joined"]
  <2>1. q \in Request /\ q.pc \notin Rendering
    BY DEF IInv, Typed, Request, Rendering
  <2>2. req' = [req EXCEPT ![r] = q] /\ req[r].pc \notin Rendering
    BY <1>6 DEF Join, IInv, Typed, Request, Rendering
  <2> HIDE DEF q
  <2> QED BY <1>0, <2>1, <2>2, IdleStep
<1> QED BY <1>1, <1>2, <1>3, <1>4, <1>5, <1>6

LEMMA Stands == IInv /\ UNCHANGED vars => IInv'
<1> SUFFICES ASSUME IInv, UNCHANGED vars PROVE IInv'
  OBVIOUS
<1>1. UNCHANGED clock /\ UNCHANGED <<cache, inFlight, req>>
  BY DEF vars
<1>2. ClockInv'
  BY <1>1, ClockStands DEF IInv
<1> QED BY <1>1, <1>2 DEF IInv, Typed, Current, Owned, clock

(* The inductive invariant holds in every reachable state. *)
THEOREM Invariance == Spec => []IInv
<1>1. IInv /\ [Next]_vars => IInv'
  <2> SUFFICES ASSUME IInv, [Next]_vars PROVE IInv'
    OBVIOUS
  <2>1. ASSUME NEW r \in Requests, Proceed(r) PROVE IInv'
    <3>1. PICK k \in Keys : TRUE
      BY DEF IInv, Typed, Request
    <3> QED BY <2>1, <3>1, OtherSteps, Renders, Reads, Ends, Fails DEF Proceed
  <2>2. ASSUME NEW r \in Requests, NEW k \in Keys, PeekHit(r, k) \/ PeekMiss(r, k) PROVE IInv'
    BY <2>2, OtherSteps
  <2>3. ASSUME NEW w \in Writers, Write(w) PROVE IInv'
    BY <2>3, Writes
  <2>4. CASE UNCHANGED vars
    BY <2>4, Stands
  <2> QED BY <2>1, <2>2, <2>3, <2>4 DEF Next
<1> QED BY <1>1, Starts, PTL DEF Spec

(* What the factory of a page served from the cache read shows every       *)
(* change that a bump has announced (renderCache.ts, getOrRender).         *)
THEOREM DataTheorem == Spec => []DataIsFresh
<1>1. IInv => DataIsFresh
  BY DEF IInv, Current, DataIsFresh, Fresh
<1> QED BY <1>1, Invariance, PTL

(* A key is rendered by one request at a time (renderCache.ts, the         *)
(* single-flight).                                                         *)
THEOREM SingleFlightTheorem == Spec => []OneRenderPerKey
<1>1. IInv => OneRenderPerKey
  BY DEF IInv, Owned, OneRenderPerKey, Rendering
<1> QED BY <1>1, Invariance, PTL

-----------------------------------------------------------------------------
(* The least recently used order.  The keys of the Map are the most recent *)
(* of the keys ever used, the newest last.                                 *)

Distinct(s) == \A i, j \in 1..Len(s) : s[i] = s[j] => i = j

Listed(s) == {s[i] : i \in 1..Len(s)}

Mirrors(s, h) ==
    /\ Len(s) = IF Len(h) < MaxEntries THEN Len(h) ELSE MaxEntries
    /\ \A i \in 1..Len(s) : s[i] = h[Len(s) + 1 - i]

LruInv ==
    /\ order \in Seq(Keys) /\ recent \in Seq(Keys)
    /\ Distinct(recent)
    /\ Mirrors(order, recent)
    /\ {k \in Keys : cache[k] # None} = Listed(order)

(* What is left when a key is taken out of a Map *)
LEMMA WithoutAbsent ==
  ASSUME NEW s \in Seq(Keys), NEW k \in Keys, \A i \in 1..Len(s) : s[i] # k
  PROVE  Without(s, k) = s
  BY DEF Without

LEMMA WithoutPresent ==
  ASSUME NEW s \in Seq(Keys), NEW i \in 1..Len(s), Distinct(s)
  PROVE  /\ Without(s, s[i]) \in Seq(Keys)
         /\ Len(Without(s, s[i])) = Len(s) - 1
         /\ \A j \in 1..Len(s) - 1 : Without(s, s[i])[j] = IF j < i THEN s[j] ELSE s[j + 1]
<1> DEFINE n == CHOOSE m \in 1..Len(s) : s[m] = s[i]
<1>1. n = i
  BY DEF Distinct
<1>2. Without(s, s[i]) = SubSeq(s, 1, n - 1) \o SubSeq(s, n + 1, Len(s))
  BY DEF Without
<1> HIDE DEF n
<1>3. Without(s, s[i]) = SubSeq(s, 1, i - 1) \o SubSeq(s, i + 1, Len(s))
  BY <1>1, <1>2
<1>4. /\ SubSeq(s, 1, i - 1) \in Seq(Keys) /\ Len(SubSeq(s, 1, i - 1)) = i - 1
      /\ \A j \in 1..i - 1 : SubSeq(s, 1, i - 1)[j] = s[j]
  OBVIOUS
<1>5. /\ SubSeq(s, i + 1, Len(s)) \in Seq(Keys) /\ Len(SubSeq(s, i + 1, Len(s))) = Len(s) - i
      /\ \A j \in 1..Len(s) - i : SubSeq(s, i + 1, Len(s))[j] = s[i + j]
  OBVIOUS
<1> DEFINE a == SubSeq(s, 1, i - 1)
           b == SubSeq(s, i + 1, Len(s))
<1>6. Without(s, s[i]) = a \o b
  BY <1>3
<1>7. /\ a \in Seq(Keys) /\ Len(a) = i - 1 /\ \A j \in 1..i - 1 : a[j] = s[j]
      /\ b \in Seq(Keys) /\ Len(b) = Len(s) - i /\ \A j \in 1..Len(s) - i : b[j] = s[i + j]
  BY <1>4, <1>5
<1> HIDE DEF a, b
<1>8. /\ a \o b \in Seq(Keys) /\ Len(a \o b) = Len(a) + Len(b)
      /\ \A j \in 1..Len(a) + Len(b) : (a \o b)[j] = IF j <= Len(a) THEN a[j] ELSE b[j - Len(a)]
  BY <1>7, ConcatProperties
<1>9. Len(s) \in Nat
  OBVIOUS
<1>10. ASSUME NEW j \in 1..Len(s) - 1 PROVE (a \o b)[j] = IF j < i THEN s[j] ELSE s[j + 1]
  <2>1. CASE j < i
    <3>1. j <= i - 1 /\ j \in 1..i - 1 /\ j \in 1..Len(a) + Len(b)
      BY <2>1, <1>7, <1>9
    <3> QED BY <3>1, <2>1, <1>7, <1>8
  <2>2. CASE ~(j < i)
    <3>1. /\ j - (i - 1) \in 1..Len(s) - i /\ i + (j - (i - 1)) = j + 1
          /\ ~(j <= i - 1) /\ j \in 1..Len(a) + Len(b)
      BY <2>2, <1>7, <1>9
    <3> QED BY <3>1, <2>2, <1>7, <1>8
  <2> QED BY <2>1, <2>2
<1> QED BY <1>6, <1>7, <1>8, <1>9, <1>10

(* A key is used: it becomes the newest of the history and the last of the *)
(* Map, from which the first key goes when the Map is full.                *)
Pushed(s, k) == LET others == Without(s, k)
                IN  Append(IF Len(others) >= MaxEntries THEN Tail(others) ELSE others, k)

LEMMA PrependDistinct ==
  ASSUME NEW h \in Seq(Keys), Distinct(h), NEW k \in Keys
  PROVE  LET g == <<k>> \o Without(h, k)
         IN  /\ g \in Seq(Keys) /\ Distinct(g) /\ g[1] = k
             /\ \/ /\ \A i \in 1..Len(h) : h[i] # k
                   /\ Len(g) = Len(h) + 1
                   /\ \A j \in 1..Len(h) : g[j + 1] = h[j]
                \/ \E i \in 1..Len(h) :
                      /\ h[i] = k
                      /\ Len(g) = Len(h)
                      /\ \A j \in 2..Len(h) : g[j] = IF j <= i THEN h[j - 1] ELSE h[j]
<1> DEFINE w == Without(h, k)
           g == <<k>> \o w
<1>1. Len(h) \in Nat
  OBVIOUS
<1>2. ASSUME w \in Seq(Keys)
      PROVE  /\ g \in Seq(Keys) /\ Len(g) = Len(w) + 1 /\ g[1] = k
             /\ \A j \in 2..Len(w) + 1 : g[j] = w[j - 1]
  <2> HIDE DEF w
  <2> QED BY <1>2
<1>3. CASE \A i \in 1..Len(h) : h[i] # k
  <2>1. w = h
    BY <1>3, WithoutAbsent
  <2> HIDE DEF w
  <2>2. g \in Seq(Keys) /\ Len(g) = Len(h) + 1 /\ g[1] = k /\ \A j \in 2..Len(h) + 1 : g[j] = h[j - 1]
    BY <1>2, <2>1
  <2> HIDE DEF g
  <2>3. \A j \in 1..Len(h) : g[j + 1] = h[j]
    BY <2>2, <1>1
  <2>4. Distinct(g)
    BY <1>3, <2>2, <1>1 DEF Distinct
  <2> QED BY <1>3, <2>2, <2>3, <2>4 DEF g, w
<1>4. ASSUME NEW i \in 1..Len(h), h[i] = k
      PROVE  /\ g \in Seq(Keys) /\ Distinct(g) /\ g[1] = k /\ Len(g) = Len(h)
             /\ \A j \in 2..Len(h) : g[j] = IF j <= i THEN h[j - 1] ELSE h[j]
  <2>1. /\ w \in Seq(Keys) /\ Len(w) = Len(h) - 1
        /\ \A j \in 1..Len(h) - 1 : w[j] = IF j < i THEN h[j] ELSE h[j + 1]
    BY <1>4, WithoutPresent
  <2>2. g \in Seq(Keys) /\ Len(g) = Len(h) /\ g[1] = k /\ \A j \in 2..Len(h) : g[j] = w[j - 1]
    BY <1>1, <1>2, <2>1
  <2> HIDE DEF g, w
  <2>3. \A j \in 2..Len(h) : g[j] = IF j <= i THEN h[j - 1] ELSE h[j]
    BY <2>1, <2>2, <1>1
  <2>4. Distinct(g)
    <3> SUFFICES ASSUME NEW j \in 1..Len(h), NEW m \in 1..Len(h), g[j] = g[m] PROVE j = m
      BY <2>2 DEF Distinct
    <3>1. \A j1, m1 \in 1..Len(h) : h[j1] = h[m1] => j1 = m1
      BY DEF Distinct
    <3>2. \A q \in 2..Len(h) : \E v \in 1..Len(h) : 
             g[q] = h[v] /\ v # i /\ v = IF q <= i THEN q - 1 ELSE q
      BY <2>3, <1>1
    <3>3. \A q \in 2..Len(h) : g[q] # k
      BY <3>1, <3>2, <1>4
    <3>4. CASE j = 1 \/ m = 1
      BY <3>3, <3>4, <2>2, <1>1
    <3>5. CASE j \in 2..Len(h) /\ m \in 2..Len(h)
      <4>1. PICK v \in 1..Len(h) : g[j] = h[v] /\ v # i /\ v = IF j <= i THEN j - 1 ELSE j
        BY <3>2, <3>5
      <4>2. PICK u \in 1..Len(h) : g[m] = h[u] /\ u # i /\ u = IF m <= i THEN m - 1 ELSE m
        BY <3>2, <3>5
      <4>3. v = u
        BY <4>1, <4>2, <3>1
      <4> QED BY <4>1, <4>2, <4>3, <3>5, <1>1
    <3> QED BY <3>4, <3>5, <1>1
  <2> QED BY <2>2, <2>3, <2>4
<1> QED BY <1>3, <1>4

LEMMA PushedPresent ==
  ASSUME NEW s \in Seq(Keys), Distinct(s), Len(s) <= MaxEntries, NEW p \in 1..Len(s)
  PROVE  LET o == Pushed(s, s[p])
         IN  /\ Len(Without(s, s[p])) < MaxEntries
             /\ o \in Seq(Keys) /\ Len(o) = Len(s) /\ o[Len(s)] = s[p]
             /\ \A j \in 1..Len(s) - 1 : o[j] = IF j < p THEN s[j] ELSE s[j + 1]
<1> DEFINE k == s[p]
           w == Without(s, k)
           o == Append(w, k)
<1>1. /\ w \in Seq(Keys) /\ Len(w) = Len(s) - 1
      /\ \A j \in 1..Len(s) - 1 : w[j] = IF j < p THEN s[j] ELSE s[j + 1]
  BY WithoutPresent
<1>2. Len(s) \in Nat /\ MaxEntries \in Nat /\ k \in Keys
  BY CacheAssumption
<1>3. Len(w) < MaxEntries /\ ~(Len(w) >= MaxEntries)
  BY <1>1, <1>2
<1>4. Pushed(s, k) = o
  BY <1>3 DEF Pushed
<1> HIDE DEF w, k
<1>5. o \in Seq(Keys) /\ Len(o) = Len(w) + 1 /\ o[Len(w) + 1] = k /\ \A j \in 1..Len(w) : o[j] = w[j]
  BY <1>1, <1>2, AppendProperties
<1>6. Len(o) = Len(s) /\ Len(w) + 1 = Len(s)
  BY <1>1, <1>2, <1>5
<1> HIDE DEF o
<1>7. o[Len(s)] = k /\ \A j \in 1..Len(s) - 1 : o[j] = w[j]
  BY <1>1, <1>5, <1>6
<1> QED BY <1>1, <1>3, <1>4, <1>5, <1>6, <1>7 DEF k, w

LEMMA PushedAbsent ==
  ASSUME NEW s \in Seq(Keys), Len(s) <= MaxEntries, NEW k \in Keys, \A i \in 1..Len(s) : s[i] # k
  PROVE  LET o == Pushed(s, k)
         IN  /\ Without(s, k) = s
             /\ o \in Seq(Keys)
             /\ Len(s) < MaxEntries =>
                  Len(o) = Len(s) + 1 /\ o[Len(s) + 1] = k /\ \A j \in 1..Len(s) : o[j] = s[j]
             /\ Len(s) = MaxEntries =>
                  Len(o) = Len(s) /\ o[Len(s)] = k /\ \A j \in 1..Len(s) - 1 : o[j] = s[j + 1]
<1>1. Without(s, k) = s
  BY WithoutAbsent
<1>2. Len(s) \in Nat /\ MaxEntries \in Nat /\ MaxEntries > 0
  BY CacheAssumption
<1>3. CASE Len(s) < MaxEntries
  <2>1. Pushed(s, k) = Append(s, k)
    BY <1>1, <1>2, <1>3 DEF Pushed
  <2> DEFINE o == Append(s, k)
  <2>2. o \in Seq(Keys) /\ Len(o) = Len(s) + 1 /\ o[Len(s) + 1] = k /\ \A j \in 1..Len(s) : o[j] = s[j]
    BY <1>2, AppendProperties
  <2> QED BY <1>1, <1>2, <1>3, <2>1, <2>2
<1>4. CASE Len(s) = MaxEntries
  <2> DEFINE t == Tail(s)
             o == Append(t, k)
  <2>1. Pushed(s, k) = o
    BY <1>1, <1>2, <1>4 DEF Pushed
  <2>2. t \in Seq(Keys) /\ Len(t) = Len(s) - 1 /\ \A j \in 1..Len(s) - 1 : t[j] = s[j + 1]
    BY <1>2, <1>4
  <2> HIDE DEF t
  <2>3. o \in Seq(Keys) /\ Len(o) = Len(t) + 1 /\ o[Len(t) + 1] = k /\ \A j \in 1..Len(t) : o[j] = t[j]
    BY <2>2, AppendProperties
  <2> HIDE DEF o
  <2>4. Len(o) = Len(s) /\ o[Len(s)] = k /\ \A j \in 1..Len(s) - 1 : o[j] = s[j + 1]
    BY <1>2, <2>2, <2>3
  <2> QED BY <1>1, <1>4, <2>1, <2>3, <2>4
<1> QED BY <1>2, <1>3, <1>4

(* The Map goes on mirroring the history when a key is used. *)
LEMMA MirrorsOn ==
  ASSUME NEW s \in Seq(Keys), NEW h \in Seq(Keys), Distinct(h), Mirrors(s, h), NEW k \in Keys
  PROVE  LET w == Without(s, k)
         IN  /\ Pushed(s, k) \in Seq(Keys)
             /\ Mirrors(Pushed(s, k), <<k>> \o Without(h, k))
             /\ Listed(Pushed(s, k)) =
                  {k} \cup (IF Len(w) >= MaxEntries THEN Listed(s) \ {Head(w)} ELSE Listed(s))
<1> DEFINE g == <<k>> \o Without(h, k)
           o == Pushed(s, k)
           w == Without(s, k)
           n == Len(s)
<1>0. /\ n \in Nat /\ Len(h) \in Nat /\ MaxEntries \in Nat \ {0} /\ n <= MaxEntries /\ n <= Len(h)
      /\ n < Len(h) => n = MaxEntries
      /\ n < MaxEntries => n = Len(h)
      /\ \A i \in 1..n : s[i] = h[n + 1 - i] /\ n + 1 - i \in 1..Len(h)
  BY CacheAssumption DEF Mirrors
<1>1. Distinct(s)
  <2> SUFFICES ASSUME NEW i \in 1..n, NEW j \in 1..n, s[i] = s[j] PROVE i = j
    BY DEF Distinct
  <2>1. n + 1 - i = n + 1 - j
    BY <1>0 DEF Distinct
  <2> QED BY <2>1, <1>0
<1>2. /\ g \in Seq(Keys) /\ Distinct(g) /\ g[1] = k
      /\ \/ /\ \A i \in 1..Len(h) : h[i] # k
            /\ Len(g) = Len(h) + 1
            /\ \A j \in 1..Len(h) : g[j + 1] = h[j]
         \/ \E i \in 1..Len(h) :
               /\ h[i] = k
               /\ Len(g) = Len(h)
               /\ \A j \in 2..Len(h) : g[j] = IF j <= i THEN h[j - 1] ELSE h[j]
  BY PrependDistinct
<1>3. CASE \E i \in 1..n : h[i] = k
  <2>1. PICK i \in 1..n : h[i] = k
    BY <1>3
  <2> DEFINE p == n + 1 - i
  <2>2. p \in 1..n /\ s[p] = k /\ i \in 1..Len(h) /\ n + 1 - p = i
    <3>1. p \in 1..n /\ i \in 1..Len(h) /\ n + 1 - p = i
      <4>1. n \in Nat /\ Len(h) \in Nat /\ n <= Len(h)
        BY <1>0
      <4> HIDE DEF n
      <4> QED BY <2>1, <4>1
    <3>2. s[p] = h[n + 1 - p]
      BY <3>1, <1>0
    <3> QED BY <2>1, <3>1, <3>2
  <2>3. Len(w) < MaxEntries /\ o \in Seq(Keys) /\ Len(o) = n /\ o[n] = k
        /\ \A j \in 1..n - 1 : o[j] = IF j < p THEN s[j] ELSE s[j + 1]
    <3>1. s \in Seq(Keys) /\ Len(s) <= MaxEntries
      BY <1>0
    <3> HIDE DEF p
    <3> QED BY <1>1, <2>2, <3>1, PushedPresent
  <2>4. Len(g) = Len(h) /\ \A j \in 2..Len(h) : g[j] = IF j <= i THEN h[j - 1] ELSE h[j]
    BY <1>2, <2>1, <2>2 DEF Distinct
  <2>5. ~(Len(w) >= MaxEntries)
    <3>1. Len(w) \in Nat
      BY <2>2, <1>1, <1>0, WithoutPresent
    <3> QED BY <3>1, <2>3, <1>0
  <2>10. i \in 1..n /\ n \in Nat /\ Len(h) \in Nat /\ n <= Len(h) /\ p = n + 1 - i
    BY <1>0, <2>1
  <2> HIDE DEF o, g, p, w, n
  <2>6. Mirrors(o, g)
    <3>1. Len(o) = IF Len(g) < MaxEntries THEN Len(g) ELSE MaxEntries
      BY <1>0, <2>3, <2>4
    <3>2. ASSUME NEW j \in 1..n PROVE o[j] = g[n + 1 - j]
      <4>1. CASE j = n
        BY <4>1, <2>3, <1>2, <1>0
      <4>2. CASE j < n /\ j < p
        <5>1. n + 1 - j \in 2..Len(h) /\ ~(n + 1 - j <= i) /\ j \in 1..n - 1
          BY <4>2, <2>10
        <5> QED BY <5>1, <4>2, <2>3, <2>4, <1>0
      <4>3. CASE j < n /\ ~(j < p)
        <5>1. /\ n + 1 - j \in 2..Len(h) /\ n + 1 - j <= i /\ j \in 1..n - 1 /\ j + 1 \in 1..n
              /\ n + 1 - (j + 1) = (n + 1 - j) - 1
          BY <4>3, <2>10
        <5>2. s[j + 1] = h[(n + 1 - j) - 1]
          BY <5>1, <1>0
        <5> QED BY <5>1, <5>2, <4>3, <2>3, <2>4
      <4> QED BY <4>1, <4>2, <4>3, <1>0
    <3> QED BY <3>1, <3>2, <2>3 DEF Mirrors
  <2>7. Listed(o) = {k} \cup Listed(s)
    <3>1. ASSUME NEW j \in 1..n PROVE o[j] \in Listed(s)
      <4>1. CASE j = n
        BY <4>1, <2>2, <2>3 DEF Listed, n
      <4>2. CASE j < n
        <5>1. j \in 1..n - 1 /\ j \in 1..n /\ j + 1 \in 1..n
          BY <4>2, <1>0
        <5> QED BY <5>1, <2>3 DEF Listed, n
      <4> QED BY <4>1, <4>2, <1>0
    <3>2. ASSUME NEW j \in 1..n PROVE s[j] \in Listed(o)
      <4>1. CASE j = p
        <5>1. n \in 1..n
          BY <1>0
        <5> QED BY <4>1, <5>1, <2>2, <2>3 DEF Listed
      <4>2. CASE j < p
        <5>1. j \in 1..n - 1 /\ j \in 1..n
          BY <4>2, <2>2, <1>0
        <5> QED BY <5>1, <4>2, <2>3 DEF Listed
      <4>3. CASE j > p
        <5>1. j - 1 \in 1..n - 1 /\ j - 1 \in 1..n /\ ~(j - 1 < p) /\ (j - 1) + 1 = j
          BY <4>3, <2>2, <1>0
        <5>2. o[j - 1] = s[j]
          BY <5>1, <2>3
        <5> QED BY <5>1, <5>2, <2>3 DEF Listed
      <4> QED BY <4>1, <4>2, <4>3, <2>2
    <3>3. k \in Listed(s)
      BY <2>2 DEF Listed, n
    <3>4. \A x : x \in Listed(o) => \E j \in 1..n : x = o[j]
      BY <2>3 DEF Listed
    <3>5. \A x : x \in Listed(s) => \E j \in 1..n : x = s[j]
      BY DEF Listed, n
    <3> QED BY <3>1, <3>2, <3>3, <3>4, <3>5
  <2> QED BY <2>3, <2>5, <2>6, <2>7 DEF o, g, w, n
<1>4. CASE \A i \in 1..n : h[i] # k
  <2>1. \A i \in 1..n : s[i] # k
    <3> SUFFICES ASSUME NEW i \in 1..n PROVE s[i] # k
      OBVIOUS
    <3>1. n + 1 - i \in 1..n
      BY <1>0
    <3> QED BY <3>1, <1>0, <1>4
  <2>2. \A j \in 2..n + 1 : j <= Len(g) => g[j] = h[j - 1]
    <3> SUFFICES ASSUME NEW j \in 2..n + 1, j <= Len(g) PROVE g[j] = h[j - 1]
      OBVIOUS
    <3>1. CASE \A i \in 1..Len(h) : h[i] # k
      <4>1. j - 1 \in 1..Len(h) /\ (j - 1) + 1 = j
        BY <1>0
      <4>2. \A m \in 1..Len(h) : g[m + 1] = h[m]
        BY <3>1, <1>2
      <4> HIDE DEF g
      <4> QED BY <4>1, <4>2
    <3>2. CASE \E i \in 1..Len(h) : h[i] = k
      <4>1. PICK i \in 1..Len(h) : /\ h[i] = k /\ Len(g) = Len(h)
                                   /\ \A m \in 2..Len(h) : g[m] = IF m <= i THEN h[m - 1] ELSE h[m]
        BY <3>2, <1>2
      <4>2. i > n /\ j <= i /\ j \in 2..Len(h)
        BY <4>1, <1>0, <1>4
      <4> QED BY <4>1, <4>2
    <3> QED BY <3>1, <3>2
  <2>3. Len(g) >= Len(h) /\ (n = Len(h) => Len(g) = Len(h) + 1) /\ Len(g) \in Nat /\ Len(g) <= Len(h) + 1
    BY <1>0, <1>2, <1>4
  <2>4. /\ w = s /\ o \in Seq(Keys)
        /\ n < MaxEntries => Len(o) = n + 1 /\ o[n + 1] = k /\ \A j \in 1..n : o[j] = s[j]
        /\ n = MaxEntries => Len(o) = n /\ o[n] = k /\ \A j \in 1..n - 1 : o[j] = s[j + 1]
    BY <1>0, <2>1, PushedAbsent
  <2> HIDE DEF o, g, w
  <2>5. CASE n < MaxEntries
    <3>1. n = Len(h) /\ Len(g) = n + 1 /\ Len(o) = n + 1
      BY <2>3, <2>4, <2>5, <1>0
    <3>2. ASSUME NEW j \in 1..n + 1 PROVE o[j] = g[(n + 1) + 1 - j]
      <4>1. CASE j = n + 1
        BY <4>1, <2>4, <2>5, <1>2, <1>0
      <4>2. CASE j \in 1..n
        <5>1. /\ (n + 1) + 1 - j \in 2..n + 1 /\ (n + 1) + 1 - j <= Len(g)
              /\ ((n + 1) + 1 - j) - 1 = n + 1 - j
          BY <4>2, <3>1, <1>0
        <5>2. g[(n + 1) + 1 - j] = h[n + 1 - j]
          BY <5>1, <2>2
        <5> QED BY <5>2, <4>2, <2>4, <2>5, <1>0
      <4> QED BY <4>1, <4>2, <1>0
    <3>3. Mirrors(o, g)
      <4>1. Len(o) = IF Len(g) < MaxEntries THEN Len(g) ELSE MaxEntries
        BY <3>1, <2>5, <1>0
      <4> QED BY <3>1, <3>2, <4>1 DEF Mirrors
    <3>4. Listed(o) = {k} \cup Listed(s)
      <4>1. n + 1 \in 1..n + 1 /\ 1..n + 1 = 1..n \cup {n + 1}
        BY <1>0
      <4> QED BY <4>1, <3>1, <2>4, <2>5 DEF Listed
    <3>5. ~(Len(w) >= MaxEntries)
      BY <2>4, <2>5, <1>0
    <3> QED BY <2>4, <3>3, <3>4, <3>5 DEF o, g, w
  <2>6. CASE n = MaxEntries
    <3>1. Len(o) = n /\ Len(g) >= n
      BY <2>3, <2>4, <2>6, <1>0
    <3>2. ASSUME NEW j \in 1..n PROVE o[j] = g[n + 1 - j]
      <4>1. CASE j = n
        BY <4>1, <2>4, <2>6, <1>2, <1>0
      <4>2. CASE j \in 1..n - 1
        <5>1. /\ n + 1 - j \in 2..n + 1 /\ n + 1 - j <= Len(g) /\ j + 1 \in 1..n
              /\ (n + 1 - j) - 1 = n + 1 - (j + 1)
          BY <4>2, <3>1, <2>3, <1>0
        <5>2. g[n + 1 - j] = h[n + 1 - (j + 1)]
          BY <5>1, <2>2
        <5>3. s[j + 1] = h[n + 1 - (j + 1)]
          BY <5>1, <1>0
        <5> QED BY <5>2, <5>3, <4>2, <2>4, <2>6
      <4> QED BY <4>1, <4>2, <1>0
    <3>3. Mirrors(o, g)
      <4>1. Len(o) = IF Len(g) < MaxEntries THEN Len(g) ELSE MaxEntries
        BY <3>1, <2>6, <2>3, <1>0
      <4> QED BY <3>1, <3>2, <4>1 DEF Mirrors
    <3>4. Head(w) = s[1] /\ 1 \in 1..n /\ n \in 1..n /\ Len(w) >= MaxEntries
      BY <2>4, <2>6, <1>0
    <3>5. Listed(o) = {k} \cup (Listed(s) \ {s[1]})
      <4>1. ASSUME NEW j \in 1..n PROVE o[j] = k \/ o[j] \in Listed(s) \ {s[1]}
        <5>1. CASE j = n
          BY <5>1, <2>4, <2>6
        <5>2. CASE j \in 1..n - 1
          <6>1. o[j] = s[j + 1] /\ j + 1 \in 1..n /\ j + 1 # 1
            BY <5>2, <2>4, <2>6, <1>0
          <6>2. s[j + 1] # s[1]
            BY <6>1, <3>4, <1>1 DEF Distinct
          <6> QED BY <6>1, <6>2 DEF Listed
        <5> QED BY <5>1, <5>2, <1>0
      <4>2. ASSUME NEW j \in 1..n, s[j] # s[1] PROVE s[j] \in Listed(o)
        <5>1. j - 1 \in 1..n - 1 /\ j - 1 \in 1..n /\ (j - 1) + 1 = j
          BY <4>2, <1>0
        <5>2. o[j - 1] = s[j]
          BY <5>1, <2>4, <2>6
        <5> QED BY <5>1, <5>2, <3>1 DEF Listed
      <4>3. k \in Listed(o)
        BY <3>1, <3>4, <2>4, <2>6 DEF Listed
      <4>4. \A x : x \in Listed(o) => \E j \in 1..n : x = o[j]
        BY <3>1 DEF Listed
      <4>5. \A x : x \in Listed(s) => \E j \in 1..n : x = s[j]
        BY DEF Listed
      <4> QED BY <4>1, <4>2, <4>3, <4>4, <4>5
    <3> QED BY <2>4, <3>3, <3>4, <3>5 DEF o, g, w
  <2> QED BY <2>5, <2>6, <1>0
<1> QED BY <1>3, <1>4

(* The history forgets nothing and stays a list of distinct keys. *)
LEMMA HistoryOn ==
  ASSUME LruInv, NEW k \in Keys, Used(k)
  PROVE  recent' \in Seq(Keys) /\ Distinct(recent')
  BY PrependDistinct DEF LruInv, Used

LEMMA Promotes ==
  ASSUME LruInv, NEW k \in Keys, Fresh(k), Promote(k), Used(k), cache' = cache
  PROVE  LruInv'
<1>1. recent' \in Seq(Keys) /\ Distinct(recent')
  BY HistoryOn
<1>2. k \in Listed(order)
  BY DEF LruInv, Fresh
<1>3. PICK p \in 1..Len(order) : order[p] = k
  BY <1>2 DEF Listed
<1>4. Distinct(order) /\ Len(order) <= MaxEntries /\ Len(order) \in Nat
  <2>1. /\ Len(order) \in Nat /\ Len(recent) \in Nat /\ Len(order) <= Len(recent)
        /\ Len(order) <= MaxEntries
        /\ \A i \in 1..Len(order) : order[i] = recent[Len(order) + 1 - i]
    BY CacheAssumption DEF LruInv, Mirrors
  <2>2. ASSUME NEW i \in 1..Len(order), NEW j \in 1..Len(order), order[i] = order[j] PROVE i = j
    <3>1. /\ Len(order) + 1 - i \in 1..Len(recent) /\ Len(order) + 1 - j \in 1..Len(recent)
      BY <2>1
    <3>2. Len(order) + 1 - i = Len(order) + 1 - j
      BY <2>1, <2>2, <3>1 DEF LruInv, Distinct
    <3> QED BY <3>2, <2>1
  <2> QED BY <2>1, <2>2 DEF Distinct
<1>5. ~(Len(Without(order, k)) >= MaxEntries)
  BY <1>3, <1>4, WithoutPresent, CacheAssumption DEF LruInv
<1>6. order' = Pushed(order, k)
  BY <1>5 DEF Promote, Pushed
<1>7. order' \in Seq(Keys) /\ Mirrors(order', recent') /\ Listed(order') = {k} \cup Listed(order)
  BY <1>5, <1>6, MirrorsOn DEF LruInv, Used
<1> QED BY <1>1, <1>2, <1>7 DEF LruInv

LEMMA Stores ==
  ASSUME LruInv, cache \in [Keys -> Entry \cup {None}], NEW k \in Keys, NEW e \in Entry, Store(k, e)
  PROVE  LruInv'
<1> DEFINE w == Without(order, k)
<1>1. recent' \in Seq(Keys) /\ Distinct(recent')
  BY HistoryOn DEF Store
<1>2. order' = Pushed(order, k)
  BY DEF Store, Pushed
<1>3. /\ order' \in Seq(Keys) /\ Mirrors(order', recent')
      /\ Listed(order') = {k} \cup (IF Len(w) >= MaxEntries THEN Listed(order) \ {Head(w)}
                                                         ELSE Listed(order))
  <2>1. recent' = <<k>> \o Without(recent, k)
    BY DEF Store, Used
  <2> HIDE DEF w
  <2> QED BY <1>2, <2>1, MirrorsOn DEF LruInv, w
<1>4. cache' = IF Len(w) >= MaxEntries THEN [cache EXCEPT ![Head(w)] = None, ![k] = e]
                                       ELSE [cache EXCEPT ![k] = e]
  BY DEF Store
<1> HIDE DEF w
<1>5. {j \in Keys : cache'[j] # None} = Listed(order')
  <2>1. e # None /\ Listed(order) = {j \in Keys : cache[j] # None}
    BY EntryAssumption DEF LruInv
  <2>2. CASE Len(w) >= MaxEntries
    <3>1. Listed(order') = {k} \cup (Listed(order) \ {Head(w)})
      BY <1>3, <2>2
    <3>2. \A j \in Keys : cache'[j] = IF j = k THEN e ELSE IF j = Head(w) THEN None ELSE cache[j]
      BY <1>4, <2>2
    <3> QED BY <2>1, <3>1, <3>2
  <2>3. CASE ~(Len(w) >= MaxEntries)
    <3>1. Listed(order') = {k} \cup Listed(order)
      BY <1>3, <2>3
    <3>2. \A j \in Keys : cache'[j] = IF j = k THEN e ELSE cache[j]
      BY <1>4, <2>3
    <3> QED BY <2>1, <3>1, <3>2
  <2> QED BY <2>2, <2>3
<1> QED BY <1>1, <1>3, <1>5 DEF LruInv

LEMMA LruStarts == Init => LruInv
<1> SUFFICES ASSUME Init PROVE LruInv
  OBVIOUS
<1>1. order = <<>> /\ recent = <<>> /\ Len(order) = 0 /\ Len(recent) = 0
  BY DEF Init
<1>2. Distinct(recent) /\ Mirrors(order, recent) /\ Listed(order) = {}
  BY <1>1, CacheAssumption DEF Distinct, Mirrors, Listed
<1>3. {k \in Keys : cache[k] # None} = {}
  BY DEF Init
<1> QED BY <1>1, <1>2, <1>3 DEF LruInv

LEMMA LruSteps == IInv /\ LruInv /\ [Next]_vars => LruInv'
<1> SUFFICES ASSUME IInv, LruInv, [Next]_vars PROVE LruInv'
  OBVIOUS
<1>1. ASSUME UNCHANGED <<cache, order, recent>> PROVE LruInv'
  BY <1>1 DEF LruInv
<1>2. ASSUME NEW r \in Requests, Hit(r) PROVE LruInv'
  <2>1. req[r].key \in Keys
    BY DEF IInv, Typed, Request
  <2> QED BY <1>2, <2>1, Promotes DEF Hit
<1>3. ASSUME NEW r \in Requests, RenderEnd(r) PROVE LruInv'
  <2>1. CASE version # req[r].start
    BY <1>1, <1>3, <2>1 DEF RenderEnd
  <2>2. CASE version = req[r].start
    <3> DEFINE e == [version |-> req[r].start, resolved |-> req[r].resolved, data |-> req[r].data]
    <3>1. e \in Entry /\ req[r].key \in Keys
      BY DEF Entry, IInv, Typed, Request
    <3>2. Store(req[r].key, e)
      BY <1>3, <2>2 DEF RenderEnd
    <3> HIDE DEF e
    <3> QED BY <3>1, <3>2, Stores DEF IInv, Typed
  <2> QED BY <2>1, <2>2
<1>4. ASSUME NEW r \in Requests, NEW k \in Keys, PeekHit(r, k) PROVE LruInv'
  BY <1>4, Promotes DEF PeekHit
<1>5. ASSUME NEW r \in Requests, NEW k \in Keys, PeekMiss(r, k) PROVE LruInv'
  BY <1>1, <1>5 DEF PeekMiss
<1>6. ASSUME NEW r \in Requests,
             Resolve(r) \/ ResolveElse(r) \/ Join(r) \/ Render(r) \/ FactoryRead(r) \/ RenderFails(r)
      PROVE  LruInv'
  BY <1>1, <1>6 DEF Resolve, ResolveElse, Join, Render, FactoryRead, RenderFails
<1>7. ASSUME NEW w \in Writers, Write(w) PROVE LruInv'
  BY <1>1, <1>7 DEF Write
<1>8. CASE UNCHANGED vars
  BY <1>1, <1>8 DEF vars
<1> QED BY <1>2, <1>3, <1>4, <1>5, <1>6, <1>7, <1>8 DEF Next, Proceed

(* renderCache.ts, LRU: the Map's insertion order mirrors the order of use, *)
(* and its keys are the pages that have an entry.                          *)
THEOREM LruInvariance == Spec => []LruInv
  BY LruStarts, LruSteps, Invariance, PTL DEF Spec

(* Every variable keeps its type: in particular the entries are complete   *)
(* and a render in flight belongs to a request (renderCache.ts).           *)
THEOREM TypeCorrect == Spec => []TypeOK
<1>1. IInv /\ LruInv => TypeOK
  BY DEF IInv, LruInv, Typed, ClockInv, TypeOK
<1> QED BY <1>1, Invariance, LruInvariance, PTL

(* The cache holds the most recently used pages, as many as it may, for    *)
(* any capacity and however hits, renders and evictions follow each other  *)
(* (renderCache.ts, peek and getOrRender).                                 *)
THEOREM LruTheorem == Spec => []CachedAreRecent
<1>1. LruInv => CachedAreRecent
  <2> SUFFICES ASSUME LruInv PROVE CachedAreRecent
    OBVIOUS
  <2> DEFINE n == IF Len(recent) < MaxEntries THEN Len(recent) ELSE MaxEntries
  <2>1. /\ n = Len(order) /\ n \in Nat
        /\ \A i \in 1..n : order[i] = recent[n + 1 - i]
    BY DEF LruInv, Mirrors
  <2> HIDE DEF n
  <2>2. \A i \in 1..n : n + 1 - i \in 1..n /\ n + 1 - (n + 1 - i) = i
    BY <2>1
  <2>3. Listed(order) = {recent[i] : i \in 1..n}
    <3>1. ASSUME NEW i \in 1..n PROVE recent[i] \in Listed(order)
      <4>1. order[n + 1 - i] = recent[n + 1 - (n + 1 - i)] /\ n + 1 - i \in 1..Len(order)
        BY <2>1, <2>2
      <4> QED BY <4>1, <2>2 DEF Listed
    <3>2. ASSUME NEW i \in 1..Len(order) PROVE order[i] \in {recent[j] : j \in 1..n}
      BY <2>1, <2>2
    <3>3. \A x : x \in Listed(order) => \E i \in 1..Len(order) : x = order[i]
      BY DEF Listed
    <3> QED BY <3>1, <3>2, <3>3
  <2> QED BY <2>3 DEF LruInv, CachedAreRecent, n
<1> QED BY <1>1, LruInvariance, PTL
=============================================================================
