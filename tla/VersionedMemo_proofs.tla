------------------------- MODULE VersionedMemo_proofs -------------------------
(***************************************************************************)
(* The memo never holds or hands out content older than the version it is  *)
(* for, for any number of readers, writers and overlapping loads.  A load  *)
(* reads the database after its caller learnt the version, so it sees the  *)
(* changes announced up to it; one made in advance for the next version    *)
(* runs inside the publish lock, so the only change the next bump can      *)
(* announce is the one that publish has already committed.                 *)
(***************************************************************************)
EXTENDS VersionedMemo, PublishClock_proofs

Typed ==
    /\ cache \in Value \cup {None}
    /\ inFlight \in Callers \cup {None}
    /\ call \in [Callers -> Call]

(* Content n shows every change announced up to version v, the next one at *)
(* most.                                                                   *)
Sees(v, n) ==
    /\ v <= version + 1
    /\ v >= version => n >= floor
    /\ v = version + 1 => /\ ~LockFree
                          /\ \A w \in Writers : writer[w].pc = "publishing" => n >= writer[w].change

(* Only the publish in progress knows the next version. *)
Known(c) ==
    call[c].pc # "idle" =>
        /\ call[c].version <= version + 1
        /\ call[c].version = version + 1 => c \in Writers /\ writer[c].pc = "publishing"
        /\ call[c].since <= content

(* n is new enough for caller d if d asks for version v. *)
Suits(v, n, d) == call[d].pc # "idle" /\ call[d].version = v => n >= call[d].since

CacheSees ==
    cache # None => /\ Sees(cache.version, cache.content)
                    /\ \A d \in Callers : Suits(cache.version, cache.content, d)

LoadSees(c) ==
    call[c].pc = "loaded" => /\ Sees(call[c].version, call[c].content)
                             /\ \A d \in Callers : Suits(call[c].version, call[c].content, d)

FreshInv == CacheSees /\ \A c \in Callers : Known(c) /\ LoadSees(c)

(* The slot and those who joined point at loads that are running. *)
SlotRuns == inFlight # None => call[inFlight].pc \in Running

(* publishState.ts, `finally`: whoever joined a load waits for one that is *)
(* still running, so nobody is forgotten when a load loses its slot.       *)
JoinedIsRunning ==
    \A c \in Callers : call[c].pc = "joined" =>
        /\ call[c].joined # None
        /\ call[call[c].joined].pc \in Running
        /\ call[call[c].joined].version = call[c].version

IInv == ClockInv /\ Typed /\ FreshInv /\ SlotRuns /\ JoinedIsRunning

-----------------------------------------------------------------------------
LEMMA Starts == Init => IInv
<1> SUFFICES ASSUME Init PROVE IInv
  OBVIOUS
<1>1. ClockInv
  BY ClockStarts DEF Init
<1>2. Typed
  BY DEF Init, Typed, Call, NoCall
<1>3. \A c \in Callers : call[c].pc = "idle"
  BY DEF Init, NoCall
<1> QED BY <1>1, <1>2, <1>3
        DEF Init, IInv, FreshInv, CacheSees, Known, LoadSees, SlotRuns, JoinedIsRunning

(* What was seen is still enough after a step of a writer. *)
LEMMA CommitsKeep ==
  ASSUME IInv, NEW w \in Writers, PublishCommit(w) \/ RetractCommit(w),
         NEW v \in Nat, NEW n \in Nat, Sees(v, n)
  PROVE  Sees(v, n)'
<1>1. /\ UNCHANGED <<version, floor>>
      /\ \A u \in Writers : u # w => writer'[u] = writer[u]
      /\ writer[w].pc = "idle"
      /\ version \in Nat
  BY ClockCommits DEF IInv, ClockInv, ClockTypeOK
<1>2. CASE LockFree
  BY <1>1, <1>2 DEF Sees
<1>3. CASE ~LockFree
  <2>1. writer'[w].pc # "publishing"
    BY <1>3 DEF PublishCommit, RetractCommit, Commit, IInv, ClockInv, ClockTypeOK, Writer
  <2>2. ~LockFree'
    BY <1>1, <1>3 DEF LockFree
  <2> QED BY <1>1, <2>1, <2>2 DEF Sees
<1> QED BY <1>2, <1>3

LEMMA BumpsKeep ==
  ASSUME IInv, NEW w \in Writers, PublishBump(w) \/ RetractBump(w),
         NEW v \in Nat, NEW n \in Nat, Sees(v, n)
  PROVE  Sees(v, n)'
<1>1. /\ version' = version + 1
      /\ floor' = floor \/ floor' = writer[w].change
      /\ version \in Nat
  BY ClockBumps DEF IInv, ClockInv, ClockTypeOK
<1>2. v <= version \/ (v = version + 1 /\ n >= floor /\ ~LockFree)
  BY <1>1 DEF Sees
<1>3. ~LockFree => writer[w].pc = "publishing"
  BY DEF PublishBump, RetractBump
<1>4. v = version + 1 => n >= floor'
  BY <1>1, <1>2, <1>3 DEF Sees
<1> QED BY <1>1, <1>2, <1>4 DEF Sees

LEMMA Writes ==
  ASSUME IInv, NEW w \in Writers, Write(w)
  PROVE  IInv'
<1>1. UNCHANGED <<cache, inFlight, call>>
  BY DEF Write
<1>2. Typed' /\ SlotRuns' /\ JoinedIsRunning'
  BY <1>1 DEF IInv, Typed, SlotRuns, JoinedIsRunning
<1>3. /\ cache # None => cache.version \in Nat /\ cache.content \in Nat
      /\ \A c \in Callers : call[c].version \in Nat /\ call[c].content \in Nat /\ call[c].since \in Nat
      /\ version \in Nat /\ content \in Nat
  BY DEF IInv, Typed, Value, Call, ClockInv, ClockTypeOK
<1>4. CASE PublishCommit(w) \/ RetractCommit(w)
  <2>1. /\ ClockInv' /\ content' = content + 1 /\ version' = version
        /\ \A u \in Writers : writer[u].pc = "publishing" => writer'[u] = writer[u]
    BY <1>4, ClockCommits DEF IInv
  <2>2. CacheSees' /\ \A c \in Callers : LoadSees(c)'
    BY <1>1, <1>3, <1>4, CommitsKeep DEF IInv, FreshInv, CacheSees, LoadSees, Suits
  <2>3. \A c \in Callers : Known(c)'
    BY <1>1, <1>3, <2>1 DEF IInv, FreshInv, Known
  <2> QED BY <1>2, <2>1, <2>2, <2>3 DEF IInv, FreshInv
<1>5. CASE PublishBump(w) \/ RetractBump(w)
  <2>1. /\ ClockInv' /\ content' = content /\ version' = version + 1
        /\ \A u \in Writers : writer[u].pc = "publishing" => u = w
    BY <1>5, ClockBumps DEF IInv
  <2>2. CacheSees' /\ \A c \in Callers : LoadSees(c)'
    BY <1>1, <1>3, <1>5, BumpsKeep DEF IInv, FreshInv, CacheSees, LoadSees, Suits
  <2>3. \A c \in Callers : call[c].pc # "idle" => call[c].version <= version + 1
    BY DEF IInv, FreshInv, Known
  <2>4. \A c \in Callers : Known(c)'
    BY <1>1, <1>3, <2>1, <2>3 DEF IInv, FreshInv, Known
  <2> QED BY <1>2, <2>1, <2>2, <2>4 DEF IInv, FreshInv
<1> QED BY <1>4, <1>5 DEF Write

-----------------------------------------------------------------------------
(* A step of one caller that leaves the cached value alone.  It must not   *)
(* stop a load that somebody waits for.                                    *)
LEMMA CallStep ==
  ASSUME IInv, NEW c \in Callers, NEW q \in Call,
         call' = [call EXCEPT ![c] = q],
         UNCHANGED <<clock, cache>>,
         inFlight' \in Callers \cup {None},
         inFlight' \in {inFlight, c},
         inFlight' = c => q.pc \in Running,
         call[c].pc \in Running => q.pc \in Running /\ q.version = call[c].version,
         q.pc = "joined" => /\ inFlight # None /\ inFlight # c /\ q.joined = inFlight
                            /\ call[inFlight].version = q.version,
         q.pc # "idle" =>
            /\ q.version <= version + 1
            /\ q.version = version + 1 => c \in Writers /\ writer[c].pc = "publishing"
            /\ q.since <= content
            /\ cache # None /\ cache.version = q.version => cache.content >= q.since
            /\ \A d \in Callers : call[d].pc = "loaded" /\ call[d].version = q.version
                                  => call[d].content >= q.since,
         q.pc = "loaded" => /\ Sees(q.version, q.content) /\ q.content >= q.since
                            /\ \A d \in Callers : Suits(q.version, q.content, d)
  PROVE  IInv'
<1>1. ClockInv'
  BY ClockStands DEF IInv
<1>2. Typed'
  BY DEF IInv, Typed
<1>3. /\ call'[c] = q
      /\ \A d \in Callers \ {c} : call'[d] = call[d]
      /\ UNCHANGED <<content, version, writer, floor, cache>>
  BY DEF IInv, Typed, clock
<1>4. \A v, n : Sees(v, n) => Sees(v, n)'
  BY <1>3 DEF Sees, LockFree
<1>5. CacheSees'
  <2>1. \A d \in Callers : Suits(cache.version, cache.content, d) /\ cache # None => Suits(cache.version, cache.content, d)'
    BY <1>3 DEF Suits
  <2> QED BY <1>3, <1>4, <2>1 DEF IInv, FreshInv, CacheSees
<1>6. \A d \in Callers : Known(d)'
  BY <1>3 DEF IInv, FreshInv, Known
<1>7. ASSUME NEW d \in Callers PROVE LoadSees(d)'
  <2>1. CASE d = c
    <3>1. \A e \in Callers : q.pc = "loaded" => Suits(q.version, q.content, e)'
      BY <1>3 DEF Suits
    <3> QED BY <1>3, <1>4, <2>1, <3>1 DEF LoadSees
  <2>2. CASE d # c
    <3>1. ASSUME call[d].pc = "loaded", NEW e \in Callers
          PROVE  Suits(call[d].version, call[d].content, e)'
      <4>1. CASE e = c
        BY <1>3, <2>2, <3>1, <4>1 DEF Suits
      <4>2. CASE e # c
        BY <1>3, <2>2, <3>1, <4>2 DEF IInv, FreshInv, LoadSees, Suits
      <4> QED BY <4>1, <4>2
    <3> QED BY <1>3, <1>4, <2>2, <3>1 DEF IInv, FreshInv, LoadSees
  <2> QED BY <2>1, <2>2
<1>8. SlotRuns'
  BY <1>3, MemoAssumption DEF IInv, SlotRuns, Typed, Callers
<1>9. ASSUME NEW d \in Callers, call'[d].pc = "joined"
      PROVE  /\ call'[d].joined # None
             /\ call'[call'[d].joined].pc \in Running
             /\ call'[call'[d].joined].version = call'[d].version
  <2> DEFINE j == call'[d].joined
  <2>1. /\ j # None /\ call[j].pc \in Running /\ call[j].version = call'[d].version
    BY <1>3, <1>9 DEF IInv, SlotRuns, JoinedIsRunning
  <2>2. j \in Callers
    BY <1>2, <2>1 DEF Typed, Call
  <2> QED BY <1>3, <2>1, <2>2
<1> QED BY <1>1, <1>2, <1>5, <1>6, <1>7, <1>8, <1>9 DEF IInv, FreshInv, JoinedIsRunning

(* The end of a load: its callers are gone, and the cached value is what it *)
(* was or what the load read.                                              *)
LEMMA Settled ==
  ASSUME IInv, NEW c \in Callers, call[c].pc \in Running, Settle(c),
         \/ cache' = cache
         \/ /\ call[c].pc = "loaded"
            /\ cache' = [version |-> call[c].version, content |-> call[c].content]
  PROVE  IInv'
<1>1. ClockInv' /\ UNCHANGED <<content, version, writer, floor>>
  <2>1. UNCHANGED clock
    BY DEF Settle
  <2>2. ClockInv'
    BY <2>1, ClockStands DEF IInv
  <2> QED BY <2>1, <2>2 DEF clock
<1>2. \A d \in Callers : \/ call'[d] = call[d] /\ d \notin Answered(c)
                         \/ call'[d] = NoCall
  BY DEF Settle, IInv, Typed
<1>3. NoCall \in Call /\ NoCall.pc = "idle"
  BY DEF NoCall, Call
<1>4. Typed'
  <2>1. call' \in [Callers -> Call]
    BY <1>2, <1>3 DEF Settle, IInv, Typed
  <2>2. cache' \in Value \cup {None}
    BY DEF IInv, Typed, Value, Call
  <2> QED BY <2>1, <2>2 DEF Settle, IInv, Typed
<1>5. \A v, n : Sees(v, n) => Sees(v, n)'
  BY <1>1 DEF Sees, LockFree
<1>6. \A v, n : \A d \in Callers : Suits(v, n, d) => Suits(v, n, d)'
  BY <1>2, <1>3 DEF Suits
<1>7. CacheSees'
  <2>1. CASE cache' = cache
    BY <1>5, <1>6, <2>1 DEF IInv, FreshInv, CacheSees
  <2>2. CASE /\ call[c].pc = "loaded"
             /\ cache' = [version |-> call[c].version, content |-> call[c].content]
    <3>1. PICK v, n : v = call[c].version /\ n = call[c].content
      OBVIOUS
    <3>2. Sees(v, n) /\ \A d \in Callers : Suits(v, n, d)
      BY <2>2, <3>1 DEF IInv, FreshInv, LoadSees
    <3>3. Sees(v, n)' /\ \A d \in Callers : Suits(v, n, d)'
      BY <1>5, <1>6, <3>2
    <3>4. cache'.version = v /\ cache'.content = n
      BY <2>2, <3>1
    <3> QED BY <3>3, <3>4 DEF CacheSees, Sees, Suits
  <2> QED BY <2>1, <2>2
<1>8. \A d \in Callers : Known(d)' /\ LoadSees(d)'
  BY <1>1, <1>2, <1>3, <1>5, <1>6 DEF IInv, FreshInv, Known, LoadSees
<1>9. SlotRuns'
  <2> SUFFICES ASSUME inFlight' # None PROVE call'[inFlight'].pc \in Running
    BY DEF SlotRuns
  <2>1. inFlight' = inFlight /\ ~InFlight(call[c].version) /\ inFlight # None
    BY DEF Settle
  <2>2. inFlight \in Callers /\ inFlight # c /\ call[inFlight].pc \in Running
    BY <2>1 DEF InFlight, IInv, Typed, SlotRuns
  <2>3. inFlight \notin Answered(c)
    BY <2>2 DEF Answered, Running
  <2> QED BY <2>1, <2>2, <2>3 DEF Settle, IInv, Typed
<1>10. ASSUME NEW d \in Callers, call'[d].pc = "joined"
       PROVE  /\ call'[d].joined # None
              /\ call'[call'[d].joined].pc \in Running
              /\ call'[call'[d].joined].version = call'[d].version
  <2>1. call'[d] = call[d] /\ d \notin Answered(c)
    BY <1>2, <1>3, <1>10
  <2> DEFINE j == call[d].joined
  <2>2. /\ j # None /\ call[j].pc \in Running /\ call[j].version = call[d].version
        /\ j \in Callers
    BY <1>10, <2>1 DEF IInv, JoinedIsRunning, Typed, Call
  <2>3. j # c /\ j \notin Answered(c)
    BY <1>10, <2>1, <2>2 DEF Answered, Running
  <2>4. call'[j] = call[j]
    BY <2>2, <2>3 DEF Settle, IInv, Typed
  <2> QED BY <2>1, <2>2, <2>4
<1> QED BY <1>1, <1>4, <1>7, <1>8, <1>9, <1>10 DEF IInv, FreshInv, JoinedIsRunning

-----------------------------------------------------------------------------
LEMMA Asks ==
  ASSUME IInv, NEW r \in Readers, Ask(r)
  PROVE  IInv'
<1> DEFINE q == [NoCall EXCEPT !.pc = "asking", !.version = version, !.since = floor]
<1>1. /\ r \in Callers /\ version \in Nat /\ floor \in Nat /\ content \in Nat
      /\ floor <= content
  BY DEF Callers, IInv, ClockInv, ClockTypeOK, Announced
<1>2. q \in Call /\ q.pc = "asking" /\ q.version = version /\ q.since = floor
  BY <1>1 DEF NoCall, Call
<1>3. call' = [call EXCEPT ![r] = q] /\ UNCHANGED <<clock, cache, inFlight>> /\ call[r].pc = "idle"
  BY DEF Ask
<1> HIDE DEF q
<1>4. cache # None /\ cache.version = version => cache.content >= floor
  BY <1>1 DEF IInv, FreshInv, CacheSees, Sees
<1>5. \A d \in Callers : call[d].pc = "loaded" /\ call[d].version = version
                         => call[d].content >= floor
  BY <1>1 DEF IInv, FreshInv, LoadSees, Sees
<1>6. inFlight \in Callers \cup {None} /\ inFlight # r /\ call[r].pc \notin Running
  BY <1>1, <1>3, MemoAssumption DEF IInv, Typed, SlotRuns, Running
<1>7. q.version <= version + 1 /\ q.version # version + 1 /\ q.since <= content
  BY <1>1, <1>2
<1>8. q.pc # "joined" /\ q.pc # "loaded" /\ q.pc # "idle"
  BY <1>2
<1>9. /\ cache # None /\ cache.version = q.version => cache.content >= q.since
      /\ \A d \in Callers : call[d].pc = "loaded" /\ call[d].version = q.version
                            => call[d].content >= q.since
  BY <1>2, <1>4, <1>5
<1> QED BY <1>1, <1>2, <1>3, <1>6, <1>7, <1>8, <1>9, CallStep

LEMMA AsksAhead ==
  ASSUME IInv, NEW w \in Writers, AskAhead(w)
  PROVE  IInv'
<1> DEFINE q == [NoCall EXCEPT !.pc = "asking", !.version = version + 1,
                               !.since = writer[w].change]
<1>1. /\ w \in Callers /\ version \in Nat /\ content \in Nat
      /\ writer[w].pc = "publishing" /\ writer[w].change \in Nat
      /\ writer[w].change <= content
  BY DEF Callers, IInv, ClockInv, ClockTypeOK, Writer, Announced, AskAhead
<1>2. /\ q \in Call /\ q.pc = "asking" /\ q.version = version + 1
      /\ q.since = writer[w].change
  <2> DEFINE v == version + 1
             n == writer[w].change
  <2>1. v \in Nat /\ n \in Nat
    BY <1>1
  <2> HIDE DEF v, n
  <2>2. [NoCall EXCEPT !.pc = "asking", !.version = v, !.since = n] \in Call
    BY <2>1 DEF NoCall, Call
  <2> QED BY <2>2 DEF NoCall, v, n
<1>3. call' = [call EXCEPT ![w] = q] /\ UNCHANGED <<clock, cache, inFlight>> /\ call[w].pc = "idle"
  BY DEF AskAhead
<1> HIDE DEF q
<1>4. cache # None /\ cache.version = version + 1 => cache.content >= writer[w].change
  BY <1>1 DEF IInv, FreshInv, CacheSees, Sees
<1>5. \A d \in Callers : call[d].pc = "loaded" /\ call[d].version = version + 1
                         => call[d].content >= writer[w].change
  BY <1>1 DEF IInv, FreshInv, LoadSees, Sees
<1>6. inFlight \in Callers \cup {None} /\ inFlight # w /\ call[w].pc \notin Running
  BY <1>1, <1>3, MemoAssumption DEF IInv, Typed, SlotRuns, Running
<1>7. q.version <= version + 1 /\ w \in Writers /\ q.since <= content
  BY <1>1, <1>2
<1>8. q.pc # "joined" /\ q.pc # "loaded" /\ q.pc # "idle"
  BY <1>2
<1>9. /\ cache # None /\ cache.version = q.version => cache.content >= q.since
      /\ \A d \in Callers : call[d].pc = "loaded" /\ call[d].version = q.version
                            => call[d].content >= q.since
  BY <1>2, <1>4, <1>5
<1> QED BY <1>1, <1>2, <1>3, <1>6, <1>7, <1>8, <1>9, CallStep

LEMMA Calls ==
  ASSUME IInv, NEW c \in Callers, Hit(c) \/ Join(c) \/ Load(c) \/ LoadRead(c)
  PROVE  IInv'
<1>1. /\ call[c] \in Call /\ inFlight \in Callers \cup {None}
      /\ version \in Nat /\ content \in Nat /\ floor \in Nat /\ floor <= content
      /\ NoCall \in Call /\ NoCall.pc = "idle"
  BY DEF IInv, Typed, ClockInv, ClockTypeOK, Announced, NoCall, Call
<1>2. UNCHANGED <<clock, cache>> /\ inFlight' \in {inFlight, c}
  BY DEF Hit, Join, Load, LoadRead
<1>3. call[c].pc # "idle" =>
         /\ call[c].version <= version + 1
         /\ call[c].version = version + 1 => c \in Writers /\ writer[c].pc = "publishing"
         /\ call[c].since <= content
         /\ cache # None /\ cache.version = call[c].version => cache.content >= call[c].since
         /\ \A d \in Callers : call[d].pc = "loaded" /\ call[d].version = call[c].version
                               => call[d].content >= call[c].since
  BY DEF IInv, FreshInv, Known, CacheSees, LoadSees, Suits
<1>4. inFlight = c => call[c].pc \in Running
  BY <1>1, MemoAssumption DEF IInv, SlotRuns, Callers
<1>5. CASE Hit(c)
  <2>1. call' = [call EXCEPT ![c] = NoCall] /\ inFlight' = inFlight /\ call[c].pc \notin Running
    BY <1>5 DEF Hit, Running
  <2> QED BY <1>1, <1>2, <1>4, <2>1, CallStep DEF Callers
<1>6. CASE Join(c)
  <2> DEFINE q == [call[c] EXCEPT !.pc = "joined", !.joined = inFlight]
  <2>1. /\ q \in Call /\ q.pc = "joined" /\ q.joined = inFlight
        /\ q.version = call[c].version /\ q.since = call[c].since
    BY <1>1 DEF Call
  <2>2. /\ call' = [call EXCEPT ![c] = q] /\ inFlight' = inFlight
        /\ call[c].pc = "asking" /\ call[c].pc \notin Running
        /\ inFlight # None /\ call[inFlight].version = call[c].version
    BY <1>6 DEF Join, InFlight, Running, IInv, Typed, Call
  <2> HIDE DEF q
  <2> QED BY <1>1, <1>2, <1>3, <1>4, <2>1, <2>2, CallStep
<1>7. CASE Load(c)
  <2> DEFINE q == [call[c] EXCEPT !.pc = "loading"]
  <2>1. /\ q \in Call /\ q.pc = "loading" /\ q.pc \in Running
        /\ q.version = call[c].version /\ q.since = call[c].since
    BY <1>1 DEF Call, Running
  <2>2. /\ call' = [call EXCEPT ![c] = q] /\ inFlight' = c
        /\ call[c].pc = "asking" /\ call[c].pc \notin Running
    BY <1>7 DEF Load, Running, IInv, Typed, Call
  <2> HIDE DEF q
  <2> QED BY <1>1, <1>2, <1>3, <2>1, <2>2, CallStep
<1>8. CASE LoadRead(c)
  <2> DEFINE q == [call[c] EXCEPT !.pc = "loaded", !.content = content]
  <2>1. /\ q \in Call /\ q.pc = "loaded" /\ q.pc \in Running /\ q.content = content
        /\ q.version = call[c].version /\ q.since = call[c].since
    BY <1>1 DEF Call, Running
  <2>2. /\ call' = [call EXCEPT ![c] = q] /\ inFlight' = inFlight
        /\ call[c].pc = "loading"
    BY <1>8 DEF LoadRead, IInv, Typed, Call
  <2> HIDE DEF q
  <2>3. Sees(q.version, content)
    <3>1. \A w \in Writers : writer[w].change <= content
      BY DEF IInv, ClockInv, Announced
    <3> QED BY <1>1, <1>3, <2>1, <2>2, <3>1 DEF Sees, LockFree
  <2>4. \A d \in Callers : Suits(q.version, content, d)
    BY DEF IInv, FreshInv, Known, Suits
  <2> QED BY <1>1, <1>2, <1>3, <2>1, <2>2, <2>3, <2>4, CallStep
<1> QED BY <1>5, <1>6, <1>7, <1>8

LEMMA Ends ==
  ASSUME IInv, NEW c \in Callers, LoadEnd(c) \/ LoadFails(c)
  PROVE  IInv'
  BY Settled DEF LoadEnd, LoadFails, Running

LEMMA Stands == IInv /\ UNCHANGED vars => IInv'
<1> SUFFICES ASSUME IInv, UNCHANGED vars PROVE IInv'
  OBVIOUS
<1>1. ClockInv' /\ UNCHANGED <<content, version, writer, floor, cache, inFlight, call>>
  BY ClockStands DEF IInv, vars, clock
<1> QED BY <1>1 DEF IInv, Typed, FreshInv, CacheSees, LoadSees, Known, Suits, Sees, LockFree,
                   SlotRuns, JoinedIsRunning

(* The inductive invariant holds in every reachable state. *)
THEOREM Invariance == Spec => []IInv
<1>1. IInv /\ [Next]_vars => IInv'
  <2> SUFFICES ASSUME IInv, [Next]_vars PROVE IInv'
    OBVIOUS
  <2>1. ASSUME NEW r \in Readers, Ask(r) PROVE IInv'
    BY <2>1, Asks
  <2>2. ASSUME NEW w \in Writers, AskAhead(w) \/ Write(w) PROVE IInv'
    BY <2>2, AsksAhead, Writes
  <2>3. ASSUME NEW c \in Callers, Proceed(c) PROVE IInv'
    BY <2>3, Calls, Ends DEF Proceed
  <2>4. CASE UNCHANGED vars
    BY <2>4, Stands
  <2> QED BY <2>1, <2>2, <2>3, <2>4 DEF Next
<1> QED BY <1>1, Starts, PTL DEF Spec

(* What is cached for the current version shows every change a bump has    *)
(* announced (publishState.ts, createVersionedSingleFlight).               *)
THEOREM CacheTheorem == Spec => []CacheIsFresh
<1>1. IInv => CacheIsFresh
  BY DEF IInv, FreshInv, CacheSees, Sees, CacheIsFresh, Cached, Value, Typed, ClockInv, ClockTypeOK
<1> QED BY <1>1, Invariance, PTL

(* No caller is answered with content older than the version it asked for, *)
(* be it from the cache, from its own load or from one it joined.          *)
THEOREM AnswerTheorem == Spec => []AnswersAreFresh
<1>1. ASSUME IInv, NEW c \in Callers, call[c].pc = "loaded", NEW d \in Answered(c)
      PROVE  call[c].content >= call[d].since
  <2>1. d \in Callers /\ call[d].pc # "idle" /\ call[d].version = call[c].version
    BY <1>1 DEF Answered, IInv, JoinedIsRunning
  <2> QED BY <1>1, <2>1 DEF IInv, FreshInv, LoadSees, Suits
<1>2. ASSUME IInv, NEW c \in Callers, call[c].pc = "asking", Cached(call[c].version)
      PROVE  cache.content >= call[c].since
  BY <1>2 DEF IInv, FreshInv, CacheSees, Suits, Cached
<1>3. IInv => AnswersAreFresh
  BY <1>1, <1>2 DEF AnswersAreFresh
<1> QED BY <1>3, Invariance, PTL

(* Whoever joined a load waits for one that is still running.              *)
THEOREM JoinTheorem == Spec => []JoinedIsRunning
<1>1. IInv => JoinedIsRunning
  BY DEF IInv
<1> QED BY <1>1, Invariance, PTL

(* Every variable keeps its type.                                          *)
THEOREM TypeCorrect == Spec => []TypeOK
<1>1. IInv => TypeOK
  BY DEF IInv, Typed, ClockInv, TypeOK
<1> QED BY <1>1, Invariance, PTL
=============================================================================
