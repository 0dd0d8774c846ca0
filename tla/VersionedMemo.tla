---------------------------- MODULE VersionedMemo ----------------------------
(***************************************************************************)
(* createVersionedSingleFlight (publishState.ts): one cached value and one *)
(* load in flight, each tagged with a publish version.  The snapshot memo  *)
(* of publishedSnapshotCache.ts is the instance modelled: a value is the   *)
(* content its load read from the database.                                *)
(*                                                                         *)
(* Readers ask for the version they have read, at once or after an await   *)
(* (router.ts reads the version well before it asks); a publish that bakes *)
(* asks for the version it is about to bump to (bakeDataRows.ts).          *)
(***************************************************************************)
EXTENDS PublishClock

CONSTANTS
    Readers,    \* concurrent requests that read the published snapshot
    None        \* nothing cached, nothing in flight

ASSUME MemoAssumption == Readers \cap Writers = {} /\ None \notin Readers \cup Writers

Callers == Readers \cup Writers

VARIABLES
    cache,      \* the cached value and the version it is for, or None
    inFlight,   \* the caller whose load others can join, or None
    call        \* each caller's progress

vars == <<clock, cache, inFlight, call>>

Value == [version : Nat, content : Nat]

(* version: what the caller asks for.  joined: the load it waits for.      *)
(* content: what its own load has read.  since: history, the floor when it *)
(* learnt the version, or the change a publish itself has committed.       *)
Call == [pc : {"idle", "asking", "loading", "loaded", "joined"}, version : Nat,
         joined : Callers \cup {None}, content : Nat, since : Nat]

NoCall == [pc |-> "idle", version |-> 0, joined |-> None, content |-> 0, since |-> 0]

TypeOK ==
    /\ ClockTypeOK
    /\ cache \in Value \cup {None}
    /\ inFlight \in Callers \cup {None}
    /\ call \in [Callers -> Call]

Init ==
    /\ ClockInit
    /\ cache = None
    /\ inFlight = None
    /\ call = [c \in Callers |-> NoCall]

-----------------------------------------------------------------------------

Cached(v) == cache # None /\ cache.version = v
InFlight(v) == inFlight # None /\ call[inFlight].version = v

(* A reader reads the publish version. *)
Ask(r) ==
    /\ call[r].pc = "idle"
    /\ call' = [call EXCEPT ![r] = [NoCall EXCEPT !.pc = "asking", !.version = version,
                                                  !.since = floor]]
    /\ UNCHANGED <<clock, cache, inFlight>>

(* A publish that bakes rows asks for the version it will bump to. *)
AskAhead(w) ==
    /\ writer[w].pc = "publishing" /\ call[w].pc = "idle"
    /\ call' = [call EXCEPT ![w] = [NoCall EXCEPT !.pc = "asking", !.version = version + 1,
                                                  !.since = writer[w].change]]
    /\ UNCHANGED <<clock, cache, inFlight>>

(* get(version, load), up to its first await *)
Hit(c) ==
    /\ call[c].pc = "asking" /\ Cached(call[c].version)
    /\ call' = [call EXCEPT ![c] = NoCall]
    /\ UNCHANGED <<clock, cache, inFlight>>

Join(c) ==
    /\ call[c].pc = "asking" /\ ~Cached(call[c].version) /\ InFlight(call[c].version)
    /\ call' = [call EXCEPT ![c].pc = "joined", ![c].joined = inFlight]
    /\ UNCHANGED <<clock, cache, inFlight>>

Load(c) ==
    /\ call[c].pc = "asking" /\ ~Cached(call[c].version) /\ ~InFlight(call[c].version)
    /\ call' = [call EXCEPT ![c].pc = "loading"]
    /\ inFlight' = c
    /\ UNCHANGED <<clock, cache>>

Running == {"loading", "loaded"}

(* The query of the load runs in the database. *)
LoadRead(c) ==
    /\ call[c].pc = "loading"
    /\ call' = [call EXCEPT ![c].pc = "loaded", ![c].content = content]
    /\ UNCHANGED <<clock, cache, inFlight>>

(* The callers a settled load answers: its own and those that joined it. *)
Answered(c) == {c} \cup {d \in Callers : call[d].pc = "joined" /\ call[d].joined = c}

(* Mutant: the callers that joined are found through the slot, which a     *)
(* load for another version may have taken.                                *)
SettleThroughSlot(c) ==
    /\ inFlight' = IF InFlight(call[c].version) THEN None ELSE inFlight
    /\ call' = [d \in Callers |-> IF d = c \/ (inFlight = c /\ d \in Answered(c))
                                 THEN NoCall ELSE call[d]]
    /\ UNCHANGED clock

(* `finally`: the slot is given up when it is for the version of this load, *)
(* be it this load or another                                               *)
Settle(c) ==
    /\ inFlight' = IF InFlight(call[c].version) THEN None ELSE inFlight
    /\ call' = [d \in Callers |-> IF d \in Answered(c) THEN NoCall ELSE call[d]]
    /\ UNCHANGED clock

(* Mutant: the value is tagged with the version it finds when it arrives. *)
LoadEndLateTag(c) ==
    /\ call[c].pc = "loaded"
    /\ cache' = [version |-> version, content |-> call[c].content]
    /\ Settle(c)

LoadEnd(c) ==
    /\ call[c].pc = "loaded"
    /\ cache' = [version |-> call[c].version, content |-> call[c].content]
    /\ Settle(c)

(* Mutant: what a failed query left is cached. *)
LoadFailsCached(c) ==
    /\ call[c].pc \in Running
    /\ Settle(c)
    /\ cache' = [version |-> call[c].version, content |-> None]

(* The query fails, or finds nothing published: nothing is cached. *)
LoadFails(c) ==
    /\ call[c].pc \in Running
    /\ Settle(c)
    /\ UNCHANGED cache

(* The writers; a publish awaits its own load before it bumps. *)
Write(w) ==
    /\ \/ PublishCommit(w) \/ RetractCommit(w) \/ RetractBump(w)
       \/ call[w].pc = "idle" /\ PublishBump(w)
    /\ UNCHANGED <<cache, inFlight, call>>

Proceed(c) == Hit(c) \/ Join(c) \/ Load(c) \/ LoadRead(c) \/ LoadEnd(c) \/ LoadFails(c)

Next ==
    \/ \E r \in Readers : Ask(r)
    \/ \E w \in Writers : AskAhead(w) \/ Write(w)
    \/ \E c \in Callers : Proceed(c)

Spec == Init /\ [][Next]_vars

(* Queries settle and handlers run on. *)
FairSpec == Spec /\ \A c \in Callers : WF_vars(Proceed(c))

-----------------------------------------------------------------------------
(* Properties.                                                             *)

(* publishState.ts, "a version bump mid-load means the next caller misses   *)
(* and reloads": what is cached for the current version shows every change *)
(* that a bump has announced, whatever loads overtook each other and       *)
(* whatever a bake put there in advance.                                   *)
CacheIsFresh == Cached(version) => cache.content >= floor

(* publishState.ts, get: a caller is answered with content no older than   *)
(* the version it asked for, from the cache, its own load or the load it   *)
(* joined.                                                                 *)
AnswersAreFresh ==
    \A c \in Callers :
        /\ call[c].pc = "asking" /\ Cached(call[c].version) => cache.content >= call[c].since
        /\ call[c].pc = "loaded" => \A d \in Answered(c) : call[c].content >= call[d].since

(* Every caller is answered. *)
CallersAnswered == \A c \in Callers : call[c].pc # "idle" ~> call[c].pc = "idle"
=============================================================================
