----------------------------- MODULE RenderCache -----------------------------
(***************************************************************************)
(* Layer B of the public router: renderPublicResolution (publicRouter.ts)  *)
(* over the LRU of rendered pages (renderCache.ts).                        *)
(*                                                                         *)
(* A request peeks into the cache, resolves its route in the database, and *)
(* only then calls getOrRender, which returns the cached page, joins the   *)
(* render in flight for its key, or renders: the factory uses what was     *)
(* resolved and reads more (loops, the entry's template) from the database.*)
(* Requests that Layer A serves from disk never come here.                 *)
(***************************************************************************)
EXTENDS PublishClock, Sequences

CONSTANTS
    Requests,   \* concurrent page requests
    Keys,       \* (urlPath, queryString) pairs
    None,       \* no entry, no render in flight
    MaxEntries  \* RENDER_CACHE_MAX_ENTRIES

ASSUME CacheAssumption ==
    /\ MaxEntries \in Nat \ {0}
    /\ None \notin Requests

VARIABLES
    cache,      \* the entry of each key, or None
    order,      \* the keys of the Map, least recently used first
    inFlight,   \* for each key the request whose render others join, or None
    req,        \* each request's progress
    recent      \* history: the keys ever used, most recently used first

vars == <<clock, cache, order, inFlight, req, recent>>

(* resolved: the content the route was resolved from.  data: the content   *)
(* the factory read.                                                       *)
Entry == [version : Nat, resolved : Nat, data : Nat]

ASSUME EntryAssumption == None \notin Entry

(* start: versionAtStart.                                                  *)
Request == [pc : {"idle", "resolving", "resolved", "rendering", "rendered", "joined"},
            key : Keys, start : Nat, resolved : Nat, data : Nat]

TypeOK ==
    /\ ClockTypeOK
    /\ cache \in [Keys -> Entry \cup {None}]
    /\ order \in Seq(Keys)
    /\ inFlight \in [Keys -> Requests \cup {None}]
    /\ req \in [Requests -> Request]

Init ==
    /\ ClockInit
    /\ cache = [k \in Keys |-> None]
    /\ order = <<>>
    /\ inFlight = [k \in Keys |-> None]
    /\ req \in [Requests -> {[pc |-> "idle", key |-> k, start |-> 0, resolved |-> 0, data |-> 0]
                              : k \in Keys}]
    /\ \A r, s \in Requests : req[r] = req[s]
    /\ recent = <<>>

-----------------------------------------------------------------------------
(* The Map, whose iteration order is its insertion order.                  *)

(* delete: a key is in the Map at most once *)
Without(s, k) ==
    IF \E i \in 1..Len(s) : s[i] = k
    THEN LET i == CHOOSE i \in 1..Len(s) : s[i] = k
         IN  SubSeq(s, 1, i - 1) \o SubSeq(s, i + 1, Len(s))
    ELSE s

Fresh(k) == cache[k] # None /\ cache[k].version = version

(* Mutant: a hit leaves the entry where it is. *)
PromoteNot(k) == order' = order

(* delete + set moves the entry to the end *)
Promote(k) == order' = Append(Without(order, k), k)

Used(k) == recent' = <<k>> \o Without(recent, k)

(* set, after an old entry of the key was deleted and, at capacity, the    *)
(* first key evicted                                                       *)
Store(k, e) ==
    LET others == Without(order, k)
        full   == Len(others) >= MaxEntries
        victim == Head(others)
    IN  /\ cache' = IF full THEN [cache EXCEPT ![victim] = None, ![k] = e]
                            ELSE [cache EXCEPT ![k] = e]
        /\ order' = Append(IF full THEN Tail(others) ELSE others, k)
        /\ Used(k)

-----------------------------------------------------------------------------
(* A request.                                                              *)

Finish(r) == req' = [req EXCEPT ![r].pc = "idle", ![r].start = 0,
                                ![r].resolved = 0, ![r].data = 0]

(* peek: a warm page is answered at once *)
PeekHit(r, k) ==
    /\ req[r].pc = "idle" /\ Fresh(k)
    /\ Promote(k) /\ Used(k)
    /\ UNCHANGED <<clock, cache, inFlight, req>>

PeekMiss(r, k) ==
    /\ req[r].pc = "idle" /\ ~Fresh(k)
    /\ req' = [req EXCEPT ![r].pc = "resolving", ![r].key = k]
    /\ UNCHANGED <<clock, cache, order, inFlight, recent>>

(* resolvePublicRoute: the queries run in the database *)
Resolve(r) ==
    /\ req[r].pc = "resolving"
    /\ req' = [req EXCEPT ![r].pc = "resolved", ![r].resolved = content]
    /\ UNCHANGED <<clock, cache, order, inFlight, recent>>

(* Not found, a redirect, or an error: answered without the cache. *)
ResolveElse(r) ==
    /\ req[r].pc = "resolving"
    /\ Finish(r)
    /\ UNCHANGED <<clock, cache, order, inFlight, recent>>

(* getOrRender, up to its first await: the page another request rendered   *)
(* in the meantime, the render in flight, or a render of its own           *)
Hit(r) ==
    /\ req[r].pc = "resolved" /\ Fresh(req[r].key)
    /\ Promote(req[r].key) /\ Used(req[r].key)
    /\ Finish(r)
    /\ UNCHANGED <<clock, cache, inFlight>>

Join(r) ==
    /\ req[r].pc = "resolved" /\ ~Fresh(req[r].key) /\ inFlight[req[r].key] # None
    /\ req' = [req EXCEPT ![r].pc = "joined"]
    /\ UNCHANGED <<clock, cache, order, inFlight, recent>>

(* Mutant: a miss renders even when the key is being rendered. *)
RenderAlone(r) ==
    /\ req[r].pc = "resolved" /\ ~Fresh(req[r].key)
    /\ req' = [req EXCEPT ![r].pc = "rendering", ![r].start = version]
    /\ inFlight' = [inFlight EXCEPT ![req[r].key] = r]
    /\ UNCHANGED <<clock, cache, order, recent>>

Render(r) ==
    /\ req[r].pc = "resolved" /\ ~Fresh(req[r].key) /\ inFlight[req[r].key] = None
    /\ req' = [req EXCEPT ![r].pc = "rendering", ![r].start = version]
    /\ inFlight' = [inFlight EXCEPT ![req[r].key] = r]
    /\ UNCHANGED <<clock, cache, order, recent>>

(* The factory queries the database. *)
FactoryRead(r) ==
    /\ req[r].pc = "rendering"
    /\ req' = [req EXCEPT ![r].pc = "rendered", ![r].data = content]
    /\ UNCHANGED <<clock, cache, order, inFlight, recent>>

Waiting(r) == {s \in Requests : req[s].pc = "joined" /\ inFlight[req[s].key] = r}

(* The promise settles: `finally` clears the slot, and the requests that   *)
(* joined are answered with it.                                            *)
Settle(r) ==
    /\ inFlight' = [inFlight EXCEPT ![req[r].key] = None]
    /\ req' = [s \in Requests |-> IF s \in {r} \cup Waiting(r)
                                  THEN [req[s] EXCEPT !.pc = "idle", !.start = 0,
                                                      !.resolved = 0, !.data = 0]
                                  ELSE req[s]]
    /\ UNCHANGED clock

(* Mutant: the page is kept whatever was published during the render, as   *)
(* of the version now current.                                             *)
RenderEndLate(r) ==
    /\ req[r].pc = "rendered"
    /\ Store(req[r].key, [version |-> version, resolved |-> req[r].resolved,
                          data |-> req[r].data])
    /\ Settle(r)

(* The page is kept only if nothing was published during the render. *)
RenderEnd(r) ==
    /\ req[r].pc = "rendered"
    /\ IF version = req[r].start
       THEN Store(req[r].key, [version |-> req[r].start, resolved |-> req[r].resolved,
                               data |-> req[r].data])
       ELSE UNCHANGED <<cache, order, recent>>
    /\ Settle(r)

(* Mutant: an error leaves the slot of the render behind. *)
RenderFailsHolding(r) ==
    /\ req[r].pc \in {"rendering", "rendered"}
    /\ Finish(r)
    /\ UNCHANGED <<clock, cache, order, inFlight, recent>>

(* Mutant: a render that came to nothing is kept. *)
RenderFailsCached(r) ==
    /\ req[r].pc \in {"rendering", "rendered"}
    /\ Store(req[r].key, [version |-> req[r].start, resolved |-> None, data |-> None])
    /\ Settle(r)

(* The factory throws, or finds no template: nothing is kept. *)
RenderFails(r) ==
    /\ req[r].pc \in {"rendering", "rendered"}
    /\ Settle(r)
    /\ UNCHANGED <<cache, order, recent>>

Write(w) ==
    /\ PublishCommit(w) \/ RetractCommit(w) \/ PublishBump(w) \/ RetractBump(w)
    /\ UNCHANGED <<cache, order, inFlight, req, recent>>

Proceed(r) ==
    \/ Resolve(r) \/ ResolveElse(r) \/ Hit(r) \/ Join(r) \/ Render(r)
    \/ FactoryRead(r) \/ RenderEnd(r) \/ RenderFails(r)

Next ==
    \/ \E r \in Requests : Proceed(r) \/ \E k \in Keys : PeekHit(r, k) \/ PeekMiss(r, k)
    \/ \E w \in Writers : Write(w)

Spec == Init /\ [][Next]_vars

(* Queries and renders settle, and handlers run on. *)
FairSpec == Spec /\ \A r \in Requests : WF_vars(Proceed(r))

-----------------------------------------------------------------------------
(* Properties.                                                             *)

(* renderCache.ts, getOrRender: what the factory itself read of an entry   *)
(* that is served shows every change that a bump has announced.            *)
DataIsFresh == \A k \in Keys : Fresh(k) => cache[k].data >= floor

(* publicRouter.ts: "a deleted route can never be served from a stale      *)
(* entry": what an entry's route was resolved from shows every change that *)
(* a bump has announced.                                                   *)
ResolutionIsFresh == \A k \in Keys : Fresh(k) => cache[k].resolved >= floor

(* renderCache.ts, single-flight: a key is rendered by one request at a    *)
(* time.                                                                   *)
OneRenderPerKey ==
    \A r, s \in Requests :
        /\ req[r].pc \in {"rendering", "rendered"} /\ req[s].pc \in {"rendering", "rendered"}
        /\ req[r].key = req[s].key
        => r = s

(* renderCache.ts, LRU: the cache holds the most recently used pages, as   *)
(* many as it may, however hits, renders and evictions follow each other.  *)
CachedAreRecent ==
    LET n == IF Len(recent) < MaxEntries THEN Len(recent) ELSE MaxEntries
    IN  {k \in Keys : cache[k] # None} = {recent[i] : i \in 1..n}

(* Every request is answered; a render that fails answers those that       *)
(* joined it too.                                                          *)
RequestsAnswered == \A r \in Requests : req[r].pc # "idle" ~> req[r].pc = "idle"
=============================================================================
