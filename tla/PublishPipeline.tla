--------------------------- MODULE PublishPipeline ---------------------------
(***************************************************************************)
(* The publish pipeline of one server process: the full publish            *)
(* (publishSite.ts, bakeDataRows.ts), the per-row publish (publishRow.ts), *)
(* the retractions of server/handlers/cms/data/rows.ts and of the plugin   *)
(* content surface, the publish lock and version (publishState.ts) and the *)
(* two-slot directory of baked files (staticArtefact.ts).                  *)
(*                                                                         *)
(* Each request is a process that takes one step per await.  Between two   *)
(* steps of one request any step of another can happen.                    *)
(*                                                                         *)
(* The site's own pages are one path, Home, whose content is the number of *)
(* the site snapshot (`site`).  An uploads directory is configured, and    *)
(* every table has an entry template.                                      *)
(***************************************************************************)
EXTENDS RowStore, Sequences, FiniteSets

CONSTANTS
    Ops,        \* concurrent requests
    NoRow,      \* a full publish and a page file belong to no row
    Home,       \* the path of the site's page
    NoFile,     \* a path with no baked file
    Kinds,      \* the requests the administrators and plugins make
    Failures,   \* TRUE: renders, disk writes and transactions can fail
    Crashes,    \* TRUE: the process can stop and be restarted
    MaxVersion, \* bound: bumps in one life of the process
    MaxGen      \* bound: site publishes, and versions of one row

AllKinds == {"site", "row", "status", "delete", "pluginDelete", "move",
             "edit", "schedule"}

ASSUME PipelineAssumption ==
    /\ Kinds \subseteq AllKinds
    /\ Failures \in BOOLEAN /\ Crashes \in BOOLEAN
    /\ MaxVersion \in Nat /\ MaxGen \in Nat
    /\ NoRow \notin Rows /\ NoTime \notin Times
    /\ Home \notin Tables \X Slugs

RowPaths == Tables \X Slugs
Paths == RowPaths \cup {Home}
Slots == {"a", "b"}

(* A baked file: what it shows, and the version stamped on its hole shells. *)
Files == [row : Rows \cup {NoRow}, no : Nat, gen : Nat, stamp : Nat]

ASSUME FileAssumption == NoFile \notin Files

VARIABLES
    row,        \* the data_rows table
    site,       \* the number of the latest persisted site snapshot
    slot,       \* the two directories of baked files
    current,    \* the `current` link: a slot, or "none"
    version,    \* publishVersion
    chain,      \* publishChain: the requests that hold or wait for the lock
    op,         \* what each request has done so far
    dirty       \* history: what changed in public view since the last bump

vars == <<row, site, slot, current, version, chain, op, dirty>>

PCs == {"idle", "wait",
        "prepare", "home", "list", "rows", "render", "swap",
        "route", "pruneOld", "read", "locate", "write", "bump",
        "reread", "resolve", "prune", "loaded"}

(* kind, row: the request.  next: the version its files are stamped with.  *)
(* dir: the slot it works in.  path, todo: the path at hand and the others *)
(* to visit.  file: what it is about to write.  after: it still has to     *)
(* bump ("wait") or it is done.                                            *)
Local == [pc : PCs, kind : Kinds \cup {"none"}, row : Rows \cup {NoRow}, next : Nat,
          dir : Slots, path : Paths, todo : SUBSET Paths, file : Files \cup {NoFile},
          after : {"wait", "idle"}]

Idle == [pc |-> "idle", kind |-> "none", row |-> NoRow, next |-> 0, dir |-> "a",
         path |-> Home, todo |-> {}, file |-> NoFile, after |-> "idle"]

TypeOK ==
    /\ row \in [Rows -> Row]
    /\ site \in Nat
    /\ slot \in [Slots -> [Paths -> Files \cup {NoFile}]]
    /\ current \in Slots \cup {"none"}
    /\ version \in Nat
    /\ chain \in Seq(Ops)
    /\ op \in [Ops -> Local]
    /\ dirty \subseteq Rows \cup {NoRow}

EmptySlot == [p \in Paths |-> NoFile]

Init ==
    /\ \E t \in Tables : \E s \in [Rows -> Slugs] :
          /\ \A q, r \in Rows : q # r => s[q] # s[r]
          /\ row = [r \in Rows |-> NewRow(t, s[r])]
    /\ site = 0
    /\ slot = [d \in Slots |-> EmptySlot]
    /\ current = "none"
    /\ version = 0
    /\ chain = <<>>
    /\ op = [o \in Ops |-> Idle]
    /\ dirty = {}

-----------------------------------------------------------------------------
(* Shared pieces.                                                          *)

ActiveSlot == IF current = "b" THEN "b" ELSE "a"

(* Mutant: the slots never alternate. *)
InactiveSlotFixed == "b"

InactiveSlot == IF ActiveSlot = "a" THEN "b" ELSE "a"

(* The file a visitor is served: readArtefact opens it through `current`. *)
Served == IF current = "none" THEN EmptySlot ELSE slot[current]

(* getPublishedDataRowByRoute: the rows the query can return *)
PublishedAt(p) == {r \in Rows : Visible(row[r]) /\ PublicPath(row[r]) = p}

Busy == {o \in Ops : op[o].pc # "idle"}
Quiet == Busy = {}

At(o, k, p) == op[o].kind = k /\ op[o].pc = p
Step(o, l) == op' = [op EXCEPT ![o] = l]
Goto(o, p) == Step(o, [op[o] EXCEPT !.pc = p])
Finish(o) == Step(o, Idle)

(* withPublishLock: a request joins the tail, the head runs, and the next  *)
(* one runs when it has settled, with or without an error.                 *)
Enqueue(o) == chain' = Append(chain, o)

(* Mutant: a request runs as soon as it has joined the chain. *)
HoldsAnywhere(o) == \E i \in 1..Len(chain) : chain[i] = o

Holds(o) == chain # <<>> /\ Head(chain) = o
Release == chain' = Tail(chain)

(* The bounds: no request starts that the bounds could stop half way. *)
Room(k, r) ==
    /\ version + Cardinality(Busy) < MaxVersion
    /\ k = "site" => site + Cardinality(Busy) < MaxGen
    /\ k = "row" => row[r].active.no + Cardinality(Busy) < MaxGen

Started(k, r, p) == [Idle EXCEPT !.kind = k, !.row = r, !.pc = p]

-----------------------------------------------------------------------------
(* Full publish.                                                           *)

SiteStart(o) ==
    /\ "site" \in Kinds /\ op[o].pc = "idle" /\ Room("site", NoRow)
    /\ Step(o, Started("site", NoRow, "wait"))
    /\ Enqueue(o)
    /\ UNCHANGED <<row, site, slot, current, version, dirty>>

(* Phases 1 and 2: read the draft, build, commit the snapshot. *)
SitePersist(o) ==
    /\ At(o, "site", "wait") /\ Holds(o)
    /\ site' = site + 1
    /\ dirty' = dirty \cup {NoRow}
    /\ Step(o, [op[o] EXCEPT !.pc = "prepare", !.next = version + 1])
    /\ UNCHANGED <<row, slot, current, version, chain>>

(* No draft, a failed build or a failed transaction: the publish throws. *)
SitePersistFails(o) ==
    /\ Failures /\ At(o, "site", "wait") /\ Holds(o)
    /\ Finish(o) /\ Release
    /\ UNCHANGED <<row, site, slot, current, version, dirty>>

SitePrepare(o) ==
    /\ At(o, "site", "prepare")
    /\ slot' = [slot EXCEPT ![InactiveSlot] = EmptySlot]
    /\ Step(o, [op[o] EXCEPT !.pc = "home", !.dir = InactiveSlot])
    /\ UNCHANGED <<row, site, current, version, chain, dirty>>

PageFile(o) == [row |-> NoRow, no |-> 0, gen |-> site, stamp |-> op[o].next]
RowFile(o, r) == [row |-> r, no |-> row[r].active.no, gen |-> site, stamp |-> op[o].next]

(* Mutant: the page is written in place, as a row's file is. *)
SiteBakeHomeInPlace(o) ==
    /\ At(o, "site", "home")
    /\ slot' = [slot EXCEPT ![ActiveSlot][Home] = PageFile(o)]
    /\ Goto(o, "list")
    /\ UNCHANGED <<row, site, current, version, chain, dirty>>

SiteBakeHome(o) ==
    /\ At(o, "site", "home")
    /\ \/ slot' = [slot EXCEPT ![op[o].dir][Home] = PageFile(o)]
       \/ Failures /\ UNCHANGED slot     \* a page that fails is skipped
    /\ Goto(o, "list")
    /\ UNCHANGED <<row, site, current, version, chain, dirty>>

SiteListRows(o) ==
    /\ At(o, "site", "list")
    /\ Step(o, [op[o] EXCEPT !.pc = "rows",
                   !.todo = {PublicPath(row[r]) : r \in {q \in Rows : Visible(row[q])}}])
    /\ UNCHANGED <<row, site, slot, current, version, chain, dirty>>

(* The next listed route is read again; a row gone meanwhile is skipped. *)
SiteReadRow(o) ==
    /\ At(o, "site", "rows")
    /\ \E p \in op[o].todo :
          LET rest == [op[o] EXCEPT !.todo = @ \ {p}] IN
          IF PublishedAt(p) = {}
          THEN Step(o, rest)
          ELSE \E r \in PublishedAt(p) :
                  Step(o, [rest EXCEPT !.pc = "render", !.path = p, !.file = RowFile(o, r)])
    /\ UNCHANGED <<row, site, slot, current, version, chain, dirty>>

SiteBakeRow(o) ==
    /\ At(o, "site", "render")
    /\ \/ slot' = [slot EXCEPT ![op[o].dir][op[o].path] = op[o].file]
       \/ Failures /\ UNCHANGED slot
    /\ Step(o, [op[o] EXCEPT !.pc = "rows", !.path = Home, !.file = NoFile])
    /\ UNCHANGED <<row, site, current, version, chain, dirty>>

(* The style sheets and scripts are written last, then the link is swapped. *)
SiteAssets(o) ==
    /\ At(o, "site", "rows") /\ op[o].todo = {}
    /\ Goto(o, "swap")
    /\ UNCHANGED <<row, site, slot, current, version, chain, dirty>>

SiteSwap(o) ==
    /\ At(o, "site", "swap")
    /\ current' = op[o].dir
    /\ Goto(o, "bump")
    /\ UNCHANGED <<row, site, slot, version, chain, dirty>>

(* A disk error on the way is logged: no swap, and the bump comes next. *)
SiteBakeFails(o) ==
    /\ Failures /\ op[o].kind = "site"
    /\ op[o].pc \in {"prepare", "rows", "swap"}
    /\ Goto(o, "bump")
    /\ UNCHANGED <<row, site, slot, current, version, chain, dirty>>

(* bumpPublishVersion at the end of a publish, and the end of its turn. *)
PublishBump(o) ==
    /\ op[o].pc = "bump"
    /\ version' = version + 1
    /\ dirty' = {}
    /\ Finish(o) /\ Release
    /\ UNCHANGED <<row, site, slot, current>>

-----------------------------------------------------------------------------
(* Publish of one row.                                                     *)

RowStart(o, r) ==
    /\ "row" \in Kinds /\ op[o].pc = "idle" /\ Room("row", r)
    /\ ~row[r].deleted
    /\ Step(o, Started("row", r, "wait"))
    /\ Enqueue(o)
    /\ UNCHANGED <<row, site, slot, current, version, dirty>>

(* The transaction commits.  `todo` keeps the path the row had, when its   *)
(* slug changed since; the table is the one the row is in now.             *)
RowPersist(o) ==
    /\ At(o, "row", "wait") /\ Holds(o)
    /\ LET r == op[o].row
           old == PublicPath(row[r])
       IN /\ ~row[r].deleted
          /\ row' = [row EXCEPT ![r] = Persisted(@)]
          /\ Step(o, [op[o] EXCEPT !.pc = "route", !.next = version + 1,
                                   !.path = DraftPath(row[r]),
                                   !.todo = IF row[r].active.no > 0 /\ old # DraftPath(row[r])
                                            THEN {old} ELSE {}])
          /\ dirty' = dirty \cup {r}
    /\ UNCHANGED <<site, slot, current, version, chain>>

(* Mutant: an error breaks the promise chain. *)
RowPersistFailsHolding(o) ==
    /\ At(o, "row", "wait") /\ Holds(o)
    /\ Failures \/ row[op[o].row].deleted
    /\ Finish(o)
    /\ UNCHANGED <<row, site, slot, current, version, chain, dirty>>

(* The row is gone, or the transaction failed. *)
RowPersistFails(o) ==
    /\ At(o, "row", "wait") /\ Holds(o)
    /\ Failures \/ row[op[o].row].deleted
    /\ Finish(o) /\ Release
    /\ UNCHANGED <<row, site, slot, current, version, dirty>>

(* getRowTableRouteInfo reads the table again, and finds no deleted row.   *)
(* An old path is taken out of the active slot first.                      *)
RowRoute(o) ==
    /\ At(o, "row", "route")
    /\ LET d == row[op[o].row] IN
       Step(o, [op[o] EXCEPT !.pc = CASE d.deleted -> "bump"
                                      [] ~d.deleted /\ op[o].todo = {} -> "read"
                                      [] OTHER -> "pruneOld",
                             !.path = <<d.table, op[o].path[2]>>,
                             !.dir = ActiveSlot])
    /\ UNCHANGED <<row, site, slot, current, version, chain, dirty>>

RowPruneOld(o) ==
    /\ At(o, "row", "pruneOld")
    /\ \/ slot' = [slot EXCEPT ![op[o].dir] =
                       [p \in Paths |-> IF p \in op[o].todo THEN NoFile ELSE @[p]]]
       \/ Failures /\ UNCHANGED slot     \* logged
    /\ Step(o, [op[o] EXCEPT !.pc = "read", !.todo = {}])
    /\ UNCHANGED <<row, site, current, version, chain, dirty>>

(* The published version is read back by its path, and rendered; without a *)
(* site snapshot, or without a row there, nothing is written.              *)
RowRead(o) ==
    /\ At(o, "row", "read")
    /\ IF site = 0 \/ PublishedAt(op[o].path) = {}
       THEN Goto(o, "bump")
       ELSE \E r \in PublishedAt(op[o].path) :
               Step(o, [op[o] EXCEPT !.pc = "locate", !.file = RowFile(o, r)])
    /\ UNCHANGED <<row, site, slot, current, version, chain, dirty>>

(* Mutant: the incremental write goes to the other slot. *)
RowLocateInactive(o) ==
    /\ At(o, "row", "locate")
    /\ Step(o, [op[o] EXCEPT !.pc = "write", !.dir = InactiveSlot])
    /\ UNCHANGED <<row, site, slot, current, version, chain, dirty>>

(* updateArtefactInPlace: find the active slot, then write into it. *)
RowLocate(o) ==
    /\ At(o, "row", "locate")
    /\ Step(o, [op[o] EXCEPT !.pc = "write", !.dir = ActiveSlot])
    /\ UNCHANGED <<row, site, slot, current, version, chain, dirty>>

RowWrite(o) ==
    /\ At(o, "row", "write")
    /\ slot' = [slot EXCEPT ![op[o].dir][op[o].path] = op[o].file]
    /\ Goto(o, "bump")
    /\ UNCHANGED <<row, site, current, version, chain, dirty>>

(* A render or a disk error is logged, and the bump comes next. *)
RowBakeFails(o) ==
    /\ Failures /\ op[o].kind = "row"
    /\ op[o].pc \in {"route", "read", "locate", "write"}
    /\ Goto(o, "bump")
    /\ UNCHANGED <<row, site, slot, current, version, chain, dirty>>

-----------------------------------------------------------------------------
(* Retractions.  None of them holds the lock while it touches the table or *)
(* the disk; only the bump itself waits for it.                            *)

Hidden(r) == IF Visible(row[r]) THEN {r} ELSE {}

(* handleRowStatus: update, bump, then remove the file. *)
StatusUpdate(o, r) ==
    /\ "status" \in Kinds /\ op[o].pc = "idle" /\ Room("status", r)
    /\ ~row[r].deleted
    /\ \E s \in {"draft", "unpublished"} : row' = [row EXCEPT ![r] = Retracted(@, s)]
    /\ dirty' = dirty \cup Hidden(r)
    /\ Step(o, [Started("status", r, "wait") EXCEPT !.after = "wait"])
    /\ Enqueue(o)
    /\ UNCHANGED <<site, slot, current, version>>

(* handleRowItemDelete: update, remove the file, then bump if published. *)
DeleteUpdate(o, r) ==
    /\ "delete" \in Kinds /\ op[o].pc = "idle" /\ Room("delete", r)
    /\ ~row[r].deleted
    /\ row' = [row EXCEPT ![r] = SoftDeleted(@)]
    /\ dirty' = dirty \cup Hidden(r)
    /\ Step(o, [Started("delete", r, "resolve") EXCEPT
                       !.path = DraftPath(row[r]),
                       !.after = IF row[r].status = "published" THEN "wait" ELSE "idle"])
    /\ UNCHANGED <<site, slot, current, version, chain>>

(* Mutant: the deletion does not bump. *)
PluginDeleteSilent(o, r) ==
    /\ "pluginDelete" \in Kinds /\ op[o].pc = "idle" /\ Room("pluginDelete", r)
    /\ ~row[r].deleted
    /\ row' = [row EXCEPT ![r] = SoftDeleted(@)]
    /\ dirty' = dirty \cup Hidden(r)
    /\ UNCHANGED <<site, slot, current, version, chain, op>>

(* The plugin surface deletes without touching the files. *)
PluginDelete(o, r) ==
    /\ "pluginDelete" \in Kinds /\ op[o].pc = "idle" /\ Room("pluginDelete", r)
    /\ ~row[r].deleted
    /\ row' = [row EXCEPT ![r] = SoftDeleted(@)]
    /\ dirty' = dirty \cup Hidden(r)
    /\ IF row[r].status = "published"
       THEN /\ Step(o, [Started("pluginDelete", r, "wait") EXCEPT !.after = "wait"])
            /\ Enqueue(o)
       ELSE UNCHANGED <<op, chain>>
    /\ UNCHANGED <<site, slot, current, version>>

(* updateDataRowTable: read the row, check the target, update, and bump if *)
(* the row that was read was published.                                    *)
MoveLoad(o, r) ==
    /\ "move" \in Kinds /\ op[o].pc = "idle" /\ Room("move", r)
    /\ ~row[r].deleted
    /\ Step(o, [Started("move", r, "loaded") EXCEPT
                       !.after = IF row[r].status = "published" THEN "wait" ELSE "idle"])
    /\ UNCHANGED <<row, site, slot, current, version, chain, dirty>>

MoveUpdate(o) ==
    /\ At(o, "move", "loaded")
    /\ LET r == op[o].row IN
       \/ /\ ~row[r].deleted
          /\ \E t \in Tables \ {row[r].table} :
                /\ \A q \in Rows \ {r} : row[q].deleted \/ DraftPath(row[q]) # <<t, row[r].slug>>
                /\ row' = [row EXCEPT ![r] = Moved(@, t)]
          /\ dirty' = dirty \cup Hidden(r)
          /\ IF op[o].after = "wait"
             THEN Goto(o, "wait") /\ Enqueue(o)
             ELSE Finish(o) /\ UNCHANGED chain
       \/ /\ Finish(o)     \* same table, unknown table, slug conflict, or no row
          /\ UNCHANGED <<row, dirty, chain>>
    /\ UNCHANGED <<site, slot, current, version>>

(* Mutant: a bare bump that does not wait for its turn (ISS-038). *)
BareBump(o) ==
    /\ op[o].kind \in {"status", "delete", "pluginDelete", "move"}
    /\ op[o].pc = "wait"
    /\ version' = version + 1
    /\ dirty' = {}
    /\ Finish(o)
    /\ chain' = SelectSeq(chain, LAMBDA p : p # o)
    /\ UNCHANGED <<row, site, slot, current>>

(* bumpPublishVersionSerialized, at the head of the queue *)
SerializedBump(o) ==
    /\ op[o].kind \in {"status", "delete", "pluginDelete", "move"}
    /\ op[o].pc = "wait" /\ Holds(o)
    /\ version' = version + 1
    /\ dirty' = {}
    /\ IF op[o].kind = "status" THEN Step(o, [op[o] EXCEPT !.pc = "reread", !.after = "idle"])
       ELSE Finish(o)
    /\ Release
    /\ UNCHANGED <<row, site, slot, current>>

(* Mutant: the baked file of an unpublished row is left alone (ISS-039). *)
StatusRereadOnly(o) ==
    /\ At(o, "status", "reread")
    /\ Finish(o)
    /\ UNCHANGED <<row, site, slot, current, version, chain, dirty>>

(* After its bump the status handler reads the row again. *)
StatusReread(o) ==
    /\ At(o, "status", "reread")
    /\ LET d == row[op[o].row] IN
       IF d.deleted THEN Finish(o)
       ELSE Step(o, [op[o] EXCEPT !.pc = "resolve", !.path = DraftPath(d)])
    /\ UNCHANGED <<row, site, slot, current, version, chain, dirty>>

(* removeDataRowArtefact: the draft slug the handler got, under the table  *)
(* the row is in now, in the slot that is active now                       *)
PruneResolve(o) ==
    /\ op[o].pc = "resolve"
    /\ Step(o, [op[o] EXCEPT !.pc = "prune", !.dir = ActiveSlot,
                             !.path = <<row[op[o].row].table, op[o].path[2]>>])
    /\ UNCHANGED <<row, site, slot, current, version, chain, dirty>>

Prune(o) ==
    /\ op[o].pc = "prune"
    /\ \/ slot' = [slot EXCEPT ![op[o].dir][op[o].path] = NoFile]
       \/ Failures /\ UNCHANGED slot     \* logged
    /\ IF op[o].after = "wait"
       THEN Goto(o, "wait") /\ Enqueue(o)
       ELSE Finish(o) /\ UNCHANGED chain
    /\ UNCHANGED <<row, site, current, version, dirty>>

-----------------------------------------------------------------------------
(* Requests that are one statement and touch neither lock, disk nor version. *)

Edit(r) ==
    /\ "edit" \in Kinds /\ ~row[r].deleted
    /\ \E s \in Slugs \ {row[r].slug} :
          /\ \A q \in Rows \ {r} : row[q].deleted \/ DraftPath(row[q]) # <<row[r].table, s>>
          /\ row' = [row EXCEPT ![r] = Edited(@, s)]
    /\ UNCHANGED <<site, slot, current, version, chain, op, dirty>>

Schedule(r) ==
    /\ "schedule" \in Kinds /\ ~row[r].deleted
    /\ \E w \in Times : row' = [row EXCEPT ![r] = Scheduled(@, w)]
    /\ dirty' = dirty \cup Hidden(r)
    /\ UNCHANGED <<site, slot, current, version, chain, op>>

(* The process stops and starts again: the database and the disk survive. *)
Crash ==
    /\ Crashes
    /\ version' = 0 /\ chain' = <<>> /\ dirty' = {}
    /\ op' = [o \in Ops |-> Idle]
    /\ UNCHANGED <<row, site, slot, current>>

-----------------------------------------------------------------------------

Site(o) ==
    \/ SitePersist(o) \/ SitePersistFails(o) \/ SitePrepare(o) \/ SiteBakeHome(o)
    \/ SiteListRows(o) \/ SiteReadRow(o) \/ SiteBakeRow(o) \/ SiteAssets(o)
    \/ SiteSwap(o) \/ SiteBakeFails(o)

RowPublish(o) ==
    \/ RowPersist(o) \/ RowPersistFails(o) \/ RowRoute(o) \/ RowPruneOld(o)
    \/ RowRead(o) \/ RowLocate(o) \/ RowWrite(o) \/ RowBakeFails(o)

Retraction(o) ==
    MoveUpdate(o) \/ SerializedBump(o) \/ StatusReread(o) \/ PruneResolve(o) \/ Prune(o)

(* A request that was started goes on. *)
Continue(o) == Site(o) \/ RowPublish(o) \/ PublishBump(o) \/ Retraction(o)

Start(o) ==
    \/ SiteStart(o)
    \/ \E r \in Rows : \/ RowStart(o, r) \/ StatusUpdate(o, r) \/ DeleteUpdate(o, r)
                       \/ PluginDelete(o, r) \/ MoveLoad(o, r)

Next ==
    \/ \E o \in Ops : Start(o) \/ Continue(o)
    \/ \E r \in Rows : Edit(r) \/ Schedule(r)
    \/ Crash

Spec == Init /\ [][Next]_vars

(* The reads, renders, writes and transactions a request awaits settle,    *)
(* with a result or with an error.                                         *)
Fairness == \A o \in Ops : WF_vars(Continue(o))

FairSpec == Spec /\ Fairness

-----------------------------------------------------------------------------
(* Properties.                                                             *)

(* The steps of a publish that lie between its commit and its bump         *)
Critical == {"prepare", "home", "list", "rows", "render", "swap",
             "route", "pruneOld", "read", "locate", "write", "bump"}

Waiting(o) == op[o].pc = "wait"

(* withPublishLock (ISS-038): no two publishes' read-version, bake, bump   *)
(* windows overlap.                                                        *)
WindowsDisjoint ==
    \A o, p \in Ops : op[o].pc \in Critical /\ op[p].pc \in Critical => o = p

(* publishSite.ts, publishRow.ts: the version a publish stamps on the hole *)
(* shells it bakes is the one its own bump makes current; nobody else can  *)
(* bump in between.                                                        *)
StampIsNextVersion ==
    \A o \in Ops : op[o].pc \in Critical => op[o].next = version + 1

(* staticArtefact.ts: a full publish wipes and fills the slot that the     *)
(* link does not point to, and visitors' slot is untouched until the swap. *)
Baking == {"home", "list", "rows", "render", "swap"}

BakesOffline == \A o \in Ops : op[o].pc \in Baking => op[o].dir # current

(* updateArtefactInPlace finds the active slot and then writes: the slot   *)
(* it found is still the one being served when it writes.                  *)
WritesOnline == \A o \in Ops : op[o].pc = "write" => op[o].dir = ActiveSlot

(* renderCache.ts, peek: every mutation that changes what a public URL     *)
(* serves bumps the version before its request is over.                    *)
RouteChangesBumped == Quiet => dirty = {}

(* ISS-039: when nothing is in progress, no file is served at the path of  *)
(* a row that is not published there.                                      *)
RetractedNotServed ==
    Quiet => \A p \in RowPaths : Served[p] # NoFile => PublishedAt(p) # {}

(* When nothing is in progress, a file that is served shows the published  *)
(* version of its row, or the latest site snapshot.                        *)
ServedIsCurrent ==
    Quiet => /\ Served[Home] # NoFile => Served[Home].gen = site
             /\ \A p \in RowPaths : Served[p] # NoFile =>
                   \E r \in PublishedAt(p) : Served[p].row = r /\ Served[p].no = row[r].active.no

(* A request that was started is answered: the lock never wedges, whatever *)
(* fails under it.                                                         *)
RequestsFinish == \A o \in Ops : op[o].pc # "idle" ~> op[o].pc = "idle"

(* Visitors see the two-slot directory as one that changes atomically.     *)
LS == INSTANCE LiveSite WITH live <- Served, Pages <- {Home}
LiveSiteSpec == LS!Spec
=============================================================================
