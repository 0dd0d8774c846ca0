----------------------- MODULE PublishPipeline_proofs -----------------------
(***************************************************************************)
(* Proofs, for any number of rows, tables, slugs and requests, and with    *)
(* every failure and crash: the type invariant of PublishPipeline, the     *)
(* exclusion the publish lock gives (publishState.ts), the version stamp   *)
(* (publishSite.ts, publishRow.ts), the slot discipline                    *)
(* (staticArtefact.ts), that the pipeline implements LiveSite, and that a  *)
(* change in public view is bumped.  Without failures and crashes, what is *)
(* served once publishes and unpublishes are over is what the table says.  *)
(***************************************************************************)
EXTENDS PublishPipeline, TLAPS

(* The states of a request that is in the publish chain *)
Queued == Critical \cup {"wait"}

(* The publish chain: nobody is in it twice, everybody in it runs or waits, *)
(* and whoever runs is at its head.                                         *)
ChainOK ==
    /\ \A i, j \in 1..Len(chain) : chain[i] = chain[j] => i = j
    /\ \A i \in 1..Len(chain) : op[chain[i]].pc \in Queued
    /\ \A o \in Ops : op[o].pc \in Critical => Holds(o)

(* What the place a request has reached says of the rest of its state, when *)
(* the version is v and the link is c                                       *)
LocalOK(l, v, c) ==
    /\ l.pc # "idle" /\ l.kind # "site" => l.row \in Rows
    /\ l.kind = "site" => l.pc \in Queued
    /\ l.pc \in {"route", "resolve"} => l.path \in RowPaths
    /\ l.pc \in Critical => l.next = v + 1
    /\ l.pc \in Baking => l.dir # c
    /\ l.pc = "write" => l.dir = IF c = "b" THEN "b" ELSE "a"

(* The inductive invariant *)
IInv == TypeOK /\ ChainOK /\ \A o \in Ops : LocalOK(op[o], version, current)

-----------------------------------------------------------------------------
(* The three ways a step of a request can touch the chain.                 *)

Stays(o, l) ==
    /\ UNCHANGED chain
    /\ \/ op[o].pc \notin Queued /\ l.pc \notin Queued
       \/ Holds(o) /\ l.pc \in Critical

Joins(o, l) == Enqueue(o) /\ op[o].pc \notin Queued /\ l.pc = "wait"

Leaves(o, l) == Holds(o) /\ Release /\ l.pc \notin Queued

(* The variables that are not about requests *)
DataOK ==
    /\ row \in [Rows -> Row]
    /\ site \in Nat
    /\ slot \in [Slots -> [Paths -> Files \cup {NoFile}]]
    /\ current \in Slots \cup {"none"}
    /\ version \in Nat
    /\ dirty \subseteq Rows \cup {NoRow}

LEMMA StepTyped ==
    ASSUME op \in [Ops -> Local], NEW o \in Ops, NEW l \in Local, Step(o, l)
    PROVE  /\ op' \in [Ops -> Local]
           /\ op'[o] = l
           /\ \A p \in Ops \ {o} : op'[p] = op[p]
  BY DEF Step

LEMMA HeadOfChain ==
    ASSUME chain \in Seq(Ops), NEW o \in Ops, Holds(o)
    PROVE  Len(chain) \in Nat /\ 1 \in 1..Len(chain) /\ chain[1] = o
  BY DEF Holds

(* A step that leaves the chain alone keeps it well formed. *)
LEMMA StayKeepsChain ==
    ASSUME IInv, NEW o \in Ops, NEW l \in Local, Step(o, l), Stays(o, l)
    PROVE  ChainOK' /\ chain' \in Seq(Ops)
<1>1. chain' = chain /\ chain \in Seq(Ops) BY DEF IInv, TypeOK, Stays
<1>2. op' \in [Ops -> Local] /\ op'[o] = l /\ \A p \in Ops \ {o} : op'[p] = op[p]
  BY StepTyped DEF IInv, TypeOK
<1>3. Critical \subseteq Queued BY DEF Queued
<1>4. \A i \in 1..Len(chain) : op'[chain[i]].pc \in Queued
  <2>1. SUFFICES ASSUME NEW i \in 1..Len(chain) PROVE op'[chain[i]].pc \in Queued
    OBVIOUS
  <2>2. chain[i] \in Ops /\ op[chain[i]].pc \in Queued BY <1>1 DEF IInv, ChainOK
  <2>3. CASE chain[i] = o BY <2>2, <2>3, <1>2, <1>3 DEF Stays
  <2>4. CASE chain[i] # o BY <2>2, <2>4, <1>2
  <2>5. QED BY <2>3, <2>4
<1>5. \A p \in Ops : op'[p].pc \in Critical => Holds(p)
  BY <1>2, <1>3 DEF IInv, ChainOK, Stays
<1>6. QED BY <1>1, <1>4, <1>5 DEF IInv, ChainOK, Holds

(* A request that joins the tail was not in the chain. *)
LEMMA JoinKeepsChain ==
    ASSUME IInv, NEW o \in Ops, NEW l \in Local, Step(o, l), Joins(o, l)
    PROVE  ChainOK' /\ chain' \in Seq(Ops)
<1>1. chain' = Append(chain, o) /\ chain \in Seq(Ops) BY DEF IInv, TypeOK, Joins, Enqueue
<1>2. op' \in [Ops -> Local] /\ op'[o] = l /\ \A p \in Ops \ {o} : op'[p] = op[p]
  BY StepTyped DEF IInv, TypeOK
<1>3. /\ chain' \in Seq(Ops) /\ Len(chain') = Len(chain) + 1 /\ Len(chain) \in Nat
      /\ chain'[Len(chain) + 1] = o
      /\ \A i \in 1..Len(chain) : chain'[i] = chain[i] /\ chain[i] \in Ops
  BY <1>1
<1>4. \A i \in 1..Len(chain) : chain[i] # o
  BY DEF IInv, ChainOK, Joins
<1>5. "wait" \in Queued /\ "wait" \notin Critical BY DEF Queued, Critical
<1>6. \A i, j \in 1..Len(chain') : chain'[i] = chain'[j] => i = j
  BY <1>3, <1>4 DEF IInv, ChainOK
<1>7. \A i \in 1..Len(chain') : op'[chain'[i]].pc \in Queued
  <2>1. SUFFICES ASSUME NEW i \in 1..Len(chain') PROVE op'[chain'[i]].pc \in Queued
    OBVIOUS
  <2>2. CASE i \in 1..Len(chain) BY <2>2, <1>2, <1>3, <1>4 DEF IInv, ChainOK
  <2>3. CASE i = Len(chain) + 1 BY <2>3, <1>2, <1>3, <1>5 DEF Joins
  <2>4. QED BY <2>2, <2>3, <1>3
<1>8. \A p \in Ops : op'[p].pc \in Critical => Holds(p)'
  <2>1. SUFFICES ASSUME NEW p \in Ops, op'[p].pc \in Critical PROVE Holds(p)'
    OBVIOUS
  <2>2. p # o BY <2>1, <1>2, <1>5 DEF Joins
  <2>3. Holds(p) BY <2>1, <2>2, <1>2 DEF IInv, ChainOK
  <2>4. 1 \in 1..Len(chain) /\ chain[1] = p BY <2>3, <1>1, HeadOfChain
  <2>5. chain'[1] = p /\ Len(chain') > 0 BY <2>4, <1>3
  <2>6. QED BY <2>5, <1>3 DEF Holds
<1>9. QED BY <1>3, <1>6, <1>7, <1>8 DEF ChainOK

(* The head that leaves was the only one that could run. *)
LEMMA LeaveKeepsChain ==
    ASSUME IInv, NEW o \in Ops, NEW l \in Local, Step(o, l), Leaves(o, l)
    PROVE  ChainOK' /\ chain' \in Seq(Ops)
<1>1. chain' = Tail(chain) /\ chain \in Seq(Ops) /\ chain # <<>>
  BY DEF IInv, TypeOK, Leaves, Release, Holds
<1>2. op' \in [Ops -> Local] /\ op'[o] = l /\ \A p \in Ops \ {o} : op'[p] = op[p]
  BY StepTyped DEF IInv, TypeOK
<1>3. Len(chain) \in Nat /\ 1 \in 1..Len(chain) /\ chain[1] = o BY <1>1, HeadOfChain DEF Leaves
<1>4. /\ chain' \in Seq(Ops) /\ Len(chain') = Len(chain) - 1
      /\ \A i \in 1..Len(chain') : chain'[i] = chain[i + 1] /\ i + 1 \in 1..Len(chain)
  BY <1>1, <1>3
<1>5. \A i, j \in 1..Len(chain') : chain'[i] = chain'[j] => i = j
  <2>1. SUFFICES ASSUME NEW i \in 1..Len(chain'), NEW j \in 1..Len(chain'),
                        chain'[i] = chain'[j]
                 PROVE  i = j
    OBVIOUS
  <2>2. i + 1 = j + 1 BY <2>1, <1>4 DEF IInv, ChainOK
  <2>3. QED BY <2>2
<1>6. \A i \in 1..Len(chain') : op'[chain'[i]].pc \in Queued
  <2>1. SUFFICES ASSUME NEW i \in 1..Len(chain') PROVE op'[chain'[i]].pc \in Queued
    OBVIOUS
  <2>2. chain'[i] = chain[i + 1] /\ i + 1 \in 1..Len(chain) /\ i + 1 # 1 BY <1>4
  <2>3. chain[i + 1] # o BY <2>2, <1>3 DEF IInv, ChainOK
  <2>4. chain[i + 1] \in Ops BY <2>2, <1>1
  <2>5. QED BY <2>2, <2>3, <2>4, <1>2 DEF IInv, ChainOK
<1>7. \A p \in Ops : op'[p].pc \notin Critical
  <2>1. SUFFICES ASSUME NEW p \in Ops, op'[p].pc \in Critical PROVE FALSE
    OBVIOUS
  <2>2. p # o BY <2>1, <1>2 DEF Leaves, Queued
  <2>3. Holds(p) BY <2>1, <2>2, <1>2 DEF IInv, ChainOK
  <2>4. QED BY <2>2, <2>3, <1>3 DEF Holds
<1>8. QED BY <1>4, <1>5, <1>6, <1>7 DEF ChainOK
(* One step of one request.  The version and the link change only under    *)
(* the lock, when no other request is between its commit and its bump.     *)
LEMMA RequestStep ==
    ASSUME IInv, NEW o \in Ops, NEW l \in Local, Step(o, l),
           Stays(o, l) \/ Joins(o, l) \/ Leaves(o, l),
           UNCHANGED <<version, current>> \/ Holds(o),
           DataOK', LocalOK(l, version', current')
    PROVE  IInv'
<1>1. ChainOK' /\ chain' \in Seq(Ops)
  BY StayKeepsChain, JoinKeepsChain, LeaveKeepsChain
<1>2. op' \in [Ops -> Local] /\ op'[o] = l /\ \A p \in Ops \ {o} : op'[p] = op[p]
  BY StepTyped DEF IInv, TypeOK
<1>3. TypeOK' BY <1>1, <1>2 DEF TypeOK, DataOK
<1>4. ASSUME NEW p \in Ops PROVE LocalOK(op'[p], version', current')
  <2>1. CASE p = o BY <2>1, <1>2
  <2>2. CASE p # o /\ UNCHANGED <<version, current>>
    BY <2>2, <1>2 DEF IInv
  <2>3. CASE p # o /\ Holds(o)
    <3>1. op[p].pc \notin Critical BY <2>3 DEF IInv, ChainOK, Holds
    <3>2. op'[p] = op[p] /\ LocalOK(op[p], version, current) BY <2>3, <1>2 DEF IInv
    <3>3. Baking \subseteq Critical /\ "write" \in Critical BY DEF Baking, Critical
    <3>4. QED BY <3>1, <3>2, <3>3 DEF LocalOK
  <2>4. QED BY <2>1, <2>2, <2>3
<1>5. QED BY <1>1, <1>3, <1>4 DEF IInv

(* A step inside the window between commit and bump *)
LEMMA WindowStep ==
    ASSUME IInv, NEW o \in Ops, NEW l \in Local, Step(o, l), UNCHANGED <<version, chain>>,
           op[o].pc \in Critical, l.pc \in Critical \ {"route"},
           l.kind = op[o].kind, l.row = op[o].row, l.next = op[o].next,
           l.pc \in Baking => l.dir # current',
           l.pc = "write" => l.dir = IF current' = "b" THEN "b" ELSE "a",
           DataOK'
    PROVE  IInv'
<1>1. Holds(o) /\ LocalOK(op[o], version, current) BY DEF IInv, ChainOK
<1>2. Stays(o, l) BY <1>1 DEF Stays
<1>3. op[o].pc # "idle" /\ l.pc \notin {"route", "resolve"} BY DEF Critical
<1>4. LocalOK(l, version', current') BY <1>1, <1>3 DEF LocalOK, Queued
<1>5. QED BY <1>1, <1>2, <1>4, RequestStep

LEMMA IdleOK == Idle \in Local /\ Idle.pc = "idle" /\ Idle.kind = "none"
  BY FileAssumption DEF Idle, Local, PCs, Slots, Paths

(* The head of the chain is through. *)
LEMMA LeaveStep ==
    ASSUME IInv, NEW o \in Ops, Finish(o), Holds(o), Release, DataOK'
    PROVE  IInv'
<1>1. Leaves(o, Idle) BY IdleOK DEF Leaves, Queued, Critical
<1>2. LocalOK(Idle, version', current') BY IdleOK DEF LocalOK, Critical, Baking
<1>3. Step(o, Idle) BY DEF Finish
<1>4. QED BY <1>1, <1>2, <1>3, IdleOK, RequestStep

(* The statements map rows to rows. *)
LEMMA StatementsTyped ==
    ASSUME NEW d \in Row
    PROVE  /\ Persisted(d) \in Row /\ SoftDeleted(d) \in Row
           /\ \A s \in {"draft", "unpublished"} : Retracted(d, s) \in Row
           /\ \A t \in Tables : Moved(d, t) \in Row
           /\ \A s \in Slugs : Edited(d, s) \in Row
           /\ \A w \in Times : Scheduled(d, w) \in Row
<1>1. d.active \in [no : Nat, slug : Slugs] /\ d.slug \in Slugs BY DEF Row
<1> DEFINE a == [no |-> d.active.no + 1, slug |-> d.slug]
<1>2. a \in [no : Nat, slug : Slugs] BY <1>1
<1> HIDE DEF a
<1>3. [d EXCEPT !.status = "published", !.active = a] \in Row
  BY <1>2 DEF Row, Statuses
<1>4. Persisted(d) \in Row BY <1>3 DEF Persisted, a
<1>5. SoftDeleted(d) \in Row BY DEF SoftDeleted, Row
<1>6. \A s \in {"draft", "unpublished"} : Retracted(d, s) \in Row
  BY DEF Retracted, Row, Statuses
<1>7. \A t \in Tables : Moved(d, t) \in Row BY DEF Moved, Row
<1>8. \A s \in Slugs : Edited(d, s) \in Row BY DEF Edited, Row
<1>9. \A w \in Times : Scheduled(d, w) \in Row BY DEF Scheduled, Row, Statuses
<1>10. QED BY <1>4, <1>5, <1>6, <1>7, <1>8, <1>9

LEMMA PathsTyped ==
    ASSUME row \in [Rows -> Row], NEW r \in Rows
    PROVE  /\ PublicPath(row[r]) \in RowPaths /\ DraftPath(row[r]) \in RowPaths
           /\ row[r].table \in Tables
           /\ RowPaths \subseteq Paths
  BY DEF Row, PublicPath, DraftPath, RowPaths, Paths

LEMMA FilesTyped ==
    ASSUME row \in [Rows -> Row], site \in Nat, NEW o \in Ops, op[o] \in Local
    PROVE  /\ PageFile(o) \in Files
           /\ \A r \in Rows : RowFile(o, r) \in Files
  BY DEF Row, Files, Local, PageFile, RowFile

LEMMA SlotsTyped == ActiveSlot \in Slots /\ InactiveSlot \in Slots
  BY DEF ActiveSlot, InactiveSlot, Slots

(* One file of one slot is written or removed. *)
LEMMA SlotWritten ==
    ASSUME slot \in [Slots -> [Paths -> Files \cup {NoFile}]],
           NEW d \in Slots, NEW p \in Paths, NEW f \in Files \cup {NoFile}
    PROVE  [slot EXCEPT ![d][p] = f] \in [Slots -> [Paths -> Files \cup {NoFile}]]
<1>1. [slot[d] EXCEPT ![p] = f] \in [Paths -> Files \cup {NoFile}] OBVIOUS
<1>2. QED BY <1>1

-----------------------------------------------------------------------------
(* The full publish.                                                       *)

LEMMA SiteStartOK == ASSUME IInv, NEW o \in Ops, SiteStart(o) PROVE IInv'
<1> DEFINE l == Started("site", NoRow, "wait")
<1>1. l \in Local /\ l.pc = "wait" /\ l.kind = "site"
  BY DEF Started, Idle, Local, PCs, Slots, Paths, SiteStart
<1>2. op[o].pc = "idle" /\ Step(o, l) /\ Enqueue(o) /\ UNCHANGED <<row, site, slot, current, version, dirty>>
  BY DEF SiteStart
<1>3. Joins(o, l) BY <1>1, <1>2 DEF Joins, Queued, Critical
<1>4. DataOK' BY <1>2 DEF IInv, TypeOK, DataOK
<1>5. LocalOK(l, version', current') BY <1>1 DEF LocalOK, Critical, Baking, Queued
<1> HIDE DEF l
<1>6. QED BY <1>1, <1>2, <1>3, <1>4, <1>5, RequestStep

LEMMA SitePersistOK == ASSUME IInv, NEW o \in Ops, SitePersist(o) PROVE IInv'
<1> DEFINE n == version + 1
           l == [op[o] EXCEPT !.pc = "prepare", !.next = n]
<1>1. /\ Step(o, l) /\ Holds(o) /\ op[o].kind = "site" /\ op[o].pc = "wait" /\ site' = site + 1
      /\ dirty' = dirty \cup {NoRow} /\ UNCHANGED <<row, slot, current, version, chain>>
  BY DEF SitePersist, At
<1>2. n \in Nat /\ op[o] \in Local BY DEF IInv, TypeOK
<1> HIDE DEF n
<1>3. "prepare" \in PCs BY DEF PCs
<1>4. l \in Local /\ l.pc = "prepare" /\ l.kind = op[o].kind /\ l.next = n
  BY <1>2, <1>3 DEF Local
<1>5. Stays(o, l) BY <1>1, <1>4 DEF Stays, Critical
<1>6. DataOK' BY <1>1 DEF IInv, TypeOK, DataOK
<1>7. n = version' + 1 BY <1>1 DEF n
<1>8. LocalOK(l, version', current') BY <1>1, <1>4, <1>7 DEF LocalOK, Baking, Critical, Queued
<1> HIDE DEF l
<1>9. QED BY <1>1, <1>4, <1>5, <1>6, <1>8, RequestStep
LEMMA SitePersistFailsOK == ASSUME IInv, NEW o \in Ops, SitePersistFails(o) PROVE IInv'
<1>1. DataOK' BY DEF SitePersistFails, IInv, TypeOK, DataOK
<1>2. QED BY <1>1, LeaveStep DEF SitePersistFails

LEMMA SitePrepareOK == ASSUME IInv, NEW o \in Ops, SitePrepare(o) PROVE IInv'
<1> DEFINE l == [op[o] EXCEPT !.pc = "home", !.dir = InactiveSlot]
<1>1. /\ Step(o, l) /\ op[o].pc = "prepare" /\ slot' = [slot EXCEPT ![InactiveSlot] = EmptySlot]
      /\ UNCHANGED <<row, site, current, version, chain, dirty>>
  BY DEF SitePrepare, At
<1>2. op[o] \in Local /\ "home" \in PCs BY DEF IInv, TypeOK, PCs
<1>3. /\ l \in Local /\ l.pc = "home" /\ l.kind = op[o].kind /\ l.row = op[o].row
      /\ l.next = op[o].next /\ l.dir = InactiveSlot
  BY <1>2, SlotsTyped DEF Local
<1>4. InactiveSlot # current BY DEF InactiveSlot, ActiveSlot, IInv, TypeOK, Slots
<1>5. EmptySlot \in [Paths -> Files \cup {NoFile}] BY DEF EmptySlot
<1>6. DataOK' BY <1>1, <1>5 DEF IInv, TypeOK, DataOK
<1>7. "prepare" \in Critical /\ "home" \in Critical BY DEF Critical
<1> HIDE DEF l
<1>8. QED BY <1>1, <1>3, <1>4, <1>6, <1>7, WindowStep

LEMMA SiteBakeHomeOK == ASSUME IInv, NEW o \in Ops, SiteBakeHome(o) PROVE IInv'
<1> DEFINE l == [op[o] EXCEPT !.pc = "list"]
<1>1. /\ Step(o, l) /\ op[o].pc = "home"
      /\ slot' = [slot EXCEPT ![op[o].dir][Home] = PageFile(o)] \/ UNCHANGED slot
      /\ UNCHANGED <<row, site, current, version, chain, dirty>>
  BY DEF SiteBakeHome, At, Goto
<1>2. op[o] \in Local /\ "list" \in PCs /\ op[o].dir \in Slots /\ op[o].dir # current
  BY <1>1 DEF IInv, TypeOK, PCs, Local, LocalOK, Baking
<1>3. /\ l \in Local /\ l.pc = "list" /\ l.kind = op[o].kind /\ l.row = op[o].row
      /\ l.next = op[o].next /\ l.dir = op[o].dir
  BY <1>2 DEF Local
<1>4. DataOK BY DEF IInv, TypeOK, DataOK
<1>5. slot' \in [Slots -> [Paths -> Files \cup {NoFile}]]
  <2>1. Home \in Paths BY DEF Paths
  <2>2. PageFile(o) \in Files BY <1>2, <1>4, FilesTyped DEF DataOK
  <2>3. [slot EXCEPT ![op[o].dir][Home] = PageFile(o)] \in [Slots -> [Paths -> Files \cup {NoFile}]]
    <3> DEFINE f == PageFile(o)
    <3>1. f \in Files \cup {NoFile} BY <2>2
    <3> HIDE DEF f
    <3>2. [slot EXCEPT ![op[o].dir][Home] = f] \in [Slots -> [Paths -> Files \cup {NoFile}]]
      BY <1>2, <1>4, <2>1, <3>1, SlotWritten DEF DataOK
    <3>3. QED BY <3>2 DEF f
  <2>4. QED BY <1>1, <1>4, <2>3 DEF DataOK
<1>6. DataOK' BY <1>1, <1>4, <1>5 DEF DataOK
<1>7. "home" \in Critical /\ "list" \in Critical BY DEF Critical
<1> HIDE DEF l
<1>8. QED BY <1>1, <1>2, <1>3, <1>6, <1>7, WindowStep

LEMMA SiteListRowsOK == ASSUME IInv, NEW o \in Ops, SiteListRows(o) PROVE IInv'
<1> DEFINE s == {PublicPath(row[r]) : r \in {q \in Rows : Visible(row[q])}}
           l == [op[o] EXCEPT !.pc = "rows", !.todo = s]
<1>1. /\ Step(o, l) /\ op[o].pc = "list"
      /\ UNCHANGED <<row, site, slot, current, version, chain, dirty>>
  BY DEF SiteListRows, At
<1>2. op[o] \in Local /\ "rows" \in PCs /\ op[o].dir # current
  BY <1>1 DEF IInv, TypeOK, PCs, LocalOK, Baking
<1>3. s \in SUBSET Paths BY PathsTyped DEF IInv, TypeOK
<1> HIDE DEF s
<1>4. /\ l \in Local /\ l.pc = "rows" /\ l.kind = op[o].kind /\ l.row = op[o].row
      /\ l.next = op[o].next /\ l.dir = op[o].dir
  BY <1>2, <1>3 DEF Local
<1>5. DataOK' BY <1>1 DEF IInv, TypeOK, DataOK
<1>6. "list" \in Critical /\ "rows" \in Critical BY DEF Critical
<1> HIDE DEF l
<1>7. QED BY <1>1, <1>2, <1>4, <1>5, <1>6, WindowStep

LEMMA SiteReadRowOK == ASSUME IInv, NEW o \in Ops, SiteReadRow(o) PROVE IInv'
<1>1. PICK p \in op[o].todo :
         LET rest == [op[o] EXCEPT !.todo = @ \ {p}] IN
         \/ Step(o, rest)
         \/ \E r \in PublishedAt(p) :
               Step(o, [rest EXCEPT !.pc = "render", !.path = p, !.file = RowFile(o, r)])
  BY DEF SiteReadRow
<1>2. op[o].pc = "rows" /\ UNCHANGED <<row, site, slot, current, version, chain, dirty>>
  BY DEF SiteReadRow, At
<1>3. op[o] \in Local /\ "render" \in PCs /\ op[o].dir # current /\ p \in Paths
  BY <1>2 DEF IInv, TypeOK, PCs, Local, LocalOK, Baking
<1> DEFINE rest == [op[o] EXCEPT !.todo = @ \ {p}]
<1>4. /\ rest \in Local /\ rest.pc = "rows" /\ rest.kind = op[o].kind /\ rest.row = op[o].row
      /\ rest.next = op[o].next /\ rest.dir = op[o].dir
  BY <1>2, <1>3 DEF Local
<1>5. DataOK' /\ DataOK BY <1>2 DEF IInv, TypeOK, DataOK
<1>6. "rows" \in Critical /\ "render" \in Critical BY DEF Critical
<1>7. CASE Step(o, rest)
  <2> HIDE DEF rest
  <2>1. QED BY <1>7, <1>2, <1>3, <1>4, <1>5, <1>6, WindowStep
<1>8. ASSUME NEW r \in PublishedAt(p),
             Step(o, [rest EXCEPT !.pc = "render", !.path = p, !.file = RowFile(o, r)])
      PROVE  IInv'
  <2> DEFINE l == [rest EXCEPT !.pc = "render", !.path = p, !.file = RowFile(o, r)]
  <2>1. RowFile(o, r) \in Files BY <1>3, <1>5, <1>8, FilesTyped DEF DataOK, PublishedAt
  <2> HIDE DEF rest
  <2>2. /\ l \in Local /\ l.pc = "render" /\ l.kind = op[o].kind /\ l.row = op[o].row
        /\ l.next = op[o].next /\ l.dir = op[o].dir
    BY <1>3, <1>4, <2>1 DEF Local
  <2>3. Step(o, l) BY <1>8
  <2> HIDE DEF l
  <2>4. QED BY <1>2, <1>3, <1>5, <1>6, <2>2, <2>3, WindowStep
<1>9. QED BY <1>1, <1>7, <1>8

LEMMA SiteBakeRowOK == ASSUME IInv, NEW o \in Ops, SiteBakeRow(o) PROVE IInv'
<1> DEFINE l == [op[o] EXCEPT !.pc = "rows", !.path = Home, !.file = NoFile]
<1>1. /\ Step(o, l) /\ op[o].pc = "render"
      /\ slot' = [slot EXCEPT ![op[o].dir][op[o].path] = op[o].file] \/ UNCHANGED slot
      /\ UNCHANGED <<row, site, current, version, chain, dirty>>
  BY DEF SiteBakeRow, At
<1>2. /\ op[o] \in Local /\ "rows" \in PCs /\ op[o].dir # current /\ op[o].dir \in Slots
      /\ op[o].path \in Paths /\ op[o].file \in Files \cup {NoFile} /\ Home \in Paths
  BY <1>1 DEF IInv, TypeOK, PCs, Local, LocalOK, Baking, Paths
<1>3. /\ l \in Local /\ l.pc = "rows" /\ l.kind = op[o].kind /\ l.row = op[o].row
      /\ l.next = op[o].next /\ l.dir = op[o].dir
  BY <1>2 DEF Local
<1>4. DataOK BY DEF IInv, TypeOK, DataOK
<1>5. slot' \in [Slots -> [Paths -> Files \cup {NoFile}]]
  BY <1>1, <1>2, <1>4, SlotWritten DEF DataOK
<1>6. DataOK' BY <1>1, <1>4, <1>5 DEF DataOK
<1>7. "render" \in Critical /\ "rows" \in Critical BY DEF Critical
<1> HIDE DEF l
<1>8. QED BY <1>1, <1>2, <1>3, <1>6, <1>7, WindowStep

LEMMA SiteAssetsOK == ASSUME IInv, NEW o \in Ops, SiteAssets(o) PROVE IInv'
<1> DEFINE l == [op[o] EXCEPT !.pc = "swap"]
<1>1. /\ Step(o, l) /\ op[o].pc = "rows"
      /\ UNCHANGED <<row, site, slot, current, version, chain, dirty>>
  BY DEF SiteAssets, At, Goto
<1>2. op[o] \in Local /\ "swap" \in PCs /\ op[o].dir # current
  BY <1>1 DEF IInv, TypeOK, PCs, LocalOK, Baking
<1>3. /\ l \in Local /\ l.pc = "swap" /\ l.kind = op[o].kind /\ l.row = op[o].row
      /\ l.next = op[o].next /\ l.dir = op[o].dir
  BY <1>2 DEF Local
<1>4. DataOK' BY <1>1 DEF IInv, TypeOK, DataOK
<1>5. "rows" \in Critical /\ "swap" \in Critical BY DEF Critical
<1> HIDE DEF l
<1>6. QED BY <1>1, <1>2, <1>3, <1>4, <1>5, WindowStep

(* Whatever brings a publish to its bump *)
LEMMA ToBump ==
    ASSUME IInv, NEW o \in Ops, op[o].pc \in Critical, Goto(o, "bump"),
           UNCHANGED <<version, chain>>, DataOK'
    PROVE  IInv'
<1> DEFINE l == [op[o] EXCEPT !.pc = "bump"]
<1>1. op[o] \in Local /\ "bump" \in PCs BY DEF IInv, TypeOK, PCs
<1>2. /\ l \in Local /\ l.pc = "bump" /\ l.kind = op[o].kind /\ l.row = op[o].row
      /\ l.next = op[o].next
  BY <1>1 DEF Local
<1>3. "bump" \in Critical /\ "bump" \notin Baking BY DEF Critical, Baking
<1>4. Step(o, l) BY DEF Goto
<1> HIDE DEF l
<1>5. QED BY <1>2, <1>3, <1>4, WindowStep

(* The link moves under the lock, and nobody else is writing. *)
LEMMA SiteSwapOK == ASSUME IInv, NEW o \in Ops, SiteSwap(o) PROVE IInv'
<1>1. op[o].dir \in Slots BY DEF IInv, TypeOK, Local
<1>2. DataOK' BY <1>1 DEF SiteSwap, IInv, TypeOK, DataOK
<1>3. QED BY <1>2, ToBump DEF SiteSwap, At, Critical

LEMMA SiteBakeFailsOK == ASSUME IInv, NEW o \in Ops, SiteBakeFails(o) PROVE IInv'
<1>1. DataOK' BY DEF SiteBakeFails, IInv, TypeOK, DataOK
<1>2. QED BY <1>1, ToBump DEF SiteBakeFails, Critical

LEMMA PublishBumpOK == ASSUME IInv, NEW o \in Ops, PublishBump(o) PROVE IInv'
<1>1. DataOK' BY DEF PublishBump, IInv, TypeOK, DataOK
<1>2. Holds(o) BY DEF PublishBump, IInv, ChainOK, Critical
<1>3. QED BY <1>1, <1>2, LeaveStep DEF PublishBump

-----------------------------------------------------------------------------
(* The publish of one row.                                                 *)

LEMMA StartedTyped ==
    ASSUME NEW k \in Kinds, NEW r \in Rows, NEW p \in PCs
    PROVE  /\ Started(k, r, p) \in Local /\ Started(k, r, p).pc = p
           /\ Started(k, r, p).row = r /\ Started(k, r, p).path = Home
  BY IdleOK DEF Started, Idle, Local

(* A request about a row that goes straight to the queue *)
LEMMA RowJoins ==
    ASSUME IInv, NEW o \in Ops, NEW l \in Local, Step(o, l), Enqueue(o), l.pc = "wait",
           l.row \in Rows, op[o].pc \notin Queued, UNCHANGED <<version, current>>, DataOK'
    PROVE  IInv'
<1>1. Joins(o, l) BY DEF Joins
<1>2. LocalOK(l, version', current') BY DEF LocalOK, Critical, Baking, Queued
<1>3. QED BY <1>1, <1>2, RequestStep

LEMMA RowStartOK == ASSUME IInv, NEW o \in Ops, NEW r \in Rows, RowStart(o, r) PROVE IInv'
<1> DEFINE l == Started("row", r, "wait")
<1>1. l \in Local /\ l.pc = "wait" /\ l.row = r BY StartedTyped DEF RowStart, PCs
<1>2. DataOK' BY DEF RowStart, IInv, TypeOK, DataOK
<1>3. Step(o, l) /\ Enqueue(o) /\ op[o].pc \notin Queued /\ UNCHANGED <<version, current>>
  BY DEF RowStart, Queued, Critical
<1> HIDE DEF l
<1>4. QED BY <1>1, <1>2, <1>3, RowJoins

LEMMA RowPersistOK == ASSUME IInv, NEW o \in Ops, RowPersist(o) PROVE IInv'
<1> DEFINE r == op[o].row
           n == version + 1
           old == PublicPath(row[r])
           p == DraftPath(row[r])
           t == IF row[r].active.no > 0 /\ old # p THEN {old} ELSE {}
           l == [op[o] EXCEPT !.pc = "route", !.next = n, !.path = p, !.todo = t]
<1>1. /\ Step(o, l) /\ Holds(o) /\ op[o].kind = "row" /\ op[o].pc = "wait"
      /\ row' = [row EXCEPT ![r] = Persisted(@)] /\ dirty' = dirty \cup {r}
      /\ UNCHANGED <<site, slot, current, version, chain>>
  BY DEF RowPersist, At
<1>2. op[o] \in Local /\ DataOK /\ n \in Nat BY DEF IInv, TypeOK, DataOK
<1>3. r \in Rows BY <1>1 DEF IInv, LocalOK
<1>4. p \in RowPaths /\ p \in Paths /\ old \in Paths
  BY <1>2, <1>3, PathsTyped DEF DataOK
<1>5. t \in SUBSET Paths BY <1>4
<1>6. "route" \in PCs BY DEF PCs
<1>7. n = version' + 1 BY <1>1
<1>8. DataOK'
  <2>1. row[r] \in Row BY <1>2, <1>3 DEF DataOK
  <2>2. Persisted(row[r]) \in Row BY <2>1, StatementsTyped
  <2>3. row' \in [Rows -> Row] BY <1>1, <1>2, <2>2 DEF DataOK
  <2>4. QED BY <1>1, <1>2, <1>3, <2>3 DEF DataOK
<1> HIDE DEF n, old, p, t
<1>9. /\ l \in Local /\ l.pc = "route" /\ l.kind = "row" /\ l.row = r /\ l.next = n /\ l.path = p
  BY <1>1, <1>2, <1>4, <1>5, <1>6 DEF Local
<1>10. Stays(o, l) BY <1>1, <1>9 DEF Stays, Critical
<1>11. LocalOK(l, version', current') BY <1>3, <1>4, <1>7, <1>9 DEF LocalOK, Baking
<1> HIDE DEF l, r
<1>12. QED BY <1>1, <1>8, <1>9, <1>10, <1>11, RequestStep

LEMMA RowPersistFailsOK == ASSUME IInv, NEW o \in Ops, RowPersistFails(o) PROVE IInv'
<1>1. DataOK' BY DEF RowPersistFails, IInv, TypeOK, DataOK
<1>2. QED BY <1>1, LeaveStep DEF RowPersistFails

LEMMA RowRouteOK == ASSUME IInv, NEW o \in Ops, RowRoute(o) PROVE IInv'
<1> DEFINE d == row[op[o].row]
           c == CASE d.deleted -> "bump"
                  [] ~d.deleted /\ op[o].todo = {} -> "read"
                  [] OTHER -> "pruneOld"
           p == <<d.table, op[o].path[2]>>
           l == [op[o] EXCEPT !.pc = c, !.path = p, !.dir = ActiveSlot]
<1>1. /\ Step(o, l) /\ op[o].pc = "route" /\ op[o].kind = "row"
      /\ UNCHANGED <<row, site, slot, current, version, chain, dirty>>
  BY DEF RowRoute, At
<1>2. op[o] \in Local /\ DataOK /\ op[o].row \in Rows /\ op[o].path \in RowPaths
  BY <1>1 DEF IInv, TypeOK, DataOK, LocalOK
<1>3. p \in Paths
  <2>1. d.table \in Tables BY <1>2, PathsTyped DEF DataOK
  <2>2. op[o].path[2] \in Slugs BY <1>2 DEF RowPaths
  <2>3. QED BY <2>1, <2>2 DEF RowPaths, Paths
<1>4. c \in {"bump", "read", "pruneOld"} OBVIOUS
<1>5. {"bump", "read", "pruneOld"} \subseteq PCs \cap Critical BY DEF PCs, Critical
<1> HIDE DEF c, p
<1>6. /\ l \in Local /\ l.pc = c /\ l.kind = op[o].kind /\ l.row = op[o].row /\ l.next = op[o].next
  BY <1>2, <1>3, <1>4, <1>5, SlotsTyped DEF Local
<1>7. c \notin Baking /\ c # "write" /\ c # "route" BY <1>4 DEF Baking
<1>8. DataOK' BY <1>1, <1>2 DEF DataOK
<1>9. "route" \in Critical BY DEF Critical
<1> HIDE DEF l
<1>10. QED BY <1>1, <1>4, <1>5, <1>6, <1>7, <1>8, <1>9, WindowStep

LEMMA RowPruneOldOK == ASSUME IInv, NEW o \in Ops, RowPruneOld(o) PROVE IInv'
<1> DEFINE l == [op[o] EXCEPT !.pc = "read", !.todo = {}]
           rest == [p \in Paths |-> IF p \in op[o].todo THEN NoFile ELSE slot[op[o].dir][p]]
<1>1. /\ Step(o, l) /\ op[o].pc = "pruneOld"
      /\ slot' = [slot EXCEPT ![op[o].dir] = rest] \/ UNCHANGED slot
      /\ UNCHANGED <<row, site, current, version, chain, dirty>>
  BY DEF RowPruneOld, At
<1>2. op[o] \in Local /\ DataOK /\ "read" \in PCs BY DEF IInv, TypeOK, DataOK, PCs
<1>3. l \in Local /\ l.pc = "read" /\ l.kind = op[o].kind /\ l.row = op[o].row /\ l.next = op[o].next
  BY <1>2 DEF Local
<1>4. rest \in [Paths -> Files \cup {NoFile}] BY <1>2 DEF Local, DataOK
<1> HIDE DEF rest
<1>5. DataOK' BY <1>1, <1>2, <1>4 DEF DataOK
<1>6. "pruneOld" \in Critical /\ "read" \in Critical /\ "read" \notin Baking BY DEF Critical, Baking
<1> HIDE DEF l
<1>7. QED BY <1>1, <1>3, <1>5, <1>6, WindowStep

LEMMA RowReadOK == ASSUME IInv, NEW o \in Ops, RowRead(o) PROVE IInv'
<1>1. op[o].pc = "read" /\ UNCHANGED <<row, site, slot, current, version, chain, dirty>>
  BY DEF RowRead, At
<1>2. op[o] \in Local /\ DataOK /\ "locate" \in PCs BY DEF IInv, TypeOK, DataOK, PCs
<1>3. DataOK' BY <1>1, <1>2 DEF DataOK
<1>4. CASE Goto(o, "bump") BY <1>1, <1>3, <1>4, ToBump DEF Critical
<1>5. ASSUME NEW r \in PublishedAt(op[o].path),
             Step(o, [op[o] EXCEPT !.pc = "locate", !.file = RowFile(o, r)])
      PROVE  IInv'
  <2> DEFINE l == [op[o] EXCEPT !.pc = "locate", !.file = RowFile(o, r)]
  <2>1. RowFile(o, r) \in Files BY <1>2, <1>5, FilesTyped DEF DataOK, PublishedAt
  <2>2. /\ l \in Local /\ l.pc = "locate" /\ l.kind = op[o].kind /\ l.row = op[o].row
        /\ l.next = op[o].next
    BY <1>2, <2>1 DEF Local
  <2>3. "read" \in Critical /\ "locate" \in Critical /\ "locate" \notin Baking BY DEF Critical, Baking
  <2>4. Step(o, l) BY <1>5
  <2> HIDE DEF l
  <2>5. QED BY <1>1, <1>3, <2>2, <2>3, <2>4, WindowStep
<1>6. QED BY <1>4, <1>5 DEF RowRead

LEMMA RowLocateOK == ASSUME IInv, NEW o \in Ops, RowLocate(o) PROVE IInv'
<1> DEFINE l == [op[o] EXCEPT !.pc = "write", !.dir = ActiveSlot]
<1>1. /\ Step(o, l) /\ op[o].pc = "locate"
      /\ UNCHANGED <<row, site, slot, current, version, chain, dirty>>
  BY DEF RowLocate, At
<1>2. op[o] \in Local /\ "write" \in PCs BY DEF IInv, TypeOK, PCs
<1>3. /\ l \in Local /\ l.pc = "write" /\ l.kind = op[o].kind /\ l.row = op[o].row
      /\ l.next = op[o].next /\ l.dir = ActiveSlot
  BY <1>2, SlotsTyped DEF Local
<1>4. DataOK' BY <1>1 DEF IInv, TypeOK, DataOK
<1>5. "locate" \in Critical /\ "write" \in Critical /\ "write" \notin Baking BY DEF Critical, Baking
<1> HIDE DEF l
<1>6. QED BY <1>1, <1>3, <1>4, <1>5, WindowStep DEF ActiveSlot

LEMMA RowWriteOK == ASSUME IInv, NEW o \in Ops, RowWrite(o) PROVE IInv'
<1>1. op[o] \in Local /\ DataOK BY DEF IInv, TypeOK, DataOK
<1>2. op[o].dir \in Slots /\ op[o].path \in Paths /\ op[o].file \in Files \cup {NoFile}
  BY <1>1 DEF Local
<1>3. slot' \in [Slots -> [Paths -> Files \cup {NoFile}]]
  BY <1>1, <1>2, SlotWritten DEF RowWrite, DataOK
<1>4. DataOK' BY <1>1, <1>3 DEF RowWrite, DataOK
<1>5. QED BY <1>4, ToBump DEF RowWrite, At, Critical

LEMMA RowBakeFailsOK == ASSUME IInv, NEW o \in Ops, RowBakeFails(o) PROVE IInv'
<1>1. DataOK' BY DEF RowBakeFails, IInv, TypeOK, DataOK
<1>2. QED BY <1>1, ToBump DEF RowBakeFails, Critical

-----------------------------------------------------------------------------
(* Retractions and the requests that are one statement.                    *)

(* A step outside the chain *)
LEMMA OutsideStep ==
    ASSUME IInv, NEW o \in Ops, NEW l \in Local, Step(o, l),
           UNCHANGED <<version, current, chain>>, op[o].pc \notin Queued, l.pc \notin Queued,
           l.kind # "site", l.pc # "idle" => l.row \in Rows,
           l.pc = "resolve" => l.path \in RowPaths, DataOK'
    PROVE  IInv'
<1>1. Stays(o, l) BY DEF Stays
<1>2. Critical \subseteq Queued /\ Baking \subseteq Critical /\ {"write", "route"} \subseteq Critical
  BY DEF Queued, Critical, Baking
<1>3. LocalOK(l, version', current') BY <1>2 DEF LocalOK
<1>4. QED BY <1>1, <1>3, RequestStep

LEMMA OutsideFinish ==
    ASSUME IInv, NEW o \in Ops, Finish(o), UNCHANGED <<version, current, chain>>,
           op[o].pc \notin Queued, DataOK'
    PROVE  IInv'
<1>1. "idle" \notin Queued BY DEF Queued, Critical
<1>2. Step(o, Idle) BY DEF Finish
<1>3. QED BY <1>1, <1>2, IdleOK, OutsideStep

(* A request in progress that goes to the queue for its bump *)
LEMMA OutsideEnqueue ==
    ASSUME IInv, NEW o \in Ops, Goto(o, "wait"), Enqueue(o), UNCHANGED <<version, current>>,
           op[o].pc \notin Queued, op[o].pc # "idle", DataOK'
    PROVE  IInv'
<1> DEFINE l == [op[o] EXCEPT !.pc = "wait"]
<1>1. op[o] \in Local /\ op[o].row \in Rows /\ "wait" \in PCs
  BY DEF IInv, TypeOK, LocalOK, PCs
<1>2. l \in Local /\ l.pc = "wait" /\ l.row = op[o].row BY <1>1 DEF Local
<1>3. Step(o, l) BY DEF Goto
<1> HIDE DEF l
<1>4. QED BY <1>1, <1>2, <1>3, RowJoins

(* A statement that changes rows and no request *)
LEMMA DataStep == ASSUME IInv, UNCHANGED <<op, chain, version, current>>, DataOK' PROVE IInv'
<1>1. ChainOK' BY DEF IInv, ChainOK, Holds
<1>2. \A o \in Ops : LocalOK(op'[o], version', current') BY DEF IInv
<1>3. TypeOK' BY DEF IInv, TypeOK, DataOK
<1>4. QED BY <1>1, <1>2, <1>3 DEF IInv

LEMMA StatusUpdateOK ==
    ASSUME IInv, NEW o \in Ops, NEW r \in Rows, StatusUpdate(o, r) PROVE IInv'
<1> DEFINE l == [Started("status", r, "wait") EXCEPT !.after = "wait"]
<1>1. "status" \in Kinds /\ "wait" \in PCs BY DEF StatusUpdate, PCs
<1>2. l \in Local /\ l.pc = "wait" /\ l.row = r BY <1>1, StartedTyped DEF Local
<1>3. row' \in [Rows -> Row]
  <2>1. PICK s \in {"draft", "unpublished"} : row' = [row EXCEPT ![r] = Retracted(@, s)]
    BY DEF StatusUpdate
  <2>2. row \in [Rows -> Row] BY DEF IInv, TypeOK
  <2>3. Retracted(row[r], s) \in Row BY <2>2, StatementsTyped
  <2>4. QED BY <2>1, <2>2, <2>3
<1>4. DataOK' BY <1>3 DEF StatusUpdate, Hidden, IInv, TypeOK, DataOK
<1>5. Step(o, l) /\ Enqueue(o) /\ op[o].pc \notin Queued /\ UNCHANGED <<version, current>>
  BY DEF StatusUpdate, Queued, Critical
<1> HIDE DEF l
<1>6. QED BY <1>2, <1>4, <1>5, RowJoins

LEMMA DeletionTyped ==
    ASSUME IInv, NEW r \in Rows, row' = [row EXCEPT ![r] = SoftDeleted(@)],
           dirty' = dirty \cup Hidden(r), UNCHANGED <<site, slot, current, version>>
    PROVE  DataOK'
<1>1. row \in [Rows -> Row] /\ SoftDeleted(row[r]) \in Row BY StatementsTyped DEF IInv, TypeOK
<1>2. row' \in [Rows -> Row] BY <1>1
<1>3. QED BY <1>2 DEF Hidden, IInv, TypeOK, DataOK

LEMMA DeleteUpdateOK ==
    ASSUME IInv, NEW o \in Ops, NEW r \in Rows, DeleteUpdate(o, r) PROVE IInv'
<1> DEFINE a == IF row[r].status = "published" THEN "wait" ELSE "idle"
           p == DraftPath(row[r])
           x == Started("delete", r, "resolve")
           l == [x EXCEPT !.path = p, !.after = a]
<1>1. "delete" \in Kinds /\ "resolve" \in PCs /\ "resolve" \notin Queued
  BY DEF DeleteUpdate, PCs, Queued, Critical
<1>2. a \in {"wait", "idle"} /\ p \in RowPaths /\ p \in Paths BY PathsTyped DEF IInv, TypeOK
<1>3. Step(o, l) /\ UNCHANGED <<version, current, chain>> /\ op[o].pc = "idle"
  BY DEF DeleteUpdate
<1> HIDE DEF a, p
<1>4. /\ l \in Local /\ l.pc = "resolve" /\ l.row = r /\ l.path = p /\ l.kind = "delete"
  <2>1. x \in Local /\ x.pc = "resolve" /\ x.row = r BY <1>1, StartedTyped
  <2>2. x.kind = "delete" BY DEF Started, Idle
  <2> HIDE DEF x
  <2>3. QED BY <1>2, <2>1, <2>2 DEF Local
<1>5. DataOK' BY DeletionTyped DEF DeleteUpdate
<1>6. op[o].pc \notin Queued BY <1>3 DEF Queued, Critical
<1> HIDE DEF l
<1>7. QED BY <1>1, <1>2, <1>3, <1>4, <1>5, <1>6, OutsideStep

LEMMA PluginDeleteOK ==
    ASSUME IInv, NEW o \in Ops, NEW r \in Rows, PluginDelete(o, r) PROVE IInv'
<1> DEFINE l == [Started("pluginDelete", r, "wait") EXCEPT !.after = "wait"]
<1>1. DataOK' BY DeletionTyped DEF PluginDelete
<1>2. CASE UNCHANGED <<op, chain>> BY <1>1, <1>2, DataStep DEF PluginDelete
<1>3. CASE Step(o, l) /\ Enqueue(o)
  <2>1. "pluginDelete" \in Kinds /\ "wait" \in PCs BY DEF PluginDelete, PCs
  <2>2. l \in Local /\ l.pc = "wait" /\ l.row = r BY <2>1, StartedTyped DEF Local
  <2>3. op[o].pc \notin Queued /\ UNCHANGED <<version, current>>
    BY DEF PluginDelete, Queued, Critical
  <2> HIDE DEF l
  <2>4. QED BY <1>1, <1>3, <2>2, <2>3, RowJoins
<1>4. QED BY <1>2, <1>3 DEF PluginDelete

LEMMA MoveLoadOK ==
    ASSUME IInv, NEW o \in Ops, NEW r \in Rows, MoveLoad(o, r) PROVE IInv'
<1> DEFINE a == IF row[r].status = "published" THEN "wait" ELSE "idle"
           l == [Started("move", r, "loaded") EXCEPT !.after = a]
<1>1. "move" \in Kinds /\ "loaded" \in PCs /\ "loaded" \notin Queued
  BY DEF MoveLoad, PCs, Queued, Critical
<1>2. a \in {"wait", "idle"} OBVIOUS
<1>3. Step(o, l) /\ UNCHANGED <<row, site, slot, version, current, chain, dirty>> /\ op[o].pc = "idle"
  BY DEF MoveLoad
<1> HIDE DEF a
<1>4. l \in Local /\ l.pc = "loaded" /\ l.row = r /\ l.kind = "move"
  <2>1. Started("move", r, "loaded").kind = "move" BY DEF Started, Idle
  <2>2. QED BY <1>1, <1>2, <2>1, StartedTyped DEF Local
<1>5. DataOK' BY <1>3 DEF IInv, TypeOK, DataOK
<1>6. op[o].pc \notin Queued BY <1>3 DEF Queued, Critical
<1> HIDE DEF l
<1>7. QED BY <1>1, <1>3, <1>4, <1>5, <1>6, OutsideStep

LEMMA MoveUpdateOK == ASSUME IInv, NEW o \in Ops, MoveUpdate(o) PROVE IInv'
<1>1. op[o].pc = "loaded" /\ op[o].kind = "move" /\ UNCHANGED <<site, slot, current, version>>
  BY DEF MoveUpdate, At
<1>2. op[o].pc \notin Queued /\ op[o].pc # "idle" BY <1>1 DEF Queued, Critical
<1>3. op[o].row \in Rows /\ DataOK BY <1>1 DEF IInv, LocalOK, TypeOK, DataOK
<1>4. CASE Finish(o) /\ UNCHANGED <<row, dirty, chain>>
  <2>1. DataOK' BY <1>1, <1>3, <1>4 DEF DataOK
  <2>2. QED BY <1>1, <1>2, <1>4, <2>1, OutsideFinish
<1>5. ASSUME NEW t \in Tables, row' = [row EXCEPT ![op[o].row] = Moved(@, t)],
             dirty' = dirty \cup Hidden(op[o].row),
             (Goto(o, "wait") /\ Enqueue(o)) \/ (Finish(o) /\ UNCHANGED chain)
      PROVE  IInv'
  <2>1. Moved(row[op[o].row], t) \in Row BY <1>3, StatementsTyped DEF DataOK
  <2>2. row' \in [Rows -> Row] BY <1>3, <1>5, <2>1 DEF DataOK
  <2>3. DataOK' BY <1>1, <1>3, <1>5, <2>2 DEF DataOK, Hidden
  <2>4. QED BY <1>1, <1>2, <1>5, <2>3, OutsideEnqueue, OutsideFinish
<1>6. \/ Finish(o) /\ UNCHANGED <<row, dirty, chain>>
      \/ /\ \E t \in Tables : row' = [row EXCEPT ![op[o].row] = Moved(@, t)]
         /\ dirty' = dirty \cup Hidden(op[o].row)
         /\ (Goto(o, "wait") /\ Enqueue(o)) \/ (Finish(o) /\ UNCHANGED chain)
  BY DEF MoveUpdate
<1>7. QED BY <1>4, <1>5, <1>6

LEMMA SerializedBumpOK == ASSUME IInv, NEW o \in Ops, SerializedBump(o) PROVE IInv'
<1> DEFINE l == [op[o] EXCEPT !.pc = "reread", !.after = "idle"]
<1>1. DataOK' BY DEF SerializedBump, IInv, TypeOK, DataOK
<1>2. CASE Finish(o) BY <1>1, <1>2, LeaveStep DEF SerializedBump
<1>3. CASE Step(o, l)
  <2>1. /\ Holds(o) /\ Release /\ op[o].pc = "wait" /\ UNCHANGED current
        /\ op[o].kind \in {"status", "delete", "pluginDelete", "move"}
    BY DEF SerializedBump
  <2>2. op[o] \in Local /\ op[o].row \in Rows /\ "reread" \in PCs
    BY <2>1 DEF IInv, TypeOK, LocalOK, PCs
  <2>3. l \in Local /\ l.pc = "reread" /\ l.row = op[o].row /\ l.kind = op[o].kind
    BY <2>2 DEF Local
  <2>4. Leaves(o, l) BY <2>1, <2>3 DEF Leaves, Queued, Critical
  <2>5. LocalOK(l, version', current') BY <2>1, <2>2, <2>3 DEF LocalOK, Critical, Baking
  <2> HIDE DEF l
  <2>6. QED BY <1>1, <1>3, <2>1, <2>3, <2>4, <2>5, RequestStep
<1>4. QED BY <1>2, <1>3 DEF SerializedBump

LEMMA StatusRereadOK == ASSUME IInv, NEW o \in Ops, StatusReread(o) PROVE IInv'
<1>1. /\ op[o].pc = "reread" /\ op[o].kind = "status"
      /\ UNCHANGED <<row, site, slot, current, version, chain, dirty>>
  BY DEF StatusReread, At
<1>2. op[o].pc \notin Queued BY <1>1 DEF Queued, Critical
<1>3. op[o] \in Local /\ op[o].row \in Rows /\ DataOK BY <1>1 DEF IInv, LocalOK, TypeOK, DataOK
<1>4. DataOK' BY <1>1, <1>3 DEF DataOK
<1>5. CASE Finish(o) BY <1>1, <1>2, <1>4, <1>5, OutsideFinish
<1>6. CASE Step(o, [op[o] EXCEPT !.pc = "resolve", !.path = DraftPath(row[op[o].row])])
  <2> DEFINE p == DraftPath(row[op[o].row])
             l == [op[o] EXCEPT !.pc = "resolve", !.path = p]
  <2>1. p \in RowPaths /\ p \in Paths BY <1>3, PathsTyped DEF DataOK
  <2>2. Step(o, l) BY <1>6
  <2>3. "resolve" \in PCs /\ "resolve" \notin Queued BY DEF PCs, Queued, Critical
  <2> HIDE DEF p
  <2>4. l \in Local /\ l.pc = "resolve" /\ l.row = op[o].row /\ l.kind = op[o].kind /\ l.path = p
    BY <1>3, <2>1, <2>3 DEF Local
  <2> HIDE DEF l
  <2>5. QED BY <1>1, <1>2, <1>3, <1>4, <2>1, <2>2, <2>3, <2>4, OutsideStep
<1>7. QED BY <1>5, <1>6 DEF StatusReread

LEMMA PruneResolveOK == ASSUME IInv, NEW o \in Ops, PruneResolve(o) PROVE IInv'
<1> DEFINE p == <<row[op[o].row].table, op[o].path[2]>>
           l == [op[o] EXCEPT !.pc = "prune", !.dir = ActiveSlot, !.path = p]
<1>1. /\ Step(o, l) /\ op[o].pc = "resolve"
      /\ UNCHANGED <<row, site, slot, current, version, chain, dirty>>
  BY DEF PruneResolve
<1>2. op[o].pc \notin Queued BY <1>1 DEF Queued, Critical
<1>3. /\ op[o] \in Local /\ DataOK /\ op[o].path \in RowPaths /\ op[o].kind # "site"
      /\ op[o].row \in Rows
  BY <1>1, <1>2 DEF IInv, LocalOK, TypeOK, DataOK
<1>4. p \in Paths
  <2>1. row[op[o].row].table \in Tables BY <1>3, PathsTyped DEF DataOK
  <2>2. op[o].path[2] \in Slugs BY <1>3 DEF RowPaths
  <2>3. QED BY <2>1, <2>2 DEF RowPaths, Paths
<1>5. "prune" \in PCs /\ "prune" \notin Queued BY DEF PCs, Queued, Critical
<1> HIDE DEF p
<1>6. l \in Local /\ l.pc = "prune" /\ l.row = op[o].row /\ l.kind = op[o].kind
  BY <1>3, <1>4, <1>5, SlotsTyped DEF Local
<1>7. DataOK' BY <1>1, <1>3 DEF DataOK
<1> HIDE DEF l
<1>8. QED BY <1>1, <1>2, <1>3, <1>5, <1>6, <1>7, OutsideStep

LEMMA PruneOK == ASSUME IInv, NEW o \in Ops, Prune(o) PROVE IInv'
<1>1. op[o].pc = "prune" /\ UNCHANGED <<row, site, current, version, dirty>> BY DEF Prune
<1>2. op[o].pc \notin Queued /\ op[o].pc # "idle" BY <1>1 DEF Queued, Critical
<1>3. op[o] \in Local /\ DataOK BY DEF IInv, TypeOK, DataOK
<1>4. op[o].dir \in Slots /\ op[o].path \in Paths BY <1>3 DEF Local
<1>5. slot' \in [Slots -> [Paths -> Files \cup {NoFile}]]
  <2>1. [slot EXCEPT ![op[o].dir][op[o].path] = NoFile] \in [Slots -> [Paths -> Files \cup {NoFile}]]
    BY <1>3, <1>4, SlotWritten DEF DataOK
  <2>2. QED BY <1>3, <2>1 DEF Prune, DataOK
<1>6. DataOK' BY <1>1, <1>3, <1>5 DEF DataOK
<1>7. QED BY <1>1, <1>2, <1>6, OutsideEnqueue, OutsideFinish DEF Prune

LEMMA EditOK == ASSUME IInv, NEW r \in Rows, Edit(r) PROVE IInv'
<1>1. PICK s \in Slugs : row' = [row EXCEPT ![r] = Edited(@, s)] BY DEF Edit
<1>2. row \in [Rows -> Row] BY DEF IInv, TypeOK
<1>3. Edited(row[r], s) \in Row BY <1>2, StatementsTyped
<1>4. row' \in [Rows -> Row] BY <1>1, <1>2, <1>3
<1>5. DataOK' BY <1>4 DEF Edit, IInv, TypeOK, DataOK
<1>6. QED BY <1>5, DataStep DEF Edit

LEMMA ScheduleOK == ASSUME IInv, NEW r \in Rows, Schedule(r) PROVE IInv'
<1>1. PICK w \in Times : row' = [row EXCEPT ![r] = Scheduled(@, w)] BY DEF Schedule
<1>2. row \in [Rows -> Row] BY DEF IInv, TypeOK
<1>3. Scheduled(row[r], w) \in Row BY <1>2, StatementsTyped
<1>4. row' \in [Rows -> Row] BY <1>1, <1>2, <1>3
<1>5. DataOK' BY <1>4 DEF Schedule, Hidden, IInv, TypeOK, DataOK
<1>6. QED BY <1>5, DataStep DEF Schedule

(* Nobody is in progress: the chain is empty and no request has a state. *)
LEMMA AllIdleOK == DataOK /\ chain = <<>> /\ op = [o \in Ops |-> Idle] => IInv
<1> SUFFICES ASSUME DataOK, chain = <<>>, op = [o \in Ops |-> Idle] PROVE IInv
  OBVIOUS
<1>1. chain \in Seq(Ops) /\ Len(chain) = 0 OBVIOUS
<1>2. op \in [Ops -> Local] /\ \A o \in Ops : op[o] = Idle BY IdleOK
<1>3. TypeOK BY <1>1, <1>2 DEF DataOK, TypeOK
<1>4. "idle" \notin Critical BY DEF Critical
<1>5. ChainOK BY <1>1, <1>2, <1>4, IdleOK DEF ChainOK
<1>6. \A o \in Ops : LocalOK(op[o], version, current)
  BY <1>2, IdleOK DEF LocalOK, Critical, Baking
<1>7. QED BY <1>3, <1>5, <1>6 DEF IInv

LEMMA CrashOK == ASSUME IInv, Crash PROVE IInv'
<1>1. DataOK' BY DEF Crash, IInv, TypeOK, DataOK
<1>2. chain' = <<>> /\ op' = [o \in Ops |-> Idle] BY DEF Crash
<1>3. (DataOK /\ chain = <<>> /\ op = [o \in Ops |-> Idle])' => IInv' BY AllIdleOK, PTL
<1>4. QED BY <1>1, <1>2, <1>3

LEMMA InitOK == Init => IInv
<1> SUFFICES ASSUME Init PROVE IInv OBVIOUS
<1>1. PICK t \in Tables, s \in [Rows -> Slugs] : row = [r \in Rows |-> NewRow(t, s[r])]
  BY DEF Init
<1>2. ASSUME NEW r \in Rows PROVE NewRow(t, s[r]) \in Row
  BY DEF NewRow, Row, Statuses
<1>3. EmptySlot \in [Paths -> Files \cup {NoFile}] BY DEF EmptySlot
<1>4. DataOK BY <1>1, <1>2, <1>3 DEF Init, DataOK
<1>5. QED BY <1>4, AllIdleOK DEF Init

LEMMA StepOK == IInv /\ [Next]_vars => IInv'
<1> SUFFICES ASSUME IInv, [Next]_vars PROVE IInv' OBVIOUS
<1>1. ASSUME NEW o \in Ops, Start(o) PROVE IInv'
  BY <1>1, SiteStartOK, RowStartOK, StatusUpdateOK, DeleteUpdateOK, PluginDeleteOK, MoveLoadOK
     DEF Start
<1>2. ASSUME NEW o \in Ops, Site(o) PROVE IInv'
  BY <1>2, SitePersistOK, SitePersistFailsOK, SitePrepareOK, SiteBakeHomeOK, SiteListRowsOK,
     SiteReadRowOK, SiteBakeRowOK, SiteAssetsOK, SiteSwapOK, SiteBakeFailsOK DEF Site
<1>3. ASSUME NEW o \in Ops, RowPublish(o) PROVE IInv'
  BY <1>3, RowPersistOK, RowPersistFailsOK, RowRouteOK, RowPruneOldOK, RowReadOK, RowLocateOK,
     RowWriteOK, RowBakeFailsOK DEF RowPublish
<1>4. ASSUME NEW o \in Ops, Retraction(o) PROVE IInv'
  BY <1>4, MoveUpdateOK, SerializedBumpOK, StatusRereadOK, PruneResolveOK, PruneOK DEF Retraction
<1>5. ASSUME NEW o \in Ops, Continue(o) PROVE IInv'
  BY <1>2, <1>3, <1>4, <1>5, PublishBumpOK DEF Continue
<1>6. ASSUME NEW r \in Rows, Edit(r) \/ Schedule(r) PROVE IInv'
  BY <1>6, EditOK, ScheduleOK
<1>7. CASE UNCHANGED vars
  <2>1. DataOK' BY <1>7 DEF vars, IInv, TypeOK, DataOK
  <2>2. QED BY <1>7, <2>1, DataStep DEF vars
<1>8. QED BY <1>1, <1>5, <1>6, <1>7, CrashOK DEF Next

-----------------------------------------------------------------------------
(* The theorems.                                                           *)

(* The conjunction of the types, the shape of the publish chain and what   *)
(* each request's place says of its state is an invariant of the pipeline. *)
THEOREM Invariance == Spec => []IInv
BY InitOK, StepOK, PTL DEF Spec

(* Every variable keeps its type, whatever fails and whenever the process  *)
(* is restarted: in particular every file in a slot was rendered from a    *)
(* row and a snapshot (publishSite.ts, publishRow.ts).                     *)
THEOREM TypeCorrect == Spec => []TypeOK
<1>1. IInv => TypeOK BY DEF IInv
<1>2. QED BY <1>1, Invariance, PTL

(* withPublishLock (publishState.ts): two publishes are never both between *)
(* their commit and their bump.                                            *)
THEOREM Exclusion == Spec => []WindowsDisjoint
<1>1. IInv => WindowsDisjoint
  BY DEF IInv, ChainOK, Holds, WindowsDisjoint
<1>2. QED BY <1>1, Invariance, PTL

(* publishSite.ts, publishRow.ts: the version a publish stamps on the hole *)
(* shells it bakes is the one its own bump will make current.              *)
THEOREM StampTheorem == Spec => []StampIsNextVersion
<1>1. IInv => StampIsNextVersion
  BY DEF IInv, LocalOK, StampIsNextVersion
<1>2. QED BY <1>1, Invariance, PTL

(* staticArtefact.ts: a full publish fills the slot visitors do not see,   *)
(* up to the swap.                                                         *)
THEOREM OfflineTheorem == Spec => []BakesOffline
<1>1. IInv => BakesOffline BY DEF IInv, LocalOK, BakesOffline
<1>2. QED BY <1>1, Invariance, PTL

(* staticArtefact.ts: an incremental publish writes into the slot visitors *)
(* see, which is still the one it found a step before.                     *)
THEOREM OnlineTheorem == Spec => []WritesOnline
<1>1. IInv => WritesOnline BY DEF IInv, LocalOK, WritesOnline, ActiveSlot
<1>2. QED BY <1>1, Invariance, PTL

-----------------------------------------------------------------------------
(* What each step writes into the record of its request, field by field.   *)

OthersStay(o) == \A q \in Ops \ {o} : op'[q] = op[q]

LEMMA StepWrites ==
    ASSUME IInv, NEW o \in Ops, NEW l, Step(o, l)
    PROVE  op'[o] = l /\ OthersStay(o)
  BY DEF IInv, TypeOK, Step, OthersStay

LEMMA GotoWrites ==
    ASSUME IInv, NEW o \in Ops, NEW c, Goto(o, c)
    PROVE  /\ OthersStay(o) /\ op'[o].pc = c
           /\ op'[o].kind = op[o].kind /\ op'[o].row = op[o].row /\ op'[o].next = op[o].next
           /\ op'[o].dir = op[o].dir /\ op'[o].path = op[o].path /\ op'[o].todo = op[o].todo
           /\ op'[o].file = op[o].file /\ op'[o].after = op[o].after
<1> DEFINE l == [op[o] EXCEPT !.pc = c]
<1>1. op[o] \in Local BY DEF IInv, TypeOK
<1>2. /\ l.pc = c /\ l.kind = op[o].kind /\ l.row = op[o].row /\ l.next = op[o].next
      /\ l.dir = op[o].dir /\ l.path = op[o].path /\ l.todo = op[o].todo
      /\ l.file = op[o].file /\ l.after = op[o].after
  BY <1>1 DEF Local
<1>3. Step(o, l) BY DEF Goto
<1> HIDE DEF l
<1>4. QED BY <1>2, <1>3, StepWrites

LEMMA FinishWrites ==
    ASSUME IInv, NEW o \in Ops, Finish(o)
    PROVE  OthersStay(o) /\ op'[o] = Idle /\ op'[o].pc = "idle"
  BY StepWrites, IdleOK DEF Finish

LEMMA StartedIs ==
    ASSUME NEW k, NEW r, NEW p
    PROVE  LET l == Started(k, r, p)
           IN  l.pc = p /\ l.kind = k /\ l.row = r /\ l.path = Home /\ l.todo = {}
               /\ l.file = NoFile /\ l.after = "idle" /\ l.dir = "a" /\ l.next = 0
  BY DEF Started, Idle

LEMMA SitePersistWrites ==
    ASSUME IInv, NEW o \in Ops, SitePersist(o)
    PROVE  /\ OthersStay(o) /\ op'[o].pc = "prepare"
           /\ op'[o].next = version + 1
           /\ op'[o].kind = op[o].kind /\ op'[o].row = op[o].row /\ op'[o].dir = op[o].dir
           /\ op'[o].path = op[o].path /\ op'[o].todo = op[o].todo /\ op'[o].file = op[o].file
           /\ op'[o].after = op[o].after
<1> DEFINE n == version + 1
           l == [op[o] EXCEPT !.pc = "prepare", !.next = n]
<1>1. op[o] \in Local BY DEF IInv, TypeOK
<1>2. Step(o, l) BY DEF SitePersist
<1> HIDE DEF n
<1>3. /\ l.pc = "prepare" /\ l.next = n
      /\ l.kind = op[o].kind /\ l.row = op[o].row /\ l.dir = op[o].dir
      /\ l.path = op[o].path /\ l.todo = op[o].todo /\ l.file = op[o].file
      /\ l.after = op[o].after
  BY <1>1 DEF Local
<1> HIDE DEF l
<1>4. QED BY <1>2, <1>3, StepWrites DEF n

LEMMA SitePrepareWrites ==
    ASSUME IInv, NEW o \in Ops, SitePrepare(o)
    PROVE  /\ OthersStay(o) /\ op'[o].pc = "home"
           /\ op'[o].dir = InactiveSlot
           /\ op'[o].kind = op[o].kind /\ op'[o].row = op[o].row /\ op'[o].next = op[o].next
           /\ op'[o].path = op[o].path /\ op'[o].todo = op[o].todo /\ op'[o].file = op[o].file
           /\ op'[o].after = op[o].after
<1> DEFINE d == InactiveSlot
           l == [op[o] EXCEPT !.pc = "home", !.dir = d]
<1>1. op[o] \in Local BY DEF IInv, TypeOK
<1>2. Step(o, l) BY DEF SitePrepare
<1> HIDE DEF d
<1>3. /\ l.pc = "home" /\ l.dir = d
      /\ l.kind = op[o].kind /\ l.row = op[o].row /\ l.next = op[o].next
      /\ l.path = op[o].path /\ l.todo = op[o].todo /\ l.file = op[o].file
      /\ l.after = op[o].after
  BY <1>1 DEF Local
<1> HIDE DEF l
<1>4. QED BY <1>2, <1>3, StepWrites DEF d

LEMMA SiteListRowsWrites ==
    ASSUME IInv, NEW o \in Ops, SiteListRows(o)
    PROVE  /\ OthersStay(o) /\ op'[o].pc = "rows"
           /\ op'[o].todo = {PublicPath(row[r]) : r \in {q \in Rows : Visible(row[q])}}
           /\ op'[o].kind = op[o].kind /\ op'[o].row = op[o].row /\ op'[o].next = op[o].next
           /\ op'[o].dir = op[o].dir /\ op'[o].path = op[o].path /\ op'[o].file = op[o].file
           /\ op'[o].after = op[o].after
<1> DEFINE t == {PublicPath(row[r]) : r \in {q \in Rows : Visible(row[q])}}
           l == [op[o] EXCEPT !.pc = "rows", !.todo = t]
<1>1. op[o] \in Local BY DEF IInv, TypeOK
<1>2. Step(o, l) BY DEF SiteListRows
<1> HIDE DEF t
<1>3. /\ l.pc = "rows" /\ l.todo = t
      /\ l.kind = op[o].kind /\ l.row = op[o].row /\ l.next = op[o].next
      /\ l.dir = op[o].dir /\ l.path = op[o].path /\ l.file = op[o].file
      /\ l.after = op[o].after
  BY <1>1 DEF Local
<1> HIDE DEF l
<1>4. QED BY <1>2, <1>3, StepWrites DEF t

LEMMA SiteBakeRowWrites ==
    ASSUME IInv, NEW o \in Ops, SiteBakeRow(o)
    PROVE  /\ OthersStay(o) /\ op'[o].pc = "rows"
           /\ op'[o].path = Home
           /\ op'[o].file = NoFile
           /\ op'[o].kind = op[o].kind /\ op'[o].row = op[o].row /\ op'[o].next = op[o].next
           /\ op'[o].dir = op[o].dir /\ op'[o].todo = op[o].todo /\ op'[o].after = op[o].after
<1> DEFINE p == Home
           f == NoFile
           l == [op[o] EXCEPT !.pc = "rows", !.path = p, !.file = f]
<1>1. op[o] \in Local BY DEF IInv, TypeOK
<1>2. Step(o, l) BY DEF SiteBakeRow
<1> HIDE DEF p, f
<1>3. /\ l.pc = "rows" /\ l.path = p /\ l.file = f
      /\ l.kind = op[o].kind /\ l.row = op[o].row /\ l.next = op[o].next
      /\ l.dir = op[o].dir /\ l.todo = op[o].todo /\ l.after = op[o].after
  BY <1>1 DEF Local
<1> HIDE DEF l
<1>4. QED BY <1>2, <1>3, StepWrites DEF p, f

(* The path an earlier version of the row had, when it is another one *)
OldPath(d) ==
    IF d.active.no > 0 /\ PublicPath(d) # DraftPath(d) THEN {PublicPath(d)} ELSE {}

LEMMA RowPersistWrites ==
    ASSUME IInv, NEW o \in Ops, RowPersist(o)
    PROVE  /\ OthersStay(o) /\ op'[o].pc = "route"
           /\ op'[o].next = version + 1
           /\ op'[o].path = DraftPath(row[op[o].row])
           /\ op'[o].todo = OldPath(row[op[o].row])
           /\ op'[o].kind = op[o].kind /\ op'[o].row = op[o].row /\ op'[o].dir = op[o].dir
           /\ op'[o].file = op[o].file /\ op'[o].after = op[o].after
<1> DEFINE n == version + 1
           p == DraftPath(row[op[o].row])
           t == OldPath(row[op[o].row])
           l == [op[o] EXCEPT !.pc = "route", !.next = n, !.path = p, !.todo = t]
<1>1. op[o] \in Local BY DEF IInv, TypeOK
<1>2. Step(o, l) BY DEF RowPersist, OldPath
<1> HIDE DEF n, p, t
<1>3. /\ l.pc = "route" /\ l.next = n /\ l.path = p /\ l.todo = t
      /\ l.kind = op[o].kind /\ l.row = op[o].row /\ l.dir = op[o].dir
      /\ l.file = op[o].file /\ l.after = op[o].after
  BY <1>1 DEF Local
<1> HIDE DEF l
<1>4. QED BY <1>2, <1>3, StepWrites DEF n, p, t

RouteNext(o) == CASE row[op[o].row].deleted -> "bump"
                  [] ~row[op[o].row].deleted /\ op[o].todo = {} -> "read"
                  [] OTHER -> "pruneOld"

LEMMA RowRouteWrites ==
    ASSUME IInv, NEW o \in Ops, RowRoute(o)
    PROVE  /\ OthersStay(o) /\ op'[o].pc = RouteNext(o)
           /\ op'[o].path = <<row[op[o].row].table, op[o].path[2]>>
           /\ op'[o].dir = ActiveSlot
           /\ op'[o].kind = op[o].kind /\ op'[o].row = op[o].row /\ op'[o].next = op[o].next
           /\ op'[o].todo = op[o].todo /\ op'[o].file = op[o].file /\ op'[o].after = op[o].after
<1> DEFINE p == <<row[op[o].row].table, op[o].path[2]>>
           d == ActiveSlot
           l == [op[o] EXCEPT !.pc = RouteNext(o), !.path = p, !.dir = d]
<1>1. op[o] \in Local BY DEF IInv, TypeOK
<1>2. Step(o, l) BY DEF RowRoute, RouteNext
<1> HIDE DEF p, d
<1>3. /\ l.pc = RouteNext(o) /\ l.path = p /\ l.dir = d
      /\ l.kind = op[o].kind /\ l.row = op[o].row /\ l.next = op[o].next
      /\ l.todo = op[o].todo /\ l.file = op[o].file /\ l.after = op[o].after
  BY <1>1 DEF Local
<1> HIDE DEF l
<1>4. QED BY <1>2, <1>3, StepWrites DEF p, d

LEMMA RowPruneOldWrites ==
    ASSUME IInv, NEW o \in Ops, RowPruneOld(o)
    PROVE  /\ OthersStay(o) /\ op'[o].pc = "read"
           /\ op'[o].todo = {}
           /\ op'[o].kind = op[o].kind /\ op'[o].row = op[o].row /\ op'[o].next = op[o].next
           /\ op'[o].dir = op[o].dir /\ op'[o].path = op[o].path /\ op'[o].file = op[o].file
           /\ op'[o].after = op[o].after
<1> DEFINE t == {}
           l == [op[o] EXCEPT !.pc = "read", !.todo = t]
<1>1. op[o] \in Local BY DEF IInv, TypeOK
<1>2. Step(o, l) BY DEF RowPruneOld
<1> HIDE DEF t
<1>3. /\ l.pc = "read" /\ l.todo = t
      /\ l.kind = op[o].kind /\ l.row = op[o].row /\ l.next = op[o].next
      /\ l.dir = op[o].dir /\ l.path = op[o].path /\ l.file = op[o].file
      /\ l.after = op[o].after
  BY <1>1 DEF Local
<1> HIDE DEF l
<1>4. QED BY <1>2, <1>3, StepWrites DEF t

LEMMA RowLocateWrites ==
    ASSUME IInv, NEW o \in Ops, RowLocate(o)
    PROVE  /\ OthersStay(o) /\ op'[o].pc = "write"
           /\ op'[o].dir = ActiveSlot
           /\ op'[o].kind = op[o].kind /\ op'[o].row = op[o].row /\ op'[o].next = op[o].next
           /\ op'[o].path = op[o].path /\ op'[o].todo = op[o].todo /\ op'[o].file = op[o].file
           /\ op'[o].after = op[o].after
<1> DEFINE d == ActiveSlot
           l == [op[o] EXCEPT !.pc = "write", !.dir = d]
<1>1. op[o] \in Local BY DEF IInv, TypeOK
<1>2. Step(o, l) BY DEF RowLocate
<1> HIDE DEF d
<1>3. /\ l.pc = "write" /\ l.dir = d
      /\ l.kind = op[o].kind /\ l.row = op[o].row /\ l.next = op[o].next
      /\ l.path = op[o].path /\ l.todo = op[o].todo /\ l.file = op[o].file
      /\ l.after = op[o].after
  BY <1>1 DEF Local
<1> HIDE DEF l
<1>4. QED BY <1>2, <1>3, StepWrites DEF d

LEMMA PruneResolveWrites ==
    ASSUME IInv, NEW o \in Ops, PruneResolve(o)
    PROVE  /\ OthersStay(o) /\ op'[o].pc = "prune"
           /\ op'[o].dir = ActiveSlot
           /\ op'[o].path = <<row[op[o].row].table, op[o].path[2]>>
           /\ op'[o].kind = op[o].kind /\ op'[o].row = op[o].row /\ op'[o].next = op[o].next
           /\ op'[o].todo = op[o].todo /\ op'[o].file = op[o].file /\ op'[o].after = op[o].after
<1> DEFINE d == ActiveSlot
           p == <<row[op[o].row].table, op[o].path[2]>>
           l == [op[o] EXCEPT !.pc = "prune", !.dir = d, !.path = p]
<1>1. op[o] \in Local BY DEF IInv, TypeOK
<1>2. Step(o, l) BY DEF PruneResolve
<1> HIDE DEF d, p
<1>3. /\ l.pc = "prune" /\ l.dir = d /\ l.path = p
      /\ l.kind = op[o].kind /\ l.row = op[o].row /\ l.next = op[o].next
      /\ l.todo = op[o].todo /\ l.file = op[o].file /\ l.after = op[o].after
  BY <1>1 DEF Local
<1> HIDE DEF l
<1>4. QED BY <1>2, <1>3, StepWrites DEF d, p

LEMMA SiteReadRowWrites ==
    ASSUME IInv, NEW o \in Ops, SiteReadRow(o)
    PROVE  \E p \in op[o].todo :
              /\ OthersStay(o) /\ op'[o].todo = op[o].todo \ {p}
              /\ op'[o].kind = op[o].kind /\ op'[o].row = op[o].row /\ op'[o].next = op[o].next
              /\ op'[o].dir = op[o].dir /\ op'[o].after = op[o].after
              /\ \/ op'[o].pc = "rows" /\ op'[o].path = op[o].path /\ op'[o].file = op[o].file
                 \/ \E r \in PublishedAt(p) :
                       op'[o].pc = "render" /\ op'[o].path = p /\ op'[o].file = RowFile(o, r)
<1> DEFINE rest(p) == [op[o] EXCEPT !.todo = @ \ {p}]
           next(p, f) == [rest(p) EXCEPT !.pc = "render", !.path = p, !.file = f]
<1>1. op[o] \in Local /\ op[o].pc = "rows" BY DEF IInv, TypeOK, SiteReadRow, At
<1>2. PICK p \in op[o].todo : \/ Step(o, rest(p))
                              \/ \E r \in PublishedAt(p) : Step(o, next(p, RowFile(o, r)))
  BY DEF SiteReadRow
<1>3. LET l == rest(p)
      IN  /\ l.pc = "rows" /\ l.todo = op[o].todo \ {p} /\ l.path = op[o].path
          /\ l.file = op[o].file /\ l.kind = op[o].kind /\ l.row = op[o].row
          /\ l.next = op[o].next /\ l.dir = op[o].dir /\ l.after = op[o].after
  BY <1>1 DEF Local
<1>4. ASSUME NEW f
      PROVE  LET l == next(p, f)
             IN  /\ l.pc = "render" /\ l.todo = op[o].todo \ {p} /\ l.path = p
                 /\ l.file = f /\ l.kind = op[o].kind /\ l.row = op[o].row
                 /\ l.next = op[o].next /\ l.dir = op[o].dir /\ l.after = op[o].after
  BY <1>1 DEF Local
<1> HIDE DEF rest, next
<1>5. CASE Step(o, rest(p)) BY <1>3, <1>5, StepWrites
<1>6. CASE \E r \in PublishedAt(p) : Step(o, next(p, RowFile(o, r)))
  BY <1>4, <1>6, StepWrites
<1>7. QED BY <1>2, <1>5, <1>6

LEMMA RowReadWrites ==
    ASSUME IInv, NEW o \in Ops, RowRead(o)
    PROVE  /\ OthersStay(o)
           /\ op'[o].kind = op[o].kind /\ op'[o].row = op[o].row /\ op'[o].next = op[o].next
           /\ op'[o].dir = op[o].dir /\ op'[o].path = op[o].path /\ op'[o].todo = op[o].todo
           /\ op'[o].after = op[o].after
           /\ \/ /\ site = 0 \/ PublishedAt(op[o].path) = {}
                 /\ op'[o].pc = "bump" /\ op'[o].file = op[o].file
              \/ \E r \in PublishedAt(op[o].path) :
                    op'[o].pc = "locate" /\ op'[o].file = RowFile(o, r)
<1> DEFINE next(f) == [op[o] EXCEPT !.pc = "locate", !.file = f]
<1>1. op[o] \in Local BY DEF IInv, TypeOK
<1>2. \/ (site = 0 \/ PublishedAt(op[o].path) = {}) /\ Goto(o, "bump")
      \/ \E r \in PublishedAt(op[o].path) : Step(o, next(RowFile(o, r)))
  BY DEF RowRead
<1>3. ASSUME NEW f
      PROVE  LET l == next(f)
             IN  /\ l.pc = "locate" /\ l.file = f /\ l.kind = op[o].kind /\ l.row = op[o].row
                 /\ l.next = op[o].next /\ l.dir = op[o].dir /\ l.path = op[o].path
                 /\ l.todo = op[o].todo /\ l.after = op[o].after
  BY <1>1 DEF Local
<1> HIDE DEF next
<1>4. CASE (site = 0 \/ PublishedAt(op[o].path) = {}) /\ Goto(o, "bump") BY <1>4, GotoWrites
<1>5. CASE \E r \in PublishedAt(op[o].path) : Step(o, next(RowFile(o, r)))
  BY <1>3, <1>5, StepWrites
<1>6. QED BY <1>2, <1>4, <1>5

LEMMA SerializedBumpWrites ==
    ASSUME IInv, NEW o \in Ops, SerializedBump(o)
    PROVE  \/ /\ OthersStay(o) /\ op[o].kind \in {"delete", "pluginDelete", "move"}
              /\ op'[o] = Idle /\ op'[o].pc = "idle"
           \/ /\ OthersStay(o) /\ op[o].kind = "status"
              /\ op'[o].pc = "reread" /\ op'[o].after = "idle"
              /\ op'[o].kind = op[o].kind /\ op'[o].row = op[o].row
<1> DEFINE l == [op[o] EXCEPT !.pc = "reread", !.after = "idle"]
<1>1. op[o] \in Local BY DEF IInv, TypeOK
<1>2. \/ op[o].kind = "status" /\ Step(o, l)
      \/ op[o].kind \in {"delete", "pluginDelete", "move"} /\ Finish(o)
  BY DEF SerializedBump
<1>3. l.pc = "reread" /\ l.after = "idle" /\ l.kind = op[o].kind /\ l.row = op[o].row
  BY <1>1 DEF Local
<1> HIDE DEF l
<1>4. QED BY <1>2, <1>3, StepWrites, FinishWrites

LEMMA StatusRereadWrites ==
    ASSUME IInv, NEW o \in Ops, StatusReread(o)
    PROVE  \/ /\ OthersStay(o) /\ row[op[o].row].deleted
              /\ op'[o] = Idle /\ op'[o].pc = "idle"
           \/ /\ OthersStay(o) /\ ~row[op[o].row].deleted
              /\ op'[o].pc = "resolve" /\ op'[o].path = DraftPath(row[op[o].row])
              /\ op'[o].kind = op[o].kind /\ op'[o].row = op[o].row /\ op'[o].after = op[o].after
<1> DEFINE p == DraftPath(row[op[o].row])
           l == [op[o] EXCEPT !.pc = "resolve", !.path = p]
<1>1. op[o] \in Local BY DEF IInv, TypeOK
<1>2. \/ ~row[op[o].row].deleted /\ Step(o, l)
      \/ row[op[o].row].deleted /\ Finish(o)
  BY DEF StatusReread
<1> HIDE DEF p
<1>3. /\ l.pc = "resolve" /\ l.path = p /\ l.after = op[o].after
      /\ l.kind = op[o].kind /\ l.row = op[o].row
  BY <1>1 DEF Local
<1> HIDE DEF l
<1>4. QED BY <1>2, <1>3, StepWrites, FinishWrites DEF p

LEMMA StatusUpdateWrites ==
    ASSUME IInv, NEW o \in Ops, NEW r \in Rows, StatusUpdate(o, r)
    PROVE  /\ OthersStay(o) /\ op'[o].pc = "wait" /\ op'[o].kind = "status"
           /\ op'[o].row = r /\ op'[o].after = "wait"
<1> DEFINE l == [Started("status", r, "wait") EXCEPT !.after = "wait"]
<1>1. Step(o, l) BY DEF StatusUpdate
<1>2. l.pc = "wait" /\ l.kind = "status" /\ l.row = r /\ l.after = "wait"
  BY DEF Started, Idle
<1> HIDE DEF l
<1>3. QED BY <1>1, <1>2, StepWrites

LEMMA DeleteUpdateWrites ==
    ASSUME IInv, NEW o \in Ops, NEW r \in Rows, DeleteUpdate(o, r)
    PROVE  /\ OthersStay(o) /\ op'[o].pc = "resolve" /\ op'[o].kind = "delete"
           /\ op'[o].row = r
           /\ op'[o].after = IF row[r].status = "published" THEN "wait" ELSE "idle"
<1> DEFINE p == DraftPath(row[r])
           a == IF row[r].status = "published" THEN "wait" ELSE "idle"
           l == [Started("delete", r, "resolve") EXCEPT !.path = p, !.after = a]
<1>1. Step(o, l) BY DEF DeleteUpdate
<1> HIDE DEF p, a
<1>2. l.pc = "resolve" /\ l.kind = "delete" /\ l.row = r /\ l.after = a
  BY DEF Started, Idle
<1> HIDE DEF l
<1>3. QED BY <1>1, <1>2, StepWrites DEF a

LEMMA PluginDeleteWrites ==
    ASSUME IInv, NEW o \in Ops, NEW r \in Rows, PluginDelete(o, r)
    PROVE  \/ row[r].status # "published" /\ UNCHANGED op
           \/ OthersStay(o) /\ op'[o].pc = "wait" /\ op'[o].kind = "pluginDelete"
<1> DEFINE l == [Started("pluginDelete", r, "wait") EXCEPT !.after = "wait"]
<1>1. Step(o, l) \/ (row[r].status # "published" /\ UNCHANGED op) BY DEF PluginDelete
<1>2. l.pc = "wait" /\ l.kind = "pluginDelete" BY DEF Started, Idle
<1> HIDE DEF l
<1>3. QED BY <1>1, <1>2, StepWrites

LEMMA MoveLoadWrites ==
    ASSUME IInv, NEW o \in Ops, NEW r \in Rows, MoveLoad(o, r)
    PROVE  OthersStay(o) /\ op'[o].pc = "loaded" /\ op'[o].kind = "move"
<1> DEFINE a == IF row[r].status = "published" THEN "wait" ELSE "idle"
           l == [Started("move", r, "loaded") EXCEPT !.after = a]
<1>1. Step(o, l) BY DEF MoveLoad
<1> HIDE DEF a
<1>2. l.pc = "loaded" /\ l.kind = "move" BY DEF Started, Idle
<1> HIDE DEF l
<1>3. QED BY <1>1, <1>2, StepWrites

-----------------------------------------------------------------------------
(* No change of what a public URL serves is left without a bump.           *)

(* A request that will still bump before it is over *)
BumpsYet(l) ==
    \/ l.pc \in Critical
    \/ l.pc = "wait" /\ l.kind \in {"status", "delete", "pluginDelete"}
    \/ l.pc \in {"resolve", "prune"} /\ l.after = "wait"

(* The requests that remove a file are the status change and the deletion. *)
Removes(l) == l.pc \in {"resolve", "prune"} => l.kind \in {"status", "delete"}

(* The inductive invariant: whoever changed what is public and has not     *)
(* bumped since is still in progress.                                      *)
BumpInv ==
    /\ IInv
    /\ \A o \in Ops : Removes(op[o])
    /\ dirty # {} => \E o \in Ops : BumpsYet(op[o])

(* What a step of request o must do to preserve it *)
Accounts(o) ==
    /\ OthersStay(o) /\ Removes(op'[o])
    /\ \/ dirty' = {}
       \/ BumpsYet(op'[o])
       \/ dirty' = dirty /\ ~BumpsYet(op[o])

LEMMA CriticalAccounts ==
    ASSUME NEW o \in Ops, OthersStay(o), op'[o].pc \in Critical
    PROVE  Accounts(o)
  BY DEF Accounts, Removes, BumpsYet, Critical

LEMMA FinishAccounts ==
    ASSUME IInv, NEW o \in Ops, Finish(o), dirty' = {} \/ (dirty' = dirty /\ ~BumpsYet(op[o]))
    PROVE  Accounts(o)
  BY FinishWrites DEF Accounts, Removes

LEMMA StartAccounts ==
    ASSUME BumpInv, NEW o \in Ops, Start(o), "move" \notin Kinds
    PROVE  Accounts(o) \/ (UNCHANGED op /\ dirty' = dirty)
<1>1. ASSUME NEW k, NEW r, Step(o, Started(k, r, "wait")), UNCHANGED dirty, op[o].pc = "idle"
      PROVE  Accounts(o)
  <2>1. OthersStay(o) /\ op'[o].pc = "wait" BY <1>1, StartedIs, StepWrites DEF BumpInv
  <2>2. ~BumpsYet(op[o]) BY <1>1 DEF BumpsYet, Critical
  <2>3. QED BY <1>1, <2>1, <2>2 DEF Accounts, Removes
<1>2. CASE SiteStart(o) BY <1>1, <1>2 DEF SiteStart
<1>3. ASSUME NEW r \in Rows, RowStart(o, r) PROVE Accounts(o) BY <1>1, <1>3 DEF RowStart
<1>4. ASSUME NEW r \in Rows, StatusUpdate(o, r) PROVE Accounts(o)
  BY <1>4, StatusUpdateWrites DEF BumpInv, Accounts, Removes, BumpsYet
<1>5. ASSUME NEW r \in Rows, DeleteUpdate(o, r) PROVE Accounts(o)
  <2>1. /\ OthersStay(o) /\ op'[o].pc = "resolve" /\ op'[o].kind = "delete"
        /\ op'[o].after = IF row[r].status = "published" THEN "wait" ELSE "idle"
    BY <1>5, DeleteUpdateWrites DEF BumpInv
  <2>2. Removes(op'[o]) BY <2>1 DEF Removes
  <2>3. CASE row[r].status = "published" BY <2>1, <2>2, <2>3 DEF Accounts, BumpsYet
  <2>4. CASE row[r].status # "published"
    <3>1. Hidden(r) = {} BY <2>4 DEF Hidden, Visible
    <3>2. dirty' = dirty BY <1>5, <3>1 DEF DeleteUpdate
    <3>3. ~BumpsYet(op[o]) BY <1>5 DEF DeleteUpdate, BumpsYet, Critical
    <3>4. QED BY <2>1, <2>2, <3>2, <3>3 DEF Accounts
  <2>5. QED BY <2>3, <2>4
<1>6. ASSUME NEW r \in Rows, PluginDelete(o, r)
      PROVE  Accounts(o) \/ (UNCHANGED op /\ dirty' = dirty)
  <2>1. CASE row[r].status # "published" /\ UNCHANGED op
    <3>1. Hidden(r) = {} BY <2>1 DEF Hidden, Visible
    <3>2. QED BY <1>6, <2>1, <3>1 DEF PluginDelete
  <2>2. CASE OthersStay(o) /\ op'[o].pc = "wait" /\ op'[o].kind = "pluginDelete"
    BY <2>2 DEF Accounts, Removes, BumpsYet
  <2>3. QED BY <1>6, <2>1, <2>2, PluginDeleteWrites DEF BumpInv
<1>7. ASSUME NEW r \in Rows PROVE ~MoveLoad(o, r) BY DEF MoveLoad
<1>8. QED BY <1>2, <1>3, <1>4, <1>5, <1>6, <1>7 DEF Start

LEMMA SiteAccounts == ASSUME BumpInv, NEW o \in Ops, Site(o) PROVE Accounts(o)
<1> USE DEF BumpInv
<1>1. CASE SitePersistFails(o)
  <2>1. ~BumpsYet(op[o]) BY <1>1 DEF SitePersistFails, At, BumpsYet, Critical
  <2>2. QED BY <1>1, <2>1, FinishAccounts DEF SitePersistFails
<1>2. ASSUME NEW c \in Critical, Goto(o, c) PROVE Accounts(o)
  BY <1>2, GotoWrites, CriticalAccounts
<1>3. {"prepare", "home", "list", "rows", "render", "swap", "bump"} \subseteq Critical
  BY DEF Critical
<1>4. CASE SitePersist(o) BY <1>3, <1>4, SitePersistWrites, CriticalAccounts
<1>5. CASE SitePrepare(o) BY <1>3, <1>5, SitePrepareWrites, CriticalAccounts
<1>6. CASE SiteListRows(o) BY <1>3, <1>6, SiteListRowsWrites, CriticalAccounts
<1>7. CASE SiteReadRow(o) BY <1>3, <1>7, SiteReadRowWrites, CriticalAccounts
<1>8. CASE SiteBakeRow(o) BY <1>3, <1>8, SiteBakeRowWrites, CriticalAccounts
<1>9. CASE SiteBakeHome(o) \/ SiteAssets(o) \/ SiteSwap(o) \/ SiteBakeFails(o)
  BY <1>2, <1>3, <1>9 DEF SiteBakeHome, SiteAssets, SiteSwap, SiteBakeFails
<1>10. QED BY <1>1, <1>4, <1>5, <1>6, <1>7, <1>8, <1>9 DEF Site

LEMMA RowAccounts == ASSUME BumpInv, NEW o \in Ops, RowPublish(o) PROVE Accounts(o)
<1> USE DEF BumpInv
<1>1. CASE RowPersistFails(o)
  <2>1. ~BumpsYet(op[o]) BY <1>1 DEF RowPersistFails, At, BumpsYet, Critical
  <2>2. QED BY <1>1, <2>1, FinishAccounts DEF RowPersistFails
<1>2. {"route", "pruneOld", "read", "locate", "write", "bump"} \subseteq Critical
  BY DEF Critical
<1>3. RouteNext(o) \in Critical BY <1>2 DEF RouteNext
<1>4. CASE RowPersist(o) BY <1>2, <1>4, RowPersistWrites, CriticalAccounts
<1>5. CASE RowRoute(o) BY <1>3, <1>5, RowRouteWrites, CriticalAccounts
<1>6. CASE RowPruneOld(o) BY <1>2, <1>6, RowPruneOldWrites, CriticalAccounts
<1>7. CASE RowRead(o) BY <1>2, <1>7, RowReadWrites, CriticalAccounts
<1>8. CASE RowLocate(o) BY <1>2, <1>8, RowLocateWrites, CriticalAccounts
<1>9. CASE RowWrite(o) \/ RowBakeFails(o)
  BY <1>2, <1>9, GotoWrites, CriticalAccounts DEF RowWrite, RowBakeFails
<1>10. QED BY <1>1, <1>4, <1>5, <1>6, <1>7, <1>8, <1>9 DEF RowPublish

LEMMA RetractionAccounts ==
    ASSUME BumpInv, NEW o \in Ops, Retraction(o), "move" \notin Kinds
    PROVE  Accounts(o)
<1>1. IInv /\ op[o] \in Local /\ Removes(op[o]) BY DEF BumpInv, IInv, TypeOK
<1>2. ~MoveUpdate(o)
  <2>1. op[o].kind # "move" BY <1>1 DEF Local
  <2>2. QED BY <2>1 DEF MoveUpdate, At
<1>3. CASE SerializedBump(o)
  <2>1. dirty' = {} BY <1>3 DEF SerializedBump
  <2>2. QED BY <1>1, <1>3, <2>1, SerializedBumpWrites DEF Accounts, Removes
<1>4. CASE StatusReread(o)
  <2>1. dirty' = dirty /\ op[o].kind = "status" /\ op[o].pc = "reread"
    BY <1>4 DEF StatusReread, At
  <2>2. ~BumpsYet(op[o]) BY <2>1 DEF BumpsYet, Critical
  <2>3. QED BY <1>1, <1>4, <2>1, <2>2, StatusRereadWrites DEF Accounts, Removes
<1>5. CASE PruneResolve(o)
  <2>1. dirty' = dirty /\ op[o].pc = "resolve" BY <1>5 DEF PruneResolve
  <2>2. /\ OthersStay(o) /\ op'[o].pc = "prune" /\ op'[o].kind = op[o].kind
        /\ op'[o].after = op[o].after
    BY <1>1, <1>5, PruneResolveWrites
  <2>3. Removes(op'[o]) BY <1>1, <2>1, <2>2 DEF Removes
  <2>4. BumpsYet(op[o]) <=> BumpsYet(op'[o]) BY <2>1, <2>2 DEF BumpsYet, Critical
  <2>5. QED BY <2>1, <2>2, <2>3, <2>4 DEF Accounts
<1>6. CASE Prune(o)
  <2>1. dirty' = dirty /\ op[o].pc = "prune" BY <1>6 DEF Prune
  <2>2. CASE op[o].after = "wait" /\ Goto(o, "wait")
    <3>1. OthersStay(o) /\ op'[o].pc = "wait" /\ op'[o].kind = op[o].kind
      BY <1>1, <2>2, GotoWrites
    <3>2. op[o].kind \in {"status", "delete"} BY <1>1, <2>1 DEF Removes
    <3>3. QED BY <3>1, <3>2 DEF Accounts, Removes, BumpsYet
  <2>3. CASE op[o].after # "wait" /\ Finish(o)
    <3>1. ~BumpsYet(op[o]) BY <2>1, <2>3 DEF BumpsYet, Critical
    <3>2. QED BY <1>1, <2>1, <2>3, <3>1, FinishAccounts
  <2>4. QED BY <1>6, <2>2, <2>3 DEF Prune
<1>7. QED BY <1>2, <1>3, <1>4, <1>5, <1>6 DEF Retraction

LEMMA BumpInit == Init => BumpInv
<1>1. Init => \A o \in Ops : op[o].pc = "idle" BY IdleOK DEF Init
<1>2. QED BY <1>1, InitOK DEF Init, BumpInv, Removes

LEMMA BumpStep ==
    ASSUME "move" \notin Kinds, "schedule" \notin Kinds, BumpInv, [Next]_vars
    PROVE  BumpInv'
<1>1. IInv' BY StepOK DEF BumpInv
<1>2. ASSUME UNCHANGED op, dirty' = dirty PROVE BumpInv'
  BY <1>1, <1>2 DEF BumpInv, BumpsYet, Removes
<1>3. ASSUME NEW o \in Ops, Accounts(o) PROVE BumpInv'
  <2>1. \A q \in Ops : Removes(op'[q])
    BY <1>3 DEF BumpInv, Accounts, OthersStay
  <2>2. dirty' # {} => \E q \in Ops : BumpsYet(op'[q])
    <3>1. CASE dirty' = dirty /\ ~BumpsYet(op[o]) /\ dirty # {}
      <4>1. PICK q \in Ops : BumpsYet(op[q]) BY <3>1 DEF BumpInv
      <4>2. op'[q] = op[q] BY <1>3, <3>1, <4>1 DEF Accounts, OthersStay
      <4>3. QED BY <4>1, <4>2
    <3>2. QED BY <1>3, <3>1 DEF Accounts
  <2>3. QED BY <1>1, <2>1, <2>2 DEF BumpInv, Removes, BumpsYet
<1>4. ASSUME NEW o \in Ops, Start(o) \/ Continue(o) PROVE BumpInv'
  <2>1. CASE Start(o) BY <2>1, <1>2, <1>3, StartAccounts
  <2>2. CASE Site(o) \/ RowPublish(o) \/ Retraction(o)
    BY <2>2, <1>3, SiteAccounts, RowAccounts, RetractionAccounts
  <2>3. CASE PublishBump(o) BY <2>3, <1>3, FinishAccounts DEF PublishBump, BumpInv
  <2>4. QED BY <1>4, <2>1, <2>2, <2>3 DEF Continue
<1>5. ASSUME NEW r \in Rows, Edit(r) \/ Schedule(r) PROVE BumpInv'
  BY <1>2, <1>5 DEF Edit, Schedule
<1>6. CASE Crash
  <2>1. dirty' = {} /\ \A o \in Ops : op'[o].pc = "idle" BY <1>6, IdleOK DEF Crash
  <2>2. QED BY <1>1, <2>1 DEF BumpInv, Removes
<1>7. CASE UNCHANGED vars BY <1>2, <1>7 DEF vars
<1>8. QED BY <1>4, <1>5, <1>6, <1>7 DEF Next

(* renderCache.ts, peek: with every request but the move (which goes by    *)
(* the status it loaded) and the scheduling of a published row (which does *)
(* not bump), whatever changed in public view is bumped by a request that  *)
(* is still in progress; at rest nothing is left.                          *)
THEOREM BumpTheorem ==
    ASSUME "move" \notin Kinds, "schedule" \notin Kinds
    PROVE  Spec => []RouteChangesBumped
<1>1. BumpInv => RouteChangesBumped
  BY DEF BumpInv, RouteChangesBumped, Quiet, Busy, BumpsYet, Critical
<1>2. BumpInv /\ [Next]_vars => BumpInv' BY BumpStep
<1>3. QED BY <1>1, <1>2, BumpInit, PTL DEF Spec

-----------------------------------------------------------------------------
(* What visitors see is the abstract directory of LiveSite.                *)

(* Every baked file is as old as some snapshot, or older. *)
NotNewer(s, n) == \A d \in Slots, p \in Paths : s[d][p] # NoFile => s[d][p].gen <= n

(* What the work of a request says of its state, when n is the latest      *)
(* snapshot, s the slots and v what visitors are served: the files of a    *)
(* full publish are of one snapshot and one stamp, and newer than those    *)
(* it will replace.                                                        *)
WorkOK(l, n, s, v) ==
    /\ l.pc \in {"render", "locate", "write"} => l.file \in Files /\ l.file.gen = n
    /\ l.pc = "render" => l.file.stamp = l.next
    /\ l.pc \in Baking =>
          \A p \in Paths : s[l.dir][p] # NoFile => /\ s[l.dir][p].gen = n
                                                   /\ s[l.dir][p].stamp = l.next
    /\ l.pc \in Baking \cup {"prepare"} => \A p \in Paths : v[p] # NoFile => v[p].gen < n
    /\ l.pc \in {"pruneOld", "read", "locate", "write", "prune"} => l.path \in RowPaths
    /\ l.pc \in {"route", "pruneOld"} => l.todo = {} \/ \E p \in RowPaths : l.todo = {p}

(* The inductive invariant *)
StoreInv ==
    /\ IInv
    /\ NotNewer(slot, site)
    /\ \A o \in Ops : WorkOK(op[o], site, slot, Served)

(* Files are at most removed. *)
OnlyRemoves ==
    \A d \in Slots, p \in Paths : slot'[d][p] # NoFile => slot'[d][p] = slot[d][p]

LEMMA WorkSites == {"render", "locate", "write", "pruneOld", "read", "route", "prepare"}
                      \cup Baking \subseteq Critical
  BY DEF Baking, Critical

LEMMA ServedTyped ==
    ASSUME TypeOK
    PROVE  /\ Served \in [Paths -> Files \cup {NoFile}]
           /\ \A p \in Paths : Served[p] # NoFile => /\ current \in Slots
                                                     /\ Served[p] = slot[current][p]
  BY DEF TypeOK, Served, EmptySlot

(* A request that leaves the work of the others alone: it only removes     *)
(* files, or it holds the lock.                                            *)
LEMMA WorkStep ==
    ASSUME StoreInv, IInv', NEW o \in Ops, OthersStay(o),
           (UNCHANGED <<site, current>> /\ OnlyRemoves) \/ Holds(o),
           NotNewer(slot', site'), WorkOK(op'[o], site', slot', Served')
    PROVE  StoreInv'
<1>1. ASSUME NEW q \in Ops PROVE WorkOK(op'[q], site', slot', Served')
  <2>1. CASE q = o BY <2>1
  <2>2. CASE q # o
    <3>1. op'[q] = op[q] /\ WorkOK(op[q], site, slot, Served)
      BY <2>2 DEF OthersStay, StoreInv
    <3>2. CASE UNCHANGED <<site, current>> /\ OnlyRemoves
      <4>1. op[q].dir \in Slots BY DEF StoreInv, IInv, TypeOK, Local
      <4>2. \A p \in Paths : Served'[p] # NoFile => Served'[p] = Served[p]
        <5>1. CASE current = "none" BY <3>2, <5>1 DEF Served, EmptySlot
        <5>2. CASE current \in Slots BY <3>2, <5>2 DEF Served, OnlyRemoves, Slots
        <5>3. QED BY <5>1, <5>2 DEF StoreInv, IInv, TypeOK
      <4>3. op[q].pc \in Baking =>
              \A p \in Paths : slot'[op[q].dir][p] # NoFile => /\ slot'[op[q].dir][p].gen = site
                                                               /\ slot'[op[q].dir][p].stamp = op[q].next
        BY <3>1, <3>2, <4>1 DEF WorkOK, OnlyRemoves
      <4>4. op[q].pc \in Baking \cup {"prepare"} =>
              \A p \in Paths : Served'[p] # NoFile => Served'[p].gen < site
        BY <3>1, <4>2 DEF WorkOK
      <4>5. QED BY <3>1, <3>2, <4>3, <4>4 DEF WorkOK
    <3>3. CASE Holds(o)
      <4>1. op[q].pc \notin Critical BY <2>2, <3>3 DEF StoreInv, IInv, ChainOK, Holds
      <4>2. QED BY <3>1, <4>1, WorkSites DEF WorkOK
    <3>4. QED BY <3>2, <3>3
  <2>3. QED BY <2>1, <2>2
<1>2. QED BY <1>1 DEF StoreInv

(* A request that touches neither the slots, nor the link, nor the snapshot *)
LEMMA AsideStep ==
    ASSUME StoreInv, IInv', NEW o \in Ops, OthersStay(o), UNCHANGED <<site, slot, current>>,
           WorkOK(op'[o], site, slot, Served)
    PROVE  StoreInv'
<1>1. OnlyRemoves BY DEF OnlyRemoves
<1>2. NotNewer(slot', site') BY DEF StoreInv
<1>3. Served' = Served BY DEF Served
<1>4. QED BY <1>1, <1>2, <1>3, WorkStep

LEMMA NoWork ==
    ASSUME NEW l, l.pc \in {"idle", "wait", "bump", "reread", "resolve", "loaded"},
           NEW n, NEW s, NEW v
    PROVE  WorkOK(l, n, s, v)
  BY DEF WorkOK, Baking

LEMMA RestStep ==
    ASSUME StoreInv, IInv', NEW o \in Ops, OthersStay(o), UNCHANGED <<site, slot, current>>,
           op'[o].pc \in {"idle", "wait", "bump", "reread", "resolve", "loaded"}
    PROVE  StoreInv'
  BY NoWork, AsideStep

LEMMA StartStores ==
    ASSUME StoreInv, IInv', NEW o \in Ops, Start(o)
    PROVE  StoreInv' /\ UNCHANGED <<slot, current>>
<1> USE DEF StoreInv
<1>1. UNCHANGED <<site, slot, current>>
  BY DEF Start, SiteStart, RowStart, StatusUpdate, DeleteUpdate, PluginDelete, MoveLoad
<1>2. ASSUME NEW k, NEW r, Step(o, Started(k, r, "wait")) PROVE StoreInv'
  BY <1>1, <1>2, StartedIs, StepWrites, RestStep
<1>3. CASE UNCHANGED op BY <1>1, <1>3 DEF Served
<1>4. CASE SiteStart(o) BY <1>2, <1>4 DEF SiteStart
<1>5. ASSUME NEW r \in Rows, RowStart(o, r) PROVE StoreInv' BY <1>2, <1>5 DEF RowStart
<1>6. ASSUME NEW r \in Rows, StatusUpdate(o, r) PROVE StoreInv'
  BY <1>1, <1>6, StatusUpdateWrites, RestStep
<1>7. ASSUME NEW r \in Rows, DeleteUpdate(o, r) PROVE StoreInv'
  BY <1>1, <1>7, DeleteUpdateWrites, RestStep
<1>8. ASSUME NEW r \in Rows, PluginDelete(o, r) PROVE StoreInv'
  BY <1>1, <1>3, <1>8, PluginDeleteWrites, RestStep
<1>9. ASSUME NEW r \in Rows, MoveLoad(o, r) PROVE StoreInv'
  BY <1>1, <1>9, MoveLoadWrites, RestStep
<1>10. QED BY <1>1, <1>4, <1>5, <1>6, <1>7, <1>8, <1>9 DEF Start

(* The steps of a publish or of a retraction after which nothing is left to *)
(* do but the bump, or nothing at all                                       *)
LEMMA EndsStore ==
    ASSUME StoreInv, IInv', NEW o \in Ops,
           \/ SitePersistFails(o) \/ SiteBakeFails(o) \/ PublishBump(o)
           \/ RowPersistFails(o) \/ RowBakeFails(o)
           \/ MoveUpdate(o) \/ SerializedBump(o) \/ StatusReread(o)
    PROVE  StoreInv' /\ UNCHANGED <<slot, current>>
<1> USE DEF StoreInv
<1>1. UNCHANGED <<site, slot, current>>
  BY DEF SitePersistFails, SiteBakeFails, PublishBump, RowPersistFails, RowBakeFails, MoveUpdate,
         SerializedBump, StatusReread
<1>2. CASE Finish(o) BY <1>1, <1>2, FinishWrites, RestStep
<1>3. CASE Goto(o, "bump") \/ Goto(o, "wait") BY <1>1, <1>3, GotoWrites, RestStep
<1>4. CASE SerializedBump(o) BY <1>1, <1>4, SerializedBumpWrites, RestStep
<1>5. CASE StatusReread(o) BY <1>1, <1>5, StatusRereadWrites, RestStep
<1>6. QED BY <1>1, <1>2, <1>3, <1>4, <1>5
    DEF SitePersistFails, SiteBakeFails, PublishBump, RowPersistFails, RowBakeFails, MoveUpdate

LEMMA SitePersistStores ==
    ASSUME StoreInv, IInv', NEW o \in Ops, SitePersist(o)
    PROVE  StoreInv' /\ UNCHANGED <<slot, current>>
<1>1. /\ site' = site + 1 /\ UNCHANGED <<slot, current>> /\ Holds(o) BY DEF SitePersist
<1>2. OthersStay(o) /\ op'[o].pc = "prepare" BY SitePersistWrites DEF StoreInv
<1>3. TypeOK /\ site \in Nat BY DEF StoreInv, IInv, TypeOK
<1>4. ASSUME NEW d \in Slots, NEW p \in Paths, slot[d][p] # NoFile PROVE slot[d][p].gen < site'
  <2>1. slot[d][p].gen \in Nat BY <1>3, <1>4 DEF TypeOK, Files
  <2>2. slot[d][p].gen <= site BY <1>4 DEF StoreInv, NotNewer
  <2>3. QED BY <1>1, <1>3, <2>1, <2>2
<1>5. NotNewer(slot', site')
  <2>1. \A d \in Slots, p \in Paths : slot[d][p] # NoFile => slot[d][p].gen \in Nat
    BY <1>3 DEF TypeOK, Files
  <2>2. \A x \in Nat : x < site' => x <= site' BY <1>1, <1>3
  <2>3. QED BY <1>1, <1>4, <2>1, <2>2 DEF NotNewer
<1>6. Served' = Served BY <1>1 DEF Served
<1>7. \A p \in Paths : Served'[p] # NoFile => Served'[p].gen < site'
  BY <1>3, <1>4, <1>6, ServedTyped
<1>8. WorkOK(op'[o], site', slot', Served') BY <1>2, <1>7 DEF WorkOK, Baking
<1>9. QED BY <1>1, <1>2, <1>5, <1>8, WorkStep

(* The steps of a full publish between its commit and its swap: visitors'  *)
(* slot is not touched.                                                    *)
LEMMA BakeStores ==
    ASSUME StoreInv, IInv', NEW o \in Ops, op[o].pc \in Baking \cup {"prepare"},
           UNCHANGED <<site, current>>, OthersStay(o),
           op'[o].pc \in Baking, op'[o].next = op[o].next, op'[o].dir # current,
           \A d \in Slots \ {op'[o].dir} : slot'[d] = slot[d],
           \A p \in Paths : slot'[op'[o].dir][p] # NoFile =>
                               /\ slot'[op'[o].dir][p].gen = site
                               /\ slot'[op'[o].dir][p].stamp = op[o].next,
           op'[o].pc = "render" => /\ op'[o].file \in Files /\ op'[o].file.gen = site
                                   /\ op'[o].file.stamp = op[o].next
    PROVE  StoreInv' /\ Served' = Served
<1>1. Holds(o) BY WorkSites DEF StoreInv, IInv, ChainOK
<1>2. TypeOK /\ TypeOK' /\ site \in Nat /\ op'[o] \in Local BY DEF StoreInv, IInv, TypeOK
<1>3. Served' = Served BY <1>2 DEF Served, TypeOK
<1>4. NotNewer(slot', site')
  <2>1. SUFFICES ASSUME NEW d \in Slots, NEW p \in Paths, slot'[d][p] # NoFile
                 PROVE  slot'[d][p].gen <= site
    BY DEF NotNewer
  <2>2. CASE d = op'[o].dir BY <1>2, <2>1, <2>2
  <2>3. CASE d # op'[o].dir BY <2>1, <2>3 DEF StoreInv, NotNewer
  <2>4. QED BY <2>2, <2>3
<1>5. \A p \in Paths : Served'[p] # NoFile => Served'[p].gen < site'
  BY <1>3 DEF StoreInv, WorkOK
<1>6. WorkOK(op'[o], site', slot', Served') BY <1>5 DEF WorkOK, Baking
<1>7. QED BY <1>1, <1>3, <1>4, <1>6, WorkStep

LEMMA SiteBakes ==
    ASSUME StoreInv, IInv', NEW o \in Ops,
           \/ SitePrepare(o) \/ SiteBakeHome(o) \/ SiteListRows(o) \/ SiteReadRow(o)
           \/ SiteBakeRow(o) \/ SiteAssets(o)
    PROVE  StoreInv' /\ Served' = Served
<1>1. TypeOK /\ op[o] \in Local /\ row \in [Rows -> Row] /\ site \in Nat
  BY DEF StoreInv, IInv, TypeOK
<1>2. UNCHANGED <<site, current>>
  BY DEF SitePrepare, SiteBakeHome, SiteListRows, SiteReadRow, SiteBakeRow, SiteAssets
<1>3. {"home", "list", "rows", "render", "swap"} = Baking BY DEF Baking
<1>4. op[o].pc \in Baking =>
        /\ op[o].dir # current /\ op[o].dir \in Slots
        /\ \A p \in Paths : slot[op[o].dir][p] # NoFile =>
              slot[op[o].dir][p].gen = site /\ slot[op[o].dir][p].stamp = op[o].next
  BY <1>1 DEF StoreInv, WorkOK, IInv, LocalOK, Local
<1>5. CASE SitePrepare(o)
  <2>1. /\ OthersStay(o) /\ op'[o].pc = "home" /\ op'[o].dir = InactiveSlot
        /\ op'[o].next = op[o].next
    BY <1>5, SitePrepareWrites DEF StoreInv
  <2>2. slot' = [slot EXCEPT ![InactiveSlot] = EmptySlot] /\ op[o].pc = "prepare"
    BY <1>5 DEF SitePrepare, At
  <2>3. InactiveSlot # current BY <1>1 DEF InactiveSlot, ActiveSlot, TypeOK, Slots
  <2>4. slot'[InactiveSlot] = EmptySlot /\ \A d \in Slots \ {InactiveSlot} : slot'[d] = slot[d]
    BY <1>1, <2>2, SlotsTyped DEF TypeOK
  <2>5. \A p \in Paths : EmptySlot[p] = NoFile BY DEF EmptySlot
  <2>6. QED BY <1>2, <1>3, <2>1, <2>2, <2>3, <2>4, <2>5, BakeStores
<1>6. ASSUME op[o].pc \in Baking, OthersStay(o), op'[o].pc \in Baking \ {"render"},
             op'[o].next = op[o].next, op'[o].dir = op[o].dir,
             \/ UNCHANGED slot
             \/ \E p \in Paths, f \in Files :
                   /\ f.gen = site /\ f.stamp = op[o].next
                   /\ slot' = [slot EXCEPT ![op[o].dir][p] = f]
      PROVE  StoreInv' /\ Served' = Served
  <2>1. CASE UNCHANGED slot BY <1>2, <1>4, <1>6, <2>1, BakeStores
  <2>2. CASE \E p \in Paths, f \in Files :
                   /\ f.gen = site /\ f.stamp = op[o].next
                   /\ slot' = [slot EXCEPT ![op[o].dir][p] = f]
    <3>1. PICK p \in Paths, f \in Files :
                   /\ f.gen = site /\ f.stamp = op[o].next
                   /\ slot' = [slot EXCEPT ![op[o].dir][p] = f]
      BY <2>2
    <3>2. \A d \in Slots \ {op[o].dir} : slot'[d] = slot[d]
      BY <1>1, <1>4, <1>6, <3>1 DEF TypeOK
    <3>3. slot'[op[o].dir][p] = f /\ \A q \in Paths \ {p} : slot'[op[o].dir][q] = slot[op[o].dir][q]
      BY <1>1, <1>4, <1>6, <3>1 DEF TypeOK
    <3>4. \A q \in Paths : slot'[op[o].dir][q] # NoFile =>
              slot'[op[o].dir][q].gen = site /\ slot'[op[o].dir][q].stamp = op[o].next
      BY <1>4, <1>6, <3>1, <3>3
    <3>5. QED BY <1>2, <1>4, <1>6, <3>2, <3>4, BakeStores
  <2>3. QED BY <1>6, <2>1, <2>2
<1>7. CASE SiteBakeHome(o)
  <2>1. /\ op[o].pc = "home" /\ Goto(o, "list")
        /\ slot' = [slot EXCEPT ![op[o].dir][Home] = PageFile(o)] \/ UNCHANGED slot
    BY <1>7 DEF SiteBakeHome, At
  <2>2. /\ OthersStay(o) /\ op'[o].pc = "list" /\ op'[o].next = op[o].next
        /\ op'[o].dir = op[o].dir
    BY <2>1, GotoWrites DEF StoreInv
  <2>3. PageFile(o) \in Files /\ Home \in Paths BY <1>1, FilesTyped DEF Paths
  <2>4. PageFile(o).gen = site /\ PageFile(o).stamp = op[o].next BY DEF PageFile
  <2>5. QED BY <1>3, <1>6, <2>1, <2>2, <2>3, <2>4
<1>8. CASE SiteListRows(o)
  <2>1. op[o].pc = "list" /\ UNCHANGED slot BY <1>8 DEF SiteListRows, At
  <2>2. /\ OthersStay(o) /\ op'[o].pc = "rows" /\ op'[o].next = op[o].next
        /\ op'[o].dir = op[o].dir
    BY <1>8, SiteListRowsWrites DEF StoreInv
  <2>3. QED BY <1>3, <1>6, <2>1, <2>2
<1>9. CASE SiteReadRow(o)
  <2>1. op[o].pc = "rows" /\ UNCHANGED slot BY <1>9 DEF SiteReadRow, At
  <2>2. PICK p \in op[o].todo :
              /\ OthersStay(o) /\ op'[o].next = op[o].next /\ op'[o].dir = op[o].dir
              /\ \/ op'[o].pc = "rows"
                 \/ \E r \in PublishedAt(p) : op'[o].pc = "render" /\ op'[o].file = RowFile(o, r)
    BY <1>9, SiteReadRowWrites DEF StoreInv
  <2>3. CASE op'[o].pc = "rows" BY <1>3, <1>6, <2>1, <2>2, <2>3
  <2>4. CASE \E r \in PublishedAt(p) : op'[o].pc = "render" /\ op'[o].file = RowFile(o, r)
    <3>1. PICK r \in PublishedAt(p) : op'[o].pc = "render" /\ op'[o].file = RowFile(o, r)
      BY <2>4
    <3>2. RowFile(o, r) \in Files BY <1>1, <3>1, FilesTyped DEF PublishedAt
    <3>3. RowFile(o, r).gen = site /\ RowFile(o, r).stamp = op[o].next BY DEF RowFile
    <3>4. QED BY <1>2, <1>3, <1>4, <2>1, <2>2, <3>1, <3>2, <3>3, BakeStores
  <2>5. QED BY <2>2, <2>3, <2>4
<1>10. CASE SiteBakeRow(o)
  <2>1. /\ op[o].pc = "render"
        /\ slot' = [slot EXCEPT ![op[o].dir][op[o].path] = op[o].file] \/ UNCHANGED slot
    BY <1>10 DEF SiteBakeRow, At
  <2>2. /\ OthersStay(o) /\ op'[o].pc = "rows" /\ op'[o].next = op[o].next
        /\ op'[o].dir = op[o].dir
    BY <1>10, SiteBakeRowWrites DEF StoreInv
  <2>3. op[o].path \in Paths /\ op[o].file \in Files /\ op[o].file.gen = site
        /\ op[o].file.stamp = op[o].next
    BY <1>1, <2>1 DEF Local, StoreInv, WorkOK
  <2>4. QED BY <1>3, <1>6, <2>1, <2>2, <2>3
<1>11. CASE SiteAssets(o)
  <2>1. op[o].pc = "rows" /\ UNCHANGED slot /\ Goto(o, "swap") BY <1>11 DEF SiteAssets, At
  <2>2. /\ OthersStay(o) /\ op'[o].pc = "swap" /\ op'[o].next = op[o].next
        /\ op'[o].dir = op[o].dir
    BY <2>1, GotoWrites DEF StoreInv
  <2>3. QED BY <1>3, <1>6, <2>1, <2>2
<1>12. QED BY <1>5, <1>7, <1>8, <1>9, <1>10, <1>11

(* The swap puts a whole publication in the place of an older one. *)
LEMMA SwapMaps ==
    ASSUME StoreInv, IInv', NEW o \in Ops, SiteSwap(o)
    PROVE  StoreInv' /\ LS!Replace
<1>1. /\ op[o].pc = "swap" /\ current' = op[o].dir /\ Goto(o, "bump") /\ UNCHANGED <<site, slot>>
  BY DEF SiteSwap, At
<1>2. Holds(o) /\ op[o] \in Local /\ TypeOK /\ TypeOK' /\ site \in Nat
  BY <1>1 DEF StoreInv, IInv, TypeOK, ChainOK, Critical
<1>3. OthersStay(o) /\ op'[o].pc = "bump" BY <1>1, GotoWrites DEF StoreInv
<1>4. StoreInv'
  <2>1. NotNewer(slot', site') BY <1>1 DEF StoreInv
  <2>2. WorkOK(op'[o], site', slot', Served') BY <1>3, NoWork
  <2>3. QED BY <1>2, <1>3, <2>1, <2>2, WorkStep
<1>5. Served' = slot[op[o].dir] /\ Served' \in [Paths -> Files \cup {NoFile}]
  <2>1. op[o].dir \in Slots /\ op[o].dir # "none" BY <1>2 DEF Local, Slots
  <2>2. QED BY <1>1, <1>2, <2>1 DEF Served, TypeOK
<1>6. /\ \A p \in Paths : Served'[p] # NoFile => /\ Served'[p].gen = site
                                                 /\ Served'[p].stamp = op[o].next
      /\ \A p \in Paths : Served[p] # NoFile => Served[p].gen < site
  BY <1>1, <1>5 DEF StoreInv, WorkOK, Baking
<1>7. LS!Replace BY <1>5, <1>6 DEF LS!Replace, LS!Present
<1>8. QED BY <1>4, <1>7

(* One row's file is taken away, in the slot that visitors see or in the   *)
(* other one.                                                              *)
LEMMA RemovalMaps ==
    ASSUME TypeOK, NEW d \in Slots, NEW p \in RowPaths, UNCHANGED current,
           slot' = [slot EXCEPT ![d][p] = NoFile]
    PROVE  OnlyRemoves /\ (Served' = Served \/ LS!Drop(p))
<1>1. p \in Paths /\ p \in Paths \ {Home}
  BY PipelineAssumption DEF Paths, RowPaths
<1>2. slot'[d] = [slot[d] EXCEPT ![p] = NoFile] /\ \A e \in Slots \ {d} : slot'[e] = slot[e]
  BY DEF TypeOK
<1>3. OnlyRemoves BY <1>1, <1>2 DEF OnlyRemoves, TypeOK
<1>4. CASE current = d
  <2>1. Served = slot[d] /\ Served' = slot'[d] BY <1>4 DEF Served, Slots
  <2>2. QED BY <1>2, <1>3, <2>1 DEF LS!Drop
<1>5. CASE current # d BY <1>2, <1>3, <1>5 DEF Served, TypeOK
<1>6. QED BY <1>4, <1>5

LEMMA RemovalKeepsOld ==
    ASSUME StoreInv, UNCHANGED site, OnlyRemoves
    PROVE  NotNewer(slot', site')
  BY DEF StoreInv, NotNewer, OnlyRemoves

LiveStep == Served' = Served \/ LS!Next

LEMMA DropIsLive ==
    ASSUME NEW p \in RowPaths, Served' = Served \/ LS!Drop(p)
    PROVE  LiveStep
<1>1. p \in Paths \ {Home} BY PipelineAssumption DEF Paths, RowPaths
<1>2. QED BY <1>1 DEF LiveStep, LS!Next

LEMMA RowStores ==
    ASSUME StoreInv, IInv', NEW o \in Ops,
           RowPersist(o) \/ RowRoute(o) \/ RowRead(o) \/ RowLocate(o) \/ PruneResolve(o)
    PROVE  StoreInv' /\ UNCHANGED <<slot, current>>
<1>1. UNCHANGED <<site, slot, current>>
  BY DEF RowPersist, RowRoute, RowRead, RowLocate, PruneResolve
<1>2. /\ op[o] \in Local /\ row \in [Rows -> Row] /\ site \in Nat
      /\ LocalOK(op[o], version, current) /\ WorkOK(op[o], site, slot, Served) /\ IInv
  BY DEF StoreInv, IInv, TypeOK
<1>3. op[o].pc \in {"route", "resolve"} =>
        /\ op[o].row \in Rows
        /\ <<row[op[o].row].table, op[o].path[2]>> \in RowPaths
  <2> SUFFICES ASSUME op[o].pc \in {"route", "resolve"}
               PROVE  /\ op[o].row \in Rows
                      /\ <<row[op[o].row].table, op[o].path[2]>> \in RowPaths
    OBVIOUS
  <2>1. op[o].path \in RowPaths BY <1>2 DEF LocalOK
  <2>2. op[o].kind # "site"
    <3>1. CASE op[o].pc = "resolve" BY <1>2, <3>1 DEF LocalOK, Queued, Critical
    <3>2. CASE op[o].pc = "route" BY <3>2 DEF RowPersist, RowRoute, RowRead, RowLocate, PruneResolve, At
    <3>3. QED BY <3>1, <3>2
  <2>3. op[o].row \in Rows BY <1>2, <2>2 DEF LocalOK
  <2>4. row[op[o].row].table \in Tables BY <1>2, <2>3, PathsTyped
  <2>5. op[o].path[2] \in Slugs BY <2>1 DEF RowPaths
  <2>6. QED BY <2>3, <2>4, <2>5 DEF RowPaths
<1>4. CASE RowPersist(o)
  <2>1. OthersStay(o) /\ op'[o].pc = "route" /\ op'[o].todo = OldPath(row[op[o].row])
    BY <1>2, <1>4, RowPersistWrites
  <2>2. op[o].row \in Rows BY <1>2, <1>4 DEF RowPersist, At, LocalOK
  <2>3. OldPath(row[op[o].row]) = {} \/ \E p \in RowPaths : OldPath(row[op[o].row]) = {p}
    BY <1>2, <2>2, PathsTyped DEF OldPath
  <2>4. WorkOK(op'[o], site, slot, Served) BY <2>1, <2>3 DEF WorkOK, Baking
  <2>5. QED BY <1>1, <2>1, <2>4, AsideStep
<1>5. CASE RowRoute(o)
  <2>1. /\ OthersStay(o) /\ op'[o].pc = RouteNext(o) /\ op'[o].todo = op[o].todo
        /\ op'[o].path = <<row[op[o].row].table, op[o].path[2]>>
    BY <1>2, <1>5, RowRouteWrites
  <2>2. op[o].pc = "route" BY <1>5 DEF RowRoute, At
  <2>3. op'[o].pc \in {"bump", "read", "pruneOld"} BY <2>1 DEF RouteNext
  <2>4. op[o].todo = {} \/ \E p \in RowPaths : op[o].todo = {p} BY <1>2, <2>2 DEF WorkOK
  <2>5. WorkOK(op'[o], site, slot, Served) BY <1>3, <2>1, <2>2, <2>3, <2>4 DEF WorkOK, Baking
  <2>6. QED BY <1>1, <2>1, <2>5, AsideStep
<1>6. CASE RowRead(o)
  <2>1. op[o].pc = "read" /\ op[o].path \in RowPaths BY <1>2, <1>6 DEF RowRead, At, WorkOK
  <2>2. /\ OthersStay(o) /\ op'[o].path = op[o].path
        /\ \/ op'[o].pc = "bump"
           \/ \E r \in PublishedAt(op[o].path) : op'[o].pc = "locate" /\ op'[o].file = RowFile(o, r)
    BY <1>2, <1>6, RowReadWrites
  <2>3. CASE op'[o].pc = "bump" BY <1>1, <2>2, <2>3, RestStep
  <2>4. ASSUME NEW r \in PublishedAt(op[o].path), op'[o].pc = "locate", op'[o].file = RowFile(o, r)
        PROVE  WorkOK(op'[o], site, slot, Served)
    <3>1. RowFile(o, r) \in Files BY <1>2, FilesTyped DEF PublishedAt
    <3>2. RowFile(o, r).gen = site BY DEF RowFile
    <3>3. QED BY <2>1, <2>2, <2>4, <3>1, <3>2 DEF WorkOK, Baking
  <2>5. QED BY <1>1, <2>2, <2>3, <2>4, AsideStep
<1>7. CASE RowLocate(o)
  <2>1. op[o].pc = "locate" BY <1>7 DEF RowLocate, At
  <2>2. /\ OthersStay(o) /\ op'[o].pc = "write" /\ op'[o].path = op[o].path
        /\ op'[o].file = op[o].file
    BY <1>2, <1>7, RowLocateWrites
  <2>3. WorkOK(op'[o], site, slot, Served) BY <1>2, <2>1, <2>2 DEF WorkOK, Baking
  <2>4. QED BY <1>1, <2>2, <2>3, AsideStep
<1>8. CASE PruneResolve(o)
  <2>1. op[o].pc = "resolve" BY <1>8 DEF PruneResolve
  <2>2. /\ OthersStay(o) /\ op'[o].pc = "prune"
        /\ op'[o].path = <<row[op[o].row].table, op[o].path[2]>>
    BY <1>2, <1>8, PruneResolveWrites
  <2>3. WorkOK(op'[o], site, slot, Served) BY <1>3, <2>1, <2>2 DEF WorkOK, Baking
  <2>4. QED BY <1>1, <2>2, <2>3, AsideStep
<1>9. QED BY <1>1, <1>4, <1>5, <1>6, <1>7, <1>8

LEMMA RowPruneOldMaps ==
    ASSUME StoreInv, IInv', NEW o \in Ops, RowPruneOld(o)
    PROVE  StoreInv' /\ LiveStep
<1>1. op[o].pc = "pruneOld" /\ UNCHANGED <<site, current>> BY DEF RowPruneOld, At
<1>2. TypeOK /\ op[o].dir \in Slots /\ WorkOK(op[o], site, slot, Served) /\ IInv
  BY DEF StoreInv, IInv, TypeOK, Local
<1>3. /\ OthersStay(o) /\ op'[o].pc = "read" /\ op'[o].path = op[o].path
      /\ op[o].path \in RowPaths
  BY <1>1, <1>2, RowPruneOldWrites DEF WorkOK
<1>4. WorkOK(op'[o], site', slot', Served') BY <1>3 DEF WorkOK, Baking
<1>5. OnlyRemoves /\ LiveStep
  <2>1. CASE UNCHANGED slot BY <1>1, <2>1 DEF OnlyRemoves, LiveStep, Served
  <2>2. CASE slot' = [slot EXCEPT ![op[o].dir] =
                         [p \in Paths |-> IF p \in op[o].todo THEN NoFile ELSE @[p]]]
    <3> DEFINE kept == [p \in Paths |-> IF p \in op[o].todo THEN NoFile ELSE slot[op[o].dir][p]]
    <3>1. slot' = [slot EXCEPT ![op[o].dir] = kept] BY <2>2
    <3>2. CASE op[o].todo = {}
      <4>1. kept = slot[op[o].dir] BY <1>2, <3>2 DEF TypeOK
      <4> HIDE DEF kept
      <4>2. slot' = slot BY <1>2, <3>1, <4>1 DEF TypeOK
      <4>3. QED BY <2>1, <4>2
    <3>3. CASE \E p \in RowPaths : op[o].todo = {p}
      <4>1. PICK p \in RowPaths : op[o].todo = {p} BY <3>3
      <4>2. kept = [slot[op[o].dir] EXCEPT ![p] = NoFile] BY <1>2, <4>1 DEF TypeOK
      <4> HIDE DEF kept
      <4>3. slot' = [slot EXCEPT ![op[o].dir][p] = NoFile] BY <3>1, <4>2
      <4>4. QED BY <1>1, <1>2, <4>3, RemovalMaps, DropIsLive
    <3>4. QED BY <1>1, <1>2, <3>2, <3>3 DEF WorkOK
  <2>3. QED BY <2>1, <2>2 DEF RowPruneOld
<1>6. NotNewer(slot', site') BY <1>1, <1>5, RemovalKeepsOld
<1>7. QED BY <1>1, <1>3, <1>4, <1>5, <1>6, WorkStep

LEMMA PruneMaps ==
    ASSUME StoreInv, IInv', NEW o \in Ops, Prune(o)
    PROVE  StoreInv' /\ LiveStep
<1>1. op[o].pc = "prune" /\ UNCHANGED <<site, current>> BY DEF Prune
<1>2. /\ TypeOK /\ op[o].dir \in Slots /\ IInv /\ op[o].path \in RowPaths
  BY <1>1 DEF StoreInv, IInv, TypeOK, Local, WorkOK
<1>3. OthersStay(o) /\ op'[o].pc \in {"wait", "idle"}
  BY <1>2, GotoWrites, FinishWrites DEF Prune
<1>4. WorkOK(op'[o], site', slot', Served') BY <1>3, NoWork
<1>5. OnlyRemoves /\ LiveStep
  <2>1. CASE UNCHANGED slot BY <1>1, <2>1 DEF OnlyRemoves, LiveStep, Served
  <2>2. CASE slot' = [slot EXCEPT ![op[o].dir][op[o].path] = NoFile]
    BY <1>1, <1>2, <2>2, RemovalMaps, DropIsLive
  <2>3. QED BY <2>1, <2>2 DEF Prune
<1>6. NotNewer(slot', site') BY <1>1, <1>5, RemovalKeepsOld
<1>7. QED BY <1>1, <1>3, <1>4, <1>5, <1>6, WorkStep

(* The incremental write: without a link it writes where nobody looks.     *)
LEMMA RowWriteMaps ==
    ASSUME StoreInv, IInv', NEW o \in Ops, RowWrite(o)
    PROVE  StoreInv' /\ LiveStep
<1>1. /\ op[o].pc = "write" /\ UNCHANGED <<site, current>> /\ Goto(o, "bump")
      /\ slot' = [slot EXCEPT ![op[o].dir][op[o].path] = op[o].file]
  BY DEF RowWrite, At
<1>2. /\ TypeOK /\ IInv /\ op[o].dir \in Slots /\ site \in Nat
      /\ op[o].path \in RowPaths /\ op[o].file \in Files /\ op[o].file.gen = site
      /\ op[o].dir = IF current = "b" THEN "b" ELSE "a"
  BY <1>1 DEF StoreInv, IInv, TypeOK, Local, WorkOK, LocalOK
<1>3. Holds(o) /\ OthersStay(o) /\ op'[o].pc = "bump"
  BY <1>1, <1>2, GotoWrites DEF IInv, ChainOK, Critical
<1>4. op[o].path \in Paths \ {Home} /\ op[o].path \in Paths
  BY <1>2, PipelineAssumption DEF Paths, RowPaths
<1>5. /\ slot'[op[o].dir] = [slot[op[o].dir] EXCEPT ![op[o].path] = op[o].file]
      /\ \A d \in Slots \ {op[o].dir} : slot'[d] = slot[d]
  BY <1>1, <1>2 DEF TypeOK
<1>6. NotNewer(slot', site')
  <2>1. SUFFICES ASSUME NEW d \in Slots, NEW p \in Paths, slot'[d][p] # NoFile
                 PROVE  slot'[d][p].gen <= site
    BY <1>1 DEF NotNewer
  <2>2. CASE d = op[o].dir /\ p = op[o].path
    <3>1. slot'[d][p] = op[o].file BY <1>2, <1>4, <1>5, <2>2 DEF TypeOK
    <3>2. QED BY <1>2, <3>1
  <2>3. CASE d # op[o].dir \/ p # op[o].path
    <3>1. slot'[d][p] = slot[d][p] BY <1>2, <1>5, <2>1, <2>3 DEF TypeOK
    <3>2. QED BY <2>1, <3>1 DEF StoreInv, NotNewer
  <2>4. QED BY <2>2, <2>3
<1>7. StoreInv'
  <2>1. WorkOK(op'[o], site', slot', Served') BY <1>3, NoWork
  <2>2. QED BY <1>3, <1>6, <2>1, WorkStep
<1>8. LiveStep
  <2>1. CASE current = "none" BY <1>1, <2>1 DEF LiveStep, Served
  <2>2. CASE current \in Slots
    <3>1. current = op[o].dir /\ current # "none" BY <1>2, <2>2 DEF Slots
    <3>2. Served = slot[op[o].dir] /\ Served' = slot'[op[o].dir] BY <1>1, <3>1 DEF Served
    <3>3. Served'[op[o].path] = op[o].file BY <1>2, <1>4, <1>5, <3>2 DEF TypeOK
    <3>4. Served' = [Served EXCEPT ![op[o].path] = Served'[op[o].path]]
      BY <1>5, <3>2, <3>3
    <3>5. \A q \in Paths : Served[q] # NoFile => Served[q].gen <= Served'[op[o].path].gen
      BY <1>2, <3>2, <3>3 DEF StoreInv, NotNewer
    <3>6. LS!Put(op[o].path) BY <1>2, <3>3, <3>4, <3>5 DEF LS!Put, LS!Present
    <3>7. QED BY <1>4, <3>6 DEF LiveStep, LS!Next
  <2>3. QED BY <1>2, <2>1, <2>2 DEF TypeOK
<1>9. QED BY <1>7, <1>8

LEMMA StoreInit == Init => StoreInv
<1> SUFFICES ASSUME Init PROVE StoreInv OBVIOUS
<1>1. IInv BY InitOK
<1>2. NotNewer(slot, site) BY DEF Init, EmptySlot, NotNewer
<1>3. \A o \in Ops : op[o].pc = "idle" BY IdleOK DEF Init
<1>4. \A o \in Ops : WorkOK(op[o], site, slot, Served) BY <1>3, NoWork
<1>5. QED BY <1>1, <1>2, <1>4 DEF StoreInv

LEMMA StoreStep == ASSUME StoreInv, [Next]_vars PROVE StoreInv' /\ LiveStep
<1>1. IInv' BY StepOK DEF StoreInv
<1>2. ASSUME UNCHANGED <<slot, current>> PROVE LiveStep BY <1>2 DEF LiveStep, Served
<1>3. ASSUME NEW o \in Ops, Start(o) PROVE StoreInv' /\ LiveStep
  BY <1>1, <1>2, <1>3, StartStores
<1>4. ASSUME NEW o \in Ops, Site(o) PROVE StoreInv' /\ LiveStep
  <2>1. CASE SitePersistFails(o) \/ SiteBakeFails(o) BY <1>1, <1>2, <2>1, EndsStore
  <2>2. CASE SitePersist(o) BY <1>1, <1>2, <2>2, SitePersistStores
  <2>3. CASE SiteSwap(o) BY <1>1, <2>3, SwapMaps DEF LiveStep, LS!Next
  <2>4. CASE \/ SitePrepare(o) \/ SiteBakeHome(o) \/ SiteListRows(o) \/ SiteReadRow(o)
             \/ SiteBakeRow(o) \/ SiteAssets(o)
    BY <1>1, <2>4, SiteBakes DEF LiveStep
  <2>5. QED BY <1>4, <2>1, <2>2, <2>3, <2>4 DEF Site
<1>5. ASSUME NEW o \in Ops, RowPublish(o) PROVE StoreInv' /\ LiveStep
  <2>1. CASE RowPersistFails(o) \/ RowBakeFails(o) BY <1>1, <1>2, <2>1, EndsStore
  <2>2. CASE RowPersist(o) \/ RowRoute(o) \/ RowRead(o) \/ RowLocate(o)
    BY <1>1, <1>2, <2>2, RowStores
  <2>3. CASE RowPruneOld(o) BY <1>1, <2>3, RowPruneOldMaps
  <2>4. CASE RowWrite(o) BY <1>1, <2>4, RowWriteMaps
  <2>5. QED BY <1>5, <2>1, <2>2, <2>3, <2>4 DEF RowPublish
<1>6. ASSUME NEW o \in Ops, Retraction(o) PROVE StoreInv' /\ LiveStep
  <2>1. CASE MoveUpdate(o) \/ SerializedBump(o) \/ StatusReread(o)
    BY <1>1, <1>2, <2>1, EndsStore
  <2>2. CASE PruneResolve(o) BY <1>1, <1>2, <2>2, RowStores
  <2>3. CASE Prune(o) BY <1>1, <2>3, PruneMaps
  <2>4. QED BY <1>6, <2>1, <2>2, <2>3 DEF Retraction
<1>7. ASSUME NEW o \in Ops, Continue(o) PROVE StoreInv' /\ LiveStep
  <2>1. CASE PublishBump(o) BY <1>1, <1>2, <2>1, EndsStore
  <2>2. QED BY <1>4, <1>5, <1>6, <1>7, <2>1 DEF Continue
<1>8. CASE UNCHANGED <<site, slot, current, op>>
  <2>1. Served' = Served BY <1>8 DEF Served
  <2>2. QED BY <1>1, <1>2, <1>8, <2>1 DEF StoreInv
<1>9. CASE Crash
  <2>1. UNCHANGED <<site, slot, current>> /\ \A o \in Ops : op'[o].pc = "idle"
    BY <1>9, IdleOK DEF Crash
  <2>2. NotNewer(slot', site') BY <2>1 DEF StoreInv
  <2>3. \A o \in Ops : WorkOK(op'[o], site', slot', Served') BY <2>1, NoWork
  <2>4. QED BY <1>1, <1>2, <2>1, <2>2, <2>3 DEF StoreInv
<1>10. ASSUME NEW r \in Rows, Edit(r) \/ Schedule(r) PROVE StoreInv' /\ LiveStep
  BY <1>8, <1>10 DEF Edit, Schedule
<1>11. QED BY <1>3, <1>7, <1>8, <1>9, <1>10 DEF Next, vars

(* staticArtefact.ts, for any number of concurrent requests, with every    *)
(* failure and restart: what visitors are served changes by a full publish *)
(* that goes live as a whole (one snapshot, one stamp, newer than all it   *)
(* replaces), or by one row's file written or taken away.                  *)
THEOREM LiveSiteTheorem == Spec => LiveSiteSpec
<1>1. Init => LS!Init BY DEF Init, LS!Init, Served, EmptySlot
<1>2. StoreInv /\ [Next]_vars => StoreInv' BY StoreStep
<1>3. StoreInv /\ [Next]_vars => [LS!Next]_Served BY StoreStep DEF LiveStep
<1>4. QED BY <1>1, <1>2, <1>3, StoreInit, PTL DEF Spec, LiveSiteSpec, LS!Spec

-----------------------------------------------------------------------------
(* What is served once all is quiet.                                       *)

(* The rows with a status change that has not bumped yet *)
Retracting == {r \in Rows : \E o \in Ops : At(o, "status", "wait") /\ op[o].row = r}

(* File f shows row r, which was published when the file was rendered; if  *)
(* it is not any more, the request that retracted it is still waiting.     *)
Shows(f, r, rs, w) ==
    f.row = r /\ f.no = rs[r].active.no /\ (Visible(rs[r]) \/ r \in w)

(* What the work of a request says of its state, when rs is the table, s   *)
(* the slots and w the rows with a retraction that waits                   *)
FreshWork(l, rs, s, w) ==
    /\ l.pc \in {"route", "read"} =>
          /\ l.kind = "row" /\ l.path = DraftPath(rs[l.row]) /\ l.todo = {}
          /\ Visible(rs[l.row]) \/ l.row \in w
    /\ l.pc \in {"locate", "write"} =>
          /\ l.kind = "row" /\ l.path = DraftPath(rs[l.row])
          /\ Shows(l.file, l.row, rs, w)
    /\ l.pc = "render" => \E r \in Rows : l.path = DraftPath(rs[r]) /\ Shows(l.file, r, rs, w)
    /\ l.pc \in Baking =>
          \A r \in Rows : LET f == s[l.dir][DraftPath(rs[r])]
                          IN  f # NoFile => Shows(f, r, rs, w)
    /\ l.pc \in {"reread", "resolve", "prune"} => l.kind = "status"
    /\ l.pc \in {"resolve", "prune"} => l.path = DraftPath(rs[l.row])
    /\ l.pc # "pruneOld"

(* A request that will still replace or remove the file of row r, which is *)
(* served from slot a                                                      *)
Repairs(l, r, a) ==
    /\ l.row = r
    /\ \/ l.kind = "row" /\ l.pc \in {"route", "read", "locate", "write"}
       \/ l.kind = "status" /\ l.pc \in {"wait", "reread", "resolve"}
       \/ l.kind = "status" /\ l.pc = "prune" /\ l.dir = a

(* The file served for row r is its published version, or a request that   *)
(* will see to it is in progress.                                          *)
RowServed(r) ==
    LET f == Served[DraftPath(row[r])]
    IN  f # NoFile => \/ f.row = r /\ f.no = row[r].active.no /\ Visible(row[r])
                      \/ \E o \in Ops : Repairs(op[o], r, ActiveSlot)

(* No row is deleted, and every row keeps the slug it was created with. *)
PlainRows ==
    /\ \A r \in Rows : ~row[r].deleted /\ row[r].active.slug = row[r].slug
    /\ \A q, r \in Rows : row[q].slug = row[r].slug => q = r

(* A file lies at the path of a row. *)
FilesOfRows ==
    \A d \in Slots, p \in RowPaths :
        slot[d][p] # NoFile => \E r \in Rows : p = DraftPath(row[r])

HomeServed ==
    Served[Home] # NoFile => \/ Served[Home].gen = site
                             \/ \E o \in Ops : op[o].pc \in Baking \cup {"prepare"}

(* Nothing is baked and no link is set before there is a snapshot. *)
SiteFirst ==
    site = 0 => /\ current = "none"
                /\ \A o \in Ops : op[o].pc \notin Baking \cup {"prepare"}

(* The inductive invariant *)
FreshInv ==
    /\ StoreInv
    /\ PlainRows
    /\ SiteFirst
    /\ FilesOfRows
    /\ HomeServed
    /\ \A r \in Rows : RowServed(r)
    /\ \A o \in Ops : FreshWork(op[o], row, slot, Retracting)

(* The requests of the run `pipeline_freshness`: publishes and unpublishes, *)
(* none of which meets an error or a restart                                *)
Calm == Kinds \subseteq {"site", "row", "status"} /\ ~Failures /\ ~Crashes

(* The paths of the rows stay as they are. *)
SamePaths ==
    \A r \in Rows : /\ DraftPath(row'[r]) = DraftPath(row[r])
                    /\ row'[r].slug = row[r].slug /\ row'[r].deleted = row[r].deleted
                    /\ row'[r].active.slug = row[r].active.slug

(* No published version is replaced, and what stops being visible has its  *)
(* retraction waiting.                                                     *)
OnlyRetracts ==
    /\ Retracting \subseteq Retracting'
    /\ \A r \in Rows : /\ row'[r].active.no = row[r].active.no
                       /\ Visible(row[r]) => Visible(row'[r]) \/ r \in Retracting'

LEMMA PathsDiffer ==
    ASSUME FreshInv, NEW q \in Rows, NEW r \in Rows, DraftPath(row[q]) = DraftPath(row[r])
    PROVE  q = r
  BY DEF FreshInv, PlainRows, DraftPath

LEMMA PathsEqual ==
    ASSUME FreshInv, NEW r \in Rows
    PROVE  PublicPath(row[r]) = DraftPath(row[r]) /\ DraftPath(row[r]) \in RowPaths
             /\ DraftPath(row[r]) \in Paths
<1>1. row \in [Rows -> Row] BY DEF FreshInv, StoreInv, IInv, TypeOK
<1>2. QED BY <1>1, PathsTyped DEF FreshInv, PlainRows, DraftPath, PublicPath

LEMMA RetractingStays ==
    ASSUME NEW o \in Ops, OthersStay(o), ~At(o, "status", "wait")
    PROVE  Retracting \subseteq Retracting'
<1>1. SUFFICES ASSUME NEW r \in Rows, NEW q \in Ops, At(q, "status", "wait"), op[q].row = r
               PROVE  r \in Retracting'
  BY DEF Retracting
<1>2. q # o BY <1>1
<1>3. op'[q] = op[q] BY <1>2 DEF OthersStay
<1>4. QED BY <1>1, <1>3 DEF Retracting, At

LEMMA ShowsOn ==
    ASSUME OnlyRetracts, NEW r \in Rows, NEW f, Shows(f, r, row, Retracting)
    PROVE  Shows(f, r, row', Retracting')
  BY DEF OnlyRetracts, Shows

(* The work of the other requests *)
LEMMA OthersFresh ==
    ASSUME FreshInv, NEW o \in Ops, OthersStay(o), SamePaths,
           (OnlyRemoves /\ OnlyRetracts) \/ Holds(o),
           NEW q \in Ops \ {o}
    PROVE  FreshWork(op'[q], row', slot', Retracting')
<1>1. /\ op'[q] = op[q] /\ op[q] \in Local /\ FreshWork(op[q], row, slot, Retracting)
      /\ LocalOK(op[q], version, current)
  BY DEF OthersStay, FreshInv, StoreInv, IInv, TypeOK
<1>2. op[q].pc \in {"reread", "resolve", "prune"} => op[q].kind = "status" /\ op[q].row \in Rows
  BY <1>1 DEF FreshWork, LocalOK
<1>3. op[q].pc \in {"resolve", "prune"} => op[q].path = DraftPath(row'[op[q].row])
  BY <1>1, <1>2 DEF FreshWork, SamePaths
<1>4. CASE Holds(o)
  <2>1. op[q].pc \notin Critical BY <1>4 DEF FreshInv, StoreInv, IInv, ChainOK, Holds
  <2>2. "pruneOld" \in Critical BY DEF Critical
  <2>3. QED BY <1>1, <1>2, <1>3, <2>1, <2>2, WorkSites DEF FreshWork
<1>5. CASE OnlyRemoves /\ OnlyRetracts
  <2>1. op[q].pc \in {"route", "read", "locate", "write"} => op[q].kind = "row" /\ op[q].row \in Rows
    BY <1>1 DEF FreshWork, LocalOK
  <2>2. op[q].pc \in {"route", "read"} =>
          /\ op[q].kind = "row" /\ op[q].path = DraftPath(row'[op[q].row]) /\ op[q].todo = {}
          /\ Visible(row'[op[q].row]) \/ op[q].row \in Retracting'
    BY <1>1, <1>5, <2>1 DEF FreshWork, SamePaths, OnlyRetracts
  <2>3. op[q].pc \in {"locate", "write"} =>
          /\ op[q].kind = "row" /\ op[q].path = DraftPath(row'[op[q].row])
          /\ Shows(op[q].file, op[q].row, row', Retracting')
    BY <1>1, <1>5, <2>1, ShowsOn DEF FreshWork, SamePaths
  <2>4. op[q].pc = "render" =>
          \E r \in Rows : op[q].path = DraftPath(row'[r]) /\ Shows(op[q].file, r, row', Retracting')
    BY <1>1, <1>5, ShowsOn DEF FreshWork, SamePaths
  <2>5. ASSUME op[q].pc \in Baking, NEW r \in Rows,
               slot'[op[q].dir][DraftPath(row'[r])] # NoFile
        PROVE  Shows(slot'[op[q].dir][DraftPath(row'[r])], r, row', Retracting')
    <3>1. DraftPath(row'[r]) = DraftPath(row[r]) /\ DraftPath(row[r]) \in Paths
      BY PathsEqual DEF SamePaths
    <3>2. op[q].dir \in Slots BY <1>1 DEF Local
    <3>3. slot'[op[q].dir][DraftPath(row[r])] = slot[op[q].dir][DraftPath(row[r])]
      BY <1>5, <2>5, <3>1, <3>2 DEF OnlyRemoves
    <3>4. Shows(slot[op[q].dir][DraftPath(row[r])], r, row, Retracting)
      BY <1>1, <2>5, <3>1, <3>3 DEF FreshWork
    <3>5. QED BY <1>5, <3>1, <3>3, <3>4, ShowsOn
  <2>6. QED BY <1>1, <1>2, <1>3, <2>2, <2>3, <2>4, <2>5 DEF FreshWork
<1>6. QED BY <1>4, <1>5

LEMMA FreshStep ==
    ASSUME FreshInv, StoreInv', NEW o \in Ops, OthersStay(o), SamePaths,
           (OnlyRemoves /\ OnlyRetracts) \/ Holds(o),
           FreshWork(op'[o], row', slot', Retracting'),
           SiteFirst', FilesOfRows', HomeServed',
           \A r \in Rows : RowServed(r)'
    PROVE  FreshInv'
<1>1. PlainRows' BY DEF FreshInv, PlainRows, SamePaths
<1>2. \A q \in Ops : FreshWork(op'[q], row', slot', Retracting') BY OthersFresh
<1>3. QED BY <1>1, <1>2 DEF FreshInv

(* What is served for a row stays right when its file stays, when the row  *)
(* stays or gets a request that will see to it, and when the request that  *)
(* moves was not needed for it or still will see to it.                    *)
LEMMA StillServed ==
    ASSUME FreshInv, NEW o \in Ops, OthersStay(o), SamePaths, UNCHANGED current,
           NEW r \in Rows,
           Served'[DraftPath(row[r])] = Served[DraftPath(row[r])],
           row'[r] = row[r] \/ Repairs(op'[o], r, ActiveSlot),
           Repairs(op[o], r, ActiveSlot) => Repairs(op'[o], r, ActiveSlot)
    PROVE  RowServed(r)'
<1> DEFINE f == Served[DraftPath(row[r])]
<1>1. ActiveSlot' = ActiveSlot BY DEF ActiveSlot
<1>2. Served'[DraftPath(row'[r])] = f BY DEF SamePaths
<1>3. SUFFICES ASSUME f # NoFile
               PROVE  \/ f.row = r /\ f.no = row'[r].active.no /\ Visible(row'[r])
                      \/ \E q \in Ops : Repairs(op'[q], r, ActiveSlot)
  BY <1>1, <1>2 DEF RowServed
<1>4. CASE \E q \in Ops : Repairs(op[q], r, ActiveSlot)
  <2>1. PICK q \in Ops : Repairs(op[q], r, ActiveSlot) BY <1>4
  <2>2. CASE q = o BY <2>1, <2>2
  <2>3. CASE q # o
    <3>1. op'[q] = op[q] BY <2>3 DEF OthersStay
    <3>2. QED BY <2>1, <3>1
  <2>4. QED BY <2>2, <2>3
<1>5. CASE f.row = r /\ f.no = row[r].active.no /\ Visible(row[r]) BY <1>5
<1>6. QED BY <1>3, <1>4, <1>5 DEF FreshInv, RowServed

LEMMA ServesNothing ==
    ASSUME FreshInv, NEW r \in Rows, SamePaths, Served'[DraftPath(row[r])] = NoFile
    PROVE  RowServed(r)'
  BY DEF RowServed, SamePaths

LEMMA HomeStays ==
    ASSUME FreshInv, NEW o \in Ops, OthersStay(o), UNCHANGED site, Served'[Home] = Served[Home],
           op[o].pc \in Baking \cup {"prepare"} => op'[o].pc \in Baking \cup {"prepare"}
    PROVE  HomeServed'
<1>1. SUFFICES ASSUME Served[Home] # NoFile, Served[Home].gen # site
               PROVE  \E q \in Ops : op'[q].pc \in Baking \cup {"prepare"}
  BY DEF HomeServed
<1>2. PICK q \in Ops : op[q].pc \in Baking \cup {"prepare"} BY <1>1 DEF FreshInv, HomeServed
<1>3. CASE q = o BY <1>2, <1>3
<1>4. CASE q # o
  <2>1. op'[q] = op[q] BY <1>4 DEF OthersStay
  <2>2. QED BY <1>2, <2>1
<1>5. QED BY <1>3, <1>4

(* A step that touches neither the table, nor the slots, nor the link *)
LEMMA FreshAside ==
    ASSUME FreshInv, StoreInv', NEW o \in Ops, OthersStay(o), UNCHANGED <<row, site, slot, current>>,
           ~At(o, "status", "wait") \/ Holds(o),
           FreshWork(op'[o], row, slot, Retracting'),
           op[o].pc \notin Baking \cup {"prepare"}, op'[o].pc \notin Baking \cup {"prepare"},
           \A r \in Rows : \/ RowServed(r)'
                           \/ Repairs(op[o], r, ActiveSlot) => Repairs(op'[o], r, ActiveSlot)
    PROVE  FreshInv'
<1>1. SamePaths /\ OnlyRemoves BY DEF SamePaths, OnlyRemoves
<1>2. Served' = Served BY DEF Served
<1>3. OnlyRetracts \/ Holds(o) BY RetractingStays DEF OnlyRetracts
<1>4. FilesOfRows' /\ SiteFirst' BY DEF FreshInv, FilesOfRows, SiteFirst, OthersStay
<1>5. HomeServed' BY <1>2, HomeStays
<1>6. \A r \in Rows : RowServed(r)' BY <1>1, <1>2, StillServed
<1>7. QED BY <1>1, <1>3, <1>4, <1>5, <1>6, FreshStep

LEMMA FreshFacts ==
    ASSUME FreshInv, NEW o \in Ops
    PROVE  /\ IInv /\ TypeOK /\ op[o] \in Local /\ row \in [Rows -> Row] /\ site \in Nat
           /\ LocalOK(op[o], version, current) /\ WorkOK(op[o], site, slot, Served)
           /\ FreshWork(op[o], row, slot, Retracting)
           /\ op[o].pc \in Critical => Holds(o)
           /\ op[o].pc # "idle" /\ op[o].kind # "site" => op[o].row \in Rows
  BY DEF FreshInv, StoreInv, IInv, TypeOK, ChainOK, LocalOK

(* A request that is waiting, and has only its bump or nothing left to do  *)
LEMMA NoFreshWork ==
    ASSUME NEW l, l.pc \in {"idle", "wait", "prepare", "bump"}, NEW rs, NEW s, NEW w
    PROVE  FreshWork(l, rs, s, w)
  BY DEF FreshWork, Baking

LEMMA StartFresh ==
    ASSUME Calm, FreshInv, StoreInv', NEW o \in Ops, Start(o)
    PROVE  FreshInv'
<1>1. op[o].pc = "idle" /\ UNCHANGED <<site, slot, current>>
  BY DEF Start, SiteStart, RowStart, StatusUpdate, DeleteUpdate, PluginDelete, MoveLoad
<1>2. /\ ~At(o, "status", "wait") /\ op[o].pc \notin Baking \cup {"prepare"}
      /\ \A r \in Rows : ~Repairs(op[o], r, ActiveSlot)
  BY <1>1 DEF At, Baking, Repairs
<1>3. ASSUME NEW k, NEW r, Step(o, Started(k, r, "wait")), UNCHANGED row PROVE FreshInv'
  <2>1. OthersStay(o) /\ op'[o].pc = "wait" BY <1>3, FreshFacts, StartedIs, StepWrites
  <2>2. FreshWork(op'[o], row, slot, Retracting') BY <2>1, NoFreshWork
  <2>3. op'[o].pc \notin Baking \cup {"prepare"} BY <2>1 DEF Baking
  <2>4. QED BY <1>1, <1>2, <1>3, <2>1, <2>2, <2>3, FreshAside
<1>4. ASSUME NEW r \in Rows, StatusUpdate(o, r) PROVE FreshInv'
  <2>1. /\ OthersStay(o) /\ op'[o].pc = "wait" /\ op'[o].kind = "status" /\ op'[o].row = r
      BY <1>4, FreshFacts, StatusUpdateWrites
  <2>2. PICK s \in {"draft", "unpublished"} : row' = [row EXCEPT ![r] = Retracted(@, s)]
    BY <1>4 DEF StatusUpdate
  <2>3. row'[r] = Retracted(row[r], s) /\ \A q \in Rows \ {r} : row'[q] = row[q]
    BY <2>2, FreshFacts
  <2>4. LET d == Retracted(row[r], s)
        IN  /\ d.slug = row[r].slug /\ d.table = row[r].table /\ d.deleted = row[r].deleted
            /\ d.active = row[r].active
    <3>1. row[r] \in Row BY FreshFacts
    <3>2. QED BY <3>1 DEF Retracted, Row
  <2>5. SamePaths BY <2>3, <2>4 DEF SamePaths, DraftPath
  <2>6. r \in Retracting' BY <2>1 DEF Retracting, At
  <2>7. OnlyRetracts
    <3>1. \A q \in Rows : row'[q].active.no = row[q].active.no BY <2>3, <2>4
    <3>2. QED BY <1>2, <2>1, <2>3, <2>6, <3>1, RetractingStays DEF OnlyRetracts
  <2>8. OnlyRemoves /\ Served' = Served BY <1>1 DEF OnlyRemoves, Served
  <2>9. FreshWork(op'[o], row', slot', Retracting') BY <2>1, NoFreshWork
  <2>10. FilesOfRows' /\ SiteFirst'
    <3>1. op'[o].pc \notin Baking \cup {"prepare"} BY <2>1 DEF Baking
    <3>2. QED BY <1>1, <2>1, <2>5, <3>1 DEF FreshInv, FilesOfRows, SamePaths, SiteFirst, OthersStay
  <2>11. HomeServed' BY <1>1, <1>2, <2>1, <2>8, HomeStays
  <2>12. Repairs(op'[o], r, ActiveSlot) BY <2>1 DEF Repairs
  <2>13. \A q \in Rows : RowServed(q)'
    BY <1>1, <1>2, <2>1, <2>3, <2>5, <2>8, <2>12, StillServed
  <2>14. QED BY <2>1, <2>5, <2>7, <2>8, <2>9, <2>10, <2>11, <2>13, FreshStep
<1>5. CASE SiteStart(o) BY <1>3, <1>5 DEF SiteStart
<1>6. ASSUME NEW r \in Rows, RowStart(o, r) PROVE FreshInv' BY <1>3, <1>6 DEF RowStart
<1>7. ASSUME NEW r \in Rows PROVE ~DeleteUpdate(o, r) /\ ~PluginDelete(o, r) /\ ~MoveLoad(o, r)
  BY DEF Calm, DeleteUpdate, PluginDelete, MoveLoad
<1>8. QED BY <1>4, <1>5, <1>6, <1>7 DEF Start

(* What never happens in a calm system *)
LEMMA NothingFails ==
    ASSUME Calm, FreshInv, NEW o \in Ops
    PROVE  /\ ~SitePersistFails(o) /\ ~SiteBakeFails(o) /\ ~RowPersistFails(o) /\ ~RowBakeFails(o)
           /\ ~RowPruneOld(o) /\ ~MoveUpdate(o)
<1>1. op[o].kind \in {"site", "row", "status", "none"} BY FreshFacts DEF Local, Calm
<1>2. ~SitePersistFails(o) /\ ~SiteBakeFails(o) /\ ~RowBakeFails(o) /\ ~MoveUpdate(o)
  BY <1>1 DEF Calm, SitePersistFails, SiteBakeFails, RowBakeFails, MoveUpdate, At
<1>3. ~RowPruneOld(o)
  <2>1. op[o].pc # "pruneOld" BY FreshFacts DEF FreshWork
  <2>2. QED BY <2>1 DEF RowPruneOld, At
<1>4. ~RowPersistFails(o)
  <2>1. At(o, "row", "wait") => op[o].row \in Rows BY FreshFacts DEF At
  <2>2. QED BY <2>1 DEF RowPersistFails, FreshInv, PlainRows, Calm
<1>5. QED BY <1>2, <1>3, <1>4

(* The publish of the site: nobody else is between commit and bump, and    *)
(* what the other slot gets was published when it was rendered.            *)
LEMMA SitePersistFresh ==
    ASSUME FreshInv, StoreInv', NEW o \in Ops, SitePersist(o)
    PROVE  FreshInv'
<1>1. /\ op[o].kind = "site" /\ Holds(o) /\ UNCHANGED <<row, slot, current>> /\ site' = site + 1
  BY DEF SitePersist, At
<1>2. OthersStay(o) /\ op'[o].pc = "prepare" BY FreshFacts, SitePersistWrites
<1>3. SamePaths /\ Served' = Served BY <1>1 DEF SamePaths, Served
<1>4. FreshWork(op'[o], row', slot', Retracting') BY <1>2, NoFreshWork
<1>5. SiteFirst' /\ FilesOfRows'
  <2>1. site' # 0 BY <1>1, FreshFacts
  <2>2. QED BY <1>1, <2>1 DEF FreshInv, FilesOfRows, SiteFirst
<1>6. HomeServed' BY <1>2 DEF HomeServed
<1>7. \A r \in Rows : ~Repairs(op[o], r, ActiveSlot) BY <1>1 DEF Repairs
<1>8. \A r \in Rows : RowServed(r)' BY <1>1, <1>2, <1>3, <1>7, StillServed
<1>9. QED BY <1>1, <1>2, <1>3, <1>4, <1>5, <1>6, <1>8, FreshStep

LEMMA BakeFresh ==
    ASSUME FreshInv, StoreInv', NEW o \in Ops, op[o].kind = "site", Holds(o), OthersStay(o),
           UNCHANGED <<row, site, current>>, Served' = Served,
           op[o].pc \in Baking \cup {"prepare"}, op'[o].pc \in Baking, FilesOfRows',
           FreshWork(op'[o], row, slot', Retracting)
    PROVE  FreshInv'
<1>1. SamePaths BY DEF SamePaths
<1>2. Retracting \subseteq Retracting' BY RetractingStays DEF At
<1>3. FreshWork(op'[o], row', slot', Retracting')
  <2>1. \A r \in Rows : \A f : Shows(f, r, row, Retracting) => Shows(f, r, row, Retracting')
    BY <1>2 DEF Shows
  <2>2. op'[o].pc \notin {"route", "read", "locate", "write"} BY DEF Baking
  <2>3. QED BY <2>1, <2>2 DEF FreshWork
<1>4. HomeServed' BY HomeStays
<1>5. \A r \in Rows : ~Repairs(op[o], r, ActiveSlot) BY DEF Repairs
<1>6. \A r \in Rows : RowServed(r)' BY <1>1, <1>5, StillServed
<1>7. SiteFirst' BY DEF FreshInv, SiteFirst
<1>8. QED BY <1>1, <1>3, <1>4, <1>6, <1>7, FreshStep

LEMMA SiteFresh ==
    ASSUME FreshInv, StoreInv', NEW o \in Ops,
           \/ SitePrepare(o) \/ SiteBakeHome(o) \/ SiteListRows(o) \/ SiteReadRow(o)
           \/ SiteBakeRow(o) \/ SiteAssets(o)
    PROVE  FreshInv'
<1>1. Served' = Served BY SiteBakes DEF FreshInv, StoreInv
<1>2. UNCHANGED <<row, site, current>> /\ op[o].kind = "site"
  BY DEF SitePrepare, SiteBakeHome, SiteListRows, SiteReadRow, SiteBakeRow, SiteAssets, At
<1>3. op[o].pc \in Baking \cup {"prepare"}
  BY DEF SitePrepare, SiteBakeHome, SiteListRows, SiteReadRow, SiteBakeRow, SiteAssets, At, Baking
<1>4. Holds(o) BY <1>3, WorkSites, FreshFacts
<1>5. {"home", "list", "rows", "render", "swap"} = Baking BY DEF Baking
<1>6. TypeOK /\ op[o] \in Local /\ FreshWork(op[o], row, slot, Retracting) BY FreshFacts
<1>7. op[o].dir \in Slots BY <1>6 DEF Local
<1>8. CASE SitePrepare(o)
  <2>1. OthersStay(o) /\ op'[o].pc = "home" /\ op'[o].dir = InactiveSlot
    BY <1>8, FreshFacts, SitePrepareWrites
  <2>2. slot' = [slot EXCEPT ![InactiveSlot] = EmptySlot] BY <1>8 DEF SitePrepare
  <2>3. slot'[InactiveSlot] = EmptySlot /\ \A d \in Slots \ {InactiveSlot} : slot'[d] = slot[d]
    BY <1>6, <2>2, SlotsTyped DEF TypeOK
  <2>4. \A p \in Paths : slot'[InactiveSlot][p] = NoFile BY <2>3 DEF EmptySlot
  <2>5. FilesOfRows'
    <3>1. RowPaths \subseteq Paths BY DEF Paths
    <3>2. QED BY <1>2, <2>3, <2>4, <3>1 DEF FreshInv, FilesOfRows
  <2>6. \A r \in Rows : slot'[op'[o].dir][DraftPath(row[r])] = NoFile
    BY <2>1, <2>4, PathsEqual
  <2>7. FreshWork(op'[o], row, slot', Retracting) BY <2>1, <2>6 DEF FreshWork
  <2>8. QED BY <1>1, <1>2, <1>3, <1>4, <1>5, <2>1, <2>5, <2>7, BakeFresh
<1>9. ASSUME op[o].pc \in Baking, UNCHANGED slot, OthersStay(o), op'[o].dir = op[o].dir,
             op'[o].pc \in Baking,
             op'[o].pc = "render" =>
                \E r \in Rows : op'[o].path = DraftPath(row[r])
                                  /\ Shows(op'[o].file, r, row, Retracting)
      PROVE  FreshInv'
  <2>1. FilesOfRows' BY <1>2, <1>9 DEF FreshInv, FilesOfRows
  <2>2. FreshWork(op'[o], row, slot', Retracting) BY <1>6, <1>9 DEF FreshWork, Baking
  <2>3. QED BY <1>1, <1>2, <1>3, <1>4, <1>9, <2>1, <2>2, BakeFresh
<1>10. CASE SiteBakeHome(o)
  <2>1. /\ op[o].pc = "home" /\ Goto(o, "list")
        /\ slot' = [slot EXCEPT ![op[o].dir][Home] = PageFile(o)] \/ UNCHANGED slot
    BY <1>10 DEF SiteBakeHome, At
  <2>2. OthersStay(o) /\ op'[o].pc = "list" /\ op'[o].dir = op[o].dir
    BY <2>1, FreshFacts, GotoWrites
  <2>3. CASE UNCHANGED slot BY <1>5, <1>9, <2>1, <2>2, <2>3
  <2>4. CASE slot' = [slot EXCEPT ![op[o].dir][Home] = PageFile(o)]
    <3>1. \A d \in Slots, p \in RowPaths : slot'[d][p] = slot[d][p]
      <4>1. \A p \in RowPaths : p \in Paths /\ p # Home
        BY PipelineAssumption DEF Paths, RowPaths
      <4>2. QED BY <1>6, <1>7, <2>4, <4>1 DEF TypeOK
    <3>2. FilesOfRows' BY <1>2, <3>1 DEF FreshInv, FilesOfRows
    <3>3. \A r \in Rows : slot'[op[o].dir][DraftPath(row[r])] = slot[op[o].dir][DraftPath(row[r])]
      BY <1>7, <3>1, PathsEqual
    <3>4. FreshWork(op'[o], row, slot', Retracting)
      BY <1>5, <1>6, <2>1, <2>2, <3>3 DEF FreshWork
    <3>5. QED BY <1>1, <1>2, <1>3, <1>4, <1>5, <2>2, <3>2, <3>4, BakeFresh
  <2>5. QED BY <2>1, <2>3, <2>4
<1>11. CASE SiteListRows(o)
  <2>1. op[o].pc = "list" /\ UNCHANGED slot BY <1>11 DEF SiteListRows, At
  <2>2. OthersStay(o) /\ op'[o].pc = "rows" /\ op'[o].dir = op[o].dir
    BY <1>11, FreshFacts, SiteListRowsWrites
  <2>3. QED BY <1>5, <1>9, <2>1, <2>2
<1>12. CASE SiteReadRow(o)
  <2>1. op[o].pc = "rows" /\ UNCHANGED slot BY <1>12 DEF SiteReadRow, At
  <2>2. PICK p \in op[o].todo :
              /\ OthersStay(o) /\ op'[o].dir = op[o].dir
              /\ \/ op'[o].pc = "rows"
                 \/ \E r \in PublishedAt(p) :
                       op'[o].pc = "render" /\ op'[o].path = p /\ op'[o].file = RowFile(o, r)
    BY <1>12, FreshFacts, SiteReadRowWrites
  <2>3. CASE op'[o].pc = "rows" BY <1>5, <1>9, <2>1, <2>2, <2>3
  <2>4. ASSUME NEW r \in PublishedAt(p), op'[o].pc = "render", op'[o].path = p,
               op'[o].file = RowFile(o, r)
        PROVE  FreshInv'
    <3>1. r \in Rows /\ Visible(row[r]) /\ PublicPath(row[r]) = p BY <2>4 DEF PublishedAt
    <3>2. p = DraftPath(row[r]) BY <3>1, PathsEqual
    <3>3. Shows(RowFile(o, r), r, row, Retracting) BY <3>1 DEF Shows, RowFile
    <3>4. QED BY <1>5, <1>9, <2>1, <2>2, <2>4, <3>1, <3>2, <3>3
  <2>5. QED BY <2>2, <2>3, <2>4
<1>13. CASE SiteAssets(o)
  <2>1. op[o].pc = "rows" /\ UNCHANGED slot /\ Goto(o, "swap") BY <1>13 DEF SiteAssets, At
  <2>2. OthersStay(o) /\ op'[o].pc = "swap" /\ op'[o].dir = op[o].dir
    BY <2>1, FreshFacts, GotoWrites
  <2>3. QED BY <1>5, <1>9, <2>1, <2>2
<1>14. CASE SiteBakeRow(o)
  <2>1. /\ op[o].pc = "render"
        /\ slot' = [slot EXCEPT ![op[o].dir][op[o].path] = op[o].file] \/ UNCHANGED slot
    BY <1>14 DEF SiteBakeRow, At
  <2>2. OthersStay(o) /\ op'[o].pc = "rows" /\ op'[o].dir = op[o].dir
    BY <1>14, FreshFacts, SiteBakeRowWrites
  <2>3. CASE UNCHANGED slot BY <1>5, <1>9, <2>1, <2>2, <2>3
  <2>4. CASE slot' = [slot EXCEPT ![op[o].dir][op[o].path] = op[o].file]
    <3>1. PICK r \in Rows : op[o].path = DraftPath(row[r]) /\ Shows(op[o].file, r, row, Retracting)
      BY <1>6, <2>1 DEF FreshWork
    <3>2. /\ \A d \in Slots, p \in Paths :
                d # op[o].dir \/ p # DraftPath(row[r]) => slot'[d][p] = slot[d][p]
          /\ slot'[op[o].dir][DraftPath(row[r])] = op[o].file
      BY <1>6, <1>7, <2>4, <3>1, PathsEqual DEF TypeOK
    <3>3. FilesOfRows'
      <4>1. RowPaths \subseteq Paths BY DEF Paths
      <4>2. QED BY <1>2, <3>2, <4>1 DEF FreshInv, FilesOfRows
    <3>4. ASSUME NEW q \in Rows, slot'[op[o].dir][DraftPath(row[q])] # NoFile
          PROVE  Shows(slot'[op[o].dir][DraftPath(row[q])], q, row, Retracting)
      <4>1. CASE q = r BY <3>1, <3>2, <4>1
      <4>2. CASE q # r
        <5>1. DraftPath(row[q]) # DraftPath(row[r]) BY <4>2, PathsDiffer
        <5>2. DraftPath(row[q]) \in Paths BY PathsEqual
        <5>3. slot'[op[o].dir][DraftPath(row[q])] = slot[op[o].dir][DraftPath(row[q])]
          BY <1>7, <3>2, <5>1, <5>2
        <5>4. QED BY <1>5, <1>6, <2>1, <3>4, <5>3 DEF FreshWork
      <4>3. QED BY <4>1, <4>2
    <3>5. FreshWork(op'[o], row, slot', Retracting) BY <2>2, <3>4 DEF FreshWork
    <3>6. QED BY <1>1, <1>2, <1>3, <1>4, <1>5, <2>2, <3>3, <3>5, BakeFresh
  <2>5. QED BY <2>1, <2>3, <2>4
<1>15. QED BY <1>8, <1>10, <1>11, <1>12, <1>13, <1>14

(* The swap brings up files that all show what is published now, or what a *)
(* waiting retraction will remove.                                         *)
LEMMA SwapFresh ==
    ASSUME FreshInv, StoreInv', NEW o \in Ops, SiteSwap(o)
    PROVE  FreshInv'
<1>1. /\ op[o].pc = "swap" /\ op[o].kind = "site" /\ current' = op[o].dir /\ Goto(o, "bump")
      /\ UNCHANGED <<row, site, slot>>
  BY DEF SiteSwap, At
<1>2. /\ Holds(o) /\ TypeOK /\ op[o] \in Local /\ site \in Nat
      /\ FreshWork(op[o], row, slot, Retracting) /\ WorkOK(op[o], site, slot, Served)
  BY <1>1, FreshFacts DEF Critical
<1>3. op[o].dir \in Slots /\ op[o].dir # "none" BY <1>2 DEF Local, Slots
<1>4. OthersStay(o) /\ op'[o].pc = "bump" BY <1>1, FreshFacts, GotoWrites
<1>5. SamePaths BY <1>1 DEF SamePaths
<1>6. Served' = slot[op[o].dir] BY <1>1, <1>3 DEF Served
<1>7. FreshWork(op'[o], row', slot', Retracting') BY <1>4, NoFreshWork
<1>8. SiteFirst'
  <2>1. site # 0 BY <1>1 DEF FreshInv, SiteFirst, Baking
  <2>2. QED BY <1>1, <2>1 DEF SiteFirst
<1>9. HomeServed'
  <2>1. Home \in Paths BY DEF Paths
  <2>2. Served'[Home] # NoFile => Served'[Home].gen = site
    BY <1>1, <1>2, <1>6, <2>1 DEF WorkOK, Baking
  <2>3. QED BY <1>1, <2>2 DEF HomeServed
<1>10. ASSUME NEW r \in Rows PROVE RowServed(r)'
  <2> DEFINE f == slot[op[o].dir][DraftPath(row[r])]
  <2>1. Served'[DraftPath(row'[r])] = f BY <1>1, <1>6
  <2>2. f # NoFile => Shows(f, r, row, Retracting) BY <1>1, <1>2 DEF FreshWork, Baking
  <2>3. r \in Retracting => \E q \in Ops : Repairs(op'[q], r, ActiveSlot')
    <3>1. SUFFICES ASSUME NEW q \in Ops, At(q, "status", "wait"), op[q].row = r
                   PROVE  \E p \in Ops : Repairs(op'[p], r, ActiveSlot')
      BY DEF Retracting
    <3>2. op'[q] = op[q] BY <1>1, <1>4, <3>1 DEF At, OthersStay
    <3>3. QED BY <3>1, <3>2 DEF Repairs, At
  <2>4. QED BY <1>1, <2>1, <2>2, <2>3 DEF RowServed, Shows
<1>11. FilesOfRows' BY <1>1 DEF FreshInv, FilesOfRows
<1>12. QED BY <1>1, <1>2, <1>4, <1>5, <1>7, <1>8, <1>9, <1>10, <1>11, FreshStep

(* The publish of a row: until its bump it sees to the row's file.         *)
LEMMA RowPersistFresh ==
    ASSUME FreshInv, StoreInv', NEW o \in Ops, RowPersist(o)
    PROVE  FreshInv'
<1> DEFINE r == op[o].row
<1>1. /\ op[o].kind = "row" /\ op[o].pc = "wait" /\ Holds(o)
      /\ row' = [row EXCEPT ![r] = Persisted(@)] /\ UNCHANGED <<site, slot, current>>
  BY DEF RowPersist, At
<1>2. r \in Rows /\ row[r] \in Row BY <1>1, FreshFacts
<1>3. row'[r] = Persisted(row[r]) /\ \A q \in Rows \ {r} : row'[q] = row[q]
  BY <1>1, <1>2, FreshFacts
<1>4. ~row[r].deleted /\ row[r].active.slug = row[r].slug BY <1>2 DEF FreshInv, PlainRows
<1>5. LET d == Persisted(row[r])
      IN  /\ d.slug = row[r].slug /\ d.table = row[r].table /\ d.deleted = row[r].deleted
          /\ d.active.slug = row[r].slug /\ Visible(d)
  <2> DEFINE a == [no |-> row[r].active.no + 1, slug |-> row[r].slug]
             d == [row[r] EXCEPT !.status = "published", !.active = a]
  <2>1. row[r].active.no \in Nat BY <1>2 DEF Row
  <2>2. a.no > 0 /\ a.slug = row[r].slug BY <2>1
  <2> HIDE DEF a
  <2>3. /\ d.slug = row[r].slug /\ d.table = row[r].table /\ d.deleted = row[r].deleted
        /\ d.active = a /\ d.status = "published"
    BY <1>2 DEF Row
  <2>4. d = Persisted(row[r]) BY DEF a, Persisted
  <2> HIDE DEF d
  <2>5. Visible(d) /\ d.active.slug = row[r].slug BY <1>4, <2>2, <2>3 DEF Visible
  <2>6. QED BY <2>3, <2>4, <2>5
<1>6. SamePaths BY <1>2, <1>3, <1>4, <1>5 DEF SamePaths, DraftPath
<1>7. /\ OthersStay(o) /\ op'[o].pc = "route" /\ op'[o].kind = "row" /\ op'[o].row = r
      /\ op'[o].path = DraftPath(row[r]) /\ op'[o].todo = OldPath(row[r])
  <2>1. RowPersist(o) OBVIOUS
  <2> HIDE DEF r
  <2>2. QED BY <1>1, <2>1, FreshFacts, RowPersistWrites DEF r
<1> HIDE DEF r
<1>8. OldPath(row[r]) = {} BY <1>2, PathsEqual DEF OldPath
<1>9. FreshWork(op'[o], row', slot', Retracting')
  BY <1>2, <1>3, <1>5, <1>6, <1>7, <1>8 DEF FreshWork, Baking, SamePaths
<1>10. Served' = Served BY <1>1 DEF Served
<1>11. op[o].pc \notin Baking \cup {"prepare"} /\ op'[o].pc \notin Baking \cup {"prepare"}
  BY <1>1, <1>7 DEF Baking
<1>12. FilesOfRows' /\ SiteFirst'
  BY <1>1, <1>6, <1>7, <1>11 DEF FreshInv, FilesOfRows, SiteFirst, SamePaths, OthersStay
<1>13. HomeServed' BY <1>1, <1>7, <1>10, <1>11, HomeStays
<1>14. Repairs(op'[o], r, ActiveSlot) BY <1>7 DEF Repairs
<1>15. \A q \in Rows : ~Repairs(op[o], q, ActiveSlot) BY <1>1 DEF Repairs
<1>16. \A q \in Rows : RowServed(q)'
  BY <1>1, <1>3, <1>6, <1>7, <1>10, <1>14, <1>15, StillServed
<1>17. QED BY <1>1, <1>6, <1>7, <1>9, <1>12, <1>13, <1>16, FreshStep

LEMMA RowFresh ==
    ASSUME FreshInv, StoreInv', NEW o \in Ops,
           RowRoute(o) \/ RowRead(o) \/ RowLocate(o) \/ PublishBump(o)
    PROVE  FreshInv'
<1>1. UNCHANGED <<row, site, slot, current>>
  BY DEF RowRoute, RowRead, RowLocate, PublishBump
<1>2. op[o].pc \in {"route", "read", "locate", "bump"}
  BY DEF RowRoute, RowRead, RowLocate, PublishBump, At
<1>3. ~At(o, "status", "wait") /\ op[o].pc \notin Baking \cup {"prepare"}
  BY <1>2 DEF At, Baking
<1>4. /\ TypeOK /\ FreshWork(op[o], row, slot, Retracting) /\ WorkOK(op[o], site, slot, Served)
      /\ row \in [Rows -> Row] /\ (op[o].kind = "row" => op[o].row \in Rows)
  BY <1>2, FreshFacts
<1>5. CASE PublishBump(o)
  <2>1. OthersStay(o) /\ op'[o].pc = "idle" /\ op[o].pc = "bump"
    BY <1>5, FreshFacts, FinishWrites DEF PublishBump
  <2>2. FreshWork(op'[o], row, slot, Retracting') /\ op'[o].pc \notin Baking \cup {"prepare"}
    BY <2>1, NoFreshWork DEF Baking
  <2>3. \A r \in Rows : ~Repairs(op[o], r, ActiveSlot) BY <2>1 DEF Repairs
  <2>4. QED BY <1>1, <1>3, <2>1, <2>2, <2>3, FreshAside
<1>6. ASSUME OthersStay(o), op[o].kind = "row", op'[o].kind = "row", op'[o].row = op[o].row,
             op'[o].pc \in {"read", "locate", "write"},
             FreshWork(op'[o], row, slot, Retracting)
      PROVE  FreshInv'
  <2>1. Retracting \subseteq Retracting' BY <1>3, <1>6, RetractingStays
  <2>2. FreshWork(op'[o], row, slot, Retracting') BY <1>6, <2>1 DEF FreshWork, Shows, Baking
  <2>3. \A r \in Rows : Repairs(op[o], r, ActiveSlot) => Repairs(op'[o], r, ActiveSlot)
    BY <1>6 DEF Repairs
  <2>4. op'[o].pc \notin Baking \cup {"prepare"} BY <1>6 DEF Baking
  <2>5. QED BY <1>1, <1>3, <1>6, <2>2, <2>3, <2>4, FreshAside
<1>7. CASE RowRoute(o)
  <2>1. /\ OthersStay(o) /\ op'[o].pc = RouteNext(o) /\ op'[o].todo = op[o].todo
        /\ op'[o].path = <<row[op[o].row].table, op[o].path[2]>>
        /\ op'[o].kind = op[o].kind /\ op'[o].row = op[o].row
    BY <1>7, FreshFacts, RowRouteWrites
  <2>2. /\ op[o].pc = "route" /\ op[o].kind = "row" /\ op[o].path = DraftPath(row[op[o].row])
        /\ op[o].todo = {} /\ (Visible(row[op[o].row]) \/ op[o].row \in Retracting)
        /\ op[o].row \in Rows
    BY <1>4, <1>7 DEF RowRoute, At, FreshWork
  <2>3. op'[o].pc = "read" BY <2>1, <2>2 DEF RouteNext, FreshInv, PlainRows
  <2>4. op'[o].path = op[o].path BY <2>1, <2>2 DEF DraftPath
  <2>5. FreshWork(op'[o], row, slot, Retracting) BY <2>1, <2>2, <2>3, <2>4 DEF FreshWork, Baking
  <2>6. QED BY <1>6, <2>1, <2>2, <2>3, <2>5
<1>8. CASE RowRead(o)
  <2>1. /\ op[o].pc = "read" /\ op[o].kind = "row" /\ op[o].path = DraftPath(row[op[o].row])
        /\ (Visible(row[op[o].row]) \/ op[o].row \in Retracting)
        /\ op[o].row \in Rows
    BY <1>4, <1>8 DEF RowRead, At, FreshWork
  <2>2. /\ OthersStay(o) /\ op'[o].kind = op[o].kind /\ op'[o].row = op[o].row
        /\ op'[o].path = op[o].path
        /\ \/ (site = 0 \/ PublishedAt(op[o].path) = {}) /\ op'[o].pc = "bump"
           \/ \E r \in PublishedAt(op[o].path) : op'[o].pc = "locate" /\ op'[o].file = RowFile(o, r)
    BY <1>8, FreshFacts, RowReadWrites
  <2>3. ASSUME NEW r \in PublishedAt(op[o].path), op'[o].pc = "locate", op'[o].file = RowFile(o, r)
        PROVE  FreshInv'
    <3>1. r \in Rows /\ Visible(row[r]) /\ DraftPath(row[r]) = DraftPath(row[op[o].row])
      BY <2>1, <2>3, PathsEqual DEF PublishedAt
    <3>2. r = op[o].row BY <2>1, <3>1, PathsDiffer
    <3>3. Shows(op'[o].file, op[o].row, row, Retracting) BY <2>3, <3>1, <3>2 DEF Shows, RowFile
    <3>4. FreshWork(op'[o], row, slot, Retracting) BY <2>1, <2>2, <2>3, <3>3 DEF FreshWork, Baking
    <3>5. QED BY <1>6, <2>1, <2>2, <2>3, <3>4
  <2>4. ASSUME site = 0 \/ PublishedAt(op[o].path) = {}, op'[o].pc = "bump"
        PROVE  FreshInv'
    <3>1. ASSUME NEW r \in Rows, r = op[o].row PROVE RowServed(r)'
      <4>1. Served' = Served /\ SamePaths /\ ActiveSlot' = ActiveSlot
        BY <1>1 DEF Served, SamePaths, ActiveSlot
      <4>2. CASE site = 0
        <5>1. Served = EmptySlot BY <4>2 DEF FreshInv, SiteFirst, Served
        <5>2. DraftPath(row[r]) \in Paths BY PathsEqual
        <5>3. QED BY <4>1, <5>1, <5>2, ServesNothing DEF EmptySlot
      <4>3. CASE PublishedAt(op[o].path) = {}
        <5>1. ~Visible(row[r]) BY <2>1, <3>1, <4>3, PathsEqual DEF PublishedAt
        <5>2. PICK q \in Ops : At(q, "status", "wait") /\ op[q].row = r
          BY <2>1, <3>1, <5>1 DEF Retracting
        <5>3. op'[q] = op[q] BY <2>1, <2>2, <5>2 DEF At, OthersStay
        <5>4. Repairs(op'[q], r, ActiveSlot') BY <5>2, <5>3 DEF Repairs, At
        <5>5. QED BY <5>4 DEF RowServed
      <4>4. QED BY <2>4, <4>2, <4>3
    <3>2. FreshWork(op'[o], row, slot, Retracting') /\ op'[o].pc \notin Baking \cup {"prepare"}
      BY <2>4, NoFreshWork DEF Baking
    <3>3. \A r \in Rows : RowServed(r)' \/ ~Repairs(op[o], r, ActiveSlot)
      BY <3>1 DEF Repairs
    <3>4. QED BY <1>1, <1>3, <2>2, <3>2, <3>3, FreshAside
  <2>5. QED BY <2>2, <2>3, <2>4
<1>9. CASE RowLocate(o)
  <2>1. /\ op[o].pc = "locate" /\ op[o].kind = "row" /\ op[o].path = DraftPath(row[op[o].row])
        /\ Shows(op[o].file, op[o].row, row, Retracting)
    BY <1>4, <1>9 DEF RowLocate, At, FreshWork
  <2>2. /\ OthersStay(o) /\ op'[o].pc = "write" /\ op'[o].path = op[o].path
        /\ op'[o].file = op[o].file /\ op'[o].kind = op[o].kind /\ op'[o].row = op[o].row
    BY <1>9, FreshFacts, RowLocateWrites
  <2>3. FreshWork(op'[o], row, slot, Retracting) BY <2>1, <2>2 DEF FreshWork, Baking
  <2>4. QED BY <1>6, <2>1, <2>2, <2>3
<1>10. QED BY <1>5, <1>7, <1>8, <1>9

LEMMA RowWriteFresh ==
    ASSUME FreshInv, StoreInv', NEW o \in Ops, RowWrite(o)
    PROVE  FreshInv'
<1>1. /\ op[o].pc = "write" /\ UNCHANGED <<row, site, current>> /\ Goto(o, "bump")
      /\ slot' = [slot EXCEPT ![op[o].dir][op[o].path] = op[o].file]
  BY DEF RowWrite, At
<1>2. /\ TypeOK /\ op[o] \in Local /\ Holds(o) /\ LocalOK(op[o], version, current)
      /\ FreshWork(op[o], row, slot, Retracting) /\ WorkOK(op[o], site, slot, Served)
  BY <1>1, FreshFacts DEF Critical
<1>3. /\ op[o].kind = "row" /\ op[o].row \in Rows /\ op[o].dir \in Slots
      /\ op[o].path = DraftPath(row[op[o].row]) /\ Shows(op[o].file, op[o].row, row, Retracting)
      /\ op[o].dir = IF current = "b" THEN "b" ELSE "a"
  BY <1>1, <1>2, FreshFacts DEF FreshWork, LocalOK, Local
<1>4. OthersStay(o) /\ op'[o].pc = "bump" BY <1>1, FreshFacts, GotoWrites
<1>5. SamePaths /\ ActiveSlot' = ActiveSlot BY <1>1 DEF SamePaths, ActiveSlot
<1>6. op[o].path \in RowPaths /\ op[o].path \in Paths /\ op[o].path # Home /\ Home \in Paths
      /\ RowPaths \subseteq Paths
  BY <1>3, PathsEqual, PipelineAssumption DEF RowPaths, Paths
<1>7. /\ \A d \in Slots, p \in Paths : d # op[o].dir \/ p # op[o].path => slot'[d][p] = slot[d][p]
      /\ slot'[op[o].dir][op[o].path] = op[o].file
  BY <1>1, <1>2, <1>3, <1>6 DEF TypeOK
<1>8. FilesOfRows' BY <1>1, <1>3, <1>6, <1>7 DEF FreshInv, FilesOfRows
<1>9. /\ current = "none" => Served' = Served
      /\ current # "none" => /\ Served'[op[o].path] = op[o].file
                             /\ \A p \in Paths \ {op[o].path} : Served'[p] = Served[p]
  <2>1. CASE current = "none" BY <1>1, <2>1 DEF Served
  <2>2. CASE current # "none"
    <3>1. current = op[o].dir BY <1>2, <1>3, <2>2 DEF TypeOK, Slots
    <3>2. Served = slot[op[o].dir] /\ Served' = slot'[op[o].dir] BY <1>1, <2>2, <3>1 DEF Served
    <3>3. QED BY <1>3, <1>7, <2>2, <3>2
  <2>3. QED BY <2>1, <2>2
<1>10. op[o].pc \notin Baking \cup {"prepare"} /\ op'[o].pc \notin Baking \cup {"prepare"}
  BY <1>1, <1>4 DEF Baking
<1>11. HomeServed'
  <2>1. Served'[Home] = Served[Home] BY <1>6, <1>9
  <2>2. QED BY <1>1, <1>4, <1>10, <2>1, HomeStays
<1>12. SiteFirst' BY <1>1, <1>4, <1>10 DEF FreshInv, SiteFirst, OthersStay
<1>13. FreshWork(op'[o], row', slot', Retracting') BY <1>4, NoFreshWork
<1>14. ASSUME NEW r \in Rows PROVE RowServed(r)'
  <2>1. DraftPath(row[r]) \in Paths BY PathsEqual
  <2>2. CASE current = "none"
    <3>1. Served = EmptySlot /\ Served' = EmptySlot BY <1>1, <2>2 DEF Served
    <3>2. QED BY <1>5, <2>1, <3>1, ServesNothing DEF EmptySlot
  <2>3. CASE current # "none" /\ r = op[o].row
    <3>1. Served'[DraftPath(row'[r])] = op[o].file BY <1>1, <1>3, <1>9, <2>3
    <3>2. CASE Visible(row[r]) BY <1>1, <1>3, <2>3, <3>1, <3>2 DEF RowServed, Shows
    <3>3. CASE r \in Retracting
      <4>1. PICK q \in Ops : At(q, "status", "wait") /\ op[q].row = r BY <3>3 DEF Retracting
      <4>2. op'[q] = op[q] BY <1>3, <1>4, <4>1 DEF At, OthersStay
      <4>3. Repairs(op'[q], r, ActiveSlot') BY <4>1, <4>2 DEF Repairs, At
      <4>4. QED BY <4>3 DEF RowServed
    <3>4. QED BY <1>3, <2>3, <3>2, <3>3 DEF Shows
  <2>4. CASE current # "none" /\ r # op[o].row
    <3>1. DraftPath(row[r]) # op[o].path BY <1>3, <2>4, PathsDiffer
    <3>2. Served'[DraftPath(row[r])] = Served[DraftPath(row[r])] BY <1>9, <2>1, <2>4, <3>1
    <3>3. ~Repairs(op[o], r, ActiveSlot) BY <2>4 DEF Repairs
    <3>4. QED BY <1>1, <1>4, <1>5, <3>2, <3>3, StillServed
  <2>5. QED BY <2>2, <2>3, <2>4
<1>15. QED BY <1>2, <1>4, <1>5, <1>8, <1>11, <1>12, <1>13, <1>14, FreshStep

(* The retraction: from its update to the removal it sees to the row's     *)
(* file, whichever slot it is served from.                                 *)
LEMMA RetractionFresh ==
    ASSUME Calm, FreshInv, StoreInv', NEW o \in Ops,
           SerializedBump(o) \/ StatusReread(o) \/ PruneResolve(o)
    PROVE  FreshInv'
<1>1. /\ UNCHANGED <<row, site, slot, current>> /\ op[o].pc \in {"wait", "reread", "resolve"}
  BY DEF SerializedBump, StatusReread, PruneResolve, At
<1>2. /\ FreshWork(op[o], row, slot, Retracting) /\ op[o] \in Local
      /\ op[o].kind \in {"site", "row", "status", "none"}
  BY FreshFacts DEF Local, Calm
<1>3. op[o].pc \notin Baking \cup {"prepare"} BY <1>1 DEF Baking
<1>4. ASSUME OthersStay(o), op[o].kind = "status", op'[o].kind = "status", op'[o].row = op[o].row,
             ~At(o, "status", "wait") \/ Holds(o),
             \/ op'[o].pc \in {"reread", "resolve"}
             \/ op'[o].pc = "prune" /\ op'[o].dir = ActiveSlot,
             op'[o].pc \in {"resolve", "prune"} => op'[o].path = DraftPath(row[op[o].row])
      PROVE  FreshInv'
  <2>1. FreshWork(op'[o], row, slot, Retracting') BY <1>4 DEF FreshWork, Baking
  <2>2. \A r \in Rows : Repairs(op[o], r, ActiveSlot) => Repairs(op'[o], r, ActiveSlot)
    BY <1>4 DEF Repairs
  <2>3. op'[o].pc \notin Baking \cup {"prepare"} BY <1>4 DEF Baking
  <2>4. QED BY <1>1, <1>3, <1>4, <2>1, <2>2, <2>3, FreshAside
<1>5. CASE SerializedBump(o)
  <2>1. /\ OthersStay(o) /\ op[o].kind = "status" /\ op'[o].pc = "reread"
        /\ op'[o].kind = op[o].kind /\ op'[o].row = op[o].row
    BY <1>2, <1>5, FreshFacts, SerializedBumpWrites
  <2>2. Holds(o) BY <1>5 DEF SerializedBump
  <2>3. QED BY <1>4, <2>1, <2>2
<1>6. CASE StatusReread(o)
  <2>1. op[o].kind = "status" /\ op[o].pc = "reread" BY <1>6 DEF StatusReread, At
  <2>2. op[o].row \in Rows BY <2>1, FreshFacts
  <2>3. ~row[op[o].row].deleted BY <2>2 DEF FreshInv, PlainRows
  <2>4. /\ OthersStay(o) /\ op'[o].pc = "resolve" /\ op'[o].path = DraftPath(row[op[o].row])
        /\ op'[o].kind = op[o].kind /\ op'[o].row = op[o].row
    BY <1>6, <2>3, FreshFacts, StatusRereadWrites
  <2>5. QED BY <1>4, <2>1, <2>4 DEF At
<1>7. CASE PruneResolve(o)
  <2>1. op[o].pc = "resolve" BY <1>7 DEF PruneResolve
  <2>2. op[o].kind = "status" /\ op[o].path = DraftPath(row[op[o].row])
    BY <1>2, <2>1 DEF FreshWork
  <2>3. /\ OthersStay(o) /\ op'[o].pc = "prune" /\ op'[o].dir = ActiveSlot
        /\ op'[o].path = <<row[op[o].row].table, op[o].path[2]>>
        /\ op'[o].kind = op[o].kind /\ op'[o].row = op[o].row
    BY <1>7, FreshFacts, PruneResolveWrites
  <2>4. op'[o].path = DraftPath(row[op[o].row]) BY <2>2, <2>3 DEF DraftPath
  <2>5. QED BY <1>4, <2>1, <2>2, <2>3, <2>4 DEF At
<1>8. QED BY <1>5, <1>6, <1>7

LEMMA PruneFresh ==
    ASSUME Calm, FreshInv, StoreInv', NEW o \in Ops, Prune(o)
    PROVE  FreshInv'
<1>1. /\ op[o].pc = "prune" /\ UNCHANGED <<row, site, current>>
      /\ slot' = [slot EXCEPT ![op[o].dir][op[o].path] = NoFile]
  BY DEF Prune, Calm
<1>2. /\ TypeOK /\ op[o] \in Local /\ FreshWork(op[o], row, slot, Retracting)
      /\ WorkOK(op[o], site, slot, Served)
  BY FreshFacts
<1>3. /\ op[o].kind = "status" /\ op[o].path = DraftPath(row[op[o].row]) /\ op[o].dir \in Slots
      /\ op[o].path \in RowPaths
  BY <1>1, <1>2 DEF FreshWork, WorkOK, Local
<1>4. OthersStay(o) /\ op'[o].pc \in {"wait", "idle"}
  BY FreshFacts, GotoWrites, FinishWrites DEF Prune
<1>5. SamePaths /\ ActiveSlot' = ActiveSlot BY <1>1 DEF SamePaths, ActiveSlot
<1>6. op[o].path \in Paths /\ op[o].path # Home /\ Home \in Paths /\ RowPaths \subseteq Paths
  BY <1>3, PipelineAssumption DEF RowPaths, Paths
<1>7. /\ \A d \in Slots, p \in Paths : d # op[o].dir \/ p # op[o].path => slot'[d][p] = slot[d][p]
      /\ slot'[op[o].dir][op[o].path] = NoFile
  BY <1>1, <1>2, <1>3, <1>6 DEF TypeOK
<1>8. OnlyRemoves BY <1>7 DEF OnlyRemoves
<1>9. OnlyRetracts
  <2>1. ~At(o, "status", "wait") BY <1>1 DEF At
  <2>2. QED BY <1>1, <1>4, <2>1, RetractingStays DEF OnlyRetracts
<1>10. /\ \A p \in Paths : Served'[p] = Served[p] \/ (p = op[o].path /\ Served'[p] = NoFile)
       /\ op[o].dir = ActiveSlot => Served'[op[o].path] = NoFile
  <2>1. CASE current = "none" BY <1>1, <1>6, <2>1 DEF Served, EmptySlot
  <2>2. CASE current \in Slots
    <3>1. Served = slot[current] /\ Served' = slot'[current] /\ ActiveSlot = current
      BY <1>1, <2>2 DEF Served, Slots, ActiveSlot
    <3>2. QED BY <1>6, <1>7, <2>2, <3>1
  <2>3. QED BY <1>2, <2>1, <2>2 DEF TypeOK
<1>11. op[o].pc \notin Baking \cup {"prepare"} /\ op'[o].pc \notin Baking \cup {"prepare"}
  BY <1>1, <1>4 DEF Baking
<1>12. FilesOfRows'
  <2>1. SUFFICES ASSUME NEW d \in Slots, NEW p \in RowPaths, slot'[d][p] # NoFile
                 PROVE  \E r \in Rows : p = DraftPath(row'[r])
    BY DEF FilesOfRows
  <2>2. slot[d][p] # NoFile BY <1>6, <1>7, <2>1
  <2>3. QED BY <1>1, <2>2 DEF FreshInv, FilesOfRows
<1>13. HomeServed'
  <2>1. Served'[Home] = Served[Home] BY <1>6, <1>10
  <2>2. QED BY <1>1, <1>4, <1>11, <2>1, HomeStays
<1>14. SiteFirst' BY <1>1, <1>4, <1>11 DEF FreshInv, SiteFirst, OthersStay
<1>15. FreshWork(op'[o], row', slot', Retracting') BY <1>4, NoFreshWork
<1>16. ASSUME NEW r \in Rows PROVE RowServed(r)'
  <2>1. DraftPath(row[r]) \in Paths BY PathsEqual
  <2>2. CASE Served'[DraftPath(row[r])] = NoFile BY <1>5, <2>2, ServesNothing
  <2>3. CASE Served'[DraftPath(row[r])] # NoFile
    <3>1. Served'[DraftPath(row[r])] = Served[DraftPath(row[r])] BY <1>10, <2>1, <2>3
    <3>2. ~Repairs(op[o], r, ActiveSlot) BY <1>1, <1>3, <1>10, <2>3 DEF Repairs
    <3>3. QED BY <1>1, <1>4, <1>5, <3>1, <3>2, StillServed
  <2>4. QED BY <2>2, <2>3
<1>17. QED BY <1>4, <1>5, <1>8, <1>9, <1>12, <1>13, <1>14, <1>15, <1>16, FreshStep

LEMMA FreshInit == Init => FreshInv
<1> SUFFICES ASSUME Init PROVE FreshInv OBVIOUS
<1>1. PICK t \in Tables, s \in [Rows -> Slugs] :
         /\ \A q, r \in Rows : q # r => s[q] # s[r]
         /\ row = [r \in Rows |-> NewRow(t, s[r])]
  BY DEF Init
<1>2. ASSUME NEW r \in Rows
      PROVE  ~row[r].deleted /\ row[r].slug = s[r] /\ row[r].active.slug = s[r]
  BY <1>1 DEF NewRow
<1>3. PlainRows BY <1>1, <1>2 DEF PlainRows
<1>4. \A o \in Ops : op[o].pc = "idle" BY IdleOK DEF Init
<1>5. \A p \in Paths : Served[p] = NoFile /\ \A d \in Slots : slot[d][p] = NoFile
  BY DEF Init, Served, EmptySlot
<1>6. StoreInv BY StoreInit
<1>7. \A r \in Rows : DraftPath(row[r]) \in Paths
  BY <1>6, PathsTyped DEF StoreInv, IInv, TypeOK
<1>8. Home \in Paths /\ RowPaths \subseteq Paths BY DEF Paths
<1>9. FilesOfRows /\ HomeServed /\ \A r \in Rows : RowServed(r)
  BY <1>5, <1>7, <1>8 DEF FilesOfRows, HomeServed, RowServed
<1>10. SiteFirst BY <1>4 DEF Init, SiteFirst, Baking
<1>11. \A o \in Ops : FreshWork(op[o], row, slot, Retracting) BY <1>4, NoFreshWork
<1>12. QED BY <1>3, <1>6, <1>9, <1>10, <1>11 DEF FreshInv

LEMMA FreshNext == ASSUME Calm, FreshInv, [Next]_vars PROVE FreshInv'
<1>1. StoreInv' BY StoreStep DEF FreshInv
<1>2. ASSUME NEW o \in Ops, Start(o) PROVE FreshInv' BY <1>1, <1>2, StartFresh
<1>3. ASSUME NEW o \in Ops, Site(o) PROVE FreshInv'
  BY <1>1, <1>3, NothingFails, SitePersistFresh, SwapFresh, SiteFresh DEF Site
<1>4. ASSUME NEW o \in Ops, RowPublish(o) PROVE FreshInv'
  BY <1>1, <1>4, NothingFails, RowPersistFresh, RowFresh, RowWriteFresh DEF RowPublish
<1>5. ASSUME NEW o \in Ops, Retraction(o) PROVE FreshInv'
  BY <1>1, <1>5, NothingFails, RetractionFresh, PruneFresh DEF Retraction
<1>6. ASSUME NEW o \in Ops, Continue(o) PROVE FreshInv'
  BY <1>1, <1>3, <1>4, <1>5, <1>6, RowFresh DEF Continue
<1>7. ~Crash /\ \A r \in Rows : ~Edit(r) /\ ~Schedule(r) BY DEF Calm, Crash, Edit, Schedule
<1>8. CASE UNCHANGED vars
  <2>1. UNCHANGED <<row, site, slot, current, op>> BY <1>8 DEF vars
  <2>2. Served' = Served /\ Retracting' = Retracting /\ ActiveSlot' = ActiveSlot
    BY <2>1 DEF Served, Retracting, ActiveSlot, At
  <2>3. /\ PlainRows' /\ SiteFirst' /\ FilesOfRows' /\ HomeServed'
        /\ \A r \in Rows : RowServed(r)'
    BY <2>1, <2>2 DEF FreshInv, PlainRows, SiteFirst, FilesOfRows, HomeServed, RowServed
  <2>4. \A o \in Ops : FreshWork(op'[o], row', slot', Retracting')
    BY <2>1, <2>2 DEF FreshInv
  <2>5. QED BY <1>1, <2>3, <2>4 DEF FreshInv
<1>9. QED BY <1>2, <1>6, <1>7, <1>8 DEF Next

(* staticArtefact.ts, publishRow.ts, data/rows.ts: while publishes and      *)
(* unpublishes overlap, without errors, every row file that is served is   *)
(* the published version of a visible row, or a request in progress will   *)
(* still replace or remove it; and a slot being filled holds only files    *)
(* that show what is published, or what a waiting unpublish will remove.   *)
THEOREM FreshInvariance == ASSUME Calm PROVE Spec => []FreshInv
<1>1. FreshInv /\ [Next]_vars => FreshInv' BY FreshNext
<1>2. QED BY <1>1, FreshInit, PTL DEF Spec

LEMMA AtRest ==
    ASSUME FreshInv, Quiet
    PROVE  /\ Served[Home] # NoFile => Served[Home].gen = site
           /\ \A p \in RowPaths : Served[p] # NoFile =>
                 \E r \in PublishedAt(p) : Served[p].row = r /\ Served[p].no = row[r].active.no
<1>1. \A o \in Ops : op[o].pc = "idle" BY DEF Quiet, Busy
<1>2. \A o \in Ops : op[o].pc \notin Baking \cup {"prepare"} BY <1>1 DEF Baking
<1>3. \A o \in Ops, r \in Rows : ~Repairs(op[o], r, ActiveSlot) BY <1>1 DEF Repairs
<1>4. ASSUME NEW p \in RowPaths, Served[p] # NoFile
      PROVE  \E r \in PublishedAt(p) : Served[p].row = r /\ Served[p].no = row[r].active.no
  <2>1. p \in Paths BY DEF Paths
  <2>2. current \in Slots /\ Served[p] = slot[current][p]
    BY <1>4, <2>1, ServedTyped DEF FreshInv, StoreInv, IInv
  <2>3. PICK r \in Rows : p = DraftPath(row[r])
    BY <1>4, <2>2 DEF FreshInv, FilesOfRows
  <2>4. Served[p].row = r /\ Served[p].no = row[r].active.no /\ Visible(row[r])
    BY <1>3, <1>4, <2>3 DEF FreshInv, RowServed
  <2>5. r \in PublishedAt(p) BY <2>3, <2>4, PathsEqual DEF PublishedAt
  <2>6. QED BY <2>4, <2>5
<1>5. QED BY <1>2, <1>4 DEF FreshInv, HomeServed

(* data/rows.ts, handleRowStatus (ISS-039): with publishes and unpublishes *)
(* that meet no error, nothing is served at rest at the path of a row that *)
(* is not published, whatever publishes it raced with.                     *)
THEOREM RetractionTheorem == ASSUME Calm PROVE Spec => []RetractedNotServed
<1>1. FreshInv => RetractedNotServed BY AtRest DEF RetractedNotServed
<1>2. QED BY <1>1, FreshInvariance, PTL

(* staticArtefact.ts, publishRow.ts: under the same conditions a file that *)
(* is served at rest shows the latest snapshot, or the latest published    *)
(* version of its row.                                                     *)
THEOREM CurrentTheorem == ASSUME Calm PROVE Spec => []ServedIsCurrent
<1>1. FreshInv => ServedIsCurrent BY AtRest DEF ServedIsCurrent
<1>2. QED BY <1>1, FreshInvariance, PTL
=============================================================================
