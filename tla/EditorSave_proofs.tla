-------------------------- MODULE EditorSave_proofs --------------------------
(***************************************************************************)
(* The saves of the editor, for any number of sessions, pages and saves    *)
(* that overlap, fail or lose their answer: what was found valid commits,  *)
(* no slug is given twice, no page its session has not seen is deleted and *)
(* no edit is lost track of.                                               *)
(***************************************************************************)
EXTENDS EditorSave, TLAPS

-----------------------------------------------------------------------------
(* The transaction.                                                        *)

Row == [slug : Slugs \cup {Parked}, edit : 0..MaxEdits, live : BOOLEAN]

IsTable(t) == t \in [DOMAIN t -> Row]
IsBatch(w) == w \in [DOMAIN w -> Content]

(* No slug twice, and no live page under the placeholder.                  *)
Sound(t) == SlugsUnique(t) /\ \A p \in Live(t) : t[p].slug \in Slugs

LEMMA ReapedFacts ==
  ASSUME NEW t, IsTable(t), NEW reap
  PROVE  /\ IsTable(Reaped(t, reap)) /\ DOMAIN Reaped(t, reap) = DOMAIN t
         /\ Live(Reaped(t, reap)) = Live(t) \ reap
         /\ \A p \in DOMAIN t : /\ Reaped(t, reap)[p].slug = t[p].slug
                                /\ Reaped(t, reap)[p].edit = t[p].edit
<1> DEFINE r == Reaped(t, reap)
<1>1. DOMAIN r = DOMAIN t /\ \A p \in DOMAIN t : t[p] \in Row /\ r[p] = [t[p] EXCEPT !.live = t[p].live /\ p \notin reap]
  BY DEF Reaped, IsTable
<1>2. \A p \in DOMAIN t : r[p] \in Row /\ r[p].slug = t[p].slug /\ r[p].edit = t[p].edit
                          /\ (r[p].live <=> t[p].live /\ p \notin reap)
  BY <1>1 DEF Row
<1>3. IsTable(r)
  BY <1>1, <1>2 DEF IsTable, Reaped
<1> HIDE DEF r
<1>4. Live(r) = Live(t) \ reap
  BY <1>1, <1>2 DEF Live
<1> QED BY <1>1, <1>2, <1>3, <1>4 DEF r

LEMMA UpdatedFacts ==
  ASSUME NEW t, IsTable(t), NEW w, IsBatch(w)
  PROVE  /\ IsTable(Updated(t, w)) /\ DOMAIN Updated(t, w) = DOMAIN t
         /\ Live(Updated(t, w)) = Live(t)
         /\ \A p \in DOMAIN t \ DOMAIN w : Updated(t, w)[p] = t[p]
         /\ \A p \in Live(t) \cap DOMAIN w :
              /\ Updated(t, w)[p].slug = IF t[p].slug = w[p].slug THEN t[p].slug ELSE Parked
              /\ Updated(t, w)[p].edit = w[p].edit
<1> DEFINE r == Updated(t, w)
<1>1. DOMAIN r = DOMAIN t /\ \A p \in DOMAIN t : t[p] \in Row
  BY DEF Updated, IsTable
<1>2. \A p \in DOMAIN t : r[p] = IF p \in DOMAIN w /\ t[p].live
                                 THEN [t[p] EXCEPT !.edit = w[p].edit,
                                                   !.slug = IF t[p].slug = w[p].slug THEN @ ELSE Parked]
                                 ELSE t[p]
  BY DEF Updated
<1>3. ASSUME NEW p \in DOMAIN t, p \in DOMAIN w, t[p].live
      PROVE  /\ r[p] \in Row /\ r[p].live /\ r[p].edit = w[p].edit
             /\ r[p].slug = IF t[p].slug = w[p].slug THEN t[p].slug ELSE Parked
  <2>1. t[p] \in Row /\ w[p] \in Content
    BY <1>1, <1>3 DEF IsBatch
  <2>2. r[p] = [t[p] EXCEPT !.edit = w[p].edit, !.slug = IF t[p].slug = w[p].slug THEN @ ELSE Parked]
    BY <1>2, <1>3
  <2> HIDE DEF r
  <2> QED BY <1>3, <2>1, <2>2 DEF Row, Content
<1>4. \A p \in DOMAIN t : ~(p \in DOMAIN w /\ t[p].live) => r[p] = t[p]
  BY <1>2
<1>5. IsTable(r)
  BY <1>1, <1>3, <1>4 DEF IsTable, Updated
<1> HIDE DEF r
<1>6. Live(r) = Live(t)
  BY <1>1, <1>3, <1>4 DEF Live
<1> QED BY <1>1, <1>3, <1>4, <1>5, <1>6 DEF r, Live

(* The table a is t with the pages of the batch w revived or created.      *)
IsAdded(a, t, w) ==
    /\ IsTable(a) /\ DOMAIN a = DOMAIN t \cup DOMAIN w /\ Live(a) = Live(t) \cup DOMAIN w
    /\ \A p \in DOMAIN t : p \in Live(t) \/ p \notin DOMAIN w => a[p] = t[p]
    /\ \A p \in DOMAIN w \ Live(t) : /\ a[p].slug = IF p \in DOMAIN t THEN Parked ELSE w[p].slug
                                     /\ a[p].edit = w[p].edit

LEMMA AddedFacts ==
  ASSUME NEW t, IsTable(t), NEW w, IsBatch(w)
  PROVE  IsAdded(Added(t, w), t, w)
<1> DEFINE r == Added(t, w)
<1>1. DOMAIN r = DOMAIN t \cup DOMAIN w /\ \A p \in DOMAIN t : t[p] \in Row
  BY DEF Added, IsTable
<1>2. \A p \in DOMAIN r : r[p] = IF p \in Live(t) \/ p \notin DOMAIN w THEN t[p]
                                 ELSE [live |-> TRUE, edit |-> w[p].edit,
                                       slug |-> IF p \in DOMAIN t THEN Parked ELSE w[p].slug]
  BY DEF Added
<1>3. ASSUME NEW p \in DOMAIN w, p \notin Live(t)
      PROVE  /\ r[p] \in Row /\ r[p].live /\ r[p].edit = w[p].edit
             /\ r[p].slug = IF p \in DOMAIN t THEN Parked ELSE w[p].slug
  <2>1. w[p] \in Content
    BY DEF IsBatch
  <2>2. r[p] = [live |-> TRUE, edit |-> w[p].edit, slug |-> IF p \in DOMAIN t THEN Parked ELSE w[p].slug]
    BY <1>1, <1>2, <1>3
  <2> HIDE DEF r
  <2> QED BY <2>1, <2>2 DEF Row, Content
<1>4. \A p \in DOMAIN t : p \in Live(t) \/ p \notin DOMAIN w => r[p] = t[p]
  BY <1>1, <1>2
<1>5. \A p \in DOMAIN r : r[p] \in Row
  BY <1>1, <1>3, <1>4 DEF Live
<1>6. IsTable(r)
  BY <1>5 DEF IsTable, Added
<1> HIDE DEF r
<1>7. Live(r) = Live(t) \cup DOMAIN w
  BY <1>1, <1>3, <1>4 DEF Live
<1> QED BY <1>1, <1>3, <1>4, <1>6, <1>7 DEF r, IsAdded

LEMMA ResluggedFacts ==
  ASSUME NEW t, IsTable(t), NEW w, IsBatch(w), NEW before
  PROVE  /\ IsTable(Reslugged(t, before, w)) /\ DOMAIN Reslugged(t, before, w) = DOMAIN t
         /\ Live(Reslugged(t, before, w)) = Live(t)
         /\ \A p \in DOMAIN t :
              /\ Reslugged(t, before, w)[p].slug = IF p \in DOMAIN w \cap DOMAIN before THEN w[p].slug ELSE t[p].slug
              /\ Reslugged(t, before, w)[p].edit = t[p].edit
<1> DEFINE r == Reslugged(t, before, w)
<1>1. DOMAIN r = DOMAIN t /\ \A p \in DOMAIN t : t[p] \in Row
  BY DEF Reslugged, IsTable
<1>2. \A p \in DOMAIN t : r[p] = IF p \in DOMAIN w \cap DOMAIN before THEN [t[p] EXCEPT !.slug = w[p].slug] ELSE t[p]
  BY DEF Reslugged
<1>3. ASSUME NEW p \in DOMAIN t
      PROVE  /\ r[p] \in Row /\ r[p].live = t[p].live /\ r[p].edit = t[p].edit
             /\ r[p].slug = IF p \in DOMAIN w \cap DOMAIN before THEN w[p].slug ELSE t[p].slug
  <2>1. t[p] \in Row /\ (p \in DOMAIN w => w[p] \in Content)
    BY <1>1 DEF IsBatch
  <2>2. r[p] = IF p \in DOMAIN w \cap DOMAIN before THEN [t[p] EXCEPT !.slug = w[p].slug] ELSE t[p]
    BY <1>2
  <2> HIDE DEF r
  <2> QED BY <2>1, <2>2 DEF Row, Content
<1>4. IsTable(r)
  BY <1>1, <1>3 DEF IsTable, Reslugged
<1> HIDE DEF r
<1>5. Live(r) = Live(t)
  BY <1>1, <1>3 DEF Live
<1> QED BY <1>1, <1>3, <1>4, <1>5 DEF r

(* The order of the statements: no group of them gives a slug to a page    *)
(* while another live page has it (reconcile.ts).                          *)
LEMMA ValidCommits ==
  ASSUME NEW t, IsTable(t), Sound(t), NEW w, IsBatch(w), NEW reap, SlugsFree(t, w, reap)
  PROVE  Commits(t, w, reap)
<1> DEFINE r == Reaped(t, reap)
           u == Updated(r, w)
           a == Added(u, w)
           f == Reslugged(a, t, w)
<1>1. /\ IsTable(r) /\ DOMAIN r = DOMAIN t /\ Live(r) = Live(t) \ reap
      /\ \A p \in DOMAIN t : r[p].slug = t[p].slug
  BY ReapedFacts
<1> HIDE DEF r
<1>2. /\ IsTable(u) /\ DOMAIN u = DOMAIN t /\ Live(u) = Live(t) \ reap
      /\ \A p \in DOMAIN t \ DOMAIN w : u[p].slug = t[p].slug
      /\ \A p \in Live(u) \cap DOMAIN w : u[p].slug = IF t[p].slug = w[p].slug THEN t[p].slug ELSE Parked
  BY <1>1, UpdatedFacts DEF Live
<1> HIDE DEF u
<1>3. /\ IsTable(a) /\ DOMAIN a = DOMAIN t \cup DOMAIN w /\ Live(a) = Live(u) \cup DOMAIN w
      /\ \A p \in Live(u) : a[p].slug = u[p].slug
      /\ \A p \in DOMAIN w \ Live(u) : a[p].slug = IF p \in DOMAIN t THEN Parked ELSE w[p].slug
  <2>1. IsAdded(a, u, w)
    BY <1>2, AddedFacts
  <2>2. Live(u) \subseteq DOMAIN u
    BY DEF Live
  <2> HIDE DEF a
  <2> QED BY <1>2, <2>1, <2>2 DEF IsAdded
<1> HIDE DEF a
<1>4. /\ Live(f) = Live(a)
      /\ \A p \in DOMAIN a : f[p].slug = IF p \in DOMAIN w \cap DOMAIN t THEN w[p].slug ELSE a[p].slug
  BY <1>3, ResluggedFacts
<1> HIDE DEF f
<1>5. Live(t) \subseteq DOMAIN t /\ Live(u) \subseteq Live(t) /\ Live(a) \subseteq DOMAIN a
  BY <1>2 DEF Live
<1>6. SlugsUnique(r)
  BY <1>1, <1>5 DEF SlugsUnique, Sound
<1>7. SlugsUnique(u)
  <2>1. \A p \in Live(u) : u[p].slug \in {t[p].slug, Parked}
    BY <1>2, <1>5
  <2> QED BY <1>5, <2>1 DEF SlugsUnique, Sound
<1>8. \A p \in DOMAIN w, q \in DOMAIN w : w[p].slug = w[q].slug => p = q
  BY DEF SlugsFree
<1>9. \A p \in DOMAIN w, q \in Live(u) \ DOMAIN w : w[p].slug # t[q].slug
  BY <1>2 DEF SlugsFree
<1>10. \A p \in Live(a) : \/ p \in DOMAIN w /\ a[p].slug \in {w[p].slug, Parked}
                          \/ p \in Live(u) \ DOMAIN w /\ a[p].slug = t[p].slug
  BY <1>2, <1>3, <1>5
<1>11. SlugsUnique(a)
  BY <1>5, <1>8, <1>9, <1>10 DEF SlugsUnique, Sound
<1>12. \A p \in Live(f) : \/ p \in DOMAIN w /\ f[p].slug = w[p].slug
                          \/ p \in Live(u) \ DOMAIN w /\ f[p].slug = t[p].slug
  BY <1>2, <1>3, <1>4, <1>5
<1>13. SlugsUnique(f)
  BY <1>5, <1>8, <1>9, <1>12 DEF SlugsUnique, Sound
<1>14. Stages(t, w, reap) = <<r, u, a, f>>
  BY DEF Stages, r, u, a, f
<1> QED BY <1>6, <1>7, <1>11, <1>13, <1>14 DEF Commits

(* The table f is t when the transaction has committed.                    *)
IsReconciled(f, t, w, reap) ==
    /\ IsTable(f) /\ DOMAIN f = DOMAIN t \cup DOMAIN w
    /\ Live(f) = (Live(t) \ reap) \cup DOMAIN w
    /\ \A p \in DOMAIN w : f[p].slug = w[p].slug /\ f[p].edit = w[p].edit
    /\ \A p \in Live(f) \ DOMAIN w : f[p].slug = t[p].slug /\ f[p].edit = t[p].edit

LEMMA ReconciledFacts ==
  ASSUME NEW t, IsTable(t), NEW w, IsBatch(w), NEW reap
  PROVE  IsReconciled(Reconciled(t, w, reap), t, w, reap)
<1> DEFINE r == Reaped(t, reap)
           u == Updated(r, w)
           a == Added(u, w)
           f == Reslugged(a, t, w)
<1>1. /\ IsTable(r) /\ DOMAIN r = DOMAIN t /\ Live(r) = Live(t) \ reap
      /\ \A p \in DOMAIN t : r[p].slug = t[p].slug /\ r[p].edit = t[p].edit
  BY ReapedFacts
<1> HIDE DEF r
<1>2. /\ IsTable(u) /\ DOMAIN u = DOMAIN t /\ Live(u) = Live(t) \ reap
      /\ \A p \in DOMAIN t \ DOMAIN w : u[p].slug = t[p].slug /\ u[p].edit = t[p].edit
      /\ \A p \in Live(u) \cap DOMAIN w : u[p].edit = w[p].edit
  BY <1>1, UpdatedFacts DEF Live
<1> HIDE DEF u
<1>3. /\ IsTable(a) /\ DOMAIN a = DOMAIN t \cup DOMAIN w /\ Live(a) = Live(u) \cup DOMAIN w
      /\ \A p \in DOMAIN t : p \in Live(u) \/ p \notin DOMAIN w => a[p].slug = u[p].slug /\ a[p].edit = u[p].edit
      /\ \A p \in DOMAIN w \ Live(u) : /\ a[p].slug = IF p \in DOMAIN t THEN Parked ELSE w[p].slug
                                       /\ a[p].edit = w[p].edit
  <2>1. IsAdded(a, u, w)
    BY <1>2, AddedFacts
  <2>2. Live(u) \subseteq DOMAIN u
    BY DEF Live
  <2> HIDE DEF a
  <2> QED BY <1>2, <2>1, <2>2 DEF IsAdded
<1> HIDE DEF a
<1>4. /\ IsTable(f) /\ DOMAIN f = DOMAIN a /\ Live(f) = Live(a)
      /\ \A p \in DOMAIN a : /\ f[p].slug = IF p \in DOMAIN w \cap DOMAIN t THEN w[p].slug ELSE a[p].slug
                             /\ f[p].edit = a[p].edit
  BY <1>3, ResluggedFacts
<1>5. f = Reconciled(t, w, reap)
  BY DEF Reconciled, Stages, r, u, a
<1> HIDE DEF f
<1>6. Live(f) = (Live(t) \ reap) \cup DOMAIN w
  BY <1>2, <1>3, <1>4
<1>7. Live(t) \subseteq DOMAIN t /\ Live(u) \subseteq DOMAIN t
  BY <1>2 DEF Live
<1>8. ASSUME NEW p \in DOMAIN w PROVE f[p].slug = w[p].slug /\ f[p].edit = w[p].edit
  BY <1>2, <1>3, <1>4, <1>7
<1>9. ASSUME NEW p \in Live(f) \ DOMAIN w PROVE f[p].slug = t[p].slug /\ f[p].edit = t[p].edit
  BY <1>2, <1>3, <1>4, <1>6, <1>7
<1> QED BY <1>3, <1>4, <1>5, <1>6, <1>8, <1>9 DEF IsReconciled

-----------------------------------------------------------------------------
(* The inductive invariant.                                                *)

(* A live page shows an edit that a save has committed.                    *)
RowsInv == Sound(rows) /\ \A p \in Live(rows) : <<p, rows[p].edit>> \in written

Stale(s, d) == \A p \in DOMAIN d : <<p, d[p].edit>> \in written

(* A session has seen what it shows and what it may delete; a site it has  *)
(* loaded shows committed edits.                                           *)
EditorInv(s) ==
    /\ Roster(s) \subseteq seen[s] /\ editor[s].baseline \subseteq seen[s]
    /\ editor[s].load # None => Stale(s, editor[s].load)

(* So it is for what it has sent; what was found valid still is unless the *)
(* table has changed, and what was answered is committed.                  *)
SaveInv(v) ==
    /\ save[v].pc \in {"idle", "over"} => ~save[v].awaited
    /\ save[v].pc \notin {"idle", "over"} =>
         save[v].by \in Sessions /\ DOMAIN save[v].doc \cup save[v].baseline \subseteq seen[save[v].by]
    /\ save[v].pc = "validated" /\ ~save[v].overtaken => SlugsFree(rows, ChangedPages(v), Reap(v))
    /\ save[v].pc = "done" => \A p \in DOMAIN ChangedPages(v) : <<p, save[v].doc[p].edit>> \in written

IInv ==
    /\ TypeOK /\ RowsInv /\ EditsAccounted
    /\ \A s \in Sessions : EditorInv(s)
    /\ \A v \in Saves : SaveInv(v)

LEMMA DocumentFacts ==
  ASSUME NEW d
  PROVE  d \in Documents <=> DOMAIN d \subseteq Pages /\ d \in [DOMAIN d -> Content]
  BY DEF Documents

LEMMA TypeFacts ==
  ASSUME TypeOK
  PROVE  /\ DOMAIN rows \subseteq Pages /\ IsTable(rows)
         /\ editor \in [Sessions -> Editor] /\ \A s \in Sessions : editor[s] \in Editor
         /\ save \in [Saves -> Save] /\ \A v \in Saves : save[v] \in Save
         /\ edits \in 0..MaxEdits /\ turns \in 0..MaxTurns
         /\ written \subseteq Pages \X (0..MaxEdits)
         /\ seen \in [Sessions -> SUBSET Pages]
  BY DEF TypeOK, IsTable, Row

LEMMA RowsType ==
  ASSUME NEW t, DOMAIN t \subseteq Pages, IsTable(t)
  PROVE  t \in UNION {[R -> [slug : Slugs \cup {Parked}, edit : 0..MaxEdits, live : BOOLEAN]] : R \in SUBSET Pages}
  BY DEF IsTable, Row

LEMMA EmptyDocument == EmptyDoc \in Documents /\ DOMAIN EmptyDoc = {}
<1>1. DOMAIN EmptyDoc = {} /\ EmptyDoc \in [{} -> Content]
  BY DEF EmptyDoc
<1> QED BY <1>1, DocumentFacts

LEMMA NoSaveFacts ==
  /\ NoSave \in Save /\ Ended \in Save
  /\ NoSave.pc = "idle" /\ ~NoSave.awaited /\ NoSave.baseline = {} /\ NoSave.dirty = {}
  /\ Ended.pc = "over" /\ ~Ended.awaited
<1> DEFINE e == EmptyDoc
<1>1. e \in Documents
  BY EmptyDocument
<1>2. NoSave = [pc |-> "idle", by |-> None, doc |-> e, dirty |-> {}, baseline |-> {},
                awaited |-> FALSE, mounted |-> FALSE, overtaken |-> FALSE]
      /\ Ended = [NoSave EXCEPT !.pc = "over"]
  BY DEF NoSave, Ended
<1> HIDE DEF e
<1> QED BY <1>1, <1>2 DEF Save

LEMMA StoredFacts ==
  ASSUME NEW t, IsTable(t), DOMAIN t \subseteq Pages, \A p \in Live(t) : t[p].slug \in Slugs
  PROVE  /\ Stored(t) \in Documents /\ DOMAIN Stored(t) = Live(t)
         /\ \A p \in Live(t) : Stored(t)[p].edit = t[p].edit
<1>1. DOMAIN Stored(t) = Live(t) /\ \A p \in Live(t) : Stored(t)[p] = [slug |-> t[p].slug, edit |-> t[p].edit]
  BY DEF Stored
<1>2. Live(t) \subseteq Pages /\ \A p \in Live(t) : t[p] \in Row
  BY DEF Live, IsTable
<1>3. \A p \in Live(t) : Stored(t)[p] \in Content
  BY <1>1, <1>2 DEF Row, Content
<1>4. Stored(t) \in [Live(t) -> Content]
  BY <1>3 DEF Stored
<1> QED BY <1>1, <1>2, <1>4, DocumentFacts

(* A session changes its document, its marks or its baseline: every page   *)
(* it shows is committed or marked, or is as it was with its mark kept.    *)
LEMMA EditorStep ==
  ASSUME IInv, NEW s \in Sessions, NEW e \in Editor, editor' = [editor EXCEPT ![s] = e],
         UNCHANGED <<rows, save, written>>, edits' \in 0..MaxEdits, turns' \in 0..MaxTurns,
         seen' \in [Sessions -> SUBSET Pages], \A x \in Sessions : seen[x] \subseteq seen'[x],
         DOMAIN e.doc \cup e.baseline \subseteq seen'[s],
         e.load # None => Stale(s, e.load),
         \A p \in DOMAIN e.doc :
           \/ <<p, e.doc[p].edit>> \in written
           \/ p \in e.dirty
           \/ p \in Roster(s) /\ e.doc[p] = editor[s].doc[p] /\ editor[s].dirty \subseteq e.dirty
  PROVE  IInv'
<1>1. /\ editor'[s] = e /\ \A x \in Sessions \ {s} : editor'[x] = editor[x]
      /\ editor' \in [Sessions -> Editor]
  BY TypeFacts DEF IInv
<1>2. TypeOK'
  BY <1>1 DEF IInv, TypeOK
<1>3. RowsInv'
  BY DEF IInv, RowsInv
<1>4. ASSUME NEW x \in Sessions PROVE EditorInv(x)'
  BY <1>1 DEF IInv, EditorInv, Roster, Stale
<1>5. ASSUME NEW v \in Saves PROVE SaveInv(v)'
  <2>1. SaveInv(v)
    BY DEF IInv
  <2> QED BY <2>1 DEF SaveInv, ChangedPages, Reap
<1>6. EditsAccounted'
  <2> SUFFICES ASSUME NEW x \in Sessions, NEW p \in DOMAIN editor'[x].doc
               PROVE  \/ <<p, editor'[x].doc[p].edit>> \in written
                      \/ p \in editor'[x].dirty
                      \/ \E v \in Saves : /\ save[v].by = x /\ save[v].awaited
                                          /\ p \in save[v].dirty \cap DOMAIN save[v].doc
                                          /\ save[v].doc[p] = editor'[x].doc[p]
    BY DEF EditsAccounted, Marked, Carried, Roster
  <2>1. \A y \in Sessions : \A q \in Roster(y) :
          \/ <<q, editor[y].doc[q].edit>> \in written
          \/ q \in editor[y].dirty
          \/ \E v \in Saves : /\ save[v].by = y /\ save[v].awaited
                              /\ q \in save[v].dirty \cap DOMAIN save[v].doc
                              /\ save[v].doc[q] = editor[y].doc[q]
    BY DEF IInv, EditsAccounted, Marked, Carried
  <2> QED BY <1>1, <2>1 DEF Roster
<1> QED BY <1>2, <1>3, <1>4, <1>5, <1>6 DEF IInv

LEMMA PutStep ==
  ASSUME IInv, NEW s \in Sessions, NEW p \in Pages, NEW g \in Slugs, Put(s, p, g)
  PROVE  IInv'
<1>1. /\ editor \in [Sessions -> Editor] /\ editor[s] \in Editor /\ edits \in 0..MaxEdits /\ turns \in 0..MaxTurns
      /\ seen \in [Sessions -> SUBSET Pages] /\ EditorInv(s) /\ MaxEdits \in Nat
  BY TypeFacts, EditorAssumption DEF IInv
<1> DEFINE page == [slug |-> g, edit |-> edits + 1]
           d == [q \in Roster(s) \cup {p} |-> IF q = p THEN page ELSE editor[s].doc[q]]
           e == [editor[s] EXCEPT !.doc = d, !.dirty = @ \cup {p}, !.unsaved = TRUE]
<1>2. edits' = edits + 1 /\ edits + 1 \in 0..MaxEdits /\ UNCHANGED <<rows, save, turns, written>>
  <2>1. edits < MaxEdits /\ edits' = edits + 1 /\ UNCHANGED <<rows, save, turns, written>>
    BY DEF Put
  <2> QED BY <1>1, <2>1
<1>3. page \in Content
  BY <1>2 DEF Content
<1>4. editor' = [editor EXCEPT ![s] = e] /\ seen' = [seen EXCEPT ![s] = @ \cup {p}]
  BY <1>1, <1>2 DEF Put
<1> HIDE DEF page
<1>5. editor[s].doc \in Documents /\ editor[s].dirty \subseteq Pages
  BY <1>1 DEF Editor
<1>6. Roster(s) \subseteq Pages /\ \A q \in Roster(s) : editor[s].doc[q] \in Content
  BY <1>5, DocumentFacts DEF Roster
<1>7. DOMAIN d = Roster(s) \cup {p} /\ d \in [DOMAIN d -> Content] /\ \A q \in Roster(s) \ {p} : d[q] = editor[s].doc[q]
  BY <1>3, <1>6
<1> HIDE DEF d
<1>8. d \in Documents
  BY <1>6, <1>7, DocumentFacts
<1>9. /\ e \in Editor /\ e.doc = d /\ e.dirty = editor[s].dirty \cup {p}
      /\ e.baseline = editor[s].baseline /\ e.load = editor[s].load
  BY <1>1, <1>5, <1>8 DEF Editor
<1> HIDE DEF e
<1>10. /\ seen' \in [Sessions -> SUBSET Pages] /\ seen'[s] = seen[s] \cup {p}
       /\ \A x \in Sessions : seen[x] \subseteq seen'[x]
  BY <1>1, <1>4
<1>11. DOMAIN e.doc \cup e.baseline \subseteq seen'[s] /\ (e.load # None => Stale(s, e.load))
  BY <1>1, <1>7, <1>9, <1>10 DEF EditorInv
<1>12. \A q \in DOMAIN e.doc : \/ q \in e.dirty
                               \/ q \in Roster(s) /\ e.doc[q] = editor[s].doc[q] /\ editor[s].dirty \subseteq e.dirty
  BY <1>7, <1>9
<1> QED BY <1>1, <1>2, <1>4, <1>9, <1>10, <1>11, <1>12, EditorStep

LEMMA DeletePageStep ==
  ASSUME IInv, NEW s \in Sessions, NEW p \in Pages, NEW moved \in SUBSET Pages, DeletePage(s, p, moved)
  PROVE  IInv'
<1>1. /\ editor \in [Sessions -> Editor] /\ editor[s] \in Editor /\ edits \in 0..MaxEdits /\ turns \in 0..MaxTurns
      /\ seen \in [Sessions -> SUBSET Pages] /\ EditorInv(s) /\ MaxEdits \in Nat
  BY TypeFacts, EditorAssumption DEF IInv
<1> DEFINE d == Restrict(editor[s].doc, Roster(s) \ {p})
           e == [editor[s] EXCEPT !.doc = d, !.dirty = @ \cup moved, !.unsaved = TRUE]
<1>2. edits' \in 0..MaxEdits /\ UNCHANGED <<rows, save, turns, written, seen>>
  BY <1>1 DEF DeletePage
<1>3. editor' = [editor EXCEPT ![s] = e]
  BY <1>1 DEF DeletePage
<1>4. editor[s].doc \in Documents /\ editor[s].dirty \subseteq Pages
  BY <1>1 DEF Editor
<1>5. Roster(s) \subseteq Pages /\ \A q \in Roster(s) : editor[s].doc[q] \in Content
  BY <1>4, DocumentFacts DEF Roster
<1>6. DOMAIN d = Roster(s) \ {p} /\ d \in [DOMAIN d -> Content] /\ \A q \in DOMAIN d : d[q] = editor[s].doc[q]
  BY <1>5 DEF Restrict
<1> HIDE DEF d
<1>7. d \in Documents
  BY <1>5, <1>6, DocumentFacts
<1>8. /\ e \in Editor /\ e.doc = d /\ e.dirty = editor[s].dirty \cup moved
      /\ e.baseline = editor[s].baseline /\ e.load = editor[s].load
  BY <1>1, <1>4, <1>7 DEF Editor
<1> HIDE DEF e
<1>9. DOMAIN e.doc \cup e.baseline \subseteq seen'[s] /\ (e.load # None => Stale(s, e.load))
  BY <1>1, <1>2, <1>6, <1>8 DEF EditorInv
<1>10. \A q \in DOMAIN e.doc : q \in Roster(s) /\ e.doc[q] = editor[s].doc[q] /\ editor[s].dirty \subseteq e.dirty
  BY <1>6, <1>8
<1> QED BY <1>1, <1>2, <1>3, <1>8, <1>9, <1>10, EditorStep

LEMMA ReloadReadStep ==
  ASSUME IInv, NEW s \in Sessions, ReloadRead(s)
  PROVE  IInv'
<1>1. /\ editor \in [Sessions -> Editor] /\ editor[s] \in Editor /\ edits \in 0..MaxEdits /\ turns \in 0..MaxTurns
      /\ seen \in [Sessions -> SUBSET Pages] /\ EditorInv(s) /\ MaxTurns \in Nat /\ RowsInv
      /\ DOMAIN rows \subseteq Pages /\ IsTable(rows)
  BY TypeFacts, EditorAssumption DEF IInv
<1> DEFINE site == Stored(rows)
           e == [editor[s] EXCEPT !.load = site]
<1>2. /\ turns' \in 0..MaxTurns /\ UNCHANGED <<rows, save, edits, written, seen>>
      /\ editor' = [editor EXCEPT ![s] = e]
  BY <1>1 DEF ReloadRead
<1>3. site \in Documents /\ DOMAIN site = Live(rows) /\ \A p \in Live(rows) : site[p].edit = rows[p].edit
  BY <1>1, StoredFacts DEF RowsInv, Sound
<1> HIDE DEF site
<1>4. /\ e \in Editor /\ e.doc = editor[s].doc /\ e.dirty = editor[s].dirty
      /\ e.baseline = editor[s].baseline /\ e.load = site
  BY <1>1, <1>3 DEF Editor
<1> HIDE DEF e
<1>5. DOMAIN e.doc \cup e.baseline \subseteq seen'[s] /\ Stale(s, e.load)
  BY <1>1, <1>2, <1>3, <1>4 DEF EditorInv, Roster, Stale, RowsInv
<1>6. \A q \in DOMAIN e.doc : q \in Roster(s) /\ e.doc[q] = editor[s].doc[q] /\ editor[s].dirty \subseteq e.dirty
  BY <1>4 DEF Roster
<1> QED BY <1>1, <1>2, <1>4, <1>5, <1>6, EditorStep

LEMMA ReloadApplyStep ==
  ASSUME IInv, NEW s \in Sessions, ReloadApply(s)
  PROVE  IInv'
<1>1. /\ editor \in [Sessions -> Editor] /\ editor[s] \in Editor /\ edits \in 0..MaxEdits /\ turns \in 0..MaxTurns
      /\ seen \in [Sessions -> SUBSET Pages] /\ EditorInv(s)
  BY TypeFacts DEF IInv
<1> DEFINE site == editor[s].load
           e == [doc |-> site, dirty |-> {}, unsaved |-> FALSE, baseline |-> DOMAIN site, load |-> None]
<1>2. /\ site # None /\ UNCHANGED <<rows, save, edits, turns, written>>
      /\ editor' = [editor EXCEPT ![s] = e] /\ seen' = [seen EXCEPT ![s] = @ \cup DOMAIN site]
  BY DEF ReloadApply
<1>3. site \in Documents /\ DOMAIN site \subseteq Pages /\ Stale(s, site)
  BY <1>1, <1>2, DocumentFacts DEF Editor, EditorInv
<1> HIDE DEF site
<1>4. e \in Editor /\ e.doc = site /\ e.dirty = {} /\ e.baseline = DOMAIN site /\ e.load = None
  BY <1>3 DEF Editor
<1> HIDE DEF e
<1>5. /\ seen' \in [Sessions -> SUBSET Pages] /\ seen'[s] = seen[s] \cup DOMAIN site
      /\ \A x \in Sessions : seen[x] \subseteq seen'[x]
  BY <1>1, <1>2, <1>3
<1>6. \A q \in DOMAIN e.doc : <<q, e.doc[q].edit>> \in written
  BY <1>3, <1>4 DEF Stale
<1> QED BY <1>1, <1>2, <1>4, <1>5, <1>6, EditorStep

-----------------------------------------------------------------------------
(* Saves.                                                                  *)

(* The save q carries the change that page p of session s shows.           *)
Carries(q, s, p, page) ==
    q.by = s /\ q.awaited /\ p \in q.dirty \cap DOMAIN q.doc /\ q.doc[p] = page

LEMMA AccountStep ==
  ASSUME EditsAccounted, written \subseteq written',
         \A s \in Sessions : editor'[s].doc = editor[s].doc,
         \A s \in Sessions : \A p \in Roster(s) :
           p \in editor[s].dirty =>
             p \in editor'[s].dirty \/ \E v \in Saves : Carries(save'[v], s, p, editor[s].doc[p]),
         \A s \in Sessions : \A p \in Roster(s) : \A v \in Saves :
           Carries(save[v], s, p, editor[s].doc[p]) =>
             \/ <<p, editor[s].doc[p].edit>> \in written'
             \/ p \in editor'[s].dirty
             \/ Carries(save'[v], s, p, editor[s].doc[p])
  PROVE  EditsAccounted'
<1> SUFFICES ASSUME NEW s \in Sessions, NEW p \in DOMAIN editor[s].doc
             PROVE  \/ <<p, editor[s].doc[p].edit>> \in written'
                    \/ p \in editor'[s].dirty
                    \/ \E v \in Saves : Carries(save'[v], s, p, editor[s].doc[p])
  BY DEF EditsAccounted, Marked, Carried, Roster, Carries
<1>1. \/ <<p, editor[s].doc[p].edit>> \in written
      \/ p \in editor[s].dirty
      \/ \E v \in Saves : Carries(save[v], s, p, editor[s].doc[p])
  BY DEF EditsAccounted, Marked, Carried, Roster, Carries
<1> QED BY <1>1 DEF Roster

(* One save moves on, and its session with it.                             *)
LEMMA SaveStep ==
  ASSUME IInv, NEW v \in Saves, NEW q \in Save, save' = [save EXCEPT ![v] = q],
         UNCHANGED <<rows, edits, turns, written, seen>>,
         editor' \in [Sessions -> Editor],
         \A s \in Sessions : /\ editor'[s].doc = editor[s].doc /\ editor'[s].load = editor[s].load
                             /\ editor'[s].baseline \subseteq seen[s],
         \A s \in Sessions : \A p \in Roster(s) :
           p \in editor[s].dirty => p \in editor'[s].dirty \/ Carries(q, s, p, editor[s].doc[p]),
         \A s \in Sessions : \A p \in Roster(s) :
           Carries(save[v], s, p, editor[s].doc[p]) =>
             \/ <<p, editor[s].doc[p].edit>> \in written
             \/ p \in editor'[s].dirty
             \/ Carries(q, s, p, editor[s].doc[p]),
         SaveInv(v)'
  PROVE  IInv'
<1>1. /\ save'[v] = q /\ \A x \in Saves \ {v} : save'[x] = save[x]
      /\ save' \in [Saves -> Save]
  BY TypeFacts DEF IInv
<1>2. TypeOK'
  BY <1>1 DEF IInv, TypeOK
<1>3. RowsInv'
  BY DEF IInv, RowsInv
<1>4. ASSUME NEW s \in Sessions PROVE EditorInv(s)'
  <2>1. EditorInv(s)
    BY DEF IInv
  <2> QED BY <2>1 DEF EditorInv, Roster, Stale
<1>5. ASSUME NEW x \in Saves, x # v PROVE SaveInv(x)'
  <2>1. SaveInv(x) /\ save'[x] = save[x]
    BY <1>1, <1>5 DEF IInv
  <2>2. rows' = rows /\ written' = written /\ seen' = seen
    OBVIOUS
  <2>3. ChangedPages(x)' = ChangedPages(x) /\ Reap(x)' = Reap(x)
    BY <2>1, <2>2 DEF ChangedPages, Reap
  <2>4. ChangedPages(x)' = ChangedPages(x) /\ Reap(x)' = Reap(x) /\ SaveInv(x) => SaveInv(x)'
    BY ONLY <2>1, <2>2 DEF SaveInv
  <2> QED BY <2>1, <2>3, <2>4
<1>6. EditsAccounted'
  BY <1>1, AccountStep DEF IInv
<1> QED BY <1>2, <1>3, <1>4, <1>5, <1>6 DEF IInv

LEMMA SentFacts ==
  ASSUME IInv, NEW s \in Sessions
  PROVE  /\ Sent(s) \in Save /\ Sent(s).pc = "sent" /\ Sent(s).by = s /\ Sent(s).doc = editor[s].doc
         /\ Sent(s).dirty = editor[s].dirty /\ Sent(s).baseline = editor[s].baseline /\ ~Sent(s).awaited
<1>1. editor[s] \in Editor
  BY TypeFacts DEF IInv
<1>2. /\ editor[s].doc \in Documents /\ editor[s].dirty \in SUBSET Pages /\ editor[s].baseline \in SUBSET Pages
  BY <1>1 DEF Editor
<1> DEFINE d == editor[s].doc
           m == editor[s].dirty
           b == editor[s].baseline
           q == Sent(s)
           n == NoSave
<1>3. q = [n EXCEPT !.pc = "sent", !.by = s, !.doc = d, !.dirty = m, !.baseline = b] /\ n \in Save /\ ~n.awaited
  BY NoSaveFacts DEF Sent
<1>4. d \in Documents /\ m \in SUBSET Pages /\ b \in SUBSET Pages
  BY <1>2
<1> HIDE DEF q, d, m, b, n
<1>5. q \in Save
  BY <1>3, <1>4 DEF Save
<1>6. q.pc = "sent" /\ q.by = s /\ q.doc = d /\ q.dirty = m /\ q.baseline = b
  BY <1>3 DEF Save
<1>7. ~q.awaited
  BY <1>3 DEF Save
<1> QED BY <1>5, <1>6, <1>7 DEF q, d, m, b

LEMMA SaveCurrentSiteStep ==
  ASSUME IInv, NEW s \in Sessions, NEW v \in Saves, SaveCurrentSite(s, v)
  PROVE  IInv'
<1>1. /\ editor \in [Sessions -> Editor] /\ editor[s] \in Editor
      /\ \A x \in Sessions : EditorInv(x)
      /\ SaveInv(v)
  BY TypeFacts DEF IInv
<1> DEFINE sent == Sent(s)
           q == [sent EXCEPT !.awaited = TRUE, !.mounted = TRUE]
           e == [editor[s] EXCEPT !.dirty = {}]
<1>2. /\ save[v].pc = "idle" /\ save' = [save EXCEPT ![v] = q] /\ editor' = [editor EXCEPT ![s] = e]
      /\ UNCHANGED <<rows, edits, turns, written, seen>>
  BY <1>1 DEF SaveCurrentSite
<1>3. /\ sent \in Save /\ sent.pc = "sent" /\ sent.by = s /\ sent.doc = editor[s].doc
      /\ sent.dirty = editor[s].dirty /\ sent.baseline = editor[s].baseline
  BY SentFacts
<1> HIDE DEF sent
<1>4. /\ q \in Save /\ q.pc = "sent" /\ q.by = s /\ q.doc = editor[s].doc /\ q.awaited
      /\ q.dirty = editor[s].dirty /\ q.baseline = editor[s].baseline
  BY <1>3 DEF Save
<1>5. e \in Editor /\ e.doc = editor[s].doc /\ e.load = editor[s].load /\ e.baseline = editor[s].baseline
  BY <1>1 DEF Editor
<1> HIDE DEF q, e
<1>6. /\ editor' \in [Sessions -> Editor] /\ editor'[s] = e
      /\ \A x \in Sessions \ {s} : editor'[x] = editor[x]
  BY <1>1, <1>2, <1>5
<1>7. \A x \in Sessions : /\ editor'[x].doc = editor[x].doc /\ editor'[x].load = editor[x].load
                          /\ editor'[x].baseline \subseteq seen[x]
  BY <1>1, <1>5, <1>6 DEF EditorInv
<1>8. \A x \in Sessions : \A p \in Roster(x) :
        p \in editor[x].dirty => p \in editor'[x].dirty \/ Carries(q, x, p, editor[x].doc[p])
  BY <1>4, <1>6 DEF Carries, Roster
<1>9. ~save[v].awaited
  BY <1>1, <1>2 DEF SaveInv
<1>10. save'[v] = q
  BY <1>2, TypeFacts DEF IInv
<1>11. SaveInv(v)'
  <2>1. DOMAIN q.doc \cup q.baseline \subseteq seen[s]
    BY <1>1, <1>4 DEF EditorInv, Roster
  <2> QED BY <1>2, <1>4, <1>10, <2>1 DEF SaveInv
<1> QED BY <1>2, <1>4, <1>6, <1>7, <1>8, <1>9, <1>11, SaveStep DEF Carries

LEMMA ChangedFacts ==
  ASSUME NEW v \in Saves, save[v] \in Save
  PROVE  /\ DOMAIN ChangedPages(v) = save[v].dirty \cap DOMAIN save[v].doc
         /\ DOMAIN ChangedPages(v) \subseteq Pages /\ IsBatch(ChangedPages(v))
         /\ \A p \in DOMAIN ChangedPages(v) : ChangedPages(v)[p] = save[v].doc[p]
<1> DEFINE d == save[v].doc
           m == save[v].dirty
<1>1. d \in Documents
  BY DEF Save
<1>2. DOMAIN d \subseteq Pages /\ d \in [DOMAIN d -> Content]
  BY <1>1, DocumentFacts
<1>3. ChangedPages(v) = [p \in m \cap DOMAIN d |-> d[p]]
  BY DEF ChangedPages, Restrict
<1> HIDE DEF d, m
<1>4. /\ DOMAIN ChangedPages(v) = m \cap DOMAIN d
      /\ \A p \in m \cap DOMAIN d : ChangedPages(v)[p] = d[p] /\ d[p] \in Content
  BY <1>2, <1>3
<1>5. IsBatch(ChangedPages(v))
  BY <1>3, <1>4 DEF IsBatch
<1> QED BY <1>2, <1>4, <1>5 DEF d, m

LEMMA AnswerFacts ==
  ASSUME IInv, NEW v \in Saves, NEW outcome \in Answered
  PROVE  /\ Answer(v, outcome) \in Save
         /\ save[v].awaited =>
              /\ Answer(v, outcome).pc = outcome /\ Answer(v, outcome).awaited
              /\ Answer(v, outcome).by = save[v].by /\ Answer(v, outcome).doc = save[v].doc
              /\ Answer(v, outcome).dirty = save[v].dirty /\ Answer(v, outcome).baseline = save[v].baseline
         /\ ~save[v].awaited => Answer(v, outcome).pc = "over" /\ ~Answer(v, outcome).awaited
<1> DEFINE o == save[v]
           q == Answer(v, outcome)
<1>1. o \in Save /\ outcome \in {"done", "refused"}
  BY TypeFacts DEF IInv, Answered
<1>2. Ended \in Save /\ Ended.pc = "over" /\ ~Ended.awaited
  BY NoSaveFacts
<1>3. q = IF o.awaited THEN [o EXCEPT !.pc = outcome] ELSE Ended
  BY DEF Answer
<1> HIDE DEF o, q
<1>4. CASE o.awaited
  <2>1. q = [o EXCEPT !.pc = outcome]
    BY <1>3, <1>4
  <2>2. q \in Save /\ q.pc = outcome /\ q.by = o.by /\ q.doc = o.doc /\ q.dirty = o.dirty /\ q.baseline = o.baseline
    BY <1>1, <2>1 DEF Save
  <2>3. q.awaited
    BY <1>1, <1>4, <2>1 DEF Save
  <2> QED BY <1>4, <2>2, <2>3 DEF o, q
<1>5. CASE ~o.awaited
  <2>1. q = Ended
    BY <1>3, <1>5
  <2> QED BY <1>2, <1>5, <2>1 DEF o, q
<1> QED BY <1>4, <1>5

(* The pages of a save that was answered are committed.                    *)
LEMMA SaveSucceedsStep ==
  ASSUME IInv, NEW v \in Saves, SaveSucceeds(v)
  PROVE  IInv'
<1> DEFINE s == save[v].by
           b == IF save[v].mounted THEN DOMAIN save[v].doc ELSE editor[s].baseline
           e == [editor[s] EXCEPT !.baseline = b, !.unsaved = FALSE]
<1>1. /\ editor \in [Sessions -> Editor] /\ \A x \in Sessions : EditorInv(x)
      /\ SaveInv(v) /\ save[v] \in Save /\ save[v].pc = "done"
  BY TypeFacts DEF IInv, SaveSucceeds
<1>2. s \in Sessions /\ DOMAIN save[v].doc \subseteq seen[s] /\ seen \in [Sessions -> SUBSET Pages]
  BY <1>1, TypeFacts DEF SaveInv, IInv
<1>3. b \subseteq seen[s] /\ b \in SUBSET Pages
  <2>1. editor[s].baseline \subseteq seen[s] /\ seen[s] \subseteq Pages
    BY <1>1, <1>2 DEF EditorInv
  <2> QED BY <1>2, <2>1
<1>4. editor' = [editor EXCEPT ![s] = e] /\ save' = [save EXCEPT ![v] = Ended]
      /\ UNCHANGED <<rows, edits, turns, written, seen>>
  BY <1>1, <1>2 DEF SaveSucceeds
<1>5. editor[s] \in Editor
  BY <1>1, <1>2
<1> HIDE DEF b
<1>6. e \in Editor /\ e.doc = editor[s].doc /\ e.dirty = editor[s].dirty /\ e.load = editor[s].load /\ e.baseline = b
  BY <1>3, <1>5 DEF Editor
<1> HIDE DEF e
<1>7. /\ editor' \in [Sessions -> Editor] /\ editor'[s] = e /\ \A x \in Sessions \ {s} : editor'[x] = editor[x]
  BY <1>1, <1>2, <1>4, <1>6
<1>8. \A x \in Sessions : /\ editor'[x].doc = editor[x].doc /\ editor'[x].load = editor[x].load
                          /\ editor'[x].baseline \subseteq seen[x] /\ editor'[x].dirty = editor[x].dirty
  BY <1>1, <1>3, <1>6, <1>7 DEF EditorInv
<1>9. Ended \in Save /\ Ended.pc = "over" /\ ~Ended.awaited
  BY NoSaveFacts
<1>10. \A x \in Sessions : \A p \in Roster(x) :
         Carries(save[v], x, p, editor[x].doc[p]) => <<p, editor[x].doc[p].edit>> \in written
  BY <1>1, ChangedFacts DEF Carries, SaveInv
<1>11. SaveInv(v)'
  <2>1. save'[v] = Ended
    BY <1>4, TypeFacts DEF IInv
  <2> QED BY <1>9, <2>1 DEF SaveInv
<1> QED BY <1>4, <1>7, <1>8, <1>9, <1>10, <1>11, SaveStep

(* A save that failed is marked again.                                     *)
LEMMA SaveFailsStep ==
  ASSUME IInv, NEW v \in Saves, SaveFails(v)
  PROVE  IInv'
<1> DEFINE o == save[v]
           s == o.by
           m == editor[s].dirty \cup o.dirty
           e == [editor[s] EXCEPT !.dirty = m]
           q == IF o.pc \in Answered THEN Ended ELSE [o EXCEPT !.awaited = FALSE]
<1>1. /\ editor \in [Sessions -> Editor] /\ \A x \in Sessions : EditorInv(x)
      /\ SaveInv(v) /\ o \in Save /\ o.awaited
  BY TypeFacts DEF IInv, SaveFails
<1>2. o.pc \notin {"idle", "over"} /\ s \in Sessions /\ DOMAIN o.doc \cup o.baseline \subseteq seen[s]
  BY <1>1 DEF SaveInv
<1>3. editor' = [editor EXCEPT ![s] = e] /\ save' = [save EXCEPT ![v] = q]
      /\ UNCHANGED <<rows, edits, turns, written, seen>>
  BY <1>1, <1>2, TypeFacts DEF SaveFails, IInv
<1>4. editor[s] \in Editor /\ m \in SUBSET Pages
  BY <1>1, <1>2 DEF Editor, Save
<1>5. m = editor[s].dirty \cup o.dirty
  OBVIOUS
<1> HIDE DEF m
<1>6. e \in Editor /\ e.doc = editor[s].doc /\ e.dirty = m /\ e.load = editor[s].load
      /\ e.baseline = editor[s].baseline
  BY <1>4 DEF Editor
<1> HIDE DEF e
<1>7. /\ editor' \in [Sessions -> Editor] /\ editor'[s] = e /\ \A x \in Sessions \ {s} : editor'[x] = editor[x]
  BY <1>1, <1>2, <1>3, <1>6
<1>8. \A x \in Sessions : /\ editor'[x].doc = editor[x].doc /\ editor'[x].load = editor[x].load
                          /\ editor'[x].baseline \subseteq seen[x] /\ editor[x].dirty \subseteq editor'[x].dirty
  BY <1>1, <1>5, <1>6, <1>7 DEF EditorInv
<1>9. Ended \in Save /\ Ended.pc = "over" /\ ~Ended.awaited
  BY NoSaveFacts
<1>10. q \in Save /\ (q = Ended \/ (/\ q.pc = o.pc /\ q.by = s /\ q.doc = o.doc /\ q.dirty = o.dirty
                                    /\ q.baseline = o.baseline /\ q.overtaken = o.overtaken
                                    /\ o.pc \in {"sent", "validated"}))
  <2>1. CASE o.pc \in Answered
    BY <1>9, <2>1
  <2>2. CASE o.pc \notin Answered
    <3> HIDE DEF o
    <3>1. q = [o EXCEPT !.awaited = FALSE]
      BY <2>2
    <3>2. q \in Save /\ q.pc = o.pc /\ q.by = o.by /\ q.doc = o.doc /\ q.dirty = o.dirty /\ q.baseline = o.baseline
      BY <1>1, <3>1 DEF Save
    <3>3. q.overtaken = o.overtaken
      BY Zenon, <1>1, <3>1 DEF Save
    <3>4. o.pc \in {"sent", "validated"}
      BY <1>1, <1>2, <2>2 DEF Save, Answered
    <3> QED BY <3>2, <3>3, <3>4
  <2> QED BY <2>1, <2>2
<1> HIDE DEF q
<1>11. save'[v] = q
  BY <1>3, TypeFacts DEF IInv
<1>12. SaveInv(v)'
  <2>1. CASE q = Ended
    BY <1>9, <1>11, <2>1 DEF SaveInv
  <2>2. CASE q # Ended
    <3>1. /\ q.pc = o.pc /\ q.by = s /\ q.doc = o.doc /\ q.dirty = o.dirty
          /\ q.baseline = o.baseline /\ q.overtaken = o.overtaken /\ o.pc \in {"sent", "validated"}
      BY <1>10, <2>2
    <3>2. rows' = rows /\ written' = written /\ seen' = seen
      BY <1>3
    <3>3. ChangedPages(v)' = ChangedPages(v) /\ Reap(v)' = Reap(v)
      BY <1>11, <3>1, <3>2 DEF ChangedPages, Reap
    <3> QED BY <1>1, <1>2, <1>11, <3>1, <3>2, <3>3 DEF SaveInv
  <2> QED BY <2>1, <2>2
<1>13. \A x \in Sessions : \A p \in Roster(x) :
         Carries(save[v], x, p, editor[x].doc[p]) => p \in editor'[x].dirty
  BY <1>5, <1>6, <1>7 DEF Carries
<1> QED BY <1>3, <1>7, <1>8, <1>10, <1>12, <1>13, SaveStep

(* A request that is answered, or goes on unheard, and changes no page.    *)
LEMMA AnsweredStep ==
  ASSUME IInv, NEW v \in Saves, NEW outcome \in Answered, save' = [save EXCEPT ![v] = Answer(v, outcome)],
         save[v].pc \in {"sent", "validated"}, outcome = "refused",
         UNCHANGED <<rows, editor, edits, turns, written, seen>>
  PROVE  IInv'
<1> DEFINE q == Answer(v, outcome)
<1>1. /\ editor \in [Sessions -> Editor] /\ \A x \in Sessions : EditorInv(x)
      /\ SaveInv(v) /\ save \in [Saves -> Save]
  BY TypeFacts DEF IInv
<1>2. /\ q \in Save
      /\ save[v].awaited => /\ q.pc = "refused" /\ q.awaited /\ q.by = save[v].by /\ q.doc = save[v].doc
                            /\ q.dirty = save[v].dirty /\ q.baseline = save[v].baseline
      /\ ~save[v].awaited => q.pc = "over" /\ ~q.awaited
  BY AnswerFacts
<1> HIDE DEF q
<1>3. save' = [save EXCEPT ![v] = q] /\ save'[v] = q
  BY <1>1 DEF q
<1>4. rows' = rows /\ editor' = editor /\ written' = written /\ seen' = seen
  OBVIOUS
<1>5. SaveInv(v)'
  <2>1. CASE save[v].awaited
    BY <1>1, <1>2, <1>3, <1>4, <2>1 DEF SaveInv
  <2>2. CASE ~save[v].awaited
    BY <1>2, <1>3, <2>2 DEF SaveInv
  <2> QED BY <2>1, <2>2
<1>6. \A x \in Sessions : \A p \in Roster(x) :
        Carries(save[v], x, p, editor[x].doc[p]) => Carries(q, x, p, editor[x].doc[p])
  BY <1>2 DEF Carries
<1>7. \A x \in Sessions : editor[x].baseline \subseteq seen[x]
  BY <1>1 DEF EditorInv
<1> QED BY <1>1, <1>2, <1>3, <1>4, <1>5, <1>6, <1>7, SaveStep

LEMMA ValidateStep ==
  ASSUME IInv, NEW v \in Saves, Validate(v)
  PROVE  IInv'
<1> DEFINE o == save[v]
           q == [o EXCEPT !.pc = "validated", !.overtaken = FALSE]
<1>1. /\ editor \in [Sessions -> Editor] /\ \A x \in Sessions : EditorInv(x)
      /\ SaveInv(v) /\ save \in [Saves -> Save] /\ o \in Save /\ o.pc = "sent"
  BY TypeFacts DEF IInv, Validate
<1>2. rows' = rows /\ editor' = editor /\ edits' = edits /\ turns' = turns /\ written' = written /\ seen' = seen
  BY DEF Validate
<1>3. CASE ~SlugsFree(rows, ChangedPages(v), Reap(v))
  <2>1. save' = [save EXCEPT ![v] = Answer(v, "refused")]
    BY <1>3 DEF Validate
  <2> QED BY <1>1, <1>2, <2>1, AnsweredStep DEF Answered
<1>4. CASE SlugsFree(rows, ChangedPages(v), Reap(v))
  <2>1. save' = [save EXCEPT ![v] = q]
    BY <1>1, <1>4 DEF Validate
  <2> HIDE DEF o
  <2>2. q \in Save /\ q.pc = "validated" /\ q.by = o.by /\ q.doc = o.doc /\ q.dirty = o.dirty /\ q.baseline = o.baseline
    BY <1>1 DEF Save
  <2>3. q.awaited = o.awaited
    BY Zenon, <1>1 DEF Save
  <2> HIDE DEF q
  <2>4. save'[v] = q
    BY <1>1, <2>1
  <2>5. ChangedPages(v)' = ChangedPages(v) /\ Reap(v)' = Reap(v)
    BY <1>2, <2>2, <2>4 DEF o, ChangedPages, Reap
  <2>6. SaveInv(v)'
    BY <1>1, <1>2, <1>4, <2>2, <2>4, <2>5 DEF o, SaveInv
  <2>7. \A x \in Sessions : \A p \in Roster(x) :
          Carries(save[v], x, p, editor[x].doc[p]) => Carries(q, x, p, editor[x].doc[p])
    BY <2>2, <2>3 DEF Carries, o
  <2>8. \A x \in Sessions : editor[x].baseline \subseteq seen[x]
    BY <1>1 DEF EditorInv
  <2> QED BY <1>1, <1>2, <2>1, <2>2, <2>6, <2>7, <2>8, SaveStep
<1> QED BY <1>3, <1>4

(* A save without regard to the hook that sent it.                         *)
Same(a, b) ==
    /\ a.pc = b.pc /\ a.by = b.by /\ a.doc = b.doc /\ a.dirty = b.dirty /\ a.baseline = b.baseline
    /\ (a.awaited <=> b.awaited) /\ (a.overtaken <=> b.overtaken)

LEMMA LeftFacts ==
  ASSUME NEW o \in Save, NEW q, q = [o EXCEPT !.mounted = FALSE]
  PROVE  q \in Save /\ Same(q, o)
<1>1. q \in Save /\ q.pc = o.pc /\ q.by = o.by /\ q.doc = o.doc /\ q.dirty = o.dirty /\ q.baseline = o.baseline
  BY DEF Save
<1>2. q.awaited = o.awaited /\ q.overtaken = o.overtaken
  BY Zenon DEF Save
<1> QED BY <1>1, <1>2 DEF Same

LEMMA SameSaveInv ==
  ASSUME NEW v \in Saves, SaveInv(v), Same(save'[v], save[v]), rows' = rows, written' = written, seen' = seen
  PROVE  SaveInv(v)'
<1>1. ChangedPages(v)' = ChangedPages(v) /\ Reap(v)' = Reap(v)
  BY DEF Same, ChangedPages, Reap
<1> QED BY <1>1 DEF Same, SaveInv

LEMMA RemountStep ==
  ASSUME IInv, NEW s \in Sessions, NEW v \in Saves, Remount(s, v)
  PROVE  IInv'
<1> DEFINE left == [w \in Saves |-> IF save[w].by = s THEN [save[w] EXCEPT !.mounted = FALSE] ELSE save[w]]
           sent == Sent(s)
           e == [editor[s] EXCEPT !.baseline = {}]
<1>1. /\ editor \in [Sessions -> Editor] /\ editor[s] \in Editor /\ \A x \in Sessions : EditorInv(x)
      /\ save \in [Saves -> Save] /\ \A x \in Saves : SaveInv(x)
      /\ turns \in 0..MaxTurns /\ MaxTurns \in Nat
  BY TypeFacts, EditorAssumption DEF IInv
<1>2. \A x \in Saves : left[x] \in Save /\ Same(left[x], save[x])
  <2> SUFFICES ASSUME NEW x \in Saves PROVE left[x] \in Save /\ Same(left[x], save[x])
    OBVIOUS
  <2>1. CASE save[x].by = s
    <3>1. left[x] = [save[x] EXCEPT !.mounted = FALSE]
      BY <2>1
    <3> HIDE DEF left
    <3> QED BY <1>1, <3>1, LeftFacts
  <2>2. CASE save[x].by # s
    <3>1. left[x] = save[x]
      BY <2>2
    <3> QED BY <1>1, <3>1 DEF Same
  <2> QED BY <2>1, <2>2
<1>3. DOMAIN left = Saves /\ left \in [Saves -> Save]
  BY <1>2
<1>4. /\ sent \in Save /\ sent.pc = "sent" /\ sent.by = s /\ sent.doc = editor[s].doc
      /\ sent.dirty = editor[s].dirty /\ sent.baseline = editor[s].baseline /\ ~sent.awaited
  BY SentFacts
<1> HIDE DEF sent
<1>5. /\ save[v].pc = "idle" /\ turns' \in 0..MaxTurns /\ editor' = [editor EXCEPT ![s] = e]
      /\ save' = IF editor[s].unsaved THEN [left EXCEPT ![v] = sent] ELSE left
      /\ rows' = rows /\ edits' = edits /\ written' = written /\ seen' = seen
  BY <1>1 DEF Remount, sent
<1> HIDE DEF left
<1>6. e \in Editor /\ e.doc = editor[s].doc /\ e.dirty = editor[s].dirty /\ e.load = editor[s].load /\ e.baseline = {}
  BY <1>1 DEF Editor
<1> HIDE DEF e
<1>7. /\ editor' \in [Sessions -> Editor] /\ editor'[s] = e /\ \A x \in Sessions \ {s} : editor'[x] = editor[x]
  BY <1>1, <1>5, <1>6
<1>8. \A x \in Sessions : /\ editor'[x].doc = editor[x].doc /\ editor'[x].load = editor[x].load
                          /\ editor'[x].baseline \subseteq seen[x] /\ editor'[x].dirty = editor[x].dirty
  BY <1>1, <1>6, <1>7 DEF EditorInv
<1>9. /\ save' \in [Saves -> Save] /\ \A x \in Saves \ {v} : save'[x] = left[x]
      /\ save'[v] \in {sent, left[v]}
  BY <1>3, <1>4, <1>5
<1>10. TypeOK'
  BY <1>5, <1>7, <1>9 DEF IInv, TypeOK
<1>11. RowsInv'
  BY <1>5 DEF IInv, RowsInv
<1>12. ASSUME NEW x \in Sessions PROVE EditorInv(x)'
  <2>1. EditorInv(x)
    BY <1>1
  <2> QED BY <1>5, <1>8, <2>1 DEF EditorInv, Roster, Stale
<1>13. ASSUME NEW x \in Saves PROVE SaveInv(x)'
  <2>1. CASE save'[x] = left[x]
    BY <1>1, <1>2, <1>5, <2>1, SameSaveInv
  <2>2. CASE save'[x] = sent
    <3>1. DOMAIN sent.doc \cup sent.baseline \subseteq seen[s]
      BY <1>1, <1>4 DEF EditorInv, Roster
    <3> QED BY <1>4, <1>5, <2>2, <3>1 DEF SaveInv
  <2> QED BY <1>9, <2>1, <2>2
<1>14. EditsAccounted'
  <2>1. ~save[v].awaited
    BY <1>1, <1>5 DEF SaveInv
  <2>2. \A x \in Saves \ {v} : Same(save'[x], save[x])
    BY <1>2, <1>9
  <2>3. \A x \in Sessions : \A p \in Roster(x) : \A w \in Saves :
          Carries(save[w], x, p, editor[x].doc[p]) => Carries(save'[w], x, p, editor[x].doc[p])
    BY <2>1, <2>2 DEF Carries, Same
  <2> QED BY <1>5, <1>8, <2>3, AccountStep DEF IInv
<1> QED BY <1>10, <1>11, <1>12, <1>13, <1>14 DEF IInv

LEMMA OvertakenFacts ==
  ASSUME NEW o \in Save, NEW q, NEW b \in BOOLEAN, q = [o EXCEPT !.overtaken = b]
  PROVE  /\ q \in Save /\ q.pc = o.pc /\ q.by = o.by /\ q.doc = o.doc /\ q.dirty = o.dirty
         /\ q.baseline = o.baseline /\ (q.awaited <=> o.awaited) /\ (q.overtaken <=> b)
<1>1. q \in Save /\ q.pc = o.pc /\ q.by = o.by /\ q.doc = o.doc /\ q.dirty = o.dirty /\ q.baseline = o.baseline
  BY DEF Save
<1>2. q.awaited = o.awaited /\ q.overtaken = b
  BY Zenon DEF Save
<1> QED BY <1>1, <1>2

(* The table a commit leaves.                                              *)
LEMMA CommitFacts ==
  ASSUME IInv, NEW v \in Saves, Commits(rows, ChangedPages(v), Reap(v)),
         rows' = Reconciled(rows, ChangedPages(v), Reap(v)),
         written' = written \cup {<<p, save[v].doc[p].edit>> : p \in DOMAIN ChangedPages(v)}
  PROVE  /\ DOMAIN rows' \subseteq Pages /\ IsTable(rows')
         /\ written' \subseteq Pages \X (0..MaxEdits) /\ RowsInv'
         /\ Live(rows') = (Live(rows) \ Reap(v)) \cup DOMAIN ChangedPages(v)
<1> DEFINE w == ChangedPages(v)
           r == Reap(v)
           f == rows'
<1>1. /\ DOMAIN rows \subseteq Pages /\ IsTable(rows) /\ save[v] \in Save /\ written \subseteq Pages \X (0..MaxEdits)
  BY TypeFacts DEF IInv
<1>2. Sound(rows) /\ \A p \in Live(rows) : <<p, rows[p].edit>> \in written
  BY DEF IInv, RowsInv
<1>3. /\ DOMAIN w \subseteq Pages /\ IsBatch(w) /\ \A p \in DOMAIN w : w[p] = save[v].doc[p]
  BY <1>1, ChangedFacts
<1>4. /\ f = Reconciled(rows, w, r) /\ Commits(rows, w, r)
      /\ written' = written \cup {<<p, w[p].edit>> : p \in DOMAIN w}
  BY <1>3
<1> HIDE DEF w, r
<1>5. /\ IsTable(f) /\ DOMAIN f = DOMAIN rows \cup DOMAIN w
      /\ Live(f) = (Live(rows) \ r) \cup DOMAIN w
      /\ \A p \in DOMAIN w : f[p].slug = w[p].slug /\ f[p].edit = w[p].edit
      /\ \A p \in Live(f) \ DOMAIN w : f[p].slug = rows[p].slug /\ f[p].edit = rows[p].edit
  <2>1. IsReconciled(f, rows, w, r)
    BY <1>1, <1>3, <1>4, ReconciledFacts
  <2> HIDE DEF f
  <2> QED BY <2>1 DEF IsReconciled
<1>6. SlugsUnique(f)
  BY <1>4 DEF Commits, Reconciled
<1> HIDE DEF f
<1>7. \A p \in DOMAIN w : w[p].slug \in Slugs /\ w[p].edit \in 0..MaxEdits
  BY <1>3 DEF IsBatch, Content
<1>8. \A p \in Live(f) : f[p].slug \in Slugs /\ <<p, f[p].edit>> \in written'
  <2> TAKE p \in Live(f)
  <2>1. CASE p \in DOMAIN w
    BY <1>4, <1>5, <1>7, <2>1
  <2>2. CASE p \notin DOMAIN w
    BY <1>2, <1>4, <1>5, <2>2 DEF Sound
  <2> QED BY <2>1, <2>2
<1>9. written' \subseteq Pages \X (0..MaxEdits)
  BY <1>1, <1>3, <1>4, <1>7
<1> QED BY <1>1, <1>3, <1>5, <1>6, <1>8, <1>9 DEF f, w, r, RowsInv, Sound

LEMMA ReconcileStep ==
  ASSUME IInv, NEW v \in Saves, Reconcile(v)
  PROVE  IInv'
<1>1. /\ editor \in [Sessions -> Editor] /\ \A x \in Sessions : EditorInv(x)
      /\ save \in [Saves -> Save] /\ \A x \in Saves : SaveInv(x) /\ save[x] \in Save
      /\ save[v].pc = "validated"
  BY TypeFacts DEF IInv, Reconcile
<1>2. editor' = editor /\ edits' = edits /\ turns' = turns /\ seen' = seen
  BY DEF Reconcile
<1>3. CASE ~Commits(rows, ChangedPages(v), Reap(v))
  <2>1. save' = [save EXCEPT ![v] = Answer(v, "refused")] /\ rows' = rows /\ written' = written
    BY <1>3 DEF Reconcile
  <2> QED BY <1>1, <1>2, <2>1, AnsweredStep DEF Answered
<1>4. CASE Commits(rows, ChangedPages(v), Reap(v))
  <2> DEFINE q == Answer(v, "done")
             o(x) == [save[x] EXCEPT !.overtaken = save[x].pc = "validated"]
  <2>1. /\ rows' = Reconciled(rows, ChangedPages(v), Reap(v))
        /\ written' = written \cup {<<p, save[v].doc[p].edit>> : p \in DOMAIN ChangedPages(v)}
        /\ save' = [x \in Saves |-> IF x = v THEN q ELSE o(x)]
    BY <1>4 DEF Reconcile
  <2>2. /\ DOMAIN rows' \subseteq Pages /\ IsTable(rows')
        /\ written' \subseteq Pages \X (0..MaxEdits) /\ RowsInv'
    BY <1>4, <2>1, CommitFacts
  <2>3. /\ q \in Save
        /\ save[v].awaited => /\ q.pc = "done" /\ q.awaited /\ q.by = save[v].by /\ q.doc = save[v].doc
                              /\ q.dirty = save[v].dirty /\ q.baseline = save[v].baseline
        /\ ~save[v].awaited => q.pc = "over" /\ ~q.awaited
    BY AnswerFacts DEF Answered
  <2> HIDE DEF q
  <2>4. save'[v] = q /\ \A x \in Saves \ {v} : save'[x] = o(x)
    BY <2>1
  <2>5. ASSUME NEW x \in Saves \ {v}
        PROVE  /\ save'[x] \in Save /\ save'[x].pc = save[x].pc /\ save'[x].by = save[x].by
               /\ save'[x].doc = save[x].doc /\ save'[x].dirty = save[x].dirty
               /\ save'[x].baseline = save[x].baseline /\ (save'[x].awaited <=> save[x].awaited)
               /\ (save'[x].overtaken <=> save[x].pc = "validated")
    <3> DEFINE b == save[x].pc = "validated"
    <3>1. save'[x] = [save[x] EXCEPT !.overtaken = b] /\ b \in BOOLEAN /\ save[x] \in Save
      BY <1>1, <2>4
    <3> HIDE DEF b
    <3>2. /\ save'[x] \in Save /\ save'[x].pc = save[x].pc /\ save'[x].by = save[x].by
          /\ save'[x].doc = save[x].doc /\ save'[x].dirty = save[x].dirty
          /\ save'[x].baseline = save[x].baseline /\ (save'[x].awaited <=> save[x].awaited)
          /\ (save'[x].overtaken <=> b)
      BY <3>1, OvertakenFacts
    <3> QED BY <3>2 DEF b
  <2> HIDE DEF o
  <2>6. save' \in [Saves -> Save]
    BY <2>1, <2>3, <2>4, <2>5
  <2>7. TypeOK'
    <3>1. rows' \in UNION {[R -> [slug : Slugs \cup {Parked}, edit : 0..MaxEdits, live : BOOLEAN]] : R \in SUBSET Pages}
      BY <2>2, RowsType
    <3> QED BY <1>2, <2>2, <2>6, <3>1 DEF IInv, TypeOK
  <2>8. written \subseteq written'
    BY <2>1
  <2>9. ASSUME NEW x \in Sessions PROVE EditorInv(x)'
    <3>1. EditorInv(x)
      BY <1>1
    <3> QED BY <1>2, <2>8, <3>1 DEF EditorInv, Roster, Stale
  <2>10. SaveInv(v)'
    <3>1. CASE save[v].awaited
      <4>1. ChangedPages(v)' = ChangedPages(v)
        BY <2>3, <2>4, <3>1 DEF ChangedPages
      <4>2. \A p \in DOMAIN ChangedPages(v) : <<p, save[v].doc[p].edit>> \in written'
        BY <2>1
      <4> QED BY <1>1, <1>2, <2>3, <2>4, <3>1, <4>1, <4>2 DEF SaveInv
    <3>2. CASE ~save[v].awaited
      BY <2>3, <2>4, <3>2 DEF SaveInv
    <3> QED BY <3>1, <3>2
  <2>11. ASSUME NEW x \in Saves, x # v PROVE SaveInv(x)'
    <3>1. ChangedPages(x)' = ChangedPages(x)
      BY <2>5, <2>11 DEF ChangedPages
    <3>2. SaveInv(x)
      BY <1>1
    <3> QED BY <1>2, <2>5, <2>8, <2>11, <3>1, <3>2 DEF SaveInv
  <2>12. EditsAccounted'
    <3>1. \A x \in Sessions : \A p \in Roster(x) : \A y \in Saves :
            Carries(save[y], x, p, editor[x].doc[p]) => Carries(save'[y], x, p, editor[x].doc[p])
      <4> SUFFICES ASSUME NEW y \in Saves
                   PROVE  \A x \in Sessions : \A p \in Roster(x) :
                            Carries(save[y], x, p, editor[x].doc[p]) => Carries(save'[y], x, p, editor[x].doc[p])
        OBVIOUS
      <4>1. CASE y = v
        BY <2>3, <2>4, <4>1 DEF Carries
      <4>2. CASE y # v
        BY <2>5, <4>2 DEF Carries
      <4> QED BY <4>1, <4>2
    <3> QED BY <1>2, <2>8, <3>1, AccountStep DEF IInv
  <2> QED BY <2>2, <2>7, <2>9, <2>10, <2>11, <2>12 DEF IInv
<1> QED BY <1>3, <1>4

-----------------------------------------------------------------------------
(* The specification.                                                      *)

LEMMA InitInv == Init => IInv
<1> SUFFICES ASSUME Init PROVE IInv
  OBVIOUS
<1> DEFINE e == [doc |-> Stored(rows), dirty |-> {}, unsaved |-> FALSE, baseline |-> DOMAIN rows, load |-> None]
<1>1. PICK R \in SUBSET Pages : rows \in [R -> [slug : Slugs, edit : {0}, live : {TRUE}]]
  BY DEF Init
<1>2. /\ DOMAIN rows \subseteq Pages
      /\ \A p \in DOMAIN rows : rows[p] \in Row /\ rows[p].slug \in Slugs /\ rows[p].edit = 0 /\ rows[p].live
  <2>1. ASSUME NEW x \in [slug : Slugs, edit : {0}, live : {TRUE}]
        PROVE  x \in Row /\ x.slug \in Slugs /\ x.edit = 0 /\ x.live
    <3>1. x = [slug |-> x.slug, edit |-> x.edit, live |-> x.live] /\ x.slug \in Slugs /\ x.edit = 0 /\ x.live \in {TRUE}
      BY Zenon
    <3>2. x.live = TRUE
      BY Zenon, <3>1
    <3>3. x.edit \in 0..MaxEdits
      BY <3>1, EditorAssumption
    <3>4. x.live \in BOOLEAN /\ x.slug \in Slugs \cup {Parked}
      BY Zenon, <3>1, <3>2
    <3>5. x \in Row
      BY Zenon, <3>1, <3>3, <3>4 DEF Row
    <3> QED BY <3>1, <3>2, <3>5
  <2>2. DOMAIN rows = R /\ \A p \in R : rows[p] \in [slug : Slugs, edit : {0}, live : {TRUE}]
    BY <1>1
  <2> QED BY <2>1, <2>2
<1>3. IsTable(rows) /\ Live(rows) = DOMAIN rows /\ Sound(rows)
  BY <1>1, <1>2 DEF IsTable, Live, Sound, Init
<1>4. /\ editor = [s \in Sessions |-> e] /\ save = [x \in Saves |-> NoSave] /\ edits = 0 /\ turns = 0
      /\ written = (DOMAIN rows) \X {0} /\ seen = [s \in Sessions |-> DOMAIN rows]
  BY DEF Init
<1>5. /\ Stored(rows) \in Documents /\ DOMAIN Stored(rows) = DOMAIN rows
      /\ \A p \in DOMAIN rows : Stored(rows)[p].edit = 0
  BY <1>2, <1>3, StoredFacts
<1>6. /\ e \in Editor /\ e.doc = Stored(rows) /\ e.baseline = DOMAIN rows /\ e.load = None
  BY <1>2, <1>5 DEF Editor
<1> HIDE DEF e
<1>7. NoSave \in Save /\ NoSave.pc = "idle" /\ ~NoSave.awaited
  BY NoSaveFacts
<1>8. TypeOK
  <2>1. rows \in UNION {[Q -> [slug : Slugs \cup {Parked}, edit : 0..MaxEdits, live : BOOLEAN]] : Q \in SUBSET Pages}
    BY <1>2, <1>3, RowsType
  <2>2. 0 \in 0..MaxEdits /\ 0 \in 0..MaxTurns
    BY EditorAssumption
  <2> QED BY <1>2, <1>4, <1>6, <1>7, <2>1, <2>2 DEF TypeOK
<1>9. RowsInv
  BY <1>2, <1>3, <1>4 DEF RowsInv
<1>10. EditsAccounted
  BY <1>4, <1>5, <1>6 DEF EditsAccounted, Roster
<1>11. \A s \in Sessions : EditorInv(s)
  BY <1>4, <1>5, <1>6 DEF EditorInv, Roster
<1>12. \A x \in Saves : SaveInv(x)
  BY <1>4, <1>7 DEF SaveInv
<1> QED BY <1>8, <1>9, <1>10, <1>11, <1>12 DEF IInv

LEMMA StutterInv == IInv /\ UNCHANGED vars => IInv'
<1> SUFFICES ASSUME IInv, UNCHANGED vars PROVE IInv'
  OBVIOUS
<1>1. /\ rows' = rows /\ editor' = editor /\ save' = save /\ edits' = edits /\ turns' = turns
      /\ written' = written /\ seen' = seen
  BY DEF vars
<1>2. TypeOK' /\ RowsInv'
  BY <1>1 DEF IInv, TypeOK, RowsInv
<1>3. EditsAccounted'
  BY <1>1 DEF IInv, EditsAccounted, Marked, Carried, Roster
<1>4. \A s \in Sessions : EditorInv(s)'
  BY <1>1 DEF IInv, EditorInv, Roster, Stale
<1>5. ASSUME NEW x \in Saves PROVE SaveInv(x)'
  <2>1. SaveInv(x) /\ Same(save'[x], save[x])
    BY <1>1 DEF IInv, Same
  <2> QED BY <1>1, <2>1, SameSaveInv
<1> QED BY <1>2, <1>3, <1>4, <1>5 DEF IInv

LEMMA NextInv == IInv /\ [Next]_vars => IInv'
<1> SUFFICES ASSUME IInv, [Next]_vars PROVE IInv'
  OBVIOUS
<1>1. ASSUME NEW s \in Sessions, Edit(s) PROVE IInv'
  <2>1. ASSUME NEW p \in Pages, EditPage(s, p) PROVE IInv'
    <3>1. p \in DOMAIN editor[s].doc /\ Put(s, p, editor[s].doc[p].slug)
      BY <2>1 DEF EditPage, Roster
    <3>2. editor[s] \in Editor
      BY TypeFacts DEF IInv
    <3>3. editor[s].doc \in Documents
      BY <3>2 DEF Editor
    <3>4. editor[s].doc[p].slug \in Slugs
      BY <3>1, <3>3, DocumentFacts DEF Content
    <3> QED BY <3>1, <3>4, PutStep
  <2>2. ASSUME NEW p \in Pages, NEW g \in Slugs, AddPage(s, p, g) \/ RenamePage(s, p, g) \/ UndoDelete(s, p, g)
        PROVE  IInv'
    BY <2>2, PutStep DEF AddPage, RenamePage, UndoDelete
  <2>3. ASSUME NEW p \in Pages, NEW moved \in SUBSET Pages, DeletePage(s, p, moved) PROVE IInv'
    BY <2>3, DeletePageStep
  <2> QED BY <1>1, <2>1, <2>2, <2>3 DEF Edit
<1>2. ASSUME NEW s \in Sessions, ReloadRead(s) PROVE IInv'
  BY <1>2, ReloadReadStep
<1>3. ASSUME NEW s \in Sessions, ReloadApply(s) PROVE IInv'
  BY <1>3, ReloadApplyStep
<1>4. ASSUME NEW s \in Sessions, NEW v \in Saves, SaveCurrentSite(s, v) PROVE IInv'
  BY <1>4, SaveCurrentSiteStep
<1>5. ASSUME NEW s \in Sessions, NEW v \in Saves, Remount(s, v) PROVE IInv'
  BY <1>5, RemountStep
<1>6. ASSUME NEW v \in Saves, SaveSucceeds(v) PROVE IInv'
  BY <1>6, SaveSucceedsStep
<1>7. ASSUME NEW v \in Saves, SaveFails(v) PROVE IInv'
  BY <1>7, SaveFailsStep
<1>8. ASSUME NEW v \in Saves, Refuse(v) PROVE IInv'
  BY <1>8, AnsweredStep DEF Refuse, Answered
<1>9. ASSUME NEW v \in Saves, Validate(v) PROVE IInv'
  BY <1>9, ValidateStep
<1>10. ASSUME NEW v \in Saves, Reconcile(v) PROVE IInv'
  BY <1>10, ReconcileStep
<1>11. ASSUME UNCHANGED vars PROVE IInv'
  BY <1>11, StutterInv
<1> QED BY <1>1, <1>2, <1>3, <1>4, <1>5, <1>6, <1>7, <1>8, <1>9, <1>10, <1>11 DEF Next

LEMMA Invariance == Spec => []IInv
  BY InitInv, NextInv, PTL DEF Spec

(* Every variable keeps its type.                                          *)
THEOREM TypeCorrect == Spec => []TypeOK
<1>1. IInv => TypeOK
  BY DEF IInv
<1> QED BY <1>1, Invariance, PTL

(* Whatever sessions save at the same time, every live page has a slug of  *)
(* its own, and none is left under the placeholder (reconcile.ts).         *)
THEOREM RosterTheorem == Spec => []RosterSound
<1>1. IInv => RosterSound
  BY EditorAssumption DEF IInv, RowsInv, Sound, RosterSound
<1> QED BY <1>1, Invariance, PTL

(* A save that was found valid is refused by the unique index only if      *)
(* another save has committed since (validate.ts, reconcile.ts:7).         *)
THEOREM CommitTheorem == Spec => []ValidSavesCommit
<1>1. ASSUME IInv PROVE ValidSavesCommit
  <2> SUFFICES ASSUME NEW v \in Saves, save[v].pc = "validated", ~save[v].overtaken
               PROVE  Commits(rows, ChangedPages(v), Reap(v))
    BY DEF ValidSavesCommit
  <2>1. SlugsFree(rows, ChangedPages(v), Reap(v)) /\ Sound(rows)
    BY <1>1 DEF IInv, SaveInv, RowsInv
  <2>2. IsTable(rows) /\ IsBatch(ChangedPages(v))
    BY <1>1, TypeFacts, ChangedFacts DEF IInv
  <2> QED BY <2>1, <2>2, ValidCommits
<1> QED BY <1>1, Invariance, PTL

(* No edit is lost track of: it is committed, marked, or carried by a save *)
(* that marks it again if it fails (saveTrackingSlice.ts).                 *)
THEOREM EditsTheorem == Spec => []EditsAccounted
<1>1. IInv => EditsAccounted
  BY DEF IInv
<1> QED BY <1>1, Invariance, PTL

(* A save deletes no page its session has not had in its document          *)
(* (ISS-041, reconcile.ts:38).                                             *)
THEOREM KeptTheorem == Spec => OthersPagesKept
<1> DEFINE Kept == \A v \in Saves : save[v].pc = "validated" /\ rows' # rows /\ save'[v].pc # "validated" =>
                     Live(rows) \ Live(rows') \subseteq seen[save[v].by]
<1>1. ASSUME IInv, [Next]_vars PROVE [Kept]_vars
  <2> SUFFICES ASSUME NEW v \in Saves, save[v].pc = "validated", rows' # rows, save'[v].pc # "validated"
               PROVE  Live(rows) \ Live(rows') \subseteq seen[save[v].by]
    OBVIOUS
  <2>1. save \in [Saves -> Save] /\ SaveInv(v) /\ \A x \in Saves : save[x] \in Save
    BY <1>1, TypeFacts DEF IInv
  <2>2. PICK y \in Saves : Reconcile(y)
    <3> SUFFICES ASSUME \A y \in Saves : ~Reconcile(y) PROVE rows' = rows
      OBVIOUS
    <3>1. CASE UNCHANGED vars
      BY <3>1 DEF vars
    <3>2. ASSUME NEW s \in Sessions, Edit(s) PROVE rows' = rows
      BY <3>2 DEF Edit, EditPage, AddPage, RenamePage, UndoDelete, Put, DeletePage
    <3>3. ASSUME NEW s \in Sessions, ReloadRead(s) \/ ReloadApply(s) PROVE rows' = rows
      BY <3>3 DEF ReloadRead, ReloadApply
    <3>4. ASSUME NEW s \in Sessions, NEW y \in Saves, SaveCurrentSite(s, y) \/ Remount(s, y) PROVE rows' = rows
      BY <3>4 DEF SaveCurrentSite, Remount
    <3>5. ASSUME NEW y \in Saves, SaveSucceeds(y) \/ SaveFails(y) \/ Refuse(y) \/ Validate(y) PROVE rows' = rows
      BY <3>5 DEF SaveSucceeds, SaveFails, Refuse, Validate
    <3> QED BY <1>1, <3>1, <3>2, <3>3, <3>4, <3>5 DEF Next
  <2>3. /\ Commits(rows, ChangedPages(y), Reap(y)) /\ rows' = Reconciled(rows, ChangedPages(y), Reap(y))
        /\ written' = written \cup {<<p, save[y].doc[p].edit>> : p \in DOMAIN ChangedPages(y)}
        /\ save' = [w \in Saves |-> IF w = y THEN Answer(y, "done")
                                    ELSE [save[w] EXCEPT !.overtaken = save[w].pc = "validated"]]
    BY <2>2 DEF Reconcile
  <2>4. y = v
    <3> SUFFICES ASSUME y # v PROVE FALSE
      OBVIOUS
    <3> DEFINE b == save[v].pc = "validated"
    <3>1. save'[v] = [save[v] EXCEPT !.overtaken = b] /\ b \in BOOLEAN
      BY <2>3
    <3> HIDE DEF b
    <3>2. save'[v].pc = save[v].pc
      BY <2>1, <3>1, OvertakenFacts
    <3> QED BY <3>2
  <2>5. Live(rows') = (Live(rows) \ Reap(v)) \cup DOMAIN ChangedPages(v)
    BY <1>1, <2>3, <2>4, CommitFacts
  <2>6. Reap(v) \subseteq save[v].baseline
    BY DEF Reap, RowsToReap
  <2>7. save[v].baseline \subseteq seen[save[v].by]
    BY <2>1 DEF SaveInv
  <2> QED BY <2>5, <2>6, <2>7
<1> QED BY <1>1, Invariance, PTL DEF Spec, OthersPagesKept

=============================================================================
