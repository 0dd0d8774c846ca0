----------------------------- MODULE EditorSave -----------------------------
(***************************************************************************)
(* The saves of the page editor: browser sessions that edit the same site, *)
(* each with the marks of what it has changed and the roster it last       *)
(* synced (usePersistence.ts, saveTrackingSlice.ts), and the handler that  *)
(* makes the table match (handlers/cms/pages.ts).                          *)
(*                                                                         *)
(* A document maps the pages of a site to a slug and the number of the     *)
(* last change made to them.  Nothing keeps a session from starting a save *)
(* while another is awaited.  A request whose answer is lost goes on at    *)
(* the server.                                                             *)
(***************************************************************************)
EXTENDS RosterReconcile, Functions

CONSTANTS
    Pages, Slugs,
    Home,       \* the slug of the home page, the one a rename may duplicate
    Sessions,
    Saves,      \* bound: the saves that are sent
    None,       \* no load under way, a save that is not under way
    MaxEdits,   \* bound: changes made to the documents
    MaxTurns    \* bound: times an editor is left or reloaded

ASSUME EditorAssumption ==
    Home \in Slugs /\ Parked \notin Slugs /\ None \notin Sessions /\ MaxEdits \in Nat /\ MaxTurns \in Nat

VARIABLES
    rows,       \* the rows of the pages table
    editor,     \* each session's document and save tracking
    save,       \* the saves under way
    edits,      \* changes made so far
    turns,      \* times an editor was left or reloaded
    written,    \* history: which edits of which pages a save has committed
    seen        \* history: the pages each session has had in its document

vars == <<rows, editor, save, edits, turns, written, seen>>

Content == [slug : Slugs, edit : 0..MaxEdits]
Documents == UNION {[R -> Content] : R \in SUBSET Pages}

(* dirty: _dirtySave.pageIds.  unsaved: hasUnsavedChanges.  baseline:       *)
(* syncedPageIdsRef.  load: the site a reload has been answered with.      *)
Editor == [doc : Documents, dirty : SUBSET Pages, unsaved : BOOLEAN,
           baseline : SUBSET Pages, load : Documents \cup {None}]

(* doc, dirty, baseline: what was sent.  awaited: the session waits for it. *)
(* mounted: the hook that sent it is still mounted.  overtaken: history,   *)
(* another save has committed since this one was validated.                *)
Save == [pc : {"idle", "sent", "validated", "done", "refused", "over"}, by : Sessions \cup {None},
         doc : Documents, dirty : SUBSET Pages, baseline : SUBSET Pages,
         awaited : BOOLEAN, mounted : BOOLEAN, overtaken : BOOLEAN]

EmptyDoc == [p \in {} |-> None]
NoSave == [pc |-> "idle", by |-> None, doc |-> EmptyDoc, dirty |-> {}, baseline |-> {},
           awaited |-> FALSE, mounted |-> FALSE, overtaken |-> FALSE]

Ended == [NoSave EXCEPT !.pc = "over"]

TypeOK ==
    /\ rows \in UNION {[R -> [slug : Slugs \cup {Parked}, edit : 0..MaxEdits, live : BOOLEAN]] :
                       R \in SUBSET Pages}
    /\ editor \in [Sessions -> Editor]
    /\ save \in [Saves -> Save]
    /\ edits \in 0..MaxEdits
    /\ turns \in 0..MaxTurns
    /\ written \subseteq Pages \X (0..MaxEdits)
    /\ seen \in [Sessions -> SUBSET Pages]

(* GET /pages: the live rows *)
Stored(t) == [p \in Live(t) |-> [slug |-> t[p].slug, edit |-> t[p].edit]]

(* Every session has loaded the site. *)
Init ==
    /\ rows \in UNION {[R -> [slug : Slugs, edit : {0}, live : {TRUE}]] :
                       R \in SUBSET Pages \ {{}}}
    /\ SlugsUnique(rows)
    /\ editor = [s \in Sessions |-> [doc |-> Stored(rows), dirty |-> {}, unsaved |-> FALSE,
                                     baseline |-> DOMAIN rows, load |-> None]]
    /\ save = [v \in Saves |-> NoSave]
    /\ edits = 0
    /\ turns = 0
    /\ written = (DOMAIN rows) \X {0}
    /\ seen = [s \in Sessions |-> DOMAIN rows]

-----------------------------------------------------------------------------
(* The editor store.                                                       *)

Roster(s) == DOMAIN editor[s].doc
Siblings(s, p) == {editor[s].doc[q].slug : q \in Roster(s) \ {p}}

(* uniquePageSlug, except for the home page *)
MayTake(s, p, g) == g = Home \/ g \notin Siblings(s, p)

(* mutateSite, undo, redo: the page has a new content, and is marked *)
Put(s, p, g) ==
    /\ edits < MaxEdits
    /\ edits' = edits + 1
    /\ editor' = [editor EXCEPT
           ![s].doc = [q \in Roster(s) \cup {p} |->
                          IF q = p THEN [slug |-> g, edit |-> edits'] ELSE @[q]],
           ![s].dirty = @ \cup {p},
           ![s].unsaved = TRUE]
    /\ seen' = [seen EXCEPT ![s] = @ \cup {p}]
    /\ UNCHANGED <<rows, save, turns, written>>

(* addPage, duplicatePage: under an id nobody has *)
AddPage(s, p, g) ==
    /\ p \notin DOMAIN rows /\ \A t \in Sessions : p \notin seen[t]
    /\ g \notin Siblings(s, p)
    /\ Put(s, p, g)

(* A change of the page's nodes, or the undo of one. *)
EditPage(s, p) == p \in Roster(s) /\ Put(s, p, editor[s].doc[p].slug)

(* renamePage *)
RenamePage(s, p, g) == p \in Roster(s) /\ MayTake(s, p, g) /\ Put(s, p, g)

(* undo of deletePage *)
UndoDelete(s, p, g) ==
    /\ p \in seen[s] \ Roster(s)
    /\ g \notin Siblings(s, p)
    /\ Put(s, p, g)

(* deletePage: nothing is marked for the page itself; those behind it in   *)
(* the array move up and are                                               *)
DeletePage(s, p, moved) ==
    /\ edits < MaxEdits
    /\ edits' = edits + 1
    /\ p \in Roster(s) /\ Roster(s) # {p} /\ moved \subseteq Roster(s) \ {p}
    /\ editor' = [editor EXCEPT ![s].doc = Restrict(@, Roster(s) \ {p}),
                                ![s].dirty = @ \cup moved,
                                ![s].unsaved = TRUE]
    /\ UNCHANGED <<rows, save, turns, written, seen>>

-----------------------------------------------------------------------------
(* usePersistence                                                          *)

(* Mutant: the baseline is read off pages that have no id yet. *)
SentWithoutIds(s) ==
    [NoSave EXCEPT !.pc = "sent", !.by = s, !.doc = editor[s].doc,
                   !.dirty = editor[s].dirty, !.baseline = {None}]

Sent(s) == [NoSave EXCEPT !.pc = "sent", !.by = s, !.doc = editor[s].doc,
                          !.dirty = editor[s].dirty, !.baseline = editor[s].baseline]

(* saveCurrentSite up to its await: takeDirtySaveSnapshot *)
SaveCurrentSite(s, v) ==
    /\ save[v].pc = "idle"
    /\ save' = [save EXCEPT ![v] = [Sent(s) EXCEPT !.awaited = TRUE, !.mounted = TRUE]]
    /\ editor' = [editor EXCEPT ![s].dirty = {}]
    /\ UNCHANGED <<rows, edits, turns, written, seen>>

(* Mutant: the marks are reset when the save has succeeded. *)
SaveSucceedsResetting(v) ==
    /\ save[v].pc = "done"
    /\ editor' = [editor EXCEPT
           ![save[v].by].dirty = {},
           ![save[v].by].baseline = IF save[v].mounted THEN DOMAIN save[v].doc ELSE @,
           ![save[v].by].unsaved = FALSE]
    /\ save' = [save EXCEPT ![v] = Ended]
    /\ UNCHANGED <<rows, edits, turns, written, seen>>

(* The await returns. *)
SaveSucceeds(v) ==
    /\ save[v].pc = "done"
    /\ editor' = [editor EXCEPT
           ![save[v].by].baseline = IF save[v].mounted THEN DOMAIN save[v].doc ELSE @,
           ![save[v].by].unsaved = FALSE]
    /\ save' = [save EXCEPT ![v] = Ended]
    /\ UNCHANGED <<rows, edits, turns, written, seen>>

Answered == {"done", "refused"}

(* It throws: a request was refused, its answer was lost, or the layouts   *)
(* sent beside the pages failed.  restoreDirtySaveSnapshot                 *)
SaveFails(v) ==
    /\ save[v].awaited
    /\ editor' = [editor EXCEPT ![save[v].by].dirty = @ \cup save[v].dirty]
    /\ save' = [save EXCEPT ![v] = IF @.pc \in Answered THEN Ended ELSE [@ EXCEPT !.awaited = FALSE]]
    /\ UNCHANGED <<rows, edits, turns, written, seen>>

(* The editor is left, which sends what is unsaved without awaiting it, and *)
(* entered again: the store has kept the document, the hook starts anew    *)
Remount(s, v) ==
    LET left == [w \in Saves |-> IF save[w].by = s THEN [save[w] EXCEPT !.mounted = FALSE] ELSE save[w]]
    IN  /\ save[v].pc = "idle" /\ editor[s].load = None /\ turns < MaxTurns
        /\ turns' = turns + 1
        /\ save' = IF editor[s].unsaved THEN [left EXCEPT ![v] = Sent(s)] ELSE left
        /\ editor' = [editor EXCEPT ![s].baseline = {}]
        /\ UNCHANGED <<rows, edits, written, seen>>

(* CMS_SITE_RELOAD_EVENT: loadSite is answered ... *)
ReloadRead(s) ==
    /\ editor[s].load = None /\ turns < MaxTurns
    /\ turns' = turns + 1
    /\ editor' = [editor EXCEPT ![s].load = Stored(rows)]
    /\ UNCHANGED <<rows, save, edits, written, seen>>

(* ... and replaces document, marks and baseline *)
ReloadApply(s) ==
    LET site == editor[s].load
    IN  /\ site # None
        /\ editor' = [editor EXCEPT ![s] = [doc |-> site, dirty |-> {}, unsaved |-> FALSE,
                                            baseline |-> DOMAIN site, load |-> None]]
        /\ seen' = [seen EXCEPT ![s] = @ \cup DOMAIN site]
        /\ UNCHANGED <<rows, save, edits, turns, written>>

-----------------------------------------------------------------------------
(* PUT /pages                                                              *)

(* CmsAdapter.saveSite: the marked pages of the document *)
ChangedPages(v) == Restrict(save[v].doc, save[v].dirty \cap DOMAIN save[v].doc)

Reap(v) == RowsToReap(Live(rows), DOMAIN save[v].doc, save[v].baseline)

Answer(v, outcome) == IF save[v].awaited THEN [save[v] EXCEPT !.pc = outcome] ELSE Ended

(* A request before this one fails, or the handler refuses or breaks off. *)
Refuse(v) ==
    /\ save[v].pc \in {"sent", "validated"}
    /\ save' = [save EXCEPT ![v] = Answer(v, "refused")]
    /\ UNCHANGED <<rows, editor, edits, turns, written, seen>>

(* The handler reads the rows and validates. *)
Validate(v) ==
    /\ save[v].pc = "sent"
    /\ save' = [save EXCEPT ![v] =
           IF SlugsFree(rows, ChangedPages(v), Reap(v))
           THEN [@ EXCEPT !.pc = "validated", !.overtaken = FALSE]
           ELSE Answer(v, "refused")]
    /\ UNCHANGED <<rows, editor, edits, turns, written, seen>>

(* reconcileDataRowRoster: the table is read again, in the transaction *)
Reconcile(v) ==
    /\ save[v].pc = "validated"
    /\ IF Commits(rows, ChangedPages(v), Reap(v))
       THEN /\ rows' = Reconciled(rows, ChangedPages(v), Reap(v))
            /\ written' = written \cup {<<p, save[v].doc[p].edit>> : p \in DOMAIN ChangedPages(v)}
            /\ save' = [w \in Saves |-> IF w = v THEN Answer(v, "done")
                                        ELSE [save[w] EXCEPT !.overtaken = save[w].pc = "validated"]]
       ELSE /\ save' = [save EXCEPT ![v] = Answer(v, "refused")]
            /\ UNCHANGED <<rows, written>>
    /\ UNCHANGED <<editor, edits, turns, seen>>

Edit(s) ==
    \E p \in Pages :
        \/ EditPage(s, p)
        \/ \E g \in Slugs : AddPage(s, p, g) \/ RenamePage(s, p, g) \/ UndoDelete(s, p, g)
        \/ \E moved \in SUBSET Pages : DeletePage(s, p, moved)

Next ==
    \/ \E s \in Sessions :
           \/ Edit(s) \/ ReloadRead(s) \/ ReloadApply(s)
           \/ \E v \in Saves : SaveCurrentSite(s, v) \/ Remount(s, v)
    \/ \E v \in Saves : SaveSucceeds(v) \/ SaveFails(v) \/ Refuse(v) \/ Validate(v) \/ Reconcile(v)

Spec == Init /\ [][Next]_vars

-----------------------------------------------------------------------------
(* Properties.                                                             *)

(* reconcile.ts, the order of the statements: after a commit every live     *)
(* page has a slug of its own; a row that was parked or revived did not    *)
(* keep the placeholder.                                                   *)
RosterSound == SlugsUnique(rows) /\ \A p \in Live(rows) : rows[p].slug # Parked

(* reconcile.ts:7, "Ordering inside the transaction is load-bearing": a    *)
(* save that was found valid meets the unique index only if another save   *)
(* has committed in between, however its pages swap slugs, take those of   *)
(* the pages it drops, or revive pages.                                    *)
ValidSavesCommit ==
    \A v \in Saves :
        save[v].pc = "validated" /\ ~save[v].overtaken => Commits(rows, ChangedPages(v), Reap(v))

(* ISS-041 (reconcile.ts:38): a save never deletes a page its session has  *)
(* not seen, whatever was created, saved, revived or reloaded meanwhile.   *)
OthersPagesKept ==
    [][\A v \in Saves : save[v].pc = "validated" /\ rows' # rows /\ save'[v].pc # "validated" =>
           Live(rows) \ Live(rows') \subseteq seen[save[v].by]]_vars

Marked(s, p) == p \in editor[s].dirty

Carried(s, p) ==
    \E v \in Saves :
        /\ save[v].by = s /\ save[v].awaited
        /\ p \in save[v].dirty \cap DOMAIN save[v].doc
        /\ save[v].doc[p] = editor[s].doc[p]

(* dirtyTracking.ts, "UNDER-marking loses edits": what a session shows of a *)
(* page was stored at some time, or is marked, or is carried by a save     *)
(* that marks it again should it fail, with saves that overlap, fail after *)
(* they were applied, or return to a reloaded document.                    *)
EditsAccounted ==
    \A s \in Sessions : \A p \in Roster(s) :
        \/ <<p, editor[s].doc[p].edit>> \in written
        \/ Marked(s, p)
        \/ Carried(s, p)

(* dirtyTracking.ts:17, "deletions are conveyed by the id roster the save  *)
(* always ships": when a save has succeeded, the pages its session has had *)
(* and did not send are deleted.  (For one session.)                       *)
DeletionsConveyed ==
    [][\A v \in Saves : SaveSucceeds(v) =>
           (seen[save[v].by] \ DOMAIN save[v].doc) \cap Live(rows) = {}]_vars
=============================================================================
