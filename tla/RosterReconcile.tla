-------------------------- MODULE RosterReconcile ---------------------------
(***************************************************************************)
(* The transaction behind an incremental save of pages (reconcile.ts) and  *)
(* the check of slugs before it (validate.ts), as operators on a table.    *)
(*                                                                         *)
(* A table maps the ids it has rows for to a row: its slug, the edit its   *)
(* cells show, and whether it is live (deleted_at is null).  The changed   *)
(* pages of a save map ids to a slug and an edit.                          *)
(***************************************************************************)
EXTENDS Integers

CONSTANT Parked     \* the slug '', exempt from the unique index

Live(t) == {p \in DOMAIN t : t[p].live}

(* data_rows_table_slug_active_idx *)
SlugsUnique(t) ==
    \A p, q \in Live(t) : t[p].slug = t[q].slug /\ t[p].slug # Parked => p = q

(* Mutant: every row that was not sent is reaped (the protocol before ISS-041). *)
RowsToReapAll(existing, incoming, baseline) == existing \ incoming

RowsToReap(existing, incoming, baseline) == {p \in existing \ incoming : p \in baseline}

(* validatePagesForPartialSave: the slugs of the changed pages are free in  *)
(* the batch and among the rows that stay                                  *)
SlugsFree(t, writes, reap) ==
    \A p \in DOMAIN writes :
        /\ \A q \in DOMAIN writes : writes[p].slug = writes[q].slug => p = q
        /\ \A q \in Live(t) \ (reap \cup DOMAIN writes) : writes[p].slug # t[q].slug

-----------------------------------------------------------------------------
(* The statements of the transaction, in four groups.  A group only takes  *)
(* slugs or only frees them, so the order inside it does not matter.       *)

(* softDeleteDataRow for each dropped row *)
Reaped(t, reap) == [p \in DOMAIN t |-> [t[p] EXCEPT !.live = t[p].live /\ p \notin reap]]

(* updateDataRowDraftCells for each changed row that is live: one whose slug *)
(* changes gives it up                                                     *)
Updated(t, writes) ==
    [p \in DOMAIN t |->
        IF p \in DOMAIN writes /\ t[p].live
        THEN [t[p] EXCEPT !.edit = writes[p].edit,
                          !.slug = IF t[p].slug = writes[p].slug THEN @ ELSE Parked]
        ELSE t[p]]

(* resurrectDataRow for the deleted ones, createDataRow for the others *)
Added(t, writes) ==
    [p \in DOMAIN t \cup DOMAIN writes |->
        IF p \in Live(t) \/ p \notin DOMAIN writes THEN t[p]
        ELSE [live |-> TRUE, edit |-> writes[p].edit,
              slug |-> IF p \in DOMAIN t THEN Parked ELSE writes[p].slug]]

(* Mutant: revived rows are not given their slug. *)
ResluggedSome(t, before, writes) ==
    [p \in DOMAIN t |->
        IF p \in DOMAIN writes \cap Live(before) THEN [t[p] EXCEPT !.slug = writes[p].slug] ELSE t[p]]

(* updateDataRowSlug for each parked row *)
Reslugged(t, before, writes) ==
    [p \in DOMAIN t |->
        IF p \in DOMAIN writes \cap DOMAIN before THEN [t[p] EXCEPT !.slug = writes[p].slug] ELSE t[p]]

(* Mutant: the dropped rows are deleted last. *)
StagesReapLast(t, writes, reap) ==
    LET updated == Updated(t, writes)
        added   == Added(updated, writes)
        final   == Reslugged(added, t, writes)
    IN  <<updated, added, final, Reaped(final, reap)>>

(* The table after each group. *)
Stages(t, writes, reap) ==
    LET reaped  == Reaped(t, reap)
        updated == Updated(reaped, writes)
        added   == Added(updated, writes)
    IN  <<reaped, updated, added, Reslugged(added, t, writes)>>

(* No statement meets the unique index. *)
Commits(t, writes, reap) == \A i \in 1..4 : SlugsUnique(Stages(t, writes, reap)[i])

Reconciled(t, writes, reap) == Stages(t, writes, reap)[4]
=============================================================================
