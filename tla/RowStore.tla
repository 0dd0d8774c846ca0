------------------------------ MODULE RowStore ------------------------------
(***************************************************************************)
(* The part of the `data_rows` table that decides what a public URL shows, *)
(* and the SQL statements that write it.  A statement is an operator from  *)
(* the row it reads to the row it leaves; every statement is one atomic    *)
(* step of the database, and the modules that use these operators decide   *)
(* what happens between two of them.                                       *)
(*                                                                         *)
(* Cell contents are abstracted to the version number of the published     *)
(* version; a table stands for its route base (route bases are distinct).  *)
(***************************************************************************)
EXTENDS Naturals

CONSTANTS
    Rows,       \* identities of data rows
    Tables,     \* data tables, each with a public route base of its own
    Slugs,      \* non-empty slugs
    NoTime,     \* scheduled_publish_at is null
    Times       \* instants a publication can be scheduled for

Statuses == {"draft", "scheduled", "published", "unpublished"}

(* active: the version active_version_id points to, no = 0 when it is null *)
Row == [status  : Statuses,
        deleted : BOOLEAN,
        table   : Tables,
        slug    : Slugs,
        at      : Times \cup {NoTime},
        active  : [no : Nat, slug : Slugs]]

(* A row as createDataRow inserts it. *)
NewRow(t, s) == [status |-> "draft", deleted |-> FALSE, table |-> t, slug |-> s,
                 at |-> NoTime, active |-> [no |-> 0, slug |-> s]]

-----------------------------------------------------------------------------
(* What the public can see.                                                *)

Visible(d) == d.status = "published" /\ ~d.deleted /\ d.active.no > 0

(* publicDataPath of the active version under the row's present table *)
PublicPath(d) == <<d.table, d.active.slug>>

(* publicDataPath of the draft slug under the row's present table *)
DraftPath(d) == <<d.table, d.slug>>

-----------------------------------------------------------------------------
(* The statements.                                                         *)

(* persistDataRowPublish; it does not look at the old status, and it leaves *)
(* scheduled_publish_at as it is                                            *)
Persisted(d) == [d EXCEPT !.status = "published",
                          !.active = [no |-> d.active.no + 1, slug |-> d.slug]]

(* Mutant: a status the column does not allow. *)
RetractedNull(d, s) == [d EXCEPT !.status = "none", !.at = NoTime]

(* updateDataRowStatus *)
Retracted(d, s) == [d EXCEPT !.status = s, !.at = NoTime]

(* softDeleteDataRow *)
SoftDeleted(d) == [d EXCEPT !.deleted = TRUE]

(* updateDataRowTable *)
Moved(d, t) == [d EXCEPT !.table = t]

(* updateDataRowDraftCells: only the slug matters here *)
Edited(d, s) == [d EXCEPT !.slug = s]

(* scheduleDataRowPublish *)
Scheduled(d, w) == [d EXCEPT !.status = "scheduled", !.at = w]

(* cancelScheduledPublish *)
Cancelled(d) == [d EXCEPT !.status = "draft", !.at = NoTime]
=============================================================================
