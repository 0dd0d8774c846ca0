---------------------------- MODULE PublishClock ----------------------------
(***************************************************************************)
(* What the caches of one server process see of the publish pipeline: the  *)
(* public content in the database, numbered by the changes made to it, and *)
(* the version the pipeline bumps after each change (publishState.ts).     *)
(*                                                                         *)
(* A publish commits and bumps while it holds the publish lock.  Any other *)
(* change of public content (an unpublish, a deletion, a move) commits     *)
(* without the lock and then waits for it to bump.                         *)
(***************************************************************************)
EXTENDS Naturals

CONSTANTS
    Writers,    \* concurrent requests that change public content
    MaxChanges  \* bound: changes of public content

ASSUME ClockAssumption == MaxChanges \in Nat

VARIABLES
    content,    \* the number of changes committed so far
    version,    \* publishVersion
    writer,     \* each writer's state, and the change it made
    floor       \* history: the latest change a bump has announced

clock == <<content, version, writer, floor>>

Writer == [pc : {"idle", "publishing", "owing"}, change : Nat]

ClockTypeOK ==
    /\ content \in Nat
    /\ version \in Nat
    /\ writer \in [Writers -> Writer]
    /\ floor \in Nat

ClockInit ==
    /\ content = 0
    /\ version = 0
    /\ writer = [w \in Writers |-> [pc |-> "idle", change |-> 0]]
    /\ floor = 0

LockFree == \A w \in Writers : writer[w].pc # "publishing"

Commit(w, p) ==
    /\ writer[w].pc = "idle" /\ content < MaxChanges
    /\ content' = content + 1
    /\ writer' = [writer EXCEPT ![w] = [pc |-> p, change |-> content']]
    /\ UNCHANGED <<version, floor>>

(* publishDraftSite, publishDataRow: the transaction, inside the lock *)
PublishCommit(w) == LockFree /\ Commit(w, "publishing")

(* updateDataRowStatus, softDeleteDataRow, updateDataRowTable *)
RetractCommit(w) == Commit(w, "owing")

(* bumpPublishVersion, on behalf of w *)
BumpBy(w) ==
    /\ version' = version + 1
    /\ floor' = IF floor < writer[w].change THEN writer[w].change ELSE floor
    /\ writer' = [writer EXCEPT ![w].pc = "idle"]
    /\ UNCHANGED content

(* The end of a publish, which holds the lock. *)
PublishBump(w) == writer[w].pc = "publishing" /\ BumpBy(w)

(* Mutant: a retraction bumps without the publish lock. *)
RetractBumpBare(w) == writer[w].pc = "owing" /\ BumpBy(w)

(* bumpPublishVersionSerialized: the lock is free for a moment. *)
RetractBump(w) == writer[w].pc = "owing" /\ LockFree /\ BumpBy(w)
=============================================================================
