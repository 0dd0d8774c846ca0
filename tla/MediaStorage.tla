---------------------------- MODULE MediaStorage ----------------------------
(***************************************************************************)
(* Where the bytes of a media asset are: its row names an original and     *)
(* responsive variants, each on the adapter that wrote it, and three kinds *)
(* of request change them: a replacement of the binary (mediaUpload.ts),   *)
(* a migration to another adapter (mediaStorageMigration.ts, one role at a *)
(* time) and the deletion from the trash (media.ts).  Every step below is  *)
(* a call the request awaits; nothing orders the steps of two requests.    *)
(*                                                                         *)
(* An object is where bytes are stored, an adapter and a path no other     *)
(* upload uses (nanoid).  The bytes themselves are left out.               *)
(***************************************************************************)
EXTENDS Integers, FiniteSets

CONSTANTS
    Adapters,
    Builtin,        \* the adapter that is always there
    Replaces,       \* replacements of the asset's binary
    Migrations,     \* migrations of its original and of its variant
    Purges,         \* deletions from the trash
    First,          \* the path of the original upload
    NoObject,       \* no object
    Crashes         \* BOOLEAN: the server may stop at any step

Requests == Replaces \cup Migrations \cup Purges

(* A path is the request that uploads to it and what it uploads *)
Paths == (Requests \cup {First}) \X {"original", "variant"}
Objects == Adapters \X Paths
Object(adapter, path) == <<adapter, path>>

ASSUME MediaAssumption ==
    /\ Builtin \in Adapters /\ First \notin Requests /\ NoObject \notin Objects
    /\ Replaces \cap Migrations = {} /\ (Replaces \cup Migrations) \cap Purges = {}

VARIABLES
    elected,        \* the adapter new uploads go to
    stored,         \* the objects that hold bytes
    asset,          \* the row of media_assets
    request         \* the requests under way

mediaVars == <<elected, stored, asset, request>>

Asset == [live : BOOLEAN, trashed : BOOLEAN, at : Objects, variant : Objects \cup {NoObject}]

(* adapter, path, variant: what it read of the row.  made: what it uploaded. *)
Request == [pc : {"idle", "looked", "located", "read", "uploaded", "switched", "scaled", "stamped",
                  "swept", "over"},
            role : {"original", "variant"}, adapter : Adapters, path : Paths,
            variant : Objects \cup {NoObject}, made : Objects \cup {NoObject}]
NoRequest == [pc |-> "idle", role |-> "original", adapter |-> Builtin, path |-> <<First, "original">>,
              variant |-> NoObject, made |-> NoObject]

MediaTypeOK ==
    /\ elected \in Adapters /\ stored \subseteq Objects
    /\ asset \in Asset /\ request \in [Requests -> Request]

MediaInit ==
    /\ elected \in Adapters
    /\ \E a \in Adapters :
         /\ asset = [live |-> TRUE, trashed |-> FALSE, at |-> Object(a, <<First, "original">>),
                     variant |-> Object(a, <<First, "variant">>)]
         /\ stored = {asset.at, asset.variant}
    /\ request = [q \in Requests |-> NoRequest]

-----------------------------------------------------------------------------
Goes(q, from, to) == request[q].pc = from /\ request' = [request EXCEPT ![q].pc = to]

(* Nothing of a request that has ended is used again *)
Ends(q, from) == request[q].pc = from /\ request' = [request EXCEPT ![q] = [NoRequest EXCEPT !.pc = "over"]]

(* dispatchUpload: to the adapter elected when it is called *)
Upload(q, kind) == Object(elected, <<q, kind>>)

(* dispatchDelete; one that fails leaves what a crash before it leaves *)
Sweep(objects) == stored' = stored \ objects

Elect(a) == elected' = a /\ UNCHANGED <<stored, asset, request>>

Trash ==
    /\ asset.live /\ asset' = [asset EXCEPT !.trashed = ~@]
    /\ UNCHANGED <<elected, stored, request>>

-----------------------------------------------------------------------------
(* acceptReplacementMedia.  The adapter, the path and the variants of the  *)
(* previous binary are read one after the other.                           *)
LookUp(r) ==
    /\ asset.live /\ request[r].pc = "idle"
    /\ request' = [request EXCEPT ![r].pc = "looked", ![r].adapter = asset.at[1]]
    /\ UNCHANGED <<elected, stored, asset>>

Locate(r) ==
    /\ request[r].pc = "looked"
    /\ IF asset.live
       THEN request' = [request EXCEPT ![r].pc = "located", ![r].path = asset.at[2]]
       ELSE Ends(r, "looked")
    /\ UNCHANGED <<elected, stored, asset>>

ListVariants(r) ==
    /\ request[r].pc = "located"
    /\ request' = [request EXCEPT ![r].pc = "read", ![r].variant = IF asset.live THEN asset.variant ELSE NoObject]
    /\ UNCHANGED <<elected, stored, asset>>

UploadReplacement(r) ==
    /\ request[r].pc = "read"
    /\ request' = [request EXCEPT ![r].pc = "uploaded", ![r].made = Upload(r, "original")]
    /\ stored' = stored \cup {Upload(r, "original")}
    /\ UNCHANGED <<elected, asset>>

(* replaceMediaAssetBinary; the upload goes when the row has gone *)
SwitchToReplacement(r) ==
    /\ request[r].pc = "uploaded"
    /\ IF asset.live
       THEN /\ request' = [request EXCEPT ![r].pc = "switched"]
            /\ asset' = [asset EXCEPT !.at = request[r].made] /\ UNCHANGED stored
       ELSE /\ Ends(r, "uploaded")
            /\ Sweep({request[r].made}) /\ UNCHANGED asset
    /\ UNCHANGED elected

(* processImageVariants: a variant of the new binary, or none *)
Scale(r) ==
    /\ request[r].pc = "switched"
    /\ \/ /\ request' = [request EXCEPT ![r].pc = "scaled", ![r].made = Upload(r, "variant")]
          /\ stored' = stored \cup {Upload(r, "variant")}
       \/ /\ request' = [request EXCEPT ![r].pc = "scaled", ![r].made = NoObject]
          /\ UNCHANGED stored
    /\ UNCHANGED <<elected, asset>>

(* setMediaAssetVariants, whatever the row's variants are by then *)
Stamp(r) ==
    /\ Goes(r, "scaled", "stamped")
    /\ asset' = IF asset.live THEN [asset EXCEPT !.variant = request[r].made] ELSE asset
    /\ UNCHANGED <<elected, stored>>

(* Mutant: the adapter and the path are read again when it sweeps *)
SweepPreviousAsNamed(r) ==
    /\ Goes(r, "stamped", "swept")
    /\ Sweep({asset.at})
    /\ UNCHANGED <<elected, asset>>

SweepPrevious(r) ==
    /\ Goes(r, "stamped", "swept")
    /\ Sweep({Object(request[r].adapter, request[r].path)})
    /\ UNCHANGED <<elected, asset>>

SweepPreviousVariants(r) ==
    /\ Ends(r, "swept")
    /\ Sweep({request[r].variant} \ {NoObject})
    /\ UNCHANGED <<elected, asset>>

-----------------------------------------------------------------------------
(* tryAcquireLock: one migration of a role at a time *)
Locked(role) == \E m \in Migrations : request[m].pc \notin {"idle", "over"} /\ request[m].role = role

Source(m) == IF request[m].role = "original" THEN Object(request[m].adapter, request[m].path)
             ELSE request[m].variant

(* listPendingOriginals, listAssetsWithPendingVariants *)
ListPending(m, role) ==
    LET from == IF role = "original" THEN asset.at ELSE asset.variant
    IN /\ request[m].pc = "idle" /\ ~Locked(role)
       /\ asset.live /\ ~asset.trashed /\ from # NoObject
       /\ from[1] # elected
       /\ request' = [request EXCEPT ![m].pc = "located", ![m].role = role, ![m].adapter = from[1],
                                     ![m].path = from[2], ![m].variant = asset.variant]
       /\ UNCHANGED <<elected, stored, asset>>

(* The source is read, or the asset is left for the next migration *)
ReadSource(m) ==
    /\ IF Source(m) \in stored THEN Goes(m, "located", "read") \/ Ends(m, "located")
       ELSE Ends(m, "located")
    /\ UNCHANGED <<elected, stored, asset>>

UploadCopy(m) ==
    /\ request[m].pc = "read"
    /\ request' = [request EXCEPT ![m].pc = "uploaded", ![m].made = Upload(m, request[m].role)]
    /\ stored' = stored \cup {Upload(m, request[m].role)}
    /\ UNCHANGED <<elected, asset>>

(* updateAssetStorageLocation, whatever the row's original is by then *)
SwitchOriginal(m) ==
    /\ request[m].role = "original"
    /\ Goes(m, "uploaded", "switched")
    /\ asset' = IF asset.live THEN [asset EXCEPT !.at = request[m].made] ELSE asset
    /\ UNCHANGED <<elected, stored>>

(* updateVariantStorageLocation: only if the row still has that variant *)
SwitchVariant(m) ==
    /\ request[m].role = "variant"
    /\ IF asset.live /\ asset.variant = request[m].variant
       THEN /\ Goes(m, "uploaded", "switched")
            /\ asset' = [asset EXCEPT !.variant = request[m].made] /\ UNCHANGED stored
       ELSE /\ Ends(m, "uploaded")
            /\ Sweep({request[m].made}) /\ UNCHANGED asset
    /\ UNCHANGED elected

SweepSource(m) ==
    /\ Ends(m, "switched") /\ Sweep({Source(m)})
    /\ UNCHANGED <<elected, asset>>

-----------------------------------------------------------------------------
(* handleDeleteMedia with purge: the row as it was read, then the deletion, *)
(* which says which path the row had by then                                *)
LookInTrash(d) ==
    /\ asset.live /\ asset.trashed /\ request[d].pc = "idle"
    /\ request' = [request EXCEPT ![d].pc = "looked", ![d].adapter = asset.at[1], ![d].variant = asset.variant]
    /\ UNCHANGED <<elected, stored, asset>>

DeleteRow(d) ==
    /\ request[d].pc = "looked"
    /\ IF asset.live
       THEN /\ request' = [request EXCEPT ![d].pc = "stamped", ![d].path = asset.at[2]]
            /\ asset' = [asset EXCEPT !.live = FALSE]
       ELSE Ends(d, "looked") /\ UNCHANGED asset
    /\ UNCHANGED <<elected, stored>>

(* The server stops: what the requests had done so far remains *)
Crash ==
    /\ Crashes /\ \E q \in Requests : request[q].pc \notin {"idle", "over"}
    /\ request' = [q \in Requests |-> IF request[q].pc = "idle" THEN request[q]
                                       ELSE [NoRequest EXCEPT !.pc = "over"]]
    /\ UNCHANGED <<elected, stored, asset>>

Replace(r) ==
    \/ LookUp(r) \/ Locate(r) \/ ListVariants(r) \/ UploadReplacement(r) \/ SwitchToReplacement(r)
    \/ Scale(r) \/ Stamp(r) \/ SweepPrevious(r) \/ SweepPreviousVariants(r)

Migrate(m) ==
    \/ \E role \in {"original", "variant"} : ListPending(m, role)
    \/ ReadSource(m) \/ UploadCopy(m) \/ SwitchOriginal(m) \/ SwitchVariant(m) \/ SweepSource(m)

Purge(d) == LookInTrash(d) \/ DeleteRow(d) \/ SweepPrevious(d) \/ SweepPreviousVariants(d)

MediaNext ==
    \/ \E a \in Adapters : Elect(a)
    \/ Trash \/ Crash
    \/ \E r \in Replaces : Replace(r)
    \/ \E m \in Migrations : Migrate(m)
    \/ \E d \in Purges : Purge(d)

MediaSpec == MediaInit /\ [][MediaNext]_mediaVars

-----------------------------------------------------------------------------
(* mediaStorageMigration.ts "Update the row to point at the new bytes      *)
(* BEFORE deleting the source", mediaUpload.ts "sweep the previous bytes": *)
(* whatever replacements, migrations and deletions overlap, with a crash   *)
(* between any two of their steps, no request takes away the bytes the row *)
(* names, original or variant.                                             *)
BytesWhereNamed ==
    asset.live => asset.at \in stored /\ (asset.variant # NoObject => asset.variant \in stored)

=============================================================================
