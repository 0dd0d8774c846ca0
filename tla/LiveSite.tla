------------------------------ MODULE LiveSite ------------------------------
(***************************************************************************)
(* What the two-slot protocol of server/publish/staticArtefact.ts promises *)
(* to visitors: the directory behind the `current` link changes either one *)
(* row's file at a time, or as a whole from one publication to a later     *)
(* one.  A visitor never sees a publication that is half written, and the  *)
(* site's own pages change only as a whole.                                *)
(***************************************************************************)
EXTENDS Naturals

CONSTANTS
    Paths,      \* public URL paths that can have a baked file
    Pages,      \* those of the site's own pages
    Files,      \* contents of a baked file
    NoFile      \* the path has no file

VARIABLE live   \* the file each path is served from

Present(d) == {p \in Paths : d[p] # NoFile}

Init == live = [p \in Paths |-> NoFile]

(* A full publish goes live: every file comes from one publication, carries *)
(* one version stamp, and is newer than every file it replaces.             *)
Replace ==
    /\ live' \in [Paths -> Files \cup {NoFile}]
    /\ \A p, q \in Present(live') : /\ live'[p].gen = live'[q].gen
                                    /\ live'[p].stamp = live'[q].stamp
    /\ \A p \in Present(live'), q \in Present(live) : live[q].gen < live'[p].gen

(* An incremental publish writes the file of one row; its template is at   *)
(* least as new as any file already there.                                 *)
Put(p) ==
    /\ live'[p] \in Files
    /\ live' = [live EXCEPT ![p] = live'[p]]
    /\ \A q \in Present(live) : live[q].gen <= live'[p].gen

(* A retraction takes the file of one row away. *)
Drop(p) == live' = [live EXCEPT ![p] = NoFile]

Next == Replace \/ \E p \in Paths \ Pages : Put(p) \/ Drop(p)

Spec == Init /\ [][Next]_live
=============================================================================
