------------------------- MODULE PublishClock_proofs -------------------------
(***************************************************************************)
(* What the caches rely on: no bump announces a change that has not been   *)
(* committed, and only one publish holds the lock.                         *)
(***************************************************************************)
EXTENDS PublishClock, TLAPS

(* Changes are announced after they are committed. *)
Announced ==
    /\ floor <= content
    /\ \A w \in Writers : writer[w].change <= content

(* withPublishLock: one publish at a time *)
OnePublish ==
    \A v, w \in Writers : writer[v].pc = "publishing" /\ writer[w].pc = "publishing" => v = w

ClockInv == ClockTypeOK /\ Announced /\ OnePublish

LEMMA ClockStarts == ClockInit => ClockInv
  BY DEF ClockInit, ClockInv, ClockTypeOK, Writer, Announced, OnePublish

LEMMA ClockCommits ==
  ASSUME NEW w \in Writers, ClockInv, PublishCommit(w) \/ RetractCommit(w)
  PROVE  /\ ClockInv'
         /\ content' = content + 1 /\ UNCHANGED <<version, floor>>
         /\ \A v \in Writers : v # w => writer'[v] = writer[v]
         /\ writer[w].pc = "idle" /\ writer'[w].change = content'
<1>1. PICK p \in {"publishing", "owing"} :
         /\ Commit(w, p)
         /\ p = "publishing" => LockFree
  BY DEF PublishCommit, RetractCommit
<1> DEFINE r == [pc |-> p, change |-> content + 1]
<1>2. writer' = [writer EXCEPT ![w] = r] /\ content' = content + 1 /\ UNCHANGED <<version, floor>>
  BY <1>1 DEF Commit
<1>3. ClockTypeOK'
  BY <1>2 DEF ClockInv, ClockTypeOK, Writer
<1>4. Announced'
  BY <1>2 DEF ClockInv, ClockTypeOK, Writer, Announced
<1>5. OnePublish'
  BY <1>1, <1>2 DEF ClockInv, ClockTypeOK, Writer, OnePublish, LockFree
<1> QED BY <1>1, <1>2, <1>3, <1>4, <1>5 DEF ClockInv, ClockTypeOK, Writer, Commit

LEMMA ClockBumps ==
  ASSUME NEW w \in Writers, ClockInv, PublishBump(w) \/ RetractBump(w)
  PROVE  /\ ClockInv'
         /\ version' = version + 1 /\ UNCHANGED content
         /\ floor' = floor \/ floor' = writer[w].change
         /\ \A v \in Writers : writer[v].pc = "publishing" => v = w
         /\ \A v \in Writers : v # w => writer'[v] = writer[v]
         /\ writer'[w].pc = "idle"
<1>1. BumpBy(w) /\ \A v \in Writers : writer[v].pc = "publishing" => v = w
  BY DEF PublishBump, RetractBump, LockFree, ClockInv, OnePublish
<1>2. /\ writer' = [writer EXCEPT ![w].pc = "idle"]
      /\ version' = version + 1 /\ UNCHANGED content
      /\ floor' = floor \/ floor' = writer[w].change
  BY <1>1 DEF BumpBy
<1>3. ClockTypeOK'
  BY <1>2 DEF ClockInv, ClockTypeOK, Writer
<1>4. Announced'
  BY <1>2 DEF ClockInv, ClockTypeOK, Writer, Announced
<1>5. OnePublish'
  BY <1>1, <1>2 DEF ClockInv, ClockTypeOK, Writer, OnePublish
<1> QED BY <1>1, <1>2, <1>3, <1>4, <1>5 DEF ClockInv, ClockTypeOK, Writer

LEMMA ClockStands == ClockInv /\ UNCHANGED clock => ClockInv'
  BY DEF clock, ClockInv, ClockTypeOK, Announced, OnePublish
=============================================================================
