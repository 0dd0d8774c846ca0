--------------------------- MODULE SqliteTx_proofs ---------------------------
(***************************************************************************)
(* The transactions of the SQLite adapter are all or nothing and take      *)
(* effect in one step, for any number of transactions and of statements    *)
(* outside them, with failures and restarts.                               *)
(***************************************************************************)
EXTENDS SqliteTx, TLAPS

Running(t) == tx[t].pc \in {"body", "rollback"}

(* Whose callback runs, or rolls back, has the turn, and the connection is  *)
(* in a transaction for as long.                                           *)
TurnInv ==
    /\ \A t \in Txs : Running(t) => Turn(t)
    /\ open <=> \E t \in Txs : Running(t)

(* The open transaction holds the statements of the one that runs; what is *)
(* durable belongs to those that are done.                                 *)
JournalInv ==
    /\ ~open => pending = {}
    /\ \A t \in Txs : tx[t].pc \in {"idle", "queued"} => tx[t].writes = 0
    /\ \A t \in Txs : tx[t].pc = "body" => Own(t) \subseteq pending
    /\ \A t \in Txs : tx[t].pc = "done" => Own(t) \subseteq db
    /\ \A t \in Txs, n \in 1..MaxWrites :
          /\ <<t, n>> \in pending => Running(t) /\ n <= tx[t].writes
          /\ <<t, n>> \in db => tx[t].pc = "done" /\ n <= tx[t].writes

IInv == TypeOK /\ TurnInv /\ JournalInv

-----------------------------------------------------------------------------
LEMMA Starts == Init => IInv
<1> SUFFICES ASSUME Init PROVE IInv
  OBVIOUS
<1>1. TypeOK
  <2>1. chain \in Seq(Txs)
    BY DEF Init
  <2>2. 0 \in 0..MaxWrites
    BY SqliteAssumption
  <2> QED BY <2>1, <2>2 DEF Init, TypeOK, Tx
<1>2. TurnInv /\ JournalInv
  BY DEF Init, TurnInv, JournalInv, Running
<1> QED BY <1>1, <1>2 DEF IInv

(* The transaction t changes its progress, and no other does. *)
LEMMA GotoFacts ==
  ASSUME TypeOK, NEW t \in Txs, NEW pc \in {"idle", "queued", "body", "rollback", "done", "failed"},
         Goto(t, pc)
  PROVE  /\ tx' \in [Txs -> Tx]
         /\ tx'[t].pc = pc /\ tx'[t].writes = tx[t].writes
         /\ \A u \in Txs \ {t} : tx'[u] = tx[u]
  BY DEF TypeOK, Tx, Goto

LEMMA Alone ==
  ASSUME IInv, NEW t \in Txs, Turn(t)
  PROVE  \A u \in Txs \ {t} : ~Running(u)
  BY DEF IInv, TurnInv, Turn

LEMMA RequestStep ==
  ASSUME IInv, NEW t \in Txs, Request(t)
  PROVE  IInv'
<1>1. /\ tx' \in [Txs -> Tx]
      /\ tx'[t].pc = "queued" /\ tx'[t].writes = tx[t].writes
      /\ \A u \in Txs \ {t} : tx'[u] = tx[u]
  BY GotoFacts DEF IInv, Request
<1>2. /\ tx[t].pc = "idle" /\ chain' = Append(chain, t) /\ chain \in Seq(Txs)
      /\ UNCHANGED <<plain, open, db, pending>>
  BY DEF Request, IInv, TypeOK
<1>3. chain' \in Seq(Txs) /\ (chain # <<>> => chain' # <<>> /\ Head(chain') = Head(chain))
  BY <1>2
<1>4. TypeOK'
  BY <1>1, <1>2, <1>3 DEF IInv, TypeOK
<1>5. TurnInv'
  BY <1>1, <1>2, <1>3 DEF IInv, TurnInv, Running, Turn
<1>6. JournalInv'
  BY <1>1, <1>2 DEF IInv, JournalInv, Running, Own
<1> QED BY <1>4, <1>5, <1>6 DEF IInv

LEMMA BeginStep ==
  ASSUME IInv, NEW t \in Txs, Begin(t)
  PROVE  IInv'
<1>1. /\ tx' \in [Txs -> Tx]
      /\ tx'[t].pc = "body" /\ tx'[t].writes = tx[t].writes
      /\ \A u \in Txs \ {t} : tx'[u] = tx[u]
  BY GotoFacts DEF IInv, Begin
<1>2. /\ tx[t].pc = "queued" /\ Turn(t) /\ ~open /\ open' = TRUE
      /\ UNCHANGED <<chain, plain, db, pending>>
  BY DEF Begin
<1>3. \A u \in Txs \ {t} : ~Running(u)
  BY <1>2, Alone
<1>4. TypeOK'
  BY <1>1, <1>2 DEF IInv, TypeOK
<1>5. TurnInv'
  BY <1>1, <1>2, <1>3 DEF TurnInv, Running, Turn
<1>6. JournalInv'
  BY <1>1, <1>2 DEF IInv, JournalInv, Running, Own
<1> QED BY <1>4, <1>5, <1>6 DEF IInv

(* The end of a turn in which nothing was committed or kept pending. *)
LEMMA FailedStep ==
  ASSUME IInv, NEW t \in Txs, Turn(t), Settle(t, "failed"),
         tx[t].pc = "queued" \/ tx[t].pc = "rollback",
         open' = FALSE, pending' = {}, UNCHANGED <<plain, db>>
  PROVE  IInv'
<1>1. /\ tx' \in [Txs -> Tx]
      /\ tx'[t].pc = "failed" /\ tx'[t].writes = tx[t].writes
      /\ \A u \in Txs \ {t} : tx'[u] = tx[u]
  BY GotoFacts DEF IInv, Settle
<1>2. chain \in Seq(Txs) /\ chain # <<>> /\ chain' = Tail(chain)
  BY DEF Turn, Settle, IInv, TypeOK
<1>3. \A u \in Txs : ~Running(u)'
  BY <1>1, Alone DEF Running
<1>4. TypeOK'
  <2>1. chain' \in Seq(Txs)
    BY <1>2
  <2> QED BY <1>1, <2>1 DEF IInv, TypeOK
<1>5. TurnInv'
  BY <1>3 DEF TurnInv
<1>6. JournalInv'
  <2>1. \A u \in Txs : tx'[u].pc # "body" /\ (tx'[u].pc = "done" => u # t)
    BY <1>1, <1>3 DEF Running
  <2>2. \A u \in Txs : tx'[u].pc = "done" => Own(u)' \subseteq db'
    BY <1>1, <2>1 DEF IInv, JournalInv, Own
  <2>3. \A u \in Txs, m \in 1..MaxWrites : <<u, m>> \in db' => tx'[u].pc = "done" /\ m <= tx'[u].writes
    BY <1>1 DEF IInv, JournalInv
  <2>4. \A u \in Txs : tx'[u].pc \in {"idle", "queued"} => tx'[u].writes = 0
    BY <1>1 DEF IInv, JournalInv
  <2> QED BY <2>1, <2>2, <2>3, <2>4 DEF JournalInv
<1> QED BY <1>4, <1>5, <1>6 DEF IInv

LEMMA BeginFailsStep ==
  ASSUME IInv, NEW t \in Txs, BeginFails(t)
  PROVE  IInv'
<1>1. ~open /\ pending = {}
  BY Alone DEF IInv, TurnInv, JournalInv, BeginFails, Running
<1>2. Turn(t) /\ Settle(t, "failed") /\ tx[t].pc = "queued" /\ UNCHANGED <<plain, open, db, pending>>
  BY DEF BeginFails
<1>3. open' = FALSE /\ pending' = {}
  BY <1>1, <1>2 DEF IInv, TypeOK
<1> QED BY <1>2, <1>3, FailedStep

LEMMA RollbackStep ==
  ASSUME IInv, NEW t \in Txs, Rollback(t)
  PROVE  IInv'
<1>1. Turn(t)
  BY DEF IInv, TurnInv, Running, Rollback
<1>2. Settle(t, "failed") /\ tx[t].pc = "rollback" /\ open' = FALSE /\ pending' = {} /\ UNCHANGED <<plain, db>>
  BY DEF Rollback, Discard
<1> QED BY <1>1, <1>2, FailedStep

LEMMA StatementStep ==
  ASSUME IInv, NEW t \in Txs, Statement(t)
  PROVE  IInv'
<1> DEFINE n == tx[t].writes
<1>1. n \in Nat /\ n + 1 \in 1..MaxWrites /\ tx[t].pc = "body" /\ tx[t] \in Tx
  BY SqliteAssumption DEF Statement, IInv, TypeOK, Tx
<1>2. /\ tx' \in [Txs -> Tx]
      /\ tx'[t].pc = "body" /\ tx'[t].writes = n + 1
      /\ \A u \in Txs \ {t} : tx'[u] = tx[u]
  <2> DEFINE v == n + 1
  <2>1. v \in 0..MaxWrites /\ tx' = [tx EXCEPT ![t].writes = v]
    BY <1>1 DEF Statement
  <2> HIDE DEF v
  <2>2. /\ tx' \in [Txs -> Tx]
        /\ tx'[t].pc = "body" /\ tx'[t].writes = v
        /\ \A u \in Txs \ {t} : tx'[u] = tx[u]
    BY <1>1, <2>1 DEF IInv, TypeOK, Tx
  <2> QED BY <2>2 DEF v
<1>3. /\ open /\ pending' = pending \cup {<<t, n + 1>>}
      /\ UNCHANGED <<chain, plain, open, db>>
  BY <1>1 DEF Statement, Execute, IInv, TurnInv, Running
<1>4. TypeOK'
  BY <1>1, <1>2, <1>3 DEF IInv, TypeOK, Statements
<1>5. TurnInv'
  BY <1>1, <1>2, <1>3 DEF IInv, TurnInv, Running, Turn
<1>6. \A m \in 1..MaxWrites : <<t, m>> \notin db
  BY <1>1 DEF IInv, JournalInv
<1>7. Own(t)' \subseteq pending'
  <2> SUFFICES ASSUME NEW m \in 1..n + 1 PROVE <<t, m>> \in pending'
    BY <1>2 DEF Own
  <2>1. CASE m = n + 1
    BY <2>1, <1>3
  <2>2. CASE m # n + 1
    <3>1. m \in 1..n
      BY <1>1, <2>2
    <3> QED BY <3>1, <1>1, <1>3 DEF IInv, JournalInv, Own
  <2> QED BY <2>1, <2>2
<1>8. JournalInv'
  <2>1. ASSUME NEW u \in Txs, NEW m \in 1..MaxWrites, <<u, m>> \in pending'
        PROVE  Running(u)' /\ m <= tx'[u].writes
    <3>1. CASE u = t /\ m = n + 1
      BY <3>1, <1>1, <1>2 DEF Running
    <3>2. CASE ~(u = t /\ m = n + 1)
      <4>1. <<u, m>> \in pending
        BY <2>1, <3>2, <1>3
      <4>2. Running(u) /\ m <= tx[u].writes
        BY <4>1 DEF IInv, JournalInv
      <4> QED BY <4>2, <1>1, <1>2 DEF Running
    <3> QED BY <3>1, <3>2
  <2>2. \A u \in Txs, m \in 1..MaxWrites : <<u, m>> \in db' => tx'[u].pc = "done" /\ m <= tx'[u].writes
    BY <1>2, <1>3, <1>6 DEF IInv, JournalInv
  <2>3. \A u \in Txs : tx'[u].pc = "body" => Own(u)' \subseteq pending'
    BY <1>2, <1>3, <1>7 DEF IInv, JournalInv, Own
  <2>4. \A u \in Txs : tx'[u].pc = "done" => Own(u)' \subseteq db'
    BY <1>2, <1>3 DEF IInv, JournalInv, Own
  <2>5. \A u \in Txs : tx'[u].pc \in {"idle", "queued"} => tx'[u].writes = 0
    BY <1>2 DEF IInv, JournalInv
  <2> QED BY <1>3, <2>1, <2>2, <2>3, <2>4, <2>5 DEF JournalInv
<1> QED BY <1>4, <1>5, <1>8 DEF IInv

(* What is committed are the statements of the one transaction that ran,   *)
(* and what others ran meanwhile.                                          *)
LEMMA CommitFacts ==
  ASSUME IInv, NEW t \in Txs, Commit(t)
  PROVE  /\ Turn(t)
         /\ Own(t) \subseteq pending
         /\ \A u \in Txs, m \in 1..MaxWrites : <<u, m>> \in pending => u = t /\ m \in 1..tx[t].writes
<1>1. tx[t].pc = "body" /\ Turn(t)
  BY DEF Commit, IInv, TurnInv, Running
<1>2. ASSUME NEW u \in Txs, NEW m \in 1..MaxWrites, <<u, m>> \in pending
      PROVE  u = t /\ m \in 1..tx[t].writes
  <2>1. Running(u) /\ m <= tx[u].writes
    BY <1>2 DEF IInv, JournalInv
  <2>2. u = t
    BY <1>1, <2>1, Alone
  <2> QED BY <2>1, <2>2 DEF IInv, TypeOK, Tx
<1> QED BY <1>1, <1>2 DEF IInv, JournalInv

LEMMA CommitStep ==
  ASSUME IInv, NEW t \in Txs, Commit(t)
  PROVE  IInv'
<1>1. /\ tx' \in [Txs -> Tx]
      /\ tx'[t].pc = "done" /\ tx'[t].writes = tx[t].writes
      /\ \A u \in Txs \ {t} : tx'[u] = tx[u]
  BY GotoFacts DEF IInv, Commit, Settle
<1>2. /\ tx[t].pc = "body" /\ db' = db \cup pending /\ pending' = {} /\ ~open' /\ open' = FALSE
      /\ plain' = plain /\ chain' = Tail(chain)
  BY DEF Commit, Discard, Settle
<1>3. /\ Turn(t) /\ Own(t) \subseteq pending
      /\ \A u \in Txs, m \in 1..MaxWrites : <<u, m>> \in pending => u = t /\ m \in 1..tx[t].writes
  BY CommitFacts
<1>4. \A u \in Txs : ~Running(u)'
  BY <1>1, <1>3, Alone DEF Running
<1>5. TypeOK'
  <2>1. chain' \in Seq(Txs)
    BY <1>2, <1>3 DEF Turn, IInv, TypeOK
  <2> QED BY <2>1, <1>1, <1>2 DEF IInv, TypeOK
<1>6. TurnInv'
  BY <1>2, <1>4 DEF TurnInv
<1>7. JournalInv'
  <2>1. \A u \in Txs, m \in 1..MaxWrites : <<u, m>> \in db' => tx'[u].pc = "done" /\ m <= tx'[u].writes
    <3> SUFFICES ASSUME NEW u \in Txs, NEW m \in 1..MaxWrites, <<u, m>> \in db'
                 PROVE  tx'[u].pc = "done" /\ m <= tx'[u].writes
      OBVIOUS
    <3>1. CASE <<u, m>> \in db
      BY <3>1, <1>1, <1>2 DEF IInv, JournalInv
    <3>2. CASE <<u, m>> \in pending
      <4>1. u = t /\ m \in 1..tx[t].writes
        BY <3>2, <1>3
      <4> QED BY <4>1, <1>1 DEF IInv, TypeOK, Tx
    <3> QED BY <3>1, <3>2, <1>2
  <2>2. \A u \in Txs : tx'[u].pc = "done" => Own(u)' \subseteq db'
    BY <1>1, <1>2, <1>3 DEF IInv, JournalInv, Own
  <2>3. \A u \in Txs : tx'[u].pc # "body"
    BY <1>4 DEF Running
  <2>4. \A u \in Txs : tx'[u].pc \in {"idle", "queued"} => tx'[u].writes = 0
    BY <1>1 DEF IInv, JournalInv
  <2> QED BY <1>2, <2>1, <2>2, <2>3, <2>4 DEF JournalInv
<1> QED BY <1>5, <1>6, <1>7 DEF IInv

LEMMA ThrowsStep ==
  ASSUME IInv, NEW t \in Txs, Throws(t)
  PROVE  IInv'
<1>1. /\ tx' \in [Txs -> Tx]
      /\ tx'[t].pc = "rollback" /\ tx'[t].writes = tx[t].writes
      /\ \A u \in Txs \ {t} : tx'[u] = tx[u]
  BY GotoFacts DEF IInv, Throws
<1>2. tx[t].pc = "body" /\ UNCHANGED <<chain, plain, open, db, pending>>
  BY DEF Throws
<1>3. TypeOK'
  BY <1>1, <1>2 DEF IInv, TypeOK
<1>4. TurnInv'
  BY <1>1, <1>2 DEF IInv, TurnInv, Running, Turn
<1>5. JournalInv'
  BY <1>1, <1>2 DEF IInv, JournalInv, Running, Own
<1> QED BY <1>3, <1>4, <1>5 DEF IInv

LEMMA PlainStep ==
  ASSUME IInv, NEW p \in Plains, Plain(p)
  PROVE  /\ IInv'
         /\ UNCHANGED tx
         /\ {w \in db' : w[1] \in Txs} = {w \in db : w[1] \in Txs}
<1>1. plain' = [plain EXCEPT ![p] = "ok"] /\ UNCHANGED <<chain, tx, open>>
  BY DEF Plain
<1>2. /\ <<p, 1>> \in Statements /\ p \notin Txs
      /\ \A t \in Txs, n \in 1..MaxWrites : <<t, n>> # <<p, 1>>
  BY SqliteAssumption DEF Statements
<1>3. /\ db' \subseteq db \cup {<<p, 1>>} /\ db \subseteq db'
      /\ pending' \subseteq pending \cup {<<p, 1>>} /\ pending \subseteq pending'
      /\ ~open => pending' = pending
  BY DEF Plain, Execute
<1>4. TypeOK'
  BY <1>1, <1>2, <1>3 DEF IInv, TypeOK
<1>5. TurnInv'
  BY <1>1 DEF IInv, TurnInv, Running, Turn
<1>6. JournalInv'
  BY <1>1, <1>2, <1>3 DEF IInv, JournalInv, Running, Own
<1>7. {w \in db' : w[1] \in Txs} = {w \in db : w[1] \in Txs}
  BY <1>2, <1>3
<1> QED BY <1>1, <1>4, <1>5, <1>6, <1>7 DEF IInv

LEMMA CrashStep ==
  ASSUME IInv, Crash
  PROVE  IInv'
<1>1. /\ chain' = <<>> /\ ~open' /\ open' = FALSE /\ pending' = {} /\ UNCHANGED <<plain, db>>
      /\ tx' = [t \in Txs |-> IF InFlight(t) THEN [tx[t] EXCEPT !.pc = "failed"] ELSE tx[t]]
  BY DEF Crash, Discard
<1>2. \A t \in Txs : /\ tx'[t].writes = tx[t].writes
                     /\ InFlight(t) => tx'[t].pc = "failed"
                     /\ ~InFlight(t) => tx'[t].pc = tx[t].pc
                     /\ tx'[t] \in Tx
  BY <1>1 DEF IInv, TypeOK, Tx
<1>3. TypeOK'
  <2>1. chain' \in Seq(Txs) /\ tx' \in [Txs -> Tx]
    BY <1>1, <1>2
  <2> QED BY <1>1, <2>1 DEF IInv, TypeOK
<1>4. \A t \in Txs : ~Running(t)'
  BY <1>2 DEF Running, InFlight
<1>5. TurnInv'
  BY <1>1, <1>4 DEF TurnInv
<1>6. JournalInv'
  BY <1>1, <1>2 DEF IInv, JournalInv, Own, InFlight
<1> QED BY <1>3, <1>5, <1>6 DEF IInv

LEMMA Steps == IInv /\ [Next]_vars => IInv'
<1> SUFFICES ASSUME IInv, [Next]_vars PROVE IInv'
  OBVIOUS
<1>1. CASE UNCHANGED vars
  BY <1>1 DEF vars, IInv, TypeOK, TurnInv, JournalInv, Running, Turn, Own
<1>2. ASSUME NEW t \in Txs, Proceed(t)
      PROVE  IInv'
  BY <1>2, BeginStep, BeginFailsStep, StatementStep, CommitStep, ThrowsStep, RollbackStep DEF Proceed
<1> QED BY <1>1, <1>2, RequestStep, PlainStep, CrashStep DEF Next

(* The inductive invariant of the adapter. *)
THEOREM Invariance == Spec => []IInv
  BY Starts, Steps, PTL DEF Spec

(* Every variable keeps its type. *)
THEOREM TypeCorrect == Spec => []TypeOK
<1>1. IInv => TypeOK
  BY DEF IInv
<1> QED BY Invariance, <1>1, PTL

(* sqlite.ts: "BEGIN never runs while another transaction is open".  The   *)
(* connection is in a transaction only while somebody has the turn who is  *)
(* past his BEGIN.                                                         *)
THEOREM BeginTheorem == Spec => []BeginsClosed
<1>1. IInv => BeginsClosed
  BY Alone DEF IInv, TurnInv, BeginsClosed, Running
<1> QED BY Invariance, <1>1, PTL

(* sqlite.ts, ISS-040: a transaction that succeeded is durable as a whole, *)
(* and of one that failed nothing is left.                                 *)
THEOREM AtomicityTheorem == Spec => []AllOrNothing
<1>1. IInv => AllOrNothing
  BY DEF IInv, JournalInv, AllOrNothing, Running
<1> QED BY Invariance, <1>1, PTL

-----------------------------------------------------------------------------
Stored == {w \in db : w[1] \in Txs}

Outcome == [t \in Txs |-> IF tx[t].pc \in {"done", "failed"} THEN tx[t].pc ELSE "none"]

LEMMA CommitMaps ==
  ASSUME IInv, NEW t \in Txs, Commit(t)
  PROVE  AS!Commit(t)
<1>1. tx[t].pc = "body" /\ db' = db \cup pending
  BY DEF Commit
<1>2. /\ Own(t) \subseteq pending
      /\ \A u \in Txs, m \in 1..MaxWrites : <<u, m>> \in pending => u = t /\ m \in 1..tx[t].writes
  BY CommitFacts
<1>3. /\ tx'[t].pc = "done"
      /\ \A u \in Txs \ {t} : tx'[u] = tx[u]
  BY GotoFacts DEF IInv, Commit, Settle
<1>4. tx[t].writes \in 0..MaxWrites
  BY DEF IInv, TypeOK, Tx
<1>5. {w \in pending : w[1] \in Txs} = {t} \X (1..tx[t].writes)
  <2>1. ASSUME NEW w \in pending, w[1] \in Txs
        PROVE  w \in {t} \X (1..tx[t].writes)
    <3>1. w \in Txs \X (1..MaxWrites)
      BY <2>1, SqliteAssumption DEF IInv, TypeOK, Statements
    <3>2. PICK u \in Txs, m \in 1..MaxWrites : w = <<u, m>>
      BY <3>1
    <3> QED BY <3>2, <1>2
  <2> QED BY <2>1, <1>2 DEF Own
<1>6. Stored' = Stored \cup ({t} \X (1..tx[t].writes))
  BY <1>1, <1>5 DEF Stored
<1>7. Outcome[t] = "none" /\ Outcome' = [Outcome EXCEPT ![t] = "done"]
  BY <1>1, <1>3 DEF Outcome
<1> QED BY <1>4, <1>6, <1>7 DEF AS!Commit, Stored, Outcome

(* A step that makes no statement durable and ends some transactions. *)
LEMMA AbortMaps ==
  ASSUME NEW S \in SUBSET Txs, Stored' = Stored,
         \A t \in S : tx[t].pc \notin {"done", "failed"} /\ tx'[t].pc = "failed",
         \A t \in Txs \ S : Outcome'[t] = Outcome[t]
  PROVE  AS!Abort(S)
  BY DEF AS!Abort, Stored, Outcome

(* The adapter implements the abstract store: a commit is a commit of it,  *)
(* a failure or a restart an abort, and nothing else is visible.           *)
THEOREM RefinementTheorem == Spec => AtomicStoreSpec
<1>1. Init => AS!Init
  BY DEF Init, AS!Init
<1>2. ASSUME IInv, [Next]_vars
      PROVE  [AS!Next]_<<Stored, Outcome>>
  <2>1. ASSUME NEW t \in Txs, Commit(t)
        PROVE  AS!Next
    BY <1>2, <2>1, CommitMaps DEF AS!Next
  <2>2. ASSUME NEW t \in Txs, BeginFails(t) \/ Rollback(t)
        PROVE  AS!Next
    <3>1. /\ tx[t].pc \notin {"done", "failed"} /\ UNCHANGED db
          /\ tx'[t].pc = "failed" /\ \A u \in Txs \ {t} : tx'[u] = tx[u]
      BY <1>2, <2>2, GotoFacts DEF IInv, BeginFails, Rollback, Settle
    <3>2. AS!Abort({t})
      <4>1. Stored' = Stored /\ \A u \in Txs \ {t} : Outcome'[u] = Outcome[u]
        BY <3>1 DEF Stored, Outcome
      <4> QED BY <3>1, <4>1, AbortMaps
    <3> QED BY <3>2 DEF AS!Next
  <2>3. CASE Crash
    <3>0. PICK S \in SUBSET Txs : \A t \in Txs : t \in S <=> InFlight(t)
      <4>1. {t \in Txs : InFlight(t)} \in SUBSET Txs
        OBVIOUS
      <4> QED BY <4>1
    <3>1. /\ Stored' = Stored
          /\ \A t \in S : tx[t].pc \notin {"done", "failed"} /\ tx'[t].pc = "failed"
          /\ \A t \in Txs \ S : tx'[t] = tx[t]
      BY <1>2, <2>3, <3>0 DEF Crash, Stored, InFlight, IInv, TypeOK, Tx
    <3>2. \A t \in Txs \ S : Outcome'[t] = Outcome[t]
      BY <3>1 DEF Outcome
    <3>3. AS!Abort(S)
      BY <3>1, <3>2, AbortMaps
    <3> QED BY <3>3 DEF AS!Next
  <2>4. ASSUME NEW p \in Plains, Plain(p)
        PROVE  UNCHANGED <<Stored, Outcome>>
    BY <1>2, <2>4, PlainStep DEF Stored, Outcome
  <2>5. ASSUME NEW t \in Txs, Request(t) \/ Begin(t) \/ Throws(t)
        PROVE  UNCHANGED <<Stored, Outcome>>
    <3>1. /\ tx[t].pc \notin {"done", "failed"} /\ tx'[t].pc \notin {"done", "failed"}
          /\ UNCHANGED db /\ \A u \in Txs \ {t} : tx'[u] = tx[u]
      BY <1>2, <2>5, GotoFacts DEF IInv, Request, Begin, Throws
    <3> QED BY <3>1 DEF Stored, Outcome
  <2>6. ASSUME NEW t \in Txs, Statement(t)
        PROVE  UNCHANGED <<Stored, Outcome>>
    <3>1. UNCHANGED db
      BY <1>2, <2>6 DEF Statement, Execute, IInv, TurnInv, Running
    <3>2. \A u \in Txs : tx'[u].pc = tx[u].pc
      BY <1>2, <2>6 DEF Statement, IInv, TypeOK, Tx
    <3> QED BY <3>1, <3>2 DEF Stored, Outcome
  <2>7. CASE UNCHANGED vars
    BY <2>7 DEF vars, Stored, Outcome
  <2> QED BY <1>2, <2>1, <2>2, <2>3, <2>4, <2>5, <2>6, <2>7 DEF Next, Proceed
<1> QED BY <1>1, <1>2, Invariance, PTL DEF Spec, AtomicStoreSpec, AS!Spec, Stored, Outcome
=============================================================================
