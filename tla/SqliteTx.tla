------------------------------ MODULE SqliteTx ------------------------------
(***************************************************************************)
(* The SQLite adapter (sqlite.ts): every statement of the process runs on  *)
(* one connection.  A transaction is BEGIN, the statements of a callback   *)
(* that awaits between them, and COMMIT or ROLLBACK; a chain of promises   *)
(* lets one transaction run at a time (ISS-040).  The callback is given    *)
(* the client that everybody uses, so the statements of other requests run *)
(* between those of the callback, on the same connection.                  *)
(*                                                                         *)
(* A statement is an insertion, named by who made it and its number.       *)
(***************************************************************************)
EXTENDS Naturals, Sequences

CONSTANTS
    Txs,        \* requests that run a transaction
    Plains,     \* requests that run a statement outside any transaction
    Failures,   \* TRUE: a callback, a BEGIN or a COMMIT can fail
    Crashes,    \* TRUE: the process can stop and start again
    MaxWrites   \* bound: statements of a transaction

ASSUME SqliteAssumption ==
    /\ Txs \cap Plains = {}
    /\ Failures \in BOOLEAN /\ Crashes \in BOOLEAN
    /\ MaxWrites \in Nat

VARIABLES
    chain,      \* txChain: the transactions that were asked for and have not settled
    tx,         \* each transaction's progress and the statements it has run
    plain,      \* each statement outside: not yet run, or answered
    open,       \* the connection is in a transaction
    db,         \* the statements that are durable
    pending     \* the statements of the open transaction

vars == <<chain, tx, plain, open, db, pending>>

Tx == [pc : {"idle", "queued", "body", "rollback", "done", "failed"}, writes : 0..MaxWrites]

Statements == (Txs \X (1..MaxWrites)) \cup (Plains \X {1})

TypeOK ==
    /\ chain \in Seq(Txs)
    /\ tx \in [Txs -> Tx]
    /\ plain \in [Plains -> {"idle", "ok"}]
    /\ open \in BOOLEAN
    /\ db \subseteq Statements
    /\ pending \subseteq Statements

Init ==
    /\ chain = <<>>
    /\ tx = [t \in Txs |-> [pc |-> "idle", writes |-> 0]]
    /\ plain = [p \in Plains |-> "idle"]
    /\ open = FALSE
    /\ db = {}
    /\ pending = {}

Goto(t, pc) == tx' = [tx EXCEPT ![t].pc = pc]

-----------------------------------------------------------------------------
(* The connection.                                                         *)

(* Mutant: the statements of a callback run on a connection of their own. *)
ExecuteAside(w) == db' = db \cup {w} /\ UNCHANGED pending

(* A statement commits by itself unless a transaction is open. *)
Execute(w) ==
    IF open THEN pending' = pending \cup {w} /\ UNCHANGED db
            ELSE db' = db \cup {w} /\ UNCHANGED pending

Discard == open' = FALSE /\ pending' = {}

-----------------------------------------------------------------------------
(* A transaction.                                                          *)

(* fn.transaction: txChain.then(run, run) *)
Request(t) ==
    /\ tx[t].pc = "idle"
    /\ Goto(t, "queued")
    /\ chain' = Append(chain, t)
    /\ UNCHANGED <<plain, open, db, pending>>

(* Mutant: a transaction does not wait for the one before it. *)
TurnAtOnce(t) == \E i \in 1..Len(chain) : chain[i] = t

Turn(t) == chain # <<>> /\ Head(chain) = t

(* The promise settles, and the next in line has its turn. *)
Settle(t, pc) == Goto(t, pc) /\ chain' = Tail(chain)

Begin(t) ==
    /\ tx[t].pc = "queued" /\ Turn(t)
    /\ ~open
    /\ Goto(t, "body")
    /\ open' = TRUE
    /\ UNCHANGED <<chain, plain, db, pending>>

(* BEGIN throws within a transaction; outside the try, it rolls back nothing. *)
BeginFails(t) ==
    /\ tx[t].pc = "queued" /\ Turn(t)
    /\ open \/ Failures
    /\ Settle(t, "failed")
    /\ UNCHANGED <<plain, open, db, pending>>

(* Mutant: a callback runs a statement too many. *)
StatementOneMore(t) ==
    /\ tx[t].pc = "body"
    /\ tx' = [tx EXCEPT ![t].writes = @ + 1]
    /\ Execute(<<t, tx[t].writes + 1>>)
    /\ UNCHANGED <<chain, plain, open>>

Statement(t) ==
    /\ tx[t].pc = "body" /\ tx[t].writes < MaxWrites
    /\ tx' = [tx EXCEPT ![t].writes = @ + 1]
    /\ Execute(<<t, tx[t].writes + 1>>)
    /\ UNCHANGED <<chain, plain, open>>

Commit(t) ==
    /\ tx[t].pc = "body" /\ open
    /\ db' = db \cup pending
    /\ Discard
    /\ Settle(t, "done")
    /\ UNCHANGED plain

(* The callback throws, or COMMIT does. *)
Throws(t) ==
    /\ tx[t].pc = "body"
    /\ ~open \/ Failures
    /\ Goto(t, "rollback")
    /\ UNCHANGED <<chain, plain, open, db, pending>>

(* Mutant: the error is passed on and nothing rolled back. *)
RollbackNothing(t) ==
    /\ tx[t].pc = "rollback"
    /\ Settle(t, "failed")
    /\ UNCHANGED <<plain, open, db, pending>>

(* Mutant: a failed transaction does not hand on its turn. *)
RollbackHolding(t) ==
    /\ tx[t].pc = "rollback"
    /\ Discard
    /\ Goto(t, "failed")
    /\ UNCHANGED <<chain, plain, db>>

(* ROLLBACK; its own failure, when no transaction is open, is swallowed. *)
Rollback(t) ==
    /\ tx[t].pc = "rollback"
    /\ Discard
    /\ Settle(t, "failed")
    /\ UNCHANGED <<plain, db>>

-----------------------------------------------------------------------------
(* Everything else.                                                        *)

(* A statement of another request, answered at once. *)
Plain(p) ==
    /\ plain[p] = "idle"
    /\ plain' = [plain EXCEPT ![p] = "ok"]
    /\ Execute(<<p, 1>>)
    /\ UNCHANGED <<chain, tx, open>>

InFlight(t) == tx[t].pc \in {"queued", "body", "rollback"}

(* The process stops: what is not durable is gone, and with it the chain. *)
Crash ==
    /\ Crashes
    /\ chain' = <<>>
    /\ tx' = [t \in Txs |-> IF InFlight(t) THEN [tx[t] EXCEPT !.pc = "failed"] ELSE tx[t]]
    /\ Discard
    /\ UNCHANGED <<plain, db>>

Proceed(t) == Begin(t) \/ BeginFails(t) \/ Statement(t) \/ Commit(t) \/ Throws(t) \/ Rollback(t)

Next ==
    \/ \E t \in Txs : Request(t) \/ Proceed(t)
    \/ \E p \in Plains : Plain(p)
    \/ Crash

Spec == Init /\ [][Next]_vars

(* What a callback awaits settles, and so does every statement. *)
FairSpec == Spec /\ \A t \in Txs : WF_vars(Proceed(t))

-----------------------------------------------------------------------------
(* Properties.                                                             *)

Own(t) == {t} \X (1..tx[t].writes)

(* sqlite.ts: "BEGIN never runs while another transaction is open". *)
BeginsClosed == \A t \in Txs : tx[t].pc = "queued" /\ Turn(t) => ~open

(* sqlite.ts, ISS-040: a transaction that was answered with success is     *)
(* durable as a whole; of one that failed nothing is left, neither durable *)
(* nor in a transaction that somebody else may commit.                     *)
AllOrNothing ==
    \A t \in Txs :
        /\ tx[t].pc = "done" => Own(t) \subseteq db
        /\ tx[t].pc = "failed" => \A n \in 1..MaxWrites : <<t, n>> \notin db \cup pending

(* sqlite.ts: every transaction settles, whatever those before it do. *)
TransactionsSettle == \A t \in Txs : InFlight(t) ~> ~InFlight(t)

(* The transactions of the adapter are those of a database: each takes     *)
(* effect in one step.                                                     *)
AS == INSTANCE AtomicStore WITH
          store <- {w \in db : w[1] \in Txs},
          outcome <- [t \in Txs |-> IF tx[t].pc \in {"done", "failed"} THEN tx[t].pc ELSE "none"]

AtomicStoreSpec == AS!Spec

(* server.md: the client of the callback "scopes its queries to the        *)
(* transaction": what it rolls back are its own statements, and a statement *)
(* of another request that was answered stays.                             *)
PlainsStay == \A p \in Plains : plain[p] = "ok" => <<p, 1>> \in db \cup pending
=============================================================================
