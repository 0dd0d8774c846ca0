----------------------------- MODULE ToolBridge -----------------------------
(***************************************************************************)
(* The bridge by which an AI driver on the server calls tools that run in  *)
(* a browser: a stream the editor holds open, a request pushed down it, a  *)
(* result posted back (ai/runtime/transport.ts), and the registry of the   *)
(* editor a user has open (ai/mcp/editorBridge.ts).                        *)
(*                                                                         *)
(* The streams are those of one user.                                      *)
(***************************************************************************)
CONSTANTS
    Streams,        \* the streams the user's editors open, each once
    Calls,          \* the tool calls that are made
    NoStream        \* no stream

ASSUME BridgeAssumption == NoStream \notin Streams

VARIABLES
    stream,         \* each stream
    current,        \* byUser: the stream whose bridge is called
    call            \* each call

bridgeVars == <<stream, current, call>>

(* active: in activeBridges.  aborted: its signal.  closed: nothing more is *)
(* emitted down it.                                                         *)
Stream == [opened : BOOLEAN, active : BOOLEAN, aborted : BOOLEAN, closed : BOOLEAN]

(* timed, listening: its timer and its abort listener are set *)
Call == [state : {"unmade", "pending", "answered", "failed"}, on : Streams \cup {NoStream},
         timed : BOOLEAN, listening : BOOLEAN]

BridgeTypeOK ==
    /\ stream \in [Streams -> Stream] /\ current \in Streams \cup {NoStream} /\ call \in [Calls -> Call]

BridgeInit ==
    /\ stream = [s \in Streams |-> [opened |-> FALSE, active |-> FALSE, aborted |-> FALSE, closed |-> FALSE]]
    /\ current = NoStream
    /\ call = [c \in Calls |-> [state |-> "unmade", on |-> NoStream, timed |-> FALSE, listening |-> FALSE]]

Pending(s) == {c \in Calls : call[c].state = "pending" /\ call[c].on = s}

(* cleanup, then resolve or reject *)
Settled(c, state) == [call[c] EXCEPT !.state = state, !.timed = FALSE, !.listening = FALSE]

(* Mutant: the timers are cleared and nobody is told *)
FailAllSilently(S) ==
    [c \in Calls |-> IF c \in S THEN [call[c] EXCEPT !.timed = FALSE, !.listening = FALSE] ELSE call[c]]

FailAll(S) == [c \in Calls |-> IF c \in S THEN Settled(c, "failed") ELSE call[c]]

(* destroy: the bridge goes and takes what waits for it with it *)
Destroy(s) == call' = IF stream[s].active THEN FailAll(Pending(s)) ELSE call

-----------------------------------------------------------------------------
(* createEditorBridgeStream: the newest editor wins *)
Connect(s) ==
    /\ ~stream[s].opened
    /\ IF current = NoStream
       THEN /\ stream' = [stream EXCEPT ![s].opened = TRUE, ![s].active = TRUE]
            /\ UNCHANGED call
       ELSE /\ stream' = [stream EXCEPT ![s].opened = TRUE, ![s].active = TRUE, ![current].active = FALSE]
            /\ Destroy(current)
    /\ current' = s

(* emit or the heartbeat finds that nothing can be enqueued any more *)
EnqueueFails(s) ==
    /\ stream[s].opened /\ ~stream[s].closed
    /\ stream' = [stream EXCEPT ![s].closed = TRUE]
    /\ UNCHANGED <<current, call>>

(* Mutant: whatever editor is the current one is evicted *)
AbortEvictingAny(s) ==
    /\ stream[s].opened /\ ~stream[s].aborted
    /\ stream' = [stream EXCEPT ![s].aborted = TRUE, ![s].closed = TRUE,
                                ![s].active = stream[s].active /\ stream[s].closed]
    /\ IF stream[s].closed
       THEN call' = FailAll({c \in Pending(s) : call[c].listening}) /\ UNCHANGED current
       ELSE Destroy(s) /\ current' = NoStream

(* The signal: cleanup, unless the stream is closed already, and then the  *)
(* listeners of the calls that are still pending.                          *)
Abort(s) ==
    /\ stream[s].opened /\ ~stream[s].aborted
    /\ stream' = [stream EXCEPT ![s].aborted = TRUE, ![s].closed = TRUE,
                                ![s].active = stream[s].active /\ stream[s].closed]
    /\ IF stream[s].closed
       THEN call' = FailAll({c \in Pending(s) : call[c].listening}) /\ UNCHANGED current
       ELSE Destroy(s) /\ current' = IF current = s THEN NoStream ELSE current

(* callBrowser on the bridge of the current editor *)
CallBrowser(c) ==
    /\ call[c].state = "unmade" /\ current # NoStream
    /\ call' = [call EXCEPT ![c] =
          IF stream[current].aborted
          THEN [state |-> "failed", on |-> current, timed |-> FALSE, listening |-> FALSE]
          ELSE [state |-> "pending", on |-> current, timed |-> TRUE, listening |-> TRUE]]
    /\ UNCHANGED <<stream, current>>

(* resolveBridgeToolResult *)
Result(c) ==
    /\ call[c].state = "pending" /\ stream[call[c].on].active
    /\ call' = [call EXCEPT ![c] = Settled(c, "answered")]
    /\ UNCHANGED <<stream, current>>

Timeout(c) ==
    /\ call[c].state = "pending" /\ call[c].timed
    /\ call' = [call EXCEPT ![c] = Settled(c, "failed")]
    /\ UNCHANGED <<stream, current>>

BridgeNext ==
    \/ \E s \in Streams : Connect(s) \/ EnqueueFails(s) \/ Abort(s)
    \/ \E c \in Calls : CallBrowser(c) \/ Result(c) \/ Timeout(c)

BridgeSpec == BridgeInit /\ [][BridgeNext]_bridgeVars

(* A timer that is set fires; a browser need not answer. *)
BridgeFairness == \A c \in Calls : WF_bridgeVars(Timeout(c))

-----------------------------------------------------------------------------
(* transport.ts "so a non-responding browser can never hang the SDK        *)
(* stream": a call ends, whatever becomes of its stream: answered, timed   *)
(* out, aborted, torn down by a newer editor or left behind by a stream    *)
(* that closed first.                                                      *)
CallsSettle == \A c \in Calls : call[c].state = "pending" ~> call[c].state \in {"answered", "failed"}

(* The bridge that is called is one results are taken for. *)
CurrentIsActive == current # NoStream => stream[current].active

(* editorBridge.ts "Newest editor wins; if an older tab disconnects first  *)
(* that's fine": the editor opened last is the one called, and results for *)
(* its calls are taken, until its own stream is aborted or a newer one is  *)
(* opened, however late the streams before it end.                         *)
NewestEditorCalled ==
    [][\A s \in Streams : current = s /\ ~stream'[s].aborted =>
         \/ current' = s /\ stream'[s].active
         \/ current' \in Streams /\ ~stream[current'].opened]_bridgeVars

=============================================================================
