---------------------------- MODULE Parts_proofs ----------------------------
(***************************************************************************)
(* The newest editor of a user is the one whose bridge is called, for any  *)
(* number of streams and calls; the bytes of a media asset stay where its  *)
(* row says, for any number of replacements, migrations, deletions and     *)
(* adapters, and a crash at any step; no worker of a plugin, and nothing   *)
(* it registered, outlives its teardown, for any number of tasks and       *)
(* requests; and the tree of a page stays a tree with its cached parents,  *)
(* for any number of nodes and selections of any size.                     *)
(***************************************************************************)
EXTENDS MCParts, FiniteSetTheorems, SequenceTheorems, TLAPS

-----------------------------------------------------------------------------
(* The bridge.                                                             *)

BridgeInv ==
    /\ BridgeTypeOK
    /\ CurrentIsActive
    /\ current # NoStream => stream[current].opened

LEMMA BridgeStarts == BridgeInit => BridgeInv
  BY DEF BridgeInit, BridgeInv, BridgeTypeOK, CurrentIsActive, Stream, Call

LEMMA SettledType ==
  ASSUME BridgeTypeOK, NEW c \in Calls, NEW state \in {"answered", "failed"}
  PROVE  Settled(c, state) \in Call
  BY DEF BridgeTypeOK, Settled, Call

LEMMA FailAllType ==
  ASSUME BridgeTypeOK, NEW S
  PROVE  FailAll(S) \in [Calls -> Call]
  BY SettledType DEF BridgeTypeOK, FailAll

LEMMA ConnectStep ==
  ASSUME BridgeInv, NEW s \in Streams, Connect(s)
  PROVE  BridgeInv'
<1>1. call' \in [Calls -> Call]
  <2>1. \A x : FailAll(Pending(x)) \in [Calls -> Call]
    BY FailAllType DEF BridgeInv
  <2>2. call' = call \/ \E x : call' = FailAll(Pending(x))
    BY DEF Connect, Destroy
  <2> QED BY <2>1, <2>2 DEF BridgeInv, BridgeTypeOK
<1>2. stream \in [Streams -> Stream] /\ (current # NoStream => current \in Streams /\ current # s)
  BY DEF BridgeInv, BridgeTypeOK, Connect
<1> DEFINE opening == [stream EXCEPT ![s].opened = TRUE, ![s].active = TRUE]
<1>3. opening \in [Streams -> Stream] /\ opening[s].opened /\ opening[s].active
  BY <1>2 DEF Stream
<1> HIDE DEF opening
<1>4. ASSUME NEW x \in Streams, x # s
      PROVE  /\ [opening EXCEPT ![x].active = FALSE] \in [Streams -> Stream]
             /\ [opening EXCEPT ![x].active = FALSE][s] = opening[s]
  BY <1>3, <1>4 DEF Stream
<1>5. /\ current' = s
      /\ stream' = opening \/ (current # NoStream /\ stream' = [opening EXCEPT ![current].active = FALSE])
  BY DEF Connect, opening
<1> QED BY <1>1, <1>2, <1>3, <1>4, <1>5 DEF BridgeInv, BridgeTypeOK, CurrentIsActive

LEMMA AbortStep ==
  ASSUME BridgeInv, NEW s \in Streams, Abort(s)
  PROVE  BridgeInv'
<1>1. call' \in [Calls -> Call]
  <2>1. FailAll(Pending(s)) \in [Calls -> Call] /\ FailAll({c \in Pending(s) : call[c].listening}) \in [Calls -> Call]
    BY FailAllType DEF BridgeInv
  <2>2. call' \in {call, FailAll(Pending(s)), FailAll({c \in Pending(s) : call[c].listening})}
    BY DEF Abort, Destroy
  <2> QED BY <2>1, <2>2 DEF BridgeInv, BridgeTypeOK
<1>2. /\ stream' \in [Streams -> Stream]
      /\ \A x \in Streams : stream'[x].opened = stream[x].opened
      /\ \A x \in Streams \ {s} : stream'[x] = stream[x]
      /\ stream[s].closed => stream'[s].active = stream[s].active
  <2>1. stream \in [Streams -> Stream] /\ stream[s] \in Stream
    BY DEF BridgeInv, BridgeTypeOK
  <2> DEFINE stays == stream[s].active /\ stream[s].closed
  <2>2. stays \in BOOLEAN /\ (stream[s].closed => stays = stream[s].active)
    BY <2>1 DEF Stream
  <2>3. stream' = [stream EXCEPT ![s].aborted = TRUE, ![s].closed = TRUE, ![s].active = stays]
    BY DEF Abort
  <2> HIDE DEF stays
  <2> QED BY <2>1, <2>2, <2>3 DEF Stream
<1>3. current' \in {current, NoStream} /\ (current' = s => stream[s].closed \/ s = NoStream)
  BY DEF Abort
<1> QED BY <1>1, <1>2, <1>3, BridgeAssumption DEF BridgeInv, BridgeTypeOK, CurrentIsActive

LEMMA BridgeStep == BridgeInv /\ [BridgeNext]_bridgeVars => BridgeInv'
<1> SUFFICES ASSUME BridgeInv, [BridgeNext]_bridgeVars PROVE BridgeInv'
  OBVIOUS
<1>1. ASSUME NEW s \in Streams, EnqueueFails(s) PROVE BridgeInv'
  BY <1>1 DEF BridgeInv, BridgeTypeOK, CurrentIsActive, EnqueueFails, Stream
<1>2. ASSUME NEW c \in Calls, CallBrowser(c) PROVE BridgeInv'
  BY <1>2 DEF BridgeInv, BridgeTypeOK, CurrentIsActive, CallBrowser, Call
<1>3. ASSUME NEW c \in Calls, Result(c) \/ Timeout(c) PROVE BridgeInv'
  BY <1>3, SettledType DEF BridgeInv, BridgeTypeOK, CurrentIsActive, Result, Timeout
<1>4. CASE UNCHANGED bridgeVars
  BY <1>4 DEF BridgeInv, BridgeTypeOK, CurrentIsActive, bridgeVars
<1> QED BY <1>1, <1>2, <1>3, <1>4, ConnectStep, AbortStep DEF BridgeNext

(* The editor opened last is called, and heard, until its stream is aborted *)
(* or a newer one is opened: the late end of an older stream touches       *)
(* neither the registry nor the newer bridge (editorBridge.ts).            *)
THEOREM NewestEditorTheorem == BridgeSpec => NewestEditorCalled
<1> DEFINE Keeps == \A s \in Streams : current = s /\ ~stream'[s].aborted =>
                       \/ current' = s /\ stream'[s].active
                       \/ current' \in Streams /\ ~stream[current'].opened
<1>1. ASSUME BridgeInv, [BridgeNext]_bridgeVars PROVE [Keeps]_bridgeVars
  <2> SUFFICES ASSUME BridgeNext, NEW s \in Streams, current = s, ~stream'[s].aborted
               PROVE  \/ current' = s /\ stream'[s].active
                      \/ current' \in Streams /\ ~stream[current'].opened
    BY <1>1
  <2>1. stream[s].active /\ stream \in [Streams -> Stream]
    BY <1>1, BridgeAssumption DEF BridgeInv, BridgeTypeOK, CurrentIsActive
  <2>2. ASSUME NEW x \in Streams, Connect(x) PROVE current' \in Streams /\ ~stream[current'].opened
    BY <2>2 DEF Connect
  <2>3. ASSUME NEW x \in Streams, EnqueueFails(x) PROVE current' = s /\ stream'[s].active
    BY <2>1, <2>3 DEF EnqueueFails, Stream
  <2>4. ASSUME NEW x \in Streams, Abort(x) PROVE current' = s /\ stream'[s].active
    <3>1. x # s
      BY <2>1, <2>4 DEF Abort, Stream
    <3> QED BY <2>1, <2>4, <3>1 DEF Abort
  <2>5. ASSUME NEW c \in Calls, CallBrowser(c) \/ Result(c) \/ Timeout(c) PROVE current' = s /\ stream'[s].active
    BY <2>1, <2>5 DEF CallBrowser, Result, Timeout
  <2> QED BY <2>2, <2>3, <2>4, <2>5 DEF BridgeNext
<1> QED BY <1>1, BridgeStarts, BridgeStep, PTL DEF BridgeSpec, NewestEditorCalled

-----------------------------------------------------------------------------
(* The bytes of an asset.                                                  *)

(* q has pointed the row to what it uploaded, or never will.               *)
MovedOriginal(q) == q = First \/ request[q].pc \in {"switched", "scaled", "stamped", "swept", "over"}
MovedVariant(q) ==
    \/ q = First
    \/ request[q].pc \in {"stamped", "swept", "over"}
    \/ q \in Migrations /\ request[q].pc = "switched"

(* The row has named this path, or will not any more: a path that was read *)
(* of the row is such, one a request is about to write into it is not.     *)
PlacedOriginal(path) == path[2] = "original" /\ MovedOriginal(path[1])
PlacedVariant(path) == path[2] = "variant" /\ MovedVariant(path[1])

RowInv ==
    asset.live =>
        /\ asset.at \in stored /\ PlacedOriginal(asset.at[2])
        /\ asset.variant # NoObject => asset.variant \in stored /\ PlacedVariant(asset.variant[2])

(* What q has read, what it has uploaded, and that the row names no longer *)
(* what q is about to sweep.                                               *)
ReadInv(q) ==
    /\ q \notin Migrations => request[q].role = "original"
    /\ request[q].role = "original" => PlacedOriginal(request[q].path)
    /\ request[q].variant # NoObject => PlacedVariant(request[q].variant[2])

MadeInv(q) ==
    /\ request[q].pc = "uploaded" =>
         request[q].made \in stored /\ request[q].made[2] = <<q, request[q].role>>
    /\ request[q].pc = "scaled" /\ request[q].made # NoObject =>
         request[q].made \in stored /\ request[q].made[2] = <<q, "variant">>

SweepsOriginal(l) == l.role = "original" /\ l.pc \in {"switched", "scaled", "stamped"}
SweepsVariant(l) ==
    l.variant # NoObject /\ (l.pc \in {"stamped", "swept"} \/ (l.role = "variant" /\ l.pc = "switched"))

LeftInv(q) ==
    /\ asset.live /\ SweepsOriginal(request[q]) => asset.at[2] # request[q].path
    /\ asset.live /\ SweepsVariant(request[q]) => asset.variant # request[q].variant

RequestInv(q) == ReadInv(q) /\ MadeInv(q) /\ LeftInv(q)

MediaInv == MediaTypeOK /\ RowInv /\ \A q \in Requests : RequestInv(q)

LEMMA MediaStarts == MediaInit => MediaInv
<1> SUFFICES ASSUME MediaInit PROVE MediaInv
  OBVIOUS
<1>1. PICK a \in Adapters : /\ asset = [live |-> TRUE, trashed |-> FALSE, at |-> <<a, <<First, "original">>>>,
                                        variant |-> <<a, <<First, "variant">>>>]
                            /\ stored = {asset.at, asset.variant}
  BY DEF MediaInit, Object
<1>2. \A x \in Adapters, kind \in {"original", "variant"} : <<x, <<First, kind>>>> \in Objects
  BY DEF Objects, Paths
<1>3. asset \in Asset /\ stored \subseteq Objects
  BY <1>1, <1>2 DEF Asset
<1>4. NoRequest \in Request
  BY MediaAssumption DEF NoRequest, Request, Paths
<1>5. MediaTypeOK
  BY <1>3, <1>4 DEF MediaInit, MediaTypeOK
<1>6. RowInv
  BY <1>1 DEF RowInv, PlacedOriginal, PlacedVariant, MovedOriginal, MovedVariant
<1>7. ASSUME NEW q \in Requests PROVE RequestInv(q)
  <2>1. request[q] = NoRequest
    BY DEF MediaInit
  <2> QED BY <2>1 DEF NoRequest, RequestInv, ReadInv, MadeInv, LeftInv, SweepsOriginal, SweepsVariant,
                      PlacedOriginal, MovedOriginal
<1> QED BY <1>5, <1>6, <1>7 DEF MediaInv

(* The request q takes a step to l, sweeping what was placed or is its own *)
(* and pointing the row to what it had not pointed it to.                  *)
LEMMA RequestStep ==
  ASSUME MediaInv, NEW q \in Requests, NEW l \in Request,
         request' = [request EXCEPT ![q] = l],
         MovedOriginal(q) => MovedOriginal(q)', MovedVariant(q) => MovedVariant(q)',
         elected' \in Adapters, stored' \subseteq Objects, asset' \in Asset,
         \A o \in stored \ stored' : o[2][1] = q \/ PlacedOriginal(o[2]) \/ PlacedVariant(o[2]),
         asset'.live => asset.live,
         asset'.at = asset.at \/ (asset'.at[2][1] = q /\ ~MovedOriginal(q)),
         asset'.variant \in {asset.variant, NoObject} \/ (asset'.variant[2][1] = q /\ ~MovedVariant(q)),
         RowInv', RequestInv(q)'
  PROVE  MediaInv'
<1>1. /\ request \in [Requests -> Request] /\ request'[q] = l
      /\ \A x \in Requests \ {q} : request'[x] = request[x]
  BY DEF MediaInv, MediaTypeOK
<1>2. MediaTypeOK'
  BY <1>1 DEF MediaTypeOK
<1>3. \A x \in Requests \cup {First} :
        (MovedOriginal(x) => MovedOriginal(x)') /\ (MovedVariant(x) => MovedVariant(x)')
  BY <1>1 DEF MovedOriginal, MovedVariant
<1>4. ASSUME NEW x \in Requests, x # q PROVE RequestInv(x)'
  <2>1. RequestInv(x) /\ request'[x] = request[x] /\ request[x] \in Request
    BY <1>1, <1>4 DEF MediaInv
  <2>2. ReadInv(x)'
    <3>1. request[x].path[1] \in Requests \cup {First}
      BY <2>1 DEF Request, Paths
    <3>2. request[x].variant # NoObject => request[x].variant[2][1] \in Requests \cup {First}
      BY <2>1 DEF Request, Objects, Paths
    <3> QED BY <1>3, <2>1, <3>1, <3>2 DEF RequestInv, ReadInv, PlacedOriginal, PlacedVariant
  <2>3. MadeInv(x)'
    <3>1. x # First
      BY MediaAssumption
    <3>2. request[x].pc \in {"uploaded", "scaled"} => ~MovedOriginal(x) \/ request[x].pc = "scaled"
      BY <3>1 DEF MovedOriginal
    <3>3. request[x].pc \in {"uploaded", "scaled"} => ~MovedVariant(x)
      BY <3>1 DEF MovedVariant
    <3> QED BY <1>4, <2>1, <3>2, <3>3 DEF RequestInv, MadeInv, PlacedOriginal, PlacedVariant
  <2>4. LeftInv(x)'
    <3>1. SweepsOriginal(request[x]) => PlacedOriginal(request[x].path)
      BY <2>1 DEF RequestInv, ReadInv, SweepsOriginal
    <3>2. SweepsVariant(request[x]) => request[x].variant # NoObject /\ PlacedVariant(request[x].variant[2])
      BY <2>1 DEF RequestInv, ReadInv, SweepsVariant
    <3>3. asset'.live /\ SweepsOriginal(request[x]) => asset'.at[2] # request[x].path
      BY <2>1, <3>1 DEF RequestInv, LeftInv, PlacedOriginal
    <3>4. asset'.live /\ SweepsVariant(request[x]) => asset'.variant # request[x].variant
      BY <2>1, <3>2 DEF RequestInv, LeftInv, PlacedVariant
    <3> QED BY <2>1, <3>3, <3>4 DEF LeftInv
  <2> QED BY <2>2, <2>3, <2>4 DEF RequestInv
<1> QED BY <1>2, <1>4 DEF MediaInv

(* A step that leaves the row and what is stored as they are, or stores    *)
(* more.                                                                   *)
LEMMA QuietStep ==
  ASSUME MediaInv, NEW q \in Requests, NEW l \in Request,
         request' = [request EXCEPT ![q] = l],
         MovedOriginal(q) => MovedOriginal(q)', MovedVariant(q) => MovedVariant(q)',
         UNCHANGED <<elected, asset>>, stored \subseteq stored', stored' \subseteq Objects,
         RequestInv(q)'
  PROVE  MediaInv'
<1>1. /\ request \in [Requests -> Request] /\ request'[q] = l
      /\ \A x \in Requests \ {q} : request'[x] = request[x]
      /\ elected \in Adapters /\ asset \in Asset
  BY DEF MediaInv, MediaTypeOK
<1>2. \A x \in Requests \cup {First} :
        (MovedOriginal(x) => MovedOriginal(x)') /\ (MovedVariant(x) => MovedVariant(x)')
  BY <1>1 DEF MovedOriginal, MovedVariant
<1>3. RowInv'
  BY <1>1, <1>2 DEF MediaInv, RowInv, PlacedOriginal, PlacedVariant, Asset, Objects, Paths
<1> QED BY <1>1, <1>3, RequestStep

(* A request ends, and sweeps, if anything, what the row does not name.    *)
LEMMA EndStep ==
  ASSUME MediaInv, NEW q \in Requests, NEW from, Ends(q, from),
         UNCHANGED <<elected, asset>>, stored' \subseteq stored,
         \A o \in stored \ stored' :
           /\ o[2][1] = q \/ PlacedOriginal(o[2]) \/ PlacedVariant(o[2])
           /\ asset.live => o # asset.at /\ o # asset.variant
  PROVE  MediaInv'
<1> DEFINE l == [NoRequest EXCEPT !.pc = "over"]
<1>1. /\ l \in Request /\ l.pc = "over" /\ l.role = "original" /\ l.variant = NoObject
      /\ l.path = <<First, "original">>
  BY MediaAssumption DEF NoRequest, Request, Paths
<1>2. request' = [request EXCEPT ![q] = l]
  BY DEF Ends
<1> HIDE DEF l
<1>3. /\ request \in [Requests -> Request] /\ request'[q] = l
      /\ \A x \in Requests \ {q} : request'[x] = request[x]
      /\ elected \in Adapters /\ asset \in Asset /\ stored \subseteq Objects
  BY <1>1, <1>2 DEF MediaInv, MediaTypeOK
<1>4. \A x \in Requests \cup {First} :
        (MovedOriginal(x) => MovedOriginal(x)') /\ (MovedVariant(x) => MovedVariant(x)')
  BY <1>1, <1>3 DEF MovedOriginal, MovedVariant
<1>5. RowInv'
  BY <1>3, <1>4 DEF MediaInv, RowInv, PlacedOriginal, PlacedVariant, Asset, Objects, Paths
<1>6. RequestInv(q)'
  BY <1>1, <1>3 DEF RequestInv, ReadInv, MadeInv, LeftInv, SweepsOriginal, SweepsVariant,
                    PlacedOriginal, MovedOriginal
<1> QED BY <1>1, <1>2, <1>3, <1>4, <1>5, <1>6, RequestStep

LEMMA Facts ==
  ASSUME MediaInv, NEW q \in Requests
  PROVE  /\ request \in [Requests -> Request] /\ request[q] \in Request /\ RequestInv(q)
         /\ q # First /\ stored \subseteq Objects /\ asset \in Asset /\ elected \in Adapters
  BY MediaAssumption DEF MediaInv, MediaTypeOK

LEMMA UploadType ==
  ASSUME MediaInv, NEW q \in Requests, NEW kind \in {"original", "variant"}
  PROVE  Upload(q, kind) \in Objects /\ Upload(q, kind)[2] = <<q, kind>> /\ Upload(q, kind) # NoObject
  BY Facts, MediaAssumption DEF Upload, Object, Objects, Paths

(* What a request reads of the row it reads while the row is there.        *)
LEMMA ReadStep ==
  ASSUME MediaInv, NEW q \in Requests, NEW l \in Request,
         request' = [request EXCEPT ![q] = l], UNCHANGED <<elected, stored, asset>>,
         request[q].pc \in {"idle", "looked", "located"},
         l.pc \in {"looked", "located", "read"},
         q \in Migrations \/ l.role = request[q].role,
         l.role = "original" => \/ request[q].role = "original" /\ l.path = request[q].path
                                \/ asset.live /\ l.path = asset.at[2],
         l.variant \in {request[q].variant, NoObject} \/ (asset.live /\ l.variant = asset.variant)
  PROVE  MediaInv'
<1>1. request'[q] = l /\ RequestInv(q) /\ q # First /\ stored \subseteq Objects
  BY Facts
<1>2. ~MovedOriginal(q) /\ ~MovedVariant(q)
  BY <1>1 DEF MovedOriginal, MovedVariant
<1>3. /\ request \in [Requests -> Request] /\ request[q] \in Request /\ asset \in Asset
      /\ \A x \in Requests \cup {First} :
           (MovedOriginal(x) => MovedOriginal(x)') /\ (MovedVariant(x) => MovedVariant(x)')
  BY <1>2, Facts DEF MovedOriginal, MovedVariant
<1>4. RowInv /\ (asset.live => asset.at[2] \in Paths /\ (asset.variant # NoObject => asset.variant[2] \in Paths))
  BY <1>3 DEF MediaInv, Asset, Objects
<1>5. /\ l.role = "original" => PlacedOriginal(l.path)
      /\ l.variant # NoObject => PlacedVariant(l.variant[2])
  BY <1>1, <1>4 DEF RequestInv, ReadInv, RowInv
<1>6. l.path[1] \in Requests \cup {First} /\ (l.variant # NoObject => l.variant[2][1] \in Requests \cup {First})
  BY DEF Request, Objects, Paths
<1>7. RequestInv(q)'
  BY <1>1, <1>3, <1>5, <1>6 DEF RequestInv, ReadInv, MadeInv, LeftInv, SweepsOriginal, SweepsVariant,
                                PlacedOriginal, PlacedVariant
<1> QED BY <1>1, <1>2, <1>7, QuietStep

LEMMA LookUpStep == ASSUME MediaInv, NEW r \in Replaces, LookUp(r) PROVE MediaInv'
<1> DEFINE l == [request[r] EXCEPT !.pc = "looked", !.adapter = asset.at[1]]
<1>1. r \in Requests /\ request[r] \in Request /\ asset \in Asset /\ request \in [Requests -> Request]
  BY Facts DEF Requests
<1>2. asset.at[1] \in Adapters
  BY <1>1 DEF Asset, Objects
<1>3. /\ l \in Request /\ l.pc = "looked"
      /\ l.role = request[r].role /\ l.path = request[r].path /\ l.variant = request[r].variant
  BY <1>1, <1>2 DEF Request
<1>4. request' = [request EXCEPT ![r] = l] /\ request[r].pc = "idle" /\ UNCHANGED <<elected, stored, asset>>
  BY <1>1 DEF LookUp
<1> HIDE DEF l
<1> QED BY <1>1, <1>3, <1>4, ReadStep

LEMMA LookInTrashStep == ASSUME MediaInv, NEW d \in Purges, LookInTrash(d) PROVE MediaInv'
<1> DEFINE l == [request[d] EXCEPT !.pc = "looked", !.adapter = asset.at[1], !.variant = asset.variant]
<1>1. d \in Requests /\ request[d] \in Request /\ asset \in Asset /\ request \in [Requests -> Request]
  BY Facts DEF Requests
<1>2. asset.at[1] \in Adapters /\ asset.variant \in Objects \cup {NoObject}
  BY <1>1 DEF Asset, Objects
<1>3. /\ l \in Request /\ l.pc = "looked"
      /\ l.role = request[d].role /\ l.path = request[d].path /\ l.variant = asset.variant
  BY <1>1, <1>2 DEF Request
<1>4. /\ request' = [request EXCEPT ![d] = l] /\ request[d].pc = "idle" /\ asset.live
      /\ UNCHANGED <<elected, stored, asset>>
  BY <1>1 DEF LookInTrash
<1> HIDE DEF l
<1> QED BY <1>1, <1>3, <1>4, ReadStep

LEMMA LocateStep == ASSUME MediaInv, NEW r \in Replaces, Locate(r) PROVE MediaInv'
<1>1. r \in Requests /\ request[r] \in Request /\ asset \in Asset /\ request \in [Requests -> Request]
  BY Facts DEF Requests
<1>2. CASE ~asset.live
  BY <1>1, <1>2, EndStep DEF Locate
<1>3. CASE asset.live
  <2> DEFINE l == [request[r] EXCEPT !.pc = "located", !.path = asset.at[2]]
  <2>1. asset.at[2] \in Paths
    BY <1>1 DEF Asset, Objects
  <2>2. /\ l \in Request /\ l.pc = "located"
        /\ l.role = request[r].role /\ l.path = asset.at[2] /\ l.variant = request[r].variant
    BY <1>1, <2>1 DEF Request
  <2>3. request' = [request EXCEPT ![r] = l] /\ request[r].pc = "looked" /\ UNCHANGED <<elected, stored, asset>>
    BY <1>1, <1>3 DEF Locate
  <2> HIDE DEF l
  <2> QED BY <1>1, <1>3, <2>2, <2>3, ReadStep
<1> QED BY <1>2, <1>3

LEMMA ListVariantsStep == ASSUME MediaInv, NEW r \in Replaces, ListVariants(r) PROVE MediaInv'
<1> DEFINE v == IF asset.live THEN asset.variant ELSE NoObject
           l == [request[r] EXCEPT !.pc = "read", !.variant = v]
<1>1. r \in Requests /\ request[r] \in Request /\ asset \in Asset /\ request \in [Requests -> Request]
  BY Facts DEF Requests
<1>2. v \in Objects \cup {NoObject} /\ (v = NoObject \/ (asset.live /\ v = asset.variant))
  BY <1>1 DEF Asset
<1>3. /\ request' = [request EXCEPT ![r] = l] /\ request[r].pc = "located"
      /\ UNCHANGED <<elected, stored, asset>>
  BY <1>1 DEF ListVariants
<1> HIDE DEF v
<1>4. /\ l \in Request /\ l.pc = "read"
      /\ l.role = request[r].role /\ l.path = request[r].path /\ l.variant = v
  BY <1>1, <1>2 DEF Request
<1> HIDE DEF l
<1> QED BY <1>1, <1>2, <1>3, <1>4, ReadStep

LEMMA ListPendingStep ==
  ASSUME MediaInv, NEW m \in Migrations, NEW role \in {"original", "variant"}, ListPending(m, role)
  PROVE  MediaInv'
<1> DEFINE from == IF role = "original" THEN asset.at ELSE asset.variant
           l == [request[m] EXCEPT !.pc = "located", !.role = role, !.adapter = from[1], !.path = from[2],
                                   !.variant = asset.variant]
<1>1. m \in Requests /\ request[m] \in Request /\ asset \in Asset /\ request \in [Requests -> Request]
  BY Facts DEF Requests
<1>2. /\ from \in Objects /\ asset.variant \in Objects \cup {NoObject} /\ asset.live
      /\ role = "original" => from[2] = asset.at[2]
  BY <1>1 DEF Asset, ListPending
<1>3. /\ request' = [request EXCEPT ![m] = l] /\ request[m].pc = "idle"
      /\ UNCHANGED <<elected, stored, asset>>
  BY <1>1 DEF ListPending
<1> HIDE DEF from
<1>4. from[1] \in Adapters /\ from[2] \in Paths
  BY <1>2 DEF Objects
<1>5. /\ l \in Request /\ l.pc = "located" /\ l.role = role /\ l.path = from[2] /\ l.variant = asset.variant
  BY <1>1, <1>2, <1>4 DEF Request
<1> HIDE DEF l
<1> QED BY <1>1, <1>2, <1>3, <1>5, ReadStep

LEMMA ReadSourceStep == ASSUME MediaInv, NEW m \in Migrations, ReadSource(m) PROVE MediaInv'
<1>1. m \in Requests /\ request[m] \in Request /\ request \in [Requests -> Request]
  BY Facts DEF Requests
<1>2. UNCHANGED <<elected, stored, asset>> /\ (Ends(m, "located") \/ Goes(m, "located", "read"))
  BY DEF ReadSource
<1>3. CASE Ends(m, "located")
  BY <1>1, <1>2, <1>3, EndStep
<1>4. CASE Goes(m, "located", "read")
  <2> DEFINE l == [request[m] EXCEPT !.pc = "read"]
  <2>1. /\ l \in Request /\ l.pc = "read"
        /\ l.role = request[m].role /\ l.path = request[m].path /\ l.variant = request[m].variant
    BY <1>1 DEF Request
  <2>2. request' = [request EXCEPT ![m] = l] /\ request[m].pc = "located"
    BY <1>1, <1>4 DEF Goes
  <2> HIDE DEF l
  <2> QED BY <1>1, <1>2, <2>1, <2>2, ReadStep
<1> QED BY <1>2, <1>3, <1>4

(* A replacement or a migration stores what it uploads.                    *)
LEMMA UploadStep ==
  ASSUME MediaInv, NEW q \in Replaces \cup Migrations, request[q].pc = "read",
         request' = [request EXCEPT ![q].pc = "uploaded", ![q].made = Upload(q, request[q].role)],
         stored' = stored \cup {Upload(q, request[q].role)}, UNCHANGED <<elected, asset>>
  PROVE  MediaInv'
<1> DEFINE o == Upload(q, request[q].role)
           l == [request[q] EXCEPT !.pc = "uploaded", !.made = o]
<1>1. /\ q \in Requests /\ request[q] \in Request /\ request \in [Requests -> Request]
      /\ RequestInv(q) /\ q # First /\ stored \subseteq Objects
  BY Facts DEF Requests
<1>2. o \in Objects /\ o[2] = <<q, request[q].role>>
  BY <1>1, UploadType DEF Request
<1>3. request' = [request EXCEPT ![q] = l] /\ stored' = stored \cup {o}
  BY <1>1
<1> HIDE DEF o
<1>4. /\ l \in Request /\ l.pc = "uploaded" /\ l.made = o
      /\ l.role = request[q].role /\ l.path = request[q].path /\ l.variant = request[q].variant
  BY <1>1, <1>2 DEF Request
<1> HIDE DEF l
<1>5. ~MovedOriginal(q) /\ ~MovedVariant(q)
  BY <1>1 DEF MovedOriginal, MovedVariant
<1>6. request'[q] = l /\ \A x \in Requests \cup {First} :
        (MovedOriginal(x) => MovedOriginal(x)') /\ (MovedVariant(x) => MovedVariant(x)')
  BY <1>1, <1>3, <1>5 DEF MovedOriginal, MovedVariant
<1>7. l.path[1] \in Requests \cup {First} /\ (l.variant # NoObject => l.variant[2][1] \in Requests \cup {First})
  BY <1>4 DEF Request, Objects, Paths
<1>8. ReadInv(q)'
  BY <1>1, <1>4, <1>6, <1>7 DEF RequestInv, ReadInv, PlacedOriginal, PlacedVariant
<1>9. RequestInv(q)'
  BY <1>2, <1>3, <1>4, <1>6, <1>8 DEF RequestInv, MadeInv, LeftInv, SweepsOriginal, SweepsVariant
<1> QED BY <1>1, <1>2, <1>3, <1>4, <1>5, <1>9, QuietStep

LEMMA UploadReplacementStep == ASSUME MediaInv, NEW r \in Replaces, UploadReplacement(r) PROVE MediaInv'
<1>1. r \in Requests /\ r \notin Migrations
  BY MediaAssumption DEF Requests
<1>2. request[r].role = "original"
  BY <1>1, Facts DEF RequestInv, ReadInv
<1> QED BY <1>2, UploadStep DEF UploadReplacement

LEMMA UploadCopyStep == ASSUME MediaInv, NEW m \in Migrations, UploadCopy(m) PROVE MediaInv'
  BY UploadStep DEF UploadCopy

(* The scaled variant is stored, or there is none.                         *)
LEMMA ScaleStep == ASSUME MediaInv, NEW r \in Replaces, Scale(r) PROVE MediaInv'
<1>1. /\ r \in Requests /\ r \notin Migrations /\ request[r] \in Request /\ request \in [Requests -> Request]
      /\ RequestInv(r) /\ r # First /\ stored \subseteq Objects
  BY Facts, MediaAssumption DEF Requests
<1>2. PICK o \in {Upload(r, "variant"), NoObject} :
        /\ request' = [request EXCEPT ![r].pc = "scaled", ![r].made = o]
        /\ stored' = stored \cup ({o} \ {NoObject})
  <2>1. Upload(r, "variant") # NoObject
    BY <1>1, UploadType
  <2> QED BY <2>1 DEF Scale
<1>3. o \in Objects \cup {NoObject} /\ (o # NoObject => o[2] = <<r, "variant">>)
  BY <1>1, UploadType
<1>4. request[r].pc = "switched" /\ UNCHANGED <<elected, asset>>
  BY DEF Scale
<1> DEFINE l == [request[r] EXCEPT !.pc = "scaled", !.made = o]
<1>5. request' = [request EXCEPT ![r] = l]
  BY <1>1, <1>2
<1>6. /\ l \in Request /\ l.pc = "scaled" /\ l.made = o
      /\ l.role = request[r].role /\ l.path = request[r].path /\ l.variant = request[r].variant
  BY <1>1, <1>3 DEF Request
<1> HIDE DEF l
<1>7. request'[r] = l /\ \A x \in Requests \cup {First} :
        (MovedOriginal(x) => MovedOriginal(x)') /\ (MovedVariant(x) => MovedVariant(x)')
  BY <1>1, <1>4, <1>5, <1>6 DEF MovedOriginal, MovedVariant
<1>8. l.path[1] \in Requests \cup {First} /\ (l.variant # NoObject => l.variant[2][1] \in Requests \cup {First})
  BY <1>6 DEF Request, Objects, Paths
<1>9. ReadInv(r)'
  BY <1>1, <1>6, <1>7, <1>8 DEF RequestInv, ReadInv, PlacedOriginal, PlacedVariant
<1>10. MadeInv(r)'
  <2>1. request'[r].pc = "scaled" /\ request'[r].made = o
    BY <1>6, <1>7
  <2>2. o # NoObject => o \in stored' /\ o[2] = <<r, "variant">>
    BY <1>2, <1>3
  <2> QED BY <2>1, <2>2 DEF MadeInv
<1>11. LeftInv(r)'
  <2>1. LeftInv(r)
    BY <1>1 DEF RequestInv
  <2>2. ~SweepsVariant(l)
    BY <1>6 DEF SweepsVariant
  <2>3. SweepsOriginal(l) => SweepsOriginal(request[r])
    BY <1>4, <1>6 DEF SweepsOriginal
  <2> QED BY <1>4, <1>6, <1>7, <2>1, <2>2, <2>3 DEF LeftInv
<1>12. RequestInv(r)' /\ stored \subseteq stored' /\ stored' \subseteq Objects
  BY <1>1, <1>2, <1>3, <1>9, <1>10, <1>11 DEF RequestInv
<1> QED BY <1>1, <1>4, <1>5, <1>6, <1>7, <1>12, QuietStep

(* The row is pointed to what a request has uploaded, if it is there.      *)
LEMMA PointStep ==
  ASSUME MediaInv, NEW q \in Requests, NEW to,
         request' = [request EXCEPT ![q].pc = to], UNCHANGED <<elected, stored>>,
         asset' \in Asset, asset'.live = asset.live,
         \/ /\ request[q].pc = "uploaded" /\ to = "switched" /\ request[q].role = "original"
            /\ asset.live => asset'.at = request[q].made /\ asset'.variant = asset.variant
         \/ /\ request[q].pc = "uploaded" /\ to = "switched" /\ request[q].role = "variant"
            /\ asset.live /\ asset'.at = asset.at /\ asset'.variant = request[q].made
         \/ /\ request[q].pc = "scaled" /\ to = "stamped" /\ request[q].role = "original"
            /\ asset.live => asset'.at = asset.at /\ asset'.variant = request[q].made,
         ~asset.live => asset' = asset
  PROVE  MediaInv'
<1>1. /\ request[q] \in Request /\ request \in [Requests -> Request] /\ asset \in Asset
      /\ RequestInv(q) /\ q # First /\ stored \subseteq Objects /\ elected \in Adapters /\ RowInv
  BY Facts DEF MediaInv
<1> DEFINE l == [request[q] EXCEPT !.pc = to]
<1>2. request' = [request EXCEPT ![q] = l]
  BY <1>1
<1>3. /\ l \in Request /\ l.pc = to /\ l.made = request[q].made
      /\ l.role = request[q].role /\ l.path = request[q].path /\ l.variant = request[q].variant
  BY <1>1 DEF Request
<1> HIDE DEF l
<1>4. request'[q] = l /\ \A x \in Requests \cup {First} :
        (MovedOriginal(x) => MovedOriginal(x)') /\ (MovedVariant(x) => MovedVariant(x)')
  BY <1>1, <1>2, <1>3 DEF MovedOriginal, MovedVariant
<1>5. /\ request[q].role = "original" /\ to = "switched" => ~MovedOriginal(q) /\ MovedOriginal(q)'
      /\ request[q].role = "variant" \/ to = "stamped" => ~MovedVariant(q) /\ MovedVariant(q)'
  BY <1>1, <1>3, <1>4 DEF MovedOriginal, MovedVariant, RequestInv, ReadInv
<1>6. l.path[1] \in Requests \cup {First} /\ (l.variant # NoObject => l.variant[2][1] \in Requests \cup {First})
  BY <1>3 DEF Request, Objects, Paths
<1>7. ReadInv(q)'
  BY <1>1, <1>3, <1>4, <1>6 DEF RequestInv, ReadInv, PlacedOriginal, PlacedVariant
<1>8. MadeInv(q)'
  BY <1>1, <1>3, <1>4 DEF MadeInv
<1>9. asset.live => /\ asset.at[2][1] \in Requests \cup {First}
                    /\ asset.variant # NoObject => asset.variant[2][1] \in Requests \cup {First}
  BY <1>1 DEF Asset, Objects, Paths
<1>10. RowInv'
  BY <1>1, <1>4, <1>5, <1>9 DEF RowInv, PlacedOriginal, PlacedVariant, RequestInv, MadeInv
<1>11. LeftInv(q)'
  BY <1>1, <1>3, <1>4, <1>5 DEF RequestInv, ReadInv, MadeInv, LeftInv, SweepsOriginal, SweepsVariant,
                                PlacedOriginal, PlacedVariant
<1>12. asset'.at = asset.at \/ (asset'.at[2][1] = q /\ ~MovedOriginal(q))
  BY <1>1, <1>5 DEF RequestInv, MadeInv
<1>13. asset'.variant \in {asset.variant, NoObject} \/ (asset'.variant[2][1] = q /\ ~MovedVariant(q))
  BY <1>1, <1>5 DEF RequestInv, MadeInv
<1>14. RequestInv(q)'
  BY <1>7, <1>8, <1>11 DEF RequestInv
<1> QED BY <1>1, <1>2, <1>3, <1>4, <1>10, <1>12, <1>13, <1>14, RequestStep

LEMMA SwitchToReplacementStep == ASSUME MediaInv, NEW r \in Replaces, SwitchToReplacement(r) PROVE MediaInv'
<1>1. /\ r \in Requests /\ r \notin Migrations /\ request[r] \in Request /\ asset \in Asset /\ RequestInv(r)
      /\ request[r].pc = "uploaded" /\ elected' = elected
  BY Facts, MediaAssumption DEF Requests, SwitchToReplacement
<1>2. request[r].role = "original" /\ request[r].made \in stored /\ request[r].made[2] = <<r, "original">>
  BY <1>1 DEF RequestInv, ReadInv, MadeInv
<1>3. CASE asset.live
  <2>1. request[r].made \in Objects
    BY <1>1, <1>2, Facts
  <2>2. /\ asset' = [asset EXCEPT !.at = request[r].made] /\ stored' = stored
        /\ request' = [request EXCEPT ![r].pc = "switched"]
    BY <1>3 DEF SwitchToReplacement
  <2>3. /\ asset' \in Asset /\ asset'.live = asset.live /\ asset'.at = request[r].made
        /\ asset'.variant = asset.variant
    BY <1>1, <2>1, <2>2 DEF Asset
  <2> QED BY <1>1, <1>2, <1>3, <2>2, <2>3, PointStep
<1>4. CASE ~asset.live
  <2>1. Ends(r, "uploaded") /\ stored' = stored \ {request[r].made} /\ asset' = asset
    BY <1>4 DEF SwitchToReplacement, Sweep
  <2>2. \A o \in stored \ stored' : o[2][1] = r
    BY <1>2, <2>1
  <2> QED BY <1>1, <1>4, <2>1, <2>2, EndStep
<1> QED BY <1>3, <1>4

LEMMA StampStep == ASSUME MediaInv, NEW r \in Replaces, Stamp(r) PROVE MediaInv'
<1>1. /\ r \in Requests /\ r \notin Migrations /\ request[r] \in Request /\ asset \in Asset /\ RequestInv(r)
  BY Facts, MediaAssumption DEF Requests
<1>2. request[r].role = "original" /\ request[r].made \in Objects \cup {NoObject}
  BY <1>1 DEF RequestInv, ReadInv, Request
<1>3. /\ request[r].pc = "scaled" /\ request' = [request EXCEPT ![r].pc = "stamped"]
      /\ UNCHANGED <<elected, stored>>
      /\ asset' = IF asset.live THEN [asset EXCEPT !.variant = request[r].made] ELSE asset
  BY DEF Stamp, Goes
<1>4. /\ asset' \in Asset /\ asset'.live = asset.live
      /\ asset.live => asset'.at = asset.at /\ asset'.variant = request[r].made
  BY <1>1, <1>2, <1>3 DEF Asset
<1> QED BY <1>1, <1>2, <1>3, <1>4, PointStep

LEMMA SwitchOriginalStep == ASSUME MediaInv, NEW m \in Migrations, SwitchOriginal(m) PROVE MediaInv'
<1>1. m \in Requests /\ request[m] \in Request /\ asset \in Asset /\ RequestInv(m) /\ stored \subseteq Objects
  BY Facts DEF Requests
<1>2. /\ request[m].role = "original" /\ request[m].pc = "uploaded"
      /\ request' = [request EXCEPT ![m].pc = "switched"] /\ UNCHANGED <<elected, stored>>
      /\ asset' = IF asset.live THEN [asset EXCEPT !.at = request[m].made] ELSE asset
  BY DEF SwitchOriginal, Goes
<1>3. request[m].made \in Objects
  BY <1>1, <1>2 DEF RequestInv, MadeInv
<1>4. /\ asset' \in Asset /\ asset'.live = asset.live
      /\ asset.live => asset'.at = request[m].made /\ asset'.variant = asset.variant
  BY <1>1, <1>2, <1>3 DEF Asset
<1> QED BY <1>1, <1>2, <1>4, PointStep

LEMMA SwitchVariantStep == ASSUME MediaInv, NEW m \in Migrations, SwitchVariant(m) PROVE MediaInv'
<1>1. /\ m \in Requests /\ request[m] \in Request /\ asset \in Asset /\ RequestInv(m) /\ stored \subseteq Objects
      /\ m # First /\ RowInv
  BY Facts DEF Requests, MediaInv
<1>2. request[m].role = "variant" /\ request[m].pc = "uploaded" /\ elected' = elected
  BY DEF SwitchVariant, Goes, Ends
<1>3. request[m].made \in stored /\ request[m].made[2] = <<m, "variant">>
  BY <1>1, <1>2 DEF RequestInv, MadeInv
<1>4. CASE asset.live /\ asset.variant = request[m].variant
  <2>1. /\ request' = [request EXCEPT ![m].pc = "switched"] /\ stored' = stored
        /\ asset' = [asset EXCEPT !.variant = request[m].made]
    BY <1>4 DEF SwitchVariant, Goes
  <2>2. /\ asset' \in Asset /\ asset'.live = asset.live /\ asset'.at = asset.at
        /\ asset'.variant = request[m].made
    BY <1>1, <1>3, <2>1 DEF Asset
  <2> QED BY <1>1, <1>2, <1>4, <2>1, <2>2, PointStep
<1>5. CASE ~(asset.live /\ asset.variant = request[m].variant)
  <2>1. Ends(m, "uploaded") /\ stored' = stored \ {request[m].made} /\ asset' = asset
    BY <1>5 DEF SwitchVariant, Sweep
  <2>2. ~MovedVariant(m)
    BY <1>1, <1>2 DEF MovedVariant
  <2>3. asset.live => request[m].made # asset.at /\ request[m].made # asset.variant
    <3>1. asset.live => asset.at[2][2] = "original"
      BY <1>1 DEF RowInv, PlacedOriginal
    <3>2. asset.live /\ asset.variant # NoObject => MovedVariant(asset.variant[2][1])
      BY <1>1 DEF RowInv, PlacedVariant
    <3>3. request[m].made # NoObject
      BY <1>1, <1>3, MediaAssumption
    <3>4. request[m].made[2][1] = m /\ request[m].made[2][2] = "variant"
      BY <1>3
    <3> QED BY <2>2, <3>1, <3>2, <3>3, <3>4
  <2>4. \A o \in stored \ stored' : o = request[m].made /\ o[2][1] = m
    BY <1>3, <2>1
  <2> QED BY <1>1, <1>2, <2>1, <2>3, <2>4, EndStep
<1> QED BY <1>4, <1>5

LEMMA SweepPreviousStep == ASSUME MediaInv, NEW q \in Replaces \cup Purges, SweepPrevious(q) PROVE MediaInv'
<1>1. /\ q \in Requests /\ q \notin Migrations /\ request[q] \in Request /\ asset \in Asset /\ RequestInv(q)
      /\ stored \subseteq Objects /\ RowInv /\ request \in [Requests -> Request] /\ elected \in Adapters
  BY Facts, MediaAssumption DEF Requests, MediaInv
<1> DEFINE l == [request[q] EXCEPT !.pc = "swept"]
           o == <<request[q].adapter, request[q].path>>
<1>2. /\ request' = [request EXCEPT ![q] = l] /\ request[q].pc = "stamped" /\ request[q].role = "original"
      /\ stored' = stored \ {o} /\ UNCHANGED <<elected, asset>>
  BY <1>1 DEF SweepPrevious, Goes, Sweep, Object, RequestInv, ReadInv
<1>3. o[2] = request[q].path /\ PlacedOriginal(o[2])
  BY <1>1, <1>2 DEF RequestInv, ReadInv
<1>4. asset.live => o # asset.at /\ (asset.variant # NoObject => o # asset.variant)
  <2>1. asset.live => asset.at[2] # request[q].path
    BY <1>1, <1>2 DEF RequestInv, LeftInv, SweepsOriginal
  <2>2. asset.live /\ asset.variant # NoObject => asset.variant[2][2] = "variant"
    BY <1>1 DEF RowInv, PlacedVariant
  <2>3. o[2][2] = "original"
    BY <1>3 DEF PlacedOriginal
  <2> QED BY <1>3, <2>1, <2>2, <2>3
<1>5. /\ l \in Request /\ l.pc = "swept"
      /\ l.role = request[q].role /\ l.path = request[q].path /\ l.variant = request[q].variant
  BY <1>1 DEF Request
<1> HIDE DEF l, o
<1>6. request'[q] = l /\ \A x \in Requests \cup {First} :
        (MovedOriginal(x) => MovedOriginal(x)') /\ (MovedVariant(x) => MovedVariant(x)')
  BY <1>1, <1>2, <1>5 DEF MovedOriginal, MovedVariant
<1>7. asset.live => /\ asset.at[2][1] \in Requests \cup {First}
                    /\ asset.variant # NoObject => asset.variant[2][1] \in Requests \cup {First}
  BY <1>1 DEF Asset, Objects, Paths
<1>8. RowInv'
  BY <1>1, <1>2, <1>4, <1>6, <1>7 DEF RowInv, PlacedOriginal, PlacedVariant
<1>9. l.path[1] \in Requests \cup {First} /\ (l.variant # NoObject => l.variant[2][1] \in Requests \cup {First})
  BY <1>5 DEF Request, Objects, Paths
<1>10. ReadInv(q)'
  BY <1>1, <1>5, <1>6, <1>9 DEF RequestInv, ReadInv, PlacedOriginal, PlacedVariant
<1>11. LeftInv(q)'
  <2>1. SweepsVariant(l) => SweepsVariant(request[q])
    BY <1>2, <1>5 DEF SweepsVariant
  <2>2. ~SweepsOriginal(l)
    BY <1>5 DEF SweepsOriginal
  <2> QED BY <1>1, <1>2, <1>5, <1>6, <2>1, <2>2 DEF RequestInv, LeftInv
<1>12. RequestInv(q)'
  BY <1>5, <1>6, <1>10, <1>11 DEF RequestInv, MadeInv
<1>13. \A x \in stored \ stored' : PlacedOriginal(x[2])
  BY <1>2, <1>3
<1> QED BY <1>1, <1>2, <1>5, <1>6, <1>8, <1>12, <1>13, RequestStep

LEMMA SweepPreviousVariantsStep ==
  ASSUME MediaInv, NEW q \in Replaces \cup Purges, SweepPreviousVariants(q) PROVE MediaInv'
<1>1. /\ q \in Requests /\ q \notin Migrations /\ RequestInv(q) /\ RowInv
  BY Facts, MediaAssumption DEF Requests, MediaInv
<1>2. /\ Ends(q, "swept") /\ request[q].pc = "swept"
      /\ stored' = stored \ ({request[q].variant} \ {NoObject}) /\ UNCHANGED <<elected, asset>>
  BY DEF SweepPreviousVariants, Ends, Sweep
<1>3. ASSUME NEW o \in stored \ stored' PROVE PlacedVariant(o[2]) /\ (asset.live => o # asset.at /\ o # asset.variant)
  <2>1. o = request[q].variant /\ o # NoObject /\ PlacedVariant(o[2])
    BY <1>1, <1>2 DEF RequestInv, ReadInv
  <2>2. asset.live => o # asset.variant
    BY <1>1, <1>2, <2>1 DEF RequestInv, LeftInv, SweepsVariant
  <2>3. asset.live => asset.at[2][2] = "original"
    BY <1>1 DEF RowInv, PlacedOriginal
  <2> QED BY <2>1, <2>2, <2>3 DEF PlacedVariant
<1> QED BY <1>1, <1>2, <1>3, EndStep

LEMMA SweepSourceStep == ASSUME MediaInv, NEW m \in Migrations, SweepSource(m) PROVE MediaInv'
<1>1. /\ m \in Requests /\ RequestInv(m) /\ RowInv /\ request[m] \in Request
  BY Facts DEF Requests, MediaInv
<1>2. /\ Ends(m, "switched") /\ request[m].pc = "switched"
      /\ stored' = stored \ {Source(m)} /\ UNCHANGED <<elected, asset>>
  BY DEF SweepSource, Ends, Sweep
<1>3. CASE request[m].role = "original"
  <2>1. Source(m)[2] = request[m].path
    BY <1>3 DEF Source, Object
  <2>2. PlacedOriginal(Source(m)[2]) /\ (asset.live => asset.at[2] # Source(m)[2])
    BY <1>1, <1>2, <1>3, <2>1 DEF RequestInv, ReadInv, LeftInv, SweepsOriginal
  <2>3. asset.live /\ asset.variant # NoObject => asset.variant[2][2] = "variant"
    BY <1>1 DEF RowInv, PlacedVariant
  <2>4. NoObject \notin stored
    BY Facts, <1>1, MediaAssumption
  <2>5. ASSUME NEW o \in stored \ stored' PROVE PlacedOriginal(o[2]) /\ (asset.live => o # asset.at /\ o # asset.variant)
    BY <1>2, <2>2, <2>3, <2>4 DEF PlacedOriginal
  <2> QED BY <1>1, <1>2, <2>5, EndStep
<1>4. CASE request[m].role = "variant"
  <2>1. Source(m) = request[m].variant
    BY <1>4 DEF Source
  <2>2. NoObject \notin stored
    BY Facts, <1>1, MediaAssumption
  <2>3. asset.live => asset.at[2][2] = "original"
    BY <1>1 DEF RowInv, PlacedOriginal
  <2>4. ASSUME NEW o \in stored \ stored' PROVE PlacedVariant(o[2]) /\ (asset.live => o # asset.at /\ o # asset.variant)
    <3>1. o = request[m].variant /\ o # NoObject
      BY <1>2, <2>1, <2>2
    <3>2. PlacedVariant(o[2]) /\ (asset.live => o # asset.variant)
      BY <1>1, <1>2, <1>4, <3>1 DEF RequestInv, ReadInv, LeftInv, SweepsVariant
    <3> QED BY <2>3, <3>2 DEF PlacedVariant
  <2> QED BY <1>1, <1>2, <2>4, EndStep
<1> QED BY <1>1, <1>3, <1>4 DEF Request

(* The row goes, and nothing is promised of its bytes any more.            *)
LEMMA DeleteRowStep == ASSUME MediaInv, NEW d \in Purges, DeleteRow(d) PROVE MediaInv'
<1>1. /\ d \in Requests /\ d \notin Migrations /\ request[d] \in Request /\ asset \in Asset /\ RequestInv(d)
      /\ stored \subseteq Objects /\ RowInv /\ request \in [Requests -> Request] /\ elected \in Adapters
  BY Facts, MediaAssumption DEF Requests, MediaInv
<1>2. CASE ~asset.live
  BY <1>1, <1>2, EndStep DEF DeleteRow
<1>3. CASE asset.live
  <2> DEFINE l == [request[d] EXCEPT !.pc = "stamped", !.path = asset.at[2]]
  <2>1. asset.at[2] \in Paths
    BY <1>1 DEF Asset, Objects
  <2>2. /\ request' = [request EXCEPT ![d] = l] /\ request[d].pc = "looked"
        /\ asset' = [asset EXCEPT !.live = FALSE] /\ UNCHANGED <<elected, stored>>
    BY <1>1, <1>3 DEF DeleteRow
  <2>3. /\ l \in Request /\ l.pc = "stamped"
        /\ l.role = request[d].role /\ l.path = asset.at[2] /\ l.variant = request[d].variant
    BY <1>1, <2>1 DEF Request
  <2> HIDE DEF l
  <2>4. asset' \in Asset /\ ~asset'.live /\ asset'.at = asset.at /\ asset'.variant = asset.variant
    BY <1>1, <2>2 DEF Asset
  <2>5. request'[d] = l /\ \A x \in Requests \cup {First} :
          (MovedOriginal(x) => MovedOriginal(x)') /\ (MovedVariant(x) => MovedVariant(x)')
    BY <1>1, <2>2, <2>3 DEF MovedOriginal, MovedVariant
  <2>6. l.path[1] \in Requests \cup {First} /\ (l.variant # NoObject => l.variant[2][1] \in Requests \cup {First})
    BY <2>3 DEF Request, Objects, Paths
  <2>7. PlacedOriginal(l.path) /\ (l.variant # NoObject => PlacedVariant(l.variant[2]))
    BY <1>1, <1>3, <2>3 DEF RowInv, RequestInv, ReadInv
  <2>8. ReadInv(d)'
    BY <1>1, <2>3, <2>5, <2>6, <2>7 DEF RequestInv, ReadInv, PlacedOriginal, PlacedVariant
  <2>9. RequestInv(d)' /\ RowInv'
    BY <2>3, <2>4, <2>5, <2>8 DEF RequestInv, MadeInv, LeftInv, RowInv
  <2> QED BY <1>1, <1>3, <2>2, <2>3, <2>4, <2>5, <2>9, RequestStep
<1> QED BY <1>2, <1>3

LEMMA CrashStep == ASSUME MediaInv, Crash PROVE MediaInv'
<1> DEFINE ended == [NoRequest EXCEPT !.pc = "over"]
<1>1. /\ ended \in Request /\ ended.pc = "over" /\ ended.role = "original" /\ ended.variant = NoObject
      /\ ended.path = <<First, "original">>
  BY MediaAssumption DEF NoRequest, Request, Paths
<1>2. /\ request' = [q \in Requests |-> IF request[q].pc = "idle" THEN request[q] ELSE ended]
      /\ UNCHANGED <<elected, stored, asset>>
  BY DEF Crash
<1> HIDE DEF ended
<1>3. MediaTypeOK /\ RowInv /\ \A q \in Requests : RequestInv(q) /\ q # First
  BY Facts DEF MediaInv
<1>4. MediaTypeOK'
  BY <1>1, <1>2, <1>3 DEF MediaTypeOK
<1>5. \A x \in Requests \cup {First} :
        (MovedOriginal(x) => MovedOriginal(x)') /\ (MovedVariant(x) => MovedVariant(x)')
  BY <1>1, <1>2, <1>3 DEF MovedOriginal, MovedVariant
<1>6. asset.live => /\ asset.at[2][1] \in Requests \cup {First}
                    /\ asset.variant # NoObject => asset.variant[2][1] \in Requests \cup {First}
  BY <1>3 DEF MediaTypeOK, Asset, Objects, Paths
<1>7. RowInv'
  BY <1>2, <1>3, <1>5, <1>6 DEF RowInv, PlacedOriginal, PlacedVariant
<1>8. ASSUME NEW q \in Requests PROVE RequestInv(q)'
  <2>1. CASE request[q].pc = "idle"
    <3>1. request'[q] = request[q] /\ request[q] \in Request
      BY <1>2, <1>3, <2>1 DEF MediaTypeOK
    <3>2. /\ request[q].path[1] \in Requests \cup {First}
          /\ request[q].variant # NoObject => request[q].variant[2][1] \in Requests \cup {First}
      BY <3>1 DEF Request, Objects, Paths
    <3>3. ReadInv(q)'
      BY <1>3, <1>5, <3>1, <3>2 DEF RequestInv, ReadInv, PlacedOriginal, PlacedVariant
    <3> QED BY <1>3, <2>1, <3>1, <3>3 DEF RequestInv, MadeInv, LeftInv, SweepsOriginal, SweepsVariant
  <2>2. CASE request[q].pc # "idle"
    <3>1. request'[q] = ended
      BY <1>2, <2>2
    <3> QED BY <1>1, <3>1 DEF RequestInv, ReadInv, MadeInv, LeftInv, SweepsOriginal, SweepsVariant,
                              PlacedOriginal, MovedOriginal
  <2> QED BY <2>1, <2>2
<1> QED BY <1>4, <1>7, <1>8 DEF MediaInv

LEMMA MediaStep == MediaInv /\ [MediaNext]_mediaVars => MediaInv'
<1> SUFFICES ASSUME MediaInv, [MediaNext]_mediaVars PROVE MediaInv'
  OBVIOUS
<1>1. ASSUME UNCHANGED <<stored, request>>, elected' \in Adapters, asset' \in Asset,
             asset'.live = asset.live, asset'.at = asset.at, asset'.variant = asset.variant
      PROVE  MediaInv'
  BY <1>1 DEF MediaInv, MediaTypeOK, RowInv, RequestInv, ReadInv, MadeInv, LeftInv, SweepsOriginal,
              SweepsVariant, PlacedOriginal, PlacedVariant, MovedOriginal, MovedVariant
<1>2. elected \in Adapters /\ asset \in Asset
  BY DEF MediaInv, MediaTypeOK
<1>3. ASSUME NEW a \in Adapters, Elect(a) PROVE MediaInv'
  BY <1>1, <1>2, <1>3 DEF Elect
<1>4. CASE Trash
  <2>1. /\ asset' \in Asset /\ asset'.live = asset.live /\ asset'.at = asset.at /\ asset'.variant = asset.variant
        /\ UNCHANGED <<elected, stored, request>>
    BY <1>2, <1>4 DEF Trash, Asset
  <2> QED BY <1>1, <1>2, <2>1
<1>5. ASSUME NEW r \in Replaces, Replace(r) PROVE MediaInv'
  BY <1>5, LookUpStep, LocateStep, ListVariantsStep, UploadReplacementStep, SwitchToReplacementStep,
     ScaleStep, StampStep, SweepPreviousStep, SweepPreviousVariantsStep DEF Replace
<1>6. ASSUME NEW m \in Migrations, Migrate(m) PROVE MediaInv'
  BY <1>6, ListPendingStep, ReadSourceStep, UploadCopyStep, SwitchOriginalStep, SwitchVariantStep,
     SweepSourceStep DEF Migrate
<1>7. ASSUME NEW d \in Purges, Purge(d) PROVE MediaInv'
  BY <1>7, LookInTrashStep, DeleteRowStep, SweepPreviousStep, SweepPreviousVariantsStep DEF Purge
<1>8. CASE UNCHANGED mediaVars
  BY <1>1, <1>2, <1>8 DEF mediaVars
<1> QED BY <1>3, <1>4, <1>5, <1>6, <1>7, <1>8, CrashStep DEF MediaNext

(* However replacements, migrations and deletions overlap, and wherever the *)
(* server stops, the bytes the row of an asset names are there: a request  *)
(* sweeps only paths the row has left for good, and writes into the row    *)
(* only paths it has not named before (mediaUpload.ts,                     *)
(* mediaStorageMigration.ts).                                              *)
THEOREM BytesTheorem == MediaSpec => []BytesWhereNamed
<1>1. MediaInv => BytesWhereNamed
  BY DEF MediaInv, RowInv, BytesWhereNamed
<1> QED BY <1>1, MediaStarts, MediaStep, PTL DEF MediaSpec

-----------------------------------------------------------------------------
(* The worker of a plugin.                                                 *)

HostInv ==
    /\ mapped \in Workers \cup {NoWorker} /\ worker \in [Workers -> {"gone", "empty", "loaded"}]
    /\ sent \in [Callers -> Workers \cup {NoWorker}]
    /\ host \in Host
    /\ TeardownReachesAll

LEMMA HostStarts == HostInit => HostInv
  BY PluginHostAssumption DEF HostInit, HostInv, Host, TeardownReachesAll

(* A request starts a worker only if there is none. *)
LEMMA PostStep ==
  ASSUME HostInv, NEW c \in Callers, Post(c), host' \in Host, host'.registered # {} => host'.record
  PROVE  HostInv'
<1>1. CASE mapped # NoWorker
  BY <1>1 DEF Post, HostInv, TeardownReachesAll
<1>2. CASE mapped = NoWorker
  <2> DEFINE w == CHOOSE w \in Workers : Unused(w)
  <2>1. \E x \in Workers : \A d \in Callers : sent[d] # x
    BY WorkersAssumption DEF HostInv
  <2>2. \E x \in Workers : Unused(x)
    BY <1>2, <2>1, PluginHostAssumption DEF Unused
  <2>3. w \in Workers
    BY <2>2
  <2>4. sent' = [sent EXCEPT ![c] = w] /\ mapped' = w /\ worker' = [worker EXCEPT ![w] = "empty"]
    BY <1>2 DEF Post
  <2>5. \A x \in Workers : worker[x] = "gone"
    BY <1>2, PluginHostAssumption DEF HostInv, TeardownReachesAll
  <2> HIDE DEF w
  <2> QED BY <2>3, <2>4, <2>5 DEF HostInv, TeardownReachesAll
<1> QED BY <1>1, <1>2

(* The workers in the map and in hand go, and there is no other. *)
LEMMA StopStep ==
  ASSUME HostInv, NEW dead, mapped' = NoWorker, sent' = [c \in Callers |-> NoWorker],
         worker' = [w \in Workers |-> IF w \in dead \/ w = mapped THEN "gone" ELSE worker[w]],
         host' \in Host, host'.registered # {} => host'.record
  PROVE  HostInv'
  BY DEF HostInv, TeardownReachesAll

LEMMA HandleCrashStep == ASSUME HostInv, NEW dead, HandleCrash(dead) PROVE HostInv'
<1>1. host \in Host /\ Threshold \in Nat \ {0} /\ (host.registered # {} => host.record)
  BY PluginHostAssumption DEF HostInv, TeardownReachesAll
<1>2. Dropped(host) \in Host /\ Dropped(host).registered = {} /\ Dropped(host).crashes = host.crashes
  BY <1>1 DEF Dropped, Unregistered, Host
<1>3. PICK n \in 0..Threshold : host' = [Dropped(host) EXCEPT !.crashes = n]
  <2>1. CASE host.crashes + 1 >= Threshold
    BY <1>1, <2>1 DEF HandleCrash
  <2>2. CASE ~(host.crashes + 1 >= Threshold)
    <3>1. host.crashes + 1 \in 0..Threshold
      BY <1>1, <2>2 DEF Host
    <3> QED BY <1>2, <2>2, <3>1 DEF HandleCrash
  <2> QED BY <2>1, <2>2
<1>4. host' \in Host /\ host'.registered = {}
  BY <1>2, <1>3 DEF Host
<1>5. /\ mapped' = NoWorker /\ sent' = [c \in Callers |-> NoWorker]
      /\ worker' = [w \in Workers |-> IF w \in dead \cup Ending(Tasks) \/ w = mapped THEN "gone" ELSE worker[w]]
  BY DEF HandleCrash
<1> QED BY <1>4, <1>5, StopStep

LEMMA ResetStep == ASSUME HostInv, NEW t \in Tasks, Reset(t) PROVE HostInv'
<1>1. host' \in Host /\ host'.record = host.record /\ host'.registered \subseteq host.registered
  BY DEF Reset, HostInv, Host
<1>2. host'.registered # {} => host'.record
  BY <1>1 DEF HostInv, TeardownReachesAll
<1>3. /\ mapped' = NoWorker /\ sent' = [c \in Callers |-> NoWorker]
      /\ worker' = [w \in Workers |-> IF w \in Ending(Tasks) \/ w = mapped THEN "gone" ELSE worker[w]]
  BY DEF Reset
<1> QED BY <1>1, <1>2, <1>3, StopStep

(* The worker that answers an unload is the one in the map. *)
LEMMA AnswerStep == ASSUME HostInv, NEW c \in Callers, NEW ok \in BOOLEAN, Answer(c, ok) PROVE HostInv'
<1> DEFINE w  == sent[c]
           pc == IF c \in Tasks THEN task[c].pc ELSE "request"
<1>1. w \in Workers /\ w = mapped
  BY DEF Answer, HostInv, TeardownReachesAll
<1>2. sent' = [sent EXCEPT ![c] = NoWorker] /\ host' = host
  BY DEF Answer
<1>3. CASE pc = "unloading"
  <2>1. mapped' = NoWorker /\ worker' = [worker EXCEPT ![w] = "gone"]
    BY <1>3 DEF Answer
  <2> QED BY <1>1, <1>2, <2>1 DEF HostInv, TeardownReachesAll
<1>4. CASE pc # "unloading"
  <2>1. mapped' = mapped /\ \/ worker' = worker
                            \/ \E s \in {"loaded", "empty"} : worker' = [worker EXCEPT ![w] = s]
    BY <1>4 DEF Answer
  <2> QED BY <1>1, <1>2, <2>1 DEF HostInv, TeardownReachesAll
<1> QED BY <1>3, <1>4

LEMMA HostStep == HostInv /\ [HostNext]_hostVars => HostInv'
<1> SUFFICES ASSUME HostInv, [HostNext]_hostVars PROVE HostInv'
  OBVIOUS
<1>1. host \in Host /\ (host.registered # {} => host.record)
  BY DEF HostInv, TeardownReachesAll
<1>2. ASSUME UNCHANGED <<mapped, worker>>, sent' \in [Callers -> Workers \cup {NoWorker}],
             host' \in Host, host'.registered # {} => host'.record
      PROVE  HostInv'
  BY <1>2 DEF HostInv, TeardownReachesAll
<1>3. sent \in [Callers -> Workers \cup {NoWorker}]
  BY DEF HostInv
<1>4. ASSUME NEW o \in Operators, Restart(o) \/ Rebind(o) \/ \E on \in BOOLEAN : SetEnabled(o, on) PROVE HostInv'
  <2>1. /\ UNCHANGED <<mapped, worker, sent>>
        /\ host' = host \/ host' = [host EXCEPT !.crashes = 0]
    BY <1>4 DEF Restart, Rebind, SetEnabled
  <2>2. host' \in Host /\ host'.registered = host.registered /\ host'.record = host.record
    BY <1>1, <2>1, PluginHostAssumption DEF Host
  <2> QED BY <1>1, <1>2, <1>3, <2>1, <2>2
<1>5. ASSUME NEW t \in Tasks, Unload(t) PROVE HostInv'
  <2>1. host' \in Host /\ host'.registered = {}
    BY <1>1, <1>5 DEF Unload, Dropped, Unregistered, Host
  <2>2. UNCHANGED <<mapped, worker>> /\ (sent' = sent \/ sent' = [sent EXCEPT ![t] = mapped])
    BY <1>5 DEF Unload
  <2>3. sent' \in [Callers -> Workers \cup {NoWorker}]
    BY <1>3, <2>2 DEF HostInv
  <2> QED BY <1>2, <2>1, <2>2, <2>3
<1>6. ASSUME NEW t \in Tasks, ReadRow(t) \/ SetStatus(t) PROVE HostInv'
  BY <1>1, <1>2, <1>3, <1>6 DEF ReadRow, SetStatus
<1>7. ASSUME NEW t \in Tasks, Load(t) \/ RunHook(t) PROVE HostInv'
  <2>1. t \in Callers /\ Post(t)
    BY <1>7 DEF Load, RunHook, Callers
  <2>2. host' \in Host /\ (host'.registered # {} => host'.record)
    BY <1>1, <1>7 DEF Load, RunHook, Unregistered, Host
  <2> QED BY <2>1, <2>2, PostStep
<1>8. ASSUME NEW q \in Rpcs, CallPlugin(q) PROVE HostInv'
  BY <1>1, <1>8, PostStep DEF CallPlugin, Callers
<1>9. ASSUME NEW c \in Callers, TimerFires(c) PROVE HostInv'
  BY <1>9, HandleCrashStep DEF TimerFires
<1>10. ASSUME NEW w \in Workers, WorkerDies(w) PROVE HostInv'
  BY <1>10, HandleCrashStep DEF WorkerDies
<1>11. ASSUME NEW w \in Workers, NEW p \in Places, Registers(w, p) PROVE HostInv'
  <2>1. host' \in Host /\ host'.record /\ UNCHANGED <<mapped, worker, sent>>
    BY <1>1, <1>11 DEF Registers, Host
  <2> QED BY <1>2, <1>3, <2>1
<1>12. CASE WindowMoves
  <2>1. host.crashes - 1 \in 0..Threshold
    BY <1>1, <1>12, PluginHostAssumption DEF WindowMoves, Host
  <2>2. host' = [host EXCEPT !.crashes = host.crashes - 1] /\ UNCHANGED <<mapped, worker, sent>>
    BY <1>12 DEF WindowMoves
  <2>3. host' \in Host /\ host'.registered = host.registered /\ host'.record = host.record
    BY <1>1, <2>1, <2>2 DEF Host
  <2> QED BY <1>1, <1>2, <1>3, <2>2, <2>3
<1>13. CASE UNCHANGED hostVars
  BY <1>1, <1>2, <1>3, <1>13 DEF hostVars
<1> QED BY <1>4, <1>5, <1>6, <1>7, <1>8, <1>9, <1>10, <1>11, <1>12, <1>13, ResetStep, AnswerStep
        DEF HostNext, TaskStep

(* Whatever tasks, requests, crashes, timers and late answers overlap, no  *)
(* worker of the plugin lives on that requests are not posted to, and      *)
(* nothing stays registered without a record to unregister it by (rpc.ts,  *)
(* crashRecovery.ts, workerPool.ts).                                       *)
THEOREM TeardownTheorem == HostSpec => []TeardownReachesAll
<1>1. HostInv => TeardownReachesAll
  BY DEF HostInv
<1> QED BY <1>1, HostStarts, HostStep, PTL DEF HostSpec

-----------------------------------------------------------------------------
(* What the row of a plugin and the tasks under way may be, which none of  *)
(* the above depends on.                                                   *)

TasksOK == plugin \in Plugin /\ task \in [Tasks -> Task]

LEMMA TasksStart == HostInit => TasksOK
  BY DEF HostInit, TasksOK, Plugin, Task, Idle

LEMMA ResumedType ==
  ASSUME NEW k \in Task, NEW ok \in BOOLEAN
  PROVE  Unloaded(k) \in Task /\ Resumed(k, ok) \in Task
<1>1. Unloaded(k) \in Task
  BY DEF Unloaded, Task
<1>2. [k EXCEPT !.pc = "hook"] \in Task
  BY DEF Task
<1>3. Succeeded(k) \in Task
  BY DEF Succeeded, Task, Idle
<1>4. Failed(k) \in Task
  BY DEF Failed, Task, Idle
<1> QED BY <1>1, <1>2, <1>3, <1>4 DEF Resumed

LEMMA TasksStep == TasksOK /\ [HostNext]_hostVars => TasksOK'
<1> SUFFICES ASSUME TasksOK, [HostNext]_hostVars PROVE TasksOK'
  OBVIOUS
<1>1. plugin \in Plugin /\ task \in [Tasks -> Task]
  BY DEF TasksOK
<1>2. ASSUME NEW o \in Operators, Restart(o) \/ Rebind(o) \/ \E on \in BOOLEAN : SetEnabled(o, on) PROVE TasksOK'
  <2>1. /\ plugin' = plugin \/ \E on \in BOOLEAN : plugin' = [plugin EXCEPT !.enabled = on]
        /\ \E k \in Task : task' = [task EXCEPT ![o] = k]
    BY <1>2 DEF Restart, Rebind, SetEnabled, Task
  <2>2. plugin' \in Plugin
    BY <1>1, <2>1 DEF Plugin
  <2> QED BY <1>1, <2>1, <2>2 DEF TasksOK
<1>3. ASSUME NEW t \in Tasks, TaskStep(t) PROVE TasksOK'
  <2>1. CASE Unload(t)
    <3>1. plugin' = plugin /\ task[t] \in Task
      BY <1>1, <2>1 DEF Unload
    <3>2. Unloaded(task[t]) \in Task /\ [task[t] EXCEPT !.pc = "unloading"] \in Task
      BY <3>1, ResumedType DEF Task
    <3>3. task' = [task EXCEPT ![t] = Unloaded(task[t])] \/ task' = [task EXCEPT ![t] = [task[t] EXCEPT !.pc = "unloading"]]
      BY <2>1 DEF Unload
    <3> QED BY <1>1, <3>1, <3>2, <3>3 DEF TasksOK
  <2>2. CASE Reset(t)
    <3>1. plugin' = plugin
      BY <2>2 DEF Reset
    <3>2. \A k \in Tasks : [task[k] EXCEPT !.pc = "read"] \in Task /\ Resumed(task[k], FALSE) \in Task
      <4> SUFFICES ASSUME NEW k \in Tasks PROVE [task[k] EXCEPT !.pc = "read"] \in Task /\ Resumed(task[k], FALSE) \in Task
        OBVIOUS
      <4>1. task[k] \in Task
        BY <1>1
      <4>2. [task[k] EXCEPT !.pc = "read"] \in Task
        BY <4>1 DEF Task
      <4>3. Resumed(task[k], FALSE) \in Task
        BY <4>1, ResumedType
      <4> QED BY <4>2, <4>3
    <3>3. task' = [k \in Tasks |-> IF k = t THEN [task[k] EXCEPT !.pc = "read"] ELSE Resumed(task[k], FALSE)]
      BY <2>2 DEF Reset
    <3> QED BY <1>1, <3>1, <3>2, <3>3 DEF TasksOK
  <2>3. CASE ReadRow(t)
    <3> DEFINE k == IF plugin.enabled THEN [task[t] EXCEPT !.pc = "load"]
                    ELSE IF task[t].what = "restart" THEN [task[t] EXCEPT !.hook = "ok", !.pc = "status"]
                    ELSE Idle
    <3>1. k \in Task
      BY <1>1 DEF Task, Idle
    <3>2. plugin' = plugin /\ task' = [task EXCEPT ![t] = k]
      BY <2>3 DEF ReadRow
    <3> HIDE DEF k
    <3> QED BY <1>1, <3>1, <3>2 DEF TasksOK
  <2>4. CASE Load(t) \/ RunHook(t)
    <3>1. [task[t] EXCEPT !.pc = "loading"] \in Task /\ [task[t] EXCEPT !.pc = "running"] \in Task
      BY <1>1 DEF Task
    <3>2. plugin' = plugin /\ \E pc \in {"loading", "running"} : task' = [task EXCEPT ![t] = [task[t] EXCEPT !.pc = pc]]
      BY <2>4 DEF Load, RunHook
    <3> QED BY <1>1, <3>1, <3>2 DEF TasksOK
  <2>5. CASE SetStatus(t)
    <3>1. \E s \in {"error", "disabled", "active"} : plugin' = [plugin EXCEPT !.status = s]
      BY <2>5 DEF SetStatus
    <3>2. plugin' \in Plugin
      BY <1>1, <3>1 DEF Plugin
    <3> DEFINE k == IF task[t].what = "disable" THEN [what |-> "rebind", pc |-> "reset", hook |-> "todo"] ELSE Idle
    <3>3. k \in Task
      BY DEF Task, Idle
    <3>4. task' = [task EXCEPT ![t] = k]
      BY <2>5 DEF SetStatus
    <3> HIDE DEF k
    <3> QED BY <1>1, <3>2, <3>3, <3>4 DEF TasksOK
  <2> QED BY <1>3, <2>1, <2>2, <2>3, <2>4, <2>5 DEF TaskStep
<1>4. ASSUME NEW dead, HandleCrash(dead) PROVE TasksOK'
  <2> DEFINE resumed == [t \in Tasks |-> Resumed(task[t], FALSE)]
             free == {r \in Recoveries : resumed[r].pc = "idle"}
             chosen == CHOOSE r \in free : TRUE
  <2>1. resumed \in [Tasks -> Task]
    BY <1>1, ResumedType
  <2>2. plugin' = plugin /\ (task' = resumed \/ \E k \in Task : task' = [resumed EXCEPT ![chosen] = k])
    <3>1. CASE host.crashes + 1 >= Threshold
      BY <1>4, <3>1 DEF HandleCrash, Task
    <3>2. CASE ~(host.crashes + 1 >= Threshold)
      BY <1>4, <3>2 DEF HandleCrash, Task
    <3> QED BY <3>1, <3>2
  <2> HIDE DEF resumed, chosen
  <2> QED BY <1>1, <2>1, <2>2 DEF TasksOK
<1>5. ASSUME NEW c \in Callers, NEW ok \in BOOLEAN, Answer(c, ok) PROVE TasksOK'
  <2>1. plugin' = plugin /\ (task' = task \/ (c \in Tasks /\ task' = [task EXCEPT ![c] = Resumed(task[c], ok)]))
    BY <1>5 DEF Answer
  <2> QED BY <1>1, <2>1, ResumedType DEF TasksOK
<1>6. ASSUME UNCHANGED <<plugin, task>> PROVE TasksOK'
  BY <1>6 DEF TasksOK
<1>7. ASSUME NEW q \in Rpcs, CallPlugin(q) PROVE TasksOK'
  BY <1>6, <1>7 DEF CallPlugin
<1>8. ASSUME NEW w \in Workers, NEW p \in Places, Registers(w, p) PROVE TasksOK'
  BY <1>6, <1>8 DEF Registers
<1>9. CASE WindowMoves \/ UNCHANGED hostVars
  BY <1>6, <1>9 DEF WindowMoves, hostVars
<1> QED BY <1>2, <1>3, <1>4, <1>5, <1>7, <1>8, <1>9 DEF HostNext, WorkerDies, TimerFires

-----------------------------------------------------------------------------
(* A schedule of a plugin.                                                 *)

LEMMA SchedStarts == SchedInit => SchedTypeOK
  BY PluginScheduleAssumption DEF SchedInit, SchedTypeOK, Sched, Run

LEMMA SchedStep == SchedTypeOK /\ [SchedNext]_schedVars => SchedTypeOK'
<1> SUFFICES ASSUME SchedTypeOK, [SchedNext]_schedVars PROVE SchedTypeOK'
  OBVIOUS
<1> USE PluginScheduleAssumption
<1>1. /\ sched \in Sched /\ run \in [Runs -> Run] /\ late \in 0..MaxLate /\ crashes \in 0..MaxCrashes
      /\ sched.failures \in 0..MaxFailures
  BY DEF SchedTypeOK, Sched
<1>2. \A r \in Runs : Back(r) \in Run
  BY DEF Back, Run
<1>3. ASSUME NEW r \in Runs, NEW k \in Run, run' = [run EXCEPT ![r] = k], sched' \in Sched, UNCHANGED <<late, crashes>>
      PROVE  SchedTypeOK'
  BY <1>1, <1>3 DEF SchedTypeOK
<1>4. ASSUME NEW r \in Runs, NEW pc \in {"claimed", "called", "failed", "succeeded", "recorded"}
      PROVE  [run[r] EXCEPT !.pc = pc] \in Run
  BY <1>1 DEF Run
<1>5. ASSUME NEW r \in Runs, RunStep(r) \/ RunNow(r) PROVE SchedTypeOK'
  <2>1. CASE SelectDue(r) \/ RunNow(r)
    <3> DEFINE k == [pc |-> "listed", failures |-> sched.failures]
    <3>1. k \in Run
      BY <1>1 DEF Run
    <3>2. run' = [run EXCEPT ![r] = k] /\ UNCHANGED <<sched, late, crashes>>
      BY <2>1 DEF SelectDue, RunNow
    <3> HIDE DEF k
    <3> QED BY <1>1, <1>3, <3>1, <3>2
  <2>2. CASE TryClaim(r)
    <3>1. CASE Claimable
      <4>1. sched' = [sched EXCEPT !.token = r, !.lapsed = FALSE] /\ run' = [run EXCEPT ![r] = [run[r] EXCEPT !.pc = "claimed"]]
        BY <2>2, <3>1 DEF TryClaim
      <4>2. sched' \in Sched
        BY <1>1, <4>1 DEF Sched
      <4> QED BY <1>3, <1>4, <2>2, <4>1, <4>2 DEF TryClaim
    <3>2. CASE ~Claimable
      BY <1>1, <1>2, <1>3, <2>2, <3>2 DEF TryClaim
    <3> QED BY <3>1, <3>2
  <2>3. CASE CallWorker(r) \/ WorkerAnswers(r)
    <3>1. PICK pc \in {"called", "failed", "succeeded"} : run' = [run EXCEPT ![r] = [run[r] EXCEPT !.pc = pc]]
      BY <2>3 DEF CallWorker, WorkerAnswers
    <3>2. UNCHANGED <<sched, late, crashes>>
      BY <2>3 DEF CallWorker, WorkerAnswers
    <3> QED BY <1>1, <1>3, <1>4, <3>1, <3>2
  <2>4. CASE RecordOutcome(r)
    <3>1. OneMore(sched.failures) \in 0..MaxFailures /\ 0 \in 0..MaxFailures
      BY <1>1 DEF OneMore
    <3>2. \/ sched' = sched
          \/ \E n \in 0..MaxFailures : sched' = [sched EXCEPT !.token = NoClaim, !.lapsed = FALSE, !.due = FALSE, !.failures = n]
      BY <2>4, <3>1 DEF RecordOutcome
    <3>3. sched' \in Sched
      BY <1>1, <3>2 DEF Sched
    <3>4. run' = [run EXCEPT ![r] = Back(r)] \/ run' = [run EXCEPT ![r] = [run[r] EXCEPT !.pc = "recorded"]]
      BY <2>4 DEF RecordOutcome
    <3> QED BY <1>2, <1>3, <1>4, <2>4, <3>3, <3>4 DEF RecordOutcome
  <2>5. CASE PauseAtCap(r)
    <3> DEFINE stops == sched.paused \/ run[r].failures + 1 >= Cap
    <3>1. stops \in BOOLEAN /\ sched' = [sched EXCEPT !.paused = stops]
      BY <1>1, <2>5 DEF PauseAtCap, Sched
    <3> HIDE DEF stops
    <3>2. sched' \in Sched
      BY <1>1, <3>1 DEF Sched
    <3> QED BY <1>2, <1>3, <2>5, <3>2 DEF PauseAtCap
  <2> QED BY <1>5, <2>1, <2>2, <2>3, <2>4, <2>5 DEF RunStep
<1>6. ASSUME sched' \in Sched, UNCHANGED <<run, crashes>>, late' \in 0..MaxLate PROVE SchedTypeOK'
  BY <1>1, <1>6 DEF SchedTypeOK
<1>7. CASE BecomesDue \/ Pause \/ Resume \/ Register \/ Unregister \/ TogglePlugin \/ LostLeaseEnds
  <2>1. sched' \in Sched
    <3>1. CASE BecomesDue \/ Pause \/ Unregister \/ LostLeaseEnds
      BY <1>1, <3>1 DEF BecomesDue, Pause, Unregister, LostLeaseEnds, Sched
    <3>2. CASE Resume \/ Register
      <4>1. \/ sched' = [sched EXCEPT !.paused = FALSE, !.failures = 0]
            \/ sched' = [sched EXCEPT !.enabled = TRUE, !.due = FALSE]
        BY <3>2 DEF Resume, Register
      <4>2. 0 \in 0..MaxFailures
        OBVIOUS
      <4> QED BY <1>1, <4>1, <4>2 DEF Sched
    <3>3. CASE TogglePlugin
      <4>1. sched.plugin \in BOOLEAN
        BY <1>1 DEF Sched
      <4>2. PICK on \in BOOLEAN : sched' = [sched EXCEPT !.plugin = on]
        BY <3>3, <4>1, Zenon DEF TogglePlugin
      <4> QED BY <1>1, <4>2 DEF Sched
    <3> QED BY <1>7, <3>1, <3>2, <3>3
  <2>2. UNCHANGED <<run, late, crashes>>
    BY <1>7 DEF BecomesDue, Pause, Resume, Register, Unregister, TogglePlugin, LostLeaseEnds
  <2> QED BY <1>1, <1>6, <2>1, <2>2
<1>8. CASE LeaseEndsFirst
  <2>1. sched' = [sched EXCEPT !.lapsed = TRUE] /\ late < MaxLate /\ late' = late + 1 /\ UNCHANGED <<run, crashes>>
    BY <1>8 DEF LeaseEndsFirst
  <2>2. sched' \in Sched
    BY <1>1, <2>1 DEF Sched
  <2>3. late' \in 0..MaxLate
    BY <1>1, <2>1
  <2> QED BY <1>6, <2>1, <2>2, <2>3
<1>9. CASE ServerCrashes
  <2>1. run' \in [Runs -> Run]
    BY <1>1, <1>2, <1>9 DEF ServerCrashes
  <2>2. \E x \in Runs \cup {NoClaim, Lost} : sched' = [sched EXCEPT !.token = x]
    BY <1>1, <1>9 DEF ServerCrashes, Sched
  <2>3. sched' \in Sched
    BY <1>1, <2>2 DEF Sched
  <2> QED BY <1>1, <1>9, <2>1, <2>3 DEF ServerCrashes, SchedTypeOK
<1>10. CASE UNCHANGED schedVars
  BY <1>1, <1>10 DEF schedVars, SchedTypeOK
<1> QED BY <1>5, <1>7, <1>8, <1>9, <1>10 DEF SchedNext

-----------------------------------------------------------------------------
(* The tree of a page.                                                     *)

(* The places of a sequence that Kept keeps *)
PlacesIn(s, S) == {i \in DOMAIN s : s[i] \in S}

(* Kept goes through those places, every one of them, in their order. *)
LEMMA KeptPlaces ==
  ASSUME NEW X, NEW s \in Seq(X), NEW S
  PROVE  /\ IsFiniteSet(PlacesIn(s, S)) /\ Cardinality(PlacesIn(s, S)) \in Nat
         /\ \E nth \in [1..Cardinality(PlacesIn(s, S)) -> PlacesIn(s, S)] :
              /\ Kept(s, S) = [k \in 1..Cardinality(PlacesIn(s, S)) |-> s[nth[k]]]
              /\ \A i \in PlacesIn(s, S) : \E k \in 1..Cardinality(PlacesIn(s, S)) : nth[k] = i
              /\ \A k, l \in 1..Cardinality(PlacesIn(s, S)) : k < l => nth[k] < nth[l]
<1> DEFINE at == PlacesIn(s, S)
           n == Cardinality(at)
           upTo(i) == {j \in at : j <= i}
           rank == [i \in at |-> Cardinality(upTo(i))]
           place(k) == CHOOSE i \in at : Cardinality({j \in at : j <= i}) = k
<1>1. at \subseteq 1..Len(s) /\ IsFiniteSet(at) /\ n \in Nat
  <2>1. Len(s) \in Nat /\ at \subseteq 1..Len(s)
    BY DEF PlacesIn
  <2>2. IsFiniteSet(1..Len(s))
    BY <2>1, FS_Interval
  <2> QED BY <2>1, <2>2, FS_Subset, FS_CardinalityType
<1>2. \A i \in at : IsFiniteSet(upTo(i)) /\ rank[i] \in 1..n
  <2> SUFFICES ASSUME NEW i \in at PROVE IsFiniteSet(upTo(i)) /\ rank[i] \in 1..n
    OBVIOUS
  <2>1. upTo(i) \subseteq at /\ i \in upTo(i)
    BY <1>1
  <2>2. IsFiniteSet(upTo(i)) /\ Cardinality(upTo(i)) <= n
    BY <1>1, <2>1, FS_Subset
  <2>3. Cardinality(upTo(i)) \in Nat /\ Cardinality(upTo(i)) # 0
    BY <2>1, <2>2, FS_EmptySet, FS_CardinalityType
  <2> QED BY <1>1, <2>2, <2>3
<1>3. ASSUME NEW i \in at, NEW j \in at, i < j PROVE rank[i] < rank[j]
  <2>1. upTo(i) \subseteq upTo(j) /\ j \in upTo(j) /\ j \notin upTo(i) /\ upTo(i) \in SUBSET upTo(j)
    BY <1>1, <1>3
  <2>2. Cardinality(upTo(i)) <= Cardinality(upTo(j)) /\ Cardinality(upTo(i)) # Cardinality(upTo(j))
    BY <1>2, <2>1, FS_Subset
  <2>3. rank[i] = Cardinality(upTo(i)) /\ rank[j] = Cardinality(upTo(j))
    OBVIOUS
  <2> HIDE DEF rank, upTo, at, n
  <2>4. rank[i] \in Int /\ rank[j] \in Int
    BY <1>1, <1>2
  <2> QED BY <2>2, <2>3, <2>4
<1>4. rank \in Injection(at, 1..n)
  <2>1. rank \in [at -> 1..n]
    BY <1>2
  <2>2. ASSUME NEW i \in at, NEW j \in at, rank[i] = rank[j] PROVE i = j
    <3> HIDE DEF rank, upTo, n
    <3>1. i \in Int /\ j \in Int /\ rank[i] \in Int
      BY <1>1, <1>2
    <3>2. ~(i < j) /\ ~(j < i)
      BY <1>3, <2>2, <3>1
    <3> QED BY <3>1, <3>2
  <2> HIDE DEF rank, at, n
  <2>3. IsInjective(rank)
    BY <2>1, <2>2 DEF IsInjective
  <2> QED BY <2>1, <2>3 DEF Injection
<1>5. \A k \in 1..n : \E i \in at : rank[i] = k
  <2>1. IsFiniteSet(1..n) /\ Cardinality(1..n) = n
    <3>1. n >= 0 /\ (1 > n <=> n = 0)
      BY <1>1
    <3> HIDE DEF n
    <3> QED BY <1>1, <3>1, FS_Interval
  <2> HIDE DEF rank
  <2>2. rank \in Surjection(at, 1..n)
    BY <1>4, <2>1, FS_Injection
  <2> QED BY <2>2 DEF Surjection
<1>6. \A k \in 1..n : place(k) \in at /\ rank[place(k)] = k
  <2> TAKE k \in 1..n
  <2>1. PICK i \in at : rank[i] = k
    BY <1>5
  <2>2. place(k) \in at /\ Cardinality({j \in at : j <= place(k)}) = k
    BY <2>1
  <2> QED BY <2>2
<1> DEFINE nth == [k \in 1..n |-> place(k)]
<1>7. nth \in [1..n -> at] /\ \A k \in 1..n : nth[k] \in at /\ rank[nth[k]] = k
  BY <1>6
<1>8. Kept(s, S) = [k \in 1..n |-> s[nth[k]]]
  BY DEF Kept, PlacesIn
<1> HIDE DEF nth, rank, place
<1>9. \A i \in at : \E k \in 1..n : nth[k] = i
  <2> TAKE i \in at
  <2>1. rank[i] \in 1..n /\ nth[rank[i]] \in at /\ rank[nth[rank[i]]] = rank[i]
    BY <1>2, <1>7
  <2>2. nth[rank[i]] = i
    BY <1>1, <1>2, <1>3, <2>1
  <2> QED BY <2>1, <2>2
<1>10. ASSUME NEW k \in 1..n, NEW l \in 1..n, k < l PROVE nth[k] < nth[l]
  <2>1. nth[k] \in at /\ nth[l] \in at /\ rank[nth[k]] = k /\ rank[nth[l]] = l
    BY <1>7
  <2>2. ~(nth[l] < nth[k]) /\ nth[l] # nth[k]
    BY <1>1, <1>3, <1>10, <2>1
  <2>3. nth[k] \in Int /\ nth[l] \in Int
    BY <1>1, <2>1
  <2> QED BY <2>2, <2>3
<1> QED BY <1>1, <1>7, <1>8, <1>9, <1>10

(* What Kept returns: the elements of s that are in S, each as often. *)
LEMMA KeptFacts ==
  ASSUME NEW X, NEW s \in Seq(X), NEW S
  PROVE  /\ Kept(s, S) \in Seq(X)
         /\ Range(Kept(s, S)) = Range(s) \cap S
         /\ IsInjective(s) => IsInjective(Kept(s, S))
<1> DEFINE at == PlacesIn(s, S)
           n == Cardinality(at)
<1>1. PICK nth \in [1..n -> at] :
        /\ Kept(s, S) = [k \in 1..n |-> s[nth[k]]]
        /\ \A i \in at : \E k \in 1..n : nth[k] = i
        /\ \A k, l \in 1..n : k < l => nth[k] < nth[l]
  BY KeptPlaces
<1>2. n \in Nat /\ at \subseteq DOMAIN s /\ \A i \in at : s[i] \in X /\ s[i] \in S
  <2>1. n \in Nat
    BY KeptPlaces
  <2> QED BY <2>1 DEF PlacesIn
<1>3. \A i \in DOMAIN s : s[i] \in S => i \in at
  BY DEF PlacesIn
<1> HIDE DEF at, n
<1>4. Kept(s, S) \in Seq(X)
  <2>1. [k \in 1..n |-> s[nth[k]]] \in [1..n -> X]
    BY <1>1, <1>2
  <2> QED BY <1>1, <1>2, <2>1
<1>5. DOMAIN Kept(s, S) = 1..n /\ \A k \in 1..n : Kept(s, S)[k] = s[nth[k]]
  BY <1>1
<1>6. Range(Kept(s, S)) = Range(s) \cap S
  <2>1. ASSUME NEW x \in Range(Kept(s, S)) PROVE x \in Range(s) \cap S
    BY <1>1, <1>2, <1>5 DEF Range
  <2>2. ASSUME NEW x \in Range(s) \cap S PROVE x \in Range(Kept(s, S))
    <3>1. PICK i \in DOMAIN s : s[i] = x
      BY DEF Range
    <3>2. PICK k \in 1..n : nth[k] = i
      BY <1>1, <1>3, <3>1
    <3> QED BY <1>5, <3>1, <3>2 DEF Range
  <2> QED BY <2>1, <2>2
<1>7. ASSUME IsInjective(s) PROVE IsInjective(Kept(s, S))
  <2> SUFFICES ASSUME NEW k \in 1..n, NEW l \in 1..n, Kept(s, S)[k] = Kept(s, S)[l] PROVE k = l
    BY <1>5 DEF IsInjective
  <2>1. nth[k] \in DOMAIN s /\ nth[l] \in DOMAIN s /\ s[nth[k]] = s[nth[l]]
    BY <1>1, <1>2, <1>5
  <2>2. nth[k] = nth[l]
    BY <1>7, <2>1 DEF IsInjective
  <2>3. nth[k] \in Int
    BY <2>1
  <2>4. ~(k < l) /\ ~(l < k)
    BY <1>1, <2>2, <2>3
  <2> QED BY <1>2, <2>4
<1> QED BY <1>4, <1>6, <1>7

(* The first that is kept is the first in s to keep, so that what is left  *)
(* out by the opposite choice is not before it.                            *)
LEMMA FirstKept ==
  ASSUME NEW X, NEW s \in Seq(X), IsInjective(s), NEW S, Range(s) \cap S # {}
  PROVE  LET f == Kept(s, S)[1]
         IN  f \in S /\ f \in Range(s) /\ Index(s, f) - 1 \in 0..Len(Without(s, S))
<1> DEFINE at == PlacesIn(s, S)
           n == Cardinality(at)
           f == Kept(s, S)[1]
           rest == PlacesIn(s, Range(s) \ S)
<1>1. PICK nth \in [1..n -> at] :
        /\ Kept(s, S) = [k \in 1..n |-> s[nth[k]]]
        /\ \A i \in at : \E k \in 1..n : nth[k] = i
        /\ \A k, l \in 1..n : k < l => nth[k] < nth[l]
  BY KeptPlaces
<1>2. n \in Nat /\ at \subseteq 1..Len(s) /\ DOMAIN s = 1..Len(s) /\ Len(s) \in Nat
  <2>1. n \in Nat
    BY KeptPlaces
  <2> QED BY <2>1 DEF PlacesIn
<1>3. n # 0
  <2>1. PICK i \in DOMAIN s : s[i] \in S
    BY DEF Range
  <2>2. i \in at
    BY <2>1 DEF PlacesIn
  <2> QED BY <1>1, <1>2, <2>2
<1> DEFINE i == nth[1]
<1>4. i \in at /\ f = s[i]
  BY <1>1, <1>2, <1>3
<1>5. f \in S /\ f \in Range(s) /\ i \in 1..Len(s)
  BY <1>2, <1>4 DEF PlacesIn, Range
<1>6. Index(s, f) = i
  <2>1. Index(s, f) \in DOMAIN s /\ s[Index(s, f)] = f
    BY <1>2, <1>4, <1>5 DEF Index
  <2> QED BY <1>2, <1>4, <1>5, <2>1 DEF IsInjective
<1>7. \A j \in 1..(i - 1) : j \in rest
  <2> SUFFICES ASSUME NEW j \in 1..(i - 1), s[j] \in S PROVE FALSE
    BY <1>2, <1>5 DEF PlacesIn, Range
  <2>1. j \in at /\ j \in Int /\ i \in Int /\ j < i
    BY <1>2, <1>5 DEF PlacesIn
  <2>2. PICK k \in 1..n : nth[k] = j
    BY <1>1, <2>1
  <2>3. k = 1 \/ (1 < k /\ 1 \in 1..n)
    BY <1>2
  <2>4. ~(i < j) /\ i # j
    BY <2>1
  <2> QED BY <1>1, <2>2, <2>3, <2>4
<1>8. Len(Without(s, S)) = Cardinality(rest) /\ IsFiniteSet(rest) /\ Cardinality(rest) \in Nat
  <2>1. Without(s, S) = Kept(s, Range(s) \ S)
    BY DEF Without
  <2>2. IsFiniteSet(rest) /\ Cardinality(rest) \in Nat
    BY KeptPlaces
  <2>3. DOMAIN Kept(s, Range(s) \ S) = 1..Cardinality(rest)
    BY KeptPlaces
  <2>4. Without(s, S) \in Seq(X)
    BY <2>1, KeptFacts
  <2> HIDE DEF rest
  <2> QED BY <2>1, <2>2, <2>3, <2>4
<1>9. i - 1 <= Cardinality(rest)
  <2>1. Cardinality(1..(i - 1)) = i - 1
    BY <1>5, FS_Interval
  <2>2. 1..(i - 1) \in SUBSET rest
    BY <1>7
  <2> QED BY <1>8, <2>1, <2>2, FS_Subset
<1> HIDE DEF f, i
<1> QED
  <2>1. i \in 1..Len(s) /\ Index(s, f) = i
    BY <1>5, <1>6
  <2>2. Index(s, f) - 1 \in 0..Len(Without(s, S))
    BY <1>2, <1>8, <1>9, <2>1
  <2> QED BY <1>5, <2>2 DEF f

LEMMA SplicedFacts ==
  ASSUME NEW X, NEW s \in Seq(X), NEW t \in Seq(X), NEW i \in 0..Len(s)
  PROVE  /\ Spliced(s, i, t) \in Seq(X)
         /\ Range(Spliced(s, i, t)) = Range(s) \cup Range(t)
         /\ IsInjective(s) /\ IsInjective(t) /\ Range(s) \cap Range(t) = {} => IsInjective(Spliced(s, i, t))
<1> DEFINE r == Spliced(s, i, t)
           ls == Len(s)
           lt == Len(t)
<1>1. ls \in Nat /\ lt \in Nat /\ i \in Nat /\ i <= ls /\ DOMAIN s = 1..ls /\ DOMAIN t = 1..lt
  OBVIOUS
<1> DEFINE a == SubSeq(s, 1, i)
           b == SubSeq(s, i + 1, ls)
<1>a. a \in Seq(X) /\ Len(a) = i /\ \A k \in 1..i : a[k] = s[k]
  BY <1>1
<1>b. b \in Seq(X) /\ Len(b) = ls - i /\ \A k \in 1..(ls - i) : b[k] = s[k + i]
  <2> HIDE DEF ls, lt
  <2>1. \A k \in (i + 1)..ls : s[k] \in X
    BY <1>1 DEF ls
  <2>2. b \in Seq(X) /\ Len(b) = (IF i + 1 <= ls THEN ls - (i + 1) + 1 ELSE 0)
        /\ \A k \in 1..(ls - (i + 1) + 1) : b[k] = s[(i + 1) + k - 1]
    BY <1>1, <2>1, SubSeqProperties
  <2> HIDE DEF b
  <2> QED BY <1>1, <2>2
<1>c. r = (a \o t) \o b
  BY DEF Spliced
<1> HIDE DEF a, b, r
<1>2. r \in Seq(X) /\ Len(r) = ls + lt
  <2>1. a \o t \in Seq(X) /\ Len(a \o t) = i + lt
    BY <1>1, <1>a
  <2>2. r \in Seq(X) /\ Len(r) = Len(a \o t) + Len(b)
    BY <1>b, <1>c, <2>1, ConcatProperties
  <2> HIDE DEF ls, lt
  <2> QED BY <1>1, <1>b, <2>1, <2>2
<1>3. \A k \in 1..(ls + lt) : r[k] = IF k <= i THEN s[k] ELSE IF k <= i + lt THEN t[k - i] ELSE s[k - lt]
  <2>1. a \o t \in Seq(X) /\ Len(a \o t) = i + lt
    BY <1>1, <1>a
  <2>2. \A k \in 1..(i + lt) : (a \o t)[k] = IF k <= i THEN a[k] ELSE t[k - i]
    BY <1>1, <1>a
  <2>3. \A k \in 1..(ls + lt) : r[k] = IF k <= i + lt THEN (a \o t)[k] ELSE b[k - (i + lt)]
    BY <1>1, <1>b, <1>c, <2>1
  <2> HIDE DEF ls, lt
  <2> SUFFICES ASSUME NEW k \in 1..(ls + lt)
               PROVE  r[k] = IF k <= i THEN s[k] ELSE IF k <= i + lt THEN t[k - i] ELSE s[k - lt]
    OBVIOUS
  <2>4. CASE k <= i + lt
    <3>1. k \in 1..(i + lt) /\ k \in Int
      BY <1>1, <2>4
    <3>2. r[k] = IF k <= i THEN a[k] ELSE t[k - i]
      <4>1. r[k] = IF k <= i + lt THEN (a \o t)[k] ELSE b[k - (i + lt)]
        BY <2>3
      <4>2. (a \o t)[k] = IF k <= i THEN a[k] ELSE t[k - i]
        BY <2>2, <3>1
      <4>3. r[k] = (a \o t)[k]
        BY ONLY <2>4, <4>1, Zenon
      <4> QED BY <4>2, <4>3
    <3>3. k <= i => a[k] = s[k]
      BY <1>1, <1>a, <3>1
    <3> QED BY <2>4, <3>2, <3>3
  <2>5. CASE k > i + lt
    <3>1. k - (i + lt) \in 1..(ls - i) /\ (k - (i + lt)) + i = k - lt
      BY <1>1, <2>5
    <3>2. b[k - (i + lt)] = s[k - lt]
      BY <1>b, <3>1
    <3> QED BY <1>1, <2>3, <2>5, <3>2
  <2> QED BY <1>1, <2>4, <2>5
<1> HIDE DEF r, ls, lt
<1>4. DOMAIN r = 1..(ls + lt)
  BY <1>2
<1>5. Range(r) = Range(s) \cup Range(t)
  <2>1. ASSUME NEW k \in 1..(ls + lt) PROVE r[k] \in Range(s) \cup Range(t)
    <3>1. CASE k <= i
      BY <1>1, <1>3, <3>1 DEF Range
    <3>2. CASE k > i /\ k <= i + lt
      <4>1. k - i \in 1..lt /\ r[k] = t[k - i]
        BY <1>1, <1>3, <3>2
      <4> QED BY <1>1, <4>1 DEF Range
    <3>3. CASE k > i + lt
      <4>1. k - lt \in 1..ls /\ r[k] = s[k - lt]
        BY <1>1, <1>3, <3>3
      <4> QED BY <1>1, <4>1 DEF Range
    <3> QED BY <1>1, <3>1, <3>2, <3>3
  <2>2. ASSUME NEW k \in 1..ls PROVE s[k] \in Range(r)
    <3>1. CASE k <= i
      <4>1. k \in 1..(ls + lt) /\ r[k] = s[k]
        BY <1>1, <1>3, <3>1
      <4> QED BY <1>4, <4>1 DEF Range
    <3>2. CASE k > i
      <4>1. k + lt \in 1..(ls + lt) /\ r[k + lt] = s[k]
        BY <1>1, <1>3, <3>2
      <4> QED BY <1>4, <4>1 DEF Range
    <3> QED BY <1>1, <3>1, <3>2
  <2>3. ASSUME NEW k \in 1..lt PROVE t[k] \in Range(r)
    <3>1. k + i \in 1..(ls + lt) /\ r[k + i] = t[k]
      BY <1>1, <1>3
    <3> QED BY <1>4, <3>1 DEF Range
  <2> QED BY <1>1, <1>4, <2>1, <2>2, <2>3 DEF Range
<1>6. ASSUME IsInjective(s), IsInjective(t), Range(s) \cap Range(t) = {} PROVE IsInjective(r)
  <2> DEFINE inT(k) == i < k /\ k <= i + lt
             place(k) == IF k <= i THEN k ELSE IF k <= i + lt THEN k - i ELSE k - lt
  <2>1. ASSUME NEW k \in 1..(ls + lt)
        PROVE  IF inT(k) THEN place(k) \in 1..lt /\ r[k] = t[place(k)]
                         ELSE place(k) \in 1..ls /\ r[k] = s[place(k)]
    BY <1>1, <1>3
  <2>2. ASSUME NEW k \in 1..(ls + lt), NEW l \in 1..(ls + lt), inT(k) = inT(l), place(k) = place(l)
        PROVE  k = l
    BY <1>1, <2>2
  <2> HIDE DEF inT, place
  <2> SUFFICES ASSUME NEW k \in 1..(ls + lt), NEW l \in 1..(ls + lt), r[k] = r[l] PROVE k = l
    BY <1>4 DEF IsInjective
  <2>3. CASE inT(k) /\ inT(l)
    <3>1. place(k) \in DOMAIN t /\ place(l) \in DOMAIN t /\ t[place(k)] = t[place(l)]
      BY <1>1, <2>1, <2>3
    <3>2. place(k) = place(l)
      BY <1>6, <3>1 DEF IsInjective
    <3> QED BY <2>2, <2>3, <3>2
  <2>4. CASE ~inT(k) /\ ~inT(l)
    <3>1. place(k) \in DOMAIN s /\ place(l) \in DOMAIN s /\ s[place(k)] = s[place(l)]
      BY <1>1, <2>1, <2>4
    <3>2. place(k) = place(l)
      BY <1>6, <3>1 DEF IsInjective
    <3>3. inT(k) = FALSE /\ inT(l) = FALSE
      BY <2>4
    <3> QED BY <2>2, <3>2, <3>3
  <2>5. \A x, y \in 1..(ls + lt) : inT(x) /\ ~inT(y) => r[x] # r[y]
    <3> SUFFICES ASSUME NEW x \in 1..(ls + lt), NEW y \in 1..(ls + lt), inT(x), ~inT(y), r[x] = r[y] PROVE FALSE
      OBVIOUS
    <3>1. place(x) \in DOMAIN t /\ r[x] = t[place(x)] /\ place(y) \in DOMAIN s /\ r[y] = s[place(y)]
      BY <1>1, <2>1
    <3> QED BY <1>6, <3>1 DEF Range
  <2> QED BY <2>3, <2>4, <2>5
<1> QED BY <1>2, <1>5, <1>6 DEF r

(* A sequence of one, and the place of an element *)
LEMMA OneFacts ==
  ASSUME NEW X, NEW x \in X
  PROVE  <<x>> \in Seq(X) /\ Range(<<x>>) = {x} /\ IsInjective(<<x>>)
  BY DEF Range, IsInjective

LEMMA SplicedOne ==
  ASSUME NEW X, NEW s \in Seq(X), NEW x \in X \ Range(s), NEW i \in 0..Len(s), IsInjective(s)
  PROVE  /\ Spliced(s, i, <<x>>) \in Seq(X)
         /\ Range(Spliced(s, i, <<x>>)) = Range(s) \cup {x}
         /\ IsInjective(Spliced(s, i, <<x>>))
<1> DEFINE t == <<x>>
<1>1. t \in Seq(X) /\ Range(t) = {x} /\ IsInjective(t)
  BY OneFacts
<1> HIDE DEF t
<1>2. Range(s) \cap Range(t) = {}
  BY <1>1
<1>3. /\ Spliced(s, i, t) \in Seq(X)
      /\ Range(Spliced(s, i, t)) = Range(s) \cup {x}
      /\ IsInjective(Spliced(s, i, t))
  BY <1>1, <1>2, SplicedFacts
<1> QED BY <1>3 DEF t

LEMMA EmptyFacts == /\ Range(<<>>) = {} /\ IsInjective(<<>>) /\ \A X : <<>> \in Seq(X)
  BY DEF Range, IsInjective

LEMMA IndexFacts ==
  ASSUME NEW X, NEW s \in Seq(X), NEW c \in Range(s)
  PROVE  Index(s, c) \in 1..Len(s) /\ s[Index(s, c)] = c
  BY DEF Index, Range

-----------------------------------------------------------------------------
(* The walks.  Either is the smallest set with the node that is closed.    *)

TreeInv ==
    /\ TreeTypeOK /\ TreeSound
    /\ \A n \in Ids \ nodes : children[n] = <<>>

LEMMA SubtreeFacts ==
  ASSUME NEW n \in nodes
  PROVE  /\ Subtree(n) \in SUBSET nodes /\ n \in Subtree(n)
         /\ \A k \in Subtree(n) : Range(children[k]) \cap nodes \subseteq Subtree(n)
         /\ \A S \in SUBSET nodes : n \in S /\ (\A k \in S : Range(children[k]) \cap nodes \subseteq S) => Subtree(n) \subseteq S
  BY DEF Subtree

LEMMA ChainFacts ==
  ASSUME NEW n \in nodes
  PROVE  /\ Chain(n) \in SUBSET nodes /\ n \in Chain(n)
         /\ \A k \in Chain(n) : parentId[k] \in nodes => parentId[k] \in Chain(n)
         /\ \A S \in SUBSET nodes :
               n \in S /\ (\A k \in S : parentId[k] \in nodes => parentId[k] \in S) => Chain(n) \subseteq S
  BY DEF Chain

(* Whatever is below a node is listed by something at or below it. *)
LEMMA ListedBelow ==
  ASSUME NEW n \in nodes, NEW c \in Subtree(n), c # n
  PROVE  \E q \in Subtree(n) : c \in Range(children[q])
<1> SUFFICES ASSUME \A q \in Subtree(n) : c \notin Range(children[q]) PROVE FALSE
  OBVIOUS
<1> DEFINE S == Subtree(n) \ {c}
<1>1. S \in SUBSET nodes /\ n \in S /\ \A k \in S : Range(children[k]) \cap nodes \subseteq S
  BY SubtreeFacts
<1>2. Subtree(n) \subseteq S
  BY <1>1, SubtreeFacts
<1> QED BY <1>2

(* Whatever is above a node is the parent of something at or above it. *)
LEMMA ParentAbove ==
  ASSUME NEW n \in nodes, NEW a \in Chain(n), a # n
  PROVE  \E b \in Chain(n) : parentId[b] = a
<1> SUFFICES ASSUME \A b \in Chain(n) : parentId[b] # a PROVE FALSE
  OBVIOUS
<1> DEFINE S == Chain(n) \ {a}
<1>1. S \in SUBSET nodes /\ n \in S /\ \A k \in S : parentId[k] \in nodes => parentId[k] \in S
  BY ChainFacts
<1>2. Chain(n) \subseteq S
  BY <1>1, ChainFacts
<1> QED BY <1>2

(* Above a node are itself and what is above its parent. *)
LEMMA ChainStep ==
  ASSUME NEW n \in nodes
  PROVE  IF parentId[n] \in nodes THEN Chain(n) = {n} \cup Chain(parentId[n]) ELSE Chain(n) = {n}
<1>1. CASE parentId[n] \in nodes
  <2> DEFINE p == parentId[n]
             S == {n} \cup Chain(p)
  <2>1. S \in SUBSET nodes /\ n \in S /\ \A k \in S : parentId[k] \in nodes => parentId[k] \in S
    BY <1>1, ChainFacts
  <2>2. Chain(n) \subseteq S
    BY <2>1, ChainFacts
  <2>3. p \in Chain(n) /\ n \in Chain(n)
    BY <1>1, ChainFacts
  <2>4. Chain(p) \subseteq Chain(n)
    BY <1>1, <2>3, ChainFacts
  <2> QED BY <1>1, <2>2, <2>3, <2>4
<1>2. CASE parentId[n] \notin nodes
  <2>1. {n} \in SUBSET nodes /\ \A k \in {n} : parentId[k] \in nodes => parentId[k] \in {n}
    BY <1>2
  <2>2. Chain(n) \subseteq {n} /\ n \in Chain(n)
    BY <2>1, ChainFacts
  <2> QED BY <1>2, <2>2
<1> QED BY <1>1, <1>2

LEMMA ChainWithin ==
  ASSUME NEW n \in nodes, NEW a \in Chain(n)
  PROVE  Chain(a) \subseteq Chain(n)
  BY ChainFacts

LEMMA InvFacts ==
  ASSUME TreeInv
  PROVE  /\ nodes \subseteq Ids /\ Root \in nodes /\ parentId[Root] = NoParent
         /\ NoParent \notin Ids /\ NoParent \notin nodes
         /\ \A n \in Ids : children[n] \in Seq(Ids) /\ parentId[n] \in Ids \cup {NoParent}
         /\ \A n \in nodes : IsInjective(children[n]) /\ Range(children[n]) \subseteq nodes
         /\ \A n \in nodes : \A c \in Range(children[n]) : c \in nodes /\ parentId[c] = n
         /\ \A n \in nodes : parentId[n] # NoParent => parentId[n] \in nodes /\ n \in Range(children[parentId[n]])
         /\ \A n \in Ids \ nodes : children[n] = <<>>
         /\ \A S \in SUBSET nodes : S # {} => \E n \in S : parentId[n] \notin S
  BY PageTreeAssumption DEF TreeInv, TreeTypeOK, TreeSound, ChildrenSound, ParentsSound

(* The root is above everything that is shown. *)
LEMMA RootAbove ==
  ASSUME TreeInv, NEW n \in Shown
  PROVE  n \in nodes /\ Root \in Chain(n)
<1> DEFINE S == {x \in nodes : Root \in Chain(x)}
<1>1. Root \in S
  BY InvFacts, ChainFacts
<1>2. \A k \in S : Range(children[k]) \cap nodes \subseteq S
  <2> SUFFICES ASSUME NEW k \in S, NEW c \in Range(children[k]) PROVE Root \in Chain(c)
    OBVIOUS
  <2>1. c \in nodes /\ parentId[c] = k
    BY InvFacts
  <2>2. Chain(c) = {c} \cup Chain(k)
    BY <2>1, ChainStep
  <2> QED BY <2>2
<1>3. Subtree(Root) \subseteq S
  BY <1>1, <1>2, SubtreeFacts, InvFacts
<1> QED BY <1>3 DEF Shown

(* Of any nodes, one is under no other of them. *)
LEMMA TopExists ==
  ASSUME TreeInv, NEW T \in SUBSET nodes, T # {}
  PROVE  \E t \in T : (Chain(t) \ {t}) \cap T = {}
<1> DEFINE U == {x \in nodes : Chain(x) \cap T # {}}
<1>1. U # {}
  BY ChainFacts
<1>2. PICK x \in U : parentId[x] \notin U
  BY <1>1, InvFacts
<1>3. CASE parentId[x] \in nodes
  <2>1. Chain(x) = {x} \cup Chain(parentId[x]) /\ Chain(parentId[x]) \cap T = {}
    BY <1>2, <1>3, ChainStep
  <2> QED BY <1>2, <2>1
<1>4. CASE parentId[x] \notin nodes
  <2>1. Chain(x) = {x}
    BY <1>4, ChainStep
  <2> QED BY <1>2, <2>1
<1> QED BY <1>3, <1>4

(* The choice that findClosestCommonAncestor makes can be made. *)
LEMMA ClosestFacts ==
  ASSUME TreeInv, NEW S \in SUBSET nodes, S # {}, \E a \in nodes \ S : \A n \in S : a \in Chain(n)
  PROVE  LET cca == ClosestCommonAncestor(S)
         IN  cca \in nodes \ S /\ \A n \in S : cca \in Chain(n)
<1> DEFINE common == {a \in nodes \ S : \A n \in S : IsAncestor(a, n)}
           L == {x \in nodes : common \subseteq Chain(x)}
<1>1. common # {}
  BY DEF IsAncestor
<1>2. L # {}
  BY DEF IsAncestor
<1>3. PICK x \in L : parentId[x] \notin L
  BY <1>2, InvFacts
<1>4. x \in common
  <2> SUFFICES ASSUME x \notin common PROVE FALSE
    OBVIOUS
  <2>1. parentId[x] \in nodes
    BY <1>1, <1>3, ChainStep
  <2>2. Chain(x) = {x} \cup Chain(parentId[x])
    BY <1>3, <2>1, ChainStep
  <2> QED BY <1>3, <2>1, <2>2
<1>5. ClosestCommonAncestor(S) \in common
  <2> HIDE DEF common
  <2>1. ClosestCommonAncestor(S) = CHOOSE a \in common : common \subseteq Chain(a)
    BY DEF ClosestCommonAncestor, common
  <2> QED BY <1>3, <1>4, <2>1
<1> QED BY <1>5 DEF IsAncestor

-----------------------------------------------------------------------------
(* The steps.                                                              *)

LEMMA TreeStarts == TreeInit => TreeInv
<1> SUFFICES ASSUME TreeInit PROVE TreeInv
  OBVIOUS
<1>1. TreeTypeOK
  BY PageTreeAssumption, EmptyFacts DEF TreeInit, TreeTypeOK
<1>2. ChildrenSound
  BY PageTreeAssumption, EmptyFacts DEF TreeInit, ChildrenSound
<1>3. ParentsSound
  BY PageTreeAssumption, EmptyFacts DEF TreeInit, ParentsSound
<1> QED BY <1>1, <1>2, <1>3 DEF TreeInit, TreeInv, TreeSound

LEMMA InsertNodeStep ==
  ASSUME TreeInv, NEW n \in Fresh, NEW p \in Shown, InsertNode(n, p)
  PROVE  TreeInv'
<1>1. n \in Ids \ nodes /\ p \in nodes /\ p \in Ids /\ n # p /\ children[n] = <<>>
  BY RootAbove, InvFacts DEF Fresh
<1>2. PICK i \in 0..Len(children[p]) : children' = [children EXCEPT ![p] = Spliced(children[p], i, <<n>>)]
  BY DEF InsertNode
<1> DEFINE list == Spliced(children[p], i, <<n>>)
<1>3. list \in Seq(Ids) /\ Range(list) = Range(children[p]) \cup {n} /\ IsInjective(list)
  <2>1. children[p] \in Seq(Ids) /\ IsInjective(children[p]) /\ n \notin Range(children[p])
    BY <1>1, InvFacts
  <2> QED BY <1>1, <1>2, <2>1, SplicedOne
<1> HIDE DEF list
<1>4. /\ nodes' = nodes \cup {n}
      /\ children' = [children EXCEPT ![p] = list]
      /\ parentId' = [parentId EXCEPT ![n] = p]
  BY <1>2 DEF InsertNode, list
<1>5. TreeTypeOK'
  BY <1>1, <1>3, <1>4 DEF TreeInv, TreeTypeOK
<1>6. /\ \A k \in nodes \ {p} : children'[k] = children[k]
      /\ children'[p] = list /\ children'[n] = <<>>
      /\ \A k \in nodes : parentId'[k] = parentId[k]
      /\ parentId'[n] = p
  BY <1>1, <1>4 DEF TreeInv, TreeTypeOK
<1>7. ChildrenSound'
  BY <1>1, <1>3, <1>4, <1>6, InvFacts, EmptyFacts DEF ChildrenSound
<1>8. ASSUME NEW S \in SUBSET nodes', S # {} PROVE \E x \in S : parentId'[x] \notin S
  <2>1. CASE S \cap nodes = {}
    BY <1>1, <1>4, <1>6, <1>8, <2>1
  <2>2. CASE S \cap nodes # {}
    <3>1. PICK x \in S \cap nodes : parentId[x] \notin S \cap nodes
      BY <2>2, InvFacts
    <3>2. parentId'[x] = parentId[x] /\ (parentId[x] \in nodes \/ parentId[x] = NoParent)
      BY <1>6, InvFacts
    <3>3. NoParent \notin S
      BY <1>1, <1>4, InvFacts
    <3> QED BY <3>1, <3>2, <3>3
  <2> QED BY <2>1, <2>2
<1>9. ASSUME NEW x \in nodes', parentId'[x] # NoParent
      PROVE  parentId'[x] \in nodes' /\ x \in Range(children'[parentId'[x]])
  <2>1. CASE x = n
    BY <1>1, <1>3, <1>4, <1>6, <2>1
  <2>2. CASE x \in nodes
    <3>1. parentId'[x] = parentId[x] /\ parentId[x] \in nodes /\ x \in Range(children[parentId[x]])
      BY <1>6, <1>9, <2>2, InvFacts
    <3> QED BY <1>3, <1>4, <1>6, <3>1
  <2> QED BY <1>4, <2>1, <2>2
<1>10. ParentsSound'
  BY <1>4, <1>6, <1>8, <1>9, InvFacts DEF ParentsSound
<1> QED BY <1>1, <1>4, <1>5, <1>7, <1>10 DEF TreeInv, TreeSound, TreeTypeOK

LEMMA PickFacts ==
  ASSUME NEW S, NEW sel \in Picks(S)
  PROVE  sel \in Seq(S) /\ sel # <<>> /\ Range(sel) \subseteq S /\ Range(sel) # {} /\ IsInjective(sel)
<1>1. PICK m \in 0..MaxSelection : sel \in [1..m -> S]
  BY DEF Picks, BoundedSeq, SeqOf
<1>2. m \in Nat /\ sel # <<>> /\ IsInjective(sel)
  BY PageTreeAssumption DEF Picks
<1>3. sel \in Seq(S) /\ Len(sel) = m /\ DOMAIN sel = 1..m /\ m # 0
  BY <1>1, <1>2
<1> QED BY <1>1, <1>2, <1>3 DEF Range

LEMMA InsertImportedNodesStep ==
  ASSUME TreeInv, NEW roots \in Picks(Fresh), NEW p \in Shown,
         NEW inner \in BoundedSeq(Fresh \ Range(roots), 1), InsertImportedNodes(roots, inner, p)
  PROVE  TreeInv'
<1> DEFINE first == roots[1]
<1>1. /\ roots \in Seq(Ids) /\ IsInjective(roots) /\ Range(roots) \subseteq Ids \ nodes
      /\ first \in Range(roots)
  <2>1. roots \in Seq(Fresh) /\ roots # <<>> /\ IsInjective(roots) /\ Range(roots) \subseteq Fresh
    BY PickFacts
  <2>2. 1 \in DOMAIN roots
    BY <2>1
  <2>3. first \in Range(roots)
    BY <2>2 DEF Range
  <2> QED BY <2>1, <2>3 DEF Fresh
<1>2. inner \in Seq(Ids) /\ IsInjective(inner) /\ Range(inner) \subseteq (Ids \ nodes) \ Range(roots)
  <2>1. PICK m \in 0..1 : inner \in [1..m -> Fresh \ Range(roots)]
    BY DEF BoundedSeq, SeqOf
  <2>2. inner \in Seq(Ids)
    BY <2>1 DEF Fresh
  <2>3. IsInjective(inner)
    BY <2>1 DEF IsInjective
  <2>4. Range(inner) \subseteq (Ids \ nodes) \ Range(roots)
    BY <2>1 DEF Range, Fresh
  <2> QED BY <2>2, <2>3, <2>4
<1>3. p \in nodes /\ p \in Ids
  BY RootAbove, InvFacts
<1>4. PICK i \in 0..Len(children[p]) :
        children' = [children EXCEPT ![p] = Spliced(children[p], i, roots), ![first] = inner]
  BY DEF InsertImportedNodes
<1> DEFINE list == Spliced(children[p], i, roots)
<1>5. list \in Seq(Ids) /\ Range(list) = Range(children[p]) \cup Range(roots) /\ IsInjective(list)
  <2>1. children[p] \in Seq(Ids) /\ IsInjective(children[p]) /\ Range(children[p]) \cap Range(roots) = {}
    BY <1>1, <1>3, InvFacts
  <2> QED BY <1>1, <1>4, <2>1, SplicedFacts
<1>6. /\ nodes' = nodes \cup Range(roots) \cup Range(inner)
      /\ children' = [children EXCEPT ![p] = list, ![first] = inner]
      /\ parentId' = ReindexNodeParents(children', nodes')
  BY <1>4 DEF InsertImportedNodes
<1> HIDE DEF list, first
<1>7. /\ nodes' \subseteq Ids /\ first \notin nodes /\ first # p
      /\ children' \in [Ids -> Seq(Ids)]
      /\ children'[p] = list /\ children'[first] = inner
      /\ \A k \in nodes \ {p} : children'[k] = children[k]
      /\ \A k \in (Ids \ nodes) \ {first} : children'[k] = <<>>
  BY <1>1, <1>2, <1>3, <1>5, <1>6 DEF TreeInv, TreeTypeOK
<1>8. ASSUME NEW k \in nodes', NEW x \in Range(children'[k])
      PROVE  /\ x \in nodes'
             /\ x \in nodes => k = parentId[x] /\ k \in nodes
             /\ x \in Range(roots) => k = p
             /\ x \in Range(inner) => k = first
  <2>1. CASE k = p
    BY <1>1, <1>2, <1>3, <1>5, <1>6, <1>7, <2>1, InvFacts
  <2>2. CASE k = first
    BY <1>1, <1>2, <1>6, <1>7, <2>2, InvFacts
  <2>3. CASE k \in nodes \ {p}
    <3>1. x \in Range(children[k])
      BY <1>7, <2>3
    <3> QED BY <1>1, <1>2, <1>6, <2>3, <3>1, InvFacts
  <2>4. CASE k \notin nodes /\ k # first
    BY <1>7, <2>4, EmptyFacts
  <2> QED BY <1>3, <2>1, <2>2, <2>3, <2>4
<1>9. ASSUME NEW x \in nodes'
      PROVE  /\ x \in nodes /\ parentId[x] # NoParent => x \in Range(children'[parentId[x]]) /\ parentId[x] \in nodes'
             /\ x \in Range(roots) => x \in Range(children'[p])
             /\ x \in Range(inner) => x \in Range(children'[first])
  <2>1. ASSUME x \in nodes, parentId[x] # NoParent PROVE x \in Range(children'[parentId[x]]) /\ parentId[x] \in nodes'
    <3>1. parentId[x] \in nodes /\ x \in Range(children[parentId[x]])
      BY <2>1, InvFacts
    <3> QED BY <1>5, <1>6, <1>7, <3>1
  <2> QED BY <1>5, <1>7, <2>1
<1>10. ASSUME NEW x \in Ids
       PROVE  parentId'[x] = IF \E k \in nodes' : x \in nodes' \cap Range(children'[k])
                             THEN CHOOSE k \in nodes' : x \in Range(children'[k]) ELSE NoParent
  BY <1>6 DEF ReindexNodeParents
<1>11. ASSUME NEW x \in nodes', NEW k \in nodes', x \in Range(children'[k])
       PROVE  parentId'[x] = k
  <2>1. parentId'[x] = CHOOSE l \in nodes' : x \in Range(children'[l])
    BY <1>7, <1>10, <1>11
  <2>2. parentId'[x] \in nodes' /\ x \in Range(children'[parentId'[x]])
    BY <1>11, <2>1
  <2> QED BY <1>6, <1>8, <1>11, <2>2
<1>12. ASSUME NEW x \in nodes', parentId'[x] # NoParent
       PROVE  parentId'[x] \in nodes' /\ x \in Range(children'[parentId'[x]])
  <2>1. PICK k \in nodes' : x \in Range(children'[k])
    BY <1>7, <1>10, <1>12
  <2> QED BY <1>11, <2>1
<1>13. ASSUME NEW x \in nodes PROVE parentId'[x] = parentId[x]
  <2>1. x \in nodes'
    BY <1>6
  <2>2. CASE parentId[x] # NoParent
    BY <1>9, <1>11, <2>1, <2>2
  <2>3. CASE parentId[x] = NoParent
    <3>1. \A k \in nodes' : x \notin Range(children'[k])
      BY <1>8, <2>3, InvFacts
    <3> QED BY <1>7, <1>10, <2>1, <2>3, <3>1
  <2> QED BY <2>2, <2>3
<1>14. \A x \in Ids : parentId'[x] \in Ids \cup {NoParent}
  <2> SUFFICES ASSUME NEW x \in Ids, parentId'[x] # NoParent PROVE parentId'[x] \in Ids
    OBVIOUS
  <2>1. x \in nodes'
    BY <1>10
  <2> QED BY <1>7, <1>12, <2>1
<1>15. TreeTypeOK'
  <2>1. parentId' = [x \in Ids |-> parentId'[x]]
    BY <1>6 DEF ReindexNodeParents
  <2>2. parentId' \in [Ids -> Ids \cup {NoParent}]
    BY <1>14, <2>1
  <2> QED BY <1>7, <2>2 DEF TreeTypeOK
<1>16. \A k \in nodes' : IsInjective(children'[k])
  BY <1>1, <1>2, <1>3, <1>5, <1>6, <1>7, InvFacts, EmptyFacts
<1>17. ChildrenSound'
  BY <1>8, <1>11, <1>16 DEF ChildrenSound
<1>18. ASSUME NEW S \in SUBSET nodes', S # {} PROVE \E x \in S : parentId'[x] \notin S
  <2>1. CASE S \cap nodes # {}
    <3>1. PICK x \in S \cap nodes : parentId[x] \notin S \cap nodes
      BY <2>1, InvFacts
    <3>2. parentId'[x] = parentId[x] /\ (parentId[x] \in nodes \/ parentId[x] = NoParent) /\ NoParent \notin S
      BY <1>7, <1>13, InvFacts
    <3> QED BY <3>1, <3>2
  <2>2. CASE S \cap nodes = {} /\ S \cap Range(roots) # {}
    <3>1. PICK x \in S : x \in Range(roots)
      BY <2>2
    <3>2. parentId'[x] = p
      BY <1>3, <1>6, <1>9, <1>11, <3>1
    <3> QED BY <1>3, <2>2, <3>2
  <2>3. CASE S \cap nodes = {} /\ S \cap Range(roots) = {}
    <3>1. PICK x \in S : x \in Range(inner)
      BY <1>6, <1>18, <2>3
    <3>2. parentId'[x] = first
      BY <1>1, <1>6, <1>9, <1>11, <3>1
    <3> QED BY <1>1, <2>3, <3>2
  <2> QED BY <2>1, <2>2, <2>3
<1>19. ParentsSound'
  <2>1. Root \in nodes' /\ parentId'[Root] = NoParent
    BY <1>6, <1>13, InvFacts
  <2> QED BY <1>12, <1>18, <2>1 DEF ParentsSound
<1>20. \A k \in Ids \ nodes' : children'[k] = <<>>
  BY <1>1, <1>6, <1>7
<1> QED BY <1>15, <1>17, <1>19, <1>20 DEF TreeInv, TreeSound

LEMMA WithoutFacts ==
  ASSUME NEW X, NEW s \in Seq(X), NEW S
  PROVE  /\ Without(s, S) \in Seq(X)
         /\ Range(Without(s, S)) = Range(s) \ S
         /\ IsInjective(s) => IsInjective(Without(s, S))
         /\ s = <<>> => Without(s, S) = <<>>
<1>1. /\ Without(s, S) \in Seq(X)
      /\ Range(Without(s, S)) = Range(s) \ S
      /\ IsInjective(s) => IsInjective(Without(s, S))
  BY KeptFacts DEF Without
<1>2. ASSUME s = <<>> PROVE Without(s, S) = <<>>
  <2>1. Range(Without(s, S)) = {}
    BY <1>1, <1>2, EmptyFacts
  <2> DEFINE w == Without(s, S)
  <2>2. w \in Seq(X) /\ Range(w) = {}
    BY <1>1, <2>1
  <2> HIDE DEF w
  <2>3. DOMAIN w = 1..Len(w) /\ Len(w) \in Nat
    BY <2>2
  <2>4. Len(w) = 0
    <3>1. 1 \notin DOMAIN w
      BY <2>2 DEF Range
    <3> QED BY <2>3, <3>1
  <2>5. w = <<>>
    BY <2>2, <2>4
  <2> QED BY <2>5 DEF w
<1> QED BY <1>1, <1>2

LEMMA DeleteNodesStep ==
  ASSUME TreeInv, NEW sel \in Picks(Shown), DeleteNodes(sel)
  PROVE  TreeInv'
<1> DEFINE picked == Range(sel) \ {Root}
           gone == UNION {Subtree(n) : n \in picked}
           cut(n) == {m \in picked : parentId[m] = n}
<1>1. picked \subseteq nodes
  BY PickFacts, RootAbove
<1>2. /\ nodes' = nodes \ gone
      /\ children' = [n \in Ids |-> IF n \in gone THEN <<>> ELSE Without(children[n], cut(n))]
      /\ parentId' = [n \in Ids |-> IF n \in gone THEN NoParent ELSE parentId[n]]
  BY DEF DeleteNodes
<1>3. gone \subseteq nodes /\ picked \subseteq gone
  BY <1>1, SubtreeFacts
<1>4. \A k \in gone : Range(children[k]) \subseteq gone
  <2> SUFFICES ASSUME NEW n \in picked, NEW k \in Subtree(n), NEW c \in Range(children[k]) PROVE c \in Subtree(n)
    OBVIOUS
  <2>1. k \in nodes /\ c \in nodes
    BY <1>1, SubtreeFacts, InvFacts
  <2> QED BY <1>1, <2>1, SubtreeFacts
<1>5. Root \notin gone
  <2> SUFFICES ASSUME NEW n \in picked PROVE Root \notin Subtree(n)
    OBVIOUS
  <2> DEFINE S == nodes \ {Root}
  <2>1. \A k \in S : Range(children[k]) \cap nodes \subseteq S
    BY InvFacts
  <2>2. S \in SUBSET nodes /\ n \in S
    BY <1>1
  <2>3. Subtree(n) \subseteq S
    BY <1>1, <2>1, <2>2, SubtreeFacts
  <2> QED BY <2>3
<1>6. ASSUME NEW c \in gone, c \notin picked PROVE parentId[c] \in gone
  <2>1. PICK n \in picked : c \in Subtree(n)
    OBVIOUS
  <2>2. PICK q \in Subtree(n) : c \in Range(children[q])
    BY <1>1, <1>6, <2>1, ListedBelow
  <2>3. q \in gone /\ q \in nodes
    BY <1>3, <2>2
  <2> QED BY <2>2, <2>3, InvFacts
<1> HIDE DEF gone, picked, cut
<1>7. ASSUME NEW n \in Ids \ gone
      PROVE  /\ children'[n] \in Seq(Ids)
             /\ children'[n] = Without(children[n], cut(n))
             /\ Range(children'[n]) = Range(children[n]) \ cut(n)
             /\ IsInjective(children[n]) => IsInjective(children'[n])
             /\ parentId'[n] = parentId[n]
  <2>1. children[n] \in Seq(Ids) /\ children'[n] = Without(children[n], cut(n)) /\ parentId'[n] = parentId[n]
    BY <1>2, InvFacts
  <2> QED BY <2>1, WithoutFacts
<1>8. TreeTypeOK'
  <2>1. \A n \in gone : children'[n] = <<>> /\ parentId'[n] = NoParent
    BY <1>2, <1>3, InvFacts
  <2>2. children' \in [Ids -> Seq(Ids)]
    BY <1>2, <1>7, <2>1, EmptyFacts
  <2>3. parentId' \in [Ids -> Ids \cup {NoParent}]
    BY <1>2, InvFacts
  <2>4. nodes' \subseteq Ids
    BY <1>2, InvFacts
  <2> QED BY <2>2, <2>3, <2>4 DEF TreeTypeOK
<1>9. ASSUME NEW n \in nodes', NEW c \in Range(children'[n])
      PROVE  c \in nodes' /\ parentId'[c] = n
  <2>1. n \in nodes /\ n \notin gone /\ n \in Ids
    BY <1>2, InvFacts
  <2>2. c \in Range(children[n]) /\ c \notin cut(n)
    BY <1>7, <2>1
  <2>3. c \in nodes /\ c \in Ids /\ parentId[c] = n
    BY <2>1, <2>2, InvFacts
  <2>4. c \notin gone
    BY <1>6, <2>1, <2>2, <2>3 DEF cut
  <2> QED BY <1>2, <1>7, <2>3, <2>4
<1>10. ASSUME NEW n \in nodes' PROVE IsInjective(children'[n])
  <2>1. n \in nodes /\ n \notin gone /\ n \in Ids
    BY <1>2, InvFacts
  <2> QED BY <1>7, <2>1, InvFacts
<1>11. ASSUME NEW n \in nodes', parentId'[n] # NoParent
       PROVE  parentId'[n] \in nodes' /\ n \in Range(children'[parentId'[n]])
  <2>1. n \in nodes /\ n \notin gone /\ n \in Ids /\ n \notin picked
    BY <1>2, <1>3, InvFacts
  <2>2. parentId'[n] = parentId[n]
    BY <1>7, <2>1
  <2>3. parentId[n] \in nodes /\ parentId[n] \in Ids /\ n \in Range(children[parentId[n]])
    BY <1>11, <2>1, <2>2, InvFacts
  <2>4. parentId[n] \notin gone
    BY <1>4, <2>1, <2>3
  <2>5. n \notin cut(parentId[n])
    BY <2>1 DEF cut
  <2> QED BY <1>2, <1>7, <2>2, <2>3, <2>4, <2>5
<1>12. ASSUME NEW S \in SUBSET nodes', S # {} PROVE \E x \in S : parentId'[x] \notin S
  <2>1. S \in SUBSET nodes /\ S \subseteq Ids \ gone
    BY <1>2, InvFacts
  <2>2. PICK x \in S : parentId[x] \notin S
    BY <1>12, <2>1, InvFacts
  <2> QED BY <1>7, <2>1, <2>2
<1>13. Root \in nodes' /\ parentId'[Root] = NoParent
  BY <1>2, <1>5, <1>7, InvFacts
<1>14. ASSUME NEW n \in Ids \ nodes' PROVE children'[n] = <<>>
  <2>1. CASE n \in gone
    BY <1>2, <2>1
  <2>2. CASE n \notin gone
    <3>1. children[n] = <<>> /\ children[n] \in Seq(Ids)
      BY <1>2, <2>2, InvFacts
    <3>2. Without(children[n], cut(n)) = <<>>
      BY <3>1, WithoutFacts
    <3> QED BY <1>7, <2>2, <3>2
  <2> QED BY <2>1, <2>2
<1>15. ChildrenSound' /\ ParentsSound'
  BY <1>9, <1>10, <1>11, <1>12, <1>13 DEF ChildrenSound, ParentsSound
<1> QED BY <1>8, <1>14, <1>15 DEF TreeInv, TreeSound

LEMMA MoveNodesStep ==
  ASSUME TreeInv, NEW sel \in Picks(Shown), NEW p \in Shown, MoveNodes(sel, p)
  PROVE  TreeInv'
<1> DEFINE top == TopLevel(sel)
           T == Range(top)
           cut(n) == {m \in T : parentId[m] = n}
           left == Detached(top)
<1>1. /\ top \in Seq(Ids) /\ IsInjective(top) /\ T \subseteq Range(sel)
      /\ Root \notin Range(sel) /\ Range(sel) \subseteq nodes
  <2>1. sel \in Seq(Shown) /\ IsInjective(sel) /\ Range(sel) \subseteq Shown
    BY PickFacts
  <2>2. Shown \subseteq nodes /\ Shown \subseteq Ids
    BY RootAbove, InvFacts
  <2>3. sel \in Seq(Ids)
    BY <2>1, <2>2
  <2>4. top \in Seq(Ids) /\ T \subseteq Range(sel) /\ IsInjective(top)
    BY <2>1, <2>3, KeptFacts DEF TopLevel
  <2> QED BY <2>1, <2>2, <2>4 DEF MoveNodes
<1>2. p \in nodes /\ p \in Ids /\ T \subseteq nodes /\ Root \notin T
  BY <1>1, RootAbove, InvFacts
<1>3. T \cap Chain(p) = {}
  BY DEF MoveNodes, IsAncestor
<1>4. PICK i \in 0..Len(left[p]) : children' = [left EXCEPT ![p] = Spliced(left[p], i, top)]
  BY DEF MoveNodes
<1>5. /\ nodes' = nodes
      /\ parentId' = [n \in Ids |-> IF n \in T THEN p ELSE parentId[n]]
  BY DEF MoveNodes
<1>6. left = [n \in Ids |-> Without(children[n], cut(n))]
  BY DEF Detached
<1> DEFINE list == Spliced(left[p], i, top)
<1> HIDE DEF left, cut, T, top
<1>7. ASSUME NEW n \in Ids
      PROVE  /\ left[n] \in Seq(Ids)
             /\ Range(left[n]) = Range(children[n]) \ cut(n)
             /\ IsInjective(children[n]) => IsInjective(left[n])
             /\ children[n] = <<>> => left[n] = <<>>
  <2>1. children[n] \in Seq(Ids) /\ left[n] = Without(children[n], cut(n))
    BY <1>6, InvFacts
  <2> QED BY <2>1, WithoutFacts
<1>8. ASSUME NEW n \in nodes
      PROVE  IsInjective(left[n]) /\ Range(left[n]) = Range(children[n]) \ T
  <2>1. n \in Ids /\ IsInjective(children[n]) /\ \A c \in Range(children[n]) : parentId[c] = n
    BY InvFacts
  <2> QED BY <1>7, <2>1 DEF cut
<1>9. list \in Seq(Ids) /\ Range(list) = (Range(children[p]) \ T) \cup T /\ IsInjective(list)
  <2>1. left[p] \in Seq(Ids) /\ IsInjective(left[p]) /\ Range(left[p]) = Range(children[p]) \ T
    BY <1>2, <1>7, <1>8
  <2>2. Range(left[p]) \cap Range(top) = {}
    BY <2>1 DEF T
  <2>3. list \in Seq(Ids) /\ Range(list) = Range(left[p]) \cup Range(top) /\ IsInjective(list)
    <3>1. i \in 0..Len(left[p])
      BY <1>4
    <3> DEFINE s == left[p]
    <3>2. s \in Seq(Ids) /\ IsInjective(s) /\ Range(s) \cap Range(top) = {} /\ i \in 0..Len(s)
      BY <2>1, <2>2, <3>1
    <3>3. list = Spliced(s, i, top)
      OBVIOUS
    <3> HIDE DEF s, list
    <3>4. list \in Seq(Ids) /\ Range(list) = Range(s) \cup Range(top) /\ IsInjective(list)
      BY <1>1, <3>2, <3>3, SplicedFacts
    <3> QED BY <3>4 DEF s
  <2> QED BY <2>1, <2>3 DEF T
<1> HIDE DEF list
<1>10. children' = [left EXCEPT ![p] = list]
  BY <1>4 DEF list
<1>11. /\ children'[p] = list /\ \A n \in Ids \ {p} : children'[n] = left[n]
       /\ \A n \in T : parentId'[n] = p
       /\ \A n \in Ids \ T : parentId'[n] = parentId[n]
  BY <1>2, <1>5, <1>6, <1>10, InvFacts
<1>12. TreeTypeOK'
  <2>1. left \in [Ids -> Seq(Ids)]
    BY <1>6, <1>7
  <2>2. children' \in [Ids -> Seq(Ids)]
    BY <1>9, <1>10, <2>1
  <2>3. parentId' \in [Ids -> Ids \cup {NoParent}]
    BY <1>2, <1>5, InvFacts
  <2> QED BY <1>5, <2>2, <2>3, InvFacts DEF TreeTypeOK
<1>13. ASSUME NEW n \in nodes'
       PROVE  IsInjective(children'[n]) /\ \A c \in Range(children'[n]) : c \in nodes' /\ parentId'[c] = n
  <2>1. n \in nodes /\ n \in Ids
    BY <1>5, InvFacts
  <2>2. \A c \in Range(children[n]) : c \in nodes /\ c \in Ids /\ parentId[c] = n
    BY <2>1, InvFacts
  <2>3. CASE n = p
    BY <1>2, <1>5, <1>9, <1>11, <2>2, <2>3
  <2>4. CASE n # p
    BY <1>5, <1>8, <1>11, <2>1, <2>2, <2>4
  <2> QED BY <2>3, <2>4
<1>14. ASSUME NEW n \in nodes', parentId'[n] # NoParent
       PROVE  parentId'[n] \in nodes' /\ n \in Range(children'[parentId'[n]])
  <2>1. n \in nodes /\ n \in Ids
    BY <1>5, InvFacts
  <2>2. CASE n \in T
    BY <1>2, <1>5, <1>9, <1>11, <2>2
  <2>3. CASE n \notin T
    <3>1. parentId'[n] = parentId[n]
      BY <1>11, <2>1, <2>3
    <3>2. parentId[n] \in nodes /\ parentId[n] \in Ids /\ n \in Range(children[parentId[n]])
      BY <1>14, <2>1, <3>1, InvFacts
    <3>3. n \in Range(children'[parentId[n]])
      BY <1>8, <1>9, <1>11, <2>3, <3>2
    <3> QED BY <1>5, <3>1, <3>2, <3>3
  <2> QED BY <2>2, <2>3
<1>15. ASSUME NEW S \in SUBSET nodes', S # {} PROVE \E x \in S : parentId'[x] \notin S
  <2>1. S \in SUBSET nodes /\ S \subseteq Ids
    BY <1>5, InvFacts
  <2>2. CASE S \cap Chain(p) # {}
    <3>1. S \cap Chain(p) \in SUBSET nodes
      BY <2>1
    <3>2. PICK x \in S \cap Chain(p) : parentId[x] \notin S \cap Chain(p)
      BY <2>2, <3>1, InvFacts
    <3>3. parentId[x] \notin S
      BY <1>2, <2>1, <3>2, ChainFacts
    <3>4. parentId'[x] = parentId[x]
      BY <1>3, <1>11, <2>1, <3>2
    <3> QED BY <3>2, <3>3, <3>4
  <2>3. CASE S \cap Chain(p) = {}
    <3>1. p \notin S
      BY <1>2, <2>3, ChainFacts
    <3>2. PICK x \in S : parentId[x] \notin S
      BY <1>15, <2>1, InvFacts
    <3> QED BY <1>11, <2>1, <3>1, <3>2
  <2> QED BY <2>2, <2>3
<1>16. Root \in nodes' /\ parentId'[Root] = NoParent
  BY <1>2, <1>5, <1>11, InvFacts
<1>17. ASSUME NEW n \in Ids \ nodes' PROVE children'[n] = <<>>
  <2>1. n \in Ids \ nodes /\ n # p
    BY <1>2, <1>5
  <2> QED BY <1>7, <1>11, <2>1, InvFacts
<1>18. ChildrenSound' /\ ParentsSound'
  BY <1>13, <1>14, <1>15, <1>16 DEF ChildrenSound, ParentsSound
<1> QED BY <1>12, <1>17, <1>18 DEF TreeInv, TreeSound

(* A new node in the place of some children of a node, and above them *)
LEMMA WrappedStep ==
  ASSUME TreeInv, NEW q \in nodes, NEW B \in SUBSET Range(children[q]), NEW w \in Ids \ nodes,
         NEW list \in Seq(Ids), Range(list) = (Range(children[q]) \ B) \cup {w}, IsInjective(list),
         NEW inner \in Seq(Ids), Range(inner) = B, IsInjective(inner),
         nodes' = nodes \cup {w},
         children' = [children EXCEPT ![q] = list, ![w] = inner],
         parentId' \in [Ids -> Ids \cup {NoParent}],
         parentId'[w] = q,
         \A n \in B : parentId'[n] = w,
         \A n \in (Ids \ B) \ {w} : parentId'[n] = parentId[n]
  PROVE  TreeInv'
<1>1. q \in Ids /\ q # w /\ B \subseteq nodes /\ \A n \in B : parentId[n] = q
  BY InvFacts
<1>2. nodes \subseteq Ids /\ nodes' \subseteq Ids /\ NoParent \notin nodes'
  BY InvFacts
<1>3. /\ children' \in [Ids -> Seq(Ids)]
      /\ children'[q] = list /\ children'[w] = inner
      /\ \A n \in (Ids \ {q}) \ {w} : children'[n] = children[n]
  BY <1>1 DEF TreeInv, TreeTypeOK
<1>4. ASSUME NEW n \in nodes'
      PROVE  IsInjective(children'[n]) /\ \A c \in Range(children'[n]) : c \in nodes' /\ parentId'[c] = n
  <2>1. CASE n = w
    BY <1>1, <1>3, <2>1
  <2>2. CASE n = q
    <3>1. \A c \in Range(children[q]) \ B : c \in nodes /\ c \in (Ids \ B) \ {w} /\ parentId[c] = q
      BY <1>2, InvFacts
    <3>2. children'[n] = list /\ IsInjective(list)
      BY <1>3, <2>2
    <3>3. ASSUME NEW c \in Range(list) PROVE c \in nodes' /\ parentId'[c] = n
      <4>1. CASE c = w
        BY <2>2, <4>1
      <4>2. CASE c # w
        <5>1. c \in Range(children[q]) \ B
          BY <3>3, <4>2
        <5> QED BY <2>2, <3>1, <5>1
      <4> QED BY <4>1, <4>2
    <3> QED BY <3>2, <3>3
  <2>3. CASE n \in nodes /\ n # q
    <3>1. n \in (Ids \ {q}) \ {w} /\ children'[n] = children[n] /\ IsInjective(children[n])
      BY <1>2, <1>3, <2>3, InvFacts
    <3>2. \A c \in Range(children[n]) : c \in nodes /\ parentId[c] = n /\ c \in (Ids \ B) \ {w}
      BY <1>1, <1>2, <2>3, InvFacts
    <3> QED BY <3>1, <3>2
  <2> QED BY <2>1, <2>2, <2>3
<1>5. ASSUME NEW n \in nodes', parentId'[n] # NoParent
      PROVE  parentId'[n] \in nodes' /\ n \in Range(children'[parentId'[n]])
  <2>1. CASE n = w
    BY <1>3, <2>1
  <2>2. CASE n \in B
    BY <1>3, <2>2
  <2>3. CASE n \in nodes /\ n \notin B
    <3>1. parentId'[n] = parentId[n]
      BY <1>2, <2>3
    <3>2. parentId[n] \in nodes /\ n \in Range(children[parentId[n]])
      BY <1>5, <2>3, <3>1, InvFacts
    <3>3. n \in Range(children'[parentId[n]])
      BY <1>2, <1>3, <2>3, <3>2
    <3> QED BY <3>1, <3>2, <3>3
  <2> QED BY <2>1, <2>2, <2>3
<1>6. ASSUME NEW S \in SUBSET nodes', S # {} PROVE \E x \in S : parentId'[x] \notin S
  <2>1. CASE S \cap nodes = {}
    BY <1>6, <2>1
  <2>2. CASE S \cap nodes # {}
    <3>1. PICK x \in S \cap nodes : parentId[x] \notin S \cap nodes
      BY <2>2, InvFacts
    <3>2. CASE x \in B
      <4>1. parentId'[x] = w /\ parentId'[w] = q /\ q \notin S
        BY <1>1, <3>1, <3>2
      <4> QED BY <3>1, <4>1
    <3>3. CASE x \notin B
      <4>1. parentId'[x] = parentId[x] /\ (parentId[x] \in nodes \/ parentId[x] = NoParent)
        BY <1>2, <3>1, <3>3, InvFacts
      <4> QED BY <1>2, <3>1, <4>1
    <3> QED BY <3>2, <3>3
  <2> QED BY <2>1, <2>2
<1>7. Root \in nodes' /\ parentId'[Root] = NoParent
  <2>1. Root \in nodes /\ Root \notin B
    BY <1>1, <1>2, InvFacts
  <2> QED BY <1>2, <2>1, InvFacts
<1>8. \A n \in Ids \ nodes' : children'[n] = <<>>
  BY <1>3, InvFacts
<1>9. TreeTypeOK'
  BY <1>2, <1>3 DEF TreeTypeOK
<1>10. ChildrenSound' /\ ParentsSound'
  BY <1>4, <1>5, <1>6, <1>7 DEF ChildrenSound, ParentsSound
<1> QED BY <1>8, <1>9, <1>10 DEF TreeInv, TreeSound

LEMMA ReplacedFacts ==
  ASSUME NEW X, NEW s \in Seq(X), IsInjective(s), NEW c \in Range(s), NEW w \in X \ Range(s)
  PROVE  LET r == [s EXCEPT ![Index(s, c)] = w]
         IN  r \in Seq(X) /\ Range(r) = (Range(s) \ {c}) \cup {w} /\ IsInjective(r)
<1> DEFINE i == Index(s, c)
           r == [s EXCEPT ![i] = w]
<1>1. i \in DOMAIN s /\ s[i] = c /\ DOMAIN s = 1..Len(s)
  BY IndexFacts
<1> HIDE DEF i
<1>2. r \in Seq(X) /\ DOMAIN r = DOMAIN s /\ r[i] = w /\ \A k \in DOMAIN s \ {i} : r[k] = s[k]
  BY <1>1
<1> HIDE DEF r
<1>3. \A k \in DOMAIN s \ {i} : s[k] # c
  BY <1>1 DEF IsInjective
<1>4. IsInjective(r)
  BY <1>1, <1>2 DEF IsInjective, Range
<1>5. Range(r) = (Range(s) \ {c}) \cup {w}
  BY <1>1, <1>2, <1>3 DEF Range
<1> QED BY <1>2, <1>4, <1>5 DEF r, i

LEMMA WrapNodeStep ==
  ASSUME TreeInv, NEW n \in Shown, NEW w \in Fresh, WrapNode(n, w)
  PROVE  TreeInv'
<1> DEFINE p == parentId[n]
           list == [children[p] EXCEPT ![Index(children[p], n)] = w]
           inner == <<n>>
<1>1. n \in nodes /\ n \in Ids /\ w \in Ids \ nodes /\ p \in nodes /\ p \in Ids /\ n \in Range(children[p])
  BY RootAbove, InvFacts DEF WrapNode, Fresh
<1>2. list \in Seq(Ids) /\ Range(list) = (Range(children[p]) \ {n}) \cup {w} /\ IsInjective(list)
  <2>1. children[p] \in Seq(Ids) /\ IsInjective(children[p]) /\ w \in Ids \ Range(children[p])
    BY <1>1, InvFacts
  <2> QED BY <1>1, <2>1, ReplacedFacts
<1>3. inner \in Seq(Ids) /\ Range(inner) = {n} /\ IsInjective(inner)
  BY <1>1, OneFacts
<1>4. /\ nodes' = nodes \cup {w}
      /\ children' = [children EXCEPT ![p] = list, ![w] = inner]
      /\ parentId' = [parentId EXCEPT ![n] = w, ![w] = p]
  BY DEF WrapNode
<1>5. /\ parentId' \in [Ids -> Ids \cup {NoParent}]
      /\ parentId'[w] = p /\ parentId'[n] = w
      /\ \A k \in (Ids \ {n}) \ {w} : parentId'[k] = parentId[k]
  BY <1>1, <1>4 DEF TreeInv, TreeTypeOK
<1> HIDE DEF p, list, inner
<1> DEFINE B == {n}
<1>6. /\ B \in SUBSET Range(children[p]) /\ Range(list) = (Range(children[p]) \ B) \cup {w} /\ Range(inner) = B
      /\ \A k \in B : parentId'[k] = w
      /\ \A k \in (Ids \ B) \ {w} : parentId'[k] = parentId[k]
  BY <1>1, <1>2, <1>3, <1>5
<1>7. nodes' = nodes \cup {w} /\ children' = [children EXCEPT ![p] = list, ![w] = inner]
  BY <1>4
<1>8. parentId' \in [Ids -> Ids \cup {NoParent}] /\ parentId'[w] = p
  BY <1>5
<1>9. list \in Seq(Ids) /\ IsInjective(list) /\ inner \in Seq(Ids) /\ IsInjective(inner) /\ p \in nodes /\ w \in Ids \ nodes
  BY <1>1, <1>2, <1>3
<1> HIDE DEF B
<1> QED BY <1>6, <1>7, <1>8, <1>9, WrappedStep

(* The selection has a top, something is above all of the top, and each of *)
(* the top is at or below a child of that.                                 *)
WrapFinds(sel) ==
    LET top == Range(TopLevel(sel))
        cca == ClosestCommonAncestor(top)
    IN /\ top # {} /\ top \subseteq nodes /\ cca \in nodes \ top
       /\ \A n \in top : \E b \in Chain(n) : parentId[b] = cca
       /\ \A n \in top : \A b \in Chain(n) : parentId[b] = cca => b \in Range(children[cca])

LEMMA WrapNodesFinds ==
  ASSUME TreeInv, NEW sel \in Picks(Shown), Root \notin Range(sel)
  PROVE  WrapFinds(sel)
<1> DEFINE tops == {n \in Range(sel) : (Chain(n) \ {n}) \cap Range(sel) = {}}
           top == Range(TopLevel(sel))
           cca == ClosestCommonAncestor(top)
<1>1. Range(sel) \in SUBSET nodes /\ Range(sel) # {} /\ \A n \in Range(sel) : Root \in Chain(n)
  BY PickFacts, RootAbove
<1>2. top = tops
  <2>1. top = Range(sel) \cap tops
    BY PickFacts, KeptFacts DEF TopLevel
  <2> QED BY <2>1
<1>3. tops # {}
  BY <1>1, TopExists
<1>4. top \in SUBSET nodes /\ top # {} /\ Root \in nodes \ top /\ \A n \in top : Root \in Chain(n)
  BY <1>1, <1>2, <1>3, InvFacts
<1> HIDE DEF top
<1>5. cca \in nodes \ top /\ \A n \in top : cca \in Chain(n)
  BY <1>4, ClosestFacts
<1> HIDE DEF cca
<1>6. ASSUME NEW n \in top PROVE \E b \in Chain(n) : parentId[b] = cca
  <2>1. n \in nodes /\ cca \in Chain(n) /\ cca # n
    BY <1>4, <1>5
  <2> QED BY <2>1, ParentAbove
<1>7. ASSUME NEW n \in top, NEW b \in Chain(n), parentId[b] = cca PROVE b \in Range(children[cca])
  <2>1. b \in nodes
    BY <1>4, ChainFacts
  <2>2. cca # NoParent
    BY <1>5, InvFacts
  <2> QED BY <1>7, <2>1, <2>2, InvFacts
<1> QED BY <1>4, <1>5, <1>6, <1>7 DEF WrapFinds, top, cca

LEMMA WrapNodesStep ==
  ASSUME TreeInv, NEW sel \in Picks(Shown), NEW w \in Fresh, WrapNodes(sel, w)
  PROVE  TreeInv'
<1> DEFINE top == Range(TopLevel(sel))
           cca == ClosestCommonAncestor(top)
           branches == {b \in UNION {Chain(n) : n \in top} : parentId[b] = cca}
           inner == Kept(children[cca], branches)
           rest == Without(children[cca], branches)
           i == Index(children[cca], inner[1]) - 1
           list == Spliced(rest, i, <<w>>)
<1>1. /\ cca \in nodes /\ branches # {} /\ branches \subseteq Range(children[cca])
      /\ w \in Ids \ nodes
  <2>1. WrapFinds(sel)
    BY WrapNodesFinds DEF WrapNodes
  <2> QED BY <2>1 DEF WrapFinds, Fresh
<1>2. /\ nodes' = nodes \cup {w}
      /\ children' = [children EXCEPT ![cca] = list, ![w] = inner]
      /\ parentId' = [n \in Ids |-> IF n = w THEN cca ELSE IF n \in Range(inner) THEN w ELSE parentId[n]]
  BY DEF WrapNodes
<1> HIDE DEF top, cca, branches
<1>3. children[cca] \in Seq(Ids) /\ IsInjective(children[cca]) /\ cca \in Ids /\ w \notin Range(children[cca])
  BY <1>1, InvFacts
<1>4. inner \in Seq(Ids) /\ IsInjective(inner) /\ Range(inner) = branches
  <2>1. inner \in Seq(Ids) /\ IsInjective(inner) /\ Range(inner) = Range(children[cca]) \cap branches
    BY <1>3, KeptFacts
  <2> HIDE DEF inner
  <2> QED BY <1>1, <2>1
<1>5. rest \in Seq(Ids) /\ IsInjective(rest) /\ Range(rest) = Range(children[cca]) \ branches
  BY <1>3, WithoutFacts
<1>6. i \in 0..Len(rest)
  BY <1>1, <1>3, FirstKept
<1> HIDE DEF i, rest, inner
<1>7. list \in Seq(Ids) /\ IsInjective(list) /\ Range(list) = (Range(children[cca]) \ branches) \cup {w}
  BY <1>1, <1>3, <1>5, <1>6, SplicedOne
<1> HIDE DEF list
<1>8. /\ parentId' \in [Ids -> Ids \cup {NoParent}]
      /\ parentId'[w] = cca
      /\ \A n \in branches : parentId'[n] = w
      /\ \A n \in (Ids \ branches) \ {w} : parentId'[n] = parentId[n]
  <2>1. branches \subseteq nodes /\ branches \subseteq Ids
    BY <1>1, InvFacts
  <2> QED BY <1>1, <1>2, <1>3, <1>4, <2>1, InvFacts
<1> QED BY <1>1, <1>2, <1>4, <1>7, <1>8, WrappedStep

(* No node is below itself. *)
LEMMA NotBelow ==
  ASSUME TreeInv, NEW n \in nodes
  PROVE  parentId[n] \notin Subtree(n)
<1> SUFFICES ASSUME parentId[n] \in Subtree(n) PROVE FALSE
  OBVIOUS
<1>1. ASSUME NEW x \in Subtree(n) PROVE parentId[x] \in Subtree(n)
  <2>1. CASE x # n
    <3>1. PICK q \in Subtree(n) : x \in Range(children[q])
      BY <2>1, ListedBelow
    <3> QED BY <3>1, SubtreeFacts, InvFacts
  <2> QED BY <2>1
<1>2. Subtree(n) \in SUBSET nodes /\ Subtree(n) # {}
  BY SubtreeFacts
<1> QED BY <1>1, <1>2, InvFacts

LEMMA CloneStep ==
  ASSUME TreeInv, NEW n \in nodes, NEW f \in IdMaps(Subtree(n)), NEW p \in Ids \cup {NoParent}, NEW i,
         p # NoParent => p \in nodes /\ i \in 0..Len(children[p]),
         Clone(n, f, p, i)
  PROVE  TreeInv'
<1> DEFINE sub == Subtree(n)
           copies == Range(f)
           original(m) == CHOOSE o \in DOMAIN f : f[o] = m
           above(m) == CHOOSE o \in DOMAIN f : original(m) \in Range(children[o])
           copy(o) == [k \in DOMAIN children[o] |-> f[children[o][k]]]
           list == Spliced(children[p], i, <<f[n]>>)
<1>1. f \in [sub -> Ids \ nodes] /\ IsInjective(f) /\ DOMAIN f = sub
  BY DEF IdMaps, Fresh
<1>2. /\ sub \subseteq nodes /\ n \in sub
      /\ \A o \in sub : Range(children[o]) \subseteq sub
      /\ \A o \in sub \ {n} : \E q \in sub : o \in Range(children[q])
  <2>1. \A o \in sub : Range(children[o]) \subseteq nodes
    BY SubtreeFacts, InvFacts
  <2> QED BY <2>1, SubtreeFacts, ListedBelow
<1>3. /\ nodes' = nodes \cup copies
      /\ children' = [m \in Ids |-> IF m \in copies THEN copy(original(m)) ELSE IF m = p THEN list ELSE children[m]]
      /\ parentId' = [m \in Ids |-> IF m = f[n] THEN p ELSE IF m \in copies THEN f[above(m)] ELSE parentId[m]]
  <2>1. children' = [m \in Ids |-> IF m \in copies THEN copy(original(m))
                                    ELSE IF m = p THEN Spliced(children[m], i, <<f[n]>>) ELSE children[m]]
    BY DEF Clone
  <2> QED BY <2>1 DEF Clone
<1>4. /\ copies \subseteq Ids \ nodes
      /\ \A o \in sub : f[o] \in copies /\ original(f[o]) = o
      /\ \A m \in copies : original(m) \in sub /\ f[original(m)] = m
  <2>1. copies \subseteq Ids \ nodes /\ \A o \in sub : f[o] \in copies
    BY <1>1 DEF Range
  <2>2. ASSUME NEW m \in copies PROVE original(m) \in sub /\ f[original(m)] = m
    <3>1. \E o \in DOMAIN f : f[o] = m
      BY DEF Range
    <3> QED BY <1>1, <3>1
  <2>3. ASSUME NEW o \in sub PROVE original(f[o]) = o
    <3>1. original(f[o]) \in sub /\ f[original(f[o])] = f[o]
      BY <2>1, <2>2
    <3> HIDE DEF original
    <3> QED BY <1>1, <3>1 DEF IsInjective
  <2> HIDE DEF original, sub, copies
  <2> QED BY <2>1, <2>2, <2>3
<1>5. ASSUME NEW o \in sub \ {n}
      PROVE  above(f[o]) = parentId[o] /\ parentId[o] \in sub
  <2>1. PICK q \in sub : o \in Range(children[q])
    BY <1>2
  <2>2. \A x \in sub : o \in Range(children[x]) => parentId[o] = x
    BY <1>2, InvFacts
  <2>3. q \in DOMAIN f /\ original(f[o]) \in Range(children[q])
    BY <1>1, <1>4, <2>1
  <2>4. above(f[o]) \in DOMAIN f /\ original(f[o]) \in Range(children[above(f[o])])
    <3> HIDE DEF original, sub
    <3> QED BY <2>3
  <2>5. above(f[o]) \in sub /\ o \in Range(children[above(f[o])])
    BY <1>1, <1>4, <2>4
  <2> HIDE DEF above, sub
  <2> QED BY <2>2, <2>5
<1> HIDE DEF original, above, copies, sub, copy, list
<1>6. f[n] \in copies /\ f[n] \in Ids \ nodes /\ p \notin copies
  BY <1>1, <1>2, <1>4, InvFacts
<1>7. p \in nodes => list \in Seq(Ids) /\ Range(list) = Range(children[p]) \cup {f[n]} /\ IsInjective(list)
  <2> SUFFICES ASSUME p \in nodes PROVE list \in Seq(Ids) /\ Range(list) = Range(children[p]) \cup {f[n]} /\ IsInjective(list)
    OBVIOUS
  <2>1. children[p] \in Seq(Ids) /\ IsInjective(children[p]) /\ f[n] \in Ids \ Range(children[p])
    BY <1>6, InvFacts
  <2>2. i \in 0..Len(children[p])
    BY InvFacts
  <2> QED BY <2>1, <2>2, SplicedOne DEF list
<1>8. ASSUME NEW o \in sub
      PROVE  copy(o) \in Seq(Ids) /\ Range(copy(o)) = {f[c] : c \in Range(children[o])} /\ IsInjective(copy(o))
  <2>1. children[o] \in Seq(Ids) /\ IsInjective(children[o]) /\ Range(children[o]) \subseteq sub
    BY <1>2, InvFacts
  <2> DEFINE s == children[o]
             r == copy(o)
  <2>2. s \in Seq(Ids) /\ IsInjective(s) /\ Range(s) \subseteq sub
    BY <2>1
  <2>3. r = [k \in DOMAIN s |-> f[s[k]]]
    BY DEF copy
  <2> HIDE DEF r, s
  <2>4. DOMAIN s = 1..Len(s) /\ Len(s) \in Nat /\ \A k \in DOMAIN s : s[k] \in sub /\ f[s[k]] \in Ids
    <3>1. DOMAIN s = 1..Len(s) /\ Len(s) \in Nat
      BY <2>2
    <3>2. \A k \in DOMAIN s : s[k] \in sub
      BY <2>2 DEF Range
    <3> QED BY <1>1, <3>1, <3>2
  <2>5. r \in Seq(Ids)
    <3>1. r \in [1..Len(s) -> Ids]
      BY <2>3, <2>4
    <3> QED BY <2>4, <3>1
  <2>6. DOMAIN r = DOMAIN s /\ \A k \in DOMAIN s : r[k] = f[s[k]]
    BY <2>3
  <2>7. IsInjective(r)
    <3> SUFFICES ASSUME NEW k \in DOMAIN s, NEW l \in DOMAIN s, r[k] = r[l] PROVE k = l
      BY <2>6 DEF IsInjective
    <3>1. s[k] = s[l]
      BY <1>1, <2>4, <2>6 DEF IsInjective
    <3> QED BY <2>2, <3>1 DEF IsInjective
  <2>8. Range(r) = {f[c] : c \in Range(s)}
    BY <2>6 DEF Range
  <2> QED BY <2>5, <2>7, <2>8 DEF r, s
<1>9. /\ \A o \in sub : f[o] \in Ids /\ children'[f[o]] = copy(o)
      /\ p \in nodes => children'[p] = list
      /\ \A m \in (Ids \ copies) \ {p} : children'[m] = children[m]
  <2>1. \A o \in sub : f[o] \in Ids
    BY <1>4
  <2>2. p \in nodes => p \in Ids
    BY InvFacts
  <2> QED BY <1>3, <1>4, <1>6, <2>1, <2>2
<1>10. /\ parentId'[f[n]] = p
       /\ \A o \in sub \ {n} : parentId'[f[o]] = f[parentId[o]] /\ f[parentId[o]] \in copies
       /\ \A m \in Ids \ copies : parentId'[m] = parentId[m]
  <2>1. \A o \in sub \ {n} : f[o] # f[n] /\ f[o] \in Ids
    BY <1>1, <1>2, <1>4 DEF IsInjective
  <2> QED BY <1>2, <1>3, <1>4, <1>5, <1>6, <2>1
<1>11. \A m \in nodes' : m \in nodes \/ \E o \in sub : m = f[o]
  BY <1>3, <1>4
<1>12. nodes \subseteq Ids \ copies /\ nodes' \subseteq Ids /\ NoParent \notin nodes' /\ sub \subseteq nodes
  BY <1>2, <1>3, <1>4, InvFacts
<1>13. TreeTypeOK'
  <2>1. \A m \in Ids : children'[m] \in Seq(Ids)
    <3> SUFFICES ASSUME NEW m \in Ids PROVE children'[m] \in Seq(Ids)
      OBVIOUS
    <3>1. CASE m \in copies
      BY <1>4, <1>8, <1>9, <3>1
    <3>2. CASE m \notin copies /\ m = p
      BY <1>7, <1>9, <3>2, InvFacts
    <3>3. CASE m \notin copies /\ m # p
      BY <1>9, <3>3, InvFacts
    <3> QED BY <3>1, <3>2, <3>3
  <2>2. \A m \in Ids : parentId'[m] \in Ids \cup {NoParent}
    <3> SUFFICES ASSUME NEW m \in Ids PROVE parentId'[m] \in Ids \cup {NoParent}
      OBVIOUS
    <3>1. CASE m \in copies
      BY <1>4, <1>10, <3>1
    <3>2. CASE m \notin copies
      BY <1>10, <3>2, InvFacts
    <3> QED BY <3>1, <3>2
  <2>3. children' = [m \in Ids |-> children'[m]] /\ parentId' = [m \in Ids |-> parentId'[m]]
    BY <1>3
  <2>4. children' \in [Ids -> Seq(Ids)] /\ parentId' \in [Ids -> Ids \cup {NoParent}]
    BY <2>1, <2>2, <2>3
  <2> QED BY <1>12, <2>4 DEF TreeTypeOK
<1>14. ASSUME NEW m \in nodes'
       PROVE  IsInjective(children'[m]) /\ \A c \in Range(children'[m]) : c \in nodes' /\ parentId'[c] = m
  <2>1. CASE m \notin nodes
    <3>1. PICK o \in sub : m = f[o]
      BY <1>11, <2>1
    <3>2. IsInjective(children'[m]) /\ Range(children'[m]) = {f[c] : c \in Range(children[o])}
      BY <1>8, <1>9, <3>1
    <3>3. ASSUME NEW c \in Range(children[o]) PROVE f[c] \in nodes' /\ parentId'[f[c]] = f[o]
      <4>1. c \in sub /\ parentId[c] = o
        BY <1>2, InvFacts
      <4>2. c # n
        BY <4>1, NotBelow DEF sub
      <4> QED BY <1>3, <1>4, <1>10, <4>1, <4>2
    <3> QED BY <3>1, <3>2, <3>3
  <2>2. CASE m \in nodes /\ m = p
    <3>1. IsInjective(children'[m]) /\ Range(children'[m]) = Range(children[p]) \cup {f[n]}
      BY <1>7, <1>9, <2>2
    <3>2. \A c \in Range(children[p]) : c \in nodes /\ parentId[c] = p
      BY <2>2, InvFacts
    <3> QED BY <1>3, <1>6, <1>10, <1>12, <2>2, <3>1, <3>2
  <2>3. CASE m \in nodes /\ m # p
    <3>1. IsInjective(children'[m]) /\ children'[m] = children[m]
      BY <1>9, <1>12, <2>3, InvFacts
    <3>2. \A c \in Range(children[m]) : c \in nodes /\ parentId[c] = m
      BY <2>3, InvFacts
    <3> QED BY <1>3, <1>10, <1>12, <3>1, <3>2
  <2> QED BY <2>1, <2>2, <2>3
<1>15. ASSUME NEW m \in nodes', parentId'[m] # NoParent
       PROVE  parentId'[m] \in nodes' /\ m \in Range(children'[parentId'[m]])
  <2>1. CASE m = f[n]
    <3>1. parentId'[m] = p /\ p \in nodes
      BY <1>10, <1>15, <2>1
    <3> QED BY <1>3, <1>7, <1>9, <2>1, <3>1
  <2>2. CASE m \notin nodes /\ m # f[n]
    <3>1. PICK o \in sub : m = f[o]
      BY <1>11, <2>2
    <3>2. o # n /\ o \in nodes
      BY <1>12, <2>2, <3>1
    <3> DEFINE q == parentId[o]
    <3>3. q \in sub /\ parentId'[m] = f[q] /\ f[q] \in copies
      BY <1>5, <1>10, <3>1, <3>2
    <3>4. o \in Range(children[q])
      BY <1>12, <3>2, <3>3, InvFacts
    <3>5. Range(children'[f[q]]) = {f[c] : c \in Range(children[q])}
      BY <1>8, <1>9, <3>3
    <3> HIDE DEF q
    <3>6. f[o] \in Range(children'[f[q]])
      BY <3>4, <3>5
    <3>7. f[q] \in nodes'
      BY <1>3, <3>3
    <3> QED BY <3>1, <3>3, <3>6, <3>7
  <2>3. CASE m \in nodes
    <3> DEFINE q == parentId[m]
    <3>1. parentId'[m] = q
      BY <1>10, <1>12, <2>3
    <3>2. q \in nodes /\ m \in Range(children[q])
      BY <1>15, <2>3, <3>1, InvFacts
    <3> HIDE DEF q
    <3>3. m \in Range(children'[q])
      BY <1>7, <1>9, <1>12, <3>2
    <3> QED BY <1>3, <3>1, <3>2, <3>3
  <2> QED BY <2>1, <2>2, <2>3
<1>16. ASSUME NEW S \in SUBSET nodes', S # {} PROVE \E x \in S : parentId'[x] \notin S
  <2>1. CASE S \cap nodes # {}
    <3>1. PICK x \in S \cap nodes : parentId[x] \notin S \cap nodes
      BY <2>1, InvFacts
    <3>2. parentId'[x] = parentId[x] /\ (parentId[x] \in nodes \/ parentId[x] = NoParent) /\ NoParent \notin S
      BY <1>10, <1>12, InvFacts
    <3> QED BY <3>1, <3>2
  <2>2. CASE S \cap nodes = {}
    <3> DEFINE O == {o \in sub : f[o] \in S}
    <3>1. O \in SUBSET nodes /\ O # {}
      BY <1>11, <1>12, <1>16, <2>2
    <3>2. PICK x \in O : parentId[x] \notin O
      BY <3>1, InvFacts
    <3>3. CASE x = n
      BY <1>6, <1>10, <1>12, <2>2, <3>2, <3>3
    <3>4. CASE x # n
      <4>1. parentId[x] \in sub /\ parentId'[f[x]] = f[parentId[x]]
        BY <1>5, <1>10, <3>2, <3>4
      <4> QED BY <3>2, <4>1
    <3> QED BY <3>3, <3>4
  <2> QED BY <2>1, <2>2
<1>17. Root \in nodes' /\ parentId'[Root] = NoParent
  BY <1>3, <1>10, <1>12, InvFacts
<1>18. \A m \in Ids \ nodes' : children'[m] = <<>>
  BY <1>3, <1>9, InvFacts
<1>19. ChildrenSound' /\ ParentsSound'
  BY <1>14, <1>15, <1>16, <1>17 DEF ChildrenSound, ParentsSound
<1> QED BY <1>13, <1>18, <1>19 DEF TreeInv, TreeSound

LEMMA TreeStep == TreeInv /\ [TreeNext]_treeVars => TreeInv'
<1> SUFFICES ASSUME TreeInv, [TreeNext]_treeVars PROVE TreeInv'
  OBVIOUS
<1>1. ASSUME NEW n \in Shown, NEW f \in IdMaps(Subtree(n)), DuplicateNode(n, f) PROVE TreeInv'
  <2> DEFINE p == parentId[n]
             i == IF p = NoParent THEN 0 ELSE Index(children[p], n)
  <2>1. n \in nodes /\ p \in Ids \cup {NoParent}
    BY RootAbove, InvFacts
  <2>2. ASSUME p # NoParent PROVE p \in nodes /\ i \in 0..Len(children[p])
    <3>1. p \in nodes /\ n \in Range(children[p]) /\ children[p] \in Seq(Ids)
      BY <2>1, <2>2, InvFacts
    <3>2. Index(children[p], n) \in 1..Len(children[p])
      BY <3>1, IndexFacts
    <3>3. 1..Len(children[p]) \subseteq 0..Len(children[p])
      BY <3>1
    <3> QED BY <2>2, <3>1, <3>2, <3>3
  <2>3. Clone(n, f, p, i)
    BY <1>1 DEF DuplicateNode
  <2> HIDE DEF p, i
  <2> QED BY <2>1, <2>2, <2>3, CloneStep
<1>2. ASSUME NEW n \in Shown, NEW f \in IdMaps(Subtree(n)), NEW p \in Shown, PasteSubtree(n, f, p) PROVE TreeInv'
  <2>1. n \in nodes /\ p \in nodes /\ p \in Ids \cup {NoParent}
    BY RootAbove, InvFacts
  <2>2. PICK i \in 0..Len(children[p]) : Clone(n, f, p, i)
    BY <1>2 DEF PasteSubtree
  <2> QED BY <2>1, <2>2, CloneStep
<1>3. CASE UNCHANGED treeVars
  <2>1. nodes' = nodes /\ children' = children /\ parentId' = parentId
    BY <1>3 DEF treeVars
  <2> QED BY <2>1 DEF TreeInv, TreeTypeOK, TreeSound, ChildrenSound, ParentsSound
<1> QED
  BY <1>1, <1>2, <1>3, InsertNodeStep, InsertImportedNodesStep, DeleteNodesStep, MoveNodesStep, WrapNodeStep,
     WrapNodesStep DEF TreeNext

(* Whatever is inserted, imported, moved, wrapped, cloned and deleted, with *)
(* whatever selection and in a page of any size, the children arrays make a *)
(* forest and the cached parents are that forest's (mutations.ts,          *)
(* parentIndex.ts).                                                        *)
THEOREM TreeTheorem == TreeSpec => []TreeSound
<1>1. TreeInv => TreeSound
  BY DEF TreeInv
<1> QED BY <1>1, TreeStarts, TreeStep, PTL DEF TreeSpec

(* wrapNodes throws for no selection of shown nodes without the root: "No  *)
(* common ancestor", "Could not resolve branch" and "Computed empty branch *)
(* set" (mutations.ts) never happen, whatever was done to the page before. *)
THEOREM WrapTheorem ==
  TreeSpec => [](\A sel \in Picks(Shown) : Root \notin Range(sel) => WrapFinds(sel))
<1>1. TreeInv => \A sel \in Picks(Shown) : Root \notin Range(sel) => WrapFinds(sel)
  BY WrapNodesFinds
<1> QED BY <1>1, TreeStarts, TreeStep, PTL DEF TreeSpec

-----------------------------------------------------------------------------
(* The parts side by side.                                                 *)

PartsInv == TreeInv /\ MediaInv /\ BridgeInv /\ SchedTypeOK /\ HostInv /\ TasksOK

(* Side by side, as the parts are checked, each keeps its type and what it *)
(* promises: the tree of a page (mutations.ts), the bytes of an asset      *)
(* (mediaStorageMigration.ts), the bridge (editorBridge.ts), a schedule    *)
(* (scheduler.ts) and the worker of a plugin (host/), with any number of   *)
(* nodes, adapters, streams, runs and tasks.                               *)
THEOREM PartsTheorem == FairSpec => [](TypeOK /\ TreeSound /\ BytesWhereNamed /\ TeardownReachesAll)
<1>1. Init => PartsInv
  BY TreeStarts, MediaStarts, BridgeStarts, SchedStarts, HostStarts, TasksStart DEF Init, PartsInv
<1>2. PartsInv /\ [Next]_partsVars => PartsInv'
  <2> SUFFICES ASSUME PartsInv, [Next]_partsVars PROVE PartsInv'
    OBVIOUS
  <2>1. /\ [TreeNext]_treeVars /\ [MediaNext]_mediaVars /\ [BridgeNext]_bridgeVars
        /\ [SchedNext]_schedVars /\ [HostNext]_hostVars
    BY DEF Next, partsVars
  <2> QED BY <2>1, TreeStep, MediaStep, BridgeStep, SchedStep, HostStep, TasksStep DEF PartsInv
<1>3. PartsInv => TypeOK
  BY DEF PartsInv, TypeOK, TreeInv, MediaInv, BridgeInv, HostInv, TasksOK, HostTypeOK
<1>4. PartsInv => TreeSound /\ BytesWhereNamed /\ TeardownReachesAll
  BY DEF PartsInv, TreeInv, MediaInv, RowInv, BytesWhereNamed, HostInv
<1> QED BY <1>1, <1>2, <1>3, <1>4, PTL DEF FairSpec

=============================================================================
