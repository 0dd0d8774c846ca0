------------------------------ MODULE PageTree ------------------------------
(***************************************************************************)
(* The node tree of a page as the editor's store changes it: a flat map of *)
(* nodes whose `children` arrays are the structure and whose `parentId` is *)
(* a cache of it that every mutation keeps by hand                         *)
(* (core/page-tree/mutations.ts, selectors.ts, parentIndex.ts).            *)
(*                                                                         *)
(* A node is its place in the tree; its content is left out.  The walks    *)
(* over children and over parents are the smallest sets they close on.     *)
(***************************************************************************)
EXTENDS Integers, Sequences, FiniteSets, SequencesExt, Functions

CONSTANTS
    Ids,            \* the node ids that may be used
    Root,           \* rootNodeId
    NoParent,       \* no parent
    MaxSelection    \* bound: the nodes one command works on

ASSUME PageTreeAssumption == Root \in Ids /\ NoParent \notin Ids /\ MaxSelection \in Nat

VARIABLES
    nodes,          \* the ids in the node map
    children,       \* the children array of each node
    parentId        \* the cached parent of each node

treeVars == <<nodes, children, parentId>>

TreeInit ==
    /\ nodes = {Root}
    /\ children = [n \in Ids |-> <<>>]
    /\ parentId = [n \in Ids |-> NoParent]

TreeTypeOK ==
    /\ nodes \subseteq Ids
    /\ children \in [Ids -> Seq(Ids)]
    /\ parentId \in [Ids -> Ids \cup {NoParent}]

-----------------------------------------------------------------------------
(* collectSubtreeIds: a node and what its children lead to *)
Subtree(n) ==
    {m \in nodes : \A S \in SUBSET nodes :
        n \in S /\ (\A k \in S : Range(children[k]) \cap nodes \subseteq S) => m \in S}

(* getAncestors, ancestorChainInclusive: a node and what its parents lead to *)
Chain(n) ==
    {m \in nodes : \A S \in SUBSET nodes :
        n \in S /\ (\A k \in S : {parentId[k]} \cap nodes \subseteq S) => m \in S}

(* Mutant: a node is not its own ancestor *)
IsAncestorProper(a, n) == a \in Chain(n) \ {n}
IsAncestor(a, n) == a \in Chain(n)

(* What the canvas and the layers panel show, hence what a command is given *)
Shown == Subtree(Root)

Fresh == Ids \ nodes

(* s.indexOf(c) + 1 and s.splice(i, 0, ...t) *)
Index(s, c) == CHOOSE i \in DOMAIN s : s[i] = c
Spliced(s, i, t) == SubSeq(s, 1, i) \o t \o SubSeq(s, i + 1, Len(s))

(* s.filter(c => S.has(c)): the k-th place of it is the k-th place of s    *)
(* that holds one of S.  (SelectSeq, told so that it can be proved about.) *)
Kept(s, S) ==
    LET at == {i \in DOMAIN s : s[i] \in S}
        nth(k) == CHOOSE i \in at : Cardinality({j \in at : j <= i}) = k
    IN [k \in 1..Cardinality(at) |-> s[nth(k)]]

Without(s, S) == Kept(s, Range(s) \ S)

(* Some of these ids, in the order they were picked *)
Picks(S) == {s \in BoundedSeq(S, MaxSelection) : s # <<>> /\ IsInjective(s)}

-----------------------------------------------------------------------------
InsertNode(n, p) ==
    /\ nodes' = nodes \cup {n}
    /\ \E i \in 0..Len(children[p]) : children' = [children EXCEPT ![p] = Spliced(@, i, <<n>>)]
    /\ parentId' = [parentId EXCEPT ![n] = p]

(* Mutant: an index of the nodes that have a parent only *)
ReindexNodeParentsListed(kids, map) ==
    [n \in map \ {Root} |-> CHOOSE p \in map : n \in Range(kids[p])]

(* The parents that the children arrays say, for every node of the map *)
ReindexNodeParents(kids, map) ==
    [n \in Ids |-> IF \E p \in map : n \in map \cap Range(kids[p])
                   THEN CHOOSE p \in map : n \in Range(kids[p]) ELSE NoParent]

(* A fragment of imported HTML: its roots, and what is inside the first *)
InsertImportedNodes(roots, inner, p) ==
    /\ nodes' = nodes \cup Range(roots) \cup Range(inner)
    /\ \E i \in 0..Len(children[p]) :
         children' = [children EXCEPT ![p] = Spliced(@, i, roots), ![roots[1]] = inner]
    /\ parentId' = ReindexNodeParents(children', nodes')

(* deleteSubtree for each, the deepest first; the parents are the cached ones *)
DeleteNodes(sel) ==
    LET picked == Range(sel) \ {Root}
        gone == UNION {Subtree(n) : n \in picked}
    IN /\ picked # {}
       /\ nodes' = nodes \ gone
       /\ children' = [n \in Ids |-> IF n \in gone THEN <<>>
                            ELSE Without(children[n], {m \in picked : parentId[m] = n})]
       /\ parentId' = [n \in Ids |-> IF n \in gone THEN NoParent ELSE parentId[n]]

-----------------------------------------------------------------------------
(* The picked nodes that are under no other picked node *)
TopLevel(sel) == Kept(sel, {n \in Range(sel) : (Chain(n) \ {n}) \cap Range(sel) = {}})

Detached(top) == [p \in Ids |-> Without(children[p], {n \in Range(top) : parentId[n] = p})]

(* moveNode is moveNodes of one *)
MoveNodes(sel, p) ==
    LET top == TopLevel(sel)
        left == Detached(top)
    IN /\ Root \notin Range(sel)
       /\ \A n \in Range(top) : ~IsAncestor(n, p)
       /\ \E i \in 0..Len(left[p]) : children' = [left EXCEPT ![p] = Spliced(@, i, top)]
       /\ parentId' = [n \in Ids |-> IF n \in Range(top) THEN p ELSE parentId[n]]
       /\ UNCHANGED nodes

WrapNode(n, w) ==
    LET p == parentId[n]
    IN /\ n # Root /\ p # NoParent
       /\ nodes' = nodes \cup {w}
       /\ children' = [children EXCEPT ![p] = [@ EXCEPT ![Index(@, n)] = w], ![w] = <<n>>]
       /\ parentId' = [parentId EXCEPT ![n] = w, ![w] = p]

(* The deepest node above all of these that is none of them *)
ClosestCommonAncestor(S) ==
    LET common == {a \in nodes \ S : \A n \in S : IsAncestor(a, n)}
    IN CHOOSE a \in common : common \subseteq Chain(a)

WrapNodes(sel, w) ==
    LET top == Range(TopLevel(sel))
        cca == ClosestCommonAncestor(top)
        branches == {b \in UNION {Chain(n) : n \in top} : parentId[b] = cca}
        inOrder == Kept(children[cca], branches)
    IN /\ Len(sel) > 1 /\ Root \notin Range(sel)
       /\ nodes' = nodes \cup {w}
       /\ children' = [children EXCEPT
             ![cca] = Spliced(Without(@, branches), Index(@, inOrder[1]) - 1, <<w>>),
             ![w] = inOrder]
       /\ parentId' = [n \in Ids |-> IF n = w THEN cca
                                     ELSE IF n \in Range(inOrder) THEN w ELSE parentId[n]]

-----------------------------------------------------------------------------
(* The fresh ids a clone of the nodes S may be given *)
IdMaps(S) == {f \in [S -> Fresh] : IsInjective(f)}

(* A clone of the subtree at n under the ids of f, at place i of p.  The   *)
(* parents inside it are stamped from its children arrays.                 *)
Clone(n, f, p, i) ==
    LET copies == Range(f)
        original(m) == CHOOSE o \in DOMAIN f : f[o] = m
        above(m) == CHOOSE o \in DOMAIN f : original(m) \in Range(children[o])
    IN /\ nodes' = nodes \cup copies
       /\ children' = [m \in Ids |->
             IF m \in copies THEN [k \in DOMAIN children[original(m)] |-> f[children[original(m)][k]]]
             ELSE IF m = p THEN Spliced(children[m], i, <<f[n]>>)
             ELSE children[m]]
       /\ parentId' = [m \in Ids |->
             IF m = f[n] THEN p ELSE IF m \in copies THEN f[above(m)] ELSE parentId[m]]

(* The root has no parent to put its clone under *)
DuplicateNode(n, f) ==
    Clone(n, f, parentId[n], IF parentId[n] = NoParent THEN 0 ELSE Index(children[parentId[n]], n))

PasteSubtree(n, f, p) == \E i \in 0..Len(children[p]) : Clone(n, f, p, i)

-----------------------------------------------------------------------------
TreeNext ==
    \/ \E n \in Fresh, p \in Shown : InsertNode(n, p)
    \/ \E roots \in Picks(Fresh), p \in Shown : \E inner \in BoundedSeq(Fresh \ Range(roots), 1) :
         InsertImportedNodes(roots, inner, p)
    \/ \E sel \in Picks(Shown) : DeleteNodes(sel)
    \/ \E sel \in Picks(Shown), p \in Shown : MoveNodes(sel, p)
    \/ \E n \in Shown, w \in Fresh : WrapNode(n, w)
    \/ \E sel \in Picks(Shown), w \in Fresh : WrapNodes(sel, w)
    \/ \E n \in Shown : \E f \in IdMaps(Subtree(n)) :
         \/ DuplicateNode(n, f)
         \/ \E p \in Shown : PasteSubtree(n, f, p)

TreeSpec == TreeInit /\ [][TreeNext]_treeVars

-----------------------------------------------------------------------------
(* The children of every node are in the map, each is there once and has   *)
(* that node as its cached parent.                                         *)
ChildrenSound ==
    \A n \in nodes : /\ IsInjective(children[n])
                     /\ \A c \in Range(children[n]) : c \in nodes /\ parentId[c] = n

(* A cached parent lists the node, and going up from parent to parent ends. *)
ParentsSound ==
    /\ Root \in nodes /\ parentId[Root] = NoParent
    /\ \A n \in nodes : parentId[n] # NoParent => parentId[n] \in nodes /\ n \in Range(children[parentId[n]])
    /\ \A S \in SUBSET nodes : S # {} => \E n \in S : parentId[n] \notin S

(* mutations.ts: whatever is inserted, moved, wrapped, cloned and deleted, *)
(* in whatever order and with whatever selection, the children arrays make *)
(* a forest in which no node is listed twice, missing or above itself, and *)
(* the cached parents are that forest's.                                   *)
TreeSound == ChildrenSound /\ ParentsSound

=============================================================================
