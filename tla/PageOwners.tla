----------------------------- MODULE PageOwners -----------------------------
(***************************************************************************)
(* The ownership graph of a source's pages (adapters/page_index.py), kept  *)
(* from one capture to the next: which tree pages belong to which table,   *)
(* which rows a leaf holds, which leaf an overflow page belongs to.  From  *)
(* the pages that changed it selects the rows that may have changed.  What *)
(* is read of the new image are the changed pages; of the others, the old  *)
(* graph (adapters/wal_image.py).  One action is one page of the walk; the *)
(* source is pinned meanwhile, and a walk that meets a contradiction is    *)
(* rolled back and the graph built anew.  Keys have no order here, and     *)
(* siblings are visited in any order: the bounds of keys and of the depth  *)
(* that the code checks on the way, against damaged images, are left out.  *)
(***************************************************************************)
EXTENDS Naturals, Sequences, FiniteSets, Subject

CONSTANTS Tables,      \* rowid tables
          RootOf,      \* table -> its root page
          MaxPage,     \* pages are 1..MaxPage
          RowIds,      \* rows of each table
          MaxRewritten \* bound: pages written between two captures though they stay as they are

ASSUME PageOwnersAssumption ==
  /\ MaxPage \in Nat \ {0} /\ MaxRewritten \in Nat
  /\ RootOf \in [Tables -> 1..MaxPage]
  /\ \A s, t \in Tables : RootOf[s] = RootOf[t] => s = t

VARIABLES pages,      \* the source: page -> what it holds
          pageCount,  \* its size
          touched,    \* pages written since the last capture
          moved,      \* rows that may have changed since then: <<table, row>>
          graph,      \* the index: nodes, edges, owners of overflow pages
          walk        \* the update in progress: the index as far as it is, and what it knows

ownerVars == <<pages, pageCount, touched, moved, graph, walk>>

Pages == 1..MaxPage
Roots == {RootOf[t] : t \in Tables}

Free == [kind |-> "free"]
Leaf(cells) == [kind |-> "leaf", cells |-> cells]                 \* row -> its overflow chain
Interior(children) == [kind |-> "interior", children |-> children]
Overflow(next) == [kind |-> "overflow", next |-> next]            \* 0 ends a chain

Children(node) == IF node.kind = "interior" THEN node.children ELSE {}
Rows(node)     == IF node.kind = "leaf" THEN DOMAIN node.cells ELSE {}

NoEntry == [kind |-> "none"]
NoWalk  == [at |-> "none"]
Walking == walk # NoWalk

\* What can be reached from S: the least set that has S and, with a page, what is next to it.
Reach(S, next) ==
  LET closed == {U \in SUBSET Pages : S \subseteq U /\ \A q \in U : next[q] \subseteq U}
  IN {p \in Pages : \A U \in closed : p \in U}

Put(f, x, v)  == [y \in DOMAIN f \cup {x} |-> IF y = x THEN v ELSE f[y]]
Without(f, S) == [x \in DOMAIN f \ S |-> f[x]]

(* SQLite (external) *******************************************************)
TreeOf(image, t) == Reach({RootOf[t]}, [p \in Pages |-> Children(image[p])])

Follower(chain, i) == IF i = Len(chain) THEN 0 ELSE chain[i + 1]
PagesOf(chain)     == {chain[i] : i \in DOMAIN chain}

Chains ==
  {chain \in UNION {[1..n -> Pages \ Roots] : n \in 0..MaxPage} :
     \A i, j \in DOMAIN chain : chain[i] = chain[j] => i = j}

Contents ==
  {Free} \cup {Leaf(cells) : cells \in UNION {[S -> Chains] : S \in SUBSET RowIds}}
         \cup {Interior(S) : S \in (SUBSET (Pages \ Roots)) \ {{}}}
         \cup {Overflow(next) : next \in {0} \cup (Pages \ Roots)}

Cells(image, t) ==
  UNION {{[table |-> t, leaf |-> p, row |-> r, chain |-> image[p].cells[r]] : r \in Rows(image[p])}
         : p \in TreeOf(image, t)}

AllCells(image) == UNION {Cells(image, t) : t \in Tables}

\* Every page is free, in one tree or in one chain; a row has one cell.
WellFormed(image) ==
  /\ \A p \in Pages : image[p].kind \in {"leaf", "interior"} <=> \E t \in Tables : p \in TreeOf(image, t)
  /\ \A s, t \in Tables : s # t => TreeOf(image, s) \cap TreeOf(image, t) = {}
  /\ \A p, q \in Pages : p # q => Children(image[p]) \cap Children(image[q]) = {}
  /\ \A c \in AllCells(image) :
       /\ \A i \in DOMAIN c.chain : image[c.chain[i]] = Overflow(Follower(c.chain, i))
       /\ \A d \in AllCells(image) :
            /\ c.table = d.table /\ c.row = d.row => c = d
            /\ c # d => PagesOf(c.chain) \cap PagesOf(d.chain) = {}
  /\ \A o \in Pages : image[o].kind = "overflow" => \E c \in AllCells(image) : o \in PagesOf(c.chain)

\* A database: what its pages hold, and its size.
Images == {[count |-> n, pages |-> image] :
             n \in Pages, image \in {f \in [Pages -> Contents] : WellFormed(f)}}

\* Cells that no longer are where and what they were, or had one of their pages written.
Unsettled(old, new, written) ==
  LET before == AllCells(old)
      after  == AllCells(new)
  IN {c \in before \cup after :
        \/ c \notin before \/ c \notin after
        \/ ({c.leaf} \cup PagesOf(c.chain)) \cap written # {}}

\* All that is committed between two captures.  A page that becomes another is written;
\* one that is freed need not be.
Change ==
  /\ walk = NoWalk /\ touched = {}
  /\ \E image \in Images, rewritten \in SUBSET Pages :
       LET used    == {p \in Pages : image.pages[p] # Free}
           written == rewritten \cup {p \in used : image.pages[p] # pages[p]}
       IN /\ Cardinality(rewritten) <= MaxRewritten
          /\ \A p \in used : p <= image.count
          /\ written # {}
          /\ pages' = image.pages /\ pageCount' = image.count /\ touched' = written
          /\ moved' = {<<c.table, c.row>> : c \in Unsettled(pages, image.pages, written)}
  /\ UNCHANGED <<graph, walk>>

(* The image a capture reads: wal_image.py *********************************)
\* A page of the WAL if it changed, what the graph says of it otherwise.
TreePage(p) ==
  CASE p > pageCount -> NoEntry
    [] p <= pageCount /\ p \in walk.changed -> pages[p]
    [] p <= pageCount /\ p \in DOMAIN graph.nodes \ walk.changed -> graph.nodes[p].node
    [] OTHER -> NoEntry

NextIs(o, next) ==
  IF o \in walk.changed THEN pages[o] = Overflow(next)
  ELSE o \in DOMAIN graph.owners /\ graph.owners[o].next = next

\* A chain has the length its cell says, and ends there.
ChainHolds(leaf, chain) ==
  \A i \in DOMAIN chain :
    /\ chain[i] \in 2..pageCount /\ chain[i] # leaf
    /\ NextIs(chain[i], Follower(chain, i))

(* PageIndex._apply ********************************************************)
RowsAt(nodes, S) == UNION {{<<nodes[p].table, r>> : r \in Rows(nodes[p].node)} : p \in S \cap DOMAIN nodes}
Held(nodes)      == RowsAt(nodes, DOMAIN nodes)

ChildrenOf(edges, S) == {c \in DOMAIN edges : edges[c] \in S}
OwnedBy(owners, S)   == {o \in DOMAIN owners : owners[o].leaf \in S}

\* What hung under the pages S, their rows and their overflow pages leave the index.
Remember(w, S) == [w EXCEPT !.candidates = @ \cup RowsAt(w.nodes, S)]
CutEdges(w, S) ==
  [w EXCEPT !.orphaned = @ \cup ChildrenOf(w.edges, S), !.edges = Without(@, ChildrenOf(w.edges, S))]
Disown(w, S)   == [w EXCEPT !.owners = Without(@, OwnedBy(w.owners, S))]
Cleared(w, S)  == Disown(CutEdges(Remember(w, S), S), S)

ForgetPages(w, S) ==
  LET known == S \cap DOMAIN w.nodes
  IN [Cleared(w, known) EXCEPT !.nodes = Without(@, known)]

\* Pages and every page above them.
Above(edges, S) == Reach(S, [p \in Pages |-> IF p \in DOMAIN edges THEN {edges[p]} ELSE {}])

MutNeeded == Above(graph.edges, touched \cap DOMAIN graph.nodes)   \* overflow pages are not routed to their leaf

\* Owners of what changed or lies beyond the end, and every page above them.
Needed ==
  LET reached == touched \cup {p \in DOMAIN graph.nodes \cup DOMAIN graph.owners : p > pageCount}
  IN Above(graph.edges, (reached \cap DOMAIN graph.nodes)
                        \cup {graph.owners[o].leaf : o \in reached \cap DOMAIN graph.owners})

\* visit(page, table), called for a child of `parent`, or for a root.
Call(page, table, parent, depth) == [page |-> page, table |-> table, parent |-> parent, depth |-> depth]

EmptyGraph == [nodes |-> <<>>, edges |-> <<>>, owners |-> <<>>]

Begun(full, changed, index, needed, tables) ==
  Cleared([full |-> full, changed |-> changed, nodes |-> index.nodes, edges |-> index.edges, owners |-> index.owners,
           needed |-> needed, orphaned |-> {}, visited |-> {}, candidates |-> {},
           todo |-> {Call(RootOf[t], t, 0, 0) : t \in tables}, cells |-> {}], needed)

StartUpdate ==
  /\ walk = NoWalk /\ touched # {}
  /\ walk' = Begun(FALSE, touched, graph, Needed, {t \in Tables : RootOf[t] \in Needed})
  /\ UNCHANGED <<pages, pageCount, touched, moved, graph>>

(* visit *******************************************************************)
\* A child that still hangs under an old parent leaves it, unless that parent is reachable.
OldParents(e) ==
  IF e.parent # 0 /\ e.page \in DOMAIN walk.edges THEN Above(walk.edges, {walk.edges[e.page]}) ELSE {}

Linked(e) ==
  [walk EXCEPT !.todo = @ \ {e}, !.needed = @ \cup OldParents(e),
               !.edges = IF e.parent = 0 THEN @ ELSE Put(@, e.page, e.parent)]

Trusted(w, p) == p \in DOMAIN w.nodes \ w.needed

Admits(e) ==
  LET w    == Linked(e)
      node == TreePage(e.page)
  IN /\ OldParents(e) \cap Roots = {}
     /\ e.page \notin w.visited
     /\ e.parent # 0 => e.page \notin Roots
     /\ Trusted(w, e.page) => w.nodes[e.page].table = e.table
     /\ ~Trusted(w, e.page) =>
          /\ e.page \notin DOMAIN w.owners
          /\ node.kind \in {"leaf", "interior"}
          /\ \A r \in Rows(node) : ChainHolds(e.page, node.cells[r])

Entered(w, e, node) ==
  [Cleared(w, {e.page}) EXCEPT
     !.visited = @ \cup {e.page},
     !.nodes = Put(@, e.page, [table |-> e.table, node |-> node]),
     !.candidates = @ \cup {<<e.table, r>> : r \in Rows(node)},
     !.todo = @ \cup {Call(c, e.table, e.page, e.depth + 1) : c \in Children(node)},
     !.cells = {[leaf |-> e.page, row |-> r, at |-> 1] : r \in {s \in Rows(node) : node.cells[s] # <<>>}}]

\* Depth first: siblings in any order, before what waits above them.
NextCalls == {e \in walk.todo : walk.cells = {} /\ \A f \in walk.todo : f.depth <= e.depth}

Visit ==
  /\ Walking
  /\ \E e \in NextCalls :
       /\ Admits(e)
       /\ walk' = LET w == Linked(e)
                  IN IF Trusted(w, e.page) THEN w ELSE Entered(w, e, TreePage(e.page))
  /\ UNCHANGED <<pages, pageCount, touched, moved, graph>>

\* The overflow pages of the leaf just read, cell by cell.
ChainOf(e)   == walk.nodes[e.leaf].node.cells[e.row]
NextCells    == {e \in walk.cells : \A f \in walk.cells : f.at <= e.at}

\* An overflow page that was a tree page must be reachable no more.
Ownable(o) ==
  /\ o \notin DOMAIN walk.owners
  /\ o \in DOMAIN walk.nodes => o \notin Roots \cup walk.visited \cup DOMAIN walk.edges

Own ==
  /\ Walking
  /\ \E e \in NextCells :
       LET chain == ChainOf(e)
           o     == chain[e.at]
           kept  == ForgetPages(walk, {o})
       IN /\ Ownable(o)
          /\ walk' = [kept EXCEPT
                !.owners = Put(@, o, [leaf |-> e.leaf, row |-> e.row, next |-> Follower(chain, e.at)]),
                !.cells = (@ \ {e}) \cup (IF e.at = Len(chain) THEN {} ELSE {[e EXCEPT !.at = @ + 1]})]
  /\ UNCHANGED <<pages, pageCount, touched, moved, graph>>

\* An update that meets a contradiction is rolled back, and the graph built of every page.
Build ==
  /\ Walking /\ ~walk.full
  /\ \/ \E e \in NextCalls : ~Admits(e)
     \/ \E e \in NextCells : ~Ownable(ChainOf(e)[e.at])
  /\ walk' = Begun(TRUE, Pages, EmptyGraph, {}, Tables)
  /\ UNCHANGED <<pages, pageCount, touched, moved, graph>>

(* The end of an update ****************************************************)
MutUnclaimed(w) == {}   \* orphans stay in the graph

\* What no parent claims any longer, and what hangs under it in its turn.
Unclaimed(w) ==
  Reach(w.orphaned \ (Roots \cup DOMAIN w.edges),
        [p \in Pages |-> ChildrenOf(w.edges, {p} \cap DOMAIN w.nodes) \ Roots])

AtEnd == Walking /\ walk.todo = {} /\ walk.cells = {}
Done  == ForgetPages(walk, Unclaimed(walk))

EndUpdate ==
  /\ AtEnd
  /\ graph' = [nodes |-> Done.nodes, edges |-> Done.edges, owners |-> Done.owners]
  /\ touched' = {} /\ moved' = {} /\ walk' = NoWalk
  /\ UNCHANGED <<pages, pageCount>>

(* Behaviour ***************************************************************)
OwnersInit ==
  /\ pages = [p \in Pages |-> IF p \in Roots THEN Leaf(<<>>) ELSE Free]
  /\ pageCount = MaxPage
  /\ touched = {} /\ moved = {}
  /\ graph = [nodes |-> [p \in Roots |-> [table |-> CHOOSE t \in Tables : RootOf[t] = p, node |-> Leaf(<<>>)]],
              edges |-> <<>>, owners |-> <<>>]
  /\ walk = NoWalk

OwnersNext == Change \/ StartUpdate \/ Visit \/ Own \/ Build \/ EndUpdate

(* Properties **************************************************************)
\* The graph is that of the source: no page is left behind, lost or given
\* to the wrong table, though freed pages need not be written and come back as anything
\* (page_index.py, _apply).
GraphIsSource ==
  touched = {} =>
    /\ DOMAIN graph.nodes = UNION {TreeOf(pages, t) : t \in Tables}
    /\ \A t \in Tables : \A p \in TreeOf(pages, t) :
         /\ graph.nodes[p] = [table |-> t, node |-> pages[p]]
         /\ ChildrenOf(graph.edges, {p}) = Children(pages[p])
         /\ \A r \in Rows(pages[p]) :
              {o \in OwnedBy(graph.owners, {p}) : graph.owners[o].row = r} = PagesOf(pages[p].cells[r])
    /\ \A o \in DOMAIN graph.owners : pages[o] = Overflow(graph.owners[o].next)

\* The same where the pages are the subject: after a capture, however rows, leaves and overflow
\* chains moved, the graph is that of the source (page_index.py, _apply).
GraphFollows == subject = "pages" => GraphIsSource

\* An update selects every row it knows, from before or now, that was written, moved or
\* removed, also through an overflow page alone; a baseline compares all rows (page_index.py,
\* candidates).
RowsSelected ==
  AtEnd /\ ~walk.full => moved \subseteq Done.candidates
=============================================================================
