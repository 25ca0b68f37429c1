-------------------------- MODULE InterferenceGraph --------------------------
(***************************************************************************)
(* InterferenceGraph (Analysis/InterferenceGraph.{h,cpp}) as a value: the   *)
(* adjacency map, a function from the values that have an entry to the set  *)
(* of their neighbours.  Its constructor is the state machine of            *)
(* InterferenceBuilder; StackAllocator consumes the graph node by node.     *)
(***************************************************************************)
EXTENDS Naturals, FiniteSets

EmptyGraph == [v \in {} |-> {}]

(* getValues(): the values with an entry. *)
getValues(g) == DOMAIN g

(* adjacency[v]: DenseMap::operator[] reads an absent entry as empty. *)
Entry(g, v) == IF v \in DOMAIN g THEN g[v] ELSE {}

(* Variant of connect that creates the entries of R before it looks at L. *)
connectAlways(g, R, L) ==
  [v \in DOMAIN g \cup R \cup L |->
     Entry(g, v) \cup (IF v \in R THEN L \ {v} ELSE {})
                 \cup (IF v \in L THEN R \ {v} ELSE {})]

(* Variant of connect that inserts the edges in one direction only. *)
connectOneWay(g, R, L) ==
  [v \in DOMAIN g \cup R |-> Entry(g, v) \cup (IF v \in R THEN L \ {v} ELSE {})]

(* adjacency[r].insert(l); adjacency[l].insert(r) for every r in R and l in *)
(* L other than r.  operator[] creates the entries that are missing, so a   *)
(* value has an entry once it has an edge.                                  *)
connect(g, R, L) ==
  LET linked == {r \in R : L \ {r} # {}} \cup {l \in L : R \ {l} # {}}
  IN  [v \in DOMAIN g \cup linked |->
         Entry(g, v) \cup (IF v \in R THEN L \ {v} ELSE {})
                     \cup (IF v \in L THEN R \ {v} ELSE {})]

(* Variant of removeNode that leaves v in its neighbours' sets. *)
removeNodeKeepingEdges(g, v) == [w \in DOMAIN g \ {v} |-> g[w]]

(* removeNode(v).  The loop erases v through adjacency[neighbor], and       *)
(* operator[] creates an entry for a neighbour that has none: in a graph    *)
(* that is not closed under its edges, removal would add nodes.             *)
removeNode(g, v) ==
  IF v \notin DOMAIN g THEN g
  ELSE [w \in (DOMAIN g \cup g[v]) \ {v} |->
          IF w \in g[v] THEN Entry(g, w) \ {v} ELSE g[w]]

-----------------------------------------------------------------------------

(* What the users of the graph rely on: it is closed under its edges,       *)
(* symmetric, and no value neighbours itself.                               *)
IsClosed(g)      == g \in [DOMAIN g -> SUBSET DOMAIN g]
IsSymmetric(g)   == \A v, w \in DOMAIN g : w \in g[v] <=> v \in g[w]
IsIrreflexive(g) == \A v \in DOMAIN g : v \notin g[v]

IsInterferenceGraph(g) == IsClosed(g) /\ IsSymmetric(g) /\ IsIrreflexive(g)

(* Chordal: every part of the graph has a simplicial value, one whose       *)
(* neighbours in it are all connected.                                      *)
Simplicial(g, S, v) == \A u, w \in g[v] \cap S : u # w => w \in g[u]

Chordal(g) ==
  \A S \in (SUBSET DOMAIN g) \ {{}} : \E v \in S : Simplicial(g, S, v)
=============================================================================
