------------------------------- MODULE Chains -------------------------------
(***************************************************************************)
(* The chains of a pipeline graph (compute_chain_info): how the plan's     *)
(* summary and the events number the steps.  The graph is any that the     *)
(* JSON of a plan can hold, cycles and parallel edges included: the plan   *)
(* is summarized before anything sorts it.                                 *)
(***************************************************************************)
EXTENDS Naturals, FiniteSets, SequencesExt

CONSTANTS
  Size,     \* of the graph: its nodes are 1..Size, in index order
  MaxEdges  \* bounds its edges

ASSUME SizeAssumption == Size \in Nat

VARIABLE edges  \* <<parent, child, kind>>

Nodes == 1..Size
Kinds == {"builds_in", "depends_on"}

ChainsInit == edges = {}

AddEdge(p, c, kind) ==
  /\ Cardinality(edges) < MaxEdges
  /\ p # c /\ <<p, c, kind>> \notin edges
  /\ edges' = edges \cup {<<p, c, kind>>}

ChainsNext == \E p, c \in Nodes, kind \in Kinds : AddEdge(p, c, kind)

-----------------------------------------------------------------------------
BuildsInChildren(n) == {c \in Nodes : <<n, c, "builds_in">> \in edges}
EdgesInto(n) == {e \in edges : e[2] = n}

\* (mutant) a step that waits for another one too goes on with the chain
FollowsLoosely(n, c, assigned) == BuildsInChildren(n) = {c} /\ c \notin assigned

\* The chain goes on from n to c.
Follows(n, c, assigned) ==
  /\ BuildsInChildren(n) = {c}
  /\ c \notin assigned
  /\ Cardinality(EdgesInto(c)) = 1

\* The chain with the step it goes on to, if any.
Extended(chain, assigned) ==
  LET on == {c \in Nodes : Follows(Last(chain), c, assigned \cup ToSet(chain))}
  IN IF on = {} THEN chain ELSE Append(chain, CHOOSE c \in on : TRUE)

\* The chain that starts at a node, of those not assigned yet.
ChainFrom(start, assigned) ==
  LET walk[k \in 0..Size] == IF k = 0 THEN <<start>> ELSE Extended(walk[k - 1], assigned)
  IN walk[Size]

Assigned(chains) == UNION {ToSet(chains[i]) : i \in DOMAIN chains}

\* The chains after the first n nodes; a node that is in none starts one.
Chained[n \in 0..Size] ==
  IF n = 0 THEN <<>>
  ELSE LET chains == Chained[n - 1]
       IN IF n \in Assigned(chains) THEN chains ELSE Append(chains, ChainFrom(n, Assigned(chains)))

\* All chains, in the order of their numbers.
ChainInfo == Chained[Size]

ChainCount == Len(ChainInfo)

-----------------------------------------------------------------------------
(* Correctness.                                                             *)

\* c boots from n, which nothing else boots from, and waits for nothing else.
Lineage(n, c) == EdgesInto(c) = {<<n, c, "builds_in">>} /\ BuildsInChildren(n) = {c}

\* Every step is in one chain, once, and a chain is a lineage.
ChainsAreLineages ==
  edges # {} => LET all == ChainInfo IN
  /\ Nodes = Assigned(all)
  /\ \A i, j \in DOMAIN all : \A k \in DOMAIN all[i], l \in DOMAIN all[j] :
       all[i][k] = all[j][l] => i = j /\ k = l
  /\ \A i \in DOMAIN all : \A k \in 2..Len(all[i]) : Lineage(all[i][k - 1], all[i][k])

\* Where every step comes after those it boots from, as the DSL emits them, no
\* chain could be longer: one starts only where a lineage forks, joins a wait or
\* begins.
ChainsAreWhole ==
  edges # {} /\ (\A e \in edges : e[1] < e[2]) =>
    ChainCount = Size - Cardinality({c \in Nodes : \E n \in Nodes : Lineage(n, c)})

\* The chains partition the steps into lineages, and into as few as the rule
\* of one parent and one child allows.
ChainsAreRight == ChainsAreLineages /\ ChainsAreWhole

=============================================================================
