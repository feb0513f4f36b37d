---------------------------- MODULE RoutesProofs ----------------------------
(***************************************************************************)
(* The list is in the order in which autoconnect chooses, every listed     *)
(* node has the endpoint its config names, and no catalog empties the      *)
(* list: for any rows, limits, policies and favorites.                     *)
(***************************************************************************)
EXTENDS Routes, TLAPS, FiniteSetTheorems

-----------------------------------------------------------------------------
(* Least and greatest numbers. *)

(* The sets 0..k are ordered as their ends are, and proper inclusion of    *)
(* finite sets is well-founded.                                            *)
LEMMA LeastNat ==
  ASSUME NEW S \in SUBSET Nat, S # {}
  PROVE  \E m \in S : \A k \in S : m <= k
<1> DEFINE T == {0..k : k \in S}
           R == StrictSubsetOrdering(Nat)
<1>1. T \subseteq FiniteSubsetsOf(Nat)
  <2>1. \A k \in S : IsFiniteSet(0..k) /\ 0..k \in SUBSET Nat
    BY FS_Interval
  <2>2. QED
    BY <2>1 DEF FiniteSubsetsOf
<1>2. T # {}
  OBVIOUS
<1>3. IsWellFoundedOn(R, FiniteSubsetsOf(Nat))
  BY FS_StrictSubsetOrderingWellFounded
<1>4. \E t \in T : \A u \in T : <<u, t>> \notin R
  <2> HIDE DEF T, R
  <2>1. QED
    BY <1>1, <1>2, <1>3, WFMin
<1>5. PICK m \in S : \A k \in S : <<0..k, 0..m>> \notin R
  BY <1>4
<1>6. ASSUME NEW k \in S, k < m PROVE FALSE
  <2>1. 0..k \subseteq 0..m /\ m \notin 0..k /\ m \in 0..m
    BY <1>6
  <2>2. 0..k \in SUBSET Nat /\ 0..m \in SUBSET Nat
    OBVIOUS
  <2>3. <<0..k, 0..m>> \in R
    BY <2>1, <2>2 DEF StrictSubsetOrdering
  <2>4. QED
    BY <1>5, <2>3
<1>7. QED
  BY <1>6

LEMMA MinIs ==
  ASSUME NEW S \in SUBSET Nat, S # {}
  PROVE  Min(S) \in S /\ \A k \in S : Min(S) <= k
BY LeastNat DEF Min

LEMMA MaxIs ==
  ASSUME NEW n \in Nat, NEW S \in SUBSET (0..n), S # {}
  PROVE  Max(S) \in S /\ \A k \in S : Max(S) >= k
<1> DEFINE D == {d \in 0..n : n - d \in S}
<1>1. PICK k \in S : TRUE
  OBVIOUS
<1>2. n - k \in D
  OBVIOUS
<1>3. PICK m \in D : \A d \in D : m <= d
  <2>1. D \subseteq Nat
    OBVIOUS
  <2>2. D # {}
    BY <1>2
  <2> HIDE DEF D
  <2>3. QED
    BY <2>1, <2>2, LeastNat
<1>4. \A j \in S : n - j \in D
  OBVIOUS
<1>5. n - m \in S /\ \A j \in S : n - m >= j
  BY <1>3, <1>4
<1>6. QED
  BY <1>5 DEF Max

-----------------------------------------------------------------------------
(* The order of the list. *)

(* What a node is ordered by is two numbers. *)
Keyed(m) == m.ping \in Int /\ Negated(m.score) \in Int

(* The negation of a score is a number even where it overflows. *)
LEMMA RowsKeyed == \A r \in Rows : Keyed(r)
BY RoutesAssumption DEF RoutesAssumption, Keyed, Negated

(* Better is a strict order, and so is what it leaves open. *)
Less(p, a, q, b) ==
  \/ p > 0 /\ q <= 0
  \/ (p > 0 <=> q > 0) /\ p < q
  \/ p = q /\ a < b

LEMMA BetterOrder ==
  ASSUME NEW m, NEW n, NEW o, Keyed(m), Keyed(n), Keyed(o)
  PROVE  /\ ~(Better(m, n) /\ Better(n, m))
         /\ Better(m, n) /\ Better(n, o) => Better(m, o)
         /\ ~Better(m, n) /\ ~Better(n, o) => ~Better(m, o)
<1>1. \A x, y : Better(x, y) <=> Less(x.ping, Negated(x.score), y.ping, Negated(y.score))
  BY DEF Better, Less
<1>2. \A p, q, r, a, b, c \in Int :
        /\ ~(Less(p, a, q, b) /\ Less(q, b, p, a))
        /\ Less(p, a, q, b) /\ Less(q, b, r, c) => Less(p, a, r, c)
        /\ ~Less(p, a, q, b) /\ ~Less(q, b, r, c) => ~Less(p, a, r, c)
  BY DEF Less
<1>3. QED
  BY <1>1, <1>2 DEF Keyed

(* What is sorted stands at positions. *)
Listed(s) == DOMAIN s \in SUBSET Nat /\ IsFiniteSet(DOMAIN s) /\ \A i \in DOMAIN s : Keyed(s[i])

(* With the positions to decide between equals the order is total. *)
LEMMA BeforeOrder ==
  ASSUME NEW s, Listed(s), NEW i \in DOMAIN s, NEW j \in DOMAIN s, NEW k \in DOMAIN s
  PROVE  /\ ~Before(s, i, i)
         /\ i # j => Before(s, i, j) \/ Before(s, j, i)
         /\ Before(s, i, j) /\ Before(s, j, k) => Before(s, i, k)
<1>1. i \in Nat /\ j \in Nat /\ k \in Nat /\ Keyed(s[i]) /\ Keyed(s[j]) /\ Keyed(s[k])
  BY DEF Listed
<1>2. ~Before(s, i, i)
  BY <1>1, BetterOrder DEF Before
<1>3. i # j => Before(s, i, j) \/ Before(s, j, i)
  BY <1>1 DEF Before
<1>4. ASSUME Before(s, i, j), Before(s, j, k) PROVE Before(s, i, k)
  <2>1. ~Better(s[k], s[j]) /\ ~Better(s[j], s[i])
    BY <1>1, <1>4, BetterOrder DEF Before
  <2>2. ~Better(s[k], s[i])
    BY <1>1, <2>1, BetterOrder
  <2>3. CASE Better(s[i], s[j]) \/ Better(s[j], s[k])
    <3>1. Better(s[i], s[k])
      <4>1. SUFFICES ASSUME ~Better(s[i], s[k]) PROVE FALSE
        OBVIOUS
      <4>2. CASE Better(s[i], s[j])
        BY <1>1, <2>1, <4>1, <4>2, BetterOrder
      <4>3. CASE Better(s[j], s[k])
        BY <1>1, <2>1, <4>1, <4>3, BetterOrder
      <4>4. QED
        BY <2>3, <4>2, <4>3
    <3>2. QED
      BY <3>1 DEF Before
  <2>4. CASE i < j /\ j < k
    BY <1>1, <2>2, <2>4 DEF Before
  <2>5. QED
    BY <1>4, <2>3, <2>4 DEF Before
<1>5. QED
  BY <1>2, <1>3, <1>4

-----------------------------------------------------------------------------
(* Sorting. *)

Below(s, i) == {j \in DOMAIN s : Before(s, j, i)}

(* A rank is one of the new positions. *)
LEMMA RankType ==
  ASSUME NEW s, Listed(s), NEW i \in DOMAIN s
  PROVE  /\ IsFiniteSet(Below(s, i)) /\ Cardinality(Below(s, i)) \in Nat
         /\ Rank(s, i) = Cardinality(Below(s, i)) + 1
         /\ Cardinality(DOMAIN s) \in Nat
         /\ Rank(s, i) \in 1..Cardinality(DOMAIN s)
<1>1. IsFiniteSet(DOMAIN s) /\ Cardinality(DOMAIN s) \in Nat
  BY FS_CardinalityType DEF Listed
<1>2. Below(s, i) \in SUBSET DOMAIN s
  BY DEF Below
<1>3. /\ IsFiniteSet(Below(s, i)) /\ Cardinality(Below(s, i)) <= Cardinality(DOMAIN s)
      /\ Cardinality(DOMAIN s) = Cardinality(Below(s, i)) => DOMAIN s = Below(s, i)
  BY <1>1, <1>2, FS_Subset
<1>4. Cardinality(Below(s, i)) \in Nat
  BY <1>3, FS_CardinalityType
<1>5. i \notin Below(s, i)
  BY BeforeOrder DEF Below
<1>6. Rank(s, i) = Cardinality(Below(s, i)) + 1
  BY DEF Rank, Below
<1>7. QED
  BY <1>1, <1>3, <1>4, <1>5, <1>6

(* Who comes before has the lower rank. *)
LEMMA RankOrder ==
  ASSUME NEW s, Listed(s), NEW i \in DOMAIN s, NEW j \in DOMAIN s, Before(s, i, j)
  PROVE  Rank(s, i) < Rank(s, j)
<1>1. Below(s, i) \in SUBSET Below(s, j)
  BY BeforeOrder DEF Below
<1>2. i \in Below(s, j) /\ i \notin Below(s, i)
  BY BeforeOrder DEF Below
<1>3. /\ Cardinality(Below(s, i)) <= Cardinality(Below(s, j))
      /\ Cardinality(Below(s, i)) # Cardinality(Below(s, j))
  BY <1>1, <1>2, RankType, FS_Subset
<1>4. QED
  BY <1>3, RankType

(* So every position is the rank of one element. *)
LEMMA RankOnto ==
  ASSUME NEW s, Listed(s), NEW k \in 1..Cardinality(DOMAIN s)
  PROVE  \E i \in DOMAIN s : Rank(s, i) = k
<1> DEFINE D == DOMAIN s
           n == Cardinality(D)
           f == [i \in D |-> Rank(s, i)]
<1>1. IsFiniteSet(D) /\ n \in Nat /\ n = Cardinality(D)
  BY FS_CardinalityType DEF Listed
<1>2. IsFiniteSet(1..n) /\ Cardinality(1..n) = n
  BY <1>1, FS_Interval
<1>3. f \in [D -> 1..n]
  BY RankType
<1>4. ASSUME NEW i \in D, NEW j \in D, i # j PROVE f[i] # f[j]
  <2>1. Rank(s, i) < Rank(s, j) \/ Rank(s, j) < Rank(s, i)
    BY <1>4, BeforeOrder, RankOrder
  <2>2. Rank(s, i) \in Nat /\ Rank(s, j) \in Nat
    BY RankType
  <2>3. QED
    BY <2>1, <2>2
<1>5. f \in Injection(D, 1..n)
  BY <1>3, <1>4 DEF Injection, IsInjective
<1>6. f \in Surjection(D, 1..n)
  <2> HIDE DEF D, n, f
  <2>1. QED
    BY <1>1, <1>2, <1>5, FS_Injection
<1>7. QED
  BY <1>6 DEF Surjection

(* Sorting moves the elements to as many positions, none in front of one   *)
(* that is better.                                                         *)
LEMMA SortedIs ==
  ASSUME NEW s, Listed(s)
  PROVE  /\ Cardinality(DOMAIN s) \in Nat
         /\ DOMAIN Sorted(s) = 1..Cardinality(DOMAIN s)
         /\ \A k \in DOMAIN Sorted(s) : \E i \in DOMAIN s : Sorted(s)[k] = s[i]
         /\ \A k, l \in DOMAIN Sorted(s) : k < l => ~Better(Sorted(s)[l], Sorted(s)[k])
<1> DEFINE n == Cardinality(DOMAIN s)
           At(k) == CHOOSE i \in DOMAIN s : Rank(s, i) = k
<1>1. n \in Nat
  BY FS_CardinalityType DEF Listed
<1>2. DOMAIN Sorted(s) = 1..n /\ \A k \in 1..n : Sorted(s)[k] = s[At(k)]
  BY DEF Sorted
<1>3. \A k \in 1..n : At(k) \in DOMAIN s /\ Rank(s, At(k)) = k
  BY RankOnto
<1> HIDE DEF n, At
<1>4. ASSUME NEW k \in 1..n, NEW l \in 1..n, k < l PROVE ~Better(s[At(l)], s[At(k)])
  <2>1. At(k) # At(l) /\ ~(Rank(s, At(l)) < Rank(s, At(k)))
    BY <1>1, <1>3, <1>4
  <2>2. Before(s, At(k), At(l))
    BY <1>3, <2>1, BeforeOrder, RankOrder
  <2>3. Keyed(s[At(k)]) /\ Keyed(s[At(l)])
    BY <1>3 DEF Listed
  <2>4. QED
    BY <2>2, <2>3, BetterOrder DEF Before
<1>5. QED
  BY <1>1, <1>2, <1>3, <1>4 DEF n

-----------------------------------------------------------------------------
(* The list. *)

NodeType ==
  [id : Ids, country : {r.country : r \in Rows}, ping : Int, score : Int,
   endpoint : Range(Endpoint), config : {r.lines : r \in Rows},
   status : {"new", "available", "failed", "active"}]

(* A node's config and endpoint are of one row that has one. *)
OfRow(n) == \E r \in WithEndpoint : n.config = r.lines /\ n.endpoint = Endpoint[r]

InOrder(ns) == \A k, l \in DOMAIN ns : k < l => ~Better(ns[l], ns[k])

ListOK(ns) ==
  /\ ns \in Seq(NodeType) /\ Len(ns) <= MaxNodes
  /\ InOrder(ns) /\ \A k \in DOMAIN ns : OfRow(ns[k])

LEMMA NodesKeyed == \A n \in NodeType : Keyed(n)
BY RoutesAssumption DEF NodeType, Keyed, Negated, RoutesAssumption

(* A usable row makes a node. *)
LEMMA NodeIs ==
  ASSUME NEW r \in WithEndpoint, NEW favorites
  PROVE  Node(r, favorites) \in NodeType /\ OfRow(Node(r, favorites))
<1>1. r \in Rows /\ Id[r] \in Ids /\ Endpoint[r] \in Range(Endpoint)
  BY DEF WithEndpoint, Ids, Id, Range, Endpoint
<1>2. r.ping \in Int /\ r.score \in Int
  BY <1>1, RoutesAssumption DEF RoutesAssumption
<1>3. QED
  BY <1>1, <1>2 DEF Node, NodeType, OfRow

(* What a catalog makes of its usable rows is a list in order. *)
LEMMA CatalogIs ==
  ASSUME NEW table \in Tables, NEW favorites
  PROVE  ListOK(Catalog(table, favorites))
<1> DEFINE U == Usable(table)
           s == [i \in U |-> Node(table[i], favorites)]
           c == Catalog(table, favorites)
           n == Cardinality(U)
<1>1. U \in SUBSET (1..MaxNodes) /\ \A i \in U : table[i] \in WithEndpoint
  BY RoutesAssumption DEF Usable, Kept, Tables, RoutesAssumption
<1>2. IsFiniteSet(U) /\ n \in Nat /\ n <= MaxNodes
  <2>1. IsFiniteSet(1..MaxNodes) /\ Cardinality(1..MaxNodes) = MaxNodes
    BY RoutesAssumption, FS_Interval DEF RoutesAssumption
  <2>2. QED
    BY <1>1, <2>1, FS_Subset, FS_CardinalityType
<1>3. \A i \in U : s[i] \in NodeType /\ OfRow(s[i])
  BY <1>1, NodeIs
<1>4. Listed(s)
  BY <1>1, <1>2, <1>3, NodesKeyed DEF Listed
<1>5. c = Sorted(s)
  BY DEF Catalog
<1> HIDE DEF s, c, U, n
<1>6. DOMAIN s = U
  BY DEF s
<1>7. /\ DOMAIN c = 1..n /\ \A k \in 1..n : \E i \in U : c[k] = s[i]
      /\ InOrder(c)
  BY <1>4, <1>5, <1>6, SortedIs DEF n, InOrder
<1>8. c = [k \in 1..n |-> c[k]]
  BY <1>5, <1>6 DEF Sorted, n
<1>9. c \in [1..n -> NodeType]
  BY <1>3, <1>7, <1>8
<1>10. c \in Seq(NodeType) /\ Len(c) = n
  BY <1>2, <1>9
<1>11. QED
  BY <1>2, <1>3, <1>7, <1>10 DEF ListOK, c

(* The order of the list is that of the choice: the first shown is chosen. *)
LEMMA FirstIs ==
  ASSUME NEW ns, ListOK(ns), NEW S \in SUBSET DOMAIN ns, S # {}
  PROVE  First(ns, S) = Min(S) /\ Min(S) \in S /\ \A k \in S : Min(S) <= k
<1> DEFINE Q(i) == \A j \in S : ~Better(ns[j], ns[i]) /\ (j < i => Better(ns[i], ns[j]))
<1>1. S \in SUBSET Nat
  BY DEF ListOK
<1>2. Min(S) \in S /\ \A k \in S : Min(S) <= k
  BY <1>1, MinIs
<1>3. \A k, l \in S : k < l => ~Better(ns[l], ns[k])
  BY DEF ListOK, InOrder
<1>4. \A k \in S : ~Better(ns[k], ns[k])
  BY BetterOrder, NodesKeyed DEF ListOK
<1>5. Q(Min(S))
  BY <1>1, <1>2, <1>3, <1>4
<1>6. ASSUME NEW i \in S, Q(i) PROVE i = Min(S)
  BY <1>1, <1>2, <1>3, <1>6
<1> HIDE DEF Q
<1>7. (CHOOSE i \in S : Q(i)) = Min(S)
  BY <1>2, <1>5, <1>6
<1>8. QED
  BY <1>2, <1>7 DEF First, Q

(* Statuses alone leave a list a list. *)
LEMMA StatusKeeps ==
  ASSUME NEW ns, ListOK(ns), NEW t \in [DOMAIN ns -> {"new", "available", "failed", "active"}],
         NEW new, new = [i \in DOMAIN ns |-> [ns[i] EXCEPT !.status = t[i]]]
  PROVE  ListOK(new)
<1>1. ns \in [1..Len(ns) -> NodeType] /\ Len(ns) \in Nat /\ Len(ns) <= MaxNodes
  BY DEF ListOK
<1>2. \A i \in DOMAIN ns : /\ new[i] \in NodeType /\ new[i].ping = ns[i].ping
                           /\ new[i].score = ns[i].score /\ new[i].config = ns[i].config
                           /\ new[i].endpoint = ns[i].endpoint
  <2>1. ASSUME NEW n \in NodeType, NEW u \in {"new", "available", "failed", "active"},
               NEW m, m = [n EXCEPT !.status = u]
        PROVE  /\ m \in NodeType /\ m.ping = n.ping /\ m.score = n.score
               /\ m.config = n.config /\ m.endpoint = n.endpoint
    BY <2>1 DEF NodeType
  <2>2. \A i \in DOMAIN ns : /\ ns[i] \in NodeType
                             /\ t[i] \in {"new", "available", "failed", "active"}
                             /\ new[i] = [ns[i] EXCEPT !.status = t[i]]
    BY <1>1
  <2> HIDE DEF NodeType
  <2>3. QED
    BY <2>1, <2>2
<1>3. new \in [1..Len(ns) -> NodeType]
  BY <1>1, <1>2
<1>4. new \in Seq(NodeType) /\ Len(new) = Len(ns)
  BY <1>1, <1>3
<1>5. InOrder(new)
  BY <1>2 DEF ListOK, InOrder, Better
<1>6. \A k \in DOMAIN new : OfRow(new[k])
  BY <1>2 DEF ListOK, OfRow
<1>7. QED
  BY <1>1, <1>4, <1>5, <1>6 DEF ListOK

-----------------------------------------------------------------------------
(* The invariant. *)

RoutesInv == ListOK(nodes) /\ IsPolicy(settings) /\ picked \in Ids \cup {None}

LEMMA RoutesInit == Init => RoutesInv
<1> SUFFICES ASSUME Init PROVE RoutesInv
  OBVIOUS
<1>1. ListOK(<<>>)
  BY RoutesAssumption DEF ListOK, InOrder, RoutesAssumption
<1>2. IsPolicy(DefaultPolicy)
  BY DEF IsPolicy, DefaultPolicy, Modes
<1>3. QED
  BY <1>1, <1>2 DEF Init, RoutesInv

(* A step of the list keeps it a list. *)
LEMMA RoutesList ==
  ASSUME RoutesInv,
         \/ \E table \in Tables : Refresh(table)
         \/ \E id \in Ids, s \in {"available", "failed"} : SetStatus(id, s)
         \/ \E id \in Ids \cup {None} : Activate(id)
  PROVE  RoutesInv'
<1> USE DEF RoutesInv
<1>1. ASSUME NEW table \in Tables, Refresh(table) PROVE ListOK(nodes')
  BY <1>1, CatalogIs DEF Refresh
<1>2. nodes \in [1..Len(nodes) -> NodeType] /\ Len(nodes) \in Nat
  BY DEF ListOK
<1>3. ASSUME NEW id, NEW s \in {"available", "failed"}, SetStatus(id, s)
      PROVE  ListOK(nodes')
  <2>1. PICK i \in DOMAIN nodes : nodes' = [nodes EXCEPT ![i].status = s]
    BY <1>3 DEF SetStatus
  <2> DEFINE t == [j \in DOMAIN nodes |-> IF j = i THEN s ELSE nodes[j].status]
  <2>2. t \in [DOMAIN nodes -> {"new", "available", "failed", "active"}]
    BY <1>2 DEF NodeType
  <2>3. nodes' = [j \in DOMAIN nodes |-> [nodes[j] EXCEPT !.status = t[j]]]
    BY <1>2, <2>1 DEF NodeType
  <2> HIDE DEF t
  <2>4. QED
    BY <2>2, <2>3, StatusKeeps
<1>4. ASSUME NEW id, Activate(id) PROVE ListOK(nodes')
  <2> DEFINE t == [j \in DOMAIN nodes |->
                     IF nodes[j].id = id THEN "active"
                     ELSE IF nodes[j].status = "active" THEN "new" ELSE nodes[j].status]
  <2>1. t \in [DOMAIN nodes -> {"new", "available", "failed", "active"}]
    BY <1>2 DEF NodeType
  <2>2. nodes' = [j \in DOMAIN nodes |-> [nodes[j] EXCEPT !.status = t[j]]]
    BY <1>2, <1>4 DEF Activate, NodeType
  <2> HIDE DEF t
  <2>3. QED
    BY <2>1, <2>2, StatusKeeps
<1>6. UNCHANGED <<settings, picked>>
  BY DEF Refresh, SetStatus, Activate
<1>7. QED
  BY <1>1, <1>3, <1>4, <1>6

(* The candidates stand in the list. *)
LEMMA CandidatesType ==
  ASSUME IsPolicy(settings)
  PROVE  Candidates(nodes, settings) \in SUBSET DOMAIN nodes
BY DEF Candidates, NotFailed, IsPolicy, Modes

(* Listed nodes have ids. *)
LEMMA ListedIds ==
  ASSUME ListOK(nodes)
  PROVE  \A i \in DOMAIN nodes : nodes[i].id \in Ids
<1>1. nodes \in [1..Len(nodes) -> NodeType]
  BY DEF ListOK
<1>2. QED
  BY <1>1 DEF NodeType

(* One step of any kind keeps the invariant. *)
LEMMA RoutesNext ==
  ASSUME RoutesInv, [Next]_vars
  PROVE  RoutesInv'
<1>1. CASE \E id \in Ids : ToggleFavorite(id)
  <2>1. IsPolicy(settings')
    BY <1>1 DEF ToggleFavorite, RoutesInv, IsPolicy
  <2>2. QED
    BY <1>1, <2>1 DEF ToggleFavorite, RoutesInv
<1>2. CASE \E policy \in Policies : UpdateSettings(policy)
  BY <1>2, PolicyAssumption DEF UpdateSettings, RoutesInv, PolicyAssumption
<1>3. CASE AutoConnect
  <2> DEFINE S == Candidates(nodes, settings)
  <2>1. S \in SUBSET DOMAIN nodes
    BY CandidatesType DEF RoutesInv
  <2>2. S # {} => First(nodes, S) \in DOMAIN nodes
    BY <2>1, FirstIs DEF RoutesInv
  <2>3. \A i \in DOMAIN nodes : nodes[i].id \in Ids
    BY ListedIds DEF RoutesInv
  <2>4. picked' \in Ids \cup {None}
    BY <1>3, <2>2, <2>3 DEF AutoConnect, Select
  <2>5. QED
    BY <1>3, <2>4 DEF AutoConnect, RoutesInv
<1>4. CASE UNCHANGED vars
  BY <1>4 DEF vars, RoutesInv
<1>5. QED
  BY <1>1, <1>2, <1>3, <1>4, RoutesList DEF Next

(* The invariant of every state. *)
LEMMA RoutesInvariant == Spec => []RoutesInv
<1>1. RoutesInv /\ [Next]_vars => RoutesInv'
  BY RoutesNext
<1>2. QED
  BY <1>1, RoutesInit, PTL DEF Spec

(* The list, the settings and the answer keep their types, and no catalog  *)
(* is longer than the limit.                                               *)
THEOREM TypeCorrect == Spec => []TypeOK
<1>1. RoutesInv => TypeOK
  BY DEF RoutesInv, ListOK, TypeOK, NodeType
<1>2. QED
  BY <1>1, RoutesInvariant, PTL

-----------------------------------------------------------------------------
(* The choice. *)

(* The filters of select_node leave what the policy allows. *)
LEMMA AllowedIs ==
  ASSUME RoutesInv
  PROVE  /\ settings.enabled => Candidates(nodes, settings) = Allowed
         /\ ~settings.enabled => Allowed = {}
         /\ Allowed \in SUBSET DOMAIN nodes
<1>1. /\ settings.mode \in Modes /\ settings.enabled \in BOOLEAN
      /\ settings.fallback \in BOOLEAN
  BY DEF RoutesInv, IsPolicy
<1>2. NotFailed(nodes) = Working
  BY DEF NotFailed, Working
<1>3. {i \in Working : nodes[i].id \in settings.favorites} = Working \cap Favorite
  BY DEF Working, Favorite
<1>4. ASSUME settings.enabled PROVE Candidates(nodes, settings) = Allowed
  <2>1. CASE settings.mode = "auto"
    BY <1>2, <1>4, <2>1 DEF Candidates, Allowed
  <2>2. CASE settings.mode = "fixed_country"
    BY <1>2, <1>4, <2>2 DEF Candidates, Allowed
  <2>3. CASE settings.mode = "fixed_node"
    BY <1>2, <1>4, <2>3 DEF Candidates, Allowed
  <2>4. CASE settings.mode = "favorites"
    <3>1. Candidates(nodes, settings) =
            IF Working \cap Favorite # {} \/ ~settings.fallback
            THEN Working \cap Favorite ELSE Working
      BY <1>2, <1>3, <2>4 DEF Candidates
    <3>2. Allowed = {i \in Working : i \notin Favorite =>
                       settings.fallback /\ Working \cap Favorite = {}}
      BY <1>4, <2>4 DEF Allowed
    <3>3. QED
      BY <1>1, <3>1, <3>2
  <2>5. QED
    BY <1>1, <2>1, <2>2, <2>3, <2>4 DEF Modes
<1>5. QED
  BY <1>4 DEF Allowed, Working

(* So autoconnect picks the first of them. *)
LEMMA PickIs ==
  ASSUME RoutesInv, AutoConnect
  PROVE  /\ Allowed = {} => picked' = None
         /\ Allowed # {} => /\ Min(Allowed) \in Allowed /\ picked' = nodes[Min(Allowed)].id
                            /\ picked' # None
<1>1. CASE Allowed = {}
  BY <1>1, AllowedIs DEF AutoConnect, Select
<1>2. CASE Allowed # {}
  <2>1. Min(Allowed) \in Allowed /\ First(nodes, Allowed) = Min(Allowed)
    BY <1>2, AllowedIs, FirstIs DEF RoutesInv
  <2>2. picked' = nodes[Min(Allowed)].id
    BY <1>2, <2>1, AllowedIs DEF AutoConnect, Select, RoutesInv, IsPolicy
  <2>3. nodes[Min(Allowed)].id \in Ids
    BY <2>1, AllowedIs, ListedIds DEF RoutesInv
  <2>4. QED
    BY <1>2, <2>1, <2>2, <2>3, IdAssumption DEF IdAssumption
<1>3. QED
  BY <1>1, <1>2

(* Autoconnect keeps to the policy, and gives up only where it must. *)
THEOREM PickAllowedHolds == Spec => PickAllowed
<1>1. RoutesInv /\ [Next]_vars =>
        [AutoConnect =>
           IF picked' = None THEN Allowed = {}
           ELSE \E i \in Allowed : picked' = nodes[i].id]_vars
  BY PickIs
<1>2. QED
  BY <1>1, RoutesInvariant, PTL DEF Spec, PickAllowed

(* A preferable node stands before in the list, or its score overflows. *)
LEMMA PreferableFirst ==
  ASSUME ListOK(nodes), NEW i \in DOMAIN nodes, NEW j \in DOMAIN nodes, i <= j,
         Preferable(nodes[j], nodes[i])
  PROVE  nodes[i].score = -Half /\ nodes[j].ping = nodes[i].ping
<1> DEFINE m == nodes[j]
           n == nodes[i]
<1>1. nodes \in [1..Len(nodes) -> NodeType]
  BY DEF ListOK
<1>2. m.ping \in Int /\ n.ping \in Int /\ m.score \in Int /\ n.score \in Int /\ Half \in Nat
  BY <1>1, RoutesAssumption DEF NodeType, RoutesAssumption
<1>3. i # j
  BY <1>2 DEF Preferable
<1>4. ~Better(m, n)
  BY <1>1, <1>3 DEF ListOK, InOrder
<1>5. m.ping = n.ping /\ m.score > n.score
  BY <1>2, <1>4 DEF Preferable, Better
<1>6. ~(Negated(m.score) < Negated(n.score))
  BY <1>4, <1>5 DEF Better
<1> HIDE DEF m, n
<1>7. n.score = -Half
  BY <1>2, <1>5, <1>6 DEF Negated
<1>8. QED
  BY <1>5, <1>7 DEF m, n

(* It picks the best of what the policy allows, whatever the statuses have *)
(* become since the list was ordered.                                      *)
THEOREM PickBestHolds == Spec => PickBest
<1>1. ASSUME RoutesInv, AutoConnect, Allowed # {}
      PROVE  \E i \in Allowed :
               /\ picked' = nodes[i].id
               /\ \A j \in Allowed :
                    Preferable(nodes[j], nodes[i]) =>
                      nodes[i].score = -Half /\ nodes[j].ping = nodes[i].ping
  <2>1. Allowed \in SUBSET DOMAIN nodes /\ DOMAIN nodes \in SUBSET Nat
    BY <1>1, AllowedIs DEF RoutesInv, ListOK
  <2>2. Min(Allowed) \in Allowed /\ \A j \in Allowed : Min(Allowed) <= j
    BY <1>1, <2>1, FirstIs DEF RoutesInv
  <2>3. picked' = nodes[Min(Allowed)].id
    BY <1>1, PickIs
  <2>4. ListOK(nodes)
    BY <1>1 DEF RoutesInv
  <2>5. \A j \in Allowed :
          Preferable(nodes[j], nodes[Min(Allowed)]) =>
            nodes[Min(Allowed)].score = -Half /\ nodes[j].ping = nodes[Min(Allowed)].ping
    BY <2>1, <2>2, <2>4, PreferableFirst
  <2>6. QED
    BY <2>2, <2>3, <2>5
<1>2. RoutesInv /\ [Next]_vars =>
        [AutoConnect /\ Allowed # {} =>
           \E i \in Allowed :
             /\ picked' = nodes[i].id
             /\ \A j \in Allowed :
                  Preferable(nodes[j], nodes[i]) =>
                    nodes[i].score = -Half /\ nodes[j].ping = nodes[i].ping]_vars
  BY <1>1
<1>3. QED
  BY <1>2, RoutesInvariant, PTL DEF Spec, PickBest

-----------------------------------------------------------------------------
(* The endpoint of a config. *)

Start(r) == [host |-> r.ip, port |-> 0, proto |-> "unknown"]

(* What has been read after each of the first n lines. *)
IsReading(r, n, at) ==
  at = [k \in 0..n |-> IF k = 0 THEN Start(r) ELSE Read(at[k - 1], r.lines[k])]

(* There is such a thing, or there would be a least n without. *)
LEMMA ReadingExists ==
  ASSUME NEW r, NEW n \in Nat
  PROVE  \E at : IsReading(r, n, at)
<1> DEFINE Bad == {m \in Nat : ~\E at : IsReading(r, m, at)}
<1>1. SUFFICES ASSUME Bad # {} PROVE FALSE
  OBVIOUS
<1>2. PICK m \in Bad : \A k \in Bad : m <= k
  <2>1. Bad \in SUBSET Nat
    OBVIOUS
  <2> HIDE DEF Bad
  <2>2. QED
    BY <1>1, <2>1, LeastNat
<1>3. m \in Nat /\ ~\E at : IsReading(r, m, at)
  BY <1>2
<1>4. CASE m = 0
  <2> DEFINE new == [k \in 0..m |-> Start(r)]
  <2>1. IsReading(r, m, new)
    BY <1>4 DEF IsReading
  <2>2. QED
    BY <1>3, <2>1
<1>5. CASE m # 0
  <2>1. m - 1 \in Nat /\ m - 1 \notin Bad
    BY <1>2, <1>3, <1>5
  <2>2. PICK at : IsReading(r, m - 1, at)
    BY <2>1
  <2> DEFINE new == [k \in 0..m |-> IF k = m THEN Read(at[m - 1], r.lines[m]) ELSE at[k]]
  <2>3. \A k \in 0..m - 1 : /\ new[k] = at[k]
                            /\ at[k] = IF k = 0 THEN Start(r) ELSE Read(at[k - 1], r.lines[k])
    BY <1>3, <2>2 DEF IsReading
  <2>4. ASSUME NEW k \in 0..m
        PROVE  new[k] = IF k = 0 THEN Start(r) ELSE Read(new[k - 1], r.lines[k])
    <3>1. CASE k = m
      <4>1. m - 1 \in 0..m - 1 /\ m \in 0..m
        BY <1>3, <1>5
      <4>2. new[m - 1] = at[m - 1] /\ new[m] = Read(at[m - 1], r.lines[m])
        BY <2>3, <4>1
      <4> HIDE DEF new
      <4>3. QED
        BY <1>5, <3>1, <4>2
    <3>2. CASE k # m
      <4>1. k \in 0..m - 1 /\ (k # 0 => k - 1 \in 0..m - 1)
        BY <1>3, <3>2
      <4> HIDE DEF new
      <4>2. QED
        BY <2>3, <4>1
    <3>3. QED
      BY <3>1, <3>2
  <2>5. IsReading(r, m, new)
    <3>1. new = [k \in 0..m |-> new[k]]
      OBVIOUS
    <3> HIDE DEF new
    <3>2. QED
      BY <2>4, <3>1 DEF IsReading
  <2>6. QED
    BY <1>3, <2>5
<1>6. QED
  BY <1>4, <1>5

(* The endpoint of a row is what has been read at its end. *)
LEMMA EndpointIs ==
  ASSUME NEW r \in Rows
  PROVE  \E at : IsReading(r, Len(r.lines), at) /\ Endpoint[r] = at[Len(r.lines)]
<1>1. Len(r.lines) \in Nat
  BY RoutesAssumption DEF RoutesAssumption
<1> DEFINE at == CHOOSE f : IsReading(r, Len(r.lines), f)
<1>2. IsReading(r, Len(r.lines), at)
  BY <1>1, ReadingExists
<1>3. Endpoint[r] = at[Len(r.lines)]
  BY DEF Endpoint, IsReading, Start
<1>4. QED
  BY <1>2, <1>3

(* The lines among the first k that say something, as EndpointFits names   *)
(* them.                                                                   *)
Remotes(lines, k) == {i \in 1..k : lines[i][1] = "remote" /\ Len(lines[i]) > 2}
Protos(lines, k) ==
  {i \in Remotes(lines, k) : Len(lines[i]) > 3} \cup
  {i \in 1..k : lines[i][1] = "proto" /\ Len(lines[i]) > 1}

LastOf(S, i) == i \in S /\ \A j \in S : j <= i

(* What is read after k lines is what the last of them say. *)
ReadOK(r, k, e) ==
  LET R == Remotes(r.lines, k)
      P == Protos(r.lines, k)
  IN /\ e = [host |-> e.host, port |-> e.port, proto |-> e.proto]
     /\ R = {} => e.port = 0
     /\ \A i : LastOf(R, i) => e.host = r.lines[i][2] /\ e.port = r.lines[i][3]
     /\ P = {} => e.proto = "unknown"
     /\ \A i : LastOf(P, i) => e.proto = r.lines[i][IF i \in R THEN 4 ELSE 2]

(* One more line. *)
LEMMA ReadLine ==
  ASSUME NEW r \in Rows, NEW k \in 1..Len(r.lines), NEW e, ReadOK(r, k - 1, e)
  PROVE  ReadOK(r, k, Read(e, r.lines[k]))
<1> DEFINE line == r.lines[k]
           R == Remotes(r.lines, k)
           P == Protos(r.lines, k)
           R1 == Remotes(r.lines, k - 1)
           P1 == Protos(r.lines, k - 1)
           f == Read(e, line)
<1>1. Len(line) \in Nat /\ k \in Nat /\ k > 0
  BY RoutesAssumption DEF RoutesAssumption
<1>2. /\ e = [host |-> e.host, port |-> e.port, proto |-> e.proto]
      /\ R1 = {} => e.port = 0
      /\ \A i : LastOf(R1, i) => e.host = r.lines[i][2] /\ e.port = r.lines[i][3]
      /\ P1 = {} => e.proto = "unknown"
      /\ \A i : LastOf(P1, i) => e.proto = r.lines[i][IF i \in R1 THEN 4 ELSE 2]
  BY DEF ReadOK
<1>3. 1..k = (1..k - 1) \cup {k} /\ k \notin 1..k - 1
  BY <1>1
<1>4. R = R1 \cup (IF line[1] = "remote" /\ Len(line) > 2 THEN {k} ELSE {})
  BY <1>3 DEF Remotes
<1>5. P = P1 \cup (IF \/ line[1] = "remote" /\ Len(line) > 3
                      \/ line[1] = "proto" /\ Len(line) > 1 THEN {k} ELSE {})
  BY <1>1, <1>3 DEF Protos, Remotes
<1>6. R1 \subseteq 1..k - 1 /\ P1 \subseteq 1..k - 1
  BY DEF Remotes, Protos
<1>7. ASSUME NEW S, NEW T, S \subseteq 1..k - 1, T = S \cup {k}, NEW i, LastOf(T, i)
      PROVE  i = k
  BY <1>1, <1>7 DEF LastOf
<1> HIDE DEF R, P, R1, P1
<1>8. CASE line[1] = "remote" /\ Len(line) > 2
  <2>1. f = [host |-> line[2], port |-> line[3],
             proto |-> IF Len(line) > 3 THEN line[4] ELSE e.proto]
    BY <1>1, <1>8 DEF Read
  <2> HIDE DEF f
  <2>2. R = R1 \cup {k} /\ P = IF Len(line) > 3 THEN P1 \cup {k} ELSE P1
    BY <1>1, <1>4, <1>5, <1>8
  <2>3. \A i : LastOf(R, i) => i = k
    BY <1>6, <1>7, <2>2
  <2>4. \A i : LastOf(P, i) => f.proto = r.lines[i][IF i \in R THEN 4 ELSE 2]
    <3>1. CASE Len(line) > 3
      <4>1. \A i : LastOf(P, i) => i = k
        BY <1>6, <1>7, <2>2, <3>1
      <4>2. QED
        BY <2>1, <2>2, <3>1, <4>1
    <3>2. CASE ~(Len(line) > 3)
      <4>1. \A i \in P1 : i \in R <=> i \in R1
        BY <1>3, <1>6, <2>2
      <4>2. QED
        BY <1>2, <2>1, <2>2, <3>2, <4>1 DEF LastOf
    <3>3. QED
      BY <3>1, <3>2
  <2>5. P = {} => f.proto = "unknown"
    BY <1>2, <2>1, <2>2
  <2>6. ReadOK(r, k, f)
    BY <2>1, <2>2, <2>3, <2>4, <2>5 DEF ReadOK, R, P
  <2>7. QED
    BY <2>6 DEF f
<1>9. CASE line[1] = "proto" /\ Len(line) > 1
  <2>1. f = [host |-> e.host, port |-> e.port, proto |-> line[2]]
    BY <1>1, <1>2, <1>9 DEF Read
  <2> HIDE DEF f
  <2>2. R = R1 /\ P = P1 \cup {k} /\ k \notin R1
    BY <1>3, <1>4, <1>5, <1>6, <1>9
  <2>3. \A i : LastOf(P, i) => i = k
    BY <1>6, <1>7, <2>2
  <2>4. ReadOK(r, k, f)
    BY <1>2, <2>1, <2>2, <2>3 DEF ReadOK, R, P
  <2>5. QED
    BY <2>4 DEF f
<1>10. CASE ~(line[1] = "remote" /\ Len(line) > 2) /\ ~(line[1] = "proto" /\ Len(line) > 1)
  <2>1. f = e
    BY <1>1, <1>10 DEF Read
  <2> HIDE DEF f
  <2>2. R = R1 /\ P = P1
    BY <1>1, <1>4, <1>5, <1>10
  <2>3. ReadOK(r, k, f)
    BY <1>2, <2>1, <2>2 DEF ReadOK, R, P
  <2>4. QED
    BY <2>3 DEF f
<1>11. QED
  BY <1>8, <1>9, <1>10

(* All lines: or there would be a first one at which the reading is wrong. *)
LEMMA ReadAll ==
  ASSUME NEW r \in Rows
  PROVE  ReadOK(r, Len(r.lines), Endpoint[r])
<1> DEFINE n == Len(r.lines)
<1>1. n \in Nat
  BY RoutesAssumption DEF RoutesAssumption
<1> HIDE DEF n
<1>2. PICK at : IsReading(r, n, at) /\ Endpoint[r] = at[n]
  BY EndpointIs DEF n
<1>3. \A k \in 0..n : at[k] = IF k = 0 THEN Start(r) ELSE Read(at[k - 1], r.lines[k])
  BY <1>2 DEF IsReading
<1> DEFINE Bad == {k \in 0..n : ~ReadOK(r, k, at[k])}
<1>4. ASSUME Bad # {} PROVE FALSE
  <2>1. PICK m \in Bad : \A k \in Bad : m <= k
    <3>1. Bad \in SUBSET Nat
      OBVIOUS
    <3> HIDE DEF Bad
    <3>2. QED
      BY <1>4, <3>1, LeastNat
  <2>2. m \in 0..n /\ ~ReadOK(r, m, at[m])
    BY <2>1
  <2>3. CASE m = 0
    <3>1. at[m] = Start(r)
      BY <1>3, <2>2, <2>3
    <3>2. Remotes(r.lines, 0) = {} /\ Protos(r.lines, 0) = {}
      BY DEF Remotes, Protos
    <3>3. \A i : ~LastOf({}, i)
      BY DEF LastOf
    <3>4. ReadOK(r, 0, Start(r))
      BY <3>2, <3>3 DEF ReadOK, Start
    <3>5. QED
      BY <2>2, <2>3, <3>1, <3>4
  <2>4. CASE m # 0
    <3>1. m \in 1..n /\ m - 1 \in 0..n /\ m - 1 \notin Bad
      BY <1>1, <2>1, <2>2, <2>4
    <3>2. ReadOK(r, m - 1, at[m - 1])
      BY <3>1
    <3>3. ReadOK(r, m, Read(at[m - 1], r.lines[m]))
      BY <3>1, <3>2, ReadLine DEF n
    <3>4. QED
      BY <1>3, <2>2, <2>4, <3>3
  <2>5. QED
    BY <2>3, <2>4
<1>5. n \in 0..n
  BY <1>1
<1>6. QED
  BY <1>2, <1>4, <1>5 DEF n

(* The endpoint a listed node is tested at, filtered by and named for is   *)
(* one its own config names (parse_remote in catalog.rs).                  *)
THEOREM EndpointFitsHolds == Spec => []EndpointFits
<1>1. ASSUME NEW r \in WithEndpoint PROVE Named(r.lines, Endpoint[r])
  <2> DEFINE n == Len(r.lines)
             R == Remotes(r.lines, n)
             P == Protos(r.lines, n)
             e == Endpoint[r]
  <2>1. r \in Rows /\ e.port # 0
    BY DEF WithEndpoint
  <2>2. n \in Nat /\ DOMAIN r.lines = 1..n
    BY <2>1, RoutesAssumption DEF RoutesAssumption
  <2>3. /\ R = {k \in DOMAIN r.lines : r.lines[k][1] = "remote" /\ Len(r.lines[k]) > 2}
        /\ P = {k \in R : Len(r.lines[k]) > 3} \cup
               {k \in DOMAIN r.lines : r.lines[k][1] = "proto" /\ Len(r.lines[k]) > 1}
    BY <2>2 DEF Remotes, Protos
  <2>4. R \in SUBSET (0..n) /\ P \in SUBSET (0..n)
    BY <2>2, <2>3
  <2>5. /\ R = {} => e.port = 0
        /\ \A i : LastOf(R, i) => e.host = r.lines[i][2] /\ e.port = r.lines[i][3]
        /\ P = {} => e.proto = "unknown"
        /\ \A i : LastOf(P, i) => e.proto = r.lines[i][IF i \in R THEN 4 ELSE 2]
    BY <2>1, ReadAll DEF ReadOK
  <2> HIDE DEF R, P, e, n
  <2>6. ASSUME NEW S \in SUBSET (0..n), S # {} PROVE LastOf(S, Max(S))
    <3>1. Max(S) \in S /\ \A k \in S : Max(S) >= k
      BY <2>2, <2>6, MaxIs
    <3>2. QED
      BY <2>2, <3>1 DEF LastOf
  <2>7. R # {} /\ LastOf(R, Max(R))
    BY <2>1, <2>4, <2>5, <2>6
  <2>8. P # {} => LastOf(P, Max(P))
    BY <2>4, <2>6
  <2>9. /\ e.port # 0 /\ R # {}
        /\ e.host = r.lines[Max(R)][2] /\ e.port = r.lines[Max(R)][3]
        /\ e.proto = IF P = {} THEN "unknown"
                     ELSE r.lines[Max(P)][IF Max(P) \in R THEN 4 ELSE 2]
    BY <2>1, <2>5, <2>7, <2>8
  <2>10. QED
    BY <2>3, <2>9 DEF Named, e
<1>2. RoutesInv => EndpointFits
  <2> SUFFICES ASSUME RoutesInv, NEW i \in DOMAIN nodes
               PROVE  Named(nodes[i].config, nodes[i].endpoint)
    BY DEF EndpointFits
  <2>1. PICK r \in WithEndpoint : nodes[i].config = r.lines /\ nodes[i].endpoint = Endpoint[r]
    BY DEF RoutesInv, ListOK, OfRow
  <2>2. QED
    BY <1>1, <2>1
<1>3. QED
  BY <1>2, RoutesInvariant, PTL
=============================================================================
