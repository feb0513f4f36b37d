------------------------------- MODULE Routes -------------------------------
(***************************************************************************)
(* The node list and the routing policy: what a refresh makes of the       *)
(* upstream catalog (catalog.rs, do_refresh), what tests and connects do   *)
(* to a node's status, the settings, and the node that autoconnect picks   *)
(* (select_node).  A refresh is one step here; Tunnel has its stages.      *)
(*                                                                         *)
(* A catalog row is what its parsing tells apart: whether the OpenVPN      *)
(* column decodes, and the config lines in it, each a sequence of words;   *)
(* words and names that differ in case only are the same, and a port that  *)
(* does not parse is 0.  A country stands for its long and its short name. *)
(***************************************************************************)
EXTENDS Integers, FiniteSets, SequencesExt

CONSTANTS
  Rows,        \* rows the upstream may serve
  RowLimit,    \* bound on the rows of one catalog
  MaxNodes,    \* VGL_MAX_NODES
  Policies,    \* settings a client may post
  Half,        \* scores are integers from -Half to Half - 1
  Safe,        \* what safe_id leaves of a host name
  None

ASSUME RoutesAssumption ==
  /\ RowLimit \in Nat /\ MaxNodes \in Nat /\ Half \in Nat \ {0}
  /\ \A r \in Rows :
       /\ r.decodes \in BOOLEAN
       /\ Len(r.lines) \in Nat /\ DOMAIN r.lines = 1..Len(r.lines)
       /\ \A i \in DOMAIN r.lines : Len(r.lines[i]) \in Nat \ {0}
       /\ r.ping \in Int /\ r.score \in -Half..Half - 1

(* What serde lets through: names may be anything. *)
Modes == {"auto", "fixed_country", "fixed_node", "favorites"}
IsPolicy(p) ==
  p \in [enabled : BOOLEAN, mode : Modes, country : {p.country}, fixed : {p.fixed},
         favorites : {p.favorites}, fallback : BOOLEAN]

ASSUME PolicyAssumption == \A p \in Policies : IsPolicy(p)

Tables == UNION {[1..n -> Rows] : n \in 0..RowLimit}

VARIABLES
  nodes,     \* the list, in the order of /api/nodes
  settings,  \* policy and favorites
  picked     \* the last answer of autoconnect

vars == <<nodes, settings, picked>>

-----------------------------------------------------------------------------
(* A row's endpoint, as parse_remote reads it off the config: a "remote"   *)
(* line replaces host and port, and the protocol when it names one.        *)

(* A later "remote" taken for a spare one. *)
ReadFirst(at, line) ==
  CASE line[1] = "proto" /\ Len(line) >= 2 -> [at EXCEPT !.proto = line[2]]
    [] line[1] = "remote" /\ Len(line) >= 3 /\ at.port = 0 ->
         [host |-> line[2], port |-> line[3],
          proto |-> IF Len(line) >= 4 THEN line[4] ELSE at.proto]
    [] OTHER -> at

Read(at, line) ==
  CASE line[1] = "proto" /\ Len(line) >= 2 -> [at EXCEPT !.proto = line[2]]
    [] line[1] = "remote" /\ Len(line) >= 3 ->
         [host |-> line[2], port |-> line[3],
          proto |-> IF Len(line) >= 4 THEN line[4] ELSE at.proto]
    [] OTHER -> at

Endpoint ==
  [r \in Rows |->
     LET at[k \in 0..Len(r.lines)] ==
           IF k = 0 THEN [host |-> r.ip, port |-> 0, proto |-> "unknown"]
           ELSE Read(at[k - 1], r.lines[k])
     IN at[Len(r.lines)]]

WithEndpoint == {r \in Rows : Endpoint[r].host # None /\ Endpoint[r].port # 0}

Id ==
  [r \in WithEndpoint |->
     <<r.country, Safe[IF r.ip = None THEN Endpoint[r].host ELSE r.ip],
       Endpoint[r].port, Endpoint[r].proto>>]

Ids == Range(Id)

ASSUME IdAssumption == None \notin Ids

-----------------------------------------------------------------------------
(* The order of the list: known pings first, low ones before high ones,    *)
(* then high scores.  The negation of the least score overflows to itself. *)

Negated(s) == IF s = -Half THEN s ELSE -s

(* Without the test for a known ping. *)
BetterByPing(m, n) ==
  \/ m.ping < n.ping
  \/ m.ping = n.ping /\ Negated(m.score) < Negated(n.score)

Better(m, n) ==
  \/ m.ping > 0 /\ n.ping <= 0
  \/ (m.ping > 0 <=> n.ping > 0) /\ m.ping < n.ping
  \/ m.ping = n.ping /\ Negated(m.score) < Negated(n.score)

(* sort_by_key, which is stable, on what stands at some positions. *)
Before(s, i, j) == Better(s[i], s[j]) \/ (~Better(s[j], s[i]) /\ i < j)
Rank(s, i) == Cardinality({j \in DOMAIN s : Before(s, j, i)}) + 1
Sorted(s) ==
  [k \in 1..Cardinality(DOMAIN s) |-> s[CHOOSE i \in DOMAIN s : Rank(s, i) = k]]

Node(r, favorites) ==
  [id |-> Id[r], country |-> r.country, ping |-> r.ping, score |-> r.score,
   endpoint |-> Endpoint[r], config |-> r.lines,
   status |-> IF Id[r] \in favorites THEN "available" ELSE "new"]

(* One row too many kept. *)
KeptMore(table) == {i \in DOMAIN table : i <= MaxNodes + 1}

(* The limit is applied to the rows, before unusable ones are skipped.     *)
Kept(table) == {i \in DOMAIN table : i <= MaxNodes}

Usable(table) == {i \in Kept(table) : table[i] \in WithEndpoint}

Broken(table) == \E i \in Kept(table) : ~table[i].decodes

Parses(table) == ~Broken(table) /\ Usable(table) # {}

Catalog(table, favorites) == Sorted([i \in Usable(table) |-> Node(table[i], favorites)])

-----------------------------------------------------------------------------
(* select_node *)

(* Failed nodes left in. *)
NoneExcluded(ns) == DOMAIN ns

NotFailed(ns) == {i \in DOMAIN ns : ns[i].status # "failed"}

(* The positions that are left. *)
Candidates(ns, st) ==
  LET usable == NotFailed(ns)
      favs == {i \in usable : ns[i].id \in st.favorites}
  IN CASE st.mode = "auto" -> usable
       [] st.mode = "fixed_country" ->
            {i \in usable : st.country = None \/ ns[i].country = st.country}
       [] st.mode = "fixed_node" -> {i \in usable : ns[i].id = st.fixed}
       [] st.mode = "favorites" -> IF favs # {} \/ ~st.fallback THEN favs ELSE usable

(* Unknown pings taken for short ones. *)
FirstByPing(ns, S) ==
  CHOOSE i \in S :
    \A j \in S : ~BetterByPing(ns[j], ns[i]) /\ (j < i => BetterByPing(ns[i], ns[j]))

(* min_by_key, the first of several minima. *)
First(ns, S) ==
  CHOOSE i \in S : \A j \in S : ~Better(ns[j], ns[i]) /\ (j < i => Better(ns[i], ns[j]))

Select(ns, st) ==
  LET S == Candidates(ns, st)
  IN IF ~st.enabled \/ S = {} THEN None ELSE ns[First(ns, S)].id

-----------------------------------------------------------------------------

DefaultPolicy ==
  [enabled |-> TRUE, mode |-> "auto", country |-> None, fixed |-> None,
   favorites |-> {}, fallback |-> TRUE]

Init == nodes = <<>> /\ settings = DefaultPolicy /\ picked = None

(* A catalog that does not parse leaves the list alone. *)
Refresh(table) ==
  /\ Parses(table)
  /\ nodes' = Catalog(table, settings.favorites)
  /\ UNCHANGED <<settings, picked>>

(* A test or a failed connect, on the first node with the id.  Only a test *)
(* finds a node available, and a udp node is not tested.                   *)
SetStatus(id, s) ==
  /\ \E i \in DOMAIN nodes :
       /\ nodes[i].id = id /\ \A j \in 1..(i - 1) : nodes[j].id # id
       /\ s = "available" => nodes[i].endpoint.proto # "udp"
       /\ nodes' = [nodes EXCEPT ![i].status = s]
  /\ UNCHANGED <<settings, picked>>

(* A connect, on all nodes with the id; with no such id, a teardown.       *)
Activate(id) ==
  /\ nodes' = [i \in DOMAIN nodes |->
                 IF nodes[i].id = id THEN [nodes[i] EXCEPT !.status = "active"]
                 ELSE IF nodes[i].status = "active" THEN [nodes[i] EXCEPT !.status = "new"]
                 ELSE nodes[i]]
  /\ UNCHANGED <<settings, picked>>

UpdateSettings(policy) ==
  /\ settings' = policy
  /\ UNCHANGED <<nodes, picked>>

ToggleFavorite(id) ==
  /\ settings' = [settings EXCEPT !.favorites = IF id \in @ THEN @ \ {id} ELSE @ \cup {id}]
  /\ UNCHANGED <<nodes, picked>>

AutoConnect ==
  /\ picked' = Select(nodes, settings)
  /\ UNCHANGED <<nodes, settings>>

Next ==
  \/ \E table \in Tables : Refresh(table)
  \/ \E id \in Ids : ToggleFavorite(id)
  \/ \E id \in Ids, s \in {"available", "failed"} : SetStatus(id, s)
  \/ \E id \in Ids \cup {None} : Activate(id)
  \/ \E policy \in Policies : UpdateSettings(policy)
  \/ AutoConnect

Spec == Init /\ [][Next]_vars

-----------------------------------------------------------------------------
(* Properties. *)

TypeOK ==
  /\ nodes \in Seq([id : Ids, country : {r.country : r \in Rows}, ping : Int, score : Int,
                    endpoint : Range(Endpoint), config : {r.lines : r \in Rows},
                    status : {"new", "available", "failed", "active"}])
  /\ Len(nodes) <= MaxNodes
  /\ IsPolicy(settings)
  /\ picked \in Ids \cup {None}

(* Host and port of the last "remote" line and the protocol named last, in *)
(* a "remote" or a "proto" line, said without reading the lines in turn.   *)
Named(lines, at) ==
  LET remotes == {k \in DOMAIN lines : lines[k][1] = "remote" /\ Len(lines[k]) > 2}
      protos == {k \in remotes : Len(lines[k]) > 3} \cup
                {k \in DOMAIN lines : lines[k][1] = "proto" /\ Len(lines[k]) > 1}
  IN /\ at.port # 0 /\ remotes # {}
     /\ at.host = lines[Max(remotes)][2]
     /\ at.port = lines[Max(remotes)][3]
     /\ at.proto = IF protos = {} THEN "unknown"
                   ELSE lines[Max(protos)][IF Max(protos) \in remotes THEN 4 ELSE 2]

(* The endpoint a listed node is tested at, filtered by and named for is   *)
(* one its own config names: that of its last "remote" line, with the      *)
(* protocol named last, wherever the two stand and whatever follows there. *)
EndpointFits == \A i \in DOMAIN nodes : Named(nodes[i].config, nodes[i].endpoint)

(* Positions of the nodes the policy lets autoconnect use, said without    *)
(* the order in which the code filters: what the settings page promises.   *)
Favorite == {i \in DOMAIN nodes : nodes[i].id \in settings.favorites}
Working == {i \in DOMAIN nodes : nodes[i].status # "failed"}
Allowed ==
  {i \in Working :
     /\ settings.enabled
     /\ settings.mode = "fixed_country" => settings.country \in {None, nodes[i].country}
     /\ settings.mode = "fixed_node" => nodes[i].id = settings.fixed
     /\ settings.mode = "favorites" /\ i \notin Favorite =>
          settings.fallback /\ Working \cap Favorite = {}}

(* Autoconnect (select_node) picks a node the policy allows, and none only *)
(* when there is none.                                                     *)
PickAllowed ==
  [][AutoConnect =>
       IF picked' = None THEN Allowed = {} ELSE \E i \in Allowed : picked' = nodes[i].id]_vars

(* What makes one node a better choice than another. *)
Preferable(m, n) ==
  \/ m.ping > 0 /\ (n.ping <= 0 \/ m.ping < n.ping)
  \/ m.ping = n.ping /\ m.score > n.score

(* What it picks is the best of them: of the lowest known ping and, of     *)
(* several with that, of the highest score.  The one exception is a node   *)
(* of the least score there is, whose negation overflows.  (A measured     *)
(* latency plays no part, unlike in the order the console shows.)          *)
PickBest ==
  [][AutoConnect /\ Allowed # {} =>
       \E i \in Allowed :
         /\ picked' = nodes[i].id
         /\ \A j \in Allowed :
              Preferable(nodes[j], nodes[i]) =>
                nodes[i].score = -Half /\ nodes[j].ping = nodes[i].ping]_vars
=============================================================================
