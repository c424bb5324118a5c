------------------------- MODULE MCWorkflowManager -------------------------
(* Workflow jobs of one to three nodes for TLC to check WorkflowManager on. *)
EXTENDS WorkflowManager, Integers

CONSTANT Shape   \* which of the sets below this run considers

Fresh == NothingSeen
AllJobs == [n \in Nodes |-> "job"]
Graph(s, f, a, all, kind) ==
  [success |-> s, failure |-> f, always |-> a, all |-> all, kind |-> kind]

Without(m) == [Fresh EXCEPT !.missing = m]

\* Every graph over these pairs of nodes, each pair joined by one link or
\* none; ALL convergence only where there is a parent.
Labellings(pairs) == [pairs -> {"none", "success", "failure", "always"}]
Dags(pairs, kinds) ==
  LET With(l, label) == {e \in pairs : l[e] = label}
  IN  {g \in {Graph(With(l, "success"), With(l, "failure"), With(l, "always"), all, kind) :
                l \in Labellings(pairs), all \in SUBSET Nodes, kind \in kinds} :
         \A n \in g.all : Parents(g, n) # {}}

Kind(n, k) == [AllJobs EXCEPT ![n] = k]

\* Two parents and their child, or three nodes in a row.
Joins == Dags({<<1, 3>>, <<2, 3>>}, {Kind(1, k) : k \in {"job", "approval", "ai"}})
Rows3 == Dags({<<1, 2>>, <<2, 3>>}, {Kind(2, k) : k \in {"job", "eda", "ai"}})

\* An approval, or an AI task, before or after a job.
Kinds2 == {Kind(1, "job"), Kind(1, "approval"), Kind(2, "ai")}
Asked2 == {g \in Dags({<<1, 2>>}, Kinds2) : g.all = {} /\ Edges(g) # {}}

\* A node that is ready as soon as the first pass is over, beside a job.
Beside == {Graph({}, {}, {<<1, 2>>}, {}, Kind(1, "eda"))}
AiAlone == Dags({}, {Kind(1, "ai")})

MCWorkflows ==
  CASE Shape = "three" ->
         [graph : Joins \cup Rows3, rows : {Fresh}]
           \cup [graph : Joins, rows : {Without({1})}]
    [] Shape = "join" ->
         [graph : {g \in Joins : g.kind = AllJobs}, rows : {Fresh}]
    [] Shape = "two" -> [graph : Asked2, rows : {Fresh}]
    [] Shape = "asked" ->
         [graph : Asked2, rows : {Without({3})}]
           \cup [graph : Beside, rows : {Fresh}]
    [] Shape = "ai" -> [graph : AiAlone, rows : {Fresh}]
=============================================================================
