-------------------------- MODULE MCKnowledgeStore --------------------------
(* Two weaknesses of one project, a defence of it, and histories that each  *)
(* miss one condition: a copied run, an incomplete one, too few runs, a run  *)
(* without its observation window.  The root is read by runs of three        *)
(* inventories: one with a ladder of levels, one with a StatefulSet, and one *)
(* of another project.                                                       *)
EXTENDS CandidateChoice

NewRun(id, print, project, target, family, flaws) ==
    [id |-> id, print |-> print, project |-> project, target |-> target,
     family |-> family, flaws |-> flaws]

\* Runs of a weakness fail the defence contract, and the other way round.
Weak(n, target, flaws) ==
    NewRun(n, n, "shop", target, "pod_kill", flaws \cup {"defended", "claim"})
Defended(n, project, target, flaws) ==
    NewRun(n, n, project, target, "pod_kill", flaws \cup {"result", "rca"})

CartRuns == {Weak(n, "cart", {}) : n \in 1..3}
UserRuns == {Weak(n, "user", {}) : n \in 5..7}
Copied == NewRun(8, 1, "shop", "cart", "pod_kill", {"defended", "claim"})
Partial == Weak(11, "cart", {"no_rca_report"})
ShopDefended == {Defended(n, "shop", "cart", {}) : n \in 12..13}
               \cup {Defended(14, "shop", "user", {})}
Unwatched == Defended(16, "shop", "cart", {"observation"})

SomeEvidence ==
    CartRuns \cup UserRuns \cup ShopDefended
    \cup {Copied, Partial, Unwatched}

SomeHistories ==
    {CartRuns, UserRuns, ShopDefended}
    \cup {{w \in CartRuns : w.id <= 2} \cup {odd} : odd \in {Copied, Partial}}
    \cup {{d \in ShopDefended : d.target = "cart"} \cup odd : odd \in {{}, {Unwatched}}}

Workload(place, name, kind, singleton) ==
    [place |-> place, name |-> name, service |-> name, kind |-> kind,
     singleton |-> singleton, selector |-> TRUE, containers |-> TRUE]
Cart == Workload(1, "cart", "deployment", FALSE)
User == Workload(2, "user", "deployment", TRUE)
Store == Workload(3, "store", "statefulset", FALSE)

Inventory(project, live, workloads, families, ladders) ==
    [project |-> project, live |-> live, workloads |-> workloads, families |-> families,
     ladders |-> ladders, routes |-> {"user"}]

SomeInventories ==
    {Inventory("shop", TRUE, <<Cart, User>>, <<"pod_kill", "network_delay", "backend_pod_kill">>,
               [pod_kill |-> <<"high", "baseline">>]),
     Inventory("shop", TRUE, <<User, Cart, Store>>, <<"pod_kill", "network_delay">>, <<>>),
     Inventory("books", FALSE, <<User, Cart>>, <<"pod_kill">>, <<>>)}

Request(exact, place, target, family, level) ==
    [exact |-> exact, place |-> place, target |-> target, family |-> family, level |-> level]
SomeRequests ==
    {Request(TRUE, 2, "user", "pod_kill", "high"), Request(TRUE, 9, "gone", "pod_kill", "baseline"),
     Request(FALSE, 0, "cart", "pod_kill", "baseline"),
     Request(FALSE, 0, "user", "backend_pod_kill", "baseline")}

SomeOracles ==
    [service : {"cart", "web"}, flaws : {{}}, businessPath : BOOLEAN]
    \cup {[service |-> "user", flaws |-> {"port"}, businessPath |-> FALSE]}

SomeNames == <<"backend_pod_kill", "network_delay", "pod_kill", "baseline", "high">>
=============================================================================
