-------------------------- MODULE MCResponseCaches --------------------------
(* Model checking ResponseCaches: requests, projects and routes are        *)
(* interchangeable, and so are the conversations with their prompts.       *)
EXTENDS ResponseCaches, TLC

CONSTANTS c1, c2, p1, p2

Swap == (c1 :> c2) @@ (c2 :> c1) @@ (p1 :> p2) @@ (p2 :> p1)
Stay == [x \in {c1, c2, p1, p2} |-> x]
Symmetry ==
    {f @@ g @@ h @@ i : f \in Permutations(Requests \ Streams), g \in Permutations(Projects),
                        h \in Permutations(Routes), i \in {Stay, Swap}}

(* Two ways of asking the same.                                            *)
TwoPrompts == (c1 :> p1) @@ (c2 :> p2)
Alike == {p1, p2} \X {p1, p2}

OneAtATime == {{"failover"}, {"evict"}, {"fail"}}
=============================================================================
