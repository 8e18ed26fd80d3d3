------------------------- MODULE MCFailoverRouting -------------------------
(* Model checking FailoverRouting with the chains the router builds.       *)
EXTENDS FailoverRouting

AllConfigs == [mode : Modes, ollama : BOOLEAN]

RoutedChains ==
    UNION {FailoverChainsFor(m, mode, ollama) :
              m \in Models, mode \in Modes, ollama \in BOOLEAN}
RoutedRegistrations == {Registry(c) : c \in AllConfigs}

(* One error of each kind that the loop tells apart.                       *)
Error(deadline, status, words) ==
    [deadline |-> deadline, cause |-> IF status = 0 THEN "connection" ELSE "status",
     status |-> status, words |-> words, mentions |-> <<>>]
RoutedErrors ==
    {Error(TRUE, 0, {}), Error(FALSE, 429, {}), Error(FALSE, 404, {}),
     Error(FALSE, 400, {}), Error(FALSE, 400, {"invalid"})}
=============================================================================
