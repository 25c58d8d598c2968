----------------------------- MODULE MCServices -----------------------------
EXTENDS Services, TLC

File(settings, peers, nodes) ==
    [settings |-> settings @@ [f \in Fields |-> Unset],
     peers |-> peers, exit_nodes |-> nodes]

Node(name, endpoint, location) == [name |-> name, endpoint |-> endpoint, location |-> location]

\* Files that agree, differ, repeat themselves and say nothing.
MCFiles ==
    {File([token_ttl |-> "a", location |-> "x", grace_period |-> "a"], <<1, 2>>,
          <<Node("n1", 1, "x")>>),
     File([token_ttl |-> "b", handler_endpoint |-> "h"], <<2, 3>>,
          <<Node("n1", 2, "y"), Node("n2", 1, "x")>>),
     File([mode |-> "exit", location |-> "y"], <<3, 4>>,
          <<Node("n2", 3, "z"), Node("n3", 1, "y")>>),
     File([url |-> "u"], <<1, 1>>, <<Node("n1", 1, "x"), Node("n1", 4, "z"), Node("n3", 2, "x")>>)}

=============================================================================
