------------------------------- MODULE MCLayouts -------------------------------
(* Environments of three containers for the instances of EnvironmentActions. *)
EXTENDS Naturals

\* Three services, and two of which one has two containers.
SomeLayouts == {<<1, 2, 3>>, <<2, 1, 2>>}

\* Nothing, chains, forks and small cycles; a triangle; a cycle somebody waits behind.
SomeGraphs ==
  LET edges == {e \in (1..3) \X (1..3) : e[1] # e[2]}
  IN {{}} \cup {{e, f} : e, f \in edges}
       \cup {{<<1, 2>>, <<2, 3>>, <<1, 3>>}, {<<1, 2>>, <<2, 3>>, <<3, 1>>}, {<<1, 2>>, <<2, 1>>, <<3, 1>>}}
=============================================================================
