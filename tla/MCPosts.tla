------------------------------- MODULE MCPosts -------------------------------
(* Posts for TLC: clients, ids, slugs and keys are interchangeable.        *)
EXTENDS Posts

Symmetry == Permutations(Clients) \cup Permutations(PostIds)
              \cup Permutations(Slugs) \cup Permutations(Keys)
=============================================================================
