---- MODULE MCLoadBalancer ----
(***************************************************************************)
(* Two siblings of one prompt, a request of another group and one without  *)
(* a group, on two servers, with caches too small for all keys.            *)
(***************************************************************************)
EXTENDS LoadBalancer, TLC

CONSTANTS s1, s2, c1, c2, c3, c4, g, h, u

MCKeyOf == [c \in Clients |-> CASE c = c3 -> h [] c = c4 -> u [] OTHER -> g]

Symmetry == Permutations({s1, s2}) \cup Permutations({c1, c2})
====
