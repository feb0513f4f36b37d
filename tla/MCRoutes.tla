------------------------------ MODULE MCRoutes ------------------------------
(* Instances of Routes for TLC. *)
EXTENDS Routes

CONSTANTS jp, us, x, h1, h2

(* The two hosts differ in a character that safe_id replaces. *)
SomeSafe == [n \in {x, h1, h2} |-> IF n = h2 THEN h1 ELSE n]

Row(k, ip, p, s, lines) ==
  [country |-> k, ip |-> ip, ping |-> p, score |-> s, decodes |-> TRUE, lines |-> lines]

(* Three nodes of one ping, one of them of the least score, one of unknown *)
(* ping with the id of another, and rows that are skipped or spoil it all. *)
a == Row(jp, x, 7, 1, <<<<"proto", "udp">>, <<"remote", h1, 1>>>>)
b == Row(us, None, 7, -2, <<<<"remote", h1, 1, "tcp", "more">>, <<"comment">>, <<"remote", h2, 2>>>>)
c == Row(us, x, 0, 1, <<<<"remote", h1, 1, "udp">>, <<"proto", "tcp">>>>)
d == Row(jp, None, 1, 1, <<<<"proto">>, <<"remote", h1>>>>)
e == [c EXCEPT !.ping = 7, !.score = 0]
SomeRows == {a, b, c, d, e, [d EXCEPT !.decodes = FALSE]}

Policy(m, k, f) ==
  [enabled |-> TRUE, mode |-> m, country |-> k, fixed |-> Id[b], favorites |-> {Id[c]},
   fallback |-> f]

SomePolicies ==
  {Policy("auto", None, TRUE), Policy("fixed_country", us, TRUE),
   Policy("fixed_node", None, TRUE), Policy("favorites", None, TRUE),
   Policy("favorites", None, FALSE),
   [DefaultPolicy EXCEPT !.enabled = FALSE]}
=============================================================================
