--------------------------- MODULE MCRouterServers ---------------------------
(* Two queries over UDP and two over one connection, when one server is    *)
(* configured, and one query in all when both are.                         *)
EXTENDS RouterServers

CONSTANTS u1, u2, t1, t2, c1

MCQueries == {u1, u2, t1, t2}
MCUdpQueries == {u1, u2}
MCStreamQueries == {t1, t2}
MCConfigs == {<<"udp">>, <<"tcp">>, <<"quic">>, <<"fasthttp">>, <<"udp", "tcp">>}
MCMaxQueries == <<2, 1>>

MCConnOf == [q \in {t1, t2} |-> c1]
=============================================================================
