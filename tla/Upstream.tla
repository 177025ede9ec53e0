------------------------------ MODULE Upstream -------------------------------
(***************************************************************************)
(* Upstreams that use TCP or TLS connections for one query at a time, as   *)
(* NewUpstream (internal/upstream/upstream.go) puts them together: the     *)
(* transport of module ReuseConn, the resolver of module Bootstrap that    *)
(* its dials ask first, and for a udp upstream the pipelining transport    *)
(* before it (udpWithFallback), seen from outside: an exchange over UDP    *)
(* ends with an error, an answer or a truncated answer, and its dials use  *)
(* the same resolver.                                                      *)
(***************************************************************************)
EXTENDS ReuseConn

CONSTANTS
    UdpDialer,        \* stands for the dials of the UDP transport
    NoLookup,
    Ttls,
    Setups,           \* how upstreams may be configured: <<scheme, what is
                      \* dialled, whether there is a resolver>>
    MaxConns          \* bound: connections that are not free, by scheme

VARIABLES
    scheme,           \* "udp" or "tcp" (which tls is, too)
    stage,            \* stage[s]: "udp" while s is in the UDP transport
    udpClosed,        \* udpWithFallback.u is closed
    hostKind, bootstrapped, lookup, inflight, cache

Boot == INSTANCE Bootstrap WITH Lookups <- Conn \cup {UdpDialer}

ASSUME UpstreamAssumption ==
    /\ UdpDialer \notin Conn
    /\ NoLookup \notin Boot!InflightQuery
    /\ Ttls \subseteq Nat

resolverVars == <<hostKind, bootstrapped, lookup, inflight, cache>>
fallbackVars == <<scheme, stage, udpClosed>>
upstreamVars == <<vars, fallbackVars, resolverVars>>

UpstreamInit ==
    /\ Init
    /\ scheme \in {"udp", "tcp"} /\ Boot!BootstrapInit
    /\ <<scheme, hostKind, bootstrapped>> \in Setups
    /\ stage = [s \in Caller |-> "out"]
    /\ udpClosed = FALSE

-----------------------------------------------------------------------------
(* udpWithFallback.ExchangeContext and Close                               *)

Free(s) == pc[s] = "idle" /\ stage[s] = "out"

AskUdp(s) ==
    /\ scheme = "udp" /\ Free(s)
    /\ stage' = [stage EXCEPT ![s] = "udp"]
    /\ UNCHANGED <<vars, scheme, udpClosed>>

UdpAnswers(s) ==
    /\ stage[s] = "udp"
    /\ stage' = [stage EXCEPT ![s] = "out"]
    /\ UNCHANGED <<vars, scheme, udpClosed>>

(* The answer is truncated: the query is asked again over TCP.             *)
UdpTruncated(s) ==
    /\ stage[s] = "udp" /\ ~udpClosed
    /\ stage' = [stage EXCEPT ![s] = "out"]
    /\ Start(s)
    /\ UNCHANGED <<scheme, udpClosed>>

AskTcp(s) ==
    /\ scheme = "tcp" /\ Free(s)
    /\ Start(s)
    /\ UNCHANGED fallbackVars

CloseUdpFirst ==
    /\ scheme = "udp" /\ ~udpClosed
    /\ udpClosed' = TRUE
    /\ UNCHANGED <<vars, scheme, stage>>

CloseTcp ==
    /\ scheme = "udp" => udpClosed
    /\ Close
    /\ UNCHANGED fallbackVars

-----------------------------------------------------------------------------
(* dialTCP and dialTLS: resolve, dial, and shake hands over TLS            *)

Dials(s) ==
    /\ StartDial(s)
    /\ Cardinality({c \in Conn : ~Fresh(c)}) < MaxConns[scheme]
    /\ UNCHANGED <<fallbackVars, resolverVars>>

Resolving(c) ==
    /\ hand[c] = "dialing"
    /\ Boot!LookupStep(c)
    /\ UNCHANGED <<vars, fallbackVars, hostKind, bootstrapped>>

(* The UDP transport dials when a caller needs a connection.               *)
UdpResolving ==
    /\ scheme = "udp"
    /\ \/ /\ lookup[UdpDialer] = "none" /\ ~udpClosed /\ \E s \in Caller : stage[s] = "udp"
          /\ Boot!Resolve(UdpDialer)
       \/ lookup[UdpDialer] # "none" /\ Boot!LookupStep(UdpDialer)
       \/ /\ lookup[UdpDialer] \in {"found", "failed"}
          /\ Boot!At(UdpDialer, "none")
          /\ UNCHANGED <<inflight, cache>>
    /\ UNCHANGED <<vars, fallbackVars, hostKind, bootstrapped>>

(* Only a dial that has an address can succeed.                            *)
DialEnds(c) ==
    /\ lookup[c] \in {"found", "failed"}
    /\ DialReturns(c)
    /\ lookup[c] = "failed" => hand'[c] = "failed" /\ sock'[c] = sock[c]
    /\ Boot!At(c, "none")
    /\ UNCHANGED <<fallbackVars, hostKind, bootstrapped, inflight, cache>>

TimePasses ==
    /\ Boot!Tick
    /\ UNCHANGED <<vars, fallbackVars, hostKind, bootstrapped>>

-----------------------------------------------------------------------------
UpstreamCaller(s) ==
    \/ /\ AskUdp(s) \/ UdpAnswers(s) \/ UdpTruncated(s) \/ AskTcp(s)
       /\ UNCHANGED resolverVars
    \/ Dials(s)
    \/ /\ GetRefused(s) \/ GetIdle(s) \/ DialDelivered(s) \/ Return(s) \/ GiveUp(s)
       /\ UNCHANGED <<fallbackVars, resolverVars>>

UpstreamConn(c) ==
    \/ Resolving(c) \/ DialEnds(c)
    \/ /\ \/ DialOrphaned(c) \/ ExchangeOk(c) \/ ExchangeErr(c) \/ ReleaseBegins(c)
          \/ ReleaseEnds(c) \/ IdleTimeout(c) \/ TimerCloses(c)
       /\ UNCHANGED <<fallbackVars, resolverVars>>

UpstreamNext ==
    \/ \E s \in Caller : UpstreamCaller(s)
    \/ \E c \in Conn : UpstreamConn(c)
    \/ UdpResolving \/ TimePasses
    \/ (CloseUdpFirst \/ CloseTcp) /\ UNCHANGED resolverVars

UpstreamSpec == UpstreamInit /\ [][UpstreamNext]_upstreamVars

SingleLookup == Boot!SingleLookup
FollowersAreTold == Boot!FollowersAreTold
=============================================================================
