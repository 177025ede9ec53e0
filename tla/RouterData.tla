----------------------------- MODULE RouterData -----------------------------
(***************************************************************************)
(* The parts of the router that work on data alone: the domain sets, the   *)
(* ip sets and zones, the hosts, the messages and the buffers they are     *)
(* packed into.  Each runs in one goroutine and shares nothing with the    *)
(* others, so a behaviour exercises one of them, its part.                 *)
(***************************************************************************)
EXTENDS DomainMatcher, AddressLists, Hosts, BufferPool, Replies

VARIABLE part

dataVars == <<part, domainVars, addressVars, hostsVars, bufferVars, replyVars>>

Parts == {"domains", "addresses", "hosts", "buffers", "replies"}

DataInit ==
    /\ part \in Parts
    /\ DomainInit /\ AddressInit /\ HostsInit /\ BufferInit /\ RepliesInit

DataNext ==
    \/ /\ part = "domains" /\ DomainStep
       /\ UNCHANGED <<part, addressVars, hostsVars, bufferVars, replyVars>>
    \/ /\ part = "addresses" /\ AddressStep
       /\ UNCHANGED <<part, domainVars, hostsVars, bufferVars, replyVars>>
    \/ /\ part = "hosts" /\ HostsStep
       /\ UNCHANGED <<part, domainVars, addressVars, bufferVars, replyVars>>
    \/ /\ part = "buffers" /\ BufferStep
       /\ UNCHANGED <<part, domainVars, addressVars, hostsVars, replyVars>>
    \/ /\ part = "replies" /\ RepliesStep
       /\ UNCHANGED <<part, domainVars, addressVars, hostsVars, bufferVars>>

DataSpec == DataInit /\ [][DataNext]_dataVars
=============================================================================
