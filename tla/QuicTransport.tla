---------------------------- MODULE QuicTransport ----------------------------
(***************************************************************************)
(* The DoQ transport, internal/upstream/transport/quic_transport.go: one   *)
(* connection shared by all callers, dialled again when it is dead by one  *)
(* dialing call that callers wait for together.                            *)
(*                                                                         *)
(* c \in Conn names a dialing call and the connection it makes.  A caller  *)
(* that is done with a query may start another one.                        *)
(***************************************************************************)
EXTENDS Naturals, FiniteSets

CONSTANTS
    Caller,       \* goroutines in ExchangeContext
    Conn,
    None,
    MaxRetry      \* exchangePayload retries so many times (5)

ASSUME QuicAssumption == None \notin Conn /\ MaxRetry \in Nat

VARIABLES
    closed,       \* QuicTransport.closed
    conn,         \* QuicTransport.c
    dialingCall,  \* QuicTransport.dialingCall
    done,         \* calls whose done channel is closed
    dialer,       \* the goroutine runDialingCall of each call
    connState,    \* what the dial made: "none" as long as there is nothing
    pc,           \* where each caller stands
    at,           \* the call it waits for, the connection it uses
    newConn,      \* it waited for that connection
    retry         \* retries made

transportVars == <<closed, conn, dialingCall>>
dialVars == <<done, dialer, connState>>
callerVars == <<pc, at, newConn, retry>>
vars == <<transportVars, dialVars, callerVars>>

QuicTypeOK ==
    /\ closed \in BOOLEAN
    /\ conn \in Conn \cup {None}
    /\ dialingCall \in Conn \cup {None}
    /\ done \subseteq Conn
    /\ dialer \in [Conn -> {"none", "dialing", "returned", "installed"}]
    /\ connState \in [Conn -> {"none", "open", "closed"}]
    /\ pc \in [Caller -> {"idle", "get", "unlocked", "wait", "exchange", "panic"}]
    /\ at \in [Caller -> Conn \cup {None}]
    /\ \A s \in Caller : at[s] # None <=> pc[s] \in {"wait", "exchange"}
    /\ newConn \in [Caller -> BOOLEAN]
    /\ retry \in [Caller -> 0..MaxRetry]

Init ==
    /\ closed = FALSE
    /\ conn = None
    /\ dialingCall = None
    /\ done = {}
    /\ dialer = [c \in Conn |-> "none"]
    /\ connState = [c \in Conn |-> "none"]
    /\ pc = [s \in Caller |-> "idle"]
    /\ at = [s \in Caller |-> None]
    /\ newConn = [s \in Caller |-> FALSE]
    /\ retry = [s \in Caller |-> 0]

Goto(s, state, c) ==
    /\ pc' = [pc EXCEPT ![s] = state]
    /\ at' = [at EXCEPT ![s] = c]

\* Identities nothing refers to any more stand for new ones.
Fresh(c) ==
    /\ dialer[c] = "none" /\ connState[c] # "open"
    /\ c \notin {conn, dialingCall} /\ \A s \in Caller : at[s] # c

-----------------------------------------------------------------------------
(* ExchangeContext and getConn                                             *)

Start(s) ==
    /\ pc[s] = "idle"
    /\ Goto(s, "get", None)
    /\ retry' = [retry EXCEPT ![s] = 0]
    /\ UNCHANGED <<transportVars, dialVars, newConn>>

GetRefused(s) ==
    /\ pc[s] = "get" /\ closed
    /\ Goto(s, "idle", None)
    /\ UNCHANGED <<transportVars, dialVars, newConn, retry>>

Usable == conn # None /\ connState[conn] = "open"

\* t.c is looked at under the lock, but returned after it was released.
GetUsable(s) ==
    /\ pc[s] = "get" /\ ~closed /\ Usable
    /\ Goto(s, "unlocked", None)
    /\ UNCHANGED <<transportVars, dialVars, newConn, retry>>

\* If another caller has found the connection dead in between, there is none
\* any more and OpenStream panics.
ReadConn(s) ==
    /\ pc[s] = "unlocked"
    /\ Goto(s, IF conn = None THEN "panic" ELSE "exchange", conn)
    /\ newConn' = [newConn EXCEPT ![s] = FALSE]
    /\ UNCHANGED <<transportVars, dialVars, retry>>

DialInProgressIgnored == FALSE
DialInProgress == dialingCall # None

GetWaiting(s) ==
    /\ pc[s] = "get" /\ ~closed /\ ~Usable
    /\ conn' = None
    /\ newConn' = [newConn EXCEPT ![s] = TRUE]
    /\ \/ /\ DialInProgress
          /\ Goto(s, "wait", dialingCall)
          /\ UNCHANGED <<dialingCall, dialVars>>
       \/ /\ ~DialInProgress
          /\ \E c \in Conn :
                /\ Fresh(c)
                /\ dialingCall' = c
                /\ done' = done \ {c}
                /\ dialer' = [dialer EXCEPT ![c] = "dialing"]
                /\ connState' = [connState EXCEPT ![c] = "none"]
                /\ Goto(s, "wait", c)
    /\ UNCHANGED <<closed, retry>>

WaitDone(s) ==
    /\ pc[s] = "wait" /\ at[s] \in done
    /\ IF connState[at[s]] = "none" THEN Goto(s, "idle", None) ELSE Goto(s, "exchange", at[s])
    /\ UNCHANGED <<transportVars, dialVars, newConn, retry>>

\* The caller's ctx ended, or (in exchangeStream) the response was read.
Return(s) ==
    /\ \/ pc[s] = "wait"
       \/ pc[s] = "exchange"
    /\ Goto(s, "idle", None)
    /\ UNCHANGED <<transportVars, dialVars, newConn, retry>>

Retried(s) == ~newConn[s] /\ retry[s] < MaxRetry

ExchangeFails(s) ==
    /\ pc[s] = "exchange"
    /\ \/ /\ Retried(s)
          /\ retry' = [retry EXCEPT ![s] = @ + 1]
          /\ Goto(s, "get", None)
       \/ /\ ~Retried(s)
          /\ Goto(s, "idle", None)
          /\ UNCHANGED retry
    /\ UNCHANGED <<transportVars, dialVars, newConn>>

-----------------------------------------------------------------------------
(* runDialingCall                                                          *)

DialReturns(c) ==
    /\ dialer[c] = "dialing"
    /\ dialer' = [dialer EXCEPT ![c] = "returned"]
    /\ connState' \in {connState, [connState EXCEPT ![c] = "open"]}
    /\ UNCHANGED <<transportVars, done, callerVars>>

NotClosed == ~closed

Install(c) ==
    /\ dialer[c] = "returned" /\ NotClosed
    /\ dialingCall' = None
    /\ conn' = IF connState[c] = "none" THEN None ELSE c
    /\ dialer' = [dialer EXCEPT ![c] = "installed"]
    /\ UNCHANGED <<closed, done, connState, callerVars>>

DeliverableConnOnly(c) == connState[c] # "none"
Deliverable(c) == TRUE

Deliver(c) ==
    /\ dialer[c] = "installed"
    /\ done' = IF Deliverable(c) THEN done \cup {c} ELSE done
    /\ dialer' = [dialer EXCEPT ![c] = "none"]
    /\ UNCHANGED <<transportVars, connState, callerVars>>

\* The transport is closed: so is the connection, but not call.done.
Discard(c) ==
    /\ dialer[c] = "returned" /\ ~NotClosed
    /\ dialingCall' = None
    /\ dialer' = [dialer EXCEPT ![c] = "none"]
    /\ connState' = [connState EXCEPT ![c] = IF @ = "open" THEN "closed" ELSE @]
    /\ UNCHANGED <<closed, conn, done, callerVars>>

-----------------------------------------------------------------------------
Close ==
    /\ ~closed
    /\ closed' = TRUE
    /\ connState' = [c \in Conn |-> IF c = conn THEN "closed" ELSE connState[c]]
    /\ UNCHANGED <<conn, dialingCall, done, dialer, callerVars>>

\* Idle timeout, or the peer closed it.
ConnDies(c) ==
    /\ connState[c] = "open"
    /\ connState' = [connState EXCEPT ![c] = "closed"]
    /\ UNCHANGED <<transportVars, done, dialer, callerVars>>

CallerStep(s) ==
    \/ Start(s) \/ GetRefused(s) \/ GetUsable(s) \/ ReadConn(s) \/ GetWaiting(s)
    \/ WaitDone(s) \/ Return(s) \/ ExchangeFails(s)

DialStep(c) == DialReturns(c) \/ Install(c) \/ Deliver(c) \/ Discard(c)

Next ==
    \/ \E s \in Caller : CallerStep(s)
    \/ \E c \in Conn : DialStep(c) \/ ConnDies(c)
    \/ Close

Spec == Init /\ [][Next]_vars

(* Dials have a timeout, goroutines run.  Callers' contexts need not end.  *)
FairSpec ==
    /\ Spec
    /\ \A s \in Caller : WF_vars(WaitDone(s))
    /\ \A c \in Conn : WF_vars(DialStep(c))

-----------------------------------------------------------------------------
(* However many callers find the connection dead at the same time, there   *)
(* is one connection, and it is the transport's: one that was dialled too  *)
(* late is closed, none is left behind when a new one takes its place.     *)
OneConnection ==
    \A c \in Conn : connState[c] = "open" =>
        /\ \A d \in Conn \ {c} : connState[d] # "open"
        /\ \/ dialer[c] = "returned"
           \/ c = conn /\ ~closed

(* Whoever waits for a dial, failing ones included, hears of it without    *)
(* any deadline, unless the transport is closed.                           *)
DialHeard == \A s \in Caller : pc[s] = "wait" ~> pc[s] # "wait" \/ closed
=============================================================================
