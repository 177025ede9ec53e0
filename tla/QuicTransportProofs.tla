-------------------------- MODULE QuicTransportProofs --------------------------
(***************************************************************************)
(* Proofs about QuicTransport, for every number of callers and dials.      *)
(***************************************************************************)
EXTENDS QuicTransport, TLAPS

(* dialingCall is the one dial in flight, and as long as there is one the  *)
(* transport has no connection: installing one ends the other.             *)
OneDial ==
    /\ \A c \in Conn : dialer[c] \in {"dialing", "returned"} <=> dialingCall = c
    /\ dialingCall # None => conn = None

(* An open connection is the transport's, or its dial has yet to install   *)
(* or discard it.                                                          *)
OpenIsOwned ==
    \A c \in Conn : connState[c] = "open" =>
        dialer[c] = "returned" \/ (c = conn /\ ~closed)

IInv == QuicTypeOK /\ OneDial /\ OpenIsOwned

-----------------------------------------------------------------------------
LEMMA InitIInv == Init => IInv
<1> SUFFICES ASSUME Init PROVE IInv
  OBVIOUS
<1>1. QuicTypeOK
  <2>1. /\ dialer \in [Conn -> {"none", "dialing", "returned", "installed"}]
        /\ connState \in [Conn -> {"none", "open", "closed"}]
        /\ retry \in [Caller -> 0..MaxRetry]
    BY QuicAssumption DEF Init
  <2> QED
    BY <2>1 DEF Init, QuicTypeOK
<1>2. OneDial /\ OpenIsOwned
  BY QuicAssumption DEF Init, OneDial, OpenIsOwned
<1> QED
  BY <1>1, <1>2 DEF IInv

-----------------------------------------------------------------------------
(* A caller that moves without touching the transport or its dials.        *)
LEMMA CallerMovesIInv ==
    ASSUME IInv, UNCHANGED <<transportVars, dialVars>>, QuicTypeOK'
    PROVE  IInv'
BY DEF IInv, OneDial, OpenIsOwned, transportVars, dialVars

(* Goto keeps the callers' part of the types.                              *)
LEMMA GotoType ==
    ASSUME QuicTypeOK, NEW s \in Caller, NEW c \in Conn \cup {None},
           NEW state \in {"idle", "get", "unlocked", "wait", "exchange", "panic"},
           c # None <=> state \in {"wait", "exchange"},
           Goto(s, state, c)
    PROVE  /\ pc' \in [Caller -> {"idle", "get", "unlocked", "wait", "exchange", "panic"}]
           /\ at' \in [Caller -> Conn \cup {None}]
           /\ \A u \in Caller : at'[u] # None <=> pc'[u] \in {"wait", "exchange"}
BY DEF QuicTypeOK, Goto

LEMMA CallerStepIInv ==
    ASSUME IInv, NEW s \in Caller, CallerStep(s)
    PROVE  IInv'
<1> USE DEF IInv
<1>1. CASE Start(s)
  <2>1. retry' \in [Caller -> 0..MaxRetry]
    BY <1>1, QuicAssumption DEF Start, QuicTypeOK
  <2>2. QuicTypeOK'
    BY <1>1, <2>1, GotoType DEF Start, QuicTypeOK, transportVars, dialVars
  <2> QED
    BY <1>1, <2>2, CallerMovesIInv DEF Start
<1>2. CASE GetRefused(s)
  <2>1. QuicTypeOK'
    BY <1>2, GotoType DEF GetRefused, QuicTypeOK, transportVars, dialVars
  <2> QED
    BY <1>2, <2>1, CallerMovesIInv DEF GetRefused
<1>3. CASE GetUsable(s)
  <2>1. QuicTypeOK'
    BY <1>3, GotoType DEF GetUsable, QuicTypeOK, transportVars, dialVars
  <2> QED
    BY <1>3, <2>1, CallerMovesIInv DEF GetUsable
<1>4. CASE ReadConn(s)
  <2>1. QuicTypeOK'
    BY <1>4, GotoType DEF ReadConn, QuicTypeOK, transportVars, dialVars
  <2> QED
    BY <1>4, <2>1, CallerMovesIInv DEF ReadConn
<1>5. CASE GetWaiting(s)
  <2>1. conn' = None /\ closed' = closed /\ retry' = retry
    BY <1>5 DEF GetWaiting
  <2>2. CASE DialInProgress /\ Goto(s, "wait", dialingCall) /\ UNCHANGED <<dialingCall, dialVars>>
    <3>1. QuicTypeOK'
      BY <1>5, <2>1, <2>2, GotoType DEF GetWaiting, DialInProgress, QuicTypeOK, dialVars
    <3>2. OneDial'
      BY <2>1, <2>2 DEF OneDial, dialVars
    <3>3. OpenIsOwned'
      BY <1>5, <2>1, <2>2 DEF GetWaiting, Usable, OpenIsOwned, QuicTypeOK, dialVars
    <3> QED
      BY <3>1, <3>2, <3>3
  <2>3. CASE ~(DialInProgress /\ Goto(s, "wait", dialingCall) /\ UNCHANGED <<dialingCall, dialVars>>)
    <3>1. PICK c \in Conn :
            /\ Fresh(c)
            /\ dialingCall' = c
            /\ done' = done \ {c}
            /\ dialer' = [dialer EXCEPT ![c] = "dialing"]
            /\ connState' = [connState EXCEPT ![c] = "none"]
            /\ Goto(s, "wait", c)
      BY <1>5, <2>3 DEF GetWaiting
    <3>2. dialingCall = None
      BY <1>5, <2>3 DEF GetWaiting, DialInProgress
    <3>3. QuicTypeOK'
      BY <1>5, <2>1, <3>1, GotoType, QuicAssumption DEF GetWaiting, QuicTypeOK
    <3>4. OneDial'
      BY <2>1, <3>1, <3>2, QuicAssumption DEF OneDial, QuicTypeOK
    <3>5. OpenIsOwned'
      BY <1>5, <2>1, <3>1 DEF GetWaiting, Usable, OpenIsOwned, QuicTypeOK
    <3> QED
      BY <3>3, <3>4, <3>5
  <2> QED
    BY <2>2, <2>3
<1>6. CASE WaitDone(s)
  <2>1. at[s] \in Conn
    BY <1>6 DEF WaitDone, QuicTypeOK
  <2>2. QuicTypeOK'
    BY <1>6, <2>1, GotoType, QuicAssumption DEF WaitDone, QuicTypeOK, transportVars, dialVars
  <2> QED
    BY <1>6, <2>2, CallerMovesIInv DEF WaitDone
<1>7. CASE Return(s)
  <2>1. QuicTypeOK'
    BY <1>7, GotoType DEF Return, QuicTypeOK, transportVars, dialVars
  <2> QED
    BY <1>7, <2>1, CallerMovesIInv DEF Return
<1>8. CASE ExchangeFails(s)
  <2>1. retry' \in [Caller -> 0..MaxRetry]
    BY <1>8, QuicAssumption DEF ExchangeFails, Retried, QuicTypeOK
  <2>2. QuicTypeOK'
    BY <1>8, <2>1, GotoType DEF ExchangeFails, QuicTypeOK, transportVars, dialVars
  <2> QED
    BY <1>8, <2>2, CallerMovesIInv DEF ExchangeFails
<1> QED
  BY <1>1, <1>2, <1>3, <1>4, <1>5, <1>6, <1>7, <1>8 DEF CallerStep

LEMMA DialStepIInv ==
    ASSUME IInv, NEW c \in Conn, DialStep(c)
    PROVE  IInv'
<1> USE DEF IInv
<1>1. CASE DialReturns(c)
  <2>1. QuicTypeOK'
    BY <1>1 DEF DialReturns, QuicTypeOK, transportVars, callerVars
  <2>2. OneDial'
    BY <1>1 DEF DialReturns, OneDial, QuicTypeOK, transportVars
  <2>3. OpenIsOwned'
    BY <1>1 DEF DialReturns, OpenIsOwned, QuicTypeOK, transportVars
  <2> QED
    BY <2>1, <2>2, <2>3
<1>2. CASE Install(c)
  <2>1. QuicTypeOK'
    BY <1>2 DEF Install, QuicTypeOK, callerVars
  <2>2. dialingCall = c /\ conn = None
    BY <1>2, QuicAssumption DEF Install, OneDial
  <2>3. OneDial'
    BY <1>2, <2>2, QuicAssumption DEF Install, OneDial, QuicTypeOK
  <2>4. OpenIsOwned'
    BY <1>2, <2>2, QuicAssumption DEF Install, NotClosed, OpenIsOwned, QuicTypeOK
  <2> QED
    BY <2>1, <2>3, <2>4
<1>3. CASE Deliver(c)
  <2>1. QuicTypeOK'
    BY <1>3 DEF Deliver, QuicTypeOK, transportVars, callerVars
  <2>2. OneDial' /\ OpenIsOwned'
    BY <1>3 DEF Deliver, OneDial, OpenIsOwned, QuicTypeOK, transportVars
  <2> QED
    BY <2>1, <2>2
<1>4. CASE Discard(c)
  <2>1. QuicTypeOK'
    BY <1>4 DEF Discard, QuicTypeOK, callerVars
  <2>2. OneDial'
    BY <1>4, QuicAssumption DEF Discard, OneDial, QuicTypeOK
  <2>3. OpenIsOwned'
    BY <1>4 DEF Discard, OpenIsOwned, QuicTypeOK
  <2> QED
    BY <2>1, <2>2, <2>3
<1> QED
  BY <1>1, <1>2, <1>3, <1>4 DEF DialStep

LEMMA CloseIInv ==
    ASSUME IInv, Close
    PROVE  IInv'
BY DEF IInv, Close, QuicTypeOK, OneDial, OpenIsOwned, callerVars

LEMMA ConnDiesIInv ==
    ASSUME IInv, NEW c \in Conn, ConnDies(c)
    PROVE  IInv'
BY DEF IInv, ConnDies, QuicTypeOK, OneDial, OpenIsOwned, transportVars, callerVars

LEMMA StepIInv == IInv /\ [Next]_vars => IInv'
<1> SUFFICES ASSUME IInv, [Next]_vars PROVE IInv'
  OBVIOUS
<1>1. CASE UNCHANGED vars
  BY <1>1 DEF IInv, QuicTypeOK, OneDial, OpenIsOwned, vars, transportVars, dialVars, callerVars
<1>2. CASE Next
  BY <1>2, CallerStepIInv, DialStepIInv, ConnDiesIInv, CloseIInv DEF Next
<1> QED
  BY <1>1, <1>2

-----------------------------------------------------------------------------
(* Nothing that happens to the transport leaves it in a state its code     *)
(* does not expect.                                                        *)
THEOREM QuicTypeCorrect == Spec => []QuicTypeOK
<1>1. IInv => QuicTypeOK
  BY DEF IInv
<1> QED
  BY InitIInv, StepIInv, <1>1, PTL DEF Spec

(* quic_transport.go getConn, runDialingCall and Close: at most one        *)
(* connection is open, and it is the transport's or about to be.  Two open *)
(* ones would be two dials in flight, a dial in flight beside the          *)
(* transport's connection, or one left behind.                             *)
THEOREM QuicOneConnection == Spec => []OneConnection
<1>1. IInv => OneConnection
  BY QuicAssumption DEF IInv, OneDial, OpenIsOwned, OneConnection
<1> QED
  BY InitIInv, StepIInv, <1>1, PTL DEF Spec
=============================================================================
