---------------------------- MODULE UpstreamProofs ----------------------------
(***************************************************************************)
(* Proofs about Upstream: the connection-reusing transport under it        *)
(* (module ReuseConn) and the resolver its dials ask (module Bootstrap),   *)
(* for every number of callers, connections and lookups, however the       *)
(* upstream is configured.                                                 *)
(***************************************************************************)
EXTENDS Upstream, TLAPS

-----------------------------------------------------------------------------
(* The transport                                                           *)

(* A goroutine that works for a caller is the one this caller waits for.   *)
Ownership ==
    /\ \A c \in Conn :
        owner[c] # None =>
            /\ hand[c] \in {"dialing", "conn", "failed", "exchange"}
            /\ at[owner[c]] = c /\ pc[owner[c]] \in {"dial", "wait"}
    /\ \A s \in Caller :
        /\ pc[s] \in {"idle", "get"} => at[s] = None
        /\ pc[s] = "dial" =>
            at[s] \in Conn /\ owner[at[s]] = s /\ hand[at[s]] \in {"dialing", "conn", "failed"}
        /\ pc[s] = "wait" =>
            at[s] \in Conn /\ owner[at[s]] = s /\ hand[at[s]] = "exchange"

(* What may be said of a connection from the goroutine that has it.        *)
Serving(c) ==
    /\ hand[c] \in {"conn", "exchange", "ok"} => serving[c]
    /\ hand[c] = "idled" => ~serving[c]
    /\ hand[c] \in {"dialing", "conn", "failed", "ok", "idled"} => c \notin inFlight
    /\ c \in idleConns => hand[c] = "none" /\ ~serving[c] /\ c \notin inFlight

Socket(c) ==
    /\ hand[c] \in {"conn", "exchange", "ok", "err", "idled", "shut"} => c \in conns
    /\ hand[c] = "dialing" => sock[c] = "none" /\ ~rcClosed[c] /\ c \notin closing \cup conns
    /\ hand[c] = "failed" => sock[c] # "open"
    /\ hand[c] = "shut" => sock[c] = "closed"
    /\ sock[c] = "open" /\ rcClosed[c] => c \in closing
    /\ sock[c] = "open" =>
        \/ c \in conns /\ ~closed /\ (c \in idleConns \/ hand[c] # "none")
        \/ c \in closing

ReuseInv == ReuseTypeOK /\ Ownership /\ \A c \in Conn : Serving(c) /\ Socket(c)

LEMMA ReuseInit == Init => ReuseInv
<1> SUFFICES ASSUME Init PROVE ReuseInv
  OBVIOUS
<1>1. /\ sock \in [Conn -> {"none", "open", "closed"}]
      /\ hand \in [Conn -> Hand]
      /\ retry \in [Caller -> 0..MaxRetry]
  BY ReuseAssumption DEF Init, Hand
<1>2. ReuseTypeOK
  BY <1>1 DEF Init, ReuseTypeOK
<1>3. Ownership /\ \A c \in Conn : Serving(c) /\ Socket(c)
  BY DEF Init, Ownership, Serving, Socket
<1> QED
  BY <1>2, <1>3 DEF ReuseInv

LEMMA ReuseStutter ==
    ASSUME ReuseInv, UNCHANGED vars
    PROVE  ReuseInv'
BY DEF ReuseInv, ReuseTypeOK, Ownership, Serving, Socket, vars, transportVars, connVars,
       handVars, callerVars

(* A caller that moves while it waits for no goroutine.                    *)
LEMMA CallerMoves ==
    ASSUME ReuseInv, NEW s \in Caller, pc[s] \in {"idle", "get", "ok", "err"},
           NEW state \in {"idle", "get"}, Goto(s, state, None),
           UNCHANGED <<transportVars, connVars, handVars>>,
           newConn' \in [Caller -> BOOLEAN], retry' \in [Caller -> 0..MaxRetry]
    PROVE  ReuseInv'
<1> USE DEF ReuseInv
<1>1. ReuseTypeOK'
  BY DEF Goto, ReuseTypeOK, transportVars, connVars, handVars
<1>2. \A c \in Conn : owner[c] # s
  BY ReuseAssumption DEF Ownership, ReuseTypeOK
<1>3. Ownership'
  BY <1>2, ReuseAssumption DEF Goto, Ownership, ReuseTypeOK, handVars
<1>4. \A c \in Conn : Serving(c)' /\ Socket(c)'
  BY DEF Serving, Socket, transportVars, connVars, handVars
<1> QED
  BY <1>1, <1>3, <1>4

LEMMA StartInv ==
    ASSUME ReuseInv, NEW s \in Caller, Start(s)
    PROVE  ReuseInv'
<1>1. retry' \in [Caller -> 0..MaxRetry] /\ newConn' \in [Caller -> BOOLEAN]
  BY ReuseAssumption DEF Start, ReuseInv, ReuseTypeOK
<1> QED
  BY <1>1, CallerMoves DEF Start

LEMMA GetRefusedInv ==
    ASSUME ReuseInv, NEW s \in Caller, GetRefused(s)
    PROVE  ReuseInv'
BY CallerMoves DEF GetRefused, ReuseInv, ReuseTypeOK

LEMMA ReturnInv ==
    ASSUME ReuseInv, NEW s \in Caller, Return(s)
    PROVE  ReuseInv'
<1>1. retry' \in [Caller -> 0..MaxRetry] /\ newConn' \in [Caller -> BOOLEAN]
  BY ReuseAssumption DEF Return, Retried, ReuseInv, ReuseTypeOK
<1>2. PICK state \in {"idle", "get"} : Goto(s, state, None)
  BY DEF Return
<1> QED
  BY <1>1, <1>2, CallerMoves DEF Return

(* A caller gets a connection nobody has, and a goroutine to use it.       *)
LEMMA GetIdleInv ==
    ASSUME ReuseInv, NEW s \in Caller, GetIdle(s)
    PROVE  ReuseInv'
<1> USE DEF ReuseInv
<1>1. PICK c \in idleConns, W \in SUBSET idleConns :
        /\ ~Unusable(c) /\ \A d \in W : Unusable(d)
        /\ idleConns' = idleConns \ (W \cup {c})
        /\ conns' = conns \ W
        /\ serving' = [serving EXCEPT ![c] = TRUE]
        /\ Exchange(s, c)
  BY DEF GetIdle
<1>2. c \in Conn /\ c \in conns /\ c \notin W /\ hand[c] = "none" /\ owner[c] = None
  BY <1>1 DEF ReuseTypeOK, Serving, Ownership
<1>3. /\ hand' = [hand EXCEPT ![c] = "exchange"] /\ owner' = [owner EXCEPT ![c] = s]
      /\ inFlight' = inFlight \cup {c}
      /\ pc' = [pc EXCEPT ![s] = "wait"] /\ at' = [at EXCEPT ![s] = c]
  BY <1>1 DEF Exchange, Hold, Goto
<1>4. ReuseTypeOK'
  <2>1. idleConns' \subseteq conns'
    BY <1>1 DEF ReuseTypeOK
  <2>2. hand' \in [Conn -> Hand]
    BY <1>2, <1>3 DEF ReuseTypeOK, Hand
  <2> QED
    BY <1>1, <1>2, <1>3, <2>1, <2>2 DEF GetIdle, ReuseTypeOK
<1>5. Ownership'
  <2>1. \A d \in Conn : owner[d] # s
    BY ReuseAssumption DEF GetIdle, Ownership, ReuseTypeOK
  <2>2. \A u \in Caller : pc[u] \in {"dial", "wait"} => at[u] # c
    BY <1>2, ReuseAssumption DEF Ownership
  <2> QED
    BY <1>2, <1>3, <2>1, <2>2, ReuseAssumption DEF Ownership, ReuseTypeOK
<1>6. \A d \in Conn : Serving(d)'
  BY <1>1, <1>2, <1>3 DEF Serving, ReuseTypeOK
<1>7. Socket(c)'
  BY <1>1, <1>2, <1>3 DEF GetIdle, Unusable, Socket, ReuseTypeOK
<1>8. \A d \in Conn \ {c} : Socket(d)'
  <2> SUFFICES ASSUME NEW d \in Conn \ {c} PROVE Socket(d)'
    OBVIOUS
  <2>1. /\ hand'[d] = hand[d] /\ sock' = sock /\ rcClosed' = rcClosed /\ closing' = closing
        /\ closed' = closed
    BY <1>3 DEF GetIdle, ReuseTypeOK
  <2>2. CASE d \in W
    BY <1>1, <2>1, <2>2 DEF Unusable, Serving, Socket
  <2>3. CASE d \notin W
    BY <1>1, <2>1, <2>3 DEF Socket
  <2> QED
    BY <2>2, <2>3
<1> QED
  BY <1>4, <1>5, <1>6, <1>7, <1>8

LEMMA StartDialInv ==
    ASSUME ReuseInv, NEW s \in Caller, StartDial(s)
    PROVE  ReuseInv'
<1> USE DEF ReuseInv
<1>1. PICK c \in Conn :
        /\ Fresh(c)
        /\ sock' = [sock EXCEPT ![c] = "none"]
        /\ rcClosed' = [rcClosed EXCEPT ![c] = FALSE]
        /\ serving' = [serving EXCEPT ![c] = FALSE]
        /\ inFlight' = inFlight \ {c}
        /\ Hold(c, "dialing", s)
        /\ Goto(s, "dial", c)
  BY DEF StartDial
<1>2. hand[c] = "none" /\ owner[c] = None /\ c \notin conns /\ c \notin closing
  BY <1>1 DEF Fresh, Ownership
<1>3. /\ hand' = [hand EXCEPT ![c] = "dialing"] /\ owner' = [owner EXCEPT ![c] = s]
      /\ pc' = [pc EXCEPT ![s] = "dial"] /\ at' = [at EXCEPT ![s] = c]
  BY <1>1 DEF Hold, Goto
<1>4. /\ idleConns' = {} /\ conns' = conns \ idleConns /\ closed' = closed /\ closing' = closing
      /\ \A d \in idleConns : Unusable(d)
  BY DEF StartDial
<1>5. ReuseTypeOK'
  <2>1. /\ hand' \in [Conn -> Hand]
        /\ sock' \in [Conn -> {"none", "open", "closed"}]
    BY <1>1, <1>3 DEF ReuseTypeOK, Hand
  <2> QED
    BY <1>1, <1>3, <1>4, <2>1 DEF StartDial, ReuseTypeOK
<1>6. Ownership'
  <2>1. \A d \in Conn : owner[d] # s
    BY ReuseAssumption DEF StartDial, Ownership, ReuseTypeOK
  <2>2. \A u \in Caller : at[u] # c
    BY <1>1 DEF Fresh
  <2> QED
    BY <1>2, <1>3, <2>1, <2>2, ReuseAssumption DEF Ownership, ReuseTypeOK
<1>7. \A d \in Conn : Serving(d)'
  BY <1>1, <1>2, <1>3, <1>4 DEF Serving, ReuseTypeOK
<1>8. Socket(c)'
  BY <1>1, <1>2, <1>3, <1>4 DEF Socket, ReuseTypeOK
<1>9. \A d \in Conn \ {c} : Socket(d)'
  <2> SUFFICES ASSUME NEW d \in Conn \ {c} PROVE Socket(d)'
    OBVIOUS
  <2>1. hand'[d] = hand[d] /\ sock'[d] = sock[d] /\ rcClosed'[d] = rcClosed[d]
    BY <1>1, <1>3 DEF ReuseTypeOK
  <2>2. CASE d \in idleConns
    BY <1>4, <2>1, <2>2 DEF Unusable, Serving, Socket
  <2>3. CASE d \notin idleConns
    BY <1>4, <2>1, <2>3 DEF Socket
  <2> QED
    BY <2>2, <2>3
<1> QED
  BY <1>5, <1>6, <1>7, <1>8, <1>9

LEMMA DialReturnsInv ==
    ASSUME ReuseInv, NEW c \in Conn, DialReturns(c)
    PROVE  ReuseInv'
<1> USE DEF ReuseInv
<1>1. PICK state \in {"conn", "failed"} : hand' = [hand EXCEPT ![c] = state]
  BY DEF DialReturns
<1>2. ReuseTypeOK'
  <2>1. hand' \in [Conn -> Hand]
    BY <1>1 DEF ReuseTypeOK, Hand
  <2>2. idleConns' \subseteq conns' /\ conns' \subseteq Conn
    BY DEF DialReturns, ReuseTypeOK
  <2>3. /\ sock' \in [Conn -> {"none", "open", "closed"}]
        /\ serving' \in [Conn -> BOOLEAN] /\ rcClosed' \in [Conn -> BOOLEAN]
    BY DEF DialReturns, ReuseTypeOK
  <2> QED
    BY <2>1, <2>2, <2>3 DEF DialReturns, ReuseTypeOK, callerVars
<1>3. Ownership'
  BY <1>1 DEF DialReturns, Ownership, ReuseTypeOK, callerVars
<1>4. \A d \in Conn : Serving(d)'
  BY DEF DialReturns, Serving, ReuseTypeOK
<1>5. \A d \in Conn : Socket(d)'
  BY DEF DialReturns, Serving, Socket, ReuseTypeOK
<1> QED
  BY <1>2, <1>3, <1>4, <1>5

LEMMA DialDeliveredInv ==
    ASSUME ReuseInv, NEW s \in Caller, DialDelivered(s)
    PROVE  ReuseInv'
<1> USE DEF ReuseInv
<1> DEFINE c == at[s]
<1>1. c \in Conn /\ owner[c] = s /\ pc[s] = "dial"
  BY DEF DialDelivered, Ownership
<1>2. UNCHANGED <<transportVars, serving, rcClosed, sock, closing, newConn, retry>>
  BY DEF DialDelivered
<1>3. \A d \in Conn \ {c} : owner[d] # s
  BY ReuseAssumption DEF Ownership
<1>4. CASE hand[c] = "conn" /\ Exchange(s, c)
  <2>1. /\ hand' = [hand EXCEPT ![c] = "exchange"] /\ owner' = [owner EXCEPT ![c] = s]
        /\ inFlight' = inFlight \cup {c}
        /\ pc' = [pc EXCEPT ![s] = "wait"] /\ at' = [at EXCEPT ![s] = c]
    BY <1>4 DEF Exchange, Hold, Goto
  <2> HIDE DEF c
  <2>2. ReuseTypeOK'
    BY <1>1, <1>2, <2>1 DEF ReuseTypeOK, Hand, transportVars
  <2>3. Ownership'
    BY <1>1, <1>3, <1>4, <2>1, ReuseAssumption DEF Ownership, ReuseTypeOK, c
  <2>4. \A d \in Conn : Serving(d)' /\ Socket(d)'
    BY <1>1, <1>2, <1>4, <2>1 DEF Serving, Socket, ReuseTypeOK, transportVars
  <2> QED
    BY <2>2, <2>3, <2>4
<1>5. CASE hand[c] = "failed" /\ Hold(c, "none", None) /\ Goto(s, "idle", None) /\ UNCHANGED inFlight
  <2>1. /\ hand' = [hand EXCEPT ![c] = "none"] /\ owner' = [owner EXCEPT ![c] = None]
        /\ pc' = [pc EXCEPT ![s] = "idle"] /\ at' = [at EXCEPT ![s] = None]
    BY <1>5 DEF Hold, Goto
  <2> HIDE DEF c
  <2>2. ReuseTypeOK'
    BY <1>1, <1>2, <1>5, <2>1 DEF ReuseTypeOK, Hand, transportVars
  <2>3. Ownership'
    BY <1>1, <1>3, <2>1, ReuseAssumption DEF Ownership, ReuseTypeOK
  <2>4. \A d \in Conn : Serving(d)' /\ Socket(d)'
    BY <1>1, <1>2, <1>5, <2>1 DEF Serving, Socket, ReuseTypeOK, transportVars
  <2> QED
    BY <2>2, <2>3, <2>4
<1> QED
  BY <1>4, <1>5 DEF DialDelivered

LEMMA DialOrphanedInv ==
    ASSUME ReuseInv, NEW c \in Conn, DialOrphaned(c)
    PROVE  ReuseInv'
<1> USE DEF ReuseInv
<1>1. PICK state \in {"idled", "none"} :
        hand' = [hand EXCEPT ![c] = state] /\ owner' = [owner EXCEPT ![c] = None]
  BY DEF DialOrphaned, OrphanIdles, Hold
<1>2. UNCHANGED <<transportVars, rcClosed, sock, closing, inFlight, callerVars>> /\ owner[c] = None
  BY DEF DialOrphaned
<1>3. ReuseTypeOK'
  BY <1>1, <1>2 DEF DialOrphaned, OrphanIdles, NotServing, ReuseTypeOK, Hand, transportVars, callerVars
<1>4. Ownership'
  BY <1>1, <1>2, ReuseAssumption DEF Ownership, ReuseTypeOK, callerVars
<1>5. \A d \in Conn : Serving(d)' /\ Socket(d)'
  BY <1>2 DEF DialOrphaned, OrphanIdles, NotServing, Hold, Serving, Socket, ReuseTypeOK, transportVars
<1> QED
  BY <1>3, <1>4, <1>5

(* exchangeConn is done; its caller, if it is still there, is told.        *)
LEMMA ResultOwnership ==
    ASSUME ReuseInv, NEW c \in Conn, hand[c] = "exchange", NEW state \in {"ok", "err"},
           Result(c, state), at' = at
    PROVE  /\ hand' = [hand EXCEPT ![c] = state] /\ owner' = [owner EXCEPT ![c] = None]
           /\ pc' \in [Caller -> {"idle", "get", "dial", "wait", "ok", "err"}]
           /\ hand' \in [Conn -> Hand]
           /\ Ownership'
<1> USE DEF ReuseInv
<1>1. hand' = [hand EXCEPT ![c] = state] /\ owner' = [owner EXCEPT ![c] = None]
  BY DEF Result, Hold
<1>2. hand' \in [Conn -> Hand]
  BY <1>1 DEF ReuseTypeOK, Hand
<1>3. CASE owner[c] = None
  <2>1. pc' = pc
    BY <1>3 DEF Result
  <2> QED
    BY <1>1, <1>2, <1>3, <2>1, ReuseAssumption DEF Ownership, ReuseTypeOK
<1>4. CASE owner[c] # None
  <2>1. PICK s \in Caller : s = owner[c]
    BY <1>4 DEF ReuseTypeOK
  <2>2. pc' = [pc EXCEPT ![s] = state]
    BY <1>4, <2>1 DEF Result
  <2>3. \A d \in Conn \ {c} : owner[d] # s
    BY <2>1, ReuseAssumption DEF Ownership
  <2>4. Ownership'
    BY <1>1, <2>1, <2>2, <2>3, ReuseAssumption DEF Ownership, ReuseTypeOK
  <2> QED
    BY <1>1, <1>2, <2>2, <2>4 DEF ReuseTypeOK
<1> QED
  BY <1>3, <1>4

LEMMA ExchangeOkInv ==
    ASSUME ReuseInv, NEW c \in Conn, ExchangeOk(c)
    PROVE  ReuseInv'
<1> USE DEF ReuseInv
<1>1. /\ hand' = [hand EXCEPT ![c] = "ok"] /\ owner' = [owner EXCEPT ![c] = None]
      /\ pc' \in [Caller -> {"idle", "get", "dial", "wait", "ok", "err"}]
      /\ hand' \in [Conn -> Hand]
      /\ Ownership'
  BY ResultOwnership DEF ExchangeOk
<1>2. ReuseTypeOK'
  BY <1>1 DEF ExchangeOk, ReuseTypeOK, transportVars
<1>3. \A d \in Conn : Serving(d)' /\ Socket(d)'
  BY <1>1 DEF ExchangeOk, Serving, Socket, ReuseTypeOK, transportVars
<1> QED
  BY <1>1, <1>2, <1>3

LEMMA ExchangeErrInv ==
    ASSUME ReuseInv, NEW c \in Conn, ExchangeErr(c)
    PROVE  ReuseInv'
<1> USE DEF ReuseInv
<1>1. /\ hand' = [hand EXCEPT ![c] = "err"] /\ owner' = [owner EXCEPT ![c] = None]
      /\ pc' \in [Caller -> {"idle", "get", "dial", "wait", "ok", "err"}]
      /\ hand' \in [Conn -> Hand]
      /\ Ownership'
  BY ResultOwnership DEF ExchangeErr
<1>2. ReuseTypeOK'
  BY <1>1 DEF ExchangeErr, ReuseTypeOK, transportVars, connVars
<1>3. \A d \in Conn : Serving(d)' /\ Socket(d)'
  BY <1>1 DEF ExchangeErr, Serving, Socket, ReuseTypeOK, transportVars, connVars
<1> QED
  BY <1>1, <1>2, <1>3

(* The goroutine goes on, for nobody.                                      *)
LEMMA GiveUpInv ==
    ASSUME ReuseInv, NEW s \in Caller, GiveUp(s)
    PROVE  ReuseInv'
<1> USE DEF ReuseInv
<1>1. at[s] \in Conn /\ owner[at[s]] = s
  BY DEF GiveUp, Ownership
<1>2. /\ hand' = hand /\ owner' = [owner EXCEPT ![at[s]] = None]
      /\ pc' = [pc EXCEPT ![s] = "idle"] /\ at' = [at EXCEPT ![s] = None]
      /\ UNCHANGED <<transportVars, connVars, newConn, retry>>
  BY DEF GiveUp, LeaveRunning, Goto
<1>3. ReuseTypeOK'
  BY <1>1, <1>2 DEF ReuseTypeOK, transportVars, connVars
<1>4. Ownership'
  <2>1. \A d \in Conn \ {at[s]} : owner[d] # s
    BY ReuseAssumption DEF Ownership
  <2> QED
    BY <1>1, <1>2, <2>1, ReuseAssumption DEF Ownership, ReuseTypeOK
<1>5. \A d \in Conn : Serving(d)' /\ Socket(d)'
  BY <1>2 DEF Serving, Socket, transportVars, connVars
<1> QED
  BY <1>3, <1>4, <1>5

LEMMA ReleaseBeginsInv ==
    ASSUME ReuseInv, NEW c \in Conn, ReleaseBegins(c)
    PROVE  ReuseInv'
<1> USE DEF ReuseInv
<1>1. ReuseTypeOK'
  BY DEF ReleaseBegins, NotServing, ReuseTypeOK, Hand, transportVars, callerVars
<1>2. Ownership'
  BY ReuseAssumption DEF ReleaseBegins, Ownership, ReuseTypeOK, callerVars
<1>3. \A d \in Conn : Serving(d)' /\ Socket(d)'
  BY DEF ReleaseBegins, NotServing, Serving, Socket, ReuseTypeOK, transportVars
<1> QED
  BY <1>1, <1>2, <1>3

LEMMA ReleaseEndsInv ==
    ASSUME ReuseInv, NEW c \in Conn, ReleaseEnds(c)
    PROVE  ReuseInv'
<1> USE DEF ReuseInv
<1>1. c \in conns /\ c \notin idleConns /\ owner[c] = None
  BY DEF ReleaseEnds, Serving, Socket, Ownership
<1>2. ReuseTypeOK'
  BY <1>1 DEF ReleaseEnds, ReuseTypeOK, Hand, callerVars
<1>3. Ownership'
  BY <1>1, ReuseAssumption DEF ReleaseEnds, Ownership, ReuseTypeOK, callerVars
<1>4. \A d \in Conn : Serving(d)'
  BY <1>1 DEF ReleaseEnds, Serving, ReuseTypeOK
<1>5. \A d \in Conn : Socket(d)'
  BY <1>1 DEF ReleaseEnds, Socket, ReuseTypeOK
<1> QED
  BY <1>2, <1>3, <1>4, <1>5

LEMMA TimerInv ==
    ASSUME ReuseInv, NEW c \in Conn, IdleTimeout(c) \/ TimerCloses(c)
    PROVE  ReuseInv'
<1> USE DEF ReuseInv
<1>1. ReuseTypeOK'
  BY DEF IdleTimeout, TimerCloses, ReuseTypeOK, transportVars, handVars, callerVars
<1>2. Ownership'
  BY DEF IdleTimeout, TimerCloses, Ownership, handVars, callerVars
<1>3. \A d \in Conn : Serving(d)' /\ Socket(d)'
  BY DEF IdleTimeout, TimerCloses, Serving, Socket, ReuseTypeOK, transportVars, handVars
<1> QED
  BY <1>1, <1>2, <1>3

LEMMA CloseInv ==
    ASSUME ReuseInv, Close
    PROVE  ReuseInv'
<1> USE DEF ReuseInv
<1>1. ReuseTypeOK'
  BY DEF Close, ReuseTypeOK, handVars, callerVars
<1>2. Ownership'
  BY DEF Close, Ownership, handVars, callerVars
<1>3. \A d \in Conn : Serving(d)' /\ Socket(d)'
  BY DEF Close, Serving, Socket, ReuseTypeOK, handVars
<1> QED
  BY <1>1, <1>2, <1>3

-----------------------------------------------------------------------------
(* The resolver                                                            *)

Resolvers == Conn \cup {UdpDialer}

LookupState == {"none", "leading", "following", "ending", "found", "failed"}

(* inflight is there as long as its leader has not left, and tells those   *)
(* who find it what the leader found.                                      *)
BootInv ==
    /\ lookup \in [Resolvers -> LookupState]
    /\ inflight \in Boot!InflightQuery \cup {NoLookup}
    /\ cache \in Nat
    /\ \A l \in Resolvers : lookup[l] \in {"leading", "ending"} =>
        inflight # NoLookup /\ inflight.by = l /\ cache = 0
    /\ inflight # NoLookup =>
        /\ lookup[inflight.by] \in {"leading", "ending"}
        /\ inflight.state = "pending" <=> lookup[inflight.by] = "leading"
    /\ \A l \in Resolvers : lookup[l] = "following" =>
        inflight # NoLookup /\ inflight.state = "pending"

LEMMA BootInit == Boot!BootstrapInit => BootInv
BY DEF Boot!BootstrapInit, BootInv, Resolvers, LookupState

(* The least ttl of the addresses two queries brought is one of theirs.    *)
LEMMA LeastTtlType ==
    ASSUME NEW r4 \in Boot!Reply, NEW r6 \in Boot!Reply, Boot!WithIps({r4, r6}) # {}
    PROVE  Boot!LeastTtl({r4, r6}) \in Nat
<1> DEFINE R == Boot!WithIps({r4, r6})
           T == {r.ttl : r \in R}
<1>1. \A r \in R : r \in {r4, r6} /\ r.kind = "ips"
  BY DEF Boot!WithIps
<1>2. \A r \in R : r.ttl \in Nat
  BY <1>1, UpstreamAssumption DEF Boot!Reply
<1>3. \E t \in T : \A r \in R : t <= r.ttl
  <2>1. \E m \in R : \A r \in R : m.ttl <= r.ttl
    <3>1. CASE r4 \in R /\ r6 \in R
      BY <1>1, <1>2, <3>1
    <3>2. CASE ~(r4 \in R /\ r6 \in R)
      <4>1. PICK m \in R : R = {m}
        BY <1>1, <3>2
      <4>2. m.ttl <= m.ttl
        BY <1>2
      <4> QED
        BY <4>1, <4>2
    <3> QED
      BY <3>1, <3>2
  <2> QED
    BY <2>1
<1>4. Boot!LeastTtl({r4, r6}) \in T
  BY <1>3 DEF Boot!LeastTtl
<1> QED
  BY <1>2, <1>4

LEMMA ResolveInv ==
    ASSUME BootInv, NEW l \in Resolvers, Boot!Resolve(l)
    PROVE  BootInv'
<1>1. CASE Boot!ResolveNothing(l) \/ Boot!ResolveCached(l)
  BY <1>1 DEF Boot!Resolve, Boot!ResolveNothing, Boot!ResolveCached, Boot!At, BootInv, LookupState,
     Boot!InflightQuery, Resolvers
<1>2. CASE Boot!ResolveFollowing(l)
  <2>1. inflight.state \in {"pending", "ips", "err"}
    BY <1>2 DEF Boot!ResolveFollowing, BootInv, Boot!InflightQuery
  <2>2. PICK state \in {"following", "found", "failed"} :
          /\ lookup' = [lookup EXCEPT ![l] = state]
          /\ state = "following" => inflight.state = "pending"
    BY <1>2, <2>1 DEF Boot!ResolveFollowing, Boot!At
  <2> QED
    BY <1>2, <2>2 DEF Boot!Resolve, Boot!ResolveFollowing, BootInv, LookupState, Boot!InflightQuery, Resolvers
<1>3. CASE Boot!ResolveLeading(l)
  <2>1. inflight' \in Boot!InflightQuery /\ inflight' # NoLookup
        /\ inflight'.by = l /\ inflight'.state = "pending"
    BY <1>3, UpstreamAssumption DEF Boot!ResolveLeading, Boot!InflightQuery, Resolvers
  <2>2. lookup' = [lookup EXCEPT ![l] = "leading"] /\ cache' = cache /\ cache = 0 /\ inflight = NoLookup
    BY <1>3 DEF Boot!ResolveLeading, Boot!At
  <2> QED
    BY <2>1, <2>2 DEF BootInv, LookupState
<1> QED
  BY <1>1, <1>2, <1>3 DEF Boot!Resolve

LEMMA QueryReturnsInv ==
    ASSUME BootInv, NEW l \in Resolvers, Boot!QueryReturns(l)
    PROVE  BootInv'
<1>1. PICK state \in {"ips", "err"}, ttl \in Nat :
        /\ inflight' = [by |-> l, state |-> state, ttl |-> ttl]
        /\ lookup' = [Boot!Told(state) EXCEPT ![l] = "ending"]
  BY LeastTtlType DEF Boot!QueryReturns
<1>2. /\ inflight' \in Boot!InflightQuery /\ inflight' # NoLookup
      /\ inflight'.by = l /\ inflight'.state # "pending"
  BY <1>1, UpstreamAssumption DEF Boot!InflightQuery, Resolvers
<1>3. /\ lookup' \in [Resolvers -> LookupState]
      /\ lookup'[l] = "ending"
      /\ \A m \in Resolvers \ {l} : lookup'[m] \in {lookup[m], "found", "failed"} /\ lookup'[m] # "following"
  BY <1>1 DEF Boot!Told, BootInv, LookupState, Resolvers
<1>4. inflight # NoLookup /\ inflight.by = l /\ cache = 0 /\ cache' = cache
  BY DEF Boot!QueryReturns, BootInv
<1> QED
  BY <1>2, <1>3, <1>4 DEF BootInv

LEMMA ResolveEndsInv ==
    ASSUME BootInv, NEW l \in Resolvers, Boot!ResolveEnds(l)
    PROVE  BootInv'
<1>1. inflight # NoLookup /\ inflight.by = l /\ inflight.ttl \in Nat /\ inflight.state # "pending"
  BY DEF Boot!ResolveEnds, BootInv, Boot!InflightQuery
<1>2. PICK state \in {"found", "failed"} : lookup' = [lookup EXCEPT ![l] = state]
  BY DEF Boot!ResolveEnds, Boot!At
<1>3. cache' \in Nat /\ inflight' = NoLookup
  BY <1>1 DEF Boot!ResolveEnds, Boot!MaxTtl, BootInv
<1>4. \A m \in Resolvers \ {l} : lookup[m] \notin {"leading", "ending", "following"}
  BY <1>1 DEF BootInv
<1> QED
  BY <1>2, <1>3, <1>4 DEF BootInv, LookupState

LEMMA FollowerLeavesInv ==
    ASSUME BootInv, NEW l \in Resolvers, Boot!FollowerLeaves(l)
    PROVE  BootInv'
BY DEF Boot!FollowerLeaves, Boot!At, BootInv, LookupState, Boot!InflightQuery, Resolvers

LEMMA LookupStepInv ==
    ASSUME BootInv, NEW l \in Resolvers, Boot!LookupStep(l)
    PROVE  BootInv'
BY ResolveInv, QueryReturnsInv, ResolveEndsInv, FollowerLeavesInv DEF Boot!LookupStep

LEMMA LookupForgottenInv ==
    ASSUME BootInv, NEW l \in Resolvers, lookup[l] \in {"found", "failed"}, Boot!At(l, "none"),
           UNCHANGED <<inflight, cache>>
    PROVE  BootInv'
BY DEF Boot!At, BootInv, LookupState, Boot!InflightQuery, Resolvers

LEMMA TickInv ==
    ASSUME BootInv, Boot!Tick
    PROVE  BootInv'
BY DEF Boot!Tick, BootInv

LEMMA BootStutter ==
    ASSUME BootInv, UNCHANGED resolverVars
    PROVE  BootInv'
BY DEF BootInv, resolverVars

-----------------------------------------------------------------------------
(* The upstream                                                            *)

IInv == ReuseInv /\ BootInv

LEMMA InitIInv == UpstreamInit => IInv
BY ReuseInit, BootInit DEF UpstreamInit, IInv

LEMMA CallerStepIInv ==
    ASSUME IInv, NEW s \in Caller, UpstreamCaller(s)
    PROVE  IInv'
<1> USE DEF IInv
<1>1. CASE (AskUdp(s) \/ UdpAnswers(s) \/ UdpTruncated(s) \/ AskTcp(s)) /\ UNCHANGED resolverVars
  BY <1>1, ReuseStutter, StartInv, BootStutter DEF AskUdp, UdpAnswers, UdpTruncated, AskTcp
<1>2. CASE Dials(s)
  BY <1>2, StartDialInv, BootStutter DEF Dials
<1>3. CASE /\ GetRefused(s) \/ GetIdle(s) \/ DialDelivered(s) \/ Return(s) \/ GiveUp(s)
           /\ UNCHANGED <<fallbackVars, resolverVars>>
  BY <1>3, GetRefusedInv, GetIdleInv, DialDeliveredInv, ReturnInv, GiveUpInv, BootStutter
<1> QED
  BY <1>1, <1>2, <1>3 DEF UpstreamCaller

LEMMA ConnStepIInv ==
    ASSUME IInv, NEW c \in Conn, UpstreamConn(c)
    PROVE  IInv'
<1> USE DEF IInv
<1>1. c \in Resolvers
  BY DEF Resolvers
<1>2. CASE Resolving(c)
  BY <1>1, <1>2, LookupStepInv, ReuseStutter DEF Resolving
<1>3. CASE DialEnds(c)
  BY <1>1, <1>3, DialReturnsInv, LookupForgottenInv DEF DialEnds
<1>4. CASE /\ \/ DialOrphaned(c) \/ ExchangeOk(c) \/ ExchangeErr(c) \/ ReleaseBegins(c)
              \/ ReleaseEnds(c) \/ IdleTimeout(c) \/ TimerCloses(c)
           /\ UNCHANGED <<fallbackVars, resolverVars>>
  BY <1>4, DialOrphanedInv, ExchangeOkInv, ExchangeErrInv, ReleaseBeginsInv, ReleaseEndsInv,
     TimerInv, BootStutter
<1> QED
  BY <1>2, <1>3, <1>4 DEF UpstreamConn

LEMMA StepIInv == IInv /\ [UpstreamNext]_upstreamVars => IInv'
<1> SUFFICES ASSUME IInv, [UpstreamNext]_upstreamVars PROVE IInv'
  OBVIOUS
<1> USE DEF IInv
<1>1. CASE UNCHANGED upstreamVars
  BY <1>1, ReuseStutter, BootStutter DEF upstreamVars
<1>2. CASE \E s \in Caller : UpstreamCaller(s)
  BY <1>2, CallerStepIInv
<1>3. CASE \E c \in Conn : UpstreamConn(c)
  BY <1>3, ConnStepIInv
<1>4. CASE UdpResolving
  <2>1. UdpDialer \in Resolvers
    BY DEF Resolvers
  <2>2. BootInv'
    BY <1>4, <2>1, ResolveInv, LookupStepInv, LookupForgottenInv DEF UdpResolving
  <2> QED
    BY <1>4, <2>2, ReuseStutter DEF UdpResolving
<1>5. CASE TimePasses
  BY <1>5, TickInv, ReuseStutter DEF TimePasses
<1>6. CASE (CloseUdpFirst \/ CloseTcp) /\ UNCHANGED resolverVars
  BY <1>6, ReuseStutter, CloseInv, BootStutter DEF CloseUdpFirst, CloseTcp
<1> QED
  BY <1>1, <1>2, <1>3, <1>4, <1>5, <1>6 DEF UpstreamNext

LEMMA Invariance == UpstreamSpec => []IInv
BY InitIInv, StepIInv, PTL DEF UpstreamSpec

-----------------------------------------------------------------------------
(* reuse_transport.go: whatever callers, dials, exchanges, timers and      *)
(* Close do between each other's steps, the transport's records agree with *)
(* what the goroutines do.                                                 *)
THEOREM ReuseTypeCorrect == UpstreamSpec => []ReuseTypeOK
<1>1. IInv => ReuseTypeOK
  BY DEF IInv, ReuseInv
<1> QED
  BY Invariance, <1>1, PTL

(* reuse_transport.go exchangeConnCtx and asyncDial: a caller that waits   *)
(* for a dial or a response waits for a goroutine that works for it and    *)
(* for no other caller, so that what it sends on resChan is its answer.    *)
THEOREM ReuseOwnership == UpstreamSpec => []Ownership
<1>1. IInv => Ownership
  BY DEF IInv, ReuseInv
<1> QED
  BY Invariance, <1>1, PTL

(* reuse_transport.go releaseConn and getIdleConn: no connection that is   *)
(* idle or fresh has a response on its way.                                *)
THEOREM ReuseIdleIsQuiet == UpstreamSpec => []IdleIsQuiet
<1>1. IInv => IdleIsQuiet
  BY DEF IInv, ReuseInv, Serving, IdleIsQuiet
<1> QED
  BY Invariance, <1>1, PTL

(* reuse_transport.go enterIdle and exitIdle: their assertions hold.       *)
THEOREM ReuseNoPanic == UpstreamSpec => []NoPanic
<1>1. IInv => NoPanic
  BY DEF IInv, ReuseInv, ReuseTypeOK, Serving, NoPanic
<1> QED
  BY Invariance, <1>1, PTL

(* reuse_transport.go: every open socket is in conns until somebody closes *)
(* it, whichever of releaseConn, the idle timer and Close comes first.     *)
THEOREM ReuseSocketsTracked == UpstreamSpec => []SocketsTracked
<1>1. IInv => SocketsTracked
  BY DEF IInv, ReuseInv, Socket, SocketsTracked
<1> QED
  BY Invariance, <1>1, PTL

(* bootstrap.go resolve: however many dials start together, one of them    *)
(* asks, and none while an address is cached.                              *)
THEOREM UpstreamSingleLookup == UpstreamSpec => []SingleLookup
<1>1. IInv => SingleLookup
  BY DEF IInv, BootInv, Resolvers, SingleLookup, Boot!SingleLookup
<1> QED
  BY Invariance, <1>1, PTL

(* bootstrap.go resolve: nobody waits for a query that was given up, is    *)
(* done or was deleted.                                                    *)
THEOREM UpstreamFollowersAreTold == UpstreamSpec => []FollowersAreTold
<1>1. IInv => FollowersAreTold
  BY DEF IInv, BootInv, Resolvers, FollowersAreTold, Boot!FollowersAreTold
<1> QED
  BY Invariance, <1>1, PTL
=============================================================================
