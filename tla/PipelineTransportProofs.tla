---------------------- MODULE PipelineTransportProofs ----------------------
(***************************************************************************)
(* Proofs about ConnPool and PipelineTransport, for every number of        *)
(* connections, callers and query ids and every value of the limits.  The  *)
(* pool comes first, on its own; then the transport, whose steps are, to   *)
(* the pool, steps of the pool's own.                                      *)
(***************************************************************************)
EXTENDS PipelineTransport, FiniteSetTheorems, TLAPS

-----------------------------------------------------------------------------
(* The pool.                                                               *)

(* How the parts of the pool's state go together: which dialing calls are  *)
(* in dialingCalls, what their dial goroutines do, and what a caller may   *)
(* refer to.                                                               *)
Lifecycle ==
    /\ \A c \in Conn : dialCall[c] = "pending" => c \in dialingCalls
    /\ \A c \in dialingCalls :
        /\ dialCall[c] \in {"pending", "cancelled"}
        /\ ~closed => dialCall[c] = "pending"
        /\ c \notin busyConns /\ c \notin idleConns
    /\ \A c \in Conn : dialer[c] # "none" => c \in dialingCalls
    /\ ~closed /\ lastDialCall # None => lastDialCall \in dialingCalls
    /\ \A c \in busyConns \cup idleConns : dialCall[c] = "delivered"
    /\ \A c \in busyConns : c \notin idleConns
    /\ \A s \in Stream : pc[s] = "idle" <=> at[s] = None
    /\ \A s \in Stream :
        pc[s] \in {"picked", "open", "refused"} => dialCall[at[s]] = "delivered"

IInv == TypeOK /\ Lifecycle /\ StreamAccounting

-----------------------------------------------------------------------------
(* Counting the callers of a connection.                                   *)

LEMMA UsersFinite ==
    ASSUME NEW c
    PROVE  IsFiniteSet(Users(c)) /\ Cardinality(Users(c)) \in Nat
<1>1. Users(c) \in SUBSET Stream
  BY DEF Users
<1>2. IsFiniteSet(Users(c))
  BY <1>1, FS_Subset, PoolAssumption
<1> QED
  BY <1>2, FS_CardinalityType

(* A caller that referred to nothing now refers to c: c has one more.      *)
LEMMA UsersJoin ==
    ASSUME TypeOK, NEW s \in Stream, NEW c \in Conn, at[s] = None,
           at' = [at EXCEPT ![s] = c]
    PROVE  /\ s \notin Users(c)
           /\ Users(c)' = Users(c) \cup {s}
           /\ Cardinality(Users(c)') = Cardinality(Users(c)) + 1
           /\ \A d \in Conn \ {c} : Users(d)' = Users(d)
<1>1. s \notin Users(c)
  BY PoolAssumption DEF Users
<1>2. Users(c)' = Users(c) \cup {s}
  BY DEF Users, TypeOK
<1>3. \A d \in Conn \ {c} : Users(d)' = Users(d)
  BY PoolAssumption DEF Users, TypeOK
<1> QED
  BY <1>1, <1>2, <1>3, FS_AddElement, UsersFinite

(* A caller that referred to c lets go of it: c has one less.              *)
LEMMA UsersLeave ==
    ASSUME TypeOK, NEW s \in Stream, NEW c \in Conn, at[s] = c,
           at' = [at EXCEPT ![s] = None]
    PROVE  /\ s \in Users(c)
           /\ Users(c)' = Users(c) \ {s}
           /\ Cardinality(Users(c)') = Cardinality(Users(c)) - 1
           /\ Cardinality(Users(c)) = 1 => Users(c)' = {}
           /\ \A d \in Conn \ {c} : Users(d)' = Users(d)
<1>1. s \in Users(c)
  BY DEF Users
<1>2. Users(c)' = Users(c) \ {s}
  BY PoolAssumption DEF Users, TypeOK
<1>3. \A d \in Conn \ {c} : Users(d)' = Users(d)
  BY PoolAssumption DEF Users, TypeOK
<1>4. Cardinality(Users(c)') = Cardinality(Users(c)) - 1
  BY <1>1, <1>2, FS_RemoveElement, UsersFinite
<1>5. IsFiniteSet(Users(c)')
  BY <1>2, FS_RemoveElement, UsersFinite
<1>6. Cardinality(Users(c)) = 1 => Users(c)' = {}
  BY <1>4, <1>5, FS_EmptySet
<1> QED
  BY <1>1, <1>2, <1>3, <1>4, <1>6

(* No caller moves: no connection gains or loses one.                      *)
LEMMA UsersSame ==
    ASSUME at' = at
    PROVE  \A d : Users(d)' = Users(d)
BY DEF Users

LEMMA NoUserAtFirst == Init => \A c \in Conn : Users(c) = {}
BY PoolAssumption DEF Init, Users

-----------------------------------------------------------------------------
LEMMA InitIInv == Init => IInv
<1> SUFFICES ASSUME Init PROVE IInv
  OBVIOUS
<1>1. TypeOK
  BY DEF Init, TypeOK, DialCallState, DialerState, ConnState, CallerState
<1>2. Lifecycle
  BY PoolAssumption DEF Init, Lifecycle
<1>3. StreamAccounting
  BY DEF Init, StreamAccounting
<1> QED
  BY <1>1, <1>2, <1>3 DEF IInv

-----------------------------------------------------------------------------
(* One lemma per step of the pool.                                         *)

LEMMA GetBusyIInv ==
    ASSUME IInv, NEW s \in Stream, GetBusy(s), available' \in [Conn -> BOOLEAN]
    PROVE  IInv'
<1> USE DEF IInv
<1>1. PICK V \in SUBSET busyConns :
        /\ \E c \in Picks(V) : TakeStream(s, c)
        /\ busyConns' = SweptBusy(V)
  BY DEF GetBusy
<1>2. PICK c \in Picks(V) : TakeStream(s, c)
  BY <1>1
<1>3. c \in busyConns /\ c \in Conn /\ c \in busyConns'
  BY <1>1 DEF Picks, Roomy, Live, SweptBusy, TypeOK
<1>4. busyConns' \subseteq busyConns
  BY <1>1 DEF SweptBusy
<1>5. at[s] = None /\ at' = [at EXCEPT ![s] = c]
  BY <1>2 DEF GetBusy, TakeStream, Goto, Lifecycle
<1>6. TypeOK'
  <2>1. /\ curStream' \in [Conn -> Nat] /\ streamQueue' \in [Conn -> Nat]
        /\ reserved' \in [Conn -> Nat]
    BY <1>2, <1>3, <1>4 DEF GetBusy, TakeStream, Goto, dialVars, TypeOK
  <2>2. /\ dialCall' \in [Conn -> DialCallState] /\ dialer' \in [Conn -> DialerState]
        /\ connState' \in [Conn -> ConnState] /\ doomed' \subseteq Conn
    BY <1>2, <1>3, <1>4 DEF GetBusy, TakeStream, Goto, dialVars, TypeOK, DialCallState, DialerState
  <2>3. pc' \in [Stream -> CallerState] /\ at' \in [Stream -> Conn \cup {None}]
    BY <1>2, <1>3, <1>4 DEF GetBusy, TakeStream, Goto, dialVars, TypeOK, CallerState
  <2>4. /\ closed' \in BOOLEAN /\ dialingCalls' \subseteq Conn
        /\ lastDialCall' \in Conn \cup {None}
        /\ busyConns' \subseteq Conn /\ idleConns' \subseteq Conn
    BY <1>2, <1>3, <1>4 DEF GetBusy, TakeStream, Goto, dialVars, TypeOK
  <2> QED
    BY <2>1, <2>2, <2>3, <2>4 DEF TypeOK
<1>7. Lifecycle'
  BY <1>2, <1>3, <1>4, PoolAssumption DEF GetBusy, TakeStream, Goto, dialVars, Lifecycle, TypeOK
<1>8. /\ Cardinality(Users(c)') = Cardinality(Users(c)) + 1
      /\ \A d \in Conn \ {c} : Users(d)' = Users(d)
  BY <1>3, <1>5, UsersJoin
<1>9. StreamAccounting'
  <2>1. \A d \in busyConns' : curStream'[d] = Cardinality(Users(d)')
    BY <1>2, <1>3, <1>4, <1>8 DEF TakeStream, StreamAccounting, TypeOK
  <2>2. \A d \in idleConns' : d \in Conn \ {c} /\ d \in idleConns
    BY <1>3 DEF GetBusy, Lifecycle, TypeOK
  <2>3. \A d \in idleConns' : curStream'[d] = 0 /\ Users(d)' = {}
    BY <1>2, <1>3, <1>8, <2>2 DEF TakeStream, StreamAccounting, TypeOK
  <2>4. \A d \in dialingCalls' : d \in Conn \ {c} /\ d \in dialingCalls
    BY <1>3 DEF GetBusy, Lifecycle, TypeOK
  <2>5. \A d \in dialingCalls' :
          dialCall'[d] = "pending" => streamQueue'[d] = Cardinality(Users(d)')
    BY <1>8, <2>4 DEF GetBusy, dialVars, StreamAccounting
  <2> QED
    BY <2>1, <2>3, <2>5 DEF StreamAccounting
<1> QED
  BY <1>6, <1>7, <1>9

LEMMA GetIdleIInv ==
    ASSUME IInv, NEW s \in Stream, GetIdle(s), available' \in [Conn -> BOOLEAN]
    PROVE  IInv'
<1> USE DEF IInv
<1>1. PICK V \in SUBSET busyConns, c \in idleConns, W \in SUBSET idleConns :
        /\ TakeStream(s, c)
        /\ busyConns' = SweptBusy(V) \cup {c}
        /\ idleConns' = idleConns \ (W \cup {c})
  BY DEF GetIdle
<1>2. c \in Conn /\ busyConns' \subseteq busyConns \cup {c} /\ idleConns' \subseteq idleConns \ {c}
  BY <1>1 DEF SweptBusy, TypeOK
<1>3. at[s] = None /\ at' = [at EXCEPT ![s] = c]
  BY <1>1 DEF GetIdle, TakeStream, Goto, Lifecycle
<1>4. TypeOK'
  <2>1. /\ curStream' \in [Conn -> Nat] /\ streamQueue' \in [Conn -> Nat]
        /\ reserved' \in [Conn -> Nat]
    BY <1>1, <1>2 DEF GetIdle, TakeStream, Goto, dialVars, TypeOK
  <2>2. /\ dialCall' \in [Conn -> DialCallState] /\ dialer' \in [Conn -> DialerState]
        /\ connState' \in [Conn -> ConnState] /\ doomed' \subseteq Conn
    BY <1>1, <1>2 DEF GetIdle, TakeStream, Goto, dialVars, TypeOK, DialCallState, DialerState
  <2>3. pc' \in [Stream -> CallerState] /\ at' \in [Stream -> Conn \cup {None}]
    BY <1>1, <1>2 DEF GetIdle, TakeStream, Goto, dialVars, TypeOK, CallerState
  <2>4. /\ closed' \in BOOLEAN /\ dialingCalls' \subseteq Conn
        /\ lastDialCall' \in Conn \cup {None}
        /\ busyConns' \subseteq Conn /\ idleConns' \subseteq Conn
    BY <1>1, <1>2 DEF GetIdle, TakeStream, Goto, dialVars, TypeOK
  <2> QED
    BY <2>1, <2>2, <2>3, <2>4 DEF TypeOK
<1>5. Lifecycle'
  BY <1>1, <1>2, PoolAssumption DEF GetIdle, TakeStream, Goto, dialVars, Lifecycle, TypeOK
<1>6. /\ Cardinality(Users(c)') = Cardinality(Users(c)) + 1
      /\ \A d \in Conn \ {c} : Users(d)' = Users(d)
  BY <1>2, <1>3, UsersJoin
<1>7. StreamAccounting'
  <2>1. curStream'[c] = Cardinality(Users(c)')
    BY <1>1, <1>2, <1>6, FS_EmptySet DEF TakeStream, StreamAccounting, TypeOK
  <2>2. \A d \in busyConns' \ {c} : curStream'[d] = Cardinality(Users(d)')
    BY <1>1, <1>2, <1>6 DEF TakeStream, StreamAccounting, TypeOK
  <2>3. \A d \in idleConns' : curStream'[d] = 0 /\ Users(d)' = {}
    BY <1>1, <1>2, <1>6 DEF TakeStream, StreamAccounting, TypeOK
  <2>4. \A d \in dialingCalls' : d \in Conn \ {c} /\ d \in dialingCalls
    BY <1>1 DEF GetIdle, Lifecycle, TypeOK
  <2>5. \A d \in dialingCalls' :
          dialCall'[d] = "pending" => streamQueue'[d] = Cardinality(Users(d)')
    BY <1>6, <2>4 DEF GetIdle, dialVars, StreamAccounting
  <2> QED
    BY <2>1, <2>2, <2>3, <2>5 DEF StreamAccounting
<1> QED
  BY <1>4, <1>5, <1>7

LEMMA SearchOnlyDeletes ==
    ASSUME NothingToReuse
    PROVE  busyConns' \subseteq busyConns /\ idleConns' \subseteq idleConns
BY DEF NothingToReuse, SweptBusy, Live

LEMMA GetQueueIInv ==
    ASSUME IInv, NEW s \in Stream, GetQueue(s), available' \in [Conn -> BOOLEAN]
    PROVE  IInv'
<1> USE DEF IInv
<1>1. PICK c \in Conn :
        c = lastDialCall /\ c \in dialingCalls /\ dialCall[c] = "pending"
  BY DEF GetQueue, CanQueue, Lifecycle, TypeOK
<1>2. busyConns' \subseteq busyConns /\ idleConns' \subseteq idleConns
  BY SearchOnlyDeletes DEF GetQueue
<1>3. at[s] = None /\ at' = [at EXCEPT ![s] = c]
  BY <1>1 DEF GetQueue, Goto, Lifecycle
<1>4. TypeOK'
  <2>1. /\ curStream' \in [Conn -> Nat] /\ streamQueue' \in [Conn -> Nat]
        /\ reserved' \in [Conn -> Nat]
    BY <1>1, <1>2 DEF GetQueue, Goto, connVars, TypeOK
  <2>2. /\ dialCall' \in [Conn -> DialCallState] /\ dialer' \in [Conn -> DialerState]
        /\ connState' \in [Conn -> ConnState] /\ doomed' \subseteq Conn
    BY <1>1, <1>2 DEF GetQueue, Goto, connVars, TypeOK, DialCallState, DialerState
  <2>3. pc' \in [Stream -> CallerState] /\ at' \in [Stream -> Conn \cup {None}]
    BY <1>1, <1>2 DEF GetQueue, Goto, connVars, TypeOK, CallerState
  <2>4. /\ closed' \in BOOLEAN /\ dialingCalls' \subseteq Conn
        /\ lastDialCall' \in Conn \cup {None}
        /\ busyConns' \subseteq Conn /\ idleConns' \subseteq Conn
    BY <1>1, <1>2 DEF GetQueue, Goto, connVars, TypeOK
  <2> QED
    BY <2>1, <2>2, <2>3, <2>4 DEF TypeOK
<1>5. Lifecycle'
  BY <1>1, <1>2, PoolAssumption DEF GetQueue, Goto, connVars, Lifecycle, TypeOK
<1>6. /\ Cardinality(Users(c)') = Cardinality(Users(c)) + 1
      /\ \A d \in Conn \ {c} : Users(d)' = Users(d)
  BY <1>1, <1>3, UsersJoin
<1>7. StreamAccounting'
  <2>1. \A d \in busyConns' \cup idleConns' : d \in Conn \ {c}
    BY <1>1, <1>2 DEF Lifecycle, TypeOK
  <2>2. /\ \A d \in busyConns' : curStream'[d] = Cardinality(Users(d)')
        /\ \A d \in idleConns' : curStream'[d] = 0 /\ Users(d)' = {}
    BY <1>2, <1>6, <2>1 DEF GetQueue, StreamAccounting
  <2>3. streamQueue'[c] = Cardinality(Users(c)')
    BY <1>1, <1>6 DEF GetQueue, StreamAccounting, TypeOK
  <2>4. \A d \in dialingCalls' \ {c} :
          dialCall'[d] = "pending" => streamQueue'[d] = Cardinality(Users(d)')
    BY <1>1, <1>6 DEF GetQueue, StreamAccounting, TypeOK
  <2> QED
    BY <2>2, <2>3, <2>4 DEF StreamAccounting
<1> QED
  BY <1>4, <1>5, <1>7

LEMMA GetDialIInv ==
    ASSUME IInv, NEW s \in Stream, GetDial(s), available' \in [Conn -> BOOLEAN]
    PROVE  IInv'
<1> USE DEF IInv
<1>1. PICK c \in Conn :
        /\ Fresh(c)
        /\ dialingCalls' = dialingCalls \cup {c}
        /\ lastDialCall' = c
        /\ streamQueue' = [streamQueue EXCEPT ![c] = 1]
        /\ dialCall' = [dialCall EXCEPT ![c] = "pending"]
        /\ dialer' = [dialer EXCEPT ![c] = "running"]
        /\ connState' = [connState EXCEPT ![c] = "none"]
        /\ reserved' = [reserved EXCEPT ![c] = 0]
        /\ Goto(s, "waiting", c)
  BY DEF GetDial
<1>2. busyConns' \subseteq busyConns /\ idleConns' \subseteq idleConns
  BY SearchOnlyDeletes DEF GetDial
<1>3. at[s] = None /\ at' = [at EXCEPT ![s] = c]
  BY <1>1 DEF GetDial, Goto, Lifecycle
<1>4. /\ c \notin dialingCalls /\ c \notin busyConns /\ c \notin idleConns
      /\ Users(c) = {}
      /\ \A t \in Stream : at[t] # c
  BY <1>1 DEF Fresh, Users
<1>5. TypeOK'
  BY <1>1, <1>2 DEF GetDial, Goto, TypeOK, DialCallState, DialerState, ConnState, CallerState
<1>6. Lifecycle'
  BY <1>1, <1>2, <1>4, PoolAssumption DEF GetDial, Goto, Lifecycle, TypeOK
<1>7. /\ Cardinality(Users(c)') = Cardinality(Users(c)) + 1
      /\ \A d \in Conn \ {c} : Users(d)' = Users(d)
  BY <1>3, UsersJoin
<1>8. StreamAccounting'
  <2>1. \A d \in busyConns' \cup idleConns' : d \in Conn \ {c}
    BY <1>2, <1>4 DEF TypeOK
  <2>2. /\ \A d \in busyConns' : curStream'[d] = Cardinality(Users(d)')
        /\ \A d \in idleConns' : curStream'[d] = 0 /\ Users(d)' = {}
    BY <1>2, <1>7, <2>1 DEF GetDial, StreamAccounting
  <2>3. streamQueue'[c] = Cardinality(Users(c)')
    BY <1>1, <1>4, <1>7, FS_EmptySet DEF TypeOK
  <2>4. \A d \in dialingCalls' \ {c} :
          dialCall'[d] = "pending" => streamQueue'[d] = Cardinality(Users(d)')
    BY <1>1, <1>7 DEF StreamAccounting, TypeOK
  <2> QED
    BY <2>2, <2>3, <2>4 DEF StreamAccounting
<1> QED
  BY <1>5, <1>6, <1>8

LEMMA GetNoneIInv ==
    ASSUME IInv, NEW s \in Stream, GetNone(s), available' \in [Conn -> BOOLEAN]
    PROVE  IInv'
<1> USE DEF IInv
<1>1. busyConns' \subseteq busyConns /\ idleConns' \subseteq idleConns
  BY SearchOnlyDeletes DEF GetNone
<1>2. \A d : Users(d)' = Users(d)
  BY UsersSame DEF GetNone, callerVars
<1>3. TypeOK'
  BY <1>1 DEF GetNone, dialVars, connVars, callerVars, TypeOK, DialCallState, DialerState, ConnState, CallerState
<1>4. Lifecycle'
  BY <1>1 DEF GetNone, dialVars, callerVars, Lifecycle, TypeOK
<1>5. StreamAccounting'
  BY <1>1, <1>2 DEF GetNone, dialVars, StreamAccounting, TypeOK
<1> QED
  BY <1>3, <1>4, <1>5

LEMMA WaitDeliveredIInv ==
    ASSUME IInv, NEW s \in Stream, WaitDelivered(s), available' \in [Conn -> BOOLEAN]
    PROVE  IInv'
<1> USE DEF IInv
<1>1. /\ at[s] \in Conn /\ dialCall[at[s]] = "delivered"
      /\ pc'[s] \in {"picked", "refused"}
      /\ \E state \in {"picked", "refused"} : Goto(s, state, at[s])
  BY DEF WaitDelivered, Goto, Lifecycle, TypeOK
<1>2. at' = at
  BY <1>1 DEF Goto, TypeOK
<1>3. \A d : Users(d)' = Users(d)
  BY <1>2, UsersSame
<1>4. TypeOK'
  BY <1>1, <1>2 DEF WaitDelivered, Goto, poolVars, dialVars, TypeOK, DialCallState, DialerState, ConnState, CallerState
<1>5. Lifecycle'
  BY <1>1, <1>2, PoolAssumption DEF WaitDelivered, Goto, poolVars, dialVars, Lifecycle, TypeOK
<1>6. StreamAccounting'
  BY <1>3 DEF WaitDelivered, poolVars, dialVars, StreamAccounting
<1> QED
  BY <1>4, <1>5, <1>6

LEMMA WaitFailedIInv ==
    ASSUME IInv, NEW s \in Stream, WaitFailed(s), available' \in [Conn -> BOOLEAN]
    PROVE  IInv'
<1> USE DEF IInv
<1>1. PICK c \in Conn : c = at[s] /\ dialCall[c] \in {"failed", "cancelled"}
  BY DEF WaitFailed, Lifecycle, TypeOK
<1>2. at' = [at EXCEPT ![s] = None] /\ pc' = [pc EXCEPT ![s] = "idle"]
  BY DEF WaitFailed, Goto
<1>3. \A d \in Conn \ {c} : Users(d)' = Users(d)
  BY <1>1, <1>2, UsersLeave
<1>4. TypeOK'
  BY <1>2 DEF WaitFailed, poolVars, dialVars, connVars, TypeOK, DialCallState, DialerState, ConnState, CallerState
<1>5. Lifecycle'
  BY <1>2, PoolAssumption DEF WaitFailed, poolVars, dialVars, Lifecycle, TypeOK
<1>6. StreamAccounting'
  <2>1. \A d \in busyConns \cup idleConns : d \in Conn \ {c}
    BY <1>1 DEF Lifecycle, TypeOK
  <2> QED
    BY <1>1, <1>3, <2>1 DEF WaitFailed, poolVars, dialVars, StreamAccounting, TypeOK
<1> QED
  BY <1>4, <1>5, <1>6

LEMMA WaitTimeoutIInv ==
    ASSUME IInv, NEW s \in Stream, WaitTimeout(s), available' \in [Conn -> BOOLEAN]
    PROVE  IInv'
<1> USE DEF IInv
<1>1. PICK c \in Conn : c = at[s] /\ dialCall[c] = "pending" /\ c \in dialingCalls
  BY DEF WaitTimeout, Lifecycle, TypeOK
<1>2. at' = [at EXCEPT ![s] = None] /\ pc' = [pc EXCEPT ![s] = "idle"]
  BY DEF WaitTimeout, Goto
<1>3. /\ s \in Users(c)
      /\ Cardinality(Users(c)') = Cardinality(Users(c)) - 1
      /\ \A d \in Conn \ {c} : Users(d)' = Users(d)
  BY <1>1, <1>2, UsersLeave
<1>4. streamQueue[c] = Cardinality(Users(c)) /\ streamQueue[c] - 1 \in Nat
  <2>1. Cardinality(Users(c)) # 0
    BY <1>3, FS_EmptySet, UsersFinite
  <2> QED
    BY <1>1, <2>1 DEF StreamAccounting, TypeOK
<1>5. streamQueue' = [streamQueue EXCEPT ![c] = @ - 1]
  BY <1>1 DEF WaitTimeout
<1>6. TypeOK'
  <2>1. /\ curStream' \in [Conn -> Nat] /\ streamQueue' \in [Conn -> Nat]
        /\ reserved' \in [Conn -> Nat]
    BY <1>1, <1>2, <1>4, <1>5 DEF WaitTimeout, poolVars, connVars, TypeOK
  <2>2. /\ dialCall' \in [Conn -> DialCallState] /\ dialer' \in [Conn -> DialerState]
        /\ connState' \in [Conn -> ConnState] /\ doomed' \subseteq Conn
    BY <1>1, <1>2, <1>4, <1>5 DEF WaitTimeout, poolVars, connVars, TypeOK, DialCallState, DialerState
  <2>3. pc' \in [Stream -> CallerState] /\ at' \in [Stream -> Conn \cup {None}]
    BY <1>1, <1>2, <1>4, <1>5 DEF WaitTimeout, poolVars, connVars, TypeOK, CallerState
  <2>4. /\ closed' \in BOOLEAN /\ dialingCalls' \subseteq Conn
        /\ lastDialCall' \in Conn \cup {None}
        /\ busyConns' \subseteq Conn /\ idleConns' \subseteq Conn
    BY <1>1, <1>2, <1>4, <1>5 DEF WaitTimeout, poolVars, connVars, TypeOK
  <2> QED
    BY <2>1, <2>2, <2>3, <2>4 DEF TypeOK
<1>7. Lifecycle'
  BY <1>2, PoolAssumption DEF WaitTimeout, poolVars, Lifecycle, TypeOK
<1>8. StreamAccounting'
  <2>1. \A d \in busyConns \cup idleConns : d \in Conn \ {c}
    BY <1>1 DEF Lifecycle, TypeOK
  <2>2. streamQueue'[c] = Cardinality(Users(c)')
    BY <1>3, <1>4, <1>5 DEF TypeOK
  <2>3. \A d \in dialingCalls \ {c} : streamQueue'[d] = streamQueue[d]
    BY <1>5 DEF TypeOK
  <2> QED
    BY <1>1, <1>3, <2>1, <2>2, <2>3
       DEF WaitTimeout, poolVars, StreamAccounting, TypeOK
<1> QED
  BY <1>6, <1>7, <1>8

LEMMA DialReturnIInv ==
    ASSUME IInv, NEW c \in Conn, DialReturn(c), available' \in [Conn -> BOOLEAN]
    PROVE  IInv'
<1> USE DEF IInv
<1>1. TypeOK'
  BY DEF DialReturn, poolVars, callerVars, TypeOK, DialCallState, DialerState, ConnState, CallerState
<1>2. Lifecycle'
  BY DEF DialReturn, poolVars, callerVars, Lifecycle, TypeOK
<1>3. StreamAccounting'
  BY UsersSame DEF DialReturn, poolVars, callerVars, StreamAccounting
<1> QED
  BY <1>1, <1>2, <1>3

LEMMA DialDiscardIInv ==
    ASSUME IInv, NEW c \in Conn, DialDiscard(c), available' \in [Conn -> BOOLEAN]
    PROVE  IInv'
<1> USE DEF IInv
<1>1. TypeOK'
  BY DEF DialDiscard, Discarded, poolVars, callerVars, TypeOK, DialCallState, DialerState, ConnState, CallerState
<1>2. Lifecycle'
  BY DEF DialDiscard, poolVars, callerVars, Lifecycle, TypeOK
<1>3. StreamAccounting'
  BY UsersSame DEF DialDiscard, poolVars, callerVars, StreamAccounting
<1> QED
  BY <1>1, <1>2, <1>3

LEMMA DialCommitIInv ==
    ASSUME IInv, NEW c \in Conn, DialCommit(c), available' \in [Conn -> BOOLEAN]
    PROVE  IInv'
<1> USE DEF IInv
<1>1. c \in dialingCalls /\ dialCall[c] = "pending" /\ c \notin busyConns /\ c \notin idleConns
  BY DEF DialCommit, Lifecycle
<1>2. \A d : Users(d)' = Users(d)
  BY UsersSame DEF DialCommit, callerVars
<1>3. streamQueue[c] = Cardinality(Users(c)) /\ (streamQueue[c] = 0 => Users(c) = {})
  BY <1>1, UsersFinite, FS_EmptySet DEF StreamAccounting
<1>4. CASE dialer[c] = "err"
  <2>1. TypeOK'
    BY <1>4 DEF DialCommit, connVars, callerVars, TypeOK, DialCallState, DialerState, ConnState, CallerState
  <2>2. Lifecycle'
    BY <1>1, <1>4 DEF DialCommit, connVars, callerVars, Lifecycle, TypeOK
  <2>3. StreamAccounting'
    BY <1>1, <1>2, <1>4 DEF DialCommit, StreamAccounting, TypeOK
  <2> QED
    BY <2>1, <2>2, <2>3
<1>5. CASE dialer[c] = "conn"
  <2>1. TypeOK'
    <3>1. /\ curStream' \in [Conn -> Nat] /\ streamQueue' \in [Conn -> Nat]
          /\ reserved' \in [Conn -> Nat]
      BY <1>1, <1>5 DEF DialCommit, connVars, callerVars, TypeOK
    <3>2. /\ dialCall' \in [Conn -> DialCallState] /\ dialer' \in [Conn -> DialerState]
          /\ connState' \in [Conn -> ConnState] /\ doomed' \subseteq Conn
      BY <1>1, <1>5 DEF DialCommit, connVars, callerVars, TypeOK, DialCallState, DialerState
    <3>3. pc' \in [Stream -> CallerState] /\ at' \in [Stream -> Conn \cup {None}]
      BY <1>1, <1>5 DEF DialCommit, connVars, callerVars, TypeOK, CallerState
    <3>4. /\ closed' \in BOOLEAN /\ dialingCalls' \subseteq Conn
          /\ lastDialCall' \in Conn \cup {None}
          /\ busyConns' \subseteq Conn /\ idleConns' \subseteq Conn
      BY <1>1, <1>5 DEF DialCommit, connVars, callerVars, TypeOK
    <3> QED
      BY <3>1, <3>2, <3>3, <3>4 DEF TypeOK
  <2>2. Lifecycle'
    BY <1>1, <1>5 DEF DialCommit, connVars, callerVars, Lifecycle, TypeOK
  <2>3. StreamAccounting'
    <3>1. \A d \in busyConns' : curStream'[d] = Cardinality(Users(d)')
      BY <1>1, <1>2, <1>3, <1>5 DEF DialCommit, StreamAccounting, TypeOK
    <3>2. \A d \in idleConns' : curStream'[d] = 0 /\ Users(d)' = {}
      BY <1>1, <1>2, <1>3, <1>5 DEF DialCommit, StreamAccounting, TypeOK
    <3>3. \A d \in dialingCalls' :
            dialCall'[d] = "pending" => streamQueue'[d] = Cardinality(Users(d)')
      BY <1>1, <1>2, <1>5 DEF DialCommit, StreamAccounting, TypeOK
    <3> QED
      BY <3>1, <3>2, <3>3 DEF StreamAccounting
  <2> QED
    BY <2>1, <2>2, <2>3
<1> QED
  BY <1>4, <1>5 DEF DialCommit

LEMMA OpenStreamIInv ==
    ASSUME IInv, NEW s \in Stream, OpenStream(s), available' \in [Conn -> BOOLEAN]
    PROVE  IInv'
<1> USE DEF IInv
<1>1. TypeOK'
  <2>1. at[s] \in Conn
    BY DEF OpenStream, Lifecycle, TypeOK
  <2> QED
    <3>1. /\ curStream' \in [Conn -> Nat] /\ streamQueue' \in [Conn -> Nat]
          /\ reserved' \in [Conn -> Nat]
      BY <2>1 DEF OpenStream, poolVars, dialVars, TypeOK
    <3>2. /\ dialCall' \in [Conn -> DialCallState] /\ dialer' \in [Conn -> DialerState]
          /\ connState' \in [Conn -> ConnState] /\ doomed' \subseteq Conn
      BY <2>1 DEF OpenStream, poolVars, dialVars, TypeOK, DialCallState, DialerState
    <3>3. pc' \in [Stream -> CallerState] /\ at' \in [Stream -> Conn \cup {None}]
      BY <2>1 DEF OpenStream, poolVars, dialVars, TypeOK, CallerState
    <3>4. /\ closed' \in BOOLEAN /\ dialingCalls' \subseteq Conn
          /\ lastDialCall' \in Conn \cup {None}
          /\ busyConns' \subseteq Conn /\ idleConns' \subseteq Conn
      BY <2>1 DEF OpenStream, poolVars, dialVars, TypeOK
    <3> QED
      BY <3>1, <3>2, <3>3, <3>4 DEF TypeOK
<1>2. Lifecycle'
  BY DEF OpenStream, poolVars, dialVars, Lifecycle, TypeOK
<1>3. StreamAccounting'
  BY UsersSame DEF OpenStream, poolVars, dialVars, StreamAccounting
<1> QED
  BY <1>1, <1>2, <1>3

(* A caller with a stream refers to a delivered connection, and its leave  *)
(* changes nothing for the dialing calls, the idle connections and the     *)
(* other busy ones.                                                        *)
LEMMA StreamEnds ==
    ASSUME IInv, NEW s \in Stream, pc[s] \in {"open", "refused"}, Goto(s, "idle", None)
    PROVE  \E c \in Conn :
             /\ c = at[s] /\ dialCall[c] = "delivered"
             /\ c \notin idleConns /\ c \notin dialingCalls
             /\ s \in Users(c)
             /\ Cardinality(Users(c)') = Cardinality(Users(c)) - 1
             /\ Cardinality(Users(c)) = 1 => Users(c)' = {}
             /\ \A d \in Conn \ {c} : Users(d)' = Users(d)
<1> USE DEF IInv
<1>1. PICK c \in Conn : c = at[s] /\ dialCall[c] = "delivered"
  BY DEF Lifecycle, TypeOK
<1>2. at' = [at EXCEPT ![s] = None]
  BY DEF Goto
<1>3. /\ s \in Users(c)
      /\ Cardinality(Users(c)') = Cardinality(Users(c)) - 1
      /\ Cardinality(Users(c)) = 1 => Users(c)' = {}
      /\ \A d \in Conn \ {c} : Users(d)' = Users(d)
  BY <1>1, <1>2, UsersLeave
<1>4. c \notin idleConns
  BY <1>3 DEF StreamAccounting
<1>5. c \notin dialingCalls
  BY <1>1 DEF Lifecycle
<1> QED
  BY <1>1, <1>3, <1>4, <1>5

LEMMA ReleaseAbsentIInv ==
    ASSUME IInv, NEW s \in Stream, ReleaseAbsent(s), available' \in [Conn -> BOOLEAN]
    PROVE  IInv'
<1> USE DEF IInv
<1>1. PICK c \in Conn :
        /\ c = at[s] /\ c \notin busyConns
        /\ c \notin idleConns /\ c \notin dialingCalls
        /\ \A d \in Conn \ {c} : Users(d)' = Users(d)
  BY StreamEnds DEF ReleaseAbsent
<1>2. TypeOK'
  BY DEF ReleaseAbsent, Goto, poolVars, dialVars, connVars, TypeOK, DialCallState, DialerState, ConnState, CallerState
<1>3. Lifecycle'
  BY PoolAssumption DEF ReleaseAbsent, Goto, poolVars, dialVars, Lifecycle, TypeOK
<1>4. StreamAccounting'
  BY <1>1 DEF ReleaseAbsent, poolVars, dialVars, StreamAccounting, TypeOK
<1> QED
  BY <1>2, <1>3, <1>4

LEMMA ReleaseDeadIInv ==
    ASSUME IInv, NEW s \in Stream, ReleaseDead(s), available' \in [Conn -> BOOLEAN]
    PROVE  IInv'
<1> USE DEF IInv
<1>1. PICK c \in Conn :
        /\ c = at[s] /\ c \notin idleConns /\ c \notin dialingCalls
        /\ \A d \in Conn \ {c} : Users(d)' = Users(d)
  BY StreamEnds DEF ReleaseDead
<1>2. TypeOK'
  BY DEF ReleaseDead, Goto, dialVars, connVars, TypeOK, DialCallState, DialerState, ConnState, CallerState
<1>3. Lifecycle'
  BY PoolAssumption DEF ReleaseDead, Goto, dialVars, Lifecycle, TypeOK
<1>4. StreamAccounting'
  BY <1>1 DEF ReleaseDead, dialVars, StreamAccounting, TypeOK
<1> QED
  BY <1>2, <1>3, <1>4

LEMMA ReleaseSharedIInv ==
    ASSUME IInv, NEW s \in Stream, ReleaseShared(s), available' \in [Conn -> BOOLEAN]
    PROVE  IInv'
<1> USE DEF IInv
<1>1. PICK c \in Conn :
        /\ c = at[s] /\ c \in busyConns /\ c \notin idleConns /\ c \notin dialingCalls
        /\ s \in Users(c)
        /\ Cardinality(Users(c)') = Cardinality(Users(c)) - 1
        /\ \A d \in Conn \ {c} : Users(d)' = Users(d)
  BY StreamEnds DEF ReleaseShared
<1>2. curStream' = [curStream EXCEPT ![c] = @ - 1]
  BY <1>1 DEF ReleaseShared
<1>3. curStream[c] = Cardinality(Users(c)) /\ curStream[c] - 1 \in Nat
  <2>1. Cardinality(Users(c)) # 0
    BY <1>1, FS_EmptySet, UsersFinite
  <2> QED
    BY <1>1, <2>1 DEF StreamAccounting, TypeOK
<1>4. TypeOK'
  <2>1. /\ curStream' \in [Conn -> Nat] /\ streamQueue' \in [Conn -> Nat]
        /\ reserved' \in [Conn -> Nat]
    BY <1>2, <1>3 DEF ReleaseShared, Goto, dialVars, connVars, TypeOK
  <2>2. /\ dialCall' \in [Conn -> DialCallState] /\ dialer' \in [Conn -> DialerState]
        /\ connState' \in [Conn -> ConnState] /\ doomed' \subseteq Conn
    BY <1>2, <1>3 DEF ReleaseShared, Goto, dialVars, connVars, TypeOK, DialCallState, DialerState
  <2>3. pc' \in [Stream -> CallerState] /\ at' \in [Stream -> Conn \cup {None}]
    BY <1>2, <1>3 DEF ReleaseShared, Goto, dialVars, connVars, TypeOK, CallerState
  <2>4. /\ closed' \in BOOLEAN /\ dialingCalls' \subseteq Conn
        /\ lastDialCall' \in Conn \cup {None}
        /\ busyConns' \subseteq Conn /\ idleConns' \subseteq Conn
    BY <1>2, <1>3 DEF ReleaseShared, Goto, dialVars, connVars, TypeOK
  <2> QED
    BY <2>1, <2>2, <2>3, <2>4 DEF TypeOK
<1>5. Lifecycle'
  BY PoolAssumption DEF ReleaseShared, Goto, dialVars, Lifecycle, TypeOK
<1>6. StreamAccounting'
  <2>1. curStream'[c] = Cardinality(Users(c)')
    BY <1>1, <1>2, <1>3 DEF TypeOK
  <2>2. \A d \in Conn \ {c} : curStream'[d] = curStream[d]
    BY <1>2 DEF TypeOK
  <2> QED
    BY <1>1, <2>1, <2>2 DEF ReleaseShared, dialVars, StreamAccounting, TypeOK
<1> QED
  BY <1>4, <1>5, <1>6

LEMMA ReleaseLastIInv ==
    ASSUME IInv, NEW s \in Stream, ReleaseLast(s), available' \in [Conn -> BOOLEAN]
    PROVE  IInv'
<1> USE DEF IInv
<1>1. PICK c \in Conn :
        /\ c = at[s] /\ c \in busyConns /\ c \notin idleConns /\ c \notin dialingCalls
        /\ dialCall[c] = "delivered" /\ curStream[c] = 1
        /\ Users(c)' = {}
        /\ \A d \in Conn \ {c} : Users(d)' = Users(d)
  <2>1. PICK c \in Conn :
          /\ c = at[s] /\ dialCall[c] = "delivered"
          /\ c \notin idleConns /\ c \notin dialingCalls
          /\ Cardinality(Users(c)) = 1 => Users(c)' = {}
          /\ \A d \in Conn \ {c} : Users(d)' = Users(d)
    BY StreamEnds DEF ReleaseLast
  <2>2. c \in busyConns /\ curStream[c] = 1
    BY <2>1 DEF ReleaseLast, LastStream
  <2>3. Cardinality(Users(c)) = 1
    BY <2>2 DEF StreamAccounting
  <2> QED
    BY <2>1, <2>2, <2>3
<1>2. /\ busyConns' = busyConns \ {c}
      /\ idleConns' \subseteq idleConns \cup {c}
      /\ doomed' \subseteq doomed \cup idleConns \cup {c}
      /\ curStream' = [curStream EXCEPT ![c] = @ - 1]
  BY <1>1 DEF ReleaseLast, Trims
<1>3. TypeOK'
  <2>1. /\ curStream' \in [Conn -> Nat] /\ streamQueue' \in [Conn -> Nat]
        /\ reserved' \in [Conn -> Nat]
    BY <1>1, <1>2 DEF ReleaseLast, Goto, dialVars, TypeOK
  <2>2. /\ dialCall' \in [Conn -> DialCallState] /\ dialer' \in [Conn -> DialerState]
        /\ connState' \in [Conn -> ConnState] /\ doomed' \subseteq Conn
    BY <1>1, <1>2 DEF ReleaseLast, Goto, dialVars, TypeOK, DialCallState, DialerState
  <2>3. pc' \in [Stream -> CallerState] /\ at' \in [Stream -> Conn \cup {None}]
    BY <1>1, <1>2 DEF ReleaseLast, Goto, dialVars, TypeOK, CallerState
  <2>4. /\ closed' \in BOOLEAN /\ dialingCalls' \subseteq Conn
        /\ lastDialCall' \in Conn \cup {None}
        /\ busyConns' \subseteq Conn /\ idleConns' \subseteq Conn
    BY <1>1, <1>2 DEF ReleaseLast, Goto, dialVars, TypeOK
  <2> QED
    BY <2>1, <2>2, <2>3, <2>4 DEF TypeOK
<1>4. Lifecycle'
  BY <1>1, <1>2, PoolAssumption DEF ReleaseLast, Goto, dialVars, Lifecycle, TypeOK
<1>5. StreamAccounting'
  <2>1. curStream'[c] = 0
    BY <1>1, <1>2 DEF TypeOK
  <2>2. \A d \in Conn \ {c} : curStream'[d] = curStream[d]
    BY <1>2 DEF TypeOK
  <2> QED
    BY <1>1, <1>2, <2>1, <2>2 DEF ReleaseLast, dialVars, StreamAccounting, TypeOK
<1> QED
  BY <1>3, <1>4, <1>5

LEMMA MarkDeadIInv ==
    ASSUME IInv, NEW s \in Stream, MarkDead(s), available' \in [Conn -> BOOLEAN]
    PROVE  IInv'
<1> USE DEF IInv
<1>1. PICK c \in Conn :
        /\ c = at[s] /\ c \notin idleConns /\ c \notin dialingCalls
        /\ \A d \in Conn \ {c} : Users(d)' = Users(d)
  BY StreamEnds DEF MarkDead
<1>2. TypeOK'
  BY <1>1 DEF MarkDead, Goto, dialVars, TypeOK, DialCallState, DialerState, ConnState, CallerState
<1>3. Lifecycle'
  BY PoolAssumption DEF MarkDead, Goto, dialVars, Lifecycle, TypeOK
<1>4. StreamAccounting'
  BY <1>1 DEF MarkDead, dialVars, StreamAccounting, TypeOK
<1> QED
  BY <1>2, <1>3, <1>4

LEMMA CloseIInv ==
    ASSUME IInv, Close, available' \in [Conn -> BOOLEAN]
    PROVE  IInv'
<1> USE DEF IInv
<1>1. TypeOK'
  BY DEF Close, CancelDials, Pooled, callerVars, TypeOK, DialCallState, DialerState, ConnState, CallerState
<1>2. Lifecycle'
  BY DEF Close, CancelDials, callerVars, Lifecycle, TypeOK
<1>3. StreamAccounting'
  BY UsersSame DEF Close, CancelDials, callerVars, StreamAccounting, TypeOK
<1> QED
  BY <1>1, <1>2, <1>3

LEMMA EnvironmentIInv ==
    ASSUME IInv, UNCHANGED <<poolVars, dialVars, callerVars>>,
           connState' \in [Conn -> ConnState], available' \in [Conn -> BOOLEAN],
           reserved' = reserved, doomed' \subseteq Conn
    PROVE  IInv'
<1> USE DEF IInv
<1>1. TypeOK'
  BY DEF poolVars, dialVars, callerVars, TypeOK, DialCallState, DialerState, ConnState, CallerState
<1>2. Lifecycle'
  BY DEF poolVars, dialVars, callerVars, Lifecycle, TypeOK
<1>3. StreamAccounting'
  BY UsersSame DEF poolVars, dialVars, callerVars, StreamAccounting
<1> QED
  BY <1>1, <1>2, <1>3

-----------------------------------------------------------------------------
(* What the pool's proofs use of a step: it is an operation of the pool, a *)
(* connection that ends or nothing of the pool's.  What Available says may *)
(* change with any of them: transports compute it from their own state.    *)
PoolMoves ==
    \/ \E s \in Stream : StreamStep(s)
    \/ \E c \in Conn : ConnStep(c)
    \/ Close
    \/ UNCHANGED <<poolVars, dialVars, connVars, callerVars>>

LEMMA NextMoves ==
    IInv /\ [Next]_vars => PoolMoves /\ available' \in [Conn -> BOOLEAN]
BY DEF Next, AvailableChanges, PoolMoves, IInv, TypeOK, vars

LEMMA MovesIInv ==
    ASSUME IInv, PoolMoves, available' \in [Conn -> BOOLEAN]
    PROVE  IInv'
<1>1. ASSUME NEW s \in Stream, StreamStep(s)
      PROVE  IInv'
  BY <1>1, GetBusyIInv, GetIdleIInv, GetQueueIInv, GetDialIInv, GetNoneIInv,
     WaitDeliveredIInv, WaitFailedIInv, WaitTimeoutIInv, OpenStreamIInv,
     ReleaseAbsentIInv, ReleaseDeadIInv, ReleaseSharedIInv, ReleaseLastIInv,
     MarkDeadIInv DEF StreamStep, Release
<1>2. ASSUME NEW c \in Conn, CloseDoomed(c) \/ ConnDies(c)
      PROVE  IInv'
  <2>1. /\ UNCHANGED <<poolVars, dialVars, callerVars, reserved>>
        /\ connState' = [connState EXCEPT ![c] = "closed"]
        /\ doomed' \subseteq doomed
    BY <1>2 DEF CloseDoomed, ConnDies
  <2>2. connState' \in [Conn -> ConnState] /\ doomed' \subseteq Conn
    BY <2>1 DEF IInv, TypeOK, ConnState
  <2> QED
    BY <2>1, <2>2, EnvironmentIInv
<1>3. ASSUME NEW c \in Conn, ConnStep(c)
      PROVE  IInv'
  BY <1>2, <1>3, DialReturnIInv, DialDiscardIInv, DialCommitIInv DEF ConnStep
<1>4. CASE Close
  BY <1>4, CloseIInv
<1>5. CASE UNCHANGED <<poolVars, dialVars, connVars, callerVars>>
  <2>1. /\ connState' \in [Conn -> ConnState] /\ reserved' = reserved
        /\ doomed' \subseteq Conn
    BY <1>5 DEF connVars, IInv, TypeOK
  <2> QED
    BY <1>5, <2>1, EnvironmentIInv
<1> QED
  BY <1>1, <1>3, <1>4, <1>5 DEF PoolMoves

LEMMA NextIInv == IInv /\ [Next]_vars => IInv'
BY NextMoves, MovesIInv

(* The inductive invariant of the pool.                                    *)
THEOREM PoolInvariant == Spec => []IInv
BY InitIInv, NextIInv, PTL DEF Spec

(* Type correctness: in particular no counter of the pool is ever negative. *)
THEOREM TypeCorrect == Spec => []TypeOK
<1>1. IInv => TypeOK
  BY DEF IInv
<1> QED
  BY <1>1, PoolInvariant, PTL

(* curStream and streamQueue count the callers exactly.                    *)
THEOREM AccountingCorrect == Spec => []StreamAccounting
<1>1. IInv => StreamAccounting
  BY DEF IInv
<1> QED
  BY <1>1, PoolInvariant, PTL

-----------------------------------------------------------------------------
(* MaxStream.                                                              *)

(* A caller that stays where it is or lets go adds to no connection.       *)
LEMMA UsersShrink ==
    ASSUME TypeOK, NEW s \in Stream, NEW state, NEW x \in {None, at[s]},
           Goto(s, state, x)
    PROVE  \A d \in Conn : Users(d)' \subseteq Users(d)
BY PoolAssumption DEF Goto, Users, TypeOK

LEMMA ShrinkKeepsLimit ==
    ASSUME StreamLimit, \A d \in Conn : Users(d)' \subseteq Users(d)
    PROVE  StreamLimit'
<1> SUFFICES ASSUME NEW d \in Conn PROVE Cardinality(Users(d)') <= MaxStream
  BY DEF StreamLimit
<1>1. Cardinality(Users(d)) <= MaxStream
  BY DEF StreamLimit
<1>2. Cardinality(Users(d)') <= Cardinality(Users(d)) /\ IsFiniteSet(Users(d)')
  BY UsersFinite, FS_Subset
<1> QED
  BY <1>1, <1>2, UsersFinite, FS_CardinalityType, PoolAssumption

(* One more caller on a connection that had room keeps the limit.          *)
LEMMA JoinKeepsLimit ==
    ASSUME TypeOK, StreamLimit, NEW s \in Stream, NEW c \in Conn, at[s] = None,
           at' = [at EXCEPT ![s] = c], Cardinality(Users(c)) < MaxStream
    PROVE  StreamLimit'
<1>1. /\ Cardinality(Users(c)') = Cardinality(Users(c)) + 1
      /\ \A d \in Conn \ {c} : Users(d)' = Users(d)
  BY UsersJoin
<1> QED
  BY <1>1, UsersFinite, PoolAssumption DEF StreamLimit

LEMMA MovesStreamLimit == IInv /\ StreamLimit /\ PoolMoves => StreamLimit'
<1> SUFFICES ASSUME IInv, StreamLimit, PoolMoves PROVE StreamLimit'
  OBVIOUS
<1> USE DEF IInv
<1>1. ASSUME NEW s \in Stream, GetBusy(s)
      PROVE  StreamLimit'
  <2>1. PICK c \in busyConns : HasRoom(c) /\ TakeStream(s, c)
    BY <1>1 DEF GetBusy, Picks, Roomy, Live
  <2>2. c \in Conn /\ curStream[c] < MaxStream
    BY <2>1 DEF HasRoom, TypeOK
  <2>3. at[s] = None /\ at' = [at EXCEPT ![s] = c]
    BY <1>1, <2>1 DEF GetBusy, TakeStream, Goto, Lifecycle
  <2> QED
    BY <2>2, <2>3, JoinKeepsLimit DEF StreamAccounting
<1>2. ASSUME NEW s \in Stream, GetIdle(s)
      PROVE  StreamLimit'
  <2>1. PICK c \in idleConns : TakeStream(s, c)
    BY <1>2 DEF GetIdle
  <2>2. c \in Conn /\ Cardinality(Users(c)) < MaxStream
    <3>1. c \in Conn /\ Users(c) = {}
      BY DEF StreamAccounting, TypeOK
    <3> QED
      BY <3>1, FS_EmptySet, PoolAssumption
  <2>3. at[s] = None /\ at' = [at EXCEPT ![s] = c]
    BY <1>2, <2>1 DEF GetIdle, TakeStream, Goto, Lifecycle
  <2> QED
    BY <2>2, <2>3, JoinKeepsLimit
<1>3. ASSUME NEW s \in Stream, GetQueue(s)
      PROVE  StreamLimit'
  <2>1. PICK c \in Conn : c = lastDialCall /\ Cardinality(Users(c)) < MaxStream
    BY <1>3 DEF GetQueue, CanQueue, Lifecycle, StreamAccounting, TypeOK
  <2>2. at[s] = None /\ at' = [at EXCEPT ![s] = c]
    BY <1>3, <2>1 DEF GetQueue, Goto, Lifecycle
  <2> QED
    BY <2>1, <2>2, JoinKeepsLimit
<1>4. ASSUME NEW s \in Stream, GetDial(s)
      PROVE  StreamLimit'
  <2>1. PICK c \in Conn : Users(c) = {} /\ Goto(s, "waiting", c)
    BY <1>4 DEF GetDial, Fresh
  <2>2. Cardinality(Users(c)) < MaxStream
    BY <2>1, FS_EmptySet, PoolAssumption
  <2>3. at[s] = None /\ at' = [at EXCEPT ![s] = c]
    BY <1>4, <2>1 DEF GetDial, Goto, Lifecycle
  <2> QED
    BY <2>2, <2>3, JoinKeepsLimit
<1>5. ASSUME NEW s \in Stream,
             \/ WaitDelivered(s) \/ WaitFailed(s) \/ WaitTimeout(s)
             \/ Release(s) \/ MarkDead(s)
      PROVE  StreamLimit'
  <2>1. \E state, x : x \in {None, at[s]} /\ Goto(s, state, x)
    BY <1>5 DEF WaitDelivered, WaitFailed, WaitTimeout, Release, ReleaseAbsent,
                ReleaseDead, ReleaseShared, ReleaseLast, MarkDead
  <2> QED
    BY <2>1, UsersShrink, ShrinkKeepsLimit
<1>6. ASSUME at' = at
      PROVE  StreamLimit'
  BY <1>6, UsersSame, ShrinkKeepsLimit
<1>7. CASE UNCHANGED <<poolVars, dialVars, connVars, callerVars>>
  BY <1>6, <1>7 DEF callerVars
<1> QED
  BY <1>1, <1>2, <1>3, <1>4, <1>5, <1>6, <1>7
     DEF PoolMoves, StreamStep, ConnStep, GetNone, OpenStream, DialReturn, DialDiscard,
         DialCommit, Close, CloseDoomed, ConnDies, callerVars

(* Whatever the interleaving of dials, queueing, picks and releases, no    *)
(* connection is given to more than MaxStream callers.                     *)
THEOREM StreamLimitHolds == Spec => []StreamLimit
<1>1. Init => StreamLimit
  BY NoUserAtFirst, FS_EmptySet, PoolAssumption DEF StreamLimit
<1> QED
  BY <1>1, PoolInvariant, NextMoves, MovesStreamLimit, PTL DEF Spec

-----------------------------------------------------------------------------
(* MaxConn.                                                                *)

LEMMA MapsFinite ==
    ASSUME TypeOK
    PROVE  /\ IsFiniteSet(dialingCalls) /\ Cardinality(dialingCalls) \in Nat
           /\ IsFiniteSet(busyConns) /\ Cardinality(busyConns) \in Nat
           /\ IsFiniteSet(idleConns) /\ Cardinality(idleConns) \in Nat
BY FS_Subset, FS_CardinalityType, PoolAssumption DEF TypeOK

Counted == Cardinality(dialingCalls) + Cardinality(busyConns) + Cardinality(idleConns)

(* Steps that add to no map, or move one connection, keep the total.       *)
LEMMA ShrinkKeepsTotal ==
    ASSUME TypeOK, dialingCalls' \subseteq dialingCalls,
           busyConns' \subseteq busyConns, idleConns' \subseteq idleConns
    PROVE  Counted' <= Counted
<1>1. /\ Cardinality(dialingCalls') <= Cardinality(dialingCalls)
      /\ Cardinality(busyConns') <= Cardinality(busyConns)
      /\ Cardinality(idleConns') <= Cardinality(idleConns)
  BY MapsFinite, FS_Subset
<1>2. /\ Cardinality(dialingCalls') \in Nat
      /\ Cardinality(busyConns') \in Nat
      /\ Cardinality(idleConns') \in Nat
  BY MapsFinite, FS_Subset, FS_CardinalityType
<1> QED
  BY <1>1, <1>2, MapsFinite DEF Counted

LEMMA MoveKeepsTotal ==
    ASSUME NEW c, NEW A, NEW B, NEW C, NEW D, IsFiniteSet(A), IsFiniteSet(B),
           c \in A, C \subseteq A \ {c}, D \subseteq B \cup {c}
    PROVE  /\ IsFiniteSet(C) /\ IsFiniteSet(D)
           /\ Cardinality(C) \in Nat /\ Cardinality(D) \in Nat
           /\ Cardinality(C) + Cardinality(D) <= Cardinality(A) + Cardinality(B)
<1>1. /\ IsFiniteSet(A \ {c}) /\ Cardinality(A \ {c}) = Cardinality(A) - 1
      /\ IsFiniteSet(B \cup {c}) /\ Cardinality(B \cup {c}) <= Cardinality(B) + 1
  <2>1. IsFiniteSet(A \ {c}) /\ Cardinality(A \ {c}) = Cardinality(A) - 1
    BY FS_RemoveElement
  <2>2. IsFiniteSet(B \cup {c}) /\ Cardinality(B) \in Nat
    BY FS_AddElement, FS_CardinalityType
  <2>3. Cardinality(B \cup {c}) \in {Cardinality(B), Cardinality(B) + 1}
    BY FS_AddElement
  <2> QED
    BY <2>1, <2>2, <2>3
<1>2. /\ IsFiniteSet(C) /\ Cardinality(C) <= Cardinality(A \ {c})
      /\ IsFiniteSet(D) /\ Cardinality(D) <= Cardinality(B \cup {c})
  BY <1>1, FS_Subset
<1>3. /\ Cardinality(A) \in Nat /\ Cardinality(B) \in Nat /\ Cardinality(C) \in Nat
      /\ Cardinality(D) \in Nat /\ Cardinality(B \cup {c}) \in Nat
  BY <1>1, <1>2, FS_CardinalityType
<1> QED
  BY <1>1, <1>2, <1>3

LEMMA MovesConnLimit ==
    IInv /\ ConnLimit /\ PoolMoves /\ available' \in [Conn -> BOOLEAN] => ConnLimit'
<1> SUFFICES ASSUME IInv, ConnLimit, PoolMoves, available' \in [Conn -> BOOLEAN]
             PROVE  ConnLimit'
  OBVIOUS
<1>1. IInv'
  BY MovesIInv
<1>2. /\ (dialingCalls \cap (busyConns \cup idleConns) = {})'
      /\ (busyConns \cap idleConns = {})'
  BY <1>1 DEF IInv, Lifecycle
<1> USE DEF IInv
<1>a. /\ Cardinality(dialingCalls') \in Nat
      /\ Cardinality(busyConns') \in Nat
      /\ Cardinality(idleConns') \in Nat
  BY <1>1, FS_Subset, FS_CardinalityType, PoolAssumption DEF TypeOK
<1>3. ASSUME Counted' <= Counted \/ (MaxConn > 0 => Counted' <= MaxConn)
      PROVE  ConnLimit'
  BY <1>2, <1>3, <1>a, MapsFinite, PoolAssumption DEF ConnLimit, Counted
<1>4. ASSUME dialingCalls' \subseteq dialingCalls,
             busyConns' \subseteq busyConns, idleConns' \subseteq idleConns
      PROVE  ConnLimit'
  BY <1>3, <1>4, ShrinkKeepsTotal
<1>5. ASSUME NEW s \in Stream, GetIdle(s)
      PROVE  ConnLimit'
  <2>1. PICK c \in idleConns :
          busyConns' \subseteq busyConns \cup {c} /\ idleConns' \subseteq idleConns \ {c}
    BY <1>5 DEF GetIdle, SweptBusy
  <2>2. Cardinality(idleConns') + Cardinality(busyConns')
          <= Cardinality(idleConns) + Cardinality(busyConns)
    BY <2>1, MapsFinite, MoveKeepsTotal
  <2>3. Counted' <= Counted
    <3>1. dialingCalls' = dialingCalls
      BY <1>5 DEF GetIdle
    <3> QED
      BY <1>a, <2>2, <3>1, MapsFinite DEF Counted
  <2> QED
    BY <1>3, <2>3
<1>6. ASSUME NEW s \in Stream, GetDial(s)
      PROVE  ConnLimit'
  <2>1. PICK c \in Conn : c \notin dialingCalls /\ dialingCalls' = dialingCalls \cup {c}
    BY <1>6 DEF GetDial, Fresh
  <2>2. Cardinality(dialingCalls') = Cardinality(dialingCalls) + 1
    <3>1. IsFiniteSet(dialingCalls)
      BY MapsFinite
    <3>2. Cardinality(dialingCalls \cup {c}) = Cardinality(dialingCalls) + 1
      BY <2>1, <3>1, FS_AddElement
    <3> QED
      BY <2>1, <3>2
  <2>3. MaxConn = 0 \/ Cardinality(dialingCalls) + Cardinality(busyConns')
                         + Cardinality(idleConns') < MaxConn
    BY <1>6 DEF GetDial, DialAllowed
  <2> QED
    BY <1>3, <1>a, <2>2, <2>3, MapsFinite, PoolAssumption DEF Counted
<1>7. ASSUME NEW s \in Stream, ReleaseLast(s)
      PROVE  ConnLimit'
  <2>1. PICK c \in busyConns :
          busyConns' \subseteq busyConns \ {c} /\ idleConns' \subseteq idleConns \cup {c}
    BY <1>7 DEF ReleaseLast
  <2>2. Cardinality(busyConns') + Cardinality(idleConns')
          <= Cardinality(busyConns) + Cardinality(idleConns)
    BY <2>1, MapsFinite, MoveKeepsTotal
  <2>3. Counted' <= Counted
    <3>1. dialingCalls' = dialingCalls
      BY <1>7 DEF ReleaseLast
    <3> QED
      BY <1>a, <2>2, <3>1, MapsFinite DEF Counted
  <2> QED
    BY <1>3, <2>3
<1>8. ASSUME NEW c \in Conn, DialCommit(c)
      PROVE  ConnLimit'
  <2>1. c \in dialingCalls /\ dialingCalls' \subseteq dialingCalls \ {c}
    BY <1>8 DEF DialCommit, Lifecycle
  <2>2. CASE busyConns' \subseteq busyConns \cup {c} /\ idleConns' \subseteq idleConns
    <3>1. Cardinality(dialingCalls') + Cardinality(busyConns')
            <= Cardinality(dialingCalls) + Cardinality(busyConns)
      BY <2>1, <2>2, MapsFinite, MoveKeepsTotal
    <3>2. Cardinality(idleConns') <= Cardinality(idleConns)
      BY <2>2, MapsFinite, FS_Subset
    <3> QED
      BY <1>3, <1>a, <3>1, <3>2, MapsFinite DEF Counted
  <2>3. CASE idleConns' \subseteq idleConns \cup {c} /\ busyConns' \subseteq busyConns
    <3>1. Cardinality(dialingCalls') + Cardinality(idleConns')
            <= Cardinality(dialingCalls) + Cardinality(idleConns)
      BY <2>1, <2>3, MapsFinite, MoveKeepsTotal
    <3>2. Cardinality(busyConns') <= Cardinality(busyConns)
      BY <2>3, MapsFinite, FS_Subset
    <3> QED
      BY <1>3, <1>a, <3>1, <3>2, MapsFinite DEF Counted
  <2> QED
    BY <1>8, <2>2, <2>3 DEF DialCommit
<1>9. ASSUME NEW s \in Stream,
             \/ GetBusy(s) \/ GetQueue(s) \/ GetNone(s) \/ WaitDelivered(s)
             \/ WaitFailed(s) \/ WaitTimeout(s) \/ OpenStream(s) \/ ReleaseAbsent(s)
             \/ ReleaseDead(s) \/ ReleaseShared(s) \/ MarkDead(s)
      PROVE  ConnLimit'
  <2>1. /\ dialingCalls' \subseteq dialingCalls
        /\ busyConns' \subseteq busyConns /\ idleConns' \subseteq idleConns
    BY <1>9, SearchOnlyDeletes
       DEF GetBusy, GetQueue, GetNone, SweptBusy, WaitDelivered, WaitFailed, WaitTimeout,
           OpenStream, ReleaseAbsent, ReleaseDead, ReleaseShared, MarkDead, poolVars
  <2> QED
    BY <1>4, <2>1
<1>10. ASSUME NEW c \in Conn,
              \/ DialReturn(c) \/ DialDiscard(c) \/ CloseDoomed(c) \/ ConnDies(c)
       PROVE  ConnLimit'
  BY <1>4, <1>10 DEF DialReturn, DialDiscard, CloseDoomed, ConnDies, poolVars
<1>11. CASE Close
  BY <1>4, <1>11 DEF Close
<1>12. CASE UNCHANGED <<poolVars, dialVars, connVars, callerVars>>
  BY <1>4, <1>12 DEF poolVars
<1> QED
  BY <1>5, <1>6, <1>7, <1>8, <1>9, <1>10, <1>11, <1>12
     DEF PoolMoves, StreamStep, ConnStep, Release

(* The pool never accounts for more than MaxConn connections, dialing ones *)
(* included.                                                               *)
THEOREM ConnLimitHolds == Spec => []ConnLimit
<1>1. Init => ConnLimit
  BY FS_EmptySet, PoolAssumption DEF Init, ConnLimit
<1> QED
  BY <1>1, PoolInvariant, NextMoves, MovesConnLimit, PTL DEF Spec

-----------------------------------------------------------------------------
(* Reserve().                                                              *)

LEMMA ReserversFinite ==
    ASSUME NEW c
    PROVE  IsFiniteSet(Reservers(c)) /\ Cardinality(Reservers(c)) \in Nat
<1>1. Reservers(c) \in SUBSET Stream
  BY DEF Reservers
<1> QED
  BY <1>1, FS_Subset, FS_CardinalityType, PoolAssumption

(* A caller picks c.                                                       *)
LEMMA ReserversJoin ==
    ASSUME TypeOK, NEW s \in Stream, NEW c \in Conn, at[s] \in {None, c},
           pc[s] # "picked", Goto(s, "picked", c)
    PROVE  /\ Cardinality(Reservers(c)') = Cardinality(Reservers(c)) + 1
           /\ \A d \in Conn \ {c} : Reservers(d)' = Reservers(d)
<1>1. s \notin Reservers(c) /\ Reservers(c)' = Reservers(c) \cup {s}
  BY DEF Reservers, Goto, TypeOK
<1>2. \A d \in Conn \ {c} : Reservers(d)' = Reservers(d)
  BY PoolAssumption DEF Reservers, Goto, TypeOK
<1>3. Cardinality(Reservers(c) \cup {s}) = Cardinality(Reservers(c)) + 1
  BY <1>1, ReserversFinite, FS_AddElement
<1> QED
  BY <1>1, <1>2, <1>3

(* A caller that has picked nothing yet moves somewhere else.              *)
LEMMA ReserversSame ==
    ASSUME TypeOK, NEW s \in Stream, NEW state, NEW x, pc[s] # "picked",
           state # "picked", Goto(s, state, x)
    PROVE  \A d : Reservers(d)' = Reservers(d)
BY DEF Reservers, Goto, TypeOK

LEMMA MovesReserveMatches == IInv /\ ReserveMatches /\ PoolMoves => ReserveMatches'
<1> SUFFICES ASSUME IInv, ReserveMatches, PoolMoves PROVE ReserveMatches'
  OBVIOUS
<1> USE DEF IInv
<1>1. ASSUME UNCHANGED reserved, \A d \in Conn : Reservers(d)' = Reservers(d)
      PROVE  ReserveMatches'
  BY <1>1 DEF ReserveMatches
<1>2. ASSUME NEW s \in Stream, NEW c \in Conn, at[s] \in {None, c}, pc[s] # "picked",
             Goto(s, "picked", c), reserved' = [reserved EXCEPT ![c] = @ + 1]
      PROVE  ReserveMatches'
  BY <1>2, ReserversJoin DEF ReserveMatches, TypeOK
<1>3. ASSUME NEW s \in Stream, GetBusy(s) \/ GetIdle(s)
      PROVE  ReserveMatches'
  <2>1. PICK c \in Conn : TakeStream(s, c)
    BY <1>3 DEF GetBusy, GetIdle, Picks, Roomy, Live, TypeOK
  <2>2. at[s] = None /\ pc[s] = "idle"
    BY <1>3 DEF GetBusy, GetIdle, Lifecycle
  <2> QED
    BY <1>2, <2>1, <2>2 DEF TakeStream
<1>4. ASSUME NEW s \in Stream, GetDial(s)
      PROVE  ReserveMatches'
  <2>1. PICK c \in Conn :
          /\ Users(c) = {} /\ Goto(s, "waiting", c)
          /\ reserved' = [reserved EXCEPT ![c] = 0]
    BY <1>4 DEF GetDial, Fresh
  <2>2. \A d : Reservers(d)' = Reservers(d)
    BY <1>4, <2>1, ReserversSame DEF GetDial
  <2>3. Reservers(c) = {}
    BY <2>1 DEF Reservers, Users
  <2> QED
    BY <2>1, <2>2, <2>3, FS_EmptySet DEF ReserveMatches, TypeOK
<1>5. ASSUME NEW s \in Stream, WaitDelivered(s)
      PROVE  ReserveMatches'
  <2>1. PICK c \in Conn : c = at[s]
    BY <1>5 DEF WaitDelivered, Lifecycle, TypeOK
  <2>2. CASE Goto(s, "picked", c) /\ reserved' = [reserved EXCEPT ![c] = @ + 1]
    BY <1>2, <1>5, <2>1, <2>2 DEF WaitDelivered
  <2>3. CASE Goto(s, "refused", c) /\ UNCHANGED reserved
    BY <1>1, <1>5, <2>3, ReserversSame DEF WaitDelivered
  <2> QED
    BY <1>5, <2>1, <2>2, <2>3 DEF WaitDelivered
<1>6. ASSUME NEW s \in Stream, OpenStream(s)
      PROVE  ReserveMatches'
  <2>1. PICK c \in Conn : c = at[s] /\ pc[s] = "picked"
    BY <1>6 DEF OpenStream, Lifecycle, TypeOK
  <2>2. /\ s \in Reservers(c) /\ Reservers(c)' = Reservers(c) \ {s}
        /\ \A d \in Conn \ {c} : Reservers(d)' = Reservers(d)
    BY <1>6, <2>1 DEF OpenStream, Reservers, TypeOK
  <2>3. Cardinality(Reservers(c) \ {s}) = Cardinality(Reservers(c)) - 1
    BY <2>2, ReserversFinite, FS_RemoveElement
  <2>4. Cardinality(Reservers(c)) # 0
    BY <2>2, ReserversFinite, FS_EmptySet
  <2>5. reserved[c] = Cardinality(Reservers(c)) /\ reserved[c] > 0
    BY <2>4, ReserversFinite DEF ReserveMatches
  <2>6. reserved' = [reserved EXCEPT ![c] = reserved[c] - 1]
    BY <1>6, <2>1, <2>5 DEF OpenStream
  <2> QED
    BY <2>2, <2>3, <2>5, <2>6 DEF ReserveMatches, TypeOK
<1>7. ASSUME NEW s \in Stream,
             GetQueue(s) \/ WaitFailed(s) \/ WaitTimeout(s) \/ Release(s) \/ MarkDead(s)
      PROVE  ReserveMatches'
  <2>1. /\ pc[s] # "picked" /\ UNCHANGED reserved
        /\ \E state, x : state # "picked" /\ Goto(s, state, x)
    BY <1>7 DEF GetQueue, WaitFailed, WaitTimeout, Release, ReleaseAbsent, ReleaseDead,
                ReleaseShared, ReleaseLast, MarkDead, connVars
  <2> QED
    BY <1>1, <2>1, ReserversSame
<1>8. ASSUME UNCHANGED <<reserved, callerVars>>
      PROVE  ReserveMatches'
  BY <1>1, <1>8 DEF Reservers, callerVars
<1>9. CASE UNCHANGED <<poolVars, dialVars, connVars, callerVars>>
  BY <1>8, <1>9 DEF connVars
<1> QED
  BY <1>3, <1>4, <1>5, <1>6, <1>7, <1>8, <1>9
     DEF PoolMoves, StreamStep, ConnStep, GetNone, DialReturn, DialDiscard, DialCommit,
         Close, CloseDoomed, ConnDies, connVars

(* Every path of Get reserves exactly once, and only opening the stream    *)
(* gives the reservation back.                                             *)
THEOREM ReserveMatchesHolds == Spec => []ReserveMatches
<1>1. Init => ReserveMatches
  <2> SUFFICES ASSUME Init, NEW c \in Conn
               PROVE  reserved[c] = Cardinality(Reservers(c))
    BY DEF ReserveMatches
  <2>1. Reservers(c) = {}
    BY DEF Init, Reservers
  <2> QED
    BY <2>1, FS_EmptySet DEF Init
<1> QED
  BY <1>1, PoolInvariant, NextMoves, MovesReserveMatches, PTL DEF Spec

-----------------------------------------------------------------------------
(* No connection is forgotten, none is trimmed while in use.               *)

LEMMA MovesNoConnLeak == IInv /\ NoConnLeak /\ PoolMoves => NoConnLeak'
<1> SUFFICES ASSUME IInv, NoConnLeak, PoolMoves PROVE NoConnLeak'
  OBVIOUS
<1> USE DEF IInv
<1>1. ASSUME NEW s \in Stream, GetBusy(s) \/ GetIdle(s)
      PROVE  NoConnLeak'
  BY <1>1 DEF GetBusy, GetIdle, SweptBusy, Dead, TakeStream, Goto, dialVars, NoConnLeak,
              TypeOK
<1>2. ASSUME NothingToReuse, ~closed
      PROVE  \A c \in Conn : connState[c] = "open" /\ c \in busyConns \cup idleConns
               => c \in busyConns' \cup idleConns'
  BY <1>2 DEF NothingToReuse, SweptBusy, Live, Dead
<1>3. ASSUME NEW s \in Stream, GetQueue(s) \/ GetNone(s)
      PROVE  NoConnLeak'
  BY <1>2, <1>3 DEF GetQueue, GetNone, dialVars, connVars, NoConnLeak
<1>4. ASSUME NEW s \in Stream, GetDial(s)
      PROVE  NoConnLeak'
  <2>1. PICK c \in Conn :
          /\ Fresh(c)
          /\ dialer' = [dialer EXCEPT ![c] = "running"]
          /\ connState' = [connState EXCEPT ![c] = "none"]
    BY <1>4 DEF GetDial
  <2>2. ~closed /\ UNCHANGED <<closed, doomed>> /\ NothingToReuse
    BY <1>4 DEF GetDial
  <2> QED
    BY <1>2, <2>1, <2>2 DEF NoConnLeak, TypeOK
<1>5. ASSUME NEW s \in Stream,
             \/ WaitDelivered(s) \/ WaitFailed(s) \/ WaitTimeout(s) \/ OpenStream(s)
             \/ ReleaseAbsent(s) \/ ReleaseShared(s)
      PROVE  NoConnLeak'
  BY <1>5 DEF WaitDelivered, WaitFailed, WaitTimeout, OpenStream, ReleaseAbsent,
              ReleaseShared, poolVars, dialVars, connVars, NoConnLeak
<1>6. ASSUME NEW s \in Stream, ReleaseDead(s)
      PROVE  NoConnLeak'
  BY <1>6 DEF ReleaseDead, Dead, dialVars, connVars, NoConnLeak
<1>7. ASSUME NEW s \in Stream, ReleaseLast(s)
      PROVE  NoConnLeak'
  <2>1. PICK X \in SUBSET (idleConns \cup {at[s]}) :
          /\ idleConns' = (idleConns \cup {at[s]}) \ X
          /\ doomed' = doomed \cup X
          /\ busyConns' = busyConns \ {at[s]}
    BY <1>7 DEF ReleaseLast, Trims
  <2> QED
    BY <1>7, <2>1 DEF ReleaseLast, dialVars, NoConnLeak
<1>8. ASSUME NEW s \in Stream, MarkDead(s)
      PROVE  NoConnLeak'
  BY <1>8 DEF MarkDead, dialVars, NoConnLeak
<1>9. ASSUME NEW c \in Conn,
             \/ DialReturn(c) \/ DialDiscard(c) \/ CloseDoomed(c) \/ ConnDies(c)
      PROVE  NoConnLeak'
  BY <1>9 DEF DialReturn, DialDiscard, Discarded, CloseDoomed, ConnDies,
              poolVars, dialVars, connVars, NoConnLeak, TypeOK
<1>10. ASSUME NEW c \in Conn, DialCommit(c)
       PROVE  NoConnLeak'
  BY <1>10 DEF DialCommit, connVars, NoConnLeak, TypeOK
<1>11. CASE Close
  BY <1>11 DEF Close, Pooled, NoConnLeak
<1>12. CASE UNCHANGED <<poolVars, dialVars, connVars, callerVars>>
  BY <1>12 DEF poolVars, dialVars, connVars, NoConnLeak
<1> QED
  BY <1>1, <1>3, <1>4, <1>5, <1>6, <1>7, <1>8, <1>9, <1>10, <1>11, <1>12
     DEF PoolMoves, StreamStep, ConnStep, Release

(* Every open connection is pooled, held by its dial goroutine or about to *)
(* be closed, whatever Close, Release and the dials do to each other.      *)
THEOREM NoConnLeakHolds == Spec => []NoConnLeak
<1>1. Init => NoConnLeak
  BY DEF Init, NoConnLeak
<1> QED
  BY <1>1, PoolInvariant, NextMoves, MovesNoConnLeak, PTL DEF Spec

(* A connection that Release trims has no caller left.                     *)
THEOREM TrimSparesStreamsHolds == Spec => TrimSparesStreams
<1> DEFINE Step ==
      \A c \in doomed' \ doomed :
        \/ \A s \in Users(c) : at'[s] # c
        \/ closed' # closed
        \/ \E s \in Stream : MarkDead(s)
<1>1. IInv /\ [Next]_vars => [Step]_vars
  <2> SUFFICES ASSUME IInv, PoolMoves PROVE Step
    BY NextMoves
  <2> USE DEF IInv
  <2>1. ASSUME doomed' \subseteq doomed
        PROVE  Step
    BY <2>1
  <2>2. ASSUME NEW s \in Stream, ReleaseLast(s)
        PROVE  Step
    <3>1. PICK c \in Conn :
            /\ c = at[s]
            /\ Cardinality(Users(c)) = 1 => Users(c)' = {}
      BY <2>2, StreamEnds DEF ReleaseLast
    <3>2. Users(c)' = {}
      BY <2>2, <3>1 DEF ReleaseLast, LastStream, StreamAccounting
    <3>3. doomed' \ doomed \subseteq idleConns \cup {c}
      BY <2>2, <3>1 DEF ReleaseLast, Trims
    <3>4. \A d \in idleConns : Users(d) = {}
      BY DEF StreamAccounting
    <3>5. \A t \in Stream : at'[t] # c
      BY <3>2 DEF Users
    <3> QED
      BY <3>3, <3>4, <3>5 DEF Users
  <2>3. CASE Close
    BY <2>3 DEF Close
  <2>4. ASSUME NEW s \in Stream, MarkDead(s)
        PROVE  Step
    BY <2>4
  <2> QED
    BY <2>1, <2>2, <2>3, <2>4
       DEF PoolMoves, StreamStep, ConnStep, Release, GetBusy, GetIdle, GetQueue, GetDial,
           GetNone, WaitDelivered, WaitFailed, WaitTimeout, OpenStream, ReleaseAbsent,
           ReleaseDead, ReleaseShared, DialReturn, DialDiscard, DialCommit, CloseDoomed,
           ConnDies, connVars
<1> QED
  BY <1>1, PoolInvariant, PTL DEF Spec, TrimSparesStreams

-----------------------------------------------------------------------------
(* The pool implements StreamPool, step by step.                           *)

PromiseStep == [Promise!PoolNext]_(Promise!poolVars)

(* StreamPool counts as ConnPool does.                                     *)
LEMMA PromiseCounts == \A S : Promise!Cardinality(S) = Cardinality(S)
BY DEF Promise!Cardinality, Cardinality

LEMMA PromiseStays ==
    ASSUME \A c \in Conn : Offer(c)' = Offer(c), UNCHANGED <<at, closed>>
    PROVE  PromiseStep
BY DEF PromiseStep, Promise!poolVars

LEMMA PromiseJoins ==
    ASSUME NEW s \in Stream, NEW c \in Conn, ~closed, closed' = closed, at[s] = None,
           at' = [at EXCEPT ![s] = c], Offer(c) # "out", Cardinality(Users(c)) < MaxStream,
           \A d \in Conn : Offer(d)' = Offer(d)
    PROVE  PromiseStep
<1>1. Promise!Seated(c) = Users(c)
  BY DEF Promise!Seated, Users
<1>2. Promise!Join(s, c)
  BY <1>1, PromiseCounts DEF Promise!Join, Promise!Sit, Promise!Offered
<1> QED
  BY <1>2 DEF PromiseStep, Promise!PoolNext

LEMMA PromiseLeaves ==
    ASSUME NEW s \in Stream, at[s] # None, at' = [at EXCEPT ![s] = None], closed' = closed,
           NEW X \in SUBSET Conn, \A c \in X : Offer(c) = "usable" /\ Users(c) \subseteq {s},
           \A c \in Conn : Offer(c)' = IF c \in X THEN "out" ELSE Offer(c)
    PROVE  PromiseStep
<1>1. \A c : Promise!Seated(c) = Users(c)
  BY DEF Promise!Seated, Users
<1>2. Promise!Leave(s, X)
  BY <1>1 DEF Promise!Leave, Promise!Without
<1> QED
  BY <1>2 DEF PromiseStep, Promise!PoolNext

LEMMA PromiseChanges ==
    ASSUME NEW c \in Conn, UNCHANGED <<at, closed>>,
           \A d \in Conn \ {c} : Offer(d)' = Offer(d),
           \/ Offer(c)' \in {Offer(c), "out"}
           \/ Offer(c) = "dialing" /\ Offer(c)' = "usable"
    PROVE  PromiseStep
<1>1. CASE Offer(c)' = Offer(c)
  BY <1>1, PromiseStays
<1>2. CASE Offer(c)' # Offer(c)
  <2>1. Promise!Changes(c)
    BY <1>2 DEF Promise!Changes, Promise!Offered, Offer
  <2> QED
    BY <2>1 DEF PromiseStep, Promise!PoolNext
<1> QED
  BY <1>1, <1>2

(* The searches of Get delete only what is no longer offered.              *)
LEMMA SearchKeepsOffers ==
    ASSUME TypeOK, NothingToReuse
    PROVE  /\ busyConns' \subseteq busyConns /\ idleConns' \subseteq idleConns
           /\ \A c \in Conn : ~Dead(c) => (c \in busyConns' <=> c \in busyConns)
                                    /\ (c \in idleConns' <=> c \in idleConns)
BY DEF NothingToReuse, SweptBusy, Live, TypeOK

LEMMA UnionNotLarger ==
    ASSUME NEW S, NEW T, IsFiniteSet(S), IsFiniteSet(T)
    PROVE  IsFiniteSet(S \cup T) /\ Cardinality(S \cup T) <= Cardinality(S) + Cardinality(T)
<1>1. /\ IsFiniteSet(S \cup T)
      /\ Cardinality(S \cup T) = Cardinality(S) + Cardinality(T) - Cardinality(S \cap T)
  BY FS_Union
<1>2. IsFiniteSet(S \cap T)
  BY FS_Subset
<1>3. /\ Cardinality(S) \in Nat /\ Cardinality(T) \in Nat /\ Cardinality(S \cap T) \in Nat
  BY <1>2, FS_CardinalityType
<1> QED
  BY <1>1, <1>3

LEMMA PromiseDials ==
    ASSUME IInv, NEW s \in Stream, GetDial(s)
    PROVE  PromiseStep
<1> USE DEF IInv
<1>1. PICK c \in Conn :
        /\ Fresh(c) /\ dialingCalls' = dialingCalls \cup {c}
        /\ connState' = [connState EXCEPT ![c] = "none"] /\ Goto(s, "waiting", c)
  BY DEF GetDial
<1>2. /\ ~closed /\ closed' = closed /\ NothingToReuse /\ at[s] = None
      /\ DialAllowed(busyConns', idleConns')
  BY DEF GetDial, Lifecycle
<1>3. Offer(c) = "out" /\ Offer(c)' = "dialing" /\ Users(c) = {}
  <2>1. c \notin dialingCalls /\ c \notin Pooled /\ Users(c) = {}
    BY <1>1 DEF Fresh, Pooled
  <2>2. c \in dialingCalls' /\ ~closed' /\ c \notin Pooled'
    BY <1>1, <1>2, <2>1, SearchKeepsOffers DEF Pooled
  <2>3. Offer(c) = "out"
    BY <2>1 DEF Offer
  <2>4. Offer(c)' = "dialing"
    BY <2>2 DEF Offer
  <2> QED
    BY <2>1, <2>3, <2>4
<1>4. \A d \in Conn \ {c} : Offer(d)' = Offer(d)
  BY <1>1, <1>2, SearchKeepsOffers DEF Offer, Pooled, Dead, TypeOK
<1>5. MaxConn > 0 => Cardinality(Promise!Offered) < MaxConn
  <2>1. Promise!Offered \subseteq dialingCalls \cup (busyConns' \cup idleConns')
    BY <1>2, SearchKeepsOffers DEF Promise!Offered, Offer, Pooled
  <2>2. /\ IsFiniteSet(dialingCalls) /\ IsFiniteSet(busyConns') /\ IsFiniteSet(idleConns')
    BY <1>2, SearchKeepsOffers, MapsFinite, FS_Subset
  <2>3. IsFiniteSet(busyConns' \cup idleConns')
        /\ Cardinality(busyConns' \cup idleConns')
              <= Cardinality(busyConns') + Cardinality(idleConns')
    BY <2>2, UnionNotLarger
  <2>4. IsFiniteSet(dialingCalls \cup (busyConns' \cup idleConns'))
        /\ Cardinality(dialingCalls \cup (busyConns' \cup idleConns'))
              <= Cardinality(dialingCalls) + Cardinality(busyConns' \cup idleConns')
    BY <2>2, <2>3, UnionNotLarger
  <2>5. Cardinality(Promise!Offered)
          <= Cardinality(dialingCalls \cup (busyConns' \cup idleConns'))
        /\ Cardinality(Promise!Offered) \in Nat
    BY <2>1, <2>4, FS_Subset, FS_CardinalityType
  <2>6. /\ Cardinality(dialingCalls) \in Nat /\ Cardinality(busyConns') \in Nat
        /\ Cardinality(idleConns') \in Nat /\ Cardinality(busyConns' \cup idleConns') \in Nat
        /\ Cardinality(dialingCalls \cup (busyConns' \cup idleConns')) \in Nat
    BY <2>2, <2>3, <2>4, FS_CardinalityType
  <2> QED
    BY <1>2, <2>3, <2>4, <2>5, <2>6, PoolAssumption DEF DialAllowed
<1>6. Promise!Dial(s, c)
  <2>1. Promise!Seated(c) = {}
    BY <1>3 DEF Promise!Seated, Users
  <2>2. at' = [at EXCEPT ![s] = c]
    BY <1>1 DEF Goto
  <2>3. [d \in Conn |-> Offer(d)]' = [[d \in Conn |-> Offer(d)] EXCEPT ![c] = "dialing"]
    BY <1>3, <1>4
  <2> QED
    BY <1>2, <1>3, <1>5, <2>1, <2>2, <2>3, PromiseCounts DEF Promise!Dial, Promise!Sit
<1> QED
  BY <1>6 DEF PromiseStep, Promise!PoolNext

LEMMA PromiseTrims ==
    ASSUME IInv, NEW s \in Stream, ReleaseLast(s)
    PROVE  PromiseStep
<1> USE DEF IInv
<1>1. PICK c \in Conn :
        /\ c = at[s] /\ c \notin dialingCalls /\ s \in Users(c)
        /\ Cardinality(Users(c)) = 1 => Users(c)' = {}
  BY StreamEnds DEF ReleaseLast
<1>2. at' = [at EXCEPT ![s] = None] /\ at[s] # None
  BY <1>1, PoolAssumption DEF ReleaseLast, Goto
<1>3. PICK Y \in SUBSET (idleConns \cup {c}) : idleConns' = (idleConns \cup {c}) \ Y
  BY <1>1 DEF ReleaseLast, Trims
<1>4. /\ c \in busyConns /\ ~Dead(c) /\ busyConns' = busyConns \ {c}
      /\ UNCHANGED <<closed, dialingCalls, connState>>
  BY <1>1 DEF ReleaseLast, dialVars
<1>5. Users(c) \subseteq {s}
  <2>1. Users(c)' = {}
    BY <1>1, <1>4 DEF ReleaseLast, LastStream, StreamAccounting
  <2> QED
    BY <1>2, <2>1 DEF Users, TypeOK
<1> DEFINE X == {d \in Y : Offer(d) = "usable"}
<1>6. X \in SUBSET Conn /\ \A d \in X : Offer(d) = "usable" /\ Users(d) \subseteq {s}
  BY <1>5 DEF StreamAccounting, TypeOK
<1>7. \A d \in Conn : Offer(d)' = IF d \in X THEN "out" ELSE Offer(d)
  <2> TAKE d \in Conn
  <2>1. Dead(d)' = Dead(d)
    BY <1>4 DEF Dead
  <2>2. CASE d \in Y
    <3>1. d \notin Pooled' /\ d \notin dialingCalls /\ d \notin dialingCalls'
      BY <1>1, <1>3, <1>4, <2>2 DEF Pooled, Lifecycle
    <3>2. Offer(d)' = "out"
      BY <3>1 DEF Offer
    <3>3. Offer(d) \in {"usable", "out"}
      BY <3>1 DEF Offer
    <3> QED
      BY <2>2, <3>2, <3>3
  <2>3. CASE d \notin Y
    <3>1. d \in Pooled' <=> d \in Pooled
      BY <1>3, <1>4, <2>3 DEF Pooled
    <3> QED
      BY <1>4, <2>1, <2>3, <3>1 DEF Offer
  <2> QED
    BY <2>2, <2>3
<1> HIDE DEF X
<1> QED
  BY <1>2, <1>4, <1>6, <1>7, PromiseLeaves

LEMMA PromiseComplains ==
    ASSUME IInv, NEW s \in Stream, MarkDead(s)
    PROVE  PromiseStep
<1> USE DEF IInv
<1>1. PICK c \in Conn : c = at[s] /\ c \notin dialingCalls
  BY StreamEnds DEF MarkDead
<1>2. at' = [at EXCEPT ![s] = None] /\ at[s] # None
  BY <1>1, PoolAssumption DEF MarkDead, Goto
<1>3. /\ Pooled' = Pooled \ {c}
      /\ UNCHANGED <<closed, dialingCalls, connState>>
  BY <1>1 DEF MarkDead, Pooled, dialVars
<1>4. \A d \in Conn : Offer(d)' = IF d \in {at[s]} THEN "out" ELSE Offer(d)
  <2>1. Offer(c)' = "out"
    BY <1>1, <1>3 DEF Offer
  <2>2. \A d \in Conn \ {c} : Offer(d)' = Offer(d)
    BY <1>3 DEF Offer, Dead
  <2> QED
    BY <1>1, <2>1, <2>2
<1>5. Promise!Complain(s)
  BY <1>2, <1>3, <1>4 DEF Promise!Complain, Promise!Without
<1> QED
  BY <1>5 DEF PromiseStep, Promise!PoolNext

LEMMA PromiseShuts ==
    ASSUME Close
    PROVE  PromiseStep
<1>1. \A d \in Conn : Offer(d)' = "out"
  BY DEF Close, Offer
<1>2. Promise!Shut
  BY <1>1 DEF Close, callerVars, Promise!Shut, Promise!Without
<1> QED
  BY <1>2 DEF PromiseStep, Promise!PoolNext

LEMMA MovesPromise ==
    ASSUME IInv, PoolMoves
    PROVE  PromiseStep
<1> USE DEF IInv
<1>1. ASSUME NEW s \in Stream, GetBusy(s) \/ GetIdle(s)
      PROVE  PromiseStep
  <2>1. ~closed /\ UNCHANGED <<closed, dialingCalls, connState>> /\ at[s] = None
    BY <1>1 DEF GetBusy, GetIdle, dialVars, Lifecycle
  <2>2. \A d \in Conn : ~Dead(d) => (d \in Pooled' <=> d \in Pooled)
    BY <1>1 DEF GetBusy, GetIdle, SweptBusy, Pooled
  <2>3. \A d \in Conn : Offer(d)' = Offer(d)
    BY <2>1, <2>2 DEF Offer, Dead
  <2>4. PICK c \in Conn : /\ c \in Pooled /\ ~Dead(c) /\ at' = [at EXCEPT ![s] = c]
                         /\ Cardinality(Users(c)) < MaxStream
    <3>1. CASE GetBusy(s)
      <4>1. PICK c \in busyConns : ~Dead(c) /\ HasRoom(c) /\ TakeStream(s, c)
        BY <3>1 DEF GetBusy, Picks, Roomy, Live
      <4> QED
        BY <4>1 DEF HasRoom, TakeStream, Goto, Pooled, StreamAccounting, TypeOK
    <3>2. CASE GetIdle(s)
      <4>1. PICK c \in idleConns : ~Dead(c) /\ TakeStream(s, c)
        BY <3>2 DEF GetIdle, IdleUsable
      <4>2. Cardinality(Users(c)) < MaxStream
        BY FS_EmptySet, PoolAssumption DEF StreamAccounting
      <4> QED
        BY <4>1, <4>2 DEF TakeStream, Goto, Pooled, TypeOK
    <3> QED
      BY <1>1, <3>1, <3>2
  <2>5. Offer(c) # "out"
    BY <2>1, <2>4 DEF Offer, Pooled, Lifecycle
  <2> QED
    BY <2>1, <2>3, <2>4, <2>5, PromiseJoins
<1>2. ASSUME NEW s \in Stream, GetQueue(s) \/ GetNone(s)
      PROVE  PromiseStep
  <2>1. ~closed /\ UNCHANGED <<closed, dialingCalls, connState>> /\ NothingToReuse
    BY <1>2 DEF GetQueue, GetNone, dialVars, connVars
  <2>2. \A d \in Conn : Offer(d)' = Offer(d)
    BY <2>1, SearchKeepsOffers DEF Offer, Dead, Pooled
  <2>3. CASE GetNone(s)
    BY <2>1, <2>2, <2>3, PromiseStays DEF GetNone, callerVars
  <2>4. CASE GetQueue(s)
    <3>1. PICK c \in dialingCalls : /\ c \in Conn /\ c = lastDialCall
                                    /\ Cardinality(Users(c)) < MaxStream
      BY <2>4 DEF GetQueue, CanQueue, Lifecycle, StreamAccounting, TypeOK
    <3>2. at[s] = None /\ at' = [at EXCEPT ![s] = c]
      BY <2>4, <3>1 DEF GetQueue, Goto, Lifecycle
    <3>3. Offer(c) # "out"
      BY <2>1, <3>1 DEF Offer, Pooled, Lifecycle
    <3> QED
      BY <2>1, <2>2, <3>1, <3>2, <3>3, PromiseJoins
  <2> QED
    BY <1>2, <2>3, <2>4
<1>3. ASSUME NEW s \in Stream, WaitDelivered(s) \/ OpenStream(s)
      PROVE  PromiseStep
  <2>1. at' = at /\ UNCHANGED <<poolVars, connState>>
    BY <1>3 DEF WaitDelivered, OpenStream, Goto, TypeOK
  <2> QED
    BY <2>1, PromiseStays DEF Offer, Pooled, Dead, poolVars
<1>4. ASSUME NEW s \in Stream,
             \/ WaitFailed(s) \/ WaitTimeout(s)
             \/ ReleaseAbsent(s) \/ ReleaseDead(s) \/ ReleaseShared(s)
      PROVE  PromiseStep
  <2>1. at[s] # None /\ at' = [at EXCEPT ![s] = None]
    BY <1>4 DEF WaitFailed, WaitTimeout, ReleaseAbsent, ReleaseDead, ReleaseShared, Goto,
                Lifecycle
  <2>2. UNCHANGED <<closed, dialingCalls, connState>>
    BY <1>4 DEF WaitFailed, WaitTimeout, ReleaseAbsent, ReleaseDead, ReleaseShared, poolVars,
                dialVars, connVars
  <2>3. \A d \in Conn : ~Dead(d) => (d \in Pooled' <=> d \in Pooled)
    BY <1>4 DEF WaitFailed, WaitTimeout, ReleaseAbsent, ReleaseDead, ReleaseShared, poolVars,
                Pooled
  <2>4. \A d \in Conn : Offer(d)' = Offer(d)
    BY <2>2, <2>3 DEF Offer, Dead
  <2> DEFINE X == {}
  <2>5. X \in SUBSET Conn /\ \A d \in X : Offer(d) = "usable" /\ Users(d) \subseteq {s}
    OBVIOUS
  <2>6. \A d \in Conn : Offer(d)' = IF d \in X THEN "out" ELSE Offer(d)
    BY <2>4
  <2> HIDE DEF X
  <2> QED
    BY <2>1, <2>2, <2>5, <2>6, PromiseLeaves
<1>5. ASSUME NEW c \in Conn,
             DialReturn(c) \/ DialDiscard(c) \/ CloseDoomed(c) \/ ConnDies(c)
      PROVE  PromiseStep
  <2>1. /\ UNCHANGED poolVars /\ at' = at
        /\ \A d \in Conn \ {c} : connState'[d] = connState[d]
    BY <1>5 DEF DialReturn, DialDiscard, Discarded, CloseDoomed, ConnDies, callerVars, TypeOK
  <2>2. \A d \in Conn \ {c} : Offer(d)' = Offer(d)
    BY <2>1 DEF Offer, Pooled, Dead, poolVars
  <2>3. Offer(c)' \in {Offer(c), "out"}
    <3>1. CASE closed
      BY <2>1, <3>1 DEF Offer, poolVars
    <3>2. CASE c \in dialingCalls
      BY <2>1, <3>2 DEF Offer, Pooled, Lifecycle, poolVars
    <3>3. CASE c \notin dialingCalls /\ ~closed
      <4>1. connState'[c] = "closed"
        BY <1>5, <3>3 DEF DialReturn, DialDiscard, CloseDoomed, ConnDies, Lifecycle, TypeOK
      <4> QED
        BY <2>1, <3>3, <4>1 DEF Offer, Pooled, Dead, poolVars
    <3> QED
      BY <3>1, <3>2, <3>3
  <2> QED
    BY <2>1, <2>2, <2>3, PromiseChanges DEF poolVars
<1>6. ASSUME NEW c \in Conn, DialCommit(c)
      PROVE  PromiseStep
  <2>1. /\ ~closed /\ UNCHANGED <<closed, at, connState>> /\ c \in dialingCalls
        /\ dialingCalls' = dialingCalls \ {c}
    BY <1>6 DEF DialCommit, connVars, callerVars, Lifecycle
  <2>2. \A d \in Conn \ {c} : d \in Pooled' <=> d \in Pooled
    BY <1>6 DEF DialCommit, Pooled
  <2>3. \A d \in Conn \ {c} : Offer(d)' = Offer(d)
    BY <2>1, <2>2 DEF Offer, Dead
  <2>4. Offer(c) = "dialing"
    BY <2>1 DEF Offer, Pooled, Lifecycle
  <2>5. Offer(c)' \in {"usable", "out"}
    BY <2>1 DEF Offer
  <2> QED
    BY <2>1, <2>3, <2>4, <2>5, PromiseChanges
<1>7. CASE UNCHANGED <<poolVars, dialVars, connVars, callerVars>>
  BY <1>7, PromiseStays DEF Offer, Pooled, Dead, poolVars, connVars, callerVars
<1> QED
  BY <1>1, <1>2, <1>3, <1>4, <1>5, <1>6, <1>7, PromiseDials, PromiseTrims, PromiseComplains,
     PromiseShuts
     DEF PoolMoves, StreamStep, ConnStep, Release

LEMMA InitPromise == Init => Promise!PoolInit
BY DEF Init, Promise!PoolInit, Offer, Pooled

(* For any number of callers and connections, the pool is one that hands   *)
(* out seats within its limits and takes no connection away from a caller. *)
THEOREM PoolKeepsPromise == Spec => ImplementsPool
<1>1. IInv /\ [Next]_vars => [Promise!PoolNext]_(Promise!poolVars)
  BY NextMoves, MovesPromise DEF PromiseStep
<1> QED
  BY <1>1, InitPromise, PoolInvariant, PTL DEF Spec, ImplementsPool, Promise!PoolSpec

-----------------------------------------------------------------------------
(* The transport on top of the pool.                                       *)

InExchange(s) == phase[s] \in {"queued", "sent"}

(* A connection that was delivered exists.                                 *)
Reached ==
    \A c \in Conn :
        dialer[c] = "conn" \/ dialCall[c] = "delivered" => connState[c] # "none"

(* A caller is registered under its qid exactly while it exchanges.        *)
Phases ==
    \A s \in Stream :
        /\ InExchange(s) =>
            pc[s] = "open" /\ qid[s] \in Qid /\ queue[at[s]][qid[s]] = s
        /\ ~InExchange(s) => qid[s] = NoQid /\ mailbox[s] = None

(* Only assigned qids are registered, each for the caller that holds it.   *)
Queues ==
    \A c \in Conn, q \in Qid, s \in Stream :
        queue[c][q] = s =>
            q < nextQid[c] /\ at[s] = c /\ qid[s] = q /\ InExchange(s)

(* What was sent under a qid was sent by the only caller that ever had it. *)
Wires ==
    \A c \in Conn, q \in Qid, s \in Stream :
        <<q, s>> \in wire[c] => q < nextQid[c] /\ queue[c][q] \in {None, s}

(* pipelineConn books no more than the pool's Reserve() calls.             *)
Booked == \A c \in Conn : connReserved[c] <= reserved[c]

ExchangeInv == Phases /\ Queues /\ Wires /\ OwnAnswer

PipelineInv ==
    /\ PipelineTypeOK /\ IInv /\ ReserveMatches
    /\ Reached /\ ExchangeInv /\ Booked /\ ExhaustedCloses

LEMMA InitPipeline == PipelineInit => PipelineInv
<1> SUFFICES ASSUME PipelineInit PROVE PipelineInv
  OBVIOUS
<1>1. IInv
  BY InitIInv DEF PipelineInit
<1>2. ReserveMatches /\ Booked
  <2>1. \A c \in Conn : Reservers(c) = {}
    BY DEF PipelineInit, Init, Reservers
  <2>2. \A c \in Conn : reserved[c] = 0 /\ connReserved[c] = 0
    BY DEF PipelineInit, Init
  <2>3. ReserveMatches
    BY <2>1, <2>2, FS_EmptySet DEF ReserveMatches
  <2> QED
    BY <2>2, <2>3 DEF Booked
<1>3. PipelineTypeOK
  BY <1>1, PipelineAssumption DEF PipelineInit, PipelineTypeOK, IInv, Qid, NoQid, Phase
<1>4. Reached /\ ExhaustedCloses
  BY DEF PipelineInit, Init, Reached, ExhaustedCloses
<1>5. ExchangeInv
  BY PipelineAssumption
     DEF PipelineInit, ExchangeInv, Phases, Queues, Wires, OwnAnswer, InExchange
<1> QED
  BY <1>1, <1>2, <1>3, <1>4, <1>5 DEF PipelineInv

-----------------------------------------------------------------------------
(* The pool's part.                                                        *)

(* The caller of deleteQueueC refers to a connection that exists.          *)
LEMMA ExchangesOnConn ==
    ASSUME PipelineInv, NEW s \in Stream, InExchange(s)
    PROVE  /\ at[s] \in Conn /\ pc[s] = "open" /\ qid[s] \in Qid
           /\ queue[at[s]][qid[s]] = s
           /\ connState[at[s]] \in {"open", "closed"}
<1>1. pc[s] = "open" /\ qid[s] \in Qid /\ queue[at[s]][qid[s]] = s
  BY DEF PipelineInv, ExchangeInv, Phases
<1>2. at[s] \in Conn /\ dialCall[at[s]] = "delivered"
  BY <1>1 DEF PipelineInv, IInv, Lifecycle, TypeOK
<1> QED
  BY <1>1, <1>2 DEF PipelineInv, Reached, IInv, TypeOK, ConnState

LEMMA PipelineMoves ==
    ASSUME PipelineInv, [PipelineNext]_tvars
    PROVE  PoolMoves /\ available' \in [Conn -> BOOLEAN]
<1>1. Published => available' \in [Conn -> BOOLEAN]
  BY DEF Published, Bookable
<1>2. ASSUME NEW s \in Stream, NEW shut, DeleteQueue(s, shut), InExchange(s),
             UNCHANGED <<poolVars, dialVars, reserved, doomed, callerVars>>
      PROVE  PoolMoves
  <2>1. connState' \in {connState, [connState EXCEPT ![at[s]] = "closed"]}
    BY <1>2 DEF DeleteQueue
  <2>2. at[s] \in Conn /\ connState[at[s]] \in {"open", "closed"}
    BY <1>2, ExchangesOnConn
  <2>3. CASE connState' = connState
    BY <1>2, <2>3 DEF PoolMoves, connVars
  <2>4. CASE connState[at[s]] = "closed"
    <3>1. connState' = connState
      BY <2>1, <2>4 DEF PipelineInv, IInv, TypeOK
    <3> QED
      BY <1>2, <3>1 DEF PoolMoves, connVars
  <2>5. CASE connState[at[s]] = "open" /\ connState' = [connState EXCEPT ![at[s]] = "closed"]
    <3>1. ConnDies(at[s])
      BY <1>2, <2>5 DEF ConnDies
    <3> QED
      BY <2>2, <3>1 DEF PoolMoves, ConnStep
  <2> QED
    BY <2>1, <2>2, <2>3, <2>4, <2>5
<1>3. ASSUME NEW s \in Stream, CallerStep(s)
      PROVE  PoolMoves
  <2>1. CASE WriteFails(s)
    BY <1>2, <2>1 DEF WriteFails, InExchange
  <2>2. CASE Receive(s) \/ Abandon(s)
    BY <1>2, <2>2 DEF Receive, Abandon, InExchange
  <2>3. CASE \/ GetPooled(s) \/ GetWaiting(s) \/ GetRefused(s) \/ Notified(s)
             \/ WaitEnds(s) \/ AddQueue(s) \/ Return(s)
    BY <2>3 DEF GetPooled, GetWaiting, GetRefused, Notified, WaitEnds, AddQueue, Return,
                PoolMoves, StreamStep
  <2>4. CASE Write(s)
    BY <2>4 DEF Write, PoolMoves
  <2> QED
    BY <1>3, <2>1, <2>2, <2>3, <2>4 DEF CallerStep
<1>4. ASSUME NEW c \in Conn, Respond(c) \/ Dialled(c)
      PROVE  PoolMoves
  BY <1>4 DEF Respond, Dialled, PoolMoves, ConnStep
<1>5. ASSUME PoolSide
      PROVE  PoolMoves
  BY <1>5 DEF PoolSide, PoolMoves, ConnStep
<1>6. CASE UNCHANGED tvars
  BY <1>6 DEF tvars, vars, PoolMoves, PipelineInv, IInv, TypeOK
<1>7. CASE PipelineNext
  <2>1. Published
    BY <1>7 DEF PipelineNext
  <2>2. PoolMoves
    BY <1>3, <1>4, <1>5, <1>7 DEF PipelineNext
  <2> QED
    BY <1>1, <2>1, <2>2
<1> QED
  BY <1>6, <1>7

LEMMA PipelinePool ==
    ASSUME PipelineInv, [PipelineNext]_tvars
    PROVE  IInv' /\ ReserveMatches'
BY PipelineMoves, MovesIInv, MovesReserveMatches DEF PipelineInv

-----------------------------------------------------------------------------
(* The queries' part: what each step does to who is registered under which *)
(* qid and to what is on its way.                                          *)

(* Nothing that an exchange looks at changes.                              *)
LEMMA ExchangesUntouched ==
    ASSUME PipelineInv, UNCHANGED <<nextQid, queue, wire, qid, mailbox, answer>>,
           \A s \in Stream : InExchange(s)' = InExchange(s),
           \A s \in Stream : InExchange(s) => pc'[s] = pc[s] /\ at'[s] = at[s]
    PROVE  ExchangeInv'
<1>1. Phases'
  BY DEF PipelineInv, ExchangeInv, Phases
<1>2. Queues' /\ Wires' /\ OwnAnswer'
  BY DEF PipelineInv, ExchangeInv, Queues, Wires, OwnAnswer
<1> QED
  BY <1>1, <1>2 DEF ExchangeInv

(* A caller that does not exchange moves.                                  *)
LEMMA CallerMovesExchange ==
    ASSUME PipelineInv, NEW s \in Stream,
           GetPooled(s) \/ GetWaiting(s) \/ GetRefused(s) \/ Notified(s)
             \/ WaitEnds(s) \/ Return(s)
    PROVE  ExchangeInv'
<1>1. ~InExchange(s) /\ ~InExchange(s)'
  <2>1. InExchange(s) => pc[s] = "open" /\ phase[s] \in {"queued", "sent"}
    BY ExchangesOnConn DEF InExchange
  <2>2. pc[s] \in {"idle", "waiting"} \/ phase[s] \in {"lost", "ended"} \/ pc[s] = "refused"
    BY DEF GetPooled, GetWaiting, GetRefused, Notified, WaitEnds, Return, GetBusy, GetIdle,
           GetQueue, GetDial, WaitDelivered, WaitFailed, WaitTimeout
  <2>3. phase'[s] \in {phase[s], "failed", "answered", "get"}
    BY DEF GetPooled, GetWaiting, GetRefused, Notified, WaitEnds, Return, NextPhase,
           exchangeVars, PipelineInv, PipelineTypeOK
  <2> QED
    BY <2>1, <2>2, <2>3 DEF InExchange
<1>2. \A t \in Stream \ {s} : pc'[t] = pc[t] /\ at'[t] = at[t]
  BY DEF GetPooled, GetWaiting, GetRefused, Notified, WaitEnds, Return, GetBusy, GetIdle,
         GetQueue, GetDial, GetNone, WaitDelivered, WaitFailed, WaitTimeout, TakeStream,
         Release, ReleaseAbsent, ReleaseDead, ReleaseShared, ReleaseLast, Goto, callerVars,
         PipelineInv, IInv, TypeOK
<1>3. \A t \in Stream \ {s} : phase'[t] = phase[t]
  BY DEF GetPooled, GetWaiting, GetRefused, Notified, WaitEnds, Return, NextPhase,
         exchangeVars, PipelineInv, PipelineTypeOK
<1>4. UNCHANGED <<nextQid, queue, wire, qid, mailbox>>
  BY DEF GetPooled, GetWaiting, GetRefused, Notified, WaitEnds, Return, exchangeVars,
         pconnVars
<1>5. UNCHANGED answer
  BY DEF GetPooled, GetWaiting, GetRefused, Notified, WaitEnds, Return, exchangeVars
<1> QED
  BY <1>1, <1>2, <1>3, <1>4, <1>5, ExchangesUntouched DEF InExchange

(* addQueueC: the assigned qid was never used on this connection.          *)
LEMMA AddQueueExchange ==
    ASSUME PipelineInv, NEW s \in Stream, AddQueue(s)
    PROVE  ExchangeInv'
<1>1. PICK c \in Conn : c = at[s] /\ pc[s] = "picked"
  BY DEF AddQueue, OpenStream, PipelineInv, IInv, Lifecycle, TypeOK
<1>2. ~InExchange(s) /\ phase[s] = "get" /\ UNCHANGED <<at, wire, mailbox, answer>>
      /\ \A t \in Stream \ {s} : pc'[t] = pc[t] /\ phase'[t] = phase[t]
  BY DEF AddQueue, OpenStream, InExchange, NextPhase, PipelineInv, PipelineTypeOK, IInv, TypeOK
<1>3. pc'[s] = "open"
  BY DEF AddQueue, OpenStream, PipelineInv, IInv, TypeOK
<1>4. CASE ~HasQid(c)
  <2>1. UNCHANGED <<nextQid, queue, qid>> /\ phase'[s] = "lost"
    BY <1>1, <1>4 DEF AddQueue, NextPhase, PipelineInv, PipelineTypeOK
  <2> QED
    BY <1>2, <2>1, ExchangesUntouched DEF InExchange
<1>5. CASE HasQid(c)
  <2> DEFINE q == nextQid[c]
  <2>1. q \in Qid
    BY <1>5, PipelineAssumption DEF HasQid, PipelineInv, PipelineTypeOK, Qid
  <2>2. /\ qid' = [qid EXCEPT ![s] = q]
        /\ queue' = [queue EXCEPT ![c][q] = s]
        /\ nextQid' = [nextQid EXCEPT ![c] = q + 1]
        /\ phase' = [phase EXCEPT ![s] = "queued"]
    BY <1>1, <1>5 DEF AddQueue, Assigned, NextPhase
  <2>3. \A t \in Stream : queue[c][q] # t /\ <<q, t>> \notin wire[c]
    <3>1. q \in Nat /\ ~(q < nextQid[c])
      BY <2>1, PipelineAssumption DEF Qid
    <3> HIDE DEF q
    <3> QED
      BY <2>1, <3>1 DEF PipelineInv, ExchangeInv, Queues, Wires
  <2>4. /\ qid'[s] = q /\ phase'[s] = "queued" /\ nextQid'[c] = q + 1
        /\ queue'[c][q] = s
        /\ \A t \in Stream \ {s} : qid'[t] = qid[t]
        /\ \A d \in Conn \ {c} : nextQid'[d] = nextQid[d] /\ queue'[d] = queue[d]
        /\ \A r \in Qid \ {q} : queue'[c][r] = queue[c][r]
    BY <2>1, <2>2 DEF PipelineInv, PipelineTypeOK
  <2> HIDE DEF q
  <2>5. Phases'
    <3> SUFFICES ASSUME NEW t \in Stream
                 PROVE  /\ InExchange(t)' =>
                             (pc[t] = "open" /\ qid[t] \in Qid /\ queue[at[t]][qid[t]] = t)'
                        /\ ~InExchange(t)' => qid'[t] = NoQid /\ mailbox'[t] = None
      BY DEF Phases
    <3>1. CASE t = s
      BY <1>1, <1>2, <1>3, <2>1, <2>4, <3>1 DEF InExchange
    <3>2. CASE t # s /\ InExchange(t)
      <4>1. /\ pc[t] = "open" /\ qid[t] \in Qid /\ queue[at[t]][qid[t]] = t
            /\ at[t] \in Conn
        BY <3>2, ExchangesOnConn
      <4>2. at[t] = c => qid[t] # q
        BY <2>3, <4>1
      <4> QED
        BY <1>2, <2>4, <3>2, <4>1, <4>2 DEF InExchange
    <3>3. CASE t # s /\ ~InExchange(t)
      BY <1>2, <2>4, <3>3 DEF InExchange, PipelineInv, ExchangeInv, Phases
    <3> QED
      BY <3>1, <3>2, <3>3
  <2>6. Queues'
    <3> SUFFICES ASSUME NEW d \in Conn, NEW r \in Qid, NEW t \in Stream, queue'[d][r] = t
                 PROVE  r < nextQid'[d] /\ at'[t] = d /\ qid'[t] = r /\ InExchange(t)'
      BY DEF Queues
    <3>1. nextQid[d] \in Nat /\ r \in Nat /\ q \in Nat
      BY <2>1, PipelineAssumption DEF PipelineInv, PipelineTypeOK, Qid
    <3>2. CASE d = c /\ r = q
      BY <1>1, <1>2, <2>4, <3>1, <3>2 DEF InExchange
    <3>3. CASE d # c \/ r # q
      <4>1. queue[d][r] = t
        BY <2>4, <3>3
      <4>2. r < nextQid[d] /\ at[t] = d /\ qid[t] = r /\ InExchange(t)
        BY <4>1 DEF PipelineInv, ExchangeInv, Queues
      <4>3. r < nextQid'[d]
        BY <2>2, <2>4, <3>1, <4>2 DEF q
      <4> QED
        BY <1>2, <2>4, <4>2, <4>3 DEF InExchange
    <3> QED
      BY <3>2, <3>3
  <2>7. Wires'
    <3> SUFFICES ASSUME NEW d \in Conn, NEW r \in Qid, NEW t \in Stream, <<r, t>> \in wire[d]
                 PROVE  r < nextQid'[d] /\ queue'[d][r] \in {None, t}
      BY <1>2 DEF Wires
    <3>1. nextQid[d] \in Nat /\ r \in Nat
      BY PipelineAssumption DEF PipelineInv, PipelineTypeOK, Qid
    <3>2. r < nextQid[d] /\ queue[d][r] \in {None, t}
      BY DEF PipelineInv, ExchangeInv, Wires
    <3>3. d # c \/ r # q
      BY <2>3
    <3> QED
      BY <2>2, <2>4, <3>1, <3>2, <3>3 DEF q
  <2>8. OwnAnswer'
    BY <1>2 DEF OwnAnswer, PipelineInv, ExchangeInv
  <2> QED
    BY <2>5, <2>6, <2>7, <2>8 DEF ExchangeInv
<1> QED
  BY <1>4, <1>5

LEMMA WriteExchange ==
    ASSUME PipelineInv, NEW s \in Stream, Write(s)
    PROVE  ExchangeInv'
<1>1. InExchange(s) /\ phase' = [phase EXCEPT ![s] = "sent"]
  BY DEF Write, InExchange, NextPhase
<1>2. PICK c \in Conn : c = at[s]
  BY <1>1, ExchangesOnConn
<1>3. /\ qid[s] \in Qid /\ queue[c][qid[s]] = s /\ qid[s] < nextQid[c]
  BY <1>1, <1>2, ExchangesOnConn DEF PipelineInv, ExchangeInv, Queues
<1>4. wire' = [wire EXCEPT ![c] = @ \cup {<<qid[s], s>>}]
  BY <1>2 DEF Write
<1>5. UNCHANGED <<pc, at, nextQid, queue, qid, mailbox, answer>>
  BY DEF Write, callerVars
<1>6. \A t \in Stream : InExchange(t)' = InExchange(t)
  BY <1>1 DEF InExchange, PipelineInv, PipelineTypeOK
<1>7. Phases' /\ Queues' /\ OwnAnswer'
  BY <1>5, <1>6 DEF Phases, Queues, OwnAnswer, PipelineInv, ExchangeInv
<1>8. Wires'
  <2> SUFFICES ASSUME NEW d \in Conn, NEW q \in Qid, NEW t \in Stream, <<q, t>> \in wire'[d]
               PROVE  q < nextQid[d] /\ queue[d][q] \in {None, t}
    BY <1>5 DEF Wires
  <2>1. <<q, t>> \in wire[d] \/ (d = c /\ q = qid[s] /\ t = s)
    BY <1>4 DEF PipelineInv, PipelineTypeOK
  <2> QED
    BY <1>3, <2>1 DEF PipelineInv, ExchangeInv, Wires
<1> QED
  BY <1>7, <1>8 DEF ExchangeInv

(* deleteQueueC, at the end of every exchange: s answers for nobody else.  *)
LEMMA DeleteQueueExchange ==
    ASSUME PipelineInv, NEW s \in Stream, NEW shut, InExchange(s), DeleteQueue(s, shut),
           UNCHANGED <<pc, at, nextQid, wire>>,
           answer' \in {answer, [answer EXCEPT ![s] = s]},
           phase' \in {[phase EXCEPT ![s] = "lost"], [phase EXCEPT ![s] = "ended"]}
    PROVE  ExchangeInv'
<1>1. PICK c \in Conn, q \in Qid : c = at[s] /\ q = qid[s] /\ queue[c][q] = s
  BY ExchangesOnConn
<1>2. /\ queue' = [queue EXCEPT ![c][q] = None]
      /\ qid' = [qid EXCEPT ![s] = NoQid]
      /\ mailbox' = [mailbox EXCEPT ![s] = None]
  BY <1>1 DEF DeleteQueue
<1>3. /\ queue'[c][q] = None /\ qid'[s] = NoQid /\ mailbox'[s] = None /\ ~InExchange(s)'
      /\ \A t \in Stream \ {s} : /\ qid'[t] = qid[t] /\ mailbox'[t] = mailbox[t]
                                 /\ InExchange(t)' = InExchange(t)
      /\ \A d \in Conn, r \in Qid : d # c \/ r # q => queue'[d][r] = queue[d][r]
  BY <1>2 DEF InExchange, PipelineInv, PipelineTypeOK
<1>4. Phases'
  <2> SUFFICES ASSUME NEW t \in Stream
               PROVE  /\ InExchange(t)' =>
                           (pc[t] = "open" /\ qid[t] \in Qid /\ queue[at[t]][qid[t]] = t)'
                      /\ ~InExchange(t)' => qid'[t] = NoQid /\ mailbox'[t] = None
    BY DEF Phases
  <2>1. CASE t = s
    BY <1>3, <2>1
  <2>2. CASE t # s /\ InExchange(t)
    <3>1. /\ pc[t] = "open" /\ qid[t] \in Qid /\ queue[at[t]][qid[t]] = t /\ at[t] \in Conn
      BY <2>2, ExchangesOnConn
    <3>2. at[t] # c \/ qid[t] # q
      BY <1>1, <2>2, <3>1
    <3> QED
      BY <1>3, <2>2, <3>1, <3>2
  <2>3. CASE t # s /\ ~InExchange(t)
    BY <1>3, <2>3 DEF PipelineInv, ExchangeInv, Phases
  <2> QED
    BY <2>1, <2>2, <2>3
<1>5. Queues'
  <2> SUFFICES ASSUME NEW d \in Conn, NEW r \in Qid, NEW t \in Stream, queue'[d][r] = t
               PROVE  r < nextQid[d] /\ at[t] = d /\ qid'[t] = r /\ InExchange(t)'
    BY DEF Queues
  <2>1. d # c \/ r # q
    BY <1>3, PipelineAssumption
  <2>2. queue[d][r] = t
    BY <1>3, <2>1
  <2>3. r < nextQid[d] /\ at[t] = d /\ qid[t] = r /\ InExchange(t)
    BY <2>2 DEF PipelineInv, ExchangeInv, Queues
  <2>4. t # s
    BY <1>1, <2>1, <2>3
  <2> QED
    BY <1>3, <2>3, <2>4
<1>6. Wires'
  BY <1>3 DEF Wires, PipelineInv, ExchangeInv
<1>7. OwnAnswer'
  <2> SUFFICES ASSUME NEW t \in Stream
               PROVE  mailbox'[t] \in {None, t} /\ answer'[t] \in {None, t}
    BY DEF OwnAnswer
  <2>1. mailbox[t] \in {None, t} /\ answer[t] \in {None, t}
    BY DEF PipelineInv, ExchangeInv, OwnAnswer
  <2> QED
    BY <1>2, <2>1 DEF PipelineInv, PipelineTypeOK
<1> QED
  BY <1>4, <1>5, <1>6, <1>7 DEF ExchangeInv

LEMMA ExchangeEnds ==
    ASSUME PipelineInv, NEW s \in Stream, WriteFails(s) \/ Receive(s) \/ Abandon(s)
    PROVE  ExchangeInv'
<1>1. InExchange(s) /\ UNCHANGED <<pc, at, nextQid, wire>>
  BY DEF WriteFails, Receive, Abandon, InExchange, callerVars
<1>2. \E shut : DeleteQueue(s, shut)
  BY DEF WriteFails, Receive, Abandon
<1>3. answer' \in {answer, [answer EXCEPT ![s] = s]}
  <2>1. mailbox[s] \in {None, s}
    BY DEF PipelineInv, ExchangeInv, OwnAnswer
  <2> QED
    BY <2>1 DEF WriteFails, Receive, Abandon
<1>4. phase' \in {[phase EXCEPT ![s] = "lost"], [phase EXCEPT ![s] = "ended"]}
  BY DEF WriteFails, Receive, Abandon, NextPhase
<1> QED
  BY <1>1, <1>2, <1>3, <1>4, DeleteQueueExchange

(* readLoop: whoever is registered under the qid of a response asked for   *)
(* it.                                                                     *)
LEMMA RespondExchange ==
    ASSUME PipelineInv, NEW c \in Conn, Respond(c)
    PROVE  ExchangeInv'
<1>1. PICK m \in wire[c] :
        /\ queue[c][m[1]] # None
        /\ mailbox' = [mailbox EXCEPT ![queue[c][m[1]]] = m[2]]
  BY DEF Respond
<1>2. PICK q \in Qid, u \in Stream : m = <<q, u>>
  BY DEF PipelineInv, PipelineTypeOK
<1>3. queue[c][q] = u
  BY <1>1, <1>2 DEF PipelineInv, ExchangeInv, Wires
<1>4. mailbox' = [mailbox EXCEPT ![u] = u] /\ InExchange(u)
  BY <1>1, <1>2, <1>3 DEF PipelineInv, ExchangeInv, Queues
<1>5. UNCHANGED <<pc, at, nextQid, queue, wire, phase, qid, answer>>
  BY DEF Respond, callerVars, pconnVars
<1>6. Queues' /\ Wires'
  BY <1>5 DEF Queues, Wires, InExchange, PipelineInv, ExchangeInv
<1>7. Phases'
  BY <1>4, <1>5 DEF Phases, InExchange, PipelineInv, ExchangeInv, PipelineTypeOK
<1>8. OwnAnswer'
  BY <1>4, <1>5 DEF OwnAnswer, PipelineInv, ExchangeInv, PipelineTypeOK
<1> QED
  BY <1>6, <1>7, <1>8 DEF ExchangeInv

(* newPipelineConn: nobody exchanges on a connection being dialled.        *)
LEMMA DialledExchange ==
    ASSUME PipelineInv, NEW c \in Conn, Dialled(c)
    PROVE  ExchangeInv'
<1>1. dialCall[c] # "delivered"
  BY DEF Dialled, DialReturn, PipelineInv, IInv, Lifecycle
<1>2. \A s \in Stream : InExchange(s) => at[s] # c /\ at[s] \in Conn
  <2> SUFFICES ASSUME NEW s \in Stream, InExchange(s)
               PROVE  at[s] # c /\ at[s] \in Conn
    OBVIOUS
  <2>1. at[s] \in Conn /\ pc[s] = "open"
    BY ExchangesOnConn
  <2>2. dialCall[at[s]] = "delivered"
    BY <2>1 DEF PipelineInv, IInv, Lifecycle
  <2> QED
    BY <1>1, <2>1, <2>2
<1>3. UNCHANGED <<pc, at, phase, qid, mailbox, answer>>
  BY DEF Dialled, DialReturn, exchangeVars, callerVars
<1>4. /\ \A d \in Conn \ {c} : /\ queue'[d] = queue[d] /\ wire'[d] = wire[d]
                               /\ nextQid'[d] = nextQid[d]
      /\ \A q \in Qid : queue'[c][q] = None
      /\ wire'[c] = {}
  BY DEF Dialled, PipelineInv, PipelineTypeOK
<1>5. Phases'
  BY <1>2, <1>3, <1>4 DEF Phases, InExchange, PipelineInv, ExchangeInv
<1>6. Queues'
  BY <1>3, <1>4, PipelineAssumption DEF Queues, InExchange, PipelineInv, ExchangeInv
<1>7. Wires'
  BY <1>4 DEF Wires, PipelineInv, ExchangeInv
<1>8. OwnAnswer'
  BY <1>3 DEF OwnAnswer, PipelineInv, ExchangeInv
<1> QED
  BY <1>5, <1>6, <1>7, <1>8 DEF ExchangeInv

LEMMA PipelineExchange ==
    ASSUME PipelineInv, [PipelineNext]_tvars
    PROVE  ExchangeInv'
<1>1. ASSUME NEW s \in Stream, CallerStep(s)
      PROVE  ExchangeInv'
  BY <1>1, CallerMovesExchange, AddQueueExchange, WriteExchange, ExchangeEnds DEF CallerStep
<1>2. ASSUME NEW c \in Conn, Respond(c) \/ Dialled(c)
      PROVE  ExchangeInv'
  BY <1>2, RespondExchange, DialledExchange
<1>3. CASE PoolSide \/ UNCHANGED tvars
  <2>1. UNCHANGED <<pconnVars, exchangeVars, pc, at>>
    BY <1>3 DEF PoolSide, DialDiscard, DialCommit, CloseDoomed, ConnDies, Close, callerVars,
                tvars, vars
  <2> QED
    BY <2>1, ExchangesUntouched DEF pconnVars, exchangeVars, InExchange
<1> QED
  BY <1>1, <1>2, <1>3 DEF PipelineNext

-----------------------------------------------------------------------------
(* Types, and what a connection owes to the pool.                          *)

LEMMA PipelineTypes ==
    ASSUME PipelineInv, [PipelineNext]_tvars
    PROVE  PipelineTypeOK'
<1> USE DEF PipelineInv
<1>1. TypeOK'
  BY PipelinePool DEF IInv
<1>2. MaxQid \in Nat /\ NoQid \in 0..NoQid /\ 0 \in 0..MaxQid /\ 0 \in 0..MaxQid + 1
  BY PipelineAssumption DEF NoQid
<1>3. isTCP' \in BOOLEAN
  BY DEF PipelineNext, CallerStep, GetPooled, GetWaiting, GetRefused, Notified, WaitEnds,
         AddQueue, Write, WriteFails, Receive, Abandon, Return, Respond, Dialled, PoolSide,
         pconnVars, tvars, PipelineTypeOK
<1>4. ASSUME NEW s \in Stream, CallerStep(s)
      PROVE  /\ nextQid' \in [Conn -> 0..MaxQid + 1]
             /\ connReserved' \in [Conn -> 0..MaxQid]
             /\ queue' \in [Conn -> [Qid -> Stream \cup {None}]]
             /\ wire' \in [Conn -> SUBSET (Qid \X Stream)]
             /\ qid' \in [Stream -> 0..NoQid]
  <2>1. CASE GetPooled(s) \/ Notified(s)
    <3>1. connReserved' \in [Conn -> 0..MaxQid]
      <4>1. \A c \in Conn : nextQid[c] + connReserved[c] < MaxQid
              => connReserved[c] + 1 \in 0..MaxQid
        BY <1>2 DEF PipelineTypeOK
      <4> QED
        BY <2>1, <4>1 DEF GetPooled, Notified, Reserve, PipelineTypeOK
    <3> QED
      BY <2>1, <3>1 DEF GetPooled, Notified, PipelineTypeOK
  <2>2. CASE GetWaiting(s) \/ GetRefused(s) \/ WaitEnds(s) \/ Return(s)
    BY <2>2 DEF GetWaiting, GetRefused, WaitEnds, Return, pconnVars, exchangeVars,
                PipelineTypeOK
  <2>3. CASE AddQueue(s)
    <3>1. PICK c \in Conn : c = at[s]
      BY <2>3 DEF AddQueue, OpenStream, IInv, Lifecycle, TypeOK
    <3>2. connReserved' \in [Conn -> 0..MaxQid]
      <4>1. \A n \in 0..MaxQid : n > 0 => n - 1 \in 0..MaxQid
        BY <1>2
      <4> QED
        BY <1>2, <2>3, <3>1, <4>1 DEF AddQueue, FreeReservation, PipelineTypeOK
    <3>3. CASE HasQid(c)
      <4>1. nextQid[c] \in Qid /\ nextQid[c] \in 0..NoQid /\ nextQid[c] + 1 \in 0..MaxQid + 1
        BY <1>2, <3>3 DEF HasQid, PipelineTypeOK, Qid, NoQid
      <4>2. /\ qid' = [qid EXCEPT ![s] = nextQid[c]]
            /\ queue' = [queue EXCEPT ![c][nextQid[c]] = s]
            /\ nextQid' = [nextQid EXCEPT ![c] = @ + 1]
            /\ wire' = wire
        BY <2>3, <3>1, <3>3 DEF AddQueue, Assigned
      <4> QED
        BY <3>2, <4>1, <4>2 DEF PipelineTypeOK
    <3>4. CASE ~HasQid(c)
      <4>1. UNCHANGED <<nextQid, queue, wire, qid>>
        BY <2>3, <3>1, <3>4 DEF AddQueue
      <4> QED
        BY <3>2, <4>1 DEF PipelineTypeOK
    <3> QED
      BY <3>3, <3>4
  <2>4. CASE Write(s)
    <3>1. qid[s] \in Qid
      BY <2>4, ExchangesOnConn DEF Write, InExchange
    <3>2. <<qid[s], s>> \in Qid \X Stream
      BY <3>1
    <3> DEFINE m == <<qid[s], s>>
    <3>3. wire' = [wire EXCEPT ![at[s]] = @ \cup {m}]
      BY <2>4 DEF Write
    <3> HIDE DEF m
    <3>4. wire' \in [Conn -> SUBSET (Qid \X Stream)]
      BY <3>2, <3>3 DEF PipelineTypeOK, m
    <3> QED
      BY <2>4, <3>4 DEF Write, PipelineTypeOK
  <2>5. CASE WriteFails(s) \/ Receive(s) \/ Abandon(s)
    <3>1. \E shut : DeleteQueue(s, shut)
      BY <2>5 DEF WriteFails, Receive, Abandon
    <3>2. /\ queue' = [queue EXCEPT ![at[s]][qid[s]] = None]
          /\ qid' = [qid EXCEPT ![s] = NoQid]
          /\ UNCHANGED <<nextQid, connReserved, wire>>
      BY <2>5, <3>1 DEF DeleteQueue, WriteFails, Receive, Abandon
    <3> QED
      BY <1>2, <3>2 DEF PipelineTypeOK
  <2> QED
    BY <1>4, <2>1, <2>2, <2>3, <2>4, <2>5 DEF CallerStep
<1>5. ASSUME NEW c \in Conn, Respond(c) \/ Dialled(c)
      PROVE  /\ nextQid' \in [Conn -> 0..MaxQid + 1]
             /\ connReserved' \in [Conn -> 0..MaxQid]
             /\ queue' \in [Conn -> [Qid -> Stream \cup {None}]]
             /\ wire' \in [Conn -> SUBSET (Qid \X Stream)]
             /\ qid' \in [Stream -> 0..NoQid]
  <2>1. CASE Respond(c)
    BY <2>1 DEF Respond, pconnVars, PipelineTypeOK
  <2>2. CASE Dialled(c)
    BY <1>2, <2>2 DEF Dialled, exchangeVars, PipelineTypeOK
  <2> QED
    BY <1>5, <2>1, <2>2
<1>6. ASSUME NEW s \in Stream, CallerStep(s)
      PROVE  /\ phase' \in [Stream -> Phase]
             /\ newConn' \in [Stream -> BOOLEAN]
             /\ retry' \in [Stream -> 0..MaxRetry]
  <2>1. phase' \in [Stream -> Phase]
    BY <1>6 DEF CallerStep, GetPooled, GetWaiting, GetRefused, Notified, WaitEnds, AddQueue,
                Write, WriteFails, Receive, Abandon, Return, NextPhase, exchangeVars,
                PipelineTypeOK, Phase
  <2>2. newConn' \in [Stream -> BOOLEAN]
    BY <1>6 DEF CallerStep, GetPooled, GetWaiting, GetRefused, Notified, WaitEnds, AddQueue,
                Write, WriteFails, Receive, Abandon, Return, exchangeVars, PipelineTypeOK
  <2>3. retry' \in [Stream -> 0..MaxRetry]
    <3>1. retry' = retry \/ (retry[s] < MaxRetry /\ retry' = [retry EXCEPT ![s] = @ + 1])
      BY <1>6 DEF CallerStep, GetPooled, GetWaiting, GetRefused, Notified, WaitEnds, AddQueue,
                  Write, WriteFails, Receive, Abandon, Return, exchangeVars
    <3> QED
      BY <3>1, PipelineAssumption DEF PipelineTypeOK
  <2> QED
    BY <2>1, <2>2, <2>3
<1>7. ASSUME NEW c \in Conn, Respond(c) \/ Dialled(c)
      PROVE  UNCHANGED <<phase, newConn, retry>>
  BY <1>7 DEF Respond, Dialled, exchangeVars
<1>8. CASE PoolSide \/ UNCHANGED tvars
  <2>1. UNCHANGED <<pconnVars, exchangeVars>>
    BY <1>8 DEF PoolSide, tvars
  <2> QED
    BY <1>1, <1>3, <2>1 DEF pconnVars, exchangeVars, PipelineTypeOK
<1>9. mailbox' \in [Stream -> Stream \cup {None}] /\ answer' \in [Stream -> Stream \cup {None}]
  <2>1. ASSUME NEW s \in Stream, CallerStep(s)
        PROVE  /\ mailbox' \in {mailbox, [mailbox EXCEPT ![s] = None]}
               /\ answer' \in {answer, [answer EXCEPT ![s] = mailbox[s]]}
    BY <2>1 DEF CallerStep, GetPooled, GetWaiting, GetRefused, Notified, WaitEnds, AddQueue,
                Write, WriteFails, Receive, Abandon, Return, DeleteQueue, exchangeVars
  <2>2. ASSUME NEW c \in Conn, Respond(c)
        PROVE  /\ \E s \in Stream, u \in Stream : mailbox' = [mailbox EXCEPT ![s] = u]
               /\ answer' = answer
    <3>1. PICK m \in wire[c] :
            /\ queue[c][m[1]] # None
            /\ mailbox' = [mailbox EXCEPT ![queue[c][m[1]]] = m[2]]
      BY <2>2 DEF Respond
    <3>2. m \in Qid \X Stream
      BY DEF PipelineTypeOK
    <3>3. m[1] \in Qid /\ m[2] \in Stream
      BY <3>2
    <3>4. queue[c][m[1]] \in Stream
      BY <3>1, <3>3 DEF PipelineTypeOK
    <3> QED
      BY <2>2, <3>1, <3>3, <3>4 DEF Respond
  <2>3. ASSUME NEW c \in Conn, Dialled(c)
        PROVE  UNCHANGED <<mailbox, answer>>
    BY <2>3 DEF Dialled, exchangeVars
  <2>4. CASE PoolSide \/ UNCHANGED tvars
    BY <2>4 DEF PoolSide, tvars, exchangeVars, PipelineTypeOK
  <2> QED
    BY <2>1, <2>2, <2>3, <2>4 DEF PipelineNext, PipelineTypeOK
<1> QED
  BY <1>1, <1>3, <1>4, <1>5, <1>6, <1>7, <1>8, <1>9 DEF PipelineNext, PipelineTypeOK

LEMMA MovesReached ==
    ASSUME IInv, Reached, PoolMoves
    PROVE  Reached'
<1> USE DEF IInv
<1>1. ASSUME NEW s \in Stream, GetDial(s)
      PROVE  Reached'
  <2>1. PICK c \in Conn :
          /\ dialCall' = [dialCall EXCEPT ![c] = "pending"]
          /\ dialer' = [dialer EXCEPT ![c] = "running"]
          /\ connState' = [connState EXCEPT ![c] = "none"]
    BY <1>1 DEF GetDial
  <2> QED
    BY <2>1 DEF Reached, TypeOK
<1>2. ASSUME NEW s \in Stream, StreamStep(s), ~GetDial(s)
      PROVE  Reached'
  <2>1. UNCHANGED <<dialCall, dialer, connState>>
    BY <1>2 DEF StreamStep, GetBusy, GetIdle, GetQueue, GetNone, WaitDelivered, WaitFailed,
                WaitTimeout, OpenStream, Release, ReleaseAbsent, ReleaseDead, ReleaseShared,
                ReleaseLast, MarkDead, dialVars, connVars
  <2> QED
    BY <2>1 DEF Reached
<1>3. ASSUME NEW c \in Conn, DialReturn(c) \/ DialDiscard(c) \/ DialCommit(c)
      PROVE  Reached'
  BY <1>3 DEF DialReturn, DialDiscard, Discarded, DialCommit, poolVars, connVars, Reached, TypeOK
<1>4. ASSUME NEW c \in Conn, CloseDoomed(c) \/ ConnDies(c)
      PROVE  Reached'
  BY <1>4 DEF CloseDoomed, ConnDies, dialVars, Reached, TypeOK
<1>5. CASE Close
  BY <1>5 DEF Close, CancelDials, Reached, TypeOK
<1>6. CASE UNCHANGED <<poolVars, dialVars, connVars, callerVars>>
  BY <1>6 DEF dialVars, connVars, Reached
<1> QED
  BY <1>1, <1>2, <1>3, <1>4, <1>5, <1>6 DEF PoolMoves, ConnStep

LEMMA PipelineBooked ==
    ASSUME PipelineInv, [PipelineNext]_tvars
    PROVE  Booked'
<1> USE DEF PipelineInv
<1>1. /\ \A c \in Conn : reserved[c] \in Nat /\ connReserved[c] \in Nat
      /\ reserved \in [Conn -> Nat] /\ connReserved \in [Conn -> 0..MaxQid]
  BY PipelineAssumption DEF PipelineTypeOK, TypeOK
<1>2. ASSUME NEW s \in Stream, GetPooled(s) \/ Notified(s)
      PROVE  Booked'
  <2>1. PICK c \in Conn : reserved' \in {reserved, [reserved EXCEPT ![c] = @ + 1]}
    <3>1. CASE GetPooled(s)
      BY <3>1 DEF GetPooled, GetBusy, GetIdle, TakeStream, Picks, Roomy, Live, IInv, TypeOK
    <3>2. CASE Notified(s)
      BY <3>2 DEF Notified, WaitDelivered, IInv, Lifecycle, TypeOK
    <3> QED
      BY <1>2, <3>1, <3>2
  <2>2. \A d \in Conn : reserved'[d] \in {reserved[d], reserved[d] + 1}
    BY <1>1, <2>1
  <2>3. \A d \in Conn :
          \/ connReserved'[d] = connReserved[d]
          \/ reserved'[d] > reserved[d] /\ connReserved'[d] = connReserved[d] + 1
    BY <1>2 DEF GetPooled, Notified, Reserve
  <2>4. \A d \in Conn : connReserved[d] <= reserved[d]
    BY DEF Booked
  <2> QED
    BY <1>1, <2>2, <2>3, <2>4 DEF Booked
<1>3. ASSUME NEW s \in Stream, AddQueue(s)
      PROVE  Booked'
  <2>1. PICK c \in Conn : c = at[s]
    BY <1>3 DEF AddQueue, OpenStream, IInv, Lifecycle, TypeOK
  <2>2. /\ reserved' = [reserved EXCEPT ![c] = IF @ > 0 THEN @ - 1 ELSE 0]
        /\ connReserved' = [connReserved EXCEPT ![c] = IF @ > 0 THEN @ - 1 ELSE 0]
    BY <1>3, <2>1 DEF AddQueue, OpenStream, FreeReservation
  <2> QED
    BY <1>1, <2>2 DEF Booked
<1>4. ASSUME NEW s \in Stream, GetWaiting(s)
      PROVE  Booked'
  <2>1. CASE GetQueue(s)
    BY <1>4, <2>1 DEF GetWaiting, GetQueue, connVars, pconnVars, Booked
  <2>2. CASE GetDial(s)
    <3>1. PICK c \in Conn : Fresh(c) /\ reserved' = [reserved EXCEPT ![c] = 0]
      BY <2>2 DEF GetDial
    <3>2. Reservers(c) = {}
      BY <3>1 DEF Fresh, Users, Reservers
    <3>3. reserved[c] = 0
      BY <3>2, FS_EmptySet DEF ReserveMatches
    <3>4. reserved' = reserved
      BY <1>1, <3>1, <3>3
    <3> QED
      BY <1>4, <3>4 DEF GetWaiting, pconnVars, Booked
  <2> QED
    BY <1>4, <2>1, <2>2 DEF GetWaiting
<1>5. ASSUME NEW s \in Stream,
             \/ GetRefused(s) \/ WaitEnds(s) \/ Write(s) \/ WriteFails(s)
             \/ Receive(s) \/ Abandon(s) \/ Return(s)
      PROVE  Booked'
  <2>1. UNCHANGED <<reserved, connReserved>>
    BY <1>5 DEF GetRefused, GetNone, WaitEnds, WaitFailed, WaitTimeout, Write, WriteFails,
                Receive, Abandon, Return, Release, ReleaseAbsent, ReleaseDead, ReleaseShared,
                ReleaseLast, connVars, pconnVars
  <2> QED
    BY <2>1 DEF Booked
<1>6. ASSUME NEW c \in Conn, Respond(c) \/ Dialled(c)
      PROVE  Booked'
  BY <1>1, <1>6 DEF Respond, Dialled, DialReturn, connVars, pconnVars, Booked
<1>7. CASE PoolSide \/ UNCHANGED tvars
  <2>1. UNCHANGED <<reserved, connReserved>>
    BY <1>7 DEF PoolSide, DialDiscard, DialCommit, CloseDoomed, ConnDies, Close, connVars,
                pconnVars, tvars, vars
  <2> QED
    BY <2>1 DEF Booked
<1> QED
  BY <1>2, <1>3, <1>4, <1>5, <1>6, <1>7 DEF PipelineNext, CallerStep

(* The last qid of a connection: whoever gives back the last registration  *)
(* of an exhausted connection closes it.                                   *)
LEMMA PipelineExhausted ==
    ASSUME PipelineInv, [PipelineNext]_tvars
    PROVE  ExhaustedCloses'
<1> USE DEF PipelineInv
<1>1. ASSUME UNCHANGED <<nextQid, queue>>,
             \A c \in Conn : connState'[c] = "open" => connState[c] = "open"
      PROVE  ExhaustedCloses'
  BY <1>1 DEF ExhaustedCloses, Registered
<1>2. ASSUME NEW s \in Stream,
             \/ GetPooled(s) \/ GetWaiting(s) \/ GetRefused(s) \/ Notified(s)
             \/ WaitEnds(s) \/ Write(s) \/ Return(s)
      PROVE  ExhaustedCloses'
  <2>1. UNCHANGED <<nextQid, queue>>
    BY <1>2 DEF GetPooled, GetWaiting, GetRefused, Notified, WaitEnds, Write, Return,
                pconnVars
  <2>2. CASE GetWaiting(s)
    <3>1. \A c \in Conn : connState'[c] = "open" => connState[c] = "open"
      BY <2>2 DEF GetWaiting, GetQueue, GetDial, connVars, IInv, TypeOK
    <3> QED
      BY <1>1, <2>1, <3>1
  <2>3. CASE ~GetWaiting(s)
    <3>1. UNCHANGED connState
      BY <1>2, <2>3
         DEF GetPooled, GetBusy, GetIdle, GetRefused, GetNone, Notified, WaitDelivered,
             WaitEnds, WaitFailed, WaitTimeout, Write, Return, Release, ReleaseAbsent,
             ReleaseDead, ReleaseShared, ReleaseLast, connVars
    <3> QED
      BY <1>1, <2>1, <3>1
  <2> QED
    BY <2>2, <2>3
<1>3. ASSUME NEW s \in Stream, AddQueue(s)
      PROVE  ExhaustedCloses'
  <2>1. PICK c \in Conn : c = at[s] /\ connState' = connState
    BY <1>3 DEF AddQueue, OpenStream, IInv, Lifecycle, TypeOK
  <2>2. CASE ~HasQid(c)
    BY <1>1, <1>3, <2>1, <2>2 DEF AddQueue
  <2>3. CASE HasQid(c)
    <3> DEFINE q == nextQid[c]
    <3>1. q \in Qid
      BY <2>3, PipelineAssumption DEF HasQid, PipelineTypeOK, Qid
    <3>2. /\ queue' = [queue EXCEPT ![c][q] = s]
          /\ nextQid' = [nextQid EXCEPT ![c] = q + 1]
      BY <1>3, <2>1, <2>3 DEF AddQueue, Assigned
    <3> HIDE DEF q
    <3>3. q \in Registered(c)'
      BY <3>1, <3>2, PipelineAssumption DEF Registered, PipelineTypeOK
    <3>4. \A d \in Conn \ {c} : nextQid'[d] = nextQid[d] /\ queue'[d] = queue[d]
      BY <3>2 DEF PipelineTypeOK
    <3> QED
      BY <2>1, <3>3, <3>4 DEF ExhaustedCloses, Registered
  <2> QED
    BY <2>2, <2>3
<1>4. ASSUME NEW s \in Stream, NEW shut, InExchange(s), DeleteQueue(s, shut),
             UNCHANGED nextQid
      PROVE  ExhaustedCloses'
  <2>1. PICK c \in Conn, q \in Qid : c = at[s] /\ q = qid[s]
    BY <1>4, ExchangesOnConn
  <2>2. /\ queue' = [queue EXCEPT ![c][q] = None]
        /\ connState' = IF shut \/ Exhausted(s)
                        THEN [connState EXCEPT ![c] = "closed"] ELSE connState
    BY <1>4, <2>1 DEF DeleteQueue
  <2> SUFFICES ASSUME NEW d \in Conn, connState'[d] = "open", nextQid[d] > MaxQid
               PROVE  Registered(d)' # {}
    BY <1>4 DEF ExhaustedCloses
  <2>3. connState[d] = "open" /\ (d = c => ~Exhausted(s))
    BY <2>2 DEF IInv, TypeOK
  <2>4. Registered(d) # {}
    BY <2>3 DEF ExhaustedCloses
  <2>5. CASE d # c
    <3>1. queue'[d] = queue[d]
      BY <2>2, <2>5 DEF PipelineTypeOK
    <3> QED
      BY <2>4, <3>1 DEF Registered
  <2>6. CASE d = c
    <3>1. Registered(c) # {q}
      BY <2>1, <2>3, <2>6 DEF Exhausted
    <3>2. PICK r \in Registered(c) : r # q
      BY <2>4, <2>6, <3>1
    <3>3. r \in Qid /\ queue'[c][r] = queue[c][r]
      BY <2>2, <3>2 DEF PipelineTypeOK, Registered
    <3> QED
      BY <2>6, <3>2, <3>3 DEF Registered
  <2> QED
    BY <2>5, <2>6
<1>5. ASSUME NEW s \in Stream, WriteFails(s) \/ Receive(s) \/ Abandon(s)
      PROVE  ExhaustedCloses'
  <2>1. InExchange(s) /\ UNCHANGED nextQid
    BY <1>5 DEF WriteFails, Receive, Abandon, InExchange
  <2>2. PICK shut : DeleteQueue(s, shut)
    BY <1>5 DEF WriteFails, Receive, Abandon
  <2> QED
    BY <1>4, <2>1, <2>2
<1>6. ASSUME NEW c \in Conn, Respond(c)
      PROVE  ExhaustedCloses'
  BY <1>1, <1>6 DEF Respond, connVars, pconnVars
<1>7. ASSUME NEW c \in Conn, Dialled(c)
      PROVE  ExhaustedCloses'
  <2>1. \A d \in Conn \ {c} : /\ nextQid'[d] = nextQid[d] /\ queue'[d] = queue[d]
                              /\ connState'[d] = connState[d]
    BY <1>7 DEF Dialled, DialReturn, PipelineTypeOK, IInv, TypeOK
  <2>2. connState'[c] = "open" => nextQid'[c] = 0
    BY <1>7 DEF Dialled, PipelineTypeOK
  <2>3. ~(0 > MaxQid)
    BY PipelineAssumption
  <2> QED
    BY <2>1, <2>2, <2>3 DEF ExhaustedCloses, Registered
<1>8. CASE PoolSide \/ UNCHANGED tvars
  <2>1. UNCHANGED <<nextQid, queue>>
    BY <1>8 DEF PoolSide, pconnVars, tvars
  <2>2. \A c \in Conn : connState'[c] = "open" => connState[c] = "open"
    BY <1>8 DEF PoolSide, DialDiscard, Discarded, DialCommit, CloseDoomed, ConnDies, Close,
                connVars, tvars, vars, IInv, TypeOK
  <2> QED
    BY <1>1, <2>1, <2>2
<1> QED
  BY <1>2, <1>3, <1>5, <1>6, <1>7, <1>8 DEF PipelineNext, CallerStep

-----------------------------------------------------------------------------
LEMMA NextPipeline == PipelineInv /\ [PipelineNext]_tvars => PipelineInv'
<1> SUFFICES ASSUME PipelineInv, [PipelineNext]_tvars PROVE PipelineInv'
  OBVIOUS
<1>1. Reached'
  BY PipelineMoves, MovesReached DEF PipelineInv
<1> QED
  BY <1>1, PipelinePool, PipelineExchange, PipelineTypes, PipelineBooked, PipelineExhausted
     DEF PipelineInv

(* The invariant of the transport over its pool.                           *)
THEOREM PipelineInvariant == PipelineSpec => []PipelineInv
BY InitPipeline, NextPipeline, PTL DEF PipelineSpec

(* Types of the composition: query ids stay in range, counters positive.   *)
THEOREM PipelineTypeCorrect == PipelineSpec => []PipelineTypeOK
<1>1. PipelineInv => PipelineTypeOK
  BY DEF PipelineInv
<1> QED
  BY <1>1, PipelineInvariant, PTL

(* Late, repeated and reordered responses, retries and reconnections: a    *)
(* caller only ever gets the response to its own query.                    *)
THEOREM PipelineOwnAnswer == PipelineSpec => []OwnAnswer
<1>1. PipelineInv => OwnAnswer
  BY DEF PipelineInv, ExchangeInv
<1> QED
  BY <1>1, PipelineInvariant, PTL

(* An open connection without a qid left still carries a query.            *)
THEOREM PipelineExhaustedCloses == PipelineSpec => []ExhaustedCloses
<1>1. PipelineInv => ExhaustedCloses
  BY DEF PipelineInv
<1> QED
  BY <1>1, PipelineInvariant, PTL

(* pipelineConn keeps no reservation that nobody is going to use.          *)
THEOREM PipelineReservationsBacked == PipelineSpec => []ReservationsBacked
<1>1. PipelineInv => ReservationsBacked
  BY ReserversFinite DEF PipelineInv, Booked, ReserveMatches, ReservationsBacked
<1> QED
  BY <1>1, PipelineInvariant, PTL

(* The pool keeps its promises under this transport: the limits hold and   *)
(* no connection is forgotten when connections close themselves and        *)
(* Available is what pipelineConn computes.                                *)
THEOREM PipelineKeepsPool ==
    PipelineSpec => [](StreamAccounting /\ StreamLimit /\ ConnLimit /\ NoConnLeak)
<1> DEFINE Kept == StreamLimit /\ ConnLimit /\ NoConnLeak
<1>1. PipelineInit => Kept
  <2> SUFFICES ASSUME Init PROVE Kept
    BY DEF PipelineInit
  <2>1. StreamLimit
    BY NoUserAtFirst, FS_EmptySet, PoolAssumption DEF StreamLimit
  <2>2. ConnLimit
    BY FS_EmptySet, PoolAssumption DEF Init, ConnLimit
  <2>3. NoConnLeak
    BY DEF Init, NoConnLeak
  <2> QED
    BY <2>1, <2>2, <2>3
<1>2. PipelineInv /\ Kept /\ [PipelineNext]_tvars => Kept'
  BY PipelineMoves, MovesStreamLimit, MovesConnLimit, MovesNoConnLeak DEF PipelineInv
<1>3. PipelineInv /\ Kept => StreamAccounting /\ StreamLimit /\ ConnLimit /\ NoConnLeak
  BY DEF PipelineInv, IInv
<1> HIDE DEF Kept
<1> QED
  BY <1>1, <1>2, <1>3, PipelineInvariant, PTL DEF PipelineSpec

(* The pool under this transport still implements StreamPool.              *)
THEOREM PipelineKeepsPromise == PipelineSpec => ImplementsPool
<1>1. PipelineInv /\ [PipelineNext]_tvars => [Promise!PoolNext]_(Promise!poolVars)
  BY PipelineMoves, MovesPromise DEF PipelineInv, PromiseStep
<1>2. PipelineInit => Promise!PoolInit
  BY InitPromise DEF PipelineInit
<1> QED
  BY <1>1, <1>2, PipelineInvariant, PTL DEF PipelineSpec, ImplementsPool, Promise!PoolSpec
=============================================================================
