------------------------------ MODULE ConnPool ------------------------------
(***************************************************************************)
(* The client connection pool of internal/connpool/pool.go.                *)
(*                                                                         *)
(* Callers ("streams") Get a connection, open a stream on it and Release   *)
(* it.  A connection and the dialingCall that produced it share one        *)
(* identity c \in Conn.  Every critical section of Pool.m is one action;   *)
(* what the code does after unlocking (closing trimmed connections,        *)
(* waiting for a dial, looking at a delivered connection) is a step of its *)
(* own.  A connection may die or change its Available status at any time,  *)
(* as the ConnStatus contract allows.                                      *)
(***************************************************************************)
EXTENDS Naturals, FiniteSets

CONSTANTS
    Conn,            \* identities of connections and of their dialing calls
    Stream,          \* callers of Get
    None,            \* the nil pointer
    MaxConn,         \* Opts.MaxConn, 0 means no limit
    MaxStream,       \* Pool.maxStream(), already defaulted
    RatioNum,        \* Pool.maxIdleBusyRatio() is RatioNum / RatioDen
    RatioDen,
    MaxSearchSteps   \* the maxSearchSteps of pickBusyConnLocked

ASSUME PoolAssumption ==
    /\ IsFiniteSet(Conn) /\ IsFiniteSet(Stream)
    /\ None \notin Conn
    /\ MaxConn \in Nat
    /\ MaxStream \in Nat \ {0}
    /\ RatioNum \in Nat \ {0}
    /\ RatioDen \in Nat \ {0}
    /\ MaxSearchSteps \in Nat

VARIABLES
    closed,          \* Pool.closed
    dialingCalls,    \* Pool.dialingCalls
    lastDialCall,    \* Pool.lastDialCall
    busyConns,       \* keys of Pool.busyConns
    idleConns,       \* keys of Pool.idleConns
    curStream,       \* streamStatus.curStream of each pooled connection
    dialCall,        \* what (dc.conn, dc.err) say of each dialing call
    streamQueue,     \* dialingCall.streamQueue
    dialer,          \* the goroutine dialingCall.dial of each call
    connState,       \* Closed of ConnStatus: "none" before the dial returns
    available,       \* Available of ConnStatus
    reserved,        \* Reserve() calls whose stream is not open yet
    doomed,          \* taken out of the pool (or Close()), conn.Close() to come
    pc,              \* where each caller stands
    at               \* the connection (or dialing call) a caller refers to

poolVars == <<closed, dialingCalls, lastDialCall, busyConns, idleConns, curStream>>
dialVars == <<dialCall, streamQueue, dialer>>
connVars == <<connState, reserved, doomed>>
callerVars == <<pc, at>>
vars == <<poolVars, dialVars, connVars, available, callerVars>>

DialCallState == {"none", "pending", "delivered", "failed", "cancelled"}
DialerState == {"none", "running", "conn", "err"}
ConnState == {"none", "open", "closed"}
CallerState == {"idle", "waiting", "picked", "open", "refused"}

(* No counter may go negative: each stays in Nat.                          *)
TypeOK ==
    /\ closed \in BOOLEAN
    /\ dialingCalls \subseteq Conn
    /\ lastDialCall \in Conn \cup {None}
    /\ busyConns \subseteq Conn
    /\ idleConns \subseteq Conn
    /\ curStream \in [Conn -> Nat]
    /\ dialCall \in [Conn -> DialCallState]
    /\ streamQueue \in [Conn -> Nat]
    /\ dialer \in [Conn -> DialerState]
    /\ connState \in [Conn -> ConnState]
    /\ available \in [Conn -> BOOLEAN]
    /\ reserved \in [Conn -> Nat]
    /\ doomed \subseteq Conn
    /\ pc \in [Stream -> CallerState]
    /\ at \in [Stream -> Conn \cup {None}]

Init ==
    /\ closed = FALSE
    /\ dialingCalls = {}
    /\ lastDialCall = None
    /\ busyConns = {}
    /\ idleConns = {}
    /\ curStream = [c \in Conn |-> 0]
    /\ dialCall = [c \in Conn |-> "none"]
    /\ streamQueue = [c \in Conn |-> 0]
    /\ dialer = [c \in Conn |-> "none"]
    /\ connState = [c \in Conn |-> "none"]
    /\ available = [c \in Conn |-> FALSE]
    /\ reserved = [c \in Conn |-> 0]
    /\ doomed = {}
    /\ pc = [s \in Stream |-> "idle"]
    /\ at = [s \in Stream |-> None]

-----------------------------------------------------------------------------
Dead(c) == connState[c] = "closed"

Users(c) == {s \in Stream : at[s] = c}

\* Those that have picked c and are yet to open their stream.
Reservers(c) == {s \in Stream : at[s] = c /\ pc[s] = "picked"}

\* An identity nothing refers to any more stands for a new pointer.
Fresh(c) ==
    /\ dialer[c] = "none"
    /\ connState[c] # "open"
    /\ c \notin dialingCalls \cup busyConns \cup idleConns \cup doomed
    /\ Users(c) = {}

Goto(s, state, c) ==
    /\ pc' = [pc EXCEPT ![s] = state]
    /\ at' = [at EXCEPT ![s] = c]

-----------------------------------------------------------------------------
(* Pool.Get.  Go's map iteration order is random: V is the set of busy     *)
(* connections that pickBusyConnLocked looks at before it stops.           *)

Live(V) == {c \in V : ~Dead(c)}

HasRoomOffByOne(c) == available[c] /\ curStream[c] <= MaxStream
HasRoom(c) == available[c] /\ curStream[c] < MaxStream

Roomy(V) == {c \in Live(V) : HasRoom(c)}

BusyVisit(V) ==
    /\ V \subseteq busyConns
    /\ Cardinality(Live(V)) <= MaxSearchSteps + 1
    /\ \/ V = busyConns
       \/ /\ Cardinality(Live(V)) = MaxSearchSteps + 1
          /\ \E c \in busyConns \ V : ~Dead(c)
       \/ \E c \in Roomy(V) : curStream[c] = MaxStream - 1

\* The fullest connection that still has room.
Picks(V) == {c \in Roomy(V) : \A d \in Roomy(V) : curStream[d] <= curStream[c]}

SweptBusy(V) == busyConns \ {c \in V : Dead(c)}

TakeStreamUnreserved(s, c) ==
    /\ curStream' = [curStream EXCEPT ![c] = @ + 1]
    /\ UNCHANGED reserved
    /\ Goto(s, "picked", c)

TakeStream(s, c) ==
    /\ curStream' = [curStream EXCEPT ![c] = @ + 1]
    /\ reserved' = [reserved EXCEPT ![c] = @ + 1]
    /\ Goto(s, "picked", c)

GetBusy(s) ==
    /\ pc[s] = "idle" /\ ~closed
    /\ \E V \in SUBSET busyConns :
        /\ BusyVisit(V)
        /\ \E c \in Picks(V) : TakeStream(s, c)
        /\ busyConns' = SweptBusy(V)
    /\ UNCHANGED <<closed, dialingCalls, lastDialCall, idleConns, dialVars,
                   connState, doomed>>

IdleUsable(c) == ~Dead(c) /\ available[c]

\* W: the dead idle connections met, and deleted, before a usable one.
GetIdle(s) ==
    /\ pc[s] = "idle" /\ ~closed
    /\ \E V \in SUBSET busyConns, c \in idleConns, W \in SUBSET idleConns :
        /\ BusyVisit(V) /\ Picks(V) = {}
        /\ IdleUsable(c)
        /\ \A d \in W : Dead(d)
        /\ TakeStream(s, c)
        /\ busyConns' = SweptBusy(V) \cup {c}
        /\ idleConns' = idleConns \ (W \cup {c})
    /\ UNCHANGED <<closed, dialingCalls, lastDialCall, dialVars, connState, doomed>>

\* Both maps were searched in vain, their dead entries are deleted.
NothingToReuse ==
    /\ \A c \in idleConns : ~IdleUsable(c)
    /\ \E V \in SUBSET busyConns :
        /\ BusyVisit(V) /\ Picks(V) = {}
        /\ busyConns' = SweptBusy(V)
    /\ idleConns' = Live(idleConns)

CanQueue == lastDialCall # None /\ streamQueue[lastDialCall] < MaxStream

\* Join the latest dial.
GetQueue(s) ==
    /\ pc[s] = "idle" /\ ~closed
    /\ NothingToReuse
    /\ CanQueue
    /\ streamQueue' = [streamQueue EXCEPT ![lastDialCall] = @ + 1]
    /\ Goto(s, "waiting", lastDialCall)
    /\ UNCHANGED <<closed, dialingCalls, lastDialCall, curStream, dialCall, dialer,
                   connVars>>

DialAllowedIgnoringBusy(busy, idle) ==
    \/ MaxConn = 0
    \/ Cardinality(dialingCalls) + Cardinality(idle) < MaxConn

DialAllowed(busy, idle) ==
    \/ MaxConn = 0
    \/ Cardinality(dialingCalls) + Cardinality(busy) + Cardinality(idle) < MaxConn

GetDial(s) ==
    /\ pc[s] = "idle" /\ ~closed
    /\ NothingToReuse
    /\ ~CanQueue
    /\ DialAllowed(busyConns', idleConns')
    /\ \E c \in {d \in Conn : Fresh(d)} :
        /\ dialingCalls' = dialingCalls \cup {c}
        /\ lastDialCall' = c
        /\ streamQueue' = [streamQueue EXCEPT ![c] = 1]
        /\ dialCall' = [dialCall EXCEPT ![c] = "pending"]
        /\ dialer' = [dialer EXCEPT ![c] = "running"]
        /\ connState' = [connState EXCEPT ![c] = "none"]
        /\ reserved' = [reserved EXCEPT ![c] = 0]
        /\ Goto(s, "waiting", c)
    /\ UNCHANGED <<closed, curStream, doomed>>

\* ErrNoConnAvailable; the searches may have deleted dead entries.
GetNone(s) ==
    /\ pc[s] = "idle" /\ ~closed
    /\ NothingToReuse
    /\ ~CanQueue
    /\ ~DialAllowed(busyConns', idleConns')
    /\ UNCHANGED <<closed, dialingCalls, lastDialCall, curStream, dialVars, connVars,
                   callerVars>>

-----------------------------------------------------------------------------
(* Get, after waitConn: the dial delivered (conn or error), or ctx ended.  *)
(* A caller whose ctx ended after the delivery goes on like one that was   *)
(* notified.                                                               *)

WaitDelivered(s) ==
    LET c == at[s] IN
    /\ pc[s] = "waiting" /\ dialCall[c] = "delivered"
    /\ \/ /\ available[c]
          /\ reserved' = [reserved EXCEPT ![c] = @ + 1]
          /\ Goto(s, "picked", c)
       \/ /\ ~available[c]
          /\ Goto(s, "refused", c)
          /\ UNCHANGED reserved
    /\ UNCHANGED <<poolVars, dialVars, connState, doomed>>

WaitFailed(s) ==
    /\ pc[s] = "waiting" /\ dialCall[at[s]] \in {"failed", "cancelled"}
    /\ Goto(s, "idle", None)
    /\ UNCHANGED <<poolVars, dialVars, connVars>>

WaitTimeoutStillQueued(s) ==
    /\ pc[s] = "waiting" /\ dialCall[at[s]] = "pending"
    /\ Goto(s, "idle", None)
    /\ UNCHANGED <<poolVars, dialVars, connVars>>

WaitTimeout(s) ==
    /\ pc[s] = "waiting" /\ dialCall[at[s]] = "pending"
    /\ streamQueue' = [streamQueue EXCEPT ![at[s]] = @ - 1]
    /\ Goto(s, "idle", None)
    /\ UNCHANGED <<poolVars, dialCall, dialer, connVars>>

-----------------------------------------------------------------------------
(* dialingCall.dial: Opts.Dial returns, then the result is committed.      *)

DialReturn(c) ==
    /\ dialer[c] = "running"
    /\ \/ /\ dialer' = [dialer EXCEPT ![c] = "conn"]
          /\ connState' = [connState EXCEPT ![c] = "open"]
       \/ /\ dialer' = [dialer EXCEPT ![c] = "err"]
          /\ UNCHANGED connState
    /\ UNCHANGED <<poolVars, dialCall, streamQueue, reserved, doomed, callerVars>>

DiscardedUnclosed(c) == connState
Discarded(c) ==
    IF dialer[c] = "conn" THEN [connState EXCEPT ![c] = "closed"] ELSE connState

\* The pool was closed meanwhile: the new connection is closed at once.
DialDiscard(c) ==
    /\ dialer[c] \in {"conn", "err"}
    /\ closed \/ dialCall[c] = "cancelled"
    /\ dialer' = [dialer EXCEPT ![c] = "none"]
    /\ connState' = Discarded(c)
    /\ UNCHANGED <<poolVars, dialCall, streamQueue, reserved, doomed, callerVars>>

DialCommit(c) ==
    /\ dialer[c] \in {"conn", "err"}
    /\ ~closed /\ dialCall[c] # "cancelled"
    /\ dialer' = [dialer EXCEPT ![c] = "none"]
    /\ lastDialCall' = IF lastDialCall = c THEN None ELSE lastDialCall
    /\ dialingCalls' = dialingCalls \ {c}
    /\ \/ /\ dialer[c] = "err"
          /\ dialCall' = [dialCall EXCEPT ![c] = "failed"]
          /\ UNCHANGED <<busyConns, idleConns, curStream>>
       \/ /\ dialer[c] = "conn"
          /\ dialCall' = [dialCall EXCEPT ![c] = "delivered"]
          /\ curStream' = [curStream EXCEPT ![c] = streamQueue[c]]
          /\ IF streamQueue[c] = 0
             THEN idleConns' = idleConns \cup {c} /\ UNCHANGED busyConns
             ELSE busyConns' = busyConns \cup {c} /\ UNCHANGED idleConns
    /\ UNCHANGED <<closed, streamQueue, connVars, callerVars>>

-----------------------------------------------------------------------------
(* The caller opens its stream (which uses up its reservation), then       *)
(* Pool.Release.                                                           *)

OpenStream(s) ==
    /\ pc[s] = "picked"
    /\ reserved' = [reserved EXCEPT ![at[s]] = IF @ > 0 THEN @ - 1 ELSE 0]
    /\ pc' = [pc EXCEPT ![s] = "open"]
    /\ UNCHANGED <<poolVars, dialVars, connState, doomed, at>>

Max1(n) == IF n > 1 THEN n ELSE 1

MaxIdleAllowed(busy) == Max1((Cardinality(busy) * RatioNum) \div RatioDen)

\* The idle connections to trim when c turned idle: other ones before c.
Trims(c, idle, busy) ==
    LET allowed == MaxIdleAllowed(busy) IN
    IF Cardinality(idle) <= allowed THEN {{}}
    ELSE {X \in SUBSET idle :
            /\ Cardinality(X) = Cardinality(idle) - allowed
            /\ c \in X => X = idle}

ReleaseAbsent(s) ==
    /\ pc[s] \in {"open", "refused"} /\ at[s] \notin busyConns
    /\ Goto(s, "idle", None)
    /\ UNCHANGED <<poolVars, dialVars, connVars>>

ReleaseDead(s) ==
    /\ pc[s] \in {"open", "refused"} /\ at[s] \in busyConns /\ Dead(at[s])
    /\ busyConns' = busyConns \ {at[s]}
    /\ Goto(s, "idle", None)
    /\ UNCHANGED <<closed, dialingCalls, lastDialCall, idleConns, curStream, dialVars,
                   connVars>>

LastStreamOffByOne(c) == curStream[c] <= 2
LastStream(c) == curStream[c] = 1

ReleaseShared(s) ==
    /\ pc[s] \in {"open", "refused"} /\ at[s] \in busyConns /\ ~Dead(at[s])
    /\ ~LastStream(at[s])
    /\ curStream' = [curStream EXCEPT ![at[s]] = @ - 1]
    /\ Goto(s, "idle", None)
    /\ UNCHANGED <<closed, dialingCalls, lastDialCall, busyConns, idleConns, dialVars,
                   connVars>>

ReleaseLast(s) ==
    LET c == at[s]
        idle == idleConns \cup {c} IN
    /\ pc[s] \in {"open", "refused"} /\ c \in busyConns /\ ~Dead(c)
    /\ LastStream(c)
    /\ curStream' = [curStream EXCEPT ![c] = @ - 1]
    /\ busyConns' = busyConns \ {c}
    /\ \E X \in Trims(c, idle, busyConns \ {c}) :
        /\ idleConns' = idle \ X
        /\ doomed' = doomed \cup X
    /\ Goto(s, "idle", None)
    /\ UNCHANGED <<closed, dialingCalls, lastDialCall, dialVars, connState, reserved>>

Release(s) == ReleaseAbsent(s) \/ ReleaseDead(s) \/ ReleaseShared(s) \/ ReleaseLast(s)

\* Exported, although no caller in the repository uses it yet.
MarkDead(s) ==
    /\ pc[s] = "open"
    /\ idleConns' = idleConns \ {at[s]}
    /\ busyConns' = busyConns \ {at[s]}
    /\ doomed' = doomed \cup {at[s]}
    /\ Goto(s, "idle", None)
    /\ UNCHANGED <<closed, dialingCalls, lastDialCall, curStream, dialVars, connState,
                   reserved>>

CancelNoCall == dialCall
CancelDials ==
    [c \in Conn |-> IF c \in dialingCalls /\ dialCall[c] = "pending"
                    THEN "cancelled" ELSE dialCall[c]]

PooledIdleOnly == idleConns
Pooled == busyConns \cup idleConns

\* Pool.Close under the lock; the connections are closed after it.
Close ==
    /\ ~closed
    /\ closed' = TRUE
    /\ dialCall' = CancelDials
    /\ doomed' = doomed \cup Pooled
    /\ UNCHANGED <<dialingCalls, lastDialCall, busyConns, idleConns, curStream,
                   streamQueue, dialer, connState, reserved, callerVars>>

CloseDoomed(c) ==
    /\ c \in doomed
    /\ doomed' = doomed \ {c}
    /\ connState' = [connState EXCEPT ![c] = "closed"]
    /\ UNCHANGED <<poolVars, dialVars, reserved, callerVars>>

-----------------------------------------------------------------------------
(* The connections themselves.                                             *)

ConnDies(c) ==
    /\ connState[c] = "open"
    /\ connState' = [connState EXCEPT ![c] = "closed"]
    /\ UNCHANGED <<poolVars, dialVars, reserved, doomed, callerVars>>

AvailableChanges(c) ==
    /\ connState[c] = "open"
    /\ available' = [available EXCEPT ![c] = ~@]
    /\ UNCHANGED <<poolVars, dialVars, connVars, callerVars>>

-----------------------------------------------------------------------------
StreamStep(s) ==
    \/ GetBusy(s) \/ GetIdle(s) \/ GetQueue(s) \/ GetDial(s) \/ GetNone(s)
    \/ WaitDelivered(s) \/ WaitFailed(s) \/ WaitTimeout(s)
    \/ OpenStream(s) \/ Release(s) \/ MarkDead(s)

ConnStep(c) ==
    DialReturn(c) \/ DialDiscard(c) \/ DialCommit(c) \/ CloseDoomed(c) \/ ConnDies(c)

Next ==
    \/ (\E s \in Stream : StreamStep(s)) /\ UNCHANGED available
    \/ (\E c \in Conn : ConnStep(c)) /\ UNCHANGED available
    \/ Close /\ UNCHANGED available
    \/ \E c \in Conn : AvailableChanges(c)

Spec == Init /\ [][Next]_vars

(* Dial is bounded by its own timeout and every goroutine that has         *)
(* something to do runs.  Nothing is assumed of the callers' contexts.     *)
Fairness ==
    /\ \A c \in Conn :
        /\ WF_vars(DialReturn(c) /\ UNCHANGED available)
        /\ WF_vars((DialDiscard(c) \/ DialCommit(c)) /\ UNCHANGED available)
        /\ WF_vars(CloseDoomed(c) /\ UNCHANGED available)
    /\ \A s \in Stream :
        WF_vars((WaitDelivered(s) \/ WaitFailed(s)) /\ UNCHANGED available)

FairSpec == Spec /\ Fairness

-----------------------------------------------------------------------------
(* Release and Get keep, per connection, exactly the number of callers     *)
(* that refer to it: a lost or doubled count would strand a connection in  *)
(* busyConns or let Release trim one that is in use.                       *)
StreamAccounting ==
    /\ \A c \in busyConns : curStream[c] = Cardinality(Users(c))
    /\ \A c \in idleConns : curStream[c] = 0 /\ Users(c) = {}
    /\ \A c \in dialingCalls :
        dialCall[c] = "pending" => streamQueue[c] = Cardinality(Users(c))

(* MaxStream: never more callers on a connection than it may carry,        *)
(* however dials, queueing and busy picks interleave.                      *)
StreamLimit == \A c \in Conn : Cardinality(Users(c)) <= MaxStream

(* MaxConn counts the dialing calls, the busy and the idle connections,    *)
(* and one connection is in one of the three maps only.                    *)
ConnLimit ==
    /\ dialingCalls \cap (busyConns \cup idleConns) = {}
    /\ busyConns \cap idleConns = {}
    /\ MaxConn > 0 =>
        Cardinality(dialingCalls) + Cardinality(busyConns) + Cardinality(idleConns)
            <= MaxConn

(* Every open connection is in a map of the pool, in the hands of its      *)
(* dial goroutine or about to be closed: no path forgets one.              *)
NoConnLeak ==
    \A c \in Conn : connState[c] = "open" =>
        \/ dialer[c] = "conn"
        \/ c \in doomed
        \/ ~closed /\ c \in busyConns \cup idleConns

(* A connection's outstanding Reserve() calls are the callers that got it  *)
(* and have not opened their stream: every path of Get reserves once.      *)
ReserveMatches ==
    \A c \in Conn :
        reserved[c] = Cardinality(Reservers(c))

(* Release closes surplus idle connections only when no caller uses them.  *)
TrimSparesStreams ==
    [][\A c \in doomed' \ doomed :
          \/ \A s \in Users(c) : at'[s] # c
          \/ closed' # closed
          \/ \E s \in Stream : MarkDead(s)]_vars

(* A caller that waits for a dial is answered, even if its own context     *)
(* never ends: by the connection, by the error or by Close.                *)
WaiterAnswered == \A s \in Stream : pc[s] = "waiting" ~> pc[s] # "waiting"

-----------------------------------------------------------------------------
(* What a connection is to callers; after Close, nothing is offered.       *)
Offer(c) ==
    CASE ~closed /\ c \in dialingCalls -> "dialing"
      [] ~closed /\ c \in Pooled /\ ~Dead(c) -> "usable"
      [] OTHER -> "out"

Promise == INSTANCE StreamPool WITH offer <- [c \in Conn |-> Offer(c)],
                                    seat <- at, shut <- closed

(* Whatever the pool does to its three maps and counters, callers see one  *)
(* that hands out seats within its limits and takes no connection from     *)
(* under them (pool.go, Get, Release, MarkDead and Close).                 *)
ImplementsPool == Promise!PoolSpec

-----------------------------------------------------------------------------
(* The comment of Opts.MaxIdleBusyRatio: the max ratio of idle to busy     *)
(* connections, one idle connection always being allowed.                  *)
IdleRatioRespected == Cardinality(idleConns) <= MaxIdleAllowed(busyConns)
=============================================================================
