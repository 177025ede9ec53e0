----------------------------- MODULE BufferPool -----------------------------
(***************************************************************************)
(* src/internal/pool/bytespool.go: byte slices taken from and returned to  *)
(* pools of arrays, one pool per size class: powers of two up to 256, four *)
(* steps per power of two up to 1 GB.  A pool keeps only the pointer of an *)
(* array and rebuilds the slice with unsafe.Slice from the class alone, so *)
(* an array in the wrong class is memory nobody owns.                      *)
(***************************************************************************)
EXTENDS Integers, FiniteSets

CONSTANTS Sizes,   \* the sizes asked for
          MaxHeld, \* bound: buffers out at the same time
          SmallMax, LargeMax \* 1<<8 and 1<<30 in the code

ASSUME SizesAssumption == Sizes \subseteq Nat /\ SmallMax = 2^8 /\ LargeMax = 2^30

VARIABLES arrays,  \* the arrays resting in a pool: [class, real], real the bytes allocated
          held,    \* the buffers out: [len, cap, real]
          panicked \* release found a capacity that is not its class's

bufferVars == <<arrays, held, panicked>>

BufferInit == arrays = {} /\ held = {} /\ panicked = FALSE

(* bits.Len: the bits it takes to write n. *)
BitLen(n) == CHOOSE k \in 0..30 : 2^k > n /\ (k > 0 => 2^(k - 1) <= n)

(* lpIdx taking the step from size instead of size - 1. *)
ClassOfSize(size) ==
    LET k == BitLen(size - 1)
    IN  IF size <= SmallMax THEN <<"small", k>>
        ELSE <<"large", k - 9, (size \div 2^(k - 3)) % 4>>

(* spIdx and lpIdx: the class of a size. *)
Class(size) ==
    LET k == BitLen(size - 1)
    IN  IF size <= SmallMax THEN <<"small", k>>
        ELSE <<"large", k - 9, ((size - 1) \div 2^(k - 3)) % 4>>

(* spSize and lpSize: the bytes of the arrays of a class. *)
ClassSize(class) ==
    IF class[1] = "small" THEN 2^class[2]
    ELSE 2^(class[2] + 8) + (class[3] + 1) * 2^(class[2] + 6)

(* get: an array of the class when the pool has one, else a new one; nothing *)
(* is pooled below 1 byte and above 1 GB.                                    *)
Get(size) ==
    /\ Cardinality(held) < MaxHeld
    /\ IF size \notin 1..LargeMax
       THEN held' = held \cup {[len |-> size, cap |-> size, real |-> size]} /\ UNCHANGED arrays
       ELSE LET class == Class(size)
                New(real) == held \cup {[len |-> size, cap |-> ClassSize(class), real |-> real]}
            IN  \/ \E a \in arrays : /\ a.class = class
                                     /\ arrays' = arrays \ {a}
                                     /\ held' = New(a.real)
                \/ /\ \A a \in arrays : a.class # class
                   /\ held' = New(ClassSize(class)) /\ UNCHANGED arrays
    /\ UNCHANGED panicked

(* release: back to the pool of its capacity's class. *)
Release(b) ==
    /\ b \in held
    /\ held' = held \ {b}
    /\ IF b.cap \notin 1..LargeMax
       THEN UNCHANGED <<arrays, panicked>>
       ELSE LET class == Class(b.cap)
            IN  /\ panicked' = (b.cap # ClassSize(class))
                /\ arrays' = IF b.cap # ClassSize(class) THEN arrays
                             ELSE arrays \cup {[class |-> class, real |-> b.real]}

(* The garbage collector empties pools as it likes, and takes a buffer its  *)
(* holder forgets: two equal buffers count as one here.                     *)
Collected(a) ==
    /\ a \in arrays
    /\ arrays' = arrays \ {a}
    /\ UNCHANGED <<held, panicked>>

BufferStep ==
    /\ ~panicked
    /\ \/ \E size \in Sizes : Get(size)
       \/ \E b \in held : Release(b)
       \/ \E a \in arrays : Collected(a)

-----------------------------------------------------------------------------
(* A buffer always holds what was asked for inside memory it owns, and can  *)
(* always be returned: the class of a size, the size of that class and the  *)
(* class of that capacity must agree at every boundary of the classes, over *)
(* any sequence of gets and releases.                                       *)
BuffersFit ==
    /\ ~panicked
    /\ \A b \in held : b.len <= b.cap /\ b.cap <= b.real
=============================================================================
