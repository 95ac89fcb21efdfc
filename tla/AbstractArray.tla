--------------------------- MODULE AbstractArray ---------------------------
(***************************************************************************)
(* What an array with mirrored host and device storage promises its users: *)
(* an array has ONE logical content.  A write through a handle changes it, *)
(* a read through a handle returns it, resizing keeps it, assignment       *)
(* duplicates it, and it does not matter on which side any of this         *)
(* happens.  GPUArray.tla is shown to implement this specification.        *)
(*                                                                         *)
(* The steps are written as relations between val and val', so that TLC    *)
(* evaluates them on the pairs of states the implementation produces.      *)
(***************************************************************************)
EXTENDS Integers

CONSTANTS
    Array,          \* the array objects
    Array1D,        \* those without rows
    Array2D,        \* those with rows and columns
    Value,          \* element values
    Zero            \* the value of a cleared element

VARIABLES
    val,            \* val[a]: the logical content, a function on 0 .. num[a]-1
    num,            \* num[a]: number of elements; 0 is a NULL array
    pitch,          \* pitch[a]: elements from one row to the next (2-D arrays)
    height,         \* height[a]: number of rows (2-D arrays)
    handles,        \* live handles: which array, on which side, for which access mode
    got             \* the element the last read returned

shape == <<num, pitch, height>>
vars  == <<val, shape, handles, got>>

Mode     == {"read", "readwrite", "overwrite"}
Location == {"host", "device"}
Handle   == [array : Array, location : Location, mode : Mode]

Contents(n) == [0 .. (n - 1) -> Value]

\* Only array a changes, and its new content fits its new size.
Replaced(a) ==
    /\ val'[a] \in Contents(num'[a])
    /\ num'[a] \in Nat /\ pitch'[a] \in Nat /\ height'[a] \in Nat
    /\ val'    = [val    EXCEPT ![a] = val'[a]]
    /\ num'    = [num    EXCEPT ![a] = num'[a]]
    /\ pitch'  = [pitch  EXCEPT ![a] = pitch'[a]]
    /\ height' = [height EXCEPT ![a] = height'[a]]

Init ==
    /\ num = [a \in Array |-> 0]
    /\ pitch \in [Array -> Nat]
    /\ height \in [Array -> Nat]
    /\ val = [a \in Array |-> [i \in 0 .. -1 |-> Zero]]
    /\ handles = {}
    /\ got = Zero

(* A handle that announces it will overwrite everything gives up the       *)
(* content: until the client writes, any content may be found.  Acquiring  *)
(* any other handle leaves the content alone.                              *)
Acquire(h) ==
    /\ handles' = handles \union {h}
    /\ IF h.mode = "overwrite"
       THEN Replaced(h.array)
       ELSE UNCHANGED val
    /\ UNCHANGED <<shape, got>>

Release(h) ==
    /\ h \in handles
    /\ handles' = handles \ {h}
    /\ UNCHANGED <<val, shape, got>>

Read(h) ==
    /\ h \in handles
    /\ \E i \in 0 .. (num[h.array] - 1) : got' = val[h.array][i]
    /\ UNCHANGED <<val, shape, handles>>

Write(h) ==
    /\ h \in handles /\ h.mode # "read"
    /\ \E i \in 0 .. (num[h.array] - 1), v \in Value :
          val' = [val EXCEPT ![h.array] = [@ EXCEPT ![i] = v]]
    /\ UNCHANGED <<shape, handles, got>>

\* A freshly constructed array is zero.
Construct(a) ==
    /\ Replaced(a)
    /\ \A i \in 0 .. (num'[a] - 1) : val'[a][i] = Zero
    /\ UNCHANGED <<handles, got>>

(* A NULL array gets unspecified content; any other keeps its elements and *)
(* a new element is zero.                                                  *)
Resize(a) ==
    /\ Replaced(a)
    /\ num[a] # 0 => \A i \in 0 .. (num'[a] - 1) :
                        val'[a][i] = IF i < num[a] THEN val[a][i] ELSE Zero
    /\ UNCHANGED <<handles, got>>

\* The same for rows and columns: an element is found under its (row, column).
Resize2D(a) ==
    /\ Replaced(a)
    /\ num[a] # 0 => \A r \in 0 .. (height'[a] - 1), s \in 0 .. (pitch'[a] - 1) :
                        val'[a][r * pitch'[a] + s] =
                           IF r < height[a] /\ s < pitch[a] THEN val[a][r * pitch[a] + s]
                                                            ELSE Zero
    /\ UNCHANGED <<handles, got>>

Assign(a, b) ==
    /\ val'    = [val    EXCEPT ![a] = val[b]]
    /\ num'    = [num    EXCEPT ![a] = num[b]]
    /\ pitch'  = [pitch  EXCEPT ![a] = pitch[b]]
    /\ height' = [height EXCEPT ![a] = height[b]]
    /\ UNCHANGED <<handles, got>>

Swap(a, b) ==
    /\ val'    = [val    EXCEPT ![a] = val[b],    ![b] = val[a]]
    /\ num'    = [num    EXCEPT ![a] = num[b],    ![b] = num[a]]
    /\ pitch'  = [pitch  EXCEPT ![a] = pitch[b],  ![b] = pitch[a]]
    /\ height' = [height EXCEPT ![a] = height[b], ![b] = height[a]]
    /\ UNCHANGED <<handles, got>>

Next ==
    \/ \E h \in Handle : Acquire(h) \/ Release(h) \/ Read(h) \/ Write(h)
    \/ \E a \in Array : Construct(a)
    \/ \E a \in Array1D : Resize(a)
    \/ \E a \in Array2D : Resize2D(a)
    \/ \E a, b \in Array : Assign(a, b) \/ Swap(a, b)

Spec == Init /\ [][Next]_vars
=============================================================================
