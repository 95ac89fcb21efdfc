------------------------------ MODULE GPUArray ------------------------------
(***************************************************************************)
(* hoomd/GPUArray.h: arrays mirrored in host and device memory.            *)
(*                                                                         *)
(* acquire() tracks in m_data_location which copy is valid and copies      *)
(* between host and device only when the requested side does not hold the  *)
(* data.  The module models the constructors, copy and move assignment,    *)
(* swap, the one- and two-dimensional resize and acquire/release for the   *)
(* default (not mapped) memory; mapped memory and asynchronous copies are  *)
(* left out.                                                               *)
(*                                                                         *)
(* acquire() returns an ArrayHandleDispatch BY VALUE, built from a         *)
(* temporary GPUArrayDispatch.  The temporary is sliced and its destructor *)
(* calls release(), so m_acquired is false again when acquire() returns:   *)
(* a live handle is not recorded in the array.                             *)
(***************************************************************************)
EXTENDS Integers

CONSTANTS
    Array1D,        \* arrays used through the one-dimensional interface
    Array2D,        \* arrays used through the two-dimensional interface
    CUDAEnabled,    \* the arrays with a GPU (m_exec_conf->isCUDAEnabled())
    Value,          \* element values
    Zero,           \* what memset(0) / hipMemset(0) leave in an element
    MaxElements,    \* bound: largest number of elements (1-D) or width and height (2-D)
    Align           \* row alignment in elements (16 in the code)

Array == Array1D \union Array2D

ASSUME GPUArrayAssumption ==
    /\ Array1D \intersect Array2D = {}
    /\ Zero \in Value
    /\ MaxElements \in Nat \ {0}
    /\ Align \in Nat \ {0}

VARIABLES
    h_data,             \* h_data[a]: host memory, a function on 0 .. m_num_elements[a]-1
    d_data,             \* d_data[a]: device memory
    m_num_elements,     \* 0: nothing allocated (isNull)
    m_pitch,
    m_height,
    m_data_location,    \* "host", "device" or "hostdevice"
    m_acquired,
    handles,            \* live ArrayHandle objects
    got                 \* what the last read through a handle returned

memory == <<h_data, d_data, m_num_elements, m_pitch, m_height>>
vars   == <<memory, m_data_location, m_acquired, handles, got>>

Mode         == {"read", "readwrite", "overwrite"}
Location     == {"host", "device"}
DataLocation == {"host", "device", "hostdevice"}
Handle       == [array : Array, location : Location, mode : Mode]

Contents(n) == [0 .. (n - 1) -> Value]
Cleared(n)  == [i \in 0 .. (n - 1) |-> Zero]
Null        == Cleared(0)

isNull(a) == m_num_elements[a] = 0

\* Device memory exists only with a GPU.
OnDevice(a, c) == IF a \in CUDAEnabled THEN c ELSE Null

\* Arrays of one simulation have the same execution configuration, which
\* assignment and swap take along.
OneConfiguration(a, b) == a \in CUDAEnabled <=> b \in CUDAEnabled

(* (width + (16 - (width & 15))): the row pitch of a two-dimensional array *)
PitchOf(width) == width + (Align - (width % Align))

\* The discipline of the callers, who keep every ArrayHandle in a scope of its
\* own: no other handle of the array is alive.
Unused(a) == \A h \in handles : h.array # a

-----------------------------------------------------------------------------
Init ==
    /\ h_data = [a \in Array |-> Null]
    /\ d_data = [a \in Array |-> Null]
    /\ m_num_elements = [a \in Array |-> 0]
    /\ m_pitch = [a \in Array |-> 0]
    /\ m_height = [a \in Array |-> 0]
    /\ m_data_location = [a \in Array |-> "host"]
    /\ m_acquired = [a \in Array |-> FALSE]
    /\ handles = {}
    /\ got = Zero

\* Array a gets new memory of a new shape; the rest of the memory stays.
Reallocated(a, h, d, n, p, k) ==
    /\ h_data' = [h_data EXCEPT ![a] = h]
    /\ d_data' = [d_data EXCEPT ![a] = d]
    /\ m_num_elements' = [m_num_elements EXCEPT ![a] = n]
    /\ m_pitch' = [m_pitch EXCEPT ![a] = p]
    /\ m_height' = [m_height EXCEPT ![a] = k]

(* a = GPUArray<T>(n, exec_conf): allocate() and memclear() both copies,   *)
(* then move assignment, which also takes over location and m_acquired.    *)
ConstructShape(a, n, p, k) ==
    /\ Unused(a)
    /\ Reallocated(a, Cleared(n), OnDevice(a, Cleared(n)), n, p, k)
    /\ m_data_location' = [m_data_location EXCEPT ![a] = "host"]
    /\ m_acquired' = [m_acquired EXCEPT ![a] = FALSE]
    /\ UNCHANGED <<handles, got>>

Construct(a) == \E n \in 0 .. MaxElements : ConstructShape(a, n, n, 1)

Construct2D(a) ==
    \E width, k \in 1 .. MaxElements :
        ConstructShape(a, PitchOf(width) * k, PitchOf(width), k)

-----------------------------------------------------------------------------
\* Mutant: a host or device acquire for writing leaves the other copy marked valid.
LocationAfter_WriteKeepsBoth(a, loc, mode) ==
    IF m_data_location[a] = loc THEN loc
    ELSE IF mode # "overwrite" THEN "hostdevice" ELSE loc

\* Where the valid data is after a successful acquire at side loc in mode.
LocationAfter(a, loc, mode) ==
    IF m_data_location[a] = loc THEN loc
    ELSE IF mode = "read" THEN "hostdevice" ELSE loc

\* The copy is needed when only the other side holds the data and it will be read.
MustCopy(a, loc, mode) ==
    /\ m_data_location[a] \notin {loc, "hostdevice"}
    /\ mode # "overwrite"

memcpyDeviceToHost(a) == h_data' = [h_data EXCEPT ![a] = d_data[a]] /\ UNCHANGED d_data
memcpyHostToDevice(a) == d_data' = [d_data EXCEPT ![a] = h_data[a]] /\ UNCHANGED h_data

(* A successful acquire: the dispatch temporary has released the array     *)
(* when acquire() returns, m_acquired ends as it began.                    *)
acquire(h) ==
    LET a == h.array IN
    /\ Unused(a)
    /\ ~m_acquired[a]
    /\ h.location = "device" => (isNull(a) \/ a \in CUDAEnabled)
    /\ IF isNull(a)
       THEN UNCHANGED <<h_data, d_data, m_data_location>>
       ELSE /\ m_data_location' =
                  [m_data_location EXCEPT ![a] = LocationAfter(a, h.location, h.mode)]
            /\ IF ~MustCopy(a, h.location, h.mode)
               THEN UNCHANGED <<h_data, d_data>>
               ELSE IF h.location = "host" THEN memcpyDeviceToHost(a)
                                           ELSE memcpyHostToDevice(a)
    /\ handles' = handles \union {h}
    /\ UNCHANGED <<m_num_elements, m_pitch, m_height, m_acquired, got>>

(* Without a GPU a device acquire throws, after m_acquired was set: no     *)
(* dispatch object exists that would release the array again.              *)
acquireThrows(h) ==
    /\ Unused(h.array)
    /\ ~m_acquired[h.array]
    /\ h.location = "device" /\ ~isNull(h.array) /\ h.array \notin CUDAEnabled
    /\ m_acquired' = [m_acquired EXCEPT ![h.array] = TRUE]
    /\ UNCHANGED <<memory, m_data_location, handles, got>>

(* The client's handle goes out of scope; ~ArrayHandleDispatch of the      *)
(* sliced object does nothing to the array.                                *)
Release(h) ==
    /\ h \in handles
    /\ handles' = handles \ {h}
    /\ UNCHANGED <<memory, m_data_location, m_acquired, got>>

\* The client reads or writes one element through the pointer of its handle.
Read(h) ==
    /\ h \in handles
    /\ \E i \in 0 .. (m_num_elements[h.array] - 1) :
          got' = IF h.location = "host" THEN h_data[h.array][i] ELSE d_data[h.array][i]
    /\ UNCHANGED <<memory, m_data_location, m_acquired, handles>>

Write(h) ==
    /\ h \in handles /\ h.mode # "read"
    /\ \E i \in 0 .. (m_num_elements[h.array] - 1), v \in Value :
          IF h.location = "host"
          THEN /\ h_data' = [h_data EXCEPT ![h.array] = [@ EXCEPT ![i] = v]]
               /\ UNCHANGED d_data
          ELSE /\ d_data' = [d_data EXCEPT ![h.array] = [@ EXCEPT ![i] = v]]
               /\ UNCHANGED h_data
    /\ UNCHANGED <<m_num_elements, m_pitch, m_height, m_data_location, m_acquired,
                   handles, got>>

-----------------------------------------------------------------------------
\* Mutant: copied as one block, as if the pitch had not changed.
Resized2D_OneBlock(c, p, k, q, m) ==
    [i \in 0 .. (q * m - 1) |-> IF i < p * k THEN c[i] ELSE Zero]

\* Cleared memory with the common prefix copied over.
Resized(c, n, m) == [i \in 0 .. (m - 1) |-> IF i < n THEN c[i] ELSE Zero]

\* Cleared memory with the common rows and columns copied over.
Resized2D(c, p, k, q, m) ==
    [i \in 0 .. (q * m - 1) |->
        IF i \div q < k /\ i % q < p THEN c[(i \div q) * p + (i % q)] ELSE Zero]

\* The device copies are resized in the same way, where there is a GPU.
resizeDeviceArray(a, n) == OnDevice(a, Resized(d_data[a], m_num_elements[a], n))

resize2DDeviceArray(a, q, k) ==
    OnDevice(a, Resized2D(d_data[a], m_pitch[a], m_height[a], q, k))

(* allocate() without memclear(): whatever the memory held before; host    *)
(* and device need not agree.                                              *)
AllocatedUncleared(a, n, p, k) ==
    \E h \in Contents(n), d \in Contents(n) : Reallocated(a, h, OnDevice(a, d), n, p, k)

(* resize(num_elements): a NULL array is only allocated, m_pitch and       *)
(* m_height keep their values.                                             *)
resize(a) ==
    \E n \in 1 .. MaxElements :
        /\ Unused(a) /\ ~m_acquired[a]
        /\ IF isNull(a)
           THEN AllocatedUncleared(a, n, m_pitch[a], m_height[a])
           ELSE Reallocated(a, Resized(h_data[a], m_num_elements[a], n),
                            resizeDeviceArray(a, n), n, n, m_height[a])
        /\ UNCHANGED <<m_data_location, m_acquired, handles, got>>

resize2D(a) ==
    \E width, k \in 1 .. MaxElements :
        LET q == PitchOf(width) IN
        /\ Unused(a) /\ ~m_acquired[a]
        /\ IF isNull(a)
           THEN AllocatedUncleared(a, q * k, q, k)
           ELSE Reallocated(a, Resized2D(h_data[a], m_pitch[a], m_height[a], q, k),
                            resize2DDeviceArray(a, q, k), q * k, q, k)
        /\ UNCHANGED <<m_data_location, m_acquired, handles, got>>

(* a = b: new memory for a, cleared, then filled on the host from a host   *)
(* read handle of b, which moves b's data to the host if needed.  The      *)
(* assignment is noexcept: it needs b's acquire to succeed.                *)
Assign(a, b) ==
    /\ a # b /\ OneConfiguration(a, b) /\ Unused(a) /\ Unused(b)
    /\ ~m_acquired[a] /\ ~m_acquired[b]
    /\ LET n == m_num_elements[b]
           source == IF m_data_location[b] = "device" THEN d_data[b] ELSE h_data[b]
       IN  /\ h_data' = [h_data EXCEPT ![a] = source, ![b] = source]
           /\ d_data' = [d_data EXCEPT ![a] = OnDevice(a, Cleared(n))]
           /\ m_num_elements' = [m_num_elements EXCEPT ![a] = n]
           /\ m_pitch' = [m_pitch EXCEPT ![a] = m_pitch[b]]
           /\ m_height' = [m_height EXCEPT ![a] = m_height[b]]
           /\ m_data_location' =
                 [m_data_location EXCEPT
                    ![a] = "host",
                    ![b] = IF isNull(b) \/ @ # "device" THEN @ ELSE "hostdevice"]
    /\ UNCHANGED <<m_acquired, handles, got>>

Exchanged(f, a, b) == [f EXCEPT ![a] = f[b], ![b] = f[a]]

swap(a, b) ==
    /\ a # b /\ OneConfiguration(a, b) /\ Unused(a) /\ Unused(b)
    /\ ~m_acquired[a] /\ ~m_acquired[b]
    /\ h_data' = Exchanged(h_data, a, b)
    /\ d_data' = Exchanged(d_data, a, b)
    /\ m_num_elements' = Exchanged(m_num_elements, a, b)
    /\ m_pitch' = Exchanged(m_pitch, a, b)
    /\ m_height' = Exchanged(m_height, a, b)
    /\ m_data_location' = Exchanged(m_data_location, a, b)
    /\ UNCHANGED <<m_acquired, handles, got>>

\* What is done with the arrays of a set.
StepOf(arrays) ==
    \/ \E a \in arrays \intersect Array1D : Construct(a) \/ resize(a)
    \/ \E a \in arrays \intersect Array2D : Construct2D(a) \/ resize2D(a)
    \/ \E h \in [array : arrays, location : Location, mode : Mode] :
          acquire(h) \/ acquireThrows(h) \/ Release(h) \/ Read(h) \/ Write(h)
    \/ \E a, b \in arrays \intersect Array1D : Assign(a, b) \/ swap(a, b)
    \/ \E a, b \in arrays \intersect Array2D : Assign(a, b) \/ swap(a, b)

Next == StepOf(Array)

Spec == Init /\ [][Next]_vars

-----------------------------------------------------------------------------
(* Shapes, locations and memory of the types of the C++ members: both      *)
(* copies of an array have m_num_elements elements.                        *)
TypeOK ==
    /\ m_num_elements \in [Array -> Nat]
    /\ m_pitch \in [Array -> Nat]
    /\ m_height \in [Array -> Nat]
    /\ DOMAIN h_data = Array /\ DOMAIN d_data = Array
    /\ \A a \in Array : /\ h_data[a] \in Contents(m_num_elements[a])
                        /\ d_data[a] \in Contents(IF a \in CUDAEnabled THEN m_num_elements[a] ELSE 0)
    /\ m_data_location \in [Array -> DataLocation]
    /\ m_acquired \in [Array -> BOOLEAN]
    /\ handles \subseteq Handle
    /\ got \in Value

(* When m_data_location says both copies are valid, they are equal: no     *)
(* sequence of acquires, writes, resizes, assignments and swaps leaves a   *)
(* stale copy marked valid.                                                *)
HostDeviceAgree ==
    \A a \in Array : m_data_location[a] = "hostdevice" => h_data[a] = d_data[a]

(* The memory a live handle points to is a copy the array considers valid, *)
(* and the only valid one if the handle may write.                         *)
HandleOnValidCopy ==
    \A h \in handles :
        isNull(h.array) \/ m_data_location[h.array] \in
            IF h.mode = "read" THEN {h.location, "hostdevice"} ELSE {h.location}

(* The memory of a two-dimensional array is exactly its rows: the copy     *)
(* loops of resize2DHostArray and resize2DDeviceArray stay inside the old  *)
(* and the new memory.                                                     *)
RowsFillMemory ==
    \A a \in Array2D : ~isNull(a) => m_num_elements[a] = m_pitch[a] * m_height[a]

(* The logical content: the copy m_data_location designates.               *)
val == [a \in Array |-> IF m_data_location[a] = "device" THEN d_data[a] ELSE h_data[a]]

Abstract == INSTANCE AbstractArray
    WITH num <- m_num_elements, pitch <- m_pitch, height <- m_height

(* The mirrored array behaves as an array with one content: what acquire() *)
(* copies and does not copy cannot be observed through handles.            *)
AbstractSpec == Abstract!Spec

-----------------------------------------------------------------------------
(* The inductive invariant behind the theorems of GPUArrayProofs.tla.      *)
LocationOfUnmirrored ==
    \A a \in Array : (isNull(a) \/ a \notin CUDAEnabled) => m_data_location[a] = "host"

OneHandle == \A h, g \in handles : h.array = g.array => h = g

CoherenceInv ==
    /\ TypeOK /\ HostDeviceAgree /\ HandleOnValidCopy /\ RowsFillMemory
    /\ LocationOfUnmirrored /\ OneHandle
=============================================================================
