--------------------------- MODULE GPUArrayProofs ---------------------------
(***************************************************************************)
(* Proofs for GPUArray.tla, for any sets of arrays and values and any      *)
(* bound on their size.  Clients keep one handle per array alive (Unused), *)
(* which the code itself does not enforce.                                 *)
(***************************************************************************)
EXTENDS GPUArray, TLAPS

\* The provers a step is given to unless it names one, with their time in seconds.
USE ZenonT(30), SMTT(30)

LEMMA InitCoherent == Init => CoherenceInv
  <1> SUFFICES ASSUME Init PROVE CoherenceInv
    BY Zenon
  <1>1. TypeOK
    BY GPUArrayAssumption, Zenon DEF Init, TypeOK, Null, Cleared, Contents, DataLocation
  <1>2. RowsFillMemory
    BY Zenon DEF Init, RowsFillMemory, isNull, Array
  <1>3. HostDeviceAgree /\ HandleOnValidCopy /\ LocationOfUnmirrored /\ OneHandle
    BY Zenon DEF Init, HostDeviceAgree, HandleOnValidCopy, LocationOfUnmirrored, OneHandle
  <1> QED BY <1>1, <1>2, <1>3, Zenon DEF CoherenceInv

USE DEF isNull, Unused, resizeDeviceArray, resize2DDeviceArray

LEMMA ConstructShapeCoherent ==
  ASSUME CoherenceInv, NEW a \in Array, NEW n \in Nat, NEW p \in Nat, NEW k \in Nat,
         ConstructShape(a, n, p, k), a \in Array2D => n = p * k
  PROVE  CoherenceInv'
  <1>1. TypeOK'
    <2>1. Cleared(n) \in Contents(n) /\ Null \in Contents(0)
      BY GPUArrayAssumption, Zenon DEF Cleared, Null, Contents
    <2> QED BY <2>1, GPUArrayAssumption, Zenon
            DEF CoherenceInv, TypeOK, ConstructShape, Reallocated, DataLocation, OnDevice
  <1>2. HostDeviceAgree'
    BY Zenon DEF CoherenceInv, TypeOK, HostDeviceAgree, ConstructShape, Reallocated
  <1>3. HandleOnValidCopy'
    BY Zenon DEF CoherenceInv, TypeOK, HandleOnValidCopy, ConstructShape, Reallocated, Handle
  <1>4. LocationOfUnmirrored'
    BY Zenon DEF CoherenceInv, TypeOK, LocationOfUnmirrored, ConstructShape, Reallocated
  <1>5. OneHandle'
    BY Zenon DEF CoherenceInv, OneHandle, ConstructShape
  <1>6. RowsFillMemory'
    BY Zenon DEF CoherenceInv, TypeOK, RowsFillMemory, ConstructShape, Reallocated, Array
  <1> QED BY <1>1, <1>2, <1>3, <1>4, <1>5, <1>6, Zenon DEF CoherenceInv

LEMMA PitchIsNat == ASSUME NEW width \in Nat PROVE PitchOf(width) \in Nat
  BY GPUArrayAssumption DEF PitchOf

LEMMA AcquireCoherent ==
  ASSUME CoherenceInv, NEW h \in Handle, acquire(h)
  PROVE  CoherenceInv'
  <1> DEFINE a == h.array
  <1>0. a \in Array /\ h.location \in Location /\ h.mode \in Mode
    BY Zenon DEF Handle
  <1>1. CASE isNull(a)
    BY <1>0, <1>1, ZenonT(60) DEF acquire, CoherenceInv, TypeOK, HostDeviceAgree, HandleOnValidCopy,
                      RowsFillMemory, LocationOfUnmirrored, OneHandle, Handle
  <1>2. CASE ~isNull(a)
    <2>1. h_data' \in {h_data, [h_data EXCEPT ![a] = d_data[a]]}
          /\ d_data' \in {d_data, [d_data EXCEPT ![a] = h_data[a]]}
      BY <1>2, Zenon DEF acquire, memcpyDeviceToHost, memcpyHostToDevice
    <2>2. a \in CUDAEnabled \/ (h.location = "host" /\ m_data_location[a] = "host")
      BY <1>0, <1>2, Zenon DEF acquire, CoherenceInv, LocationOfUnmirrored, Location
    <2>3. m_data_location'[a] \in DataLocation
          /\ m_data_location' = [m_data_location EXCEPT ![a] = m_data_location'[a]]
      BY <1>0, <1>2, ZenonT(60) DEF acquire, LocationAfter, DataLocation, Location, CoherenceInv, TypeOK
    <2>4. TypeOK'
      <3>1. handles' \subseteq Handle
        BY Zenon DEF CoherenceInv, TypeOK, acquire
      <3>2. CASE a \in CUDAEnabled
        BY <1>0, <2>1, <2>3, <3>1, <3>2, ZenonT(60) DEF CoherenceInv, TypeOK, acquire
      <3>3. CASE a \notin CUDAEnabled
        <4>1. UNCHANGED <<h_data, d_data>>
          BY <1>0, <1>2, <2>2, <3>3, Zenon DEF acquire, MustCopy
        <4> QED BY <2>3, <3>1, <4>1, Zenon DEF CoherenceInv, TypeOK, acquire
      <3> QED BY <3>2, <3>3, Zenon
    <2>5. HostDeviceAgree'
      BY <1>0, <1>2, SMTT(30) DEF CoherenceInv, TypeOK, HostDeviceAgree, acquire, LocationAfter, MustCopy,
         memcpyDeviceToHost, memcpyHostToDevice, Location, Mode, DataLocation
    <2>6. HandleOnValidCopy'
      <3>1. m_data_location'[a] = LocationAfter(a, h.location, h.mode)
        BY <1>0, <1>2, Zenon DEF CoherenceInv, TypeOK, acquire
      <3>2. m_data_location'[a] \in
              IF h.mode = "read" THEN {h.location, "hostdevice"} ELSE {h.location}
        BY <1>0, <3>1, Zenon DEF LocationAfter
      <3>3. \A g \in handles : /\ g.array \in Array \ {a}
                               /\ m_data_location'[g.array] = m_data_location[g.array]
        BY <1>0, <2>3, Zenon DEF CoherenceInv, TypeOK, acquire, Handle
      <3> QED BY <3>2, <3>3, Zenon DEF CoherenceInv, HandleOnValidCopy, acquire
    <2>7. LocationOfUnmirrored'
      BY <1>0, <1>2, <2>2, Zenon DEF CoherenceInv, TypeOK, LocationOfUnmirrored, acquire, LocationAfter
    <2>8. OneHandle' /\ RowsFillMemory'
      BY <1>0, Zenon DEF CoherenceInv, OneHandle, RowsFillMemory, acquire
    <2> QED BY <2>4, <2>5, <2>6, <2>7, <2>8, Zenon DEF CoherenceInv
  <1> QED BY <1>1, <1>2, Zenon

LEMMA WriteCoherent ==
  ASSUME CoherenceInv, NEW h \in Handle, Write(h)
  PROVE  CoherenceInv'
  <1> DEFINE a == h.array
  <1>0. a \in Array /\ h.location \in Location /\ h.mode # "read" /\ ~isNull(a)
    BY SMTT(30) DEF Handle, Write, CoherenceInv, TypeOK
  <1>1. m_data_location[a] = h.location
    BY <1>0, Zenon DEF Write, CoherenceInv, HandleOnValidCopy
  <1>2. TypeOK'
    <2>1. PICK i \in 0 .. (m_num_elements[a] - 1), v \in Value :
            IF h.location = "host"
            THEN h_data' = [h_data EXCEPT ![a] = [@ EXCEPT ![i] = v]] /\ UNCHANGED d_data
            ELSE d_data' = [d_data EXCEPT ![a] = [@ EXCEPT ![i] = v]] /\ UNCHANGED h_data
      BY Zenon DEF Write
    <2>2. \A c \in Contents(m_num_elements[a]) :
             [c EXCEPT ![i] = v] \in Contents(m_num_elements[a])
      BY <2>1, Zenon DEF Contents
    <2>3. a \in CUDAEnabled \/ h.location = "host"
      BY <1>0, <1>1, Zenon DEF CoherenceInv, LocationOfUnmirrored
    <2> QED BY <1>0, <2>1, <2>2, <2>3, SMTT(30) DEF CoherenceInv, TypeOK, Write
  <1>3. HostDeviceAgree'
    BY <1>0, <1>1, Zenon DEF CoherenceInv, TypeOK, HostDeviceAgree, Write, Location
  <1>4. HandleOnValidCopy' /\ LocationOfUnmirrored' /\ OneHandle' /\ RowsFillMemory'
    BY Zenon DEF CoherenceInv, HandleOnValidCopy, LocationOfUnmirrored, OneHandle, RowsFillMemory, Write
  <1> QED BY <1>2, <1>3, <1>4, Zenon DEF CoherenceInv

(* Growing or shrinking a typed content (resizeHostArray, resizeDeviceArray) *)
(* gives a typed content.                                                    *)
LEMMA ResizedTyped ==
  ASSUME NEW old \in Nat, NEW new \in Nat, NEW c \in Contents(old)
  PROVE  Resized(c, old, new) \in Contents(new)
  <1>1. \A i \in 0 .. (new - 1) : i < old => c[i] \in Value
    BY SMTT(30) DEF Contents
  <1> QED BY <1>1, GPUArrayAssumption, Zenon DEF Resized, Contents

LEMMA ResizeCoherent ==
  ASSUME CoherenceInv, NEW a \in Array1D, resize(a)
  PROVE  CoherenceInv'
  <1>1. PICK n \in 1 .. MaxElements :
          /\ Unused(a) /\ ~m_acquired[a]
          /\ IF isNull(a)
             THEN AllocatedUncleared(a, n, m_pitch[a], m_height[a])
             ELSE Reallocated(a, Resized(h_data[a], m_num_elements[a], n),
                              OnDevice(a, Resized(d_data[a], m_num_elements[a], n)),
                              n, n, m_height[a])
          /\ UNCHANGED <<m_data_location, m_acquired, handles, got>>
    BY Zenon DEF resize
  <1>2. a \in Array /\ n \in Nat /\ n # 0
    BY <1>1 DEF Array
  <1>3. TypeOK'
    <2>1. \A c \in Contents(m_num_elements[a]) :
             Resized(c, m_num_elements[a], n) \in Contents(n)
      <3>1. m_num_elements[a] \in Nat
        BY <1>2, Zenon DEF CoherenceInv, TypeOK
      <3> QED BY <1>2, <3>1, ResizedTyped, Zenon
    <2>2. Null \in Contents(0)
      BY GPUArrayAssumption, Zenon DEF Null, Cleared, Contents
    <2> QED BY <1>1, <1>2, <2>1, <2>2, SMTT(30)
            DEF CoherenceInv, TypeOK, AllocatedUncleared, Reallocated, OnDevice
  <1>4. HostDeviceAgree'
    <2>1. CASE isNull(a)
      BY <1>1, <1>2, <2>1, ZenonT(60) DEF CoherenceInv, TypeOK, HostDeviceAgree, LocationOfUnmirrored,
                              AllocatedUncleared, Reallocated
    <2>2. CASE ~isNull(a)
      <3>1. h_data'[a] = Resized(h_data[a], m_num_elements[a], n)
            /\ (a \in CUDAEnabled => d_data'[a] = Resized(d_data[a], m_num_elements[a], n))
        BY <1>1, <1>2, <2>2, Zenon DEF CoherenceInv, TypeOK, Reallocated, OnDevice
      <3>2. \A b \in Array \ {a} : h_data'[b] = h_data[b] /\ d_data'[b] = d_data[b]
        BY <1>1, <1>2, <2>2, ZenonT(60) DEF CoherenceInv, TypeOK, Reallocated
      <3> QED BY <1>1, <1>2, <3>1, <3>2, Zenon
              DEF CoherenceInv, HostDeviceAgree, LocationOfUnmirrored
    <2> QED BY <2>1, <2>2, Zenon
  <1>5. HandleOnValidCopy'
    BY <1>1, <1>2, ZenonT(60) DEF CoherenceInv, TypeOK, HandleOnValidCopy, AllocatedUncleared, Reallocated,
                      Handle
  <1>6. LocationOfUnmirrored' /\ OneHandle'
    BY <1>1, <1>2 DEF CoherenceInv, TypeOK, LocationOfUnmirrored, OneHandle, AllocatedUncleared,
                      Reallocated
  <1>7. RowsFillMemory'
    BY <1>1, <1>2, GPUArrayAssumption, SMTT(30)
    DEF CoherenceInv, TypeOK, RowsFillMemory, AllocatedUncleared, Reallocated, Array
  <1> QED BY <1>3, <1>4, <1>5, <1>6, <1>7, Zenon DEF CoherenceInv

(* Row and column of an element of a matrix with rows of q elements lie    *)
(* inside the matrix, and so does the element of another matrix with the   *)
(* same row and column when that matrix has them.                          *)
LEMMA RowMajor ==
  ASSUME NEW p \in Nat, NEW k \in Nat, NEW r \in 0 .. (k - 1), NEW s \in 0 .. (p - 1)
  PROVE  r * p + s \in 0 .. (p * k - 1)
  <1>1. (k - 1 - r) * p >= 0
    BY Z3
  <1>2. (k - 1 - r) * p = p * k - p - r * p
    BY Z3
  <1> QED BY <1>1, <1>2, Z3

LEMMA Resized2DTyped ==
  ASSUME NEW p \in Nat, NEW k \in Nat, NEW q \in Nat \ {0}, NEW m \in Nat,
         NEW c \in Contents(p * k)
  PROVE  Resized2D(c, p, k, q, m) \in Contents(q * m)
  <1>1. ASSUME NEW i \in 0 .. (q * m - 1), i \div q < k, i % q < p
        PROVE  c[(i \div q) * p + (i % q)] \in Value
    <2>1. i \in Nat /\ i \div q \in 0 .. (k - 1) /\ i % q \in 0 .. (p - 1)
      BY <1>1, Z3
    <2>2. (i \div q) * p + (i % q) \in 0 .. (p * k - 1)
      BY <2>1, RowMajor, Zenon
    <2> QED BY <2>2, Zenon DEF Contents
  <1>2. \A i \in 0 .. (q * m - 1) :
          (IF i \div q < k /\ i % q < p THEN c[(i \div q) * p + (i % q)] ELSE Zero) \in Value
    BY <1>1, GPUArrayAssumption, Zenon
  <1> QED BY <1>2, Zenon DEF Resized2D, Contents

(* A two-dimensional array is NULL or filled by its rows.                  *)
LEMMA Resize2DCoherent ==
  ASSUME CoherenceInv, NEW a \in Array2D, resize2D(a)
  PROVE  CoherenceInv'
  <1>1. PICK width \in 1 .. MaxElements, k \in 1 .. MaxElements :
          /\ Unused(a) /\ ~m_acquired[a]
          /\ IF isNull(a)
             THEN AllocatedUncleared(a, PitchOf(width) * k, PitchOf(width), k)
             ELSE Reallocated(a, Resized2D(h_data[a], m_pitch[a], m_height[a], PitchOf(width), k),
                      OnDevice(a, Resized2D(d_data[a], m_pitch[a], m_height[a], PitchOf(width), k)),
                      PitchOf(width) * k, PitchOf(width), k)
          /\ UNCHANGED <<m_data_location, m_acquired, handles, got>>
    BY Zenon DEF resize2D
  <1> DEFINE q == PitchOf(width)
             n == q * k
  <1>2. a \in Array /\ k \in Nat \ {0}
    BY <1>1, GPUArrayAssumption, SMTT(30) DEF Array
  <1>3. q \in Nat \ {0}
    BY GPUArrayAssumption, SMTT(30) DEF PitchOf
  <1>4. n \in Nat \ {0}
    BY <1>2, <1>3, Z3
  <1> HIDE DEF q, n
  <1>5. IF isNull(a)
        THEN AllocatedUncleared(a, n, q, k)
        ELSE Reallocated(a, Resized2D(h_data[a], m_pitch[a], m_height[a], q, k),
                         OnDevice(a, Resized2D(d_data[a], m_pitch[a], m_height[a], q, k)), n, q, k)
    BY <1>1, ZenonT(60) DEF q, n
  <1>6. TypeOK'
    <2>1. ~isNull(a) => \A c \in Contents(m_num_elements[a]) :
             Resized2D(c, m_pitch[a], m_height[a], q, k) \in Contents(n)
      BY <1>2, <1>3, Resized2DTyped, Zenon DEF CoherenceInv, TypeOK, RowsFillMemory, n
    <2>2. Null \in Contents(0)
      BY GPUArrayAssumption, Zenon DEF Null, Cleared, Contents
    <2> QED BY <1>1, <1>2, <1>3, <1>4, <1>5, <2>1, <2>2, SMTT(30)
            DEF CoherenceInv, TypeOK, AllocatedUncleared, Reallocated, OnDevice
  <1>7. HostDeviceAgree'
    <2>1. CASE isNull(a)
      BY <1>1, <1>2, <1>5, <2>1, Zenon DEF CoherenceInv, TypeOK, HostDeviceAgree, LocationOfUnmirrored,
                                    AllocatedUncleared, Reallocated
    <2>2. CASE ~isNull(a)
      <3>1. h_data'[a] = Resized2D(h_data[a], m_pitch[a], m_height[a], q, k)
            /\ (a \in CUDAEnabled => d_data'[a] = Resized2D(d_data[a], m_pitch[a], m_height[a], q, k))
        BY <1>2, <1>5, <2>2, Zenon DEF CoherenceInv, TypeOK, Reallocated, OnDevice
      <3>2. \A b \in Array \ {a} : h_data'[b] = h_data[b] /\ d_data'[b] = d_data[b]
        BY <1>2, <1>5, <2>2, ZenonT(60) DEF CoherenceInv, TypeOK, Reallocated
      <3> QED BY <1>1, <1>2, <3>1, <3>2, ZenonT(60)
              DEF CoherenceInv, HostDeviceAgree, LocationOfUnmirrored
    <2> QED BY <2>1, <2>2, Zenon
  <1>8. HandleOnValidCopy'
    BY <1>1, <1>2, <1>5, ZenonT(60) DEF CoherenceInv, TypeOK, HandleOnValidCopy, AllocatedUncleared,
                            Reallocated, Handle
  <1>9. LocationOfUnmirrored' /\ OneHandle'
    BY <1>1, <1>2, <1>4, <1>5, ZenonT(60) DEF CoherenceInv, TypeOK, LocationOfUnmirrored, OneHandle,
                                  AllocatedUncleared, Reallocated
  <1>10. RowsFillMemory'
    <2>1. m_num_elements'[a] = n /\ m_pitch'[a] = q /\ m_height'[a] = k
      BY <1>2, <1>5, ZenonT(60) DEF CoherenceInv, TypeOK, AllocatedUncleared, Reallocated
    <2>2. \A b \in Array \ {a} : /\ m_num_elements'[b] = m_num_elements[b]
                                 /\ m_pitch'[b] = m_pitch[b] /\ m_height'[b] = m_height[b]
      BY <1>2, <1>5, ZenonT(60) DEF CoherenceInv, TypeOK, AllocatedUncleared, Reallocated
    <2> QED BY <1>2, <2>1, <2>2, Zenon DEF CoherenceInv, RowsFillMemory, Array, n
  <1> QED BY <1>6, <1>7, <1>8, <1>9, <1>10, Zenon DEF CoherenceInv

LEMMA AssignCoherent ==
  ASSUME CoherenceInv, NEW a \in Array, NEW b \in Array, Assign(a, b),
         a \in Array2D => b \in Array2D
  PROVE  CoherenceInv'
  <1> DEFINE n == m_num_elements[b]
             source == IF m_data_location[b] = "device" THEN d_data[b] ELSE h_data[b]
  <1>1. source \in Contents(n)
    BY Zenon DEF CoherenceInv, TypeOK, LocationOfUnmirrored
  <1>2. TypeOK'
    <2>1. Cleared(n) \in Contents(n) /\ Null \in Contents(0)
      BY GPUArrayAssumption, Zenon DEF Cleared, Null, Contents
    <2> QED BY <1>1, <2>1, Zenon DEF CoherenceInv, TypeOK, Assign, DataLocation, OnDevice
  <1>3. HostDeviceAgree'
    BY Zenon DEF CoherenceInv, TypeOK, HostDeviceAgree, LocationOfUnmirrored, Assign, DataLocation
  <1>4. HandleOnValidCopy'
    BY Zenon DEF CoherenceInv, TypeOK, HandleOnValidCopy, Assign, Handle
  <1>5. LocationOfUnmirrored' /\ OneHandle'
    BY Zenon DEF CoherenceInv, TypeOK, LocationOfUnmirrored, OneHandle, Assign
  <1>6. RowsFillMemory'
    BY Zenon DEF CoherenceInv, TypeOK, RowsFillMemory, Assign, Array
  <1> QED BY <1>2, <1>3, <1>4, <1>5, <1>6, Zenon DEF CoherenceInv

LEMMA SwapCoherent ==
  ASSUME CoherenceInv, NEW a \in Array, NEW b \in Array, swap(a, b),
         a \in Array2D <=> b \in Array2D
  PROVE  CoherenceInv'
  <1>1. TypeOK'
    BY ZenonT(60) DEF CoherenceInv, TypeOK, swap, Exchanged, OneConfiguration
  <1>2. HostDeviceAgree'
    BY Zenon DEF CoherenceInv, TypeOK, HostDeviceAgree, swap, Exchanged
  <1>3. HandleOnValidCopy'
    BY Zenon DEF CoherenceInv, TypeOK, HandleOnValidCopy, swap, Exchanged, Handle
  <1>4. LocationOfUnmirrored' /\ OneHandle'
    BY Zenon DEF CoherenceInv, TypeOK, LocationOfUnmirrored, OneHandle, swap, Exchanged, OneConfiguration
  <1>5. RowsFillMemory'
    BY Zenon DEF CoherenceInv, TypeOK, RowsFillMemory, swap, Exchanged, Array
  <1> QED BY <1>1, <1>2, <1>3, <1>4, <1>5, Zenon DEF CoherenceInv

LEMMA NextCoherent ==
  ASSUME CoherenceInv, [Next]_vars
  PROVE  CoherenceInv'
  <1>1. ASSUME NEW a \in Array1D, Construct(a) PROVE CoherenceInv'
    <2>1. PICK n \in 0 .. MaxElements : ConstructShape(a, n, n, 1)
      BY <1>1, Zenon DEF Construct
    <2>2. a \in Array /\ a \notin Array2D /\ n \in Nat
      BY GPUArrayAssumption, SMTT(30) DEF Array
    <2> QED BY <2>1, <2>2, ConstructShapeCoherent, Zenon
  <1>2. ASSUME NEW a \in Array2D, Construct2D(a) PROVE CoherenceInv'
    <2>1. PICK width \in 1 .. MaxElements, k \in 1 .. MaxElements :
             ConstructShape(a, PitchOf(width) * k, PitchOf(width), k)
      BY <1>2, Zenon DEF Construct2D
    <2>2. a \in Array /\ k \in Nat /\ PitchOf(width) \in Nat
      BY GPUArrayAssumption, SMTT(30) DEF Array, PitchOf
    <2>3. PitchOf(width) * k \in Nat
      BY <2>2, Z3
    <2> QED BY <2>1, <2>2, <2>3, ConstructShapeCoherent, Zenon
  <1>3. ASSUME NEW a \in Array1D, resize(a) PROVE CoherenceInv'
    BY <1>3, ResizeCoherent, Zenon
  <1>4. ASSUME NEW a \in Array2D, resize2D(a) PROVE CoherenceInv'
    BY <1>4, Resize2DCoherent, Zenon
  <1>5. ASSUME NEW h \in Handle, acquire(h) PROVE CoherenceInv'
    BY <1>5, AcquireCoherent, Zenon
  <1>6. ASSUME NEW h \in Handle, acquireThrows(h) PROVE CoherenceInv'
    <2>1. UNCHANGED <<memory, m_data_location, handles, got>>
          /\ m_acquired' = [m_acquired EXCEPT ![h.array] = TRUE]
      BY <1>6, Zenon DEF acquireThrows
    <2> QED BY <2>1, Zenon DEF memory, CoherenceInv, TypeOK, HostDeviceAgree, HandleOnValidCopy,
                        RowsFillMemory, LocationOfUnmirrored, OneHandle
  <1>7. ASSUME NEW h \in Handle, Release(h) PROVE CoherenceInv'
    BY <1>7, Zenon DEF Release, memory, CoherenceInv, TypeOK, HostDeviceAgree, HandleOnValidCopy,
                RowsFillMemory, LocationOfUnmirrored, OneHandle
  <1>8. ASSUME NEW h \in Handle, Read(h) PROVE CoherenceInv'
    <2>1. got' \in Value
      <3>1. PICK i \in 0 .. (m_num_elements[h.array] - 1) :
               got' = IF h.location = "host" THEN h_data[h.array][i] ELSE d_data[h.array][i]
        BY <1>8, Zenon DEF Read
      <3>2. h \in handles /\ h.array \in Array /\ ~isNull(h.array)
        BY <1>8, <3>1, SMTT(30) DEF Read, Handle, CoherenceInv, TypeOK
      <3>3. h.location = "host" \/ h.array \in CUDAEnabled
        BY <3>2, Zenon DEF CoherenceInv, HandleOnValidCopy, LocationOfUnmirrored
      <3> QED BY <3>1, <3>2, <3>3, ZenonT(60) DEF CoherenceInv, TypeOK, Contents
    <2> QED BY <1>8, <2>1, Zenon DEF Read, memory, CoherenceInv, TypeOK, HostDeviceAgree,
               HandleOnValidCopy, RowsFillMemory, LocationOfUnmirrored, OneHandle
  <1>9. ASSUME NEW h \in Handle, Write(h) PROVE CoherenceInv'
    BY <1>9, WriteCoherent, Zenon
  <1>10. ASSUME NEW a \in Array1D, NEW b \in Array1D, Assign(a, b) \/ swap(a, b)
         PROVE  CoherenceInv'
    <2>1. a \in Array /\ b \in Array /\ a \notin Array2D /\ b \notin Array2D
      BY GPUArrayAssumption, Zenon DEF Array
    <2> QED BY <1>10, <2>1, AssignCoherent, SwapCoherent, Zenon
  <1>11. ASSUME NEW a \in Array2D, NEW b \in Array2D, Assign(a, b) \/ swap(a, b)
         PROVE  CoherenceInv'
    <2>1. a \in Array /\ b \in Array
      BY Zenon DEF Array
    <2> QED BY <1>11, <2>1, AssignCoherent, SwapCoherent, Zenon
  <1>12. CASE UNCHANGED vars
    BY <1>12, Zenon DEF vars, memory, CoherenceInv, TypeOK, HostDeviceAgree, HandleOnValidCopy,
                 RowsFillMemory, LocationOfUnmirrored, OneHandle
  <1> QED BY <1>1, <1>2, <1>3, <1>4, <1>5, <1>6, <1>7, <1>8, <1>9, <1>10, <1>11, <1>12, Zenon DEF Next, StepOf, Handle

(* The inductive invariant: with disciplined clients no reachable state    *)
(* has a stale copy marked valid in m_data_location, and every handle      *)
(* points to a valid copy.                                                 *)
THEOREM Coherence == Spec => []CoherenceInv
  <1>1. Init => CoherenceInv
    BY InitCoherent, Zenon
  <1>2. CoherenceInv /\ [Next]_vars => CoherenceInv'
    BY NextCoherent, Zenon
  <1> QED BY <1>1, <1>2, PTL DEF Spec

(* m_data_location = hostdevice means the two copies are equal.            *)
THEOREM CopiesAgree == Spec => []HostDeviceAgree
  <1>1. CoherenceInv => HostDeviceAgree
    BY Zenon DEF CoherenceInv
  <1> QED BY <1>1, Coherence, PTL

(* A handle points to a valid copy, a writing handle to the only one.      *)
THEOREM HandlesValid == Spec => []HandleOnValidCopy
  <1>1. CoherenceInv => HandleOnValidCopy
    BY Zenon DEF CoherenceInv
  <1> QED BY <1>1, Coherence, PTL

(* resize(width, height) copies only elements that exist.                  *)
THEOREM RowsInBounds == Spec => []RowsFillMemory
  <1>1. CoherenceInv => RowsFillMemory
    BY Zenon DEF CoherenceInv
  <1> QED BY <1>1, Coherence, PTL

-----------------------------------------------------------------------------
(* The refinement of AbstractArray.                                        *)

LEMMA InitRefines == Init => Abstract!Init
  BY SMTT(30) DEF Init, Abstract!Init, val, Null, Cleared, Array

LEMMA AcquireRefines ==
  ASSUME CoherenceInv, CoherenceInv', NEW h \in Handle, acquire(h)
  PROVE  Abstract!Acquire(h)
  <1> DEFINE a == h.array
  <1>0. a \in Array /\ h.location \in Location /\ h.mode \in Mode
    BY Zenon DEF Handle
  <1>1. \A b \in Array \ {a} : val'[b] = val[b]
    BY <1>0, ZenonT(60) DEF acquire, val, CoherenceInv, TypeOK, memcpyDeviceToHost, memcpyHostToDevice
  <1>2. h.mode # "overwrite" => val'[a] = val[a]
    <2>1. CASE isNull(a)
      BY <1>0, <2>1, Zenon DEF acquire, val
    <2>2. CASE ~isNull(a)
      <3>1. m_data_location'[a] = LocationAfter(a, h.location, h.mode)
        BY <1>0, <2>2, Zenon DEF acquire, CoherenceInv, TypeOK
      <3>2. CASE ~MustCopy(a, h.location, h.mode)
        BY <1>0, <2>2, <3>1, <3>2, ZenonT(60) DEF acquire, val, CoherenceInv, TypeOK, HostDeviceAgree,
           LocationAfter, MustCopy, Location, Mode, DataLocation
      <3>3. CASE MustCopy(a, h.location, h.mode)
        BY <1>0, <2>2, <3>1, <3>3, ZenonT(60) DEF acquire, val, CoherenceInv, TypeOK, LocationAfter,
           MustCopy, memcpyDeviceToHost, memcpyHostToDevice, Location, Mode, DataLocation
      <3> QED BY <3>2, <3>3, Zenon
    <2> QED BY <2>1, <2>2, Zenon
  <1>3. val' = [val EXCEPT ![a] = val'[a]]
    BY <1>0, <1>1, ZenonT(60) DEF val
  <1>4. h.mode # "overwrite" => val' = val
    BY <1>0, <1>1, <1>2, ZenonT(60) DEF val
  <1>5. val'[a] \in Contents(m_num_elements'[a])
    BY <1>0, Zenon DEF CoherenceInv, TypeOK, LocationOfUnmirrored, val
  <1>6. UNCHANGED <<m_num_elements, m_pitch, m_height, got>> /\ handles' = handles \union {h}
    BY Zenon DEF acquire
  <1>7. h.mode = "overwrite" => Abstract!Replaced(a)
    BY <1>0, <1>3, <1>5, <1>6, Zenon DEF Abstract!Replaced, Abstract!Contents, Contents, CoherenceInv, TypeOK
  <1> QED BY <1>4, <1>6, <1>7, Zenon DEF Abstract!Acquire, Abstract!shape

LEMMA ReadRefines ==
  ASSUME CoherenceInv, NEW h \in Handle, Read(h)
  PROVE  Abstract!Read(h)
  <1>1. PICK i \in 0 .. (m_num_elements[h.array] - 1) :
           got' = IF h.location = "host" THEN h_data[h.array][i] ELSE d_data[h.array][i]
    BY Zenon DEF Read
  <1>2. h \in handles /\ h.array \in Array /\ ~isNull(h.array) /\ h.location \in Location
    BY <1>1, SMTT(30) DEF Read, Handle, CoherenceInv, TypeOK
  <1>3. m_data_location[h.array] \in {h.location, "hostdevice"}
    BY <1>2, Zenon DEF CoherenceInv, HandleOnValidCopy
  <1>4. got' = val[h.array][i]
    BY <1>1, <1>2, <1>3, Zenon DEF val, CoherenceInv, HostDeviceAgree, Location
  <1>5. UNCHANGED <<val, m_num_elements, m_pitch, m_height, handles>>
    BY Zenon DEF Read, memory, val
  <1> QED BY <1>2, <1>4, <1>5, Zenon DEF Abstract!Read, Abstract!shape

LEMMA WriteRefines ==
  ASSUME CoherenceInv, NEW h \in Handle, Write(h)
  PROVE  Abstract!Write(h)
  <1> DEFINE a == h.array
  <1>1. PICK i \in 0 .. (m_num_elements[a] - 1), v \in Value :
            IF h.location = "host"
            THEN h_data' = [h_data EXCEPT ![a] = [@ EXCEPT ![i] = v]] /\ UNCHANGED d_data
            ELSE d_data' = [d_data EXCEPT ![a] = [@ EXCEPT ![i] = v]] /\ UNCHANGED h_data
    BY Zenon DEF Write
  <1>2. h \in handles /\ a \in Array /\ ~isNull(a) /\ h.location \in Location /\ h.mode # "read"
    BY <1>1, SMTT(30) DEF Write, Handle, CoherenceInv, TypeOK
  <1>3. m_data_location[a] = h.location
    BY <1>2, Zenon DEF CoherenceInv, HandleOnValidCopy
  <1>4. UNCHANGED <<m_num_elements, m_pitch, m_height, m_data_location, handles, got>>
    BY Zenon DEF Write
  <1>5. val' = [val EXCEPT ![a] = [val[a] EXCEPT ![i] = v]]
    BY <1>1, <1>2, <1>3, <1>4, Zenon DEF val, CoherenceInv, TypeOK, Location
  <1> QED BY <1>2, <1>4, <1>5, Zenon DEF Abstract!Write, Abstract!shape

(* The steps that give array a new memory change the content of no other   *)
(* array.                                                                  *)
LEMMA ReallocatedRefines ==
  ASSUME CoherenceInv, CoherenceInv', NEW a \in Array,
         NEW h, NEW d, NEW n, NEW p, NEW k, Reallocated(a, h, d, n, p, k),
         \A b \in Array \ {a} : m_data_location'[b] = m_data_location[b]
  PROVE  Abstract!Replaced(a)
  <1>1. \A b \in Array \ {a} : val'[b] = val[b]
    BY Zenon DEF Reallocated, val, CoherenceInv, TypeOK
  <1>2. val' = [val EXCEPT ![a] = val'[a]]
    BY <1>1, ZenonT(60) DEF val
  <1>3. val'[a] \in Contents(m_num_elements'[a])
    BY Zenon DEF CoherenceInv, TypeOK, LocationOfUnmirrored, val
  <1>4. m_num_elements'[a] \in Nat /\ m_pitch'[a] \in Nat /\ m_height'[a] \in Nat
    BY Zenon DEF CoherenceInv, TypeOK
  <1>5. /\ m_num_elements' = [m_num_elements EXCEPT ![a] = m_num_elements'[a]]
        /\ m_pitch' = [m_pitch EXCEPT ![a] = m_pitch'[a]]
        /\ m_height' = [m_height EXCEPT ![a] = m_height'[a]]
    BY Zenon DEF Reallocated, CoherenceInv, TypeOK
  <1> QED BY <1>2, <1>3, <1>4, <1>5, Zenon DEF Abstract!Replaced, Abstract!Contents, Contents

LEMMA ConstructRefines ==
  ASSUME CoherenceInv, CoherenceInv', NEW a \in Array, NEW n \in Nat, NEW p \in Nat, NEW k \in Nat,
         ConstructShape(a, n, p, k)
  PROVE  Abstract!Construct(a)
  <1>1. Reallocated(a, Cleared(n), OnDevice(a, Cleared(n)), n, p, k)
        /\ m_data_location' = [m_data_location EXCEPT ![a] = "host"]
        /\ UNCHANGED <<handles, got>>
    BY Zenon DEF ConstructShape
  <1>2. Abstract!Replaced(a)
    BY <1>1, ReallocatedRefines, Zenon DEF CoherenceInv, TypeOK
  <1>3. val'[a] = Cleared(n) /\ m_num_elements'[a] = n
    <2>1. h_data'[a] = Cleared(n) /\ m_num_elements'[a] = n /\ m_data_location'[a] = "host"
      BY <1>1, Zenon DEF Reallocated, CoherenceInv, TypeOK
    <2> QED BY <2>1, Zenon DEF val
  <1> QED BY <1>1, <1>2, <1>3, Zenon DEF Abstract!Construct, Cleared

LEMMA ResizeRefines ==
  ASSUME CoherenceInv, CoherenceInv', NEW a \in Array, resize(a)
  PROVE  Abstract!Resize(a)
  <1>1. PICK n \in 1 .. MaxElements :
          /\ IF isNull(a)
             THEN AllocatedUncleared(a, n, m_pitch[a], m_height[a])
             ELSE Reallocated(a, Resized(h_data[a], m_num_elements[a], n),
                              OnDevice(a, Resized(d_data[a], m_num_elements[a], n)),
                              n, n, m_height[a])
          /\ UNCHANGED <<m_data_location, handles, got>>
    BY Zenon DEF resize
  <1>2. Abstract!Replaced(a)
    BY <1>1, ReallocatedRefines, Zenon DEF AllocatedUncleared
  <1>3. ~isNull(a) => val'[a] = Resized(val[a], m_num_elements[a], n) /\ m_num_elements'[a] = n
    <2> SUFFICES ASSUME ~isNull(a)
                 PROVE  val'[a] = Resized(val[a], m_num_elements[a], n) /\ m_num_elements'[a] = n
      BY Zenon
    <2>1. /\ h_data'[a] = Resized(h_data[a], m_num_elements[a], n)
          /\ d_data'[a] = OnDevice(a, Resized(d_data[a], m_num_elements[a], n))
          /\ m_num_elements'[a] = n /\ m_data_location' = m_data_location
      BY <1>1, ZenonT(60) DEF Reallocated, CoherenceInv, TypeOK
    <2>2. m_data_location[a] = "device" => a \in CUDAEnabled
      BY Zenon DEF CoherenceInv, LocationOfUnmirrored
    <2>3. /\ val[a] = IF m_data_location[a] = "device" THEN d_data[a] ELSE h_data[a]
          /\ val'[a] = IF m_data_location'[a] = "device" THEN d_data'[a] ELSE h_data'[a]
      BY Zenon DEF val
    <2> QED BY <2>1, <2>2, <2>3, Zenon DEF OnDevice
  <1> QED BY <1>1, <1>2, <1>3, Zenon DEF Abstract!Resize, Resized

LEMMA RowColumn ==
  ASSUME NEW q \in Nat, NEW r \in Nat, NEW s \in 0 .. (q - 1)
  PROVE  (r * q + s) \div q = r /\ (r * q + s) % q = s
  <1>1. q > 0 /\ r * q + s \in Nat
    BY Z3
  <1>2. r * q + s = q * ((r * q + s) \div q) + ((r * q + s) % q)
        /\ (r * q + s) % q \in 0 .. (q - 1) /\ (r * q + s) \div q \in Nat
    BY <1>1, Z3T(30)
  <1> QED BY <1>1, <1>2, Z3

LEMMA Resize2DRefines ==
  ASSUME CoherenceInv, CoherenceInv', NEW a \in Array, resize2D(a)
  PROVE  Abstract!Resize2D(a)
  <1>1. PICK width \in 1 .. MaxElements, k \in 1 .. MaxElements :
          /\ IF isNull(a)
             THEN AllocatedUncleared(a, PitchOf(width) * k, PitchOf(width), k)
             ELSE Reallocated(a, Resized2D(h_data[a], m_pitch[a], m_height[a], PitchOf(width), k),
                      OnDevice(a, Resized2D(d_data[a], m_pitch[a], m_height[a], PitchOf(width), k)),
                      PitchOf(width) * k, PitchOf(width), k)
          /\ UNCHANGED <<m_data_location, handles, got>>
    BY Zenon DEF resize2D
  <1> DEFINE q == PitchOf(width)
  <1>2. q \in Nat /\ k \in Nat
    BY GPUArrayAssumption, SMTT(30) DEF PitchOf
  <1> HIDE DEF q
  <1>3. Abstract!Replaced(a)
    BY <1>1, ReallocatedRefines, Zenon DEF AllocatedUncleared
  <1>4. ASSUME ~isNull(a)
        PROVE  /\ val'[a] = Resized2D(val[a], m_pitch[a], m_height[a], q, k)
               /\ m_pitch'[a] = q /\ m_height'[a] = k
    <2>1. /\ h_data'[a] = Resized2D(h_data[a], m_pitch[a], m_height[a], q, k)
          /\ d_data'[a] = OnDevice(a, Resized2D(d_data[a], m_pitch[a], m_height[a], q, k))
          /\ m_pitch'[a] = q /\ m_height'[a] = k /\ m_data_location' = m_data_location
      BY <1>1, <1>4, ZenonT(60) DEF Reallocated, CoherenceInv, TypeOK, q
    <2>2. m_data_location[a] = "device" => a \in CUDAEnabled
      BY Zenon DEF CoherenceInv, LocationOfUnmirrored
    <2>3. /\ val[a] = IF m_data_location[a] = "device" THEN d_data[a] ELSE h_data[a]
          /\ val'[a] = IF m_data_location'[a] = "device" THEN d_data'[a] ELSE h_data'[a]
      BY Zenon DEF val
    <2> QED BY <2>1, <2>2, <2>3, Zenon DEF OnDevice
  <1>5. ASSUME ~isNull(a), NEW r \in 0 .. (k - 1), NEW s \in 0 .. (q - 1)
        PROVE  val'[a][r * q + s] = IF r < m_height[a] /\ s < m_pitch[a]
                                    THEN val[a][r * m_pitch[a] + s] ELSE Zero
    <2>1. r * q + s \in 0 .. (q * k - 1)
      BY <1>2, RowMajor, Zenon
    <2>2. (r * q + s) \div q = r /\ (r * q + s) % q = s
      BY <1>2, RowColumn, SMTT(30)
    <2> QED BY <1>4, <1>5, <2>1, <2>2, ZenonT(60) DEF Resized2D
  <1> QED BY <1>1, <1>3, <1>4, <1>5, Zenon DEF Abstract!Resize2D

LEMMA AssignRefines ==
  ASSUME CoherenceInv, NEW a \in Array, NEW b \in Array, Assign(a, b)
  PROVE  Abstract!Assign(a, b)
  <1>1. val' = [val EXCEPT ![a] = val[b]]
    <2>1. val'[a] = val[b] /\ val'[b] = val[b]
      BY Zenon DEF Assign, val, CoherenceInv, TypeOK, DataLocation
    <2>2. \A c \in Array \ {a, b} : val'[c] = val[c]
      BY Zenon DEF Assign, val, CoherenceInv, TypeOK
    <2>3. val = [c \in Array |-> val[c]] /\ val' = [c \in Array |-> val'[c]]
      BY Zenon DEF val
    <2> QED BY <2>1, <2>2, <2>3, Zenon
  <1> QED BY <1>1, Zenon DEF Assign, Abstract!Assign

LEMMA SwapRefines ==
  ASSUME CoherenceInv, NEW a \in Array, NEW b \in Array, swap(a, b)
  PROVE  Abstract!Swap(a, b)
  <1>1. val' = [val EXCEPT ![a] = val[b], ![b] = val[a]]
    <2>1. val'[a] = val[b] /\ val'[b] = val[a] /\ a # b
      BY Zenon DEF swap, Exchanged, val, CoherenceInv, TypeOK
    <2>2. \A c \in Array \ {a, b} : val'[c] = val[c]
      BY Zenon DEF swap, Exchanged, val, CoherenceInv, TypeOK
    <2>3. val = [c \in Array |-> val[c]] /\ val' = [c \in Array |-> val'[c]]
      BY Zenon DEF val
    <2> QED BY <2>1, <2>2, <2>3, Zenon
  <1> QED BY <1>1, Zenon DEF swap, Exchanged, Abstract!Swap

LEMMA NextRefines ==
  ASSUME CoherenceInv, CoherenceInv', [Next]_vars
  PROVE  [Abstract!Next]_(Abstract!vars)
  <1>0. Handle = Abstract!Handle
    BY Zenon DEF Handle, Abstract!Handle, Location, Abstract!Location, Mode, Abstract!Mode
  <1>1. ASSUME NEW h \in Handle, acquire(h) \/ Read(h) \/ Write(h) \/ Release(h)
        PROVE  Abstract!Next
    <2>1. Release(h) => Abstract!Release(h)
      BY Zenon DEF Release, Abstract!Release, Abstract!shape, memory, val
    <2> QED BY <1>0, <1>1, <2>1, AcquireRefines, ReadRefines, WriteRefines, Zenon DEF Abstract!Next
  <1>2. ASSUME NEW h \in Handle, acquireThrows(h) PROVE UNCHANGED Abstract!vars
    BY <1>2, Zenon DEF acquireThrows, memory, Abstract!vars, Abstract!shape, val
  <1>3. ASSUME NEW a \in Array1D, Construct(a) \/ resize(a) PROVE Abstract!Next
    <2>1. a \in Array
      BY Zenon DEF Array
    <2>2. Construct(a) => Abstract!Construct(a)
      BY <2>1, ConstructRefines, GPUArrayAssumption, SMTT(30) DEF Construct
    <2> QED BY <1>3, <2>1, <2>2, ResizeRefines, Zenon DEF Abstract!Next
  <1>4. ASSUME NEW a \in Array2D, Construct2D(a) \/ resize2D(a) PROVE Abstract!Next
    <2>1. a \in Array
      BY Zenon DEF Array
    <2>2. ASSUME Construct2D(a) PROVE Abstract!Construct(a)
      <3>1. PICK width \in 1 .. MaxElements, k \in 1 .. MaxElements :
               ConstructShape(a, PitchOf(width) * k, PitchOf(width), k)
        BY <2>2, Zenon DEF Construct2D
      <3>2. k \in Nat /\ PitchOf(width) \in Nat
        BY GPUArrayAssumption, SMTT(30) DEF PitchOf
      <3>3. PitchOf(width) * k \in Nat
        BY <3>2, Z3
      <3> QED BY <2>1, <3>1, <3>2, <3>3, ConstructRefines, Zenon
    <2> QED BY <1>4, <2>1, <2>2, Resize2DRefines, Zenon DEF Abstract!Next
  <1>5. ASSUME NEW a \in Array, NEW b \in Array, Assign(a, b) \/ swap(a, b) PROVE Abstract!Next
    BY <1>5, AssignRefines, SwapRefines, Zenon DEF Abstract!Next
  <1>6. CASE UNCHANGED vars
    BY <1>6, Zenon DEF vars, memory, Abstract!vars, Abstract!shape, val
  <1> QED BY <1>1, <1>2, <1>3, <1>4, <1>5, <1>6, Zenon DEF Next, StepOf, Handle, Array

(* Users of a mirrored array cannot tell it from an array with a single    *)
(* content, whatever the sequence of host and device accesses.             *)
THEOREM Refinement == Spec => AbstractSpec
  <1>1. Init => Abstract!Init
    BY InitRefines, Zenon
  <1>2. CoherenceInv /\ CoherenceInv' /\ [Next]_vars => [Abstract!Next]_(Abstract!vars)
    BY NextRefines, Zenon
  <1> QED BY <1>1, <1>2, Coherence, PTL DEF Spec, AbstractSpec, Abstract!Spec
=============================================================================
