----------------------------- MODULE MCGPUArray -----------------------------
(***************************************************************************)
(* GPUArray for TLC.  In a behaviour the arrays of one group are used: two *)
(* one-dimensional arrays with a GPU, which are swapped and assigned to    *)
(* each other; a two-dimensional array with a GPU; a one-dimensional array *)
(* without one.                                                            *)
(***************************************************************************)
EXTENDS GPUArray, FiniteSets

CONSTANTS a1, a2, rows, cpu

VARIABLE used       \* the arrays of this behaviour; never changes

MCArray1D == {a1, a2, cpu}
Groups == {{a1, a2}, {rows}, {cpu}}

\* Bounds: the elements of each of two arrays, and in the two-dimensional array
\* those that are not zero, in both copies together.
MaxPaired == 1
MaxNonzero == 4

Nonzero(c) == {i \in DOMAIN c : c[i] # Zero}
WithinBounds ==
    /\ \A a \in {a1, a2} : m_num_elements[a] <= MaxPaired
    /\ Cardinality(Nonzero(h_data[rows])) + Cardinality(Nonzero(d_data[rows])) <= MaxNonzero

MCInit == Init /\ used \in Groups
MCNext == StepOf(used) /\ UNCHANGED used /\ WithinBounds'
MCSpec == MCInit /\ [][MCNext]_<<vars, used>>
=============================================================================
