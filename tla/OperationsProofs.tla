-------------------------- MODULE OperationsProofs --------------------------
(***************************************************************************)
(* What Operations promises, for any number of containers, lists and       *)
(* objects, and however attaching raises.  First what the list operations  *)
(* do to a sequence, then the inductive invariant and, part by part, that  *)
(* the steps keep it: the types and ownership, the schedule, and the two   *)
(* parts that relate Python to C++.                                        *)
(***************************************************************************)
EXTENDS Operations, TLAPS

\* The provers a step is given to unless it names one, with their time in seconds.
USE ZenonT(30), SMTT(30)

-----------------------------------------------------------------------------
(* Sequences, element by element. *)

\* What is known of the elements and of the length of a sequence.
LEMMA ElementOfSeq ==
  ASSUME NEW S, NEW s \in Seq(S), NEW n \in 1 .. Len(s)
  PROVE  s[n] \in S
PROOF
  OBVIOUS

LEMMA LenProperties ==
  ASSUME NEW S, NEW s \in Seq(S)
  PROVE  Len(s) \in Nat /\ s \in [1 .. Len(s) -> S] /\ DOMAIN s = 1 .. Len(s)
PROOF
  OBVIOUS

LEMMA EmptySeq ==
  ASSUME NEW S
  PROVE  /\ << >> \in Seq(S) /\ Len(<< >>) = 0
         /\ \A s \in Seq(S) : s # << >> => Len(s) \in Nat \ {0}
         /\ \A s \in Seq(S) : << >> \o s = s
PROOF
  OBVIOUS

LEMMA ConcatProperties ==
  ASSUME NEW S, NEW s \in Seq(S), NEW t \in Seq(S)
  PROVE  /\ s \o t \in Seq(S) /\ Len(s \o t) = Len(s) + Len(t)
         /\ \A j \in 1 .. Len(s) + Len(t) :
               (s \o t)[j] = IF j <= Len(s) THEN s[j] ELSE t[j - Len(s)]
PROOF
  OBVIOUS

LEMMA SubSeqProperties ==
  ASSUME NEW S, NEW s \in Seq(S), NEW m \in 1 .. Len(s) + 1, NEW n \in m - 1 .. Len(s)
  PROVE  /\ SubSeq(s, m, n) \in Seq(S) /\ Len(SubSeq(s, m, n)) = n - m + 1
         /\ \A j \in 1 .. n - m + 1 : SubSeq(s, m, n)[j] = s[m + j - 1]
PROOF
  OBVIOUS

\* list.insert: the elements from i on move up by one.
LEMMA InsertAtElements ==
  ASSUME NEW S, NEW s \in Seq(S), NEW i \in 1 .. Len(s) + 1, NEW e \in S
  PROVE  /\ InsertAt(s, i, e) \in Seq(S)
         /\ Len(InsertAt(s, i, e)) = Len(s) + 1
         /\ \A j \in 1 .. Len(s) + 1 :
               InsertAt(s, i, e)[j] = IF j < i THEN s[j] ELSE IF j = i THEN e ELSE s[j - 1]
PROOF
  <1> DEFINE p == SubSeq(s, 1, i - 1)
             q == SubSeq(s, i, Len(s))
             m == <<e>>
             a == p \o m
  <1>1. Len(s) \in Nat /\ \A j \in 1 .. Len(s) : s[j] \in S
    BY LenProperties, ElementOfSeq
  <1>2. p \in Seq(S) /\ Len(p) = i - 1 /\ \A j \in 1 .. i - 1 : p[j] = s[j]
    BY <1>1, SubSeqProperties, SMTT(30)
  <1>3. /\ q \in Seq(S) /\ Len(q) = Len(s) - i + 1
        /\ \A j \in 1 .. Len(s) - i + 1 : q[j] = s[i + j - 1]
    BY <1>1, SubSeqProperties, SMTT(30)
  <1>4. m \in Seq(S) /\ Len(m) = 1 /\ m[1] = e
    OBVIOUS
  <1>5. InsertAt(s, i, e) = a \o q
    BY DEF InsertAt
  <1> HIDE DEF p, q, m
  <1>6. /\ a \in Seq(S) /\ Len(a) = i
        /\ \A j \in 1 .. i : a[j] = IF j < i THEN s[j] ELSE e
    <2>1. /\ p \o m \in Seq(S) /\ Len(p \o m) = Len(p) + Len(m)
          /\ \A j \in 1 .. Len(p) + Len(m) :
                (p \o m)[j] = IF j <= Len(p) THEN p[j] ELSE m[j - Len(p)]
      BY <1>2, <1>4, ConcatProperties, Zenon
    <2>2. QED
      BY <1>1, <1>2, <1>4, <2>1, SMTT(30)
  <1> HIDE DEF a
  <1>7. /\ a \o q \in Seq(S) /\ Len(a \o q) = Len(s) + 1
        /\ \A j \in 1 .. Len(s) + 1 : (a \o q)[j] = IF j <= i THEN a[j] ELSE q[j - i]
    <2>1. /\ a \o q \in Seq(S) /\ Len(a \o q) = Len(a) + Len(q)
          /\ \A j \in 1 .. Len(a) + Len(q) :
                (a \o q)[j] = IF j <= Len(a) THEN a[j] ELSE q[j - Len(a)]
      BY <1>3, <1>6, ConcatProperties, ZenonT(60)
    <2>2. QED
      BY <1>1, <1>3, <1>6, <2>1, SMTT(30)
  <1>8. \A j \in 1 .. Len(s) + 1 : j > i => q[j - i] = s[j - 1]
    BY <1>1, <1>3
  <1>9. QED
    BY <1>1, <1>5, <1>6, <1>7, <1>8, SMTT(30)

\* The places of the elements, as one fact about the sequence w.
IsShifted(w, s, i, e) ==
    \A j \in 1 .. Len(s) + 1 : w[j] = IF j < i THEN s[j] ELSE IF j = i THEN e ELSE s[j - 1]

LEMMA InsertAtShifts ==
  ASSUME NEW S, NEW s \in Seq(S), NEW i \in 1 .. Len(s) + 1, NEW e \in S
  PROVE  IsShifted(InsertAt(s, i, e), s, i, e)
PROOF
  BY InsertAtElements, SMTT(30) DEF IsShifted

\* del list[i]: the elements after i move down by one.
LEMMA RemoveAtElements ==
  ASSUME NEW S, NEW s \in Seq(S), NEW i \in 1 .. Len(s)
  PROVE  /\ RemoveAt(s, i) \in Seq(S)
         /\ Len(RemoveAt(s, i)) = Len(s) - 1
         /\ \A j \in 1 .. Len(s) - 1 : RemoveAt(s, i)[j] = IF j < i THEN s[j] ELSE s[j + 1]
PROOF
  <1> DEFINE p == SubSeq(s, 1, i - 1)
             q == SubSeq(s, i + 1, Len(s))
  <1>1. Len(s) \in Nat /\ \A j \in 1 .. Len(s) : s[j] \in S
    BY LenProperties, ElementOfSeq
  <1>2. p \in Seq(S) /\ Len(p) = i - 1 /\ \A j \in 1 .. i - 1 : p[j] = s[j]
    BY <1>1, SubSeqProperties, SMTT(30)
  <1>3. /\ q \in Seq(S) /\ Len(q) = Len(s) - i
        /\ \A j \in 1 .. Len(s) - i : q[j] = s[i + j]
    BY <1>1, SubSeqProperties, SMTT(30)
  <1>4. RemoveAt(s, i) = p \o q
    BY DEF RemoveAt
  <1> HIDE DEF p, q
  <1>5. /\ p \o q \in Seq(S) /\ Len(p \o q) = Len(s) - 1
        /\ \A j \in 1 .. Len(s) - 1 : (p \o q)[j] = IF j <= i - 1 THEN p[j] ELSE q[j - (i - 1)]
    <2>1. /\ p \o q \in Seq(S) /\ Len(p \o q) = Len(p) + Len(q)
          /\ \A j \in 1 .. Len(p) + Len(q) :
                (p \o q)[j] = IF j <= Len(p) THEN p[j] ELSE q[j - Len(p)]
      BY <1>2, <1>3, ConcatProperties, ZenonT(60)
    <2>2. QED
      BY <1>1, <1>2, <1>3, <2>1, SMTT(30)
  <1>6. \A j \in 1 .. Len(s) - 1 : IF j <= i - 1 THEN p[j] = s[j] ELSE q[j - (i - 1)] = s[j + 1]
    BY <1>1, <1>2, <1>3, SMTT(30)
  <1>7. QED
    BY <1>1, <1>4, <1>5, <1>6, SMTT(30)

\* list[i] = e: the other elements stay where they are.
LEMMA ExceptElements ==
  ASSUME NEW S, NEW s \in Seq(S), NEW i \in 1 .. Len(s), NEW e \in S
  PROVE  /\ [s EXCEPT ![i] = e] \in Seq(S)
         /\ Len([s EXCEPT ![i] = e]) = Len(s)
         /\ \A j \in 1 .. Len(s) : [s EXCEPT ![i] = e][j] = IF j = i THEN e ELSE s[j]
PROOF
  OBVIOUS

-----------------------------------------------------------------------------
(* The inductive invariant. *)

TypeOK ==
    /\ lst \in [Container -> [Kind -> Seq(Op)]]
    /\ synced \in [Container -> [Kind -> BOOLEAN]]
    /\ scheduled \in [Container -> BOOLEAN]
    /\ integrator \in [Container -> Integ \union {NoObj}]
    /\ operations \in Container
    /\ added \in [Obj -> BOOLEAN]
    /\ cppObj \in [Obj -> Nat] /\ born \in [Obj -> Nat]
    /\ DOMAIN cppList = Kind
    /\ script \in Script /\ incomplete \in SUBSET Obj
    /\ pc \in Int /\ Idle <= pc /\ pc <= Len(Kinds) + 1

\* Only the simulation's container is scheduled, and then all its lists are
\* synced; while it is being scheduled the lists before the present one are.
ScheduleInv ==
    /\ \A c \in Container : scheduled[c] => c = operations /\ pc = Idle
    /\ scheduled[operations] => \A k \in Kind : synced[operations][k]
    /\ \A n \in 1 .. Len(Kinds) : n < pc => synced[operations][Kinds[n]]

\* An integrator with a C++ object belongs to a simulation.
IntegratorsAdded == \A i \in Integ : cppObj[i] # 0 => added[i]

\* The vector of kind k holds the C++ objects of the list's items.
ListMirrored(k) ==
    /\ cppList[k] \in Seq(Op \X Nat)
    /\ Len(cppList[k]) = Len(lst[operations][k])
    /\ \A i \in 1 .. Len(lst[operations][k]) : cppList[k][i] = Cpp(lst[operations][k][i])

\* Unless there was a mishap, the vectors hold the items of the synced lists of the
\* simulation's container, and no other container has a synced list.
MirrorInv ==
    mishaps \intersect {"appended", "replaced", "abandoned"} = {} =>
        /\ \A k \in Kind : synced[operations][k] => ListMirrored(k)
        /\ \A k \in Kind : ~synced[operations][k] => cppList[k] = << >>
        /\ \A c \in Container, k \in Kind : synced[c][k] => c = operations

\* Unless there was a mishap, no two containers have the same integrator, and only
\* the one of the simulation's container has a C++ object, which the C++ System knows.
IntegratorInv ==
    mishaps \intersect {"not told", "shared", "abandoned"} = {} =>
        /\ \A c, d \in Container : integrator[c] = integrator[d] /\ integrator[c] # NoObj => c = d
        /\ \A c \in Container :
              c # operations /\ integrator[c] # NoObj => cppObj[integrator[c]] = 0
        /\ integrator[operations] # NoObj =>
              /\ cppObj[integrator[operations]] # 0
                    => cppIntegrator = <<integrator[operations], cppObj[integrator[operations]]>>
              /\ scheduled[operations] \/ pc >= 1 => cppObj[integrator[operations]] # 0

IInv ==
    /\ TypeOK /\ OnePlace /\ ScheduleInv /\ SyncedIsAttached
    /\ IntegratorsAdded /\ MirrorInv /\ IntegratorInv

-----------------------------------------------------------------------------
(* What the methods do to the lists. *)

\* A method of one list leaves all others alone.
LEMMA ListSet ==
  ASSUME TypeOK, NEW c \in Container, NEW k \in Kind, NEW s \in Seq(Op),
         lst' = [lst EXCEPT ![c][k] = s]
  PROVE  /\ lst' \in [Container -> [Kind -> Seq(Op)]]
         /\ lst'[c][k] = s
         /\ \A d \in Container, j \in Kind : d # c \/ j # k => lst'[d][j] = lst[d][j]
PROOF
  BY DEF TypeOK

\* An edit of one C++ vector leaves the others alone.
LEMMA VectorSet ==
  ASSUME TypeOK, NEW k \in Kind, NEW s, cppList' = [cppList EXCEPT ![k] = s]
  PROVE  /\ DOMAIN cppList' = Kind /\ cppList'[k] = s
         /\ \A j \in Kind : j # k => cppList'[j] = cppList[j]
PROOF
  BY DEF TypeOK

\* SyncedList.insert, also when it attaches the value.
LEMMA InsertEffect ==
  ASSUME TypeOK, NEW c \in Container, NEW k \in Kind, NEW o \in Op,
         NEW i \in 1 .. Len(lst[c][k]) + 1, Insert(c, k, i, o)
  PROVE  /\ lst' \in [Container -> [Kind -> Seq(Op)]]
         /\ Len(lst'[c][k]) = Len(lst[c][k]) + 1
         /\ \A j \in 1 .. Len(lst[c][k]) + 1 :
               lst'[c][k][j] = IF j < i THEN lst[c][k][j]
                               ELSE IF j = i THEN o ELSE lst[c][k][j - 1]
         /\ \A d \in Container, j \in Kind : d # c \/ j # k => lst'[d][j] = lst[d][j]
PROOF
  <1> DEFINE l == lst[c][k]
             s == InsertAt(l, i, o)
  <1>1. lst' = [lst EXCEPT ![c][k] = s]
    BY DEF Insert
  <1>2. l \in Seq(Op) /\ i \in 1 .. Len(l) + 1
    BY SMTT(30) DEF TypeOK
  <1> HIDE DEF l
  <1>3. s \in Seq(Op) /\ Len(s) = Len(l) + 1
    BY <1>2, InsertAtElements, SMTT(30)
  <1>4. \A j \in 1 .. Len(l) + 1 : s[j] = IF j < i THEN l[j] ELSE IF j = i THEN o ELSE l[j - 1]
    BY <1>2, InsertAtElements, SMTT(30)
  <1> HIDE DEF s
  <1>5. lst' \in [Container -> [Kind -> Seq(Op)]]
    BY <1>1, <1>3, ListSet, Zenon
  <1>6. lst'[c][k] = s
    BY <1>1, <1>3, ListSet, ZenonT(60)
  <1>7. \A d \in Container, j \in Kind : d # c \/ j # k => lst'[d][j] = lst[d][j]
    BY <1>1, <1>3, ListSet, SMTT(30)
  <1>8. QED
    BY <1>3, <1>4, <1>5, <1>6, <1>7 DEF l

\* SyncedList.__setitem__.
LEMMA SetItemEffect ==
  ASSUME TypeOK, NEW c \in Container, NEW k \in Kind, NEW o \in Op,
         NEW i \in 1 .. Len(lst[c][k]), SetItem(c, k, i, o)
  PROVE  /\ lst' \in [Container -> [Kind -> Seq(Op)]]
         /\ Len(lst'[c][k]) = Len(lst[c][k])
         /\ \A j \in 1 .. Len(lst[c][k]) : lst'[c][k][j] = IF j = i THEN o ELSE lst[c][k][j]
         /\ \A d \in Container, j \in Kind : d # c \/ j # k => lst'[d][j] = lst[d][j]
PROOF
  <1> DEFINE l == lst[c][k]
             s == [l EXCEPT ![i] = o]
  <1>1. lst' = [lst EXCEPT ![c][k] = s]
    BY DEF SetItem
  <1>2. l \in Seq(Op) /\ i \in 1 .. Len(l)
    BY SMTT(30) DEF TypeOK
  <1> HIDE DEF l
  <1>3. s \in Seq(Op) /\ Len(s) = Len(l)
    BY <1>2, ExceptElements, SMTT(30)
  <1>4. \A j \in 1 .. Len(l) : s[j] = IF j = i THEN o ELSE l[j]
    BY <1>2, ExceptElements, SMTT(30)
  <1> HIDE DEF s
  <1>5. lst' \in [Container -> [Kind -> Seq(Op)]]
    BY <1>1, <1>3, ListSet, Zenon
  <1>6. lst'[c][k] = s
    BY <1>1, <1>3, ListSet, ZenonT(60)
  <1>7. \A d \in Container, j \in Kind : d # c \/ j # k => lst'[d][j] = lst[d][j]
    BY <1>1, <1>3, ListSet, SMTT(30)
  <1>8. QED
    BY <1>3, <1>4, <1>5, <1>6, <1>7 DEF l

\* SyncedList.__delitem__.
LEMMA DelItemEffect ==
  ASSUME TypeOK, NEW c \in Container, NEW k \in Kind,
         NEW i \in 1 .. Len(lst[c][k]), DelItem(c, k, i)
  PROVE  /\ lst' \in [Container -> [Kind -> Seq(Op)]]
         /\ Len(lst'[c][k]) = Len(lst[c][k]) - 1
         /\ \A j \in 1 .. Len(lst[c][k]) - 1 :
               lst'[c][k][j] = IF j < i THEN lst[c][k][j] ELSE lst[c][k][j + 1]
         /\ \A d \in Container, j \in Kind : d # c \/ j # k => lst'[d][j] = lst[d][j]
PROOF
  <1> DEFINE l == lst[c][k]
             s == RemoveAt(l, i)
  <1>1. lst' = [lst EXCEPT ![c][k] = s]
    BY DEF DelItem
  <1>2. l \in Seq(Op) /\ i \in 1 .. Len(l)
    BY SMTT(30) DEF TypeOK
  <1> HIDE DEF l
  <1>3. s \in Seq(Op) /\ Len(s) = Len(l) - 1
    BY <1>2, RemoveAtElements
  <1>4. \A j \in 1 .. Len(l) - 1 : s[j] = IF j < i THEN l[j] ELSE l[j + 1]
    BY <1>2, RemoveAtElements
  <1> HIDE DEF s
  <1>5. lst' \in [Container -> [Kind -> Seq(Op)]]
    BY <1>1, <1>3, ListSet, Zenon
  <1>6. lst'[c][k] = s
    BY <1>1, <1>3, ListSet, ZenonT(60)
  <1>7. \A d \in Container, j \in Kind : d # c \/ j # k => lst'[d][j] = lst[d][j]
    BY <1>1, <1>3, ListSet, SMTT(30)
  <1>8. QED
    BY <1>3, <1>4, <1>5, <1>6, <1>7 DEF l

\* What Attached creates.
LEMMA AttachedTypes ==
  ASSUME TypeOK, NEW S, Attached(S)
  PROVE  /\ cppObj' \in [Obj -> Nat] /\ born' \in [Obj -> Nat]
         /\ \A o \in Obj : o \in S => cppObj'[o] = born[o] + 1 /\ cppObj'[o] # 0
         /\ \A o \in Obj : o \notin S => cppObj'[o] = cppObj[o]
PROOF
  BY DEF TypeOK, Attached

\* Attaching a value changes the flags of that object and no other.
LEMMA OneAttached ==
  ASSUME TypeOK, NEW c \in Container, NEW k \in Kind, NEW o \in Op, AttachValue(c, k, o)
  PROVE  /\ cppObj' \in [Obj -> Nat] /\ born' \in [Obj -> Nat]
         /\ ~added[o] /\ added' = [added EXCEPT ![o] = TRUE]
         /\ \A x \in Obj : x # o => cppObj'[x] = cppObj[x]
         /\ synced[c][k] => cppObj'[o] # 0
         /\ ~synced[c][k] => cppObj' = cppObj
PROOF
  <1>1. CASE synced[c][k]
    <2>1. Attached({o})
      BY <1>1 DEF AttachValue
    <2>2. cppObj' \in [Obj -> Nat] /\ born' \in [Obj -> Nat]
      BY <2>1, AttachedTypes
    <2>3. \A x \in Obj : x # o => cppObj'[x] = cppObj[x]
      BY <2>1, AttachedTypes
    <2>4. o \in Obj => cppObj'[o] # 0
      BY <2>1, AttachedTypes
    <2>5. ~added[o] /\ added' = [added EXCEPT ![o] = TRUE]
      BY DEF AttachValue, MayBeAdded
    <2>6. QED
      BY <1>1, <2>2, <2>3, <2>4, <2>5 DEF Obj
  <1>2. CASE ~synced[c][k]
    BY <1>2 DEF AttachValue, MayBeAdded, TypeOK
  <1>3. QED
    BY <1>1, <1>2

\* _sync of one list: nothing happens when it is synced, otherwise the items are
\* attached up to the n-th, and the next one too, which raises.
LEMMA SyncEffect ==
  ASSUME TypeOK, Sync
  PROVE  /\ pc \in 1 .. Len(Kinds) /\ Len(Kinds) \in Nat /\ Kinds[pc] \in Kind
         /\ UNCHANGED <<lst, scheduled, integrator, operations, cppIntegrator, script, incomplete>>
         /\ \/ /\ synced[operations][Kinds[pc]] /\ pc' = pc + 1
               /\ UNCHANGED <<synced, added, cppObj, born, cppList, mishaps>>
            \/ /\ ~synced[operations][Kinds[pc]]
               /\ \E n \in 0 .. Len(lst[operations][Kinds[pc]]) : SyncList(Kinds[pc], n)
PROOF
  <1>1. pc \in 1 .. Len(Kinds) /\ Len(Kinds) \in Nat
    BY LenProperties, OperationsAssumption DEF Sync
  <1>2. Kinds[pc] \in Kind
    BY <1>1, ElementOfSeq, OperationsAssumption
  <1>3. QED
    BY <1>1, <1>2 DEF Sync, user

\* _sync of a list of which n items are attached: it is synced if these are all.
LEMMA SyncListEffect ==
  ASSUME TypeOK, NEW k \in Kind, NEW n \in 0 .. Len(lst[operations][k]), SyncList(k, n)
  PROVE  /\ cppObj' \in [Obj -> Nat] /\ born' \in [Obj -> Nat]
         /\ added' \in [Obj -> BOOLEAN] /\ \A o \in Obj : added[o] => added'[o]
         /\ synced' = [synced EXCEPT ![operations][k] = (n = Len(lst[operations][k]))]
         /\ pc' = IF n = Len(lst[operations][k]) THEN pc + 1 ELSE Idle
         /\ \A o \in Obj : o \notin Items(lst[operations][k]) => cppObj'[o] = cppObj[o]
         /\ n = Len(lst[operations][k]) =>
               \A i \in 1 .. n : cppObj'[lst[operations][k][i]] # 0
PROOF
  <1> DEFINE l == lst[operations][k]
             raises == n < Len(l)
             tried == {l[i] : i \in 1 .. (IF raises THEN n + 1 ELSE n)}
  <1>1. /\ l \in Seq(Op) /\ Len(l) \in Nat /\ n \in 0 .. Len(l)
        /\ \A i \in 1 .. Len(l) : l[i] \in Op
    BY LenProperties, ElementOfSeq, SMTT(30) DEF TypeOK
  <1>2. /\ Attached(tried)
        /\ added' = [o \in Obj |-> o \in tried \/ added[o]]
        /\ synced' = [synced EXCEPT ![operations][k] = ~raises]
        /\ pc' = IF raises THEN Idle ELSE pc + 1
    BY DEF SyncList
  <1>3. tried \subseteq Items(l)
    BY <1>1, SMTT(30) DEF Items
  <1>4. ~raises <=> n = Len(l)
    BY <1>1
  <1>5. n = Len(l) => \A i \in 1 .. n : l[i] \in tried /\ l[i] \in Obj
    BY <1>1, <1>4 DEF Obj
  <1>6. cppObj' \in [Obj -> Nat] /\ born' \in [Obj -> Nat]
    BY <1>2, AttachedTypes
  <1>7. \A o \in Obj : o \in tried => cppObj'[o] # 0
    BY <1>2, AttachedTypes
  <1>8. \A o \in Obj : o \notin tried => cppObj'[o] = cppObj[o]
    BY <1>2, AttachedTypes
  <1>9. added' \in [Obj -> BOOLEAN] /\ \A o \in Obj : added[o] => added'[o]
    BY <1>2 DEF TypeOK
  <1>10. /\ synced' = [synced EXCEPT ![operations][k] = (n = Len(l))]
         /\ pc' = IF n = Len(l) THEN pc + 1 ELSE Idle
    BY <1>2, <1>4, Zenon
  <1> HIDE DEF l, tried, raises
  <1>11. /\ \A o \in Obj : o \notin Items(l) => cppObj'[o] = cppObj[o]
         /\ n = Len(l) => \A i \in 1 .. n : cppObj'[l[i]] # 0
    BY <1>3, <1>5, <1>7, <1>8
  <1>12. QED
    BY <1>6, <1>9, <1>10, <1>11 DEF l

-----------------------------------------------------------------------------
(* The steps keep each part of the invariant. *)

\* Types.
LEMMA TypesKept ==
  ASSUME IInv, [Next]_vars
  PROVE  TypeOK'
PROOF
  <1>1. ASSUME NEW c \in Container, NEW k \in Kind, NEW o \in Op, AddingRaises(c, k, o)
        PROVE  TypeOK'
    <2>1. AttachValue(c, k, o)
      BY <1>1 DEF AddingRaises
    <2>2. cppObj' \in [Obj -> Nat] /\ born' \in [Obj -> Nat] /\ added' \in [Obj -> BOOLEAN]
      BY <2>1, OneAttached, ZenonT(60) DEF IInv, TypeOK
    <2>3. QED
      BY <1>1, <2>2 DEF IInv, TypeOK, AddingRaises, user
  <1>2. ASSUME NEW c \in Container, NEW k \in Kind, NEW o \in Op,
               NEW i \in 1 .. Len(lst[c][k]) + 1, Insert(c, k, i, o)
        PROVE  TypeOK'
    <2>1. AttachValue(c, k, o)
      BY <1>2 DEF Insert
    <2>2. cppObj' \in [Obj -> Nat] /\ born' \in [Obj -> Nat] /\ added' \in [Obj -> BOOLEAN]
      BY <2>1, OneAttached, ZenonT(60) DEF IInv, TypeOK
    <2>3. lst' \in [Container -> [Kind -> Seq(Op)]]
      BY <1>2, InsertEffect DEF IInv
    <2>4. DOMAIN cppList' = Kind
      BY <1>2 DEF IInv, TypeOK, Insert, Inserted
    <2>5. QED
      BY <1>2, <2>2, <2>3, <2>4 DEF IInv, TypeOK, Insert, user
  <1>3. ASSUME NEW c \in Container, NEW k \in Kind, NEW o \in Op,
               NEW i \in 1 .. Len(lst[c][k]), SetItem(c, k, i, o)
        PROVE  TypeOK'
    <2>1. lst' \in [Container -> [Kind -> Seq(Op)]]
      BY <1>3, SetItemEffect DEF IInv
    <2>2. lst[c][k][i] \in Obj /\ o \in Obj
      BY ElementOfSeq, SMTT(30) DEF IInv, TypeOK, Obj
    <2>3. cppObj' \in [Obj -> Nat]
      <3> DEFINE old == lst[c][k][i]
                 new == born[o] + 1
      <3>1. cppObj' = cppObj \/ cppObj' = [cppObj EXCEPT ![o] = new, ![old] = 0]
        BY <1>3 DEF SetItem
      <3>2. cppObj \in [Obj -> Nat] /\ new \in Nat
        BY <2>2, SMTT(30) DEF IInv, TypeOK
      <3> HIDE DEF old, new
      <3>3. QED
        BY <3>1, <3>2, SMTT(30)
    <2>4. born' \in [Obj -> Nat]
      <3>1. born' = born \/ born' = [born EXCEPT ![o] = born[o] + 1]
        BY <1>3 DEF SetItem
      <3>2. born \in [Obj -> Nat]
        BY DEF IInv, TypeOK
      <3>3. QED
        BY <2>2, <3>1, <3>2, SMTT(30)
    <2>5. added' \in [Obj -> BOOLEAN]
      <3>1. added' = [AfterRemoval(lst[c][k][i]) EXCEPT ![o] = TRUE]
        BY <1>3 DEF SetItem
      <3>2. QED
        BY <3>1, Zenon DEF IInv, TypeOK, AfterRemoval
    <2>6. DOMAIN cppList' = Kind
      BY <1>3 DEF IInv, TypeOK, SetItem
    <2>7. QED
      BY <1>3, <2>1, <2>3, <2>4, <2>5, <2>6 DEF IInv, TypeOK, SetItem, user
  <1>4. ASSUME NEW c \in Container, NEW k \in Kind, NEW i \in 1 .. Len(lst[c][k]),
               DelItem(c, k, i)
        PROVE  TypeOK'
    <2>1. lst' \in [Container -> [Kind -> Seq(Op)]]
      BY <1>4, DelItemEffect DEF IInv
    <2>2. lst[c][k][i] \in Obj
      BY ElementOfSeq, SMTT(30) DEF IInv, TypeOK, Obj
    <2>3. cppObj' \in [Obj -> Nat]
      <3>1. cppObj' = cppObj \/ cppObj' = [cppObj EXCEPT ![lst[c][k][i]] = 0]
        BY <1>4 DEF DelItem
      <3>2. cppObj \in [Obj -> Nat] /\ born \in [Obj -> Nat]
        BY DEF IInv, TypeOK
      <3>3. QED
        BY <3>1, <3>2, SMTT(30)
    <2>4. added' \in [Obj -> BOOLEAN]
      BY <1>4, Zenon DEF IInv, TypeOK, DelItem, AfterRemoval
    <2>5. DOMAIN cppList' = Kind
      BY <1>4 DEF IInv, TypeOK, DelItem
    <2>6. QED
      BY <1>4, <2>1, <2>3, <2>4, <2>5 DEF IInv, TypeOK, DelItem, user
  <1>5. ASSUME NEW c \in Container, NEW op \in Integ \union {NoObj}, SetIntegrator(c, op)
        PROVE  TypeOK'
    <2>1. op # NoObj => op \in Obj
      BY DEF Obj
    <2>2. integrator[c] # NoObj => integrator[c] \in Obj
      BY DEF IInv, TypeOK, Obj
    <2>3. cppObj' \in [Obj -> Nat]
      <3> DEFINE create == IF scheduled[c] /\ op # NoObj
                           THEN [cppObj EXCEPT ![op] = born[op] + 1] ELSE cppObj
      <3>1. \/ cppObj' = create
            \/ cppObj' = [create EXCEPT ![integrator[c]] = 0]
        BY <1>5 DEF SetIntegrator
      <3>2. create \in [Obj -> Nat]
        BY <2>1, SMTT(30) DEF IInv, TypeOK
      <3> HIDE DEF create
      <3>3. QED
        BY <3>1, <3>2, SMTT(30)
    <2>4. born' \in [Obj -> Nat]
      <3>1. born' = born \/ (op # NoObj /\ born' = [born EXCEPT ![op] = born[op] + 1])
        BY <1>5 DEF SetIntegrator
      <3>2. born \in [Obj -> Nat]
        BY DEF IInv, TypeOK
      <3>3. QED
        BY <2>1, <3>1, <3>2, SMTT(30)
    <2>5. added' \in [Obj -> BOOLEAN]
      BY <1>5, <2>1, <2>2, ZenonT(60) DEF IInv, TypeOK, SetIntegrator, HasSimulation
    <2>6. QED
      BY <1>5, <2>3, <2>4, <2>5 DEF IInv, TypeOK, SetIntegrator, user
  <1>6. CASE Run
    BY <1>6, LenProperties, OperationsAssumption, SMTT(30) DEF IInv, TypeOK, Run, Idle, AtIntegrator, user
  <1>7. CASE ScheduleIntegrator
    <2>1. Len(Kinds) \in Nat
      BY LenProperties, OperationsAssumption
    <2>2. CASE UNCHANGED <<added, cppObj, born>> /\ pc' = 1
      BY <1>7, <2>1, <2>2, SMTT(30) DEF IInv, TypeOK, ScheduleIntegrator, Idle, user
    <2>3. CASE /\ integrator[operations] # NoObj
               /\ Attached({integrator[operations]})
               /\ added' = [added EXCEPT ![integrator[operations]] = TRUE]
               /\ pc' \in {Idle, 1}
      <3>1. integrator[operations] \in Obj
        BY <2>3 DEF IInv, TypeOK, Obj
      <3>2. cppObj' \in [Obj -> Nat] /\ born' \in [Obj -> Nat]
        BY <2>3, AttachedTypes DEF IInv
      <3>3. added' \in [Obj -> BOOLEAN]
        BY <2>3, <3>1 DEF IInv, TypeOK
      <3>4. pc' \in Int /\ Idle <= pc' /\ pc' <= Len(Kinds) + 1
        BY <2>1, <2>3 DEF Idle
      <3>5. /\ UNCHANGED <<lst, synced, scheduled, integrator, operations, cppList, user>>
            /\ TypeOK
        BY <1>7, Zenon DEF IInv, ScheduleIntegrator
      <3>6. QED
        BY <3>2, <3>3, <3>4, <3>5 DEF TypeOK, user
    <2>4. QED
      BY <1>7, <2>2, <2>3 DEF ScheduleIntegrator
  <1>8. CASE Sync
    <2> DEFINE k == Kinds[pc]
    <2>1. /\ pc \in 1 .. Len(Kinds) /\ Len(Kinds) \in Nat /\ k \in Kind
          /\ UNCHANGED <<lst, scheduled, integrator, operations, cppIntegrator, script, incomplete>>
      BY <1>8, SyncEffect DEF IInv
    <2>2. CASE UNCHANGED <<synced, added, cppObj, born, cppList>> /\ pc' = pc + 1
      BY <2>1, <2>2 DEF IInv, TypeOK, Idle
    <2>3. ASSUME NEW n \in 0 .. Len(lst[operations][k]), SyncList(k, n)
          PROVE  TypeOK'
      <3>1. cppObj' \in [Obj -> Nat] /\ born' \in [Obj -> Nat] /\ added' \in [Obj -> BOOLEAN]
        BY <2>1, <2>3, SyncListEffect DEF IInv
      <3>2. /\ synced' = [synced EXCEPT ![operations][k] = (n = Len(lst[operations][k]))]
            /\ pc' = IF n = Len(lst[operations][k]) THEN pc + 1 ELSE Idle
        BY <2>1, <2>3, SyncListEffect DEF IInv
      <3>3. DOMAIN cppList' = Kind
        BY <2>3, Zenon DEF IInv, TypeOK, SyncList
      <3>4. synced' \in [Container -> [Kind -> BOOLEAN]]
        BY <2>1, <3>2 DEF IInv, TypeOK
      <3>5. pc' \in Int /\ Idle <= pc' /\ pc' <= Len(Kinds) + 1
        BY <2>1, <3>2 DEF Idle
      <3>6. QED
        BY <2>1, <3>1, <3>3, <3>4, <3>5 DEF IInv, TypeOK
    <2>4. QED
      BY <1>8, <2>2, <2>3, SyncEffect DEF IInv
  <1>9. CASE Scheduled
    BY <1>9, LenProperties, OperationsAssumption, SMTT(30) DEF IInv, TypeOK, Scheduled, Idle, user
  <1>10. ASSUME NEW c \in Container, SetOperations(c)
        PROVE  TypeOK'
    <2>1. Len(Kinds) \in Nat
      BY LenProperties, OperationsAssumption
    <2>2. cppObj' \in [Obj -> Nat] /\ added' \in [Obj -> BOOLEAN]
      BY <1>10, SMTT(30) DEF IInv, TypeOK, SetOperations, Detached, AddedAfterUnsync
    <2>3. synced' = synced \/ synced' = [synced EXCEPT ![operations] = [k \in Kind |-> FALSE]]
      BY <1>10 DEF SetOperations, SyncedAfterUnsync
    <2>4. synced' \in [Container -> [Kind -> BOOLEAN]]
      <3>1. synced \in [Container -> [Kind -> BOOLEAN]] /\ [k \in Kind |-> FALSE] \in [Kind -> BOOLEAN]
        BY DEF IInv, TypeOK
      <3>2. QED
        BY <2>3, <3>1, Zenon
    <2>5. scheduled' \in [Container -> BOOLEAN] /\ pc' \in {pc, AtIntegrator}
      BY <1>10, Zenon DEF IInv, TypeOK, SetOperations
    <2>6. operations' \in Container /\ UNCHANGED <<lst, integrator, born, cppList, script, incomplete>>
      BY <1>10 DEF SetOperations, user
    <2>7. QED
      BY <2>1, <2>2, <2>4, <2>5, <2>6 DEF IInv, TypeOK, Idle, AtIntegrator
  <1>11. ASSUME NEW o \in Obj, Complete(o)
        PROVE  TypeOK'
    BY <1>11 DEF IInv, TypeOK, Complete, user
  <1>12. CASE UNCHANGED vars
    BY <1>12 DEF IInv, TypeOK, vars, user
  <1>13. script.containers \subseteq Container
    BY DEF IInv, TypeOK, Script
  <1>14. QED
    BY <1>1, <1>2, <1>3, <1>4, <1>5, <1>6, <1>7, <1>8, <1>9, <1>10, <1>11, <1>12, <1>13 DEF Next

\* Two places of the lists that hold different objects.
LEMMA Places ==
  ASSUME TypeOK, OnePlace, NEW c \in Container, NEW d \in Container, NEW j \in Kind, NEW k \in Kind,
         NEW m \in 1 .. Len(lst[c][j]), NEW n \in 1 .. Len(lst[d][k])
  PROVE  /\ lst[c][j][m] \in Op /\ lst[d][k][n] \in Op
         /\ added[lst[c][j][m]]
         /\ lst[c][j][m] = lst[d][k][n] => c = d /\ j = k /\ m = n
PROOF
  <1>1. lst[c][j] \in Seq(Op) /\ lst[d][k] \in Seq(Op)
    BY SMTT(30) DEF TypeOK
  <1>2. DOMAIN lst[c][j] = 1 .. Len(lst[c][j]) /\ DOMAIN lst[d][k] = 1 .. Len(lst[d][k])
    BY <1>1
  <1>3. lst[c][j][m] \in Op /\ lst[d][k][n] \in Op
    BY <1>1, ElementOfSeq
  <1>4. QED
    BY <1>2, <1>3, SMTT(30) DEF OnePlace

\* A method changes one list, c's of kind k: it puts o at position i, if there is such
\* a position, and keeps at every other position m what was at position old[m].
Moved(c, k, o, i, old) ==
    /\ lst' \in [Container -> [Kind -> Seq(Op)]]
    /\ \A d \in Container, j \in Kind : d # c \/ j # k => lst'[d][j] = lst[d][j]
    /\ \A m \in 1 .. Len(lst'[c][k]) : m = i => lst'[c][k][m] = o /\ ~added[o] /\ added'[o]
    /\ \A m \in 1 .. Len(lst'[c][k]) : m # i =>
          old[m] \in 1 .. Len(lst[c][k]) /\ lst'[c][k][m] = lst[c][k][old[m]]
    /\ \A m, n \in 1 .. Len(lst'[c][k]) : m # i /\ n # i /\ old[m] = old[n] => m = n
    /\ \A d \in Container, j \in Kind : \A n \in 1 .. Len(lst[d][j]) :
          (d # c \/ j # k \/ \E m \in 1 .. Len(lst'[c][k]) : m # i /\ old[m] = n)
          => added'[lst[d][j][n]]

\* Such a method keeps everything in one place.
LEMMA PlacesKept ==
  ASSUME TypeOK, OnePlace, NEW c \in Container, NEW k \in Kind, NEW o, NEW i, NEW old,
         Moved(c, k, o, i, old)
  PROVE  OnePlace'
PROOF
  <1> DEFINE Source(d, j, m) ==
               \/ /\ d = c /\ j = k /\ m = i
                  /\ lst'[d][j][m] = o /\ ~added[o] /\ added'[o]
               \/ \E w \in 1 .. Len(lst[d][j]) :
                     /\ lst'[d][j][m] = lst[d][j][w] /\ added'[lst[d][j][w]]
                     /\ IF d = c /\ j = k THEN m # i /\ w = old[m] ELSE w = m
  <1>1. ASSUME NEW d \in Container, NEW j \in Kind, NEW m \in 1 .. Len(lst'[d][j])
        PROVE  Source(d, j, m)
    <2>1. CASE d = c /\ j = k /\ m = i
      BY <2>1 DEF Moved
    <2>2. CASE d = c /\ j = k /\ m # i
      <3>1. /\ old[m] \in 1 .. Len(lst[d][j]) /\ lst'[d][j][m] = lst[d][j][old[m]]
            /\ added'[lst[d][j][old[m]]]
        BY <2>2, Zenon DEF Moved
      <3>2. QED
        BY <2>2, <3>1
    <2>3. CASE d # c \/ j # k
      <3>1. lst'[d][j] = lst[d][j]
        BY <2>3, SMTT(30) DEF Moved
      <3>2. added'[lst[d][j][m]]
        BY <2>3, <3>1 DEF Moved
      <3>3. QED
        BY <2>3, <3>1, <3>2
    <2>4. QED
      BY <2>1, <2>2, <2>3
  <1> HIDE DEF Source
  <1>2. \A d \in Container, j \in Kind : \A w \in 1 .. Len(lst[d][j]) : added[lst[d][j][w]]
    BY Places
  <1>3. \A d, e \in Container, j, l \in Kind :
           \A v \in 1 .. Len(lst[d][j]), w \in 1 .. Len(lst[e][l]) :
              lst[d][j][v] = lst[e][l][w] => d = e /\ j = l /\ v = w
    BY Places, SMTT(30)
  <1>4. ASSUME NEW d \in Container, NEW j \in Kind, NEW m \in 1 .. Len(lst'[d][j]),
               NEW e \in Container, NEW l \in Kind, NEW n \in 1 .. Len(lst'[e][l]),
               lst'[d][j][m] = lst'[e][l][n]
        PROVE  d = e /\ j = l /\ m = n
    <2>1. Source(d, j, m) /\ Source(e, l, n)
      BY <1>1
    <2>2. CASE d = c /\ j = k /\ m = i /\ lst'[d][j][m] = o /\ ~added[o]
      <3>1. \/ e = c /\ l = k /\ n = i
            \/ \E w \in 1 .. Len(lst[e][l]) : lst'[e][l][n] = lst[e][l][w]
        BY <2>1 DEF Source
      <3>2. QED
        BY <1>2, <1>4, <2>2, <3>1
    <2>3. CASE e = c /\ l = k /\ n = i /\ lst'[e][l][n] = o /\ ~added[o]
      <3>1. \/ d = c /\ j = k /\ m = i
            \/ \E w \in 1 .. Len(lst[d][j]) : lst'[d][j][m] = lst[d][j][w]
        BY <2>1 DEF Source
      <3>2. QED
        BY <1>2, <1>4, <2>3, <3>1
    <2>4. ASSUME NEW v \in 1 .. Len(lst[d][j]), NEW w \in 1 .. Len(lst[e][l]),
                 lst'[d][j][m] = lst[d][j][v], lst'[e][l][n] = lst[e][l][w],
                 IF d = c /\ j = k THEN m # i /\ v = old[m] ELSE v = m,
                 IF e = c /\ l = k THEN n # i /\ w = old[n] ELSE w = n
          PROVE  d = e /\ j = l /\ m = n
      <3>1. lst[d][j][v] = lst[e][l][w]
        BY <1>4, <2>4, Zenon
      <3>2. d = e /\ j = l /\ v = w
        BY <3>1, <1>3, SMTT(30)
      <3>3. QED
        BY <2>4, <3>2, SMTT(30) DEF Moved
    <2>5. \/ d = c /\ j = k /\ m = i /\ lst'[d][j][m] = o /\ ~added[o]
          \/ \E v \in 1 .. Len(lst[d][j]) :
                /\ lst'[d][j][m] = lst[d][j][v]
                /\ IF d = c /\ j = k THEN m # i /\ v = old[m] ELSE v = m
      BY <2>1 DEF Source
    <2>6. \/ e = c /\ l = k /\ n = i /\ lst'[e][l][n] = o /\ ~added[o]
          \/ \E w \in 1 .. Len(lst[e][l]) :
                /\ lst'[e][l][n] = lst[e][l][w]
                /\ IF e = c /\ l = k THEN n # i /\ w = old[n] ELSE w = n
      BY <2>1 DEF Source
    <2>7. QED
      BY <2>2, <2>3, <2>4, <2>5, <2>6
  <1>5. \A d \in Container, j \in Kind : DOMAIN lst'[d][j] = 1 .. Len(lst'[d][j])
    BY SMTT(30) DEF Moved
  <1>6. \A d \in Container, j \in Kind : \A m \in 1 .. Len(lst'[d][j]) : added'[lst'[d][j][m]]
    BY <1>1, SMTT(30) DEF Source
  <1>7. ASSUME NEW d \in Container, NEW e \in Container, NEW j \in Kind, NEW l \in Kind,
               NEW m \in DOMAIN lst'[d][j], NEW n \in DOMAIN lst'[e][l]
        PROVE  /\ lst'[d][j][m] = lst'[e][l][n] => <<d, j, m>> = <<e, l, n>>
               /\ added'[lst'[d][j][m]]
    <2>1. m \in 1 .. Len(lst'[d][j]) /\ n \in 1 .. Len(lst'[e][l])
      BY <1>5
    <2>2. lst'[d][j][m] = lst'[e][l][n] => d = e /\ j = l /\ m = n
      BY <1>4, <2>1, SMTT(30)
    <2>3. QED
      BY <1>6, <2>1, <2>2
  <1>8. QED
    BY <1>7 DEF OnePlace

\* A step that leaves the lists alone and removes nothing.
LEMMA SameLists ==
  ASSUME TypeOK, OnePlace, lst' = lst, \A o \in Op : added[o] => added'[o]
  PROVE  OnePlace'
PROOF
  <1>1. \A c \in Container, j \in Kind : \A m \in DOMAIN lst[c][j] : lst[c][j][m] \in Op
    BY ElementOfSeq, SMTT(30) DEF TypeOK
  <1>2. QED
    BY <1>1, SMTT(30) DEF OnePlace

\* insert() and __setitem__() refuse what is added, and what is removed was in one place.
LEMMA OnePlaceKept ==
  ASSUME IInv, [Next]_vars
  PROVE  OnePlace'
PROOF
  <1>1. ASSUME NEW c \in Container, NEW k \in Kind, NEW o \in Op, AddingRaises(c, k, o)
        PROVE  OnePlace'
    <2>1. AttachValue(c, k, o) /\ lst' = lst
      BY <1>1 DEF AddingRaises
    <2>2. \A x \in Op : added[x] => added'[x]
      BY <2>1 DEF AttachValue, IInv, TypeOK, Obj
    <2>3. QED
      BY <2>1, <2>2, SameLists DEF IInv
  <1>2. ASSUME NEW c \in Container, NEW k \in Kind, NEW o \in Op,
               NEW i \in 1 .. Len(lst[c][k]) + 1, Insert(c, k, i, o)
        PROVE  OnePlace'
    <2> DEFINE l == lst[c][k]
               old == [m \in 1 .. Len(l) + 1 |-> IF m < i THEN m ELSE m - 1]
    <2>1. TypeOK /\ OnePlace
      BY DEF IInv
    <2>2. AttachValue(c, k, o)
      BY <1>2 DEF Insert
    <2>3. ~added[o] /\ added' = [added EXCEPT ![o] = TRUE] /\ added \in [Obj -> BOOLEAN]
      BY <2>1, <2>2, OneAttached DEF TypeOK
    <2>4. lst' \in [Container -> [Kind -> Seq(Op)]] /\ Len(lst'[c][k]) = Len(l) + 1
      BY <1>2, <2>1, InsertEffect
    <2>5. \A j \in 1 .. Len(l) + 1 :
             lst'[c][k][j] = IF j < i THEN l[j] ELSE IF j = i THEN o ELSE l[j - 1]
      BY <1>2, <2>1, InsertEffect, SMTT(30)
    <2>6. \A d \in Container, j \in Kind : d # c \/ j # k => lst'[d][j] = lst[d][j]
      BY <1>2, <2>1, InsertEffect, SMTT(30)
    <2>7. Len(l) \in Nat /\ i \in 1 .. Len(l) + 1
      BY <2>1, LenProperties, SMTT(30) DEF TypeOK
    <2>8. \A d \in Container, j \in Kind : \A n \in 1 .. Len(lst[d][j]) : added'[lst[d][j][n]]
      BY <2>1, <2>3, Places, SMTT(30) DEF Obj
    <2>9. o \in Obj
      BY DEF Obj
    <2> HIDE DEF l
    <2>10. \A m \in 1 .. Len(lst'[c][k]) : m = i => lst'[c][k][m] = o /\ ~added[o] /\ added'[o]
      BY <2>3, <2>4, <2>5, <2>7, <2>9, SMTT(30)
    <2>11. \A m \in 1 .. Len(lst'[c][k]) : m # i =>
              old[m] \in 1 .. Len(l) /\ lst'[c][k][m] = l[old[m]]
      BY <2>4, <2>5, <2>7, SMTT(30)
    <2>12. \A m, n \in 1 .. Len(lst'[c][k]) : m # i /\ n # i /\ old[m] = old[n] => m = n
      BY <2>4, <2>7
    <2> HIDE DEF old
    <2>13. Moved(c, k, o, i, old)
      BY <2>4, <2>6, <2>8, <2>10, <2>11, <2>12 DEF Moved, l
    <2>14. QED
      BY <2>1, <2>13, PlacesKept
  <1>3. ASSUME NEW c \in Container, NEW k \in Kind, NEW o \in Op,
               NEW i \in 1 .. Len(lst[c][k]), SetItem(c, k, i, o)
        PROVE  OnePlace'
    <2> DEFINE l == lst[c][k]
               old == [m \in 1 .. Len(l) |-> m]
    <2>1. TypeOK /\ OnePlace
      BY DEF IInv
    <2>2. Len(l) \in Nat /\ i \in 1 .. Len(l)
      BY <2>1, LenProperties, SMTT(30) DEF TypeOK
    <2>3. l[i] \in Op /\ added[l[i]]
      BY <2>1, <2>2, Places
    <2>4. lst' \in [Container -> [Kind -> Seq(Op)]] /\ Len(lst'[c][k]) = Len(l)
      BY <1>3, <2>1, SetItemEffect
    <2>5. \A j \in 1 .. Len(l) : lst'[c][k][j] = IF j = i THEN o ELSE l[j]
      BY <1>3, <2>1, SetItemEffect, SMTT(30)
    <2>6. \A d \in Container, j \in Kind : d # c \/ j # k => lst'[d][j] = lst[d][j]
      BY <1>3, <2>1, SetItemEffect
    <2>7. ~added[o] /\ added'[o] /\ \A x \in Op : x # l[i] /\ added[x] => added'[x]
      <3>1. ~added[o] /\ added' = [AfterRemoval(l[i]) EXCEPT ![o] = TRUE]
        BY <1>3 DEF SetItem, MayBeAdded
      <3>2. added \in [Obj -> BOOLEAN] /\ Op \subseteq Obj
        BY <2>1 DEF TypeOK, Obj
      <3>3. QED
        BY <3>1, <3>2 DEF AfterRemoval
    <2>8. ASSUME NEW d \in Container, NEW j \in Kind, NEW n \in 1 .. Len(lst[d][j]),
                 d # c \/ j # k \/ \E m \in 1 .. Len(lst'[c][k]) : m # i /\ old[m] = n
          PROVE  added'[lst[d][j][n]]
      <3>1. d # c \/ j # k \/ n # i
        BY <2>4, <2>8, Zenon
      <3>2. lst[d][j][n] \in Op /\ added[lst[d][j][n]] /\ lst[d][j][n] # l[i]
        BY <2>1, <2>2, <3>1, Places, SMTT(30)
      <3>3. QED
        BY <2>7, <3>2
    <2> HIDE DEF l
    <2>9. \A m \in 1 .. Len(lst'[c][k]) : m = i => lst'[c][k][m] = o /\ ~added[o] /\ added'[o]
      BY <2>4, <2>5, <2>7
    <2>10. \A m \in 1 .. Len(lst'[c][k]) : m # i =>
              old[m] \in 1 .. Len(l) /\ lst'[c][k][m] = l[old[m]]
      BY <2>4, <2>5
    <2>11. \A m, n \in 1 .. Len(lst'[c][k]) : m # i /\ n # i /\ old[m] = old[n] => m = n
      BY <2>4
    <2> HIDE DEF old
    <2>12. Moved(c, k, o, i, old)
      BY <2>4, <2>6, <2>8, <2>9, <2>10, <2>11 DEF Moved, l
    <2>13. QED
      BY <2>1, <2>12, PlacesKept
  <1>4. ASSUME NEW c \in Container, NEW k \in Kind, NEW i \in 1 .. Len(lst[c][k]),
               DelItem(c, k, i)
        PROVE  OnePlace'
    <2> DEFINE l == lst[c][k]
               old == [m \in 1 .. Len(l) - 1 |-> IF m < i THEN m ELSE m + 1]
    <2>1. TypeOK /\ OnePlace
      BY DEF IInv
    <2>2. Len(l) \in Nat /\ i \in 1 .. Len(l)
      BY <2>1, LenProperties, SMTT(30) DEF TypeOK
    <2>3. l[i] \in Op /\ added[l[i]]
      BY <2>1, <2>2, Places
    <2>4. lst' \in [Container -> [Kind -> Seq(Op)]] /\ Len(lst'[c][k]) = Len(l) - 1
      BY <1>4, <2>1, DelItemEffect
    <2>5. \A j \in 1 .. Len(l) - 1 : lst'[c][k][j] = IF j < i THEN l[j] ELSE l[j + 1]
      BY <1>4, <2>1, DelItemEffect
    <2>6. \A d \in Container, j \in Kind : d # c \/ j # k => lst'[d][j] = lst[d][j]
      BY <1>4, <2>1, DelItemEffect
    <2>7. \A x \in Op : x # l[i] /\ added[x] => added'[x]
      <3>1. added' = AfterRemoval(l[i])
        BY <1>4 DEF DelItem
      <3>2. added \in [Obj -> BOOLEAN] /\ Op \subseteq Obj
        BY <2>1 DEF TypeOK, Obj
      <3>3. QED
        BY <3>1, <3>2 DEF AfterRemoval
    <2>8. ASSUME NEW d \in Container, NEW j \in Kind, NEW n \in 1 .. Len(lst[d][j]),
                 d # c \/ j # k \/ \E m \in 1 .. Len(lst'[c][k]) : m # 0 /\ old[m] = n
          PROVE  added'[lst[d][j][n]]
      <3>1. \A m \in 1 .. Len(l) - 1 : old[m] # i
        <4> HIDE DEF l
        <4>1. QED
          BY <2>2
      <3>2. d # c \/ j # k \/ n # i
        BY <2>4, <2>8, <3>1, Zenon
      <3>3. lst[d][j][n] \in Op /\ added[lst[d][j][n]] /\ lst[d][j][n] # l[i]
        BY <2>1, <2>2, <3>2, Places, SMTT(30)
      <3>4. QED
        BY <2>7, <3>3
    <2> HIDE DEF l
    <2>9. \A m \in 1 .. Len(lst'[c][k]) : m # 0
      BY <2>2, <2>4
    <2>10. \A m \in 1 .. Len(lst'[c][k]) : m # 0 =>
              old[m] \in 1 .. Len(l) /\ lst'[c][k][m] = l[old[m]]
      BY <2>2, <2>4, <2>5, SMTT(30)
    <2>11. \A m, n \in 1 .. Len(lst'[c][k]) : m # 0 /\ n # 0 /\ old[m] = old[n] => m = n
      BY <2>2, <2>4
    <2> HIDE DEF old
    <2>12. \A m \in 1 .. Len(lst'[c][k]) :
              m = 0 => lst'[c][k][m] = NoObj /\ ~added[NoObj] /\ added'[NoObj]
      BY <2>9
    <2>13. Moved(c, k, NoObj, 0, old)
      BY <2>4, <2>6, <2>8, <2>10, <2>11, <2>12 DEF Moved, l
    <2>14. QED
      BY <2>1, <2>13, PlacesKept
  <1>5. ASSUME NEW c \in Container, NEW op \in Integ \union {NoObj}, SetIntegrator(c, op)
        PROVE  OnePlace'
    <2>1. integrator[c] \in Integ \union {NoObj} /\ added \in [Obj -> BOOLEAN] /\ lst' = lst
      BY <1>5 DEF IInv, TypeOK, SetIntegrator
    <2>2. \A x \in Op : x \in Obj /\ x # op /\ x # integrator[c]
      BY <2>1, OperationsAssumption DEF Obj
    <2>3. \A x \in Op : added'[x] = added[x]
      BY <1>5, <2>1, <2>2, ZenonT(60) DEF SetIntegrator
    <2>4. QED
      BY <2>1, <2>3, SameLists DEF IInv
  <1>6. CASE Run
    BY <1>6, SMTT(30) DEF IInv, OnePlace, Run
  <1>7. CASE ScheduleIntegrator
    <2>1. lst' = lst /\ \A o \in Op : added[o] => added'[o]
      BY <1>7 DEF ScheduleIntegrator, IInv, TypeOK, Obj
    <2>2. QED
      BY <2>1, SameLists DEF IInv
  <1>8. CASE Sync
    <2>1. lst' = lst /\ \A o \in Op : added[o] => added'[o]
      BY <1>8, SyncEffect, SyncListEffect DEF IInv, Obj
    <2>2. QED
      BY <2>1, SameLists DEF IInv
  <1>9. CASE Scheduled
    BY <1>9, SMTT(30) DEF IInv, OnePlace, Scheduled
  <1>10. ASSUME NEW c \in Container, SetOperations(c)
        PROVE  OnePlace'
    <2>1. lst' = lst /\ added' = added
      BY <1>10 DEF SetOperations, AddedAfterUnsync
    <2>2. QED
      BY <2>1, SameLists DEF IInv
  <1>11. ASSUME NEW o \in Obj, Complete(o)
        PROVE  OnePlace'
    BY <1>11, SMTT(30) DEF IInv, OnePlace, Complete
  <1>12. CASE UNCHANGED vars
    BY <1>12, SMTT(30) DEF IInv, OnePlace, vars, user
  <1>13. script.containers \subseteq Container
    BY DEF IInv, TypeOK, Script
  <1>14. QED
    BY <1>1, <1>2, <1>3, <1>4, <1>5, <1>6, <1>7, <1>8, <1>9, <1>10, <1>11, <1>12, <1>13 DEF Next

\* _schedule sets _scheduled when every list is synced, and only run() calls it.
LEMMA ScheduleKept ==
  ASSUME IInv, [Next]_vars
  PROVE  ScheduleInv'
PROOF
  <1>1. ASSUME NEW c \in Container, NEW k \in Kind, NEW o \in Op, AddingRaises(c, k, o)
        PROVE  ScheduleInv'
    BY <1>1 DEF IInv, ScheduleInv, AddingRaises
  <1>2. ASSUME NEW c \in Container, NEW k \in Kind, NEW o \in Op,
               NEW i \in 1 .. Len(lst[c][k]) + 1, Insert(c, k, i, o)
        PROVE  ScheduleInv'
    BY <1>2 DEF IInv, ScheduleInv, Insert
  <1>3. ASSUME NEW c \in Container, NEW k \in Kind, NEW o \in Op,
               NEW i \in 1 .. Len(lst[c][k]), SetItem(c, k, i, o)
        PROVE  ScheduleInv'
    BY <1>3 DEF IInv, ScheduleInv, SetItem
  <1>4. ASSUME NEW c \in Container, NEW k \in Kind, NEW i \in 1 .. Len(lst[c][k]),
               DelItem(c, k, i)
        PROVE  ScheduleInv'
    BY <1>4 DEF IInv, ScheduleInv, DelItem
  <1>5. ASSUME NEW c \in Container, NEW op \in Integ \union {NoObj}, SetIntegrator(c, op)
        PROVE  ScheduleInv'
    BY <1>5, ZenonT(30) DEF IInv, ScheduleInv, SetIntegrator
  <1>6. CASE Run
    BY <1>6, LenProperties, OperationsAssumption, SMTT(30) DEF IInv, ScheduleInv, Run, AtIntegrator
  <1>7. CASE ScheduleIntegrator
    <2>1. /\ UNCHANGED <<synced, scheduled, operations>> /\ pc = AtIntegrator /\ pc' \in {Idle, 1}
      BY <1>7 DEF ScheduleIntegrator
    <2>2. QED
      BY <2>1 DEF IInv, ScheduleInv, Idle, AtIntegrator
  <1>8. CASE Sync
    <2> DEFINE k == Kinds[pc]
    <2>1. /\ pc \in 1 .. Len(Kinds) /\ Len(Kinds) \in Nat /\ k \in Kind
          /\ UNCHANGED <<lst, scheduled, operations>>
      BY <1>8, SyncEffect DEF IInv
    <2>2. \A c \in Container : ~scheduled[c]
      BY <2>1 DEF IInv, ScheduleInv, Idle
    <2>3. CASE synced[operations][k] /\ synced' = synced /\ pc' = pc + 1
      <3>1. pc \in Nat /\ \A n \in 1 .. Len(Kinds) : n < pc + 1 => n < pc \/ n = pc
        BY <2>1, SMTT(30)
      <3>2. \A n \in 1 .. Len(Kinds) : n < pc \/ n = pc => synced[operations][Kinds[n]]
        BY <2>3, Zenon DEF IInv, ScheduleInv
      <3>3. scheduled' = scheduled /\ operations' = operations
        BY <2>1, SMTT(30)
      <3>4. \A n \in 1 .. Len(Kinds) : n < pc' => synced'[operations'][Kinds[n]]
        BY <2>3, <3>1, <3>2, <3>3, SMTT(30)
      <3>5. QED
        BY <2>2, <3>3, <3>4, SMTT(30) DEF IInv, TypeOK, ScheduleInv
    <2>4. ASSUME NEW n \in 0 .. Len(lst[operations][k]), SyncList(k, n)
          PROVE  ScheduleInv'
      <3>1. /\ synced' = [synced EXCEPT ![operations][k] = (n = Len(lst[operations][k]))]
            /\ pc' = IF n = Len(lst[operations][k]) THEN pc + 1 ELSE Idle
        BY <2>1, <2>4, SyncListEffect DEF IInv
      <3>2. \A m \in 1 .. Len(Kinds) : Kinds[m] \in Kind
        BY ElementOfSeq, OperationsAssumption
      <3>3. \A m \in 1 .. Len(Kinds) : m < pc' => synced'[operations][Kinds[m]]
        <4>1. \A m \in 1 .. Len(Kinds) : m < pc => synced[operations][Kinds[m]]
          BY DEF IInv, ScheduleInv
        <4>2. synced \in [Container -> [Kind -> BOOLEAN]] /\ operations \in Container
          BY DEF IInv, TypeOK
        <4>3. ASSUME NEW m \in 1 .. Len(Kinds), m < pc'
              PROVE  synced'[operations][Kinds[m]]
          <5>1. n = Len(lst[operations][k]) /\ m < pc + 1
            BY <2>1, <3>1, <4>3 DEF Idle
          <5>2. synced'[operations] = [synced[operations] EXCEPT ![k] = TRUE]
            BY <3>1, <4>2, <5>1, Zenon
          <5>3. m = pc \/ m < pc
            BY <2>1, <5>1
          <5>4. QED
            BY <3>2, <4>1, <4>2, <5>2, <5>3, SMTT(30)
        <4>4. QED
          BY <4>3
      <3>4. QED
        BY <2>1, <2>2, <3>3 DEF ScheduleInv, IInv, TypeOK
    <2>5. QED
      BY <1>8, <2>3, <2>4, SyncEffect DEF IInv
  <1>9. CASE Scheduled
    <2>1. /\ pc = Len(Kinds) + 1 /\ pc' = Idle /\ UNCHANGED <<synced, operations>>
          /\ scheduled' = [scheduled EXCEPT ![operations] = TRUE]
      BY <1>9 DEF Scheduled
    <2>2. Len(Kinds) \in Nat /\ DOMAIN Kinds = 1 .. Len(Kinds)
      BY LenProperties, OperationsAssumption
    <2>3. \A k \in Kind : \E n \in 1 .. Len(Kinds) : k = Kinds[n]
      BY <2>2 DEF Kind, Items
    <2>4. \A n \in 1 .. Len(Kinds) : n < pc
      BY <2>1, <2>2
    <2>5. \A k \in Kind : synced[operations][k]
      BY <2>3, <2>4 DEF IInv, ScheduleInv
    <2>6. \A c \in Container : scheduled'[c] => c = operations
      BY <2>1 DEF IInv, ScheduleInv, TypeOK
    <2>7. \A n \in 1 .. Len(Kinds) : ~(n < pc')
      BY <2>1, <2>2 DEF Idle
    <2>8. QED
      BY <2>1, <2>5, <2>6, <2>7 DEF ScheduleInv
  <1>10. ASSUME NEW c \in Container, SetOperations(c)
        PROVE  ScheduleInv'
    <2>1. \A d \in Container : ~scheduled'[d]
      BY <1>10, ZenonT(60) DEF IInv, ScheduleInv, TypeOK, SetOperations
    <2>2. operations' \in Container /\ pc' \in {Idle, AtIntegrator}
      BY <1>10 DEF SetOperations
    <2>3. \A n \in 1 .. Len(Kinds) : ~(n < pc')
      BY <2>2, LenProperties, OperationsAssumption, SMTT(30) DEF Idle, AtIntegrator
    <2>4. QED
      BY <2>1, <2>2, <2>3 DEF ScheduleInv
  <1>11. ASSUME NEW o \in Obj, Complete(o)
        PROVE  ScheduleInv'
    BY <1>11 DEF IInv, ScheduleInv, Complete
  <1>12. CASE UNCHANGED vars
    BY <1>12 DEF IInv, ScheduleInv, vars, user
  <1>13. script.containers \subseteq Container
    BY DEF IInv, TypeOK, Script
  <1>14. QED
    BY <1>1, <1>2, <1>3, <1>4, <1>5, <1>6, <1>7, <1>8, <1>9, <1>10, <1>11, <1>12, <1>13 DEF Next

\* SyncedIsAttached, by position.
LEMMA ItemsAttached ==
  ASSUME TypeOK, SyncedIsAttached, NEW c \in Container, NEW k \in Kind, synced[c][k],
         NEW m \in 1 .. Len(lst[c][k])
  PROVE  cppObj[lst[c][k][m]] # 0
PROOF
  <1>1. lst[c][k] \in Seq(Op) /\ DOMAIN lst[c][k] = 1 .. Len(lst[c][k])
    BY SMTT(30) DEF TypeOK
  <1>2. lst[c][k][m] \in Items(lst[c][k])
    BY <1>1 DEF Items
  <1>3. QED
    BY <1>2 DEF SyncedIsAttached

\* The same for the state after a step.
LEMMA ItemsAttachedNext ==
  ASSUME lst' \in [Container -> [Kind -> Seq(Op)]],
         \A c \in Container, k \in Kind : synced'[c][k] =>
            \A m \in 1 .. Len(lst'[c][k]) : cppObj'[lst'[c][k][m]] # 0
  PROVE  SyncedIsAttached'
PROOF
  <1>1. ASSUME NEW c \in Container, NEW k \in Kind, synced'[c][k], NEW o \in Items(lst'[c][k])
        PROVE  cppObj'[o] # 0
    <2>1. lst'[c][k] \in Seq(Op) /\ DOMAIN lst'[c][k] = 1 .. Len(lst'[c][k])
      OBVIOUS
    <2>2. \E m \in 1 .. Len(lst'[c][k]) : o = lst'[c][k][m]
      BY <1>1, <2>1 DEF Items
    <2>3. QED
      BY <1>1, <2>2
  <1>2. QED
    BY <1>1 DEF SyncedIsAttached

\* A step that syncs no list, changes none, and detaches no operation.
LEMMA NoneDetached ==
  ASSUME TypeOK, SyncedIsAttached, lst' = lst,
         \A c \in Container, k \in Kind : synced'[c][k] => synced[c][k],
         \A o \in Op : cppObj[o] # 0 => cppObj'[o] # 0
  PROVE  SyncedIsAttached'
PROOF
  <1>1. \A c \in Container, k \in Kind : \A m \in 1 .. Len(lst[c][k]) : lst[c][k][m] \in Op
    BY ElementOfSeq, SMTT(30) DEF TypeOK
  <1>2. lst' \in [Container -> [Kind -> Seq(Op)]]
    BY DEF TypeOK
  <1>3. \A c \in Container, k \in Kind : synced'[c][k] =>
           \A m \in 1 .. Len(lst'[c][k]) : cppObj'[lst'[c][k][m]] # 0
    BY <1>1, ItemsAttached
  <1>4. QED
    BY <1>2, <1>3, ItemsAttachedNext

\* What is detached is removed from its list, or the list is not synced any more.
LEMMA AttachedKept ==
  ASSUME IInv, [Next]_vars
  PROVE  SyncedIsAttached'
PROOF
  <1>1. ASSUME NEW c \in Container, NEW k \in Kind, NEW o \in Op, AddingRaises(c, k, o)
        PROVE  SyncedIsAttached'
    <2>1. AttachValue(c, k, o) /\ lst' = lst /\ synced' = synced
      BY <1>1 DEF AddingRaises
    <2>2. \A x \in Obj : x # o => cppObj'[x] = cppObj[x]
      BY <2>1, OneAttached, SMTT(30) DEF IInv
    <2>3. synced[c][k] => cppObj'[o] # 0
      BY <2>1, OneAttached DEF IInv
    <2>4. ~synced[c][k] => cppObj' = cppObj
      BY <2>1, OneAttached DEF IInv
    <2>5. \A x \in Op : cppObj[x] # 0 => cppObj'[x] # 0
      BY <2>2, <2>3, <2>4 DEF Obj
    <2>6. QED
      BY <2>1, <2>5, NoneDetached DEF IInv
  <1>2. ASSUME NEW c \in Container, NEW k \in Kind, NEW o \in Op,
               NEW i \in 1 .. Len(lst[c][k]) + 1, Insert(c, k, i, o)
        PROVE  SyncedIsAttached'
    <2> DEFINE l == lst[c][k]
    <2>1. TypeOK /\ OnePlace /\ SyncedIsAttached
      BY DEF IInv
    <2>2. Len(l) \in Nat
      BY <2>1, LenProperties, SMTT(30) DEF TypeOK
    <2>3. lst' \in [Container -> [Kind -> Seq(Op)]] /\ Len(lst'[c][k]) = Len(l) + 1
      BY <1>2, <2>1, InsertEffect
    <2>4. \A j \in 1 .. Len(l) + 1 : lst'[c][k][j] = IF j < i THEN l[j] ELSE IF j = i THEN o ELSE l[j - 1]
      BY <1>2, <2>1, InsertEffect, SMTT(30)
    <2>5. \A d \in Container, j \in Kind : d # c \/ j # k => lst'[d][j] = lst[d][j]
      BY <1>2, <2>1, InsertEffect, SMTT(30)
    <2>6. synced' = synced
      BY <1>2 DEF Insert
    <2>7. AttachValue(c, k, o)
      BY <1>2 DEF Insert
    <2>8. \A x \in Obj : x # o => cppObj'[x] = cppObj[x]
      BY <2>1, <2>7, OneAttached, SMTT(30)
    <2>9. synced[c][k] => cppObj'[o] # 0
      BY <2>1, <2>7, OneAttached
    <2>10. ~synced[c][k] => cppObj' = cppObj
      BY <2>1, <2>7, OneAttached
    <2>11. \A x \in Op : cppObj[x] # 0 => cppObj'[x] # 0
      BY <2>8, <2>9, <2>10 DEF Obj
    <2>12. \A d \in Container, j \in Kind : \A m \in 1 .. Len(lst[d][j]) : lst[d][j][m] \in Op
      BY <2>1, Places
    <2>13. ASSUME NEW d \in Container, NEW j \in Kind, synced[d][j], d # c \/ j # k
           PROVE  \A m \in 1 .. Len(lst[d][j]) : cppObj'[lst[d][j][m]] # 0
      BY <2>1, <2>11, <2>12, <2>13, ItemsAttached
    <2>14. synced[c][k] => \A m \in 1 .. Len(lst'[c][k]) : cppObj'[lst'[c][k][m]] # 0
      <3>1. synced[c][k] => \A m \in 1 .. Len(l) : cppObj'[l[m]] # 0
        BY <2>1, <2>11, <2>12, ItemsAttached
      <3>2. i \in 1 .. Len(l) + 1
        OBVIOUS
      <3> HIDE DEF l
      <3>3. ASSUME synced[c][k], NEW m \in 1 .. Len(lst'[c][k])
            PROVE  cppObj'[lst'[c][k][m]] # 0
        <4>1. CASE m <= i
          BY <2>2, <2>3, <2>4, <2>9, <3>1, <3>2, <3>3, <4>1, SMTT(30)
        <4>2. CASE ~(m <= i)
          <5>1. m \in 1 .. Len(l) + 1 /\ ~(m < i) /\ m # i /\ m - 1 \in 1 .. Len(l)
            BY <2>2, <2>3, <3>2, <4>2
          <5>2. lst'[c][k][m] = l[m - 1] /\ m - 1 \in 1 .. Len(l)
            BY <2>4, <5>1
          <5>3. QED
            BY <3>1, <3>3, <5>2
        <4>3. QED
          BY <4>1, <4>2
      <3>4. QED
        BY <3>3
    <2>15. \A d \in Container, j \in Kind : synced'[d][j] =>
              \A m \in 1 .. Len(lst'[d][j]) : cppObj'[lst'[d][j][m]] # 0
      BY <2>5, <2>6, <2>13, <2>14, SMTT(30)
    <2>16. QED
      BY <2>3, <2>15, ItemsAttachedNext
  <1>3. ASSUME NEW c \in Container, NEW k \in Kind, NEW o \in Op,
               NEW i \in 1 .. Len(lst[c][k]), SetItem(c, k, i, o)
        PROVE  SyncedIsAttached'
    <2> DEFINE l == lst[c][k]
    <2>1. TypeOK /\ OnePlace /\ SyncedIsAttached
      BY DEF IInv
    <2>2. Len(l) \in Nat
      BY <2>1, LenProperties, SMTT(30) DEF TypeOK
    <2>3. lst' \in [Container -> [Kind -> Seq(Op)]] /\ Len(lst'[c][k]) = Len(l)
      BY <1>3, <2>1, SetItemEffect
    <2>4. \A j \in 1 .. Len(l) : lst'[c][k][j] = IF j = i THEN o ELSE l[j]
      BY <1>3, <2>1, SetItemEffect, SMTT(30)
    <2>5. \A d \in Container, j \in Kind : d # c \/ j # k => lst'[d][j] = lst[d][j]
      BY <1>3, <2>1, SetItemEffect
    <2>6. synced' = synced
      BY <1>3 DEF SetItem
    <2>7. l[i] \in Op /\ added[l[i]]
      BY <2>1, Places
    <2>8. synced[c][k] => cppObj'[o] # 0
      <3>1. o # l[i] /\ o \in Obj
        BY <1>3, <2>7 DEF SetItem, MayBeAdded, Obj
      <3>2. cppObj \in [Obj -> Nat] /\ born \in [Obj -> Nat]
        BY <2>1 DEF TypeOK
      <3>3. synced[c][k] => cppObj' = [cppObj EXCEPT ![o] = born[o] + 1, ![l[i]] = 0]
        BY <1>3 DEF SetItem
      <3> HIDE DEF l
      <3>4. QED
        BY <3>1, <3>2, <3>3, SMTT(30)
    <2>9. \A x \in Op : x # l[i] /\ cppObj[x] # 0 => cppObj'[x] # 0
      <3>1. \A x \in Op : x \in Obj
        BY DEF Obj
      <3>2. cppObj \in [Obj -> Nat]
        BY <2>1 DEF TypeOK
      <3>3. IF synced[c][k] THEN cppObj' = [cppObj EXCEPT ![o] = born[o] + 1, ![l[i]] = 0]
                            ELSE cppObj' = cppObj
        BY <1>3 DEF SetItem
      <3> HIDE DEF l
      <3>4. QED
        BY <2>8, <3>1, <3>2, <3>3
    <2>10. \A d \in Container, j \in Kind : \A m \in 1 .. Len(lst[d][j]) :
              lst[d][j][m] \in Op /\ (d # c \/ j # k \/ m # i => lst[d][j][m] # l[i])
      BY <2>1, Places, SMTT(30)
    <2>11. ASSUME NEW d \in Container, NEW j \in Kind, synced[d][j], d # c \/ j # k
           PROVE  \A m \in 1 .. Len(lst[d][j]) : cppObj'[lst[d][j][m]] # 0
      BY <2>1, <2>9, <2>10, <2>11, ItemsAttached
    <2>12. synced[c][k] => \A m \in 1 .. Len(lst'[c][k]) : cppObj'[lst'[c][k][m]] # 0
      <3>1. synced[c][k] => \A m \in 1 .. Len(l) : m # i => cppObj'[l[m]] # 0
        BY <2>1, <2>9, <2>10, ItemsAttached
      <3> HIDE DEF l
      <3>2. QED
        BY <2>2, <2>3, <2>4, <2>8, <3>1
    <2>13. \A d \in Container, j \in Kind : synced'[d][j] =>
              \A m \in 1 .. Len(lst'[d][j]) : cppObj'[lst'[d][j][m]] # 0
      BY <2>5, <2>6, <2>11, <2>12, SMTT(30)
    <2>14. QED
      BY <2>3, <2>13, ItemsAttachedNext
  <1>4. ASSUME NEW c \in Container, NEW k \in Kind, NEW i \in 1 .. Len(lst[c][k]),
               DelItem(c, k, i)
        PROVE  SyncedIsAttached'
    <2> DEFINE l == lst[c][k]
    <2>1. TypeOK /\ OnePlace /\ SyncedIsAttached
      BY DEF IInv
    <2>2. Len(l) \in Nat
      BY <2>1, LenProperties, SMTT(30) DEF TypeOK
    <2>3. lst' \in [Container -> [Kind -> Seq(Op)]] /\ Len(lst'[c][k]) = Len(l) - 1
      BY <1>4, <2>1, DelItemEffect
    <2>4. \A j \in 1 .. Len(l) - 1 : lst'[c][k][j] = IF j < i THEN l[j] ELSE l[j + 1]
      BY <1>4, <2>1, DelItemEffect
    <2>5. \A d \in Container, j \in Kind : d # c \/ j # k => lst'[d][j] = lst[d][j]
      BY <1>4, <2>1, DelItemEffect
    <2>6. synced' = synced
      BY <1>4 DEF DelItem
    <2>7. l[i] \in Op /\ added[l[i]]
      BY <2>1, Places
    <2>8. \A x \in Op : x # l[i] /\ cppObj[x] # 0 => cppObj'[x] # 0
      <3>1. \A x \in Op : x \in Obj
        BY DEF Obj
      <3>2. cppObj \in [Obj -> Nat]
        BY <2>1 DEF TypeOK
      <3>3. cppObj' = [cppObj EXCEPT ![l[i]] = 0] \/ cppObj' = cppObj
        BY <1>4 DEF DelItem
      <3> HIDE DEF l
      <3>4. QED
        BY <3>1, <3>2, <3>3
    <2>9. \A d \in Container, j \in Kind : \A m \in 1 .. Len(lst[d][j]) :
              lst[d][j][m] \in Op /\ (d # c \/ j # k \/ m # i => lst[d][j][m] # l[i])
      BY <2>1, Places, SMTT(30)
    <2>10. ASSUME NEW d \in Container, NEW j \in Kind, synced[d][j], d # c \/ j # k
           PROVE  \A m \in 1 .. Len(lst[d][j]) : cppObj'[lst[d][j][m]] # 0
      BY <2>1, <2>8, <2>9, <2>10, ItemsAttached
    <2>11. synced[c][k] => \A m \in 1 .. Len(lst'[c][k]) : cppObj'[lst'[c][k][m]] # 0
      <3>1. synced[c][k] => \A m \in 1 .. Len(l) : m # i => cppObj'[l[m]] # 0
        BY <2>1, <2>8, <2>9, ItemsAttached
      <3>2. i \in 1 .. Len(l)
        OBVIOUS
      <3> HIDE DEF l
      <3>3. ASSUME synced[c][k], NEW m \in 1 .. Len(lst'[c][k])
            PROVE  cppObj'[lst'[c][k][m]] # 0
        <4>1. CASE m < i
          BY <2>2, <2>3, <2>4, <3>1, <3>2, <3>3, <4>1, SMTT(30)
        <4>2. CASE ~(m < i)
          <5>1. lst'[c][k][m] = l[m + 1] /\ m + 1 \in 1 .. Len(l) /\ m + 1 # i
            BY <2>2, <2>3, <2>4, <3>2, <4>2
          <5>2. QED
            BY <3>1, <3>3, <5>1
        <4>3. QED
          BY <4>1, <4>2
      <3>4. QED
        BY <3>3
    <2>12. \A d \in Container, j \in Kind : synced'[d][j] =>
              \A m \in 1 .. Len(lst'[d][j]) : cppObj'[lst'[d][j][m]] # 0
      BY <2>5, <2>6, <2>10, <2>11, SMTT(30)
    <2>13. QED
      BY <2>3, <2>12, ItemsAttachedNext
  <1>5. ASSUME NEW c \in Container, NEW op \in Integ \union {NoObj}, SetIntegrator(c, op)
        PROVE  SyncedIsAttached'
    <2>1. integrator[c] \in Integ \union {NoObj} /\ cppObj \in [Obj -> Nat] /\ lst' = lst /\ synced' = synced
      BY <1>5 DEF IInv, TypeOK, SetIntegrator
    <2>2. \A x \in Op : x \in Obj /\ x # op /\ x # integrator[c]
      BY <2>1, OperationsAssumption DEF Obj
    <2>3. \A x \in Op : cppObj'[x] = cppObj[x]
      <3> DEFINE create == IF scheduled[c] /\ op # NoObj
                           THEN [cppObj EXCEPT ![op] = born[op] + 1] ELSE cppObj
      <3>1. cppObj' = create \/ cppObj' = [create EXCEPT ![integrator[c]] = 0]
        BY <1>5, Zenon DEF SetIntegrator
      <3>2. DOMAIN create = Obj /\ \A x \in Op : create[x] = cppObj[x]
        BY <2>1, <2>2
      <3> HIDE DEF create
      <3>3. QED
        BY <2>2, <3>1, <3>2
    <2>4. QED
      BY <2>1, <2>3, NoneDetached DEF IInv
  <1>6. CASE Run
    BY <1>6 DEF IInv, SyncedIsAttached, Run
  <1>7. CASE ScheduleIntegrator
    <2>1. lst' = lst /\ synced' = synced
      BY <1>7 DEF ScheduleIntegrator
    <2>2. cppObj' = cppObj \/ Attached({integrator[operations]})
      BY <1>7 DEF ScheduleIntegrator
    <2>3. \A o \in Op : cppObj[o] # 0 => cppObj'[o] # 0
      BY <2>2, AttachedTypes DEF IInv, Obj
    <2>4. QED
      BY <2>1, <2>3, NoneDetached DEF IInv
  <1>8. CASE Sync
    <2> DEFINE k == Kinds[pc]
               l == lst[operations][k]
    <2>1. TypeOK /\ OnePlace /\ SyncedIsAttached /\ operations \in Container
      BY DEF IInv, TypeOK
    <2>2. k \in Kind /\ UNCHANGED <<lst, operations>>
      BY <1>8, <2>1, SyncEffect
    <2>3. CASE synced' = synced /\ cppObj' = cppObj
      BY <2>1, <2>2, <2>3, NoneDetached
    <2>4. ASSUME NEW n \in 0 .. Len(l), SyncList(k, n)
          PROVE  SyncedIsAttached'
      <3>1. synced' = [synced EXCEPT ![operations][k] = (n = Len(l))]
        BY <2>1, <2>2, <2>4, SyncListEffect
      <3>2. n = Len(l) => \A i \in 1 .. n : cppObj'[l[i]] # 0
        BY <2>1, <2>2, <2>4, SyncListEffect
      <3>3. \A o \in Obj : o \notin Items(l) => cppObj'[o] = cppObj[o]
        BY <2>1, <2>2, <2>4, SyncListEffect
      <3>4. ASSUME NEW d \in Container, NEW j \in Kind, d # operations \/ j # k, synced'[d][j],
                   NEW m \in 1 .. Len(lst[d][j])
            PROVE  cppObj'[lst[d][j][m]] # 0
        <4>1. synced[d][j]
          BY <2>1, <2>2, <3>1, <3>4 DEF TypeOK
        <4>2. lst[d][j][m] \in Op /\ \A i \in 1 .. Len(l) : lst[d][j][m] # l[i]
          BY <2>1, <2>2, <3>4, Places, SMTT(30)
        <4>3. lst[d][j][m] \notin Items(l)
          <5>1. l \in Seq(Op) /\ DOMAIN l = 1 .. Len(l)
            BY <2>1, <2>2, SMTT(30) DEF TypeOK
          <5>2. QED
            BY <4>2, <5>1 DEF Items
        <4>4. lst[d][j][m] \in Op
          BY <2>1, Places
        <4>5. cppObj[lst[d][j][m]] # 0
          BY <2>1, <4>1, ItemsAttached
        <4>6. QED
          BY <3>3, <4>3, <4>4, <4>5 DEF Obj
      <3>5. synced'[operations][k] => n = Len(l)
        BY <2>1, <2>2, <3>1, Zenon DEF TypeOK
      <3>6. lst' \in [Container -> [Kind -> Seq(Op)]] /\ lst' = lst
        BY <2>1, <2>2 DEF TypeOK
      <3>7. synced'[operations][k] => \A m \in 1 .. Len(l) : cppObj'[l[m]] # 0
        BY <3>2, <3>5
      <3>8. \A d \in Container, j \in Kind : synced'[d][j] =>
               \A m \in 1 .. Len(lst'[d][j]) : cppObj'[lst'[d][j][m]] # 0
        BY <3>4, <3>6, <3>7, ZenonT(60)
      <3>9. QED
        BY <3>6, <3>8, ItemsAttachedNext
    <2>5. QED
      BY <1>8, <2>1, <2>3, <2>4, SyncEffect
  <1>9. CASE Scheduled
    BY <1>9 DEF IInv, SyncedIsAttached, Scheduled
  <1>10. ASSUME NEW c \in Container, SetOperations(c)
        PROVE  SyncedIsAttached'
    <2>1. TypeOK /\ OnePlace /\ SyncedIsAttached /\ operations \in Container
      BY DEF IInv, TypeOK
    <2>2. lst' = lst /\ lst' \in [Container -> [Kind -> Seq(Op)]]
      BY <1>10, <2>1 DEF SetOperations, TypeOK
    <2>3. CASE synced' = synced /\ cppObj' = cppObj
      BY <2>1, <2>2, <2>3, NoneDetached
    <2>4. CASE synced' = SyncedAfterUnsync(operations) /\ cppObj' = Detached(operations)
      <3>1. ASSUME NEW d \in Container, NEW j \in Kind, synced'[d][j], NEW m \in 1 .. Len(lst[d][j])
            PROVE  cppObj'[lst[d][j][m]] # 0
        <4> DEFINE x == lst[d][j][m]
        <4>1. d # operations /\ synced[d][j]
          BY <2>1, <2>4, <3>1 DEF SyncedAfterUnsync, TypeOK
        <4>2. x \in Op /\ \A k \in Kind : \A i \in 1 .. Len(lst[operations][k]) : lst[operations][k][i] # x
          BY <2>1, <4>1, Places, SMTT(30)
        <4>3. \A k \in Kind : x \notin Items(lst[operations][k])
          <5>1. \A k \in Kind : DOMAIN lst[operations][k] = 1 .. Len(lst[operations][k])
            BY <2>1, SMTT(30) DEF TypeOK
          <5>2. QED
            BY <4>2, <5>1, ZenonT(60) DEF Items
        <4>4. x \in Op
          BY <2>1, Places
        <4>5. cppObj[x] # 0
          BY <2>1, <4>1, ItemsAttached
        <4>6. x # integrator[operations] /\ x \in Obj
          BY <2>1, <4>4, OperationsAssumption, Zenon DEF TypeOK, Obj
        <4> HIDE DEF x
        <4>7. cppObj'[x] # 0
          BY <2>4, <4>3, <4>5, <4>6 DEF Detached
        <4>8. QED
          BY <4>7 DEF x
      <3>2. QED
        BY <2>2, <3>1, ItemsAttachedNext
    <2>5. QED
      BY <1>10, <2>3, <2>4 DEF SetOperations
  <1>11. ASSUME NEW o \in Obj, Complete(o)
        PROVE  SyncedIsAttached'
    BY <1>11 DEF IInv, SyncedIsAttached, Complete
  <1>12. CASE UNCHANGED vars
    BY <1>12 DEF IInv, SyncedIsAttached, vars, user
  <1>13. script.containers \subseteq Container
    BY DEF IInv, TypeOK, Script
  <1>14. QED
    BY <1>1, <1>2, <1>3, <1>4, <1>5, <1>6, <1>7, <1>8, <1>9, <1>10, <1>11, <1>12, <1>13 DEF Next

\* An integrator is attached after its simulation was set, and detached when it is cleared.
LEMMA IntegratorsAddedKept ==
  ASSUME IInv, [Next]_vars
  PROVE  IntegratorsAdded'
PROOF
  <1>1. ASSUME NEW c \in Container, NEW k \in Kind, NEW o \in Op, AddingRaises(c, k, o)
        PROVE  IntegratorsAdded'
    <2>1. \A x \in Integ : x \in Obj /\ x # o /\ x \notin Op
      BY OperationsAssumption DEF Obj
    <2>2. AttachValue(c, k, o)
      BY <1>1 DEF AddingRaises
    <2>3. \A x \in Integ : cppObj'[x] = cppObj[x]
      BY <2>1, <2>2, OneAttached, SMTT(30) DEF IInv
    <2>4. added \in [Obj -> BOOLEAN] /\ added' = [added EXCEPT ![o] = TRUE]
      BY <2>2 DEF AttachValue, IInv, TypeOK
    <2>5. QED
      BY <2>1, <2>3, <2>4 DEF IInv, IntegratorsAdded
  <1>2. ASSUME NEW c \in Container, NEW k \in Kind, NEW o \in Op,
               NEW i \in 1 .. Len(lst[c][k]) + 1, Insert(c, k, i, o)
        PROVE  IntegratorsAdded'
    <2>1. \A x \in Integ : x \in Obj /\ x # o /\ x \notin Op
      BY OperationsAssumption DEF Obj
    <2>2. AttachValue(c, k, o)
      BY <1>2 DEF Insert
    <2>3. \A x \in Integ : cppObj'[x] = cppObj[x]
      BY <2>1, <2>2, OneAttached, SMTT(30) DEF IInv
    <2>4. added \in [Obj -> BOOLEAN] /\ added' = [added EXCEPT ![o] = TRUE]
      BY <2>2 DEF AttachValue, IInv, TypeOK
    <2>5. QED
      BY <2>1, <2>3, <2>4 DEF IInv, IntegratorsAdded
  <1>3. ASSUME NEW c \in Container, NEW k \in Kind, NEW o \in Op,
               NEW i \in 1 .. Len(lst[c][k]), SetItem(c, k, i, o)
        PROVE  IntegratorsAdded'
    <2> DEFINE old == lst[c][k][i]
    <2>1. \A x \in Integ : x \in Obj /\ x # o /\ x \notin Op
      BY OperationsAssumption DEF Obj
    <2>2. old \in Op
      BY Places DEF IInv
    <2>3. /\ added \in [Obj -> BOOLEAN] /\ cppObj \in [Obj -> Nat]
          /\ added' = [AfterRemoval(old) EXCEPT ![o] = TRUE]
          /\ cppObj' = [cppObj EXCEPT ![o] = born[o] + 1, ![old] = 0] \/ cppObj' = cppObj
      BY <1>3 DEF SetItem, IInv, TypeOK
    <2> HIDE DEF old
    <2>4. \A x \in Integ : cppObj'[x] = cppObj[x] /\ added'[x] = added[x]
      BY <2>1, <2>2, <2>3, ZenonT(60) DEF AfterRemoval
    <2>5. QED
      BY <2>4 DEF IInv, IntegratorsAdded
  <1>4. ASSUME NEW c \in Container, NEW k \in Kind, NEW i \in 1 .. Len(lst[c][k]),
               DelItem(c, k, i)
        PROVE  IntegratorsAdded'
    <2> DEFINE old == lst[c][k][i]
    <2>1. \A x \in Integ : x \in Obj /\ x \notin Op
      BY OperationsAssumption DEF Obj
    <2>2. old \in Op
      BY Places DEF IInv
    <2>3. /\ added \in [Obj -> BOOLEAN] /\ cppObj \in [Obj -> Nat]
          /\ added' = AfterRemoval(old)
          /\ cppObj' = [cppObj EXCEPT ![old] = 0] \/ cppObj' = cppObj
      BY <1>4 DEF DelItem, IInv, TypeOK
    <2> HIDE DEF old
    <2>4. \A x \in Integ : cppObj'[x] = cppObj[x] /\ added'[x] = added[x]
      BY <2>1, <2>2, <2>3 DEF AfterRemoval
    <2>5. QED
      BY <2>4 DEF IInv, IntegratorsAdded
  <1>5. ASSUME NEW c \in Container, NEW op \in Integ \union {NoObj}, SetIntegrator(c, op)
        PROVE  IntegratorsAdded'
    <2>1. /\ added \in [Obj -> BOOLEAN] /\ cppObj \in [Obj -> Nat] /\ Integ \subseteq Obj
          /\ integrator[c] \in Integ \union {NoObj}
      BY DEF IInv, TypeOK, Obj
    <2> DEFINE old == integrator[c]
               given == IF op = NoObj THEN added ELSE [added EXCEPT ![op] = HasSimulation(c)]
               create == IF scheduled[c] /\ op # NoObj
                         THEN [cppObj EXCEPT ![op] = born[op] + 1] ELSE cppObj
    <2>2. /\ op # NoObj => ~added[op]
          /\ \/ added' = given /\ cppObj' = create
             \/ /\ old # NoObj
                /\ added' = [given EXCEPT ![old] = FALSE] /\ cppObj' = [create EXCEPT ![old] = 0]
      BY <1>5, ZenonT(30) DEF SetIntegrator, MayBeAdded
    <2>3. given \in [Obj -> BOOLEAN] /\ create \in [Obj -> Nat \union {born[op] + 1}]
      BY <2>1 DEF HasSimulation
    <2>4. scheduled[c] => HasSimulation(c)
      BY ZenonT(30) DEF IInv, ScheduleInv, HasSimulation
    <2>5. \A x \in Integ : x # op => given[x] = added[x] /\ create[x] = cppObj[x]
      BY <2>1
    <2>6. op # NoObj => (create[op] # 0 => given[op])
      <3>1. op # NoObj => cppObj[op] = 0
        BY <2>2 DEF IInv, IntegratorsAdded
      <3>2. op # NoObj => given[op] = HasSimulation(c)
        BY <2>1
      <3>3. op # NoObj => (create[op] # 0 => scheduled[c])
        BY <2>1, <3>1
      <3>4. QED
        BY <2>4, <3>2, <3>3
    <2> HIDE DEF old, given, create
    <2>7. \A x \in Integ : create[x] # 0 => given[x]
      BY <2>5, <2>6, OperationsAssumption DEF IInv, IntegratorsAdded, Obj
    <2>8. \A x \in Integ : cppObj'[x] # 0 => added'[x]
      BY <2>1, <2>2, <2>3, <2>7
    <2>9. QED
      BY <2>8 DEF IntegratorsAdded
  <1>6. CASE Run
    BY <1>6 DEF IInv, IntegratorsAdded, Run
  <1>7. CASE ScheduleIntegrator
    <2>1. \/ cppObj' = cppObj /\ added' = added
          \/ /\ Attached({integrator[operations]})
             /\ added' = [added EXCEPT ![integrator[operations]] = TRUE]
      BY <1>7 DEF ScheduleIntegrator
    <2>2. added \in [Obj -> BOOLEAN] /\ Integ \subseteq Obj
      BY DEF IInv, TypeOK, Obj
    <2>3. Attached({integrator[operations]}) =>
             \A x \in Integ : x # integrator[operations] => cppObj'[x] = cppObj[x]
      BY <2>2, AttachedTypes DEF IInv
    <2>4. QED
      BY <2>1, <2>2, <2>3 DEF IInv, IntegratorsAdded
  <1>8. CASE Sync
    <2> DEFINE k == Kinds[pc]
               l == lst[operations][k]
    <2>1. TypeOK /\ operations \in Container /\ Integ \subseteq Obj
      BY DEF IInv, TypeOK, Obj
    <2>2. k \in Kind
      BY <1>8, <2>1, SyncEffect
    <2>3. CASE added' = added /\ cppObj' = cppObj
      BY <2>3 DEF IInv, IntegratorsAdded
    <2>4. ASSUME NEW n \in 0 .. Len(l), SyncList(k, n)
          PROVE  IntegratorsAdded'
      <3>1. \A o \in Obj : o \notin Items(l) => cppObj'[o] = cppObj[o]
        BY <2>1, <2>2, <2>4, SyncListEffect
      <3>2. \A o \in Obj : added[o] => added'[o]
        BY <2>1, <2>2, <2>4, SyncListEffect
      <3>3. l \in Seq(Op) /\ DOMAIN l = 1 .. Len(l) /\ \A i \in 1 .. Len(l) : l[i] \in Op
        <4>1. l \in Seq(Op)
          BY <2>1, <2>2, SMTT(30) DEF TypeOK
        <4> HIDE DEF l
        <4>2. QED
          BY <4>1, ElementOfSeq
      <3>4. \A x \in Integ : x \notin Items(l)
        <4> HIDE DEF l
        <4>1. Items(l) \subseteq Op
          BY <3>3 DEF Items
        <4>2. QED
          BY <4>1, OperationsAssumption
      <3>5. QED
        BY <2>1, <3>1, <3>2, <3>4 DEF IInv, IntegratorsAdded
    <2>5. QED
      BY <1>8, <2>1, <2>3, <2>4, SyncEffect
  <1>9. CASE Scheduled
    BY <1>9 DEF IInv, IntegratorsAdded, Scheduled
  <1>10. ASSUME NEW c \in Container, SetOperations(c)
        PROVE  IntegratorsAdded'
    <2>1. added' = added /\ (cppObj' = cppObj \/ cppObj' = Detached(operations)) /\ Integ \subseteq Obj
      BY <1>10 DEF SetOperations, AddedAfterUnsync, Obj
    <2>2. \A x \in Integ : cppObj'[x] # 0 => cppObj[x] # 0
      BY <2>1 DEF Detached
    <2>3. QED
      BY <2>1, <2>2 DEF IInv, IntegratorsAdded
  <1>11. ASSUME NEW o \in Obj, Complete(o)
        PROVE  IntegratorsAdded'
    BY <1>11 DEF IInv, IntegratorsAdded, Complete
  <1>12. CASE UNCHANGED vars
    BY <1>12 DEF IInv, IntegratorsAdded, vars, user
  <1>13. script.containers \subseteq Container
    BY DEF IInv, TypeOK, Script
  <1>14. QED
    BY <1>1, <1>2, <1>3, <1>4, <1>5, <1>6, <1>7, <1>8, <1>9, <1>10, <1>11, <1>12, <1>13 DEF Next


-----------------------------------------------------------------------------
(* The steps keep the vectors and the integrator of the C++ System. *)

\* A step that changes neither list, nor the C++ objects of the items.
LEMMA MirrorsSame ==
  ASSUME TypeOK, NEW k \in Kind, ListMirrored(k), operations' = operations,
         lst'[operations][k] = lst[operations][k], cppList'[k] = cppList[k],
         \A i \in 1 .. Len(lst[operations][k]) :
            cppObj'[lst[operations][k][i]] = cppObj[lst[operations][k][i]]
  PROVE  ListMirrored(k)'
PROOF
  BY SMTT(30) DEF ListMirrored, Cpp

\* The same for all the lists: the operations' C++ objects are what they were.
LEMMA AllMirrorsSame ==
  ASSUME TypeOK, OnePlace, MirrorInv, mishaps \subseteq mishaps',
         UNCHANGED <<lst, synced, operations, cppList>>,
         \A x \in Op : added[x] => cppObj'[x] = cppObj[x]
  PROVE  MirrorInv'
PROOF
  <1>1. operations \in Container
    BY DEF TypeOK
  <1>2. \A k \in Kind : \A i \in 1 .. Len(lst[operations][k]) :
           cppObj'[lst[operations][k][i]] = cppObj[lst[operations][k][i]]
    BY <1>1, Places, SMTT(30)
  <1>3. \A k \in Kind : ListMirrored(k) => ListMirrored(k)'
    BY <1>2, MirrorsSame
  <1>4. QED
    BY <1>3 DEF MirrorInv

\* Every method makes the same change to both lists.
LEMMA MirrorKept ==
  ASSUME IInv, [Next]_vars
  PROVE  MirrorInv'
PROOF
  <1>1. ASSUME NEW c \in Container, NEW k \in Kind, NEW o \in Op, AddingRaises(c, k, o)
        PROVE  MirrorInv'
    <2>1. AttachValue(c, k, o) /\ UNCHANGED <<lst, synced, operations, cppList, mishaps>>
      BY <1>1 DEF AddingRaises
    <2>2. \A x \in Obj : x # o => cppObj'[x] = cppObj[x]
      BY <2>1, OneAttached, SMTT(30) DEF IInv
    <2>3. ~added[o]
      BY <2>1 DEF AttachValue, MayBeAdded
    <2>4. \A x \in Op : added[x] => cppObj'[x] = cppObj[x]
      BY <2>2, <2>3 DEF Obj
    <2>5. QED
      BY <2>1, <2>4, AllMirrorsSame DEF IInv
  <1>2. ASSUME NEW c \in Container, NEW k \in Kind, NEW o \in Op,
               NEW i \in 1 .. Len(lst[c][k]) + 1, Insert(c, k, i, o)
        PROVE  MirrorInv'
    <2> DEFINE l == lst[c][k]
    <2>1. TypeOK /\ OnePlace /\ MirrorInv /\ operations \in Container
      BY DEF IInv, TypeOK
    <2>2. Len(l) \in Nat
      BY <2>1, LenProperties, SMTT(30) DEF TypeOK
    <2>3. lst' \in [Container -> [Kind -> Seq(Op)]] /\ Len(lst'[c][k]) = Len(l) + 1
      BY <1>2, <2>1, InsertEffect
    <2>4. \A j \in 1 .. Len(l) + 1 : lst'[c][k][j] = IF j < i THEN l[j] ELSE IF j = i THEN o ELSE l[j - 1]
      BY <1>2, <2>1, InsertEffect, SMTT(30)
    <2>5. \A d \in Container, j \in Kind : d # c \/ j # k => lst'[d][j] = lst[d][j]
      BY <1>2, <2>1, InsertEffect, SMTT(30)
    <2>6. UNCHANGED <<synced, operations, mishaps>>
      BY <1>2 DEF Insert
    <2>7. SUFFICES ASSUME mishaps \intersect {"appended", "replaced", "abandoned"} = {}
                   PROVE  /\ \A j \in Kind : synced[operations][j] => ListMirrored(j)'
                          /\ \A j \in Kind : ~synced[operations][j] => cppList'[j] = << >>
      BY <2>1, <2>6 DEF MirrorInv
    <2>8. /\ \A j \in Kind : synced[operations][j] => ListMirrored(j)
          /\ \A j \in Kind : ~synced[operations][j] => cppList[j] = << >>
          /\ synced[c][k] => c = operations
      BY <2>1, <2>7 DEF MirrorInv
    <2>9. AttachValue(c, k, o)
      BY <1>2 DEF Insert
    <2>10. \A x \in Obj : x # o => cppObj'[x] = cppObj[x]
      BY <2>1, <2>9, OneAttached, SMTT(30)
    <2>11. ~added[o] /\ o \in Obj
      BY <2>9 DEF AttachValue, MayBeAdded, Obj
    <2>12. \A d \in Container, j \in Kind : \A m \in 1 .. Len(lst[d][j]) :
              lst[d][j][m] \in Op /\ lst[d][j][m] # o
      BY <2>1, <2>11, Places, SMTT(30)
    <2>13. \A d \in Container, j \in Kind : \A m \in 1 .. Len(lst[d][j]) :
              cppObj'[lst[d][j][m]] = cppObj[lst[d][j][m]]
      BY <2>10, <2>12 DEF Obj
    <2>14. \A j \in Kind : ~(c = operations /\ j = k /\ synced[c][k]) => cppList'[j] = cppList[j]
      BY <1>2, <2>1, <2>8 DEF Insert, Inserted, TypeOK
    <2>15. \A j \in Kind : ~synced[operations][j] => cppList'[j] = << >>
      BY <2>8, <2>14
    <2>16. ASSUME NEW j \in Kind, synced[operations][j], operations # c \/ j # k
           PROVE  ListMirrored(j)'
      <3>1. lst'[operations][j] = lst[operations][j] /\ cppList'[j] = cppList[j]
        BY <2>1, <2>5, <2>14, <2>16
      <3>2. \A m \in 1 .. Len(lst[operations][j]) :
               cppObj'[lst[operations][j][m]] = cppObj[lst[operations][j][m]]
        BY <2>1, <2>13, <2>16
      <3>3. ListMirrored(j)
        BY <2>8, <2>16
      <3>4. QED
        BY <2>1, <2>6, <3>1, <3>2, <3>3, MirrorsSame
    <2>17. ASSUME c = operations, synced[c][k]
           PROVE  ListMirrored(k)'
      <3> DEFINE v == cppList[k]
                 w == InsertAt(v, i, <<o, cppObj'[o]>>)
      <3>1. v \in Seq(Op \X Nat) /\ Len(v) = Len(l) /\ \A m \in 1 .. Len(l) : v[m] = <<l[m], cppObj[l[m]]>>
        BY <2>8, <2>17 DEF ListMirrored, Cpp
      <3>2. cppList' = [cppList EXCEPT ![k] = w]
        BY <1>2, <2>17 DEF Insert, Inserted
      <3>3. <<o, cppObj'[o]>> \in Op \X Nat
        <4>1. cppObj' \in [Obj -> Nat]
          BY <2>1, <2>9, OneAttached
        <4>2. QED
          BY <2>11, <4>1
      <3>4. i \in 1 .. Len(l) + 1
        OBVIOUS
      <3> HIDE DEF v, l
      <3> DEFINE T == Op \X Nat
                 x == <<o, cppObj'[o]>>
      <3>5. v \in Seq(T) /\ x \in T /\ i \in 1 .. Len(v) + 1
        BY <3>1, <3>3, <3>4
      <3> HIDE DEF T, x
      <3>6. w = InsertAt(v, i, x)
        BY DEF x
      <3>7. InsertAt(v, i, x) \in Seq(T) /\ Len(InsertAt(v, i, x)) = Len(v) + 1
        BY <3>5, InsertAtElements, SMTT(30)
      <3>8. IsShifted(InsertAt(v, i, x), v, i, x)
        BY <3>5, InsertAtShifts
      <3>9. \A m \in 1 .. Len(v) + 1 :
              InsertAt(v, i, x)[m] = IF m < i THEN v[m] ELSE IF m = i THEN x ELSE v[m - 1]
        BY <3>8 DEF IsShifted
      <3> HIDE DEF w
      <3>10. w \in Seq(Op \X Nat) /\ Len(w) = Len(l) + 1
        BY <3>1, <3>6, <3>7 DEF T
      <3>11. \A m \in 1 .. Len(l) + 1 :
               w[m] = IF m < i THEN v[m] ELSE IF m = i THEN <<o, cppObj'[o]>> ELSE v[m - 1]
        BY <3>1, <3>6, <3>9, ZenonT(60) DEF x
      <3> HIDE DEF w
      <3>12. cppList'[k] = w
        BY <2>1, <3>2, VectorSet, ZenonT(60)
      <3>13. \A m \in 1 .. Len(l) : cppObj'[l[m]] = cppObj[l[m]]
        BY <2>13 DEF l
      <3>14. ASSUME NEW m \in 1 .. Len(lst'[c][k])
            PROVE  w[m] = <<lst'[c][k][m], cppObj'[lst'[c][k][m]]>>
        <4>1. CASE m < i
          <5>1. m \in 1 .. Len(l) /\ m \in 1 .. Len(l) + 1
            BY <2>2, <2>3, <3>4, <4>1
          <5>2. w[m] = v[m] /\ lst'[c][k][m] = l[m]
            BY <2>4, <3>11, <4>1, <5>1
          <5>3. QED
            BY <3>1, <3>13, <5>1, <5>2
        <4>2. CASE m = i
          <5>1. w[m] = <<o, cppObj'[o]>> /\ lst'[c][k][m] = o
            BY <2>2, <2>4, <3>4, <3>11, <4>2, SMTT(30)
          <5>2. QED
            BY <5>1
        <4>3. CASE ~(m < i) /\ m # i
          <5>1. m - 1 \in 1 .. Len(l) /\ m \in 1 .. Len(l) + 1
            BY <2>2, <2>3, <3>4, <4>3
          <5>2. w[m] = v[m - 1] /\ lst'[c][k][m] = l[m - 1]
            BY <2>4, <3>11, <4>3, <5>1
          <5>3. QED
            BY <3>1, <3>13, <5>1, <5>2, ZenonT(60)
        <4>4. QED
          BY <4>1, <4>2, <4>3
      <3>15. cppList'[k] \in Seq(Op \X Nat) /\ Len(cppList'[k]) = Len(lst'[c][k])
        BY <2>3, <3>10, <3>12
      <3>16. \A m \in 1 .. Len(lst'[c][k]) : cppList'[k][m] = <<lst'[c][k][m], cppObj'[lst'[c][k][m]]>>
        BY <3>12, <3>14
      <3>17. QED
        BY <2>6, <2>17, <3>15, <3>16 DEF ListMirrored, Cpp
    <2>18. \A j \in Kind : synced[operations][j] => ListMirrored(j)'
      BY <2>16, <2>17
    <2>19. QED
      BY <2>15, <2>18
  <1>3. ASSUME NEW c \in Container, NEW k \in Kind, NEW o \in Op,
               NEW i \in 1 .. Len(lst[c][k]), SetItem(c, k, i, o)
        PROVE  MirrorInv'
    <2> DEFINE l == lst[c][k]
    <2>1. TypeOK /\ OnePlace /\ MirrorInv /\ operations \in Container
      BY DEF IInv, TypeOK
    <2>2. Len(l) \in Nat
      BY <2>1, LenProperties, SMTT(30) DEF TypeOK
    <2>3. lst' \in [Container -> [Kind -> Seq(Op)]] /\ Len(lst'[c][k]) = Len(l)
      BY <1>3, <2>1, SetItemEffect
    <2>4. \A j \in 1 .. Len(l) : lst'[c][k][j] = IF j = i THEN o ELSE l[j]
      BY <1>3, <2>1, SetItemEffect, SMTT(30)
    <2>5. \A d \in Container, j \in Kind : d # c \/ j # k => lst'[d][j] = lst[d][j]
      BY <1>3, <2>1, SetItemEffect
    <2>6. UNCHANGED <<synced, operations, mishaps>>
      BY <1>3 DEF SetItem
    <2>7. SUFFICES ASSUME mishaps \intersect {"appended", "replaced", "abandoned"} = {}
                   PROVE  /\ \A j \in Kind : synced[operations][j] => ListMirrored(j)'
                          /\ \A j \in Kind : ~synced[operations][j] => cppList'[j] = << >>
      BY <2>1, <2>6 DEF MirrorInv
    <2>8. /\ \A j \in Kind : synced[operations][j] => ListMirrored(j)
          /\ \A j \in Kind : ~synced[operations][j] => cppList[j] = << >>
          /\ synced[c][k] => c = operations
      BY <2>1, <2>7 DEF MirrorInv
    <2>9. l[i] \in Op /\ added[l[i]] /\ l[i] \in Obj
      BY <2>1, Places DEF Obj
    <2>10. \A d \in Container, j \in Kind : \A m \in 1 .. Len(lst[d][j]) :
              /\ lst[d][j][m] \in Op /\ added[lst[d][j][m]]
              /\ d # c \/ j # k \/ m # i => lst[d][j][m] # l[i]
      BY <2>1, Places, SMTT(30)
    <2>11. ~added[o] /\ o \in Obj
      BY <1>3 DEF SetItem, MayBeAdded, Obj
    <2>12. \A x \in Op : x # l[i] /\ x # o => cppObj'[x] = cppObj[x]
      <3>1. \A x \in Op : x \in Obj
        BY DEF Obj
      <3>2. cppObj \in [Obj -> Nat]
        BY <2>1 DEF TypeOK
      <3>3. cppObj' = [cppObj EXCEPT ![o] = born[o] + 1, ![l[i]] = 0] \/ cppObj' = cppObj
        BY <1>3 DEF SetItem
      <3> HIDE DEF l
      <3>4. QED
        BY <3>1, <3>2, <3>3
    <2>13. \A d \in Container, j \in Kind : \A m \in 1 .. Len(lst[d][j]) :
              d # c \/ j # k \/ m # i => cppObj'[lst[d][j][m]] = cppObj[lst[d][j][m]]
      <3>1. TAKE d \in Container, j \in Kind
      <3>2. TAKE m \in 1 .. Len(lst[d][j])
      <3>3. HAVE d # c \/ j # k \/ m # i
      <3>4. lst[d][j][m] \in Op /\ lst[d][j][m] # l[i] /\ lst[d][j][m] # o
        BY <2>10, <2>11, <3>3
      <3>5. QED
        BY <2>12, <3>4
    <2>14. \A j \in Kind : ~(c = operations /\ j = k /\ synced[c][k]) => cppList'[j] = cppList[j]
      BY <1>3, <2>1, <2>8 DEF SetItem, TypeOK
    <2>15. \A j \in Kind : ~synced[operations][j] => cppList'[j] = << >>
      BY <2>8, <2>14
    <2>16. ASSUME NEW j \in Kind, synced[operations][j], operations # c \/ j # k
           PROVE  ListMirrored(j)'
      <3>1. lst'[operations][j] = lst[operations][j] /\ cppList'[j] = cppList[j]
        BY <2>1, <2>5, <2>14, <2>16
      <3>2. \A m \in 1 .. Len(lst[operations][j]) :
               cppObj'[lst[operations][j][m]] = cppObj[lst[operations][j][m]]
        BY <2>1, <2>13, <2>16
      <3>3. ListMirrored(j)
        BY <2>8, <2>16
      <3>4. QED
        BY <2>1, <2>6, <3>1, <3>2, <3>3, MirrorsSame
    <2>17. ASSUME c = operations, synced[c][k]
           PROVE  ListMirrored(k)'
      <3> DEFINE v == cppList[k]
                 w == [v EXCEPT ![i] = <<o, born[o] + 1>>]
      <3>1. v \in Seq(Op \X Nat) /\ Len(v) = Len(l) /\ \A m \in 1 .. Len(l) : v[m] = <<l[m], cppObj[l[m]]>>
        BY <2>8, <2>17 DEF ListMirrored, Cpp
      <3>2. cppList' = [cppList EXCEPT ![k] = w]
        BY <1>3, <2>17 DEF SetItem
      <3>3. cppObj'[o] = born[o] + 1 /\ <<o, born[o] + 1>> \in Op \X Nat
        <4>1. cppObj \in [Obj -> Nat] /\ born \in [Obj -> Nat] /\ o # l[i]
          BY <2>1, <2>9, <2>11 DEF TypeOK
        <4>2. cppObj' = [cppObj EXCEPT ![o] = born[o] + 1, ![l[i]] = 0]
          BY <1>3, <2>17 DEF SetItem
        <4> HIDE DEF l
        <4>3. QED
          BY <2>11, <4>1, <4>2, SMTT(30)
      <3>4. i \in 1 .. Len(l)
        OBVIOUS
      <3> HIDE DEF v, l
      <3> DEFINE T == Op \X Nat
                 x == <<o, born[o] + 1>>
      <3>5. v \in Seq(T) /\ x \in T /\ i \in 1 .. Len(v)
        BY <3>1, <3>3, <3>4
      <3> HIDE DEF T, x
      <3>6. w = [v EXCEPT ![i] = x]
        BY DEF x
      <3>7. [v EXCEPT ![i] = x] \in Seq(T) /\ Len([v EXCEPT ![i] = x]) = Len(v)
        BY <3>5, ExceptElements, SMTT(30)
      <3>8. \A m \in 1 .. Len(v) : [v EXCEPT ![i] = x][m] = IF m = i THEN x ELSE v[m]
        BY <3>5, ExceptElements, SMTT(30)
      <3> HIDE DEF w
      <3>9. w \in Seq(Op \X Nat) /\ Len(w) = Len(l)
        BY <3>1, <3>6, <3>7 DEF T
      <3>10. \A m \in 1 .. Len(l) : w[m] = IF m = i THEN <<o, born[o] + 1>> ELSE v[m]
        BY <3>1, <3>6, <3>8 DEF x
      <3> HIDE DEF w
      <3>11. cppList'[k] = w
        BY <2>1, <3>2, VectorSet, Zenon
      <3>12. \A m \in 1 .. Len(l) : m # i => cppObj'[l[m]] = cppObj[l[m]]
        BY <2>13 DEF l
      <3>13. ASSUME NEW m \in 1 .. Len(lst'[c][k])
            PROVE  w[m] = <<lst'[c][k][m], cppObj'[lst'[c][k][m]]>>
        <4>1. m \in 1 .. Len(l)
          BY <2>3
        <4>2. CASE m = i
          <5>1. w[m] = <<o, born[o] + 1>> /\ lst'[c][k][m] = o
            BY <2>4, <3>10, <4>1, <4>2
          <5>2. QED
            BY <3>3, <5>1
        <4>3. CASE m # i
          <5>1. w[m] = v[m] /\ lst'[c][k][m] = l[m]
            BY <2>4, <3>10, <4>1, <4>3
          <5>2. QED
            BY <3>1, <3>12, <4>1, <4>3, <5>1
        <4>4. QED
          BY <4>2, <4>3
      <3>14. cppList'[k] \in Seq(Op \X Nat) /\ Len(cppList'[k]) = Len(lst'[c][k])
        BY <2>3, <3>9, <3>11
      <3>15. \A m \in 1 .. Len(lst'[c][k]) : cppList'[k][m] = <<lst'[c][k][m], cppObj'[lst'[c][k][m]]>>
        BY <3>11, <3>13
      <3>16. QED
        BY <2>6, <2>17, <3>14, <3>15 DEF ListMirrored, Cpp
    <2>18. \A j \in Kind : synced[operations][j] => ListMirrored(j)'
      BY <2>16, <2>17
    <2>19. QED
      BY <2>15, <2>18
  <1>4. ASSUME NEW c \in Container, NEW k \in Kind, NEW i \in 1 .. Len(lst[c][k]),
               DelItem(c, k, i)
        PROVE  MirrorInv'
    <2> DEFINE l == lst[c][k]
    <2>1. TypeOK /\ OnePlace /\ MirrorInv /\ operations \in Container
      BY DEF IInv, TypeOK
    <2>2. Len(l) \in Nat
      BY <2>1, LenProperties, SMTT(30) DEF TypeOK
    <2>3. lst' \in [Container -> [Kind -> Seq(Op)]] /\ Len(lst'[c][k]) = Len(l) - 1
      BY <1>4, <2>1, DelItemEffect
    <2>4. \A j \in 1 .. Len(l) - 1 : lst'[c][k][j] = IF j < i THEN l[j] ELSE l[j + 1]
      BY <1>4, <2>1, DelItemEffect
    <2>5. \A d \in Container, j \in Kind : d # c \/ j # k => lst'[d][j] = lst[d][j]
      BY <1>4, <2>1, DelItemEffect
    <2>6. UNCHANGED <<synced, operations, mishaps>>
      BY <1>4 DEF DelItem
    <2>7. SUFFICES ASSUME mishaps \intersect {"appended", "replaced", "abandoned"} = {}
                   PROVE  /\ \A j \in Kind : synced[operations][j] => ListMirrored(j)'
                          /\ \A j \in Kind : ~synced[operations][j] => cppList'[j] = << >>
      BY <2>1, <2>6 DEF MirrorInv
    <2>8. /\ \A j \in Kind : synced[operations][j] => ListMirrored(j)
          /\ \A j \in Kind : ~synced[operations][j] => cppList[j] = << >>
          /\ synced[c][k] => c = operations
      BY <2>1, <2>7 DEF MirrorInv
    <2>9. l[i] \in Op /\ added[l[i]] /\ l[i] \in Obj
      BY <2>1, Places DEF Obj
    <2>10. \A d \in Container, j \in Kind : \A m \in 1 .. Len(lst[d][j]) :
              /\ lst[d][j][m] \in Op /\ added[lst[d][j][m]]
              /\ d # c \/ j # k \/ m # i => lst[d][j][m] # l[i]
      BY <2>1, Places, SMTT(30)
    <2>11. \A x \in Op : x # l[i] => cppObj'[x] = cppObj[x]
      <3>1. \A x \in Op : x \in Obj
        BY DEF Obj
      <3>2. cppObj \in [Obj -> Nat]
        BY <2>1 DEF TypeOK
      <3>3. cppObj' = [cppObj EXCEPT ![l[i]] = 0] \/ cppObj' = cppObj
        BY <1>4 DEF DelItem
      <3> HIDE DEF l
      <3>4. QED
        BY <3>1, <3>2, <3>3
    <2>12. \A d \in Container, j \in Kind : \A m \in 1 .. Len(lst[d][j]) :
              d # c \/ j # k \/ m # i => cppObj'[lst[d][j][m]] = cppObj[lst[d][j][m]]
      BY <2>10, <2>11
    <2>13. \A j \in Kind : ~(c = operations /\ j = k /\ synced[c][k]) => cppList'[j] = cppList[j]
      BY <1>4, <2>1, <2>8 DEF DelItem, TypeOK
    <2>14. \A j \in Kind : ~synced[operations][j] => cppList'[j] = << >>
      BY <2>8, <2>13
    <2>15. ASSUME NEW j \in Kind, synced[operations][j], operations # c \/ j # k
           PROVE  ListMirrored(j)'
      <3>1. lst'[operations][j] = lst[operations][j] /\ cppList'[j] = cppList[j]
        BY <2>1, <2>5, <2>13, <2>15
      <3>2. \A m \in 1 .. Len(lst[operations][j]) :
               cppObj'[lst[operations][j][m]] = cppObj[lst[operations][j][m]]
        BY <2>1, <2>12, <2>15
      <3>3. ListMirrored(j)
        BY <2>8, <2>15
      <3>4. QED
        BY <2>1, <2>6, <3>1, <3>2, <3>3, MirrorsSame
    <2>16. ASSUME c = operations, synced[c][k]
           PROVE  ListMirrored(k)'
      <3> DEFINE v == cppList[k]
                 w == RemoveAt(v, i)
      <3>1. v \in Seq(Op \X Nat) /\ Len(v) = Len(l) /\ \A m \in 1 .. Len(l) : v[m] = <<l[m], cppObj[l[m]]>>
        BY <2>8, <2>16 DEF ListMirrored, Cpp
      <3>2. cppList' = [cppList EXCEPT ![k] = w]
        BY <1>4, <2>16 DEF DelItem
      <3>3. i \in 1 .. Len(l)
        OBVIOUS
      <3> HIDE DEF v, l
      <3>4. v \in Seq(Op \X Nat) /\ i \in 1 .. Len(v)
        BY <3>1, <3>3
      <3>5. \A m \in 1 .. Len(v) - 1 : w[m] = IF m < i THEN v[m] ELSE v[m + 1]
        BY <3>4, RemoveAtElements, Zenon
      <3>6. w \in Seq(Op \X Nat) /\ Len(w) = Len(v) - 1
        BY <3>4, RemoveAtElements
      <3> HIDE DEF w
      <3>7. w \in Seq(Op \X Nat) /\ Len(w) = Len(l) - 1
        BY <3>1, <3>6
      <3>8. \A m \in 1 .. Len(l) - 1 : w[m] = IF m < i THEN v[m] ELSE v[m + 1]
        BY <3>1, <3>5
      <3> HIDE DEF w
      <3>9. cppList'[k] = w
        BY <2>1, <3>2, VectorSet, ZenonT(30)
      <3>10. \A m \in 1 .. Len(l) : m # i => cppObj'[l[m]] = cppObj[l[m]]
        BY <2>12 DEF l
      <3>11. ASSUME NEW m \in 1 .. Len(lst'[c][k])
            PROVE  w[m] = <<lst'[c][k][m], cppObj'[lst'[c][k][m]]>>
        <4>1. CASE m < i
          <5>1. m \in 1 .. Len(l) /\ m \in 1 .. Len(l) - 1 /\ m # i
            BY <2>2, <2>3, <3>3, <4>1
          <5>2. w[m] = v[m] /\ lst'[c][k][m] = l[m]
            BY <2>4, <3>8, <4>1, <5>1
          <5>3. QED
            BY <3>1, <3>10, <5>1, <5>2
        <4>2. CASE ~(m < i)
          <5>1. m + 1 \in 1 .. Len(l) /\ m \in 1 .. Len(l) - 1 /\ m + 1 # i
            BY <2>2, <2>3, <3>3, <4>2
          <5>2. w[m] = v[m + 1] /\ lst'[c][k][m] = l[m + 1]
            BY <2>4, <3>8, <4>2, <5>1
          <5>3. QED
            BY <3>1, <3>10, <5>1, <5>2, ZenonT(60)
        <4>3. QED
          BY <4>1, <4>2
      <3>12. cppList'[k] \in Seq(Op \X Nat) /\ Len(cppList'[k]) = Len(lst'[c][k])
        BY <2>3, <3>7, <3>9
      <3>13. \A m \in 1 .. Len(lst'[c][k]) : cppList'[k][m] = <<lst'[c][k][m], cppObj'[lst'[c][k][m]]>>
        BY <3>9, <3>11
      <3>14. QED
        BY <2>6, <2>16, <3>12, <3>13 DEF ListMirrored, Cpp
    <2>17. \A j \in Kind : synced[operations][j] => ListMirrored(j)'
      BY <2>15, <2>16
    <2>18. QED
      BY <2>14, <2>17
  <1>5. ASSUME NEW c \in Container, NEW op \in Integ \union {NoObj}, SetIntegrator(c, op)
        PROVE  MirrorInv'
    <2>1. /\ integrator[c] \in Integ \union {NoObj} /\ cppObj \in [Obj -> Nat]
          /\ UNCHANGED <<lst, synced, operations, cppList>> /\ mishaps \subseteq mishaps'
      BY <1>5 DEF IInv, TypeOK, SetIntegrator
    <2>2. \A x \in Op : x \in Obj /\ x # op /\ x # integrator[c]
      BY <2>1, OperationsAssumption DEF Obj
    <2>3. \A x \in Op : cppObj'[x] = cppObj[x]
      BY <1>5, <2>1, <2>2 DEF SetIntegrator
    <2>4. QED
      BY <2>1, <2>3, AllMirrorsSame DEF IInv
  <1>6. CASE Run
    <2>1. UNCHANGED <<lst, synced, operations, cppList, cppObj, mishaps>>
      BY <1>6 DEF Run
    <2>2. QED
      BY <2>1, AllMirrorsSame DEF IInv
  <1>7. CASE ScheduleIntegrator
    <2>1. UNCHANGED <<lst, synced, operations, cppList>> /\ mishaps \subseteq mishaps'
      BY <1>7 DEF ScheduleIntegrator
    <2>2. \/ cppObj' = cppObj
          \/ Attached({integrator[operations]}) /\ integrator[operations] # NoObj
      BY <1>7 DEF ScheduleIntegrator
    <2>3. \A x \in Op : x \in Obj /\ x \notin {integrator[operations]}
      BY OperationsAssumption DEF IInv, TypeOK, Obj
    <2>4. \A x \in Op : cppObj'[x] = cppObj[x]
      BY <2>2, <2>3, AttachedTypes DEF IInv
    <2>5. QED
      BY <2>1, <2>4, AllMirrorsSame DEF IInv
  <1>8. CASE Sync
    <2>1. TypeOK /\ OnePlace /\ MirrorInv /\ operations \in Container
      BY DEF IInv, TypeOK
    <2>2. PICK k \in Kind : k = Kinds[pc]
      BY <1>8, <2>1, SyncEffect
    <2> DEFINE l == lst[operations][k]
    <2>3. UNCHANGED <<lst, operations>>
      BY <1>8, <2>1, SyncEffect
    <2>4. CASE UNCHANGED <<synced, cppObj, cppList, mishaps>>
      BY <2>1, <2>3, <2>4, AllMirrorsSame
    <2>5. ASSUME NEW n \in 0 .. Len(l), SyncList(k, n), ~synced[operations][k]
          PROVE  MirrorInv'
      <3> DEFINE f == [i \in 1 .. n |-> <<l[i], cppObj'[l[i]]>>]
      <3>1. /\ cppList' = [cppList EXCEPT ![k] = cppList[k] \o f]
            /\ mishaps \subseteq mishaps'
            /\ n < Len(l) /\ n > 0 => "appended" \in mishaps'
        BY <2>5 DEF SyncList
      <3>2. SUFFICES ASSUME mishaps' \intersect {"appended", "replaced", "abandoned"} = {}
                     PROVE  /\ \A j \in Kind : synced'[operations][j] => ListMirrored(j)'
                            /\ \A j \in Kind : ~synced'[operations][j] => cppList'[j] = << >>
                            /\ \A c \in Container, j \in Kind : synced'[c][j] => c = operations
        BY <2>3 DEF MirrorInv
      <3>3. /\ \A j \in Kind : synced[operations][j] => ListMirrored(j)
            /\ \A j \in Kind : ~synced[operations][j] => cppList[j] = << >>
            /\ \A c \in Container, j \in Kind : synced[c][j] => c = operations
        BY <2>1, <3>1, <3>2 DEF MirrorInv
      <3>4. synced' = [synced EXCEPT ![operations][k] = (n = Len(l))]
        BY <2>1, <2>3, <2>5, SyncListEffect
      <3>5. \A o \in Obj : o \notin Items(l) => cppObj'[o] = cppObj[o]
        BY <2>1, <2>3, <2>5, SyncListEffect
      <3>6. cppObj' \in [Obj -> Nat]
        BY <2>1, <2>3, <2>5, SyncListEffect
      <3>7. /\ l \in Seq(Op) /\ Len(l) \in Nat /\ DOMAIN l = 1 .. Len(l)
            /\ \A i \in 1 .. Len(l) : l[i] \in Op
        BY <2>1, <2>3, ElementOfSeq, LenProperties, SMTT(30) DEF TypeOK
      <3>8. \A c \in Container, j \in Kind : synced'[c][j] => c = operations
        BY <2>1, <2>3, <3>3, <3>4 DEF TypeOK
      <3>9. \A j \in Kind : j # k => synced'[operations][j] = synced[operations][j] /\ cppList'[j] = cppList[j]
        BY <2>1, <2>3, <3>1, <3>4 DEF TypeOK
      <3>10. ASSUME NEW j \in Kind, j # k, synced[operations][j]
             PROVE  ListMirrored(j)'
        <4>1. \A m \in 1 .. Len(lst[operations][j]) :
                 /\ lst[operations][j][m] \in Obj
                 /\ \A i \in 1 .. Len(l) : lst[operations][j][m] # l[i]
          BY <2>1, <2>3, <3>10, Places, SMTT(30) DEF Obj
        <4>2. \A m \in 1 .. Len(lst[operations][j]) : lst[operations][j][m] \notin Items(l)
          <5> HIDE DEF l
          <5>1. QED
            BY <3>7, <4>1 DEF Items
        <4>3. \A m \in 1 .. Len(lst[operations][j]) : lst[operations][j][m] \in Obj
          BY <2>1, Places DEF Obj
        <4>4. \A m \in 1 .. Len(lst[operations][j]) :
                 cppObj'[lst[operations][j][m]] = cppObj[lst[operations][j][m]]
          <5> HIDE DEF l
          <5>1. QED
            BY <3>5, <4>3, <4>2
        <4>5. ListMirrored(j)
          BY <3>3, <3>10
        <4>6. QED
          BY <2>1, <2>3, <3>9, <3>10, <4>4, <4>5, MirrorsSame
      <3>11. cppList[k] = << >>
        BY <2>3, <2>5, <3>3
      <3>12. f \in Seq(Op \X Nat) /\ Len(f) = n /\ n \in Nat
        <4> HIDE DEF l
        <4>1. n \in Nat /\ \A i \in 1 .. n : <<l[i], cppObj'[l[i]]>> \in Op \X Nat
          BY <3>6, <3>7, SMTT(30) DEF Obj
        <4>2. QED
          BY <4>1
      <3>13. cppList'[k] = f
        <4> HIDE DEF f
        <4>1. << >> \o f = f
          BY <3>12, EmptySeq
        <4>2. QED
          BY <2>1, <2>3, <3>1, <3>11, <4>1, VectorSet, ZenonT(60)
      <3>14. CASE n = Len(l)
        <4>1. synced'[operations][k]
          BY <2>1, <2>3, <3>4, <3>14, ZenonT(60) DEF TypeOK
        <4>2. \A i \in 1 .. Len(l) : cppList'[k][i] = <<l[i], cppObj'[l[i]]>>
          <5> HIDE DEF l
          <5>1. QED
            BY <3>13, <3>14
        <4>3. cppList'[k] \in Seq(Op \X Nat) /\ Len(cppList'[k]) = Len(l)
          <5> HIDE DEF l, f
          <5>1. QED
            BY <3>12, <3>13, <3>14
        <4>4. ListMirrored(k)'
          <5>1. lst'[operations'][k] = l
            BY <2>3
          <5> HIDE DEF l
          <5>2. QED
            BY <4>2, <4>3, <5>1 DEF ListMirrored, Cpp
        <4> HIDE DEF l, f
        <4>5. \A j \in Kind : synced'[operations][j] => ListMirrored(j)'
          BY <3>9, <3>10, <4>4
        <4>6. \A j \in Kind : ~synced'[operations][j] => cppList'[j] = << >>
          BY <3>3, <3>9, <4>1
        <4>7. QED
          BY <3>8, <4>5, <4>6
      <3>15. CASE n # Len(l)
        <4>1. n = 0
          <5> HIDE DEF l
          <5>1. QED
            <6>1. ~(n < Len(l) /\ n > 0)
              BY <3>1, <3>2
            <6>2. n \in Nat /\ n <= Len(l)
              BY <2>5, <3>7, SMTT(30)
            <6>3. Len(l) \in Nat /\ n # Len(l)
              BY <3>7, <3>15, ZenonT(60)
            <6>4. QED
              BY <6>1, <6>2, <6>3, SMTT(30)
        <4>2. f = << >>
          <5> HIDE DEF f
          <5>1. QED
            BY <3>12, <4>1, EmptySeq
        <4>3. cppList'[k] = << >> /\ ~synced'[operations][k]
          BY <2>1, <2>3, <3>4, <3>13, <3>15, <4>2, ZenonT(60) DEF TypeOK
        <4>4. QED
          BY <3>3, <3>8, <3>9, <3>10, <4>3
      <3>16. QED
        BY <3>14, <3>15
    <2>6. QED
      BY <1>8, <2>1, <2>2, <2>4, <2>5, SyncEffect
  <1>9. CASE Scheduled
    <2>1. UNCHANGED <<lst, synced, operations, cppList, cppObj, mishaps>>
      BY <1>9 DEF Scheduled
    <2>2. QED
      BY <2>1, AllMirrorsSame DEF IInv
  <1>10. ASSUME NEW c \in Container, SetOperations(c)
        PROVE  MirrorInv'
    <2>1. SUFFICES ASSUME mishaps' \intersect {"appended", "replaced", "abandoned"} = {}
                   PROVE  /\ \A k \in Kind : cppList'[k] = << >>
                          /\ \A d \in Container, k \in Kind : ~synced'[d][k]
      BY <1>10 DEF SetOperations, MirrorInv
    <2>2. mishaps' = mishaps \union Left(operations) /\ cppList' = cppList
      BY <1>10 DEF SetOperations
    <2>3. ~scheduled[operations] /\ ~Begun(operations)
      BY <2>1, <2>2 DEF Left
    <2>4. \A k \in Kind : ~synced[operations][k]
      BY <2>3 DEF Begun
    <2>5. synced' = synced
      BY <1>10, <2>3 DEF SetOperations
    <2>6. mishaps \intersect {"appended", "replaced", "abandoned"} = {}
      BY <2>1, <2>2
    <2>7. QED
      BY <2>2, <2>4, <2>5, <2>6 DEF IInv, MirrorInv
  <1>11. ASSUME NEW o \in Obj, Complete(o)
        PROVE  MirrorInv'
    <2>1. UNCHANGED <<lst, synced, operations, cppList, cppObj, mishaps>>
      BY <1>11 DEF Complete
    <2>2. QED
      BY <2>1, AllMirrorsSame DEF IInv
  <1>12. CASE UNCHANGED vars
    <2>1. UNCHANGED <<lst, synced, operations, cppList, cppObj, mishaps>>
      BY <1>12 DEF vars, user
    <2>2. QED
      BY <2>1, AllMirrorsSame DEF IInv
  <1>13. script.containers \subseteq Container
    BY DEF IInv, TypeOK, Script
  <1>14. QED
    BY <1>1, <1>2, <1>3, <1>4, <1>5, <1>6, <1>7, <1>8, <1>9, <1>10, <1>11, <1>12, <1>13 DEF Next

\* A step that leaves the integrators alone.
LEMMA IntegratorsSame ==
  ASSUME TypeOK, IntegratorInv, mishaps \subseteq mishaps',
         UNCHANGED <<integrator, operations, cppIntegrator>>,
         scheduled'[operations] \/ pc' >= 1 => scheduled[operations] \/ pc >= 1,
         \A x \in Integ : cppObj'[x] = cppObj[x]
  PROVE  IntegratorInv'
PROOF
  <1>1. operations \in Container /\ \A c \in Container : integrator[c] # NoObj => integrator[c] \in Integ
    BY DEF TypeOK
  <1>2. QED
    BY <1>1, Zenon DEF IntegratorInv

\* The C++ System is told whenever the integrator it should use gets a C++ object.
LEMMA IntegratorKept ==
  ASSUME IInv, [Next]_vars
  PROVE  IntegratorInv'
PROOF
  <1>1. ASSUME NEW c \in Container, NEW k \in Kind, NEW o \in Op, AddingRaises(c, k, o)
        PROVE  IntegratorInv'
    <2>1. /\ UNCHANGED <<integrator, operations, cppIntegrator, scheduled, mishaps, pc>>
      BY <1>1 DEF AddingRaises
    <2>2. \A x \in Integ : x \in Obj /\ x \notin Op
      BY OperationsAssumption DEF Obj
    <2>3. AttachValue(c, k, o)
      BY <1>1 DEF AddingRaises
    <2>4. \A x \in Integ : cppObj'[x] = cppObj[x]
      BY <2>2, <2>3, OneAttached, SMTT(30) DEF IInv
    <2>5. QED
      BY <2>1, <2>4, IntegratorsSame DEF IInv
  <1>2. ASSUME NEW c \in Container, NEW k \in Kind, NEW o \in Op,
               NEW i \in 1 .. Len(lst[c][k]) + 1, Insert(c, k, i, o)
        PROVE  IntegratorInv'
    <2>1. /\ UNCHANGED <<integrator, operations, cppIntegrator, scheduled, mishaps, pc>>
      BY <1>2 DEF Insert
    <2>2. \A x \in Integ : x \in Obj /\ x \notin Op
      BY OperationsAssumption DEF Obj
    <2>3. AttachValue(c, k, o)
      BY <1>2 DEF Insert
    <2>4. \A x \in Integ : cppObj'[x] = cppObj[x]
      BY <2>2, <2>3, OneAttached, SMTT(30) DEF IInv
    <2>5. QED
      BY <2>1, <2>4, IntegratorsSame DEF IInv
  <1>3. ASSUME NEW c \in Container, NEW k \in Kind, NEW o \in Op,
               NEW i \in 1 .. Len(lst[c][k]), SetItem(c, k, i, o)
        PROVE  IntegratorInv'
    <2>1. /\ UNCHANGED <<integrator, operations, cppIntegrator, scheduled, mishaps, pc>>
      BY <1>3 DEF SetItem
    <2>2. \A x \in Integ : x \in Obj /\ x \notin Op
      BY OperationsAssumption DEF Obj
    <2>3. lst[c][k][i] \in Op
      BY Places DEF IInv
    <2>4. \A x \in Integ : cppObj'[x] = cppObj[x]
      <3> DEFINE old == lst[c][k][i]
      <3>1. cppObj' = cppObj \/ cppObj' = [cppObj EXCEPT ![o] = born[o] + 1, ![old] = 0]
        BY <1>3 DEF SetItem
      <3>2. cppObj \in [Obj -> Nat]
        BY DEF IInv, TypeOK
      <3>3. old \in Op
        BY <2>3
      <3> HIDE DEF old
      <3>4. QED
        BY <2>2, <3>1, <3>2, <3>3
    <2>5. QED
      BY <2>1, <2>4, IntegratorsSame DEF IInv
  <1>4. ASSUME NEW c \in Container, NEW k \in Kind, NEW i \in 1 .. Len(lst[c][k]),
               DelItem(c, k, i)
        PROVE  IntegratorInv'
    <2>1. /\ UNCHANGED <<integrator, operations, cppIntegrator, scheduled, mishaps, pc>>
      BY <1>4 DEF DelItem
    <2>2. \A x \in Integ : x \in Obj /\ x \notin Op
      BY OperationsAssumption DEF Obj
    <2>3. lst[c][k][i] \in Op
      BY Places DEF IInv
    <2>4. \A x \in Integ : cppObj'[x] = cppObj[x]
      <3> DEFINE old == lst[c][k][i]
      <3>1. cppObj' = cppObj \/ cppObj' = [cppObj EXCEPT ![old] = 0]
        BY <1>4 DEF DelItem
      <3>2. cppObj \in [Obj -> Nat]
        BY DEF IInv, TypeOK
      <3>3. old \in Op
        BY <2>3
      <3> HIDE DEF old
      <3>4. QED
        BY <2>2, <3>1, <3>2, <3>3
    <2>5. QED
      BY <2>1, <2>4, IntegratorsSame DEF IInv
  <1>5. ASSUME NEW c \in Container, NEW op \in Integ \union {NoObj}, SetIntegrator(c, op)
        PROVE  IntegratorInv'
    <2>1. /\ operations \in Container /\ cppObj \in [Obj -> Nat] /\ born \in [Obj -> Nat]
          /\ \A d \in Container : integrator[d] # NoObj => integrator[d] \in Obj
      BY DEF IInv, TypeOK, Obj
    <2>2. SUFFICES ASSUME mishaps' \intersect {"not told", "shared", "abandoned"} = {}
                   PROVE  /\ \A d, e \in Container :
                                integrator'[d] = integrator'[e] /\ integrator'[d] # NoObj => d = e
                          /\ \A d \in Container :
                                d # operations' /\ integrator'[d] # NoObj => cppObj'[integrator'[d]] = 0
                          /\ integrator'[operations'] # NoObj =>
                                /\ cppObj'[integrator'[operations']] # 0 =>
                                      cppIntegrator' = <<integrator'[operations'], cppObj'[integrator'[operations']]>>
                                /\ scheduled'[operations'] \/ pc' >= 1 => cppObj'[integrator'[operations']] # 0
      BY Zenon DEF IntegratorInv
    <2>3. mishaps \subseteq mishaps'
      BY <1>5 DEF SetIntegrator
    <2>4. /\ \A d, e \in Container : integrator[d] = integrator[e] /\ integrator[d] # NoObj => d = e
          /\ \A d \in Container : d # operations /\ integrator[d] # NoObj => cppObj[integrator[d]] = 0
          /\ integrator[operations] # NoObj =>
                /\ cppObj[integrator[operations]] # 0
                      => cppIntegrator = <<integrator[operations], cppObj[integrator[operations]]>>
                /\ scheduled[operations] \/ pc >= 1 => cppObj[integrator[operations]] # 0
      BY <2>2, <2>3, ZenonT(60) DEF IInv, IntegratorInv
    <2> DEFINE old == integrator[c]
               attach == scheduled[c] /\ op # NoObj
    <2>5. /\ integrator' = [integrator EXCEPT ![c] = op] /\ integrator \in [Container -> Integ \union {NoObj}]
          /\ UNCHANGED <<operations, scheduled, pc>> /\ pc = Idle
      BY <1>5 DEF SetIntegrator, IInv, TypeOK
    <2>6. op # NoObj => op \in Obj /\ ~added[op] /\ cppObj[op] = 0
      BY <1>5 DEF SetIntegrator, MayBeAdded, IInv, IntegratorsAdded, Obj
    <2>7. op # NoObj => \A d \in Container : d # c => integrator[d] # op
      <3>1. "shared" \notin Shared(c, op)
        BY <1>5, <2>2, ZenonT(60) DEF SetIntegrator
      <3>2. QED
        BY <3>1 DEF Shared
    <2>8. \A d, e \in Container : integrator'[d] = integrator'[e] /\ integrator'[d] # NoObj => d = e
      BY <2>4, <2>5, <2>7
    <2>9. CASE attach
      <3>1. c = operations
        BY <2>9 DEF IInv, ScheduleInv
      <3>2. old # NoObj => old # op
        <4>1. old # NoObj => old \in Integ /\ cppObj[old] # 0
          BY <2>4, <2>5, <2>9, <3>1
        <4>2. old # NoObj => added[old]
          BY <4>1 DEF IInv, IntegratorsAdded
        <4>3. QED
          BY <2>6, <2>9, <4>2
      <3>3. "not told" \notin NotTold(op)
        BY <1>5, <2>2, <2>9, Zenon DEF SetIntegrator
      <3>4. cppIntegrator' = <<op, born[op] + 1>>
        <4>1. SetsCpp(op)
          BY <3>3 DEF NotTold
        <4>2. AttachIntegrator(op)
          BY <1>5, <2>9 DEF SetIntegrator
        <4>3. QED
          BY <4>1, <4>2 DEF AttachIntegrator
      <3>5. LET create == [cppObj EXCEPT ![op] = born[op] + 1] IN
            \/ cppObj' = create
            \/ old # NoObj /\ cppObj' = [create EXCEPT ![old] = 0]
        BY <1>5, <2>9 DEF SetIntegrator
      <3>6. cppObj'[op] = born[op] + 1 /\ born[op] + 1 # 0
        BY <2>1, <2>6, <2>9, <3>2, <3>5, SMTT(30)
      <3>7. \A x \in Obj : x # op /\ cppObj[x] = 0 => cppObj'[x] = 0
        BY <2>1, <2>6, <2>9, <3>5
      <3>8. \A d \in Container : d # operations /\ integrator[d] # NoObj =>
               integrator[d] \in Obj /\ integrator[d] # op /\ cppObj[integrator[d]] = 0
        BY <2>1, <2>4, <2>7, <2>9, <3>1
      <3>9. \A d \in Container : d # operations /\ integrator'[d] # NoObj => cppObj'[integrator'[d]] = 0
        BY <2>5, <3>1, <3>7, <3>8
      <3>10. integrator'[operations] = op
        BY <2>1, <2>5, <3>1
      <3>11. QED
        BY <2>5, <2>8, <3>4, <3>6, <3>9, <3>10
    <2>10. CASE ~attach
      <3>1. cppIntegrator' = cppIntegrator
        BY <1>5, <2>10 DEF SetIntegrator
      <3>2. cppObj' = cppObj \/ (old # NoObj /\ cppObj' = [cppObj EXCEPT ![old] = 0])
        BY <1>5, <2>10 DEF SetIntegrator
      <3>3. \A x \in Obj : (x # old => cppObj'[x] = cppObj[x]) /\ (cppObj[x] = 0 => cppObj'[x] = 0)
        BY <2>1, <3>2
      <3>4. op # NoObj => cppObj'[op] = 0
        BY <2>6, <3>3
      <3>5. \A d \in Container : d # c => integrator'[d] = integrator[d]
        BY <2>5
      <3>6. integrator'[c] = op
        BY <2>5
      <3>7. \A d \in Container : d # operations /\ integrator'[d] # NoObj => cppObj'[integrator'[d]] = 0
        BY <2>1, <2>4, <3>3, <3>4, <3>5, <3>6
      <3>8. CASE c = operations
        <4>1. op # NoObj => ~scheduled[operations]
          BY <2>10, <3>8
        <4>2. QED
          BY <2>5, <2>8, <3>4, <3>6, <3>7, <3>8, <4>1, SMTT(30) DEF Idle
      <3>9. CASE c # operations
        <4>1. integrator'[operations] = integrator[operations]
          BY <2>1, <3>5, <3>9
        <4>2. integrator[operations] # NoObj =>
                 integrator[operations] \in Obj /\ integrator[operations] # old
          BY <2>1, <2>4, <3>9
        <4>3. integrator[operations] # NoObj => cppObj'[integrator[operations]] = cppObj[integrator[operations]]
          BY <3>3, <4>2
        <4>4. QED
          BY <2>4, <2>5, <2>8, <3>1, <3>7, <4>1, <4>3
      <3>10. QED
        BY <3>8, <3>9
    <2>11. QED
      BY <2>9, <2>10
  <1>6. CASE Run
    <2>1. UNCHANGED <<integrator, operations, cppIntegrator, scheduled, mishaps, cppObj>> /\ pc' = 0
      BY <1>6 DEF Run, AtIntegrator
    <2>2. QED
      BY <2>1, IntegratorsSame DEF IInv
  <1>7. CASE ScheduleIntegrator
    <2>1. /\ operations \in Container /\ cppObj \in [Obj -> Nat] /\ born \in [Obj -> Nat]
          /\ \A d \in Container : integrator[d] # NoObj => integrator[d] \in Obj
      BY DEF IInv, TypeOK, Obj
    <2>2. SUFFICES ASSUME mishaps' \intersect {"not told", "shared", "abandoned"} = {}
                   PROVE  /\ \A d, e \in Container :
                                integrator'[d] = integrator'[e] /\ integrator'[d] # NoObj => d = e
                          /\ \A d \in Container :
                                d # operations' /\ integrator'[d] # NoObj => cppObj'[integrator'[d]] = 0
                          /\ integrator'[operations'] # NoObj =>
                                /\ cppObj'[integrator'[operations']] # 0 =>
                                      cppIntegrator' = <<integrator'[operations'], cppObj'[integrator'[operations']]>>
                                /\ scheduled'[operations'] \/ pc' >= 1 => cppObj'[integrator'[operations']] # 0
      BY Zenon DEF IntegratorInv
    <2>3. mishaps \subseteq mishaps'
      BY <1>7 DEF ScheduleIntegrator
    <2>4. /\ \A d, e \in Container : integrator[d] = integrator[e] /\ integrator[d] # NoObj => d = e
          /\ \A d \in Container : d # operations /\ integrator[d] # NoObj => cppObj[integrator[d]] = 0
          /\ integrator[operations] # NoObj =>
                /\ cppObj[integrator[operations]] # 0
                      => cppIntegrator = <<integrator[operations], cppObj[integrator[operations]]>>
                /\ scheduled[operations] \/ pc >= 1 => cppObj[integrator[operations]] # 0
      BY <2>2, <2>3, ZenonT(60) DEF IInv, IntegratorInv
    <2> DEFINE o == integrator[operations]
    <2>5. UNCHANGED <<integrator, operations, scheduled>> /\ ~scheduled[operations]
      <3>1. UNCHANGED <<integrator, operations, scheduled>> /\ pc # Idle
        BY <1>7, SMTT(30) DEF ScheduleIntegrator, Idle, AtIntegrator
      <3>2. ScheduleInv /\ operations \in Container
        BY DEF IInv, TypeOK
      <3>3. QED
        BY <3>1, <3>2, ZenonT(60) DEF ScheduleInv
    <2>6. CASE (o = NoObj \/ cppObj[o] # 0) /\ UNCHANGED <<cppObj, cppIntegrator>>
      BY <2>4, <2>5, <2>6
    <2>7. CASE o # NoObj /\ Attached({o}) /\ AttachIntegrator(o) /\ mishaps' = mishaps \union NotTold(o)
      <3>1. o \in Obj /\ born[o] + 1 # 0
        BY <2>1, <2>7
      <3>2. SetsCpp(o)
        BY <2>2, <2>7, ZenonT(60) DEF NotTold
      <3>3. cppIntegrator' = <<o, born[o] + 1>>
        BY <2>7, <3>2 DEF AttachIntegrator
      <3>4. cppObj'[o] = born[o] + 1 /\ \A x \in Obj : x # o => cppObj'[x] = cppObj[x]
        BY <2>7, <3>1 DEF Attached
      <3>5. \A d \in Container : d # operations /\ integrator[d] # NoObj => cppObj'[integrator[d]] = 0
        BY <2>1, <2>4, <2>7, <3>4
      <3>6. QED
        BY <2>4, <2>5, <3>1, <3>3, <3>4, <3>5
    <2>8. QED
      BY <1>7, <2>6, <2>7 DEF ScheduleIntegrator
  <1>8. CASE Sync
    <2>1. TypeOK /\ operations \in Container /\ Integ \subseteq Obj
      BY DEF IInv, TypeOK, Obj
    <2>2. PICK k \in Kind : k = Kinds[pc]
      BY <1>8, <2>1, SyncEffect
    <2>3. UNCHANGED <<integrator, operations, cppIntegrator, scheduled>> /\ pc >= 1
      BY <1>8, <2>1, SyncEffect
    <2> DEFINE l == lst[operations][k]
    <2>4. CASE UNCHANGED <<cppObj, mishaps>>
      BY <2>3, <2>4, IntegratorsSame DEF IInv
    <2>5. ASSUME NEW n \in 0 .. Len(l), SyncList(k, n)
          PROVE  IntegratorInv'
      <3>1. \A o \in Obj : o \notin Items(l) => cppObj'[o] = cppObj[o]
        BY <2>1, <2>5, SyncListEffect
      <3>2. mishaps \subseteq mishaps'
        BY <2>5 DEF SyncList
      <3>3. l \in Seq(Op) /\ DOMAIN l = 1 .. Len(l) /\ \A i \in 1 .. Len(l) : l[i] \in Op
        <4>1. l \in Seq(Op)
          BY <2>1, SMTT(30) DEF TypeOK
        <4> HIDE DEF l
        <4>2. QED
          BY <4>1, ElementOfSeq
      <3>4. \A x \in Integ : x \notin Items(l)
        <4> HIDE DEF l
        <4>1. Items(l) \subseteq Op
          BY <3>3 DEF Items
        <4>2. QED
          BY <4>1, OperationsAssumption
      <3>5. \A x \in Integ : cppObj'[x] = cppObj[x]
        BY <2>1, <3>1, <3>4
      <3>6. QED
        BY <2>3, <3>2, <3>5, IntegratorsSame DEF IInv
    <2>6. QED
      BY <1>8, <2>1, <2>2, <2>4, <2>5, SyncEffect
  <1>9. CASE Scheduled
    <2>1. UNCHANGED <<integrator, operations, cppIntegrator, mishaps, cppObj>> /\ pc = Len(Kinds) + 1
      BY <1>9 DEF Scheduled
    <2>2. pc >= 1
      BY <2>1, LenProperties, OperationsAssumption, SMTT(30)
    <2>3. QED
      BY <2>1, <2>2, IntegratorsSame DEF IInv
  <1>10. ASSUME NEW c \in Container, SetOperations(c)
        PROVE  IntegratorInv'
    <2>1. /\ operations \in Container /\ cppObj \in [Obj -> Nat] /\ born \in [Obj -> Nat]
          /\ \A d \in Container : integrator[d] # NoObj => integrator[d] \in Obj
      BY DEF IInv, TypeOK, Obj
    <2>2. SUFFICES ASSUME mishaps' \intersect {"not told", "shared", "abandoned"} = {}
                   PROVE  /\ \A d, e \in Container :
                                integrator'[d] = integrator'[e] /\ integrator'[d] # NoObj => d = e
                          /\ \A d \in Container :
                                d # operations' /\ integrator'[d] # NoObj => cppObj'[integrator'[d]] = 0
                          /\ integrator'[operations'] # NoObj =>
                                /\ cppObj'[integrator'[operations']] # 0 =>
                                      cppIntegrator' = <<integrator'[operations'], cppObj'[integrator'[operations']]>>
                                /\ scheduled'[operations'] \/ pc' >= 1 => cppObj'[integrator'[operations']] # 0
      BY Zenon DEF IntegratorInv
    <2>3. mishaps \subseteq mishaps'
      BY <1>10 DEF SetOperations
    <2>4. /\ \A d, e \in Container : integrator[d] = integrator[e] /\ integrator[d] # NoObj => d = e
          /\ \A d \in Container : d # operations /\ integrator[d] # NoObj => cppObj[integrator[d]] = 0
          /\ integrator[operations] # NoObj =>
                /\ cppObj[integrator[operations]] # 0
                      => cppIntegrator = <<integrator[operations], cppObj[integrator[operations]]>>
                /\ scheduled[operations] \/ pc >= 1 => cppObj[integrator[operations]] # 0
      BY <2>2, <2>3, ZenonT(60) DEF IInv, IntegratorInv
    <2>5. /\ operations' = c /\ c # operations /\ integrator' = integrator /\ cppIntegrator' = cppIntegrator
          /\ ~scheduled[c] /\ pc = Idle
      BY <1>10 DEF SetOperations
    <2>6. ~scheduled'[c] /\ ~(pc' >= 1)
      BY <1>10, <2>5 DEF SetOperations, IInv, TypeOK, Idle, AtIntegrator
    <2>7. \A x \in Obj : cppObj[x] = 0 => cppObj'[x] = 0
      BY <1>10 DEF SetOperations, Detached
    <2>8. integrator[operations] # NoObj => cppObj'[integrator[operations]] = 0
      <3>1. CASE scheduled[operations]
        BY <1>10, <2>1, <3>1 DEF SetOperations, Detached
      <3>2. CASE ~scheduled[operations]
        <4>1. "abandoned" \notin Left(operations)
          BY <1>10, <2>2, Zenon DEF SetOperations
        <4>2. ~Begun(operations)
          BY <3>2, <4>1 DEF Left
        <4>3. QED
          BY <2>1, <2>7, <4>2 DEF Begun
      <3>3. QED
        BY <3>1, <3>2
    <2>9. \A d \in Container : integrator[d] # NoObj => cppObj'[integrator[d]] = 0
      BY <2>1, <2>4, <2>7, <2>8
    <2>10. QED
      BY <2>4, <2>5, <2>6, <2>9
  <1>11. ASSUME NEW o \in Obj, Complete(o)
        PROVE  IntegratorInv'
    <2>1. UNCHANGED <<integrator, operations, cppIntegrator, scheduled, mishaps, pc, cppObj>>
      BY <1>11 DEF Complete
    <2>2. QED
      BY <2>1, IntegratorsSame DEF IInv
  <1>12. CASE UNCHANGED vars
    BY <1>12, Zenon DEF IInv, IntegratorInv, vars, user
  <1>13. script.containers \subseteq Container
    BY DEF IInv, TypeOK, Script
  <1>14. QED
    BY <1>1, <1>2, <1>3, <1>4, <1>5, <1>6, <1>7, <1>8, <1>9, <1>10, <1>11, <1>12, <1>13 DEF Next

-----------------------------------------------------------------------------
(* The theorems. *)

\* A new simulation satisfies the invariant.
LEMMA InitInv == Init => IInv
PROOF
  <1> SUFFICES ASSUME Init
               PROVE  IInv
    OBVIOUS
  <1>1. Len(Kinds) \in Nat
    BY LenProperties, OperationsAssumption
  <1>2. lst \in [Container -> [Kind -> Seq(Op)]]
    <2>1. << >> \in Seq(Op)
      BY EmptySeq
    <2>2. QED
      BY <2>1 DEF Init
  <1>3. synced \in [Container -> [Kind -> BOOLEAN]] /\ scheduled \in [Container -> BOOLEAN]
    BY DEF Init
  <1>4. integrator \in [Container -> Integ \union {NoObj}] /\ operations \in Container
    BY OperationsAssumption DEF Init
  <1>5. added \in [Obj -> BOOLEAN] /\ cppObj \in [Obj -> Nat] /\ born \in [Obj -> Nat]
    BY DEF Init
  <1>6. script \in Script /\ incomplete \in SUBSET Obj
    BY OperationsAssumption DEF Init, Script
  <1>7. TypeOK
    BY <1>1, <1>2, <1>3, <1>4, <1>5, <1>6, SMTT(30) DEF Init, TypeOK, Idle
  <1>8. \A c \in Container, k \in Kind : lst[c][k] = << >> /\ ~synced[c][k]
    BY DEF Init
  <1>9. OnePlace
    BY <1>8 DEF OnePlace
  <1>10. ScheduleInv
    BY <1>1, <1>4, SMTT(30) DEF Init, ScheduleInv, Idle
  <1>11. SyncedIsAttached
    BY <1>8 DEF SyncedIsAttached
  <1>12. IntegratorsAdded
    BY DEF Init, IntegratorsAdded, Obj
  <1>13. MirrorInv
    BY <1>4, <1>8 DEF Init, MirrorInv
  <1>14. IntegratorInv
    BY <1>4 DEF Init, IntegratorInv
  <1>15. QED
    BY <1>7, <1>9, <1>10, <1>11, <1>12, <1>13, <1>14 DEF IInv

\* Every step of the script keeps it.
LEMMA StepInv == IInv /\ [Next]_vars => IInv'
PROOF
  BY TypesKept, OnePlaceKept, ScheduleKept, AttachedKept, IntegratorsAddedKept,
     MirrorKept, IntegratorKept DEF IInv

\* The invariant of Operations, whatever its users do.
THEOREM Invariance == Spec => []IInv
PROOF
  BY InitInv, StepInv, PTL DEF Spec

\* No operation is ever in two lists or twice in one, and the check of _attach_value
\* never goes blind.
THEOREM InOnePlace == Spec => []OnePlace
PROOF
  <1>1. IInv => OnePlace
    BY DEF IInv
  <1>2. QED
    BY <1>1, Invariance, PTL

\* Every item of a synced list has its C++ object.
THEOREM SyncedItemsAreAttached == Spec => []SyncedIsAttached
PROOF
  <1>1. IInv => SyncedIsAttached
    BY DEF IInv
  <1>2. QED
    BY <1>1, Invariance, PTL

\* The vectors of the C++ System hold what the lists of a scheduled container hold,
\* in the same order, unless one of the three mishaps happened.
THEOREM VectorsMirrorLists == Spec => []ListsMirrored
PROOF
  <1>1. ASSUME IInv
        PROVE  ListsMirrored
    <2>1. SUFFICES ASSUME mishaps \intersect {"appended", "replaced", "abandoned"} = {},
                          scheduled[operations], NEW k \in Kind
                   PROVE  cppList[k] = [i \in DOMAIN lst[operations][k] |->
                                           Cpp(lst[operations][k][i])]
      BY DEF ListsMirrored, CppMirrorsPython
    <2>2. ListMirrored(k)
      BY <1>1, <2>1 DEF IInv, ScheduleInv, MirrorInv
    <2>3. lst[operations][k] \in Seq(Op)
      BY <1>1, SMTT(30) DEF IInv, TypeOK
    <2>4. DOMAIN lst[operations][k] = 1 .. Len(lst[operations][k])
      BY <2>3
    <2>5. DOMAIN cppList[k] = DOMAIN lst[operations][k] /\ cppList[k] \in Seq(Op \X Nat)
      BY <2>2, <2>4 DEF ListMirrored
    <2>6. cppList[k] = [i \in DOMAIN cppList[k] |-> cppList[k][i]]
      BY <2>5
    <2>7. \A i \in DOMAIN lst[operations][k] : cppList[k][i] = Cpp(lst[operations][k][i])
      BY <2>2, <2>4 DEF ListMirrored
    <2>8. QED
      BY <2>5, <2>6, <2>7
  <1>2. QED
    BY <1>1, Invariance, PTL

\* A scheduled System integrates with the integrator the user assigned, unless one of
\* the three mishaps happened.
THEOREM SystemHasIntegrator == Spec => []RunsItsIntegrator
PROOF
  <1>1. IInv => RunsItsIntegrator
    BY Zenon DEF IInv, IntegratorInv, RunsItsIntegrator, Cpp
  <1>2. QED
    BY <1>1, Invariance, PTL
=============================================================================
