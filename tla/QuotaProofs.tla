---------------------------- MODULE QuotaProofs ----------------------------
(***************************************************************************)
(* The queue with its bytes: TaskQuota implements TaskQueue, so what is    *)
(* proved of the queue holds of it, too; no task reserves more than its    *)
(* release; and, with orderly workers, no task grows in its user's quota   *)
(* unless its torrent is larger than its release, or a complete reports a  *)
(* file larger than its manifest did.                                      *)
(***************************************************************************)
EXTENDS TaskQuota, TaskQueueProofs, WellFoundedInduction

-----------------------------------------------------------------------------
(* Sums of file sizes.                                                     *)

(* Induction over the subsets of a finite set: T has every subset, if it   *)
(* has each one whose smaller subsets it has.                              *)
LEMMA SubsetInduction ==
  ASSUME NEW S, IsFiniteSet(S), NEW T \in SUBSET (SUBSET S),
         \A U \in SUBSET S : (\A x \in U : U \ {x} \in T) => U \in T
  PROVE  T = SUBSET S
<1> SUFFICES ASSUME T # SUBSET S PROVE FALSE
  OBVIOUS
<1> DEFINE C == (SUBSET S) \ T
<1>1. C \subseteq FiniteSubsetsOf(S) /\ C # {}
  BY FS_FiniteSubsetsOfFinite
<1>2. IsWellFoundedOn(StrictSubsetOrdering(S), FiniteSubsetsOf(S))
  BY FS_StrictSubsetOrderingWellFounded
<1>3. PICK U \in C : \A V \in C : ~(<<V, U>> \in StrictSubsetOrdering(S))
  <2> HIDE DEF C
  <2> QED
    BY <1>1, <1>2, WFMin
<1>4. \A x \in U : U \ {x} \in T
  <2> SUFFICES ASSUME NEW x \in U, U \ {x} \notin T PROVE FALSE
    OBVIOUS
  <2>1. <<U \ {x}, U>> \in StrictSubsetOrdering(S)
    BY DEF StrictSubsetOrdering
  <2> QED
    BY <1>3, <2>1
<1> QED
  BY <1>4

(* The element that MapThenSumSet takes first.                             *)
Some(s) == CHOOSE x \in s : TRUE

(* The recursive function that Total is defined by.                        *)
Adds(f, S, g) ==
  g = [s \in SUBSET S |-> IF s = {} THEN 0 ELSE f[Some(s)] + g[s \ {Some(s)}]]

LEMMA TotalIs ==
  ASSUME NEW f, NEW S
  PROVE  Total(f, S) = (CHOOSE g : Adds(f, S, g))[S]
  BY DEF Total, MapThenSumSet, MapThenFoldSet, Adds, Some

LEMMA SomeIn == ASSUME NEW s, s # {} PROVE Some(s) \in s
  BY DEF Some

(* Two such functions agree where both are defined, and there is one.      *)
LEMMA AddsAlike ==
  ASSUME NEW f, NEW S, IsFiniteSet(S), NEW A, NEW g, Adds(f, A, g), NEW B, NEW h, Adds(f, B, h),
         S \subseteq A, S \subseteq B
  PROVE  \A s \in SUBSET S : g[s] = h[s]
<1> DEFINE T == {s \in SUBSET S : g[s] = h[s]}
<1>1. ASSUME NEW U \in SUBSET S, \A x \in U : U \ {x} \in T PROVE U \in T
  <2>1. /\ g[U] = IF U = {} THEN 0 ELSE f[Some(U)] + g[U \ {Some(U)}]
        /\ h[U] = IF U = {} THEN 0 ELSE f[Some(U)] + h[U \ {Some(U)}]
    <3>1. U \in SUBSET A /\ U \in SUBSET B
      OBVIOUS
    <3> QED
      BY <3>1 DEF Adds
  <2>2. CASE U = {}
    BY <2>1, <2>2
  <2>3. CASE U # {}
    BY <1>1, <2>1, <2>3, SomeIn
  <2> QED
    BY <2>2, <2>3
<1>2. T = SUBSET S
  <2>1. T \in SUBSET SUBSET S
    OBVIOUS
  <2> HIDE DEF T
  <2> QED
    BY <1>1, <2>1, SubsetInduction
<1> QED
  BY <1>2

LEMMA AddsExist ==
  ASSUME NEW f, NEW S, IsFiniteSet(S)
  PROVE  \E g : Adds(f, S, g)
<1> DEFINE T == {s \in SUBSET S : \E g : Adds(f, s, g)}
           G(s) == (CHOOSE g : Adds(f, s, g))[s]
<1>1. ASSUME NEW U \in SUBSET S, \A x \in U : U \ {x} \in T PROVE U \in T
  <2> DEFINE h == [s \in SUBSET U |->
                     IF s = {} THEN 0 ELSE f[Some(s)] + G(s \ {Some(s)})]
  <2>1. ASSUME NEW v \in SUBSET U, v # U PROVE h[v] = G(v)
    <3>1. PICK x \in U : v \subseteq U \ {x}
      BY <2>1
    <3>2. PICK k : Adds(f, U \ {x}, k)
      BY <1>1
    <3>3. ASSUME NEW w \in SUBSET (U \ {x}) PROVE Adds(f, w, [s \in SUBSET w |-> k[s]])
      <4>1. \A s \in SUBSET w : k[s] = IF s = {} THEN 0 ELSE f[Some(s)] + k[s \ {Some(s)}]
        BY <3>2 DEF Adds
      <4> QED
        BY <4>1 DEF Adds
    <3>4. ASSUME NEW w \in SUBSET (U \ {x}) PROVE G(w) = k[w]
      <4> DEFINE c == CHOOSE g : Adds(f, w, g)
      <4>1. Adds(f, w, c)
        BY <3>3
      <4>2. IsFiniteSet(w) /\ Adds(f, U \ {x}, k) /\ w \in SUBSET w
        BY <3>2, FS_Subset
      <4>3. G(w) = c[w]
        OBVIOUS
      <4> HIDE DEF c, G
      <4>4. \A s \in SUBSET w : c[s] = k[s]
        <5>1. w \subseteq w /\ w \subseteq U \ {x}
          OBVIOUS
        <5> QED
          BY ONLY <4>1, <4>2, <5>1, AddsAlike
      <4> QED
        BY <4>2, <4>3, <4>4
    <3>5. k[v] = IF v = {} THEN 0 ELSE f[Some(v)] + k[v \ {Some(v)}]
      BY <3>1, <3>2 DEF Adds
    <3>6. v \ {Some(v)} \in SUBSET (U \ {x})
      BY <3>1
    <3>7. h[v] = IF v = {} THEN 0 ELSE f[Some(v)] + G(v \ {Some(v)})
      OBVIOUS
    <3> HIDE DEF G, h
    <3> QED
      BY <3>1, <3>4, <3>5, <3>6, <3>7
  <2>2. ASSUME NEW s \in SUBSET U, s # {} PROVE h[s \ {Some(s)}] = G(s \ {Some(s)})
    <3>1. s \ {Some(s)} \in SUBSET U /\ s \ {Some(s)} # U
      BY <2>2, SomeIn
    <3> HIDE DEF h, G
    <3> QED
      BY <2>1, <3>1
  <2>3. h = [s \in SUBSET U |-> IF s = {} THEN 0 ELSE f[Some(s)] + h[s \ {Some(s)}]]
    <3> HIDE DEF G
    <3>1. \A s \in SUBSET U : h[s] = IF s = {} THEN 0 ELSE f[Some(s)] + G(s \ {Some(s)})
      OBVIOUS
    <3>2. h = [s \in SUBSET U |-> h[s]]
      OBVIOUS
    <3> HIDE DEF h
    <3> QED
      BY <2>2, <3>1, <3>2
  <2>4. Adds(f, U, h)
    BY <2>3 DEF Adds
  <2> QED
    BY <2>4
<1>2. T = SUBSET S
  <2>1. T \in SUBSET SUBSET S
    OBVIOUS
  <2> HIDE DEF T
  <2> QED
    BY <1>1, <2>1, SubsetInduction
<1> QED
  BY <1>2

(* Total by its first file.                                                *)
LEMMA TotalUnfold ==
  ASSUME NEW f, NEW S, IsFiniteSet(S)
  PROVE  /\ S = {} => Total(f, S) = 0
         /\ S # {} => Total(f, S) = f[Some(S)] + Total(f, S \ {Some(S)})
<1> DEFINE G(s) == CHOOSE g : Adds(f, s, g)
<1>1. Total(f, S) = G(S)[S] /\ Total(f, S \ {Some(S)}) = G(S \ {Some(S)})[S \ {Some(S)}]
  BY TotalIs
<1>2. IsFiniteSet(S \ {Some(S)})
  BY FS_Subset
<1>3. Adds(f, S, G(S)) /\ Adds(f, S \ {Some(S)}, G(S \ {Some(S)}))
  BY <1>2, AddsExist
<1> HIDE DEF G
<1>4. G(S)[S] = IF S = {} THEN 0 ELSE f[Some(S)] + G(S)[S \ {Some(S)}]
  BY <1>3 DEF Adds
<1>5. G(S)[S \ {Some(S)}] = G(S \ {Some(S)})[S \ {Some(S)}]
  <2> DEFINE R == S \ {Some(S)}
  <2>1. R \subseteq S /\ R \subseteq R /\ R \in SUBSET R
    OBVIOUS
  <2> HIDE DEF R
  <2>2. IsFiniteSet(R) /\ Adds(f, R, G(R)) /\ Adds(f, S, G(S))
    BY <1>2, <1>3 DEF R
  <2>3. \A s \in SUBSET R : G(S)[s] = G(R)[s]
    <3> DEFINE g == G(S)
               h == G(R)
    <3>1. Adds(f, S, g) /\ Adds(f, R, h)
      BY <2>2
    <3> HIDE DEF g, h
    <3>2. \A s \in SUBSET R : g[s] = h[s]
      BY <2>1, <2>2, <3>1, AddsAlike
    <3> QED
      BY <3>2 DEF g, h
  <2> QED
    BY <2>1, <2>3 DEF R
<1> QED
  BY <1>1, <1>4, <1>5

LEMMA TotalNat ==
  ASSUME NEW f \in [Path -> Nat], NEW S \in SUBSET Path
  PROVE  Total(f, S) \in Nat
<1> DEFINE T == {s \in SUBSET S : Total(f, s) \in Nat}
<1>1. IsFiniteSet(S)
  BY FS_Subset, QuotaAssumption
<1>2. ASSUME NEW U \in SUBSET S, \A x \in U : U \ {x} \in T PROVE U \in T
  <2>1. /\ U = {} => Total(f, U) = 0
        /\ U # {} => Total(f, U) = f[Some(U)] + Total(f, U \ {Some(U)})
    <3>1. IsFiniteSet(U)
      BY <1>1, FS_Subset
    <3> QED
      BY <3>1, TotalUnfold
  <2>2. CASE U = {}
    BY <2>1, <2>2
  <2>3. CASE U # {}
    <3>1. Some(U) \in U /\ f[Some(U)] \in Nat
      BY <2>3, SomeIn
    <3> QED
      BY <1>2, <2>1, <2>3, <3>1
  <2> QED
    BY <2>2, <2>3
<1>3. T = SUBSET S
  <2>1. T \in SUBSET SUBSET S
    OBVIOUS
  <2> HIDE DEF T
  <2> QED
    BY <1>1, <1>2, <2>1, SubsetInduction
<1> QED
  BY <1>3

(* The order does not matter.                                              *)
LEMMA TotalRemove ==
  ASSUME NEW f \in [Path -> Nat], NEW S \in SUBSET Path
  PROVE  \A x \in S : Total(f, S) = f[x] + Total(f, S \ {x})
<1> DEFINE T == {s \in SUBSET S : \A x \in s : Total(f, s) = f[x] + Total(f, s \ {x})}
<1>1. IsFiniteSet(S)
  BY FS_Subset, QuotaAssumption
<1>2. ASSUME NEW U \in SUBSET S, \A x \in U : U \ {x} \in T PROVE U \in T
  <2> SUFFICES ASSUME NEW x \in U PROVE Total(f, U) = f[x] + Total(f, U \ {x})
    OBVIOUS
  <2> DEFINE c == Some(U)
  <2>1. c \in U
    BY SomeIn
  <2>2. Total(f, U) = f[c] + Total(f, U \ {c})
    BY <1>1, FS_Subset, TotalUnfold
  <2> HIDE DEF c
  <2>3. CASE x # c
    <3>1. Total(f, U \ {c}) = f[x] + Total(f, (U \ {c}) \ {x})
      BY <1>2, <2>1, <2>3
    <3>2. Total(f, U \ {x}) = f[c] + Total(f, (U \ {x}) \ {c})
      BY <1>2, <2>1, <2>3
    <3>3. (U \ {c}) \ {x} = (U \ {x}) \ {c}
      OBVIOUS
    <3>4. /\ f[x] \in Nat /\ f[c] \in Nat
          /\ Total(f, (U \ {c}) \ {x}) \in Nat
      BY <2>1, TotalNat
    <3> QED
      BY <2>2, <3>1, <3>2, <3>3, <3>4
  <2> QED
    BY <2>2, <2>3
<1>3. T = SUBSET S
  <2>1. T \in SUBSET SUBSET S
    OBVIOUS
  <2> HIDE DEF T
  <2> QED
    BY <1>1, <1>2, <2>1, SubsetInduction
<1> QED
  BY <1>3

(* Fewer files have fewer bytes.                                           *)
LEMMA TotalMonotone ==
  ASSUME NEW f \in [Path -> Nat], NEW S \in SUBSET Path, NEW A \in SUBSET S
  PROVE  Total(f, A) <= Total(f, S)
<1> DEFINE T == {s \in SUBSET S : \A B \in SUBSET s : Total(f, B) <= Total(f, s)}
<1>1. ASSUME NEW U \in SUBSET S, \A x \in U : U \ {x} \in T PROVE U \in T
  <2> SUFFICES ASSUME NEW B \in SUBSET U PROVE Total(f, B) <= Total(f, U)
    OBVIOUS
  <2>1. Total(f, U) \in Nat /\ Total(f, B) \in Nat
    BY TotalNat
  <2>2. CASE B # U
    <3>1. PICK x \in U : B \in SUBSET (U \ {x})
      BY <2>2
    <3>2. Total(f, U) = f[x] + Total(f, U \ {x})
      BY TotalRemove
    <3>3. Total(f, B) <= Total(f, U \ {x})
      BY <1>1, <3>1
    <3>4. f[x] \in Nat /\ Total(f, U \ {x}) \in Nat
      BY TotalNat
    <3> QED
      BY <2>1, <3>2, <3>3, <3>4
  <2> QED
    BY <2>1, <2>2
<1>2. IsFiniteSet(S)
  BY FS_Subset, QuotaAssumption
<1>3. T = SUBSET S
  <2>1. T \in SUBSET SUBSET S
    OBVIOUS
  <2> HIDE DEF T
  <2> QED
    BY <1>1, <1>2, <2>1, SubsetInduction
<1> QED
  BY <1>3

(* Files that are each no larger add up to no more.                        *)
LEMMA TotalPointwise ==
  ASSUME NEW f \in [Path -> Nat], NEW e \in [Path -> Nat], NEW S \in SUBSET Path,
         \A p \in S : e[p] <= f[p]
  PROVE  Total(e, S) <= Total(f, S)
<1> DEFINE T == {s \in SUBSET S : Total(e, s) <= Total(f, s)}
<1>1. IsFiniteSet(S)
  BY FS_Subset, QuotaAssumption
<1>2. ASSUME NEW U \in SUBSET S, \A x \in U : U \ {x} \in T PROVE U \in T
  <2>1. IsFiniteSet(U)
    BY <1>1, FS_Subset
  <2>2. CASE U = {}
    <3>1. Total(e, U) = 0 /\ Total(f, U) = 0
      BY <2>1, <2>2, TotalUnfold
    <3> QED
      BY <3>1
  <2>3. CASE U # {}
    <3>1. PICK c \in U : TRUE
      BY <2>3
    <3>2. Total(e, U) = e[c] + Total(e, U \ {c}) /\ Total(f, U) = f[c] + Total(f, U \ {c})
      BY TotalRemove
    <3>3. Total(e, U \ {c}) <= Total(f, U \ {c}) /\ e[c] <= f[c]
      BY <1>2
    <3>4. /\ e[c] \in Nat /\ f[c] \in Nat
          /\ Total(e, U \ {c}) \in Nat /\ Total(f, U \ {c}) \in Nat
      BY TotalNat
    <3> QED
      BY <3>2, <3>3, <3>4
  <2> QED
    BY <2>2, <2>3
<1>3. T = SUBSET S
  <2>1. T \in SUBSET SUBSET S
    OBVIOUS
  <2> HIDE DEF T
  <2> QED
    BY <1>1, <1>2, <2>1, SubsetInduction
<1> QED
  BY <1>3

-----------------------------------------------------------------------------
(* The steps of TaskQuota are those of TaskQueue, or leave it alone.       *)
CreatesOK ==
  /\ DOMAIN creates = Creator
  /\ \A c \in Creator : creates[c] = Resting \/ creates[c].task \in Task
  /\ touched \subseteq Task

LEMMA CreatesStep == CreatesOK /\ TypeOK /\ [QNext]_<<vars, qvars>> => CreatesOK'
<1> SUFFICES ASSUME CreatesOK, TypeOK, [QNext]_<<vars, qvars>> PROVE CreatesOK'
  OBVIOUS
<1>1. ASSUME NEW c \in Creator, NEW state, Proceed(c, state), touched' = touched,
             state = Resting \/ state.task \in Task
      PROVE  CreatesOK'
  BY <1>1 DEF CreatesOK, Proceed
<1>2. ASSUME NEW c \in Creator, NEW t \in Task, CreateReadUsed(c, t) PROVE CreatesOK'
  BY <1>1, <1>2 DEF CreateReadUsed
<1>3. ASSUME NEW c \in Creator, creates[c] # Resting PROVE creates[c].task \in Task
  BY <1>3 DEF CreatesOK
<1>4. ASSUME NEW c \in Creator, CreateCheck(c) PROVE CreatesOK'
  <2>1. creates[c].task \in Task
    BY <1>3, <1>4 DEF CreateCheck, Resting
  <2> QED
    BY <1>1, <1>4, <2>1 DEF CreateCheck
<1>5. ASSUME NEW c \in Creator, CreateLookup(c) PROVE CreatesOK'
  <2>1. creates[c].task \in Task
    BY <1>3, <1>5 DEF CreateLookup, Resting
  <2> QED
    BY <1>1, <1>5, <2>1 DEF CreateLookup
<1>6. ASSUME NEW c \in Creator, CreateCommit(c) \/ CreateAbort(c) PROVE CreatesOK'
  BY <1>1, <1>6 DEF CreateCommit, CreateAbort
<1>7. ASSUME NEW s \in Slot, QCancelCommit(s) PROVE CreatesOK'
  <2>1. reqs[s].task \in Task
    BY <1>7, RequestShape DEF QCancelCommit, CancelCommit, InFlight
  <2> QED
    BY <1>7, <2>1 DEF QCancelCommit, CreatesOK
<1>8. ASSUME UNCHANGED <<creates, touched>> PROVE CreatesOK'
  BY <1>8 DEF CreatesOK
<1>9. ASSUME NEW s \in Slot, NEW t \in Task, QRead(s, t) PROVE CreatesOK'
  BY <1>8, <1>9 DEF QRead
<1>10. ASSUME NEW s \in Slot,
              QManifestCommit(s) \/ QCompleteCommit(s) \/ QFailCommit(s) \/ QOtherEnd(s)
       PROVE  CreatesOK'
  BY <1>8, <1>10 DEF QManifestCommit, QCompleteCommit, QFailCommit, QOtherEnd
<1>11. ASSUME QReap \/ QQuiet \/ UNCHANGED <<vars, qvars>> PROVE CreatesOK'
  BY <1>8, <1>11 DEF QReap, QQuiet, qvars
<1> QED
  BY <1>2, <1>4, <1>5, <1>6, <1>7, <1>9, <1>10, <1>11 DEF QNext

LEMMA QStepIsStep == CreatesOK /\ [QNext]_<<vars, qvars>> => [Next]_vars
<1> SUFFICES ASSUME CreatesOK, [QNext]_<<vars, qvars>> PROVE [Next]_vars
  OBVIOUS
<1>1. ASSUME NEW c \in Creator, NEW t \in Task, CreateReadUsed(c, t) PROVE UNCHANGED vars
  BY <1>1 DEF CreateReadUsed
<1>2. ASSUME NEW c \in Creator, CreateCheck(c) \/ CreateLookup(c) \/ CreateAbort(c)
      PROVE  UNCHANGED vars
  BY <1>2 DEF CreateCheck, CreateLookup, CreateAbort
<1>3. ASSUME NEW c \in Creator, CreateCommit(c) PROVE Next \/ UNCHANGED vars
  <2>1. creates[c].task \in Task
    BY <1>3 DEF CreateCommit, CreatesOK, Resting
  <2> QED
    BY <1>3, <2>1 DEF CreateCommit, Next
<1>4. ASSUME NEW s \in Slot, NEW t \in Task, QRead(s, t) PROVE Next
  BY <1>4 DEF QRead, Next
<1>5. ASSUME NEW s \in Slot,
             \/ QManifestCommit(s) \/ QCompleteCommit(s) \/ QFailCommit(s)
             \/ QCancelCommit(s) \/ QOtherEnd(s)
      PROVE  Next
  BY <1>5 DEF QManifestCommit, QCompleteCommit, QFailCommit, QCancelCommit, QOtherEnd, Next, Commit
<1>6. ASSUME QReap \/ QQuiet PROVE Next
  BY <1>6 DEF QReap, QQuiet, Next
<1>7. ASSUME UNCHANGED <<vars, qvars>> PROVE UNCHANGED vars
  BY <1>7
<1> QED
  BY <1>1, <1>2, <1>3, <1>4, <1>5, <1>6, <1>7 DEF QNext

(* The queue with its bytes is a queue: whatever is proved of TaskQueue    *)
(* holds of it.                                                            *)
THEOREM QuotaImplementsQueue == QSpec => Spec
<1>1. QInit => Init /\ CreatesOK
  BY DEF QInit, CreatesOK, Resting
<1>2. IInv => TypeOK
  BY DEF IInv
<1> QED
  BY <1>1, <1>2, InitIInv, NextIInv, CreatesStep, QStepIsStep, PTL DEF QSpec, Spec

(* The user finds every task in the library, and a completed one as ready. *)
THEOREM LibraryFollows == QSpec => []LibraryFollowsTasks
<1>1. Shelf => LibraryFollowsTasks
  BY DEF Shelf
<1> QED
  BY <1>1, QuotaImplementsQueue, ShelfInductive, PTL

-----------------------------------------------------------------------------
(* A file that has no row has no bytes; the reported sizes are sizes.      *)
SizesSound ==
  /\ sizes \in [Task -> [Path -> Nat]]
  /\ said \in [Slot -> [Path -> FileSize \cup {None}]]
  /\ \A t \in Task, p \in Path : files[t][p] = "absent" => sizes[t][p] = 0

LEMMA AnnouncedSizes ==
  ASSUME SizesSound, NEW s \in Slot
  PROVE  /\ Announced(s) \in [Path -> Nat]
         /\ \A p \in Path : said[s][p] = None \/ said[s][p] \in Nat
<1>1. \A p \in Path : said[s][p] = None \/ said[s][p] \in Nat
  <2>1. FileSize \subseteq Nat
    BY QuotaAssumption
  <2>2. \A p \in Path : said[s][p] \in FileSize \cup {None}
    BY DEF SizesSound
  <2> QED
    BY <2>1, <2>2
<1> QED
  BY <1>1 DEF Announced

LEMMA SilentAgain ==
  ASSUME SizesSound, NEW s \in Slot, ReadDone(s)
  PROVE  said' \in [Slot -> [Path -> FileSize \cup {None}]]
<1>1. Silent \in [Path -> FileSize \cup {None}]
  BY DEF Silent
<1> QED
  BY <1>1 DEF ReadDone, SizesSound

(* The sizes of a manifest and of a complete, file by file.                *)
LEMMA ManifestSizes ==
  ASSUME TypeOK, SizesSound, NEW s \in Slot, QManifestCommit(s), NEW t \in Task, t = reqs[s].task
  PROVE  /\ \A u \in Task : u # t => sizes'[u] = sizes[u] /\ files'[u] = files[u]
         /\ sizes' \in [Task -> [Path -> Nat]]
         /\ \/ UNCHANGED <<rows, files, sizes, reserved>>
            \/ /\ reqs[s].paths \cap Present(t) = {}
               /\ rows' = Flush(t, reqs[s].seen, [reqs[s].seen EXCEPT !.status = "downloading"])
               /\ \A p \in Path :
                    /\ sizes'[t][p] = IF p \in reqs[s].paths THEN Announced(s)[p] ELSE sizes[t][p]
                    /\ files'[t][p] = IF p \in reqs[s].paths THEN "pending" ELSE files[t][p]
<1>1. Announced(s) \in [Path -> Nat]
  BY AnnouncedSizes
<1>2. CASE reqs[s].paths \cap Present(t) # {}
  BY <1>2 DEF QManifestCommit, ManifestCommit, SizesSound
<1>3. CASE reqs[s].paths \cap Present(t) = {}
  <2>1. /\ sizes' = [sizes EXCEPT ![t] =
             [p \in Path |-> IF p \in reqs[s].paths THEN Announced(s)[p] ELSE sizes[t][p]]]
        /\ files' = [files EXCEPT ![t] =
             [p \in Path |-> IF p \in reqs[s].paths THEN "pending" ELSE files[t][p]]]
        /\ rows' = Flush(t, reqs[s].seen, [reqs[s].seen EXCEPT !.status = "downloading"])
    BY <1>3 DEF QManifestCommit, ManifestCommit
  <2>2. [p \in Path |-> IF p \in reqs[s].paths THEN Announced(s)[p] ELSE sizes[t][p]] \in [Path -> Nat]
    BY <1>1 DEF SizesSound
  <2>3. /\ \A u \in Task : u # t => sizes'[u] = sizes[u] /\ files'[u] = files[u]
        /\ sizes' \in [Task -> [Path -> Nat]]
    BY <2>1, <2>2 DEF SizesSound, TypeOK
  <2>4. \A p \in Path :
          /\ sizes'[t][p] = IF p \in reqs[s].paths THEN Announced(s)[p] ELSE sizes[t][p]
          /\ files'[t][p] = IF p \in reqs[s].paths THEN "pending" ELSE files[t][p]
    BY <2>1 DEF SizesSound, TypeOK
  <2> QED
    BY <1>3, <2>1, <2>3, <2>4
<1> QED
  BY <1>2, <1>3

LEMMA CompleteSizes ==
  ASSUME TypeOK, SizesSound, NEW s \in Slot, QCompleteCommit(s), NEW t \in Task, t = reqs[s].task
  PROVE  /\ \A u \in Task : u # t => sizes'[u] = sizes[u] /\ files'[u] = files[u]
         /\ sizes' \in [Task -> [Path -> Nat]]
         /\ \A p \in Path :
              /\ files[t][p] = "absent" => sizes'[t][p] = sizes[t][p]
              /\ files'[t][p] = IF p \in reqs[s].paths \cap Present(t) THEN "uploaded" ELSE files[t][p]
<1> DEFINE new == [p \in Path |->
             IF p \in reqs[s].paths \cap Present(t) /\ said[s][p] # None THEN said[s][p] ELSE sizes[t][p]]
<1>1. /\ sizes' = [sizes EXCEPT ![t] = new]
      /\ files' = [files EXCEPT ![t] = [p \in Path |->
             IF p \in reqs[s].paths \cap Present(t) THEN "uploaded" ELSE files[t][p]]]
  BY DEF QCompleteCommit, CompleteCommit
<1>2. new \in [Path -> Nat] /\ \A p \in Path : files[t][p] = "absent" => new[p] = sizes[t][p]
  BY AnnouncedSizes DEF SizesSound, Present
<1> HIDE DEF new
<1> QED
  BY <1>1, <1>2 DEF SizesSound, TypeOK

LEMMA SizesStep == TypeOK /\ SizesSound /\ [QNext]_<<vars, qvars>> => SizesSound'
<1> SUFFICES ASSUME TypeOK, SizesSound, [QNext]_<<vars, qvars>> PROVE SizesSound'
  OBVIOUS
<1>1. ASSUME UNCHANGED <<files, sizes>>, said' = said \/ \E s \in Slot : ReadDone(s) PROVE SizesSound'
  BY <1>1, SilentAgain DEF SizesSound
<1>2. ASSUME NEW c \in Creator,
             \/ \E t \in Task : CreateReadUsed(c, t)
             \/ CreateCheck(c) \/ CreateLookup(c) \/ CreateCommit(c) \/ CreateAbort(c)
      PROVE  SizesSound'
  BY <1>1, <1>2
     DEF CreateReadUsed, CreateCheck, CreateLookup, CreateCommit, CreateAbort, CreateTask, vars, bvars
<1>3. ASSUME NEW s \in Slot, NEW t \in Task, QRead(s, t) PROVE SizesSound'
  <2>1. UNCHANGED <<files, sizes>>
    BY <1>3 DEF QRead, CancelRead, ClaimLock, HeartbeatRead, FailRead, CompleteRead, ManifestRead
  <2>2. \/ said' = said
        \/ \E body \in [Path -> FileSize \cup {None}] : said' = [said EXCEPT ![s] = body]
    BY <1>3 DEF QRead
  <2> QED
    BY <2>1, <2>2 DEF SizesSound
<1>4. ASSUME NEW s \in Slot, QFailCommit(s) \/ QCancelCommit(s) \/ QOtherEnd(s) PROVE SizesSound'
  BY <1>1, <1>4
     DEF QFailCommit, QCancelCommit, QOtherEnd, FailCommit, CancelCommit, HeartbeatCommit, Abort, ClaimCommit
<1>5. ASSUME NEW s \in Slot, QManifestCommit(s) PROVE SizesSound'
  <2>1. PICK t \in Task : t = reqs[s].task
    BY <1>5, RequestShape DEF QManifestCommit, ManifestCommit, InFlight
  <2>2. said' \in [Slot -> [Path -> FileSize \cup {None}]]
    BY <1>5, SilentAgain DEF QManifestCommit
  <2>3. \A p \in Path : files'[t][p] = "absent" => files[t][p] = "absent" /\ sizes'[t][p] = sizes[t][p]
    <3>1. \/ UNCHANGED <<files, sizes>>
          \/ \A p \in Path :
               /\ sizes'[t][p] = IF p \in reqs[s].paths THEN Announced(s)[p] ELSE sizes[t][p]
               /\ files'[t][p] = IF p \in reqs[s].paths THEN "pending" ELSE files[t][p]
      BY <1>5, <2>1, ManifestSizes
    <3> QED
      BY <3>1
  <2>4. /\ \A u \in Task : u # t => sizes'[u] = sizes[u] /\ files'[u] = files[u]
        /\ sizes' \in [Task -> [Path -> Nat]]
    BY <1>5, <2>1, ManifestSizes
  <2> QED
    BY <2>2, <2>3, <2>4 DEF SizesSound
<1>6. ASSUME NEW s \in Slot, QCompleteCommit(s) PROVE SizesSound'
  <2>1. PICK t \in Task : t = reqs[s].task
    BY <1>6, RequestShape DEF QCompleteCommit, CompleteCommit, InFlight
  <2>2. said' \in [Slot -> [Path -> FileSize \cup {None}]]
    BY <1>6, SilentAgain DEF QCompleteCommit
  <2>3. \A p \in Path : files'[t][p] = "absent" => files[t][p] = "absent" /\ sizes'[t][p] = sizes[t][p]
    BY <1>6, <2>1, CompleteSizes
  <2>4. /\ \A u \in Task : u # t => sizes'[u] = sizes[u] /\ files'[u] = files[u]
        /\ sizes' \in [Task -> [Path -> Nat]]
    BY <1>6, <2>1, CompleteSizes
  <2> QED
    BY <2>2, <2>3, <2>4 DEF SizesSound
<1>7. ASSUME QReap \/ QQuiet \/ UNCHANGED <<vars, qvars>> PROVE SizesSound'
  BY <1>1, <1>7 DEF QReap, Reap, QQuiet, LeaseExpires, ToldGone, WorkerStops, vars, qvars, bvars
<1> QED
  BY <1>2, <1>3, <1>4, <1>5, <1>6, <1>7 DEF QNext

(* A task reserves at most its size, and so did it when a request read it. *)
ReservedSound ==
  /\ reserved \in [Task -> Nat]
  /\ seenReserved \in [Slot -> Nat]
  /\ ReservedAtMostSize
  /\ \A s \in Slot : reqs[s].op # "idle" => seenReserved[s] <= Size[reqs[s].task]

(* A request that ends and writes at most what it read or what is there.   *)
LEMMA RewriteSound ==
  ASSUME TypeOK, ReservedSound, NEW s \in Slot, reqs[s].op # "idle", Done(s), ReadDone(s),
         NEW n \in Nat, n <= seenReserved[s], Rewrite(s, n) \/ reserved' = reserved
  PROVE  ReservedSound'
<1> DEFINE t == reqs[s].task
<1>1. t \in Task
  BY RequestShape
<1>2. /\ \A r \in Slot : r # s => reqs'[r] = reqs[r]
      /\ reqs'[s].op = "idle"
  BY DoneShape
<1>3. seenReserved' = [seenReserved EXCEPT ![s] = 0]
  BY DEF ReadDone
<1>4. /\ seenReserved' \in [Slot -> Nat]
      /\ \A r \in Slot : r # s => seenReserved'[r] = seenReserved[r]
  BY <1>3 DEF ReservedSound
<1>5. /\ seenReserved[s] \in Nat /\ seenReserved[s] <= Size[t]
      /\ reserved[t] \in Nat /\ reserved[t] <= Size[t] /\ Size[t] \in Nat
  BY <1>1, QuotaAssumption DEF ReservedSound, ReservedAtMostSize
<1>6. reserved' \in [Task -> Nat] /\ \A u \in Task : reserved'[u] <= Size[u]
  <2>1. CASE reserved' = reserved
    BY <2>1 DEF ReservedSound, ReservedAtMostSize
  <2>2. CASE Rewrite(s, n)
    <3>1. reserved' = [reserved EXCEPT ![t] = Merge(reserved[t], seenReserved[s], n)]
      BY <2>2 DEF Rewrite
    <3>2. Merge(reserved[t], seenReserved[s], n) \in {n, reserved[t]}
      BY DEF Merge
    <3>3. /\ Merge(reserved[t], seenReserved[s], n) \in Nat
          /\ Merge(reserved[t], seenReserved[s], n) <= Size[t]
      BY <1>5, <3>2
    <3> QED
      BY <1>1, <3>1, <3>3 DEF ReservedSound, ReservedAtMostSize
  <2> QED
    BY <2>1, <2>2
<1> QED
  BY <1>2, <1>4, <1>6 DEF ReservedSound, ReservedAtMostSize

(* A step that keeps the requests, or starts one that reads what is there. *)
LEMMA ReadSound ==
  ASSUME TypeOK, ReservedSound, NEW s \in Slot, NEW t \in Task,
         \E op \in {"claim", "manifest", "heartbeat", "complete", "fail", "cancel"},
            w \in Worker \cup {None}, paths \in SUBSET Path : Start(s, op, w, t, paths),
         seenReserved' = [seenReserved EXCEPT ![s] = reserved[t]], reserved' = reserved
  PROVE  ReservedSound'
<1>1. /\ \A r \in Slot : r # s => reqs'[r] = reqs[r]
      /\ reqs'[s].task = t
  <2>1. PICK op \in {"claim", "manifest", "heartbeat", "complete", "fail", "cancel"},
             w \in Worker \cup {None}, paths \in SUBSET Path : Start(s, op, w, t, paths)
    OBVIOUS
  <2>2. /\ \A r \in Slot : r # s => reqs'[r] = reqs[r]
        /\ reqs'[s] = [op |-> op, by |-> w, task |-> t, seen |-> rows[t], paths |-> paths]
    BY <2>1, StartShape
  <2> QED
    BY <2>2
<1>2. /\ seenReserved' \in [Slot -> Nat]
      /\ seenReserved'[s] = reserved[t]
      /\ \A r \in Slot : r # s => seenReserved'[r] = seenReserved[r]
  BY DEF ReservedSound
<1> QED
  BY <1>1, <1>2 DEF ReservedSound, ReservedAtMostSize

LEMMA ReadStarts ==
  ASSUME NEW s \in Slot, NEW t \in Task, QRead(s, t)
  PROVE  \E op \in {"claim", "manifest", "heartbeat", "complete", "fail", "cancel"},
            w \in Worker \cup {None}, paths \in SUBSET Path : Start(s, op, w, t, paths)
<1>1. CASE CancelRead(s, t)
  BY <1>1 DEF CancelRead
<1>2. ASSUME NEW w \in Worker, ClaimLock(s, w, t) \/ HeartbeatRead(s, w, t) \/ FailRead(s, w, t)
      PROVE  \E op \in {"claim", "heartbeat", "fail"} : Start(s, op, w, t, {})
  BY <1>2 DEF ClaimLock, HeartbeatRead, FailRead
<1>3. ASSUME NEW w \in Worker, NEW paths \in SUBSET Path, CompleteRead(s, w, t, paths)
      PROVE  Start(s, "complete", w, t, paths)
  BY <1>3 DEF CompleteRead
<1>4. ASSUME NEW w \in Worker, NEW paths \in SUBSET Path, ManifestRead(s, w, t, paths)
      PROVE  Start(s, "manifest", w, t, paths)
  BY <1>4 DEF ManifestRead
<1>5. {} \in SUBSET Path
  OBVIOUS
<1> HIDE DEF Start
<1> QED
  BY <1>1, <1>2, <1>3, <1>4, <1>5 DEF QRead

LEMMA ReservedStep ==
  TypeOK /\ CreatesOK /\ SizesSound /\ ReservedSound /\ [QNext]_<<vars, qvars>> => ReservedSound'
<1> SUFFICES ASSUME TypeOK, CreatesOK, SizesSound, ReservedSound, [QNext]_<<vars, qvars>>
             PROVE  ReservedSound'
  OBVIOUS
<1>1. ASSUME UNCHANGED <<reqs, reserved, seenReserved>> PROVE ReservedSound'
  BY <1>1 DEF ReservedSound, ReservedAtMostSize
<1>2. ASSUME NEW c \in Creator,
             \/ \E t \in Task : CreateReadUsed(c, t)
             \/ CreateCheck(c) \/ CreateLookup(c) \/ CreateAbort(c)
      PROVE  ReservedSound'
  BY <1>1, <1>2 DEF CreateReadUsed, CreateCheck, CreateLookup, CreateAbort, vars, bvars
<1>3. ASSUME NEW c \in Creator, CreateCommit(c) PROVE ReservedSound'
  <2> DEFINE t == creates[c].task
  <2>1. t \in Task
    BY <1>3 DEF CreateCommit, CreatesOK, Resting
  <2>2. Size[t] \in Nat
    BY <2>1, QuotaAssumption
  <2>3. reqs' = reqs /\ seenReserved' = seenReserved
    BY <1>3 DEF CreateCommit, CreateTask, vars
  <2>4. reserved' = reserved \/ reserved' = [reserved EXCEPT ![t] = Size[t]]
    BY <1>3 DEF CreateCommit
  <2>5. reserved' \in [Task -> Nat] /\ \A u \in Task : reserved'[u] <= Size[u]
    BY <2>1, <2>2, <2>4 DEF ReservedSound, ReservedAtMostSize
  <2> QED
    BY <2>3, <2>5 DEF ReservedSound, ReservedAtMostSize
<1>4. ASSUME NEW s \in Slot, NEW t \in Task, QRead(s, t) PROVE ReservedSound'
  BY <1>4, ReadStarts, ReadSound DEF QRead
<1>5. ASSUME NEW s \in Slot, reqs[s].op # "idle"
      PROVE  /\ seenReserved[s] \in Nat /\ 0 <= seenReserved[s]
             /\ reqs[s].task \in Task /\ reqs[s].paths \in SUBSET Path
  BY <1>5, RequestShape DEF ReservedSound
<1>6. ASSUME NEW s \in Slot, QManifestCommit(s) PROVE ReservedSound'
  <2> DEFINE total == Total(Announced(s), reqs[s].paths)
             n == IF total < seenReserved[s] THEN total ELSE seenReserved[s]
  <2>1. reqs[s].op # "idle" /\ Done(s) /\ ReadDone(s)
    BY <1>6 DEF QManifestCommit, ManifestCommit, InFlight
  <2>2. total \in Nat
    BY <1>5, <2>1, AnnouncedSizes, TotalNat
  <2>3. Rewrite(s, n) \/ reserved' = reserved
    BY <1>6 DEF QManifestCommit
  <2>4. n \in Nat /\ n <= seenReserved[s]
    BY <1>5, <2>1, <2>2
  <2> HIDE DEF n
  <2> QED
    BY <2>1, <2>3, <2>4, RewriteSound
<1>7. ASSUME NEW s \in Slot, QCompleteCommit(s) PROVE ReservedSound'
  <2>1. reqs[s].op # "idle" /\ Done(s) /\ ReadDone(s) /\ Rewrite(s, 0)
    BY <1>7 DEF QCompleteCommit, CompleteCommit, InFlight
  <2> QED
    BY <1>5, <2>1, RewriteSound
<1>8. ASSUME NEW s \in Slot, QFailCommit(s) PROVE ReservedSound'
  <2>1. reqs[s].op # "idle" /\ Done(s) /\ ReadDone(s) /\ (Rewrite(s, 0) \/ reserved' = reserved)
    BY <1>8 DEF QFailCommit, FailCommit, InFlight
  <2> QED
    BY <1>5, <2>1, RewriteSound
<1>9. ASSUME NEW s \in Slot, QCancelCommit(s) PROVE ReservedSound'
  <2>1. reqs[s].op # "idle" /\ Done(s) /\ ReadDone(s) /\ Rewrite(s, 0)
    BY <1>9 DEF QCancelCommit, CancelCommit, InFlight
  <2> QED
    BY <1>5, <2>1, RewriteSound
<1>10. ASSUME NEW s \in Slot, QOtherEnd(s) PROVE ReservedSound'
  <2>1. reqs[s].op # "idle"
    BY <1>10 DEF QOtherEnd, HeartbeatCommit, ClaimCommit, Abort, InFlight, TypeOK, Request, Idle
  <2>2. Done(s) /\ ReadDone(s) /\ reserved' = reserved
    BY <1>10 DEF QOtherEnd, HeartbeatCommit, ClaimCommit, Abort
  <2> QED
    BY <1>5, <2>1, <2>2, RewriteSound
<1>11. ASSUME QReap PROVE ReservedSound'
  <2> DEFINE new(t) == IF GivenUp(Reclaimed(rows[t])) # Reclaimed(rows[t]) THEN 0 ELSE reserved[t]
  <2>1. /\ reserved' = [t \in Task |-> new(t)]
        /\ \A t \in Task : new(t) \in {0, reserved[t]}
    BY <1>11 DEF QReap
  <2> HIDE DEF new
  <2>2. \A u \in Task : /\ reserved[u] \in Nat /\ reserved[u] <= Size[u] /\ Size[u] \in Nat
                        /\ reserved'[u] = new(u)
    BY <2>1, QuotaAssumption DEF ReservedSound, ReservedAtMostSize
  <2>4. \A u \in Task : new(u) \in Nat /\ new(u) <= Size[u]
    BY <2>1, <2>2
  <2>3. reqs' = reqs /\ seenReserved' = seenReserved
    BY <1>11 DEF QReap, Reap
  <2> QED
    BY <2>1, <2>2, <2>3, <2>4 DEF ReservedSound, ReservedAtMostSize
<1>12. ASSUME QQuiet PROVE ReservedSound'
  BY <1>1, <1>12 DEF QQuiet, LeaseExpires, ToldGone, WorkerStops, qvars, bvars
<1>13. ASSUME UNCHANGED <<vars, qvars>> PROVE ReservedSound'
  BY <1>1, <1>13 DEF vars, qvars, bvars
<1> QED
  BY <1>2, <1>3, <1>4, <1>6, <1>7, <1>8, <1>9, <1>10, <1>11, <1>12, <1>13 DEF QNext

LEMMA ReservedInductive == QSpec => [](TypeOK /\ CreatesOK /\ SizesSound /\ ReservedSound)
<1>1. QInit => CreatesOK /\ SizesSound /\ ReservedSound
  BY QuotaAssumption
     DEF QInit, Init, CreatesOK, Resting, SizesSound, Silent, ReservedSound, ReservedAtMostSize, Idle
<1>2. IInv => TypeOK
  BY DEF IInv
<1> QED
  BY <1>1, <1>2, ReservedStep, SizesStep, CreatesStep, QuotaImplementsQueue, Inductive, PTL DEF QSpec

(* The bytes and the requests keep their shape; no byte count goes below   *)
(* zero.                                                                   *)
THEOREM QuotaTypeCorrect == QSpec => []QTypeOK
<1>1. TypeOK /\ CreatesOK /\ SizesSound /\ ReservedSound => QTypeOK
  BY DEF CreatesOK, SizesSound, ReservedSound, QTypeOK
<1> QED
  BY <1>1, ReservedInductive, PTL

(* However late a manifest, a fail or a cancel writes back what it read, a *)
(* task never reserves more than its release.                              *)
THEOREM NeverOverReserved == QSpec => []ReservedAtMostSize
<1>1. ReservedSound => ReservedAtMostSize
  BY DEF ReservedSound
<1> QED
  BY <1>1, ReservedInductive, PTL

-----------------------------------------------------------------------------
(* What an orderly queue knows of a task that no cancel was committed on.  *)
(* Until it is completed nothing of it counts as uploaded.  As long as it  *)
(* is counted, it reserves its whole release until its files are known,    *)
(* and then what they add up to; a report on it under way read it so.      *)
Whole(t, bytes) == Present(t) # Path => bytes = Size[t]

Covered(t) == AsAnnounced(t) => Total(sizes[t], Path) <= reserved[t]

Bears(t) ==
  /\ rows[t].status # "canceled"
  /\ rows[t].status # "completed" => \A p \in Path : files[t][p] # "uploaded"
  /\ rows[t].status \in {"queued"} \cup Active => Whole(t, reserved[t]) /\ Covered(t)
  /\ \A w \in Worker : t \in handed[w] => rows[t].status \in Active
  /\ \A s \in Slot : reqs[s].op \in Reports /\ reqs[s].task = t =>
       /\ rows[t].status \in Active
       /\ reqs[s].seen.status \in Active
       /\ reqs[s].op = "manifest" => reqs[s].paths = Path /\ Whole(t, seenReserved[s])

BInv == \A t \in Task \ touched : Bears(t)

(* What a step does to such a task.                                        *)
Keeps(t) ==
  /\ Bears(t)'
  /\ rows[t].status # "absent" /\ AsAnnounced(t) /\ ~Grew(t) => Footprint(t)' <= Footprint(t)

Sound == IInv /\ OInv /\ SizesSound /\ ReservedSound

(* The files of a task that has none uploaded weigh nothing.               *)
LEMMA NoneUploaded ==
  ASSUME Sound, NEW t \in Task, \A p \in Path : files[t][p] # "uploaded"
  PROVE  Uploaded(t) = 0
<1>1. {p \in Path : files[t][p] = "uploaded"} = {}
  OBVIOUS
<1>2. Total(sizes[t], {}) = 0
  BY FS_EmptySet, TotalUnfold
<1> QED
  BY <1>1, <1>2 DEF Uploaded

LEMMA FootprintNat ==
  ASSUME Sound, NEW t \in Task
  PROVE  Uploaded(t) \in Nat /\ Counted(t) \in Nat
<1>1. {p \in Path : files[t][p] = "uploaded"} \in SUBSET Path /\ sizes[t] \in [Path -> Nat]
  BY DEF Sound, SizesSound
<1>2. Uploaded(t) \in Nat
  BY <1>1, TotalNat DEF Uploaded
<1>3. Counted(t) \in Nat
  BY DEF Counted, Sound, ReservedSound
<1> QED
  BY <1>2, <1>3

LEMMA Lighter ==
  ASSUME Sound, Sound', NEW t \in Task, reserved'[t] <= reserved[t],
         \A p \in Path : files'[t][p] = "uploaded" <=> files[t][p] = "uploaded",
         sizes'[t] = sizes[t] \/ \A p \in Path : files[t][p] # "uploaded",
         rows'[t].status \in {"queued"} \cup Active => rows[t].status \in {"queued"} \cup Active
  PROVE  Footprint(t)' <= Footprint(t)
<1>1. Uploaded(t)' = Uploaded(t)
  <2>1. CASE sizes'[t] = sizes[t]
    <3>1. {p \in Path : files'[t][p] = "uploaded"} = {p \in Path : files[t][p] = "uploaded"}
      OBVIOUS
    <3> QED
      BY <2>1, <3>1 DEF Uploaded
  <2>2. CASE \A p \in Path : files[t][p] # "uploaded"
    <3>1. {p \in Path : files'[t][p] = "uploaded"} = {}
      BY <2>2
    <3>2. Uploaded(t)' = Total(sizes'[t], {p \in Path : files'[t][p] = "uploaded"})
      BY DEF Uploaded
    <3>3. Total(sizes'[t], {}) = 0
      BY FS_EmptySet, TotalUnfold
    <3> QED
      BY <2>2, <3>1, <3>2, <3>3, NoneUploaded
  <2> QED
    BY <2>1, <2>2
<1>2. Counted(t)' <= Counted(t)
  BY DEF Counted, Sound, ReservedSound
<1>3. Uploaded(t) \in Nat /\ Counted(t) \in Nat
  BY FootprintNat
<1>4. Counted(t)' \in Nat
  BY DEF Counted, Sound, ReservedSound
<1> QED
  BY <1>1, <1>2, <1>3, <1>4 DEF Footprint

(* A step that completes nothing.                                          *)
LEMMA CarryStep ==
  ASSUME Sound, Sound', NEW t \in Task, Bears(t),
         \A p \in Path : files'[t][p] = "uploaded" <=> files[t][p] = "uploaded",
         \A p \in Path : files[t][p] # "absent" => files'[t][p] # "absent",
         sizes'[t] = sizes[t] \/ \A p \in Path : files[t][p] # "uploaded",
         rows'[t].status # "canceled",
         rows'[t].status = "completed" <=> rows[t].status = "completed",
         rows'[t].status \in {"queued"} \cup Active => rows[t].status \in {"queued"} \cup Active,
         reserved'[t] <= reserved[t],
         rows'[t].status \in {"queued"} \cup Active => Whole(t, reserved[t])' /\ Covered(t)',
         \A w \in Worker : t \in handed'[w] => rows'[t].status \in Active,
         \A s \in Slot : reqs'[s].op \in Reports /\ reqs'[s].task = t =>
           reqs'[s] = reqs[s] /\ seenReserved'[s] = seenReserved[s] /\ rows'[t].status \in Active
  PROVE  Keeps(t)
<1>1. Footprint(t)' <= Footprint(t)
  BY Lighter
<1>2. Present(t) \subseteq Present(t)' /\ Present(t)' \subseteq Path
  BY DEF Present
<1>3. \A s \in Slot : reqs'[s].op = "manifest" /\ reqs'[s].task = t =>
        reqs'[s].paths = Path /\ (Whole(t, seenReserved[s]))'
  BY <1>2 DEF Bears, Whole, Reports
<1>4. Bears(t)'
  BY <1>3 DEF Bears
<1> QED
  BY <1>1, <1>4 DEF Keeps

(* A step that leaves a task alone.                                        *)
LEMMA BystandStep ==
  ASSUME Sound, Sound', NEW t \in Task, Bears(t),
         rows'[t] = rows[t], files'[t] = files[t], reserved'[t] = reserved[t], sizes'[t] = sizes[t],
         \A w \in Worker : t \in handed'[w] => t \in handed[w],
         \A s \in Slot : reqs'[s].op \in Reports /\ reqs'[s].task = t =>
           reqs'[s] = reqs[s] /\ seenReserved'[s] = seenReserved[s]
  PROVE  Keeps(t)
<1>1. reserved'[t] <= reserved[t]
  BY DEF Sound, ReservedSound
<1>2. rows'[t].status \in {"queued"} \cup Active => Whole(t, reserved[t])' /\ Covered(t)'
  BY DEF Bears, Whole, Covered, AsAnnounced, Present
<1> QED
  BY <1>1, <1>2, CarryStep DEF Bears

(* A request that ends does nothing to the tasks of others.                *)
LEMMA EndShape ==
  ASSUME Sound, NEW s \in Slot, Done(s), ReadDone(s)
  PROVE  \A r \in Slot : reqs'[r].op \in Reports =>
           r # s /\ reqs'[r] = reqs[r] /\ seenReserved'[r] = seenReserved[r]
<1>1. /\ \A r \in Slot : r # s => reqs'[r] = reqs[r]
      /\ reqs'[s].op = "idle"
  BY DoneShape DEF Sound, IInv
<1>2. \A r \in Slot : r # s => seenReserved'[r] = seenReserved[r]
  BY DEF ReadDone, Sound, ReservedSound
<1> QED
  BY <1>1, <1>2 DEF Reports

LEMMA OthersKeep ==
  ASSUME Sound, Sound', BInv, NEW s \in Slot, Done(s), ReadDone(s),
         \A u \in Task : u # reqs[s].task =>
           /\ rows'[u] = rows[u] /\ files'[u] = files[u]
           /\ reserved'[u] = reserved[u] /\ sizes'[u] = sizes[u],
         \A w \in Worker : handed'[w] \subseteq handed[w] \cup {reqs[s].task}
  PROVE  \A u \in Task \ touched : u # reqs[s].task => Keeps(u)
<1> SUFFICES ASSUME NEW u \in Task \ touched, u # reqs[s].task PROVE Keeps(u)
  OBVIOUS
<1>1. Bears(u)
  BY DEF BInv
<1>2. \A r \in Slot : reqs'[r].op \in Reports =>
        reqs'[r] = reqs[r] /\ seenReserved'[r] = seenReserved[r]
  BY EndShape
<1> QED
  BY <1>1, <1>2, BystandStep

-----------------------------------------------------------------------------
(* What a commit leaves of the bytes of its task.                          *)
LEMMA RewriteShape ==
  ASSUME Sound, NEW s \in Slot, reqs[s].op # "idle", NEW new, Rewrite(s, new) \/ reserved' = reserved
  PROVE  /\ \A u \in Task : u # reqs[s].task => reserved'[u] = reserved[u]
         /\ reserved'[reqs[s].task] \in {reserved[reqs[s].task], new}
<1>1. reqs[s].task \in Task
  BY RequestShape DEF Sound, IInv
<1>2. Merge(reserved[reqs[s].task], seenReserved[s], new) \in {reserved[reqs[s].task], new}
  BY DEF Merge
<1> QED
  BY <1>1, <1>2 DEF Rewrite, Sound, ReservedSound

LEMMA ManifestKeeps ==
  ASSUME Sound, Sound', BInv, NEW s \in Slot, QManifestCommit(s)
  PROVE  \A u \in Task \ touched : Keeps(u)
<1>0. reqs[s].op # "idle"
  BY DEF QManifestCommit, ManifestCommit, InFlight
<1> SUFFICES ASSUME NEW t \in Task, t = reqs[s].task PROVE \A u \in Task \ touched : Keeps(u)
  BY <1>0, RequestShape DEF Sound, IInv
<1> DEFINE seen == reqs[s].seen
           total == Total(Announced(s), reqs[s].paths)
           n == IF total < seenReserved[s] THEN total ELSE seenReserved[s]
<1>1. /\ reqs[s].op = "manifest" /\ reqs[s].op # "idle" /\ reqs[s].op \in Reports
      /\ Done(s) /\ ReadDone(s) /\ handed' = handed
      /\ (reqs[s].paths \cap Present(t) = {} /\ Rewrite(s, n)) \/ reserved' = reserved
  BY DEF QManifestCommit, ManifestCommit, InFlight, Reports
<1>2. t \in Task /\ seen \in Row /\ reqs[s].paths \subseteq Path
  BY <1>1, RequestShape DEF Sound, IInv
<1>3. /\ \A u \in Task : u # t => reserved'[u] = reserved[u]
      /\ reserved'[t] \in {reserved[t], n}
  BY <1>1, RewriteShape
<1> HIDE DEF n
<1>4. /\ \A u \in Task : u # t => sizes'[u] = sizes[u] /\ files'[u] = files[u]
      /\ \/ UNCHANGED <<rows, files, sizes, reserved>>
         \/ /\ reqs[s].paths \cap Present(t) = {}
            /\ rows' = Flush(t, seen, [seen EXCEPT !.status = "downloading"])
            /\ \A p \in Path :
                 /\ sizes'[t][p] = IF p \in reqs[s].paths THEN Announced(s)[p] ELSE sizes[t][p]
                 /\ files'[t][p] = IF p \in reqs[s].paths THEN "pending" ELSE files[t][p]
  BY ManifestSizes DEF Sound, IInv
<1>5. /\ \A u \in Task : u # t => rows'[u] = rows[u]
      /\ rows'[t].status \in {rows[t].status, "downloading"}
  <2>1. CASE rows' = rows
    BY <2>1
  <2>2. CASE rows' # rows
    <3>1. rows' = Flush(t, seen, [seen EXCEPT !.status = "downloading"])
      BY <1>4, <2>2
    <3>2. rows \in [Task -> Row] /\ "downloading" \in Status
      BY DEF Sound, IInv, TypeOK, Status, Active
    <3> QED
      BY <1>2, <3>1, <3>2, WrittenStatus
  <2> QED
    BY <2>1, <2>2
<1>6. \A r \in Slot : reqs'[r].op \in Reports =>
        reqs'[r] = reqs[r] /\ seenReserved'[r] = seenReserved[r]
  BY <1>1, EndShape
<1>7. ASSUME t \notin touched PROVE Keeps(t)
  <2>1. Bears(t)
    BY <1>2, <1>7 DEF BInv
  <2>2. /\ rows[t].status \in Active /\ rows'[t].status \in Active
        /\ reqs[s].paths = Path /\ Whole(t, seenReserved[s])
        /\ Whole(t, reserved[t]) /\ Covered(t)
        /\ \A p \in Path : files[t][p] # "uploaded"
    BY <1>1, <1>5, <2>1 DEF Bears, Active
  <2>3. /\ rows'[t].status # "canceled" /\ rows'[t].status # "completed"
        /\ rows[t].status # "completed"
    BY <2>2 DEF Active
  <2>4. CASE UNCHANGED <<files, sizes, reserved>>
    <3>1. Whole(t, reserved[t])' /\ Covered(t)' /\ reserved'[t] <= reserved[t]
      BY <2>2, <2>4 DEF Whole, Covered, AsAnnounced, Present, Sound, ReservedSound
    <3> HIDE DEF seen
    <3> QED
      BY <1>1, <1>6, <2>1, <2>2, <2>3, <2>4, <3>1, CarryStep
  <2>5. CASE /\ Present(t) = {}
             /\ \A p \in Path : sizes'[t][p] = Announced(s)[p] /\ files'[t][p] = "pending"
    <3>1. sizes'[t] = Announced(s)
      BY <2>5 DEF Sound, SizesSound, Announced
    <3>2. total = Total(sizes'[t], Path) /\ total \in Nat
      <4>1. Announced(s) \in [Path -> Nat] /\ Path \in SUBSET Path
        BY AnnouncedSizes DEF Sound
      <4> QED
        BY <2>2, <3>1, <4>1, TotalNat
    <3> HIDE DEF total
    <3>3. Path = {} => total = 0
      <4>1. IsFiniteSet(Path)
        BY QuotaAssumption
      <4> QED
        BY <3>2, <4>1, TotalUnfold
    <3>4. /\ seenReserved[s] \in Nat /\ reserved[t] \in Nat /\ Size[t] \in Nat
          /\ reserved'[t] \in Nat
      BY QuotaAssumption DEF Sound, ReservedSound
    <3>5. Path # {} => seenReserved[s] = Size[t] /\ reserved[t] = Size[t]
      BY <2>2, <2>5 DEF Whole
    <3>6. reserved'[t] <= reserved[t]
      BY <1>3, <3>2, <3>3, <3>4, <3>5 DEF n
    <3>7. AsAnnounced(t)' => total <= reserved'[t]
      BY <1>3, <3>2, <3>3, <3>4, <3>5 DEF n, AsAnnounced
    <3>8. Present(t)' = Path
      BY <2>5 DEF Present
    <3>9. Whole(t, reserved[t])' /\ Covered(t)'
      BY <3>2, <3>7, <3>8 DEF Whole, Covered
    <3>10. /\ \A p \in Path : files'[t][p] = "uploaded" <=> files[t][p] = "uploaded"
           /\ \A p \in Path : files[t][p] # "absent" => files'[t][p] # "absent"
      BY <2>2, <2>5
    <3> HIDE DEF seen
    <3> QED
      BY <1>1, <1>6, <2>1, <2>2, <2>3, <3>6, <3>9, <3>10, CarryStep
  <2>6. Path \cap Present(t) = Present(t)
    BY DEF Present
  <2> QED
    BY <1>4, <2>2, <2>4, <2>5, <2>6
<1>8. \A u \in Task \ touched : u # t => Keeps(u)
  BY <1>1, <1>3, <1>4, <1>5, OthersKeep
<1> QED
  BY <1>7, <1>8

(* Complete turns the reserved bytes into the bytes of the files it names. *)
LEMMA CompleteKeeps ==
  ASSUME Sound, Sound', BInv, NEW s \in Slot, QCompleteCommit(s)
  PROVE  \A u \in Task \ touched : Keeps(u)
<1>0. reqs[s].op # "idle"
  BY DEF QCompleteCommit, CompleteCommit, InFlight
<1> SUFFICES ASSUME NEW t \in Task, t = reqs[s].task PROVE \A u \in Task \ touched : Keeps(u)
  BY <1>0, RequestShape DEF Sound, IInv
<1> DEFINE seen == reqs[s].seen
           uploaded == {p \in Path : files'[t][p] = "uploaded"}
<1>1. /\ reqs[s].op = "complete" /\ reqs[s].op # "idle" /\ reqs[s].op \in Reports
      /\ Done(s) /\ ReadDone(s) /\ Rewrite(s, 0)
      /\ rows' = Flush(t, seen, [seen EXCEPT !.status = "completed"])
  BY DEF QCompleteCommit, CompleteCommit, InFlight, Reports
<1>2. t \in Task /\ seen \in Row /\ rows \in [Task -> Row] /\ "completed" \in Status
  BY <1>1, RequestShape DEF Sound, IInv, TypeOK, Status
<1>3. \A u \in Task : u # t => reserved'[u] = reserved[u]
  BY <1>1, RewriteShape
<1>4. \A u \in Task : u # t => rows'[u] = rows[u]
  BY <1>1, <1>2, WrittenStatus
<1>5. \A u \in Task : u # t => sizes'[u] = sizes[u] /\ files'[u] = files[u]
  BY CompleteSizes DEF Sound, IInv
<1>6. \A w \in Worker : handed'[w] \subseteq handed[w] /\ t \notin handed'[w]
  <2>1. handed' = [handed EXCEPT ![reqs[s].by] = @ \ {t}] /\ handed \in [Worker -> SUBSET Task]
    BY DEF QCompleteCommit, CompleteCommit, Forget, Sound, IInv, TypeOK
  <2>2. \A w \in Worker : t \in handed[w] => w = reqs[s].by
    BY <1>1 DEF Sound, OInv, Holders, ReportsSound
  <2> QED
    BY <2>1, <2>2
<1>7. ASSUME t \notin touched PROVE Keeps(t)
  <2>1. Bears(t)
    BY <1>2, <1>7 DEF BInv
  <2>2. rows[t].status \in Active /\ seen.status \in Active
    BY <1>1, <2>1 DEF Bears
  <2>3. rows'[t].status = "completed"
    <3>1. [seen EXCEPT !.status = "completed"].status = "completed" /\ seen.status # "completed"
      BY <1>2, <2>2 DEF Row, Active
    <3> QED
      BY <1>1, <1>2, <3>1 DEF Flush, Merge
  <2>4. \A r \in Slot : ~(reqs'[r].op \in Reports /\ reqs'[r].task = t)
    <3>1. \A r \in Slot : reqs[r].op \in Reports /\ reqs[r].task = t => r = s
      BY <1>1 DEF Sound, OInv, ReportsSound
    <3> QED
      BY <1>1, <3>1, EndShape
  <2>5. Bears(t)'
    BY <1>6, <2>3, <2>4 DEF Bears, Active
  <2>6. AsAnnounced(t) /\ ~Grew(t) => Footprint(t)' <= Footprint(t)
    <3>1. \A p \in Path : /\ files[t][p] = "absent" => sizes'[t][p] = sizes[t][p]
                          /\ files'[t][p] = IF p \in reqs[s].paths \cap Present(t)
                                             THEN "uploaded" ELSE files[t][p]
      BY CompleteSizes DEF Sound, IInv
    <3>2. uploaded \in SUBSET Path
      OBVIOUS
    <3>3. Uploaded(t)' = Total(sizes'[t], uploaded)
      BY DEF Uploaded
    <3>4. Counted(t)' = 0
      BY <2>3 DEF Counted, Active
    <3> HIDE DEF uploaded
    <3>5. sizes[t] \in [Path -> Nat] /\ sizes'[t] \in [Path -> Nat] /\ Path \in SUBSET Path
      BY DEF Sound, SizesSound
    <3>6. ~Grew(t) => \A p \in Path : sizes'[t][p] <= sizes[t][p]
      BY <3>1, <3>5 DEF Grew, Present
    <3>7. ~Grew(t) => Total(sizes'[t], uploaded) <= Total(sizes[t], uploaded)
      <4>1. SUFFICES ASSUME ~Grew(t)
                     PROVE  Total(sizes'[t], uploaded) <= Total(sizes[t], uploaded)
        OBVIOUS
      <4>2. \A p \in uploaded : sizes'[t][p] <= sizes[t][p]
        BY <3>2, <3>6, <4>1
      <4> QED
        BY <3>2, <3>5, <4>2, TotalPointwise
    <3>8. /\ Total(sizes[t], uploaded) <= Total(sizes[t], Path)
          /\ Total(sizes[t], uploaded) \in Nat /\ Total(sizes'[t], uploaded) \in Nat
          /\ Total(sizes[t], Path) \in Nat /\ reserved[t] \in Nat
      BY <1>2, <3>2, <3>5, TotalMonotone, TotalNat DEF Sound, ReservedSound
    <3>9. AsAnnounced(t) => Total(sizes[t], Path) <= reserved[t]
      BY <2>1, <2>2 DEF Bears, Covered
    <3>10. Counted(t) = reserved[t] /\ Uploaded(t) \in Nat
      BY <1>2, <2>2, FootprintNat DEF Counted
    <3> QED
      BY <3>3, <3>4, <3>7, <3>8, <3>9, <3>10 DEF Footprint
  <2> QED
    BY <2>5, <2>6 DEF Keeps
<1>8. \A u \in Task \ touched : u # t => Keeps(u)
  BY <1>1, <1>3, <1>4, <1>5, <1>6, OthersKeep
<1> QED
  BY <1>7, <1>8

(* A fail gives the task another attempt, or gives it up with its bytes.   *)
LEMMA FailKeeps ==
  ASSUME Sound, Sound', BInv, NEW s \in Slot, QFailCommit(s)
  PROVE  \A u \in Task \ touched : Keeps(u)
<1>0. reqs[s].op # "idle"
  BY DEF QFailCommit, FailCommit, InFlight
<1> SUFFICES ASSUME NEW t \in Task, t = reqs[s].task PROVE \A u \in Task \ touched : Keeps(u)
  BY <1>0, RequestShape DEF Sound, IInv
<1> DEFINE seen == reqs[s].seen
           new == AfterFail(seen)
<1>1. /\ reqs[s].op = "fail" /\ reqs[s].op # "idle" /\ reqs[s].op \in Reports
      /\ Done(s) /\ ReadDone(s) /\ files' = files /\ sizes' = sizes
      /\ rows' = Flush(t, seen, new)
      /\ IF new.status = "failed" THEN Rewrite(s, 0) ELSE reserved' = reserved
  BY DEF QFailCommit, FailCommit, InFlight, Reports
<1>2. t \in Task /\ seen \in Row /\ rows \in [Task -> Row]
  BY <1>1, RequestShape DEF Sound, IInv, TypeOK
<1>3. new \in Row /\ new.status \in {"queued", "failed"}
  BY <1>2 DEF AfterFail, Row, Status
<1> HIDE DEF new
<1>4. /\ \A u \in Task : u # t => reserved'[u] = reserved[u]
      /\ reserved'[t] \in {reserved[t], 0}
      /\ new.status # "failed" => reserved'[t] = reserved[t]
  BY <1>1, RewriteShape
<1>5. /\ \A u \in Task : u # t => rows'[u] = rows[u]
      /\ rows'[t].status = Merge(rows[t].status, seen.status, new.status)
  <2> DEFINE f == Flush(t, seen, new)
  <2>1. /\ \A u \in Task : u # t => f[u] = rows[u]
        /\ f[t] = [status   |-> Merge(rows[t].status, seen.status, new.status),
                   worker   |-> Merge(rows[t].worker, seen.worker, new.worker),
                   attempts |-> Merge(rows[t].attempts, seen.attempts, new.attempts),
                   lease    |-> Merge(rows[t].lease, seen.lease, new.lease)]
    BY <1>2, <1>3, FlushRow
  <2>2. rows' = f
    BY <1>1
  <2> HIDE DEF f
  <2> QED
    BY <2>1, <2>2
<1>6. \A w \in Worker : handed'[w] \subseteq handed[w] /\ t \notin handed'[w]
  <2>1. handed' = [handed EXCEPT ![reqs[s].by] = @ \ {t}] /\ handed \in [Worker -> SUBSET Task]
    BY DEF QFailCommit, FailCommit, Forget, Sound, IInv, TypeOK
  <2>2. \A w \in Worker : t \in handed[w] => w = reqs[s].by
    BY <1>1 DEF Sound, OInv, Holders, ReportsSound
  <2> QED
    BY <2>1, <2>2
<1>7. ASSUME t \notin touched PROVE Keeps(t)
  <2>1. Bears(t)
    BY <1>2, <1>7 DEF BInv
  <2>2. rows[t].status \in Active /\ seen.status \in Active
    BY <1>1, <2>1 DEF Bears
  <2>3. rows'[t].status = new.status
    BY <1>3, <1>5, <2>2 DEF Merge, Active
  <2>4. \A r \in Slot : ~(reqs'[r].op \in Reports /\ reqs'[r].task = t)
    <3>1. \A r \in Slot : reqs[r].op \in Reports /\ reqs[r].task = t => r = s
      BY <1>1 DEF Sound, OInv, ReportsSound
    <3> QED
      BY <1>1, <3>1, EndShape
  <2>5. reserved'[t] <= reserved[t]
    BY <1>2, <1>4 DEF Sound, ReservedSound
  <2>6. rows'[t].status \in {"queued"} \cup Active => Whole(t, reserved[t])' /\ Covered(t)'
    BY <1>1, <1>3, <1>4, <2>1, <2>2, <2>3 DEF Bears, Active, Whole, Covered, AsAnnounced, Present
  <2>7. rows'[t].status \in {"queued", "failed"}
    BY <1>3, <2>3
  <2> HIDE DEF seen
  <2> QED
    BY <1>1, <1>2, <1>6, <2>1, <2>2, <2>4, <2>5, <2>6, <2>7, CarryStep DEF Active
<1>8. \A u \in Task \ touched : u # t => Keeps(u)
  BY <1>1, <1>4, <1>5, <1>6, OthersKeep
<1> QED
  BY <1>7, <1>8

LEMMA CancelKeeps ==
  ASSUME Sound, Sound', BInv, NEW s \in Slot, QCancelCommit(s)
  PROVE  \A u \in Task \ touched' : Keeps(u)
<1>0. reqs[s].op # "idle"
  BY DEF QCancelCommit, CancelCommit, InFlight
<1> SUFFICES ASSUME NEW t \in Task, t = reqs[s].task PROVE \A u \in Task \ touched' : Keeps(u)
  BY <1>0, RequestShape DEF Sound, IInv
<1> DEFINE seen == reqs[s].seen
<1>1. /\ reqs[s].op # "idle"
      /\ Done(s) /\ ReadDone(s) /\ Rewrite(s, 0) /\ UNCHANGED <<files, sizes, handed>>
      /\ rows' = Flush(t, seen, [seen EXCEPT !.status = "canceled"])
      /\ touched' = touched \cup {t}
  BY DEF QCancelCommit, CancelCommit, InFlight
<1>2. t \in Task /\ seen \in Row /\ rows \in [Task -> Row] /\ "canceled" \in Status
  BY <1>1, RequestShape DEF Sound, IInv, TypeOK, Status
<1>3. \A u \in Task : u # t => reserved'[u] = reserved[u] /\ rows'[u] = rows[u]
  BY <1>1, <1>2, RewriteShape, WrittenStatus
<1>4. \A u \in Task \ touched : u # t => Keeps(u)
  BY <1>1, <1>3, OthersKeep
<1> QED
  BY <1>1, <1>4

(* Claims, heartbeats and aborted requests leave the bytes alone.          *)
LEMMA OtherEndKeeps ==
  ASSUME Sound, Sound', BInv, NEW s \in Slot, QOtherEnd(s)
  PROVE  \A u \in Task \ touched : Keeps(u)
<1>0. reqs[s].op # "idle"
  BY DEF QOtherEnd, HeartbeatCommit, ClaimCommit, Abort, InFlight, Sound, IInv, TypeOK, Request, Idle
<1> SUFFICES ASSUME NEW t \in Task, t = reqs[s].task PROVE \A u \in Task \ touched : Keeps(u)
  BY <1>0, RequestShape DEF Sound, IInv
<1>1. Done(s) /\ ReadDone(s) /\ UNCHANGED <<reserved, files, sizes>>
  BY DEF QOtherEnd, HeartbeatCommit, Abort, ClaimCommit
<1>2. \A r \in Slot : reqs'[r].op \in Reports =>
        r # s /\ reqs'[r] = reqs[r] /\ seenReserved'[r] = seenReserved[r]
  BY <1>1, EndShape
<1>3. \A u \in Task :
        /\ reserved'[u] <= reserved[u]
        /\ Whole(u, reserved[u]) => Whole(u, reserved[u])'
        /\ Covered(u) => Covered(u)'
  BY <1>1 DEF Sound, ReservedSound, Whole, Covered, AsAnnounced, Present
<1>4. ASSUME UNCHANGED handed, \A u \in Task : rows'[u].status = rows[u].status
      PROVE  \A u \in Task \ touched : Keeps(u)
  <2> SUFFICES ASSUME NEW u \in Task \ touched PROVE Keeps(u)
    OBVIOUS
  <2>1. Bears(u)
    BY DEF BInv
  <2> QED
    BY <1>1, <1>2, <1>3, <1>4, <2>1, CarryStep DEF Bears
<1>5. CASE HeartbeatCommit(s)
  <2>1. \A u \in Task : rows'[u].status = rows[u].status
    BY <1>5 DEF HeartbeatCommit, Sound, IInv, TypeOK, Row
  <2> QED
    BY <1>4, <1>5, <2>1 DEF HeartbeatCommit
<1>6. CASE Abort(s)
  BY <1>4, <1>6 DEF Abort
<1>7. ASSUME NEW d \in BOOLEAN, ClaimCommit(s, d) PROVE \A u \in Task \ touched : Keeps(u)
  <2>1. /\ t \in Task
        /\ rows[t].status = "queued" /\ rows[t].worker = None
        /\ \A u \in Task : u # t => rows'[u] = rows[u]
        /\ rows'[t].status = "assigned"
    BY <1>7, ClaimCommitRows DEF Sound
  <2>2. \A w \in Worker : handed'[w] \subseteq handed[w] \cup {t}
    BY <1>7 DEF ClaimCommit, Sound, IInv, TypeOK
  <2>3. ASSUME t \notin touched PROVE Keeps(t)
    <3>1. Bears(t)
      BY <2>1, <2>3 DEF BInv
    <3>2. rows'[t].status \in Active /\ rows[t].status \notin Active
      BY <2>1 DEF Active
    <3>3. reserved'[t] <= reserved[t] /\ Whole(t, reserved[t])' /\ Covered(t)'
      BY <1>3, <2>1, <3>1 DEF Bears
    <3> QED
      BY <1>1, <1>2, <2>1, <3>1, <3>2, <3>3, CarryStep DEF Bears
  <2>4. \A u \in Task \ touched : u # t => Keeps(u)
    BY <1>1, <2>1, <2>2, OthersKeep
  <2> QED
    BY <2>3, <2>4
<1> QED
  BY <1>5, <1>6, <1>7 DEF QOtherEnd

-----------------------------------------------------------------------------
(* A worker that starts a report has the task in progress.                 *)
LEMMA ReadKeeps ==
  ASSUME Orderly, Sound, Sound', BInv, NEW s \in Slot, NEW t \in Task, QRead(s, t)
  PROVE  \A u \in Task \ touched : Keeps(u)
<1>1. PICK op \in {"claim", "manifest", "heartbeat", "complete", "fail", "cancel"},
           w \in Worker \cup {None}, paths \in SUBSET Path :
        /\ Start(s, op, w, t, paths)
        /\ op \in Reports => w \in Worker /\ t \in handed[w]
        /\ op = "manifest" => paths = Path
  <2>1. {} \in SUBSET Path
    OBVIOUS
  <2>2. CASE CancelRead(s, t)
    BY <2>1, <2>2 DEF CancelRead, Reports
  <2>3. ASSUME NEW w \in Worker, ClaimLock(s, w, t) \/ HeartbeatRead(s, w, t)
        PROVE  \E op \in {"claim", "heartbeat"} : Start(s, op, w, t, {})
    BY <2>3 DEF ClaimLock, HeartbeatRead
  <2>4. ASSUME NEW w \in Worker, FailRead(s, w, t)
        PROVE  Start(s, "fail", w, t, {}) /\ t \in handed[w]
    BY <2>4 DEF FailRead, MaySend
  <2>5. ASSUME NEW w \in Worker, NEW paths \in SUBSET Path, CompleteRead(s, w, t, paths)
        PROVE  Start(s, "complete", w, t, paths) /\ t \in handed[w]
    BY <2>5 DEF CompleteRead, MaySend
  <2>6. ASSUME NEW w \in Worker, NEW paths \in SUBSET Path, ManifestRead(s, w, t, paths)
        PROVE  Start(s, "manifest", w, t, paths) /\ t \in handed[w]
    BY <2>6 DEF ManifestRead, MaySend
  <2> HIDE DEF Start
  <2> QED
    BY <2>1, <2>2, <2>3, <2>4, <2>5, <2>6 DEF QRead, Reports
<1>2. UNCHANGED <<rows, files, handed, reserved, sizes>>
  BY DEF QRead, CancelRead, ClaimLock, HeartbeatRead, FailRead, CompleteRead, ManifestRead
<1>3. /\ \A r \in Slot : r # s => reqs'[r] = reqs[r] /\ seenReserved'[r] = seenReserved[r]
      /\ reqs'[s] = [op |-> op, by |-> w, task |-> t, seen |-> rows[t], paths |-> paths]
      /\ seenReserved'[s] = reserved[t]
  <2>1. /\ \A r \in Slot : r # s => reqs'[r] = reqs[r]
        /\ reqs'[s] = [op |-> op, by |-> w, task |-> t, seen |-> rows[t], paths |-> paths]
    BY <1>1, StartShape DEF Sound, IInv
  <2>2. seenReserved' = [seenReserved EXCEPT ![s] = reserved[t]]
    BY DEF QRead
  <2> QED
    BY <2>1, <2>2 DEF Sound, ReservedSound
<1> SUFFICES ASSUME NEW u \in Task \ touched PROVE Keeps(u)
  OBVIOUS
<1>4. Bears(u)
  BY DEF BInv
<1>5. CASE u = t /\ op \in Reports
  <2>1. rows[u].status \in Active
    BY <1>1, <1>4, <1>5 DEF Bears
  <2>2. Whole(u, reserved[u]) /\ Covered(u)
    BY <1>4, <2>1 DEF Bears
  <2>3. ASSUME NEW r \in Slot, reqs'[r].op \in Reports, reqs'[r].task = u
        PROVE  /\ reqs'[r].seen.status \in Active
               /\ reqs'[r].op = "manifest" => reqs'[r].paths = Path /\ Whole(u, seenReserved'[r])
    <3>1. CASE r = s
      BY <1>1, <1>3, <1>5, <2>1, <2>2, <3>1
    <3>2. CASE r # s
      BY <1>3, <1>4, <2>3, <3>2 DEF Bears, Whole
    <3> QED
      BY <3>1, <3>2
  <2>4. Bears(u)'
    BY <1>2, <1>4, <2>1, <2>3 DEF Bears, Whole, Covered, AsAnnounced, Present
  <2>5. Footprint(u)' <= Footprint(u)
    BY <1>2, Lighter DEF Sound, ReservedSound
  <2> QED
    BY <2>4, <2>5 DEF Keeps
<1>6. CASE ~(u = t /\ op \in Reports)
  <2>1. \A r \in Slot : reqs'[r].op \in Reports /\ reqs'[r].task = u =>
          reqs'[r] = reqs[r] /\ seenReserved'[r] = seenReserved[r]
    BY <1>3, <1>6
  <2> QED
    BY <1>2, <1>4, <2>1, BystandStep
<1> QED
  BY <1>5, <1>6

(* A new task reserves the size of its release.                            *)
LEMMA CreateKeeps ==
  ASSUME CreatesOK, Sound, Sound', BInv, NEW c \in Creator, CreateCommit(c)
  PROVE  \A u \in Task \ touched : Keeps(u)
<1>1. PICK t \in Task : t = creates[c].task
  BY DEF CreateCommit, CreatesOK, Resting
<1>0. seenReserved' = seenReserved /\ sizes' = sizes
  BY DEF CreateCommit
<1>2. CASE UNCHANGED <<vars, reserved>>
  BY <1>0, <1>2, BystandStep DEF BInv, vars
<1>3. CASE CreateTask(t) /\ reserved' = [reserved EXCEPT ![t] = Size[t]]
  <2>1. /\ rows[t].status = "absent" /\ rows'[t].status = "queued"
        /\ \A u \in Task : u # t => rows'[u] = rows[u]
        /\ files' = files /\ reqs' = reqs /\ handed' = handed
    BY <1>3 DEF CreateTask, NoRow, Sound, IInv, TypeOK
  <2>2. seenReserved' = seenReserved /\ sizes' = sizes
    BY <1>0
  <2>3. reserved'[t] = Size[t] /\ \A u \in Task : u # t => reserved'[u] = reserved[u]
    BY <1>3 DEF Sound, ReservedSound
  <2>4. \A u \in Task \ touched : u # t => Keeps(u)
    BY <2>1, <2>2, <2>3, BystandStep DEF BInv
  <2>5. ASSUME t \notin touched PROVE Keeps(t)
    <3>1. Bears(t)
      BY <2>5 DEF BInv
    <3>2. Bears(t)'
      BY <2>1, <2>2, <2>3, <3>1 DEF Bears, Whole, Covered, AsAnnounced, Active
    <3> QED
      BY <2>1, <3>2 DEF Keeps
  <2> QED
    BY <2>4, <2>5
<1> QED
  BY <1>1, <1>2, <1>3 DEF CreateCommit

(* The reaper takes back only tasks nobody downloads or reports on.        *)
LEMMA ReapKeeps ==
  ASSUME Sound, Sound', BInv, QReap
  PROVE  \A u \in Task \ touched : Keeps(u)
<1> SUFFICES ASSUME NEW u \in Task \ touched PROVE Keeps(u)
  OBVIOUS
<1>1. /\ rows'[u] = GivenUp(Reclaimed(rows[u]))
      /\ UNCHANGED <<files, sizes, reqs, handed, seenReserved>>
      /\ reserved'[u] = IF GivenUp(Reclaimed(rows[u])) # Reclaimed(rows[u]) THEN 0 ELSE reserved[u]
  BY DEF QReap, Reap
<1>2. Bears(u) /\ rows[u] \in Row /\ RowSound(rows[u]) /\ reserved[u] \in Nat
  BY DEF BInv, Sound, IInv, TypeOK, OInv, RowsSound, ReservedSound
<1>3. CASE ~Expired(rows[u])
  <2>1. Reclaimed(rows[u]) = rows[u]
    BY <1>3 DEF Reclaimed
  <2>2. GivenUp(rows[u]) = rows[u]
    BY <1>2, QueueAssumption DEF RowSound, GivenUp, Row
  <2> QED
    BY <1>1, <1>2, <2>1, <2>2, BystandStep
<1>4. CASE Expired(rows[u])
  <2> DEFINE x == [rows[u] EXCEPT !.status = "queued", !.worker = None, !.lease = "none"]
  <2>1. Reclaimed(rows[u]) = x
    BY <1>4 DEF Reclaimed
  <2>2. x.status = "queued" /\ [x EXCEPT !.status = "failed"].status = "failed"
    BY <1>2 DEF Row
  <2> HIDE DEF x
  <2>3. \/ rows'[u].status = "queued" /\ reserved'[u] = reserved[u]
        \/ rows'[u].status = "failed" /\ reserved'[u] = 0
    BY <1>1, <2>1, <2>2 DEF GivenUp
  <2>4. \A w \in Worker : u \notin handed[w]
    BY <1>4 DEF Expired, Sound, OInv, Holders
  <2>5. \A s \in Slot : ~(reqs[s].op \in Reports /\ reqs[s].task = u)
    BY <1>4 DEF Expired, Sound, OInv, ReportsSound
  <2>6. rows[u].status \in Active
    BY <1>4 DEF Expired
  <2>7. rows'[u].status \in {"queued", "failed"} /\ reserved'[u] <= reserved[u]
    BY <1>2, <2>3
  <2>8. rows'[u].status \in {"queued"} \cup Active => Whole(u, reserved[u])' /\ Covered(u)'
    BY <1>1, <1>2, <2>3, <2>6 DEF Bears, Active, Whole, Covered, AsAnnounced, Present
  <2> QED
    BY <1>1, <1>2, <2>4, <2>5, <2>6, <2>7, <2>8, CarryStep DEF Active
<1> QED
  BY <1>3, <1>4

LEMMA QuietKeeps ==
  ASSUME Sound, Sound', BInv, QQuiet
  PROVE  \A u \in Task \ touched : Keeps(u)
<1>1. UNCHANGED <<files, sizes, reqs, reserved, seenReserved>>
  BY DEF QQuiet, qvars, bvars, LeaseExpires, ToldGone, WorkerStops
<1>2. \A u \in Task : rows'[u].status = rows[u].status
  <2>1. ASSUME NEW t \in Task, LeaseExpires(t) PROVE \A u \in Task : rows'[u].status = rows[u].status
    BY <2>1 DEF LeaseExpires, Sound, IInv, TypeOK, Row
  <2>2. rows' = rows \/ \E t \in Task : LeaseExpires(t)
    BY DEF QQuiet, ToldGone, WorkerStops
  <2> QED
    BY <2>1, <2>2
<1>3. \A w \in Worker : handed'[w] \subseteq handed[w]
  BY DEF QQuiet, LeaseExpires, ToldGone, WorkerStops, Forget, Sound, IInv, TypeOK
<1>4. \A u \in Task :
        /\ reserved'[u] <= reserved[u]
        /\ Whole(u, reserved[u]) => Whole(u, reserved[u])'
        /\ Covered(u) => Covered(u)'
  BY <1>1 DEF Sound, ReservedSound, Whole, Covered, AsAnnounced, Present
<1> SUFFICES ASSUME NEW u \in Task \ touched PROVE Keeps(u)
  OBVIOUS
<1>5. Bears(u)
  BY DEF BInv
<1> QED
  BY <1>1, <1>2, <1>3, <1>4, <1>5, CarryStep DEF Bears

LEMMA BytesStep ==
  ASSUME Orderly, CreatesOK, Sound, Sound', BInv, [QNext]_<<vars, qvars>>
  PROVE  touched \subseteq touched' /\ \A u \in Task \ touched' : Keeps(u)
<1>1. ASSUME UNCHANGED <<vars, bvars, touched>>
      PROVE  touched \subseteq touched' /\ \A u \in Task \ touched' : Keeps(u)
  BY <1>1, BystandStep DEF BInv, vars, bvars
<1>2. ASSUME NEW c \in Creator,
             \/ \E t \in Task : CreateReadUsed(c, t)
             \/ CreateCheck(c) \/ CreateLookup(c) \/ CreateAbort(c)
      PROVE  UNCHANGED <<vars, bvars, touched>>
  BY <1>2 DEF CreateReadUsed, CreateCheck, CreateLookup, CreateAbort
<1>3. ASSUME NEW c \in Creator, CreateCommit(c)
      PROVE  touched' = touched /\ \A u \in Task \ touched : Keeps(u)
  BY <1>3, CreateKeeps DEF CreateCommit
<1>4. ASSUME NEW s \in Slot, NEW t \in Task, QRead(s, t)
      PROVE  touched' = touched /\ \A u \in Task \ touched : Keeps(u)
  BY <1>4, ReadKeeps DEF QRead
<1>5. ASSUME NEW s \in Slot, QManifestCommit(s)
      PROVE  touched' = touched /\ \A u \in Task \ touched : Keeps(u)
  BY <1>5, ManifestKeeps DEF QManifestCommit
<1>6. ASSUME NEW s \in Slot, QCompleteCommit(s)
      PROVE  touched' = touched /\ \A u \in Task \ touched : Keeps(u)
  BY <1>6, CompleteKeeps DEF QCompleteCommit
<1>7. ASSUME NEW s \in Slot, QFailCommit(s)
      PROVE  touched' = touched /\ \A u \in Task \ touched : Keeps(u)
  BY <1>7, FailKeeps DEF QFailCommit
<1>8. ASSUME NEW s \in Slot, QCancelCommit(s)
      PROVE  touched \subseteq touched' /\ \A u \in Task \ touched' : Keeps(u)
  BY <1>8, CancelKeeps DEF QCancelCommit
<1>9. ASSUME NEW s \in Slot, QOtherEnd(s)
      PROVE  touched' = touched /\ \A u \in Task \ touched : Keeps(u)
  BY <1>9, OtherEndKeeps DEF QOtherEnd
<1>10. ASSUME QReap
       PROVE  touched' = touched /\ \A u \in Task \ touched : Keeps(u)
  BY <1>10, ReapKeeps DEF QReap
<1>11. ASSUME QQuiet
       PROVE  touched' = touched /\ \A u \in Task \ touched : Keeps(u)
  BY <1>11, QuietKeeps DEF QQuiet, qvars
<1>12. CASE UNCHANGED <<vars, qvars>>
  BY <1>1, <1>12 DEF qvars
<1> QED
  BY <1>1, <1>2, <1>3, <1>4, <1>5, <1>6, <1>7, <1>8, <1>9, <1>10, <1>11, <1>12 DEF QNext

(* With orderly workers: once created, a task that nobody cancels never    *)
(* weighs more in its user's quota than before, whatever sizes manifests   *)
(* and completes report, if its files are as yet no larger than the release*)
(* and the step is not a complete that reports one larger than before.     *)
THEOREM NeverHeavier ==
  ASSUME Orderly
  PROVE  QSpec => FootprintShrinks
<1>1. QInit => BInv
  BY DEF QInit, Init, BInv, Bears, NoRow, Active, Idle, Reports
<1>2. CreatesOK /\ Sound /\ Sound' /\ BInv /\ [QNext]_<<vars, qvars>> =>
        /\ BInv'
        /\ [\A t \in Task :
               rows[t].status # "absent" /\ t \notin touched' /\ AsAnnounced(t) /\ ~Grew(t)
                 => Footprint(t)' <= Footprint(t)]_<<vars, qvars>>
  BY BytesStep DEF BInv, Keeps
<1>3. IInv /\ OInv /\ SizesSound /\ ReservedSound => Sound
  BY DEF Sound
<1>4. Spec => []OInv
  BY OrderlyInductive
<1> QED
  BY <1>1, <1>2, <1>3, <1>4, ReservedInductive, QuotaImplementsQueue, Inductive, PTL
     DEF QSpec, FootprintShrinks
=============================================================================
