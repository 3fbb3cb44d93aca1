---------------------------- MODULE A2818LoadProofs ----------------------------
(* Proofs about A2818Load for any number of cards, minor numbers and loads.   *)
EXTENDS A2818Load, SequenceTheorems, TLAPS

-----------------------------------------------------------------------------
(* The list.                                                                 *)

LEMMA DownType ==
  ASSUME NEW m \in 0..NumBoards, NEW k \in 0..NumBoards, k <= m
  PROVE  /\ Down(m, k) \in Seq(Boards)
         /\ Len(Down(m, k)) = m - k
         /\ DOMAIN Down(m, k) = 1..(m - k)
         /\ \A i \in 1..(m - k) : Down(m, k)[i] = m + 1 - i
<1>1. m - k \in Nat
  BY LoadAssumption
<1>2. \A i \in 1..(m - k) : m + 1 - i \in Boards
  BY LoadAssumption DEF Boards
<1>3. Down(m, k) \in [1..(m - k) -> Boards]
  BY <1>2 DEF Down
<1>4. Down(m, k) \in Seq(Boards)
  BY <1>1, <1>3, SeqDef
<1>5. DOMAIN Down(m, k) = 1..(m - k)
  BY DEF Down
<1>6. Len(Down(m, k)) = m - k
  <2>1. Len(Down(m, k)) \in Nat /\ DOMAIN Down(m, k) = 1..Len(Down(m, k))
    BY <1>4, LenProperties
  <2> QED
    BY <1>1, <1>5, <2>1
<1> QED
  BY <1>4, <1>5, <1>6 DEF Down

LEMMA DownRange ==
  ASSUME NEW m \in 0..NumBoards, NEW k \in 0..NumBoards, k <= m
  PROVE  Range(Down(m, k)) = (k + 1)..m
<1> DEFINE d == Down(m, k)
<1>1. DOMAIN d = 1..(m - k) /\ \A i \in 1..(m - k) : d[i] = m + 1 - i
  BY DownType
<1> HIDE DEF d
<1>2. \A b \in (k + 1)..m : m + 1 - b \in 1..(m - k) /\ d[m + 1 - b] = b
  BY <1>1, LoadAssumption
<1>3. \A i \in 1..(m - k) : d[i] \in (k + 1)..m
  BY <1>1, LoadAssumption
<1>4. Range(d) = (k + 1)..m
  BY <1>1, <1>2, <1>3 DEF Range
<1> QED
  BY <1>4 DEF d

LEMMA DownEmpty ==
  ASSUME NEW m \in 0..NumBoards, NEW k \in 0..NumBoards, k <= m
  PROVE  Down(m, k) = <<>> <=> m = k
<1>1. Down(m, k) \in Seq(Boards) /\ Len(Down(m, k)) = m - k
  BY DownType
<1>2. <<>> \in Seq(Boards) /\ Len(<<>>) = 0
  BY EmptySeq
<1>3. ASSUME m = k PROVE Down(m, k) = <<>>
  <2>1. Len(Down(m, k)) = 0
    BY <1>1, <1>3, LoadAssumption
  <2> QED
    BY <1>1, <2>1, EmptySeq
<1>4. ASSUME Down(m, k) = <<>> PROVE m = k
  BY <1>1, <1>2, <1>4, LoadAssumption
<1> QED
  BY <1>3, <1>4

LEMMA DownExtended ==
  ASSUME NEW m \in 0..NumBoards, NEW k \in 0..NumBoards, k <= m, m + 1 <= NumBoards
  PROVE  <<m + 1>> \o Down(m, k) = Down(m + 1, k)
<1> DEFINE d == Down(m, k)
           e == Down(m + 1, k)
<1>1. m + 1 \in 0..NumBoards /\ k <= m + 1
  BY LoadAssumption
<1>2. /\ d \in Seq(Boards) /\ Len(d) = m - k
      /\ \A i \in 1..(m - k) : d[i] = m + 1 - i
  BY DownType
<1>3. /\ e \in Seq(Boards) /\ Len(e) = m + 1 - k
      /\ \A i \in 1..(m + 1 - k) : e[i] = m + 1 + 1 - i
  BY <1>1, DownType
<1>4. m + 1 \in Boards
  BY <1>1 DEF Boards
<1>5. <<m + 1>> \in Seq(Boards) /\ Len(<<m + 1>>) = 1 /\ <<m + 1>>[1] = m + 1
  BY <1>4
<1> HIDE DEF d, e
<1>6. /\ <<m + 1>> \o d \in Seq(Boards)
      /\ Len(<<m + 1>> \o d) = m + 1 - k
      /\ \A i \in 1..(m + 1 - k) :
           (<<m + 1>> \o d)[i] = IF i <= 1 THEN <<m + 1>>[i] ELSE d[i - 1]
  <2>1. 1 + (m - k) = m + 1 - k
    BY LoadAssumption
  <2> QED
    BY <1>2, <1>5, <2>1, ConcatProperties
<1>7. \A i \in 1..(m + 1 - k) : (<<m + 1>> \o d)[i] = e[i]
  <2> TAKE i \in 1..(m + 1 - k)
  <2>1. CASE i = 1
    BY <1>3, <1>5, <1>6, <2>1, LoadAssumption
  <2>2. CASE i # 1
    <3>1. i - 1 \in 1..(m - k) /\ ~(i <= 1)
      BY <2>2, LoadAssumption
    <3>2. d[i - 1] = m + 1 - (i - 1)
      BY <1>2, <3>1
    <3> QED
      BY <1>3, <1>6, <3>1, <3>2, LoadAssumption
  <2> QED
    BY <2>1, <2>2
<1>8. <<m + 1>> \o d = e
  BY <1>3, <1>6, <1>7, SeqEqual
<1> QED
  BY <1>8 DEF d, e

LEMMA DownShortened ==
  ASSUME NEW m \in 0..NumBoards, NEW k \in 0..NumBoards, k < m
  PROVE  Head(Down(m, k)) = m /\ Tail(Down(m, k)) = Down(m - 1, k)
<1> DEFINE d == Down(m, k)
           e == Down(m - 1, k)
<1>1. m - 1 \in 0..NumBoards /\ k <= m - 1 /\ k <= m
  BY LoadAssumption
<1>2. /\ d \in Seq(Boards) /\ Len(d) = m - k
      /\ \A i \in 1..(m - k) : d[i] = m + 1 - i
  BY <1>1, DownType
<1>3. /\ e \in Seq(Boards) /\ Len(e) = m - 1 - k
      /\ \A i \in 1..(m - 1 - k) : e[i] = m - 1 + 1 - i
  BY <1>1, DownType
<1>4. d # <<>>
  BY <1>1, DownEmpty
<1> HIDE DEF d, e
<1>5. /\ Tail(d) \in Seq(Boards)
      /\ Len(Tail(d)) = m - k - 1
      /\ \A i \in 1..(m - k - 1) : Tail(d)[i] = d[i + 1]
  BY <1>2, <1>4, HeadTailProperties
<1>6. \A i \in 1..(m - 1 - k) : Tail(d)[i] = e[i]
  <2> TAKE i \in 1..(m - 1 - k)
  <2>1. i \in 1..(m - k - 1) /\ i + 1 \in 1..(m - k)
    BY LoadAssumption
  <2> QED
    BY <1>2, <1>3, <1>5, <2>1, LoadAssumption
<1>7. Tail(d) = e
  <2>1. Len(Tail(d)) = Len(e)
    BY <1>3, <1>5, LoadAssumption
  <2>2. \A i \in 1..Len(Tail(d)) : Tail(d)[i] = e[i]
    BY <1>5, <1>6, LoadAssumption
  <2> QED
    BY <1>3, <1>5, <2>1, <2>2, SeqEqual
<1>8. Head(d) = m
  <2>1. 1 \in 1..(m - k)
    BY LoadAssumption
  <2> QED
    BY <1>2, <2>1, LoadAssumption
<1> QED
  BY <1>7, <1>8 DEF d, e

-----------------------------------------------------------------------------
(* The inductive invariant.                                                  *)

LEMMA LoadInit == Init => LoadInv
<1> SUFFICES ASSUME Init PROVE LoadInv
  OBVIOUS
<1> USE LoadAssumption DEF Init
<1>1. 0 \in 0..NumBoards /\ 0 <= MAX_MINOR /\ 0 \in 0..MaxLoads
  OBVIOUS
<1>2. devs \in Seq(Boards) /\ devs = Down(0, 0)
  BY <1>1, EmptySeq, DownEmpty
<1>3. TypeOK
  BY <1>1, <1>2 DEF TypeOK
<1>4. WorkOK
  BY DEF WorkOK
<1>5. ListOK
  BY <1>1, <1>2 DEF ListOK, ListIs
<1>6. ProcOK
  BY DEF ProcOK
<1>7. NothingLeaks
  <2>1. Range(devs) = {}
    BY <1>1, <1>2, DownRange
  <2> QED
    BY <2>1 DEF NothingLeaks
<1> QED
  BY <1>3, <1>4, <1>5, <1>6, <1>7 DEF LoadInv

LEMMA TypeStep == LoadInv /\ [Next]_vars => TypeOK'
<1> SUFFICES ASSUME LoadInv, [Next]_vars PROVE TypeOK'
  OBVIOUS
<1> USE LoadAssumption DEF LoadInv, TypeOK
<1>1. CASE Load
  BY <1>1, EmptySeq DEF Load
<1>2. CASE FindBoard
  BY <1>2 DEF FindBoard, First, Resources
<1>3. CASE InitBoard
  <2>1. index \in Boards
    BY <1>3 DEF InitBoard, WorkOK
  <2>2. at \in Resources /\ After(at) \in Resources \cup {"done"}
    BY <1>3 DEF InitBoard, WorkOK, After, Resources
  <2>3. held' \in [Boards -> SUBSET Resources]
    BY <1>3, <2>1, <2>2 DEF InitBoard, Take
  <2> QED
    BY <1>3, <2>2, <2>3 DEF InitBoard
<1>4. CASE ListBoard
  <2>1. index \in Boards
    BY <1>4 DEF ListBoard, WorkOK
  <2>2. devs' \in Seq(Boards)
    BY <1>4, <2>1, ConcatProperties DEF ListBoard
  <2> QED
    BY <1>4, <2>2 DEF ListBoard
<1>5. CASE InitFails
  <2>1. index \in Boards /\ at \in Resources
    BY <1>5 DEF InitFails, WorkOK
  <2>2. held' \in [Boards -> SUBSET Resources]
    BY <1>5, <2>1 DEF InitFails, Take
  <2>3. ErrorLabel(at) \in Resources \cup {"done"}
    BY <2>1 DEF ErrorLabel, UnwoundAfter, Resources
  <2> QED
    BY <1>5, <2>2, <2>3 DEF InitFails
<1>6. CASE Unwind
  <2>1. held' \in [Boards -> SUBSET Resources]
    BY <1>6 DEF Unwind, GiveBack
  <2>2. UnwoundAfter(at) \in Resources \cup {"done"}
    BY DEF UnwoundAfter, Resources
  <2> QED
    BY <1>6, <2>1, <2>2 DEF Unwind
<1>7. CASE UnwindReturns
  BY <1>7 DEF UnwindReturns
<1>8. CASE ReleaseNext
  <2>1. Head(devs) \in Boards /\ Tail(devs) \in Seq(Boards)
    BY <1>8, HeadTailProperties DEF ReleaseNext
  <2>2. Head(devs) \in 0..NumBoards
    BY <2>1 DEF Boards
  <2>3. at' \in Resources
    BY <1>8 DEF ReleaseNext, Resources
  <2> QED
    BY <1>8, <2>1, <2>2, <2>3 DEF ReleaseNext
<1>9. CASE Release
  <2>1. held' \in [Boards -> SUBSET Resources]
    BY <1>9 DEF Release, GiveBack
  <2>2. ReleasedAfter(at) \in Resources \cup {"proc"}
    BY DEF ReleasedAfter, Resources
  <2> QED
    BY <1>9, <2>1, <2>2 DEF Release
<1>10. CASE ReleaseProc
  BY <1>10 DEF ReleaseProc
<1>11. CASE ReleaseReturns
  BY <1>11 DEF ReleaseReturns
<1>12. CASE Register
  BY <1>12 DEF Register
<1>13. CASE Unload
  BY <1>13 DEF Unload
<1>14. CASE UNCHANGED vars
  BY <1>14 DEF vars
<1> QED
  BY <1>1, <1>2, <1>3, <1>4, <1>5, <1>6, <1>7, <1>8, <1>9, <1>10, <1>11, <1>12, <1>13,
     <1>14
  DEF Next

LEMMA WorkStep == LoadInv /\ [Next]_vars => WorkOK'
<1> SUFFICES ASSUME LoadInv, [Next]_vars PROVE WorkOK'
  OBVIOUS
<1> USE LoadAssumption DEF WorkOK
<1>0. TypeOK /\ WorkOK
  BY DEF LoadInv
<1>1. CASE Load
  BY <1>1 DEF Load
<1>2. CASE FindBoard
  <2>1. index' \in Boards /\ index' \notin Range(devs)
    <3>1. PICK m \in 0..index, k \in 0..index : k <= m /\ ListIs(m, k)
      BY DEF LoadInv, ListOK
    <3>2. Range(devs) = (k + 1)..m /\ m = index
      BY <1>0, <1>2, <3>1, DownRange DEF ListIs, FindBoard, TypeOK
    <3> QED
      BY <1>0, <1>2, <3>2 DEF FindBoard, Boards, TypeOK
  <2>2. held[index'] = {}
    BY <1>2, <2>1 DEF LoadInv, NothingLeaks, InWork, FindBoard
  <2> QED
    BY <1>2, <2>1, <2>2 DEF FindBoard, First, Taken
<1>3. CASE InitBoard
  <2>1. index \in Boards /\ at \in Resources /\ held[index] = Taken(at)
    BY <1>0, <1>3 DEF InitBoard, TypeOK
  <2>2. held'[index] = Taken(at) \cup {at}
    BY <1>0, <1>3, <2>1 DEF InitBoard, Take, TypeOK
  <2>3. Taken(at) \cup {at} = Taken(After(at)) /\ After(at) # "proc"
    BY <2>1 DEF Taken, After, Resources
  <2> QED
    BY <1>3, <2>1, <2>2, <2>3 DEF InitBoard
<1>4. CASE ListBoard
  BY <1>4 DEF ListBoard
<1>5. CASE InitFails
  <2>1. index \in Boards /\ at \in Resources \ {"maps"} /\ held[index] = Taken(at)
    BY <1>0, <1>5 DEF InitFails, TypeOK
  <2>2. held'[index] = Taken(at)
          \/ (at \in {"o_buf", "il_buf"} /\ held'[index] = Taken(at) \cup {at})
    BY <1>0, <1>5, <2>1 DEF InitFails, Take, TypeOK
  <2>3. CASE at \in {"o_buf", "il_buf"}
    BY <1>5, <2>1, <2>2, <2>3 DEF InitFails, ErrorLabel, Taken, Resources
  <2>4. CASE at \notin {"o_buf", "il_buf"}
    <3>1. held'[index] = Taken(at) /\ at' = UnwoundAfter(at)
      BY <1>5, <2>2, <2>4 DEF InitFails, ErrorLabel
    <3>2. /\ at' # "proc"
          /\ Taken(at) \ {at'} = IF at' = "done" THEN {} ELSE Taken(at')
      BY <2>1, <2>4, <3>1 DEF UnwoundAfter, Taken, Resources
    <3> QED
      BY <1>5, <2>1, <3>1, <3>2 DEF InitFails
  <2> QED
    BY <2>3, <2>4
<1>6. CASE Unwind
  <2>1. index \in Boards /\ at \in Resources /\ held[index] \ {at} = Taken(at)
    BY <1>0, <1>6 DEF Unwind, TypeOK
  <2>2. held'[index] = Taken(at) /\ at' = UnwoundAfter(at)
    BY <1>0, <1>6, <2>1 DEF Unwind, GiveBack, TypeOK
  <2>3. /\ at' # "proc"
        /\ Taken(at) \ {at'} = IF at' = "done" THEN {} ELSE Taken(at')
    BY <2>1, <2>2 DEF UnwoundAfter, Taken, Resources
  <2> QED
    BY <1>6, <2>1, <2>2, <2>3 DEF Unwind
<1>7. CASE UnwindReturns
  BY <1>7 DEF UnwindReturns
<1>8. CASE ReleaseNext
  <2>1. Head(devs) \in Range(devs) /\ Head(devs) \in Boards
    <3>1. devs \in Seq(Boards) /\ devs # <<>>
      BY <1>0, <1>8 DEF ReleaseNext, TypeOK
    <3>2. Len(devs) \in Nat \ {0} /\ DOMAIN devs = 1..Len(devs)
      BY <3>1, EmptySeq, LenProperties
    <3>3. Head(devs) = devs[1]
      BY <3>1
    <3> QED
      BY <3>1, <3>2, <3>3, HeadTailProperties DEF Range
  <2>2. held[Head(devs)] = Resources
    BY <1>8, <2>1 DEF LoadInv, NothingLeaks, InWork, ReleaseNext
  <2> QED
    BY <1>8, <2>1, <2>2 DEF ReleaseNext, ToRelease
<1>9. CASE Release
  <2>1. /\ released \in Boards /\ at \in Resources
        /\ held[released] = ToRelease(at)
    BY <1>0, <1>9 DEF Release, TypeOK
  <2>2. held'[released] = ToRelease(at) \ {at} /\ at' = ReleasedAfter(at)
    BY <1>0, <1>9, <2>1 DEF Release, GiveBack, TypeOK
  <2>3. ToRelease(at) \ {at} = ToRelease(ReleasedAfter(at)) /\ ReleasedAfter(at) # "done"
    BY <2>1 DEF ToRelease, ReleasedAfter, Resources
  <2> QED
    BY <1>9, <2>1, <2>2, <2>3 DEF Release
<1>10. CASE ReleaseProc
  BY <1>10 DEF ReleaseProc
<1>11. CASE ReleaseReturns
  BY <1>11 DEF ReleaseReturns
<1>12. CASE Register
  BY <1>12 DEF Register
<1>13. CASE Unload
  BY <1>13 DEF Unload
<1>14. CASE UNCHANGED vars
  BY <1>0, <1>14 DEF vars
<1> QED
  BY <1>1, <1>2, <1>3, <1>4, <1>5, <1>6, <1>7, <1>8, <1>9, <1>10, <1>11, <1>12, <1>13,
     <1>14
  DEF Next

LEMMA ListStep == LoadInv /\ [Next]_vars => ListOK'
<1> SUFFICES ASSUME LoadInv, [Next]_vars PROVE ListOK'
  OBVIOUS
<1> USE LoadAssumption
<1>1. TypeOK /\ WorkOK /\ (unloading => pc \in {"release", "releasing"})
  BY DEF LoadInv, ListOK
<1>2. index \in 0..NumBoards /\ lastFailure \in 0..NumBoards
  BY <1>1 DEF TypeOK
<1>3. PICK m \in 0..index, k \in 0..index : k <= m /\ ListIs(m, k)
  BY DEF LoadInv, ListOK
<1>4. m \in 0..NumBoards /\ k \in 0..NumBoards /\ devs = Down(m, k)
  BY <1>2, <1>3 DEF ListIs
<1>5. devs = <<>> <=> m = k
  BY <1>3, <1>4, DownEmpty
<1>6. CASE Load
  <2>1. devs' = Down(0, 0)
    BY <1>6, DownEmpty DEF Load
  <2>2. ListIs(0, 0)'
    BY <1>6, <2>1 DEF Load, ListIs
  <2> QED
    BY <1>1, <1>6, <2>2 DEF Load, ListOK
<1>7. CASE FindBoard
  <2>1. ListIs(m, k)' /\ m \in 0..index' /\ k \in 0..index'
    BY <1>2, <1>3, <1>7 DEF FindBoard, ListIs
  <2> QED
    BY <1>1, <1>3, <1>7, <2>1 DEF FindBoard, ListOK
<1>8. CASE InitBoard
  BY <1>1, <1>3, <1>8 DEF InitBoard, ListIs, ListOK
<1>9. CASE ListBoard
  <2>1. m + 1 = index /\ k = lastFailure
    BY <1>3, <1>9 DEF ListBoard, ListIs
  <2>2. <<m + 1>> \o Down(m, k) = Down(m + 1, k)
    <3>1. m \in 0..NumBoards /\ k \in 0..NumBoards /\ k <= m /\ m + 1 <= NumBoards
      BY <1>2, <1>3, <1>4, <2>1
    <3> QED
      BY ONLY <3>1, DownExtended
  <2>3. devs' = <<m + 1>> \o Down(m, k)
    BY <1>4, <1>9, <2>1 DEF ListBoard
  <2>4. devs' = Down(index, k)
    BY <2>1, <2>2, <2>3
  <2>5. ListIs(index, k)'
    BY <1>9, <2>1, <2>4 DEF ListBoard, ListIs
  <2> QED
    BY <1>1, <1>2, <1>3, <1>9, <2>1, <2>5 DEF ListBoard, ListOK
<1>10. CASE InitFails
  BY <1>1, <1>3, <1>10 DEF InitFails, ListIs, ListOK
<1>11. CASE Unwind
  BY <1>1, <1>3, <1>11 DEF Unwind, ListIs, ListOK
<1>12. CASE UnwindReturns
  <2>1. ListIs(m, k)'
    BY <1>2, <1>3, <1>4, <1>12 DEF UnwindReturns, ListIs
  <2> QED
    BY <1>1, <1>3, <1>12, <2>1 DEF UnwindReturns, ListOK
<1>13. CASE ReleaseNext
  <2>1. k < m
    BY <1>3, <1>4, <1>5, <1>13 DEF ReleaseNext
  <2>2. released' = m /\ devs' = Down(m - 1, k)
    BY <1>4, <1>13, <2>1, DownShortened DEF ReleaseNext
  <2>3. m - 1 \in 0..index /\ k <= m - 1
    BY <1>2, <1>3, <2>1
  <2>4. ListIs(m - 1, k)'
    BY <1>2, <1>3, <1>4, <1>13, <2>2 DEF ReleaseNext, ListIs
  <2> QED
    BY <1>1, <1>3, <1>13, <2>3, <2>4 DEF ReleaseNext, ListOK
<1>14. CASE Release
  BY <1>1, <1>3, <1>14 DEF Release, ListIs, ListOK
<1>15. CASE ReleaseProc
  <2>1. ListIs(m, k)'
    BY <1>3, <1>15 DEF ReleaseProc, ListIs
  <2> QED
    BY <1>1, <1>3, <1>15, <2>1 DEF ReleaseProc, ListOK
<1>16. CASE ReleaseReturns
  <2>1. m = k
    BY <1>5, <1>16 DEF ReleaseReturns
  <2>2. CASE unloading
    <3>1. ListIs(m, k)'
      BY <1>3, <1>16, <2>1, <2>2 DEF ReleaseReturns, ListIs
    <3> QED
      BY <1>3, <1>16, <3>1 DEF ReleaseReturns, ListOK
  <2>3. CASE ~unloading
    <3>1. lastFailure = index /\ pc' = "find"
      BY <1>1, <1>3, <1>16, <2>3 DEF ReleaseReturns, ListIs, TypeOK
    <3>2. devs' = Down(index, index)
      BY <1>2, <1>16, DownEmpty DEF ReleaseReturns
    <3>3. ListIs(index, index)'
      BY <1>16, <3>1, <3>2 DEF ReleaseReturns, ListIs
    <3> QED
      BY <1>2, <1>16, <3>3 DEF ReleaseReturns, ListOK
  <2> QED
    BY <2>2, <2>3
<1>17. CASE Register
  <2>1. m = index /\ k = lastFailure /\ (index = 0 => m = k)
    BY <1>2, <1>3, <1>17 DEF Register, ListIs
  <2>2. ListIs(m, k)'
    BY <1>3, <1>17, <2>1 DEF Register, ListIs
  <2> QED
    BY <1>1, <1>3, <1>17, <2>2 DEF Register, ListOK
<1>18. CASE Unload
  <2>1. ListIs(m, k)'
    BY <1>3, <1>18 DEF Unload, ListIs
  <2> QED
    BY <1>3, <1>18, <2>1 DEF Unload, ListOK
<1>19. CASE UNCHANGED vars
  BY <1>1, <1>3, <1>19 DEF vars, ListIs, ListOK
<1> QED
  BY <1>6, <1>7, <1>8, <1>9, <1>10, <1>11, <1>12, <1>13, <1>14, <1>15, <1>16, <1>17,
     <1>18, <1>19
  DEF Next

LEMMA ProcStep == LoadInv /\ [Next]_vars => ProcOK'
<1> SUFFICES ASSUME LoadInv, [Next]_vars PROVE ProcOK'
  OBVIOUS
<1>1. TypeOK /\ ProcOK /\ (devs # <<>> /\ pc \notin {"release", "releasing"} => proc)
  BY DEF LoadInv, NothingLeaks
<1> USE <1>1 DEF ProcOK
<1>2. CASE Load
  <2>1. devs = <<>>
    <3>1. PICK m \in 0..index, k \in 0..index : k <= m /\ ListIs(m, k)
      BY DEF LoadInv, ListOK
    <3>2. m = k /\ devs = Down(m, k) /\ m \in 0..NumBoards
      BY <1>2, <3>1, LoadAssumption DEF Load, ListIs, TypeOK
    <3> QED
      BY <3>1, <3>2, DownEmpty
  <2> QED
    BY <1>2, <2>1 DEF Load
<1>3. CASE FindBoard
  BY <1>3 DEF FindBoard, First
<1>4. CASE InitBoard
  <2>1. at' \in {"il_buf", "done"} => at \in {"irq", "il_buf"}
    BY <1>4 DEF InitBoard, After, TypeOK, Resources, LoadInv, WorkOK
  <2> QED
    BY <1>4, <2>1 DEF InitBoard, After
<1>5. CASE ListBoard
  <2>1. devs' # <<>>
    <3>1. index \in Boards /\ devs \in Seq(Boards)
      BY <1>5 DEF ListBoard, LoadInv, WorkOK, TypeOK
    <3>2. <<index>> \in Seq(Boards) /\ <<index>> # <<>>
      BY <3>1
    <3> QED
      BY <1>5, <3>1, <3>2, ConcatEqualIffEmpty DEF ListBoard
  <2> QED
    BY <1>5, <2>1 DEF ListBoard
<1>6. CASE InitFails
  BY <1>6 DEF InitFails
<1>7. CASE Unwind
  BY <1>7 DEF Unwind
<1>8. CASE UnwindReturns
  BY <1>8 DEF UnwindReturns
<1>9. CASE ReleaseNext
  BY <1>9 DEF ReleaseNext
<1>10. CASE Release
  BY <1>10 DEF Release
<1>11. CASE ReleaseProc
  BY <1>11 DEF ReleaseProc
<1>12. CASE ReleaseReturns
  BY <1>12 DEF ReleaseReturns
<1>13. CASE Register
  BY <1>13 DEF Register
<1>14. CASE Unload
  BY <1>14 DEF Unload
<1>15. CASE UNCHANGED vars
  BY <1>15 DEF vars
<1> QED
  BY <1>2, <1>3, <1>4, <1>5, <1>6, <1>7, <1>8, <1>9, <1>10, <1>11, <1>12, <1>13, <1>14,
     <1>15
  DEF Next

LEMMA LeakStep == LoadInv /\ [Next]_vars => NothingLeaks'
<1> SUFFICES ASSUME LoadInv, [Next]_vars PROVE NothingLeaks'
  OBVIOUS
<1>1. TypeOK /\ WorkOK /\ ProcOK /\ NothingLeaks
  BY DEF LoadInv
<1>2. \A b \in Boards \ InWork' : held'[b] = IF b \in Range(devs)' THEN Resources ELSE {}
  <2> USE <1>1 DEF NothingLeaks, InWork
  <2>1. CASE Load
    <3>1. devs = <<>>
      <4>1. PICK m \in 0..index, k \in 0..index : k <= m /\ ListIs(m, k)
        BY DEF LoadInv, ListOK
      <4>2. m = k /\ devs = Down(m, k) /\ m \in 0..NumBoards
        BY <2>1, <4>1, LoadAssumption DEF Load, ListIs, TypeOK
      <4> QED
        BY <4>1, <4>2, DownEmpty
    <3> QED
      BY <2>1, <3>1 DEF Load
  <2>2. CASE FindBoard
    BY <2>2 DEF FindBoard
  <2>3. CASE InitBoard
    BY <2>3 DEF InitBoard, Take, TypeOK
  <2>4. CASE ListBoard
    <3>1. index \in Boards /\ devs \in Seq(Boards) /\ held[index] = Resources
      BY <2>4 DEF ListBoard, WorkOK, TypeOK, Taken
    <3>2. Range(devs)' = Range(devs) \cup {index}
      <4>1. /\ <<index>> \in Seq(Boards) /\ Len(<<index>>) = 1 /\ <<index>>[1] = index
            /\ Len(devs) \in Nat /\ DOMAIN devs = 1..Len(devs)
        BY <3>1, LenProperties
      <4>2. /\ devs' \in Seq(Boards) /\ Len(devs') = 1 + Len(devs)
            /\ \A i \in 1..(1 + Len(devs)) :
                 devs'[i] = IF i <= 1 THEN <<index>>[i] ELSE devs[i - 1]
        BY <2>4, <3>1, <4>1, ConcatProperties DEF ListBoard
      <4>3. DOMAIN devs' = 1..(1 + Len(devs))
        BY <4>2, LenProperties
      <4>4. \A i \in 1..Len(devs) : i + 1 \in 1..(1 + Len(devs)) /\ devs'[i + 1] = devs[i]
        BY <4>1, <4>2
      <4>5. 1 \in 1..(1 + Len(devs)) /\ devs'[1] = index
        BY <4>1, <4>2
      <4>6. \A i \in 1..(1 + Len(devs)) : devs'[i] \in Range(devs) \cup {index}
        BY <4>1, <4>2 DEF Range
      <4> QED
        BY <4>1, <4>3, <4>4, <4>5, <4>6 DEF Range
    <3> QED
      BY <2>4, <3>1, <3>2 DEF ListBoard
  <2>5. CASE InitFails
    BY <2>5 DEF InitFails, Take, TypeOK
  <2>6. CASE Unwind
    BY <2>6 DEF Unwind, GiveBack, TypeOK
  <2>7. CASE UnwindReturns
    <3>1. index \in Boards /\ held[index] = {}
      BY <2>7 DEF UnwindReturns, WorkOK, TypeOK, Resources
    <3>2. index \notin Range(devs)
      <4>1. PICK m \in 0..index, k \in 0..index : k <= m /\ ListIs(m, k)
        BY DEF LoadInv, ListOK
      <4>2. m + 1 = index /\ Range(devs) = (k + 1)..m
        BY <2>7, <4>1, DownRange, LoadAssumption DEF UnwindReturns, ListIs, TypeOK
      <4> QED
        BY <4>2, LoadAssumption DEF TypeOK
    <3> QED
      BY <2>7, <3>1, <3>2 DEF UnwindReturns
  <2>8. CASE ReleaseNext
    <3>1. Range(devs) \ {released'} \subseteq Range(devs)' /\ Range(devs)' \subseteq Range(devs)
      <4>1. devs \in Seq(Boards) /\ devs # <<>>
        BY <2>8 DEF ReleaseNext, TypeOK
      <4>2. /\ Len(devs) \in Nat \ {0} /\ DOMAIN devs = 1..Len(devs)
            /\ Head(devs) = devs[1]
        BY <4>1, EmptySeq, LenProperties
      <4>3. /\ devs' \in Seq(Boards) /\ Len(devs') = Len(devs) - 1
            /\ \A i \in 1..(Len(devs) - 1) : devs'[i] = devs[i + 1]
        BY <2>8, <4>1, HeadTailProperties DEF ReleaseNext
      <4>4. DOMAIN devs' = 1..(Len(devs) - 1)
        BY <4>3, LenProperties
      <4>5. \A i \in 1..(Len(devs) - 1) : i + 1 \in 1..Len(devs)
        BY <4>2
      <4>6. \A i \in 2..Len(devs) : i - 1 \in 1..(Len(devs) - 1) /\ devs'[i - 1] = devs[i]
        BY <4>2, <4>3
      <4>7. \A i \in 1..Len(devs) : i = 1 \/ i \in 2..Len(devs)
        BY <4>2
      <4> QED
        BY <2>8, <4>2, <4>3, <4>4, <4>5, <4>6, <4>7 DEF Range, ReleaseNext
    <3> QED
      BY <2>8, <3>1 DEF ReleaseNext
  <2>9. CASE Release
    BY <2>9 DEF Release, GiveBack, TypeOK
  <2>10. CASE ReleaseProc
    <3>1. released \in Boards /\ held[released] = {}
      BY <2>10 DEF ReleaseProc, WorkOK, ToRelease
    <3>2. released \notin Range(devs)
      <4>1. PICK m \in 0..index, k \in 0..index : k <= m /\ ListIs(m, k)
        BY DEF LoadInv, ListOK
      <4>2. released = m + 1 /\ Range(devs) = (k + 1)..m
        BY <2>10, <4>1, DownRange, LoadAssumption DEF ReleaseProc, ListIs, TypeOK
      <4> QED
        BY <4>1, <4>2, LoadAssumption DEF TypeOK
    <3> QED
      BY <2>10, <3>1, <3>2 DEF ReleaseProc
  <2>11. CASE ReleaseReturns
    BY <2>11 DEF ReleaseReturns
  <2>12. CASE Register
    BY <2>12 DEF Register
  <2>13. CASE Unload
    BY <2>13 DEF Unload
  <2>14. CASE UNCHANGED vars
    BY <2>14 DEF vars
  <2> QED
    BY <2>1, <2>2, <2>3, <2>4, <2>5, <2>6, <2>7, <2>8, <2>9, <2>10, <2>11, <2>12, <2>13,
       <2>14
    DEF Next
<1>3. ListOK' /\ ProcOK'
  BY ListStep, ProcStep
<1>4. devs' # <<>> /\ pc' \notin {"release", "releasing"} => proc'
  <2> USE <1>1 DEF NothingLeaks, ProcOK
  <2>1. CASE Load
    BY <2>1 DEF Load
  <2>2. CASE FindBoard
    BY <2>2 DEF FindBoard
  <2>3. CASE InitBoard
    BY <2>3 DEF InitBoard
  <2>4. CASE ListBoard
    BY <2>4 DEF ListBoard
  <2>5. CASE InitFails
    BY <2>5 DEF InitFails
  <2>6. CASE Unwind
    BY <2>6 DEF Unwind
  <2>7. CASE UnwindReturns \/ ReleaseNext \/ ReleaseProc \/ Unload
    BY <2>7 DEF UnwindReturns, ReleaseNext, ReleaseProc, Unload
  <2>8. CASE Release
    BY <2>8 DEF Release
  <2>9. CASE ReleaseReturns
    BY <2>9 DEF ReleaseReturns
  <2>10. CASE Register
    BY <2>10 DEF Register
  <2>11. CASE UNCHANGED vars
    BY <2>11 DEF vars
  <2> QED
    BY <2>1, <2>2, <2>3, <2>4, <2>5, <2>6, <2>7, <2>8, <2>9, <2>10, <2>11 DEF Next
<1>5. pc' = "unloaded" /\ proc' => proc_left'
  <2>1. pc' = "unloaded" => devs' = <<>>
    <3>1. PICK m \in 0..index', k \in 0..index' : k <= m /\ ListIs(m, k)'
      BY <1>3 DEF ListOK
    <3>2. index' \in 0..NumBoards
      BY TypeStep DEF TypeOK
    <3>3. m \in 0..NumBoards /\ devs' = Down(m, k) /\ (pc' = "unloaded" => m = k)
      BY <3>1, <3>2, LoadAssumption DEF ListIs
    <3> QED
      BY <3>1, <3>3, DownEmpty
  <2> QED
    BY <1>3, <2>1 DEF ProcOK
<1> QED
  BY <1>2, <1>4, <1>5 DEF NothingLeaks

-----------------------------------------------------------------------------
(* Theorems.                                                                 *)

(* Whatever fails, on whichever card, what the driver holds of each card,    *)
(* its list of cards and /proc/a2818 follow the steps of a2818_init(),       *)
(* a2818_init_board(), ReleaseBoards() and a2818_cleanup().                  *)
THEOREM LoadInvariant == Spec => []LoadInv
<1>1. LoadInv /\ [Next]_vars => LoadInv'
  BY TypeStep, WorkStep, ListStep, ProcStep, LeakStep DEF LoadInv
<1> QED
  BY LoadInit, <1>1, PTL DEF Spec

(* The error labels of a2818_init_board() and ReleaseBoards() leave no card  *)
(* with a part of what was taken for it.                                     *)
THEOREM NothingLeaksTheorem == Spec => []NothingLeaks
<1>1. LoadInv => NothingLeaks
  BY DEF LoadInv
<1> QED
  BY LoadInvariant, <1>1, PTL

(* a2818_interrupt() finds everything it uses of its card as long as the     *)
(* card's line is requested, but for il_buf while that is the next to be     *)
(* allocated, and from its failing to the release of the line.               *)
THEOREM HandlerHasWhatItUsesTheorem == Spec => []HandlerHasWhatItUses
<1>1. LoadInv => HandlerHasWhatItUses
  <2> DEFINE Exempt(b) ==
        /\ b = index /\ <<pc, at>> \in {<<"init", "il_buf">>, <<"unwind", "il_buf">>,
                                        <<"unwind", "irq">>}
        /\ Resources \ {"il_buf"} \subseteq held[b]
  <2> SUFFICES ASSUME LoadInv, NEW b \in Boards, "irq" \in held[b]
               PROVE  Resources \subseteq held[b] \/ Exempt(b)
    BY DEF HandlerHasWhatItUses
  <2> USE DEF LoadInv, TypeOK
  <2>1. CASE b \notin InWork
    BY <2>1 DEF NothingLeaks
  <2>2. CASE pc = "init" /\ b = index
    <3>1. at \in Resources \cup {"done"} /\ held[b] = Taken(at)
      BY <2>2 DEF WorkOK
    <3>2. at \in {"il_buf", "done"}
      BY <3>1 DEF Taken, Resources
    <3> QED
      BY <2>2, <3>1, <3>2 DEF Taken
  <2>3. CASE pc = "unwind" /\ b = index
    <3>1. /\ at \in Resources \cup {"done"}
          /\ held[b] \ {at} = IF at = "done" THEN {} ELSE Taken(at)
      BY <2>3 DEF WorkOK
    <3>2. at \in {"irq", "il_buf"}
      BY <3>1 DEF Taken, Resources
    <3>3. Resources \ {"il_buf"} \subseteq held[b]
      BY <3>1, <3>2 DEF Taken, Resources
    <3> QED
      BY <2>3, <3>2, <3>3
  <2>4. CASE pc = "releasing" /\ b = released
    BY <2>4 DEF WorkOK, ToRelease, Resources
  <2> QED
    BY <2>1, <2>2, <2>3, <2>4 DEF InWork
<1> QED
  BY LoadInvariant, <1>1, PTL

(* open() finds exactly the cards that were set up after the last one that   *)
(* could not be.                                                             *)
THEOREM ListedSinceFailureTheorem == Spec => []ListedSinceFailure
<1>1. LoadInv => ListedSinceFailure
  BY DEF LoadInv, ListOK, ListIs, Down, ListedSinceFailure
<1> QED
  BY LoadInvariant, <1>1, PTL

=============================================================================
