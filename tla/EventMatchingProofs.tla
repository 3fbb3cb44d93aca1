-------------------------- MODULE EventMatchingProofs --------------------------
(* Proofs about EventMatching for any number of triggers and runs, any        *)
(* clocks, rollover, queue capacity and file size.                            *)
EXTENDS EventMatching, SequenceTheorems, WellFoundedInduction, TLAPS

-----------------------------------------------------------------------------
(* Sequences without repetition.                                             *)

Distinct(s) == \A m, n \in 1..Len(s) : s[m] = s[n] => m = n

LEMMA ElementsOfSeq ==
  ASSUME NEW S, NEW s \in Seq(S)
  PROVE  /\ ToSet(s) \subseteq S
         /\ \A x : x \in ToSet(s) <=> \E n \in 1..Len(s) : s[n] = x
<1>1. DOMAIN s = 1..Len(s) /\ \A n \in 1..Len(s) : s[n] \in S
  BY LenProperties, ElementOfSeq
<1> QED
  BY <1>1 DEF ToSet

LEMMA ElementsOfEmpty == ToSet(<<>>) = {} /\ Distinct(<<>>)
BY EmptySeq DEF ToSet, Distinct

LEMMA AppendElements ==
  ASSUME NEW S, NEW s \in Seq(S), NEW x \in S
  PROVE  /\ Append(s, x) \in Seq(S)
         /\ ToSet(Append(s, x)) = ToSet(s) \cup {x}
         /\ Distinct(s) /\ x \notin ToSet(s) => Distinct(Append(s, x))
<1> DEFINE t == Append(s, x)
<1>1. /\ t \in Seq(S) /\ Len(s) \in Nat /\ Len(t) = Len(s) + 1
      /\ \A n \in 1..Len(s) : t[n] = s[n]
      /\ t[Len(s) + 1] = x
  BY AppendProperties, LenProperties
<1> HIDE DEF t
<1>2. \A y : y \in ToSet(t) <=> y \in ToSet(s) \/ y = x
  <2>1. \A y : y \in ToSet(t) <=> \E n \in 1..Len(s) + 1 : t[n] = y
    BY <1>1, ElementsOfSeq
  <2>2. \A y : y \in ToSet(s) <=> \E n \in 1..Len(s) : s[n] = y
    BY ElementsOfSeq
  <2> QED
    BY <1>1, <2>1, <2>2
<1>3. ASSUME Distinct(s), x \notin ToSet(s)
      PROVE  Distinct(t)
  <2>1. \A n \in 1..Len(s) : s[n] # x
    BY <1>3, ElementsOfSeq
  <2> QED
    BY <1>1, <1>3, <2>1 DEF Distinct
<1> QED
  BY <1>1, <1>2, <1>3 DEF t

LEMMA TailElements ==
  ASSUME NEW S, NEW s \in Seq(S), s # <<>>
  PROVE  /\ Head(s) \in S /\ Tail(s) \in Seq(S)
         /\ ToSet(s) = ToSet(Tail(s)) \cup {Head(s)}
         /\ Distinct(s) => Distinct(Tail(s)) /\ Head(s) \notin ToSet(Tail(s))
<1> DEFINE t == Tail(s)
<1>1. /\ t \in Seq(S) /\ Head(s) \in S /\ Len(s) \in Nat \ {0} /\ Len(t) = Len(s) - 1
      /\ \A n \in 1..Len(s) - 1 : t[n] = s[n + 1]
  BY HeadTailProperties, EmptySeq
<1>2. Head(s) = s[1]
  BY <1>1, HeadTailProperties
<1> HIDE DEF t
<1>3. \A y : y \in ToSet(t) <=> \E n \in 1..Len(s) - 1 : s[n + 1] = y
  BY <1>1, ElementsOfSeq
<1>4. \A y : y \in ToSet(s) <=> y \in ToSet(t) \/ y = s[1]
  <2>1. \A y : y \in ToSet(s) <=> \E n \in 1..Len(s) : s[n] = y
    BY ElementsOfSeq
  <2>2. ASSUME NEW n \in 1..Len(s)
        PROVE  n = 1 \/ (n - 1 \in 1..Len(s) - 1 /\ (n - 1) + 1 = n)
    BY <1>1
  <2>3. ASSUME NEW n \in 1..Len(s) - 1
        PROVE  n + 1 \in 1..Len(s)
    BY <1>1
  <2>4. ASSUME NEW y, y \in ToSet(s)
        PROVE  y \in ToSet(t) \/ y = s[1]
    <3>1. PICK n \in 1..Len(s) : s[n] = y
      BY <2>1, <2>4
    <3>2. CASE n = 1
      BY <3>1, <3>2
    <3>3. CASE n # 1
      <4>1. n - 1 \in 1..Len(s) - 1 /\ s[(n - 1) + 1] = y
        BY <2>2, <3>1, <3>3
      <4> QED
        BY <1>3, <4>1
    <3> QED
      BY <3>2, <3>3
  <2>5. 1 \in 1..Len(s)
    BY <1>1
  <2>6. ASSUME NEW y, y \in ToSet(t) \/ y = s[1]
        PROVE  y \in ToSet(s)
    BY <1>3, <2>1, <2>3, <2>5, <2>6
  <2> QED
    BY <2>4, <2>6
<1>5. ASSUME Distinct(s)
      PROVE  Distinct(t) /\ s[1] \notin ToSet(t)
  BY <1>1, <1>3, <1>5 DEF Distinct
<1> QED
  BY <1>1, <1>2, <1>4, <1>5 DEF t

(* The parts of a sequence before and after a place. *)
LEMMA SplitElements ==
  ASSUME NEW S, NEW s \in Seq(S), NEW n \in 0..Len(s)
  PROVE  LET p == SubSeq(s, 1, n)
             q == SubSeq(s, n + 1, Len(s))
         IN  /\ p \in Seq(S) /\ q \in Seq(S)
             /\ ToSet(s) = ToSet(p) \cup ToSet(q)
             /\ Distinct(s) => Distinct(p) /\ Distinct(q) /\ ToSet(p) \cap ToSet(q) = {}
<1> DEFINE p == SubSeq(s, 1, n)
           q == SubSeq(s, n + 1, Len(s))
<1>1. Len(s) \in Nat /\ \A m \in 1..Len(s) : s[m] \in S
  BY LenProperties, ElementOfSeq
<1>2. p \in Seq(S) /\ Len(p) = n /\ \A m \in 1..n : p[m] = s[m]
  <2>1. \A m \in 1..n : s[m] \in S
    BY <1>1
  <2>2. /\ p \in Seq(S) /\ Len(p) = IF 1 <= n THEN n - 1 + 1 ELSE 0
        /\ \A m \in 1..n - 1 + 1 : p[m] = s[1 + m - 1]
    BY ONLY <1>1, <2>1, n \in 0..Len(s), SubSeqProperties
  <2> QED
    BY ONLY <1>1, <2>2, n \in 0..Len(s)
<1>3. /\ q \in Seq(S) /\ Len(q) = Len(s) - n
      /\ \A m \in 1..Len(s) - n : q[m] = s[n + m]
  <2>1. \A m \in n + 1..Len(s) : s[m] \in S
    BY <1>1
  <2>2. /\ q \in Seq(S) /\ Len(q) = IF n + 1 <= Len(s) THEN Len(s) - (n + 1) + 1 ELSE 0
        /\ \A m \in 1..Len(s) - (n + 1) + 1 : q[m] = s[n + 1 + m - 1]
    BY ONLY <1>1, <2>1, n \in 0..Len(s), SubSeqProperties
  <2> QED
    BY ONLY <1>1, <2>2, n \in 0..Len(s)
<1> HIDE DEF p, q
<1>4. \A x : x \in ToSet(p) <=> \E m \in 1..n : s[m] = x
  BY <1>2, ElementsOfSeq
<1>5. \A x : x \in ToSet(q) <=> \E m \in 1..Len(s) - n : s[n + m] = x
  <2>1. \A x : x \in ToSet(q) <=> \E m \in 1..Len(q) : q[m] = x
    BY <1>3, ElementsOfSeq
  <2>2. 1..Len(q) = 1..Len(s) - n
    BY <1>3
  <2> QED
    BY ONLY <1>3, <2>1, <2>2
<1>6. \A x : x \in ToSet(s) <=> \E m \in 1..Len(s) : s[m] = x
  BY ElementsOfSeq
<1>7. ToSet(s) = ToSet(p) \cup ToSet(q)
  <2>1. ASSUME NEW m \in 1..Len(s)
        PROVE  m \in 1..n \/ (m - n \in 1..Len(s) - n /\ n + (m - n) = m)
    BY <1>1
  <2>2. ASSUME NEW m \in 1..Len(s) - n PROVE n + m \in 1..Len(s)
    BY <1>1
  <2>3. ASSUME NEW m \in 1..n PROVE m \in 1..Len(s)
    BY <1>1
  <2> QED
    BY <1>4, <1>5, <1>6, <2>1, <2>2, <2>3
<1>8. ASSUME Distinct(s)
      PROVE  Distinct(p) /\ Distinct(q) /\ ToSet(p) \cap ToSet(q) = {}
  <2>1. Distinct(p)
    BY <1>1, <1>2, <1>8 DEF Distinct
  <2>2. Distinct(q)
    BY <1>1, <1>3, <1>8 DEF Distinct
  <2>3. ASSUME NEW m \in 1..n, NEW l \in 1..Len(s) - n
        PROVE  s[m] # s[n + l]
    BY <1>1, <1>8 DEF Distinct
  <2> QED
    BY <1>4, <1>5, <2>1, <2>2, <2>3
<1> QED
  BY <1>2, <1>3, <1>7, <1>8 DEF p, q

LEMMA ConcatElements ==
  ASSUME NEW S, NEW s \in Seq(S), NEW t \in Seq(S)
  PROVE  /\ s \o t \in Seq(S)
         /\ ToSet(s \o t) = ToSet(s) \cup ToSet(t)
         /\ Distinct(s) /\ Distinct(t) /\ ToSet(s) \cap ToSet(t) = {} => Distinct(s \o t)
<1> DEFINE u == s \o t
<1>1. /\ u \in Seq(S) /\ Len(s) \in Nat /\ Len(t) \in Nat /\ Len(u) = Len(s) + Len(t)
      /\ \A n \in 1..Len(s) + Len(t) : u[n] = IF n <= Len(s) THEN s[n] ELSE t[n - Len(s)]
  BY ConcatProperties, LenProperties
<1> HIDE DEF u
<1>2. \A x : x \in ToSet(u) <=> \E n \in 1..Len(s) + Len(t) : u[n] = x
  BY <1>1, ElementsOfSeq
<1>3. \A x : x \in ToSet(s) <=> \E n \in 1..Len(s) : s[n] = x
  BY ElementsOfSeq
<1>4. \A x : x \in ToSet(t) <=> \E n \in 1..Len(t) : t[n] = x
  BY ElementsOfSeq
<1>5. ToSet(u) = ToSet(s) \cup ToSet(t)
  <2>1. ASSUME NEW n \in 1..Len(s) PROVE n \in 1..Len(s) + Len(t) /\ u[n] = s[n]
    BY <1>1
  <2>2. ASSUME NEW n \in 1..Len(t)
        PROVE  Len(s) + n \in 1..Len(s) + Len(t) /\ u[Len(s) + n] = t[n]
    <3>1. /\ Len(s) + n \in 1..Len(s) + Len(t)
          /\ ~(Len(s) + n <= Len(s)) /\ (Len(s) + n) - Len(s) = n
      BY <1>1
    <3>2. u[Len(s) + n] = IF Len(s) + n <= Len(s) THEN s[Len(s) + n]
                                                ELSE t[(Len(s) + n) - Len(s)]
      BY ONLY <1>1, <3>1
    <3> QED
      BY ONLY <3>1, <3>2
  <2>3. ASSUME NEW n \in 1..Len(s) + Len(t)
        PROVE  \/ n \in 1..Len(s) /\ u[n] = s[n]
               \/ n - Len(s) \in 1..Len(t) /\ u[n] = t[n - Len(s)]
    BY <1>1
  <2> QED
    BY <1>2, <1>3, <1>4, <2>1, <2>2, <2>3
<1>6. ASSUME Distinct(s), Distinct(t), ToSet(s) \cap ToSet(t) = {}
      PROVE  Distinct(u)
  <2> SUFFICES ASSUME NEW m \in 1..Len(s) + Len(t), NEW n \in 1..Len(s) + Len(t),
                      u[m] = u[n], m < n
               PROVE  FALSE
    BY <1>1 DEF Distinct
  <2>1. CASE n <= Len(s)
    BY <1>1, <1>6, <2>1 DEF Distinct
  <2>2. CASE Len(s) < m
    <3>1. /\ m - Len(s) \in 1..Len(t) /\ n - Len(s) \in 1..Len(t)
          /\ t[m - Len(s)] = t[n - Len(s)] /\ m - Len(s) # n - Len(s)
      BY <1>1, <2>2
    <3> QED
      BY <1>6, <3>1 DEF Distinct
  <2>3. CASE m <= Len(s) /\ Len(s) < n
    <3>1. /\ m \in 1..Len(s) /\ n - Len(s) \in 1..Len(t)
          /\ s[m] = t[n - Len(s)]
      BY <1>1, <2>3
    <3> QED
      BY <1>3, <1>4, <1>6, <3>1
  <2> QED
    BY <1>1, <2>1, <2>2, <2>3
<1> QED
  BY <1>1, <1>5, <1>6 DEF u

LEMMA RemoveElement ==
  ASSUME NEW S, NEW s \in Seq(S), NEW n \in 1..Len(s)
  PROVE  /\ RemoveAt(s, n) \in Seq(S)
         /\ ToSet(s) = ToSet(RemoveAt(s, n)) \cup {s[n]}
         /\ Distinct(s) => Distinct(RemoveAt(s, n)) /\ s[n] \notin ToSet(RemoveAt(s, n))
<1> DEFINE p == SubSeq(s, 1, n - 1)
           q == SubSeq(s, n, Len(s))
<1>1. Len(s) \in Nat /\ n - 1 \in 0..Len(s) /\ (n - 1) + 1 = n
  BY LenProperties
<1>2. /\ p \in Seq(S) /\ q \in Seq(S)
      /\ ToSet(s) = ToSet(p) \cup ToSet(q)
      /\ Distinct(s) => Distinct(p) /\ Distinct(q) /\ ToSet(p) \cap ToSet(q) = {}
  BY <1>1, SplitElements
<1>3. q # <<>> /\ Head(q) = s[n] /\ Tail(q) = SubSeq(s, n + 1, Len(s))
  <2>1. n \in 1..Len(s) /\ Len(s) \in n..Len(s)
    BY <1>1
  <2>2. Head(q) = s[n] /\ Tail(q) = SubSeq(s, n + 1, Len(s))
    BY <2>1, HeadTailOfSubSeq
  <2>3. \A m \in n..Len(s) : s[m] \in S
    BY <1>1, ElementOfSeq
  <2>4. Len(q) = IF n <= Len(s) THEN Len(s) - n + 1 ELSE 0
    BY ONLY <1>1, <2>1, <2>3, SubSeqProperties
  <2>5. Len(q) # 0
    BY <1>1, <2>1, <2>4
  <2> QED
    BY <2>2, <2>5, EmptySeq
<1>4. RemoveAt(s, n) = p \o Tail(q)
  BY <1>3 DEF RemoveAt
<1> HIDE DEF p, q
<1>5. /\ Tail(q) \in Seq(S) /\ ToSet(q) = ToSet(Tail(q)) \cup {s[n]}
      /\ Distinct(q) => Distinct(Tail(q)) /\ s[n] \notin ToSet(Tail(q))
  BY <1>2, <1>3, TailElements
<1>6. /\ p \o Tail(q) \in Seq(S)
      /\ ToSet(p \o Tail(q)) = ToSet(p) \cup ToSet(Tail(q))
      /\ Distinct(p) /\ Distinct(Tail(q)) /\ ToSet(p) \cap ToSet(Tail(q)) = {}
           => Distinct(p \o Tail(q))
  BY <1>2, <1>5, ConcatElements
<1> QED
  BY <1>2, <1>4, <1>5, <1>6

LEMMA RemoveAtOne ==
  ASSUME NEW S, NEW s \in Seq(S), s # <<>>
  PROVE  RemoveAt(s, 1) = Tail(s)
<1>1. Len(s) \in Nat /\ 1 - 1 = 0 /\ 1 + 1 = 2
  BY LenProperties
<1>2. SubSeq(s, 1, 0) = <<>>
  BY SubSeqEmpty
<1>3. Tail(s) = SubSeq(s, 2, Len(s)) /\ Tail(s) \in Seq(S)
  BY TailIsSubSeq, HeadTailProperties
<1>4. <<>> \o Tail(s) = Tail(s)
  BY <1>3, ConcatEmptySeq
<1>5. RemoveAt(s, 1) = SubSeq(s, 1, 0) \o SubSeq(s, 2, Len(s))
  BY <1>1 DEF RemoveAt
<1> QED
  BY <1>2, <1>3, <1>4, <1>5

(* A set of natural numbers has a least one. *)
LEMMA LeastOfSet ==
  ASSUME NEW T, T \subseteq Nat, T # {}
  PROVE  Min(T) \in T
<1> DEFINE R == {ss \in Nat \X Nat : ss[1] < ss[2]}
<1>1. IsWellFoundedOn(R, Nat)
  BY NatLessThanWellFounded DEF OpToRel
<1>2. PICK x \in T : \A y \in T : ~(<<y, x>> \in R)
  BY <1>1, WFMin
<1>3. ASSUME NEW y \in T PROVE x <= y
  <2>1. x \in Nat /\ y \in Nat /\ <<y, x>> \notin R
    BY <1>2
  <2>2. <<y, x>> \in Nat \X Nat /\ <<y, x>>[1] = y /\ <<y, x>>[2] = x
    BY <2>1
  <2>3. ~(y < x)
    BY <2>1, <2>2
  <2> QED
    BY <2>1, <2>3
<1> QED
  BY <1>3 DEF Min

-----------------------------------------------------------------------------
(* Types.                                                                    *)

LEMMA BoardsAreTwo ==
  /\ 0 \in Boards /\ 1 \in Boards
  /\ \A b \in Boards : /\ b \in Int /\ (b = 0 \/ b = 1)
                       /\ Other(b) \in Boards /\ Other(b) # b
                       /\ \A c \in Boards : c = b \/ c = Other(b)
BY DEF Boards, Other

LEMMA NextBoardType ==
  ASSUME TypeOK, NEW here, NEW then, NextBoard(here, then)
  PROVE  i' \in Boards /\ at' \in {here, then}
BY BoardsAreTwo DEF NextBoard, TypeOK, Boards

LEMMA FirstMatchType ==
  ASSUME TypeOK, FirstMatch # 0
  PROVE  FirstMatch \in 1..Len(BoardEvents[Other(i)])
<1> DEFINE found == {n \in 1..Len(BoardEvents[Other(i)]) :
                       Matches(i, FrontEvent, BoardEvents[Other(i)][n])}
<1>1. found # {} /\ FirstMatch = Min(found)
  BY DEF FirstMatch
<1>2. found \subseteq 1..Len(BoardEvents[Other(i)]) /\ found \subseteq Nat
  OBVIOUS
<1> HIDE DEF found
<1> QED
  BY <1>1, <1>2, LeastOfSet

(* What the steps of the matching take from BoardEvents. *)
LEMMA FrontEventType ==
  ASSUME TypeOK, BoardEvents[i] # <<>>
  PROVE  /\ FrontEvent \in Triggers /\ Tail(BoardEvents[i]) \in Seq(Triggers)
         /\ ToSet(BoardEvents[i]) = ToSet(Tail(BoardEvents[i])) \cup {FrontEvent}
         /\ Distinct(BoardEvents[i]) =>
              Distinct(Tail(BoardEvents[i])) /\ FrontEvent \notin ToSet(Tail(BoardEvents[i]))
<1>1. BoardEvents[i] \in Seq(Triggers)
  BY DEF TypeOK
<1> QED
  BY <1>1, TailElements DEF FrontEvent

LEMMA PartnerType ==
  ASSUME TypeOK, FirstMatch # 0
  PROVE  LET s == BoardEvents[Other(i)]
             k == s[FirstMatch]
             t == RemoveAt(s, FirstMatch)
         IN  /\ k \in Triggers /\ t \in Seq(Triggers)
             /\ ToSet(s) = ToSet(t) \cup {k}
             /\ Distinct(s) => Distinct(t) /\ k \notin ToSet(t)
<1>1. BoardEvents[Other(i)] \in Seq(Triggers)
  BY BoardsAreTwo DEF TypeOK
<1>2. FirstMatch \in 1..Len(BoardEvents[Other(i)])
  BY FirstMatchType
<1>3. BoardEvents[Other(i)][FirstMatch] \in Triggers
  BY <1>1, <1>2, ElementOfSeq
<1> QED
  BY <1>1, <1>2, <1>3, RemoveElement

LEMMA LastTimeType == TypeOK => LastTime \in Nat
<1> SUFFICES ASSUME TypeOK, triggers # <<>> PROVE Last(triggers).time \in Nat
  BY DEF LastTime
<1> DEFINE Trigs == [run : 1..MaxRuns, time : Nat]
<1>1. triggers \in Seq(Trigs)
  BY DEF TypeOK
<1> HIDE DEF Trigs
<1>2. Len(triggers) \in Nat \ {0}
  BY <1>1, EmptySeq
<1>3. Len(triggers) \in 1..Len(triggers)
  BY <1>2
<1>4. triggers[Len(triggers)] \in Trigs
  BY <1>1, <1>3, ElementOfSeq
<1> QED
  BY <1>4 DEF Last, Trigs

LEMMA NoEventType == NoEvent \in GlobalEvents /\ \A b \in Boards : NoEvent[b] = 0
BY EventMatchingAssumption DEF NoEvent, GlobalEvents

LEMMA EmptyType ==
  /\ Empty \in [Boards -> Seq(Triggers)]
  /\ \A b \in Boards : Empty[b] = <<>> /\ ToSet(Empty[b]) = {} /\ Distinct(Empty[b])
BY EmptySeq, ElementsOfEmpty DEF Empty

(* An unchanged file is one of unchanged components. *)
USE DEF file

(* A file that was just begun holds what was found in it. *)
LEMMA FileBegun ==
  ASSUME NEW filled \in Nat, FinishAndStartFile(filled)
  PROVE  entries' \in Nat /\ begunWith' \in Nat /\ entries' = begunWith'
BY DEF FinishAndStartFile

LEMMA TypeInit == Init => TypeOK
<1> SUFFICES ASSUME Init PROVE TypeOK
  OBVIOUS
<1>1. <<>> \in Seq([run : 1..MaxRuns, time : Nat]) /\ Len(<<>>) = 0
  BY EmptySeq
<1>2. \A b \in Boards : Len(queue[b]) <= QueueCapacity
  BY <1>1, EventMatchingAssumption, EmptyType DEF Init
<1> QED
  BY <1>1, <1>2, EmptyType, NoEventType, BoardsAreTwo, EventMatchingAssumption
  DEF Init, TypeOK

-----------------------------------------------------------------------------

LEMMA TriggerType == TypeOK /\ Trigger => TypeOK'
<1> SUFFICES ASSUME TypeOK, Trigger PROVE TypeOK'
  OBVIOUS
<1> DEFINE Trigs == [run : 1..MaxRuns, time : Nat]
<1>1. PICK gap \in Gaps : triggers' = Append(triggers, [run |-> run, time |-> LastTime + gap])
  BY DEF Trigger
<1>2. [run |-> run, time |-> LastTime + gap] \in Trigs
  BY LastTimeType, EventMatchingAssumption DEF TypeOK
<1>3. triggers \in Seq(Trigs) /\ Len(triggers) \in Nat /\ Len(triggers) < MaxTriggers
  BY LenProperties DEF TypeOK, Trigger
<1> HIDE DEF Trigs
<1>4. triggers' \in Seq(Trigs) /\ Len(triggers') = Len(triggers) + 1
  BY <1>1, <1>2, <1>3, AppendProperties
<1>5. Len(triggers') \in Triggers /\ Len(triggers') <= MaxTriggers
  BY <1>3, <1>4, EventMatchingAssumption DEF Triggers
<1>6. board' \in [Boards -> Seq(Triggers)]
  <2>1. PICK seen \in SUBSET {b \in Boards : Len(board[b]) < BoardMemory} :
          board' = [b \in Boards |-> IF b \in seen THEN Append(board[b], Len(triggers'))
                                     ELSE board[b]]
    BY DEF Trigger
  <2>2. \A b \in Boards : board[b] \in Seq(Triggers)
    BY DEF TypeOK
  <2>3. \A b \in Boards : Append(board[b], Len(triggers')) \in Seq(Triggers)
    BY <1>5, <2>2, AppendElements
  <2> QED
    BY <2>1, <2>2, <2>3
<1>7. UNCHANGED <<run, cfg, queue, old, BoardEvents, at, i, CurrentEvent, entries, begunWith,
                  handled, lost>>
  BY DEF Trigger, writer, outcome
<1> QED
  BY <1>4, <1>5, <1>6, <1>7 DEF TypeOK, Trigs

LEMMA EnvironmentType ==
  ASSUME TypeOK, Tick \/ NewRun
  PROVE  TypeOK'
<1>1. CASE Tick
  BY <1>1 DEF Tick, acquisition, writer, outcome, TypeOK
<1>2. CASE NewRun
  <2>1. \A b \in Boards : Of(b, board[b]) \subseteq Boards \X Triggers
    <3> TAKE b \in Boards
    <3>1. board[b] \in Seq(Triggers)
      BY DEF TypeOK
    <3> QED
      BY <3>1, ElementsOfSeq DEF Of
  <2>2. lost' \subseteq Boards \X Triggers
    BY <1>2, <2>1 DEF NewRun, Lose, TypeOK
  <2>3. run' \in 1..MaxRuns
    BY <1>2, EventMatchingAssumption DEF NewRun, TypeOK
  <2>4. entries' \in Nat /\ begunWith' \in Nat /\ entries' = begunWith'
    BY <1>2, FileBegun DEF NewRun, TypeOK
  <2> QED
    BY <1>2, <2>2, <2>3, <2>4, EmptyType DEF NewRun, TypeOK
<1> QED
  BY <1>1, <1>2

LEMMA ReaderType ==
  ASSUME TypeOK, NEW b \in Boards, ReaderPush(b) \/ ReaderDrops(b)
  PROVE  TypeOK'
<1>1. board[b] \in Seq(Triggers) /\ queue[b] \in Seq(Triggers)
  BY DEF TypeOK
<1>2. CASE ReaderPush(b)
  <2>1. board[b] # <<>> /\ Len(queue[b]) < QueueCapacity
    BY <1>2 DEF ReaderPush
  <2>2. Head(board[b]) \in Triggers /\ Tail(board[b]) \in Seq(Triggers)
    BY <1>1, <2>1, TailElements
  <2>3. /\ Append(queue[b], Head(board[b])) \in Seq(Triggers)
        /\ Len(Append(queue[b], Head(board[b]))) = Len(queue[b]) + 1
    BY <1>1, <2>2, AppendProperties
  <2>4. Len(queue[b]) + 1 <= QueueCapacity
    BY <1>1, <2>1, LenProperties, EventMatchingAssumption
  <2>5. queue' \in [Boards -> Seq(Triggers)] /\ board' \in [Boards -> Seq(Triggers)]
    BY <1>2, <2>2, <2>3 DEF ReaderPush, TypeOK
  <2>6. \A c \in Boards : Len(queue'[c]) <= QueueCapacity
    BY <1>2, <2>3, <2>4 DEF ReaderPush, TypeOK
  <2> QED
    BY <1>2, <2>5, <2>6 DEF ReaderPush, TypeOK, writer, outcome
<1>3. CASE ReaderDrops(b)
  <2>1. PICK n \in 1..Len(board[b]) :
          /\ Lose(Of(b, SubSeq(board[b], 1, n)))
          /\ board' = [board EXCEPT ![b] = SubSeq(@, n + 1, Len(@))]
    BY <1>3 DEF ReaderDrops
  <2>2. n \in 0..Len(board[b])
    BY <1>1, LenProperties
  <2>3. SubSeq(board[b], 1, n) \in Seq(Triggers)
        /\ SubSeq(board[b], n + 1, Len(board[b])) \in Seq(Triggers)
    BY ONLY <1>1, <2>2, SplitElements
  <2>4. Of(b, SubSeq(board[b], 1, n)) \subseteq Boards \X Triggers
    <3>1. ToSet(SubSeq(board[b], 1, n)) \subseteq Triggers
      BY <2>3, ElementsOfSeq
    <3> QED
      BY <3>1 DEF Of
  <2>5. lost' \subseteq Boards \X Triggers /\ board' \in [Boards -> Seq(Triggers)]
    BY <2>1, <2>3, <2>4 DEF Lose, TypeOK
  <2> QED
    BY <1>3, <2>5 DEF ReaderDrops, TypeOK, writer
<1> QED
  BY <1>2, <1>3

LEMMA PullType ==
  ASSUME TypeOK, StartFlush \/ Pull \/ PullDone \/ BoardDone
  PROVE  TypeOK'
<1>1. CASE StartFlush
  BY <1>1, EmptyType DEF StartFlush, TypeOK, acquisition, outcome
<1>2. CASE Pull
  <2>1. /\ i \in Boards /\ queue[i] \in Seq(Triggers) /\ queue[i] # <<>>
        /\ BoardEvents[i] \in Seq(Triggers)
    BY <1>2 DEF Pull, TypeOK
  <2>2. /\ Head(queue[i]) \in Triggers /\ Tail(queue[i]) \in Seq(Triggers)
        /\ Len(Tail(queue[i])) = Len(queue[i]) - 1
    BY <2>1, HeadTailProperties
  <2>3. Append(BoardEvents[i], Head(queue[i])) \in Seq(Triggers)
    BY <2>1, <2>2, AppendElements
  <2>4. Len(Tail(queue[i])) <= QueueCapacity
    BY <2>1, <2>2, LenProperties, EventMatchingAssumption DEF TypeOK
  <2>5. queue' \in [Boards -> Seq(Triggers)] /\ BoardEvents' \in [Boards -> Seq(Triggers)]
    BY <1>2, <2>2, <2>3 DEF Pull, TypeOK
  <2>6. \A c \in Boards : Len(queue'[c]) <= QueueCapacity
    BY <1>2, <2>4 DEF Pull, TypeOK
  <2> QED
    BY <1>2, <2>5, <2>6 DEF Pull, TypeOK, acquisition, outcome
<1>3. CASE PullDone
  <2>1. i' \in Boards /\ at' \in {"pull", "match"}
    BY <1>3, NextBoardType DEF PullDone
  <2> QED
    BY <1>3, <2>1 DEF PullDone, TypeOK, acquisition, outcome
<1>4. CASE BoardDone
  <2>1. i' \in Boards /\ at' \in {"match", "idle"}
    BY <1>4, NextBoardType DEF BoardDone
  <2> QED
    BY <1>4, <2>1 DEF BoardDone, TypeOK, acquisition, outcome
<1> QED
  BY <1>1, <1>2, <1>3, <1>4

LEMMA MatchType ==
  ASSUME TypeOK, Match
  PROVE  /\ TypeOK'
         /\ BoardEvents'[i] = Tail(BoardEvents[i])
         /\ BoardEvents'[Other(i)] = RemoveAt(BoardEvents[Other(i)], FirstMatch)
         /\ CurrentEvent'[i] = FrontEvent
         /\ CurrentEvent'[Other(i)] = BoardEvents[Other(i)][FirstMatch]
<1>1. i \in Boards /\ Other(i) \in Boards /\ Other(i) # i
      /\ \A b \in Boards : b = i \/ b = Other(i)
  BY BoardsAreTwo DEF TypeOK
<1>2. BoardEvents[i] # <<>> /\ FirstMatch # 0
  BY DEF Match, Matching
<1>3. BoardEvents[i] \in Seq(Triggers)
  BY <1>1 DEF TypeOK
<1>4. RemoveAt(BoardEvents[i], 1) = Tail(BoardEvents[i])
  BY <1>2, <1>3, RemoveAtOne
<1>5. FrontEvent \in Triggers /\ Tail(BoardEvents[i]) \in Seq(Triggers)
  BY <1>2, FrontEventType
<1>6. /\ BoardEvents[Other(i)][FirstMatch] \in Triggers
      /\ RemoveAt(BoardEvents[Other(i)], FirstMatch) \in Seq(Triggers)
  BY <1>2, PartnerType
<1>7. /\ BoardEvents'[i] = Tail(BoardEvents[i])
      /\ BoardEvents'[Other(i)] = RemoveAt(BoardEvents[Other(i)], FirstMatch)
      /\ BoardEvents' \in [Boards -> Seq(Triggers)]
  <2>1. BoardEvents' = [b \in Boards |-> RemoveAt(BoardEvents[b], IF b = i THEN 1 ELSE FirstMatch)]
    BY DEF Match
  <2>2. /\ BoardEvents'[i] = RemoveAt(BoardEvents[i], 1)
        /\ BoardEvents'[Other(i)] = RemoveAt(BoardEvents[Other(i)], FirstMatch)
    BY <1>1, <2>1
  <2>3. BoardEvents'[i] \in Seq(Triggers) /\ BoardEvents'[Other(i)] \in Seq(Triggers)
    BY <1>4, <1>5, <1>6, <2>2
  <2>4. BoardEvents' = [b \in Boards |-> BoardEvents'[b]]
    BY <2>1
  <2> QED
    BY <1>1, <1>4, <2>2, <2>3, <2>4
<1>8. /\ CurrentEvent'[i] = FrontEvent
      /\ CurrentEvent'[Other(i)] = BoardEvents[Other(i)][FirstMatch]
      /\ CurrentEvent' \in GlobalEvents
  <2>1. CurrentEvent' = [b \in Boards |-> IF b = i THEN FrontEvent ELSE BoardEvents[b][FirstMatch]]
    BY DEF Match
  <2>2. /\ CurrentEvent'[i] = FrontEvent
        /\ CurrentEvent'[Other(i)] = BoardEvents[Other(i)][FirstMatch]
    BY <1>1, <2>1
  <2>3. \A b \in Boards : CurrentEvent'[b] \in 0..MaxTriggers
    BY <1>1, <1>5, <1>6, <2>2 DEF Triggers
  <2> QED
    BY <2>1, <2>2, <2>3 DEF GlobalEvents
<1> QED
  BY <1>7, <1>8 DEF Match, TypeOK, acquisition, outcome

LEMMA PutBackType ==
  ASSUME TypeOK, PutBack
  PROVE  TypeOK'
<1>1. i \in Boards /\ BoardEvents[i] # <<>> /\ queue[i] \in Seq(Triggers)
  BY DEF PutBack, Matching, TypeOK
<1>2. FrontEvent \in Triggers /\ Tail(BoardEvents[i]) \in Seq(Triggers)
  BY <1>1, FrontEventType
<1>3. BoardEvents' \in [Boards -> Seq(Triggers)]
  BY <1>1, <1>2 DEF PutBack, TypeOK
<1>4. CurrentEvent' \in GlobalEvents
  BY NoEventType DEF PutBack
<1>5. /\ queue' \in [Boards -> Seq(Triggers)]
      /\ \A b \in Boards : Len(queue'[b]) <= QueueCapacity
      /\ lost' \subseteq Boards \X Triggers
  <2>1. CASE Len(queue[i]) < QueueCapacity
    <3>1. /\ Append(queue[i], FrontEvent) \in Seq(Triggers)
          /\ Len(Append(queue[i], FrontEvent)) = Len(queue[i]) + 1
      BY <1>1, <1>2, AppendProperties
    <3>2. Len(queue[i]) + 1 <= QueueCapacity
      BY <1>1, <2>1, LenProperties, EventMatchingAssumption
    <3> QED
      BY <2>1, <3>1, <3>2 DEF PutBack, TypeOK
  <2>2. CASE ~(Len(queue[i]) < QueueCapacity)
    BY <1>1, <1>2, <2>2 DEF PutBack, Lose, TypeOK
  <2> QED
    BY <2>1, <2>2
<1> QED
  BY <1>3, <1>4, <1>5 DEF PutBack, TypeOK, acquisition

LEMMA TakeIncompleteType ==
  ASSUME TypeOK, TakeIncomplete
  PROVE  TypeOK'
<1>1. i \in Boards /\ BoardEvents[i] # <<>>
  BY DEF TakeIncomplete, Matching, TypeOK
<1>2. FrontEvent \in Triggers /\ Tail(BoardEvents[i]) \in Seq(Triggers)
  BY <1>1, FrontEventType
<1>3. BoardEvents' \in [Boards -> Seq(Triggers)]
  BY <1>1, <1>2 DEF TakeIncomplete, TypeOK
<1>4. CurrentEvent' \in GlobalEvents
  BY <1>1, <1>2, NoEventType DEF TakeIncomplete, GlobalEvents, Triggers
<1> QED
  BY <1>3, <1>4 DEF TakeIncomplete, TypeOK, acquisition, outcome

LEMMA FilterType ==
  ASSUME TypeOK, Reject \/ Record
  PROVE  TypeOK'
<1>1. handled' \subseteq GlobalEvents /\ CurrentEvent' \in GlobalEvents
  BY NoEventType DEF Reject, Record, TypeOK
<1>2. CASE Reject
  BY <1>1, <1>2 DEF Reject, TypeOK, acquisition
<1>3. CASE Record /\ entries + 1 >= MaxNumberEventsPerFile
  <2>1. Rotate
    BY <1>3 DEF Record
  <2>2. i' \in Boards /\ at' \in {"match", "idle"}
    BY <2>1, NextBoardType DEF Rotate
  <2>3. \A b \in Boards : Of(b, BoardEvents[b]) \subseteq Boards \X Triggers
    <3> TAKE b \in Boards
    <3>1. BoardEvents[b] \in Seq(Triggers)
      BY DEF TypeOK
    <3> QED
      BY <3>1, ElementsOfSeq DEF Of
  <2>4. lost' \subseteq Boards \X Triggers
    BY <2>1, <2>3 DEF Rotate, Lose, TypeOK
  <2>5. /\ entries' \in Nat /\ begunWith' \in Nat /\ entries' = begunWith'
        /\ BoardEvents' \in [Boards -> Seq(Triggers)]
    BY <2>1, EmptyType, FileBegun DEF Rotate, TypeOK
  <2> QED
    BY <1>1, <1>3, <2>2, <2>4, <2>5 DEF Record, TypeOK, acquisition
<1>4. CASE Record /\ ~(entries + 1 >= MaxNumberEventsPerFile)
  <2>1. entries' \in Nat /\ entries' < MaxNumberEventsPerFile
    BY <1>4, EventMatchingAssumption DEF Record, TypeOK
  <2> QED
    BY <1>1, <1>4, <2>1 DEF Record, TypeOK, acquisition
<1> QED
  BY <1>2, <1>3, <1>4

LEMMA TypeStep == TypeOK /\ [Next]_vars => TypeOK'
<1> SUFFICES ASSUME TypeOK, [Next]_vars PROVE TypeOK'
  OBVIOUS
<1>1. CASE Flush
  BY <1>1, PullType, MatchType, PutBackType, TakeIncompleteType, FilterType DEF Flush
<1>2. ASSUME NEW b \in Boards, ReaderPush(b) \/ ReaderDrops(b)
      PROVE  TypeOK'
  BY <1>2, ReaderType
<1>3. CASE UNCHANGED vars
  BY <1>3 DEF vars, acquisition, writer, outcome, TypeOK
<1> QED
  BY <1>1, <1>2, <1>3, TriggerType, EnvironmentType DEF Next

(* Every variable keeps its type, no queue holds more than its pool, and a   *)
(* file with its number of events is one that was just begun with what a     *)
(* failed rename() or a crash left.                                          *)
THEOREM TypeInvariant == Spec => []TypeOK
BY TypeInit, TypeStep, PTL DEF Spec

-----------------------------------------------------------------------------
(* Where the events are.                                                     *)

Held(b) == ToSet(board[b]) \cup ToSet(queue[b]) \cup ToSet(BoardEvents[b])

(* The event of board b and trigger k was recorded, rejected or lost. *)
Done(b, k) == <<b, k>> \in lost \/ \E g \in handled : g[b] = k

HeldOnce ==
  \A b \in Boards :
    /\ Distinct(board[b]) /\ Distinct(queue[b]) /\ Distinct(BoardEvents[b])
    /\ ToSet(board[b]) \cap ToSet(queue[b]) = {}
    /\ ToSet(board[b]) \cap ToSet(BoardEvents[b]) = {}
    /\ ToSet(queue[b]) \cap ToSet(BoardEvents[b]) = {}

(* Where FlushQueuesToDisk() is decides what it has left in its locals.      *)
FlushInv ==
  /\ at # "filter" => CurrentEvent = NoEvent
  /\ at = "idle" => i = 0 /\ \A b \in Boards : BoardEvents[b] = <<>>
  /\ at \in {"match", "filter"} /\ i = 1 => BoardEvents[0] = <<>>

(* An event that waits is in one place and was not handled or lost yet, and  *)
(* no event has the number of a trigger to come.                             *)
PlacesInv ==
  \A b \in Boards :
    /\ \A k \in Held(b) : k <= Len(triggers) /\ CurrentEvent[b] # k /\ ~Done(b, k)
    /\ CurrentEvent[b] <= Len(triggers)
    /\ CurrentEvent[b] # 0 => ~Done(b, CurrentEvent[b])
    /\ \A k \in Triggers : Done(b, k) => k <= Len(triggers)
    /\ \A g, h \in handled : g[b] = h[b] /\ g[b] # 0 => g = h

Covered ==
  \A k \in 1..Len(triggers) : \E b \in Boards :
    k \in Held(b) \/ CurrentEvent[b] = k \/ Done(b, k)

AccountInv == TypeOK /\ HeldOnce /\ FlushInv /\ PlacesInv /\ Covered

LEMMA HeldType ==
  ASSUME TypeOK, NEW b \in Boards
  PROVE  /\ board[b] \in Seq(Triggers) /\ queue[b] \in Seq(Triggers)
         /\ BoardEvents[b] \in Seq(Triggers)
         /\ Held(b) \subseteq Triggers
<1>1. /\ board[b] \in Seq(Triggers) /\ queue[b] \in Seq(Triggers)
      /\ BoardEvents[b] \in Seq(Triggers)
  BY DEF TypeOK
<1>2. /\ ToSet(board[b]) \subseteq Triggers /\ ToSet(queue[b]) \subseteq Triggers
      /\ ToSet(BoardEvents[b]) \subseteq Triggers
  BY <1>1, ElementsOfSeq
<1> QED
  BY <1>1, <1>2 DEF Held

LEMMA AccountGivesProperty == AccountInv => EventsAccounted
<1> SUFFICES ASSUME AccountInv PROVE EventsAccounted
  OBVIOUS
<1>1. ASSUME NEW b \in Boards
      PROVE  LET held == board[b] \o queue[b] \o BoardEvents[b] IN
             /\ held \in Seq(Triggers) /\ ToSet(held) = Held(b) /\ Distinct(held)
  <2> DEFINE bq == board[b] \o queue[b]
  <2>1. /\ board[b] \in Seq(Triggers) /\ queue[b] \in Seq(Triggers)
        /\ BoardEvents[b] \in Seq(Triggers)
    BY HeldType DEF AccountInv
  <2>2. /\ bq \in Seq(Triggers) /\ ToSet(bq) = ToSet(board[b]) \cup ToSet(queue[b])
        /\ Distinct(bq)
    <3>1. /\ Distinct(board[b]) /\ Distinct(queue[b])
          /\ ToSet(board[b]) \cap ToSet(queue[b]) = {}
      BY DEF AccountInv, HeldOnce
    <3> QED
      BY ONLY <2>1, <3>1, ConcatElements
  <2>3. ToSet(bq) \cap ToSet(BoardEvents[b]) = {} /\ Distinct(BoardEvents[b])
    BY <2>2 DEF AccountInv, HeldOnce
  <2> HIDE DEF bq
  <2>4. /\ bq \o BoardEvents[b] \in Seq(Triggers) /\ Distinct(bq \o BoardEvents[b])
        /\ ToSet(bq \o BoardEvents[b]) = ToSet(bq) \cup ToSet(BoardEvents[b])
    BY <2>1, <2>2, <2>3, ConcatElements
  <2> QED
    BY <2>2, <2>4 DEF bq, Held
<1>2. \A k \in 1..Len(triggers) : \E b \in Boards :
        \/ k \in ToSet(board[b] \o queue[b] \o BoardEvents[b]) \cup {CurrentEvent[b]}
        \/ \E g \in handled : g[b] = k
        \/ <<b, k>> \in lost
  BY <1>1 DEF AccountInv, Covered, Done
<1>3. ASSUME NEW b \in Boards
      PROVE  LET held == board[b] \o queue[b] \o BoardEvents[b] IN
             /\ \A m, n \in 1..Len(held) : held[m] = held[n] => m = n
             /\ \A k \in ToSet(held) :
                  /\ CurrentEvent[b] # k /\ <<b, k>> \notin lost
                  /\ \A g \in handled : g[b] # k
             /\ CurrentEvent[b] # 0 =>
                  /\ <<b, CurrentEvent[b]>> \notin lost
                  /\ \A g \in handled : g[b] # CurrentEvent[b]
             /\ \A g, h \in handled : g[b] = h[b] /\ g[b] # 0 => g = h
  BY <1>1 DEF AccountInv, PlacesInv, Done, Distinct
<1> QED
  BY <1>2, <1>3 DEF EventsAccounted

LEMMA AccountInit == Init => AccountInv
<1> SUFFICES ASSUME Init PROVE AccountInv
  OBVIOUS
<1>1. TypeOK
  BY TypeInit
<1>2. \A b \in Boards : /\ board[b] = <<>> /\ queue[b] = <<>> /\ BoardEvents[b] = <<>>
                        /\ CurrentEvent[b] = 0
  BY EmptyType, NoEventType DEF Init
<1>3. \A b \in Boards : Held(b) = {} /\ \A k : ~Done(b, k)
  BY <1>2, ElementsOfEmpty DEF Held, Done, Init
<1>4. Len(triggers) = 0
  BY EmptySeq DEF Init
<1>5. HeldOnce
  BY <1>2, ElementsOfEmpty DEF HeldOnce
<1>6. FlushInv
  BY <1>2 DEF FlushInv, Init
<1>7. PlacesInv
  BY <1>2, <1>3, <1>4 DEF PlacesInv, Init
<1>8. Covered
  BY <1>4 DEF Covered
<1> QED
  BY <1>1, <1>5, <1>6, <1>7, <1>8 DEF AccountInv

(* Events are moved, or some of them, D, lost. *)
LEMMA MoveStep ==
  ASSUME AccountInv, triggers' = triggers, CurrentEvent' = CurrentEvent,
         handled' = handled, NEW D,
         \A b \in Boards : D[b] \subseteq Held(b) /\ Held(b)' = Held(b) \ D[b],
         \A b \in Boards : \A k : <<b, k>> \in lost' <=> <<b, k>> \in lost \/ k \in D[b]
  PROVE  PlacesInv' /\ Covered'
<1>1. \A b \in Boards : \A k : Done(b, k)' <=> Done(b, k) \/ k \in D[b]
  BY DEF Done
<1>2. \A b \in Boards : Held(b) \subseteq Triggers
  BY HeldType DEF AccountInv
<1>3. PlacesInv'
  BY <1>1, <1>2 DEF AccountInv, PlacesInv
<1>4. Covered'
  BY <1>1 DEF AccountInv, Covered
<1> QED
  BY <1>3, <1>4

(* Events T, at most one of a board, are taken in hand. *)
LEMMA TakeStep ==
  ASSUME AccountInv, triggers' = triggers, handled' = handled, lost' = lost,
         CurrentEvent = NoEvent, NEW T,
         \A b \in Boards : /\ T[b] \subseteq Held(b) /\ Held(b)' = Held(b) \ T[b]
                           /\ \/ T[b] = {} /\ CurrentEvent'[b] = 0
                              \/ T[b] = {CurrentEvent'[b]}
  PROVE  PlacesInv' /\ Covered'
<1>1. \A b \in Boards : \A k : Done(b, k)' <=> Done(b, k)
  BY DEF Done
<1>2. \A b \in Boards : Held(b) \subseteq Triggers /\ CurrentEvent[b] = 0
  BY HeldType, NoEventType DEF AccountInv
<1>3. Len(triggers) \in Nat
  BY LenProperties DEF AccountInv, TypeOK
<1>4. PlacesInv'
  <2> SUFFICES ASSUME NEW b \in Boards
               PROVE  /\ \A k \in Held(b)' : k <= Len(triggers) /\ CurrentEvent'[b] # k /\ ~Done(b, k)'
                      /\ CurrentEvent'[b] <= Len(triggers)
                      /\ CurrentEvent'[b] # 0 => ~Done(b, CurrentEvent'[b])
                      /\ \A k \in Triggers : Done(b, k)' => k <= Len(triggers)
                      /\ \A g, h \in handled : g[b] = h[b] /\ g[b] # 0 => g = h
    BY <1>1 DEF PlacesInv, Done
  <2>1. CurrentEvent'[b] = 0 \/ CurrentEvent'[b] \in Held(b) \ Held(b)'
    OBVIOUS
  <2>2. \A k \in Held(b)' : k \in Held(b) /\ k # 0
    BY <1>2 DEF Triggers
  <2>3. \A k \in Held(b)' : k <= Len(triggers) /\ CurrentEvent'[b] # k /\ ~Done(b, k)'
    BY <1>1, <2>1, <2>2 DEF AccountInv, PlacesInv
  <2>4. CurrentEvent'[b] <= Len(triggers)
    BY <1>3, <2>1 DEF AccountInv, PlacesInv
  <2>5. CurrentEvent'[b] # 0 => ~Done(b, CurrentEvent'[b])
    BY <2>1 DEF AccountInv, PlacesInv
  <2> QED
    BY <1>1, <2>3, <2>4, <2>5 DEF AccountInv, PlacesInv
<1>5. Covered'
  <2> SUFFICES ASSUME NEW k \in 1..Len(triggers)
               PROVE  \E b \in Boards : k \in Held(b)' \/ CurrentEvent'[b] = k \/ Done(b, k)'
    BY DEF Covered
  <2>1. PICK b \in Boards : k \in Held(b) \/ Done(b, k)
    BY <1>2, <1>3 DEF AccountInv, Covered
  <2> QED
    BY <1>1, <2>1
<1> QED
  BY <1>4, <1>5

(* The event in hand is recorded or rejected, and some events, D, are lost. *)
LEMMA HandleStep ==
  ASSUME AccountInv, triggers' = triggers, CurrentEvent' = NoEvent,
         handled' = handled \cup {CurrentEvent}, NEW D,
         \A b \in Boards : D[b] \subseteq Held(b) /\ Held(b)' = Held(b) \ D[b],
         \A b \in Boards : \A k : <<b, k>> \in lost' <=> <<b, k>> \in lost \/ k \in D[b]
  PROVE  PlacesInv' /\ Covered'
<1>1. \A b \in Boards : \A k :
        Done(b, k)' <=> Done(b, k) \/ k \in D[b] \/ k = CurrentEvent[b]
  BY DEF Done
<1>2. \A b \in Boards : Held(b) \subseteq Triggers /\ CurrentEvent'[b] = 0
  BY HeldType, NoEventType DEF AccountInv
<1>3. Len(triggers) \in Nat
  BY LenProperties DEF AccountInv, TypeOK
<1>4. PlacesInv'
  <2> SUFFICES ASSUME NEW b \in Boards
               PROVE  /\ \A k \in Held(b)' : k <= Len(triggers) /\ CurrentEvent'[b] # k /\ ~Done(b, k)'
                      /\ CurrentEvent'[b] = 0
                      /\ \A k \in Triggers : Done(b, k)' => k <= Len(triggers)
                      /\ \A g, h \in handled' : g[b] = h[b] /\ g[b] # 0 => g = h
    BY <1>3 DEF PlacesInv
  <2>1. \A k \in Held(b)' : k \in Held(b) /\ k # 0 /\ k \notin D[b]
    BY <1>2 DEF Triggers
  <2>2. \A k \in Held(b)' : k <= Len(triggers) /\ ~Done(b, k)'
    BY <1>1, <2>1 DEF AccountInv, PlacesInv
  <2>3. \A k \in Triggers : Done(b, k)' => k <= Len(triggers)
    BY <1>1 DEF AccountInv, PlacesInv
  <2>4. \A g \in handled : g[b] = CurrentEvent[b] => g[b] = 0
    BY DEF AccountInv, PlacesInv, Done
  <2>5. \A g, h \in handled : g[b] = h[b] /\ g[b] # 0 => g = h
    BY DEF AccountInv, PlacesInv
  <2>6. \A g, h \in handled' : g[b] = h[b] /\ g[b] # 0 => g = h
    BY <2>4, <2>5
  <2> QED
    BY <1>2, <2>1, <2>2, <2>3, <2>6
<1>5. Covered'
  BY <1>1 DEF AccountInv, Covered
<1> QED
  BY <1>4, <1>5

-----------------------------------------------------------------------------

(* How the trigger adds its event to the boards that are not busy. *)
LEMMA AccountTrigger ==
  ASSUME AccountInv, Trigger
  PROVE  AccountInv'
<1> DEFINE new == Len(triggers')
           Trigs == [run : 1..MaxRuns, time : Nat]
<1>1. TypeOK' /\ TypeOK
  BY TriggerType DEF AccountInv
<1>2. PICK gap \in Gaps : triggers' = Append(triggers, [run |-> run, time |-> LastTime + gap])
  BY DEF Trigger
<1>3. Len(triggers) \in Nat /\ new = Len(triggers) + 1 /\ new \in Triggers
  <2>1. [run |-> run, time |-> LastTime + gap] \in Trigs
    <3>1. TypeOK
      BY DEF AccountInv
    <3> QED
      BY <3>1, LastTimeType, EventMatchingAssumption DEF TypeOK
  <2>2. triggers \in Seq(Trigs)
    BY DEF AccountInv, TypeOK
  <2> HIDE DEF Trigs
  <2>3. Len(triggers') = Len(triggers) + 1 /\ Len(triggers) \in Nat
    BY <1>2, <2>1, <2>2, AppendProperties, LenProperties
  <2> QED
    BY <2>3, EventMatchingAssumption DEF Trigger, Triggers
<1>4. PICK seen \in SUBSET {b \in Boards : Len(board[b]) < BoardMemory} :
        /\ seen # {}
        /\ board' = [b \in Boards |-> IF b \in seen THEN Append(board[b], new) ELSE board[b]]
  BY DEF Trigger
<1> HIDE DEF new
<1>5. UNCHANGED <<queue, BoardEvents, at, i, CurrentEvent, handled, lost>>
  BY DEF Trigger, writer, outcome
<1>6. \A b \in Boards : \A k : Done(b, k)' <=> Done(b, k)
  BY <1>5 DEF Done
<1>7. \A b \in Boards : new \notin Held(b) /\ CurrentEvent[b] # new /\ ~Done(b, new)
  BY <1>3 DEF AccountInv, PlacesInv
<1>8. ASSUME NEW b \in Boards
      PROVE  /\ ToSet(board'[b]) = IF b \in seen THEN ToSet(board[b]) \cup {new}
                                   ELSE ToSet(board[b])
             /\ Distinct(board'[b])
  <2>1. board[b] \in Seq(Triggers) /\ Distinct(board[b]) /\ new \notin ToSet(board[b])
    BY <1>1, <1>7, HeldType DEF AccountInv, HeldOnce, Held
  <2>2. /\ ToSet(Append(board[b], new)) = ToSet(board[b]) \cup {new}
        /\ Distinct(Append(board[b], new))
    BY <1>3, <2>1, AppendElements
  <2> QED
    BY <1>4, <2>1, <2>2
<1>9. \A b \in Boards : Held(b)' = IF b \in seen THEN Held(b) \cup {new} ELSE Held(b)
  BY <1>5, <1>8 DEF Held
<1>10. HeldOnce'
  <2> SUFFICES ASSUME NEW b \in Boards
               PROVE  /\ Distinct(board'[b]) /\ Distinct(queue[b]) /\ Distinct(BoardEvents[b])
                      /\ ToSet(board'[b]) \cap ToSet(queue[b]) = {}
                      /\ ToSet(board'[b]) \cap ToSet(BoardEvents[b]) = {}
                      /\ ToSet(queue[b]) \cap ToSet(BoardEvents[b]) = {}
    BY <1>5 DEF HeldOnce
  <2>1. new \notin ToSet(queue[b]) /\ new \notin ToSet(BoardEvents[b])
    BY <1>7 DEF Held
  <2> QED
    BY <1>8, <2>1 DEF AccountInv, HeldOnce
<1>11. FlushInv'
  BY <1>5 DEF AccountInv, FlushInv
<1>12. PlacesInv'
  <2> SUFFICES ASSUME NEW b \in Boards
               PROVE  /\ \A k \in Held(b)' : k <= new /\ CurrentEvent[b] # k /\ ~Done(b, k)
                      /\ CurrentEvent[b] <= new
                      /\ CurrentEvent[b] # 0 => ~Done(b, CurrentEvent[b])
                      /\ \A k \in Triggers : Done(b, k) => k <= new
                      /\ \A g, h \in handled : g[b] = h[b] /\ g[b] # 0 => g = h
    BY <1>5, <1>6 DEF PlacesInv, Done, new
  <2>1. Held(b) \subseteq Triggers /\ CurrentEvent[b] \in Nat
    <3>1. CurrentEvent[b] \in 0..MaxTriggers
      BY DEF AccountInv, TypeOK, GlobalEvents
    <3> QED
      BY <1>1, <3>1, HeldType
  <2>2. \A k \in Held(b)' : k = new \/ k \in Held(b)
    BY <1>9
  <2>3. \A k \in Nat : k <= Len(triggers) => k <= new
    BY <1>3
  <2>4. \A k \in Triggers : k \in Nat
    BY DEF Triggers
  <2>5. new <= new
    BY <1>3
  <2> QED
    BY <1>7, <2>1, <2>2, <2>3, <2>4, <2>5 DEF AccountInv, PlacesInv
<1>13. Covered'
  <2> SUFFICES ASSUME NEW k \in 1..new
               PROVE  \E b \in Boards : k \in Held(b)' \/ CurrentEvent[b] = k \/ Done(b, k)
    BY <1>5, <1>6 DEF Covered, new
  <2>1. CASE k = new
    BY <1>4, <1>9, <2>1
  <2>2. CASE k # new
    <3>1. k \in 1..Len(triggers)
      BY <1>3, <2>2
    <3> QED
      BY <1>9, <3>1 DEF AccountInv, Covered
  <2> QED
    BY <2>1, <2>2
<1> QED
  BY <1>1, <1>10, <1>11, <1>12, <1>13 DEF AccountInv

(* A move that loses nothing. *)
LEMMA KeepStep ==
  ASSUME AccountInv, UNCHANGED <<triggers, CurrentEvent, handled, lost>>,
         \A b \in Boards : Held(b)' = Held(b)
  PROVE  PlacesInv' /\ Covered'
<1> DEFINE D == [b \in Boards |-> {}]
<1>1. \A b \in Boards : D[b] \subseteq Held(b) /\ Held(b)' = Held(b) \ D[b]
  OBVIOUS
<1>2. \A b \in Boards : \A k : <<b, k>> \in lost' <=> <<b, k>> \in lost \/ k \in D[b]
  OBVIOUS
<1> HIDE DEF D
<1> QED
  BY <1>1, <1>2, MoveStep

LEMMA AccountReaderPush ==
  ASSUME AccountInv, NEW b \in Boards, ReaderPush(b)
  PROVE  AccountInv'
<1> DEFINE e == Head(board[b])
<1>1. TypeOK' /\ TypeOK
  BY ReaderType DEF AccountInv
<1>2. board[b] # <<>> /\ UNCHANGED <<triggers, BoardEvents, at, i, CurrentEvent, handled, lost>>
  BY DEF ReaderPush, writer, outcome
<1>3. /\ board'[b] = Tail(board[b]) /\ queue'[b] = Append(queue[b], e)
      /\ \A c \in Boards \ {b} : board'[c] = board[c] /\ queue'[c] = queue[c]
  BY <1>1 DEF ReaderPush, TypeOK
<1>4. board[b] \in Seq(Triggers) /\ queue[b] \in Seq(Triggers)
  BY <1>1, HeldType
<1>5. /\ e \in Triggers /\ ToSet(board[b]) = ToSet(Tail(board[b])) \cup {e}
      /\ Distinct(Tail(board[b])) /\ e \notin ToSet(Tail(board[b]))
  BY <1>2, <1>4, TailElements DEF AccountInv, HeldOnce
<1>6. e \notin ToSet(queue[b]) /\ e \notin ToSet(BoardEvents[b])
  BY <1>5 DEF AccountInv, HeldOnce
<1> HIDE DEF e
<1>7. ToSet(queue'[b]) = ToSet(queue[b]) \cup {e} /\ Distinct(queue'[b])
  <2>1. Distinct(queue[b])
    BY DEF AccountInv, HeldOnce
  <2> QED
    BY <1>3, <1>4, <1>5, <1>6, <2>1, AppendElements
<1>8. \A c \in Boards : Held(c)' = Held(c)
  <2>1. Held(b)' = Held(b)
    BY <1>2, <1>3, <1>5, <1>7 DEF Held
  <2> QED
    BY <1>2, <1>3, <2>1 DEF Held
<1>9. HeldOnce'
  <2>1. /\ Distinct(board'[b]) /\ Distinct(queue'[b]) /\ Distinct(BoardEvents'[b])
        /\ ToSet(board'[b]) \cap ToSet(queue'[b]) = {}
        /\ ToSet(board'[b]) \cap ToSet(BoardEvents'[b]) = {}
        /\ ToSet(queue'[b]) \cap ToSet(BoardEvents'[b]) = {}
    BY <1>2, <1>3, <1>5, <1>6, <1>7 DEF AccountInv, HeldOnce
  <2> QED
    BY <1>2, <1>3, <2>1 DEF AccountInv, HeldOnce
<1>10. FlushInv'
  BY <1>2 DEF AccountInv, FlushInv
<1> QED
  BY <1>1, <1>2, <1>8, <1>9, <1>10, KeepStep DEF AccountInv

LEMMA AccountReaderDrops ==
  ASSUME AccountInv, NEW b \in Boards, ReaderDrops(b)
  PROVE  AccountInv'
<1>1. TypeOK' /\ TypeOK
  BY ReaderType DEF AccountInv
<1>2. PICK n \in 1..Len(board[b]) :
        /\ Lose(Of(b, SubSeq(board[b], 1, n)))
        /\ board' = [board EXCEPT ![b] = SubSeq(@, n + 1, Len(@))]
  BY DEF ReaderDrops
<1> DEFINE p == SubSeq(board[b], 1, n)
           q == SubSeq(board[b], n + 1, Len(board[b]))
           D == [c \in Boards |-> IF c = b THEN ToSet(p) ELSE {}]
<1>3. UNCHANGED <<triggers, queue, BoardEvents, at, i, CurrentEvent, handled>>
  BY DEF ReaderDrops, writer
<1>4. board'[b] = q /\ \A c \in Boards \ {b} : board'[c] = board[c]
  BY <1>1, <1>2 DEF TypeOK
<1>5. /\ ToSet(board[b]) = ToSet(p) \cup ToSet(q)
      /\ Distinct(q) /\ ToSet(p) \cap ToSet(q) = {}
  <2>1. board[b] \in Seq(Triggers) /\ n \in 0..Len(board[b])
    BY <1>1, HeldType, LenProperties
  <2>2. Distinct(board[b])
    BY DEF AccountInv, HeldOnce
  <2> QED
    BY ONLY <2>1, <2>2, SplitElements
<1>6. \A c \in Boards : \A k : <<c, k>> \in lost' <=> <<c, k>> \in lost \/ k \in D[c]
  BY <1>2 DEF Lose, Of
<1> HIDE DEF p, q
<1>7. \A c \in Boards : D[c] \subseteq Held(c) /\ Held(c)' = Held(c) \ D[c]
  <2>1. ToSet(p) \subseteq Held(b) /\ Held(b)' = Held(b) \ ToSet(p)
    <3>1. ToSet(p) \cap ToSet(queue[b]) = {} /\ ToSet(p) \cap ToSet(BoardEvents[b]) = {}
      BY <1>5 DEF AccountInv, HeldOnce
    <3> QED
      BY <1>3, <1>4, <1>5, <3>1 DEF Held
  <2>2. \A c \in Boards \ {b} : Held(c)' = Held(c)
    BY <1>3, <1>4 DEF Held
  <2> QED
    BY <2>1, <2>2
<1> HIDE DEF D
<1>8. PlacesInv' /\ Covered'
  BY <1>3, <1>6, <1>7, MoveStep
<1>9. HeldOnce'
  <2>1. /\ Distinct(board'[b]) /\ Distinct(queue'[b]) /\ Distinct(BoardEvents'[b])
        /\ ToSet(board'[b]) \cap ToSet(queue'[b]) = {}
        /\ ToSet(board'[b]) \cap ToSet(BoardEvents'[b]) = {}
        /\ ToSet(queue'[b]) \cap ToSet(BoardEvents'[b]) = {}
    BY <1>3, <1>4, <1>5 DEF AccountInv, HeldOnce
  <2> QED
    BY <1>3, <1>4, <2>1 DEF AccountInv, HeldOnce
<1>10. FlushInv'
  BY <1>3 DEF AccountInv, FlushInv
<1> QED
  BY <1>1, <1>8, <1>9, <1>10 DEF AccountInv

LEMMA AccountNewRun ==
  ASSUME AccountInv, NewRun
  PROVE  AccountInv'
<1> DEFINE D == [b \in Boards |-> ToSet(board[b])]
<1>1. TypeOK' /\ at = "idle"
  BY EnvironmentType DEF AccountInv, NewRun
<1>2. /\ UNCHANGED <<triggers, queue, at, i, CurrentEvent, handled>>
      /\ board' = Empty /\ BoardEvents' = Empty
  BY DEF NewRun
<1>3. \A b \in Boards : /\ board'[b] = <<>> /\ ToSet(board'[b]) = {} /\ Distinct(board'[b])
                        /\ BoardEvents'[b] = <<>> /\ BoardEvents[b] = <<>>
  BY <1>1, <1>2, EmptyType DEF AccountInv, FlushInv
<1>4. \A b \in Boards : D[b] \subseteq Held(b) /\ Held(b)' = Held(b) \ D[b]
  <2> SUFFICES ASSUME NEW b \in Boards
               PROVE  ToSet(board[b]) \subseteq Held(b) /\ Held(b)' = Held(b) \ ToSet(board[b])
    OBVIOUS
  <2>1. ToSet(board[b]) \cap ToSet(queue[b]) = {} /\ ToSet(BoardEvents[b]) = {}
    BY <1>3, ElementsOfEmpty DEF AccountInv, HeldOnce
  <2> QED
    BY <1>2, <1>3, <2>1 DEF Held
<1>5. \A b \in Boards : \A k : <<b, k>> \in lost' <=> <<b, k>> \in lost \/ k \in D[b]
  BY DEF NewRun, Lose, Of
<1> HIDE DEF D
<1>6. PlacesInv' /\ Covered'
  BY <1>2, <1>4, <1>5, MoveStep
<1>7. HeldOnce'
  BY <1>2, <1>3, ElementsOfEmpty DEF AccountInv, HeldOnce
<1>8. FlushInv'
  BY <1>1, <1>2, <1>3 DEF AccountInv, FlushInv
<1> QED
  BY <1>1, <1>6, <1>7, <1>8 DEF AccountInv

(* Steps that leave all events where they are. *)
LEMMA StayStep ==
  ASSUME AccountInv, TypeOK', FlushInv',
         UNCHANGED <<triggers, board, queue, CurrentEvent, handled, lost>>,
         \A b \in Boards : BoardEvents'[b] = BoardEvents[b]
  PROVE  AccountInv'
<1>1. \A b \in Boards : Held(b)' = Held(b)
  BY DEF Held
<1>2. HeldOnce'
  BY DEF AccountInv, HeldOnce
<1> QED
  BY <1>1, <1>2, KeepStep DEF AccountInv

LEMMA AccountStays ==
  ASSUME AccountInv, Tick \/ StartFlush \/ PullDone \/ BoardDone
  PROVE  AccountInv'
<1>1. TypeOK' /\ TypeOK
  BY EnvironmentType, PullType DEF AccountInv
<1>2. /\ UNCHANGED <<triggers, board, queue, CurrentEvent, handled, lost>>
      /\ \A b \in Boards : BoardEvents'[b] = BoardEvents[b]
  BY EmptyType
  DEF Tick, StartFlush, PullDone, BoardDone, acquisition, writer, outcome, AccountInv, FlushInv
<1>3. FlushInv'
  <2>1. CASE Tick
    BY <2>1 DEF Tick, writer, AccountInv, FlushInv
  <2>2. CASE StartFlush
    BY <1>2, <2>2 DEF StartFlush, AccountInv, FlushInv
  <2>3. CASE PullDone
    BY <1>1, <1>2, <2>3, BoardsAreTwo DEF PullDone, NextBoard, AccountInv, FlushInv, TypeOK
  <2>4. CASE BoardDone
    BY <1>1, <1>2, <2>4, BoardsAreTwo DEF BoardDone, NextBoard, AccountInv, FlushInv, TypeOK
  <2> QED
    BY <2>1, <2>2, <2>3, <2>4
<1> QED
  BY <1>1, <1>2, <1>3, StayStep

LEMMA AccountPull ==
  ASSUME AccountInv, Pull
  PROVE  AccountInv'
<1> DEFINE e == Head(queue[i])
<1>1. TypeOK' /\ TypeOK /\ i \in Boards
  BY PullType DEF AccountInv, TypeOK
<1>2. /\ queue[i] # <<>> /\ at = "pull"
      /\ UNCHANGED <<triggers, board, at, i, CurrentEvent, handled, lost>>
  BY DEF Pull, acquisition, outcome
<1>3. /\ queue'[i] = Tail(queue[i]) /\ BoardEvents'[i] = Append(BoardEvents[i], e)
      /\ \A c \in Boards \ {i} : queue'[c] = queue[c] /\ BoardEvents'[c] = BoardEvents[c]
  BY <1>1 DEF Pull, TypeOK
<1>4. queue[i] \in Seq(Triggers) /\ BoardEvents[i] \in Seq(Triggers)
  BY <1>1, HeldType
<1>5. /\ e \in Triggers /\ ToSet(queue[i]) = ToSet(Tail(queue[i])) \cup {e}
      /\ Distinct(Tail(queue[i])) /\ e \notin ToSet(Tail(queue[i]))
  BY <1>1, <1>2, <1>4, TailElements DEF AccountInv, HeldOnce
<1>6. e \notin ToSet(board[i]) /\ e \notin ToSet(BoardEvents[i])
  BY <1>1, <1>5 DEF AccountInv, HeldOnce
<1> HIDE DEF e
<1>7. ToSet(BoardEvents'[i]) = ToSet(BoardEvents[i]) \cup {e} /\ Distinct(BoardEvents'[i])
  <2>1. Distinct(BoardEvents[i])
    BY <1>1 DEF AccountInv, HeldOnce
  <2> QED
    BY <1>3, <1>4, <1>5, <1>6, <2>1, AppendElements
<1>8. ASSUME NEW c \in Boards
      PROVE  Held(c)' = Held(c)
  <2>1. CASE c = i
    BY <1>2, <1>3, <1>5, <1>7, <2>1 DEF Held
  <2>2. CASE c # i
    BY <1>2, <1>3, <2>2 DEF Held
  <2> QED
    BY <2>1, <2>2
<1>9. HeldOnce'
  <2>1. /\ Distinct(board'[i]) /\ Distinct(queue'[i]) /\ Distinct(BoardEvents'[i])
        /\ ToSet(board'[i]) \cap ToSet(queue'[i]) = {}
        /\ ToSet(board'[i]) \cap ToSet(BoardEvents'[i]) = {}
        /\ ToSet(queue'[i]) \cap ToSet(BoardEvents'[i]) = {}
    BY <1>1, <1>2, <1>3, <1>5, <1>6, <1>7 DEF AccountInv, HeldOnce
  <2> QED
    BY <1>2, <1>3, <2>1 DEF AccountInv, HeldOnce
<1>10. FlushInv'
  BY <1>2 DEF AccountInv, FlushInv
<1> QED
  BY <1>1, <1>2, <1>8, <1>9, <1>10, KeepStep DEF AccountInv

-----------------------------------------------------------------------------

LEMMA AccountMatch ==
  ASSUME AccountInv, Match
  PROVE  AccountInv'
<1> DEFINE o == Other(i)
           T == [b \in Boards |-> {CurrentEvent'[b]}]
<1>1. /\ TypeOK' /\ TypeOK
      /\ BoardEvents'[i] = Tail(BoardEvents[i])
      /\ BoardEvents'[o] = RemoveAt(BoardEvents[o], FirstMatch)
      /\ CurrentEvent'[i] = FrontEvent
      /\ CurrentEvent'[o] = BoardEvents[o][FirstMatch]
  BY MatchType DEF AccountInv
<1>2. /\ i \in Boards /\ o \in Boards /\ \A b \in Boards : b = i \/ b = o
      /\ i = 0 \/ i = 1
  BY <1>1, BoardsAreTwo DEF TypeOK
<1>3. /\ at = "match" /\ at' = "filter" /\ BoardEvents[i] # <<>> /\ FirstMatch # 0
      /\ UNCHANGED <<triggers, board, queue, i, handled, lost>>
  BY DEF Match, Matching, acquisition, outcome
<1>4. \A b \in Boards : Distinct(BoardEvents[b])
  BY DEF AccountInv, HeldOnce
<1>5. /\ ToSet(BoardEvents[i]) = ToSet(BoardEvents'[i]) \cup {CurrentEvent'[i]}
      /\ Distinct(BoardEvents'[i]) /\ CurrentEvent'[i] \notin ToSet(BoardEvents'[i])
  BY <1>1, <1>2, <1>3, <1>4, FrontEventType
<1>6. /\ ToSet(BoardEvents[o]) = ToSet(BoardEvents'[o]) \cup {CurrentEvent'[o]}
      /\ Distinct(BoardEvents'[o]) /\ CurrentEvent'[o] \notin ToSet(BoardEvents'[o])
  BY <1>1, <1>2, <1>3, <1>4, PartnerType
<1> HIDE DEF o
<1>7. \A b \in Boards :
        /\ ToSet(BoardEvents[b]) = ToSet(BoardEvents'[b]) \cup {CurrentEvent'[b]}
        /\ Distinct(BoardEvents'[b]) /\ CurrentEvent'[b] \notin ToSet(BoardEvents'[b])
  BY <1>2, <1>5, <1>6
<1>8. ASSUME NEW b \in Boards
      PROVE  /\ CurrentEvent'[b] \in Held(b)
             /\ Held(b)' = Held(b) \ {CurrentEvent'[b]}
  <2>1. CurrentEvent'[b] \notin ToSet(board[b]) /\ CurrentEvent'[b] \notin ToSet(queue[b])
    BY <1>7 DEF AccountInv, HeldOnce
  <2> QED
    BY <1>3, <1>7, <2>1 DEF Held
<1>9. \A b \in Boards : /\ T[b] \subseteq Held(b) /\ Held(b)' = Held(b) \ T[b]
                        /\ T[b] = {CurrentEvent'[b]}
  BY <1>8
<1>10. CurrentEvent = NoEvent
  BY <1>3 DEF AccountInv, FlushInv
<1> HIDE DEF T
<1>11. PlacesInv' /\ Covered'
  BY <1>3, <1>9, <1>10, TakeStep
<1>12. HeldOnce'
  BY <1>3, <1>7 DEF AccountInv, HeldOnce
<1>13. FlushInv'
  <2>1. i = 0
    <3>1. SUFFICES ASSUME i = 1 PROVE FALSE
      BY <1>2
    <3>2. BoardEvents[Other(i)] = <<>>
      BY <1>3, <3>1 DEF AccountInv, FlushInv, Other
    <3>3. FirstMatch \in 1..Len(BoardEvents[Other(i)])
      BY <1>1, <1>3, FirstMatchType
    <3>4. Len(<<>>) = 0
      BY EmptySeq
    <3> QED
      BY <3>2, <3>3, <3>4
  <2> QED
    BY <1>3, <2>1 DEF FlushInv
<1> QED
  BY <1>1, <1>11, <1>12, <1>13 DEF AccountInv

LEMMA AccountPutBack ==
  ASSUME AccountInv, PutBack
  PROVE  AccountInv'
<1> DEFINE kept == Len(queue[i]) < QueueCapacity
           e == FrontEvent
           D == [b \in Boards |-> IF b = i /\ ~kept THEN {e} ELSE {}]
<1>1. TypeOK' /\ TypeOK /\ i \in Boards
  BY PutBackType DEF AccountInv, TypeOK
<1>2. /\ BoardEvents[i] # <<>> /\ at = "match" /\ CurrentEvent = NoEvent
      /\ CurrentEvent' = NoEvent
      /\ UNCHANGED <<triggers, board, at, i, CurrentEvent, handled>>
  BY DEF PutBack, Matching, acquisition, AccountInv, FlushInv
<1>3. /\ e \in Triggers /\ ToSet(BoardEvents[i]) = ToSet(Tail(BoardEvents[i])) \cup {e}
      /\ Distinct(Tail(BoardEvents[i])) /\ e \notin ToSet(Tail(BoardEvents[i]))
  BY <1>1, <1>2, FrontEventType DEF AccountInv, HeldOnce
<1>4. /\ BoardEvents'[i] = Tail(BoardEvents[i])
      /\ \A c \in Boards \ {i} : BoardEvents'[c] = BoardEvents[c]
  BY <1>1 DEF PutBack, TypeOK
<1>5. /\ queue'[i] = IF kept THEN Append(queue[i], e) ELSE queue[i]
      /\ \A c \in Boards \ {i} : queue'[c] = queue[c]
      /\ lost' = IF kept THEN lost ELSE lost \cup {<<i, e>>}
  BY <1>1 DEF PutBack, Lose, TypeOK
<1>6. e \notin ToSet(board[i]) /\ e \notin ToSet(queue[i])
  BY <1>1, <1>3 DEF AccountInv, HeldOnce
<1>7. \A b \in Boards : \A k : <<b, k>> \in lost' <=> <<b, k>> \in lost \/ k \in D[b]
  BY <1>5
<1> HIDE DEF kept, e
<1>8. /\ ToSet(queue'[i]) = IF kept THEN ToSet(queue[i]) \cup {e} ELSE ToSet(queue[i])
      /\ Distinct(queue'[i])
  <2>1. Distinct(queue[i]) /\ queue[i] \in Seq(Triggers)
    BY <1>1, HeldType DEF AccountInv, HeldOnce
  <2>2. /\ ToSet(Append(queue[i], e)) = ToSet(queue[i]) \cup {e}
        /\ Distinct(Append(queue[i], e))
    BY <1>3, <1>6, <2>1, AppendElements
  <2> QED
    BY <1>5, <2>1, <2>2
<1>9. ASSUME NEW b \in Boards
      PROVE  D[b] \subseteq Held(b) /\ Held(b)' = Held(b) \ D[b]
  <2>1. CASE b = i /\ kept
    BY <1>2, <1>3, <1>4, <1>8, <2>1 DEF Held
  <2>2. CASE b = i /\ ~kept
    BY <1>2, <1>3, <1>4, <1>6, <1>8, <2>2 DEF Held
  <2>3. CASE b # i
    BY <1>2, <1>4, <1>5, <2>3 DEF Held
  <2> QED
    BY <2>1, <2>2, <2>3
<1> HIDE DEF D
<1>10. PlacesInv' /\ Covered'
  BY <1>2, <1>7, <1>9, MoveStep
<1>11. HeldOnce'
  <2>1. /\ Distinct(board'[i]) /\ Distinct(queue'[i]) /\ Distinct(BoardEvents'[i])
        /\ ToSet(board'[i]) \cap ToSet(queue'[i]) = {}
        /\ ToSet(board'[i]) \cap ToSet(BoardEvents'[i]) = {}
        /\ ToSet(queue'[i]) \cap ToSet(BoardEvents'[i]) = {}
    BY <1>1, <1>2, <1>3, <1>4, <1>6, <1>8 DEF AccountInv, HeldOnce
  <2> QED
    BY <1>2, <1>4, <1>5, <2>1 DEF AccountInv, HeldOnce
<1>12. FlushInv'
  <2>1. i = 1 => BoardEvents'[0] = <<>>
    BY <1>2, <1>4, BoardsAreTwo DEF AccountInv, FlushInv
  <2> QED
    BY <1>2, <2>1 DEF FlushInv
<1> QED
  BY <1>1, <1>10, <1>11, <1>12 DEF AccountInv

LEMMA AccountTakeIncomplete ==
  ASSUME AccountInv, TakeIncomplete
  PROVE  AccountInv'
<1> DEFINE e == FrontEvent
           T == [b \in Boards |-> IF b = i THEN {e} ELSE {}]
<1>1. TypeOK' /\ TypeOK /\ i \in Boards
  BY TakeIncompleteType DEF AccountInv, TypeOK
<1>2. /\ BoardEvents[i] # <<>> /\ at = "match" /\ at' = "filter" /\ CurrentEvent = NoEvent
      /\ UNCHANGED <<triggers, board, queue, i, handled, lost>>
  BY DEF TakeIncomplete, Matching, acquisition, outcome, AccountInv, FlushInv
<1>3. /\ e \in Triggers /\ ToSet(BoardEvents[i]) = ToSet(Tail(BoardEvents[i])) \cup {e}
      /\ Distinct(Tail(BoardEvents[i])) /\ e \notin ToSet(Tail(BoardEvents[i]))
  BY <1>1, <1>2, FrontEventType DEF AccountInv, HeldOnce
<1>4. /\ BoardEvents'[i] = Tail(BoardEvents[i])
      /\ \A c \in Boards \ {i} : BoardEvents'[c] = BoardEvents[c]
  BY <1>1 DEF TakeIncomplete, TypeOK
<1>5. CurrentEvent'[i] = e /\ \A c \in Boards \ {i} : CurrentEvent'[c] = 0
  BY <1>1, NoEventType DEF TakeIncomplete, GlobalEvents
<1>6. e \notin ToSet(board[i]) /\ e \notin ToSet(queue[i])
  BY <1>1, <1>3 DEF AccountInv, HeldOnce
<1> HIDE DEF e
<1>7. ASSUME NEW b \in Boards
      PROVE  /\ T[b] \subseteq Held(b) /\ Held(b)' = Held(b) \ T[b]
             /\ \/ T[b] = {} /\ CurrentEvent'[b] = 0
                \/ T[b] = {CurrentEvent'[b]}
  <2>1. CASE b = i
    BY <1>2, <1>3, <1>4, <1>5, <1>6, <2>1 DEF Held
  <2>2. CASE b # i
    BY <1>2, <1>4, <1>5, <2>2 DEF Held
  <2> QED
    BY <2>1, <2>2
<1> HIDE DEF T
<1>8. PlacesInv' /\ Covered'
  BY <1>2, <1>7, TakeStep
<1>9. HeldOnce'
  <2>1. /\ Distinct(BoardEvents'[i])
        /\ ToSet(board[i]) \cap ToSet(BoardEvents'[i]) = {}
        /\ ToSet(queue[i]) \cap ToSet(BoardEvents'[i]) = {}
    BY <1>1, <1>3, <1>4 DEF AccountInv, HeldOnce
  <2> QED
    BY <1>2, <1>4, <2>1 DEF AccountInv, HeldOnce
<1>10. FlushInv'
  <2>1. i = 1 => BoardEvents'[0] = <<>>
    BY <1>2, <1>4, BoardsAreTwo DEF AccountInv, FlushInv
  <2> QED
    BY <1>2, <2>1 DEF FlushInv
<1> QED
  BY <1>1, <1>8, <1>9, <1>10 DEF AccountInv

LEMMA AccountFilter ==
  ASSUME AccountInv, Reject \/ Record
  PROVE  AccountInv'
<1> DEFINE D == [b \in Boards |-> IF BoardEvents' = BoardEvents THEN {} ELSE ToSet(BoardEvents[b])]
<1>1. TypeOK' /\ TypeOK
  BY FilterType DEF AccountInv
<1>2. /\ at = "filter" /\ CurrentEvent' = NoEvent /\ handled' = handled \cup {CurrentEvent}
      /\ UNCHANGED <<triggers, board, queue>>
  BY DEF Reject, Record, acquisition
<1>3. \/ at' = "match" /\ UNCHANGED <<BoardEvents, i, lost>>
      \/ Rotate
  BY DEF Reject, Record
<1>4. /\ \A b \in Boards : D[b] \subseteq Held(b) /\ Held(b)' = Held(b) \ D[b]
      /\ \A b \in Boards : \A k : <<b, k>> \in lost' <=> <<b, k>> \in lost \/ k \in D[b]
      /\ HeldOnce' /\ FlushInv'
  <2>1. CASE at' = "match" /\ UNCHANGED <<BoardEvents, i, lost>>
    BY <1>2, <2>1 DEF Held, AccountInv, HeldOnce, FlushInv
  <2>2. CASE Rotate
    <3>1. \A b \in Boards : BoardEvents'[b] = <<>> /\ ToSet(BoardEvents'[b]) = {}
                            /\ Distinct(BoardEvents'[b])
      BY <2>2, EmptyType DEF Rotate
    <3>2. BoardEvents' = BoardEvents => \A b \in Boards : ToSet(BoardEvents[b]) = {}
      BY <3>1
    <3>3. \A b \in Boards : D[b] = ToSet(BoardEvents[b])
      BY <3>2
    <3>4. \A b \in Boards : \A k : <<b, k>> \in lost' <=> <<b, k>> \in lost \/ k \in D[b]
      BY <2>2, <3>3 DEF Rotate, Lose, Of
    <3>5. ASSUME NEW b \in Boards
          PROVE  D[b] \subseteq Held(b) /\ Held(b)' = Held(b) \ D[b]
      BY <1>2, <3>1, <3>3 DEF Held, AccountInv, HeldOnce
    <3>6. HeldOnce'
      BY <1>2, <3>1 DEF AccountInv, HeldOnce
    <3>7. FlushInv'
      BY <1>1, <1>2, <2>2, <3>1, BoardsAreTwo DEF Rotate, NextBoard, FlushInv, TypeOK
    <3> QED
      BY <3>4, <3>5, <3>6, <3>7
  <2> QED
    BY <1>3, <2>1, <2>2
<1> HIDE DEF D
<1>5. PlacesInv' /\ Covered'
  BY <1>2, <1>4, HandleStep
<1> QED
  BY <1>1, <1>4, <1>5 DEF AccountInv

LEMMA AccountStep == AccountInv /\ [Next]_vars => AccountInv'
<1> SUFFICES ASSUME AccountInv, [Next]_vars PROVE AccountInv'
  OBVIOUS
<1>1. CASE Flush
  BY <1>1, AccountStays, AccountPull, AccountMatch, AccountPutBack, AccountTakeIncomplete,
     AccountFilter DEF Flush
<1>2. ASSUME NEW b \in Boards, ReaderPush(b) \/ ReaderDrops(b)
      PROVE  AccountInv'
  BY <1>2, AccountReaderPush, AccountReaderDrops
<1>3. CASE UNCHANGED vars
  <2>1. TypeOK' /\ FlushInv'
    BY <1>3, TypeStep DEF vars, acquisition, writer, AccountInv, FlushInv
  <2> QED
    BY <1>3, <2>1, StayStep DEF vars, acquisition, writer, outcome
<1> QED
  BY <1>1, <1>2, <1>3, AccountTrigger, AccountStays, AccountNewRun DEF Next

(* Every event that a board saw is in exactly one place: it waits, is in     *)
(* hand, was recorded or rejected once, or was lost to a full queue, to a    *)
(* rotation during the flush or to the end of a run.                         *)
THEOREM NoEventForgotten == Spec => []EventsAccounted
BY AccountInit, AccountStep, AccountGivesProperty, PTL DEF Spec

-----------------------------------------------------------------------------
(* Trigger times and their tags.                                             *)

LEMMA Residue ==
  ASSUME NEW a \in Nat, NEW R \in Nat \ {0}
  PROVE  \E q \in Int : a = (R * q) + (a % R) /\ (a % R) \in 0..(R - 1)
<1>1. a = (R * (a \div R)) + (a % R) /\ (a % R) \in 0..(R - 1) /\ (a \div R) \in Int
  OBVIOUS
<1> QED
  BY <1>1

LEMMA MultipleAtLeast ==
  ASSUME NEW R \in Nat, NEW m \in Int
  PROVE  /\ m >= 1 => R * m >= R
         /\ m <= -1 => R * m <= -R
         /\ m = 0 => R * m = 0
OBVIOUS

(* Two times whose tags are close are themselves close, or almost a whole    *)
(* rollover apart.                                                           *)
LEMMA CloseTags ==
  ASSUME NEW s \in Nat, NEW t \in Nat, NEW R \in Nat \ {0}, NEW c \in Nat,
         NEW window \in Nat, Distance(s % R, (t + c) % R) < window
  PROVE  Distance(s, t) < window + c \/ Distance(s, t) > R - (window + c)
<1> DEFINE x == s % R
           y == (t + c) % R
<1>1. PICK p \in Int : s = (R * p) + x /\ x \in 0..(R - 1)
  BY Residue
<1>2. PICK q \in Int : t + c = (R * q) + y /\ y \in 0..(R - 1)
  <2>1. t + c \in Nat
    OBVIOUS
  <2> QED
    BY <2>1, Residue
<1>3. Distance(x, y) < window
  OBVIOUS
<1> HIDE DEF x, y
<1> DEFINE m == p - q
           P == R * m
<1>4. s - t = P + ((x - y) + c) /\ P \in Int /\ m \in Int
  <2>1. R * m = (R * p) - (R * q)
    OBVIOUS
  <2>2. R * p \in Int /\ R * q \in Int
    OBVIOUS
  <2> QED
    BY <1>1, <1>2, <2>1, <2>2
<1>5. (m >= 1 => P >= R) /\ (m <= -1 => P <= -R) /\ (m = 0 => P = 0)
  BY <1>4, MultipleAtLeast
<1> HIDE DEF P, m
<1>6. m >= 1 \/ m <= -1 \/ m = 0
  BY <1>4
<1>7. x \in Int /\ y \in Int
  BY <1>1, <1>2
<1> QED
  BY <1>3, <1>4, <1>5, <1>6, <1>7 DEF Distance

(* The tags of one trigger are as far apart as the clocks, unless the first  *)
(* board's has not rolled over when the second's has.                        *)
LEMMA TagsOfOneTrigger ==
  ASSUME NEW t \in Nat, NEW R \in Nat \ {0}, NEW c \in Nat, NEW window \in Nat,
         c < window, t % R <= (t + c) % R
  PROVE  Distance(t % R, (t + c) % R) < window
<1> DEFINE x == t % R
           y == (t + c) % R
<1>1. PICK p \in Int : t = (R * p) + x /\ x \in 0..(R - 1)
  BY Residue
<1>2. PICK q \in Int : t + c = (R * q) + y /\ y \in 0..(R - 1)
  <2>1. t + c \in Nat
    OBVIOUS
  <2> QED
    BY <2>1, Residue
<1>3. x <= y
  OBVIOUS
<1> HIDE DEF x, y
<1> DEFINE m == q - p
           P == R * m
<1>4. y - x = c - P /\ P \in Int /\ m \in Int
  <2>1. R * m = (R * q) - (R * p)
    OBVIOUS
  <2>2. R * p \in Int /\ R * q \in Int
    OBVIOUS
  <2> QED
    BY <1>1, <1>2, <2>1, <2>2
<1>5. (m >= 1 => P >= R) /\ (m <= -1 => P <= -R) /\ (m = 0 => P = 0)
  BY <1>4, MultipleAtLeast
<1> HIDE DEF P, m
<1>6. m >= 1 \/ m <= -1 \/ m = 0
  BY <1>4
<1>7. x \in Int /\ y \in Int
  BY <1>1, <1>2
<1>8. Distance(x, y) < window
  BY <1>1, <1>2, <1>3, <1>4, <1>5, <1>6, <1>7 DEF Distance
<1> QED
  BY <1>8 DEF x, y

LEMMA DistanceSymmetric ==
  ASSUME NEW x \in Int, NEW y \in Int
  PROVE  Distance(x, y) = Distance(y, x) /\ Distance(x, y) \in Int
BY DEF Distance

MatchInv == PairsAreOneTrigger /\ NoPartnerMissed

LEMMA TriggersType ==
  ASSUME TypeOK
  PROVE  /\ Len(triggers) \in Nat
         /\ \A k \in 1..Len(triggers) :
              triggers[k].time \in Nat /\ triggers[k].run \in Int
<1>1. triggers \in Seq([run : 1..MaxRuns, time : Nat])
  BY DEF TypeOK
<1>2. \A k \in 1..Len(triggers) : triggers[k] \in [run : 1..MaxRuns, time : Nat]
  BY ONLY <1>1, ElementOfSeq
<1> QED
  BY <1>1, <1>2, LenProperties, EventMatchingAssumption

LEMMA Tags ==
  ASSUME TypeOK, NEW k \in 1..Len(triggers)
  PROVE  /\ TTT(0, k) = triggers[k].time % Rollover
         /\ TTT(1, k) = (triggers[k].time + Skew) % Rollover
         /\ TTT(0, k) \in Nat /\ TTT(1, k) \in Nat
<1> DEFINE t == triggers[k].time
<1>1. t \in Nat
  BY TriggersType
<1> HIDE DEF t
<1>2. t + 0 * Skew = t /\ t + 1 * Skew = t + Skew /\ t + Skew \in Nat
  BY <1>1, EventMatchingAssumption
<1>3. (t % Rollover) \in Nat /\ ((t + Skew) % Rollover) \in Nat
  BY <1>1, <1>2, EventMatchingAssumption
<1> QED
  BY <1>2, <1>3 DEF TTT, t

LEMMA MatchesAreOneTrigger ==
  ASSUME TypeOK, NEW k \in 1..Len(triggers), NEW j \in 1..Len(triggers),
         Distance(TTT(0, k), TTT(1, j)) < MatchingTTTRequirement
  PROVE  \/ Distance(triggers[k].time, triggers[j].time) < Window
         \/ Distance(triggers[k].time, triggers[j].time) > Rollover - Window
<1> DEFINE s == triggers[k].time
           t == triggers[j].time
<1>1. s \in Nat /\ t \in Nat
  BY TriggersType
<1>2. Distance(s % Rollover, (t + Skew) % Rollover) < MatchingTTTRequirement
  BY Tags
<1> HIDE DEF s, t
<1>3. Distance(s, t) < Window \/ Distance(s, t) > Rollover - Window
  BY <1>1, <1>2, CloseTags, EventMatchingAssumption DEF Window
<1> QED
  BY <1>3 DEF s, t

-----------------------------------------------------------------------------
(* Which events are recorded together.                                       *)

(* Handled and held events are of triggers that were.                        *)
LEMMA HandledWere ==
  ASSUME AccountInv, NEW g \in handled \cup {CurrentEvent}, NEW b \in Boards, g[b] # 0
  PROVE  g[b] \in 1..Len(triggers)
<1>1. g[b] \in Triggers
  <2>1. g \in GlobalEvents
    BY DEF AccountInv, TypeOK
  <2>2. g[b] \in 0..MaxTriggers
    BY <2>1 DEF GlobalEvents
  <2> QED
    BY <2>2, EventMatchingAssumption DEF Triggers
<1>2. g[b] <= Len(triggers)
  <2>1. CASE g = CurrentEvent
    BY <2>1 DEF AccountInv, PlacesInv
  <2>2. CASE g \in handled
    BY <1>1, <2>2 DEF AccountInv, PlacesInv, Done
  <2> QED
    BY <2>1, <2>2
<1>3. Len(triggers) \in Nat
  BY TriggersType DEF AccountInv
<1> QED
  BY <1>1, <1>2, <1>3 DEF Triggers

LEMMA HeldWere ==
  ASSUME AccountInv, NEW b \in Boards, NEW k \in Held(b)
  PROVE  k \in 1..Len(triggers)
<1>1. k \in Triggers /\ k <= Len(triggers)
  BY HeldType DEF AccountInv, PlacesInv
<1>2. Len(triggers) \in Nat
  BY TriggersType DEF AccountInv
<1> QED
  BY <1>1, <1>2 DEF Triggers

(* A step that takes no event in hand and leaves the triggers that were.     *)
LEMMA PairsStay ==
  ASSUME AccountInv, MatchInv,
         \A k \in 1..Len(triggers) : triggers'[k] = triggers[k],
         handled' \subseteq handled \cup {CurrentEvent},
         CurrentEvent' \in {CurrentEvent, NoEvent}
  PROVE  PairsAreOneTrigger'
<1> SUFFICES ASSUME NEW g \in handled' \cup {CurrentEvent'}, g[0] # 0, g[1] # 0
             PROVE  OneTrigger(g)'
  BY DEF PairsAreOneTrigger
<1>1. g \in handled \cup {CurrentEvent}
  BY NoEventType, BoardsAreTwo
<1>2. g[0] \in 1..Len(triggers) /\ g[1] \in 1..Len(triggers)
  BY <1>1, HandledWere, BoardsAreTwo
<1>3. OneTrigger(g)
  BY <1>1 DEF MatchInv, PairsAreOneTrigger
<1> QED
  BY <1>2, <1>3 DEF OneTrigger

(* A step that leaves the event in hand and BoardEvents alone.               *)
LEMMA MissedStays ==
  ASSUME AccountInv, MatchInv,
         \A k \in 1..Len(triggers) : triggers'[k] = triggers[k],
         UNCHANGED <<at, i, CurrentEvent, BoardEvents>>
  PROVE  NoPartnerMissed'
<1> DEFINE k == CurrentEvent[i]
<1> SUFFICES ASSUME at = "filter", CurrentEvent[Other(i)] = 0,
                    k \in ToSet(BoardEvents[Other(i)])
             PROVE  TTT(0, k)' > TTT(1, k)'
  BY DEF NoPartnerMissed
<1>1. TTT(0, k) > TTT(1, k)
  BY DEF MatchInv, NoPartnerMissed
<1>2. k \in 1..Len(triggers)
  BY HeldWere, BoardsAreTwo DEF AccountInv, TypeOK, Held
<1>3. TTT(0, k)' = TTT(0, k) /\ TTT(1, k)' = TTT(1, k)
  <2>1. k' = k /\ triggers'[k] = triggers[k]
    BY <1>2
  <2> HIDE DEF k
  <2> QED
    BY <2>1 DEF TTT
<1> QED
  BY <1>1, <1>3

LEMMA TriggersStayTrigger ==
  ASSUME AccountInv, Trigger
  PROVE  \A k \in 1..Len(triggers) : triggers'[k] = triggers[k]
<1> DEFINE Trigs == [run : 1..MaxRuns, time : Nat]
<1>1. TypeOK
  BY DEF AccountInv
<1>2. PICK gap \in Gaps : triggers' = Append(triggers, [run |-> run, time |-> LastTime + gap])
  BY DEF Trigger
<1> DEFINE new == [run |-> run, time |-> LastTime + gap]
<1>3. new \in Trigs /\ triggers \in Seq(Trigs)
  BY <1>1, LastTimeType, EventMatchingAssumption DEF TypeOK
<1> HIDE DEF Trigs, new
<1> QED
  BY <1>2, <1>3, AppendProperties, LenProperties DEF new

LEMMA PairsMatch ==
  ASSUME AccountInv, MatchInv, Match
  PROVE  MatchInv'
<1> DEFINE o == Other(i)
           k == FrontEvent
           j == BoardEvents[o][FirstMatch]
<1>1. /\ TypeOK /\ i \in Boards /\ o \in Boards /\ o # i
      /\ (i = 0 /\ o = 1) \/ (i = 1 /\ o = 0)
  <2>1. TypeOK /\ i \in Boards
    BY DEF AccountInv, TypeOK
  <2> QED
    BY <2>1, BoardsAreTwo DEF Other
<1>2. /\ BoardEvents[i] # <<>> /\ FirstMatch # 0
      /\ UNCHANGED <<run, triggers, i, handled>>
  BY DEF Match, Matching, acquisition, outcome
<1>3. CurrentEvent'[i] = k /\ CurrentEvent'[o] = j
  BY <1>1, MatchType
<1>4. k \in 1..Len(triggers) /\ j \in 1..Len(triggers)
  <2>1. k \in ToSet(BoardEvents[i]) /\ j \in ToSet(BoardEvents[o])
    BY <1>1, <1>2, FrontEventType, PartnerType
  <2>2. k \in Held(i) /\ j \in Held(o)
    BY <2>1 DEF Held
  <2> QED
    BY <1>1, <2>2, HeldWere
<1>5. Distance(TTT(i, k), TTT(o, j)) < MatchingTTTRequirement
  <2> DEFINE found == {n \in 1..Len(BoardEvents[o]) : Matches(i, FrontEvent, BoardEvents[o][n])}
  <2>1. found # {} /\ FirstMatch = Min(found)
    BY <1>2 DEF FirstMatch
  <2>2. found \subseteq Nat
    OBVIOUS
  <2>3. FirstMatch \in found
    <3> HIDE DEF found
    <3> QED
      BY <2>1, <2>2, LeastOfSet
  <2>4. Matches(i, k, j)
    BY <2>3
  <2> QED
    BY <2>4 DEF Matches
<1>6. OneTrigger(CurrentEvent')
  <2>1. CASE i = 0 /\ o = 1
    <3>1. CurrentEvent'[0] = k /\ CurrentEvent'[1] = j
      BY <1>3, <2>1
    <3>2. Distance(TTT(0, k), TTT(1, j)) < MatchingTTTRequirement
      BY <1>5, <2>1
    <3> HIDE DEF o, k, j
    <3>3. \/ Distance(triggers[k].time, triggers[j].time) < Window
          \/ Distance(triggers[k].time, triggers[j].time) > Rollover - Window
      BY <1>1, <1>4, <3>2, MatchesAreOneTrigger
    <3> QED
      BY <3>1, <3>3 DEF OneTrigger
  <2>2. CASE i = 1 /\ o = 0
    <3>1. CurrentEvent'[0] = j /\ CurrentEvent'[1] = k
      BY <1>3, <2>2
    <3>2. Distance(TTT(1, k), TTT(0, j)) < MatchingTTTRequirement
      BY <1>5, <2>2
    <3> HIDE DEF o, k, j
    <3>3. TTT(1, k) \in Int /\ TTT(0, j) \in Int
      BY <1>1, <1>4, Tags
    <3>4. Distance(TTT(0, j), TTT(1, k)) < MatchingTTTRequirement
      BY <3>2, <3>3, DistanceSymmetric
    <3>5. \/ Distance(triggers[j].time, triggers[k].time) < Window
          \/ Distance(triggers[j].time, triggers[k].time) > Rollover - Window
      BY <1>1, <1>4, <3>4, MatchesAreOneTrigger
    <3> QED
      BY <3>1, <3>5 DEF OneTrigger
  <2> QED
    BY <1>1, <2>1, <2>2
<1>7. PairsAreOneTrigger'
  <2> SUFFICES ASSUME NEW g \in handled \cup {CurrentEvent'}, g[0] # 0, g[1] # 0
               PROVE  OneTrigger(g)'
    BY <1>2 DEF PairsAreOneTrigger
  <2>1. OneTrigger(g)
    BY <1>6 DEF MatchInv, PairsAreOneTrigger
  <2> QED
    BY <1>2, <2>1 DEF OneTrigger
<1>8. NoPartnerMissed'
  BY <1>2, <1>3, <1>4 DEF NoPartnerMissed
<1> QED
  BY <1>7, <1>8 DEF MatchInv

LEMMA PairsTakeIncomplete ==
  ASSUME AccountInv, MatchInv, TakeIncomplete
  PROVE  MatchInv'
<1> DEFINE o == Other(i)
           k == FrontEvent
<1>1. /\ TypeOK /\ i \in Boards /\ o \in Boards /\ o # i
      /\ (i = 0 /\ o = 1) \/ (i = 1 /\ o = 0)
  <2>1. TypeOK /\ i \in Boards
    BY DEF AccountInv, TypeOK
  <2> QED
    BY <2>1, BoardsAreTwo DEF Other
<1>2. /\ BoardEvents[i] # <<>> /\ FirstMatch = 0
      /\ UNCHANGED <<run, triggers, i, handled>>
  BY DEF TakeIncomplete, Matching, acquisition, outcome
<1>3. /\ CurrentEvent'[i] = k /\ CurrentEvent'[o] = 0
      /\ BoardEvents'[o] = BoardEvents[o]
  BY <1>1, NoEventType DEF TakeIncomplete, GlobalEvents, TypeOK
<1>4. PairsAreOneTrigger'
  <2> SUFFICES ASSUME NEW g \in handled \cup {CurrentEvent'}, g[0] # 0, g[1] # 0
               PROVE  OneTrigger(g)'
    BY <1>2 DEF PairsAreOneTrigger
  <2>1. g \in handled
    BY <1>1, <1>3
  <2>2. OneTrigger(g)
    BY <2>1 DEF MatchInv, PairsAreOneTrigger
  <2> QED
    BY <1>2, <2>2 DEF OneTrigger
<1>5. ASSUME k \in ToSet(BoardEvents[o])
      PROVE  TTT(0, k) > TTT(1, k)
  <2>1. k \in 1..Len(triggers)
    BY <1>1, <1>5, HeldWere DEF Held
  <2>2. ~Matches(i, k, k)
    <3> DEFINE found == {n \in 1..Len(BoardEvents[o]) : Matches(i, FrontEvent, BoardEvents[o][n])}
    <3>1. BoardEvents[o] \in Seq(Triggers)
      BY <1>1, HeldType
    <3>2. PICK n \in 1..Len(BoardEvents[o]) : BoardEvents[o][n] = k
      BY <1>5, <3>1, ElementsOfSeq
    <3>3. found = {}
      <4>1. SUFFICES ASSUME found # {} PROVE FALSE
        OBVIOUS
      <4>2. FirstMatch = Min(found)
        BY <4>1 DEF FirstMatch
      <4>3. found \subseteq Nat /\ 0 \notin found
        OBVIOUS
      <4> HIDE DEF found
      <4>4. Min(found) \in found
        BY <4>1, <4>3, LeastOfSet
      <4> QED
        BY <1>2, <4>2, <4>3, <4>4
    <3> QED
      BY <3>2, <3>3
  <2>3. ~(Distance(TTT(i, k), TTT(o, k)) < MatchingTTTRequirement)
    BY <2>2 DEF Matches
  <2> HIDE DEF o, k
  <2>4. TTT(0, k) \in Nat /\ TTT(1, k) \in Nat
    BY <1>1, <2>1, Tags
  <2>5. ~(Distance(TTT(0, k), TTT(1, k)) < MatchingTTTRequirement)
    <3>1. Distance(TTT(1, k), TTT(0, k)) = Distance(TTT(0, k), TTT(1, k))
      BY <2>4, DistanceSymmetric
    <3>2. CASE i = 0 /\ o = 1
      BY <2>3, <3>2
    <3>3. CASE i = 1 /\ o = 0
      BY <2>3, <3>1, <3>3
    <3> QED
      BY <1>1, <3>2, <3>3
  <2>6. SUFFICES ASSUME TTT(0, k) <= TTT(1, k) PROVE FALSE
    BY <2>4
  <2>7. triggers[k].time \in Nat
    BY <1>1, <2>1, TriggersType
  <2>8. Distance(TTT(0, k), TTT(1, k)) < MatchingTTTRequirement
    BY <1>1, <2>1, <2>6, <2>7, Tags, TagsOfOneTrigger, EventMatchingAssumption
  <2> QED
    BY <2>5, <2>8
<1>6. NoPartnerMissed'
  BY <1>2, <1>3, <1>5 DEF NoPartnerMissed, TTT
<1> QED
  BY <1>4, <1>6 DEF MatchInv

LEMMA MatchInit == Init => MatchInv
<1> SUFFICES ASSUME Init PROVE MatchInv
  OBVIOUS
<1>1. \A g \in handled \cup {CurrentEvent} : g[0] = 0
  BY NoEventType, BoardsAreTwo DEF Init
<1> QED
  BY <1>1 DEF Init, MatchInv, PairsAreOneTrigger, NoPartnerMissed

(* The steps that match nothing.                                             *)
LEMMA MatchStays ==
  ASSUME AccountInv, MatchInv,
         \A k \in 1..Len(triggers) : triggers'[k] = triggers[k],
         handled' \subseteq handled \cup {CurrentEvent},
         CurrentEvent' \in {CurrentEvent, NoEvent},
         at' # "filter" \/ UNCHANGED <<at, i, CurrentEvent, BoardEvents>>
  PROVE  MatchInv'
<1>1. PairsAreOneTrigger'
  BY PairsStay
<1>2. NoPartnerMissed'
  <2>1. CASE at' # "filter"
    BY <2>1 DEF NoPartnerMissed
  <2>2. CASE UNCHANGED <<at, i, CurrentEvent, BoardEvents>>
    BY <2>2, MissedStays
  <2> QED
    BY <2>1, <2>2
<1> QED
  BY <1>1, <1>2 DEF MatchInv

LEMMA MatchStep == AccountInv /\ MatchInv /\ [Next]_vars => MatchInv'
<1> SUFFICES ASSUME AccountInv, MatchInv, [Next]_vars PROVE MatchInv'
  OBVIOUS
<1>1. CASE Trigger
  BY <1>1, TriggersStayTrigger, MatchStays DEF Trigger, writer, outcome
<1>2. CASE Tick \/ NewRun \/ StartFlush \/ PullDone \/ BoardDone \/ Pull \/ PutBack
           \/ UNCHANGED vars
  <2>1. /\ triggers' = triggers /\ run' \in {run, run + 1} /\ handled' = handled
        /\ CurrentEvent' \in {CurrentEvent, NoEvent}
    BY <1>2 DEF Tick, NewRun, StartFlush, PullDone, BoardDone, Pull, PutBack, vars,
                acquisition, writer, outcome
  <2>2. at' # "filter" \/ UNCHANGED <<at, i, CurrentEvent, BoardEvents>>
    BY <1>2 DEF Tick, NewRun, StartFlush, PullDone, BoardDone, Pull, PutBack, vars,
                acquisition, writer, outcome, NextBoard, Matching
  <2> QED
    BY <2>1, <2>2, MatchStays
<1>3. ASSUME NEW b \in Boards, ReaderPush(b) \/ ReaderDrops(b)
      PROVE  MatchInv'
  <2>1. UNCHANGED <<triggers, run, handled, CurrentEvent, at, i, BoardEvents>>
    BY <1>3 DEF ReaderPush, ReaderDrops, writer, outcome
  <2> QED
    BY <2>1, MatchStays
<1>4. CASE Reject \/ Record
  <2>1. /\ UNCHANGED <<triggers, run>> /\ handled' = handled \cup {CurrentEvent}
        /\ CurrentEvent' = NoEvent /\ at' # "filter"
    BY <1>4 DEF Reject, Record, Rotate, NextBoard, acquisition
  <2> QED
    BY <2>1, MatchStays
<1> QED
  BY <1>1, <1>2, <1>3, <1>4, PairsMatch, PairsTakeIncomplete DEF Next, Flush

(* Two events that are recorded together come from triggers no further apart *)
(* than the window and the skew, unless they are of different runs or almost *)
(* a rollover apart, whatever the triggers' times.                           *)
THEOREM OneTriggerPairs == Spec => []PairsAreOneTrigger
<1>1. MatchInv => PairsAreOneTrigger
  BY DEF MatchInv
<1> QED
  BY <1>1, AccountInit, AccountStep, MatchInit, MatchStep, PTL DEF Spec

(* The search overlooks no partner that was pulled in the same flush, but    *)
(* for the triggers that came while only one of the clocks had rolled over.  *)
THEOREM NoPartnerOverlooked == Spec => []NoPartnerMissed
<1>1. MatchInv => NoPartnerMissed
  BY DEF MatchInv
<1> QED
  BY <1>1, AccountInit, AccountStep, MatchInit, MatchStep, PTL DEF Spec

=============================================================================
