-------------------------- MODULE AdmissionProofs ---------------------------
(***************************************************************************)
(* Theorems about the two graph algorithms, for every finite graph: the     *)
(* order that topological_order finds and the cycles that assert_acyclic    *)
(* finds are the right ones.  And theorems about admission, which relies on *)
(* them, for every set of tasks, runs and processes and whatever is planned *)
(* and proposed, as long as two processes do not admit the same id at once  *)
(* (with SameIds they may, and the second save overwrites the first).       *)
(***************************************************************************)
EXTENDS Admission, FiniteSetTheorems, SequenceTheorems, WellFoundedInduction, TLAPS

-----------------------------------------------------------------------------
(* Induction, by the least counterexample.                                  *)

LEMMA Least ==
  ASSUME NEW T \in SUBSET Nat, T # {}
  PROVE  \E n \in T : \A m \in T : n <= m
<1> DEFINE R == {p \in Nat \X Nat : p[1] < p[2]}
<1>1. IsWellFoundedOn(R, Nat)
  BY NatLessThanWellFounded DEF OpToRel
<1>2. \A x, y \in Nat : <<y, x>> \in R <=> y < x
  OBVIOUS
<1> HIDE DEF R
<1>3. PICK x \in T : \A y \in T : ~(<<y, x>> \in R)
  BY <1>1, WFMin
<1>4. x \in Nat /\ \A y \in T : y \in Nat /\ ~(y < x)
  BY <1>2, <1>3
<1> QED
  BY <1>4

LEMMA Induction ==
  ASSUME NEW T, 0 \in T, \A n \in Nat : n \in T => n + 1 \in T
  PROVE  Nat \subseteq T
<1>1. SUFFICES ASSUME Nat \ T # {} PROVE FALSE
  OBVIOUS
<1>2. PICK n \in Nat \ T : \A m \in Nat \ T : n <= m
  BY <1>1, Least
<1>3. n - 1 \in Nat /\ n - 1 \in T
  BY <1>2
<1> QED
  BY <1>2, <1>3

Repeats(S, start, step) ==
  {f \in [Nat -> S] : f[0] = start /\ \A n \in Nat : f[n + 1] = step[f[n]]}

\* Any step can be repeated any number of times.
LEMMA Repetition ==
  ASSUME NEW S, NEW start \in S, NEW step \in [S -> S]
  PROVE  Repeats(S, start, step) # {}
<1> DEFINE Starts(n, f) == /\ f \in [0..n -> S] /\ f[0] = start
                           /\ \A i \in 0..n-1 : f[i + 1] = step[f[i]]
           T == {n \in Nat : \E f : Starts(n, f)}
<1>1. Nat \subseteq T
  <2>1. 0 \in T
    <3>1. Starts(0, [i \in 0..0 |-> start])
      OBVIOUS
    <3> QED
      BY <3>1
  <2>2. ASSUME NEW n \in Nat, n \in T PROVE n + 1 \in T
    <3>1. PICK f : Starts(n, f)
      BY <2>2
    <3> DEFINE g == [i \in 0..n+1 |-> IF i = n + 1 THEN step[f[n]] ELSE f[i]]
    <3>2. f[n] \in S /\ step[f[n]] \in S
      BY <3>1
    <3>3. g \in [0..n+1 -> S] /\ g[0] = start
      BY <3>1, <3>2
    <3>4. ASSUME NEW i \in 0..n PROVE g[i + 1] = step[g[i]]
      BY <3>1
    <3>5. Starts(n + 1, g)
      BY <3>3, <3>4
    <3> HIDE DEF Starts, g
    <3> QED
      BY <3>5
  <2> HIDE DEF T
  <2> QED
    BY <2>1, <2>2, Induction
<1>2. ASSUME NEW n \in Nat, NEW m \in Nat, NEW f, NEW g, Starts(n, f), Starts(m, g)
      PROVE  \A i \in Nat : i <= n /\ i <= m => f[i] = g[i]
  <2> DEFINE U == {i \in Nat : i <= n /\ i <= m => f[i] = g[i]}
  <2>1. 0 \in U
    BY <1>2
  <2>2. ASSUME NEW i \in Nat, i \in U PROVE i + 1 \in U
    <3>1. CASE i + 1 <= n /\ i + 1 <= m
      <4>1. i \in 0..n-1 /\ i \in 0..m-1 /\ f[i] = g[i]
        BY <2>2, <3>1
      <4>2. f[i + 1] = g[i + 1]
        BY <1>2, <4>1
      <4> QED
        BY <4>2
    <3>2. CASE ~(i + 1 <= n /\ i + 1 <= m)
      BY <3>2
    <3> QED
      BY <3>1, <3>2
  <2>3. Nat \subseteq U
    <3> HIDE DEF U
    <3> QED
      BY <2>1, <2>2, Induction
  <2> QED
    BY <2>3
<1> DEFINE from(n) == CHOOSE f : Starts(n, f)
           all == [n \in Nat |-> from(n)[n]]
<1>3. \A n \in Nat : Starts(n, from(n))
  BY <1>1
<1>4. ASSUME NEW n \in Nat
      PROVE  all[n] \in S /\ all[n + 1] = step[all[n]]
  <2>1. Starts(n, from(n)) /\ Starts(n + 1, from(n + 1))
    <3> HIDE DEF from, Starts
    <3> QED
      BY <1>3
  <2>2. from(n + 1)[n] = from(n)[n]
    <3> HIDE DEF from, Starts
    <3>1. \A i \in Nat : i <= n /\ i <= n + 1 => from(n)[i] = from(n + 1)[i]
      BY <1>2, <2>1
    <3> QED
      BY <3>1
  <2>3. n \in 0..(n + 1) - 1 /\ n \in 0..n /\ n + 1 \in Nat
    OBVIOUS
  <2>4. from(n + 1)[n + 1] = step[from(n + 1)[n]] /\ from(n)[n] \in S
    <3> HIDE DEF from
    <3> QED
      BY <2>1, <2>3
  <2>5. all[n] = from(n)[n] /\ all[n + 1] = from(n + 1)[n + 1]
    <3> HIDE DEF from
    <3> QED
      BY <2>3
  <2> HIDE DEF all, from
  <2> QED
    BY <2>2, <2>4, <2>5
<1>5. all[0] = start
  <2>1. Starts(0, from(0))
    BY <1>3
  <2>2. all[0] = from(0)[0]
    <3> HIDE DEF from
    <3> QED
      OBVIOUS
  <2> HIDE DEF all, from
  <2> QED
    BY <2>1, <2>2
<1>6. all \in [Nat -> S]
  <2>1. all = [n \in Nat |-> all[n]]
    <3> HIDE DEF from
    <3> QED
      OBVIOUS
  <2> HIDE DEF all
  <2> QED
    BY <1>4, <2>1
<1> HIDE DEF all
<1> QED
  BY <1>4, <1>5, <1>6 DEF Repeats

-----------------------------------------------------------------------------
(* Sequences.                                                               *)

LEMMA HeadTail ==
  ASSUME NEW S, NEW s \in Seq(S), s # <<>>
  PROVE  /\ Head(s) \in S /\ Tail(s) \in Seq(S)
         /\ ToSet(s) = {Head(s)} \cup ToSet(Tail(s))
<1>1. /\ Head(s) = s[1] /\ Len(Tail(s)) = Len(s) - 1 /\ Len(s) \in Nat \ {0}
      /\ DOMAIN s = 1..Len(s) /\ DOMAIN Tail(s) = 1..(Len(s) - 1)
      /\ Tail(s) \in Seq(S) /\ s[1] \in S
      /\ \A i \in 1..(Len(s) - 1) : Tail(s)[i] = s[i + 1]
  OBVIOUS
<1>2. ASSUME NEW i \in DOMAIN s PROVE s[i] \in {Head(s)} \cup ToSet(Tail(s))
  <2>1. CASE i = 1
    BY <2>1, <1>1
  <2>2. CASE i # 1
    <3>1. i - 1 \in 1..(Len(s) - 1) /\ (i - 1) + 1 = i
      BY <2>2, <1>1, <1>2
    <3>2. s[i] = Tail(s)[i - 1]
      BY <1>1, <3>1
    <3> QED
      BY <1>1, <3>1, <3>2 DEF ToSet
  <2> QED
    BY <2>1, <2>2
<1>3. ASSUME NEW i \in DOMAIN Tail(s) PROVE Tail(s)[i] \in ToSet(s)
  BY <1>1, <1>3 DEF ToSet
<1>4. Head(s) \in ToSet(s)
  BY <1>1 DEF ToSet
<1> QED
  BY <1>1, <1>2, <1>3, <1>4 DEF ToSet

LEMMA Removal ==
  ASSUME NEW S, NEW s \in Seq(S), NEW i \in DOMAIN s
  PROVE  /\ RemoveAt(s, i) \in Seq(S)
         /\ Len(RemoveAt(s, i)) = Len(s) - 1
         /\ \A k \in 1..Len(s) - 1 :
              RemoveAt(s, i)[k] = IF k < i THEN s[k] ELSE s[k + 1]
<1>1. Len(s) \in Nat /\ i \in 1..Len(s) /\ \A k \in 1..Len(s) : s[k] \in S
  OBVIOUS
<1> DEFINE low == SubSeq(s, 1, i - 1)
           high == SubSeq(s, i + 1, Len(s))
<1>2. /\ low \in Seq(S) /\ Len(low) = i - 1
      /\ \A k \in 1..i - 1 : low[k] = s[k]
  <2>1. /\ low \in Seq(S) /\ Len(low) = IF 1 <= i - 1 THEN (i - 1) - 1 + 1 ELSE 0
        /\ \A k \in 1..(i - 1) - 1 + 1 : low[k] = s[1 + k - 1]
    BY <1>1, SubSeqProperties
  <2> HIDE DEF low
  <2> QED
    BY <1>1, <2>1
<1>3. /\ high \in Seq(S) /\ Len(high) = Len(s) - i
      /\ \A k \in 1..Len(s) - i : high[k] = s[i + k]
  <2>1. /\ high \in Seq(S) /\ Len(high) = IF i + 1 <= Len(s) THEN Len(s) - (i + 1) + 1 ELSE 0
        /\ \A k \in 1..Len(s) - (i + 1) + 1 : high[k] = s[(i + 1) + k - 1]
    BY <1>1, SubSeqProperties
  <2> HIDE DEF high
  <2> QED
    BY <1>1, <2>1
<1>4. RemoveAt(s, i) = low \o high
  BY DEF RemoveAt
<1> HIDE DEF low, high
<1>5. /\ low \o high \in Seq(S) /\ Len(low \o high) = Len(s) - 1
      /\ \A k \in 1..Len(s) - 1 :
           (low \o high)[k] = IF k <= i - 1 THEN low[k] ELSE high[k - (i - 1)]
  <2>1. low \in Seq(S) /\ high \in Seq(S)
    BY <1>2, <1>3
  <2>2. /\ low \o high \in Seq(S) /\ Len(low \o high) = Len(low) + Len(high)
        /\ \A k \in 1..Len(low) + Len(high) :
             (low \o high)[k] = IF k <= Len(low) THEN low[k] ELSE high[k - Len(low)]
    BY <2>1, ConcatProperties
  <2>3. Len(low) + Len(high) = Len(s) - 1
    BY <1>1, <1>2, <1>3
  <2> QED
    BY <1>2, <2>2, <2>3
<1>6. ASSUME NEW k \in 1..Len(s) - 1
      PROVE  (low \o high)[k] = IF k < i THEN s[k] ELSE s[k + 1]
  <2>1. CASE k < i
    <3>1. k \in 1..i - 1 /\ k <= i - 1
      BY <1>1, <2>1
    <3>2. (low \o high)[k] = low[k] /\ low[k] = s[k]
      BY <1>2, <1>5, <3>1
    <3> QED
      BY <2>1, <3>2
  <2>2. CASE ~(k < i)
    <3>1. k - (i - 1) \in 1..Len(s) - i /\ i + (k - (i - 1)) = k + 1
      BY <1>1, <2>2
    <3>2. high[k - (i - 1)] = s[k + 1]
      BY <1>3, <3>1
    <3>3. ~(k <= i - 1) /\ (low \o high)[k] = high[k - (i - 1)]
      BY <1>1, <1>5, <2>2
    <3> QED
      BY <2>2, <3>2, <3>3
  <2> QED
    BY <2>1, <2>2
<1> QED
  BY <1>4, <1>5, <1>6

-----------------------------------------------------------------------------
(* The order.                                                               *)

Rounds(known) == [ordered : Seq(known), pending : Seq(known)]
Free(g, known, s) ==
  {i \in DOMAIN s.pending :
     \A d \in ToSet(g[s.pending[i]]) : d \in ToSet(s.ordered) \/ d \notin known}

\* EmitNext moves one task that waits for nothing on the list, if there is one.
LEMMA Emission ==
  ASSUME NEW g, NEW known, NEW s \in Rounds(known), Free(g, known, s) # {}
  PROVE  \E i \in Free(g, known, s) :
           EmitNext(g, known, s) =
             [ordered |-> Append(s.ordered, s.pending[i]), pending |-> RemoveAt(s.pending, i)]
<1> DEFINE free == Free(g, known, s)
<1>1. free \in SUBSET Nat /\ free # {}
  BY DEF Free, Rounds
<1>2. \E i \in free : \A j \in free : i <= j
  <2> HIDE DEF free
  <2> QED
    BY <1>1, Least
<1> DEFINE least == CHOOSE i \in free : \A j \in free : i <= j
<1>3. least \in free
  <2> HIDE DEF free
  <2> QED
    BY <1>2
<1>4. EmitNext(g, known, s) =
        [ordered |-> Append(s.ordered, s.pending[least]), pending |-> RemoveAt(s.pending, least)]
  BY <1>1 DEF EmitNext, Free
<1> HIDE DEF free, least
<1> QED
  BY <1>3, <1>4 DEF free

LEMMA NoEmission ==
  ASSUME NEW g, NEW known, NEW s, Free(g, known, s) = {}
  PROVE  EmitNext(g, known, s) = s
BY DEF EmitNext, Free

\* What holds after every round.
InOrder(g, tasks, s) ==
  /\ s \in Rounds(ToSet(tasks))
  /\ Len(s.ordered) + Len(s.pending) = Len(tasks)
  /\ ToSet(s.ordered) \cup ToSet(s.pending) = ToSet(tasks)
  /\ \A j \in DOMAIN s.ordered : \A d \in ToSet(g[s.ordered[j]]) \cap ToSet(tasks) :
       \E k \in 1..j - 1 : s.ordered[k] = d

LEMMA RoundHolds ==
  ASSUME NEW g, NEW S, NEW tasks \in Seq(S), NEW s, InOrder(g, tasks, s)
  PROVE  /\ InOrder(g, tasks, EmitNext(g, ToSet(tasks), s))
         /\ Free(g, ToSet(tasks), s) # {} =>
              Len(EmitNext(g, ToSet(tasks), s).pending) = Len(s.pending) - 1
<1> DEFINE known == ToSet(tasks)
           next == EmitNext(g, known, s)
           ordered == s.ordered
           pending == s.pending
<1>1. CASE Free(g, known, s) = {}
  BY <1>1, NoEmission
<1>2. CASE Free(g, known, s) # {}
  <2>1. s \in Rounds(known)
    BY DEF InOrder
  <2>2. PICK i \in Free(g, known, s) :
          next = [ordered |-> Append(ordered, pending[i]), pending |-> RemoveAt(pending, i)]
    <3> HIDE DEF known
    <3> QED
      BY <1>2, <2>1, Emission
  <2>3. /\ ordered \in Seq(known) /\ pending \in Seq(known) /\ i \in DOMAIN pending
        /\ \A d \in ToSet(g[pending[i]]) : d \in ToSet(ordered) \/ d \notin known
        /\ DOMAIN ordered = 1..Len(ordered) /\ DOMAIN pending = 1..Len(pending)
        /\ Len(ordered) \in Nat /\ Len(pending) \in Nat /\ pending[i] \in known
        /\ Len(ordered) + Len(pending) = Len(tasks)
        /\ ToSet(ordered) \cup ToSet(pending) = known
    BY <2>1 DEF InOrder, Rounds, Free
  <2> DEFINE longer == Append(ordered, pending[i])
             shorter == RemoveAt(pending, i)
  <2>4. /\ next.ordered = longer /\ next.pending = shorter
        /\ next = [ordered |-> longer, pending |-> shorter]
    BY <2>2
  <2> HIDE DEF known, next
  <2>5. /\ longer \in Seq(known) /\ Len(longer) = Len(ordered) + 1
        /\ DOMAIN longer = 1..Len(ordered) + 1
        /\ \A k \in 1..Len(ordered) : longer[k] = ordered[k]
        /\ longer[Len(ordered) + 1] = pending[i]
    BY <2>3, AppendProperties, LenProperties
  <2>6. /\ shorter \in Seq(known) /\ Len(shorter) = Len(pending) - 1
        /\ DOMAIN shorter = 1..Len(pending) - 1
        /\ \A k \in 1..Len(pending) - 1 :
             shorter[k] = IF k < i THEN pending[k] ELSE pending[k + 1]
    <3>1. /\ shorter \in Seq(known) /\ Len(shorter) = Len(pending) - 1
          /\ \A k \in 1..Len(pending) - 1 :
               shorter[k] = IF k < i THEN pending[k] ELSE pending[k + 1]
      <4>1. pending \in Seq(known) /\ i \in DOMAIN pending
        BY <2>3
      <4> HIDE DEF pending
      <4> QED
        BY <4>1, Removal
    <3> QED
      BY <3>1, LenProperties
  <2> HIDE DEF longer, shorter
  <2>7. ToSet(longer) = ToSet(ordered) \cup {pending[i]}
    <3>1. ToSet(longer) = {longer[k] : k \in 1..Len(ordered) + 1}
      BY <2>5 DEF ToSet
    <3>2. ToSet(ordered) = {ordered[k] : k \in 1..Len(ordered)}
      BY <2>3 DEF ToSet
    <3>3. ASSUME NEW d \in ToSet(longer) PROVE d \in ToSet(ordered) \cup {pending[i]}
      <4>1. PICK k \in 1..Len(ordered) + 1 : d = longer[k]
        BY <3>1
      <4>2. CASE k \in 1..Len(ordered)
        BY <2>5, <3>2, <4>1, <4>2
      <4>3. CASE k = Len(ordered) + 1
        BY <2>5, <4>1, <4>3
      <4> QED
        BY <2>3, <4>2, <4>3
    <3>4. ASSUME NEW d \in ToSet(ordered) PROVE d \in ToSet(longer)
      <4>1. PICK k \in 1..Len(ordered) : d = ordered[k]
        BY <3>2
      <4>2. k \in 1..Len(ordered) + 1 /\ longer[k] = d
        BY <2>3, <2>5, <4>1
      <4> QED
        BY <3>1, <4>2
    <3>5. pending[i] \in ToSet(longer)
      <4>1. Len(ordered) + 1 \in 1..Len(ordered) + 1
        BY <2>3
      <4> QED
        BY <2>5, <3>1, <4>1
    <3> QED
      BY <3>3, <3>4, <3>5
  <2>8. ToSet(pending) = ToSet(shorter) \cup {pending[i]}
    <3>1. ToSet(shorter) = {shorter[k] : k \in 1..Len(pending) - 1}
      BY <2>6 DEF ToSet
    <3>2. ToSet(pending) = {pending[k] : k \in 1..Len(pending)}
      BY <2>3 DEF ToSet
    <3>3. ASSUME NEW d \in ToSet(shorter) PROVE d \in ToSet(pending)
      <4>1. PICK k \in 1..Len(pending) - 1 : d = shorter[k]
        BY <3>1
      <4>2. k \in 1..Len(pending) /\ k + 1 \in 1..Len(pending)
        BY <2>3
      <4> QED
        BY <2>6, <3>2, <4>1, <4>2
    <3>4. ASSUME NEW d \in ToSet(pending), d # pending[i] PROVE d \in ToSet(shorter)
      <4>1. PICK k \in 1..Len(pending) : d = pending[k]
        BY <3>2
      <4>2. CASE k < i
        <5>1. k \in 1..Len(pending) - 1 /\ shorter[k] = d
          BY <2>3, <2>6, <4>1, <4>2
        <5> QED
          BY <3>1, <5>1
      <4>3. CASE ~(k < i)
        <5>1. k # i
          BY <3>4, <4>1
        <5>2. k - 1 \in 1..Len(pending) - 1 /\ ~(k - 1 < i) /\ (k - 1) + 1 = k
          BY <2>3, <4>3, <5>1
        <5>3. shorter[k - 1] = d
          BY <2>6, <4>1, <5>2
        <5> QED
          BY <3>1, <5>2, <5>3
      <4> QED
        BY <4>2, <4>3
    <3>5. pending[i] \in ToSet(pending)
      BY <2>3, <3>2
    <3> QED
      BY <3>3, <3>4, <3>5
  <2>9. ASSUME NEW j \in DOMAIN longer, NEW d \in ToSet(g[longer[j]]) \cap known
        PROVE  \E k \in 1..j - 1 : longer[k] = d
    <3>1. CASE j = Len(ordered) + 1
      <4>1. d \in ToSet(ordered)
        BY <2>3, <2>5, <2>9, <3>1
      <4>2. PICK k \in 1..Len(ordered) : d = ordered[k]
        BY <2>3, <4>1 DEF ToSet
      <4> QED
        BY <2>3, <2>5, <3>1, <4>2
    <3>2. CASE j # Len(ordered) + 1
      <4>1. j \in 1..Len(ordered) /\ longer[j] = ordered[j]
        BY <2>3, <2>5, <3>2
      <4>2. PICK k \in 1..j - 1 : ordered[k] = d
        BY <2>3, <2>9, <4>1 DEF InOrder, known
      <4>3. k \in 1..Len(ordered)
        BY <2>3, <4>1
      <4> QED
        BY <2>5, <4>2, <4>3
    <3> QED
      BY <3>1, <3>2
  <2>10. InOrder(g, tasks, next)
    <3>1. next \in Rounds(known)
      BY <2>4, <2>5, <2>6 DEF Rounds
    <3>2. Len(longer) + Len(shorter) = Len(tasks)
      <4>1. Len(ordered) \in Nat /\ Len(pending) \in Nat /\ Len(ordered) + Len(pending) = Len(tasks)
        BY <2>3
      <4>2. Len(longer) = Len(ordered) + 1 /\ Len(shorter) = Len(pending) - 1
        BY <2>5, <2>6
      <4>3. \A a, b \in Nat : (a + 1) + (b - 1) = a + b
        OBVIOUS
      <4> QED
        BY <4>1, <4>2, <4>3
    <3>3. ToSet(longer) \cup ToSet(shorter) = known
      BY <2>3, <2>7, <2>8
    <3> QED
      BY <2>4, <2>9, <3>1, <3>2, <3>3 DEF InOrder, known
  <2>11. Len(next.pending) = Len(pending) - 1
    BY <2>4, <2>6
  <2> QED
    BY <1>2, <2>10, <2>11 DEF known, next
<1> QED
  BY <1>1, <1>2

\* Emitted is what its recursive definition says, and in order after every round.
LEMMA EmittedFacts ==
  ASSUME NEW g, NEW S, NEW tasks \in Seq(S)
  PROVE  /\ Emitted(tasks, g)[0].pending = tasks
         /\ \A n \in Nat : /\ InOrder(g, tasks, Emitted(tasks, g)[n])
                          /\ Emitted(tasks, g)[n + 1] =
                               EmitNext(g, ToSet(tasks), Emitted(tasks, g)[n])
<1> DEFINE known == ToSet(tasks)
           start == [ordered |-> <<>>, pending |-> tasks]
           States == {s \in Rounds(known) : InOrder(g, tasks, s)}
           step == [s \in States |-> EmitNext(g, known, s)]
           Equation(h) == h = [n \in Nat |-> IF n = 0 THEN start
                                              ELSE EmitNext(g, known, h[n - 1])]
<1>1. start \in States
  <2>1. tasks \in Seq(known) /\ <<>> \in Seq(known) /\ Len(<<>>) = 0 /\ DOMAIN <<>> = {}
    <3>1. Len(tasks) \in Nat /\ tasks \in [1..Len(tasks) -> S]
      BY LenProperties
    <3>2. tasks \in [1..Len(tasks) -> known]
      BY <3>1 DEF ToSet
    <3>3. tasks \in Seq(known)
      BY <3>1, <3>2, SeqDef
    <3> QED
      BY <3>3
  <2>2. ToSet(<<>>) = {} /\ Len(tasks) \in Nat
    BY LenProperties DEF ToSet
  <2>3. start \in Rounds(known) /\ start.ordered = <<>> /\ start.pending = tasks
    BY <2>1 DEF Rounds
  <2> HIDE DEF start
  <2>4. InOrder(g, tasks, start)
    BY <2>1, <2>2, <2>3 DEF InOrder
  <2> QED
    BY <2>3, <2>4
<1>2. step \in [States -> States]
  <2>1. ASSUME NEW s \in States PROVE EmitNext(g, known, s) \in States
    <3>1. InOrder(g, tasks, EmitNext(g, known, s))
      BY <2>1, RoundHolds
    <3> QED
      BY <3>1 DEF InOrder
  <2> HIDE DEF States
  <2> QED
    BY <2>1
<1>3. PICK h \in Repeats(States, start, step) : TRUE
  <2> HIDE DEF States, step, start
  <2> QED
    BY <1>1, <1>2, Repetition
<1>4. /\ h \in [Nat -> States] /\ h[0] = start
      /\ \A n \in Nat : h[n] \in States /\ h[n + 1] = EmitNext(g, known, h[n])
  <2> HIDE DEF States, start
  <2>1. h \in [Nat -> States] /\ h[0] = start /\ \A n \in Nat : h[n + 1] = step[h[n]]
    BY <1>3 DEF Repeats
  <2> QED
    BY <2>1
<1>5. Equation(h)
  <2>1. ASSUME NEW n \in Nat
        PROVE  h[n] = IF n = 0 THEN start ELSE EmitNext(g, known, h[n - 1])
    <3>1. CASE n = 0
      BY <1>4, <3>1
    <3>2. CASE n # 0
      <4>1. n - 1 \in Nat /\ (n - 1) + 1 = n
        BY <3>2
      <4>2. h[(n - 1) + 1] = EmitNext(g, known, h[n - 1])
        BY <1>4, <4>1
      <4> QED
        BY <3>2, <4>1, <4>2
    <3> QED
      BY <3>1, <3>2
  <2> HIDE DEF start, known, States
  <2> QED
    BY <1>4, <2>1
<1>6. Emitted(tasks, g) = CHOOSE f : Equation(f)
  BY DEF Emitted
<1> DEFINE e == Emitted(tasks, g)
<1>7. Equation(e)
  <2> HIDE DEF Equation
  <2> QED
    BY <1>5, <1>6
<1>8. e[0] = start /\ \A n \in Nat : e[n + 1] = EmitNext(g, known, e[n])
  <2> HIDE DEF e, start, known
  <2>1. \A n \in Nat : e[n] = IF n = 0 THEN start ELSE EmitNext(g, known, e[n - 1])
    BY <1>7
  <2>2. ASSUME NEW n \in Nat PROVE e[n + 1] = EmitNext(g, known, e[n])
    <3>1. n + 1 \in Nat /\ n + 1 # 0 /\ (n + 1) - 1 = n
      OBVIOUS
    <3>2. e[n + 1] = EmitNext(g, known, e[(n + 1) - 1])
      BY <2>1, <3>1
    <3> QED
      BY <3>1, <3>2
  <2> QED
    BY <2>1, <2>2
<1>9. \A n \in Nat : e[n] \in States
  <2> DEFINE T == {n \in Nat : e[n] \in States}
  <2>1. 0 \in T
    BY <1>1, <1>8
  <2>2. ASSUME NEW n \in Nat, n \in T PROVE n + 1 \in T
    <3>1. e[n] \in States /\ step[e[n]] \in States
      <4> HIDE DEF e, States, step
      <4> QED
        BY <1>2, <2>2
    <3>2. e[n + 1] = step[e[n]]
      <4> HIDE DEF e, States
      <4> QED
        BY <1>8, <3>1
    <3> HIDE DEF States, e, step
    <3> QED
      BY <3>1, <3>2
  <2>3. Nat \subseteq T
    <3> HIDE DEF T
    <3> QED
      BY <2>1, <2>2, Induction
  <2> QED
    BY <2>3
<1>10. start.pending = tasks
  OBVIOUS
<1>11. \A s \in States : InOrder(g, tasks, s)
  OBVIOUS
<1> HIDE DEF start, States
<1> QED
  BY <1>8, <1>9, <1>10, <1>11

LEMMA ListingFacts ==
  ASSUME NEW S, IsFiniteSet(S), NEW tasks \in SetToSeqs(S)
  PROVE  tasks \in Seq(S) /\ Len(tasks) = Cardinality(S) /\ ToSet(tasks) = S
<1> DEFINE n == Cardinality(S)
<1>1. n \in Nat /\ IsFiniteSet(1..n) /\ Cardinality(1..n) = n
  <2>1. n \in Nat
    BY FS_CardinalityType
  <2>2. n \in Int /\ 1 \in Int
    BY <2>1
  <2>3. IsFiniteSet(1..n) /\ Cardinality(1..n) = IF 1 > n THEN 0 ELSE n - 1 + 1
    BY <2>2, FS_Interval
  <2> QED
    BY <2>1, <2>3
<1>2. tasks \in [1..n -> S] /\ \A i, j \in 1..n : i # j => tasks[i] # tasks[j]
  BY DEF SetToSeqs
<1> HIDE DEF n
<1>3. tasks \in Injection(1..n, S)
  BY <1>2 DEF Injection, IsInjective
<1>4. tasks \in Surjection(1..n, S)
  BY <1>1, <1>3, FS_Injection DEF n
<1>5. \A t \in S : \E i \in 1..n : tasks[i] = t
  BY <1>4 DEF Surjection
<1>6. tasks \in Seq(S)
  BY <1>1, <1>2, SeqDef
<1>7. Len(tasks) = n /\ DOMAIN tasks = 1..n
  <2>1. Len(tasks) \in Nat /\ DOMAIN tasks = 1..Len(tasks)
    BY <1>6, LenProperties
  <2>2. DOMAIN tasks = 1..n
    BY <1>2
  <2>3. \A k \in Nat : k \in 1..Len(tasks) <=> k \in 1..n
    BY <2>1, <2>2
  <2>4. Len(tasks) \in 1..n \/ Len(tasks) = 0
    BY <2>1, <2>3
  <2>5. n \in 1..Len(tasks) \/ n = 0
    BY <1>1, <2>1, <2>3
  <2>6. Len(tasks) <= n /\ n <= Len(tasks)
    BY <1>1, <2>1, <2>3, <2>4, <2>5
  <2>7. \A a, b \in Nat : a <= b /\ b <= a => a = b
    OBVIOUS
  <2> QED
    BY <1>1, <2>1, <2>2, <2>6, <2>7
<1>8. ToSet(tasks) = S
  BY <1>2, <1>5, <1>7 DEF ToSet
<1> QED
  BY <1>6, <1>7, <1>8 DEF n

\* While something is pending in a graph without cycles, something is free.
LEMMA SomethingFree ==
  ASSUME NEW g, NEW S, NEW tasks \in Seq(S), ToSet(tasks) = DOMAIN g, Acyclic(g),
         NEW s, InOrder(g, tasks, s), s.pending # <<>>
  PROVE  Free(g, ToSet(tasks), s) # {}
<1> DEFINE known == ToSet(tasks)
           group == ToSet(s.pending)
<1>1. /\ s.pending \in Seq(known) /\ group \subseteq known
      /\ ToSet(s.ordered) \cup group = known
      /\ Len(s.pending) \in Nat /\ DOMAIN s.pending = 1..Len(s.pending)
  <2>1. /\ s.pending \in Seq(known) /\ ToSet(s.ordered) \cup group = known
    BY DEF InOrder, Rounds
  <2>2. group \subseteq known
    BY <2>1
  <2> HIDE DEF known
  <2> QED
    BY <2>1, <2>2, LenProperties
<1>2. group # {}
  <2>1. Len(s.pending) # 0
    <3> HIDE DEF known
    <3> QED
      BY <1>1, EmptySeq
  <2>2. 1 \in DOMAIN s.pending
    BY <1>1, <2>1
  <2> QED
    BY <2>2 DEF ToSet
<1>3. PICK t \in group : ToSet(g[t]) \cap group = {}
  <2> HIDE DEF group
  <2> QED
    BY <1>1, <1>2 DEF Acyclic
<1>4. PICK i \in DOMAIN s.pending : t = s.pending[i]
  BY <1>3 DEF ToSet
<1>5. \A d \in ToSet(g[s.pending[i]]) : d \in ToSet(s.ordered) \/ d \notin known
  BY <1>1, <1>3, <1>4
<1> QED
  BY <1>4, <1>5 DEF Free

\* What has an order in which each task follows its dependencies has no cycle.
LEMMA OrderedIsAcyclic ==
  ASSUME NEW g, NEW order \in Seq(DOMAIN g), ToSet(order) = DOMAIN g,
         \A j \in DOMAIN order : \A d \in ToSet(g[order[j]]) \cap DOMAIN g :
           \E k \in 1..j - 1 : order[k] = d
  PROVE  Acyclic(g)
<1> SUFFICES ASSUME NEW group \in SUBSET DOMAIN g, group # {}
             PROVE  \E t \in group : ToSet(g[t]) \cap group = {}
  BY DEF Acyclic
<1> DEFINE places == {j \in DOMAIN order : order[j] \in group}
<1>1. DOMAIN order = 1..Len(order) /\ Len(order) \in Nat
  OBVIOUS
<1>2. places \in SUBSET Nat /\ places # {}
  BY <1>1 DEF ToSet
<1>3. PICK j \in places : \A k \in places : j <= k
  <2> HIDE DEF places
  <2> QED
    BY <1>2, Least
<1>4. ASSUME NEW d \in ToSet(g[order[j]]), d \in group PROVE FALSE
  <2>1. PICK k \in 1..j - 1 : order[k] = d
    BY <1>4
  <2>2. k \in places /\ ~(j <= k)
    BY <1>1, <1>4, <2>1
  <2> QED
    BY <1>3, <2>2
<1> QED
  BY <1>4

\* What an order leaves of s after j - 1 tasks.
LEMMA Before ==
  ASSUME NEW S, NEW s \in Seq(S), NEW j \in DOMAIN s
  PROVE  ToSet(SubSeq(s, 1, j - 1)) = {s[k] : k \in 1..j - 1}
<1>1. j \in 1..Len(s) /\ Len(s) \in Nat /\ \A k \in 1..Len(s) : s[k] \in S
  OBVIOUS
<1> DEFINE part == SubSeq(s, 1, j - 1)
<1>2. /\ part \in Seq(S) /\ Len(part) = IF 1 <= j - 1 THEN (j - 1) - 1 + 1 ELSE 0
      /\ \A k \in 1..(j - 1) - 1 + 1 : part[k] = s[1 + k - 1]
  BY <1>1, SubSeqProperties
<1> HIDE DEF part
<1>3. Len(part) = j - 1 /\ \A k \in 1..j - 1 : part[k] = s[k]
  BY <1>1, <1>2
<1>4. DOMAIN part = 1..j - 1
  BY <1>2, <1>3, LenProperties
<1> QED
  BY <1>3, <1>4 DEF ToSet, part

\* topological_order finds an order from any list of the tasks of a graph
\* exactly when the graph has no cycle; nothing stays pending then.
THEOREM OrderIsRight ==
  ASSUME NEW g, IsFiniteSet(DOMAIN g), NEW tasks \in SetToSeqs(DOMAIN g)
  PROVE  Follows(topological_order(tasks, g).ordered, g) <=> Acyclic(g)
<1> DEFINE e == Emitted(tasks, g)
           s == topological_order(tasks, g)
<1>1. /\ tasks \in Seq(DOMAIN g) /\ Len(tasks) = Cardinality(DOMAIN g)
      /\ ToSet(tasks) = DOMAIN g /\ Len(tasks) \in Nat
  BY ListingFacts, FS_CardinalityType
<1>2. /\ e[0].pending = tasks
      /\ \A n \in Nat : InOrder(g, tasks, e[n]) /\ e[n + 1] = EmitNext(g, ToSet(tasks), e[n])
  BY <1>1, EmittedFacts
<1>3. s = e[Len(tasks)]
  BY DEF topological_order
<1> HIDE DEF e, s
<1>4. InOrder(g, tasks, s)
  BY <1>1, <1>2, <1>3
<1>5. /\ s.ordered \in Seq(DOMAIN g) /\ s.pending \in Seq(DOMAIN g)
      /\ Len(s.ordered) + Len(s.pending) = Len(tasks)
      /\ ToSet(s.ordered) \cup ToSet(s.pending) = DOMAIN g
      /\ \A j \in DOMAIN s.ordered : \A d \in ToSet(g[s.ordered[j]]) \cap DOMAIN g :
           \E k \in 1..j - 1 : s.ordered[k] = d
  BY <1>1, <1>4 DEF InOrder, Rounds
<1>6. ASSUME Follows(s.ordered, g) PROVE Acyclic(g)
  <2>1. ToSet(s.ordered) = DOMAIN g
    BY <1>6 DEF Follows
  <2> QED
    BY <1>5, <2>1, OrderedIsAcyclic
<1>7. ASSUME Acyclic(g) PROVE Follows(s.ordered, g)
  <2> DEFINE T == {n \in Nat : n <= Len(tasks) => Len(e[n].pending) = Len(tasks) - n}
  <2>1. 0 \in T
    <3>1. Len(tasks) - 0 = Len(tasks)
      BY <1>1
    <3>2. Len(e[0].pending) = Len(tasks) - 0
      BY <1>2, <3>1
    <3> QED
      BY <3>2
  <2>2. ASSUME NEW n \in Nat, n \in T, n + 1 <= Len(tasks)
        PROVE  Len(e[n + 1].pending) = Len(tasks) - (n + 1)
    <3>1. Len(e[n].pending) = Len(tasks) - n
      BY <1>1, <2>2
    <3>2. e[n].pending # <<>>
      <4>1. Len(e[n].pending) # 0
        BY <1>1, <2>2, <3>1
      <4> QED
        BY <4>1
    <3>3. Free(g, ToSet(tasks), e[n]) # {}
      BY <1>1, <1>2, <1>7, <3>2, SomethingFree
    <3>4. Len(e[n + 1].pending) = Len(e[n].pending) - 1
      <4>1. InOrder(g, tasks, e[n]) /\ e[n + 1] = EmitNext(g, ToSet(tasks), e[n])
        BY <1>2
      <4>2. tasks \in Seq(DOMAIN g)
        BY <1>1
      <4> QED
        BY <3>3, <4>1, <4>2, RoundHolds
    <3> QED
      BY <1>1, <3>1, <3>4
  <2>3. Nat \subseteq T
    <3>1. \A n \in Nat : n \in T => n + 1 \in T
      BY <2>2
    <3> HIDE DEF T
    <3> QED
      BY <2>1, <3>1, Induction
  <2>4. Len(s.pending) = 0
    BY <1>1, <1>3, <2>3
  <2>5. Len(s.ordered) = Cardinality(DOMAIN g)
    BY <1>1, <1>5, <2>4, LenProperties
  <2>6. ToSet(s.pending) = {}
    <3>1. DOMAIN s.pending = {}
      BY <1>5, <2>4, LenProperties
    <3> QED
      BY <3>1 DEF ToSet
  <2>7. ASSUME NEW j \in DOMAIN s.ordered
        PROVE  ToSet(g[s.ordered[j]]) \cap DOMAIN g \subseteq ToSet(SubSeq(s.ordered, 1, j - 1))
    <3>1. ToSet(SubSeq(s.ordered, 1, j - 1)) = {s.ordered[k] : k \in 1..j - 1}
      <4>1. s.ordered \in Seq(DOMAIN g)
        BY <1>5
      <4> QED
        BY <4>1, Before
    <3> QED
      BY <1>5, <3>1
  <2> QED
    BY <1>5, <2>5, <2>6, <2>7 DEF Follows
<1> QED
  BY <1>6, <1>7 DEF s

-----------------------------------------------------------------------------
(* The search.                                                              *)

Listed(g) == \A t \in DOMAIN g : g[t] \in Seq(Known(g))
Calls(g) == Search(g) \X Seq(Known(g))

\* A call is smaller when fewer tasks are off the path or, with as many, when
\* the list is shorter.
Smaller(g, y, x) ==
  LET off(call) == Cardinality(DOMAIN g \ call[1].visiting)
  IN  off(y) < off(x) \/ (off(y) = off(x) /\ Len(y[2]) < Len(x[2]))

LEMMA SearchInduction ==
  ASSUME NEW g, IsFiniteSet(DOMAIN g), NEW P,
         \A x \in Calls(g) : (\A y \in Calls(g) : Smaller(g, y, x) => y \in P) => x \in P
  PROVE  Calls(g) \subseteq P
<1> DEFINE off(call) == Cardinality(DOMAIN g \ call[1].visiting)
           At(n, m) == {x \in Calls(g) : off(x) = n /\ Len(x[2]) = m /\ x \notin P}
           N == {n \in Nat : \E m \in Nat : At(n, m) # {}}
<1>1. \A x \in Calls(g) : off(x) \in Nat /\ Len(x[2]) \in Nat
  <2> SUFFICES ASSUME NEW x \in Calls(g)
               PROVE  off(x) \in Nat /\ Len(x[2]) \in Nat
    OBVIOUS
  <2>1. IsFiniteSet(DOMAIN g \ x[1].visiting)
    BY FS_Difference
  <2>2. x[2] \in Seq(Known(g))
    BY DEF Calls
  <2> QED
    BY <2>1, <2>2, FS_CardinalityType, LenProperties
<1>2. \A x, y \in Calls(g) :
        Smaller(g, y, x) <=> off(y) < off(x) \/ (off(y) = off(x) /\ Len(y[2]) < Len(x[2]))
  BY DEF Smaller
<1> HIDE DEF off
<1>3. SUFFICES ASSUME NEW x0 \in Calls(g), x0 \notin P
               PROVE  FALSE
  OBVIOUS
<1>4. N \in SUBSET Nat /\ N # {}
  <2>1. x0 \in At(off(x0), Len(x0[2]))
    BY <1>3
  <2> HIDE DEF At
  <2> QED
    BY <1>1, <2>1
<1>5. PICK n \in N : \A k \in N : n <= k
  <2> HIDE DEF N
  <2> QED
    BY <1>4, Least
<1> DEFINE M == {m \in Nat : At(n, m) # {}}
<1>6. M \in SUBSET Nat /\ M # {} /\ n \in Nat
  <2> HIDE DEF At
  <2> QED
    BY <1>5
<1>7. PICK m \in M : \A k \in M : m <= k
  <2> HIDE DEF M
  <2> QED
    BY <1>6, Least
<1>8. m \in Nat /\ At(n, m) # {}
  <2> HIDE DEF At
  <2> QED
    BY <1>7
<1>9. PICK x \in At(n, m) : TRUE
  <2> HIDE DEF At
  <2> QED
    BY <1>8
<1>10. x \in Calls(g) /\ off(x) = n /\ Len(x[2]) = m /\ x \notin P
  BY <1>9
<1>11. ASSUME NEW y \in Calls(g), Smaller(g, y, x), y \notin P
       PROVE  FALSE
  <2>1. off(y) < n \/ (off(y) = n /\ Len(y[2]) < m)
    BY <1>2, <1>10, <1>11
  <2>2. off(y) \in Nat /\ Len(y[2]) \in Nat
    BY <1>1
  <2>3. y \in At(off(y), Len(y[2]))
    BY <1>11
  <2>4. off(y) \in N
    <3> HIDE DEF At
    <3> QED
      BY <2>2, <2>3
  <2>5. off(y) = n => Len(y[2]) \in M
    <3> HIDE DEF At
    <3> QED
      BY <2>2, <2>3
  <2> HIDE DEF N, M
  <2> QED
    BY <1>5, <1>6, <1>7, <1>8, <2>1, <2>2, <2>4, <2>5
<1> QED
  BY <1>10, <1>11

-----------------------------------------------------------------------------
Body(g, each, call) ==
  IF call[2] = <<>> \/ call[1].verdict # "acyclic" THEN call[1]
  ELSE each[<<visit(g, each, call[1], Head(call[2])), Tail(call[2])>>]

IsVisitEach(g, each) == each = [call \in Calls(g) |-> Body(g, each, call)]

LEMMA Entered ==
  ASSUME NEW g, NEW s \in Search(g), NEW t \in Known(g)
  PROVE  /\ EnterPath(s, t) \in Search(g)
         /\ EnterPath(s, t).visiting = s.visiting \cup {t}
         /\ EnterPath(s, t).visited = s.visited /\ EnterPath(s, t).verdict = s.verdict
BY DEF Search, EnterPath

LEMMA Leaving ==
  ASSUME NEW g, NEW s \in Search(g), NEW t \in Known(g)
  PROVE  /\ LeavePath(s, t) \in Search(g)
         /\ LeavePath(s, t).visiting = s.visiting \ {t}
         /\ LeavePath(s, t).visited = s.visited \cup {t} /\ LeavePath(s, t).verdict = s.verdict
BY DEF Search, LeavePath

LEMMA Ended ==
  ASSUME NEW g, NEW s \in Search(g), NEW verdict \in {"acyclic", "cycle", "unknown"}
  PROVE  [s EXCEPT !.verdict = verdict] \in Search(g) /\ [s EXCEPT !.verdict = verdict].verdict = verdict
BY DEF Search

LEMMA EnterIsCall ==
  ASSUME NEW g, Listed(g), NEW s \in Search(g), NEW t \in DOMAIN g
  PROVE  <<EnterPath(s, t), g[t]>> \in Calls(g)
<1>1. t \in Known(g) /\ g[t] \in Seq(Known(g))
  BY DEF Known, Listed
<1> QED
  BY <1>1, Entered DEF Calls

LEMMA EnterIsSmaller ==
  ASSUME NEW g, IsFiniteSet(DOMAIN g), NEW s \in Search(g), NEW t \in DOMAIN g \ s.visiting,
         NEW list, NEW other
  PROVE  Smaller(g, <<EnterPath(s, t), other>>, <<s, list>>)
<1> DEFINE off == DOMAIN g \ s.visiting
<1>1. EnterPath(s, t).visiting = s.visiting \cup {t}
  BY DEF Search, EnterPath
<1>2. DOMAIN g \ EnterPath(s, t).visiting = off \ {t}
  BY <1>1
<1>3. IsFiniteSet(off)
  BY FS_Difference
<1>4. t \in off
  OBVIOUS
<1> HIDE DEF off
<1>5. Cardinality(off \ {t}) = Cardinality(off) - 1 /\ Cardinality(off) \in Nat
  BY <1>3, <1>4, FS_RemoveElement, FS_CardinalityType
<1>6. Cardinality(off \ {t}) < Cardinality(off)
  BY <1>5
<1> QED
  BY <1>2, <1>6 DEF Smaller, off

LEMMA VisitType ==
  ASSUME NEW g, Listed(g), NEW each \in [Calls(g) -> Search(g)], NEW s \in Search(g),
         NEW t \in Known(g)
  PROVE  visit(g, each, s, t) \in Search(g)
<1>1. CASE t \in DOMAIN g
  <2>1. each[<<EnterPath(s, t), g[t]>>] \in Search(g)
    BY <1>1, EnterIsCall
  <2> QED
    BY <1>1, <2>1, Leaving, Ended DEF visit
<1>2. CASE t \notin DOMAIN g
  BY <1>2, Ended DEF visit
<1> QED
  BY <1>1, <1>2

LEMMA CallFacts ==
  ASSUME NEW g, NEW call \in Calls(g)
  PROVE  /\ call[1] \in Search(g) /\ call[2] \in Seq(Known(g)) /\ call = <<call[1], call[2]>>
         /\ call[2] # <<>> =>
              /\ Head(call[2]) \in Known(g) /\ Tail(call[2]) \in Seq(Known(g))
              /\ \A u \in Search(g) : <<u, Tail(call[2])>> \in Calls(g)
              /\ Len(Tail(call[2])) < Len(call[2])
<1>1. call[1] \in Search(g) /\ call[2] \in Seq(Known(g)) /\ call = <<call[1], call[2]>>
  BY DEF Calls
<1>2. ASSUME call[2] # <<>>
      PROVE  /\ Head(call[2]) \in Known(g) /\ Tail(call[2]) \in Seq(Known(g))
             /\ Len(Tail(call[2])) < Len(call[2])
  <2> DEFINE list == call[2]
  <2>1. list \in Seq(Known(g)) /\ list # <<>>
    BY <1>1, <1>2
  <2> HIDE DEF list
  <2>2. /\ Head(list) \in Known(g) /\ Tail(list) \in Seq(Known(g))
        /\ Len(Tail(list)) = Len(list) - 1 /\ Len(list) \in Nat
    BY <2>1, HeadTailProperties, LenProperties
  <2> QED
    BY <2>2 DEF list
<1> QED
  BY <1>1, <1>2 DEF Calls

LEMMA BodyType ==
  ASSUME NEW g, Listed(g), NEW each \in [Calls(g) -> Search(g)], NEW call \in Calls(g)
  PROVE  Body(g, each, call) \in Search(g)
<1>1. CASE call[2] = <<>> \/ call[1].verdict # "acyclic"
  BY <1>1, CallFacts DEF Body
<1>2. CASE ~(call[2] = <<>> \/ call[1].verdict # "acyclic")
  <2>1. call[1] \in Search(g) /\ Head(call[2]) \in Known(g)
    BY <1>2, CallFacts
  <2>2. visit(g, each, call[1], Head(call[2])) \in Search(g)
    BY <2>1, VisitType
  <2>3. <<visit(g, each, call[1], Head(call[2])), Tail(call[2])>> \in Calls(g)
    BY <1>2, <2>2, CallFacts
  <2> QED
    BY <1>2, <2>3 DEF Body
<1> QED
  BY <1>1, <1>2

-----------------------------------------------------------------------------
(* There is a function that meets the recursive definition of VisitEach:    *)
(* the limit of what one finds by unfolding it n times.                     *)

Unfold(g) ==
  [each \in [Calls(g) -> Search(g)] |-> [call \in Calls(g) |-> Body(g, each, call)]]
Unfolded(g) == Repeats([Calls(g) -> Search(g)], [call \in Calls(g) |-> call[1]], Unfold(g))

Agree(f, x, n) == n \in Nat /\ \A k \in Nat : k >= n => f[k][x] = f[n][x]

\* What the search finds for x is found after n rounds, with the path restored.
Found(f, x, n) ==
  Agree(f, x, n) /\ (f[n][x].verdict = "acyclic" => f[n][x].visiting = x[1].visiting)

LEMMA UnfoldedFacts ==
  ASSUME NEW g, Listed(g)
  PROVE  /\ Unfolded(g) # {}
         /\ \A f \in Unfolded(g) : \A n \in Nat :
              /\ f[n] \in [Calls(g) -> Search(g)]
              /\ \A x \in Calls(g) : f[n + 1][x] = Body(g, f[n], x)
<1> DEFINE W == [Calls(g) -> Search(g)]
           start == [call \in Calls(g) |-> call[1]]
<1>1. start \in W
  BY CallFacts
<1>2. Unfold(g) \in [W -> W]
  <2>1. ASSUME NEW each \in W PROVE [call \in Calls(g) |-> Body(g, each, call)] \in W
    BY BodyType
  <2> HIDE DEF W
  <2>2. Unfold(g) = [each \in W |-> [call \in Calls(g) |-> Body(g, each, call)]]
    BY DEF Unfold, W
  <2> QED
    BY <2>1, <2>2
<1>3. Unfolded(g) = Repeats(W, start, Unfold(g))
  BY DEF Unfolded
<1>4. Repeats(W, start, Unfold(g)) # {}
  <2> HIDE DEF W, start
  <2> QED
    BY <1>1, <1>2, Repetition
<1>5. ASSUME NEW f \in Unfolded(g), NEW n \in Nat
      PROVE  f[n] \in W /\ \A x \in Calls(g) : f[n + 1][x] = Body(g, f[n], x)
  <2>1. f \in [Nat -> W] /\ \A k \in Nat : f[k + 1] = Unfold(g)[f[k]]
    <3> HIDE DEF W, start
    <3> QED
      BY <1>3 DEF Repeats
  <2>2. f[n] \in W /\ f[n + 1] = Unfold(g)[f[n]]
    <3> HIDE DEF W
    <3> QED
      BY <2>1
  <2>3. Unfold(g)[f[n]] = [call \in Calls(g) |-> Body(g, f[n], call)]
    BY <2>2 DEF Unfold
  <2> QED
    BY <2>2, <2>3
<1> QED
  BY <1>3, <1>4, <1>5

\* An empty list, or a search that has ended, is found at once.
LEMMA FoundAtOnce ==
  ASSUME NEW g, Listed(g), NEW f \in Unfolded(g), NEW x \in Calls(g),
         x[2] = <<>> \/ x[1].verdict # "acyclic"
  PROVE  Found(f, x, 1)
<1>1. \A n \in Nat : f[n + 1][x] = x[1]
  <2>1. \A n \in Nat : f[n + 1][x] = Body(g, f[n], x)
    BY UnfoldedFacts
  <2>2. \A each : Body(g, each, x) = x[1]
    BY DEF Body
  <2> QED
    BY <2>1, <2>2
<1>2. \A k \in Nat : k >= 1 => f[k][x] = x[1]
  <2> SUFFICES ASSUME NEW k \in Nat, k >= 1 PROVE f[k][x] = x[1]
    OBVIOUS
  <2>1. k - 1 \in Nat /\ (k - 1) + 1 = k
    OBVIOUS
  <2> QED
    BY <1>1, <2>1
<1> QED
  BY <1>2 DEF Found, Agree

\* If from round m on visit returns u, x is found once the rest of its list is.
LEMMA FoundByRest ==
  ASSUME NEW g, Listed(g), NEW f \in Unfolded(g), NEW x \in Calls(g),
         x[2] # <<>>, x[1].verdict = "acyclic", NEW u \in Search(g), NEW m \in Nat,
         \A n \in Nat : n >= m => visit(g, f[n], x[1], Head(x[2])) = u,
         u.verdict = "acyclic" => u.visiting = x[1].visiting,
         u.verdict = "acyclic" => \E n : Found(f, <<u, Tail(x[2])>>, n)
  PROVE  \E n : Found(f, x, n)
<1> DEFINE z == <<u, Tail(x[2])>>
<1>1. z \in Calls(g) /\ z[1] = u
  BY CallFacts
<1>2. PICK k : Found(f, z, k)
  <2>1. CASE u.verdict = "acyclic"
    BY <2>1
  <2>2. CASE u.verdict # "acyclic"
    <3>1. Found(f, z, 1)
      <4> HIDE DEF z
      <4> QED
        BY <1>1, <2>2, FoundAtOnce
    <3> QED
      BY <3>1
  <2> QED
    BY <2>1, <2>2
<1>3. k \in Nat /\ \A j \in Nat : j >= k => f[j][z] = f[k][z]
  BY <1>2 DEF Found, Agree
<1>4. ASSUME NEW j \in Nat, j >= m + k + 1
      PROVE  f[j][x] = f[k][z]
  <2>1. j - 1 \in Nat /\ (j - 1) + 1 = j /\ j - 1 >= m /\ j - 1 >= k
    BY <1>3, <1>4
  <2>2. f[(j - 1) + 1][x] = Body(g, f[j - 1], x)
    BY <2>1, UnfoldedFacts
  <2>3. Body(g, f[j - 1], x) = f[j - 1][z]
    BY <2>1 DEF Body
  <2> HIDE DEF z
  <2> QED
    BY <1>3, <2>1, <2>2, <2>3
<1>5. m + k + 1 \in Nat /\ m + k + 1 >= m + k + 1
  BY <1>3
<1>6. f[m + k + 1][x] = f[k][z]
  BY <1>4, <1>5
<1>7. Agree(f, x, m + k + 1)
  BY <1>4, <1>5, <1>6 DEF Agree
<1>8. f[k][z].verdict = "acyclic" => f[k][z].visiting = x[1].visiting
  <2>1. f[k][z].verdict = "acyclic" => f[k][z].visiting = u.visiting
    <3> HIDE DEF z
    <3> QED
      BY <1>1, <1>2 DEF Found
  <2>2. f[k][z].verdict = "acyclic" => u.verdict = "acyclic"
    <3>1. CASE u.verdict # "acyclic"
      <4>1. k + 1 \in Nat /\ k + 1 >= k
        BY <1>3
      <4>2. f[k + 1][z] = Body(g, f[k], z) /\ f[k + 1][z] = f[k][z]
        <5> HIDE DEF z
        <5>1. f[k + 1][z] = Body(g, f[k], z)
          BY <1>1, <1>3, UnfoldedFacts
        <5> QED
          BY <1>3, <4>1, <5>1
      <4>3. Body(g, f[k], z) = u
        BY <1>1, <3>1 DEF Body
      <4> QED
        BY <3>1, <4>2, <4>3
    <3> QED
      BY <3>1
  <2> QED
    BY <2>1, <2>2
<1> QED
  BY <1>6, <1>7, <1>8 DEF Found

LEMMA EverythingFound ==
  ASSUME NEW g, IsFiniteSet(DOMAIN g), Listed(g), NEW f \in Unfolded(g)
  PROVE  \A x \in Calls(g) : \E n : Found(f, x, n)
<1> DEFINE P == {x \in Calls(g) : \E n : Found(f, x, n)}
<1>1. ASSUME NEW x \in Calls(g), \A y \in Calls(g) : Smaller(g, y, x) => y \in P
      PROVE  x \in P
  <2> DEFINE s == x[1]
             list == x[2]
             t == Head(list)
  <2>1. CASE list = <<>> \/ s.verdict # "acyclic"
    <3>1. Found(f, x, 1)
      BY <2>1, FoundAtOnce
    <3> QED
      BY <3>1
  <2>2. CASE ~(list = <<>> \/ s.verdict # "acyclic")
    <3>1. /\ s \in Search(g) /\ t \in Known(g) /\ x = <<s, list>>
          /\ \A u \in Search(g) : <<u, Tail(list)>> \in Calls(g)
          /\ Len(Tail(list)) < Len(list)
      BY <2>2, CallFacts
    <3>2. \A u \in Search(g) : u.visiting = s.visiting => \E n : Found(f, <<u, Tail(list)>>, n)
      <4> SUFFICES ASSUME NEW u \in Search(g), u.visiting = s.visiting
                   PROVE  \E n : Found(f, <<u, Tail(list)>>, n)
        OBVIOUS
      <4>1. <<u, Tail(list)>> \in Calls(g) /\ Smaller(g, <<u, Tail(list)>>, x)
        BY <3>1 DEF Smaller
      <4> QED
        BY <1>1, <4>1
    <3>3. ASSUME NEW u \in Search(g), NEW m \in Nat,
                 \A n \in Nat : n >= m => visit(g, f[n], s, t) = u,
                 u.verdict = "acyclic" => u.visiting = s.visiting
          PROVE  x \in P
      <4>1. u.verdict = "acyclic" => \E n : Found(f, <<u, Tail(list)>>, n)
        BY <3>2, <3>3
      <4>2. \E n : Found(f, x, n)
        BY <2>2, <3>3, <4>1, FoundByRest
      <4> QED
        BY <4>2
    <3> HIDE DEF P
    <3>4. CASE t \in s.visiting
      <4> DEFINE u == [s EXCEPT !.verdict = "cycle"]
      <4>1. u \in Search(g) /\ u.verdict = "cycle"
        <5> HIDE DEF s, list, t
        <5> QED
          BY <3>1, Ended
      <4>2. \A n \in Nat : n >= 0 => visit(g, f[n], s, t) = u
        BY <3>4 DEF visit
      <4> HIDE DEF u
      <4>3. u.verdict # "acyclic" /\ 0 \in Nat
        BY <4>1
      <4> QED
        BY <3>3, <4>1, <4>2, <4>3
    <3>5. CASE t \notin s.visiting /\ t \in s.visited
      <4>1. \A n \in Nat : n >= 0 => visit(g, f[n], s, t) = s
        BY <3>5 DEF visit
      <4> QED
        BY <3>1, <3>3, <4>1
    <3>6. CASE t \notin s.visiting /\ t \notin s.visited /\ t \notin DOMAIN g
      <4> DEFINE u == [s EXCEPT !.verdict = "unknown"]
      <4>1. u \in Search(g) /\ u.verdict = "unknown"
        <5> HIDE DEF s, list, t
        <5> QED
          BY <3>1, Ended
      <4>2. \A n \in Nat : n >= 0 => visit(g, f[n], s, t) = u
        BY <3>6 DEF visit
      <4> HIDE DEF u
      <4>3. u.verdict # "acyclic" /\ 0 \in Nat
        BY <4>1
      <4> QED
        BY <3>3, <4>1, <4>2, <4>3
    <3>7. CASE t \notin s.visiting /\ t \notin s.visited /\ t \in DOMAIN g
      <4> DEFINE y == <<EnterPath(s, t), g[t]>>
      <4>1. y \in Calls(g) /\ Smaller(g, y, x)
        <5>1. y \in Calls(g)
          BY <3>1, <3>7, EnterIsCall
        <5>2. Smaller(g, y, <<s, list>>)
          BY <3>1, <3>7, EnterIsSmaller
        <5> QED
          BY <3>1, <5>1, <5>2
      <4>2. y[1].visiting = s.visiting \cup {t}
        <5> HIDE DEF s, list, t
        <5> QED
          BY <3>1, Entered
      <4>3. \A n \in Nat : visit(g, f[n], s, t) = LeavePath(f[n][y], t)
        BY <3>7 DEF visit
      <4> HIDE DEF y
      <4>4. PICK m : Found(f, y, m)
        BY <1>1, <4>1 DEF P
      <4>5. m \in Nat /\ \A n \in Nat : n >= m => f[n][y] = f[m][y]
        BY <4>4 DEF Found, Agree
      <4> DEFINE v == f[m][y]
                 u == LeavePath(v, t)
      <4>6. f[m] \in [Calls(g) -> Search(g)]
        BY <4>5, UnfoldedFacts
      <4>7. v \in Search(g)
        BY <4>1, <4>6
      <4>8. v.verdict = "acyclic" => v.visiting = s.visiting \cup {t}
        BY <4>2, <4>4 DEF Found
      <4> HIDE DEF v
      <4>9. u \in Search(g) /\ u.verdict = v.verdict /\ u.visiting = v.visiting \ {t}
        <5> HIDE DEF s, list, t
        <5> QED
          BY <3>1, <4>7, Leaving
      <4>10. u.verdict = "acyclic" => u.visiting = s.visiting
        <5> HIDE DEF u
        <5> QED
          BY <3>7, <4>8, <4>9
      <4>11. \A n \in Nat : n >= m => visit(g, f[n], s, t) = u
        BY <4>3, <4>5 DEF v
      <4> HIDE DEF u
      <4> QED
        BY <3>3, <4>5, <4>9, <4>10, <4>11
    <3> QED
      BY <3>4, <3>5, <3>6, <3>7
  <2> QED
    BY <2>1, <2>2
<1>2. Calls(g) \subseteq P
  <2> HIDE DEF P
  <2> QED
    BY <1>1, SearchInduction
<1> QED
  BY <1>2

LEMMA VisitEachExists ==
  ASSUME NEW g, IsFiniteSet(DOMAIN g), Listed(g)
  PROVE  \E each : IsVisitEach(g, each)
<1>1. PICK f \in Unfolded(g) : TRUE
  BY UnfoldedFacts
<1> DEFINE from(x) == CHOOSE n : Found(f, x, n)
           each == [x \in Calls(g) |-> f[from(x)][x]]
<1>2. \A x \in Calls(g) : from(x) \in Nat /\ \A k \in Nat : k >= from(x) => f[k][x] = each[x]
  <2> SUFFICES ASSUME NEW x \in Calls(g)
               PROVE  from(x) \in Nat /\ \A k \in Nat : k >= from(x) => f[k][x] = each[x]
    OBVIOUS
  <2>1. Found(f, x, from(x))
    BY EverythingFound
  <2>2. each[x] = f[from(x)][x]
    <3> HIDE DEF from
    <3> QED
      OBVIOUS
  <2> HIDE DEF from, each
  <2> QED
    BY <2>1, <2>2 DEF Found, Agree
<1>3. each \in [Calls(g) -> Search(g)]
  <2>1. ASSUME NEW x \in Calls(g) PROVE f[from(x)][x] \in Search(g)
    <3> HIDE DEF from, each
    <3>1. f[from(x)] \in [Calls(g) -> Search(g)]
      BY <1>2, UnfoldedFacts
    <3> QED
      BY <3>1
  <2> HIDE DEF from
  <2> QED
    BY <2>1
<1>4. each = [x \in Calls(g) |-> each[x]]
  <2> HIDE DEF from
  <2> QED
    OBVIOUS
<1> HIDE DEF from, each
<1>5. ASSUME NEW x \in Calls(g) PROVE each[x] = Body(g, each, x)
  <2> DEFINE s == x[1]
             list == x[2]
             t == Head(list)
  <2>1. \A n \in Nat : f[n + 1][x] = Body(g, f[n], x)
    BY UnfoldedFacts
  <2>2. \A n \in Nat : n >= from(x) => f[n + 1][x] = each[x]
    <3> SUFFICES ASSUME NEW n \in Nat, n >= from(x) PROVE f[n + 1][x] = each[x]
      OBVIOUS
    <3>1. n + 1 \in Nat /\ n + 1 >= from(x)
      BY <1>2
    <3> QED
      BY <1>2, <3>1
  <2>3. CASE list = <<>> \/ s.verdict # "acyclic"
    <3>1. \A h : Body(g, h, x) = s
      BY <2>3 DEF Body
    <3>2. from(x) \in Nat /\ from(x) >= from(x)
      BY <1>2
    <3> QED
      BY <2>1, <2>2, <3>1, <3>2
  <2>4. CASE ~(list = <<>> \/ s.verdict # "acyclic")
    <3>1. s \in Search(g) /\ t \in Known(g)
      BY <2>4, CallFacts
    <3>2. \E m \in Nat : \A n \in Nat : n >= m => visit(g, f[n], s, t) = visit(g, each, s, t)
      <4>1. CASE t \in DOMAIN g
        <5> DEFINE y == <<EnterPath(s, t), g[t]>>
        <5>1. y \in Calls(g)
          BY <3>1, <4>1, EnterIsCall
        <5>2. \A h : visit(g, h, s, t) =
                IF t \in s.visiting THEN [s EXCEPT !.verdict = "cycle"]
                ELSE IF t \in s.visited THEN s ELSE LeavePath(h[y], t)
          BY <4>1 DEF visit
        <5> HIDE DEF y
        <5>3. from(y) \in Nat /\ \A n \in Nat : n >= from(y) => f[n][y] = each[y]
          BY <1>2, <5>1
        <5>4. \A n \in Nat : n >= from(y) => visit(g, f[n], s, t) = visit(g, each, s, t)
          BY <5>2, <5>3
        <5> QED
          BY <5>3, <5>4
      <4>2. CASE t \notin DOMAIN g
        <5>1. \A h, w : visit(g, h, s, t) = visit(g, w, s, t)
          BY <4>2 DEF visit
        <5>2. 0 \in Nat /\ \A n \in Nat : n >= 0 => visit(g, f[n], s, t) = visit(g, each, s, t)
          BY <5>1
        <5> QED
          BY <5>2
      <4> QED
        BY <4>1, <4>2
    <3>3. PICK m \in Nat : \A n \in Nat : n >= m => visit(g, f[n], s, t) = visit(g, each, s, t)
      BY <3>2
    <3> DEFINE z == <<visit(g, each, s, t), Tail(list)>>
    <3>4. z \in Calls(g)
      <4>1. visit(g, each, s, t) \in Search(g)
        BY <1>3, <3>1, VisitType
      <4> QED
        BY <2>4, <4>1, CallFacts
    <3>5. Body(g, each, x) = each[z]
      BY <2>4 DEF Body
    <3>6. \A n \in Nat : n >= m => Body(g, f[n], x) = f[n][z]
      BY <2>4, <3>3 DEF Body
    <3> HIDE DEF z
    <3> DEFINE n == m + from(x) + from(z)
    <3>7. n \in Nat /\ n >= m /\ n >= from(x) /\ n >= from(z)
      BY <1>2, <3>4
    <3> HIDE DEF n
    <3>8. f[n][z] = each[z]
      BY <1>2, <3>4, <3>7
    <3>9. f[n + 1][x] = each[x] /\ f[n + 1][x] = f[n][z]
      BY <2>1, <2>2, <3>6, <3>7
    <3> QED
      BY <3>5, <3>8, <3>9
  <2> QED
    BY <2>3, <2>4
<1>6. IsVisitEach(g, each)
  <2>1. each = [x \in Calls(g) |-> Body(g, each, x)]
    BY <1>4, <1>5
  <2> QED
    BY <2>1 DEF IsVisitEach
<1> QED
  BY <1>6

LEMMA VisitEachIs ==
  ASSUME NEW g, IsFiniteSet(DOMAIN g), Listed(g)
  PROVE  IsVisitEach(g, VisitEach(g))
<1>1. VisitEach(g) = CHOOSE each : IsVisitEach(g, each)
  BY DEF VisitEach, IsVisitEach, Body, Calls
<1> QED
  BY <1>1, VisitEachExists

-----------------------------------------------------------------------------
(* What the search finds.                                                   *)

\* A path of at least one dependency leads from u to t.
Reaches(g, u, t) ==
  /\ u \in DOMAIN g
  /\ \A all \in SUBSET Known(g) :
       ToSet(g[u]) \subseteq all /\ (\A c \in all \cap DOMAIN g : ToSet(g[c]) \subseteq all) => t \in all

LEMMA ReachesFirst ==
  ASSUME NEW g, NEW u \in DOMAIN g, NEW d \in ToSet(g[u])
  PROVE  Reaches(g, u, d)
BY DEF Reaches

LEMMA ReachesOn ==
  ASSUME NEW g, NEW u, NEW t \in DOMAIN g, Reaches(g, u, t), NEW d \in ToSet(g[t])
  PROVE  Reaches(g, u, d)
BY DEF Reaches

LEMMA ReachesFrom ==
  ASSUME NEW g, NEW u \in DOMAIN g, NEW d \in ToSet(g[u]), NEW t, Reaches(g, d, t)
  PROVE  Reaches(g, u, t)
BY DEF Reaches

\* What reaches itself is on a cycle.
LEMMA CycleFound ==
  ASSUME NEW g, NEW t, Reaches(g, t, t)
  PROVE  ~Acyclic(g)
<1> DEFINE group == {z \in DOMAIN g : Reaches(g, t, z) /\ Reaches(g, z, t)}
<1>1. t \in group
  BY DEF Reaches
<1>2. ASSUME NEW z \in group PROVE ToSet(g[z]) \cap group # {}
  <2> DEFINE away == {c \in Known(g) : c # t /\ ~Reaches(g, c, t)}
  <2>1. z \in DOMAIN g /\ Reaches(g, t, z) /\ Reaches(g, z, t)
    BY <1>2
  <2>2. ToSet(g[z]) \subseteq Known(g)
    BY <2>1 DEF Known
  <2>3. ASSUME NEW c \in away \cap DOMAIN g, NEW d \in ToSet(g[c]) PROVE d \in away
    <3>1. d \in Known(g)
      BY DEF Known
    <3>2. d # t
      BY <2>3, ReachesFirst
    <3>3. ~Reaches(g, d, t)
      BY <2>3, ReachesFrom
    <3> QED
      BY <3>1, <3>2, <3>3
  <2>4. t \notin away /\ away \in SUBSET Known(g)
    OBVIOUS
  <2>5. ~(ToSet(g[z]) \subseteq away)
    <3> HIDE DEF away
    <3> QED
      BY <2>1, <2>3, <2>4 DEF Reaches
  <2>6. PICK d \in ToSet(g[z]) : d = t \/ Reaches(g, d, t)
    BY <2>2, <2>5
  <2>7. CASE d = t
    BY <1>1, <2>7
  <2>8. CASE Reaches(g, d, t)
    <3>1. Reaches(g, t, d)
      BY <2>1, ReachesOn
    <3>2. d \in DOMAIN g
      BY <2>8 DEF Reaches
    <3> QED
      BY <2>8, <3>1, <3>2
  <2> QED
    BY <2>6, <2>7, <2>8
<1> QED
  <2>1. group \in SUBSET DOMAIN g
    OBVIOUS
  <2> HIDE DEF group
  <2> QED
    BY <1>1, <1>2, <2>1 DEF Acyclic

\* The tasks done with are known, off the path, closed and without a cycle.
Explored(g, s) ==
  /\ s.visited \subseteq DOMAIN g
  /\ s.visiting \cap s.visited = {}
  /\ \A t \in s.visited : ToSet(g[t]) \subseteq s.visited
  /\ \A group \in SUBSET s.visited : group # {} => \E t \in group : ToSet(g[t]) \cap group = {}

Begun(g, x) ==
  /\ Explored(g, x[1])
  /\ \A u \in x[1].visiting : \A t \in ToSet(x[2]) : Reaches(g, u, t)

Correct(g, x, v) ==
  /\ v.verdict = "acyclic" =>
       Explored(g, v) /\ x[1].visited \subseteq v.visited /\ ToSet(x[2]) \subseteq v.visited
  /\ v.verdict = "cycle" => ~Acyclic(g)
  /\ v.verdict = "unknown" => Dangling(g) # {} \/ ~(ToSet(x[2]) \subseteq DOMAIN g)

\* With all its dependencies, a task may join the tasks done with.
LEMMA ExploredGrows ==
  ASSUME NEW g, NEW s \in Search(g), NEW t \in DOMAIN g, Explored(g, s), t \in s.visiting,
         ToSet(g[t]) \subseteq s.visited
  PROVE  Explored(g, LeavePath(s, t))
<1> DEFINE new == LeavePath(s, t)
<1>1. new.visiting = s.visiting \ {t} /\ new.visited = s.visited \cup {t}
  <2>1. t \in Known(g)
    BY DEF Known
  <2> QED
    BY <2>1, Leaving
<1> HIDE DEF new
<1>2. t \notin s.visited
  BY DEF Explored
<1>3. ASSUME NEW group \in SUBSET new.visited, group # {}
      PROVE  \E z \in group : ToSet(g[z]) \cap group = {}
  <2> DEFINE old == group \cap s.visited
  <2>1. CASE old = {}
    <3>1. group = {t}
      BY <1>1, <1>3, <2>1
    <3> QED
      BY <1>2, <3>1
  <2>2. CASE old # {}
    <3>1. PICK z \in old : ToSet(g[z]) \cap old = {}
      BY <2>2 DEF Explored
    <3>2. ToSet(g[z]) \subseteq s.visited
      BY DEF Explored
    <3> QED
      BY <3>1, <3>2
  <2> QED
    BY <2>1, <2>2
<1>4. new.visited \subseteq DOMAIN g /\ new.visiting \cap new.visited = {}
  BY <1>1 DEF Explored
<1>5. \A z \in new.visited : ToSet(g[z]) \subseteq new.visited
  BY <1>1 DEF Explored
<1> QED
  BY <1>3, <1>4, <1>5 DEF Explored, new

\* Into a task: everything on the path, the task included, reaches its list.
LEMMA BeginsBelow ==
  ASSUME NEW g, NEW s \in Search(g), NEW t \in DOMAIN g, Explored(g, s), t \notin s.visited,
         \A u \in s.visiting : Reaches(g, u, t)
  PROVE  Begun(g, <<EnterPath(s, t), g[t]>>)
<1>1. t \in Known(g)
  BY DEF Known
<1> DEFINE new == EnterPath(s, t)
<1>2. new.visiting = s.visiting \cup {t} /\ new.visited = s.visited
  BY <1>1, Entered
<1> HIDE DEF new
<1>3. Explored(g, new)
  BY <1>2 DEF Explored
<1>4. ASSUME NEW u \in new.visiting, NEW d \in ToSet(g[t]) PROVE Reaches(g, u, d)
  <2>1. CASE u = t
    BY <2>1, ReachesFirst
  <2>2. CASE u # t
    BY <1>2, <2>2, ReachesOn
  <2> QED
    BY <2>1, <2>2
<1> QED
  BY <1>3, <1>4 DEF Begun, new

Right(g, x, v) ==
  /\ v \in Search(g)
  /\ v.verdict = "acyclic" => v.visiting = x[1].visiting
  /\ x[1].verdict = "acyclic" /\ Begun(g, x) => Correct(g, x, v)

LEMMA NothingToDo ==
  ASSUME NEW g, NEW each, IsVisitEach(g, each), NEW x \in Calls(g),
         x[2] = <<>> \/ x[1].verdict # "acyclic"
  PROVE  each[x] = x[1] /\ Right(g, x, x[1])
<1>1. each[x] = x[1]
  <2>1. each[x] = Body(g, each, x)
    BY DEF IsVisitEach
  <2> QED
    BY <2>1 DEF Body
<1>2. x[1] \in Search(g)
  BY CallFacts
<1>3. ASSUME x[1].verdict = "acyclic", Begun(g, x) PROVE Correct(g, x, x[1])
  <2>1. ToSet(x[2]) = {}
    BY <1>3 DEF ToSet
  <2> QED
    BY <1>3, <2>1 DEF Correct, Begun
<1> QED
  BY <1>1, <1>2, <1>3 DEF Right

\* What is right for the rest of the list, from what visit returns, is right
\* for the list.
LEMMA RightByRest ==
  ASSUME NEW g, NEW x \in Calls(g), x[2] # <<>>, x[1].verdict = "acyclic", NEW u \in Search(g),
         NEW v, Right(g, <<u, Tail(x[2])>>, v), u.verdict = "acyclic",
         u.visiting = x[1].visiting,
         Begun(g, x) =>
           Explored(g, u) /\ x[1].visited \subseteq u.visited /\ Head(x[2]) \in u.visited
  PROVE  Right(g, x, v)
<1> DEFINE z == <<u, Tail(x[2])>>
           t == Head(x[2])
           rest == Tail(x[2])
<1>1. ToSet(x[2]) = {t} \cup ToSet(rest)
  BY CallFacts, HeadTail
<1> HIDE DEF t, rest
<1>2. z[1] = u /\ z[2] = rest
  BY DEF rest
<1> HIDE DEF z
<1>3. Right(g, z, v)
  BY DEF z
<1>4. ASSUME Begun(g, x) PROVE Correct(g, x, v)
  <2>1. Explored(g, u) /\ x[1].visited \subseteq u.visited /\ t \in u.visited
    BY <1>4 DEF t
  <2>2. Begun(g, z)
    BY <1>1, <1>2, <1>4, <2>1 DEF Begun
  <2>3. Correct(g, z, v)
    BY <1>2, <1>3, <2>2 DEF Right
  <2>4. t \in DOMAIN g
    BY <2>1 DEF Explored
  <2>5. v.verdict = "acyclic" =>
          Explored(g, v) /\ x[1].visited \subseteq v.visited /\ ToSet(x[2]) \subseteq v.visited
    BY <1>1, <1>2, <2>1, <2>3 DEF Correct
  <2>6. v.verdict = "unknown" => Dangling(g) # {} \/ ~(ToSet(x[2]) \subseteq DOMAIN g)
    BY <1>1, <1>2, <2>3 DEF Correct
  <2> QED
    BY <2>3, <2>5, <2>6 DEF Correct
<1> QED
  BY <1>2, <1>3, <1>4 DEF Right

\* So is a search that visit has ended with good reason.
LEMMA RightByEnd ==
  ASSUME NEW g, NEW x \in Calls(g), NEW v \in Search(g), v.verdict # "acyclic",
         Begun(g, x) => /\ v.verdict = "cycle" => ~Acyclic(g)
                        /\ v.verdict = "unknown" => Dangling(g) # {} \/ ~(ToSet(x[2]) \subseteq DOMAIN g)
  PROVE  Right(g, x, v)
BY DEF Right, Correct

LEMMA SearchRight ==
  ASSUME NEW g, IsFiniteSet(DOMAIN g), Listed(g), NEW each, IsVisitEach(g, each)
  PROVE  \A x \in Calls(g) : Right(g, x, each[x])
<1> DEFINE P == {x \in Calls(g) : Right(g, x, each[x])}
<1>1. ASSUME NEW x \in Calls(g), \A y \in Calls(g) : Smaller(g, y, x) => y \in P
      PROVE  Right(g, x, each[x])
  <2> DEFINE s == x[1]
             list == x[2]
             t == Head(list)
             rest == Tail(list)
             u == visit(g, each, s, t)
             z == <<u, rest>>
  <2>1. CASE list = <<>> \/ s.verdict # "acyclic"
    BY <2>1, NothingToDo
  <2>2. CASE ~(list = <<>> \/ s.verdict # "acyclic")
    <3>1. /\ s \in Search(g) /\ t \in Known(g) /\ x = <<s, list>> /\ list \in Seq(Known(g))
          /\ \A w \in Search(g) : <<w, rest>> \in Calls(g)
          /\ Len(rest) < Len(list)
      BY <2>2, CallFacts
    <3>2. each[x] = each[z]
      <4>1. each[x] = Body(g, each, x)
        BY DEF IsVisitEach
      <4> QED
        BY <2>2, <4>1 DEF Body
    <3>3. t \in ToSet(list)
      BY <2>2, <3>1, HeadTail
    <3>4. Begun(g, x) => Explored(g, s) /\ \A w \in s.visiting : Reaches(g, w, t)
      BY <3>3 DEF Begun
    <3>5. ASSUME u \in Search(g), u.verdict # "acyclic",
                 Begun(g, x) =>
                   /\ u.verdict = "cycle" => ~Acyclic(g)
                   /\ u.verdict = "unknown" => Dangling(g) # {} \/ ~(ToSet(x[2]) \subseteq DOMAIN g)
          PROVE  Right(g, x, each[x])
      <4>1. z \in Calls(g) /\ z[1] = u
        BY <3>1, <3>5
      <4>2. each[z] = u
        <5> HIDE DEF z, u
        <5> QED
          BY <3>5, <4>1, NothingToDo
      <4>3. Right(g, x, u)
        <5> HIDE DEF z, u
        <5> QED
          BY <3>5, RightByEnd
      <4> QED
        BY <3>2, <4>2, <4>3
    <3>6. ASSUME u \in Search(g), u.verdict = "acyclic", u.visiting = s.visiting,
                 Begun(g, x) => Explored(g, u) /\ s.visited \subseteq u.visited /\ t \in u.visited
          PROVE  Right(g, x, each[x])
      <4>1. z \in Calls(g)
        BY <3>1, <3>6
      <4>2. Smaller(g, z, x)
        <5> HIDE DEF u
        <5> QED
          BY <3>1, <3>6 DEF Smaller
      <4>3. Right(g, z, each[z])
        BY <1>1, <4>1, <4>2
      <4>4. Right(g, x, each[z])
        <5> HIDE DEF u
        <5> QED
          BY <2>2, <3>6, <4>3, RightByRest
      <4> QED
        BY <3>2, <4>4
    <3>7. CASE t \in s.visiting
      <4>1. u = [s EXCEPT !.verdict = "cycle"]
        BY <3>7 DEF visit
      <4>2. u \in Search(g) /\ u.verdict = "cycle"
        <5> HIDE DEF s, u
        <5> QED
          BY <3>1, <4>1, Ended
      <4>3. Begun(g, x) => ~Acyclic(g)
        BY <3>4, <3>7, CycleFound
      <4> HIDE DEF u
      <4>4. u.verdict # "acyclic" /\ u.verdict # "unknown"
        BY <4>2
      <4> QED
        BY <3>5, <4>2, <4>3, <4>4
    <3>8. CASE t \notin s.visiting /\ t \in s.visited
      <4>1. u = s
        BY <3>8 DEF visit
      <4> HIDE DEF u
      <4> QED
        BY <2>2, <3>1, <3>4, <3>6, <3>8, <4>1
    <3>9. CASE t \notin s.visiting /\ t \notin s.visited /\ t \notin DOMAIN g
      <4>1. u = [s EXCEPT !.verdict = "unknown"]
        BY <3>9 DEF visit
      <4>2. u \in Search(g) /\ u.verdict = "unknown"
        <5> HIDE DEF s, u
        <5> QED
          BY <3>1, <4>1, Ended
      <4>3. ~(ToSet(x[2]) \subseteq DOMAIN g)
        BY <3>3, <3>9
      <4> HIDE DEF u
      <4>4. u.verdict # "acyclic" /\ u.verdict # "cycle"
        BY <4>2
      <4> QED
        BY <3>5, <4>2, <4>3, <4>4
    <3>10. CASE t \notin s.visiting /\ t \notin s.visited /\ t \in DOMAIN g
      <4> DEFINE y == <<EnterPath(s, t), g[t]>>
                 v == each[y]
      <4>1. y \in Calls(g) /\ Smaller(g, y, x)
        <5>1. y \in Calls(g)
          BY <3>1, <3>10, EnterIsCall
        <5>2. Smaller(g, y, <<s, list>>)
          BY <3>1, <3>10, EnterIsSmaller
        <5> QED
          BY <3>1, <5>1, <5>2
      <4>2. /\ y[1].visiting = s.visiting \cup {t} /\ y[1].visited = s.visited
            /\ y[1].verdict = "acyclic" /\ y[2] = g[t]
        <5>1. /\ EnterPath(s, t).visiting = s.visiting \cup {t}
              /\ EnterPath(s, t).visited = s.visited /\ EnterPath(s, t).verdict = s.verdict
          <6> HIDE DEF s, t
          <6> QED
            BY <3>1, Entered
        <5> QED
          BY <2>2, <5>1
      <4>3. Right(g, y, v)
        BY <1>1, <4>1
      <4>4. u = LeavePath(v, t)
        BY <3>10 DEF visit
      <4>5. Begun(g, x) => Begun(g, y)
        BY <3>1, <3>4, <3>10, BeginsBelow
      <4> HIDE DEF y, v, u
      <4>6. /\ v \in Search(g)
            /\ v.verdict = "acyclic" => v.visiting = s.visiting \cup {t}
            /\ Begun(g, x) => Correct(g, y, v)
        BY <4>2, <4>3, <4>5 DEF Right
      <4>7. /\ u \in Search(g) /\ u.visiting = v.visiting \ {t}
            /\ u.visited = v.visited \cup {t} /\ u.verdict = v.verdict
        <5> HIDE DEF s, t
        <5>1. v \in Search(g) /\ t \in Known(g)
          BY <3>1, <4>6
        <5>2. /\ LeavePath(v, t) \in Search(g) /\ LeavePath(v, t).visiting = v.visiting \ {t}
              /\ LeavePath(v, t).visited = v.visited \cup {t}
              /\ LeavePath(v, t).verdict = v.verdict
          BY <5>1, Leaving
        <5> QED
          BY <4>4, <5>2
      <4>8. CASE v.verdict # "acyclic"
        <5>1. Begun(g, x) => (v.verdict = "cycle" => ~Acyclic(g))
          BY <4>6 DEF Correct
        <5>2. Begun(g, x) => (v.verdict = "unknown" => Dangling(g) # {})
          <6>1. ~(ToSet(g[t]) \subseteq DOMAIN g) => t \in Dangling(g)
            BY <3>10 DEF Dangling
          <6> QED
            BY <4>2, <4>6, <6>1 DEF Correct
        <5> QED
          BY <3>5, <4>7, <4>8, <5>1, <5>2
      <4>9. CASE v.verdict = "acyclic"
        <5>1. u.visiting = s.visiting
          BY <3>10, <4>6, <4>7, <4>9
        <5>2. ASSUME Begun(g, x)
              PROVE  Explored(g, u) /\ s.visited \subseteq u.visited /\ t \in u.visited
          <6>1. Explored(g, v) /\ s.visited \subseteq v.visited /\ ToSet(g[t]) \subseteq v.visited
            BY <4>2, <4>6, <4>9, <5>2 DEF Correct
          <6>2. Explored(g, u)
            <7>1. t \in v.visiting
              BY <4>6, <4>9
            <7> HIDE DEF t
            <7> QED
              BY <3>10, <4>4, <4>6, <6>1, <7>1, ExploredGrows
          <6> QED
            BY <4>7, <6>1, <6>2
        <5> QED
          BY <3>6, <4>7, <4>9, <5>1, <5>2
      <4> QED
        BY <4>8, <4>9
    <3> QED
      BY <3>7, <3>8, <3>9, <3>10
  <2> QED
    BY <2>1, <2>2
<1>2. Calls(g) \subseteq P
  <2>1. \A x \in Calls(g) : (\A y \in Calls(g) : Smaller(g, y, x) => y \in P) => x \in P
    BY <1>1
  <2> HIDE DEF P
  <2> QED
    BY <2>1, SearchInduction
<1> QED
  BY <1>2

LEMMA ListFacts ==
  ASSUME NEW S, IsFiniteSet(S)
  PROVE  SetToSeq(S) \in Seq(S) /\ ToSet(SetToSeq(S)) = S
<1> DEFINE n == Cardinality(S)
           Lists == {f \in [1..n -> S] : IsInjective(f)}
<1>1. Bijection(1..n, S) # {}
  BY FS_CardinalityType DEF ExistsBijection
<1>2. \E f : f \in Lists
  BY <1>1 DEF Bijection, Injection
<1> DEFINE list == CHOOSE f : f \in Lists
<1>3. list \in Lists
  <2> HIDE DEF Lists
  <2> QED
    BY <1>2
<1>4. SetToSeq(S) = list
  BY DEF SetToSeq
<1>5. SetToSeq(S) \in Lists
  <2> HIDE DEF list, Lists
  <2> QED
    BY <1>3, <1>4
<1>6. SetToSeq(S) \in SetToSeqs(S)
  BY <1>5 DEF SetToSeqs, IsInjective
<1> QED
  BY <1>6, ListingFacts

\* assert_acyclic accepts a finite graph exactly when it has no cycle and no
\* dependency is unknown; what it reports otherwise is there.
THEOREM SearchIsRight ==
  ASSUME NEW T, IsFiniteSet(T), NEW S, NEW g \in [T -> Seq(S)]
  PROVE  /\ assert_acyclic(g) = "acyclic" <=> Acyclic(g) /\ Dangling(g) = {}
         /\ assert_acyclic(g) = "cycle" => ~Acyclic(g)
         /\ assert_acyclic(g) = "unknown" => Dangling(g) # {}
         /\ assert_acyclic(g) \in {"acyclic", "cycle", "unknown"}
<1>1. DOMAIN g = T /\ IsFiniteSet(DOMAIN g)
  OBVIOUS
<1>2. Listed(g)
  <2> SUFFICES ASSUME NEW t \in DOMAIN g PROVE g[t] \in Seq(Known(g))
    BY DEF Listed
  <2>1. ToSet(g[t]) \subseteq Known(g)
    BY DEF Known
  <2>2. g[t] \in Seq(S)
    OBVIOUS
  <2>3. g[t] \in [1..Len(g[t]) -> Known(g)] /\ Len(g[t]) \in Nat
    BY <2>1, <2>2, LenProperties DEF ToSet
  <2> QED
    BY <2>3, SeqDef
<1> DEFINE each == VisitEach(g)
           s == [visiting |-> {}, visited |-> {}, verdict |-> "acyclic"]
           list == SetToSeq(DOMAIN g)
           x == <<s, list>>
           v == each[x]
<1>3. s \in Search(g) /\ s.visiting = {} /\ s.visited = {} /\ s.verdict = "acyclic"
  BY DEF Search
<1>4. list \in Seq(DOMAIN g) /\ ToSet(list) = DOMAIN g
  BY <1>1, ListFacts
<1>5. list \in Seq(Known(g))
  <2>1. DOMAIN g \subseteq Known(g)
    BY DEF Known
  <2> HIDE DEF list
  <2> QED
    BY <1>4, <2>1, SeqMonotonic
<1>6. assert_acyclic(g) = v.verdict
  BY DEF assert_acyclic
<1> HIDE DEF s, list
<1>7. x \in Calls(g)
  BY <1>3, <1>5 DEF Calls
<1>8. Right(g, x, v)
  BY <1>1, <1>2, <1>7, VisitEachIs, SearchRight
<1>9. Begun(g, x)
  <2>1. Explored(g, s)
    BY <1>3 DEF Explored
  <2> QED
    BY <1>3, <2>1 DEF Begun
<1>10. v \in Search(g) /\ Correct(g, x, v)
  <2> HIDE DEF v
  <2> QED
    BY <1>3, <1>8, <1>9 DEF Right
<1> HIDE DEF v
<1>11. v.verdict \in {"acyclic", "cycle", "unknown"}
  BY <1>10 DEF Search
<1>12. ASSUME v.verdict = "acyclic" PROVE Acyclic(g) /\ Dangling(g) = {}
  <2>1. Explored(g, v) /\ DOMAIN g \subseteq v.visited
    BY <1>4, <1>10, <1>12 DEF Correct
  <2>2. v.visited = DOMAIN g
    BY <2>1 DEF Explored
  <2> QED
    BY <2>1, <2>2 DEF Explored, Acyclic, Dangling
<1>13. v.verdict = "cycle" => ~Acyclic(g)
  BY <1>10 DEF Correct
<1>14. v.verdict = "unknown" => Dangling(g) # {}
  BY <1>4, <1>10 DEF Correct
<1> QED
  BY <1>6, <1>11, <1>12, <1>13, <1>14

-----------------------------------------------------------------------------
(* Admission: the invariant.                                                *)

StoredTask ==
  [status : {"absent", "proposed", "ready", "verified", "cancelled"}, run : Run \cup {"none"},
   dependencies : Seq(Task), revision : Nat, done : BOOLEAN]
RunRecord ==
  [status : {"absent", "planned", "active", "cancelled"}, acceptance : SUBSET STRING,
   revision : Nat, admitted : SUBSET Task]
Listing == {<<>>} \cup UNION {[listed -> StoredTask] : listed \in SUBSET Task}
PlannerFields ==
  [pc : {"idle", "checking", "validating", "saving", "listing", "refreshing", "raised",
         "cancelling"},
   command : {"none", "plan", "propose", "dispatch"}, run : Run \cup {"none"},
   batch : Seq(TaskDefinition), left : Seq(TaskDefinition), listed : Listing, seen : Nat,
   cause : {"none", "definition", "duplicate", "inadmissible", "conflict", "unknown"}]
PlannerRecord ==
  {record \in PlannerFields : record.pc # "idle" => record.run \in Run}

AdmissionTypeOK ==
  /\ stored \in [Task -> StoredTask]
  /\ run \in [Run -> RunRecord]
  /\ planner \in [Proc -> PlannerRecord]

Saved(t) == stored[t].status # "absent"

\* A task that is not stored belongs to no run.
AbsentInv == \A t \in Task : ~Saved(t) => stored[t].run = "none"

\* A verified task has been done, and one that has been done is stored.
DoneInv ==
  \A t \in Task : /\ stored[t].status = "verified" => stored[t].done
                  /\ stored[t].done => Saved(t)

\* The task may start, or has been done.
Started(t) == stored[t].status = "ready" \/ stored[t].done

\* Two processes do not admit the same id at once.
IdsApart ==
  \A p, q \in Proc : p # q => Ids(planner[p].batch) \cap Ids(planner[q].batch) = {}

OwnIds(batch) == \A i, j \in DOMAIN batch : batch[i].id = batch[j].id => i = j
PlannerAt(p, pcs) == planner[p].pc \in pcs

\* Of a batch that is being admitted, what has been looked up is not stored.
CheckedInv(p) ==
  PlannerAt(p, {"checking", "validating"}) =>
    /\ planner[p].batch # <<>> /\ OwnIds(planner[p].batch)
    /\ PlannerAt(p, {"validating"}) => planner[p].left = <<>>
    /\ \A raw \in ToSet(planner[p].batch) \ ToSet(planner[p].left) : ~Saved(raw.id)

StoredAs(raw, r) ==
  /\ Saved(raw.id) /\ stored[raw.id].run = r
  /\ stored[raw.id].dependencies = raw.dependencies

\* Once it is judged nothing of it is missing: what is left to save is not
\* stored, the rest is, and its dependencies are in the run or in the batch.
Saves(p) ==
  \/ PlannerAt(p, {"saving"})
  \/ PlannerAt(p, {"listing", "refreshing"}) /\ planner[p].command # "dispatch"
SavingInv(p) ==
  Saves(p) =>
    /\ PlannerAt(p, {"saving"}) <=> planner[p].left # <<>>
    /\ OwnIds(planner[p].left) /\ ToSet(planner[p].left) \subseteq ToSet(planner[p].batch)
    /\ \A raw \in ToSet(planner[p].left) : ~Saved(raw.id)
    /\ \A raw \in ToSet(planner[p].batch) \ ToSet(planner[p].left) :
         StoredAs(raw, planner[p].run)
    /\ \A raw \in ToSet(planner[p].batch) :
         ToSet(raw.dependencies) \subseteq TasksOf(planner[p].run) \cup Ids(planner[p].batch)

\* What a process has listed is what is stored, or was, for the revision tells.
ListedInv(p) ==
  PlannerAt(p, {"refreshing"}) =>
    \A t \in DOMAIN planner[p].listed :
      LET seen == planner[p].listed[t]
      IN  /\ t \in Task /\ seen \in StoredTask /\ Saved(t)
          /\ seen.dependencies = stored[t].dependencies
          /\ seen.revision <= stored[t].revision
          /\ seen.status = "verified" => stored[t].done
          /\ seen.status = "proposed" =>
               (seen.revision = stored[t].revision <=> stored[t].status = "proposed")

\* The inductive invariant.
AdmissionIInv ==
  /\ AdmissionTypeOK /\ AbsentInv /\ DoneInv /\ IdsApart
  /\ \A p \in Proc : CheckedInv(p) /\ SavingInv(p) /\ ListedInv(p)
  /\ ReadyIsStartable /\ AdmittedIsComplete

-----------------------------------------------------------------------------
(* Sequences of definitions. *)

LEMMA OwnTail ==
  ASSUME NEW s \in Seq(TaskDefinition), s # <<>>, OwnIds(s)
  PROVE  OwnIds(Tail(s)) /\ \A raw \in ToSet(Tail(s)) : raw.id # Head(s).id
<1>1. /\ Head(s) = s[1] /\ Len(s) \in Nat \ {0}
      /\ DOMAIN s = 1..Len(s) /\ DOMAIN Tail(s) = 1..(Len(s) - 1)
      /\ \A i \in 1..(Len(s) - 1) : Tail(s)[i] = s[i + 1]
  OBVIOUS
<1>2. ASSUME NEW i \in DOMAIN Tail(s), NEW j \in DOMAIN Tail(s), Tail(s)[i].id = Tail(s)[j].id
      PROVE  i = j
  <2>1. i + 1 \in DOMAIN s /\ j + 1 \in DOMAIN s /\ s[i + 1].id = s[j + 1].id
    BY <1>1, <1>2
  <2>2. i + 1 = j + 1
    BY <2>1 DEF OwnIds
  <2> QED
    BY <1>1, <2>2
<1>3. ASSUME NEW i \in DOMAIN Tail(s) PROVE Tail(s)[i].id # Head(s).id
  <2>1. i + 1 \in DOMAIN s /\ 1 \in DOMAIN s /\ i + 1 # 1 /\ Tail(s)[i] = s[i + 1]
    BY <1>1
  <2> QED
    BY <1>1, <2>1 DEF OwnIds
<1> QED
  BY <1>2, <1>3 DEF OwnIds, ToSet

LEMMA Written ==
  ASSUME NEW s \in Seq(TaskDefinition), NEW raw \in ToSet(s)
  PROVE  /\ raw \in TaskDefinition /\ raw.id \in Task /\ raw.dependencies \in Seq(Task)
         /\ raw.id \in Ids(s)
<1>1. PICK i \in DOMAIN s : raw = s[i]
  BY DEF ToSet
<1>2. raw \in TaskDefinition
  BY <1>1
<1> QED
  BY <1>1, <1>2 DEF Ids, TaskDefinition

\* As many ids as definitions: no id twice.
LEMMA AllDifferent ==
  ASSUME NEW batch \in Seq(TaskDefinition), Cardinality(Ids(batch)) = Len(batch)
  PROVE  OwnIds(batch)
<1> DEFINE n == Len(batch)
           id == [k \in 1..n |-> batch[k].id]
<1>1. n \in Nat /\ DOMAIN batch = 1..n
  OBVIOUS
<1>2. IsFiniteSet(1..n) /\ Cardinality(1..n) = n
  <2>1. 1 \in Int /\ n \in Int /\ (IF 1 > n THEN 0 ELSE n - 1 + 1) = n
    BY <1>1
  <2> HIDE DEF n
  <2> QED
    BY <2>1, FS_Interval
<1>3. Ids(batch) = {batch[k].id : k \in 1..n}
  BY <1>1 DEF Ids
<1>4. id \in Surjection(1..n, Ids(batch))
  BY <1>3 DEF Surjection
<1>5. id \in Injection(1..n, Ids(batch))
  <2> HIDE DEF n, id
  <2> QED
    BY <1>2, <1>4, FS_Surjection DEF n
<1> QED
  BY <1>1, <1>5 DEF OwnIds, Injection, IsInjective

LEMMA Nobody == Ids(<<>>) = {} /\ ToSet(<<>>) = {}
  BY DEF Ids, ToSet

-----------------------------------------------------------------------------
(* What every step leaves of the tasks: a save raises the revision, never   *)
(* moves a task to another run or changes its dependencies; a task that was *)
(* stored is no longer proposed; and that it has been done is never taken   *)
(* back.                                                                    *)

Keeps(t) ==
  \/ stored'[t] = stored[t]
  \/ /\ Saved(t)' /\ stored'[t].revision > stored[t].revision
     /\ Saved(t) => /\ stored'[t].run = stored[t].run
                    /\ stored'[t].dependencies = stored[t].dependencies
                    /\ stored'[t].status # "proposed"
     /\ stored[t].done => stored'[t].done
     /\ stored'[t].status = "verified" => stored'[t].done

\* Nobody stores what process p is about to store.
LeftAlone(p) == \A raw \in ToSet(planner[p].batch) : Saved(raw.id)' => Saved(raw.id)

LEMMA KeptFacts ==
  ASSUME AdmissionTypeOK, AbsentInv, NEW t \in Task, Keeps(t)
  PROVE  /\ Saved(t) => /\ Saved(t)' /\ stored'[t].run = stored[t].run
                        /\ stored'[t].dependencies = stored[t].dependencies
         /\ \A r \in Run : t \in TasksOf(r) => t \in TasksOf(r)'
         /\ stored[t].done => stored'[t].done
<1>1. Saved(t) => /\ Saved(t)' /\ stored'[t].run = stored[t].run
                  /\ stored'[t].dependencies = stored[t].dependencies
  BY DEF Keeps, Saved
<1>2. \A r \in Run : t \in TasksOf(r) => t \in TasksOf(r)'
  BY <1>1, AdmissionConstants DEF TasksOf, AbsentInv
<1> QED
  BY <1>1, <1>2 DEF Keeps

\* A process that does not move keeps what is known of its batch,
LEMMA BatchKept ==
  ASSUME AdmissionIInv, AdmissionTypeOK', \A t \in Task : Keeps(t), NEW p \in Proc,
         planner'[p].pc = planner[p].pc, planner'[p].command = planner[p].command,
         planner'[p].run = planner[p].run, planner'[p].batch = planner[p].batch,
         planner'[p].left = planner[p].left, LeftAlone(p)
  PROVE  CheckedInv(p)' /\ SavingInv(p)'
<1> DEFINE batch == planner[p].batch
           left == planner[p].left
           r == planner[p].run
<1>1. /\ AdmissionTypeOK /\ AbsentInv /\ CheckedInv(p) /\ SavingInv(p)
      /\ batch \in Seq(TaskDefinition) /\ (Saves(p) => r \in Run)
  BY DEF AdmissionIInv, AdmissionTypeOK, Saves, PlannerAt, PlannerRecord, PlannerFields
<1>2. \A raw \in ToSet(batch) : raw.id \in Task
  BY <1>1, Written
<1>3. \A raw \in ToSet(batch) : ~Saved(raw.id) => ~Saved(raw.id)'
  BY DEF LeftAlone
<1>4. \A raw \in ToSet(batch) : StoredAs(raw, r) => StoredAs(raw, r)'
  BY <1>1, <1>2, KeptFacts DEF StoredAs
<1>5. r \in Run => TasksOf(r) \subseteq TasksOf(r)'
  <2>1. \A t \in TasksOf(r) : t \in Task
    BY DEF TasksOf
  <2> QED
    BY <1>1, <2>1, KeptFacts
<1>6. /\ planner'[p].batch = batch /\ planner'[p].left = left /\ planner'[p].run = r
      /\ \A pcs : PlannerAt(p, pcs)' <=> PlannerAt(p, pcs)
      /\ Saves(p)' <=> Saves(p)
  BY DEF PlannerAt, Saves
<1>7. CheckedInv(p)'
  BY <1>1, <1>3, <1>6 DEF CheckedInv, PlannerAt
<1>8. SavingInv(p)'
  <2> SUFFICES ASSUME Saves(p)
               PROVE  SavingInv(p)'
    BY <1>6 DEF SavingInv
  <2>1. /\ r \in Run
        /\ PlannerAt(p, {"saving"}) <=> left # <<>>
        /\ OwnIds(left) /\ ToSet(left) \subseteq ToSet(batch)
        /\ \A raw \in ToSet(left) : ~Saved(raw.id)
        /\ \A raw \in ToSet(batch) \ ToSet(left) : StoredAs(raw, r)
        /\ \A raw \in ToSet(batch) :
             ToSet(raw.dependencies) \subseteq TasksOf(r) \cup Ids(batch)
    BY <1>1 DEF SavingInv, Saves
  <2>2. /\ \A raw \in ToSet(left) : ~Saved(raw.id)'
        /\ \A raw \in ToSet(batch) \ ToSet(left) : StoredAs(raw, r)'
        /\ \A raw \in ToSet(batch) :
             ToSet(raw.dependencies) \subseteq TasksOf(r)' \cup Ids(batch)
    BY <1>3, <1>4, <1>5, <2>1
  <2>3. PlannerAt(p, {"saving"})' <=> left # <<>>
    BY <1>6, <2>1
  <2> QED
    BY <1>6, <2>1, <2>2, <2>3 DEF SavingInv
<1> QED
  BY <1>7, <1>8

\* and what is known of its list.
LEMMA ListKept ==
  ASSUME AdmissionIInv, AdmissionTypeOK', \A t \in Task : Keeps(t), NEW p \in Proc,
         planner'[p].pc = planner[p].pc, planner'[p].listed = planner[p].listed
  PROVE  ListedInv(p)'
<1> DEFINE listed == planner[p].listed
<1>1. AdmissionTypeOK /\ AbsentInv /\ ListedInv(p)
  BY DEF AdmissionIInv
<1>2. ASSUME PlannerAt(p, {"refreshing"}), NEW t \in DOMAIN listed
      PROVE  /\ t \in Task /\ listed[t] \in StoredTask /\ Saved(t)'
             /\ listed[t].dependencies = stored'[t].dependencies
             /\ listed[t].revision <= stored'[t].revision
             /\ listed[t].status = "verified" => stored'[t].done
             /\ listed[t].status = "proposed" =>
                  (listed[t].revision = stored'[t].revision <=> stored'[t].status = "proposed")
  <2>1. /\ t \in Task /\ listed[t] \in StoredTask /\ Saved(t)
        /\ listed[t].dependencies = stored[t].dependencies
        /\ listed[t].revision <= stored[t].revision
        /\ listed[t].status = "verified" => stored[t].done
        /\ listed[t].status = "proposed" =>
             (listed[t].revision = stored[t].revision <=> stored[t].status = "proposed")
    BY <1>1, <1>2 DEF ListedInv
  <2>2. /\ stored[t].revision \in Nat /\ stored'[t].revision \in Nat /\ listed[t].revision \in Nat
    BY <1>1, <2>1 DEF AdmissionTypeOK, StoredTask
  <2>3. Keeps(t)
    BY <2>1
  <2> QED
    BY <1>1, <2>1, <2>2, <2>3, KeptFacts DEF Keeps
<1> QED
  BY <1>1, <1>2 DEF ListedInv, PlannerAt

\* What a step has to show for the invariant to hold after it.
LEMMA StepHolds ==
  ASSUME AdmissionIInv, AdmissionTypeOK', AbsentInv', IdsApart', \A t \in Task : Keeps(t),
         \A p \in Proc : CheckedInv(p)' /\ SavingInv(p)' /\ ListedInv(p)',
         \A t \in Task : Started(t)' =>
           Started(t) \/ \A d \in ToSet(stored'[t].dependencies) : stored'[d].done,
         \A r \in Run : \A t \in run'[r].admitted :
           t \in run[r].admitted \/ {t} \cup ToSet(stored'[t].dependencies) \subseteq TasksOf(r)'
  PROVE  AdmissionIInv'
<1>1. AdmissionTypeOK /\ AbsentInv /\ DoneInv /\ ReadyIsStartable /\ AdmittedIsComplete
  BY DEF AdmissionIInv
<1>2. ASSUME NEW t \in Task, Saved(t)
      PROVE  ToSet(stored[t].dependencies) \subseteq Task /\ stored'[t].dependencies = stored[t].dependencies
  <2>1. stored[t].dependencies \in Seq(Task)
    BY <1>1 DEF AdmissionTypeOK, StoredTask
  <2>2. Keeps(t)
    OBVIOUS
  <2> QED
    BY <1>1, <1>2, <2>1, <2>2, KeptFacts DEF ToSet
<1>3. ReadyIsStartable'
  <2> SUFFICES ASSUME NEW t \in Task, Started(t),
                      NEW d \in ToSet(stored'[t].dependencies)
               PROVE  stored'[d].done
    BY DEF ReadyIsStartable, Started
  <2>1. Saved(t)
    BY <1>1 DEF Started, DoneInv, Saved
  <2>2. d \in Task /\ stored[d].done
    BY <1>1, <1>2, <2>1 DEF ReadyIsStartable, Started
  <2>3. Keeps(d)
    BY <2>2
  <2> QED
    BY <1>1, <2>2, <2>3, KeptFacts
<1>5. DoneInv'
  <2> SUFFICES ASSUME NEW t \in Task
               PROVE  /\ stored'[t].status = "verified" => stored'[t].done
                      /\ stored'[t].done => Saved(t)'
    BY DEF DoneInv
  <2>1. Keeps(t)
    OBVIOUS
  <2>2. CASE stored'[t] = stored[t]
    BY <1>1, <2>2 DEF DoneInv, Saved
  <2>3. CASE stored'[t] # stored[t]
    BY <2>1, <2>3 DEF Keeps
  <2> QED
    BY <2>2, <2>3
<1>4. AdmittedIsComplete'
  <2> SUFFICES ASSUME NEW r \in Run, NEW t \in run[r].admitted
               PROVE  {t} \cup ToSet(stored'[t].dependencies) \subseteq TasksOf(r)'
    BY DEF AdmittedIsComplete
  <2>1. {t} \cup ToSet(stored[t].dependencies) \subseteq TasksOf(r)
    BY <1>1 DEF AdmittedIsComplete
  <2>2. t \in Task /\ Saved(t)
    BY <1>1, <2>1, AdmissionConstants DEF TasksOf, AbsentInv
  <2>3. TasksOf(r) \subseteq TasksOf(r)'
    <3>1. \A u \in TasksOf(r) : u \in Task
      BY DEF TasksOf
    <3> QED
      BY <1>1, <3>1, KeptFacts
  <2> QED
    BY <1>2, <2>1, <2>2, <2>3
<1> QED
  BY <1>3, <1>4, <1>5 DEF AdmissionIInv

-----------------------------------------------------------------------------
(* The steps that store nothing. *)

LEMMA PlannerStep ==
  ASSUME AdmissionIInv, stored' = stored, run' \in [Run -> RunRecord],
         NEW p \in Proc, NEW new \in PlannerRecord, planner' = [planner EXCEPT ![p] = new],
         \A q \in Proc \ {p} : Ids(new.batch) \cap Ids(planner[q].batch) = {},
         CheckedInv(p)', SavingInv(p)', ListedInv(p)',
         \A r \in Run : \A t \in run'[r].admitted :
           t \in run[r].admitted \/ {t} \cup ToSet(stored[t].dependencies) \subseteq TasksOf(r)
  PROVE  AdmissionIInv'
<1>1. AdmissionTypeOK /\ AbsentInv /\ IdsApart
  BY DEF AdmissionIInv
<1>2. planner \in [Proc -> PlannerRecord]
  BY <1>1 DEF AdmissionTypeOK
<1>3. planner'[p] = new /\ \A q \in Proc : q # p => planner'[q] = planner[q]
  BY <1>2
<1>4. planner' \in [Proc -> PlannerRecord]
  BY <1>2
<1>5. AdmissionTypeOK'
  BY <1>1, <1>4 DEF AdmissionTypeOK
<1>6. AbsentInv'
  BY <1>1 DEF AbsentInv, Saved
<1>7. IdsApart'
  BY <1>1, <1>3 DEF IdsApart
<1>8. /\ \A t \in Task : Keeps(t)
      /\ \A q \in Proc : LeftAlone(q)
  BY DEF Keeps, LeftAlone, Saved
<1>9. ASSUME NEW q \in Proc PROVE CheckedInv(q)' /\ SavingInv(q)' /\ ListedInv(q)'
  <2>1. CASE q = p
    BY <2>1
  <2>2. CASE q # p
    BY <1>3, <1>5, <1>8, <2>2, BatchKept, ListKept
  <2> QED
    BY <2>1, <2>2
<1>10. \A t \in Task : Started(t)' => Started(t)
  BY DEF Started
<1>11. \A r \in Run : TasksOf(r)' = TasksOf(r)
  BY DEF TasksOf
<1> QED
  BY <1>5, <1>6, <1>7, <1>8, <1>9, <1>10, <1>11, StepHolds

\* A process that is at rest, or has only its exception left.
LEMMA Quiet ==
  ASSUME NEW p \in Proc, PlannerAt(p, {"idle", "raised", "cancelling"})'
  PROVE  CheckedInv(p)' /\ SavingInv(p)' /\ ListedInv(p)'
BY DEF CheckedInv, SavingInv, ListedInv, PlannerAt, Saves

LEMMA QuietStep ==
  ASSUME AdmissionIInv, stored' = stored, run' \in [Run -> RunRecord],
         NEW p \in Proc, NEW new \in PlannerRecord, planner' = [planner EXCEPT ![p] = new],
         new.batch = planner[p].batch \/ new.batch = <<>>,
         new.pc \in {"idle", "raised", "cancelling"},
         \A r \in Run : run'[r].admitted = run[r].admitted
  PROVE  AdmissionIInv'
<1>1. planner \in [Proc -> PlannerRecord] /\ IdsApart
  BY DEF AdmissionIInv, AdmissionTypeOK
<1>2. PlannerAt(p, {"idle", "raised", "cancelling"})'
  BY <1>1 DEF PlannerAt
<1>3. \A q \in Proc \ {p} : Ids(new.batch) \cap Ids(planner[q].batch) = {}
  BY <1>1, Nobody DEF IdsApart
<1>4. \A r \in Run : \A t \in run'[r].admitted : t \in run[r].admitted
  OBVIOUS
<1> QED
  BY <1>2, <1>3, <1>4, Quiet, PlannerStep

LEMMA IdleType == Idle \in PlannerRecord
<1>1. <<>> \in Seq(TaskDefinition)
  OBVIOUS
<1>2. <<>> \in Listing
  BY DEF Listing
<1> QED
  BY <1>1, <1>2 DEF Idle, PlannerRecord, PlannerFields

\* An exception.
LEMMA RaisedHolds ==
  ASSUME AdmissionIInv, stored' = stored, run' = run, NEW p \in Proc,
         NEW cause \in {"duplicate", "inadmissible", "conflict", "unknown"},
         planner[p].pc # "idle", planner' = Raised(p, cause)
  PROVE  AdmissionIInv'
<1> DEFINE new == [planner[p] EXCEPT !.cause = cause, !.batch = <<>>, !.left = <<>>, !.listed = <<>>,
                                     !.pc = "raised"]
<1>1. planner \in [Proc -> PlannerRecord] /\ run \in [Run -> RunRecord]
  BY DEF AdmissionIInv, AdmissionTypeOK
<1>2. planner' = [planner EXCEPT ![p] = new]
  BY <1>1 DEF Raised
<1>3. new \in PlannerRecord /\ new.batch = <<>> /\ new.pc = "raised"
  <2>1. planner[p] \in PlannerRecord
    BY <1>1
  <2>2. <<>> \in Seq(TaskDefinition) /\ <<>> \in Listing
    BY DEF Listing
  <2> QED
    BY <2>1, <2>2 DEF PlannerRecord, PlannerFields
<1> HIDE DEF new
<1> QED
  BY <1>1, <1>2, <1>3, QuietStep

LEMMA Begin ==
  ASSUME NEW command, NEW r, NEW batch, NEW new,
         new = [Idle EXCEPT !.command = command, !.run = r, !.batch = batch, !.left = batch,
                            !.pc = "checking"]
  PROVE  new = [pc |-> "checking", command |-> command, run |-> r, batch |-> batch, left |-> batch,
                listed |-> <<>>, seen |-> 0, cause |-> "none"]
<1>1. new = [Idle EXCEPT !.command = command, !.run = r, !.batch = batch, !.left = batch,
                         !.pc = "checking"]
  OBVIOUS
<1> QED
  BY ONLY <1>1 DEF Idle

LEMMA BeginInVain ==
  ASSUME NEW command, NEW r, NEW new,
         new = [Idle EXCEPT !.command = command, !.run = r, !.pc = "raised", !.cause = "definition"]
  PROVE  new = [pc |-> "raised", command |-> command, run |-> r, batch |-> <<>>, left |-> <<>>,
                listed |-> <<>>, seen |-> 0, cause |-> "definition"]
<1>1. new = [Idle EXCEPT !.command = command, !.run = r, !.pc = "raised", !.cause = "definition"]
  OBVIOUS
<1> QED
  BY ONLY <1>1 DEF Idle

\* add_tasks for a batch whose ids nobody else is admitting.
LEMMA AddTasksHolds ==
  ASSUME AdmissionIInv, ~SameIds, stored' = stored, run' \in [Run -> RunRecord],
         \A r \in Run : \A t \in run'[r].admitted : t \in run[r].admitted,
         NEW p \in Proc, NEW command \in {"plan", "propose"}, NEW r \in Run,
         NEW batch \in Seq(TaskDefinition), batch # <<>>, AddTasks(p, command, r, batch)
  PROVE  AdmissionIInv'
<1> DEFINE fine == (\A raw \in ToSet(batch) : Defined(raw, run'[r])) /\ Cardinality(Ids(batch)) = Len(batch)
           all == IF fine THEN batch ELSE <<>>
           pc == IF fine THEN "checking" ELSE "raised"
           cause == IF fine THEN "none" ELSE "definition"
<1> DEFINE begun == [Idle EXCEPT !.command = command, !.run = r, !.batch = batch, !.left = batch,
                                !.pc = "checking"]
           vain == [Idle EXCEPT !.command = command, !.run = r, !.pc = "raised", !.cause = "definition"]
<1>1. planner \in [Proc -> PlannerRecord]
  BY DEF AdmissionIInv, AdmissionTypeOK
<1>2. PICK new : /\ planner' = [planner EXCEPT ![p] = new]
                 /\ new = IF fine THEN begun ELSE vain
  BY DEF AddTasks
<1>8. \A q \in Proc \ {p} : Ids(batch) \cap Ids(planner[q].batch) = {}
  BY DEF AddTasks
<1>3. fine => OwnIds(batch)
  BY AllDifferent
<1> HIDE DEF fine
<1>4. /\ new \in PlannerRecord /\ new.batch = all /\ new.run = r /\ new.left = all /\ new.pc = pc
  <2>1. /\ all \in Seq(TaskDefinition) /\ command \in {"plan", "propose"} /\ r \in Run
        /\ pc \in {"checking", "raised"} /\ cause \in {"none", "definition"}
    OBVIOUS
  <2>2. new = [pc |-> pc, command |-> command, run |-> r, batch |-> all, left |-> all,
               listed |-> <<>>, seen |-> 0, cause |-> cause]
    <3> HIDE DEF begun, vain
    <3>1. CASE fine
      <4>1. new = [pc |-> "checking", command |-> command, run |-> r, batch |-> batch,
                   left |-> batch, listed |-> <<>>, seen |-> 0, cause |-> "none"]
        BY <1>2, <3>1, Begin DEF begun
      <4> QED
        BY <3>1, <4>1
    <3>2. CASE ~fine
      <4>1. new = [pc |-> "raised", command |-> command, run |-> r, batch |-> <<>>, left |-> <<>>,
                   listed |-> <<>>, seen |-> 0, cause |-> "definition"]
        BY <1>2, <3>2, BeginInVain DEF vain
      <4> QED
        BY <3>2, <4>1
    <3> QED
      BY <3>1, <3>2
  <2> HIDE DEF all, pc, cause
  <2>3. <<>> \in Listing
    BY DEF Listing
  <2>4. new \in PlannerFields
    BY <2>1, <2>2, <2>3 DEF PlannerFields
  <2> QED
    BY <2>1, <2>2, <2>4 DEF PlannerRecord
<1> HIDE DEF begun, vain
<1>5. planner'[p] = new
  BY <1>2, <1>1
<1>6. CheckedInv(p)' /\ SavingInv(p)' /\ ListedInv(p)'
  <2>1. CASE fine
    <3>1. ToSet(batch) \ ToSet(batch) = {}
      OBVIOUS
    <3> QED
      BY <1>3, <1>4, <1>5, <2>1, <3>1 DEF CheckedInv, SavingInv, ListedInv, PlannerAt, Saves
  <2>2. CASE ~fine
    BY <1>4, <1>5, <2>2, Quiet DEF PlannerAt
  <2> QED
    BY <2>1, <2>2
<1>9. \A q \in Proc \ {p} : Ids(new.batch) \cap Ids(planner[q].batch) = {}
  BY <1>8, <1>4, Nobody
<1> QED
  BY <1>2, <1>4, <1>6, <1>9, PlannerStep

LEMMA FreshRunIsARun ==
  ASSUME \E r \in Run : run[r].status = "absent"
  PROVE  FreshRun \in Run
BY DEF FreshRun

LEMMA PlanHolds ==
  ASSUME AdmissionIInv, ~SameIds, NEW p \in Proc, Plan(p)
  PROVE  AdmissionIInv'
<1>1. PICK payload \in Specifications[p] :
        /\ WellFormed(payload)
        /\ run' = [run EXCEPT ![FreshRun] = [status |-> "planned", acceptance |-> payload.acceptance,
                                             revision |-> 1, admitted |-> {}]]
        /\ AddTasks(p, "plan", FreshRun, payload.tasks)
  BY DEF Plan
<1>2. FreshRun \in Run
  BY FreshRunIsARun DEF Plan
<1>3. payload.tasks \in Seq(TaskDefinition) /\ payload.acceptance \subseteq STRING /\ payload.tasks # <<>>
  BY <1>1, AdmissionConstants DEF WellFormed
<1>4. run \in [Run -> RunRecord]
  BY DEF AdmissionIInv, AdmissionTypeOK
<1>5. [status |-> "planned", acceptance |-> payload.acceptance, revision |-> 1, admitted |-> {}] \in RunRecord
  BY <1>3 DEF RunRecord
<1>6. run' \in [Run -> RunRecord] /\ \A r \in Run : \A t \in run'[r].admitted : t \in run[r].admitted
  BY <1>1, <1>2, <1>4, <1>5
<1>7. stored' = stored
  BY DEF Plan
<1> QED
  BY <1>1, <1>2, <1>3, <1>6, <1>7, AddTasksHolds

LEMMA ProposeHolds ==
  ASSUME AdmissionIInv, ~SameIds, NEW p \in Proc, Propose(p)
  PROVE  AdmissionIInv'
<1>1. PICK raw \in Proposals[p], r \in Run : AddTasks(p, "propose", r, <<raw>>)
  BY DEF Propose
<1>2. raw \in TaskDefinition
  BY AdmissionConstants
<1>3. <<raw>> \in Seq(TaskDefinition) /\ <<raw>> # <<>>
  BY <1>2
<1>4. stored' = stored /\ run' = run
  BY DEF Propose
<1>5. run' \in [Run -> RunRecord]
  BY <1>4 DEF AdmissionIInv, AdmissionTypeOK
<1> QED
  BY <1>1, <1>3, <1>4, <1>5, AddTasksHolds

\* The step from one place to the next, with the same batch.
LEMMA GotoHolds ==
  ASSUME AdmissionIInv, stored' = stored, run' = run, NEW p \in Proc,
         NEW pc \in {"checking", "validating", "saving"}, NEW left \in Seq(TaskDefinition),
         planner[p].pc # "idle", planner' = Goto(p, pc, left), CheckedInv(p)', SavingInv(p)'
  PROVE  AdmissionIInv'
<1> DEFINE new == [planner[p] EXCEPT !.pc = pc, !.left = left]
<1>1. planner \in [Proc -> PlannerRecord] /\ run \in [Run -> RunRecord] /\ IdsApart
  BY DEF AdmissionIInv, AdmissionTypeOK
<1>2. planner' = [planner EXCEPT ![p] = new]
  BY <1>1 DEF Goto
<1>3. new \in PlannerRecord /\ new.batch = planner[p].batch /\ new.pc = pc
  <2>1. planner[p] \in PlannerRecord
    BY <1>1
  <2> QED
    BY <2>1 DEF PlannerRecord, PlannerFields
<1> HIDE DEF new
<1>4. ListedInv(p)'
  BY <1>1, <1>2, <1>3 DEF ListedInv, PlannerAt
<1>5. \A q \in Proc \ {p} : Ids(new.batch) \cap Ids(planner[q].batch) = {}
  BY <1>1, <1>3 DEF IdsApart
<1> QED
  BY <1>1, <1>2, <1>3, <1>4, <1>5, PlannerStep

LEMMA GotoFacts ==
  ASSUME AdmissionTypeOK, NEW p \in Proc, NEW pc, NEW left, planner' = Goto(p, pc, left)
  PROVE  /\ planner'[p].pc = pc /\ planner'[p].left = left /\ planner'[p].run = planner[p].run
         /\ planner'[p].batch = planner[p].batch /\ planner'[p].command = planner[p].command
BY DEF Goto, AdmissionTypeOK, PlannerRecord, PlannerFields

LEMMA CheckNewHolds ==
  ASSUME AdmissionIInv, NEW p \in Proc, CheckNew(p)
  PROVE  AdmissionIInv'
<1> DEFINE left == planner[p].left
           batch == planner[p].batch
<1>1. /\ stored' = stored /\ run' = run /\ planner[p].pc = "checking"
      /\ left \in Seq(TaskDefinition) /\ batch \in Seq(TaskDefinition) /\ AdmissionTypeOK
  BY DEF CheckNew, AdmissionIInv, AdmissionTypeOK, PlannerRecord, PlannerFields
<1>2. /\ batch # <<>> /\ OwnIds(batch)
      /\ \A raw \in ToSet(batch) \ ToSet(left) : ~Saved(raw.id)
  BY <1>1 DEF AdmissionIInv, CheckedInv, PlannerAt
<1>3. CASE left = <<>>
  <2>1. planner' = Goto(p, "validating", <<>>)
    BY <1>3 DEF CheckNew
  <2>2. /\ planner'[p].pc = "validating" /\ planner'[p].left = <<>> /\ planner'[p].run = planner[p].run
        /\ planner'[p].batch = batch
    BY <1>1, <2>1, GotoFacts
  <2>3. \A raw \in ToSet(batch) : ~Saved(raw.id)'
    BY <1>1, <1>2, <1>3, Nobody DEF Saved
  <2>4. CheckedInv(p)'
    BY <1>2, <2>2, <2>3 DEF CheckedInv, PlannerAt
  <2>5. SavingInv(p)'
    BY <2>2 DEF SavingInv, Saves, PlannerAt
  <2>6. <<>> \in Seq(TaskDefinition)
    OBVIOUS
  <2> QED
    BY <1>1, <2>1, <2>4, <2>5, <2>6, GotoHolds
<1>4. CASE left # <<>> /\ stored[Head(left).id].status = "absent"
  <2>1. planner' = Goto(p, "checking", Tail(left))
    BY <1>4 DEF CheckNew
  <2>2. /\ planner'[p].pc = "checking" /\ planner'[p].left = Tail(left) /\ planner'[p].run = planner[p].run
        /\ planner'[p].batch = batch
    BY <1>1, <2>1, GotoFacts
  <2>3. Tail(left) \in Seq(TaskDefinition) /\ ToSet(left) = {Head(left)} \cup ToSet(Tail(left))
    BY <1>1, <1>4, HeadTail
  <2>4. \A raw \in ToSet(batch) \ ToSet(Tail(left)) : ~Saved(raw.id)'
    BY <1>1, <1>2, <1>4, <2>3 DEF Saved
  <2>5. CheckedInv(p)'
    BY <1>2, <2>2, <2>4 DEF CheckedInv, PlannerAt
  <2>6. SavingInv(p)'
    BY <2>2 DEF SavingInv, Saves, PlannerAt
  <2> QED
    BY <1>1, <2>1, <2>3, <2>5, <2>6, GotoHolds
<1>5. CASE left # <<>> /\ stored[Head(left).id].status # "absent"
  <2>1. planner' = Raised(p, "duplicate")
    BY <1>5 DEF CheckNew
  <2> QED
    BY <1>1, <2>1, RaisedHolds
<1> QED
  BY <1>3, <1>4, <1>5

LEMMA ValidateHolds ==
  ASSUME AdmissionIInv, NEW p \in Proc, Validate(p)
  PROVE  AdmissionIInv'
<1> DEFINE batch == planner[p].batch
           r == planner[p].run
<1>1. /\ stored' = stored /\ run' = run /\ planner[p].pc = "validating"
      /\ batch \in Seq(TaskDefinition) /\ AdmissionTypeOK
  BY DEF Validate, AdmissionIInv, AdmissionTypeOK, PlannerRecord, PlannerFields
<1>2. /\ batch # <<>> /\ OwnIds(batch)
      /\ \A raw \in ToSet(batch) : ~Saved(raw.id)
  BY <1>1, Nobody DEF AdmissionIInv, CheckedInv, PlannerAt
<1>3. CASE Admissible(r, batch)
  <2>1. planner' = Goto(p, "saving", batch)
    BY <1>3 DEF Validate
  <2>2. /\ planner'[p].pc = "saving" /\ planner'[p].left = batch /\ planner'[p].run = r
        /\ planner'[p].batch = batch
    BY <1>1, <2>1, GotoFacts
  <2>3. \A raw \in ToSet(batch) : ToSet(raw.dependencies) \subseteq TasksOf(r)' \cup Ids(batch)
    <3>1. DOMAIN Together(r, batch) = TasksOf(r) \cup Ids(batch)
      BY DEF Together, Existing
    <3>2. TasksOf(r)' = TasksOf(r)
      BY <1>1, <2>2 DEF TasksOf
    <3> QED
      BY <1>3, <3>1, <3>2 DEF Admissible
  <2>4. ToSet(batch) \ ToSet(batch) = {} /\ \A raw \in ToSet(batch) : ~Saved(raw.id)'
    BY <1>1, <1>2 DEF Saved
  <2>5. SavingInv(p)'
    BY <1>2, <2>2, <2>3, <2>4 DEF SavingInv, PlannerAt
  <2>6. CheckedInv(p)'
    BY <2>2 DEF CheckedInv, PlannerAt
  <2> QED
    BY <1>1, <2>1, <2>5, <2>6, GotoHolds
<1>4. CASE ~Admissible(r, batch)
  <2>1. planner' = Raised(p, "inadmissible")
    BY <1>4 DEF Validate
  <2> QED
    BY <1>1, <2>1, RaisedHolds
<1> QED
  BY <1>3, <1>4

LEMMA DispatchHolds ==
  ASSUME AdmissionIInv, NEW p \in Proc, Dispatch(p)
  PROVE  AdmissionIInv'
<1>1. PICK r \in Run :
        /\ run' = [run EXCEPT ![r].revision = @ + 1]
        /\ planner' = [planner EXCEPT ![p] = [Idle EXCEPT !.command = "dispatch", !.run = r, !.pc = "listing"]]
  BY DEF Dispatch
<1> DEFINE new == [Idle EXCEPT !.command = "dispatch", !.run = r, !.pc = "listing"]
<1>2. planner \in [Proc -> PlannerRecord] /\ run \in [Run -> RunRecord] /\ stored' = stored
  BY DEF AdmissionIInv, AdmissionTypeOK, Dispatch
<1>3. /\ new \in PlannerRecord /\ new.batch = <<>> /\ new.pc = "listing" /\ new.run = r
      /\ new.command = "dispatch"
  <2>1. Idle \in PlannerRecord /\ Idle.batch = <<>>
    BY IdleType DEF Idle
  <2> QED
    BY <2>1 DEF PlannerRecord, PlannerFields
<1>4. planner' = [planner EXCEPT ![p] = new]
  BY <1>1
<1> HIDE DEF new
<1>5. CheckedInv(p)' /\ SavingInv(p)' /\ ListedInv(p)'
  BY <1>2, <1>3, <1>4 DEF CheckedInv, SavingInv, ListedInv, PlannerAt, Saves
<1>6. run' \in [Run -> RunRecord] /\ \A s \in Run : run'[s].admitted = run[s].admitted
  BY <1>1, <1>2 DEF RunRecord
<1>7. \A q \in Proc \ {p} : Ids(new.batch) \cap Ids(planner[q].batch) = {}
  BY <1>3, Nobody
<1>8. \A s \in Run : \A t \in run'[s].admitted : t \in run[s].admitted
  BY <1>6
<1> QED
  BY <1>2, <1>3, <1>4, <1>5, <1>6, <1>7, <1>8, PlannerStep

LEMMA ListHolds ==
  ASSUME AdmissionIInv, NEW p \in Proc, List(p)
  PROVE  AdmissionIInv'
<1> DEFINE names == IF planner[p].command = "dispatch" THEN TasksOf(planner[p].run)
                    ELSE {t \in Task : stored[t].status # "absent"}
           listed == [t \in names |-> stored[t]]
           new == [planner[p] EXCEPT !.pc = "refreshing", !.listed = listed]
<1>1. /\ planner \in [Proc -> PlannerRecord] /\ run \in [Run -> RunRecord] /\ stored \in [Task -> StoredTask]
      /\ IdsApart /\ AbsentInv /\ DoneInv /\ SavingInv(p)
      /\ stored' = stored /\ run' = run /\ planner[p].pc = "listing"
  BY DEF AdmissionIInv, AdmissionTypeOK, List
<1>2. planner[p].run \in Run
  BY <1>1 DEF PlannerRecord
<1>3. names \subseteq Task /\ \A t \in names : Saved(t)
  BY <1>1, <1>2, AdmissionConstants DEF TasksOf, AbsentInv, Saved
<1> HIDE DEF names
<1>4. listed \in Listing
  BY <1>1, <1>3 DEF Listing
<1>5. planner' = [planner EXCEPT ![p] = new]
  BY <1>1 DEF List, names
<1>6. DOMAIN listed = names /\ \A t \in names : listed[t] = stored[t]
  OBVIOUS
<1> HIDE DEF listed
<1>7. /\ new \in PlannerRecord /\ new.batch = planner[p].batch /\ new.pc = "refreshing"
      /\ new.run = planner[p].run /\ new.left = planner[p].left /\ new.command = planner[p].command
      /\ new.listed = listed
  <2>1. planner[p] \in PlannerRecord
    BY <1>1
  <2> QED
    BY <1>2, <1>4, <2>1 DEF PlannerRecord, PlannerFields
<1> HIDE DEF new
<1>8. planner'[p] = new
  BY <1>1, <1>5
<1>9. ListedInv(p)'
  <2>1. ASSUME NEW t \in names
        PROVE  /\ t \in Task /\ stored[t] \in StoredTask /\ Saved(t)'
               /\ stored'[t] = stored[t] /\ stored[t].revision <= stored[t].revision
               /\ stored[t].status = "verified" => stored[t].done
    BY <1>1, <1>3 DEF StoredTask, Saved, DoneInv
  <2> QED
    BY <1>6, <1>7, <1>8, <2>1 DEF ListedInv, PlannerAt
<1>10. CheckedInv(p)'
  BY <1>7, <1>8 DEF CheckedInv, PlannerAt
<1>11. SavingInv(p)'
  <2>1. \A r \in Run : TasksOf(r)' = TasksOf(r)
    BY <1>1 DEF TasksOf
  <2>2. \A raw, r : (Saved(raw.id)' <=> Saved(raw.id)) /\ (StoredAs(raw, r)' <=> StoredAs(raw, r))
    BY <1>1 DEF StoredAs, Saved
  <2> QED
    BY <1>1, <1>2, <1>7, <1>8, <2>1, <2>2 DEF SavingInv, Saves, PlannerAt, StoredAs, Saved
<1>12. \A q \in Proc \ {p} : Ids(new.batch) \cap Ids(planner[q].batch) = {}
  BY <1>1, <1>7 DEF IdsApart
<1> QED
  BY <1>1, <1>5, <1>7, <1>9, <1>10, <1>11, <1>12, PlannerStep

\* What is reported is stored, whole.
LEMMA ReportHolds ==
  ASSUME AdmissionIInv, NEW p \in Proc, Report(p)
  PROVE  AdmissionIInv'
<1> DEFINE batch == planner[p].batch
           r == planner[p].run
<1>1. /\ planner \in [Proc -> PlannerRecord] /\ run \in [Run -> RunRecord]
      /\ SavingInv(p) /\ stored' = stored /\ planner[p].pc = "refreshing"
      /\ planner' = [planner EXCEPT ![p] = Idle] /\ batch \in Seq(TaskDefinition) /\ r \in Run
  BY DEF AdmissionIInv, AdmissionTypeOK, Report, PlannerRecord, PlannerFields
<1>2. Idle \in PlannerRecord /\ Idle.pc = "idle" /\ Idle.batch = <<>>
  BY IdleType DEF Idle
<1>3. CASE planner[p].command = "dispatch"
  <2>1. run' = run
    BY <1>3 DEF Report
  <2> QED
    BY <1>1, <1>2, <2>1, QuietStep
<1>4. CASE planner[p].command # "dispatch"
  <2>1. /\ planner[p].left = <<>>
        /\ \A raw \in ToSet(batch) : StoredAs(raw, r)
        /\ \A raw \in ToSet(batch) : ToSet(raw.dependencies) \subseteq TasksOf(r) \cup Ids(batch)
    BY <1>1, <1>4, Nobody DEF SavingInv, Saves, PlannerAt
  <2>2. Ids(batch) \subseteq TasksOf(r)
    <3> SUFFICES ASSUME NEW i \in DOMAIN batch
                 PROVE  batch[i].id \in TasksOf(r)
      BY DEF Ids
    <3>1. batch[i] \in ToSet(batch) /\ batch[i].id \in Task
      BY <1>1, Written DEF ToSet
    <3> QED
      BY <2>1, <3>1 DEF StoredAs, TasksOf
  <2>3. \A t \in Ids(batch) : {t} \cup ToSet(stored[t].dependencies) \subseteq TasksOf(r)
    <3> SUFFICES ASSUME NEW i \in DOMAIN batch
                 PROVE  ToSet(stored[batch[i].id].dependencies) \subseteq TasksOf(r)
      BY <2>2 DEF Ids
    <3>1. batch[i] \in ToSet(batch)
      BY DEF ToSet
    <3> QED
      BY <2>1, <2>2, <3>1 DEF StoredAs
  <2>4. run' = [run EXCEPT ![r].admitted = @ \cup Ids(batch)]
    BY <1>4 DEF Report
  <2>5. Ids(batch) \subseteq Task
    BY <2>2 DEF TasksOf
  <2> DEFINE ids == Ids(batch)
  <2> HIDE DEF r, ids
  <2>6. /\ run' \in [Run -> RunRecord]
        /\ \A s \in Run : \A t \in run'[s].admitted : t \in run[s].admitted \/ (s = r /\ t \in ids)
    <3> DEFINE record == [run[r] EXCEPT !.admitted = @ \cup ids]
    <3>1. run[r] \in RunRecord
      BY <1>1
    <3>2. record \in RunRecord /\ record.admitted = run[r].admitted \cup ids
      <4>1. run[r].admitted \cup ids \subseteq Task
        BY <2>5, <3>1 DEF RunRecord, ids
      <4> DEFINE more == run[r].admitted \cup ids
      <4> HIDE DEF more
      <4>2. record = [run[r] EXCEPT !.admitted = more]
        BY DEF more
      <4>3. more \subseteq Task
        BY <4>1 DEF more
      <4>4. record \in RunRecord /\ record.admitted = more
        BY <3>1, <4>2, <4>3 DEF RunRecord
      <4> QED
        BY <4>4 DEF more
    <3>3. run' = [run EXCEPT ![r] = record]
      <4>1. run \in [Run -> RunRecord] /\ r \in Run /\ run' = [run EXCEPT ![r].admitted = @ \cup ids]
        BY <1>1, <2>4 DEF ids
      <4> HIDE DEF RunRecord
      <4> QED
        BY ONLY <4>1
    <3> HIDE DEF record
    <3> QED
      BY <1>1, <3>2, <3>3
  <2>7. \A s \in Run : \A t \in run'[s].admitted :
          t \in run[s].admitted \/ {t} \cup ToSet(stored[t].dependencies) \subseteq TasksOf(s)
    BY <2>3, <2>6 DEF ids
  <2>8. CheckedInv(p)' /\ SavingInv(p)' /\ ListedInv(p)'
    BY <1>1, <1>2, Quiet DEF PlannerAt
  <2>9. \A q \in Proc \ {p} : Ids(Idle.batch) \cap Ids(planner[q].batch) = {}
    BY <1>2, Nobody
  <2> QED
    BY <1>1, <1>2, <2>6, <2>7, <2>8, <2>9, PlannerStep
<1> QED
  BY <1>3, <1>4

LEMMA OrphanHolds ==
  ASSUME AdmissionIInv, NEW p \in Proc, ReadOrphan(p) \/ CancelOrphan(p) \/ Crash(p)
  PROVE  AdmissionIInv'
<1>1. /\ planner \in [Proc -> PlannerRecord] /\ run \in [Run -> RunRecord] /\ stored' = stored
  BY DEF AdmissionIInv, AdmissionTypeOK, ReadOrphan, CancelOrphan, Crash
<1>2. Idle \in PlannerRecord /\ Idle.pc = "idle" /\ Idle.batch = <<>>
  BY IdleType DEF Idle
<1>3. run' \in [Run -> RunRecord] /\ \A r \in Run : run'[r].admitted = run[r].admitted
  <2>1. CASE run' = run
    BY <1>1, <2>1
  <2>2. CASE run' # run
    <3> DEFINE r == planner[p].run
    <3>1. run' = [run EXCEPT ![r].status = "cancelled", ![r].revision = @ + 1] /\ planner[p].pc = "cancelling"
      BY <2>2 DEF ReadOrphan, CancelOrphan, Crash
    <3>2. r \in Run
      BY <1>1, <3>1 DEF PlannerRecord
    <3> HIDE DEF r
    <3> QED
      BY <1>1, <3>1, <3>2 DEF RunRecord
  <2> QED
    BY <2>1, <2>2
<1>4. CASE planner' = [planner EXCEPT ![p] = Idle]
  BY <1>1, <1>2, <1>3, <1>4, QuietStep
<1>5. CASE planner' # [planner EXCEPT ![p] = Idle]
  <2> DEFINE seen == run[planner[p].run].revision
             new == [planner[p] EXCEPT !.pc = "cancelling", !.seen = seen]
  <2>1. planner' = [planner EXCEPT ![p].pc = "cancelling", ![p].seen = seen]
    BY <1>5 DEF ReadOrphan, CancelOrphan, Crash
  <2>2. planner' = [planner EXCEPT ![p] = new]
    BY <1>1, <2>1
  <2>3. new \in PlannerRecord /\ new.batch = planner[p].batch /\ new.pc = "cancelling"
    <3>1. planner[p] \in PlannerRecord
      BY <1>1
    <3>2. planner[p].pc # "idle"
      BY <1>5 DEF ReadOrphan, CancelOrphan, Crash
    <3>3. seen \in Nat
      BY <1>1, <3>1, <3>2 DEF PlannerRecord, RunRecord
    <3> HIDE DEF seen
    <3> QED
      BY <3>1, <3>2, <3>3 DEF PlannerRecord, PlannerFields
  <2> HIDE DEF new
  <2> QED
    BY <1>1, <1>3, <2>2, <2>3, QuietStep
<1> QED
  BY <1>4, <1>5

LEMMA StartRunHolds ==
  ASSUME AdmissionIInv, NEW r \in Run, StartRun(r)
  PROVE  AdmissionIInv'
<1>1. /\ stored' = stored /\ planner' = planner /\ AdmissionTypeOK
      /\ run' = [run EXCEPT ![r].status = "active", ![r].revision = @ + 1]
  BY DEF StartRun, AdmissionIInv
<1>2. run' \in [Run -> RunRecord] /\ \A s \in Run : run'[s].admitted = run[s].admitted
  BY <1>1 DEF AdmissionTypeOK, RunRecord
<1>3. AdmissionTypeOK' /\ AbsentInv' /\ IdsApart'
  BY <1>1, <1>2 DEF AdmissionIInv, AdmissionTypeOK, AbsentInv, IdsApart, Saved
<1>4. (\A t \in Task : Keeps(t)) /\ \A p \in Proc : LeftAlone(p)
  BY <1>1 DEF Keeps, LeftAlone, Saved
<1>5. \A p \in Proc : CheckedInv(p)' /\ SavingInv(p)' /\ ListedInv(p)'
  BY <1>1, <1>3, <1>4, BatchKept, ListKept
<1>6. \A t \in Task : Started(t)' => Started(t)
  BY <1>1 DEF Started
<1> QED
  BY <1>1, <1>2, <1>3, <1>4, <1>5, <1>6, StepHolds

-----------------------------------------------------------------------------
(* The steps that store a task. *)

\* admit_tasks stores a task that was not stored: it has been looked up, and
\* nobody else admits it.
LEMMA SaveTaskHolds ==
  ASSUME AdmissionIInv, NEW p \in Proc, SaveTask(p)
  PROVE  AdmissionIInv'
<1> DEFINE batch == planner[p].batch
           left == planner[p].left
           raw == Head(left)
           r == planner[p].run
           task == [run |-> r, dependencies |-> raw.dependencies,
                    status |-> IF raw.dependencies = <<>> THEN "ready" ELSE "proposed",
                    revision |-> stored[raw.id].revision + 1, done |-> FALSE]
           pc == IF Tail(left) = <<>> THEN "listing" ELSE "saving"
           new == [planner[p] EXCEPT !.pc = pc, !.left = Tail(left)]
<1>1. /\ AdmissionTypeOK /\ AbsentInv /\ DoneInv /\ IdsApart /\ SavingInv(p)
      /\ planner \in [Proc -> PlannerRecord] /\ stored \in [Task -> StoredTask]
      /\ planner[p] \in PlannerRecord /\ planner[p].pc = "saving" /\ run' = run
      /\ batch \in Seq(TaskDefinition) /\ left \in Seq(TaskDefinition) /\ r \in Run
  BY DEF AdmissionIInv, AdmissionTypeOK, SaveTask, PlannerRecord, PlannerFields
<1>2. /\ left # <<>> /\ OwnIds(left) /\ ToSet(left) \subseteq ToSet(batch)
      /\ \A other \in ToSet(left) : ~Saved(other.id)
      /\ \A other \in ToSet(batch) \ ToSet(left) : StoredAs(other, r)
      /\ \A other \in ToSet(batch) : ToSet(other.dependencies) \subseteq TasksOf(r) \cup Ids(batch)
  BY <1>1 DEF SavingInv, Saves, PlannerAt
<1>3. /\ Tail(left) \in Seq(TaskDefinition) /\ ToSet(left) = {raw} \cup ToSet(Tail(left))
      /\ OwnIds(Tail(left)) /\ \A other \in ToSet(Tail(left)) : other.id # raw.id
  BY <1>1, <1>2, HeadTail, OwnTail
<1>4. raw \in ToSet(batch) /\ raw.id \in Task /\ raw.dependencies \in Seq(Task) /\ raw.id \in Ids(batch)
  <2>1. raw \in ToSet(batch)
    BY <1>2, <1>3
  <2> HIDE DEF raw
  <2> QED
    BY <1>1, <2>1, Written
<1>5. /\ ~Saved(raw.id) /\ stored[raw.id].revision \in Nat
      /\ task \in StoredTask /\ task.status \in {"ready", "proposed"} /\ task.run = r
      /\ task.dependencies = raw.dependencies /\ task.revision > stored[raw.id].revision
      /\ task.status = "ready" => raw.dependencies = <<>>
      /\ task.done = FALSE
  <2>1. ~Saved(raw.id)
    BY <1>2, <1>3
  <2>2. stored[raw.id].revision \in Nat
    BY <1>1, <1>4 DEF StoredTask
  <2> HIDE DEF raw, r
  <2> QED
    BY <1>1, <1>4, <2>1, <2>2 DEF StoredTask
<1>6. stored' = [stored EXCEPT ![raw.id] = task]
  BY DEF SaveTask
<1>7. planner' = [planner EXCEPT ![p] = new]
  BY <1>1 DEF SaveTask, Goto
<1>8. new \in PlannerRecord /\ new.pc = pc /\ new.left = Tail(left) /\ new.batch = batch
      /\ new.run = r /\ new.listed = planner[p].listed
  <2> DEFINE rest == Tail(left)
  <2>1. rest \in Seq(TaskDefinition)
    BY <1>3
  <2> HIDE DEF rest
  <2>2. planner[p].pc # "idle"
    BY <1>1
  <2> DEFINE next == [planner[p] EXCEPT !.pc = pc, !.left = rest]
  <2>3. /\ next \in PlannerRecord /\ next.pc = pc /\ next.left = rest /\ next.batch = batch
        /\ next.run = r /\ next.listed = planner[p].listed
    BY <1>1, <2>1, <2>2 DEF PlannerRecord, PlannerFields
  <2>4. new = next
    BY DEF rest
  <2> HIDE DEF next, new
  <2> QED
    BY <2>3, <2>4 DEF rest
<1> HIDE DEF task, new
<1>9. /\ stored' \in [Task -> StoredTask] /\ stored'[raw.id] = task
      /\ \A t \in Task : t # raw.id => stored'[t] = stored[t]
  BY <1>1, <1>4, <1>5, <1>6
<1>10. /\ planner' \in [Proc -> PlannerRecord] /\ planner'[p] = new
       /\ \A q \in Proc : q # p => planner'[q] = planner[q]
  BY <1>1, <1>7, <1>8
<1>11. AdmissionTypeOK'
  BY <1>1, <1>9, <1>10 DEF AdmissionTypeOK
<1> HIDE DEF raw
<1>12. AbsentInv'
  BY <1>1, <1>5, <1>9 DEF AbsentInv, Saved
<1>13. IdsApart'
  BY <1>1, <1>8, <1>10 DEF IdsApart
<1>14. \A t \in Task : Keeps(t)
  <2> TAKE t \in Task
  <2>1. CASE t # raw.id
    BY <1>9, <2>1 DEF Keeps
  <2>2. CASE t = raw.id
    BY <1>1, <1>4, <1>5, <1>9, <2>2 DEF Keeps, Saved, DoneInv
  <2> QED
    BY <2>1, <2>2
<1>15. ASSUME NEW q \in Proc, q # p PROVE LeftAlone(q)
  <2> SUFFICES ASSUME NEW other \in ToSet(planner[q].batch)
               PROVE  Saved(other.id)' => Saved(other.id)
    BY DEF LeftAlone
  <2>1. other.id \in Task /\ other.id \in Ids(planner[q].batch)
    <3>1. planner[q].batch \in Seq(TaskDefinition)
      BY <1>1 DEF PlannerRecord, PlannerFields
    <3> QED
      BY <3>1, Written
  <2>2. other.id # raw.id
    BY <1>1, <1>4, <1>15, <2>1 DEF IdsApart
  <2> QED
    BY <1>9, <2>1, <2>2 DEF Saved
<1>16. ASSUME NEW q \in Proc, q # p PROVE CheckedInv(q)' /\ SavingInv(q)' /\ ListedInv(q)'
  BY <1>10, <1>11, <1>14, <1>15, <1>16, BatchKept, ListKept
<1>17. CheckedInv(p)' /\ ListedInv(p)'
  BY <1>8, <1>10 DEF CheckedInv, ListedInv, PlannerAt
<1>18. SavingInv(p)'
  <2>1. \A other \in ToSet(batch) : other.id \in Task
    BY <1>1, Written
  <2>2. \A other \in ToSet(Tail(left)) : ~Saved(other.id)'
    BY <1>2, <1>3, <1>9, <2>1 DEF Saved
  <2>3. \A other \in ToSet(batch) \ ToSet(Tail(left)) :
          Saved(other.id)' /\ stored'[other.id].run = r /\ stored'[other.id].dependencies = other.dependencies
    <3> SUFFICES ASSUME NEW other \in ToSet(batch) \ ToSet(Tail(left))
                 PROVE  Saved(other.id)' /\ stored'[other.id].run = r
                        /\ stored'[other.id].dependencies = other.dependencies
      OBVIOUS
    <3>1. CASE other = raw
      BY <1>5, <1>9, <3>1 DEF Saved
    <3>2. CASE other # raw
      <4>1. StoredAs(other, r) /\ other.id \in Task
        BY <1>2, <1>3, <2>1, <3>2
      <4>2. Keeps(other.id)
        BY <1>14, <4>1
      <4> QED
        BY <1>1, <4>1, <4>2, KeptFacts DEF StoredAs
    <3> QED
      BY <3>1, <3>2
  <2>4. TasksOf(r) \subseteq {t \in Task : stored'[t].run = r}
    <3> SUFFICES ASSUME NEW t \in Task, stored[t].run = r
                 PROVE  stored'[t].run = r
      BY DEF TasksOf
    <3>1. Saved(t) /\ Keeps(t)
      BY <1>1, <1>14, AdmissionConstants DEF AbsentInv
    <3> QED
      BY <1>1, <3>1, KeptFacts
  <2>5. {t \in Task : stored'[t].run = r} = TasksOf(r)'
    BY <1>8, <1>10 DEF TasksOf
  <2> QED
    BY <1>2, <1>3, <1>8, <1>10, <2>2, <2>3, <2>4, <2>5 DEF SavingInv, Saves, PlannerAt, StoredAs
<1>19. \A t \in Task : Started(t)' =>
         Started(t) \/ \A d \in ToSet(stored'[t].dependencies) : stored'[d].done
  <2> TAKE t \in Task
  <2>1. CASE t = raw.id
    BY <1>5, <1>9, <2>1, Nobody DEF Started
  <2>2. CASE t # raw.id
    BY <1>9, <2>2 DEF Started
  <2> QED
    BY <2>1, <2>2
<1>20. \A q \in Proc : CheckedInv(q)' /\ SavingInv(q)' /\ ListedInv(q)'
  BY <1>16, <1>17, <1>18
<1>21. \A s \in Run : \A t \in run'[s].admitted : t \in run[s].admitted
  BY <1>1
<1> QED
  BY <1>11, <1>12, <1>13, <1>14, <1>19, <1>20, <1>21, StepHolds

\* What is listed as a prospect is proposed, and all it builds on has been done.
LEMMA ProspectFacts ==
  ASSUME AdmissionIInv, NEW p \in Proc, planner[p].pc = "refreshing",
         NEW t \in DOMAIN planner[p].listed, Prospect(t, planner[p].listed) = "promote"
  PROVE  /\ planner[p].listed[t].status = "proposed"
         /\ \A d \in ToSet(stored[t].dependencies) : d \in Task /\ stored[d].done
<1> DEFINE listed == planner[p].listed
           dependencies == listed[t].dependencies
           open == {i \in DOMAIN dependencies : Open(dependencies[i], listed)}
<1>1. ListedInv(p) /\ PlannerAt(p, {"refreshing"})
  BY DEF AdmissionIInv, PlannerAt
<1>2. dependencies = stored[t].dependencies
  BY <1>1 DEF ListedInv
<1>3. listed[t].status = "proposed" /\ open = {}
  BY DEF Prospect
<1>4. ASSUME NEW i \in DOMAIN dependencies
      PROVE  dependencies[i] \in Task /\ stored[dependencies[i]].done
  <2> DEFINE d == dependencies[i]
  <2>1. d \in DOMAIN listed /\ listed[d].status \in DoneStatus
    BY <1>3 DEF Open
  <2>2. d \in Task /\ listed[d] \in StoredTask /\ (listed[d].status = "verified" => stored[d].done)
    BY <1>1, <2>1 DEF ListedInv
  <2>3. listed[d].status = "verified"
    BY <2>1, <2>2 DEF StoredTask, DoneStatus
  <2> QED
    BY <2>2, <2>3
<1> QED
  BY <1>2, <1>3, <1>4 DEF ToSet

\* A save that changes the status of a stored task, and perhaps that it has
\* been done.
Resaved(t, status, done) ==
  [stored EXCEPT ![t] = [stored[t] EXCEPT !.status = status, !.done = done,
                                          !.revision = stored[t].revision + 1]]

LEMMA ResavedBy ==
  ASSUME AdmissionTypeOK, NEW t \in Task, NEW status
  PROVE  /\ [stored EXCEPT ![t].status = status, ![t].revision = @ + 1]
                = Resaved(t, status, stored[t].done)
         /\ [stored EXCEPT ![t].status = status, ![t].done = TRUE, ![t].revision = @ + 1]
                = Resaved(t, status, TRUE)
<1>1. stored \in [Task -> StoredTask] /\ stored[t] \in StoredTask
  BY DEF AdmissionTypeOK
<1>2. [[stored[t] EXCEPT !.status = status] EXCEPT !.revision = stored[t].revision + 1]
         = [stored[t] EXCEPT !.status = status, !.done = stored[t].done,
                             !.revision = stored[t].revision + 1]
  BY <1>1 DEF StoredTask
<1> QED
  BY <1>1, <1>2 DEF Resaved, StoredTask

LEMMA StatusHolds ==
  ASSUME AdmissionIInv, run' = run, NEW t \in Task, Saved(t),
         NEW status \in {"ready", "verified", "cancelled"}, NEW done \in BOOLEAN,
         stored[t].done => done, status = "verified" => done,
         stored' = Resaved(t, status, done),
         status = "ready" \/ done =>
           Started(t) \/ \A d \in ToSet(stored[t].dependencies) : d \in Task /\ stored[d].done
  PROVE  /\ stored' \in [Task -> StoredTask] /\ AbsentInv'
         /\ stored'[t].status = status /\ stored'[t].revision > stored[t].revision
         /\ stored'[t].dependencies = stored[t].dependencies
         /\ \A u \in Task : Keeps(u) /\ (Saved(u)' <=> Saved(u))
         /\ \A u \in Task : Started(u)' =>
              Started(u) \/ \A d \in ToSet(stored'[u].dependencies) : stored'[d].done
<1> DEFINE task == [stored[t] EXCEPT !.status = status, !.done = done,
                                     !.revision = stored[t].revision + 1]
<1>1. stored \in [Task -> StoredTask] /\ stored[t] \in StoredTask /\ AbsentInv
  BY DEF AdmissionIInv, AdmissionTypeOK
<1>2. /\ task \in StoredTask /\ task.status = status /\ task.revision > stored[t].revision
      /\ task.run = stored[t].run /\ task.dependencies = stored[t].dependencies
      /\ task.done = done
  <2>1. stored[t].revision \in Nat /\ stored[t].revision + 1 \in Nat
        /\ stored[t].revision + 1 > stored[t].revision
    BY <1>1 DEF StoredTask
  <2> DEFINE revision == stored[t].revision + 1
             next == [stored[t] EXCEPT !.status = status, !.done = done, !.revision = revision]
  <2>2. task = next
    OBVIOUS
  <2> HIDE DEF revision, task
  <2>3. /\ next \in StoredTask /\ next.status = status /\ next.revision = revision
        /\ next.run = stored[t].run /\ next.dependencies = stored[t].dependencies
        /\ next.done = done
    BY <1>1, <2>1 DEF StoredTask, revision
  <2> QED
    BY <2>1, <2>2, <2>3 DEF revision
<1>3. stored' = [stored EXCEPT ![t] = task]
  BY DEF Resaved
<1> HIDE DEF task
<1>4. stored' \in [Task -> StoredTask] /\ stored'[t] = task /\ \A u \in Task : u # t => stored'[u] = stored[u]
  <2>1. stored \in [Task -> StoredTask] /\ task \in StoredTask
    BY <1>1, <1>2
  <2> QED
    BY <1>3, <2>1
<1>5. \A u \in Task : Saved(u)' <=> Saved(u)
  BY <1>2, <1>4 DEF Saved
<1>6. AbsentInv'
  BY <1>1, <1>2, <1>4, <1>5 DEF AbsentInv, Saved
<1>7. \A u \in Task : Keeps(u)
  <2> TAKE u \in Task
  <2>1. CASE u # t
    BY <1>4, <2>1 DEF Keeps
  <2>2. CASE u = t
    BY <1>2, <1>4, <1>5, <2>2 DEF Keeps
  <2> QED
    BY <2>1, <2>2
<1>8. ASSUME NEW u \in Task, Started(u)'
      PROVE  Started(u) \/ \A d \in ToSet(stored'[u].dependencies) : stored'[d].done
  <2>1. CASE u # t
    BY <1>4, <1>8, <2>1 DEF Started
  <2>2. CASE u = t
    <3>1. status = "ready" \/ done
      BY <1>2, <1>4, <1>8, <2>2 DEF Started
    <3>2. ASSUME NEW d \in Task, stored[d].done PROVE stored'[d].done
      BY <1>2, <1>4, <3>2
    <3> QED
      BY <1>2, <1>4, <2>2, <3>1, <3>2
  <2> QED
    BY <2>1, <2>2
<1> QED
  BY <1>2, <1>4, <1>5, <1>6, <1>7, <1>8

LEMMA PromoteHolds ==
  ASSUME AdmissionIInv, NEW p \in Proc, Promote(p)
  PROVE  AdmissionIInv'
<1> DEFINE listed == planner[p].listed
<1>1. PICK t \in DOMAIN listed :
        \/ /\ Prospect(t, listed) = "promote" /\ stored[t].revision = listed[t].revision
           /\ stored' = [stored EXCEPT ![t].status = "ready", ![t].revision = @ + 1]
           /\ planner' = [planner EXCEPT ![p].listed[t].status = "ready"]
        \/ \E cause \in {"conflict", "unknown"} :
             planner' = Raised(p, cause) /\ stored' = stored
  BY DEF Promote
<1>2. /\ planner \in [Proc -> PlannerRecord] /\ planner[p] \in PlannerRecord /\ ListedInv(p) /\ IdsApart
      /\ planner[p].pc = "refreshing" /\ run' = run /\ run \in [Run -> RunRecord]
  BY DEF AdmissionIInv, AdmissionTypeOK, Promote
<1>3. CASE \E cause \in {"conflict", "unknown"} : planner' = Raised(p, cause) /\ stored' = stored
  BY <1>2, <1>3, RaisedHolds
<1>4. CASE /\ Prospect(t, listed) = "promote" /\ stored[t].revision = listed[t].revision
           /\ stored' = [stored EXCEPT ![t].status = "ready", ![t].revision = @ + 1]
           /\ planner' = [planner EXCEPT ![p].listed[t].status = "ready"]
  <2>1. /\ t \in Task /\ listed[t] \in StoredTask /\ Saved(t)
        /\ listed[t].dependencies = stored[t].dependencies
        /\ listed[t].status = "proposed" => stored[t].status = "proposed"
    BY <1>2, <1>4 DEF ListedInv, PlannerAt
  <2>2. /\ stored[t].status = "proposed" /\ listed[t].status = "proposed"
        /\ \A d \in ToSet(stored[t].dependencies) : d \in Task /\ stored[d].done
    BY <1>2, <1>4, <2>1, ProspectFacts
  <2>3. /\ stored' \in [Task -> StoredTask] /\ AbsentInv'
        /\ stored'[t].status = "ready" /\ stored'[t].revision > stored[t].revision
        /\ stored'[t].dependencies = stored[t].dependencies
        /\ \A u \in Task : Keeps(u) /\ (Saved(u)' <=> Saved(u))
        /\ \A u \in Task : Started(u)' =>
             Started(u) \/ \A d \in ToSet(stored'[u].dependencies) : stored'[d].done
    <3>1. AdmissionTypeOK /\ stored[t].done \in BOOLEAN
      BY <2>1 DEF AdmissionIInv, AdmissionTypeOK, StoredTask
    <3>2. stored' = Resaved(t, "ready", stored[t].done)
      BY <1>4, <2>1, <3>1, ResavedBy
    <3> QED
      BY <1>2, <2>1, <2>2, <3>1, <3>2, StatusHolds
  <2> DEFINE now == [listed[t] EXCEPT !.status = "ready"]
             after == [listed EXCEPT ![t] = now]
             new == [planner[p] EXCEPT !.listed = after]
  <2>4. now \in StoredTask /\ now.status = "ready" /\ now.dependencies = listed[t].dependencies
        /\ now.revision = listed[t].revision
    BY <2>1 DEF StoredTask
  <2>5. planner' = [planner EXCEPT ![p] = new]
    BY <1>2, <1>4
  <2> HIDE DEF now
  <2>6. /\ after \in Listing /\ DOMAIN after = DOMAIN listed /\ after[t] = now
        /\ \A u \in DOMAIN listed : u # t => after[u] = listed[u]
    <3>1. listed \in Listing
      BY <1>2 DEF PlannerRecord, PlannerFields
    <3>2. PICK names \in SUBSET Task : listed \in [names -> StoredTask]
      <4>1. DOMAIN <<>> = {}
        OBVIOUS
      <4>2. listed # <<>>
        BY <4>1
      <4> QED
        BY <3>1, <4>2 DEF Listing
    <3>3. after \in [names -> StoredTask]
      BY <2>4, <3>2
    <3> QED
      BY <3>2, <3>3 DEF Listing
  <2> HIDE DEF after
  <2>7. /\ new \in PlannerRecord /\ new.pc = planner[p].pc /\ new.command = planner[p].command
        /\ new.run = planner[p].run /\ new.batch = planner[p].batch /\ new.left = planner[p].left
        /\ new.listed = after
    BY <1>2, <2>6 DEF PlannerRecord, PlannerFields
  <2> HIDE DEF new
  <2>8. /\ planner' \in [Proc -> PlannerRecord] /\ planner'[p] = new
        /\ \A q \in Proc : q # p => planner'[q] = planner[q]
    BY <1>2, <2>5, <2>7
  <2>9. AdmissionTypeOK'
    BY <1>2, <2>3, <2>8 DEF AdmissionTypeOK
  <2>10. IdsApart'
    BY <1>2, <2>7, <2>8 DEF IdsApart
  <2>11. ASSUME NEW q \in Proc PROVE LeftAlone(q)
    <3>1. planner[q].batch \in Seq(TaskDefinition)
      BY <1>2 DEF PlannerRecord, PlannerFields
    <3> QED
      BY <2>3, <3>1, Written DEF LeftAlone
  <2>12. ASSUME NEW q \in Proc PROVE CheckedInv(q)' /\ SavingInv(q)'
    BY <2>3, <2>7, <2>8, <2>9, <2>11, BatchKept
  <2>13. ASSUME NEW q \in Proc, q # p PROVE ListedInv(q)'
    BY <2>3, <2>8, <2>9, <2>13, ListKept
  <2>14. ListedInv(p)'
    <3> SUFFICES ASSUME NEW u \in DOMAIN listed
                 PROVE  /\ u \in Task /\ after[u] \in StoredTask /\ Saved(u)'
                        /\ after[u].dependencies = stored'[u].dependencies
                        /\ after[u].revision <= stored'[u].revision
                        /\ after[u].status = "verified" => stored'[u].done
                        /\ after[u].status = "proposed" =>
                             (after[u].revision = stored'[u].revision <=> stored'[u].status = "proposed")
      BY <2>6, <2>7, <2>8 DEF ListedInv, PlannerAt
    <3>1. /\ u \in Task /\ listed[u] \in StoredTask /\ Saved(u)
          /\ listed[u].dependencies = stored[u].dependencies
          /\ listed[u].revision <= stored[u].revision
          /\ listed[u].status = "verified" => stored[u].done
          /\ listed[u].status = "proposed" =>
               (listed[u].revision = stored[u].revision <=> stored[u].status = "proposed")
      BY <1>2 DEF ListedInv, PlannerAt
    <3>2. stored \in [Task -> StoredTask]
      BY DEF AdmissionIInv, AdmissionTypeOK
    <3>3. CASE u # t
      <4>1. stored'[u] = stored[u]
        BY <1>4, <3>2, <3>1, <3>3
      <4> QED
        BY <2>3, <2>6, <3>1, <3>3, <4>1
    <3>4. CASE u = t
      <4>1. stored[t].revision \in Nat /\ stored'[t].revision \in Nat
        BY <2>1, <2>3, <3>2 DEF StoredTask
      <4> QED
        BY <1>4, <2>1, <2>3, <2>4, <2>6, <3>4, <4>1
    <3> QED
      BY <3>3, <3>4
  <2>15. \A q \in Proc : CheckedInv(q)' /\ SavingInv(q)' /\ ListedInv(q)'
    BY <2>12, <2>13, <2>14
  <2>16. \A r \in Run : \A u \in run'[r].admitted : u \in run[r].admitted
    BY <1>2
  <2> QED
    BY <2>3, <2>9, <2>10, <2>15, <2>16, StepHolds
<1> QED
  BY <1>1, <1>3, <1>4

LEMMA WorkHolds ==
  ASSUME AdmissionIInv, NEW t \in Task, Work(t) \/ force_terminal(t)
  PROVE  AdmissionIInv'
<1>1. /\ Saved(t) /\ run' = run /\ planner' = planner
      /\ \/ /\ stored[t].status = "ready"
            /\ stored' = [stored EXCEPT ![t].status = "verified", ![t].done = TRUE, ![t].revision = @ + 1]
         \/ stored' = [stored EXCEPT ![t].status = "cancelled", ![t].revision = @ + 1]
      /\ AdmissionTypeOK /\ IdsApart /\ ReadyIsStartable /\ stored[t].done \in BOOLEAN
  BY DEF Work, force_terminal, AdmissionIInv, AdmissionTypeOK, StoredTask, Saved
<1>2. \/ stored[t].status = "ready" /\ stored' = Resaved(t, "verified", TRUE)
      \/ stored' = Resaved(t, "cancelled", stored[t].done)
  BY <1>1, ResavedBy
<1>3. /\ stored' \in [Task -> StoredTask] /\ AbsentInv'
      /\ \A u \in Task : Keeps(u) /\ (Saved(u)' <=> Saved(u))
      /\ \A u \in Task : Started(u)' =>
           Started(u) \/ \A d \in ToSet(stored'[u].dependencies) : stored'[d].done
  <2>1. CASE stored[t].status = "ready" /\ stored' = Resaved(t, "verified", TRUE)
    BY <1>1, <2>1, StatusHolds DEF Started
  <2>2. CASE stored' = Resaved(t, "cancelled", stored[t].done)
    BY <1>1, <2>2, StatusHolds DEF Started
  <2> QED
    BY <1>2, <2>1, <2>2
<1>4. AdmissionTypeOK' /\ IdsApart'
  BY <1>1, <1>3 DEF AdmissionTypeOK, IdsApart
<1>5. ASSUME NEW q \in Proc PROVE LeftAlone(q)
  <2>1. planner[q].batch \in Seq(TaskDefinition)
    BY <1>1 DEF AdmissionTypeOK, PlannerRecord, PlannerFields
  <2> QED
    BY <1>3, <2>1, Written DEF LeftAlone
<1>6. \A q \in Proc : CheckedInv(q)' /\ SavingInv(q)' /\ ListedInv(q)'
  BY <1>1, <1>3, <1>4, <1>5, BatchKept, ListKept
<1>7. \A r \in Run : \A u \in run'[r].admitted : u \in run[r].admitted
  BY <1>1
<1> QED
  BY <1>3, <1>4, <1>6, <1>7, StepHolds

-----------------------------------------------------------------------------
(* The theorems. *)

LEMMA AdmissionInit == Init => AdmissionIInv
<1> SUFFICES ASSUME Init
             PROVE  AdmissionIInv
  OBVIOUS
<1>1. /\ \A t \in Task : stored[t] = NotStored
      /\ \A r \in Run : run[r] = NoRun
      /\ \A p \in Proc : planner[p] = Idle
  BY DEF Init
<1>2. AdmissionTypeOK
  <2>1. NotStored \in StoredTask
    BY DEF NotStored, StoredTask
  <2>2. NoRun \in RunRecord
    BY DEF NoRun, RunRecord
  <2> QED
    BY <2>1, <2>2, IdleType DEF Init, AdmissionTypeOK
<1>3. AbsentInv /\ DoneInv /\ ReadyIsStartable
  BY <1>1 DEF AbsentInv, DoneInv, ReadyIsStartable, NotStored
<1>4. IdsApart
  BY <1>1, Nobody DEF IdsApart, Idle
<1>5. AdmittedIsComplete
  BY <1>1 DEF AdmittedIsComplete, NoRun
<1>6. \A p \in Proc : CheckedInv(p) /\ SavingInv(p) /\ ListedInv(p)
  BY <1>1 DEF Idle, CheckedInv, SavingInv, ListedInv, PlannerAt, Saves
<1> QED
  BY <1>2, <1>3, <1>4, <1>5, <1>6 DEF AdmissionIInv

LEMMA AdmissionStep ==
  ASSUME ~SameIds, AdmissionIInv, [Next]_vars
  PROVE  AdmissionIInv'
<1>1. ASSUME NEW p \in Proc,
             \/ Plan(p) \/ Propose(p) \/ CheckNew(p) \/ Validate(p) \/ SaveTask(p)
             \/ Dispatch(p) \/ List(p) \/ Promote(p) \/ Report(p)
             \/ ReadOrphan(p) \/ CancelOrphan(p) \/ Crash(p)
      PROVE  AdmissionIInv'
  BY <1>1, PlanHolds, ProposeHolds, CheckNewHolds, ValidateHolds, SaveTaskHolds, DispatchHolds,
     ListHolds, PromoteHolds, ReportHolds, OrphanHolds
<1>2. ASSUME NEW r \in Run, StartRun(r) PROVE AdmissionIInv'
  BY <1>2, StartRunHolds
<1>3. ASSUME NEW t \in Task, Work(t) \/ force_terminal(t) PROVE AdmissionIInv'
  BY <1>3, WorkHolds
<1>4. CASE UNCHANGED vars
  <2>1. AdmissionTypeOK' /\ AbsentInv' /\ IdsApart'
    BY <1>4 DEF vars, AdmissionIInv, AdmissionTypeOK, AbsentInv, IdsApart, Saved
  <2>2. (\A t \in Task : Keeps(t)) /\ \A p \in Proc : LeftAlone(p)
    BY <1>4 DEF vars, Keeps, LeftAlone, Saved
  <2>3. /\ stored' = stored /\ run' = run /\ planner' = planner
        /\ \A t \in Task : Started(t)' => Started(t)
    BY <1>4 DEF vars, Started
  <2>4. \A p \in Proc : CheckedInv(p)' /\ SavingInv(p)' /\ ListedInv(p)'
    BY <2>1, <2>2, <2>3, BatchKept, ListKept
  <2> QED
    BY <2>1, <2>2, <2>3, <2>4, StepHolds
<1> QED
  BY <1>1, <1>2, <1>3, <1>4 DEF Next

\* As long as two processes do not admit the same id at once, the inductive
\* invariant holds through every interleaving and crash.
THEOREM AdmissionInvariance == ~SameIds => (Spec => []AdmissionIInv)
<1> SUFFICES ASSUME ~SameIds
             PROVE  Spec => []AdmissionIInv
  OBVIOUS
<1>1. Init => AdmissionIInv
  BY AdmissionInit
<1>2. AdmissionIInv /\ [Next]_vars => AdmissionIInv'
  BY AdmissionStep
<1> QED
  BY <1>1, <1>2, PTL DEF Spec

\* refresh_ready and admit_tasks: no task may start before all it depends on
\* is stored and has been done, whatever lists the processes promote from and
\* whatever is cancelled meanwhile.
THEOREM ReadyAreStartable == ~SameIds => (Spec => []ReadyIsStartable)
<1>1. AdmissionIInv => ReadyIsStartable
  BY DEF AdmissionIInv
<1> QED
  BY <1>1, AdmissionInvariance, PTL

\* admit_tasks: a batch that is reported as admitted is in its run, with every
\* dependency of every task, for good.
THEOREM AdmittedAreComplete == ~SameIds => (Spec => []AdmittedIsComplete)
<1>1. AdmissionIInv => AdmittedIsComplete
  BY DEF AdmissionIInv
<1> QED
  BY <1>1, AdmissionInvariance, PTL

-----------------------------------------------------------------------------
(* The graph of a run: no step makes a cycle.                               *)

\* A run's tasks can be listed.
StoredFinite == IsFiniteSet({t \in Task : Saved(t)})

\* The dependencies of the tasks of run r, stored or about to be.
DependsOn(r, t, d) ==
  \/ t \in TasksOf(r) /\ d \in ToSet(stored[t].dependencies)
  \/ \E p \in Proc : /\ Saves(p) /\ planner[p].run = r
                     /\ \E raw \in ToSet(planner[p].left) :
                          raw.id = t /\ d \in ToSet(raw.dependencies)

\* No group of them goes round in a circle: one depends on none of the group.
NoCycle(r) ==
  \A group \in SUBSET Task : group # {} => \E t \in group : \A d \in group : ~DependsOn(r, t, d)

\* A command is about a run that exists, and only plan brings several tasks.
CommandInv(p) ==
  IF planner[p].pc = "idle" THEN planner[p].command = "none"
  ELSE /\ planner[p].command # "none" /\ run[planner[p].run].status # "absent"
       /\ planner[p].command # "plan" => Len(planner[p].batch) <= 1

\* Every plan has a run of its own.
PlansApart ==
  \A p, q \in Proc : p # q /\ planner[p].command = "plan" /\ planner[q].command = "plan" =>
    planner[p].run # planner[q].run

\* What is missing from the run of a plan that was judged, the plan will save.
PlanInv(p) ==
  Saves(p) /\ planner[p].command = "plan" =>
    \A t \in TasksOf(planner[p].run) :
      ToSet(stored[t].dependencies) \subseteq TasksOf(planner[p].run) \cup Ids(planner[p].left)

\* What is left to look up is of the batch, and what a plan has listed of its
\* own run is whole.
OwnInv(p) ==
  /\ planner[p].pc = "checking" => ToSet(planner[p].left) \subseteq ToSet(planner[p].batch)
  /\ planner[p].pc = "refreshing" /\ planner[p].command = "plan" =>
       \A t \in DOMAIN planner[p].listed :
         planner[p].listed[t].run = planner[p].run =>
           ToSet(planner[p].listed[t].dependencies) \subseteq DOMAIN planner[p].listed

\* The inductive invariant for the graph of a run.
GraphIInv ==
  /\ AdmissionIInv
  /\ StoredFinite
  /\ \A r \in Run : NoCycle(r)
  /\ PlansApart
  /\ \A p \in Proc : CommandInv(p) /\ PlanInv(p) /\ OwnInv(p)

\* What a process does to itself: it goes on with its command, ends it or begins one.
Others(p) == \A q \in Proc : q # p => planner'[q] = planner[q]
Continues(p) ==
  /\ planner[p].pc # "idle" /\ planner'[p].pc # "idle"
  /\ planner'[p].command = planner[p].command /\ planner'[p].run = planner[p].run
  /\ planner'[p].batch \in {planner[p].batch, <<>>}
Ends(p) == planner'[p] = Idle
Begins(p) ==
  /\ planner[p].pc = "idle"
  /\ \/ planner'[p].command \in {"plan", "propose"} /\ planner'[p].pc \in {"checking", "raised"}
     \/ planner'[p].command = "dispatch" /\ planner'[p].pc = "listing"

LEMMA ContinueFacts ==
  ASSUME AdmissionTypeOK, NEW p \in Proc,
         CheckNew(p) \/ Validate(p) \/ SaveTask(p) \/ List(p) \/ Promote(p)
  PROVE  Others(p) /\ Continues(p)
<1>1. planner \in [Proc -> PlannerRecord] /\ planner[p] \in PlannerFields
  BY DEF AdmissionTypeOK, PlannerRecord
<1>2. ASSUME NEW pc, pc # "idle", NEW left, planner[p].pc # "idle", planner' = Goto(p, pc, left)
      PROVE  Others(p) /\ Continues(p)
  BY <1>1, <1>2 DEF Goto, Others, Continues, PlannerFields
<1>3. ASSUME NEW cause, planner[p].pc # "idle", planner' = Raised(p, cause)
      PROVE  Others(p) /\ Continues(p)
  BY <1>1, <1>3 DEF Raised, Others, Continues, PlannerFields
<1>4. CASE CheckNew(p)
  <2>1. planner[p].pc # "idle"
    BY <1>4 DEF CheckNew
  <2>2. \/ planner' = Goto(p, "validating", <<>>)
        \/ planner' = Goto(p, "checking", Tail(planner[p].left))
        \/ planner' = Raised(p, "duplicate")
    BY <1>4 DEF CheckNew
  <2> QED
    BY <1>2, <1>3, <2>1, <2>2
<1>5. CASE Validate(p)
  BY <1>2, <1>3, <1>5 DEF Validate
<1>6. CASE SaveTask(p)
  BY <1>2, <1>6 DEF SaveTask
<1>7. CASE List(p)
  BY <1>1, <1>7 DEF List, Others, Continues, PlannerFields
<1>8. CASE Promote(p)
  <2>1. PICK t \in DOMAIN planner[p].listed :
          \/ planner' = [planner EXCEPT ![p].listed[t].status = "ready"]
          \/ planner' = Raised(p, "conflict")
          \/ planner' = Raised(p, "unknown")
    BY <1>8 DEF Promote
  <2>2. planner[p].pc # "idle"
    BY <1>8 DEF Promote
  <2>3. CASE planner' = [planner EXCEPT ![p].listed[t].status = "ready"]
    BY <1>1, <2>2, <2>3 DEF Others, Continues, PlannerFields
  <2> QED
    BY <1>3, <2>1, <2>2, <2>3
<1> QED
  BY <1>4, <1>5, <1>6, <1>7, <1>8

LEMMA EndFacts ==
  ASSUME AdmissionTypeOK, NEW p \in Proc,
         Report(p) \/ ReadOrphan(p) \/ CancelOrphan(p) \/ Crash(p)
  PROVE  /\ Others(p) /\ stored' = stored
         /\ Ends(p) \/ (Continues(p) /\ planner'[p].pc = "cancelling")
<1>1. planner \in [Proc -> PlannerRecord] /\ planner[p] \in PlannerFields
  BY DEF AdmissionTypeOK, PlannerRecord
<1>2. ASSUME planner' = [planner EXCEPT ![p] = Idle] PROVE Others(p) /\ Ends(p)
  BY <1>1, <1>2 DEF Others, Ends
<1>3. CASE Report(p) \/ CancelOrphan(p) \/ Crash(p)
  BY <1>2, <1>3 DEF Report, CancelOrphan, Crash
<1>4. CASE ReadOrphan(p)
  <2>1. stored' = stored /\ planner[p].pc = "raised"
    BY <1>4 DEF ReadOrphan
  <2>2. CASE planner[p].command # "plan"
    BY <1>2, <1>4, <2>1, <2>2 DEF ReadOrphan
  <2>3. CASE planner[p].command = "plan"
    <3>1. planner' = [planner EXCEPT ![p].pc = "cancelling", ![p].seen = run[planner[p].run].revision]
      BY <1>4, <2>3 DEF ReadOrphan
    <3> QED
      BY <1>1, <2>1, <3>1 DEF Others, Continues, PlannerFields
  <2> QED
    BY <2>2, <2>3
<1> QED
  BY <1>3, <1>4

LEMMA AddTasksFacts ==
  ASSUME AdmissionTypeOK, NEW p \in Proc, NEW command, NEW r, NEW batch, AddTasks(p, command, r, batch)
  PROVE  /\ Others(p) /\ planner'[p].pc \in {"checking", "raised"} /\ planner'[p].command = command
         /\ planner'[p].run = r /\ planner'[p].batch \in {batch, <<>>}
         /\ planner'[p].left = planner'[p].batch
         /\ planner'[p].cause \in {"none", "definition"}
BY DEF AddTasks, AdmissionTypeOK, Others, Idle

LEMMA BeginFacts ==
  ASSUME GraphIInv, NEW p \in Proc, Plan(p) \/ Propose(p) \/ Dispatch(p)
  PROVE  /\ Others(p) /\ Begins(p) /\ stored' = stored /\ CommandInv(p)'
         /\ planner'[p].command = "plan" =>
              \A q \in Proc : q # p /\ planner[q].command = "plan" => planner[q].run # planner'[p].run
<1>1. AdmissionTypeOK /\ planner \in [Proc -> PlannerRecord] /\ run \in [Run -> RunRecord]
  BY DEF GraphIInv, AdmissionIInv, AdmissionTypeOK
<1>2. CASE Plan(p)
  <2>1. PICK payload : /\ run' = [run EXCEPT ![FreshRun] = [status |-> "planned", acceptance |-> payload.acceptance,
                                                           revision |-> 1, admitted |-> {}]]
                       /\ AddTasks(p, "plan", FreshRun, payload.tasks)
    BY <1>2 DEF Plan
  <2>2. FreshRun \in Run /\ run[FreshRun].status = "absent" /\ planner[p].pc = "idle" /\ stored' = stored
    BY <1>2 DEF Plan, FreshRun
  <2> HIDE DEF FreshRun
  <2>3. run'[FreshRun].status = "planned"
    BY <1>1, <2>1, <2>2
  <2>4. /\ Others(p) /\ planner'[p].pc \in {"checking", "raised"} /\ planner'[p].command = "plan"
        /\ planner'[p].run = FreshRun
    BY <1>1, <2>1, AddTasksFacts
  <2>5. CommandInv(p)'
    BY <2>3, <2>4 DEF CommandInv
  <2>6. ASSUME NEW q \in Proc, planner[q].command = "plan" PROVE planner[q].run # FreshRun
    <3>1. CommandInv(q)
      BY DEF GraphIInv
    <3> QED
      BY <2>2, <2>6, <3>1 DEF CommandInv
  <2> QED
    BY <2>2, <2>4, <2>5, <2>6 DEF Begins
<1>3. CASE Propose(p)
  <2>1. PICK raw \in Proposals[p], r \in Run :
          run[r].status # "absent" /\ AddTasks(p, "propose", r, <<raw>>)
    BY <1>3 DEF Propose
  <2>2. planner[p].pc = "idle" /\ stored' = stored /\ run' = run
    BY <1>3 DEF Propose
  <2>3. /\ Others(p) /\ planner'[p].pc \in {"checking", "raised"} /\ planner'[p].command = "propose"
        /\ planner'[p].run = r /\ planner'[p].batch \in {<<raw>>, <<>>}
    BY <1>1, <2>1, AddTasksFacts
  <2>4. Len(planner'[p].batch) <= 1
    <3>1. Len(<<raw>>) <= 1 /\ Len(<<>>) <= 1
      OBVIOUS
    <3> QED
      BY <2>3, <3>1
  <2>5. CommandInv(p)'
    BY <2>1, <2>2, <2>3, <2>4 DEF CommandInv
  <2> QED
    BY <2>2, <2>3, <2>5 DEF Begins
<1>4. CASE Dispatch(p)
  <2>1. PICK r \in Run :
          /\ run[r].status = "active" /\ run' = [run EXCEPT ![r].revision = @ + 1]
          /\ planner' = [planner EXCEPT ![p] =
                           [Idle EXCEPT !.command = "dispatch", !.run = r, !.pc = "listing"]]
    BY <1>4 DEF Dispatch
  <2>2. planner[p].pc = "idle" /\ stored' = stored
    BY <1>4 DEF Dispatch
  <2>3. run'[r].status = "active"
    BY <1>1, <2>1 DEF RunRecord
  <2>4. /\ Others(p) /\ planner'[p].pc = "listing" /\ planner'[p].command = "dispatch"
        /\ planner'[p].run = r /\ Len(planner'[p].batch) <= 1
    <3>1. Len(<<>>) <= 1
      OBVIOUS
    <3> QED
      BY <1>1, <2>1, <3>1 DEF Others, Idle
  <2>5. CommandInv(p)'
    BY <2>3, <2>4 DEF CommandInv
  <2> QED
    BY <2>2, <2>4, <2>5 DEF Begins
<1> QED
  BY <1>2, <1>3, <1>4

\* No run is ever forgotten.
LEMMA RunsRemain ==
  ASSUME AdmissionTypeOK, [Next]_vars, NEW r \in Run, run[r].status # "absent"
  PROVE  run'[r].status # "absent"
<1>1. run \in [Run -> RunRecord] /\ run[r] \in RunRecord
  BY DEF AdmissionTypeOK
<1>2. ASSUME NEW p \in Proc, Plan(p) PROVE run'[r].status # "absent"
  <2>1. PICK payload : run' = [run EXCEPT ![FreshRun] = [status |-> "planned", acceptance |-> payload.acceptance,
                                                         revision |-> 1, admitted |-> {}]]
    BY <1>2 DEF Plan
  <2> QED
    BY <1>1, <2>1
<1>3. ASSUME NEW p \in Proc, Dispatch(p) PROVE run'[r].status # "absent"
  <2>1. PICK s \in Run : run' = [run EXCEPT ![s].revision = @ + 1]
    BY <1>3 DEF Dispatch
  <2> QED
    BY <1>1, <2>1 DEF RunRecord
<1>4. ASSUME NEW p \in Proc, Report(p) PROVE run'[r].status # "absent"
  BY <1>1, <1>4 DEF Report, RunRecord
<1>5. ASSUME NEW p \in Proc, CancelOrphan(p) PROVE run'[r].status # "absent"
  <2>1. \/ run' = run
        \/ \E s : run' = [run EXCEPT ![s].status = "cancelled", ![s].revision = @ + 1]
    BY <1>5 DEF CancelOrphan
  <2> QED
    BY <1>1, <2>1 DEF RunRecord
<1>6. ASSUME NEW s \in Run, StartRun(s) PROVE run'[r].status # "absent"
  BY <1>1, <1>6 DEF StartRun, RunRecord
<1>7. ASSUME NEW p \in Proc,
             \/ Propose(p) \/ CheckNew(p) \/ Validate(p) \/ SaveTask(p) \/ List(p) \/ Promote(p)
             \/ ReadOrphan(p) \/ Crash(p)
      PROVE  run' = run
  BY <1>7 DEF Propose, CheckNew, Validate, SaveTask, List, Promote, ReadOrphan, Crash
<1>8. ASSUME NEW t \in Task, Work(t) \/ force_terminal(t) PROVE run' = run
  BY <1>8 DEF Work, force_terminal
<1>9. CASE UNCHANGED vars
  BY <1>9 DEF vars
<1> QED
  BY <1>2, <1>3, <1>4, <1>5, <1>6, <1>7, <1>8, <1>9 DEF Next

LEMMA CommandKept ==
  ASSUME AdmissionTypeOK, [Next]_vars, NEW q \in Proc, CommandInv(q),
         planner'[q] = planner[q] \/ Ends(q) \/ Continues(q)
  PROVE  CommandInv(q)'
<1>1. planner[q].pc # "idle" => planner[q].run \in Run
  BY DEF AdmissionTypeOK, PlannerRecord
<1>2. CASE planner'[q] = planner[q] /\ planner[q].pc # "idle"
  BY <1>1, <1>2, RunsRemain DEF CommandInv
<1>3. CASE planner'[q] = planner[q] /\ planner[q].pc = "idle"
  BY <1>3 DEF CommandInv
<1>4. CASE Ends(q)
  BY <1>4 DEF Ends, Idle, CommandInv
<1>5. CASE Continues(q)
  <2>1. Len(<<>>) <= 1
    OBVIOUS
  <2>2. planner'[q].command # "plan" => Len(planner'[q].batch) <= 1
    BY <1>5, <2>1 DEF Continues, CommandInv
  <2> QED
    BY <1>1, <1>5, <2>2, RunsRemain DEF Continues, CommandInv
<1> QED
  BY <1>2, <1>3, <1>4, <1>5

LEMMA ApartKept ==
  ASSUME PlansApart, NEW p \in Proc, Others(p), 
         \/ Ends(p) \/ Continues(p)
         \/ planner'[p].command = "plan" =>
              \A q \in Proc : q # p /\ planner[q].command = "plan" => planner[q].run # planner'[p].run
  PROVE  PlansApart'
<1>1. \A q \in Proc : q # p /\ planner'[p].command = "plan" /\ planner[q].command = "plan" =>
        planner[q].run # planner'[p].run
  BY DEF PlansApart, Ends, Idle, Continues
<1> QED
  BY <1>1 DEF PlansApart, Others

-----------------------------------------------------------------------------
(* Steps that neither store a task nor begin to.                            *)

SameTask(t) ==
  /\ Saved(t)' <=> Saved(t)
  /\ stored'[t].run = stored[t].run /\ stored'[t].dependencies = stored[t].dependencies
Stays(q) ==
  Saves(q)' => /\ Saves(q) /\ planner'[q].left = planner[q].left
               /\ planner'[q].run = planner[q].run /\ planner'[q].command = planner[q].command

LEMMA LessDepends ==
  ASSUME NEW r, NoCycle(r), \A t, d \in Task : DependsOn(r, t, d)' => DependsOn(r, t, d)
  PROVE  NoCycle(r)'
BY DEF NoCycle

LEMMA GraphKept ==
  ASSUME AdmissionTypeOK, StoredFinite, \A r \in Run : NoCycle(r), \A p \in Proc : PlanInv(p),
         \A t \in Task : SameTask(t), \A p \in Proc : Stays(p)
  PROVE  StoredFinite' /\ (\A r \in Run : NoCycle(r)') /\ \A p \in Proc : PlanInv(p)'
<1>1. StoredFinite'
  <2>1. {t \in Task : Saved(t)}' = {t \in Task : Saved(t)}
    BY DEF SameTask
  <2> QED
    BY <2>1 DEF StoredFinite
<1>2. \A r : TasksOf(r)' = TasksOf(r)
  BY DEF TasksOf, SameTask
<1>3. ASSUME NEW r \in Run PROVE NoCycle(r)'
  <2>1. ASSUME NEW t \in Task, NEW d \in Task, DependsOn(r, t, d)' PROVE DependsOn(r, t, d)
    <3>1. CASE t \in TasksOf(r)' /\ d \in ToSet(stored'[t].dependencies)
      BY <1>2, <3>1 DEF DependsOn, SameTask
    <3>2. ASSUME NEW p \in Proc, Saves(p)', planner'[p].run = r,
                 \E raw \in ToSet(planner'[p].left) : raw.id = t /\ d \in ToSet(raw.dependencies)
          PROVE  DependsOn(r, t, d)
      BY <3>2 DEF DependsOn, Stays
    <3> QED
      BY <2>1, <3>1, <3>2 DEF DependsOn
  <2> QED
    BY <2>1, LessDepends
<1>4. ASSUME NEW p \in Proc PROVE PlanInv(p)'
  <2> SUFFICES ASSUME Saves(p)', planner'[p].command = "plan",
                      NEW t \in Task, stored'[t].run = planner'[p].run
               PROVE  \A d \in ToSet(stored'[t].dependencies) :
                        (d \in Task /\ stored'[d].run = planner'[p].run) \/ d \in Ids(planner'[p].left)
    BY DEF PlanInv, TasksOf, Ids
  <2>1. /\ Saves(p) /\ planner'[p].left = planner[p].left /\ planner'[p].run = planner[p].run
        /\ planner[p].command = "plan"
    BY DEF Stays
  <2>2. ToSet(stored[t].dependencies) \subseteq TasksOf(planner[p].run) \cup Ids(planner[p].left)
    BY <2>1 DEF PlanInv, SameTask, TasksOf
  <2> QED
    BY <2>1, <2>2 DEF SameTask, TasksOf
<1> QED
  BY <1>1, <1>3, <1>4

LEMMA Untouched ==
  ASSUME stored' = stored
  PROVE  \A t \in Task : SameTask(t)
BY DEF SameTask, Saved

LEMMA OthersStay ==
  ASSUME NEW p \in Proc, Others(p), Stays(p)
  PROVE  \A q \in Proc : Stays(q)
BY DEF Others, Stays, Saves, PlannerAt

LEMMA StatusOnly ==
  ASSUME AdmissionTypeOK, NEW t \in Task, NEW status \in {"ready", "verified", "cancelled"}, Saved(t),
         NEW done, stored' = Resaved(t, status, done)
  PROVE  \A u \in Task : SameTask(u)
<1> TAKE u \in Task
<1>1. stored \in [Task -> StoredTask] /\ stored[u] \in StoredTask
  BY DEF AdmissionTypeOK
<1>2. CASE u # t
  BY <1>1, <1>2 DEF Resaved, SameTask, Saved
<1>3. CASE u = t
  <2>1. stored'[u].run = stored[u].run /\ stored'[u].dependencies = stored[u].dependencies
        /\ stored'[u].status = status
    BY <1>1, <1>3 DEF Resaved, StoredTask
  <2> QED
    BY <1>3, <2>1 DEF SameTask, Saved
<1> QED
  BY <1>2, <1>3

LEMMA BeginStays ==
  ASSUME NEW p \in Proc, Begins(p) PROVE Stays(p)
BY DEF Begins, Stays, Saves, PlannerAt

LEMMA EndStays ==
  ASSUME NEW p \in Proc, Ends(p) \/ planner'[p].pc \in {"cancelling", "checking", "validating", "raised"}
  PROVE  Stays(p)
BY DEF Ends, Idle, Stays, Saves, PlannerAt

\* The steps that leave the graphs of the runs as they are.
LEMMA QuietSteps ==
  ASSUME GraphIInv, [Next]_vars, ~ \E p \in Proc : SaveTask(p),
         ~ \E p \in Proc : Validate(p) /\ Admissible(planner[p].run, planner[p].batch)
  PROVE  (\A t \in Task : SameTask(t)) /\ \A p \in Proc : Stays(p)
<1>1. /\ AdmissionTypeOK /\ planner \in [Proc -> PlannerRecord] /\ AdmissionIInv
      /\ \A p \in Proc : planner[p] \in PlannerFields /\ SavingInv(p)
  BY DEF GraphIInv, AdmissionIInv, AdmissionTypeOK, PlannerRecord
<1>2. ASSUME NEW p \in Proc, Plan(p) \/ Propose(p) \/ Dispatch(p)
      PROVE  (\A t \in Task : SameTask(t)) /\ \A q \in Proc : Stays(q)
  BY <1>2, BeginFacts, BeginStays, OthersStay, Untouched
<1>3. ASSUME NEW p \in Proc, Report(p) \/ ReadOrphan(p) \/ CancelOrphan(p) \/ Crash(p)
      PROVE  (\A t \in Task : SameTask(t)) /\ \A q \in Proc : Stays(q)
  BY <1>1, <1>3, EndFacts, EndStays, OthersStay, Untouched
<1>4. ASSUME NEW p \in Proc, CheckNew(p)
      PROVE  (\A t \in Task : SameTask(t)) /\ \A q \in Proc : Stays(q)
  <2>1. stored' = stored /\ Others(p)
    BY <1>1, <1>4, ContinueFacts DEF CheckNew
  <2>2. \/ planner' = Goto(p, "validating", <<>>)
        \/ planner' = Goto(p, "checking", Tail(planner[p].left))
        \/ planner' = Raised(p, "duplicate")
    BY <1>4 DEF CheckNew
  <2>3. planner'[p].pc \in {"checking", "validating", "raised"}
    BY <1>1, <2>2 DEF Goto, Raised, PlannerFields
  <2> QED
    BY <2>1, <2>3, EndStays, OthersStay, Untouched
<1>5. ASSUME NEW p \in Proc, Validate(p)
      PROVE  (\A t \in Task : SameTask(t)) /\ \A q \in Proc : Stays(q)
  <2>1. stored' = stored /\ Others(p) /\ planner' = Raised(p, "inadmissible")
    BY <1>1, <1>5, ContinueFacts DEF Validate
  <2>2. planner'[p].pc = "raised"
    BY <1>1, <2>1 DEF Raised, PlannerFields
  <2> QED
    BY <2>1, <2>2, EndStays, OthersStay, Untouched
<1>6. ASSUME NEW p \in Proc, List(p)
      PROVE  (\A t \in Task : SameTask(t)) /\ \A q \in Proc : Stays(q)
  <2>1. stored' = stored /\ Others(p) /\ planner[p].pc = "listing"
    BY <1>1, <1>6, ContinueFacts DEF List
  <2>2. /\ planner'[p].pc = "refreshing" /\ planner'[p].command = planner[p].command
        /\ planner'[p].run = planner[p].run /\ planner'[p].left = planner[p].left
    BY <1>1, <1>6 DEF List, PlannerFields
  <2>3. Stays(p)
    BY <2>1, <2>2 DEF Stays, Saves, PlannerAt
  <2> QED
    BY <2>1, <2>3, OthersStay, Untouched
<1>7. ASSUME NEW p \in Proc, Promote(p)
      PROVE  (\A t \in Task : SameTask(t)) /\ \A q \in Proc : Stays(q)
  <2>1. PICK t \in DOMAIN planner[p].listed :
          \/ /\ stored' = [stored EXCEPT ![t].status = "ready", ![t].revision = @ + 1]
             /\ planner' = [planner EXCEPT ![p].listed[t].status = "ready"]
          \/ \E cause \in {"conflict", "unknown"} :
               planner' = Raised(p, cause) /\ stored' = stored
    BY <1>7 DEF Promote
  <2>2. Others(p) /\ planner[p].pc = "refreshing"
    BY <1>1, <1>7, ContinueFacts DEF Promote
  <2>3. CASE \E cause \in {"conflict", "unknown"} : planner' = Raised(p, cause) /\ stored' = stored
    <3>1. planner'[p].pc = "raised" /\ stored' = stored
      BY <1>1, <2>3 DEF Raised, PlannerFields
    <3> QED
      BY <2>2, <3>1, EndStays, OthersStay, Untouched
  <2>4. CASE /\ stored' = [stored EXCEPT ![t].status = "ready", ![t].revision = @ + 1]
             /\ planner' = [planner EXCEPT ![p].listed[t].status = "ready"]
    <3>1. t \in Task /\ Saved(t)
      BY <1>1, <2>2 DEF AdmissionIInv, ListedInv, PlannerAt
    <3>2. \A u \in Task : SameTask(u)
      <4>1. stored' = Resaved(t, "ready", stored[t].done)
        BY <1>1, <2>4, <3>1, ResavedBy
      <4> QED
        BY <1>1, <3>1, <4>1, StatusOnly
    <3>3. /\ planner'[p].pc = planner[p].pc /\ planner'[p].command = planner[p].command
          /\ planner'[p].run = planner[p].run /\ planner'[p].left = planner[p].left
      BY <1>1, <2>4 DEF PlannerFields
    <3>4. Stays(p)
      BY <3>3 DEF Stays, Saves, PlannerAt
    <3> QED
      BY <2>2, <3>2, <3>4, OthersStay
  <2> QED
    BY <2>1, <2>3, <2>4
<1>8. ASSUME NEW t \in Task, Work(t) \/ force_terminal(t)
      PROVE  (\A u \in Task : SameTask(u)) /\ \A q \in Proc : Stays(q)
  <2>1. /\ Saved(t) /\ planner' = planner
        /\ \/ stored' = Resaved(t, "verified", TRUE)
           \/ stored' = Resaved(t, "cancelled", stored[t].done)
    BY <1>1, <1>8, ResavedBy DEF Work, force_terminal, Saved
  <2>2. \A u \in Task : SameTask(u)
    BY <1>1, <2>1, StatusOnly
  <2> QED
    BY <2>1, <2>2 DEF Stays, Saves, PlannerAt
<1>9. ASSUME (\E r \in Run : StartRun(r)) \/ UNCHANGED vars
      PROVE  (\A u \in Task : SameTask(u)) /\ \A q \in Proc : Stays(q)
  <2>1. stored' = stored /\ planner' = planner
    BY <1>9 DEF StartRun, vars
  <2> QED
    BY <2>1, Untouched DEF Stays, Saves, PlannerAt
<1> QED
  BY <1>2, <1>3, <1>4, <1>5, <1>6, <1>7, <1>8, <1>9 DEF Next

-----------------------------------------------------------------------------
(* A task is stored. *)

LEMMA IdsOf ==
  ASSUME NEW s
  PROVE  \A d : d \in Ids(s) <=> \E raw \in ToSet(s) : raw.id = d
BY DEF Ids, ToSet

\* What a save makes of the task it stores.
StoresOf(p, raw) ==
  /\ raw.id \in Task /\ ~Saved(raw.id) /\ Saved(raw.id)'
  /\ ToSet(planner[p].left) = {raw} \cup ToSet(planner'[p].left)
  /\ stored'[raw.id].run = planner[p].run /\ stored'[raw.id].dependencies = raw.dependencies
  /\ \A t \in Task : t # raw.id => stored'[t] = stored[t]

LEMMA SaveTaskFacts ==
  ASSUME AdmissionIInv, NEW p \in Proc, SaveTask(p)
  PROVE  /\ Saves(p) /\ \E raw \in ToSet(planner[p].batch) : StoresOf(p, raw)
         /\ planner[p].run \in Run /\ Others(p) /\ Continues(p)
<1> DEFINE left == planner[p].left
<1>1. /\ AdmissionTypeOK /\ SavingInv(p)
      /\ planner \in [Proc -> PlannerRecord] /\ stored \in [Task -> StoredTask]
      /\ planner[p] \in PlannerFields /\ planner[p].pc = "saving"
      /\ left \in Seq(TaskDefinition) /\ planner[p].run \in Run
  BY DEF AdmissionIInv, AdmissionTypeOK, SaveTask, PlannerRecord, PlannerFields
<1>2. /\ left # <<>> /\ ToSet(left) \subseteq ToSet(planner[p].batch)
      /\ \A other \in ToSet(left) : ~Saved(other.id)
  BY <1>1 DEF SavingInv, Saves, PlannerAt
<1> PICK raw : raw = Head(left)
  OBVIOUS
<1> DEFINE status == IF raw.dependencies = <<>> THEN "ready" ELSE "proposed"
           revision == stored[raw.id].revision + 1
<1>3. ToSet(left) = {raw} \cup ToSet(Tail(left)) /\ raw \in ToSet(left)
  BY <1>1, <1>2, HeadTail
<1>4. raw.id \in Task
  BY <1>1, <1>3, Written
<1>5. planner'[p].left = Tail(left)
  <2> DEFINE rest == Tail(left)
  <2>1. \E pc : planner' = [planner EXCEPT ![p].pc = pc, ![p].left = rest]
    BY DEF SaveTask, Goto
  <2> HIDE DEF rest
  <2>2. planner'[p].left = rest
    BY <1>1, <2>1 DEF PlannerFields
  <2> QED
    BY <2>2 DEF rest
<1>6. stored' = [stored EXCEPT ![raw.id] = [run |-> planner[p].run, dependencies |-> raw.dependencies,
                                            status |-> status, revision |-> revision, done |-> FALSE]]
  BY <1>1, <1>4 DEF SaveTask
<1>7. status # "absent"
  OBVIOUS
<1> HIDE DEF status, revision
<1>8. /\ stored'[raw.id].run = planner[p].run /\ stored'[raw.id].dependencies = raw.dependencies
      /\ stored'[raw.id].status = status /\ \A t \in Task : t # raw.id => stored'[t] = stored[t]
  BY <1>1, <1>4, <1>6
<1>9. StoresOf(p, raw)
  <2>1. ~Saved(raw.id) /\ Saved(raw.id)'
    BY <1>2, <1>3, <1>7, <1>8 DEF Saved
  <2>2. ToSet(planner[p].left) = {raw} \cup ToSet(planner'[p].left)
    BY <1>3, <1>5
  <2> QED
    BY <1>4, <1>8, <2>1, <2>2 DEF StoresOf
<1> QED
  BY <1>1, <1>2, <1>3, <1>9, ContinueFacts DEF Saves, PlannerAt

LEMMA SaveTaskGraph ==
  ASSUME GraphIInv, NEW p \in Proc, SaveTask(p)
  PROVE  StoredFinite' /\ (\A r \in Run : NoCycle(r)') /\ \A q \in Proc : PlanInv(q)'
<1>1. /\ Saves(p) /\ planner[p].run \in Run /\ Others(p) /\ Continues(p)
      /\ AdmissionIInv /\ StoredFinite /\ PlansApart
      /\ \A q \in Proc : CommandInv(q) /\ PlanInv(q) /\ SavingInv(q)
      /\ \A r \in Run : NoCycle(r)
  BY SaveTaskFacts DEF GraphIInv, AdmissionIInv
<1>2. PICK raw \in ToSet(planner[p].batch) : StoresOf(p, raw)
  BY <1>1, SaveTaskFacts
<1>3. planner[p].batch \in Seq(TaskDefinition) /\ stored[raw.id].run = "none"
  BY <1>1, <1>2 DEF AdmissionIInv, AdmissionTypeOK, PlannerRecord, PlannerFields, AbsentInv, StoresOf
<1>4. \A r \in Run : TasksOf(r)' = IF r = planner[p].run THEN TasksOf(r) \cup {raw.id} ELSE TasksOf(r)
  BY <1>2, <1>3, AdmissionConstants DEF StoresOf, TasksOf
<1>5. StoredFinite'
  <2>1. {t \in Task : Saved(t)}' = {t \in Task : Saved(t)} \cup {raw.id}
    BY <1>2 DEF StoresOf, Saved
  <2> QED
    BY <1>1, <2>1, FS_AddElement DEF StoredFinite
<1>6. ASSUME NEW r \in Run PROVE NoCycle(r)'
  <2>1. ASSUME NEW t \in Task, NEW d \in Task, DependsOn(r, t, d)' PROVE DependsOn(r, t, d)
    <3>1. CASE t \in TasksOf(r)' /\ d \in ToSet(stored'[t].dependencies) /\ t = raw.id
      <4>1. r = planner[p].run /\ raw \in ToSet(planner[p].left) /\ d \in ToSet(raw.dependencies)
        BY <1>2, <3>1 DEF StoresOf, TasksOf
      <4> QED
        BY <1>1, <3>1, <4>1 DEF DependsOn
    <3>2. CASE t \in TasksOf(r)' /\ d \in ToSet(stored'[t].dependencies) /\ t # raw.id
      BY <1>2, <1>4, <3>2 DEF DependsOn, StoresOf
    <3>3. ASSUME NEW q \in Proc, Saves(q)', planner'[q].run = r,
                 \E other \in ToSet(planner'[q].left) : other.id = t /\ d \in ToSet(other.dependencies)
          PROVE  DependsOn(r, t, d)
      <4>1. CASE q = p
        BY <1>1, <1>2, <3>3, <4>1 DEF DependsOn, StoresOf, Continues
      <4>2. CASE q # p
        <5>1. planner'[q] = planner[q] /\ Saves(q)
          BY <1>1, <3>3, <4>2 DEF Others, Saves, PlannerAt
        <5> QED
          BY <3>3, <5>1 DEF DependsOn
      <4> QED
        BY <4>1, <4>2
    <3> QED
      BY <2>1, <3>1, <3>2, <3>3 DEF DependsOn
  <2> QED
    BY <1>1, <2>1, LessDepends
<1>7. ToSet(raw.dependencies) \subseteq TasksOf(planner[p].run) \cup Ids(planner[p].batch)
  BY <1>1, <1>2 DEF SavingInv
<1>8. \A d \in Ids(planner[p].batch) : d \in Ids(planner[p].left) \/ d \in TasksOf(planner[p].run)
  <2> SUFFICES ASSUME NEW other \in ToSet(planner[p].batch)
               PROVE  other.id \in Ids(planner[p].left) \/ other.id \in TasksOf(planner[p].run)
    BY IdsOf
  <2>1. CASE other \in ToSet(planner[p].left)
    BY <2>1, IdsOf
  <2>2. CASE other \notin ToSet(planner[p].left)
    BY <1>1, <1>3, <2>2, Written DEF SavingInv, StoredAs, TasksOf
  <2> QED
    BY <2>1, <2>2
<1>9. \A d : d \in Ids(planner[p].left) => d = raw.id \/ d \in Ids(planner'[p].left)
  BY <1>2, IdsOf DEF StoresOf
<1>10. ASSUME NEW q \in Proc PROVE PlanInv(q)'
  <2> SUFFICES ASSUME Saves(q)', planner'[q].command = "plan", NEW t \in Task,
                      t \in TasksOf(planner[q].run)',
                      NEW d \in ToSet(stored'[t].dependencies)
               PROVE  d \in TasksOf(planner[q].run)' \/ d \in Ids(planner'[q].left)
    BY DEF PlanInv, Ids, TasksOf
  <2> DEFINE r == planner[q].run
  <2>1. planner'[q].run = r /\ Saves(q) /\ planner[q].command = "plan" /\ r \in Run
    BY <1>1 DEF Others, Continues, Saves, PlannerAt, AdmissionIInv, AdmissionTypeOK, PlannerRecord
  <2>2. TasksOf(planner[q].run)' = IF r = planner[p].run THEN TasksOf(r) \cup {raw.id} ELSE TasksOf(r)
    <3>1. TasksOf(planner[q].run)' = {u \in Task : stored'[u].run = r}
      BY <2>1 DEF TasksOf
    <3> QED
      BY <1>4, <2>1, <3>1 DEF TasksOf
  <2>3. ASSUME t # raw.id
        PROVE  d \in TasksOf(r) \/ d \in Ids(planner[q].left)
    <3>1. t \in TasksOf(r) /\ d \in ToSet(stored[t].dependencies)
      BY <1>2, <2>2, <2>3 DEF StoresOf
    <3> QED
      BY <1>1, <2>1, <3>1 DEF PlanInv
  <2>4. CASE q = p
    <3>1. d \in TasksOf(r) \/ d \in Ids(planner[q].left)
      BY <1>2, <1>7, <1>8, <2>3, <2>4 DEF StoresOf
    <3> QED
      BY <1>9, <2>2, <2>4, <3>1
  <2>5. CASE q # p /\ r = planner[p].run
    <3>1. planner[p].command # "plan"
      BY <1>1, <2>1, <2>5 DEF PlansApart
    <3>2. Len(planner[p].batch) <= 1
      BY <1>1, <3>1 DEF CommandInv, Saves, PlannerAt
    <3>3. ToSet(planner[p].batch) = {raw}
      BY <1>2, <1>3, <3>2 DEF ToSet
    <3>4. Ids(planner[p].batch) = {raw.id}
      BY <3>3, IdsOf
    <3>5. planner'[q].left = planner[q].left
      BY <1>1, <2>5 DEF Others
    <3> QED
      BY <1>2, <1>7, <2>2, <2>3, <2>5, <3>4, <3>5 DEF StoresOf
  <2>6. CASE q # p /\ r # planner[p].run
    <3>1. planner'[q].left = planner[q].left /\ t # raw.id
      BY <1>1, <1>2, <2>1, <2>6 DEF Others, StoresOf, TasksOf
    <3> QED
      BY <2>2, <2>3, <2>6, <3>1
  <2> QED
    BY <2>4, <2>5, <2>6
<1> QED
  BY <1>5, <1>6, <1>10

-----------------------------------------------------------------------------
(* A batch is judged. *)

LEMMA IdsFinite ==
  ASSUME NEW s \in Seq(TaskDefinition)
  PROVE  IsFiniteSet(Ids(s))
<1> DEFINE n == Len(s)
           id == [k \in 1..n |-> s[k].id]
<1>1. IsFiniteSet(1..n)
  <2>1. 1 \in Int /\ n \in Int
    OBVIOUS
  <2> QED
    BY <2>1, FS_Interval
<1>2. DOMAIN s = 1..n
  OBVIOUS
<1>3. id \in Surjection(1..n, Ids(s))
  BY <1>2 DEF Surjection, Ids
<1> QED
  BY <1>1, <1>3, FS_Surjection

LEMMA RunFinite ==
  ASSUME StoredFinite, AbsentInv, NEW r \in Run
  PROVE  IsFiniteSet(TasksOf(r))
<1>1. TasksOf(r) \in SUBSET {t \in Task : Saved(t)}
  BY AdmissionConstants DEF AbsentInv, TasksOf
<1> QED
  BY <1>1, FS_Subset DEF StoredFinite

\* The graph that is searched: what the batch defines and what is stored.
LEMMA TogetherFacts ==
  ASSUME AdmissionTypeOK, AbsentInv, StoredFinite, NEW r \in Run,
         NEW batch \in Seq(TaskDefinition), OwnIds(batch)
  PROVE  /\ DOMAIN Together(r, batch) = TasksOf(r) \cup Ids(batch)
         /\ IsFiniteSet(TasksOf(r) \cup Ids(batch))
         /\ Together(r, batch) \in [TasksOf(r) \cup Ids(batch) -> Seq(Task)]
         /\ \A raw \in ToSet(batch) : Together(r, batch)[raw.id] = raw.dependencies
         /\ \A t \in TasksOf(r) : t \notin Ids(batch) => Together(r, batch)[t] = stored[t].dependencies
<1> DEFINE g == Together(r, batch)
<1>1. /\ g = [t \in TasksOf(r) \cup Ids(batch) |->
                IF t \in Ids(batch) THEN (CHOOSE raw \in ToSet(batch) : raw.id = t).dependencies
                ELSE stored[t].dependencies]
  BY DEF Together, Existing
<1> HIDE DEF g
<1>2. IsFiniteSet(TasksOf(r) \cup Ids(batch))
  BY IdsFinite, RunFinite, FS_Union
<1>3. \A raw \in ToSet(batch) : raw.id \in Ids(batch) /\ raw.dependencies \in Seq(Task)
  BY Written
<1>4. \A one, two \in ToSet(batch) : one.id = two.id => one = two
  BY DEF OwnIds, ToSet
<1>5. \A raw \in ToSet(batch) : g[raw.id] = raw.dependencies
  <2> TAKE raw \in ToSet(batch)
  <2>1. (CHOOSE other \in ToSet(batch) : other.id = raw.id) = raw
    BY <1>4
  <2> QED
    BY <1>1, <1>3, <2>1
<1>6. \A t \in TasksOf(r) : t \notin Ids(batch) => g[t] = stored[t].dependencies
  BY <1>1
<1>7. ASSUME NEW t \in TasksOf(r) \cup Ids(batch) PROVE g[t] \in Seq(Task)
  <2>1. CASE t \in Ids(batch)
    <3>1. PICK raw \in ToSet(batch) : raw.id = t
      BY <2>1, IdsOf
    <3> QED
      BY <1>3, <1>5, <3>1
  <2>2. CASE t \notin Ids(batch)
    <3>1. t \in TasksOf(r) /\ t \in Task
      BY <1>7, <2>2 DEF TasksOf
    <3> QED
      BY <1>6, <2>2, <3>1 DEF AdmissionTypeOK, StoredTask
  <2> QED
    BY <2>1, <2>2
<1>8. DOMAIN g = TasksOf(r) \cup Ids(batch) /\ g \in [TasksOf(r) \cup Ids(batch) -> Seq(Task)]
  BY <1>1, <1>7
<1> QED
  BY <1>2, <1>5, <1>6, <1>8 DEF g

\* A batch that is judged belongs to no process that saves, and is not stored.
LEMMA JudgedFacts ==
  ASSUME AdmissionIInv, NEW p \in Proc, Validate(p)
  PROVE  /\ AdmissionTypeOK /\ AbsentInv /\ planner[p].run \in Run
         /\ planner[p].batch \in Seq(TaskDefinition) /\ OwnIds(planner[p].batch)
         /\ \A raw \in ToSet(planner[p].batch) : ~Saved(raw.id)
         /\ TasksOf(planner[p].run) \cap Ids(planner[p].batch) = {}
         /\ ~Saves(p) /\ stored' = stored
<1>1. /\ AdmissionTypeOK /\ AbsentInv /\ CheckedInv(p) /\ planner[p].pc = "validating" /\ stored' = stored
      /\ planner[p].run \in Run /\ planner[p].batch \in Seq(TaskDefinition)
  BY DEF AdmissionIInv, AdmissionTypeOK, Validate, PlannerRecord, PlannerFields
<1>2. OwnIds(planner[p].batch) /\ \A raw \in ToSet(planner[p].batch) : ~Saved(raw.id)
  BY <1>1, Nobody DEF CheckedInv, PlannerAt
<1>3. TasksOf(planner[p].run) \cap Ids(planner[p].batch) = {}
  <2> SUFFICES ASSUME NEW raw \in ToSet(planner[p].batch), raw.id \in TasksOf(planner[p].run)
               PROVE  FALSE
    BY IdsOf
  <2> QED
    BY <1>1, <1>2, AdmissionConstants DEF AbsentInv, TasksOf
<1>4. ~Saves(p)
  BY <1>1 DEF Saves, PlannerAt
<1> QED
  BY <1>1, <1>2, <1>3, <1>4

LEMMA ValidateGraph ==
  ASSUME GraphIInv, NEW p \in Proc, Validate(p), Admissible(planner[p].run, planner[p].batch)
  PROVE  StoredFinite' /\ (\A r \in Run : NoCycle(r)') /\ \A q \in Proc : PlanInv(q)'
<1> PICK r, batch : r = planner[p].run /\ batch = planner[p].batch
  OBVIOUS
<1> PICK g : g = Together(r, batch)
  OBVIOUS
<1>1. /\ AdmissionIInv /\ AdmissionTypeOK /\ AbsentInv /\ StoredFinite /\ r \in Run
      /\ batch \in Seq(TaskDefinition) /\ OwnIds(batch)
      /\ \A raw \in ToSet(batch) : ~Saved(raw.id)
      /\ TasksOf(r) \cap Ids(batch) = {}
      /\ ~Saves(p) /\ stored' = stored /\ IdsApart
      /\ \A q \in Proc : PlanInv(q) /\ SavingInv(q)
      /\ \A s \in Run : NoCycle(s)
  BY JudgedFacts DEF GraphIInv, AdmissionIInv
<1>2. /\ DOMAIN g = TasksOf(r) \cup Ids(batch) /\ IsFiniteSet(DOMAIN g)
      /\ g \in [DOMAIN g -> Seq(Task)]
      /\ \A raw \in ToSet(batch) : g[raw.id] = raw.dependencies
      /\ \A t \in TasksOf(r) : g[t] = stored[t].dependencies
  <2>1. /\ DOMAIN g = TasksOf(r) \cup Ids(batch) /\ IsFiniteSet(TasksOf(r) \cup Ids(batch))
        /\ g \in [TasksOf(r) \cup Ids(batch) -> Seq(Task)]
        /\ \A raw \in ToSet(batch) : g[raw.id] = raw.dependencies
        /\ \A t \in TasksOf(r) : t \notin Ids(batch) => g[t] = stored[t].dependencies
    BY <1>1, TogetherFacts
  <2> QED
    BY <1>1, <2>1
<1>3. Acyclic(g) /\ Dangling(g) = {}
  <2>1. assert_acyclic(g) = "acyclic"
    BY DEF Admissible, Searched
  <2> QED
    BY <1>2, <2>1, SearchIsRight
<1>4. /\ planner'[p].pc = "saving" /\ planner'[p].left = batch /\ planner'[p].run = r
      /\ planner'[p].command = planner[p].command /\ \A q \in Proc : q # p => planner'[q] = planner[q]
  <2>1. planner' = Goto(p, "saving", batch)
    BY DEF Validate
  <2>2. planner \in [Proc -> PlannerRecord] /\ planner[p] \in PlannerFields
    BY <1>1 DEF AdmissionTypeOK, PlannerRecord
  <2> QED
    BY <2>1, <2>2 DEF Goto, PlannerFields
<1>5. StoredFinite'
  BY <1>1 DEF StoredFinite, Saved
<1>6. \A t, d : t \in TasksOf(r) \/ t \in Ids(batch) => (DependsOn(r, t, d)' => d \in ToSet(g[t]))
  <2> SUFFICES ASSUME NEW t, NEW d, t \in TasksOf(r) \/ t \in Ids(batch), DependsOn(r, t, d)'
               PROVE  d \in ToSet(g[t])
    OBVIOUS
  <2>1. CASE t \in TasksOf(r)' /\ d \in ToSet(stored'[t].dependencies)
    BY <1>1, <1>2, <1>4, <2>1 DEF TasksOf
  <2>2. ASSUME NEW q \in Proc, Saves(q)', planner'[q].run = r,
               NEW raw \in ToSet(planner'[q].left), raw.id = t, d \in ToSet(raw.dependencies)
        PROVE  d \in ToSet(g[t])
    <3>1. CASE q = p
      BY <1>2, <1>4, <2>2, <3>1
    <3>2. CASE q # p
      <4>1. Saves(q) /\ raw \in ToSet(planner[q].left)
        BY <1>4, <2>2, <3>2 DEF Saves, PlannerAt
      <4>2. ~Saved(t) /\ t \in Ids(planner[q].batch)
        BY <1>1, <2>2, <4>1, IdsOf DEF SavingInv
      <4>3. t \notin Ids(batch)
        BY <1>1, <3>2, <4>2 DEF IdsApart
      <4>4. t \notin TasksOf(r)
        BY <1>1, <4>2, AdmissionConstants DEF AbsentInv, TasksOf
      <4> QED
        BY <4>3, <4>4
    <3> QED
      BY <3>1, <3>2
  <2> QED
    BY <1>4, <2>1, <2>2 DEF DependsOn
<1>7. ASSUME NEW s \in Run, NEW t, NEW d, DependsOn(s, t, d)', s # r \/ t \notin Ids(batch)
      PROVE  DependsOn(s, t, d)
  <2>1. CASE t \in TasksOf(s)' /\ d \in ToSet(stored'[t].dependencies)
    BY <1>1, <2>1 DEF DependsOn, TasksOf
  <2>2. ASSUME NEW q \in Proc, Saves(q)', planner'[q].run = s,
               NEW raw \in ToSet(planner'[q].left), raw.id = t, d \in ToSet(raw.dependencies)
        PROVE  DependsOn(s, t, d)
    <3>1. q # p
      BY <1>4, <1>7, <2>2, IdsOf
    <3>2. Saves(q) /\ planner'[q] = planner[q]
      BY <1>4, <2>2, <3>1 DEF Saves, PlannerAt
    <3> QED
      BY <2>2, <3>2 DEF DependsOn
  <2> QED
    BY <1>7, <2>1, <2>2 DEF DependsOn
<1>8. ASSUME NEW s \in Run, s # r PROVE NoCycle(s)'
  BY <1>1, <1>7, <1>8, LessDepends
<1>9. NoCycle(r)'
  <2> SUFFICES ASSUME NEW group \in SUBSET Task, group # {}
               PROVE  \E t \in group : \A d \in group : ~DependsOn(r, t, d)'
    BY <1>4 DEF NoCycle
  <2>1. CASE group \cap DOMAIN g # {}
    <3>1. PICK t \in group \cap DOMAIN g : ToSet(g[t]) \cap (group \cap DOMAIN g) = {}
      BY <1>3, <2>1 DEF Acyclic
    <3>2. ToSet(g[t]) \subseteq DOMAIN g
      BY <1>3 DEF Dangling
    <3> QED
      BY <1>2, <1>6, <3>1, <3>2
  <2>2. CASE group \cap DOMAIN g = {}
    <3>1. PICK t \in group : \A d \in group : ~DependsOn(r, t, d)
      BY <1>1 DEF NoCycle
    <3> QED
      BY <1>1, <1>2, <1>7, <2>2, <3>1
  <2> QED
    BY <2>1, <2>2
<1>10. ASSUME NEW q \in Proc PROVE PlanInv(q)'
  <2>1. CASE q # p
    BY <1>1, <1>4, <2>1 DEF PlanInv, Saves, PlannerAt, TasksOf, Ids
  <2>2. CASE q = p
    <3>1. \A t \in TasksOf(r) : ToSet(stored[t].dependencies) \subseteq TasksOf(r) \cup Ids(batch)
      BY <1>2, <1>3 DEF Dangling
    <3> QED
      BY <1>1, <1>4, <2>2, <3>1 DEF PlanInv, TasksOf, Ids
  <2> QED
    BY <2>1, <2>2
<1> QED
  BY <1>5, <1>8, <1>9, <1>10

-----------------------------------------------------------------------------
(* The theorems about the graphs.                                           *)

LEMMA GraphInit == Init => GraphIInv
<1> SUFFICES ASSUME Init
             PROVE  GraphIInv
  OBVIOUS
<1>1. AdmissionIInv
  BY AdmissionInit
<1>2. /\ \A t \in Task : stored[t].status = "absent" /\ stored[t].run = "none"
      /\ \A p \in Proc : planner[p] = Idle
  BY DEF Init, NotStored
<1>3. StoredFinite
  <2>1. {t \in Task : Saved(t)} = {}
    BY <1>2 DEF Saved
  <2> QED
    BY <2>1, FS_EmptySet DEF StoredFinite
<1>4. \A p \in Proc : planner[p].pc = "idle" /\ planner[p].command = "none"
  BY <1>2 DEF Idle
<1>5. PlansApart /\ \A p \in Proc : CommandInv(p) /\ PlanInv(p) /\ OwnInv(p)
  BY <1>4 DEF PlansApart, CommandInv, PlanInv, OwnInv, Saves, PlannerAt
<1>6. ASSUME NEW r \in Run PROVE NoCycle(r)
  <2>1. \A t, d : ~DependsOn(r, t, d)
    BY <1>2, <1>4, AdmissionConstants DEF DependsOn, TasksOf, Saves, PlannerAt
  <2> QED
    BY <2>1 DEF NoCycle
<1> QED
  BY <1>1, <1>3, <1>5, <1>6 DEF GraphIInv

\* Every process minds its own command.
LEMMA CommandStep ==
  ASSUME GraphIInv, [Next]_vars
  PROVE  PlansApart' /\ \A q \in Proc : CommandInv(q)'
<1>1. AdmissionTypeOK /\ PlansApart /\ \A q \in Proc : CommandInv(q)
  BY DEF GraphIInv, AdmissionIInv
<1>2. ASSUME NEW p \in Proc, Others(p), Ends(p) \/ Continues(p)
      PROVE  PlansApart' /\ \A q \in Proc : CommandInv(q)'
  <2>1. \A q \in Proc : planner'[q] = planner[q] \/ Ends(q) \/ Continues(q)
    BY <1>2 DEF Others
  <2> QED
    BY <1>1, <1>2, <2>1, ApartKept, CommandKept
<1>3. ASSUME NEW p \in Proc, Plan(p) \/ Propose(p) \/ Dispatch(p)
      PROVE  PlansApart' /\ \A q \in Proc : CommandInv(q)'
  <2>1. /\ Others(p) /\ CommandInv(p)'
        /\ planner'[p].command = "plan" =>
             \A q \in Proc : q # p /\ planner[q].command = "plan" => planner[q].run # planner'[p].run
    BY <1>3, BeginFacts
  <2>2. \A q \in Proc : q # p => CommandInv(q)'
    BY <1>1, <2>1, CommandKept DEF Others
  <2> QED
    BY <1>1, <2>1, <2>2, ApartKept
<1>4. ASSUME NEW p \in Proc, CheckNew(p) \/ Validate(p) \/ SaveTask(p) \/ List(p) \/ Promote(p)
      PROVE  PlansApart' /\ \A q \in Proc : CommandInv(q)'
  BY <1>1, <1>2, <1>4, ContinueFacts
<1>5. ASSUME NEW p \in Proc, Report(p) \/ ReadOrphan(p) \/ CancelOrphan(p) \/ Crash(p)
      PROVE  PlansApart' /\ \A q \in Proc : CommandInv(q)'
  BY <1>1, <1>2, <1>5, EndFacts
<1>6. ASSUME planner' = planner
      PROVE  PlansApart' /\ \A q \in Proc : CommandInv(q)'
  <2>1. PlansApart'
    BY <1>1, <1>6 DEF PlansApart
  <2> QED
    BY <1>1, <1>6, <2>1, CommandKept
<1>7. (\E r \in Run : StartRun(r)) \/ (\E t \in Task : Work(t) \/ force_terminal(t)) \/ UNCHANGED vars => planner' = planner
  BY DEF StartRun, Work, force_terminal, vars
<1> QED
  BY <1>3, <1>4, <1>5, <1>6, <1>7 DEF Next

\* What befalls a process is its own doing.
LEMMA OwnSteps ==
  ASSUME AdmissionTypeOK, [Next]_vars, NEW p \in Proc
  PROVE  \/ planner'[p] = planner[p]
         \/ Plan(p) \/ Propose(p) \/ CheckNew(p) \/ Validate(p) \/ SaveTask(p)
         \/ Dispatch(p) \/ List(p) \/ Promote(p) \/ Report(p)
         \/ ReadOrphan(p) \/ CancelOrphan(p) \/ Crash(p)
<1>1. ASSUME NEW q \in Proc,
             \/ Plan(q) \/ Propose(q) \/ CheckNew(q) \/ Validate(q) \/ SaveTask(q)
             \/ Dispatch(q) \/ List(q) \/ Promote(q) \/ Report(q)
             \/ ReadOrphan(q) \/ CancelOrphan(q) \/ Crash(q)
      PROVE  Others(q)
  <2>1. CASE Plan(q) \/ Propose(q)
    <3>1. \E command, r, batch : AddTasks(q, command, r, batch)
      BY <2>1 DEF Plan, Propose
    <3> QED
      BY <3>1, AddTasksFacts
  <2>2. CASE Dispatch(q)
    BY <2>2 DEF Dispatch, AdmissionTypeOK, Others
  <2> QED
    BY <1>1, <2>1, <2>2, ContinueFacts, EndFacts
<1>2. (\E r \in Run : StartRun(r)) \/ (\E t \in Task : Work(t) \/ force_terminal(t)) \/ UNCHANGED vars
        => planner' = planner
  BY DEF StartRun, Work, force_terminal, vars
<1> QED
  BY <1>1, <1>2 DEF Next, Others

LEMMA OwnKept ==
  ASSUME GraphIInv, [Next]_vars
  PROVE  \A q \in Proc : OwnInv(q)'
<1> TAKE p \in Proc
<1>1. /\ AdmissionTypeOK /\ planner \in [Proc -> PlannerRecord] /\ planner[p] \in PlannerFields
      /\ OwnInv(p) /\ PlanInv(p) /\ SavingInv(p) /\ AbsentInv
      /\ planner[p].pc # "idle" => planner[p].run \in Run
  BY DEF GraphIInv, AdmissionIInv, AdmissionTypeOK, PlannerRecord
<1>2. ASSUME planner'[p].pc \notin {"checking", "refreshing"} PROVE OwnInv(p)'
  BY <1>2 DEF OwnInv
<1>3. CASE planner'[p] = planner[p]
  BY <1>1, <1>3 DEF OwnInv
<1>4. CASE Plan(p) \/ Propose(p)
  <2>1. \E command, r, batch : AddTasks(p, command, r, batch)
    BY <1>4 DEF Plan, Propose
  <2>2. planner'[p].pc \in {"checking", "raised"} /\ planner'[p].left = planner'[p].batch
    BY <1>1, <2>1, AddTasksFacts
  <2> QED
    BY <2>2 DEF OwnInv
<1>5. CASE Dispatch(p)
  BY <1>1, <1>2, <1>5 DEF Dispatch
<1>6. CASE CheckNew(p)
  <2>1. CASE planner' = Goto(p, "checking", Tail(planner[p].left)) /\ planner[p].left # <<>>
    <3>1. /\ planner'[p].pc = "checking" /\ planner'[p].left = Tail(planner[p].left)
          /\ planner'[p].batch = planner[p].batch /\ planner[p].pc = "checking"
      BY <1>1, <1>6, <2>1 DEF CheckNew, Goto, PlannerFields
    <3>2. ToSet(planner[p].left) = {Head(planner[p].left)} \cup ToSet(Tail(planner[p].left))
      BY <1>1, <2>1, HeadTail DEF PlannerFields
    <3> QED
      BY <1>1, <3>1, <3>2 DEF OwnInv
  <2>2. CASE planner' = Goto(p, "validating", <<>>)
    BY <1>1, <1>2, <2>2, GotoFacts
  <2>3. CASE planner' = Raised(p, "duplicate")
    BY <1>1, <1>2, <2>3 DEF Raised
  <2> QED
    BY <1>6, <2>1, <2>2, <2>3 DEF CheckNew
<1>7. CASE Validate(p)
  <2>1. \/ planner' = Goto(p, "saving", planner[p].batch)
        \/ planner' = Raised(p, "inadmissible")
    BY <1>7 DEF Validate
  <2>2. planner'[p].pc \in {"saving", "raised"}
    BY <1>1, <2>1 DEF Goto, Raised, PlannerFields
  <2> QED
    BY <1>2, <2>2
<1>8. CASE SaveTask(p)
  <2>1. \E pc \in {"listing", "saving"} : \E left : planner' = Goto(p, pc, left)
    BY <1>8 DEF SaveTask
  <2> QED
    BY <1>1, <1>2, <2>1 DEF Goto
<1>9. CASE List(p)
  <2>1. CASE planner[p].command # "plan"
    BY <1>1, <1>9, <2>1 DEF List, OwnInv
  <2>2. CASE planner[p].command = "plan"
    <3> DEFINE names == {t \in Task : stored[t].status # "absent"}
               listed == [t \in names |-> stored[t]]
    <3>1. /\ planner'[p].listed = listed /\ planner'[p].pc = "refreshing"
          /\ planner'[p].run = planner[p].run /\ planner[p].pc = "listing"
      BY <1>1, <1>9, <2>2 DEF List
    <3>2. Saves(p) /\ planner[p].left = <<>> /\ planner[p].run \in Run
      BY <1>1, <2>2, <3>1 DEF Saves, PlannerAt, SavingInv
    <3>3. ASSUME NEW t \in Task, stored[t].run = planner[p].run
          PROVE  ToSet(stored[t].dependencies) \subseteq names
      <4>1. t \in TasksOf(planner[p].run)
        BY <3>3 DEF TasksOf
      <4>2. ToSet(stored[t].dependencies) \subseteq TasksOf(planner[p].run)
        BY <1>1, <2>2, <3>2, <4>1, Nobody DEF PlanInv
      <4>3. TasksOf(planner[p].run) \subseteq names
        BY <1>1, <3>2, AdmissionConstants DEF TasksOf, AbsentInv, Saved
      <4> QED
        BY <4>2, <4>3
    <3>4. DOMAIN listed = names /\ \A t \in names : t \in Task /\ listed[t] = stored[t]
      OBVIOUS
    <3> HIDE DEF listed, names
    <3> QED
      BY <3>1, <3>3, <3>4 DEF OwnInv
  <2> QED
    BY <2>1, <2>2
<1>10. CASE Promote(p)
  <2>1. PICK t \in DOMAIN planner[p].listed :
          \/ planner' = [planner EXCEPT ![p].listed[t].status = "ready"]
          \/ \E cause : planner' = Raised(p, cause)
    BY <1>10 DEF Promote
  <2>2. CASE \E cause : planner' = Raised(p, cause)
    BY <1>1, <1>2, <2>2 DEF Raised
  <2>3. CASE planner' = [planner EXCEPT ![p].listed[t].status = "ready"]
    <3>1. PICK listed : listed = planner[p].listed
      OBVIOUS
    <3>2. /\ planner'[p].listed = [listed EXCEPT ![t].status = "ready"]
          /\ planner'[p].pc = "refreshing" /\ planner[p].pc = "refreshing"
          /\ planner'[p].run = planner[p].run /\ planner'[p].command = planner[p].command
      BY <1>1, <1>10, <2>3, <3>1 DEF Promote, PlannerFields
    <3>3. \A u \in DOMAIN listed : listed[u] \in StoredTask
      <4>1. ListedInv(p)
        BY DEF GraphIInv, AdmissionIInv
      <4> QED
        BY <3>1, <3>2, <4>1 DEF ListedInv, PlannerAt
    <3>4. /\ DOMAIN planner'[p].listed = DOMAIN listed
          /\ \A u \in DOMAIN listed : /\ planner'[p].listed[u].run = listed[u].run
                                      /\ planner'[p].listed[u].dependencies = listed[u].dependencies
      BY <3>2, <3>3 DEF StoredTask
    <3> QED
      BY <1>1, <3>1, <3>2, <3>4 DEF OwnInv
  <2> QED
    BY <2>1, <2>2, <2>3
<1>11. CASE Report(p) \/ ReadOrphan(p) \/ CancelOrphan(p) \/ Crash(p)
  <2>1. planner'[p].pc \in {"idle", "cancelling"}
    BY <1>1, <1>11, EndFacts DEF Ends, Idle
  <2> QED
    BY <1>2, <2>1
<1> QED
  BY <1>3, <1>4, <1>5, <1>6, <1>7, <1>8, <1>9, <1>10, <1>11, OwnSteps, <1>1

LEMMA GraphStep ==
  ASSUME ~SameIds, GraphIInv, [Next]_vars
  PROVE  GraphIInv'
<1>1. AdmissionIInv'
  BY AdmissionStep DEF GraphIInv
<1>2. PlansApart' /\ \A q \in Proc : CommandInv(q)'
  BY CommandStep
<1>3. StoredFinite' /\ (\A r \in Run : NoCycle(r)') /\ \A q \in Proc : PlanInv(q)'
  <2>1. CASE \E p \in Proc : SaveTask(p)
    BY <2>1, SaveTaskGraph
  <2>2. CASE \E p \in Proc : Validate(p) /\ Admissible(planner[p].run, planner[p].batch)
    BY <2>2, ValidateGraph
  <2>3. CASE /\ ~ \E p \in Proc : SaveTask(p)
             /\ ~ \E p \in Proc : Validate(p) /\ Admissible(planner[p].run, planner[p].batch)
    <3>1. (\A t \in Task : SameTask(t)) /\ \A p \in Proc : Stays(p)
      BY <2>3, QuietSteps
    <3> QED
      BY <3>1, GraphKept DEF GraphIInv, AdmissionIInv
  <2> QED
    BY <2>1, <2>2, <2>3
<1>4. \A q \in Proc : OwnInv(q)'
  BY OwnKept
<1> QED
  BY <1>1, <1>2, <1>3, <1>4 DEF GraphIInv

\* The inductive invariant about the graphs of the runs holds through every
\* interleaving and crash: no group of tasks, stored or about to be, of a run
\* ever goes round in a circle.
THEOREM GraphInvariance == ~SameIds => (Spec => []GraphIInv)
<1> SUFFICES ASSUME ~SameIds
             PROVE  Spec => []GraphIInv
  OBVIOUS
<1>1. Init => GraphIInv
  BY GraphInit
<1>2. GraphIInv /\ [Next]_vars => GraphIInv'
  BY GraphStep
<1> QED
  BY <1>1, <1>2, PTL DEF Spec

LEMMA RunGraphFacts ==
  ASSUME GraphIInv, NEW r \in Run
  PROVE  DOMAIN RunGraph(r) = TasksOf(r) /\ IsFiniteSet(TasksOf(r)) /\ Acyclic(RunGraph(r))
<1>1. DOMAIN RunGraph(r) = TasksOf(r) /\ \A t \in TasksOf(r) : RunGraph(r)[t] = stored[t].dependencies
  BY DEF RunGraph
<1>2. IsFiniteSet(TasksOf(r))
  BY RunFinite DEF GraphIInv, AdmissionIInv
<1>3. ASSUME NEW group \in SUBSET TasksOf(r), group # {}
      PROVE  \E t \in group : ToSet(stored[t].dependencies) \cap group = {}
  <2>1. NoCycle(r) /\ group \in SUBSET Task
    BY DEF GraphIInv, TasksOf
  <2>2. PICK t \in group : \A d \in group : ~DependsOn(r, t, d)
    BY <1>3, <2>1 DEF NoCycle
  <2> QED
    BY <2>2 DEF DependsOn
<1>4. Acyclic(RunGraph(r))
  BY <1>1, <1>3 DEF Acyclic
<1> QED
  BY <1>1, <1>2, <1>4

\* admit_tasks and topological_order: whatever is admitted, whole or in part,
\* by several processes at once, topological_order finds an order from any
\* list of a run's tasks and puts each task after all it builds on.
THEOREM OrdersFollow == ~SameIds => (Spec => []OrderFollowsDependencies)
<1>1. GraphIInv => OrderFollowsDependencies
  <2> SUFFICES ASSUME GraphIInv, NEW r \in Run, NEW tasks \in SetToSeqs(TasksOf(r))
               PROVE  Follows(topological_order(tasks, RunGraph(r)).ordered, RunGraph(r))
    BY DEF OrderFollowsDependencies
  <2> QED
    BY RunGraphFacts, OrderIsRight
<1> QED
  BY <1>1, GraphInvariance, PTL

\* Where a command gets its exception from.
LEMMA CauseFacts ==
  ASSUME AdmissionTypeOK, [Next]_vars, NEW p \in Proc, planner[p].cause = "none",
         planner'[p].cause \in {"duplicate", "inadmissible", "conflict", "unknown"}
  PROVE  LET left == planner[p].left
             listed == planner[p].listed
         IN  /\ planner'[p].cause = "duplicate" =>
                  planner[p].pc = "checking" /\ left # <<>> /\ stored[Head(left).id].status # "absent"
             /\ planner'[p].cause = "inadmissible" =>
                  Validate(p) /\ ~Admissible(planner[p].run, planner[p].batch)
             /\ planner'[p].cause = "conflict" =>
                  /\ planner[p].pc = "refreshing"
                  /\ \E t \in DOMAIN listed :
                       Prospect(t, listed) = "promote" /\ stored[t].revision # listed[t].revision
             /\ planner'[p].cause = "unknown" =>
                  /\ planner[p].pc = "refreshing"
                  /\ \E t \in DOMAIN listed : Prospect(t, listed) = "unknown"
<1> DEFINE left == planner[p].left
           listed == planner[p].listed
<1>1. /\ planner \in [Proc -> PlannerRecord] /\ planner[p] \in PlannerFields
      /\ Idle.cause = "none"
  BY DEF AdmissionTypeOK, PlannerRecord, Idle
<1>2. ASSUME NEW pc, NEW new, planner' = Goto(p, pc, new) PROVE FALSE
  BY <1>1, <1>2 DEF Goto, PlannerFields
<1>3. ASSUME NEW cause, planner' = Raised(p, cause) PROVE planner'[p].cause = cause
  BY <1>1, <1>3 DEF Raised, PlannerFields
<1>4. ASSUME Plan(p) \/ Propose(p) PROVE FALSE
  <2>1. \E command, r, batch : AddTasks(p, command, r, batch)
    BY <1>4 DEF Plan, Propose
  <2> QED
    BY <2>1, AddTasksFacts
<1>5. ASSUME Dispatch(p) PROVE FALSE
  BY <1>1, <1>5 DEF Dispatch, Idle
<1>6. ASSUME Report(p) \/ ReadOrphan(p) \/ CancelOrphan(p) \/ Crash(p) PROVE FALSE
  BY <1>1, <1>6 DEF Report, ReadOrphan, CancelOrphan, Crash, PlannerFields
<1>7. ASSUME CheckNew(p)
      PROVE  /\ planner'[p].cause = "duplicate" /\ planner[p].pc = "checking" /\ left # <<>>
             /\ stored[Head(left).id].status # "absent"
  <2>1. \/ planner' = Goto(p, "validating", <<>>)
        \/ planner' = Goto(p, "checking", Tail(left))
        \/ /\ planner' = Raised(p, "duplicate") /\ left # <<>>
           /\ stored[Head(left).id].status # "absent"
    BY <1>7 DEF CheckNew
  <2> HIDE DEF left
  <2> QED
    BY <1>2, <1>3, <1>7, <2>1 DEF CheckNew
<1>8. ASSUME Validate(p)
      PROVE  planner'[p].cause = "inadmissible" /\ ~Admissible(planner[p].run, planner[p].batch)
  <2>1. \/ planner' = Goto(p, "saving", planner[p].batch)
        \/ planner' = Raised(p, "inadmissible") /\ ~Admissible(planner[p].run, planner[p].batch)
    BY <1>8 DEF Validate
  <2> QED
    BY <1>2, <1>3, <2>1
<1>9. ASSUME SaveTask(p) PROVE FALSE
  BY <1>2, <1>9 DEF SaveTask
<1>10. ASSUME List(p) PROVE FALSE
  BY <1>1, <1>10 DEF List, PlannerFields
<1>11. ASSUME Promote(p)
       PROVE  /\ planner[p].pc = "refreshing"
              /\ \E t \in DOMAIN listed :
                   \/ /\ planner'[p].cause = "conflict"
                      /\ Prospect(t, listed) = "promote" /\ stored[t].revision # listed[t].revision
                   \/ planner'[p].cause = "unknown" /\ Prospect(t, listed) = "unknown"
  <2>1. PICK t \in DOMAIN listed :
          \/ planner' = [planner EXCEPT ![p].listed[t].status = "ready"]
          \/ /\ Prospect(t, listed) = "promote" /\ stored[t].revision # listed[t].revision
             /\ planner' = Raised(p, "conflict")
          \/ Prospect(t, listed) = "unknown" /\ planner' = Raised(p, "unknown")
    BY <1>11 DEF Promote
  <2>2. ASSUME planner' = [planner EXCEPT ![p].listed[t].status = "ready"] PROVE FALSE
    BY <1>1, <2>2 DEF PlannerFields
  <2>3. planner[p].pc = "refreshing"
    BY <1>11 DEF Promote
  <2> HIDE DEF listed
  <2> QED
    BY <1>3, <2>1, <2>2, <2>3
<1>12. planner'[p] # planner[p]
  OBVIOUS
<1> QED
  BY <1>4, <1>5, <1>6, <1>7, <1>8, <1>9, <1>10, <1>11, <1>12, OwnSteps

\* Where the search for the first open dependency ends.
LEMMA UnknownFacts ==
  ASSUME NEW listed, NEW t \in DOMAIN listed, listed[t].dependencies \in Seq(Task),
         Prospect(t, listed) = "unknown"
  PROVE  ~ (ToSet(listed[t].dependencies) \subseteq DOMAIN listed)
<1> DEFINE dependencies == listed[t].dependencies
           open == {i \in DOMAIN dependencies : Open(dependencies[i], listed)}
<1>1. open # {} /\ dependencies[Min(open)] \notin DOMAIN listed
  BY DEF Prospect
<1>2. open \in SUBSET Nat
  OBVIOUS
<1>3. Min(open) \in open
  <2> HIDE DEF open
  <2>1. \E i \in open : \A j \in open : i <= j
    BY <1>1, <1>2, Least
  <2> QED
    BY <2>1 DEF Min
<1>4. Min(open) \in DOMAIN dependencies
  <2>1. open \subseteq DOMAIN dependencies
    OBVIOUS
  <2> HIDE DEF open
  <2> QED
    BY <1>3, <2>1
<1> QED
  BY <1>1, <1>4 DEF ToSet

\* A batch that is refused is unsound, depends on what is not there, or makes
\* a cycle.
LEMMA RefusedFacts ==
  ASSUME GraphIInv, NEW p \in Proc, Validate(p), ~Admissible(planner[p].run, planner[p].batch)
  PROVE  \/ \E raw \in ToSet(planner[p].batch) : ~Sound(raw)
         \/ Dangling(Together(planner[p].run, planner[p].batch)) # {}
         \/ ~Acyclic(Together(planner[p].run, planner[p].batch))
<1> PICK r, batch, g : r = planner[p].run /\ batch = planner[p].batch /\ g = Together(r, batch)
  OBVIOUS
<1>1. /\ AdmissionTypeOK /\ AbsentInv /\ StoredFinite /\ r \in Run
      /\ batch \in Seq(TaskDefinition) /\ OwnIds(batch)
  BY JudgedFacts DEF GraphIInv
<1>2. /\ DOMAIN g = TasksOf(r) \cup Ids(batch) /\ IsFiniteSet(TasksOf(r) \cup Ids(batch))
      /\ g \in [TasksOf(r) \cup Ids(batch) -> Seq(Task)]
      /\ \A raw \in ToSet(batch) : g[raw.id] = raw.dependencies
  BY <1>1, TogetherFacts
<1>3. \/ \E raw \in ToSet(batch) : ~Sound(raw)
      \/ \E raw \in ToSet(batch) : ~(ToSet(raw.dependencies) \subseteq DOMAIN g)
      \/ assert_acyclic(g) # "acyclic"
  BY DEF Admissible, Searched
<1>4. ASSUME NEW raw \in ToSet(batch), ~(ToSet(raw.dependencies) \subseteq DOMAIN g)
      PROVE  Dangling(g) # {}
  <2>1. raw.id \in DOMAIN g
    BY <1>1, <1>2, Written
  <2> QED
    BY <1>2, <1>4, <2>1 DEF Dangling
<1>5. assert_acyclic(g) # "acyclic" => Dangling(g) # {} \/ ~Acyclic(g)
  BY <1>2, SearchIsRight
<1> QED
  BY <1>3, <1>4, <1>5

\* A batch is stored as a whole when refresh_ready is on its way.
LEMMA WholeFacts ==
  ASSUME GraphIInv, NEW p \in Proc, planner[p].pc = "refreshing", planner[p].command # "dispatch"
  PROVE  Ids(planner[p].batch) \subseteq TasksOf(planner[p].run)
<1>1. SavingInv(p) /\ planner[p].batch \in Seq(TaskDefinition)
  BY DEF GraphIInv, AdmissionIInv, AdmissionTypeOK, PlannerRecord, PlannerFields
<1>2. planner[p].left = <<>> /\ \A raw \in ToSet(planner[p].batch) : StoredAs(raw, planner[p].run)
  BY <1>1, Nobody DEF SavingInv, Saves, PlannerAt
<1>3. \A raw \in ToSet(planner[p].batch) : raw.id \in Task
  BY <1>1, Written
<1> QED
  BY <1>2, <1>3, IdsOf DEF StoredAs, TasksOf

\* admit_tasks and refresh_ready refuse a batch for these causes only: its ids
\* are taken, it is unsound, dangling or cyclic (the search finds no cycle that
\* is not there), or, when it is stored as a whole, another process has moved
\* a task that was to be promoted, or another run's batch is half-admitted.
THEOREM RejectionsHaveCause == ~SameIds => (Spec => RejectedForCause)
<1> DEFINE Admitted(p) ==
             planner[p].command # "dispatch" => Ids(planner[p].batch) \subseteq TasksOf(planner[p].run)
<1>1. ASSUME GraphIInv, [Next]_vars, NEW p \in Proc, planner[p].cause = "none",
             planner'[p].cause = "inadmissible"
      PROVE  \/ \E raw \in ToSet(planner[p].batch) : ~Sound(raw)
             \/ Dangling(Together(planner[p].run, planner[p].batch)) # {}
             \/ ~Acyclic(Together(planner[p].run, planner[p].batch))
  <2>1. Validate(p) /\ ~Admissible(planner[p].run, planner[p].batch)
    BY <1>1, CauseFacts DEF GraphIInv, AdmissionIInv
  <2> QED
    BY <1>1, <2>1, RefusedFacts
<1>2. ASSUME GraphIInv, [Next]_vars, NEW p \in Proc, planner[p].cause = "none",
             planner'[p].cause = "duplicate"
      PROVE  \E t \in Ids(planner[p].batch) : stored[t].status # "absent"
  <2>1. /\ planner[p].pc = "checking" /\ planner[p].left # <<>>
        /\ stored[Head(planner[p].left).id].status # "absent"
    BY <1>2, CauseFacts DEF GraphIInv, AdmissionIInv
  <2>2. planner[p].left \in Seq(TaskDefinition) /\ OwnInv(p)
    BY <1>2 DEF GraphIInv, AdmissionIInv, AdmissionTypeOK, PlannerRecord, PlannerFields
  <2>3. Head(planner[p].left) \in ToSet(planner[p].batch)
    BY <2>1, <2>2, HeadTail DEF OwnInv
  <2> QED
    BY <2>1, <2>3, IdsOf
<1>3. ASSUME GraphIInv, [Next]_vars, NEW p \in Proc, planner[p].cause = "none",
             planner'[p].cause = "conflict"
      PROVE  /\ Admitted(p)
             /\ \E t \in DOMAIN planner[p].listed :
                  /\ planner[p].listed[t].status = "proposed"
                  /\ stored[t].status \notin {"absent", "proposed"}
  <2>1. AdmissionIInv /\ AdmissionTypeOK /\ ListedInv(p)
    BY <1>3 DEF GraphIInv, AdmissionIInv
  <2>2. planner[p].pc = "refreshing"
    BY <1>3, <2>1, CauseFacts
  <2>3. PICK t \in DOMAIN planner[p].listed :
          /\ Prospect(t, planner[p].listed) = "promote"
          /\ stored[t].revision # planner[p].listed[t].revision
    BY <1>3, <2>1, CauseFacts
  <2>4. planner[p].listed[t].status = "proposed"
    BY <2>1, <2>2, <2>3, ProspectFacts
  <2>5. stored[t].status \notin {"absent", "proposed"}
    BY <2>1, <2>2, <2>3, <2>4 DEF ListedInv, PlannerAt, Saved
  <2>6. Admitted(p)
    BY <1>3, <2>2, WholeFacts
  <2> HIDE DEF Admitted
  <2> QED
    BY <2>4, <2>5, <2>6
<1>4. ASSUME GraphIInv, [Next]_vars, NEW p \in Proc, planner[p].cause = "none",
             planner'[p].cause = "unknown"
      PROVE  /\ Admitted(p)
             /\ \E t \in DOMAIN planner[p].listed :
                  /\ ~ (ToSet(planner[p].listed[t].dependencies) \subseteq DOMAIN planner[p].listed)
                  /\ planner[p].command = "plan" => planner[p].listed[t].run # planner[p].run
  <2>1. AdmissionTypeOK /\ ListedInv(p) /\ OwnInv(p)
    BY <1>4 DEF GraphIInv, AdmissionIInv
  <2>2. planner[p].pc = "refreshing"
    BY <1>4, <2>1, CauseFacts
  <2>3. PICK t \in DOMAIN planner[p].listed : Prospect(t, planner[p].listed) = "unknown"
    BY <1>4, <2>1, CauseFacts
  <2>4. planner[p].listed[t].dependencies \in Seq(Task)
    BY <2>1, <2>2 DEF ListedInv, PlannerAt, StoredTask
  <2>5. ~ (ToSet(planner[p].listed[t].dependencies) \subseteq DOMAIN planner[p].listed)
    BY <2>3, <2>4, UnknownFacts
  <2>6. planner[p].command = "plan" => planner[p].listed[t].run # planner[p].run
    BY <2>1, <2>2, <2>5 DEF OwnInv
  <2>7. Admitted(p)
    BY <1>4, <2>2, WholeFacts
  <2> HIDE DEF Admitted
  <2> QED
    BY <2>5, <2>6, <2>7
<1> DEFINE Caused ==
      \A p \in Proc :
        LET r == planner[p].run
            batch == planner[p].batch
            listed == planner[p].listed
            raised(cause) == planner[p].cause = "none" /\ planner'[p].cause = cause
            admits == planner[p].command # "dispatch"
        IN  /\ raised("duplicate") => \E t \in Ids(batch) : stored[t].status # "absent"
            /\ raised("inadmissible") =>
                 \/ \E raw \in ToSet(batch) : ~Sound(raw)
                 \/ Dangling(Together(r, batch)) # {}
                 \/ ~Acyclic(Together(r, batch))
            /\ raised("conflict") =>
                 /\ admits => Ids(batch) \subseteq TasksOf(r)
                 /\ \E t \in DOMAIN listed :
                      listed[t].status = "proposed" /\ stored[t].status \notin {"absent", "proposed"}
            /\ raised("unknown") =>
                 /\ admits => Ids(batch) \subseteq TasksOf(r)
                 /\ \E t \in DOMAIN listed :
                      /\ ~ (ToSet(listed[t].dependencies) \subseteq DOMAIN listed)
                      /\ planner[p].command = "plan" => listed[t].run # r
<1>5. GraphIInv /\ [Next]_vars => [Caused]_vars
  BY <1>1, <1>2, <1>3, <1>4
<1> QED
  BY <1>5, GraphInvariance, PTL DEF Spec, RejectedForCause
=============================================================================
