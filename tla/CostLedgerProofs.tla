--------------------------- MODULE CostLedgerProofs ---------------------------
(* For any rules, budget, queue and number of events: no cost is lost in     *)
(* silence, and a complete summary says what the budget saw and what it did  *)
(* not see.                                                                  *)
EXTENDS CostLedger, Integers, SequenceTheorems, FiniteSetTheorems, WellFoundedInduction, TLAPS

-----------------------------------------------------------------------------
(* Sums over finite sets, by induction over their size.                      *)

\* A set of numbers that is not empty has a least one.
LEMMA LeastNumber ==
    ASSUME NEW I \in SUBSET Nat, I # {}
    PROVE  \E x \in I : \A y \in I : x <= y
<1> DEFINE R == {p \in Nat \X Nat : p[1] < p[2]}
<1>1. IsWellFoundedOn(R, Nat)
  BY NatLessThanWellFounded DEF OpToRel
<1>2. \A x, y \in Nat : <<y, x>> \notin R => x <= y
  OBVIOUS
<1> HIDE DEF R
<1>3. \E x \in I : \A y \in I : ~ (<<y, x>> \in R)
  BY <1>1, WFMin
<1> QED BY <1>2, <1>3

\* A set of numbers with 0, and with n + 1 when it has n, has them all.
LEMMA AllNumbers ==
    ASSUME NEW I, 0 \in I, \A n \in Nat : n \in I => n + 1 \in I
    PROVE  \A n \in Nat : n \in I
<1> DEFINE J == {n \in Nat : n \notin I}
<1> SUFFICES ASSUME J # {} PROVE FALSE
  OBVIOUS
<1>1. \E x \in J : \A y \in J : x <= y
  <2>1. J \in SUBSET Nat
    OBVIOUS
  <2> HIDE DEF J
  <2> QED BY <2>1, LeastNumber
<1>2. PICK x \in J : \A y \in J : x <= y
  BY <1>1
<1>3. x \in Nat \ {0} /\ x \notin I
  BY <1>2
<1>4. x - 1 \in Nat /\ x - 1 \in I
  BY <1>2, <1>3
<1>5. (x - 1) + 1 \in I
  BY <1>4
<1> QED BY <1>3, <1>5

Pick(s) == CHOOSE x \in s : TRUE

\* The sums of the sets in D, as FoldSet takes their elements.
IsFold(f, amount, D) ==
    f = [s \in D |-> IF s = {} THEN 0 ELSE f[s \ {Pick(s)}] + Pick(s)[amount]]

Fold(amount, S) == CHOOSE f : IsFold(f, amount, SUBSET S)

LEMMA TotalIsFold ==
    ASSUME NEW amount, NEW S
    PROVE  Total(amount, S) = Fold(amount, S)[S]
BY DEF Total, FoldSet, MapThenFoldSet, Fold, IsFold, Pick

LEMMA AnyIn ==
    ASSUME NEW s, s # {}
    PROVE  Pick(s) \in s
BY DEF Pick

\* A set with one element less.
LEMMA OneLess ==
    ASSUME NEW s, IsFiniteSet(s), NEW x \in s
    PROVE  /\ IsFiniteSet(s \ {x}) /\ Cardinality(s) \in Nat \ {0}
           /\ Cardinality(s \ {x}) = Cardinality(s) - 1
<1>1. IsFiniteSet(s \ {x}) /\ Cardinality(s \ {x}) = Cardinality(s) - 1
  BY FS_RemoveElement
<1>2. Cardinality(s) \in Nat /\ Cardinality(s) # 0
  BY FS_CardinalityType, FS_EmptySet
<1> QED BY <1>1, <1>2

\* The recursion is well-founded: there is such a function.
LEMMA FoldExists ==
    ASSUME NEW amount, NEW S, IsFiniteSet(S)
    PROVE  IsFold(Fold(amount, S), amount, SUBSET S)
<1> DEFINE D(n) == {s \in SUBSET S : Cardinality(s) <= n}
           I == {n \in Nat : \E f : IsFold(f, amount, D(n))}
<1>1. \A s \in SUBSET S : IsFiniteSet(s) /\ Cardinality(s) \in 0 .. Cardinality(S)
  BY FS_Subset, FS_CardinalityType
<1>2. 0 \in I
  <2>1. \A s \in D(0) : s = {}
    BY <1>1, FS_EmptySet
  <2> DEFINE f == [s \in D(0) |-> 0]
  <2>2. IsFold(f, amount, D(0))
    BY <2>1, Zenon DEF IsFold
  <2> QED BY <2>2
<1>3. ASSUME NEW n \in Nat, n \in I PROVE n + 1 \in I
  <2>1. PICK f : IsFold(f, amount, D(n))
    BY <1>3
  <2> DEFINE step(s) == IF s = {} THEN 0 ELSE f[s \ {Pick(s)}] + Pick(s)[amount]
             g == [s \in D(n + 1) |-> step(s)]
  <2>2. ASSUME NEW s \in D(n + 1), s # {} PROVE s \ {Pick(s)} \in D(n)
    <3>1. /\ Pick(s) \in s /\ Cardinality(s \ {Pick(s)}) = Cardinality(s) - 1
          /\ Cardinality(s) \in Nat
      BY <1>1, <2>2, AnyIn, OneLess
    <3> QED BY <2>2, <3>1
  <2>3. D(n) \subseteq D(n + 1)
    BY <1>1
  <2>4. \A s \in D(n) : g[s] = f[s]
    BY <2>1, <2>3 DEF IsFold
  <2>5. \A s \in D(n + 1) : step(s) = IF s = {} THEN 0 ELSE g[s \ {Pick(s)}] + Pick(s)[amount]
    BY <2>2, <2>4
  <2>6. IsFold(g, amount, D(n + 1))
    <3> HIDE DEF D
    <3> QED BY <2>5 DEF IsFold
  <2>7. n + 1 \in Nat
    OBVIOUS
  <2> HIDE DEF g, D
  <2> QED BY <2>6, <2>7
<1>4. Cardinality(S) \in I
  <2>1. Cardinality(S) \in Nat
    BY FS_CardinalityType
  <2> HIDE DEF I
  <2> QED BY <1>2, <1>3, <2>1, AllNumbers
<1>5. D(Cardinality(S)) = SUBSET S
  BY <1>1
<1>6. \E f : IsFold(f, amount, SUBSET S)
  BY <1>4, <1>5
<1> QED BY <1>6 DEF Fold

\* So a sum is that of its chosen element and of the others.
LEMMA FoldStep ==
    ASSUME NEW amount, NEW S, IsFiniteSet(S), NEW s \in SUBSET S
    PROVE  Fold(amount, S)[s] =
              IF s = {} THEN 0 ELSE Fold(amount, S)[s \ {Pick(s)}] + Pick(s)[amount]
<1> DEFINE f == Fold(amount, S)
<1>1. IsFold(f, amount, SUBSET S)
  BY FoldExists
<1> HIDE DEF f
<1>2. f = [t \in SUBSET S |-> IF t = {} THEN 0 ELSE f[t \ {Pick(t)}] + Pick(t)[amount]]
  BY <1>1 DEF IsFold
<1>3. f[s] = IF s = {} THEN 0 ELSE f[s \ {Pick(s)}] + Pick(s)[amount]
  BY <1>2
<1> QED BY <1>3 DEF f

\* A sum does not depend on the larger set that it is taken in.
LEMMA FoldOfSubset ==
    ASSUME NEW amount, NEW S, IsFiniteSet(S), NEW s \in SUBSET S
    PROVE  Fold(amount, S)[s] = Total(amount, s)
<1> DEFINE I == {n \in Nat : \A T \in SUBSET S : \A t \in SUBSET T :
                    Cardinality(t) = n => Fold(amount, T)[t] = Fold(amount, t)[t]}
<1>1. \A t \in SUBSET S : IsFiniteSet(t) /\ Cardinality(t) \in Nat
  BY FS_Subset, FS_CardinalityType
<1>2. 0 \in I
  <2> SUFFICES ASSUME NEW T \in SUBSET S, NEW t \in SUBSET T, Cardinality(t) = 0
               PROVE  Fold(amount, T)[t] = Fold(amount, t)[t]
    OBVIOUS
  <2>1. t = {} /\ IsFiniteSet(T) /\ IsFiniteSet(t)
    BY <1>1, FS_EmptySet
  <2> QED BY <2>1, FoldStep
<1>3. ASSUME NEW n \in Nat, n \in I PROVE n + 1 \in I
  <2> SUFFICES ASSUME NEW T \in SUBSET S, NEW t \in SUBSET T, Cardinality(t) = n + 1
               PROVE  Fold(amount, T)[t] = Fold(amount, t)[t]
    OBVIOUS
  <2> DEFINE c == Pick(t)  r == t \ {c}
  <2>1. IsFiniteSet(T) /\ IsFiniteSet(t)
    BY <1>1
  <2>2. t # {}
    BY FS_EmptySet
  <2>3. c \in t /\ Cardinality(r) = n
    <3>1. c \in t
      BY <2>2, AnyIn
    <3>2. Cardinality(r) = Cardinality(t) - 1
      BY <2>1, <3>1, OneLess
    <3> QED BY <3>1, <3>2
  <2>4. Fold(amount, T)[t] = Fold(amount, T)[r] + c[amount]
    BY <2>1, <2>2, FoldStep
  <2>5. Fold(amount, t)[t] = Fold(amount, t)[r] + c[amount]
    BY <2>1, <2>2, FoldStep
  <2>6. r \in SUBSET T /\ r \in SUBSET t /\ t \in SUBSET S
    OBVIOUS
  <2> HIDE DEF r
  <2>7. Fold(amount, T)[r] = Fold(amount, r)[r] /\ Fold(amount, t)[r] = Fold(amount, r)[r]
    BY <1>3, <2>3, <2>6
  <2> QED BY <2>4, <2>5, <2>7
<1> HIDE DEF I
<1>4. Cardinality(s) \in I
  BY <1>1, <1>2, <1>3, AllNumbers
<1> QED BY <1>4, TotalIsFold DEF I

\* What a sum is, from the element that is taken first.
LEMMA TotalStep ==
    ASSUME NEW amount, NEW s, IsFiniteSet(s)
    PROVE  /\ s = {} => Total(amount, s) = 0
           /\ s # {} => Total(amount, s) = Total(amount, s \ {Pick(s)}) + Pick(s)[amount]
<1>1. s \in SUBSET s /\ s \ {Pick(s)} \in SUBSET s
  OBVIOUS
<1>2. Fold(amount, s)[s] =
         IF s = {} THEN 0 ELSE Fold(amount, s)[s \ {Pick(s)}] + Pick(s)[amount]
  BY <1>1, FoldStep
<1>3. Fold(amount, s)[s \ {Pick(s)}] = Total(amount, s \ {Pick(s)})
  BY <1>1, FoldOfSubset
<1> QED BY <1>2, <1>3, TotalIsFold

LEMMA TotalType ==
    ASSUME NEW amount, NEW S, IsFiniteSet(S), \A e \in S : e[amount] \in Nat
    PROVE  Total(amount, S) \in Nat
<1> DEFINE I == {n \in Nat : \A t \in SUBSET S : Cardinality(t) = n => Total(amount, t) \in Nat}
<1>1. \A t \in SUBSET S : IsFiniteSet(t) /\ Cardinality(t) \in Nat
  BY FS_Subset, FS_CardinalityType
<1>2. 0 \in I
  <2> SUFFICES ASSUME NEW t \in SUBSET S, Cardinality(t) = 0 PROVE Total(amount, t) \in Nat
    OBVIOUS
  <2>1. t = {} /\ IsFiniteSet(t)
    BY <1>1, FS_EmptySet
  <2>2. Total(amount, t) = 0
    BY <2>1, TotalStep
  <2> QED BY <2>2
<1>3. ASSUME NEW n \in Nat, n \in I PROVE n + 1 \in I
  <2> SUFFICES ASSUME NEW t \in SUBSET S, Cardinality(t) = n + 1 PROVE Total(amount, t) \in Nat
    OBVIOUS
  <2> DEFINE c == Pick(t)  r == t \ {c}
  <2>1. t # {} /\ IsFiniteSet(t)
    BY <1>1, FS_EmptySet
  <2>2. c \in t
    BY <2>1, AnyIn
  <2>3. Cardinality(r) = Cardinality(t) - 1
    BY <2>1, <2>2, OneLess
  <2>4. Total(amount, t) = Total(amount, r) + c[amount]
    BY <2>1, TotalStep
  <2>5. r \in SUBSET S /\ c[amount] \in Nat /\ Cardinality(r) = n
    BY <2>2, <2>3
  <2> HIDE DEF r, c
  <2>6. Total(amount, r) \in Nat
    BY <1>3, <2>5
  <2> QED BY <2>4, <2>5, <2>6
<1> HIDE DEF I
<1>4. Cardinality(S) \in I
  BY <1>1, <1>2, <1>3, AllNumbers
<1> QED BY <1>4 DEF I

\* The order in which the elements are taken makes no difference.
LEMMA TotalTakes ==
    ASSUME NEW amount, NEW S, IsFiniteSet(S), \A e \in S : e[amount] \in Nat, NEW x \in S
    PROVE  Total(amount, S) = Total(amount, S \ {x}) + x[amount]
<1> DEFINE I == {n \in Nat : \A t \in SUBSET S : \A y \in t :
                    Cardinality(t) = n => Total(amount, t) = Total(amount, t \ {y}) + y[amount]}
<1>1. \A t \in SUBSET S : IsFiniteSet(t) /\ Cardinality(t) \in Nat
  BY FS_Subset, FS_CardinalityType
<1>2. 0 \in I
  BY <1>1, FS_EmptySet
<1>3. ASSUME NEW n \in Nat, n \in I PROVE n + 1 \in I
  <2> SUFFICES ASSUME NEW t \in SUBSET S, NEW y \in t, Cardinality(t) = n + 1
               PROVE  Total(amount, t) = Total(amount, t \ {y}) + y[amount]
    OBVIOUS
  <2> DEFINE c == Pick(t)
  <2>1. t # {} /\ IsFiniteSet(t)
    BY <1>1
  <2>2. c \in t
    BY <2>1, AnyIn
  <2>3. Total(amount, t) = Total(amount, t \ {c}) + c[amount]
    BY <2>1, TotalStep
  <2> HIDE DEF c
  <2>4. CASE y = c
    BY <2>3, <2>4
  <2>5. CASE y # c
    <3> DEFINE r == t \ {c}  q == t \ {y}  p == (t \ {c}) \ {y}
    <3>1. /\ Cardinality(r) = n /\ Cardinality(q) = n
          /\ r \in SUBSET S /\ q \in SUBSET S /\ y \in r /\ c \in q
          /\ r \ {y} = p /\ q \ {c} = p /\ p \in SUBSET S
      <4>1. Cardinality(r) = Cardinality(t) - 1 /\ Cardinality(q) = Cardinality(t) - 1
        BY <2>1, <2>2, OneLess
      <4> QED BY <2>2, <2>5, <4>1
    <3> HIDE DEF r, q, p
    <3>2. Total(amount, r) = Total(amount, p) + y[amount]
      BY <1>3, <3>1
    <3>3. Total(amount, q) = Total(amount, p) + c[amount]
      BY <1>3, <3>1
    <3>4. Total(amount, p) \in Nat
      <4>1. IsFiniteSet(p) /\ \A e \in p : e[amount] \in Nat
        BY <1>1, <3>1
      <4> QED BY <4>1, TotalType
    <3>5. y[amount] \in Nat /\ c[amount] \in Nat
      BY <2>2
    <3>6. Total(amount, t) = Total(amount, r) + c[amount]
      BY <2>3 DEF r
    <3>7. Total(amount, t) = Total(amount, q) + y[amount]
      BY <3>2, <3>3, <3>4, <3>5, <3>6
    <3> QED BY <3>7 DEF q
  <2> QED BY <2>4, <2>5
<1> HIDE DEF I
<1>4. Cardinality(S) \in I
  BY <1>1, <1>2, <1>3, AllNumbers
<1> QED BY <1>4 DEF I

\* One more event adds its amount.
LEMMA TotalAdds ==
    ASSUME NEW amount, NEW S, IsFiniteSet(S), \A e \in S : e[amount] \in Nat,
           NEW x, x \notin S, x[amount] \in Nat
    PROVE  /\ Total(amount, S \cup {x}) = Total(amount, S) + x[amount]
           /\ IsFiniteSet(S \cup {x})
<1> DEFINE U == S \cup {x}
<1>1. IsFiniteSet(U)
  BY FS_AddElement
<1>2. x \in U /\ U \ {x} = S /\ \A e \in U : e[amount] \in Nat
  OBVIOUS
<1> HIDE DEF U
<1>3. Total(amount, U) = Total(amount, U \ {x}) + x[amount]
  BY <1>1, <1>2, TotalTakes
<1> QED BY <1>1, <1>2, <1>3 DEF U

-----------------------------------------------------------------------------
(* Sequences, whatever their elements are.                                   *)

IsList(s) == \E S : s \in Seq(S)

LEMMA AppendIsList ==
    ASSUME NEW s, IsList(s), NEW e
    PROVE  /\ IsList(Append(s, e)) /\ DOMAIN s = 1 .. Len(s) /\ Len(s) \in Nat
           /\ Len(Append(s, e)) = Len(s) + 1 /\ DOMAIN Append(s, e) = 1 .. Len(s) + 1
           /\ Append(s, e)[Len(s) + 1] = e
           /\ \A i \in 1 .. Len(s) : Append(s, e)[i] = s[i]
           /\ Range(Append(s, e)) = Range(s) \cup {e}
<1>1. PICK S : s \in Seq(S)
  BY DEF IsList
<1>2. s \in Seq(S \cup {e})
  BY <1>1, SeqMonotonic
<1>3. Append(s, e) \in Seq(S \cup {e})
  BY <1>2
<1>4. /\ DOMAIN s = 1 .. Len(s) /\ Len(s) \in Nat
      /\ Len(Append(s, e)) = Len(s) + 1 /\ DOMAIN Append(s, e) = 1 .. Len(s) + 1
      /\ Append(s, e)[Len(s) + 1] = e
      /\ \A i \in 1 .. Len(s) : Append(s, e)[i] = s[i]
  BY <1>2, <1>3
<1>5. Range(Append(s, e)) = Range(s) \cup {e}
  <2> DEFINE t == Append(s, e)
  <2>1. \A i \in DOMAIN t : i = Len(s) + 1 \/ i \in DOMAIN s
    BY <1>4
  <2>2. DOMAIN s \subseteq DOMAIN t /\ Len(s) + 1 \in DOMAIN t
    BY <1>4
  <2>3. \A i \in DOMAIN s : t[i] = s[i]
    BY <1>4
  <2>4. t[Len(s) + 1] = e
    BY <1>4
  <2> HIDE DEF t
  <2>5. Range(t) = Range(s) \cup {e}
    BY <2>1, <2>2, <2>3, <2>4 DEF Range
  <2> QED BY <2>5 DEF t
<1> QED BY <1>3, <1>4, <1>5 DEF IsList

LEMMA TailIsList ==
    ASSUME NEW s, IsList(s), s # <<>>
    PROVE  /\ IsList(Tail(s)) /\ Len(s) \in Nat \ {0} /\ Len(Tail(s)) = Len(s) - 1
           /\ Head(s) \in Range(s) /\ Range(s) = {Head(s)} \cup Range(Tail(s))
<1>1. PICK S : s \in Seq(S)
  BY DEF IsList
<1>2. /\ Tail(s) \in Seq(S) /\ Len(s) \in Nat \ {0} /\ DOMAIN s = 1 .. Len(s) /\ Head(s) = s[1]
      /\ DOMAIN Tail(s) = 1 .. Len(s) - 1 /\ Len(Tail(s)) = Len(s) - 1
      /\ \A i \in 1 .. Len(s) - 1 : Tail(s)[i] = s[i + 1]
  BY <1>1
<1>3. Head(s) \in Range(s)
  BY <1>2 DEF Range
<1>4. ASSUME NEW i \in 1 .. Len(s), i # 1 PROVE s[i] \in Range(Tail(s))
  <2>1. i - 1 \in 1 .. Len(s) - 1 /\ (i - 1) + 1 = i
    BY <1>2, <1>4
  <2>2. Tail(s)[i - 1] = s[i]
    BY <1>2, <2>1
  <2> QED BY <1>2, <2>1, <2>2 DEF Range
<1>5. ASSUME NEW i \in 1 .. Len(s) - 1 PROVE Tail(s)[i] \in Range(s)
  <2>1. i + 1 \in 1 .. Len(s)
    BY <1>2
  <2> QED BY <1>2, <2>1 DEF Range
<1>6. Range(s) = {Head(s)} \cup Range(Tail(s))
  BY <1>2, <1>3, <1>4, <1>5 DEF Range
<1> QED BY <1>2, <1>3, <1>6 DEF IsList

LEMMA EmptyIsList ==
    ASSUME NEW s, s = <<>>
    PROVE  IsList(s) /\ Range(s) = {} /\ Len(s) = 0
<1>1. s \in Seq({}) /\ Len(s) = 0 /\ DOMAIN s = {}
  OBVIOUS
<1>2. Range(s) = {}
  BY <1>1, Zenon DEF Range
<1> QED BY <1>1, <1>2 DEF IsList

LEMMA OneIsList ==
    ASSUME NEW e, NEW s, s = <<e>>
    PROVE  IsList(s) /\ Range(s) = {e} /\ Len(s) = 1
<1>1. s \in Seq({e}) /\ DOMAIN s = {1} /\ s[1] = e /\ Len(s) = 1
  OBVIOUS
<1>2. Range(s) = {e}
  BY <1>1, Zenon DEF Range
<1> QED BY <1>1, <1>2 DEF IsList

-----------------------------------------------------------------------------
(* Where the events are.                                                     *)

Events == Range(usages)

\* The events are numbered as they come, and their amounts are numbers.
EventsNumbered ==
    /\ IsList(usages) /\ IsList(pending) /\ IsList(notices)
    /\ \A i \in DOMAIN usages :
          usages[i].id = i /\ usages[i].estimate \in Nat /\ usages[i].wasted \in Nat

Somewhere(e) ==
    \/ e \in rows \/ e.id \in reported \/ e.id \in Range(notices)
    \/ e \in Range(pending) \/ appender = InHand(e)

\* Only events become rows, and each is somewhere.
Accounted ==
    /\ rows \subseteq Events
    /\ appender.doing = "append" => appender.event \in Events
    /\ \A e \in Range(pending) : e = Sentinel \/ e \in Events
    /\ \A e \in Events : Somewhere(e)
    /\ \A row, other \in rows : row.key = other.key => row = other

\* How far the recorder's thread is, at each stage of the end.
Phases ==
    /\ closer \in {"open", "flushing", "joining", "yielding", "done"}
    /\ appender.doing \in {"none", "idle", "append", "dead"}
    /\ Len(pending) <= CostRoom
    /\ appender.doing = "none" => pending = <<>> /\ notices = <<>>
    /\ ~Closed => appender.doing # "dead" /\ Sentinel \notin Range(pending)
    /\ closer = "joining" =>
          \/ appender.doing = "idle" /\ pending = <<Sentinel>>
          \/ appender.doing = "dead" /\ pending = <<>>
    /\ closer \in {"yielding", "done"} => appender.doing \in {"none", "dead"} /\ pending = <<>>

\* A notice that is still to be run when the session is over is of a late event.
LateNotices ==
    closer \in {"yielding", "done"} => \A e \in Events : e.id \in Range(notices) => e.late

\* The summary is of the rows that there are.
Summarised ==
    /\ closer # "done" => summary = {}
    /\ \A s \in summary :
          s.estimate = Total("estimate", rows) /\ s.wasted = Total("wasted", rows)

LedgerInv == EventsNumbered /\ Accounted /\ Phases /\ LateNotices /\ Summarised

\* What every event of the session says.
LEMMA EventFields ==
    ASSUME NEW service, NEW operation, NEW key, NEW price, NEW e,
           e = Event(service, operation, key, price)
    PROVE  /\ e.id = Len(usages) + 1 /\ e.estimate = price.estimate /\ e.wasted = price.wasted
           /\ Closed => e.late
           /\ e.known = price.known /\ e.eur = price.eur
BY DEF Event

IsNext(e) ==
    /\ e.id = Len(usages) + 1 /\ e.estimate \in Nat /\ e.wasted \in Nat
    /\ Closed => e.late

LEMMA RecordsKeep ==
    ASSUME LedgerInv, NEW e, IsNext(e), Records(e)
    PROVE  LedgerInv' /\ e \notin Events /\ Events' = Events \cup {e}
<1>1. /\ usages' = Append(usages, e) /\ UNCHANGED <<rows, closer, summary>>
      /\ Closed' = Closed
  BY DEF Records, Closed
<1>2. /\ IsList(usages') /\ DOMAIN usages = 1 .. Len(usages) /\ Len(usages) \in Nat
      /\ DOMAIN usages' = 1 .. Len(usages) + 1 /\ usages'[Len(usages) + 1] = e
      /\ \A i \in 1 .. Len(usages) : usages'[i] = usages[i]
      /\ Events' = Events \cup {e}
  BY <1>1, AppendIsList DEF LedgerInv, EventsNumbered, Events
<1>3. \A d \in Events : d.id \in 1 .. Len(usages)
  BY <1>2 DEF LedgerInv, EventsNumbered, Events, Range
<1>4. e \notin Events /\ e # Sentinel
  BY <1>2, <1>3 DEF IsNext, Sentinel
<1>5. \A i \in DOMAIN usages' :
          usages'[i].id = i /\ usages'[i].estimate \in Nat /\ usages'[i].wasted \in Nat
  BY <1>2 DEF LedgerInv, EventsNumbered, IsNext
<1>6. /\ IsList(pending) /\ IsList(notices) /\ Len(pending) \in Nat
      /\ CostRoom \in Nat \ {0}
  BY AppendIsList, CostConstants DEF LedgerInv, EventsNumbered
<1>7. CASE /\ ~Closed /\ ~Full /\ pending' = Append(pending, e)
           /\ UNCHANGED <<notices, reported>>
  <2>1. /\ IsList(pending') /\ Range(pending') = Range(pending) \cup {e}
        /\ Len(pending') = Len(pending) + 1
    BY <1>6, <1>7, AppendIsList
  <2>2. \/ appender.doing # "none" /\ appender' = appender
        \/ appender.doing = "none" /\ appender' = Thread("idle")
    BY <1>7 DEF Records
  <2>3. EventsNumbered'
    BY <1>2, <1>5, <1>7, <2>1 DEF LedgerInv, EventsNumbered
  <2>4. Accounted'
    <3>1. \A d \in Events : Somewhere(d) => Somewhere(d)'
      BY <1>1, <1>7, <2>1, <2>2 DEF Somewhere, InHand, Thread
    <3>2. Somewhere(e)'
      BY <2>1 DEF Somewhere
    <3>3. appender'.doing = "append" => appender'.event \in Events
      BY <2>2 DEF Thread, LedgerInv, Accounted
    <3> QED BY <1>1, <1>2, <2>1, <3>1, <3>2, <3>3 DEF LedgerInv, Accounted
  <2>5. Phases'
    <3>1. appender'.doing \in {"idle", "append", "dead"}
      BY <2>2 DEF Thread, LedgerInv, Phases
    <3>2. appender'.doing # "dead"
      BY <1>7, <2>2 DEF Thread, LedgerInv, Phases
    <3>3. Len(pending') <= CostRoom
      BY <1>6, <1>7, <2>1 DEF Full
    <3>4. closer \in {"open", "flushing"}
      BY <1>7 DEF Closed
    <3> QED BY <1>1, <1>4, <1>7, <2>1, <3>1, <3>2, <3>3, <3>4 DEF LedgerInv, Phases
  <2>6. LateNotices' /\ Summarised'
    BY <1>1, <1>7 DEF LedgerInv, LateNotices, Summarised, Closed
  <2> QED BY <1>2, <1>4, <2>3, <2>4, <2>5, <2>6 DEF LedgerInv
<1>8. CASE /\ Closed /\ appender.doing = "none" /\ reported' = reported \cup {e.id}
           /\ UNCHANGED <<pending, notices>>
  <2>1. appender' = appender
    BY <1>8 DEF Records
  <2>2. EventsNumbered'
    BY <1>2, <1>5, <1>8 DEF LedgerInv, EventsNumbered
  <2>3. Accounted'
    <3>1. \A d \in Events : Somewhere(d) => Somewhere(d)'
      BY <1>1, <1>8, <2>1 DEF Somewhere
    <3>2. Somewhere(e)'
      BY <1>8 DEF Somewhere
    <3> QED BY <1>1, <1>2, <1>8, <2>1, <3>1, <3>2 DEF LedgerInv, Accounted
  <2>4. Phases'
    BY <1>1, <1>8, <2>1 DEF LedgerInv, Phases
  <2>5. LateNotices'
    BY <1>1, <1>2, <1>8 DEF LedgerInv, LateNotices, IsNext
  <2>6. Summarised'
    BY <1>1 DEF LedgerInv, Summarised
  <2> QED BY <1>2, <1>4, <2>2, <2>3, <2>4, <2>5, <2>6 DEF LedgerInv
<1>9. CASE /\ (Full /\ ~Closed) \/ (Closed /\ appender.doing # "none")
           /\ notices' = Append(notices, e.id) /\ UNCHANGED <<pending, reported>>
  <2>1. appender.doing # "none"
    BY <1>6, <1>9, EmptyIsList DEF Full, LedgerInv, Phases
  <2>2. appender' = appender
    BY <2>1 DEF Records
  <2>3. IsList(notices') /\ Range(notices') = Range(notices) \cup {e.id}
    BY <1>6, <1>9, AppendIsList
  <2>4. EventsNumbered'
    BY <1>2, <1>5, <1>9, <2>3 DEF LedgerInv, EventsNumbered
  <2>5. Accounted'
    <3>1. \A d \in Events : Somewhere(d) => Somewhere(d)'
      BY <1>1, <1>9, <2>2, <2>3 DEF Somewhere
    <3>2. Somewhere(e)'
      BY <2>3 DEF Somewhere
    <3> QED BY <1>1, <1>2, <1>9, <2>2, <3>1, <3>2 DEF LedgerInv, Accounted
  <2>6. Phases'
    BY <1>1, <1>9, <2>1, <2>2 DEF LedgerInv, Phases
  <2>7. LateNotices'
    <3>1. \A d \in Events : d.id # e.id
      BY <1>2, <1>3 DEF IsNext
    <3>2. closer \in {"yielding", "done"} => e.late
      BY DEF IsNext, Closed
    <3> QED BY <1>1, <1>2, <2>3, <3>1, <3>2 DEF LedgerInv, LateNotices
  <2>8. Summarised'
    BY <1>1 DEF LedgerInv, Summarised
  <2> QED BY <1>2, <1>4, <2>4, <2>5, <2>6, <2>7, <2>8 DEF LedgerInv
<1> QED BY <1>7, <1>8, <1>9 DEF Records

\* The thread takes the next event, or the end marker.
LEMMA TakeKeeps ==
    ASSUME LedgerInv, TakeUsage
    PROVE  LedgerInv'
<1> DEFINE h == Head(pending)
<1>1. /\ appender.doing = "idle" /\ pending # <<>> /\ pending' = Tail(pending)
      /\ UNCHANGED <<usages, notices, reported, rows, closer, summary>>
      /\ appender' = IF h = Sentinel THEN Thread("dead") ELSE InHand(h)
  BY DEF TakeUsage
<1>2. IsList(pending)
  BY DEF LedgerInv, EventsNumbered
<1>3. /\ IsList(pending') /\ Len(pending) \in Nat \ {0} /\ Len(pending') = Len(pending) - 1
      /\ h \in Range(pending) /\ Range(pending) = {h} \cup Range(pending')
  BY <1>1, <1>2, TailIsList
<1> HIDE DEF h
<1>4. Events' = Events /\ Closed' = Closed
  BY <1>1 DEF Events, Closed
<1>5. EventsNumbered'
  BY <1>1, <1>3 DEF LedgerInv, EventsNumbered
<1>6. \/ h = Sentinel /\ appender'.doing = "dead"
      \/ h # Sentinel /\ appender'.doing = "append" /\ appender'.event = h /\ appender' = InHand(h)
  BY <1>1 DEF Thread, InHand
<1>7. Accounted'
  <2>1. h # Sentinel => h \in Events
    BY <1>3 DEF LedgerInv, Accounted
  <2>2. \A d \in Events : d # Sentinel
    <3>1. IsList(usages) /\ DOMAIN usages = 1 .. Len(usages)
      BY AppendIsList DEF LedgerInv, EventsNumbered
    <3>2. \A i \in DOMAIN usages : usages[i].id # 0
      BY <3>1 DEF LedgerInv, EventsNumbered
    <3>3. Sentinel.id = 0
      BY DEF Sentinel
    <3> QED BY <3>2, <3>3 DEF Events, Range
  <2>3. \A d \in Events : appender # InHand(d)
    BY <1>1 DEF InHand
  <2>4. \A d \in Events : Somewhere(d) => Somewhere(d)'
    BY <1>1, <1>3, <1>6, <2>2, <2>3 DEF Somewhere
  <2> QED BY <1>1, <1>3, <1>4, <1>6, <2>1, <2>4 DEF LedgerInv, Accounted
<1>8. Phases'
  <2>1. closer \in {"open", "flushing", "joining"}
    BY <1>1 DEF LedgerInv, Phases
  <2>2. Len(pending') <= CostRoom
    BY <1>3, CostConstants DEF LedgerInv, Phases
  <2>3. CASE closer \in {"open", "flushing"}
    <3>1. h # Sentinel /\ Sentinel \notin Range(pending')
      BY <1>3, <2>3 DEF LedgerInv, Phases, Closed
    <3> QED BY <1>1, <1>6, <2>2, <2>3, <3>1 DEF LedgerInv, Phases, Closed
  <2>4. CASE closer = "joining"
    <3>1. pending = <<Sentinel>>
      BY <1>1, <2>4 DEF LedgerInv, Phases
    <3>2. h = Sentinel /\ pending' = <<>>
      BY <1>1, <3>1 DEF h
    <3> QED BY <1>1, <1>6, <2>2, <2>4, <3>2 DEF LedgerInv, Phases, Closed
  <2> QED BY <2>1, <2>3, <2>4
<1>9. LateNotices' /\ Summarised'
  BY <1>1, <1>4 DEF LedgerInv, LateNotices, Summarised
<1> QED BY <1>5, <1>7, <1>8, <1>9 DEF LedgerInv

\* The event in hand becomes a row, or a notice.
LEMMA AppendKeeps ==
    ASSUME LedgerInv, AppendRow
    PROVE  LedgerInv'
<1> DEFINE e == appender.event
<1>1. /\ appender.doing = "append" /\ appender'.doing = "idle" /\ appender' = Thread("idle")
      /\ UNCHANGED <<usages, pending, reported, closer, summary>>
      /\ \/ IsNew(e) /\ rows' = rows \cup {e} /\ UNCHANGED notices
         \/ notices' = Append(notices, e.id) /\ UNCHANGED rows
  BY DEF AppendRow, Inserted, Thread
<1>2. e \in Events /\ Events' = Events /\ Closed' = Closed
  BY <1>1 DEF LedgerInv, Accounted, Events, Closed
<1>3. ~Closed
  BY <1>1 DEF LedgerInv, Phases, Closed
<1>4. \A d \in Events : appender = InHand(d) => d = e
  BY DEF InHand
<1> HIDE DEF e
<1>5. IsList(notices') /\ Range(notices) \subseteq Range(notices')
      /\ (rows' = rows => e.id \in Range(notices') \/ e \in rows)
      /\ (rows' = rows \/ (IsNew(e) /\ rows' = rows \cup {e}))
  <2>1. IsList(notices)
    BY DEF LedgerInv, EventsNumbered
  <2>2. CASE notices' = Append(notices, e.id) /\ UNCHANGED rows
    BY <2>1, <2>2, AppendIsList
  <2>3. CASE IsNew(e) /\ rows' = rows \cup {e} /\ UNCHANGED notices
    BY <2>1, <2>3
  <2> QED BY <1>1, <2>2, <2>3
<1>6. EventsNumbered'
  BY <1>1, <1>5 DEF LedgerInv, EventsNumbered
<1>7. Accounted'
  <2>1. e \in rows' \/ e.id \in Range(notices')
    BY <1>5
  <2>2. \A d \in Events : Somewhere(d) => Somewhere(d)'
    BY <1>1, <1>4, <1>5, <2>1 DEF Somewhere
  <2>3. \A row, other \in rows' : row.key = other.key => row = other
    BY <1>5 DEF LedgerInv, Accounted, IsNew
  <2> QED BY <1>1, <1>2, <1>5, <2>2, <2>3 DEF LedgerInv, Accounted
<1>8. Phases'
  BY <1>1, <1>2, <1>3 DEF LedgerInv, Phases, Closed
<1>9. LateNotices' /\ Summarised'
  BY <1>1, <1>3 DEF LedgerInv, LateNotices, Summarised, Closed
<1> QED BY <1>6, <1>7, <1>8, <1>9 DEF LedgerInv

\* The callbacks report what they were told.
LEMMA NoticesKeep ==
    ASSUME LedgerInv, UNCHANGED <<usages, pending, appender, rows, summary>>,
           reported' = reported \cup Range(notices), notices' = <<>>,
           \/ UNCHANGED closer
           \/ closer = "joining" /\ appender.doing = "dead" /\ closer' = "yielding"
    PROVE  LedgerInv'
<1>1. IsList(notices') /\ Range(notices') = {}
  BY EmptyIsList
<1>2. Events' = Events
  BY DEF Events
<1>3. EventsNumbered'
  BY <1>1 DEF LedgerInv, EventsNumbered
<1>4. Accounted'
  <2>1. \A d \in Events : Somewhere(d) => Somewhere(d)'
    BY <1>1 DEF Somewhere
  <2> QED BY <1>2, <2>1 DEF LedgerInv, Accounted
<1>5. Phases'
  BY DEF LedgerInv, Phases, Closed
<1>6. LateNotices' /\ Summarised'
  BY <1>1 DEF LedgerInv, LateNotices, Summarised
<1> QED BY <1>3, <1>4, <1>5, <1>6 DEF LedgerInv

\* The stages of the end.
LEMMA CloseKeeps ==
    ASSUME LedgerInv, StartClose \/ StopRecorder \/ SaveSummary
    PROVE  LedgerInv'
<1>1. /\ UNCHANGED <<usages, rows, appender, notices, reported>>
      /\ Events' = Events
  BY DEF StartClose, StopRecorder, SaveSummary, Closes, Events
<1>2. CASE StartClose
  <2>1. closer = "open" /\ closer' = "flushing" /\ UNCHANGED <<pending, summary>>
    BY <1>2 DEF StartClose, Closes
  <2>2. Accounted'
    BY <1>1, <2>1 DEF LedgerInv, Accounted, Somewhere
  <2> QED BY <1>1, <2>1, <2>2
          DEF LedgerInv, EventsNumbered, Phases, Closed, LateNotices, Summarised
<1>3. CASE StopRecorder
  <2>1. /\ closer = "flushing" /\ pending = <<>> /\ appender.doing # "append" /\ UNCHANGED summary
        /\ closer' = IF appender.doing = "none" THEN "yielding" ELSE "joining"
        /\ pending' = IF appender.doing = "none" THEN <<>> ELSE <<Sentinel>>
    BY <1>3 DEF StopRecorder, Closes
  <2>2. appender.doing \in {"none", "idle"}
    BY <2>1 DEF LedgerInv, Phases, Closed
  <2>3. IsList(pending') /\ Len(pending') \in 0 .. 1 /\ Range(pending') \subseteq {Sentinel}
    BY <2>1, EmptyIsList, OneIsList
  <2>4. Range(pending) = {}
    BY <2>1, EmptyIsList
  <2>5. Accounted'
    <3>1. \A d \in Events : Somewhere(d) => Somewhere(d)'
      BY <1>1, <2>4 DEF Somewhere
    <3> QED BY <1>1, <2>3, <3>1 DEF LedgerInv, Accounted
  <2>6. Phases'
    BY <1>1, <2>1, <2>2, <2>3, CostConstants DEF LedgerInv, Phases, Closed
  <2>7. LateNotices'
    <3>1. closer' = "yielding" => notices = <<>>
      BY <2>1 DEF LedgerInv, Phases
    <3>2. closer' = "yielding" => Range(notices') = {}
      BY <1>1, <3>1, EmptyIsList
    <3> QED BY <2>1, <3>2 DEF LateNotices
  <2>8. EventsNumbered' /\ Summarised'
    BY <1>1, <2>1, <2>3 DEF LedgerInv, EventsNumbered, Summarised
  <2> QED BY <2>5, <2>6, <2>7, <2>8 DEF LedgerInv
<1>4. CASE SaveSummary
  <2>1. /\ closer = "yielding" /\ closer' = "done" /\ UNCHANGED pending
        /\ summary' \in {{}, {Aggregated}}
    BY <1>4 DEF SaveSummary, Closes
  <2>2. Accounted'
    BY <1>1, <2>1 DEF LedgerInv, Accounted, Somewhere
  <2>3. /\ Aggregated.estimate = Total("estimate", rows)
        /\ Aggregated.wasted = Total("wasted", rows)
    BY DEF Aggregated
  <2>4. \A s \in summary' : s = Aggregated
    BY <2>1
  <2>5. Summarised'
    BY <1>1, <2>1, <2>3, <2>4 DEF Summarised
  <2> QED BY <1>1, <2>1, <2>2, <2>5 DEF LedgerInv, EventsNumbered, Phases, Closed, LateNotices
<1> QED BY <1>2, <1>3, <1>4

-----------------------------------------------------------------------------
(* What they cost.                                                           *)

\* The events that the budget never sees.
Foreign == {e \in Events : ~e.eur}

\* The budget knows what is estimated in its currency, and no more is wasted than
\* what has been spent, in any, on speech that was played to its end.
SumInv ==
    /\ {"response", "segment", "failed", "told", "speech", "total", "warned"} \subseteq DOMAIN observer
    /\ IsFiniteSet(Events) /\ observer.speech \subseteq Events
    /\ observer.total \in Nat
    /\ Total("estimate", Events) = observer.total + Total("estimate", Foreign)
    /\ Total("wasted", Events) + Total("estimate", observer.speech) <= Total("estimate", Events)

\* A share of a cost is never more than the cost.
LEMMA SharesBound ==
    ASSUME NEW cost \in Nat, NEW unheard \in 0 .. Samples
    PROVE  \A w \in Shares(cost, unheard) : w \in 0 .. cost
<1> DEFINE a == cost * unheard  q == a \div Samples  r == a % Samples
<1>1. Samples \in Nat \ {0} /\ unheard \in Nat /\ unheard <= Samples
  BY CostConstants
<1>2. a \in Nat /\ a <= cost * Samples
  BY <1>1
<1> HIDE DEF a
<1>3. q \in Nat /\ r \in 0 .. Samples - 1 /\ a = Samples * q + r
  BY <1>1, <1>2
<1> HIDE DEF q, r
<1>4. q <= cost
  <2> SUFFICES ASSUME q >= cost + 1 PROVE FALSE
    BY <1>3
  <2>1. Samples * q >= Samples * (cost + 1)
    BY <1>1, <1>3
  <2>2. Samples * (cost + 1) = cost * Samples + Samples
    BY <1>1
  <2>3. cost * Samples \in Nat /\ Samples * q \in Nat
    BY <1>1, <1>3
  <2> QED BY <1>1, <1>2, <1>3, <2>1, <2>2, <2>3
<1>5. r > 0 => q + 1 <= cost
  <2> SUFFICES ASSUME r > 0, q = cost PROVE FALSE
    BY <1>3, <1>4
  <2>1. Samples * q = cost * Samples /\ cost * Samples \in Nat
    BY <1>1
  <2> QED BY <1>2, <1>3, <2>1
<1>6. Shares(cost, unheard) =
         {w \in {q, q + 1} : IF w = q THEN 2 * r <= Samples ELSE 2 * r >= Samples}
  BY DEF Shares, a, q, r
<1>7. ASSUME NEW w \in Shares(cost, unheard)
      PROVE  w = q \/ (w = q + 1 /\ r > 0)
  BY <1>1, <1>3, <1>6
<1> QED BY <1>3, <1>4, <1>5, <1>7

\* What a price is made of.
LEMMA PriceFields ==
    ASSUME NEW known, NEW eur, NEW estimate, NEW actual, NEW wasted, NEW p,
           p = Price(known, eur, estimate, actual, wasted)
    PROVE  p.known = known /\ p.estimate = estimate /\ p.wasted = wasted
BY DEF Price

LEMMA UnpricedFields ==
    ASSUME NEW actual, NEW wasted
    PROVE  Unpriced(actual, wasted).estimate = 0 /\ Unpriced(actual, wasted).wasted = wasted
BY DEF Price, Unpriced

LEMMA PricedIs ==
    ASSUME NEW service
    PROVE  /\ Priced(service, 1).estimate \in Nat /\ Priced(service, 1).wasted = 0
           /\ ~Priced(service, 1).known => Priced(service, 1).estimate = 0
<1> DEFINE rule == CHOOSE r \in RuleFor(service) : TRUE
           cost == 1 * rule.rate
           p == Priced(service, 1)
<1>1. RuleFor(service) \subseteq Rules
  BY DEF RuleFor
<1>2. RuleFor(service) # {} => cost \in Nat
  <2>1. RuleFor(service) # {} => rule \in Rules
    BY <1>1
  <2> HIDE DEF rule
  <2> QED BY <2>1, CostConstants
<1>3. \/ p = Unpriced(0, 0) \/ p = Unpriced(cost, 0)
      \/ RuleFor(service) # {} /\ p = Price(TRUE, rule.eur, cost, 0, 0)
  BY DEF Priced
<1> HIDE DEF p, rule, cost
<1>4. CASE p = Unpriced(0, 0) \/ p = Unpriced(cost, 0)
  <2>1. p.estimate = 0 /\ p.wasted = 0
    BY <1>4, UnpricedFields
  <2> QED BY <2>1 DEF p
<1>5. CASE RuleFor(service) # {} /\ p = Price(TRUE, rule.eur, cost, 0, 0)
  <2> DEFINE known == TRUE
  <2>1. known
    OBVIOUS
  <2> HIDE DEF known
  <2>2. p = Price(known, rule.eur, cost, 0, 0)
    BY <1>5, Zenon DEF known
  <2>3. p.known = known /\ p.estimate = cost /\ p.wasted = 0
    BY <2>2, PriceFields
  <2> QED BY <1>2, <1>5, <2>1, <2>3 DEF p
<1> QED BY <1>3, <1>4, <1>5

ObserverFields == {"response", "segment", "failed", "told", "speech", "total", "warned"}

\* The amounts of the events are numbers, of which there are finitely many.
LEMMA Amounts ==
    ASSUME LedgerInv, SumInv
    PROVE  /\ \A d \in Events : d["estimate"] \in Nat /\ d["wasted"] \in Nat
           /\ IsFiniteSet(observer.speech) /\ \A d \in observer.speech : d["estimate"] \in Nat
           /\ Total("estimate", Events) \in Nat /\ Total("wasted", Events) \in Nat
           /\ Total("estimate", observer.speech) \in Nat
           /\ IsFiniteSet(Foreign) /\ Total("estimate", Foreign) \in Nat
<1>1. \A d \in Events : d["estimate"] \in Nat /\ d["wasted"] \in Nat
  BY DEF LedgerInv, EventsNumbered, Events, Range
<1>2. IsFiniteSet(Events) /\ IsFiniteSet(observer.speech)
  BY FS_Subset DEF SumInv
<1>3. \A d \in observer.speech : d["estimate"] \in Nat
  BY <1>1 DEF SumInv
<1>4. Total("estimate", Events) \in Nat
  BY <1>1, <1>2, TotalType
<1>5. Total("wasted", Events) \in Nat
  BY <1>1, <1>2, TotalType
<1>6. Total("estimate", observer.speech) \in Nat
  BY <1>2, <1>3, TotalType
<1>7. IsFiniteSet(Foreign) /\ \A d \in Foreign : d["estimate"] \in Nat
  BY <1>1, <1>2, FS_Subset DEF Foreign
<1>8. Total("estimate", Foreign) \in Nat
  BY <1>7, TotalType
<1> QED BY <1>1, <1>2, <1>3, <1>4, <1>5, <1>6, <1>7, <1>8

\* An event more, and what it does to the sums.
LEMMA EventAdds ==
    ASSUME LedgerInv, SumInv, NEW e, IsNext(e), Records(e)
    PROVE  /\ LedgerInv' /\ e \notin Events /\ Events' = Events \cup {e} /\ IsFiniteSet(Events')
           /\ Total("estimate", Events') = Total("estimate", Events) + e.estimate
           /\ Total("wasted", Events') = Total("wasted", Events) + e.wasted
           /\ Total("estimate", Foreign') =
                 IF e.eur THEN Total("estimate", Foreign)
                 ELSE Total("estimate", Foreign) + e.estimate
<1>1. LedgerInv' /\ e \notin Events /\ Events' = Events \cup {e}
  BY RecordsKeep
<1>2. IsFiniteSet(Events) /\ \A d \in Events : d["estimate"] \in Nat /\ d["wasted"] \in Nat
  BY Amounts DEF SumInv
<1>3. e["estimate"] \in Nat /\ e["wasted"] \in Nat
  BY DEF IsNext
<1>4. /\ Total("estimate", Events \cup {e}) = Total("estimate", Events) + e["estimate"]
      /\ IsFiniteSet(Events \cup {e})
  BY <1>1, <1>2, <1>3, TotalAdds
<1>5. Total("wasted", Events \cup {e}) = Total("wasted", Events) + e["wasted"]
  BY <1>1, <1>2, <1>3, TotalAdds
<1>6. Foreign' = IF e.eur THEN Foreign ELSE Foreign \cup {e}
  BY <1>1 DEF Foreign
<1>7. Total("estimate", Foreign \cup {e}) = Total("estimate", Foreign) + e["estimate"]
  <2>1. IsFiniteSet(Foreign) /\ e \notin Foreign /\ \A d \in Foreign : d["estimate"] \in Nat
    BY <1>1, <1>2, Amounts DEF Foreign
  <2> QED BY <1>3, <2>1, TotalAdds
<1> QED BY <1>1, <1>4, <1>5, <1>6, <1>7

\* What the budget is told of, it counts, or it is of another currency: an event
\* of no known price has none.
LEMMA TellsKeeps ==
    ASSUME LedgerInv, SumInv, NEW o, NEW e,
           ObserverFields \subseteq DOMAIN o, o.total = observer.total,
           o.speech \in {observer.speech, observer.speech \cup {e}},
           IsNext(e), e.wasted = 0, ~e.known => e.estimate = 0, Tells(o, e)
    PROVE  LedgerInv' /\ SumInv'
<1>1. Records(e) /\ observer' = Observed(o, e)
  BY DEF Tells
<1>2. /\ LedgerInv' /\ e \notin Events /\ Events' = Events \cup {e} /\ IsFiniteSet(Events')
      /\ Total("estimate", Events') = Total("estimate", Events) + e.estimate
      /\ Total("wasted", Events') = Total("wasted", Events) + e.wasted
      /\ Total("estimate", Foreign') = IF e.eur THEN Total("estimate", Foreign)
                                       ELSE Total("estimate", Foreign) + e.estimate
  BY <1>1, EventAdds
<1>3. /\ Total("estimate", Events) \in Nat /\ Total("wasted", Events) \in Nat
      /\ Total("estimate", observer.speech) \in Nat /\ Total("estimate", Foreign) \in Nat
      /\ IsFiniteSet(observer.speech) /\ \A d \in observer.speech : d["estimate"] \in Nat
      /\ e.estimate \in Nat
  BY Amounts DEF IsNext
<1>4. /\ ObserverFields \subseteq DOMAIN observer' /\ observer'.speech = o.speech
      /\ observer'.total = IF e.eur THEN observer.total + e.estimate ELSE observer.total
  <2>1. observer.total \in Nat
    BY DEF SumInv
  <2>2. CASE ~e.known \/ ~e.eur
    <3>1. observer' = o
      BY <1>1, <2>2 DEF Observed
    <3> QED BY <2>1, <2>2, <3>1
  <2>3. CASE e.known /\ e.eur
    <3> DEFINE warned == o.warned \cup BudgetDecision(o.total + e.estimate)
    <3> HIDE DEF warned
    <3>1. observer' = [o EXCEPT !.total = o.total + e.estimate, !.warned = warned]
      BY <1>1, <2>3 DEF Observed, warned
    <3> QED BY <2>3, <3>1 DEF ObserverFields
  <2> QED BY <2>2, <2>3
<1>5. observer.speech \subseteq Events
  BY DEF SumInv
<1>6. Total("estimate", observer'.speech) <= Total("estimate", observer.speech) + e.estimate
  <2>1. e \notin observer.speech /\ e["estimate"] \in Nat
    BY <1>2, <1>3, <1>5
  <2>2. Total("estimate", observer.speech \cup {e}) = Total("estimate", observer.speech) + e["estimate"]
    BY <1>3, <2>1, TotalAdds
  <2>3. observer'.speech = observer.speech \/ observer'.speech = observer.speech \cup {e}
    BY <1>4
  <2> DEFINE old == Total("estimate", observer.speech)  new == Total("estimate", observer'.speech)
  <2>4. new = old \/ new = old + e.estimate
    BY <2>2, <2>3
  <2>5. old \in Nat /\ e.estimate \in Nat
    BY <1>3
  <2> HIDE DEF old, new
  <2>6. new <= old + e.estimate
    BY <2>4, <2>5
  <2> QED BY <2>6 DEF old, new
<1>7. Total("estimate", observer'.speech) \in Nat
  <2>1. IsFiniteSet(observer'.speech) /\ \A d \in observer'.speech : d["estimate"] \in Nat
    BY <1>3, <1>4, FS_AddElement
  <2> QED BY <2>1, TotalType
<1>8. observer'.speech \subseteq Events'
  BY <1>2, <1>4, <1>5
<1>9. /\ observer'.total \in Nat
      /\ Total("estimate", Events') = observer'.total + Total("estimate", Foreign')
  <2> DEFINE t == observer.total  t2 == observer'.total
             f == Total("estimate", Foreign)  f2 == Total("estimate", Foreign')
             all == Total("estimate", Events)  all2 == Total("estimate", Events')
  <2>1. t \in Nat /\ f \in Nat /\ all = t + f /\ e.estimate \in Nat
    BY <1>3 DEF SumInv
  <2>2. /\ all2 = all + e.estimate
        /\ \/ t2 = t + e.estimate /\ f2 = f
           \/ t2 = t /\ f2 = f + e.estimate
    BY <1>2, <1>4
  <2> HIDE DEF t, t2, f, f2, all, all2
  <2>3. t2 \in Nat /\ all2 = t2 + f2
    BY <2>1, <2>2
  <2> QED BY <2>3 DEF t2, f2, all2
<1>10. Total("wasted", Events') + Total("estimate", observer'.speech) <= Total("estimate", Events')
  <2>1. Total("wasted", Events) + Total("estimate", observer.speech) <= Total("estimate", Events)
    BY DEF SumInv
  <2> DEFINE w == Total("wasted", Events)  w2 == Total("wasted", Events')
             old == Total("estimate", observer.speech)  new == Total("estimate", observer'.speech)
             t == Total("estimate", Events)  t2 == Total("estimate", Events')
  <2>2. w \in Nat /\ old \in Nat /\ new \in Nat /\ e.estimate \in Nat /\ t \in Nat
    BY <1>3, <1>7
  <2>3. w + old <= t /\ t2 = t + e.estimate /\ new <= old + e.estimate /\ w2 = w + 0
    BY <1>2, <1>6, <2>1
  <2> HIDE DEF w, w2, old, new, t, t2
  <2>4. w2 + new <= t2
    BY <2>2, <2>3
  <2> QED BY <2>4 DEF w2, new, t2
<1> QED BY <1>2, <1>4, <1>8, <1>9, <1>10 DEF SumInv, ObserverFields

\* A usage with the price of its service.
LEMMA PricedEvent ==
    ASSUME LedgerInv, NEW service, NEW operation, NEW key, NEW e,
           e = Event(service, operation, key, Priced(service, 1))
    PROVE  IsNext(e) /\ e.wasted = 0 /\ (~e.known => e.estimate = 0)
<1> DEFINE price == Priced(service, 1)
<1>1. /\ price.estimate \in Nat /\ price.wasted = 0 /\ (~price.known => price.estimate = 0)
  BY PricedIs
<1> HIDE DEF price
<1>2. e = Event(service, operation, key, price)
  BY DEF price
<1>3. /\ e.id = Len(usages) + 1 /\ e.estimate = price.estimate /\ e.wasted = price.wasted
      /\ (Closed => e.late) /\ e.known = price.known
  BY <1>2, EventFields
<1> QED BY <1>1, <1>3 DEF IsNext

\* The usages that are counted.
LEMMA UsageKeeps ==
    ASSUME LedgerInv, SumInv,
           RecordStt \/ RecordTool \/ RecordLlm \/ RecordPrimaryFailure \/ RecordTts
    PROVE  LedgerInv' /\ SumInv'
<1>1. ObserverFields \subseteq DOMAIN observer
  BY DEF SumInv, ObserverFields
<1>2. CASE RecordStt
  <2> DEFINE e == SttUsage
  <2>1. IsNext(e) /\ e.wasted = 0 /\ (~e.known => e.estimate = 0)
    BY PricedEvent DEF SttUsage
  <2>2. Tells(observer, e)
    BY <1>2 DEF RecordStt
  <2> HIDE DEF e
  <2> QED BY <1>1, <2>1, <2>2, TellsKeeps
<1>3. CASE RecordTool
  <2> DEFINE e == ToolUsage
  <2>1. IsNext(e) /\ e.wasted = 0 /\ (~e.known => e.estimate = 0)
    BY PricedEvent DEF ToolUsage
  <2>2. Tells(observer, e)
    BY <1>3 DEF RecordTool
  <2> HIDE DEF e
  <2> QED BY <1>1, <2>1, <2>2, TellsKeeps
<1>4. CASE RecordLlm
  <2> DEFINE e == LlmUsage  o == [observer EXCEPT !.told = TRUE]
  <2>1. IsNext(e) /\ e.wasted = 0 /\ (~e.known => e.estimate = 0)
    BY PricedEvent DEF LlmUsage
  <2>2. Tells(o, e)
    BY <1>4 DEF RecordLlm
  <2>3. ObserverFields \subseteq DOMAIN o /\ o.total = observer.total /\ o.speech = observer.speech
    BY <1>1 DEF ObserverFields
  <2> HIDE DEF e, o
  <2> QED BY <2>1, <2>2, <2>3, TellsKeeps
<1>5. CASE RecordPrimaryFailure
  <2> DEFINE free == Unpriced(0, 0)
             e == SpeechUsage("TTS", "primary_synthesis_failure", free)
             o == [observer EXCEPT !.failed = TRUE]
  <2>1. IsNext(e) /\ e.wasted = 0 /\ (~e.known => e.estimate = 0)
    <3>1. free.estimate = 0 /\ free.wasted = 0
      BY UnpricedFields
    <3> HIDE DEF free
    <3>2. e.id = Len(usages) + 1 /\ e.estimate = 0 /\ e.wasted = 0 /\ (Closed => e.late)
      BY <3>1, EventFields DEF SpeechUsage
    <3> QED BY <3>2 DEF IsNext
  <2>2. Tells(o, e)
    BY <1>5 DEF RecordPrimaryFailure
  <2>3. ObserverFields \subseteq DOMAIN o /\ o.total = observer.total /\ o.speech = observer.speech
    BY <1>1 DEF ObserverFields
  <2> HIDE DEF e, o
  <2> QED BY <2>1, <2>2, <2>3, TellsKeeps
<1>6. CASE RecordTts
  <2> DEFINE service == IF observer.failed THEN "FALLBACK_TTS" ELSE "TTS"
             e == SpeechUsage(service, "streaming_synthesis", Priced(service, 1))
             o(segment) == [observer EXCEPT !.speech = @ \cup {e}, !.failed = FALSE,
                                            !.segment = segment]
  <2>1. IsNext(e) /\ e.wasted = 0 /\ (~e.known => e.estimate = 0)
    BY PricedEvent DEF SpeechUsage
  <2>2. PICK segment : Tells(o(segment), e)
    BY <1>6 DEF RecordTts
  <2> HIDE DEF e
  <2>3. /\ ObserverFields \subseteq DOMAIN o(segment) /\ o(segment).total = observer.total
        /\ o(segment).speech = observer.speech \cup {e}
    BY <1>1 DEF ObserverFields
  <2> HIDE DEF o
  <2> QED BY <2>1, <2>2, <2>3, TellsKeeps
<1> QED BY <1>2, <1>3, <1>4, <1>5, <1>6

\* What was not heard of a response is taken out of what its speech has cost.
LEMMA PlayedKeeps ==
    ASSUME LedgerInv, SumInv, RecordPlayed
    PROVE  LedgerInv' /\ SumInv'
<1> DEFINE spent == Total("estimate", observer.speech)
           shares(unheard) ==
              IF \A d \in observer.speech : d.known THEN Shares(spent, unheard) ELSE {0}
           price(w) == Unpriced(0, w)
           allocation(w) == Event("TTS", "played_audio_allocation", observer.response, price(w))
<1>1. PICK unheard \in 0 .. Samples : \E w \in shares(unheard) : Records(allocation(w))
  BY DEF RecordPlayed
<1>2. PICK wasted \in shares(unheard) : Records(allocation(wasted))
  BY <1>1
<1>3. observer' = [observer EXCEPT !.response = @ + 1, !.segment = 1, !.told = FALSE, !.speech = {}]
  BY DEF RecordPlayed
<1>4. /\ spent \in Nat /\ Total("wasted", Events) \in Nat /\ Total("estimate", Events) \in Nat
      /\ Total("estimate", Foreign) \in Nat
  BY Amounts
<1> HIDE DEF spent
<1>5. wasted \in 0 .. spent
  BY <1>4, SharesBound
<1> DEFINE e == allocation(wasted)
<1> HIDE DEF shares
<1>6. IsNext(e) /\ e.estimate = 0 /\ e.wasted = wasted
  <2>1. price(wasted).estimate = 0 /\ price(wasted).wasted = wasted
    BY UnpricedFields
  <2> HIDE DEF price
  <2>2. e.id = Len(usages) + 1 /\ e.estimate = 0 /\ e.wasted = wasted /\ (Closed => e.late)
    BY <2>1, EventFields
  <2>3. wasted \in Nat
    BY <1>4, <1>5
  <2> QED BY <2>2, <2>3 DEF IsNext
<1>7. Records(e)
  BY <1>2
<1> HIDE DEF e
<1>8. /\ LedgerInv' /\ Events' = Events \cup {e} /\ IsFiniteSet(Events')
      /\ Total("estimate", Events') = Total("estimate", Events) + e.estimate
      /\ Total("wasted", Events') = Total("wasted", Events) + e.wasted
      /\ Total("estimate", Foreign') = IF e.eur THEN Total("estimate", Foreign)
                                       ELSE Total("estimate", Foreign) + e.estimate
  BY <1>6, <1>7, EventAdds
<1>9. /\ ObserverFields \subseteq DOMAIN observer' /\ observer'.speech = {}
      /\ observer'.total = observer.total
  BY <1>3 DEF SumInv, ObserverFields
<1>10. Total("estimate", observer'.speech) = 0
  BY <1>9, FS_EmptySet, TotalStep
<1>11. Total("wasted", Events') + Total("estimate", observer'.speech) <= Total("estimate", Events')
  <2> DEFINE w == Total("wasted", Events)  w2 == Total("wasted", Events')
             t == Total("estimate", Events)  t2 == Total("estimate", Events')
  <2>1. w \in Nat /\ t \in Nat /\ w + spent <= t
    BY <1>4 DEF SumInv, spent
  <2>2. w2 = w + wasted /\ t2 = t + 0
    BY <1>6, <1>8
  <2>3. wasted \in Nat /\ wasted <= spent
    BY <1>4, <1>5
  <2> HIDE DEF w, w2, t, t2
  <2>4. w2 + 0 <= t2
    BY <1>4, <2>1, <2>2, <2>3
  <2> QED BY <1>10, <2>4 DEF w2, t2
<1>12. /\ observer'.total \in Nat
       /\ Total("estimate", Events') = observer'.total + Total("estimate", Foreign')
  BY <1>4, <1>6, <1>8, <1>9 DEF SumInv
<1> QED BY <1>8, <1>9, <1>11, <1>12 DEF SumInv, ObserverFields

-----------------------------------------------------------------------------
(* The theorems.                                                             *)

CostInv == LedgerInv /\ SumInv

LEMMA CostInitially ==
    ASSUME CostInit
    PROVE  CostInv
<1>1. /\ usages = <<>> /\ pending = <<>> /\ appender = Thread("none") /\ notices = <<>>
      /\ reported = {} /\ rows = {} /\ closer = "open" /\ summary = {}
  BY DEF CostInit
<1>2. /\ IsList(usages) /\ IsList(pending) /\ IsList(notices) /\ Range(usages) = {}
      /\ Range(pending) = {} /\ Range(notices) = {} /\ Len(pending) = 0 /\ Len(usages) = 0
  BY <1>1, EmptyIsList
<1>3. DOMAIN usages = {} /\ Events = {}
  <2>1. DOMAIN usages = 1 .. Len(usages)
    BY <1>2, AppendIsList
  <2> QED BY <1>2, <2>1 DEF Events
<1>4. appender.doing = "none"
  BY <1>1 DEF Thread
<1>5. LedgerInv
  <2>1. EventsNumbered /\ Accounted
    BY <1>1, <1>2, <1>3, <1>4 DEF EventsNumbered, Accounted
  <2>2. Phases
    BY <1>1, <1>2, <1>4, CostConstants DEF Phases, Closed
  <2> QED BY <1>1, <2>1, <2>2 DEF LedgerInv, LateNotices, Summarised
<1>6. /\ ObserverFields \subseteq DOMAIN observer /\ observer.speech = {} /\ observer.total = 0
  BY DEF CostInit, ObserverFields
<1>7. /\ IsFiniteSet(Events) /\ Total("estimate", Events) = 0 /\ Total("wasted", Events) = 0
      /\ Total("estimate", observer.speech) = 0 /\ Total("estimate", Foreign) = 0
  <2>1. Foreign = {}
    BY <1>3 DEF Foreign
  <2> QED BY <1>3, <1>6, <2>1, FS_EmptySet, TotalStep
<1> QED BY <1>3, <1>5, <1>6, <1>7 DEF CostInv, SumInv, ObserverFields

LEMMA CostStep ==
    ASSUME CostInv, [CostNext]_costVars
    PROVE  CostInv'
<1> USE DEF CostInv
<1>1. CASE RecordStt \/ RecordTool \/ RecordLlm \/ RecordPrimaryFailure \/ RecordTts
  BY <1>1, UsageKeeps
<1>2. CASE RecordPlayed
  BY <1>2, PlayedKeeps
<1>3. ASSUME UNCHANGED <<observer, usages>> PROVE SumInv'
  BY <1>3 DEF SumInv, Events, Foreign
<1>4. CASE TakeUsage
  BY <1>3, <1>4, TakeKeeps DEF TakeUsage
<1>5. CASE AppendRow
  BY <1>3, <1>5, AppendKeeps DEF AppendRow
<1>6. CASE RunNotices
  BY <1>3, <1>6, NoticesKeep DEF RunNotices
<1>7. CASE StartClose \/ StopRecorder \/ SaveSummary
  <2>1. UNCHANGED <<observer, usages>>
    BY <1>7 DEF StartClose, StopRecorder, SaveSummary, Closes
  <2> QED BY <1>3, <1>7, <2>1, CloseKeeps
<1>8. CASE JoinAppender
  <2>1. /\ UNCHANGED <<observer, usages, pending, appender, rows, summary>>
        /\ reported' = reported \cup Range(notices) /\ notices' = <<>>
        /\ closer = "joining" /\ appender.doing = "dead" /\ closer' = "yielding"
    BY <1>8 DEF JoinAppender, Closes
  <2> QED BY <1>3, <2>1, NoticesKeep
<1>9. CASE UNCHANGED costVars
  <2>1. LedgerInv'
    BY <1>9 DEF costVars, LedgerInv, EventsNumbered, Accounted, Phases, LateNotices, Summarised,
                Events, Somewhere, Closed
  <2> QED BY <1>3, <1>9, <2>1 DEF costVars
<1> QED BY <1>1, <1>2, <1>4, <1>5, <1>6, <1>7, <1>8, <1>9 DEF CostNext

LEMMA CostInvariant == CostSpec => []CostInv
<1>1. CostInit => CostInv
  BY CostInitially
<1>2. CostInv /\ [CostNext]_costVars => CostInv'
  BY CostStep
<1> QED BY <1>1, <1>2, PTL DEF CostSpec

\* A queue, a thread and an end of a connection are only what they can be, and
\* no two rows of cost_events have one key (AsyncCostRecorder, SQLiteCostLedger).
THEOREM CostTypes == CostSpec => []CostTypeOK
<1>1. CostInv => CostTypeOK
  BY DEF CostInv, LedgerInv, Phases, Accounted, CostTypeOK
<1> QED BY <1>1, CostInvariant, PTL

\* Whatever is recorded, and however the thread and its callbacks run on while
\* the session closes: when its summary is taken every event is a row, or has
\* been reported, or came too late and is reported next; and a summary to which
\* nothing was lost says what the budget was checked against together with what
\* was estimated in another currency than its own, and that no more was wasted
\* than spent (AsyncCostRecorder, _observe_budget, aggregate_cost_rows,
\* RuntimeCostObserver.record_played_audio).
THEOREM CostIsAccounted == CostSpec => []CostAccounted
<1>1. ASSUME CostInv, closer = "done", NEW i \in DOMAIN usages
      PROVE  LET e == usages[i]
             IN  e \in rows \/ e.id \in reported \/ (e.late /\ e.id \in Range(notices))
  <2> DEFINE e == usages[i]
  <2>1. e \in Events
    BY DEF Events, Range
  <2> HIDE DEF e
  <2>2. Somewhere(e)
    BY <1>1, <2>1 DEF CostInv, LedgerInv, Accounted
  <2>3. pending = <<>> /\ appender.doing # "append"
    BY <1>1 DEF CostInv, LedgerInv, Phases
  <2>4. Range(pending) = {}
    BY <2>3, EmptyIsList
  <2>5. appender # InHand(e)
    BY <2>3 DEF InHand
  <2>6. e.id \in Range(notices) => e.late
    BY <1>1, <2>1 DEF CostInv, LedgerInv, LateNotices
  <2>7. e \in rows \/ e.id \in reported \/ (e.late /\ e.id \in Range(notices))
    BY <2>2, <2>4, <2>5, <2>6 DEF Somewhere
  <2> QED BY <2>7 DEF e
<1>2. ASSUME CostInv, closer = "done", NEW s \in summary, reported = {}, notices = <<>>
      PROVE  /\ s.estimate = observer.total + Total("estimate", {e \in Range(usages) : ~e.eur})
             /\ s.wasted <= s.estimate
  <2>1. Range(notices) = {}
    BY <1>2, EmptyIsList
  <2>2. \A e \in Events : e \in rows
    <3> SUFFICES ASSUME NEW e \in Events PROVE e \in rows
      OBVIOUS
    <3>1. PICK i \in DOMAIN usages : e = usages[i]
      BY DEF Events, Range
    <3> QED BY <1>1, <1>2, <2>1, <3>1
  <2>3. rows = Events
    BY <1>2, <2>2 DEF CostInv, LedgerInv, Accounted
  <2>4. s.estimate = Total("estimate", Events) /\ s.wasted = Total("wasted", Events)
    BY <1>2, <2>3 DEF CostInv, LedgerInv, Summarised
  <2>5. /\ Total("estimate", Events) \in Nat /\ Total("wasted", Events) \in Nat
        /\ Total("estimate", observer.speech) \in Nat
    BY <1>2, Amounts DEF CostInv
  <2>6. /\ Total("estimate", Events) = observer.total + Total("estimate", Foreign)
        /\ Total("wasted", Events) + Total("estimate", observer.speech) <= Total("estimate", Events)
    BY <1>2 DEF CostInv, SumInv
  <2> DEFINE w == Total("wasted", Events)  t == Total("estimate", Events)
             speech == Total("estimate", observer.speech)
  <2>7. w \in Nat /\ t \in Nat /\ speech \in Nat /\ w + speech <= t
    BY <2>5, <2>6
  <2> HIDE DEF w, t, speech
  <2>8. w <= t
    BY <2>7
  <2> QED BY <2>4, <2>6, <2>8 DEF w, t, Foreign, Events
<1>3. CostInv => CostAccounted
  BY <1>1, <1>2 DEF CostAccounted
<1> QED BY <1>3, CostInvariant, PTL
=============================================================================
