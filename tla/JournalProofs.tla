--------------------------- MODULE JournalProofs ---------------------------
(***************************************************************************)
(* Proofs about Journal, for every set of actions and of processes and     *)
(* plans of every length: what carry_progress computes, by the least place *)
(* where it would not, and from it what record_plan keeps under runs that  *)
(* die, change their plan and meet.                                        *)
(***************************************************************************)
EXTENDS Journal, FiniteSetTheorems, WellFoundedInduction, TLAPS

\* A set of naturals has a least one.
LEMMA Least ==
    ASSUME NEW T \in SUBSET Nat, T # {}
    PROVE  \E n \in T : \A m \in T : n <= m
  <1>1. PICK n \in T : \A m \in T : ~ (<<m, n>> \in OpToRel(<, Nat))
    BY NatLessThanWellFounded, WFMin
  <1>2. \A m \in T : ~(m < n)
    BY <1>1 DEF OpToRel
  <1> QED BY <1>2

\* The least of a set of places is one of them.
LEMMA MinIsLeast ==
    ASSUME NEW T \in SUBSET Nat, T # {}
    PROVE  Min(T) \in T /\ \A m \in T : Min(T) <= m
  BY Least DEF Min

-----------------------------------------------------------------------------
(* carry_progress, for a plan of any length.                                 *)

\* The step of carry_progress from the first k - 1 actions to the first k.
Further(rows, acts, before, k) ==
    Append(before, Pick(rows, k, acts[k], Range(before)))

\* What the first m actions take, by recursion.
Carries(rows, acts, m, g) ==
    g = [k \in 0 .. m |-> IF k = 0 THEN <<>> ELSE Further(rows, acts, g[k - 1], k)]

\* The recursion has a solution, whatever the rows and the plan.
LEMMA CarriesExists ==
    ASSUME NEW rows, NEW acts, NEW n \in Nat
    PROVE  \E g : Carries(rows, acts, n, g)
  <1> DEFINE T == {m \in Nat : ~ \E g : Carries(rows, acts, m, g)}
  <1>1. SUFFICES ASSUME T # {} PROVE FALSE
    OBVIOUS
  <1>2. PICK m \in T : \A l \in T : m <= l
    BY <1>1, Least
  <1>3. m # 0
    <2>1. Carries(rows, acts, 0, [k \in 0 .. 0 |-> <<>>])
      BY DEF Carries
    <2> QED BY <2>1
  <1>4. m - 1 \in Nat /\ m - 1 \notin T
    BY <1>2, <1>3
  <1>5. PICK g : Carries(rows, acts, m - 1, g)
    BY <1>4
  <1> DEFINE h == [k \in 0 .. m |-> IF k = m THEN Further(rows, acts, g[m - 1], m) ELSE g[k]]
  <1>6. \A k \in 0 .. m : h[k] = IF k = 0 THEN <<>> ELSE Further(rows, acts, h[k - 1], k)
    <2> SUFFICES ASSUME NEW k \in 0 .. m
                 PROVE  h[k] = IF k = 0 THEN <<>> ELSE Further(rows, acts, h[k - 1], k)
      OBVIOUS
    <2>1. CASE k = m
      BY <1>3, <1>4, <2>1
    <2>2. CASE k # m
      BY <1>4, <1>5, <2>2 DEF Carries
    <2> QED BY <2>1, <2>2
  <1>7. Carries(rows, acts, m, h)
    BY <1>6 DEF Carries
  <1> QED BY <1>2, <1>7

\* What Carried is: the step applied to each action after the one before.
LEMMA CarriedByStep ==
    ASSUME NEW rows, NEW acts \in Seq(Action)
    PROVE  /\ Carried(rows, acts)[0] = <<>>
           /\ \A k \in 1 .. Len(acts) : Carried(rows, acts)[k] =
                 Further(rows, acts, Carried(rows, acts)[k - 1], k)
  <1> DEFINE c == Carried(rows, acts)
  <1>1. Len(acts) \in Nat
    OBVIOUS
  <1>2. c = CHOOSE g : g = [k \in 0 .. Len(acts) |->
                IF k = 0 THEN <<>>
                ELSE Append(g[k - 1], Pick(rows, k, acts[k], Range(g[k - 1])))]
    BY DEF Carried
  <1>3. c = CHOOSE g : Carries(rows, acts, Len(acts), g)
    BY <1>2 DEF Carries, Further
  <1>4. Carries(rows, acts, Len(acts), c)
    BY <1>1, <1>3, CarriesExists
  <1> HIDE DEF c
  <1>5. c[0] = <<>> /\ \A k \in 1 .. Len(acts) : c[k] = Further(rows, acts, c[k - 1], k)
    BY <1>1, <1>4 DEF Carries
  <1> QED BY <1>5 DEF c

\* What is picked: no row, if all those of the action serve another; else a free one of
\* the action, and the one at its own place before any other.
LEMMA PickIs ==
    ASSUME NEW rows \in Seq(Row), NEW k \in Nat, NEW a, NEW used
    PROVE  /\ Pick(rows, k, a, used) \in Nat
           /\ Pick(rows, k, a, used) = 0 =>
                 \A i \in DOMAIN rows : rows[i].act = a => i \in used
           /\ Pick(rows, k, a, used) # 0 =>
                 /\ Pick(rows, k, a, used) \in DOMAIN rows \ used
                 /\ rows[Pick(rows, k, a, used)].act = a
           /\ k \in DOMAIN rows \ used /\ rows[k].act = a => Pick(rows, k, a, used) = k
  <1> DEFINE free == {i \in DOMAIN rows : i \notin used /\ rows[i].act = a}
             done == {i \in free : rows[i].status = "done"}
             x == Pick(rows, k, a, used)
  <1>1. free \subseteq Nat \ {0} /\ done \subseteq free
    OBVIOUS
  <1>2. x = CASE k \in free -> k
              [] k \notin free /\ done # {} -> Min(done)
              [] k \notin free /\ done = {} /\ free # {} -> Min(free)
              [] free = {} -> 0
    BY DEF Pick
  <1>3. free # {} => Min(free) \in free
    BY <1>1, MinIsLeast
  <1>4. done # {} => Min(done) \in free
    BY <1>1, MinIsLeast
  <1>5. (k \in free => x = k) /\ (free # {} => x \in free) /\ (free = {} => x = 0)
    <2> HIDE DEF free, done, x
    <2>1. CASE k \in free
      BY <1>2, <2>1
    <2>2. CASE k \notin free /\ done # {}
      BY <1>1, <1>2, <1>4, <2>2
    <2>3. CASE k \notin free /\ done = {} /\ free # {}
      BY <1>2, <1>3, <2>3
    <2>4. CASE free = {}
      BY <1>1, <1>2, <2>4
    <2> QED BY <2>1, <2>2, <2>3, <2>4
  <1>6. x \in Nat /\ (x = 0 <=> free = {}) /\ (x # 0 => x \in free)
    <2> HIDE DEF free, done, x
    <2>1. CASE free = {}
      BY <1>5, <2>1
    <2>2. CASE free # {}
      <3>1. x \in free
        BY <1>5, <2>2
      <3> QED BY <1>1, <2>2, <3>1
    <2> QED BY <2>1, <2>2
  <1>7. ASSUME x = 0, NEW i \in DOMAIN rows, rows[i].act = a PROVE i \in used
    BY <1>6, <1>7
  <1>8. x # 0 => x \in DOMAIN rows \ used /\ rows[x].act = a
    BY <1>6
  <1>9. k \in DOMAIN rows \ used /\ rows[k].act = a => x = k
    BY <1>5
  <1> HIDE DEF x
  <1>10. x \in Nat /\ (x = 0 => \A i \in DOMAIN rows : rows[i].act = a => i \in used)
    BY <1>6, <1>7
  <1> QED BY <1>8, <1>9, <1>10 DEF x

\* What one action takes, given what those before it took.
Takes(rows, acts, from, j) ==
    from[j] = Pick(rows, j, acts[j], {from[i] : i \in 1 .. j - 1})

\* carry_progress goes through the plan in order, each action with what is left.
LEMMA CarryInOrder ==
    ASSUME NEW rows \in Seq(Row), NEW acts \in Seq(Action)
    PROVE  /\ CarryProgress(rows, acts) \in [1 .. Len(acts) -> Nat]
           /\ \A j \in 1 .. Len(acts) : Takes(rows, acts, CarryProgress(rows, acts), j)
  <1> DEFINE c == Carried(rows, acts)
             OK(k) == /\ c[k] \in Seq(Nat) /\ Len(c[k]) = k
                      /\ \A j \in 1 .. k : Takes(rows, acts, c[k], j)
             T == {k \in 0 .. Len(acts) : ~OK(k)}
  <1>1. /\ Len(acts) \in Nat /\ c[0] = <<>>
        /\ \A k \in 1 .. Len(acts) : c[k] = Further(rows, acts, c[k - 1], k)
    BY CarriedByStep
  <1> HIDE DEF c
  <1>2. T = {}
    <2> SUFFICES ASSUME T # {} PROVE FALSE
      OBVIOUS
    <2>1. T \subseteq Nat
      BY <1>1
    <2>2. PICK k \in T : \A l \in T : k <= l
      <3> HIDE DEF T
      <3> QED BY <2>1, Least
    <2>3. k # 0
      <3>1. <<>> \in Seq(Nat) /\ Len(<<>>) = 0 /\ 1 .. 0 = {}
        OBVIOUS
      <3>2. OK(0)
        BY <1>1, <3>1
      <3> QED BY <2>2, <3>2
    <2>4. k \in 1 .. Len(acts) /\ k - 1 \in 0 .. Len(acts) /\ OK(k - 1)
      <3>1. k \in 1 .. Len(acts) /\ k - 1 \in 0 .. Len(acts) /\ ~(k <= k - 1)
        BY <1>1, <2>2, <2>3
      <3>2. k - 1 \notin T
        <4> HIDE DEF T
        <4> QED BY <2>2, <3>1
      <3> HIDE DEF OK
      <3>3. OK(k - 1)
        BY <3>1, <3>2
      <3> USE DEF OK
      <3> QED BY <3>1, <3>3
    <2> DEFINE x == Pick(rows, k, acts[k], Range(c[k - 1]))
    <2>5. c[k] = Append(c[k - 1], x) /\ x \in Nat
      BY <1>1, <2>4, PickIs DEF Further
    <2> HIDE DEF x
    <2>6. /\ c[k] \in Seq(Nat) /\ Len(c[k]) = k /\ c[k][k] = x
          /\ \A j \in 1 .. k - 1 : c[k][j] = c[k - 1][j]
      BY <2>4, <2>5
    <2>7. Range(c[k - 1]) = {c[k][i] : i \in 1 .. k - 1}
      <3>1. DOMAIN c[k - 1] = 1 .. k - 1
        BY <2>4
      <3>2. Range(c[k - 1]) = {c[k - 1][i] : i \in 1 .. k - 1}
        BY <3>1 DEF Range
      <3> QED BY <2>6, <3>2
    <2>8. Takes(rows, acts, c[k], k)
      BY <2>6, <2>7 DEF Takes, x
    <2>9. ASSUME NEW j \in 1 .. k - 1 PROVE Takes(rows, acts, c[k], j)
      <3>1. {c[k][i] : i \in 1 .. j - 1} = {c[k - 1][i] : i \in 1 .. j - 1}
        <4>1. \A i \in 1 .. j - 1 : i \in 1 .. k - 1
          BY <2>4
        <4>2. \A i \in 1 .. j - 1 : c[k][i] = c[k - 1][i]
          BY <2>6, <4>1
        <4> QED BY <4>2
      <3> QED BY <2>4, <2>6, <3>1 DEF Takes
    <2>10. OK(k)
      BY <2>4, <2>6, <2>8, <2>9
    <2> QED BY <2>2, <2>10
  <1>3. OK(Len(acts))
    BY <1>1, <1>2
  <1> QED BY <1>1, <1>3 DEF CarryProgress, c

\* A row carried is one of the action, taken once; an action that takes none found
\* every row of its sort taken before it.
LEMMA CarryServes ==
    ASSUME NEW rows \in Seq(Row), NEW acts \in Seq(Action),
           NEW j \in 1 .. Len(acts)
    PROVE  LET from == CarryProgress(rows, acts)
           IN  /\ from[j] # 0 => /\ from[j] \in DOMAIN rows
                                 /\ rows[from[j]].act = acts[j]
                                 /\ \A i \in 1 .. j - 1 : from[i] # from[j]
               /\ from[j] = 0 => \A i \in DOMAIN rows :
                     rows[i].act = acts[j] => \E l \in 1 .. j - 1 : from[l] = i
  <1> DEFINE from == CarryProgress(rows, acts)
             used == {from[i] : i \in 1 .. j - 1}
  <1>1. from[j] = Pick(rows, j, acts[j], used) /\ j \in Nat
    <2>1. Takes(rows, acts, from, j)
      BY CarryInOrder
    <2> QED BY <2>1 DEF Takes
  <1> HIDE DEF from
  <1>2. /\ from[j] = 0 => \A i \in DOMAIN rows : rows[i].act = acts[j] => i \in used
        /\ from[j] # 0 => from[j] \in DOMAIN rows \ used /\ rows[from[j]].act = acts[j]
    <2> HIDE DEF used
    <2> QED BY <1>1, PickIs
  <1>3. from[j] # 0 => \A i \in 1 .. j - 1 : from[i] # from[j]
    BY <1>2
  <1>4. from[j] = 0 => \A i \in DOMAIN rows :
            rows[i].act = acts[j] => \E l \in 1 .. j - 1 : from[l] = i
    BY <1>2
  <1> QED BY <1>2, <1>3, <1>4 DEF from

\* Two actions never take their progress from one row.
LEMMA CarryInjective ==
    ASSUME NEW rows \in Seq(Row), NEW acts \in Seq(Action),
           NEW j \in 1 .. Len(acts), NEW k \in 1 .. Len(acts), j # k,
           CarryProgress(rows, acts)[j] # 0
    PROVE  CarryProgress(rows, acts)[j] # CarryProgress(rows, acts)[k]
  <1> DEFINE from == CarryProgress(rows, acts)
  <1>1. \A n \in 1 .. Len(acts) : from[n] # 0 => \A i \in 1 .. n - 1 : from[i] # from[n]
    BY CarryServes
  <1> HIDE DEF from
  <1>2. j \in 1 .. k - 1 \/ k \in 1 .. j - 1
    OBVIOUS
  <1>3. CASE j \in 1 .. k - 1
    BY <1>1, <1>3 DEF from
  <1>4. CASE k \in 1 .. j - 1
    BY <1>1, <1>4 DEF from
  <1> QED BY <1>2, <1>3, <1>4

\* The rows of a plan keep their places when the same plan is recorded.
LEMMA CarryInPlace ==
    ASSUME NEW rows \in Seq(Row), NEW acts \in Seq(Action), acts = Acts(rows)
    PROVE  \A k \in 1 .. Len(acts) : CarryProgress(rows, acts)[k] = k
  <1> DEFINE from == CarryProgress(rows, acts)
             T == {k \in 1 .. Len(acts) : from[k] # k}
  <1>1. SUFFICES ASSUME T # {} PROVE FALSE
    OBVIOUS
  <1>2. DOMAIN rows = 1 .. Len(acts) /\ \A k \in DOMAIN rows : acts[k] = rows[k].act
    BY DEF Acts
  <1>3. T \subseteq Nat
    OBVIOUS
  <1>4. PICK k \in T : \A l \in T : k <= l
    <2> HIDE DEF T
    <2> QED BY <1>1, <1>3, Least
  <1>5. \A i \in 1 .. k - 1 : i \in 1 .. Len(acts) /\ ~(k <= i)
    OBVIOUS
  <1>6. \A i \in 1 .. k - 1 : from[i] = i
    <2> HIDE DEF from
    <2> QED BY <1>4, <1>5
  <1>7. k \notin {from[i] : i \in 1 .. k - 1}
    <2> HIDE DEF from
    <2> QED BY <1>6
  <1>8. from[k] = Pick(rows, k, acts[k], {from[i] : i \in 1 .. k - 1})
    BY CarryInOrder DEF Takes
  <1>9. from[k] = k
    <2> DEFINE used == {from[i] : i \in 1 .. k - 1}
    <2>1. k \in DOMAIN rows \ used /\ rows[k].act = acts[k] /\ k \in Nat
      BY <1>2, <1>7
    <2> HIDE DEF used
    <2>2. Pick(rows, k, acts[k], used) = k
      BY <2>1, PickIs
    <2> QED BY <1>8, <2>2 DEF used
  <1> QED BY <1>9

-----------------------------------------------------------------------------
(* What is recorded.                                                         *)

\* A plan is a sequence of actions.
LEMMA PlansAreSequences ==
    ASSUME NEW acts \in Plans
    PROVE  acts \in Seq(Action)
  BY JournalAssumption DEF Plans

\* Rows recorded are rows, those of the plan, and done only where a done row is carried.
LEMMA RecordedRows ==
    ASSUME NEW rows \in Seq(Row), NEW acts \in Seq(Action)
    PROVE  /\ Recorded(rows, acts) \in Seq(Row)
           /\ DOMAIN Recorded(rows, acts) = 1 .. Len(acts)
           /\ Acts(Recorded(rows, acts)) = acts
           /\ \A k \in 1 .. Len(acts) :
                 /\ Recorded(rows, acts)[k].act = acts[k]
                 /\ Recorded(rows, acts)[k].status =
                       IF CarryProgress(rows, acts)[k] = 0 THEN "pending"
                       ELSE rows[CarryProgress(rows, acts)[k]].status
  <1> DEFINE from == CarryProgress(rows, acts)
             new == Recorded(rows, acts)
             st(k) == IF from[k] = 0 THEN "pending" ELSE rows[from[k]].status
  <1>1. Len(acts) \in Nat /\ DOMAIN acts = 1 .. Len(acts)
    OBVIOUS
  <1>2. \A k \in 1 .. Len(acts) : from[k] # 0 => from[k] \in DOMAIN rows
    BY CarryServes
  <1>3. new = [k \in 1 .. Len(acts) |-> [act |-> acts[k], status |-> st(k)]]
    BY <1>1 DEF Recorded
  <1> HIDE DEF from, new
  <1>4. \A k \in 1 .. Len(acts) : st(k) \in Status
    <2>1. \A i \in DOMAIN rows : rows[i] \in Row
      OBVIOUS
    <2>2. \A i \in DOMAIN rows : rows[i].status \in Status
      BY <2>1 DEF Row
    <2>3. "pending" \in Status
      BY DEF Status
    <2> QED BY <1>2, <2>2, <2>3
  <1> HIDE DEF st
  <1>5. \A k \in 1 .. Len(acts) : [act |-> acts[k], status |-> st(k)] \in Row
    BY <1>4 DEF Row
  <1>6. new \in [1 .. Len(acts) -> Row]
    BY <1>3, <1>5
  <1>7. new \in Seq(Row)
    BY <1>1, <1>6
  <1>8. DOMAIN new = 1 .. Len(acts)
    BY <1>6
  <1>9. \A k \in 1 .. Len(acts) : new[k].act = acts[k] /\ new[k].status = st(k)
    BY <1>3
  <1>10. Acts(new) = acts
    <2>1. Acts(new) = [k \in 1 .. Len(acts) |-> acts[k]]
      BY <1>8, <1>9 DEF Acts
    <2> QED BY <1>1, <2>1
  <1> QED BY <1>7, <1>8, <1>9, <1>10 DEF new, st, from

\* Recording the plan the rows already hold changes nothing.
LEMMA RecordedSame ==
    ASSUME NEW rows \in Seq(Row), NEW acts \in Seq(Action), acts = Acts(rows)
    PROVE  Recorded(rows, acts) = rows
  <1> DEFINE new == Recorded(rows, acts)
  <1>1. DOMAIN rows = 1 .. Len(acts) /\ \A k \in DOMAIN rows : acts[k] = rows[k].act
    BY DEF Acts
  <1>2. ASSUME NEW k \in 1 .. Len(acts) PROVE new[k] = rows[k]
    <2>1. CarryProgress(rows, acts)[k] = k /\ k # 0
      BY CarryInPlace
    <2>2. new[k].act = rows[k].act /\ new[k].status = rows[k].status
      BY <1>1, <2>1, RecordedRows
    <2>3. new \in Seq(Row) /\ DOMAIN new = 1 .. Len(acts)
      BY RecordedRows
    <2> HIDE DEF new
    <2>4. new[k] \in Row /\ rows[k] \in Row
      BY <1>1, <2>3
    <2> QED BY <2>2, <2>4 DEF Row
  <1>3. new \in Seq(Row) /\ DOMAIN new = 1 .. Len(acts)
    BY RecordedRows
  <1> HIDE DEF new
  <1> QED BY <1>1, <1>2, <1>3 DEF new

\* The places of rows, and of a plan, are finitely many.
LEMMA FinitePlaces ==
    ASSUME NEW S, NEW s \in Seq(S), NEW T, T \subseteq DOMAIN s
    PROVE  IsFiniteSet(T) /\ Cardinality(T) \in Nat
  <1>1. Len(s) \in Nat /\ DOMAIN s = 1 .. Len(s)
    OBVIOUS
  <1>2. IsFiniteSet(1 .. Len(s))
    BY <1>1, FS_Interval
  <1> QED BY <1>1, <1>2, FS_Subset, FS_CardinalityType

\* No more rows of an action are done in what is recorded than were in the rows.
LEMMA NoneDoneAnew ==
    ASSUME NEW rows \in Seq(Row), NEW acts \in Seq(Action), NEW a \in Action
    PROVE  Count(Recorded(rows, acts), a, {"done"}) <= Count(rows, a, {"done"})
  <1> DEFINE from == CarryProgress(rows, acts)
             new == Recorded(rows, acts)
             S == {k \in DOMAIN new : new[k].act = a /\ new[k].status \in {"done"}}
             T == {k \in DOMAIN rows : rows[k].act = a /\ rows[k].status \in {"done"}}
             f == [k \in S |-> from[k]]
  <1>1. DOMAIN new = 1 .. Len(acts)
    BY RecordedRows
  <1>2. ASSUME NEW k \in S
        PROVE  k \in 1 .. Len(acts) /\ from[k] # 0 /\ from[k] \in T
    <2>1. k \in 1 .. Len(acts) /\ new[k].act = a /\ new[k].status = "done"
      BY <1>1
    <2>2. /\ new[k].act = acts[k]
          /\ new[k].status = IF from[k] = 0 THEN "pending" ELSE rows[from[k]].status
      BY <2>1, RecordedRows
    <2>3. from[k] # 0 => from[k] \in DOMAIN rows /\ rows[from[k]].act = acts[k]
      BY <2>1, CarryServes
    <2> HIDE DEF from, new
    <2> QED BY <2>1, <2>2, <2>3
  <1>3. ASSUME NEW j \in S, NEW k \in S, j # k PROVE from[j] # from[k]
    BY <1>2, <1>3, CarryInjective
  <1>4. IsFiniteSet(T)
    BY FinitePlaces
  <1> HIDE DEF from, S, T
  <1>5. f \in Injection(S, T)
    BY <1>2, <1>3 DEF Injection, IsInjective
  <1>6. Cardinality(S) <= Cardinality(T)
    BY <1>4, <1>5, FS_Injection
  <1> QED BY <1>6 DEF Count, S, T

\* As many actions of a sort take a row as both the rows and the plan hold.
LEMMA CarriedAsMany ==
    ASSUME NEW rows \in Seq(Row), NEW acts \in Seq(Action), NEW a \in Action
    PROVE  Cardinality({k \in DOMAIN CarryProgress(rows, acts) :
                            acts[k] = a /\ CarryProgress(rows, acts)[k] # 0})
             = IF Count(rows, a, Status) <= Times(acts, a)
               THEN Count(rows, a, Status) ELSE Times(acts, a)
  <1> DEFINE from == CarryProgress(rows, acts)
             S == {k \in DOMAIN from : acts[k] = a /\ from[k] # 0}
             R == {i \in DOMAIN rows : rows[i].act = a /\ rows[i].status \in Status}
             A == {k \in DOMAIN acts : acts[k] = a}
             f == [k \in S |-> from[k]]
  <1>1. DOMAIN from = 1 .. Len(acts) /\ DOMAIN acts = 1 .. Len(acts)
    BY CarryInOrder
  <1>2. R = {i \in DOMAIN rows : rows[i].act = a}
    <2>1. \A i \in DOMAIN rows : rows[i] \in Row
      OBVIOUS
    <2> QED BY <2>1 DEF Row
  <1>3. IsFiniteSet(R) /\ Cardinality(R) \in Nat /\ IsFiniteSet(A) /\ Cardinality(A) \in Nat
    BY FinitePlaces
  <1>4. /\ \A k \in 1 .. Len(acts) : from[k] # 0 =>
               from[k] \in DOMAIN rows /\ rows[from[k]].act = acts[k]
        /\ \A k \in 1 .. Len(acts) : from[k] = 0 => \A i \in DOMAIN rows :
               rows[i].act = acts[k] => \E l \in 1 .. k - 1 : from[l] = i
    BY CarryServes
  <1>5. \A j, k \in 1 .. Len(acts) : j # k /\ from[j] # 0 => from[j] # from[k]
    BY CarryInjective
  <1>6. S \subseteq A /\ Cardinality(S) <= Cardinality(A)
    <2>1. S \subseteq A
      BY <1>1
    <2> HIDE DEF S, A
    <2> QED BY <1>3, <2>1, FS_Subset
  <1>7. f \in Injection(S, R)
    <2> HIDE DEF from
    <2>1. \A k \in S : k \in 1 .. Len(acts) /\ from[k] # 0 /\ from[k] \in R
      BY <1>1, <1>2, <1>4
    <2> HIDE DEF S, R
    <2> QED BY <1>5, <2>1 DEF Injection, IsInjective
  <1>8. Cardinality(S) <= Cardinality(R) /\ IsFiniteSet(S) /\ Cardinality(S) \in Nat
        /\ (Cardinality(S) = Cardinality(R) <=> f \in Surjection(S, R))
    <2> HIDE DEF S, R, f
    <2> QED BY <1>3, <1>7, FS_Injection, FS_CardinalityType
  <1>9. CASE S = A
    <2> HIDE DEF S, R, A, f, from
    <2>1. Cardinality(S) = IF Cardinality(R) <= Cardinality(A)
                           THEN Cardinality(R) ELSE Cardinality(A)
      BY <1>3, <1>8, <1>9
    <2> QED BY <2>1 DEF Count, Times, S, R, A, from
  <1>10. CASE S # A
    <2>1. PICK k \in 1 .. Len(acts) : acts[k] = a /\ from[k] = 0
      <3> HIDE DEF from
      <3> QED BY <1>1, <1>6, <1>10
    <2>2. ASSUME NEW i \in R PROVE \E l \in S : from[l] = i
      <3> HIDE DEF from
      <3>1. PICK l \in 1 .. k - 1 : from[l] = i
        BY <1>2, <1>4, <2>1
      <3>2. l \in 1 .. Len(acts) /\ i # 0
        OBVIOUS
      <3>3. acts[l] = a
        BY <1>2, <1>4, <3>1, <3>2
      <3> QED BY <1>1, <3>1, <3>2, <3>3
    <2>3. f \in Surjection(S, R)
      <3>1. f \in [S -> R]
        <4> HIDE DEF S, R, f
        <4> QED BY <1>7 DEF Injection
      <3> HIDE DEF S, R, from
      <3> QED BY <2>2, <3>1 DEF Surjection
    <2>4. Cardinality(S) = Cardinality(R)
      BY <1>8, <2>3
    <2> HIDE DEF S, R, A, f, from
    <2>5. Cardinality(S) = IF Cardinality(R) <= Cardinality(A)
                           THEN Cardinality(R) ELSE Cardinality(A)
      BY <1>3, <1>6, <2>4
    <2> QED BY <2>5 DEF Count, Times, S, R, A, from
  <1> QED BY <1>9, <1>10

\* The only row of an action, done, is done again in any plan that holds the action.
LEMMA OnlyRowKept ==
    ASSUME NEW rows \in Seq(Row), NEW acts \in Seq(Action), NEW a \in Action,
           Count(rows, a, Status) = 1, Count(rows, a, {"done"}) = 1, Times(acts, a) > 0
    PROVE  Count(Recorded(rows, acts), a, {"done"}) = 1
  <1> DEFINE from == CarryProgress(rows, acts)
             new == Recorded(rows, acts)
             R == {i \in DOMAIN rows : rows[i].act = a /\ rows[i].status \in Status}
             D == {i \in DOMAIN rows : rows[i].act = a /\ rows[i].status \in {"done"}}
             S == {k \in DOMAIN from : acts[k] = a /\ from[k] # 0}
             N == {k \in DOMAIN new : new[k].act = a /\ new[k].status \in {"done"}}
  <1>1. DOMAIN from = 1 .. Len(acts) /\ DOMAIN new = 1 .. Len(acts)
    BY CarryInOrder, RecordedRows
  <1>2. Cardinality(S) = 1
    <2>1. Times(acts, a) \in Nat
      BY FinitePlaces DEF Times
    <2>2. Cardinality(S) = IF 1 <= Times(acts, a) THEN 1 ELSE Times(acts, a)
      BY CarriedAsMany
    <2> QED BY <2>1, <2>2
  <1>3. D = R
    <2>1. IsFiniteSet(R)
      BY FinitePlaces
    <2>2. D \subseteq R
      BY DEF Status
    <2>3. Cardinality(D) = Cardinality(R)
      BY DEF Count
    <2> HIDE DEF D, R
    <2> QED BY <2>1, <2>2, <2>3, FS_Subset
  <1>4. N = S
    <2>1. \A k \in 1 .. Len(acts) : from[k] # 0 =>
              from[k] \in DOMAIN rows /\ rows[from[k]].act = acts[k]
      BY CarryServes
    <2>2. \A k \in 1 .. Len(acts) :
              /\ new[k].act = acts[k]
              /\ new[k].status = IF from[k] = 0 THEN "pending" ELSE rows[from[k]].status
      BY RecordedRows
    <2>3. \A i \in DOMAIN rows : rows[i] \in Row
      OBVIOUS
    <2>4. \A i \in DOMAIN rows : rows[i].act = a => rows[i].status = "done"
      <3>1. \A i \in DOMAIN rows : rows[i].status \in Status
        BY <2>3 DEF Row
      <3> QED BY <1>3, <3>1
    <2> HIDE DEF from, new
    <2>5. ASSUME NEW k \in N PROVE k \in S
      BY <1>1, <2>2
    <2>6. ASSUME NEW k \in S PROVE k \in N
      BY <1>1, <2>1, <2>2, <2>4
    <2> QED BY <2>5, <2>6
  <1> QED BY <1>2, <1>4 DEF Count

-----------------------------------------------------------------------------
(* The runs.                                                                 *)

\* What the variables range over: a run works through places of its own plan, and marks
\* the first of those left.
Typed ==
    /\ plan \in Seq(Action)
    /\ journal \in Seq(Row)
    /\ ran \in [Action -> Nat]
    /\ pc \in [Process -> {"idle", "reading", "running", "marking"}]
    /\ mine \in [Process -> Seq(Action)]
    /\ todo \in [Process -> SUBSET Nat]
    /\ result \in [Process -> Status]
    /\ \A p \in Process : /\ todo[p] \subseteq DOMAIN mine[p]
                          /\ pc[p] = "idle" => todo[p] = {}
                          /\ pc[p] = "marking" => todo[p] # {}

\* Rows done, and those about to be: the run that executed the action has yet to mark it.
Marks(p, k) == pc[p] = "marking" /\ result[p] = "done" /\ Min(todo[p]) = k
Owed(a) ==
    {k \in DOMAIN journal : /\ journal[k].act = a
                            /\ \/ journal[k].status = "done"
                               \/ \E p \in Process : Marks(p, k)}

\* As long as no plan was recorded under another run, a run's places are the rows' places,
\* and every row done or owed answers to an execution.
PlacesAgree == \A p \in Process : Running(p) => mine[p] = Acts(journal)
OwedWasRun == \A a \in Action : Cardinality(Owed(a)) <= ran[a]
Inv == Typed /\ (~crossed => PlacesAgree /\ OwedWasRun)

\* Nothing recorded, nothing owed.
LEMMA InitInv == Init => Inv
  <1> SUFFICES ASSUME Init PROVE Inv
    OBVIOUS
  <1>1. plan \in Seq(Action)
    BY PlansAreSequences DEF Init
  <1>2. <<>> \in Seq(Row) /\ <<>> \in Seq(Action) /\ DOMAIN <<>> = {}
    OBVIOUS
  <1>3. Typed
    BY <1>1, <1>2 DEF Init, Typed, Status
  <1>4. \A a \in Action : Owed(a) = {}
    BY <1>2 DEF Init, Owed
  <1>5. OwedWasRun
    BY <1>4, FS_EmptySet DEF Init, OwedWasRun
  <1>6. PlacesAgree
    BY DEF Init, PlacesAgree, Running
  <1> QED BY <1>3, <1>5, <1>6 DEF Inv

\* Fewer rows owed, and executions not forgotten, keep the books.
LEMMA OwedShrinks ==
    ASSUME Typed, Typed', OwedWasRun, ran' = ran,
           \A a \in Action : Owed(a)' \subseteq Owed(a)
    PROVE  OwedWasRun'
  <1> SUFFICES ASSUME NEW a \in Action PROVE Cardinality(Owed(a)') <= ran'[a]
    BY DEF OwedWasRun
  <1>1. IsFiniteSet(Owed(a)) /\ Cardinality(Owed(a)) \in Nat
    BY FinitePlaces DEF Typed, Owed
  <1>2. Cardinality(Owed(a)') <= Cardinality(Owed(a)) /\ Cardinality(Owed(a)') \in Nat
    BY <1>1, FS_Subset, FS_CardinalityType
  <1>3. Cardinality(Owed(a)) <= ran[a] /\ ran[a] \in Nat
    BY DEF OwedWasRun, Typed
  <1> QED BY <1>1, <1>2, <1>3

\* A publication leaves rows where they are, completes the routes that were waiting, and
\* counts each of them.
LEMMA PublishedRows ==
    ASSUME Typed, Publish
    PROVE  /\ journal' \in Seq(Row)
           /\ Acts(journal') = Acts(journal)
           /\ DOMAIN journal' = DOMAIN journal
           /\ \A k \in DOMAIN journal :
                 /\ journal'[k].act = journal[k].act
                 /\ journal'[k].status =
                       IF journal[k].act \in Routed /\ journal[k].status = "unimplemented"
                       THEN "done" ELSE journal[k].status
           /\ ran' \in [Action -> Nat]
           /\ \A a \in Action :
                 /\ Count(journal, a, {"unimplemented"}) \in Nat
                 /\ ran'[a] = IF a \in Routed THEN ran[a] + Count(journal, a, {"unimplemented"})
                                             ELSE ran[a]
  <1> DEFINE row(k) == IF journal[k].act \in Routed /\ journal[k].status = "unimplemented"
                       THEN [journal[k] EXCEPT !.status = "done"] ELSE journal[k]
  <1>1. journal' = [k \in 1 .. Len(journal) |-> row(k)] /\ Len(journal) \in Nat
        /\ DOMAIN journal = 1 .. Len(journal)
    BY DEF Publish, Typed
  <1>2. \A k \in 1 .. Len(journal) :
            /\ row(k) \in Row /\ row(k).act = journal[k].act
            /\ row(k).status = IF journal[k].act \in Routed /\ journal[k].status = "unimplemented"
                               THEN "done" ELSE journal[k].status
    <2>1. \A k \in 1 .. Len(journal) : journal[k] \in Row
      BY DEF Typed
    <2> QED BY <2>1 DEF Row, Status
  <1> HIDE DEF row
  <1>3. journal' \in Seq(Row) /\ DOMAIN journal' = DOMAIN journal
        /\ \A k \in DOMAIN journal : journal'[k] = row(k)
    BY <1>1, <1>2
  <1>4. Acts(journal') = Acts(journal)
    BY <1>1, <1>2, <1>3 DEF Acts
  <1>5. \A a \in Action : Count(journal, a, {"unimplemented"}) \in Nat
    BY FinitePlaces DEF Typed, Count
  <1>6. ran' \in [Action -> Nat] /\ \A a \in Action :
            ran'[a] = IF a \in Routed THEN ran[a] + Count(journal, a, {"unimplemented"}) ELSE ran[a]
    BY <1>5 DEF Publish, Typed
  <1> QED BY <1>1, <1>2, <1>3, <1>4, <1>5, <1>6

\* No step takes a variable out of what it ranges over.
LEMMA TypedStep ==
    ASSUME Typed, [Next]_vars
    PROVE  Typed'
  <1>1. <<>> \in Seq(Row) /\ <<>> \in Seq(Action) /\ DOMAIN <<>> = {}
    OBVIOUS
  <1>2. ASSUME NEW p \in Process, Record(p) PROVE Typed'
    <2>1. journal' \in Seq(Row)
      BY <1>2, RecordedRows DEF Record, Typed
    <2> QED BY <1>2, <2>1 DEF Record, Typed
  <1>3. ASSUME NEW p \in Process, Read(p) PROVE Typed'
    <2>1. DOMAIN mine[p] \subseteq Nat
      BY DEF Typed
    <2>2. PICK more \in SUBSET DOMAIN mine[p] : todo' = [todo EXCEPT ![p] = more]
      BY <1>3 DEF Read, Completed
    <2> QED BY <1>3, <2>1, <2>2 DEF Read, Typed
  <1>4. ASSUME NEW p \in Process, Execute(p) PROVE Typed'
    <2> DEFINE a == mine[p][Min(todo[p])]
    <2>1. PICK s \in Status :
              /\ result' = [result EXCEPT ![p] = s]
              /\ ran' = [ran EXCEPT ![a] = IF s = "done" THEN @ + 1 ELSE @]
      BY <1>4 DEF Execute
    <2>0. a \in Action
      <3>1. Min(todo[p]) \in DOMAIN mine[p] /\ mine[p] \in Seq(Action)
        BY <1>4, MinIsLeast DEF Execute, Typed
      <3> QED BY <3>1
    <2> HIDE DEF a
    <2>2. ran' \in [Action -> Nat]
      <3>1. CASE s = "done"
        BY <2>0, <2>1, <3>1 DEF Typed
      <3>2. CASE s # "done"
        BY <2>0, <2>1, <3>2 DEF Typed
      <3> QED BY <3>1, <3>2
    <2>3. result' \in [Process -> Status]
      BY <2>1 DEF Typed
    <2> QED BY <1>4, <2>2, <2>3 DEF Execute, Typed
  <1>5. ASSUME NEW p \in Process, End(p) PROVE
            /\ pc' \in [Process -> {"idle", "reading", "running", "marking"}]
            /\ mine' \in [Process -> Seq(Action)]
            /\ todo' \in [Process -> SUBSET Nat]
            /\ result' \in [Process -> Status]
            /\ \A q \in Process : /\ todo'[q] \subseteq DOMAIN mine'[q]
                                  /\ pc'[q] = "idle" => todo'[q] = {}
                                  /\ pc'[q] = "marking" => todo'[q] # {}
    BY <1>1, <1>5 DEF End, Typed, Status
  <1>6. ASSUME NEW p \in Process, Mark(p) PROVE Typed'
    <2> DEFINE row(k) == IF k = Min(todo[p]) THEN [journal[k] EXCEPT !.status = result[p]]
                         ELSE journal[k]
    <2>1. journal' = [k \in 1 .. Len(journal) |-> row(k)] /\ Len(journal) \in Nat
      BY <1>6 DEF Mark, Typed
    <2>2. \A k \in 1 .. Len(journal) : row(k) \in Row
      <3>1. \A k \in 1 .. Len(journal) : journal[k] \in Row
        BY DEF Typed
      <3> QED BY <3>1 DEF Typed, Row
    <2> HIDE DEF row
    <2>3. journal' \in Seq(Row)
      BY <2>1, <2>2
    <2>4. CASE result[p] = "failed"
      BY <1>5, <1>6, <2>3, <2>4 DEF Mark, Typed
    <2>5. CASE result[p] # "failed"
      <3> DEFINE left == todo[p] \ {Min(todo[p])}
      <3>1. /\ pc' = [pc EXCEPT ![p] = "running"]
            /\ todo' = [todo EXCEPT ![p] = left]
            /\ result' = [result EXCEPT ![p] = "done"]
            /\ UNCHANGED <<plan, ran, mine>>
        BY <1>6, <2>5 DEF Mark
      <3>2. left \subseteq todo[p]
        OBVIOUS
      <3> HIDE DEF left
      <3> QED BY <2>3, <3>1, <3>2 DEF Typed, Status
    <2> QED BY <2>4, <2>5
  <1>7. ASSUME NEW p \in Process, Stop(p) PROVE Typed'
    BY <1>5, <1>7 DEF Stop, Typed
  <1>11. CASE Publish
    <2>1. journal' \in Seq(Row) /\ ran' \in [Action -> Nat]
      BY <1>11, PublishedRows
    <2> QED BY <1>11, <2>1 DEF Publish, Typed, run
  <1>8. CASE Replan
    BY <1>8, PlansAreSequences DEF Replan, Typed, run
  <1>9. CASE Reset
    BY <1>1, <1>9 DEF Reset, Typed, run
  <1>10. CASE UNCHANGED vars
    BY <1>10 DEF vars, Typed
  <1> QED BY <1>2, <1>3, <1>4, <1>6, <1>7, <1>8, <1>9, <1>10, <1>11 DEF Next

\* The place a run works at is a row's place, of the action it runs.
LEMMA PlaceOfRun ==
    ASSUME Typed, PlacesAgree, NEW p \in Process, Running(p), todo[p] # {}
    PROVE  /\ Min(todo[p]) \in DOMAIN journal
           /\ mine[p][Min(todo[p])] = journal[Min(todo[p])].act
  <1>1. Min(todo[p]) \in DOMAIN mine[p]
    BY MinIsLeast DEF Typed
  <1>2. mine[p] = Acts(journal)
    BY DEF PlacesAgree
  <1> QED BY <1>1, <1>2 DEF Acts

\* A run that records the plan the rows hold leaves them; one that records another is
\* alone, and carries no more done rows than there were.
LEMMA RecordKeeps ==
    ASSUME Inv, NEW p \in Process, Record(p), ~crossed'
    PROVE  PlacesAgree' /\ OwedWasRun'
  <1>1. Typed /\ PlacesAgree /\ OwedWasRun /\ ~crossed
    BY DEF Inv, Record
  <1>2. Typed'
    BY <1>1, TypedStep DEF Next
  <1>3. journal \in Seq(Row) /\ plan \in Seq(Action)
    BY <1>1 DEF Typed
  <1>4. journal' = Recorded(journal, plan) /\ Acts(journal') = plan
    BY <1>3, RecordedRows DEF Record
  <1>5. pc' = [pc EXCEPT ![p] = "reading"] /\ mine' = [mine EXCEPT ![p] = plan]
        /\ UNCHANGED <<todo, result, ran>>
    BY DEF Record
  <1>6. \A q \in Process : \A k : Marks(q, k)' => Marks(q, k)
    BY <1>1, <1>5 DEF Marks, Typed
  <1>7. CASE Acts(journal') = Acts(journal)
    <2>1. journal' = journal
      BY <1>3, <1>4, <1>7, RecordedSame
    <2>2. PlacesAgree'
      BY <1>1, <1>4, <1>5, <2>1 DEF PlacesAgree, Running, Typed
    <2>3. \A a \in Action : Owed(a)' \subseteq Owed(a)
      BY <1>6, <2>1 DEF Owed
    <2> QED BY <1>1, <1>2, <1>5, <2>2, <2>3, OwedShrinks
  <1>8. CASE Acts(journal') # Acts(journal)
    <2>1. \A q \in Process : pc[q] = "idle"
      BY <1>8 DEF Record, Running
    <2>2. PlacesAgree'
      BY <1>1, <1>4, <1>5, <2>1 DEF PlacesAgree, Running, Typed
    <2>3. ASSUME NEW a \in Action PROVE Cardinality(Owed(a)') <= ran'[a]
      <3>1. Owed(a) = {k \in DOMAIN journal :
                          journal[k].act = a /\ journal[k].status \in {"done"}}
        BY <2>1 DEF Owed, Marks
      <3>2. Owed(a)' = {k \in DOMAIN journal' :
                          journal'[k].act = a /\ journal'[k].status \in {"done"}}
        BY <1>6, <2>1 DEF Owed, Marks
      <3>3. Cardinality(Owed(a)') <= Cardinality(Owed(a))
        BY <1>3, <1>4, <3>1, <3>2, NoneDoneAnew DEF Count
      <3>4. Cardinality(Owed(a)) \in Nat
        BY <1>3, FinitePlaces DEF Owed
      <3>5. Cardinality(Owed(a)') \in Nat
        BY <1>2, FinitePlaces DEF Typed, Owed
      <3>6. Cardinality(Owed(a)) <= ran[a] /\ ran[a] \in Nat
        BY <1>1 DEF OwedWasRun, Typed
      <3> QED BY <1>5, <3>3, <3>4, <3>5, <3>6
    <2> QED BY <2>2, <2>3 DEF OwedWasRun
  <1> QED BY <1>7, <1>8

\* An action executed to its end owes one row at most, and is counted.
LEMMA ExecuteKeeps ==
    ASSUME Inv, NEW p \in Process, Execute(p), ~crossed'
    PROVE  PlacesAgree' /\ OwedWasRun'
  <1>1. Typed /\ PlacesAgree /\ OwedWasRun /\ ~crossed
    BY DEF Inv, Execute
  <1>2. Typed'
    BY <1>1, TypedStep DEF Next
  <1> DEFINE k0 == Min(todo[p])
             a0 == mine[p][k0]
  <1>3. /\ pc[p] = "running" /\ todo[p] # {} /\ pc' = [pc EXCEPT ![p] = "marking"]
        /\ UNCHANGED <<journal, mine, todo>>
    BY DEF Execute
  <1>4. PICK s \in Status :
            /\ result' = [result EXCEPT ![p] = s]
            /\ ran' = [ran EXCEPT ![a0] = IF s = "done" THEN @ + 1 ELSE @]
    BY DEF Execute
  <1>5. k0 \in DOMAIN journal /\ a0 = journal[k0].act
    BY <1>1, <1>3, PlaceOfRun DEF Running
  <1>6. a0 \in Action
    <2>1. journal[k0] \in Row
      BY <1>1, <1>5 DEF Typed
    <2> HIDE DEF k0, a0
    <2> QED BY <1>5, <2>1 DEF Row
  <1>7. PlacesAgree'
    BY <1>1, <1>3 DEF PlacesAgree, Running, Typed
  <1>8. \A q \in Process : \A k : Marks(q, k)' => Marks(q, k) \/ (k = k0 /\ s = "done")
    BY <1>1, <1>3, <1>4 DEF Marks, Typed
  <1> HIDE DEF a0, k0
  <1>9. ASSUME NEW a \in Action PROVE Cardinality(Owed(a)') <= ran'[a]
    <2>1. /\ Cardinality(Owed(a)) <= ran[a] /\ ran[a] \in Nat
          /\ IsFiniteSet(Owed(a)) /\ Cardinality(Owed(a)) \in Nat
      <3>1. IsFiniteSet(Owed(a)) /\ Cardinality(Owed(a)) \in Nat
        BY <1>1, FinitePlaces DEF Typed, Owed
      <3> QED BY <1>1, <3>1 DEF OwedWasRun, Typed
    <2>2. Cardinality(Owed(a)') \in Nat
      BY <1>2, FinitePlaces DEF Typed, Owed
    <2>3. CASE s = "done" /\ a = a0
      <3>1. Owed(a)' \subseteq Owed(a) \cup {k0}
        BY <1>3, <1>8 DEF Owed
      <3>2. /\ IsFiniteSet(Owed(a) \cup {k0})
            /\ Cardinality(Owed(a) \cup {k0}) \in Nat
            /\ Cardinality(Owed(a) \cup {k0}) <= Cardinality(Owed(a)) + 1
        <4>1. /\ IsFiniteSet(Owed(a) \cup {k0})
              /\ Cardinality(Owed(a) \cup {k0}) =
                    IF k0 \in Owed(a) THEN Cardinality(Owed(a)) ELSE Cardinality(Owed(a)) + 1
          BY <2>1, FS_AddElement
        <4> QED BY <2>1, <4>1
      <3>3. Cardinality(Owed(a)') <= Cardinality(Owed(a) \cup {k0})
        BY <3>1, <3>2, FS_Subset
      <3>4. ran'[a] = ran[a] + 1
        BY <1>1, <1>4, <2>3 DEF Typed
      <3> QED BY <2>1, <2>2, <3>2, <3>3, <3>4
    <2>4. CASE ~(s = "done" /\ a = a0)
      <3>1. Owed(a)' \subseteq Owed(a)
        BY <1>3, <1>5, <1>8, <2>4 DEF Owed
      <3>2. Cardinality(Owed(a)') <= Cardinality(Owed(a))
        BY <2>1, <3>1, FS_Subset
      <3>3. ran'[a] = ran[a]
        BY <1>1, <1>4, <1>6, <2>4 DEF Typed
      <3> QED BY <2>1, <2>2, <3>2, <3>3
    <2> QED BY <2>3, <2>4
  <1> QED BY <1>7, <1>9 DEF OwedWasRun

\* A row marked was owed if it is marked done, and owed no more if it is not.
LEMMA MarkKeeps ==
    ASSUME Inv, NEW p \in Process, Mark(p), ~crossed'
    PROVE  PlacesAgree' /\ OwedWasRun'
  <1>1. Typed /\ PlacesAgree /\ OwedWasRun /\ ~crossed
    BY DEF Inv, Mark
  <1>2. Typed'
    BY <1>1, TypedStep DEF Next
  <1>3. /\ DOMAIN journal' = DOMAIN journal
        /\ \A k \in DOMAIN journal :
              /\ journal'[k].act = journal[k].act
              /\ journal'[k].status = IF k = Min(todo[p]) THEN result[p] ELSE journal[k].status
    <2>1. \A k \in DOMAIN journal : journal[k] \in Row
      BY <1>1 DEF Typed
    <2> QED BY <2>1 DEF Mark, Row
  <1>4. Acts(journal') = Acts(journal)
    BY <1>3 DEF Acts
  <1>5. /\ pc[p] = "marking" /\ ran' = ran
        /\ \A q \in Process \ {p} : /\ pc'[q] = pc[q] /\ mine'[q] = mine[q]
                                    /\ todo'[q] = todo[q] /\ result'[q] = result[q]
        /\ pc'[p] \in {"idle", "running"}
        /\ pc'[p] = "running" => mine'[p] = mine[p]
    BY <1>1 DEF Mark, End, Typed
  <1>6. PlacesAgree'
    BY <1>1, <1>4, <1>5 DEF PlacesAgree, Running
  <1>7. \A q \in Process : \A k : Marks(q, k)' => Marks(q, k)
    BY <1>5 DEF Marks
  <1>8. ASSUME NEW a \in Action, NEW k \in Owed(a)' PROVE k \in Owed(a)
    <2>1. /\ k \in DOMAIN journal /\ journal[k].act = a
          /\ journal'[k].status = "done" \/ \E q \in Process : Marks(q, k)'
      BY <1>3 DEF Owed
    <2>2. journal'[k].status = "done" => journal[k].status = "done" \/ Marks(p, k)
      BY <1>3, <1>5, <2>1 DEF Marks
    <2> QED BY <1>7, <2>1, <2>2 DEF Owed
  <1> QED BY <1>1, <1>2, <1>5, <1>6, <1>8, OwedShrinks

\* A route completed by a publication is owed once more, and counted once more.
LEMMA PublishKeeps ==
    ASSUME Inv, Publish, ~crossed'
    PROVE  PlacesAgree' /\ OwedWasRun'
  <1>1. Typed /\ PlacesAgree /\ OwedWasRun /\ ~crossed
    BY DEF Inv, Publish
  <1>2. Typed'
    BY <1>1, TypedStep DEF Next
  <1>3. UNCHANGED <<pc, mine, todo, result>>
    BY DEF Publish, run
  <1>4. PlacesAgree'
    BY <1>1, <1>3, PublishedRows DEF PlacesAgree, Running
  <1>5. ASSUME NEW a \in Action PROVE Cardinality(Owed(a)') <= ran'[a]
    <2> DEFINE W == {k \in DOMAIN journal :
                        journal[k].act = a /\ journal[k].status \in {"unimplemented"}}
    <2>1. /\ Cardinality(Owed(a)) <= ran[a] /\ ran[a] \in Nat
          /\ IsFiniteSet(Owed(a)) /\ Cardinality(Owed(a)) \in Nat
      <3>1. IsFiniteSet(Owed(a)) /\ Cardinality(Owed(a)) \in Nat
        BY <1>1, FinitePlaces DEF Typed, Owed
      <3> QED BY <1>1, <3>1 DEF OwedWasRun, Typed
    <2>2. Cardinality(Owed(a)') \in Nat
      BY <1>2, FinitePlaces DEF Typed, Owed
    <2>3. IsFiniteSet(W) /\ Cardinality(W) \in Nat
      BY <1>1, FinitePlaces DEF Typed
    <2>4. \A q \in Process : \A k : Marks(q, k)' <=> Marks(q, k)
      BY <1>3 DEF Marks
    <2>5. Cardinality(W) = Count(journal, a, {"unimplemented"})
      BY DEF Count
    <2>6. CASE a \in Routed
      <3>1. Owed(a)' \subseteq Owed(a) \cup W
        BY <1>1, <2>4, PublishedRows DEF Owed
      <3> HIDE DEF W
      <3>2. /\ IsFiniteSet(Owed(a) \cup W)
            /\ Cardinality(Owed(a) \cup W) \in Nat
            /\ Cardinality(Owed(a) \cup W) <= Cardinality(Owed(a)) + Cardinality(W)
        <4>1. /\ IsFiniteSet(Owed(a) \cup W)
              /\ Cardinality(Owed(a) \cup W) =
                    Cardinality(Owed(a)) + Cardinality(W) - Cardinality(Owed(a) \cap W)
          BY <2>1, <2>3, FS_Union
        <4>2. Cardinality(Owed(a) \cap W) \in Nat
          BY <2>1, FS_Intersection, FS_CardinalityType
        <4>3. Cardinality(Owed(a) \cup W) \in Nat
          BY <4>1, FS_CardinalityType
        <4> QED BY <2>1, <2>3, <4>1, <4>2, <4>3
      <3>3. Cardinality(Owed(a)') <= Cardinality(Owed(a) \cup W)
        BY <3>1, <3>2, FS_Subset
      <3>4. ran'[a] = ran[a] + Cardinality(W)
        BY <1>1, <2>5, <2>6, PublishedRows
      <3> QED BY <2>1, <2>2, <2>3, <3>2, <3>3, <3>4
    <2>7. CASE a \notin Routed
      <3>1. Owed(a)' \subseteq Owed(a)
        BY <1>1, <2>4, <2>7, PublishedRows DEF Owed
      <3>2. Cardinality(Owed(a)') <= Cardinality(Owed(a))
        BY <2>1, <3>1, FS_Subset
      <3>3. ran'[a] = ran[a]
        BY <1>1, <2>7, PublishedRows
      <3> QED BY <2>1, <2>2, <3>2, <3>3
    <2> QED BY <2>6, <2>7
  <1> QED BY <1>4, <1>5 DEF OwedWasRun

\* Every step of a run, of a publication, of the resolver and of a reset keeps the books.
LEMMA NextInv ==
    ASSUME Inv, [Next]_vars
    PROVE  Inv'
  <1>1. Typed /\ Typed'
    BY TypedStep DEF Inv
  <1> SUFFICES ASSUME ~crossed' PROVE PlacesAgree' /\ OwedWasRun'
    BY <1>1 DEF Inv
  <1>2. CASE \E p \in Process : Record(p) \/ Execute(p) \/ Mark(p)
    BY <1>2, RecordKeeps, ExecuteKeeps, MarkKeeps
  <1>3. ASSUME NEW p \in Process, Read(p) PROVE PlacesAgree' /\ OwedWasRun'
    <2>1. PlacesAgree /\ OwedWasRun /\ UNCHANGED <<journal, mine, result, ran>>
      BY <1>3 DEF Inv, Read
    <2>2. PlacesAgree'
      BY <1>1, <1>3, <2>1 DEF PlacesAgree, Running, Read, Typed
    <2>3. \A q \in Process : \A k : Marks(q, k)' => Marks(q, k)
      BY <1>1, <1>3 DEF Marks, Read, Typed
    <2>4. \A a \in Action : Owed(a)' \subseteq Owed(a)
      BY <2>1, <2>3 DEF Owed
    <2> QED BY <1>1, <2>1, <2>2, <2>4, OwedShrinks
  <1>4. ASSUME NEW p \in Process, Stop(p) PROVE PlacesAgree' /\ OwedWasRun'
    <2>1. PlacesAgree /\ OwedWasRun /\ UNCHANGED <<journal, ran>>
      BY <1>4 DEF Inv, Stop
    <2>2. PlacesAgree'
      BY <1>1, <1>4, <2>1 DEF PlacesAgree, Running, Stop, End, Typed
    <2>3. \A q \in Process : \A k : Marks(q, k)' => Marks(q, k)
      BY <1>1, <1>4 DEF Marks, Stop, End, Typed
    <2>4. \A a \in Action : Owed(a)' \subseteq Owed(a)
      BY <2>1, <2>3 DEF Owed
    <2> QED BY <1>1, <2>1, <2>2, <2>4, OwedShrinks
  <1>5. CASE Replan \/ UNCHANGED vars
    <2>1. PlacesAgree /\ OwedWasRun /\ UNCHANGED <<journal, ran, pc, mine, todo, result>>
      BY <1>5 DEF Inv, Replan, run, vars
    <2>2. PlacesAgree'
      BY <2>1 DEF PlacesAgree, Running
    <2>3. \A a \in Action : Owed(a)' \subseteq Owed(a)
      BY <2>1 DEF Owed, Marks
    <2> QED BY <1>1, <2>1, <2>2, <2>3, OwedShrinks
  <1>6. CASE Reset
    <2>1. PlacesAgree'
      BY <1>6 DEF Reset, run, PlacesAgree, Running
    <2>2. \A a \in Action : Owed(a)' = {} /\ ran'[a] = 0
      BY <1>6 DEF Reset, Owed
    <2>3. OwedWasRun'
      BY <2>2, FS_EmptySet DEF OwedWasRun
    <2> QED BY <2>1, <2>3
  <1> QED BY <1>2, <1>3, <1>4, <1>5, <1>6, PublishKeeps DEF Next

\* So the books are kept in every state.
LEMMA InvAlways == Spec => []Inv
  BY InitInv, NextInv, PTL DEF Spec

-----------------------------------------------------------------------------
\* record_plan, set_action_status and complete_unimplemented, for any plans, runs, deaths,
\* publications and resets: a row is done only for an action that was executed to its end,
\* or whose route a publication served, since the last reset, as long as no run records
\* another plan, or resets it, under another.
THEOREM DoneRowsWereRun == Spec => []DoneWasRun
  <1>1. Inv => DoneWasRun
    <2> SUFFICES ASSUME Inv, ~crossed, NEW a \in Action
                 PROVE  Count(journal, a, {"done"}) <= ran[a]
      BY DEF DoneWasRun
    <2> DEFINE D == {k \in DOMAIN journal : journal[k].act = a /\ journal[k].status \in {"done"}}
    <2>1. D \subseteq Owed(a)
      BY DEF Owed
    <2>2. /\ IsFiniteSet(Owed(a)) /\ Cardinality(Owed(a)) \in Nat
          /\ Cardinality(D) \in Nat
      BY FinitePlaces DEF Inv, Typed, Owed
    <2>3. Cardinality(Owed(a)) <= ran[a] /\ ran[a] \in Nat
      BY DEF Inv, OwedWasRun, Typed
    <2> HIDE DEF D
    <2>4. Cardinality(D) <= Cardinality(Owed(a))
      BY <2>1, <2>2, FS_Subset
    <2>5. Cardinality(D) <= ran[a]
      BY <2>2, <2>3, <2>4
    <2> QED BY <2>5 DEF Count, D
  <1> QED BY <1>1, InvAlways, PTL

\* record_plan of the plan recorded already, in every journal runs can leave, changes
\* no row: rerunning a plan puts nothing back to pending.
THEOREM RecordingAgainIsStable == Spec => []RecordedIsStable
  <1>1. Inv => RecordedIsStable
    <2> SUFFICES ASSUME Inv PROVE Recorded(journal, Acts(journal)) = journal
      BY DEF RecordedIsStable
    <2>1. journal \in Seq(Row)
      BY DEF Inv, Typed
    <2>2. Acts(journal) \in Seq(Action)
      <3>1. \A k \in 1 .. Len(journal) : journal[k].act \in Action
        <4>1. \A k \in 1 .. Len(journal) : journal[k] \in Row
          BY <2>1
        <4> QED BY <4>1 DEF Row
      <3>2. Acts(journal) \in [1 .. Len(journal) -> Action] /\ Len(journal) \in Nat
        BY <2>1, <3>1 DEF Acts
      <3> QED BY <3>2
    <2> QED BY <2>1, <2>2, RecordedSame
  <1> QED BY <1>1, InvAlways, PTL

\* carry_progress, whatever the next plan: no row serves two of its actions, and as many
\* of each sort are served as the rows and the plan both hold.
THEOREM ProgressCarriedOnce == Spec => []CarriedOnce
  <1>1. Inv => CarriedOnce
    <2> SUFFICES ASSUME Inv, NEW acts \in Plans
                 PROVE  LET from == CarryProgress(journal, acts)
                        IN  /\ \A j, k \in DOMAIN from : j # k /\ from[j] # 0 => from[j] # from[k]
                            /\ \A a \in Action :
                                  LET rows == Count(journal, a, Status)
                                  IN  Cardinality({k \in DOMAIN from : acts[k] = a /\ from[k] # 0})
                                        = IF rows <= Times(acts, a) THEN rows ELSE Times(acts, a)
      BY DEF CarriedOnce
    <2>1. journal \in Seq(Row) /\ acts \in Seq(Action)
      BY PlansAreSequences DEF Inv, Typed
    <2>2. DOMAIN CarryProgress(journal, acts) = 1 .. Len(acts)
      BY <2>1, CarryInOrder
    <2>3. \A j, k \in 1 .. Len(acts) : j # k /\ CarryProgress(journal, acts)[j] # 0 =>
              CarryProgress(journal, acts)[j] # CarryProgress(journal, acts)[k]
      BY <2>1, CarryInjective
    <2>4. \A a \in Action :
              Cardinality({k \in DOMAIN CarryProgress(journal, acts) :
                              acts[k] = a /\ CarryProgress(journal, acts)[k] # 0})
                = IF Count(journal, a, Status) <= Times(acts, a)
                  THEN Count(journal, a, Status) ELSE Times(acts, a)
      BY <2>1, CarriedAsMany
    <2> QED BY <2>2, <2>3, <2>4
  <1> QED BY <1>1, InvAlways, PTL

\* record_plan, whatever the next plan: an action recorded once and done is done in it
\* too, wherever the plan now puts it.
THEOREM DoneStaysDoneAlways == Spec => []DoneStaysDone
  <1>1. Inv => DoneStaysDone
    <2>1. ASSUME Inv, NEW acts \in Plans PROVE journal \in Seq(Row) /\ acts \in Seq(Action)
      BY <2>1, PlansAreSequences DEF Inv, Typed
    <2> QED BY <2>1, OnlyRowKept DEF DoneStaysDone
  <1> QED BY <1>1, InvAlways, PTL
=============================================================================
