--------------------------- MODULE CoachingProofs ---------------------------
(***************************************************************************)
(* Proofs about what a game is reduced to: for any values of its plies the *)
(* segments cover it without a gap, differ from their neighbours, and      *)
(* begin where the values read like them.                                  *)
(*                                                                         *)
(* What is known after a ply follows from the ply before it; a property of *)
(* every ply is had from its first counterexample (Reaches).               *)
(***************************************************************************)
EXTENDS Coaching, FiniteSetTheorems, WellFoundedInduction, TLAPS

\* There is a least of natural numbers.
LEMMA LeastOf ==
  ASSUME NEW Keys, Keys # {}, NEW f, \A k \in Keys : f[k] \in Nat
  PROVE  \E k \in Keys : \A j \in Keys : f[k] <= f[j]
<1> DEFINE N == {f[k] : k \in Keys}
<1>1. N \subseteq Nat /\ N # {}
  OBVIOUS
<1>2. \E x \in N : \A y \in N : ~(<<y, x>> \in OpToRel(<, Nat))
  <2>. HIDE DEF N
  <2>. QED  BY <1>1, NatLessThanWellFounded, WFMin
<1>3. \E x \in N : \A y \in N : x <= y
  <2>1. \A x \in Nat, y \in Nat : y < x => <<y, x>> \in OpToRel(<, Nat)
    BY DEF OpToRel
  <2>. HIDE DEF N
  <2>2. PICK x \in N : \A y \in N : ~(<<y, x>> \in OpToRel(<, Nat))
    BY <1>2
  <2>3. ASSUME NEW y \in N PROVE x <= y
    <3>1. x \in Nat /\ y \in Nat /\ ~(y < x)
      BY <1>1, <2>1, <2>2
    <3>. QED  BY <3>1
  <2>. QED  BY <2>3
<1>. QED  BY <1>3

\* What holds of 1, and of a number because it holds of the one before, holds of all.
LEMMA Reaches ==
  ASSUME NEW n \in Nat, NEW S, 1 \in S, \A k \in 1..(n - 1) : k \in S => k + 1 \in S
  PROVE  \A k \in 1..n : k \in S
<1> DEFINE Out == {k \in 1..n : k \notin S}
           same == [k \in Out |-> k]
<1>. SUFFICES ASSUME Out # {} PROVE FALSE
  OBVIOUS
<1>1. \A k \in Out : same[k] \in Nat
  OBVIOUS
<1>2. PICK j \in Out : \A k \in Out : same[j] <= same[k]
  <2>. HIDE DEF Out, same
  <2>. QED  BY <1>1, LeastOf
<1>3. j \in 1..n /\ j \notin S /\ j # 1
  BY <1>2
<1>4. j - 1 \in 1..(n - 1) /\ (j - 1) + 1 = j
  BY <1>3
<1>5. j - 1 \notin S
  BY <1>3, <1>4
<1>6. j - 1 \in Out
  BY <1>4, <1>5
<1>7. same[j] = j /\ same[j - 1] = j - 1
  BY <1>2, <1>6
<1>. QED  BY <1>2, <1>3, <1>6, <1>7

---------------------------------------------------------------------------
\* After each ply is known what is observed of it after the one before.
LEMMA RunsExist ==
  ASSUME NEW raw, Len(raw) \in Nat \ {0}
  PROVE  \E run : run = [n \in 1..Len(raw) |-> IF n = 1 THEN Started(raw[1])
                                               ELSE Observe(run[n - 1], raw[n])]
<1> DEFINE Known(m, run) == run = [n \in 1..m |-> IF n = 1 THEN Started(raw[1])
                                                  ELSE Observe(run[n - 1], raw[n])]
           S == {m \in Nat : \E run : Known(m, run)}
<1>1. 1 \in S
  <2>1. Known(1, [n \in 1..1 |-> Started(raw[1])])
    OBVIOUS
  <2>. QED  BY <2>1
<1>2. ASSUME NEW m \in 1..(Len(raw) - 1), m \in S PROVE m + 1 \in S
  <2>1. PICK run : Known(m, run)
    BY <1>2
  <2> DEFINE longer == [n \in 1..(m + 1) |-> IF n = m + 1 THEN Observe(run[m], raw[m + 1]) ELSE run[n]]
  <2>2. ASSUME NEW n \in 1..(m + 1)
        PROVE  longer[n] = IF n = 1 THEN Started(raw[1]) ELSE Observe(longer[n - 1], raw[n])
    <3>1. CASE n = m + 1
      <4>1. n # 1 /\ n - 1 = m /\ m \in 1..(m + 1) /\ m # m + 1
        BY <3>1
      <4>2. longer[n] = Observe(run[m], raw[n]) /\ longer[m] = run[m]
        BY <3>1, <4>1
      <4>. QED  BY <4>1, <4>2
    <3>2. CASE n # m + 1 /\ n = 1
      <4>1. 1 \in 1..m
        OBVIOUS
      <4>2. run[1] = Started(raw[1])
        BY <2>1, <4>1
      <4>. QED  BY <3>2, <4>2
    <3>3. CASE n # m + 1 /\ n # 1
      <4>1. n \in 1..m /\ n - 1 \in 1..(m + 1) /\ n - 1 # m + 1
        BY <3>3
      <4>2. longer[n] = run[n] /\ longer[n - 1] = run[n - 1]
        BY <3>3, <4>1
      <4>3. run[n] = Observe(run[n - 1], raw[n])
        BY <2>1, <3>3, <4>1
      <4>. QED  BY <3>3, <4>2, <4>3
    <3>. QED  BY <3>1, <3>2, <3>3
  <2>3. Known(m + 1, longer)
    <3>1. longer = [n \in 1..(m + 1) |-> longer[n]]
      OBVIOUS
    <3>. HIDE DEF longer
    <3>. QED  BY <2>2, <3>1
  <2>. HIDE DEF longer, Known
  <2>. QED  BY <2>3
<1>3. Len(raw) \in S
  <2>1. \A m \in 1..(Len(raw) - 1) : m \in S => m + 1 \in S
    BY <1>2
  <2>. DEFINE n == Len(raw)
  <2>2. n \in Nat /\ n \in 1..n
    OBVIOUS
  <2>. HIDE DEF S
  <2>3. \A k \in 1..n : k \in S
    BY <1>1, <2>1, <2>2, Reaches
  <2>. QED  BY <2>2, <2>3
<1>. QED  BY <1>3

LEMMA ConfirmedRuns ==
  ASSUME NEW raw, Len(raw) \in Nat \ {0}
  PROVE  /\ Confirmed(raw)[1] = Started(raw[1])
         /\ \A n \in 2..Len(raw) :
              Confirmed(raw)[n] = Observe(Confirmed(raw)[n - 1], raw[n])
<1> DEFINE Known(run) == run = [n \in 1..Len(raw) |-> IF n = 1 THEN Started(raw[1])
                                                       ELSE Observe(run[n - 1], raw[n])]
<1>1. \E run : Known(run)
  BY RunsExist
<1>2. Confirmed(raw) = CHOOSE run : Known(run)
  BY DEF Confirmed
<1>3. Known(Confirmed(raw))
  <2>. HIDE DEF Known
  <2>. QED  BY <1>1, <1>2
<1>. QED  BY <1>3

---------------------------------------------------------------------------
\* What is known after n plies: a state holds from a ply that reads like it, and
\* is confirmed there or at the ply after; a state that was seen once and not yet
\* again was seen last.
Turned(run, k) == run.states[k] # run.states[k - 1]

RunFits(raw, n, run) ==
  /\ DOMAIN run = {"states", "pending", "since", "causes"}
  /\ run.states \in [1..n -> 0..6]
  /\ \A k \in 2..n : Turned(run, k) =>
       /\ k \in DOMAIN run.causes /\ run.causes[k] \in {k, k + 1} /\ run.causes[k] <= n
       /\ run.states[k] = raw[k] /\ run.states[run.causes[k]] = run.states[k]
  /\ run.pending # None =>
       /\ n >= 2 /\ run.since = n /\ run.pending = raw[n] /\ ~Turned(run, n)
       /\ \A k \in 2..n : Turned(run, k) => run.causes[k] < n

LEMMA LongerBy ==
  ASSUME NEW n \in Nat, NEW s \in [1..n -> 0..6], NEW x \in 0..6
  PROVE  /\ Len(s) = n /\ Append(s, x) \in [1..(n + 1) -> 0..6]
         /\ Append(s, x)[n + 1] = x /\ \A k \in 1..n : Append(s, x)[k] = s[k]
<1> DEFINE longer == Append(s, x)
<1>1. s \in Seq(0..6) /\ Len(s) = n
  OBVIOUS
<1>2. /\ longer \in Seq(0..6) /\ Len(longer) = n + 1 /\ longer[n + 1] = x
      /\ \A k \in 1..n : longer[k] = s[k]
  BY <1>1
<1>3. longer \in [1..(n + 1) -> 0..6]
  <2>. HIDE DEF longer
  <2>. QED  BY <1>2
<1>. QED  BY <1>1, <1>2, <1>3

LEMMA ObserveKeeps ==
  ASSUME None \notin Int, NEW n \in Nat \ {0}, NEW raw, raw[n + 1] \in 0..6,
         NEW run, RunFits(raw, n, run)
  PROVE  RunFits(raw, n + 1, Observe(run, raw[n + 1]))
<1> DEFINE seen == raw[n + 1]
           next == Observe(run, seen)
           same == Append(run.states, run.states[n])
           new == Append(run.states, seen)
<1>. SUFFICES RunFits(raw, n + 1, next)
  OBVIOUS
<1>1. /\ Len(run.states) = n /\ Current(run) = run.states[n] /\ run.states[n] \in 0..6
      /\ n + 1 # n /\ n + 1 \in Nat
  <2>1. run.states \in [1..n -> 0..6] /\ n \in 1..n /\ 0 \in 0..6
    BY DEF RunFits
  <2>2. Len(run.states) = n
    BY <2>1, LongerBy
  <2>. QED  BY <2>1, <2>2 DEF Current, Last
<1>2. /\ new \in [1..(n + 1) -> 0..6] /\ new[n + 1] = seen /\ \A k \in 1..n : new[k] = run.states[k]
      /\ same \in [1..(n + 1) -> 0..6] /\ same[n + 1] = run.states[n] /\ \A k \in 1..n : same[k] = run.states[k]
  <2>1. run.states \in [1..n -> 0..6] /\ seen \in 0..6
    BY DEF RunFits
  <2>. HIDE DEF seen
  <2>2. n \in Nat
    OBVIOUS
  <2>3. ASSUME NEW x \in 0..6
        PROVE  /\ Append(run.states, x) \in [1..(n + 1) -> 0..6] /\ Append(run.states, x)[n + 1] = x
               /\ \A k \in 1..n : Append(run.states, x)[k] = run.states[k]
    <3> DEFINE old == run.states
    <3>1. old \in [1..n -> 0..6]
      BY <2>1
    <3>. HIDE DEF old
    <3>2. /\ Append(old, x) \in [1..(n + 1) -> 0..6] /\ Append(old, x)[n + 1] = x
          /\ \A k \in 1..n : Append(old, x)[k] = old[k]
      BY <2>2, <3>1, LongerBy
    <3>. QED  BY <3>2 DEF old
  <2>4. run.states[n] \in 0..6
    BY <1>1
  <2>. QED  BY <2>1, <2>3, <2>4
<1>3. CASE seen = run.states[n]
  <2>1. /\ DOMAIN next = DOMAIN run /\ next.states = new /\ next.pending = None /\ next.causes = run.causes
    BY <1>1, <1>3 DEF Observe, RunFits
  <2>. HIDE DEF next, new, seen
  <2>2. ASSUME NEW k \in 2..(n + 1), Turned(next, k)
        PROVE  k \in 2..n /\ Turned(run, k)
    BY <1>1, <1>2, <1>3, <2>1, <2>2 DEF Turned
  <2>3. ASSUME NEW k \in 2..(n + 1), Turned(next, k)
        PROVE  /\ k \in DOMAIN next.causes /\ next.causes[k] \in {k, k + 1} /\ next.causes[k] <= n + 1
               /\ next.states[k] = raw[k] /\ next.states[next.causes[k]] = next.states[k]
    <3>1. k \in 2..n /\ Turned(run, k)
      BY <2>2, <2>3
    <3>2. /\ k \in DOMAIN run.causes /\ run.causes[k] \in {k, k + 1} /\ run.causes[k] <= n
          /\ run.states[k] = raw[k] /\ run.states[run.causes[k]] = run.states[k]
      BY <3>1 DEF RunFits
    <3>3. k \in 1..n /\ run.causes[k] \in 1..n
      BY <3>1, <3>2
    <3>. QED  BY <1>2, <2>1, <3>2, <3>3
  <2>. QED  BY <1>2, <2>1, <2>3 DEF RunFits
<1>4. CASE seen # run.states[n] /\ IsImmediate(run.states[n], seen)
  <2>1. /\ DOMAIN next = DOMAIN run /\ next.states = new /\ next.pending = None
        /\ next.causes = Caused(run, n + 1, n + 1)
    BY <1>1, <1>4 DEF Observe, RunFits
  <2>2. /\ n + 1 \in DOMAIN next.causes /\ next.causes[n + 1] = n + 1
        /\ \A k \in DOMAIN run.causes : k # n + 1 => k \in DOMAIN next.causes /\ next.causes[k] = run.causes[k]
    BY <2>1 DEF Caused
  <2>. HIDE DEF next, new
  <2>3. ASSUME NEW k \in 2..(n + 1), Turned(next, k), k # n + 1
        PROVE  k \in 2..n /\ Turned(run, k)
    BY <1>1, <1>2, <2>1, <2>3 DEF Turned
  <2>4. ASSUME NEW k \in 2..(n + 1), Turned(next, k)
        PROVE  /\ k \in DOMAIN next.causes /\ next.causes[k] \in {k, k + 1} /\ next.causes[k] <= n + 1
               /\ next.states[k] = raw[k] /\ next.states[next.causes[k]] = next.states[k]
    <3>1. CASE k = n + 1
      BY <1>1, <1>2, <2>1, <2>2, <3>1
    <3>2. CASE k # n + 1
      <4>1. k \in 2..n /\ Turned(run, k)
        BY <2>3, <2>4, <3>2
      <4>2. /\ k \in DOMAIN run.causes /\ run.causes[k] \in {k, k + 1} /\ run.causes[k] <= n
            /\ run.states[k] = raw[k] /\ run.states[run.causes[k]] = run.states[k]
        BY <4>1 DEF RunFits
      <4>3. k \in 1..n /\ run.causes[k] \in 1..n
        BY <4>1, <4>2
      <4>. QED  BY <1>2, <2>1, <2>2, <3>2, <4>2, <4>3
    <3>. QED  BY <3>1, <3>2
  <2>. QED  BY <1>2, <2>1, <2>4 DEF RunFits
<1>5. CASE seen # run.states[n] /\ ~IsImmediate(run.states[n], seen) /\ run.pending # seen
  <2>1. /\ DOMAIN next = DOMAIN run /\ next.states = same /\ next.pending = seen
        /\ next.since = n + 1 /\ next.causes = run.causes
    BY <1>1, <1>5 DEF Observe, RunFits
  <2>. HIDE DEF next, same
  <2>2. ASSUME NEW k \in 2..(n + 1), Turned(next, k)
        PROVE  k \in 2..n /\ Turned(run, k)
    BY <1>1, <1>2, <2>1, <2>2 DEF Turned
  <2>3. ~Turned(next, n + 1)
    <3>1. n \in 1..n /\ (n + 1) - 1 = n
      OBVIOUS
    <3>. QED  BY <1>2, <2>1, <3>1 DEF Turned
  <2>4. ASSUME NEW k \in 2..(n + 1), Turned(next, k)
        PROVE  /\ k \in DOMAIN next.causes /\ next.causes[k] \in {k, k + 1} /\ next.causes[k] < n + 1
               /\ next.states[k] = raw[k] /\ next.states[next.causes[k]] = next.states[k]
    <3>1. k \in 2..n /\ Turned(run, k)
      BY <2>2, <2>4
    <3>2. /\ k \in DOMAIN run.causes /\ run.causes[k] \in {k, k + 1} /\ run.causes[k] <= n
          /\ run.states[k] = raw[k] /\ run.states[run.causes[k]] = run.states[k]
      BY <3>1 DEF RunFits
    <3>3. k \in 1..n /\ run.causes[k] \in 1..n
      BY <3>1, <3>2
    <3>. QED  BY <1>2, <2>1, <3>2, <3>3
  <2>5. \A k \in 2..(n + 1) : Turned(next, k) => next.causes[k] <= n + 1 /\ next.causes[k] < n + 1
    <3>1. ASSUME NEW k \in 2..(n + 1), Turned(next, k) PROVE next.causes[k] \in Int /\ next.causes[k] < n + 1
      BY <2>4, <3>1
    <3>. QED  BY <3>1
  <2>6. n + 1 >= 2
    OBVIOUS
  <2>. QED  BY <1>2, <2>1, <2>3, <2>4, <2>5, <2>6 DEF RunFits, seen
<1>6. CASE seen # run.states[n] /\ ~IsImmediate(run.states[n], seen) /\ run.pending = seen
  <2>1. /\ DOMAIN next = DOMAIN run /\ next.states = Rewritten(new, run.since, seen)
        /\ next.pending = None /\ next.causes = Caused(run, run.since, n + 1)
    BY <1>1, <1>6 DEF Observe, RunFits
  <2>2. n >= 2 /\ run.since = n /\ seen = raw[n] /\ ~Turned(run, n)
        /\ \A k \in 2..n : Turned(run, k) => run.causes[k] < n
    BY <1>6 DEF RunFits
  <2>3. /\ n \in DOMAIN next.causes /\ next.causes[n] = n + 1
        /\ \A k \in DOMAIN run.causes : k # n => k \in DOMAIN next.causes /\ next.causes[k] = run.causes[k]
    BY <2>1, <2>2 DEF Caused
  <2>. HIDE DEF new, seen
  <2>4. /\ next.states \in [1..(n + 1) -> 0..6] /\ next.states[n + 1] = seen /\ next.states[n] = seen
        /\ \A k \in 1..(n - 1) : next.states[k] = run.states[k]
    <3>1. seen \in 0..6 /\ DOMAIN new = 1..(n + 1)
      BY <1>2 DEF seen
    <3>2. next.states = [k \in 1..(n + 1) |-> IF k >= n THEN seen ELSE new[k]]
      BY <2>1, <2>2, <3>1 DEF Rewritten
    <3>. QED  BY <1>2, <3>1, <3>2
  <2>. HIDE DEF next
  <2>5. ASSUME NEW k \in 2..(n + 1), Turned(next, k), k # n
        PROVE  k \in 2..(n - 1) /\ Turned(run, k) /\ run.causes[k] < n
    <3>1. k # n + 1
      BY <2>2, <2>4, <2>5 DEF Turned
    <3>2. k \in 2..(n - 1) /\ k \in 1..(n - 1) /\ k - 1 \in 1..(n - 1)
      BY <2>5, <3>1
    <3>. QED  BY <2>2, <2>4, <2>5, <3>2 DEF Turned
  <2>6. ASSUME NEW k \in 2..(n + 1), Turned(next, k)
        PROVE  /\ k \in DOMAIN next.causes /\ next.causes[k] \in {k, k + 1} /\ next.causes[k] <= n + 1
               /\ next.states[k] = raw[k] /\ next.states[next.causes[k]] = next.states[k]
    <3>1. CASE k = n
      BY <2>2, <2>3, <2>4, <3>1 DEF seen
    <3>2. CASE k # n
      <4>1. k \in 2..(n - 1) /\ Turned(run, k) /\ run.causes[k] < n
        BY <2>5, <2>6, <3>2
      <4>2. /\ k \in DOMAIN run.causes /\ run.causes[k] \in {k, k + 1}
            /\ run.states[k] = raw[k] /\ run.states[run.causes[k]] = run.states[k]
        BY <4>1 DEF RunFits
      <4>3. next.causes[k] = run.causes[k] /\ k \in DOMAIN next.causes
        BY <2>3, <3>2, <4>2
      <4>4. run.causes[k] \in 1..(n - 1) /\ k \in 1..(n - 1)
        BY <4>1, <4>2
      <4>5. next.states[k] = run.states[k] /\ next.states[run.causes[k]] = run.states[run.causes[k]]
        BY <2>4, <4>4
      <4>6. next.causes[k] <= n + 1
        BY <4>3, <4>4
      <4>. QED  BY <4>2, <4>3, <4>5, <4>6
    <3>. QED  BY <3>1, <3>2
  <2>7. DOMAIN next = {"states", "pending", "since", "causes"}
    BY <2>1 DEF RunFits
  <2>. QED  BY <2>1, <2>4, <2>6, <2>7 DEF RunFits
<1>. QED  BY <1>3, <1>4, <1>5, <1>6

LEMMA RunIsKept ==
  ASSUME None \notin Int, NEW raw, Len(raw) \in Nat \ {0}, raw \in [1..Len(raw) -> 0..6]
  PROVE  RunFits(raw, Len(raw), Confirmed(raw)[Len(raw)])
<1> DEFINE n == Len(raw)
           run == Confirmed(raw)
           S == {k \in 1..n : RunFits(raw, k, run[k])}
<1>1. 1 \in S
  <2>1. RunFits(raw, 1, Started(raw[1]))
    BY DEF RunFits, Started, Turned
  <2>. QED  BY <2>1, ConfirmedRuns
<1>2. ASSUME NEW k \in 1..(n - 1), k \in S PROVE k + 1 \in S
  <2>1. k \in Nat \ {0} /\ k + 1 \in 2..n /\ (k + 1) - 1 = k /\ RunFits(raw, k, run[k])
    BY <1>2
  <2>2. run[k + 1] = Observe(run[k], raw[k + 1]) /\ raw[k + 1] \in 0..6
    BY <2>1, ConfirmedRuns
  <2>. HIDE DEF run
  <2>3. RunFits(raw, k + 1, run[k + 1])
    BY <2>1, <2>2, ObserveKeeps
  <2>. QED  BY <2>1, <2>3
<1>3. n \in Nat /\ n \in 1..n
  OBVIOUS
<1>4. \A k \in 1..n : k \in S
  <2>. HIDE DEF S, n
  <2>. QED  BY <1>1, <1>2, <1>3, Reaches
<1>. QED  BY <1>3, <1>4

---------------------------------------------------------------------------
\* The elements of a set of numbers in their order: each rank is taken, and the
\* elements of two ranks that follow each other are neighbours.
Below(S, x) == {y \in S : y < x}

LEMMA SizesOf ==
  ASSUME NEW n \in Nat, NEW S \in SUBSET (1..n)
  PROVE  /\ IsFiniteSet(S) /\ Cardinality(S) \in Nat
         /\ \A T \in SUBSET S : IsFiniteSet(T) /\ Cardinality(T) \in Nat /\ Cardinality(T) <= Cardinality(S)
         /\ \A x \in S : /\ IsFiniteSet(Below(S, x)) /\ Cardinality(Below(S, x)) \in Nat
                         /\ Cardinality(Below(S, x) \cup {x}) = Cardinality(Below(S, x)) + 1
<1>1. IsFiniteSet(1..n)
  BY FS_Interval
<1>2. IsFiniteSet(S) /\ \A T \in SUBSET S : IsFiniteSet(T) /\ Cardinality(T) <= Cardinality(S)
  BY <1>1, FS_Subset
<1>3. ASSUME NEW x \in S
      PROVE  IsFiniteSet(Below(S, x)) /\ Cardinality(Below(S, x) \cup {x}) = Cardinality(Below(S, x)) + 1
  <2>1. Below(S, x) \in SUBSET S /\ x \notin Below(S, x)
    BY DEF Below
  <2>. QED  BY <1>2, <2>1, FS_AddElement
<1>. QED  BY <1>2, <1>3, FS_CardinalityType

LEMMA LeastNumber ==
  ASSUME NEW n \in Nat, NEW S \in SUBSET (1..n), S # {}
  PROVE  \E x \in S : \A y \in S : x <= y
<1> DEFINE same == [k \in S |-> k]
<1>1. \A k \in S : same[k] \in Nat
  OBVIOUS
<1>2. PICK x \in S : \A y \in S : same[x] <= same[y]
  <2>. HIDE DEF same
  <2>. QED  BY <1>1, LeastOf
<1>. QED  BY <1>2

LEMMA RanksAreTaken ==
  ASSUME NEW n \in Nat, NEW S \in SUBSET (1..n), NEW i \in 1..Cardinality(S)
  PROVE  \E x \in S : Cardinality(Below(S, x)) = i - 1
<1> DEFINE m == Cardinality(S)
           Taken == {j \in Nat : \E x \in S : Cardinality(Below(S, x)) = j - 1}
<1>1. m \in Nat /\ m >= 1 /\ IsFiniteSet(S) /\ \A y \in S : y \in Int
  <2>1. m \in Nat /\ IsFiniteSet(S)
    BY SizesOf, Zenon
  <2>. QED  BY <2>1
<1>2. 1 \in Taken
  <2>1. S # {}
    BY <1>1, FS_EmptySet
  <2>2. PICK x \in S : \A y \in S : x <= y
    BY <2>1, LeastNumber
  <2>3. Below(S, x) = {}
    <3>1. \A y \in S : ~(y < x)
      BY <1>1, <2>2
    <3>. QED  BY <3>1 DEF Below
  <2>4. Cardinality(Below(S, x)) = 1 - 1
    BY <2>3, FS_EmptySet
  <2>. QED  BY <2>4
<1>3. ASSUME NEW j \in 1..(m - 1), j \in Taken PROVE j + 1 \in Taken
  <2>1. PICK x \in S : Cardinality(Below(S, x)) = j - 1
    BY <1>3
  <2>2. Cardinality(Below(S, x) \cup {x}) = j
    <3>1. Cardinality(Below(S, x) \cup {x}) = Cardinality(Below(S, x)) + 1
      BY SizesOf, Zenon
    <3>. QED  BY <2>1, <3>1
  <2> DEFINE Above == {y \in S : y > x}
  <2>3. Above # {}
    <3>. SUFFICES ASSUME Above = {} PROVE FALSE
      OBVIOUS
    <3>1. \A y \in S : ~(y > x)
      OBVIOUS
    <3>2. \A y \in S : y < x \/ y = x
      BY <1>1, <3>1
    <3>3. S = Below(S, x) \cup {x}
      BY <3>2 DEF Below
    <3>4. Cardinality(S) = j
      BY <2>2, <3>3
    <3>. QED  BY <1>1, <1>3, <3>4
  <2>4. PICK z \in Above : \A y \in Above : z <= y
    <3>1. Above \in SUBSET (1..n)
      OBVIOUS
    <3>. HIDE DEF Above
    <3>. QED  BY <2>3, <3>1, LeastNumber
  <2>5. Below(S, z) = Below(S, x) \cup {x}
    <3>1. z \in S /\ x < z /\ \A y \in S : y > x => z <= y
      BY <1>1, <2>4
    <3>2. \A y \in S : y < z <=> y < x \/ y = x
      BY <1>1, <3>1
    <3>. QED  BY <3>2 DEF Below
  <2>6. z \in S /\ Cardinality(Below(S, z)) = (j + 1) - 1 /\ j + 1 \in Nat
    BY <2>2, <2>4, <2>5
  <2>. QED  BY <2>6
<1>4. \A j \in 1..m : j \in Taken
  <2>. HIDE DEF m, Taken
  <2>. QED  BY <1>1, <1>2, <1>3, Reaches
<1>. QED  BY <1>4

LEMMA NthIs ==
  ASSUME NEW n \in Nat, NEW S \in SUBSET (1..n), NEW i \in 1..Cardinality(S)
  PROVE  Nth(S, i) \in S /\ Cardinality(Below(S, Nth(S, i))) = i - 1
<1>1. \E x \in S : Cardinality({y \in S : y < x}) = i - 1
  BY RanksAreTaken DEF Below
<1>2. Nth(S, i) = CHOOSE x \in S : Cardinality({y \in S : y < x}) = i - 1
  BY DEF Nth
<1>. QED  BY <1>1, <1>2 DEF Below

LEMMA FirstIsOne ==
  ASSUME NEW n \in Nat, NEW S \in SUBSET (1..n), 1 \in S
  PROVE  Cardinality(S) >= 1 /\ Nth(S, 1) = 1
<1>1. Cardinality({1}) = 1 /\ {1} \in SUBSET S /\ Cardinality({1}) <= Cardinality(S) /\ Cardinality(S) \in Nat
  BY SizesOf, FS_Singleton
<1>2. Nth(S, 1) \in S /\ Cardinality(Below(S, Nth(S, 1))) = 0
  <2>1. 1 \in 1..Cardinality(S)
    BY <1>1
  <2>. QED  BY <2>1, NthIs
<1> DEFINE x == Nth(S, 1)
<1>. HIDE DEF x
<1>3. Below(S, x) = {}
  <2>1. x \in S /\ Cardinality(Below(S, x)) = 0
    BY <1>2 DEF x
  <2>2. IsFiniteSet(Below(S, x))
    BY <2>1, SizesOf, Zenon
  <2>. QED  BY <2>1, <2>2, FS_EmptySet
<1>4. ~(1 < x) /\ x \in 1..n
  BY <1>2, <1>3 DEF Below, x
<1>. QED  BY <1>1, <1>4 DEF x

\* Two elements above another make the set as much larger.
LEMMA TwoAbove ==
  ASSUME NEW n \in Nat, NEW S \in SUBSET (1..n), NEW x \in S, NEW y \in S, x < y,
         NEW T \in SUBSET S, Below(S, x) \subseteq T, x \in T, y \in T
  PROVE  Cardinality(T) >= Cardinality(Below(S, x)) + 2
<1>1. /\ IsFiniteSet(T) /\ Cardinality(T) \in Nat /\ IsFiniteSet(Below(S, x))
      /\ Cardinality(Below(S, x)) \in Nat
      /\ Cardinality(Below(S, x) \cup {x}) = Cardinality(Below(S, x)) + 1
  BY SizesOf
<1>2. y \notin Below(S, x) \cup {x} /\ (Below(S, x) \cup {x}) \cup {y} \subseteq T
  BY DEF Below
<1>3. IsFiniteSet(Below(S, x) \cup {x}) /\ IsFiniteSet((Below(S, x) \cup {x}) \cup {y})
      /\ Cardinality((Below(S, x) \cup {x}) \cup {y}) = Cardinality(Below(S, x) \cup {x}) + 1
  BY <1>1, <1>2, FS_AddElement
<1>4. Cardinality((Below(S, x) \cup {x}) \cup {y}) <= Cardinality(T)
  BY <1>1, <1>2, FS_Subset
<1>. QED  BY <1>1, <1>3, <1>4, FS_CardinalityType

LEMMA NthAreNeighbours ==
  ASSUME NEW n \in Nat, NEW S \in SUBSET (1..n), NEW i \in 2..Cardinality(S)
  PROVE  /\ Nth(S, i - 1) < Nth(S, i)
         /\ \A y \in S : ~(Nth(S, i - 1) < y /\ y < Nth(S, i))
<1> DEFINE x == Nth(S, i - 1)
           z == Nth(S, i)
<1>1. Cardinality(S) \in Nat
  BY SizesOf
<1>2. /\ x \in S /\ Cardinality(Below(S, x)) = i - 2
      /\ z \in S /\ Cardinality(Below(S, z)) = i - 1
  <2>1. i - 1 \in 1..Cardinality(S) /\ i \in 1..Cardinality(S) /\ (i - 1) - 1 = i - 2
    BY <1>1
  <2>. HIDE DEF x, z
  <2>. QED  BY <2>1, NthIs DEF x, z
<1>. HIDE DEF x, z
<1>3. x < z
  <2>1. x \in Int /\ z \in Int /\ \A y \in S : y \in Int
    BY <1>2
  <2>. SUFFICES ASSUME z <= x PROVE FALSE
    BY <2>1
  <2>2. \A y \in S : y < z => y < x
    BY <2>1
  <2>3. Below(S, z) \subseteq Below(S, x)
    BY <2>2 DEF Below
  <2>4. IsFiniteSet(Below(S, x))
    BY <1>2, SizesOf, Zenon
  <2>5. Cardinality(Below(S, z)) <= Cardinality(Below(S, x))
    BY <2>3, <2>4, FS_Subset
  <2>. QED  BY <1>2, <2>5
<1>4. ASSUME NEW y \in S, x < y, y < z PROVE FALSE
  <2>1. Below(S, z) \in SUBSET S /\ Below(S, x) \subseteq Below(S, z) /\ x \in Below(S, z) /\ y \in Below(S, z)
    <3>1. x \in Int /\ z \in Int /\ \A u \in S : u \in Int
      BY <1>2
    <3>2. \A u \in S : u < x => u < z
      BY <1>3, <3>1
    <3>. QED  BY <1>2, <1>3, <1>4, <3>2 DEF Below
  <2>2. Cardinality(Below(S, z)) >= Cardinality(Below(S, x)) + 2
    BY <1>2, <1>4, <2>1, TwoAbove
  <2>. QED  BY <1>2, <2>2
<1>. QED  BY <1>3, <1>4 DEF x, z

LEMMA LastNthIsLast ==
  ASSUME NEW n \in Nat, NEW S \in SUBSET (1..n), Cardinality(S) >= 1
  PROVE  \A y \in S : ~(Nth(S, Cardinality(S)) < y)
<1> DEFINE m == Cardinality(S)
           x == Nth(S, m)
<1>1. m \in Nat /\ m \in 1..m
  BY SizesOf
<1>2. x \in S /\ Cardinality(Below(S, x)) = m - 1
  BY <1>1, NthIs
<1>3. ASSUME NEW y \in S, x < y PROVE FALSE
  <2>1. S \in SUBSET S /\ Below(S, x) \subseteq S
    BY DEF Below
  <2>. HIDE DEF x
  <2>2. Cardinality(S) >= Cardinality(Below(S, x)) + 2
    BY <1>2, <1>3, <2>1, TwoAbove
  <2>. QED  BY <1>1, <1>2, <2>2
<1>. QED  BY <1>3

\* Between two changes the states are the same.
LEMMA SteadyBetween ==
  ASSUME NEW states, NEW a \in Nat, NEW b \in Nat, a <= b,
         \A k \in (a + 1)..b : states[k] = states[k - 1]
  PROVE  states[b] = states[a]
<1> DEFINE n == (b - a) + 1
           S == {j \in 1..n : states[(a + j) - 1] = states[a]}
<1>1. n \in Nat /\ 1 \in S /\ n \in 1..n /\ (a + n) - 1 = b
  OBVIOUS
<1>2. ASSUME NEW j \in 1..(n - 1), j \in S PROVE j + 1 \in S
  <2>1. a + j \in (a + 1)..b /\ (a + (j + 1)) - 1 = a + j /\ j + 1 \in 1..n
    OBVIOUS
  <2>. QED  BY <1>2, <2>1
<1>3. \A j \in 1..n : j \in S
  <2>. HIDE DEF n, S
  <2>. QED  BY <1>1, <1>2, Reaches
<1>. QED  BY <1>1, <1>3

---------------------------------------------------------------------------
LEMMA StartsOf ==
  ASSUME NEW n \in Nat \ {0}, NEW states \in [1..n -> 0..6]
  PROVE  /\ Starts(states) \in SUBSET (1..n) /\ 1 \in Starts(states)
         /\ \A k \in 2..n : k \in Starts(states) <=> states[k] # states[k - 1]
<1>1. Len(states) = n
  OBVIOUS
<1>. QED  BY <1>1 DEF Starts

\* The parts into which a run divides the plies.
TilesFor(all, raw) ==
  /\ all # <<>> /\ all[1].start = 1 /\ all[Len(all)].end = Len(raw)
  /\ \A k \in 2..Len(all) :
       /\ all[k].start = all[k - 1].end + 1 /\ all[k].state # all[k - 1].state
       /\ all[k].confirmed \in all[k].start..all[k].end
       /\ all[k].start \in 1..Len(raw) /\ raw[all[k].start] = all[k].state

LEMMA DividedTiles ==
  ASSUME NEW values, NEW raw, Len(raw) \in Nat \ {0}, NEW run, RunFits(raw, Len(raw), run)
  PROVE  TilesFor(Divided(values, raw, run), raw)
<1> DEFINE n == Len(raw)
           states == run.states
           starts == Starts(states)
           m == Cardinality(starts)
           At(k) == Nth(starts, k)
           LastOf(k) == IF k = m THEN n ELSE At(k + 1) - 1
           all == Divided(values, raw, run)
<1>. SUFFICES TilesFor(all, raw)
  OBVIOUS
<1>1. /\ n \in Nat \ {0} /\ states \in [1..n -> 0..6]
      /\ \A k \in 2..n : states[k] # states[k - 1] =>
           /\ k \in DOMAIN run.causes /\ run.causes[k] \in {k, k + 1} /\ run.causes[k] <= n
           /\ states[k] = raw[k] /\ states[run.causes[k]] = states[k]
  BY DEF RunFits, Turned
<1>2. /\ starts \in SUBSET (1..n) /\ 1 \in starts
      /\ \A k \in 2..n : k \in starts <=> states[k] # states[k - 1]
  <2>. HIDE DEF n, states
  <2>. QED  BY <1>1, StartsOf
<1>3. m = Cardinality(starts)
  OBVIOUS
<1>4. all = [k \in 1..m |-> Segment(values, raw, run, At(k), LastOf(k))]
  BY DEF Divided
<1>5. \A k \in 1..m :
        /\ all[k].start = At(k) /\ all[k].end = LastOf(k) /\ all[k].state = states[At(k)]
        /\ all[k].confirmed = IF At(k) > 1 /\ At(k) \in DOMAIN run.causes THEN run.causes[At(k)] ELSE None
  <2>. HIDE DEF m, At, LastOf, all
  <2>. QED  BY <1>4 DEF Segment
<1>. HIDE DEF starts, states, n, all
<1>6. m \in Nat /\ m >= 1 /\ At(1) = 1
  BY <1>1, <1>2, <1>3, SizesOf, FirstIsOne
<1>7. \A k \in 1..m : At(k) \in starts /\ At(k) \in 1..n
  BY <1>1, <1>2, <1>3, NthIs
<1>8. \A k \in 2..m : At(k - 1) < At(k) /\ \A y \in starts : ~(At(k - 1) < y /\ y < At(k))
  BY <1>1, <1>2, <1>3, NthAreNeighbours
<1>9. \A y \in starts : ~(At(m) < y)
  BY <1>1, <1>2, <1>3, <1>6, LastNthIsLast
<1>10. Len(all) = m /\ all # <<>> /\ 1 \in 1..m /\ m \in 1..m
  <2>1. all = [k \in 1..m |-> all[k]]
    BY <1>4
  <2>. HIDE DEF m
  <2>. QED  BY <1>6, <2>1
<1>. HIDE DEF m, At
<1>11. all[1].start = 1 /\ all[Len(all)].end = n
  BY <1>5, <1>6, <1>10
<1>12. ASSUME NEW k \in 2..m
       PROVE  /\ all[k].start = all[k - 1].end + 1 /\ all[k].state # all[k - 1].state
              /\ all[k].confirmed \in all[k].start..all[k].end
              /\ all[k].start \in 1..n /\ raw[all[k].start] = all[k].state
  <2> DEFINE a == At(k - 1)
             b == At(k)
  <2>1. k \in 1..m /\ k - 1 \in 1..m /\ k - 1 # m /\ (k - 1) + 1 = k
    BY <1>6
  <2>2. /\ a \in 1..n /\ b \in starts /\ b \in 1..n /\ a < b
        /\ \A y \in starts : ~(a < y /\ y < b)
    BY <1>7, <1>8, <2>1
  <2>3. /\ all[k].start = b /\ all[k].end = LastOf(k) /\ all[k].state = states[b]
        /\ all[k - 1].end = LastOf(k - 1) /\ all[k - 1].state = states[a]
        /\ all[k].confirmed = IF b > 1 /\ b \in DOMAIN run.causes THEN run.causes[b] ELSE None
    BY <1>5, <2>1
  <2>4. LastOf(k - 1) = b - 1
    BY <2>1
  <2>. HIDE DEF a, b
  <2>5. b \in 2..n /\ states[b] # states[b - 1]
    BY <1>1, <1>2, <2>2
  <2>6. states[b - 1] = states[a]
    <3>1. ASSUME NEW j \in (a + 1)..(b - 1) PROVE states[j] = states[j - 1]
      <4>1. j \in 2..n /\ a < j /\ j < b
        BY <1>1, <2>2, <3>1
      <4>. QED  BY <1>2, <2>2, <4>1
    <3>2. a \in Nat /\ b - 1 \in Nat /\ a <= b - 1
      BY <1>1, <2>2
    <3>. QED  BY <3>1, <3>2, SteadyBetween
  <2>7. /\ b \in DOMAIN run.causes /\ run.causes[b] \in {b, b + 1} /\ run.causes[b] <= n
        /\ states[b] = raw[b] /\ states[run.causes[b]] = states[b]
    BY <1>1, <2>5
  <2>8. run.causes[b] = b + 1 => b + 1 \notin starts
    <3>1. run.causes[b] = b + 1 => b + 1 \in 2..n /\ (b + 1) - 1 = b
      BY <1>1, <2>5, <2>7
    <3>. QED  BY <1>2, <2>7, <3>1
  <2>9. LastOf(k) \in Int /\ run.causes[b] <= LastOf(k)
    <3>1. CASE k = m
      BY <1>1, <2>7, <3>1
    <3>2. CASE k # m
      <4> DEFINE c == At(k + 1)
      <4>1. k + 1 \in 2..m /\ (k + 1) - 1 = k /\ k + 1 \in 1..m
        BY <1>6, <3>2
      <4>2. c \in starts /\ c \in 1..n /\ b < c
        BY <1>7, <1>8, <4>1 DEF b
      <4>3. LastOf(k) = c - 1
        BY <3>2
      <4>. HIDE DEF c
      <4>4. run.causes[b] = b + 1 => c # b + 1
        BY <2>8, <4>2
      <4>. QED  BY <2>5, <2>7, <4>2, <4>3, <4>4
    <3>. QED  BY <3>1, <3>2
  <2>10. run.causes[b] \in b..LastOf(k)
    BY <2>5, <2>7, <2>9
  <2>. HIDE DEF LastOf
  <2>. QED  BY <2>2, <2>3, <2>4, <2>5, <2>6, <2>7, <2>10
<1>13. \A k \in 2..Len(all) :
         /\ all[k].start = all[k - 1].end + 1 /\ all[k].state # all[k - 1].state
         /\ all[k].confirmed \in all[k].start..all[k].end
         /\ all[k].start \in 1..n /\ raw[all[k].start] = all[k].state
  BY <1>10, <1>12
<1>. QED  BY <1>10, <1>11, <1>13 DEF TilesFor, n

LEMMA SegmentsTileValues ==
  ASSUME None \notin Int, NEW values, Len(values) \in Nat \ {0}, DOMAIN values = 1..Len(values)
  PROVE  TilesFor(Segments(values), [k \in 1..Len(values) |-> PositionState(values[k])])
<1> DEFINE n == Len(values)
           raw == [k \in 1..n |-> PositionState(values[k])]
<1>1. raw \in [1..n -> 0..6] /\ Len(raw) = n /\ n \in Nat \ {0}
  BY DEF PositionState
<1>2. values # <<>>
  OBVIOUS
<1>3. Segments(values) = Divided(values, raw, Confirmed(raw)[Len(raw)])
  BY <1>2 DEF Segments
<1>. HIDE DEF raw, n
<1>4. RunFits(raw, Len(raw), Confirmed(raw)[Len(raw)])
  BY <1>1, RunIsKept
<1>5. TilesFor(Segments(values), raw)
  BY <1>1, <1>3, <1>4, DividedTiles
<1>. QED  BY <1>5 DEF raw, n
=============================================================================
