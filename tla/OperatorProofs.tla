----------------------------- MODULE OperatorProofs -----------------------------
(***************************************************************************)
(* What recursive functions compute, proved by induction over sets of      *)
(* numbers.                                                                *)
(*   - SumFunctionOnSet of the community modules adds the values of a      *)
(*     function over a finite set, one arbitrary element at a time.  That  *)
(*     it does so, and that the order does not matter, is what the IAE of  *)
(*     the agent's trace, the IAE of a window and the means over seeds     *)
(*     rest on.                                                            *)
(*   - The search of the settling time finds what it looks for.            *)
(***************************************************************************)
EXTENDS Integers, Sequences, Functions, FiniteSetTheorems, WellFoundedInduction, TLAPS

-------------------------------------------------------------------------------
(* Induction.                                                              *)

\* A non-empty set of numbers has a least one.
LEMMA LeastNumber == ASSUME NEW S \in SUBSET Nat, S # {} PROVE \E c \in S : \A d \in S : c <= d
  <1>1. \E c \in S : \A d \in S : ~ (<<d, c>> \in OpToRel(<, Nat))
    BY NatLessThanWellFounded, WFMin, Zenon
  <1>2. ASSUME NEW c \in S, NEW d \in S, d < c PROVE <<d, c>> \in OpToRel(<, Nat)
    <2>1. <<d, c>> \in Nat \X Nat /\ <<d, c>>[1] < <<d, c>>[2]
      BY <1>2
    <2> QED BY <2>1, Zenon DEF OpToRel
  <1>3. \E c \in S : \A d \in S : ~ (d < c)
    BY <1>1, <1>2
  <1> QED BY <1>3

\* Induction over the numbers, stated of a set.
LEMMA SetInduction ==
  ASSUME NEW S, 0 \in S, \A n \in Nat : n \in S => n + 1 \in S
  PROVE  \A n \in Nat : n \in S
  <1> SUFFICES ASSUME Nat \ S # {} PROVE FALSE
    OBVIOUS
  <1>1. PICK c \in Nat \ S : \A d \in Nat \ S : c <= d
    BY LeastNumber
  <1>2. c # 0 /\ c - 1 \in Nat /\ c - 1 \in S
    BY <1>1
  <1> QED BY <1>1, <1>2

-------------------------------------------------------------------------------
(* The recursion.                                                          *)

\* The element the recursion takes next.
Chosen(s) == CHOOSE x \in s : TRUE

\* g is what the recursion for the sum of f gives on the sets of D.
Fits(f, D, g) == g = [s \in D |-> IF s = {} THEN 0 ELSE f[Chosen(s)] + g[s \ {Chosen(s)}]]

Iter(f, S) == CHOOSE g : Fits(f, SUBSET S, g)

\* The library's definition, unfolded.
LEMMA SumIsIter == ASSUME NEW f, NEW S PROVE SumFunctionOnSet(f, S) = Iter(f, S)[S]
  BY Zenon DEF SumFunctionOnSet, FoldFunctionOnSet, MapThenFoldSet, Iter, Fits, Chosen

\* What is known of a set with one element taken out.
LEMMA TakeOne ==
  ASSUME NEW s, IsFiniteSet(s), s # {}
  PROVE  /\ Chosen(s) \in s /\ s \ {Chosen(s)} \in SUBSET s
         /\ \A x \in s : /\ IsFiniteSet(s \ {x})
                         /\ Cardinality(s) \in Nat /\ Cardinality(s \ {x}) \in Nat
                         /\ Cardinality(s \ {x}) = Cardinality(s) - 1
  <1>1. Chosen(s) \in s
    BY DEF Chosen
  <1> QED BY <1>1, FS_RemoveElement, FS_CardinalityType

Small(S, n) == {s \in SUBSET S : Cardinality(s) <= n}

\* The subsets of a finite set that are its small ones.
LEMMA AllSmall ==
  ASSUME NEW S, IsFiniteSet(S)
  PROVE  /\ Cardinality(S) \in Nat /\ Small(S, Cardinality(S)) = SUBSET S
         /\ Small(S, 0) = {{}}
         /\ \A s \in SUBSET S : IsFiniteSet(s) /\ Cardinality(s) \in Nat
  <1>1. \A s \in SUBSET S : /\ IsFiniteSet(s) /\ Cardinality(s) \in Nat
                            /\ Cardinality(s) <= Cardinality(S)
    BY FS_Subset, FS_CardinalityType
  <1>2. \A s \in SUBSET S : Cardinality(s) <= 0 <=> s = {}
    BY <1>1, FS_EmptySet
  <1> QED BY <1>1, <1>2 DEF Small

\* The recursion has a solution.
LEMMA IterFits == ASSUME NEW f, NEW S, IsFiniteSet(S) PROVE Fits(f, SUBSET S, Iter(f, S))
  <1> DEFINE N == {n \in Nat : \E g : Fits(f, Small(S, n), g)}
  <1>1. 0 \in N
    <2> DEFINE g == [s \in {{}} |-> 0]
    <2>1. g = [s \in {{}} |-> IF s = {} THEN 0 ELSE f[Chosen(s)] + g[s \ {Chosen(s)}]]
      OBVIOUS
    <2>2. Fits(f, Small(S, 0), g)
      BY <2>1, AllSmall, Zenon DEF Fits
    <2> QED BY <2>2
  <1>2. ASSUME NEW n \in Nat, n \in N PROVE n + 1 \in N
    <2>1. PICK g : Fits(f, Small(S, n), g)
      BY <1>2
    <2> DEFINE h == [s \in Small(S, n + 1) |->
                       IF s = {} THEN 0 ELSE f[Chosen(s)] + g[s \ {Chosen(s)}]]
    <2>2. \A s \in Small(S, n) : s \in Small(S, n + 1) /\ h[s] = g[s]
      <3>1. \A s \in Small(S, n) :
              g[s] = IF s = {} THEN 0 ELSE f[Chosen(s)] + g[s \ {Chosen(s)}]
        BY <2>1 DEF Fits
      <3>2. \A s \in Small(S, n) : s \in Small(S, n + 1)
        BY AllSmall DEF Small
      <3> QED BY <3>1, <3>2
    <2>3. \A s \in Small(S, n + 1) : s # {} => s \ {Chosen(s)} \in Small(S, n)
      BY AllSmall, TakeOne DEF Small
    <2>4. \A s \in Small(S, n + 1) :
            h[s] = IF s = {} THEN 0 ELSE f[Chosen(s)] + h[s \ {Chosen(s)}]
      BY <2>2, <2>3
    <2>5. Fits(f, Small(S, n + 1), h)
      <3>1. h = [s \in Small(S, n + 1) |-> h[s]]
        OBVIOUS
      <3> HIDE DEF h
      <3> QED BY <2>4, <3>1 DEF Fits
    <2> HIDE DEF h
    <2> QED BY <2>5
  <1>3. Cardinality(S) \in N
    <2> HIDE DEF N
    <2>1. \A n \in Nat : n \in N
      BY <1>1, <1>2, SetInduction, Zenon
    <2> QED BY <2>1, AllSmall
  <1>4. PICK g : Fits(f, SUBSET S, g)
    <2>1. \E g : Fits(f, Small(S, Cardinality(S)), g)
      BY <1>3
    <2>2. Small(S, Cardinality(S)) = SUBSET S
      BY AllSmall
    <2> QED BY <2>1, <2>2, Zenon
  <1> QED BY <1>4, Zenon DEF Iter

\* ... which says, set by set:
LEMMA IterStep ==
  ASSUME NEW f, NEW S, IsFiniteSet(S), NEW s \in SUBSET S
  PROVE  Iter(f, S)[s] = IF s = {} THEN 0
                         ELSE f[Chosen(s)] + Iter(f, S)[s \ {Chosen(s)}]
  <1> DEFINE g == Iter(f, S)
  <1>1. Fits(f, SUBSET S, g)
    BY IterFits
  <1> HIDE DEF g
  <1>2. g[s] = IF s = {} THEN 0 ELSE f[Chosen(s)] + g[s \ {Chosen(s)}]
    BY <1>1 DEF Fits
  <1> QED BY <1>2 DEF g

-------------------------------------------------------------------------------
(* What the sum is.                                                        *)

\* Two recursions over functions that agree have the same results.
LEMMA IterAgree ==
  ASSUME NEW S, IsFiniteSet(S), NEW T \in SUBSET S, NEW f, NEW h,
         \A x \in T : f[x] = h[x]
  PROVE  \A s \in SUBSET T : Iter(f, T)[s] = Iter(h, S)[s]
  <1> DEFINE N == {n \in Nat : \A s \in Small(T, n) : Iter(f, T)[s] = Iter(h, S)[s]}
  <1>0. IsFiniteSet(T)
    BY FS_Subset
  <1>1. 0 \in N
    <2>1. Iter(f, T)[{}] = 0 /\ Iter(h, S)[{}] = 0
      BY <1>0, IterStep
    <2> QED BY <1>0, <2>1, AllSmall
  <1>2. ASSUME NEW n \in Nat, n \in N PROVE n + 1 \in N
    <2>1. ASSUME NEW s \in Small(T, n + 1), s # {}
          PROVE  Iter(f, T)[s] = Iter(h, S)[s]
      <3>1. s \in SUBSET T /\ IsFiniteSet(s) /\ Cardinality(s) <= n + 1
        BY <1>0, AllSmall DEF Small
      <3>2. Chosen(s) \in T /\ s \ {Chosen(s)} \in Small(T, n)
        BY <2>1, <3>1, TakeOne DEF Small
      <3>3. Iter(f, T)[s \ {Chosen(s)}] = Iter(h, S)[s \ {Chosen(s)}]
        BY <1>2, <3>2
      <3>4. f[Chosen(s)] = h[Chosen(s)]
        BY <3>2
      <3>5. Iter(f, T)[s] = f[Chosen(s)] + Iter(f, T)[s \ {Chosen(s)}]
        BY <1>0, <2>1, <3>1, IterStep
      <3>6. Iter(h, S)[s] = h[Chosen(s)] + Iter(h, S)[s \ {Chosen(s)}]
        BY <2>1, <3>1, IterStep
      <3> QED BY <3>3, <3>4, <3>5, <3>6
    <2>2. Iter(f, T)[{}] = Iter(h, S)[{}]
      BY <1>0, IterStep
    <2>3. \A s \in Small(T, n + 1) : Iter(f, T)[s] = Iter(h, S)[s]
      BY <2>1, <2>2
    <2> QED BY <2>3
  <1>3. Cardinality(T) \in N
    <2> HIDE DEF N
    <2>1. \A n \in Nat : n \in N
      BY <1>1, <1>2, SetInduction, Zenon
    <2> QED BY <1>0, <2>1, AllSmall
  <1>4. Small(T, Cardinality(T)) = SUBSET T
    BY <1>0, AllSmall
  <1> QED BY <1>3, <1>4

\* Any element may be taken first, and the results are numbers.
LEMMA IterAnyOrder ==
  ASSUME NEW S, IsFiniteSet(S), NEW f, \A x \in S : f[x] \in Int
  PROVE  \A s \in SUBSET S :
           /\ Iter(f, S)[s] \in Int
           /\ \A x \in s : Iter(f, S)[s] = f[x] + Iter(f, S)[s \ {x}]
  <1> DEFINE g == Iter(f, S)
             Good(s) == g[s] \in Int /\ \A x \in s : g[s] = f[x] + g[s \ {x}]
             N == {n \in Nat : \A s \in Small(S, n) : Good(s)}
  <1>0. \A s \in SUBSET S : g[s] = IF s = {} THEN 0 ELSE f[Chosen(s)] + g[s \ {Chosen(s)}]
    BY IterStep
  <1> HIDE DEF g
  <1>e. Good({})
    <2>1. g[{}] = 0
      BY <1>0
    <2> QED BY <2>1
  <1>1. 0 \in N
    <2> HIDE DEF Good
    <2> QED BY <1>e, AllSmall
  <1>2. ASSUME NEW n \in Nat, n \in N PROVE n + 1 \in N
    <2>1. ASSUME NEW s \in Small(S, n + 1), s # {} PROVE Good(s)
      <3> DEFINE c == Chosen(s)
      <3>1. s \in SUBSET S /\ IsFiniteSet(s) /\ Cardinality(s) <= n + 1
        BY AllSmall DEF Small
      <3>2. c \in s /\ c \in S /\ \A x \in s : s \ {x} \in Small(S, n)
        BY <2>1, <3>1, TakeOne DEF Small
      <3>3. \A t \in Small(S, n) : Good(t)
        BY <1>2
      <3>4. g[s] = f[c] + g[s \ {c}]
        BY <1>0, <2>1, <3>1
      <3> HIDE DEF c
      <3>5. \A x \in s : f[x] \in Int /\ g[s \ {x}] \in Int
        BY <3>1, <3>2, <3>3
      <3>6. ASSUME NEW x \in s, x # c PROVE g[s] = f[x] + g[s \ {x}]
        <4> DEFINE rest == (s \ {x}) \ {c}
        <4>1. x \in s \ {c} /\ c \in s \ {x} /\ (s \ {c}) \ {x} = rest
          BY <3>2, <3>6
        <4>2. rest \in Small(S, n)
          <5>1. s \ {x} \in Small(S, n) /\ IsFiniteSet(s \ {x}) /\ s \ {x} # {}
            BY <3>1, <3>2, <4>1, TakeOne
          <5>2. /\ Cardinality(rest) \in Nat /\ Cardinality(s \ {x}) \in Nat
                /\ Cardinality(rest) = Cardinality(s \ {x}) - 1
            BY <4>1, <5>1, TakeOne
          <5> QED BY <5>1, <5>2 DEF Small
        <4>3. g[s \ {c}] = f[x] + g[(s \ {c}) \ {x}] /\ g[s \ {x}] = f[c] + g[rest]
          BY <3>2, <3>3, <4>1
        <4>4. g[rest] \in Int
          BY <3>3, <4>2
        <4> HIDE DEF rest
        <4>5. g[s \ {c}] = f[x] + g[rest]
          BY <4>1, <4>3
        <4>6. f[x] \in Int /\ f[c] \in Int
          BY <3>2, <3>5
        <4>7. g[s] = f[c] + (f[x] + g[rest]) /\ g[s \ {x}] = f[c] + g[rest]
          BY <3>4, <4>3, <4>5
        <4> QED BY <4>4, <4>6, <4>7
      <3>7. f[c] \in Int /\ g[s \ {c}] \in Int
        BY <3>2, <3>5
      <3>8. g[s] \in Int
        BY <3>4, <3>7
      <3> QED BY <3>4, <3>6, <3>8
    <2> HIDE DEF Good
    <2>2. \A s \in Small(S, n + 1) : Good(s)
      BY <1>e, <2>1
    <2> QED BY <2>2
  <1>3. Cardinality(S) \in N
    <2> HIDE DEF N
    <2>1. \A n \in Nat : n \in N
      BY <1>1, <1>2, SetInduction, Zenon
    <2> QED BY <2>1, AllSmall
  <1>4. \A s \in SUBSET S : Good(s)
    <2>1. \A s \in Small(S, Cardinality(S)) : Good(s)
      BY <1>3
    <2>2. Small(S, Cardinality(S)) = SUBSET S
      BY AllSmall
    <2> HIDE DEF Good
    <2> QED BY <2>1, <2>2
  <1> QED BY <1>4 DEF g

\* The sum over nothing is zero.
THEOREM SumEmpty == ASSUME NEW f PROVE SumFunctionOnSet(f, {}) = 0
  BY SumIsIter, IterStep, FS_EmptySet

\* A sum of integers over a finite set is an integer.
THEOREM SumType ==
  ASSUME NEW S, IsFiniteSet(S), NEW f, \A x \in S : f[x] \in Int
  PROVE  SumFunctionOnSet(f, S) \in Int
  BY SumIsIter, IterAnyOrder

\* The sum depends on the values over the set only.
THEOREM SumEqual ==
  ASSUME NEW S, IsFiniteSet(S), NEW f, NEW h, \A x \in S : f[x] = h[x]
  PROVE  SumFunctionOnSet(f, S) = SumFunctionOnSet(h, S)
  <1>1. S \in SUBSET S
    OBVIOUS
  <1>2. Iter(f, S)[S] = Iter(h, S)[S]
    BY <1>1, IterAgree
  <1> QED BY <1>2, SumIsIter

\* The sum over a set is the sum without one of its elements, plus its value.
LEMMA SumTake ==
  ASSUME NEW S, IsFiniteSet(S), NEW f, \A y \in S : f[y] \in Int, NEW x \in S
  PROVE  SumFunctionOnSet(f, S) = f[x] + SumFunctionOnSet(f, S \ {x})
  <1> DEFINE R == S \ {x}
  <1>1. R \in SUBSET S
    OBVIOUS
  <1> HIDE DEF R
  <1>2. Iter(f, S)[S] = f[x] + Iter(f, S)[S \ {x}]
    BY IterAnyOrder
  <1>3. \A s \in SUBSET R : Iter(f, R)[s] = Iter(f, S)[s]
    BY <1>1, IterAgree
  <1>4. Iter(f, R)[R] = Iter(f, S)[R]
    BY <1>3
  <1> QED BY <1>2, <1>4, SumIsIter DEF R

\* One more element adds its value, whichever element it is.
THEOREM SumAdd ==
  ASSUME NEW S, IsFiniteSet(S), NEW f, NEW x, x \notin S, \A y \in S \cup {x} : f[y] \in Int
  PROVE  SumFunctionOnSet(f, S \cup {x}) = SumFunctionOnSet(f, S) + f[x]
  <1>1. IsFiniteSet(S \cup {x}) /\ x \in S \cup {x} /\ (S \cup {x}) \ {x} = S
    BY FS_AddElement
  <1>2. SumFunctionOnSet(f, S \cup {x}) = f[x] + SumFunctionOnSet(f, (S \cup {x}) \ {x})
    BY <1>1, SumTake, Zenon
  <1>3. SumFunctionOnSet(f, S) \in Int /\ f[x] \in Int
    BY SumType
  <1>4. SumFunctionOnSet(f, S \cup {x}) = f[x] + SumFunctionOnSet(f, S)
    BY <1>1, <1>2, Zenon
  <1> QED BY <1>3, <1>4

\* The same for an interval of integers that gains its next number.
THEOREM SumNext ==
  ASSUME NEW a \in Int, NEW b \in Int, b >= a - 1, NEW f, \A k \in a .. b + 1 : f[k] \in Int
  PROVE  SumFunctionOnSet(f, a .. b + 1) = SumFunctionOnSet(f, a .. b) + f[b + 1]
  <1> DEFINE S == a .. b
             x == b + 1
  <1>1. a .. b + 1 = S \cup {x} /\ x \notin S
    BY SMT
  <1>2. IsFiniteSet(S)
    BY FS_Interval, Zenon
  <1>3. \A k \in S \cup {x} : f[k] \in Int
    BY <1>1
  <1> HIDE DEF S, x
  <1>4. SumFunctionOnSet(f, S \cup {x}) = SumFunctionOnSet(f, S) + f[x]
    BY <1>1, <1>2, <1>3, SumAdd, Zenon
  <1> QED BY <1>1, <1>4, Zenon DEF S, x

-------------------------------------------------------------------------------
(* The settling time.                                                      *)

Settling == INSTANCE SettlingTime

\* scan is what the search gives from each sample on, over n samples: inside tells
\* the samples in the band, over those whose window leaves the trajectory, and full
\* those whose whole window is in the band.
Scans(scan, n, inside, over, full, time) ==
  scan = [k \in 1 .. n + 1 |-> IF k > n THEN Settling!NotSettled
                               ELSE IF k \notin inside THEN scan[k + 1]
                               ELSE IF k \in over THEN Settling!NotSettled
                               ELSE IF k \in full THEN time[k]
                               ELSE scan[k + 1]]

\* The search has a result, whatever the sets: it is built from the last sample on.
LEMMA ScanExists ==
  ASSUME NEW n \in Nat, NEW inside, NEW over, NEW full, NEW time
  PROVE  \E scan : Scans(scan, n, inside, over, full, time)
  <1> DEFINE body(s, k) == IF k > n THEN Settling!NotSettled
                           ELSE IF k \notin inside THEN s[k + 1]
                           ELSE IF k \in over THEN Settling!NotSettled
                           ELSE IF k \in full THEN time[k]
                           ELSE s[k + 1]
             from(d) == {k \in 1 .. n + 1 : k >= n + 1 - d}
             D == {d \in Nat : \E s : s = [k \in from(d) |-> body(s, k)]}
  <1>1. 0 \in D
    <2> DEFINE s == [k \in from(0) |-> Settling!NotSettled]
    <2>1. \A k \in from(0) : k > n
      OBVIOUS
    <2>2. s = [k \in from(0) |-> body(s, k)]
      BY <2>1
    <2> HIDE DEF s, body, from
    <2> QED BY <2>2
  <1>2. ASSUME NEW d \in Nat, d \in D PROVE d + 1 \in D
    <2>1. PICK s : s = [k \in from(d) |-> body(s, k)]
      BY <1>2
    <2> DEFINE r == [k \in from(d + 1) |-> body(s, k)]
    <2>2. \A k \in from(d) : k \in from(d + 1) /\ s[k] = body(s, k)
      <3>1. \A k \in from(d) : k \in from(d + 1)
        OBVIOUS
      <3> HIDE DEF body, from
      <3> QED BY <2>1, <3>1
    <2>3. \A k \in from(d) : r[k] = s[k]
      <3> HIDE DEF body, from
      <3> QED BY <2>2
    <2>4. \A k \in from(d + 1) : k > n \/ k + 1 \in from(d)
      OBVIOUS
    <2>5. \A k \in from(d + 1) : body(r, k) = body(s, k)
      <3> HIDE DEF r, from
      <3> QED BY <2>3, <2>4
    <2>6. r = [k \in from(d + 1) |-> body(r, k)]
      <3> HIDE DEF body, from
      <3> QED BY <2>5
    <2> HIDE DEF r, body, from
    <2> QED BY <2>6
  <1> HIDE DEF D
  <1>3. n \in D
    <2>1. \A d \in Nat : d \in D
      BY <1>1, <1>2, SetInduction, Zenon
    <2> QED BY <2>1
  <1>4. PICK s : s = [k \in from(n) |-> body(s, k)]
    BY <1>3 DEF D
  <1>5. from(n) = 1 .. n + 1
    OBVIOUS
  <1> HIDE DEF from
  <1>6. Scans(s, n, inside, over, full, time)
    BY <1>4, <1>5 DEF Scans
  <1> QED BY <1>6

\* The samples the trajectory has settled at.
Qualified(inside, over, full) == {k \in inside : k \in full /\ k \notin over}

\* v is the time of the first of them.
Found(v, settled, time) ==
  \/ settled = {} /\ v = Settling!NotSettled
  \/ \E k \in settled : v = time[k] /\ \A j \in settled : k <= j

\* Where the samples whose window leaves the trajectory are its last ones, the search
\* ends at the first sample in the band that has its whole window there.
LEMMA ScanIsFirst ==
  ASSUME NEW n \in Nat, NEW inside \in SUBSET (1 .. n), NEW over \in SUBSET (1 .. n),
         NEW full, NEW time, NEW scan, Scans(scan, n, inside, over, full, time),
         \A j \in over, k \in 1 .. n : j <= k => k \in over
  PROVE  Found(scan[1], Qualified(inside, over, full), time)
  <1> DEFINE settled == Qualified(inside, over, full)
             First(k) == \/ scan[k] = Settling!NotSettled /\ \A j \in settled : j < k
                         \/ \E i \in settled : /\ scan[k] = time[i]
                                               /\ \A j \in settled : j < k \/ i <= j
             D == {d \in Nat : d <= n => First(n + 1 - d)}
  <1>0. \A k \in 1 .. n + 1 : scan[k] = IF k > n THEN Settling!NotSettled
                                        ELSE IF k \notin inside THEN scan[k + 1]
                                        ELSE IF k \in over THEN Settling!NotSettled
                                        ELSE IF k \in full THEN time[k]
                                        ELSE scan[k + 1]
    BY DEF Scans
  <1>1. settled \in SUBSET (1 .. n)
    BY DEF Qualified
  <1>2. First(n + 1)
    <2>1. n + 1 \in 1 .. n + 1 /\ n + 1 > n
      OBVIOUS
    <2>2. scan[n + 1] = Settling!NotSettled
      BY <1>0, <2>1
    <2>3. \A j \in settled : j < n + 1
      BY <1>1
    <2> QED BY <2>2, <2>3
  <1>3. ASSUME NEW k \in 1 .. n, First(k + 1) PROVE First(k)
    <2>1. k \in 1 .. n + 1 /\ ~ (k > n)
      OBVIOUS
    <2>2. CASE scan[k] = scan[k + 1] /\ k \notin settled
      <3>1. \A j \in settled : j < k + 1 => j < k
        BY <1>1, <2>2
      <3> HIDE DEF settled
      <3> QED BY <1>3, <2>2, <3>1
    <2>3. CASE k \in over /\ scan[k] = Settling!NotSettled
      <3>1. \A j \in settled : j < k
        BY <1>1, <2>3 DEF Qualified
      <3> HIDE DEF settled
      <3> QED BY <2>3, <3>1
    <2>4. CASE k \in settled /\ scan[k] = time[k]
      <3>1. \A j \in settled : j < k \/ k <= j
        BY <1>1
      <3> HIDE DEF settled
      <3> QED BY <2>4, <3>1
    <2> HIDE DEF First
    <2> QED BY <1>0, <2>1, <2>2, <2>3, <2>4 DEF Qualified
  <1> HIDE DEF First, D
  <1>4. 0 \in D
    <2>1. n + 1 - 0 = n + 1
      OBVIOUS
    <2> QED BY <1>2, <2>1 DEF D
  <1>5. ASSUME NEW d \in Nat, d \in D PROVE d + 1 \in D
    <2>1. ASSUME d + 1 <= n PROVE First(n + 1 - (d + 1))
      <3>1. n - d \in 1 .. n /\ n + 1 - (d + 1) = n - d /\ n + 1 - d = (n - d) + 1 /\ d <= n
        BY <2>1
      <3>2. First((n - d) + 1)
        BY <1>5, <3>1 DEF D
      <3> QED BY <1>3, <3>1, <3>2
    <2> QED BY <2>1 DEF D
  <1>6. \A d \in Nat : d \in D
    BY <1>4, <1>5, SetInduction, Zenon
  <1>7. First(1)
    <2>1. n + 1 - n = 1 /\ n <= n
      OBVIOUS
    <2> QED BY <1>6, <2>1 DEF D
  <1>8. \A j \in settled : j \in Nat /\ ~ (j < 1)
    BY <1>1
  <1> HIDE DEF settled
  <1>9. Found(scan[1], settled, time)
    BY <1>7, <1>8 DEF First, Found
  <1> QED BY <1>9 DEF settled

\* The search as it stands in the code.
Searches(scan, t, inside, onset, window) ==
  scan = [k \in 1 .. Len(t) + 1 |->
            IF k > Len(t) THEN Settling!NotSettled
            ELSE IF k \notin inside THEN scan[k + 1]
            ELSE IF Len(t) \in Settling!WindowOf(t, k, window) THEN Settling!NotSettled
            ELSE IF Settling!WindowOf(t, k, window) \subseteq inside THEN t[k] - onset
            ELSE scan[k + 1]]

\* The search of the settling time, which gives up at the first sample in the band
\* whose window leaves the trajectory, misses none that would have qualified: over any
\* trajectory whose times do not decrease it returns the first moment from which both
\* compositions stay in the band for a whole window, and none if there is no such.
THEOREM SettlingSearchFindsFirst ==
  ASSUME NEW t \in Seq(Int), \A j, k \in 1 .. Len(t) : j <= k => t[j] <= t[k],
         NEW y_D, NEW x_B, NEW onset \in Int, NEW band, NEW window \in Nat
  PROVE  Settling!settling_time(t, y_D, x_B, onset, band, window)
           = Settling!Settled(t, y_D, x_B, onset, band, window)
  <1> DEFINE n == Len(t)
             inside == Settling!InsideBand(t, y_D, x_B, onset, band)
             win(k) == Settling!WindowOf(t, k, window)
             over == {k \in 1 .. n : n \in win(k)}
             full == {k \in 1 .. n : win(k) \subseteq inside}
             time == [k \in 1 .. n |-> t[k] - onset]
             settled == Qualified(inside, over, full)
             scan == CHOOSE s : Searches(s, t, inside, onset, window)
  <1>1. n \in Nat /\ DOMAIN t = 1 .. n /\ \A k \in 1 .. n : t[k] \in Int
    OBVIOUS
  <1>2. inside \in SUBSET (1 .. n)
    BY <1>1 DEF Settling!InsideBand
  <1>3. \A k \in 1 .. n : n \in win(k) <=> t[n] <= t[k] + window
    BY <1>1 DEF Settling!WindowOf
  <1>4. \A j \in over, k \in 1 .. n : j <= k => k \in over
    <2> SUFFICES ASSUME NEW j \in over, NEW k \in 1 .. n, j <= k PROVE k \in over
      OBVIOUS
    <2>1. j \in 1 .. n /\ t[n] <= t[j] + window /\ t[j] <= t[k]
      BY <1>3
    <2>2. n \in 1 .. n
      BY <2>1, <1>1
    <2>3. t[n] <= t[k] + window
      BY <1>1, <2>1, <2>2
    <2> QED BY <1>3, <2>3
  <1>5. Settling!settling_time(t, y_D, x_B, onset, band, window) = scan[1]
    BY Zenon DEF Settling!settling_time, Searches
  <1>6. \A s : Searches(s, t, inside, onset, window) <=> Scans(s, n, inside, over, full, time)
    <2> SUFFICES ASSUME NEW s
                 PROVE  Searches(s, t, inside, onset, window) <=> Scans(s, n, inside, over, full, time)
      OBVIOUS
    <2> HIDE DEF n, win
    <2> QED BY <1>1, <1>2 DEF Scans, Searches, n, win
  <1>7. over \in SUBSET (1 .. n)
    OBVIOUS
  <1> HIDE DEF n, inside, over, full, time, scan
  <1>8. Scans(scan, n, inside, over, full, time)
    <2>1. \E s : Scans(s, n, inside, over, full, time)
      BY <1>1, ScanExists
    <2>2. Searches(scan, t, inside, onset, window)
      BY <1>6, <2>1, Zenon DEF scan
    <2> QED BY <1>6, <2>2
  <1>9. Found(scan[1], settled, time)
    <2>1. n \in Nat
      BY <1>1
    <2> QED BY <1>2, <1>4, <1>7, <1>8, <2>1, ScanIsFirst, Zenon
  <1> DEFINE times == {t[k] - onset : k \in settled}
  <1>10. Settling!Settled(t, y_D, x_B, onset, band, window)
           = IF settled = {} THEN Settling!NotSettled ELSE Settling!Min(times)
    <2>1. \A k \in inside : k \in settled <=> win(k) \subseteq inside /\ t[n] > t[k] + window
      <3>1. \A k \in inside : k \in 1 .. n /\ n \in 1 .. n
        BY <1>1, <1>2
      <3>2. \A k \in 1 .. n : k \in full <=> win(k) \subseteq inside
        BY DEF full
      <3>3. \A k \in 1 .. n : n \in 1 .. n => (k \in over <=> ~ (t[n] > t[k] + window))
        BY <1>1, <1>3 DEF over
      <3> QED BY <3>1, <3>2, <3>3 DEF Qualified
    <2>2. settled = {k \in inside : win(k) \subseteq inside /\ t[n] > t[k] + window}
      <3>1. settled \subseteq inside
        BY DEF Qualified
      <3> HIDE DEF settled, win
      <3> QED BY <2>1, <3>1
    <2> HIDE DEF settled
    <2> QED BY <2>2, Zenon DEF Settling!Settled, inside, n
  <1>11. ASSUME NEW k \in settled, \A j \in settled : k <= j
         PROVE  time[k] = Settling!Min(times)
    <2>1. \A j \in settled : j \in 1 .. n /\ t[j] \in Int /\ t[k] <= t[j]
      BY <1>1, <1>2, <1>11 DEF Qualified, n
    <2>2. time[k] = t[k] - onset
      BY <2>1 DEF time
    <2> HIDE DEF settled
    <2>3. t[k] - onset \in times /\ \A x \in times : x \in Int /\ t[k] - onset <= x
      BY <2>1
    <2> HIDE DEF times
    <2>4. Settling!Min(times) = CHOOSE x \in times : \A y \in times : x <= y
      BY DEF Settling!Min
    <2> QED BY <2>2, <2>3, <2>4
  <1> HIDE DEF settled, times
  <1> QED BY <1>5, <1>9, <1>10, <1>11 DEF Found
================================================================================
