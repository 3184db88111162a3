------------------------ MODULE SnapshotFilesProofs -------------------------
(***************************************************************************)
(* The snapshot directory and its index, for every maxSnapshots, every     *)
(* base of the numerals in the names and every sequence of changes,        *)
(* snapshots, failed writes, crashes and restarts.                         *)
(***************************************************************************)
EXTENDS SnapshotFiles, SequenceTheorems, FiniteSetTheorems, NaturalsInduction,
        WellFoundedInduction, TLAPS

-----------------------------------------------------------------------------
(* The order of the names: the digits of the versions.  Quotient and       *)
(* remainder have names of their own, which keep the multiplication out of *)
(* the proofs that do not need it.                                         *)
Numerals == 0 .. Base - 1
Quo(n) == n \div Base
Rem(n) == n % Base

(* The digits are numbers. *)
LEMMA NumeralsAre ==
  /\ Numerals \subseteq Nat
  /\ \A n \in Nat : n \in Numerals <=> n < Base
BY BaseAssumption DEF Numerals

(* Division by the base. *)
LEMMA Quotient ==
  ASSUME NEW n \in Nat
  PROVE  /\ Quo(n) \in Nat /\ Rem(n) \in Numerals
         /\ n \notin Numerals => Quo(n) < n
<1>1. n \div Base \in Nat /\ n % Base \in 0 .. Base - 1
  BY BaseAssumption
<1>2. n = Base * (n \div Base) + (n % Base)
  BY BaseAssumption
<1>3. n >= Base => n \div Base < n
  BY <1>1, <1>2, BaseAssumption
<1>4. n \notin 0 .. Base - 1 => n >= Base
  BY BaseAssumption
<1> QED BY <1>1, <1>3, <1>4 DEF Quo, Rem, Numerals

(* The order of two numbers, from their quotients and remainders. *)
LEMMA QuotientOrder ==
  ASSUME NEW m \in Nat, NEW n \in Nat
  PROVE  /\ Quo(m) < Quo(n) => m < n
         /\ m <= n => Quo(m) <= Quo(n)
         /\ Quo(m) = Quo(n) /\ Rem(m) < Rem(n) => m < n
         /\ Quo(m) = Quo(n) /\ Rem(m) = Rem(n) => m = n
         /\ m <= n /\ m \notin Numerals => n \notin Numerals
<1> PICK p, q \in Nat : p = Quo(m) /\ q = Quo(n)
  BY Quotient
<1> PICK r, u \in 0 .. Base - 1 : r = Rem(m) /\ u = Rem(n)
  BY Quotient DEF Numerals
<1>1. m = Base * p + r /\ n = Base * q + u
  BY BaseAssumption DEF Quo, Rem
<1>2. Base * p \in Nat /\ Base * q \in Nat
  BY BaseAssumption
<1>3. ASSUME p < q PROVE m < n
  <2>1. PICK d \in Nat : q = p + 1 + d
    <3>1. q - p - 1 \in Nat /\ q = p + 1 + (q - p - 1)
      BY <1>3
    <3> QED BY <3>1
  <2>2. Base * q = Base * p + Base + Base * d
    BY <2>1, BaseAssumption
  <2>3. Base * d \in Nat
    BY BaseAssumption
  <2> QED BY <1>1, <1>2, <2>2, <2>3, BaseAssumption
<1>4. m <= n => p <= q
  <2>1. ASSUME q < p PROVE n < m
    <3>1. PICK d \in Nat : p = q + 1 + d
      <4>1. p - q - 1 \in Nat /\ p = q + 1 + (p - q - 1)
        BY <2>1
      <4> QED BY <4>1
    <3>2. Base * p = Base * q + Base + Base * d
      BY <3>1, BaseAssumption
    <3>3. Base * d \in Nat
      BY BaseAssumption
    <3> QED BY <1>1, <1>2, <3>2, <3>3, BaseAssumption
  <2> QED BY <2>1
<1>5. p = q /\ r < u => m < n
  BY <1>1, <1>2, BaseAssumption
<1>6. p = q /\ r = u => m = n
  BY <1>1
<1>7. m <= n /\ m \notin Numerals => n \notin Numerals
  BY BaseAssumption DEF Numerals
<1> QED BY <1>3, <1>4, <1>5, <1>6, <1>7

(* A set of numbers has a least one: what the proofs by induction below    *)
(* pick their counterexample with.                                         *)
LEMMA LeastNat ==
  ASSUME NEW T \in SUBSET Nat, T # {}
  PROVE  \E x \in T : \A y \in T : x <= y
<1>1. PICK x \in T : \A y \in T : ~(<<y, x>> \in OpToRel(<, Nat))
  BY NatLessThanWellFounded, WFMin
<1>2. \A y \in T : ~(y < x)
  BY <1>1 DEF OpToRel
<1>3. QED
  BY <1>2

(* The equation of Digits has a solution: one up to n extends to one up to *)
(* n + 1, and any two agree where both are defined.                        *)
WithDigits(f, n) == IF n \in Numerals THEN <<n>> ELSE Append(f[Quo(n)], Rem(n))
(* The two cases of the equation. *)
LEMMA WithDigitsIs ==
  ASSUME NEW f, NEW n \in Nat
  PROVE  /\ n \in Numerals => WithDigits(f, n) = <<n>>
         /\ n \notin Numerals => WithDigits(f, n) = Append(f[Quo(n)], Rem(n))
<1>1. n \notin Numerals => ~(n \in Numerals)
  OBVIOUS
<1> QED BY <1>1, Zenon DEF WithDigits

(* The solutions up to n. *)
UpTo(n) == {f \in [0 .. n -> Seq(Numerals)] : \A i \in 0 .. n : f[i] = WithDigits(f, i)}
(* There is one for every n: that of n - 1, continued. *)
LEMMA DigitsUpTo == \A n \in Nat : UpTo(n) # {}
<1> DEFINE T == {n \in Nat : UpTo(n) = {}}
<1> SUFFICES ASSUME T # {} PROVE FALSE
  OBVIOUS
<1>1. PICK n \in T : \A m \in T : n <= m
  <2> T \in SUBSET Nat
    OBVIOUS
  <2> QED BY LeastNat
<1>2. n \in Nat /\ UpTo(n) = {}
  BY <1>1
<1>3. PICK f : n > 0 => f \in UpTo(n - 1)
  <2>1. n > 0 => n - 1 \in Nat /\ n - 1 \notin T
    BY <1>1, <1>2
  <2> QED BY <2>1
<1> DEFINE last == IF n \in Numerals THEN <<n>> ELSE Append(f[Quo(n)], Rem(n))
           g == [i \in 0 .. n |-> IF i = n THEN last ELSE f[i]]
<1>4. \A i \in 0 .. n : i # n => /\ n > 0 /\ i \in 0 .. n - 1 /\ f[i] \in Seq(Numerals)
                                 /\ f[i] = WithDigits(f, i)
  BY <1>2, <1>3 DEF UpTo
<1>5. \A i \in 0 .. n : i \notin Numerals => Quo(i) \in 0 .. n /\ Quo(i) < i /\ Quo(i) # n
  BY <1>2, Quotient
<1>6. last \in Seq(Numerals)
  <2>1. CASE n \in Numerals
    BY <1>2, <2>1
  <2>2. CASE n \notin Numerals
    <3>1. f[Quo(n)] \in Seq(Numerals) /\ Rem(n) \in Numerals
      BY <1>2, <1>4, <1>5, <2>2, Quotient, SMTT(30)
    <3> QED BY <1>2, <2>2, <3>1, AppendProperties
  <2> QED BY <1>2, <2>1, <2>2
<1> HIDE DEF last
<1>7. g \in [0 .. n -> Seq(Numerals)]
  BY <1>4, <1>6
<1>8. ASSUME NEW i \in 0 .. n PROVE g[i] = WithDigits(g, i)
  <2>1. i \notin Numerals => g[Quo(i)] = f[Quo(i)]
    BY <1>5
  <2>2. WithDigits(g, i) = WithDigits(f, i)
    <3> HIDE DEF g
    <3> QED BY <1>2, <2>1 DEF WithDigits
  <2>3. CASE i = n
    BY <2>2, <2>3 DEF last, WithDigits
  <2>4. CASE i # n
    BY <2>2, <2>4, <1>4
  <2> QED BY <2>3, <2>4
<1> HIDE DEF g
<1> QED BY <1>2, <1>7, <1>8 DEF UpTo

(* Solutions agree as far as both go. *)
LEMMA DigitsAgree ==
  ASSUME NEW m \in Nat, NEW n \in Nat, NEW f \in UpTo(m), NEW g \in UpTo(n)
  PROVE  \A i \in Nat : i <= m /\ i <= n => f[i] = g[i]
<1> DEFINE T == {i \in Nat : i <= m /\ i <= n /\ f[i] # g[i]}
<1> SUFFICES ASSUME T # {} PROVE FALSE
  OBVIOUS
<1>1. PICK i \in T : \A j \in T : i <= j
  <2> T \in SUBSET Nat
    OBVIOUS
  <2> QED BY LeastNat
<1>2. i \in Nat /\ i <= m /\ i <= n /\ f[i] # g[i]
  BY <1>1
<1>3. f[i] = WithDigits(f, i) /\ g[i] = WithDigits(g, i)
  BY <1>2 DEF UpTo
<1>4. i \notin Numerals
  BY <1>2, <1>3 DEF WithDigits
<1>5. Quo(i) \in Nat /\ Quo(i) < i
  BY <1>2, <1>4, Quotient
<1>6. Quo(i) \notin T
  BY <1>1, <1>2, <1>5
<1>7. f[Quo(i)] = g[Quo(i)]
  BY <1>2, <1>5, <1>6
<1> QED BY <1>2, <1>3, <1>4, <1>7 DEF WithDigits

(* The digits of a number are those of its quotient and the remainder.     *)
LEMMA DigitsUnfold ==
  /\ Digits \in [Nat -> Seq(Numerals)]
  /\ \A n \in Nat : Digits[n] = WithDigits(Digits, n)
<1> DEFINE Some(n) == CHOOSE f : f \in UpTo(n)
           F == [n \in Nat |-> Some(n)[n]]
<1>1. \A n \in Nat : Some(n) \in UpTo(n)
  BY DigitsUpTo
<1> HIDE DEF Some
<1>2. \A n \in Nat : F[n] = Some(n)[n] /\ F[n] \in Seq(Numerals)
  BY <1>1 DEF UpTo
<1>3. ASSUME NEW n \in Nat PROVE F[n] = WithDigits(F, n)
  <2>1. Some(n)[n] = WithDigits(Some(n), n)
    BY <1>1 DEF UpTo
  <2>2. n \notin Numerals => F[Quo(n)] = Some(n)[Quo(n)]
    <3> SUFFICES ASSUME n \notin Numerals PROVE F[Quo(n)] = Some(n)[Quo(n)]
      OBVIOUS
    <3>1. Quo(n) \in Nat /\ Quo(n) <= n
      BY Quotient
    <3>2. Some(Quo(n))[Quo(n)] = Some(n)[Quo(n)]
      BY <1>1, <3>1, DigitsAgree
    <3> QED BY <3>1, <3>2
  <2>3. F[n] = Some(n)[n]
    OBVIOUS
  <2> HIDE DEF F
  <2> QED BY <2>1, <2>2, <2>3 DEF WithDigits
<1>4. F = [n \in Nat |-> WithDigits(F, n)]
  <2>1. F = [n \in Nat |-> F[n]]
    OBVIOUS
  <2> HIDE DEF F
  <2> QED BY <1>3, <2>1
<1> HIDE DEF F
<1>5. Digits = [n \in Nat |-> WithDigits(Digits, n)]
  <2>1. \A f : \A n \in Nat :
          WithDigits(f, n) = IF n < Base THEN <<n>> ELSE Append(f[n \div Base], n % Base)
    BY NumeralsAre DEF WithDigits, Quo, Rem
  <2> QED BY <1>4, <2>1 DEF Digits
<1>6. \A n \in Nat : Digits[n] = WithDigits(Digits, n)
  BY <1>5
<1>7. ASSUME NEW n \in Nat PROVE Digits[n] \in Seq(Numerals)
  <2> DEFINE T == {m \in Nat : Digits[m] \notin Seq(Numerals)}
  <2> SUFFICES ASSUME T # {} PROVE FALSE
    OBVIOUS
  <2>1. PICK m \in T : \A l \in T : m <= l
    <3> T \in SUBSET Nat
      OBVIOUS
    <3> QED BY LeastNat
  <2>2. m \in Nat /\ Digits[m] \notin Seq(Numerals)
    BY <2>1
  <2>3. CASE m \in Numerals
    <3>1. Digits[m] = <<m>> /\ m \in Numerals
      BY <1>6, <2>2, <2>3, WithDigitsIs
    <3> QED BY <2>2, <3>1
  <2>4. CASE m \notin Numerals
    <3>1. Quo(m) \in Nat /\ Quo(m) < m /\ Rem(m) \in Numerals
      BY <2>2, <2>4, Quotient
    <3>2. Quo(m) \notin T
      BY <2>1, <2>2, <3>1
    <3>3. Digits[Quo(m)] \in Seq(Numerals)
      BY <3>1, <3>2
    <3>4. Digits[m] = Append(Digits[Quo(m)], Rem(m))
      BY <1>6, <2>2, <2>4, WithDigitsIs
    <3> QED BY <2>2, <3>1, <3>3, <3>4, AppendProperties
  <2> QED BY <2>2, <2>3, <2>4
<1>8. Digits = [n \in Nat |-> Digits[n]]
  BY <1>5
<1> QED BY <1>6, <1>7, <1>8

(* A number that is not below the base has the digits of its quotient by   *)
(* the base, and one more.                                                 *)
LEMMA DigitsAppended ==
  ASSUME NEW n \in Nat
  PROVE  /\ Digits[n] \in Seq(Numerals) /\ Len(Digits[n]) \in Nat \ {0}
         /\ n \in Numerals => Len(Digits[n]) = 1 /\ Digits[n][1] = n
         /\ n \notin Numerals => /\ Len(Digits[Quo(n)]) \in Nat \ {0}
                       /\ Len(Digits[n]) = Len(Digits[Quo(n)]) + 1
                       /\ \A i \in 1 .. Len(Digits[Quo(n)]) : Digits[n][i] = Digits[Quo(n)][i]
                       /\ Digits[n][Len(Digits[n])] = Rem(n)
<1>1. \A m \in Nat : Digits[m] \in Seq(Numerals) /\ Len(Digits[m]) \in Nat
  BY DigitsUnfold, LenProperties
<1>2. CASE n \in Numerals
  <2>1. Digits[n] = <<n>>
    BY <1>2, DigitsUnfold, WithDigitsIs
  <2> QED BY <1>1, <1>2, <2>1
<1>3. ASSUME NEW m \in Nat, m \notin Numerals
      PROVE  /\ Len(Digits[m]) = Len(Digits[Quo(m)]) + 1
             /\ \A i \in 1 .. Len(Digits[Quo(m)]) : Digits[m][i] = Digits[Quo(m)][i]
             /\ Digits[m][Len(Digits[m])] = Rem(m)
  <2>1. Quo(m) \in Nat /\ Rem(m) \in Numerals
    BY Quotient
  <2>2. Digits[m] = Append(Digits[Quo(m)], Rem(m))
    BY <1>3, DigitsUnfold, WithDigitsIs
  <2> QED BY <1>1, <2>1, <2>2, AppendProperties
<1>4. \A m \in Nat : Len(Digits[m]) # 0
  <2> TAKE m \in Nat
  <2>1. CASE m \in Numerals
    <3>1. Digits[m] = <<m>>
      BY <2>1, DigitsUnfold, WithDigitsIs
    <3> QED BY <3>1
  <2>2. CASE m \notin Numerals
    <3>1. Quo(m) \in Nat
      BY Quotient
    <3> QED BY <1>1, <1>3, <2>2, <3>1
  <2> QED BY <2>1, <2>2
<1>5. n \notin Numerals => Quo(n) \in Nat
  BY Quotient
<1> QED BY <1>1, <1>2, <1>3, <1>4, <1>5

(* The number of digits, and each of them. *)
Width(n) == Len(Digits[n])
Digit(n, i) == Digits[n][i]
(* n has the digits of q, and one more, its remainder. *)
Continues(n, q) ==
  /\ q \in Nat /\ Width(q) \in Nat \ {0} /\ Width(n) = Width(q) + 1
  /\ \A i \in 1 .. Width(q) : Digit(n, i) = Digit(q, i)
  /\ Digit(n, Width(n)) = Rem(n)
(* DigitsAppended, by width and digit. *)
LEMMA DigitsOf ==
  ASSUME NEW n \in Nat
  PROVE  /\ Width(n) \in Nat \ {0}
         /\ n \in Numerals => Width(n) = 1 /\ Digit(n, 1) = n
         /\ n \notin Numerals => Continues(n, Quo(n))
<1>1. n \notin Numerals => Quo(n) \in Nat
  BY Quotient
<1> QED BY <1>1, DigitsAppended DEF Width, Digit, Continues

(* A number with more digits is greater. *)
LEMMA MoreDigits ==
  ASSUME NEW a \in Nat, NEW b \in Nat, a <= b
  PROVE  Width(a) <= Width(b)
<1> DEFINE T == {m \in Nat : \E l \in Nat : l <= m /\ ~(Width(l) <= Width(m))}
<1> SUFFICES ASSUME T # {} PROVE FALSE
  OBVIOUS
<1>1. PICK m \in T : \A j \in T : m <= j
  <2> T \in SUBSET Nat
    OBVIOUS
  <2> QED BY LeastNat
<1>2. PICK l \in Nat : m \in Nat /\ l <= m /\ ~(Width(l) <= Width(m))
  BY <1>1
<1>3. CASE l \in Numerals
  <2>1. Width(l) = 1
    BY <1>3, DigitsOf
  <2>2. Width(m) \in Nat \ {0}
    BY <1>2, DigitsOf
  <2> QED BY <1>2, <2>1, <2>2
<1>4. CASE l \notin Numerals
  <2>1. m \notin Numerals /\ Quo(m) \in Nat /\ Quo(l) \in Nat /\ Quo(m) < m /\ Quo(l) <= Quo(m)
    BY <1>2, <1>4, Quotient, QuotientOrder
  <2>0. Continues(l, Quo(l)) /\ Continues(m, Quo(m))
    BY <1>2, <1>4, <2>1, DigitsOf
  <2>2. Quo(m) \notin T
    BY <1>1, <1>2, <2>1
  <2>3. Width(Quo(l)) <= Width(Quo(m))
    BY <2>1, <2>2
  <2>4. Width(l) = Width(Quo(l)) + 1 /\ Width(m) = Width(Quo(m)) + 1
    BY <2>0 DEF Continues
  <2>5. Width(Quo(l)) \in Nat /\ Width(Quo(m)) \in Nat
    BY <2>0 DEF Continues
  <2> QED BY <1>2, <2>3, <2>4, <2>5
<1> QED BY <1>2, <1>3, <1>4

(* Only a number below the base has one digit. *)
LEMMA Longer ==
  ASSUME NEW n \in Nat
  PROVE  Width(n) = 1 <=> n \in Numerals
<1>1. n \notin Numerals => Continues(n, Quo(n))
  BY DigitsOf
<1>2. n \notin Numerals => Width(n) # 1
  BY <1>1 DEF Continues
<1> QED BY <1>2, DigitsOf

(* a and b have the same first n digits. *)
SameFor(a, b, n) == \A i \in 1 .. n : Digit(a, i) = Digit(b, i)
(* The digits tell a number: a least one with the digits of another would  *)
(* have a quotient that is less.                                           *)
LEMMA DigitsTell ==
  ASSUME NEW a \in Nat, NEW b \in Nat,
         Width(a) = Width(b), SameFor(a, b, Width(a))
  PROVE  a = b
<1> DEFINE Alike(l, m) == Width(l) = Width(m) /\ SameFor(l, m, Width(l)) /\ l # m
           T == {m \in Nat : \E l \in Nat : Alike(l, m)}
<1> SUFFICES ASSUME T # {} PROVE FALSE
  OBVIOUS
<1>1. PICK m \in T : \A j \in T : m <= j
  <2> T \in SUBSET Nat
    OBVIOUS
  <2> QED BY LeastNat
<1>2. PICK l \in Nat : m \in Nat /\ Alike(l, m)
  BY <1>1
<1>3. CASE l \in Numerals \/ m \in Numerals
  <2>1. Width(l) = 1 /\ Width(m) = 1 /\ l \in Numerals /\ m \in Numerals
    BY <1>2, <1>3, Longer
  <2>2. Digit(l, 1) = l /\ Digit(m, 1) = m
    BY <1>2, <2>1, DigitsOf
  <2> QED BY <1>2, <2>1, <2>2 DEF SameFor
<1>4. CASE l \notin Numerals /\ m \notin Numerals
  <2>0. Continues(l, Quo(l)) /\ Continues(m, Quo(m))
    BY <1>2, <1>4, DigitsOf
  <2>1. Quo(m) \in Nat /\ Quo(l) \in Nat /\ Quo(m) < m
    BY <1>2, <1>4, Quotient
  <2>2. ~Alike(Quo(l), Quo(m))
    BY <1>1, <1>2, <2>1
  <2>3. PICK n \in Nat : /\ Width(Quo(l)) = n /\ Width(Quo(m)) = n
                         /\ Width(l) = n + 1 /\ Width(m) = n + 1
    <3>1. Width(l) = Width(Quo(l)) + 1 /\ Width(Quo(l)) \in Nat
      BY <2>0 DEF Continues
    <3>2. Width(m) = Width(Quo(m)) + 1 /\ Width(Quo(m)) \in Nat
      BY <2>0 DEF Continues
    <3>3. Width(l) = Width(m)
      BY <1>2
    <3>4. Width(Quo(m)) = Width(Quo(l))
      BY <3>1, <3>2, <3>3
    <3>5. Width(m) = Width(Quo(l)) + 1
      BY <3>2, <3>4
    <3> QED BY <3>1, <3>4, <3>5, Zenon
  <2>4. SameFor(Quo(l), Quo(m), n)
    <3>1. \A i \in 1 .. n : Digit(l, i) = Digit(Quo(l), i) /\ Digit(m, i) = Digit(Quo(m), i)
      BY <2>0, <2>3 DEF Continues
    <3>2. \A i \in 1 .. n : Digit(l, i) = Digit(m, i)
      BY <1>2, <2>3 DEF SameFor
    <3> QED BY <3>1, <3>2 DEF SameFor
  <2>5. Quo(l) = Quo(m)
    BY <2>2, <2>3, <2>4
  <2>6. Rem(l) = Rem(m)
    <3>1. Digit(l, n + 1) = Rem(l) /\ Digit(m, n + 1) = Rem(m)
      BY <2>0, <2>3 DEF Continues
    <3>2. n + 1 \in 1 .. Width(l) /\ \A i \in 1 .. Width(l) : Digit(l, i) = Digit(m, i)
      BY <1>2, <2>3 DEF SameFor
    <3> QED BY <3>1, <3>2
  <2> QED BY <1>2, <2>5, <2>6, QuotientOrder
<1> QED BY <1>2, <1>3, <1>4

(* a and b have the same digits before place k, and a the smaller one there. *)
FirstAt(a, b, k) == SameFor(a, b, k - 1) /\ Digit(a, k) < Digit(b, k)
(* Of two numbers with equally many digits the one whose digits come first *)
(* is the smaller.                                                         *)
LEMMA DigitsOrder ==
  ASSUME NEW a \in Nat, NEW b \in Nat, Width(a) = Width(b),
         NEW k \in 1 .. Width(a), FirstAt(a, b, k)
  PROVE  a < b
<1> DEFINE Counter(l, m) == /\ Width(l) = Width(m)
                           /\ \E i \in 1 .. Width(l) : FirstAt(l, m, i)
                           /\ ~(l < m)
           T == {m \in Nat : \E l \in Nat : Counter(l, m)}
<1> SUFFICES ASSUME T # {} PROVE FALSE
  OBVIOUS
<1>1. PICK m \in T : \A j \in T : m <= j
  <2> T \in SUBSET Nat
    OBVIOUS
  <2> QED BY LeastNat
<1>2. PICK l \in Nat : m \in Nat /\ Counter(l, m)
  BY <1>1
<1>3. PICK i \in 1 .. Width(l) : FirstAt(l, m, i)
  BY <1>2
<1>4. CASE l \in Numerals \/ m \in Numerals
  <2>1. Width(l) = 1 /\ l \in Numerals /\ m \in Numerals
    BY <1>2, <1>4, Longer
  <2>2. Digit(l, 1) = l /\ Digit(m, 1) = m
    BY <1>2, <2>1, DigitsOf
  <2>3. i = 1
    BY <2>1
  <2> QED BY <1>2, <1>3, <2>2, <2>3 DEF FirstAt
<1>5. CASE l \notin Numerals /\ m \notin Numerals
  <2>0. Continues(l, Quo(l)) /\ Continues(m, Quo(m))
    BY <1>2, <1>5, DigitsOf
  <2>1. Quo(m) \in Nat /\ Quo(l) \in Nat /\ Quo(m) < m
    BY <1>2, <1>5, Quotient
  <2>2. ~Counter(Quo(l), Quo(m))
    BY <1>1, <1>2, <2>1
  <2>3. PICK n \in Nat : /\ Width(Quo(l)) = n /\ Width(Quo(m)) = n
                         /\ Width(l) = n + 1 /\ Width(m) = n + 1
    <3>1. Width(l) = Width(Quo(l)) + 1 /\ Width(Quo(l)) \in Nat
      BY <2>0 DEF Continues
    <3>2. Width(m) = Width(Quo(m)) + 1 /\ Width(Quo(m)) \in Nat
      BY <2>0 DEF Continues
    <3>3. Width(l) = Width(m)
      BY <1>2
    <3>4. Width(Quo(m)) = Width(Quo(l))
      BY <3>1, <3>2, <3>3
    <3>5. Width(m) = Width(Quo(l)) + 1
      BY <3>2, <3>4
    <3> QED BY <3>1, <3>4, <3>5, Zenon
  <2>4. /\ \A j \in 1 .. n : Digit(l, j) = Digit(Quo(l), j) /\ Digit(m, j) = Digit(Quo(m), j)
        /\ Digit(l, n + 1) = Rem(l) /\ Digit(m, n + 1) = Rem(m)
    BY <2>0, <2>3 DEF Continues
  <2>5. i \in 1 .. n + 1
    BY <2>3
  <2>6. \A j \in 1 .. i - 1 : j \in 1 .. n /\ Digit(l, j) = Digit(m, j)
    BY <1>3, <2>5 DEF FirstAt, SameFor
  <2>7. \A j \in 1 .. i - 1 : Digit(Quo(l), j) = Digit(Quo(m), j)
    BY <2>4, <2>6
  <2>8. CASE i = n + 1
    <3>1. SameFor(Quo(l), Quo(m), n)
      BY <2>7, <2>8 DEF SameFor
    <3>2. Quo(l) = Quo(m)
      BY <2>1, <2>3, <3>1, DigitsTell
    <3>3. Rem(l) < Rem(m)
      BY <1>3, <2>4, <2>8 DEF FirstAt
    <3> QED BY <1>2, <3>2, <3>3, QuotientOrder
  <2>9. CASE i \in 1 .. n
    <3>1. FirstAt(Quo(l), Quo(m), i)
      BY <1>3, <2>4, <2>7, <2>9 DEF FirstAt, SameFor
    <3>2. Quo(l) < Quo(m)
      BY <2>2, <2>3, <2>9, <3>1
    <3> QED BY <1>2, <3>2, QuotientOrder
  <2> QED BY <2>5, <2>8, <2>9
<1> QED BY <1>2, <1>4, <1>5

(* The order of the file names, between versions of equally many digits.   *)
LEMMA StringOrder ==
  ASSUME NEW a \in Nat, NEW b \in Nat, Width(a) = Width(b),
         StringBefore(Digits[a], Digits[b])
  PROVE  a < b
<1> PICK s, t \in Seq(Numerals) : s = Digits[a] /\ t = Digits[b]
  BY DigitsUnfold
<1>0. Len(s) = Len(t)
  BY DEF Width
<1>1. /\ Len(s) = Len(t) /\ Len(s) \in Nat
      /\ \A i \in 1 .. Len(s) : s[i] \in Numerals /\ t[i] \in Numerals
  BY <1>0, LenProperties, ElementOfSeq
<1>2. ASSUME NEW n \in 0 .. Len(s), SubSeq(s, 1, n) = SubSeq(t, 1, n)
      PROVE  \A i \in 1 .. n : s[i] = t[i]
  <2>1. \A i \in 1 .. n : SubSeq(s, 1, n)[i] = s[i] /\ SubSeq(t, 1, n)[i] = t[i]
    BY <1>1, SubSeqProperties
  <2> QED BY <1>2, <2>1
<1>3. ~IsStrictPrefix(s, t)
  <2> SUFFICES ASSUME IsStrictPrefix(s, t) PROVE FALSE
    OBVIOUS
  <2>1. SubSeq(s, 1, Len(s)) = SubSeq(t, 1, Len(s)) /\ s # t
    BY DEF IsStrictPrefix, IsPrefix
  <2>2. \A i \in 1 .. Len(s) : s[i] = t[i]
    BY <1>1, <1>2, <2>1
  <2> QED BY <1>1, <2>1, <2>2, SeqEqual
<1>4. PICK k \in 1 .. Len(s) : SubSeq(s, 1, k - 1) = SubSeq(t, 1, k - 1) /\ s[k] < t[k]
  BY <1>3 DEF StringBefore
<1>5. k - 1 \in 0 .. Len(s)
  BY <1>1
<1>6. \A i \in 1 .. k - 1 : s[i] = t[i]
  BY <1>2, <1>4, <1>5
<1>7. FirstAt(a, b, k)
  BY <1>4, <1>6 DEF FirstAt, SameFor, Digit
<1>8. k \in 1 .. Width(a)
  BY DEF Width
<1> QED BY <1>7, <1>8, DigitsOrder

-----------------------------------------------------------------------------
(* The directory, its index and the clock.                                 *)
Names == [version : Nat, timestamp : Nat]
FilesTypeOK ==
  /\ up \in BOOLEAN /\ spoiled \in BOOLEAN
  /\ version \in Nat /\ clock \in Nat
  /\ repeats \in Nat /\ repeats <= MaxSnapshots + 1
  /\ cached \in Names \cup {NoName} /\ newest \in Names \cup {NoName}
  /\ disk \in SUBSET Names /\ IsFiniteSet(disk) /\ torn \subseteq disk
  /\ index \in Seq(Names)

(* The clock is ahead of every file; the cached snapshot is the youngest   *)
(* one, of the current version.                                            *)
Past ==
  /\ \A f \in disk \cup ToSet(index) \cup {newest} : f.timestamp < clock
  /\ cached # NoName => up /\ cached = Name(version, clock - 1)
  /\ ~up => index = <<>>

(* While the last completed snapshot is the cached one, the copies of its  *)
(* name are the last entries of the index, as many as it was completed in  *)
(* a row or as there are.                                                  *)
Copies ==
  cached # NoName =>
    IF cached = newest
    THEN /\ Len(index) <= MaxSnapshots /\ Len(index) > 0
         /\ repeats <= Len(index) \/ Len(index) = MaxSnapshots
         /\ repeats > 0
         /\ \A i \in 1 .. Len(index) : index[i] = newest <=> i > Len(index) - repeats
    ELSE cached \notin ToSet(index)
NewestState ==
  /\ newest # NoName =>
       (newest \in disk \ torn <=> ~spoiled /\ repeats <= MaxSnapshots)
  /\ spoiled => newest \in torn
  /\ newest = NoName => disk \subseteq torn

(* Copies of a name stand together.  A listed file is there, except for    *)
(* those with the name of the first entry, which an earlier pruning may    *)
(* have unlinked; and every readable file is listed.                       *)
Grouped(s) ==
  \A i, k, j \in 1 .. Len(s) : i <= k /\ k <= j /\ s[i] = s[j] => s[k] = s[i]
Lists(s, dk, tn) ==
  /\ dk \ tn \subseteq ToSet(s)
  /\ \A i \in 1 .. Len(s) : s[i] \in dk \/ s[i] = s[1]
  /\ Grouped(s)

(* A file comes Before another when it is of a smaller version, or of the  *)
(* same one and older.  A listed file that can be read comes before what   *)
(* would be written now, or stands before a file that is torn or has fewer *)
(* digits: the version a restart loads is that of the last name, which     *)
(* need not be the greatest.  c is the cached snapshot, whose torn file    *)
(* may yet be replaced by a whole one.                                     *)
Before(a, b) ==
  \/ a.version < b.version
  \/ a.version = b.version /\ a.timestamp < b.timestamp
Shorter(f, g) == Width(f.version) < Width(g.version)
Behind(s, dk, tn, c, top) ==
  \A i \in 1 .. Len(s) :
    \/ s[i] \notin dk \ tn
    \/ Before(s[i], top)
    \/ \E j \in i + 1 .. Len(s) : s[j] \in tn \ {c} \/ Shorter(s[j], s[i])
IndexOK ==
  up => Lists(index, disk, torn) /\ Behind(index, disk, torn, cached, Name(version, clock))

(* With all files whole and of equally many digits, the last snapshot      *)
(* completed is the greatest.                                              *)
NewestGreatest ==
  (newest # NoName /\ repeats <= MaxSnapshots /\ torn = {} /\ SameDigits) =>
    \A f \in disk : f = newest \/ Before(f, newest)

FilesInv == FilesTypeOK /\ Past /\ Copies /\ NewestState /\ IndexOK /\ NewestGreatest

(* Nothing is there yet. *)
LEMMA FilesInitInv == FilesInit => FilesInv
<1> SUFFICES ASSUME FilesInit PROVE FilesInv
  OBVIOUS
<1>1. /\ up = FALSE /\ version = 0 /\ cached = NoName /\ clock = 0
      /\ disk = {} /\ torn = {} /\ index = <<>>
      /\ newest = NoName /\ repeats = 0 /\ spoiled = FALSE
  BY DEF FilesInit
<1>2. FilesTypeOK
  <2>1. index \in Seq(Names) /\ IsFiniteSet(disk)
    BY <1>1, FS_EmptySet, EmptySeq
  <2>2. repeats <= MaxSnapshots + 1
    BY <1>1, SnapshotsAssumption
  <2> QED BY <1>1, <2>1, <2>2 DEF FilesTypeOK
<1>3. ToSet(index) = {}
  BY <1>1 DEF ToSet
<1>4. Past
  BY <1>1, <1>3 DEF Past, NoName, Name
<1> QED BY <1>1, <1>2, <1>4 DEF FilesInv, Copies, NewestState, IndexOK, NewestGreatest

(* The name createSnapshot gives: a new one, or that of the cached         *)
(* snapshot, which is the youngest of all.                                 *)
LEMMA SnapshotName ==
  ASSUME FilesInv, MakeSnapshot
  PROVE  /\ up /\ clock' \in Nat /\ clock <= clock'
         /\ NextName \in Names /\ NextName # NoName
         /\ NextName = Name(version, clock' - 1)
         /\ NextName.version = version /\ NextName.timestamp < clock'
         /\ cached # NoName => NextName = cached
         /\ cached = NoName =>
              NextName \notin disk /\ NextName \notin ToSet(index) /\ NextName # newest
<1>1. NoName \notin Names /\ \A f \in Names : f # NoName
  BY DEF NoName, Name, Names
<1>2. up /\ version \in Nat /\ clock \in Nat /\ clock' = IF cached # NoName THEN clock ELSE clock + 1
  BY DEF MakeSnapshot, TimeOfName, FilesInv, FilesTypeOK
<1>3. CASE cached # NoName
  <2>1. cached = Name(version, clock - 1) /\ cached \in Names
    BY <1>3 DEF FilesInv, FilesTypeOK, Past
  <2>2. clock - 1 \in Nat
    BY <2>1 DEF Name, Names
  <2> QED BY <1>1, <1>2, <1>3, <2>1, <2>2 DEF NextName, Name
<1>4. CASE cached = NoName
  <2>1. NextName = Name(version, clock) /\ clock' = clock + 1
    BY <1>2, <1>4 DEF NextName
  <2>2. NextName \in Names /\ NextName.timestamp = clock /\ NextName.version = version
    BY <1>2, <2>1 DEF Name, Names
  <2>3. NextName \notin disk /\ NextName \notin ToSet(index) /\ NextName # newest
    BY <1>2, <2>2 DEF FilesInv, Past
  <2> QED BY <1>1, <1>2, <1>4, <2>1, <2>2, <2>3
<1> QED BY <1>3, <1>4

(* push, and shift n times at most as often as pruneOldSnapshots does. *)
LEMMA Shifts ==
  ASSUME FilesInv, MakeSnapshot, NEW n \in 0 .. Excess
  PROVE  /\ n \in Nat /\ Len(index) \in Nat /\ n <= Len(index)
         /\ Excess = IF Len(index) + 1 > MaxSnapshots THEN Len(index) + 1 - MaxSnapshots ELSE 0
         /\ Len(Pushed) = Len(index) + 1 /\ Pushed[Len(index) + 1] = NextName
         /\ \A i \in 1 .. Len(index) : Pushed[i] = index[i]
         /\ \A i \in 1 .. Len(index) + 1 : i \in 1 .. Len(index) \/ i = Len(index) + 1
         /\ ToSet(SubSeq(Pushed, 1, n)) = {Pushed[i] : i \in 1 .. n}
         /\ SubSeq(Pushed, n + 1, Len(Pushed)) \in Seq(Names)
         /\ Len(SubSeq(Pushed, n + 1, Len(Pushed))) = Len(index) + 1 - n
         /\ \A i \in 1 .. Len(index) + 1 - n :
              /\ SubSeq(Pushed, n + 1, Len(Pushed))[i] = Pushed[n + i]
              /\ n + i \in 1 .. Len(index) + 1
<1>1. NextName \in Names /\ index \in Seq(Names)
  BY SnapshotName DEF FilesInv, FilesTypeOK
<1> PICK m : m = Len(index)
  OBVIOUS
<1>2. /\ m \in Nat /\ Pushed \in Seq(Names)
      /\ Len(Pushed) = m + 1 /\ Pushed[m + 1] = NextName
      /\ \A i \in 1 .. m : Pushed[i] = index[i]
  BY <1>1, AppendProperties, LenProperties DEF Pushed
<1>3. Excess = IF m + 1 > MaxSnapshots THEN m + 1 - MaxSnapshots ELSE 0
  BY <1>2, SnapshotsAssumption DEF Excess
<1>4. Excess \in Nat /\ Excess <= m
  BY <1>2, <1>3, SnapshotsAssumption
<1>5. n \in Nat /\ n <= m
  BY <1>2, <1>4
<1> PICK p, head, kept : /\ p = Pushed /\ head = SubSeq(Pushed, 1, n)
                         /\ kept = SubSeq(Pushed, n + 1, Len(Pushed))
  OBVIOUS
<1>6. /\ p \in Seq(Names) /\ Len(p) = m + 1 /\ kept = SubSeq(p, n + 1, m + 1) /\ head = SubSeq(p, 1, n)
  BY <1>2
<1>7. /\ head \in Seq(Names) /\ Len(head) = n /\ \A i \in 1 .. n : head[i] = p[i]
  BY <1>2, <1>5, <1>6, SubSeqProperties
<1>8. ToSet(head) = {p[i] : i \in 1 .. n}
  <2>1. ToSet(head) = {head[i] : i \in 1 .. Len(head)}
    BY <1>7, LenProperties DEF ToSet
  <2> QED BY <1>7, <2>1
<1>9. /\ kept \in Seq(Names) /\ Len(kept) = m + 1 - n
      /\ \A i \in 1 .. m + 1 - n : kept[i] = p[n + i]
  BY <1>2, <1>5, <1>6, SubSeqProperties
<1>10. \A i \in 1 .. m + 1 - n : n + i \in 1 .. m + 1
  BY <1>2, <1>5
<1>11. \A i \in 1 .. m + 1 : i \in 1 .. m \/ i = m + 1
  BY <1>2
<1> QED BY <1>2, <1>3, <1>5, <1>8, <1>9, <1>10, <1>11

(* The first n entries, and what is left of the list. *)
Dropped(n) == ToSet(SubSeq(Pushed, 1, n))
Kept(n) == SubSeq(Pushed, n + 1, Len(Pushed))

(* The name is listed already only when the snapshot was the last one      *)
(* completed.                                                              *)
LEMMA Relisted ==
  ASSUME FilesInv, MakeSnapshot, NextName \in ToSet(index) \/ NextName = newest
  PROVE  /\ cached # NoName /\ NextName = cached /\ cached = newest
         /\ Len(index) <= MaxSnapshots /\ Len(index) > 0
         /\ repeats <= Len(index) \/ Len(index) = MaxSnapshots
         /\ repeats > 0
         /\ \A i \in 1 .. Len(index) : index[i] = NextName <=> i > Len(index) - repeats
<1>1. cached # NoName /\ NextName = cached
  BY SnapshotName
<1>2. cached = newest
  BY <1>1 DEF FilesInv, Copies
<1> QED BY <1>1, <1>2 DEF FilesInv, Copies

(* Copies of a name stand together after the push. *)
LEMMA GroupedPush ==
  ASSUME FilesInv, MakeSnapshot
  PROVE  \A i, k, j \in 1 .. Len(index) + 1 :
            i <= k /\ k <= j /\ Pushed[i] = Pushed[j] => Pushed[k] = Pushed[i]
<1> SUFFICES ASSUME NEW i \in 1 .. Len(index) + 1, NEW k \in 1 .. Len(index) + 1,
                    NEW j \in 1 .. Len(index) + 1,
                    i <= k, k <= j, Pushed[i] = Pushed[j]
             PROVE  Pushed[k] = Pushed[i]
  OBVIOUS
<1> PICK m, x : m = Len(index) /\ x = NextName
  BY Zenon
<1>1. 0 \in 0 .. Excess
  <2>1. 1 .. 0 = {} /\ index \in Seq(Names)
    BY DEF FilesInv, FilesTypeOK
  <2> QED BY <2>1, LenProperties, AppendProperties, SnapshotName, SnapshotsAssumption DEF Excess, Pushed
<1>2. /\ m \in Nat /\ Pushed[m + 1] = x
      /\ \A l \in 1 .. m : Pushed[l] = index[l]
      /\ \A l \in 1 .. m + 1 : l \in 1 .. m \/ l = m + 1
  BY <1>1, Shifts
<1>3. CASE j \in 1 .. m
  <2>1. i \in 1 .. m /\ k \in 1 .. m
    BY <1>2, <1>3
  <2>2. index[i] = index[j]
    BY <1>2, <1>3, <2>1
  <2>3. Grouped(index)
    BY SnapshotName DEF FilesInv, IndexOK, Lists
  <2>4. index[k] = index[i]
    BY <1>3, <2>1, <2>2, <2>3 DEF Grouped
  <2> QED BY <1>2, <2>1, <2>4
<1>4. CASE j = m + 1 /\ i \in 1 .. m /\ k \in 1 .. m
  <2>1. index[i] = x
    BY <1>2, <1>4
  <2>2. x \in ToSet(index)
    <3>1. index \in Seq(Names)
      BY DEF FilesInv, FilesTypeOK
    <3>2. ToSet(index) = {index[l] : l \in 1 .. Len(index)}
      BY <3>1, LenProperties DEF ToSet
    <3> QED BY <1>4, <2>1, <3>2
  <2>3. /\ \A l \in 1 .. m : index[l] = x <=> l > m - repeats
        /\ repeats \in Nat
    BY <2>2, Relisted DEF FilesInv, FilesTypeOK
  <2>4. index[k] = x
    <3>1. i > m - repeats
      BY <1>4, <2>1, <2>3
    <3>2. k > m - repeats
      BY <1>2, <1>4, <2>3, <3>1
    <3> QED BY <1>4, <2>3, <3>2
  <2> QED BY <1>2, <1>4, <2>1, <2>4
<1>5. CASE k = m + 1
  <2>1. j = k
    BY <1>2, <1>5
  <2> QED BY <2>1
<1>6. CASE i = m + 1
  <2>1. k = i
    BY <1>2, <1>6
  <2> QED BY <2>1
<1> QED BY <1>2, <1>3, <1>4, <1>5, <1>6

(* How many copies there can be. *)
LEMMA Room ==
  \A m, r, max \in Nat :
    m <= max =>
      /\ m < max \/ m = max
      /\ m < max /\ (r <= m \/ m = max) => r <= m /\ r <= max /\ ~(m + 1 > max)
OBVIOUS

(* Pruning takes the file just written only when its snapshot has been     *)
(* completed more than maxSnapshots times in a row.                        *)
LEMMA PrunesNew ==
  ASSUME FilesInv, MakeSnapshot, NEW n \in 0 .. Excess
  PROVE  /\ NextName \in Dropped(n) <=> n = Excess /\ Repeats > MaxSnapshots
         /\ Repeats \in Nat /\ 0 < Repeats /\ Repeats <= MaxSnapshots + 1
<1> PICK m, x, e, r : m = Len(index) /\ x = NextName /\ e = Excess /\ r = repeats
  OBVIOUS
<1>1. /\ n \in Nat /\ m \in Nat /\ n <= m /\ n <= e
      /\ e = IF m + 1 > MaxSnapshots THEN m + 1 - MaxSnapshots ELSE 0
      /\ \A i \in 1 .. m : Pushed[i] = index[i]
      /\ Dropped(n) = {Pushed[i] : i \in 1 .. n}
      /\ MaxSnapshots \in Nat /\ MaxSnapshots > 0
  BY Shifts, SnapshotsAssumption DEF Dropped
<1>2. r \in Nat /\ r <= MaxSnapshots + 1
  BY DEF FilesInv, FilesTypeOK
<1>3. CASE x # newest
  <2>1. Repeats = 1
    BY <1>3 DEF Repeats
  <2>2. x \notin ToSet(index)
    BY <1>3, Relisted
  <2>3. index \in Seq(Names)
    BY DEF FilesInv, FilesTypeOK
  <2>4. \A i \in 1 .. m : index[i] # x
    BY <2>2, <2>3, LenProperties DEF ToSet
  <2>5. x \notin Dropped(n)
    BY <1>1, <2>4
  <2> QED BY <1>1, <2>1, <2>5
<1>4. CASE x = newest
  <2>1. /\ m <= MaxSnapshots /\ m > 0
        /\ r <= m \/ m = MaxSnapshots
        /\ r > 0
        /\ \A i \in 1 .. m : index[i] = x <=> i > m - r
    BY <1>4, Relisted
  <2>2. Repeats = IF r <= MaxSnapshots THEN r + 1 ELSE r
    BY <1>4 DEF Repeats
  <2>3. CASE m < MaxSnapshots
    <3>1. e = 0 /\ n = 0 /\ r <= m
      <4>1. ~(m + 1 > MaxSnapshots) /\ r <= m
        BY <1>1, <1>2, <2>1, <2>3, Room, Zenon
      <4>2. e = 0
        BY <1>1, <4>1, Zenon
      <4>3. n = 0
        BY <1>1, <4>2
      <4> QED BY <4>1, <4>2, <4>3, Zenon
    <3>2. Dropped(n) = {}
      BY <1>1, <3>1
    <3> QED BY <1>1, <1>2, <2>2, <2>3, <3>1, <3>2
  <2>4. CASE m = MaxSnapshots
    <3>1. e = 1 /\ (n = 0 \/ n = 1)
      BY <1>1, <2>4
    <3>2. n = 1 => Dropped(n) = {index[1]}
      BY <1>1, <2>1
    <3>3. n = 0 => Dropped(n) = {}
      BY <1>1
    <3>4. index[1] = x <=> Repeats > MaxSnapshots
      <4>1. index[1] = x <=> 1 > m - r
        BY <1>1, <2>1
      <4>2. 1 > m - r <=> Repeats > MaxSnapshots
        BY <1>1, <1>2, <2>2, <2>4
      <4> QED BY <4>1, <4>2
    <3>5. Repeats \in Nat /\ 0 < Repeats /\ Repeats <= MaxSnapshots + 1
      BY <1>1, <1>2, <2>2
    <3>6. CASE n = 0
      BY <3>1, <3>3, <3>5, <3>6
    <3>7. CASE n = 1
      <4>1. x \in Dropped(n) <=> index[1] = x
        BY <3>2, <3>7
      <4> QED BY <3>1, <3>4, <3>5, <3>7, <4>1
    <3> QED BY <3>1, <3>6, <3>7
  <2>5. m < MaxSnapshots \/ m = MaxSnapshots
    BY <1>1, <1>2, <2>1, Room, Zenon
  <2> QED BY <2>3, <2>4, <2>5, Zenon
<1> QED BY <1>3, <1>4

(* The file is written, the files of the first n entries are unlinked, and *)
(* the rest of the list still describes the directory: what was unlinked   *)
(* is listed no more, or has the name of the first entry that is left; a   *)
(* file that was kept keeps what stands after it.                          *)
LEMMA WriteLists ==
  ASSUME FilesInv, MakeSnapshot, NEW n \in 0 .. Excess, WriteAndPrune(n)
  PROVE  /\ disk' \in SUBSET Names /\ IsFiniteSet(disk') /\ torn' \subseteq disk'
         /\ Lists(Kept(n), disk', torn')
         /\ Behind(Kept(n), disk', torn', NextName, Name(version, clock'))
<1> PICK m, x, gone, kept, top, top2 :
      /\ m = Len(index) /\ x = NextName /\ gone = Dropped(n) /\ kept = Kept(n)
      /\ top = Name(version, clock) /\ top2 = Name(version, clock')
  OBVIOUS
<1>1. /\ disk' = (disk \cup {x}) \ gone
      /\ torn' = torn \ ({x} \cup gone)
  BY DEF WriteAndPrune, Dropped
<1>2. /\ n \in Nat /\ m \in Nat /\ n <= m
      /\ Pushed[m + 1] = x
      /\ \A i \in 1 .. m : Pushed[i] = index[i]
      /\ \A i \in 1 .. m + 1 : i \in 1 .. m \/ i = m + 1
      /\ gone = {Pushed[i] : i \in 1 .. n}
      /\ kept \in Seq(Names) /\ Len(kept) = m + 1 - n
      /\ \A i \in 1 .. m + 1 - n : kept[i] = Pushed[n + i] /\ n + i \in 1 .. m + 1
  BY Shifts DEF Dropped, Kept
<1>3. /\ x \in Names /\ up /\ x.version = version /\ x.timestamp < clock'
      /\ clock <= clock' /\ clock \in Nat /\ clock' \in Nat /\ version \in Nat
      /\ (cached # NoName => x = cached) /\ (cached = NoName => x \notin disk)
  BY SnapshotName DEF FilesInv, FilesTypeOK
<1>4. disk \subseteq Names /\ IsFiniteSet(disk) /\ torn \subseteq disk
  BY DEF FilesInv, FilesTypeOK
<1>5. Lists(index, disk, torn) /\ Behind(index, disk, torn, cached, top)
  BY <1>3 DEF FilesInv, IndexOK
<1>6. \A i, k, j \in 1 .. m + 1 :
         i <= k /\ k <= j /\ Pushed[i] = Pushed[j] => Pushed[k] = Pushed[i]
  BY GroupedPush
<1>7. disk' \in SUBSET Names /\ IsFiniteSet(disk') /\ torn' \subseteq disk'
  <2>1. IsFiniteSet(disk')
    BY <1>1, <1>4, FS_AddElement, FS_Difference
  <2> QED BY <1>1, <1>3, <1>4, <2>1
<1>8. /\ ToSet(index) = {index[i] : i \in 1 .. m}
      /\ ToSet(kept) = {kept[i] : i \in 1 .. m + 1 - n}
  <2>1. index \in Seq(Names)
    BY DEF FilesInv, FilesTypeOK
  <2>2. DOMAIN index = 1 .. m /\ DOMAIN kept = 1 .. m + 1 - n
    BY <1>2, <2>1, LenProperties
  <2> QED BY <2>2 DEF ToSet
<1>9. ASSUME NEW k \in 1 .. m + 1, NEW j \in 1 .. m + 1, n < k, k <= j, Pushed[j] \in gone
      PROVE  Pushed[k] = Pushed[j] /\ Pushed[n + 1] = Pushed[k]
  <2>1. PICK i \in 1 .. n : Pushed[i] = Pushed[j]
    BY <1>2, <1>9
  <2>2. i \in 1 .. m + 1 /\ n + 1 \in 1 .. m + 1 /\ i <= k /\ i <= n + 1 /\ n + 1 <= j
    BY <1>2, <1>9
  <2>3. Pushed[k] = Pushed[i]
    BY <1>6, <1>9, <2>1, <2>2
  <2>4. Pushed[n + 1] = Pushed[i]
    BY <1>6, <2>1, <2>2
  <2> QED BY <2>1, <2>3, <2>4
<1>10. disk' \ torn' \subseteq ToSet(kept)
  <2> SUFFICES ASSUME NEW f \in disk' \ torn' PROVE f \in ToSet(kept)
    OBVIOUS
  <2>1. f \notin gone /\ (f = x \/ f \in disk \ torn)
    BY <1>1
  <2>2. PICK k \in 1 .. m + 1 : Pushed[k] = f
    <3>1. CASE f = x
      <4>1. m + 1 \in 1 .. m + 1
        BY <1>2
      <4> QED BY <1>2, <3>1, <4>1
    <3>2. CASE f \in disk \ torn
      <4>1. PICK k \in 1 .. m : index[k] = f
        BY <1>5, <1>8, <3>2 DEF Lists
      <4>2. k \in 1 .. m + 1
        BY <1>2
      <4> QED BY <1>2, <4>1, <4>2
    <3> QED BY <2>1, <3>1, <3>2
  <2>3. ~(k \in 1 .. n)
    BY <1>2, <2>1, <2>2
  <2>4. k - n \in 1 .. m + 1 - n /\ n + (k - n) = k
    BY <1>2, <2>3
  <2>5. kept[k - n] = f
    BY <1>2, <2>2, <2>4
  <2> QED BY <1>8, <2>4, <2>5
<1>11. ASSUME NEW i \in 1 .. m + 1 - n PROVE kept[i] \in disk' \/ kept[i] = kept[1]
  <2> PICK k : k = n + i
    OBVIOUS
  <2>1. k \in 1 .. m + 1 /\ kept[i] = Pushed[k] /\ n < k /\ kept[1] = Pushed[n + 1]
    <3>1. 1 \in 1 .. m + 1 - n
      BY <1>2
    <3> QED BY <1>2, <3>1
  <2>2. CASE Pushed[k] \in gone
    BY <1>9, <2>1, <2>2
  <2>3. CASE Pushed[k] \notin gone /\ (Pushed[k] = x \/ Pushed[k] \in disk)
    BY <1>1, <2>1, <2>3
  <2>4. CASE Pushed[k] \notin gone /\ ~(Pushed[k] = x \/ Pushed[k] \in disk)
    <3>1. k \in 1 .. m /\ Pushed[k] = index[k]
      BY <1>2, <2>1, <2>4
    <3>2. index[k] = index[1] /\ 1 \in 1 .. m
      BY <1>2, <1>5, <2>4, <3>1 DEF Lists
    <3>3. Pushed[k] = Pushed[1]
      BY <1>2, <3>1, <3>2
    <3>4. ~(1 \in 1 .. n)
      BY <1>2, <2>4, <3>3
    <3>5. n + 1 = 1
      BY <1>2, <3>4
    <3> QED BY <2>1, <3>3, <3>5
  <2> QED BY <2>2, <2>3, <2>4
<1>12. ASSUME NEW i \in 1 .. m + 1 - n, NEW k \in 1 .. m + 1 - n, NEW j \in 1 .. m + 1 - n,
              i <= k, k <= j, kept[i] = kept[j]
       PROVE  kept[k] = kept[i]
  <2> PICK a, b, c : a = n + i /\ b = n + k /\ c = n + j
    OBVIOUS
  <2>1. /\ a \in 1 .. m + 1 /\ b \in 1 .. m + 1 /\ c \in 1 .. m + 1
        /\ kept[i] = Pushed[a] /\ kept[k] = Pushed[b] /\ kept[j] = Pushed[c]
    BY <1>2
  <2>2. a <= b /\ b <= c
    BY <1>2, <1>12
  <2>3. Pushed[a] = Pushed[c]
    BY <1>12, <2>1
  <2>4. Pushed[b] = Pushed[a]
    BY <1>6, <2>1, <2>2, <2>3, Zenon
  <2> QED BY <2>1, <2>4
<1>13. Lists(kept, disk', torn')
  BY <1>2, <1>10, <1>11, <1>12 DEF Lists, Grouped
<1>14. ASSUME NEW i \in 1 .. m + 1 - n, kept[i] \in disk' \ torn', kept[i] # x
       PROVE  \/ Before(kept[i], top2)
              \/ \E j \in i + 1 .. m + 1 - n : kept[j] \in torn' \ {x} \/ Shorter(kept[j], kept[i])
  <2> PICK k, f : k = n + i /\ f = kept[i]
    OBVIOUS
  <2>1. /\ k \in 1 .. m /\ n < k /\ f = index[k] /\ f = Pushed[k]
        /\ f \in disk \ torn /\ f \notin gone /\ f \in Names
    <3>1. k \in 1 .. m + 1 /\ f = Pushed[k] /\ n < k
      BY <1>2
    <3>2. k \in 1 .. m
      BY <1>2, <1>14, <3>1
    <3> QED BY <1>1, <1>2, <1>4, <1>14, <3>1, <3>2
  <2>2. \/ Before(f, top)
        \/ \E j \in k + 1 .. m : index[j] \in torn \ {cached} \/ Shorter(index[j], f)
    BY <1>5, <2>1 DEF Behind
  <2>3. CASE Before(f, top)
    BY <1>3, <2>1, <2>3 DEF Before, Name, Names
  <2>4. ASSUME NEW j \in k + 1 .. m, index[j] \in torn \ {cached} \/ Shorter(index[j], f)
        PROVE  \E l \in i + 1 .. m + 1 - n : kept[l] \in torn' \ {x} \/ Shorter(kept[l], f)
    <3> PICK l : l = j - n
      OBVIOUS
    <3>1. /\ l \in i + 1 .. m + 1 - n /\ l \in 1 .. m + 1 - n /\ n + l = j
          /\ j \in 1 .. m /\ j \in 1 .. m + 1 /\ k \in 1 .. m + 1 /\ k <= j
      BY <1>2, <2>1, <2>4
    <3>2. kept[l] = index[j] /\ Pushed[j] = index[j]
      BY <1>2, <3>1
    <3>3. CASE Shorter(index[j], f)
      BY <3>1, <3>2, <3>3
    <3>4. CASE index[j] \in torn \ {cached}
      <4>1. index[j] # x
        BY <1>3, <1>4, <3>4
      <4>2. index[j] \notin gone
        BY <1>9, <2>1, <3>1, <3>2
      <4> QED BY <1>1, <3>1, <3>2, <3>4, <4>1, <4>2
    <3> QED BY <2>4, <3>3, <3>4
  <2> QED BY <2>2, <2>3, <2>4
<1>15. Behind(kept, disk', torn', x, top2)
  <2> SUFFICES ASSUME NEW i \in 1 .. m + 1 - n
               PROVE  \/ kept[i] \notin disk' \ torn'
                      \/ Before(kept[i], top2)
                      \/ \E j \in i + 1 .. m + 1 - n :
                            kept[j] \in torn' \ {x} \/ Shorter(kept[j], kept[i])
    BY <1>2 DEF Behind
  <2>1. CASE kept[i] = x
    BY <1>3, <2>1 DEF Before, Name
  <2>2. CASE kept[i] # x
    BY <1>14, <2>2
  <2> QED BY <2>1, <2>2
<1> QED BY <1>7, <1>13, <1>15

(* The file written last is then the greatest, if the others have as many  *)
(* digits and none is torn.                                                *)
LEMMA WriteGreatest ==
  ASSUME FilesInv, MakeSnapshot, NEW n \in 0 .. Excess, WriteAndPrune(n)
  PROVE  NewestGreatest'
<1> PICK x, kept : x = NextName /\ kept = Kept(n)
  OBVIOUS
<1>1. /\ disk' \in SUBSET Names
      /\ Lists(kept, disk', torn')
      /\ Behind(kept, disk', torn', x, Name(version, clock'))
  BY WriteLists
<1>2. /\ newest' = x /\ x \in Names /\ version \in Nat /\ clock' \in Nat
      /\ x = Name(version, clock' - 1)
  BY SnapshotName DEF WriteAndPrune, FilesInv, FilesTypeOK
<1>3. kept \in Seq(Names) /\ Len(kept) \in Nat
  BY Shifts DEF Kept
<1> SUFFICES ASSUME torn' = {}, SameDigits', NEW f \in disk'
             PROVE  f = x \/ Before(f, x)
  BY <1>2 DEF NewestGreatest
<1>4. PICK i \in 1 .. Len(kept) : kept[i] = f
  BY <1>1, <1>3, LenProperties DEF Lists, ToSet
<1>5. ASSUME NEW j \in i + 1 .. Len(kept)
      PROVE  ~Shorter(kept[j], kept[i])
  <2>1. j \in 1 .. Len(kept) /\ 1 \in 1 .. Len(kept) /\ 1 <= i /\ i <= j
    BY <1>3
  <2>2. CASE kept[j] \in disk'
    <3>1. Width(kept[j].version) = Width(f.version)
      BY <2>2 DEF SameDigits, Width
    <3>2. Width(f.version) \in Nat
      BY <1>1, DigitsOf DEF Names
    <3> QED BY <1>4, <3>1, <3>2 DEF Shorter
  <2>3. CASE kept[j] = kept[1]
    <3>1. kept[i] = kept[1]
      BY <1>1, <2>1, <2>3 DEF Lists, Grouped
    <3>2. Width(f.version) \in Nat
      BY <1>1, DigitsOf DEF Names
    <3> QED BY <1>4, <2>3, <3>1, <3>2 DEF Shorter
  <2> QED BY <1>1, <2>1, <2>2, <2>3 DEF Lists
<1>6. Before(f, Name(version, clock'))
  BY <1>1, <1>4, <1>5 DEF Behind
<1>7. /\ f.version \in Nat /\ f.timestamp \in Nat
      /\ f = Name(f.version, f.timestamp)
  BY <1>1 DEF Names, Name
<1>8. CASE f.version < version
  BY <1>2, <1>8 DEF Before, Name
<1>9. CASE f.version = version /\ f.timestamp < clock'
  <2>1. f.timestamp = clock' - 1 \/ f.timestamp < clock' - 1
    BY <1>2, <1>7, <1>9
  <2>2. CASE f.timestamp = clock' - 1
    BY <1>2, <1>7, <1>9, <2>2
  <2>3. CASE f.timestamp < clock' - 1
    BY <1>2, <1>9, <2>3 DEF Before, Name
  <2> QED BY <2>1, <2>2, <2>3
<1> QED BY <1>6, <1>8, <1>9 DEF Before, Name

(* takeSnapshot: the copies of the name are again the last entries. *)
LEMMA TakeSnapshotKeeps ==
  ASSUME FilesInv, TakeSnapshot
  PROVE  FilesInv'
<1> PICK m, x, e, kept : m = Len(index) /\ x = NextName /\ e = Excess /\ kept = Kept(e)
  OBVIOUS
<1>1. /\ MakeSnapshot /\ WriteAndPrune(e)
      /\ cached' = x /\ index' = kept /\ repeats' = Repeats
      /\ up' = up /\ version' = version /\ newest' = x /\ spoiled' = FALSE
      /\ disk' = (disk \cup {x}) \ Dropped(e) /\ torn' = torn \ ({x} \cup Dropped(e))
  BY DEF TakeSnapshot, WriteAndPrune, Kept, Dropped
<1>2. /\ up /\ clock \in Nat /\ clock' \in Nat /\ clock <= clock' /\ version \in Nat
      /\ x \in Names /\ x # NoName /\ x = Name(version, clock' - 1)
      /\ x.timestamp < clock'
  BY <1>1, SnapshotName DEF FilesInv, FilesTypeOK
<1>3. e \in 0 .. e /\ e = Excess
  <2>1. index \in Seq(Names)
    BY DEF FilesInv, FilesTypeOK
  <2>2. Len(Pushed) = m + 1 /\ m \in Nat
    BY <1>2, <2>1, AppendProperties, LenProperties DEF Pushed
  <2> QED BY <2>2, SnapshotsAssumption DEF Excess
<1>4. /\ e \in Nat /\ m \in Nat /\ e <= m
      /\ e = IF m + 1 > MaxSnapshots THEN m + 1 - MaxSnapshots ELSE 0
      /\ Pushed[m + 1] = x
      /\ \A i \in 1 .. m : Pushed[i] = index[i]
      /\ \A i \in 1 .. m + 1 : i \in 1 .. m \/ i = m + 1
      /\ kept \in Seq(Names) /\ Len(kept) = m + 1 - e
      /\ \A i \in 1 .. m + 1 - e : kept[i] = Pushed[e + i] /\ e + i \in 1 .. m + 1
  BY <1>1, <1>3, Shifts DEF Kept
<1> PICK l : l = Len(kept)
  OBVIOUS
<1>13. /\ e \in Nat /\ m \in Nat /\ l \in Nat /\ l = m + 1 - e
       /\ MaxSnapshots \in Nat /\ MaxSnapshots > 0
       /\ m < MaxSnapshots => e = 0
       /\ ~(m < MaxSnapshots) => e = m + 1 - MaxSnapshots
  <2>1. /\ e \in Nat /\ m \in Nat /\ e <= m /\ Len(kept) = m + 1 - e
        /\ e = IF m + 1 > MaxSnapshots THEN m + 1 - MaxSnapshots ELSE 0
    BY <1>4
  <2>2. MaxSnapshots \in Nat /\ MaxSnapshots > 0
    BY SnapshotsAssumption
  <2>3. m < MaxSnapshots => ~(m + 1 > MaxSnapshots)
    BY <2>1, <2>2
  <2>4. ~(m < MaxSnapshots) => m + 1 > MaxSnapshots
    BY <2>1, <2>2
  <2>5. m + 1 - e \in Nat
    BY <2>1
  <2> QED BY <2>1, <2>2, <2>3, <2>4, <2>5
<1>5. /\ x \in Dropped(e) <=> Repeats > MaxSnapshots
      /\ Repeats \in Nat /\ 0 < Repeats /\ Repeats <= MaxSnapshots + 1
  BY <1>1, <1>3, PrunesNew
<1>6. /\ disk' \in SUBSET Names /\ IsFiniteSet(disk') /\ torn' \subseteq disk'
      /\ Lists(kept, disk', torn')
      /\ Behind(kept, disk', torn', x, Name(version, clock'))
  BY <1>1, <1>3, WriteLists
<1>7. FilesTypeOK'
  BY <1>1, <1>2, <1>4, <1>5, <1>6 DEF FilesTypeOK
<1>8. Past'
  <2>1. \A f \in disk \cup {x} : f.timestamp < clock'
    BY <1>2 DEF FilesInv, FilesTypeOK, Past, Names
  <2>2. index \in Seq(Names)
    BY DEF FilesInv, FilesTypeOK
  <2>3. \A i \in 1 .. m : index[i] \in ToSet(index) /\ index[i] \in Names
    BY <2>2, LenProperties, ElementOfSeq DEF ToSet
  <2>4. \A i \in 1 .. m : index[i].timestamp < clock'
    BY <1>2, <2>3 DEF FilesInv, Past, Names
  <2>5. \A i \in 1 .. m + 1 - e : kept[i].timestamp < clock'
    BY <1>2, <1>4, <2>4
  <2>6. \A f \in ToSet(kept) : f.timestamp < clock'
    <3>1. DOMAIN kept = 1 .. m + 1 - e
      BY <1>4, LenProperties
    <3> QED BY <2>5, <3>1 DEF ToSet
  <2> QED BY <1>1, <1>2, <2>1, <2>6 DEF Past
<1>9. Copies'
  <2> PICK r, r2 : r = repeats /\ r2 = Repeats
    OBVIOUS
  <2>1. Len(kept) <= MaxSnapshots /\ Len(kept) > 0
    <3>1. CASE m < MaxSnapshots
      BY <1>13, <3>1
    <3>2. CASE ~(m < MaxSnapshots)
      BY <1>13, <3>2
    <3> QED BY <3>1, <3>2
  <2>2. ASSUME NEW i \in 1 .. m + 1 - e
        PROVE  kept[i] = x <=> i > m + 1 - e - r2
    <3> PICK k : k = e + i
      OBVIOUS
    <3>1. k \in 1 .. m + 1 /\ kept[i] = Pushed[k]
      BY <1>4
    <3>5. i > m + 1 - e - r2 <=> k > m + 1 - r2
      <4>1. e \in Nat /\ m \in Nat /\ r2 \in Nat /\ i \in Nat
        BY <1>13, <1>5
      <4> QED BY <4>1
    <3>2. CASE k = m + 1
      <4>1. k > m + 1 - r2
        BY <1>13, <1>5, <3>2
      <4>2. kept[i] = x
        BY <1>4, <3>1, <3>2
      <4> QED BY <3>5, <4>1, <4>2
    <3>3. CASE k \in 1 .. m /\ x # newest
      <4>1. Repeats = 1 /\ x \notin ToSet(index)
        BY <1>1, <3>3, Relisted DEF Repeats
      <4>2. index \in Seq(Names)
        BY DEF FilesInv, FilesTypeOK
      <4>3. index[k] # x
        BY <3>3, <4>1, <4>2, LenProperties DEF ToSet
      <4>4. kept[i] # x
        BY <1>4, <3>1, <3>3, <4>3
      <4>5. ~(k > m + 1 - r2)
        BY <1>13, <3>3, <4>1
      <4> QED BY <3>5, <4>4, <4>5
    <3>4. CASE k \in 1 .. m /\ x = newest
      <4>1. m <= MaxSnapshots /\ (index[k] = x <=> k > m - r)
        BY <1>1, <3>4, Relisted
      <4>2. r2 = IF r <= MaxSnapshots THEN r + 1 ELSE r
        BY <3>4 DEF Repeats
      <4>3. r \in Nat /\ r <= MaxSnapshots + 1
        BY DEF FilesInv, FilesTypeOK
      <4>4. k > m - r <=> k > m + 1 - r2
        <5>1. CASE r <= MaxSnapshots
          BY <1>13, <3>4, <4>2, <4>3, <5>1
        <5>2. CASE ~(r <= MaxSnapshots)
          BY <1>13, <3>4, <4>1, <4>2, <4>3, <5>2
        <5> QED BY <5>1, <5>2
      <4>5. kept[i] = x <=> k > m - r
        BY <1>4, <3>1, <3>4, <4>1
      <4> QED BY <3>5, <4>4, <4>5
    <3>6. k \in 1 .. m \/ k = m + 1
      BY <1>13, <3>1
    <3> QED BY <3>2, <3>3, <3>4, <3>6
  <2>3. r2 <= l \/ l = MaxSnapshots
    <3>1. CASE x # newest
      <4>1. r2 = 1
        BY <3>1 DEF Repeats
      <4> QED BY <1>13, <4>1
    <3>2. CASE x = newest
      <4>1. m <= MaxSnapshots /\ (r <= m \/ m = MaxSnapshots) /\ r \in Nat
        BY <1>1, <3>2, Relisted DEF FilesInv, FilesTypeOK
      <4>2. r2 = IF r <= MaxSnapshots THEN r + 1 ELSE r
        BY <3>2 DEF Repeats
      <4>3. CASE m = MaxSnapshots
        BY <1>13, <4>3
      <4>4. CASE m < MaxSnapshots
        <5>1. l = m + 1
          BY <1>13, <4>4
        <5>2. r2 = r + 1 /\ r <= m
          <6>1. r <= m /\ r <= MaxSnapshots
            BY <1>13, <4>1, <4>4, Room, Zenon
          <6> QED BY <4>2, <6>1, Zenon
        <5> QED BY <1>13, <4>1, <5>1, <5>2
      <4> QED BY <1>13, <4>1, <4>3, <4>4
    <3> QED BY <3>1, <3>2
  <2> QED BY <1>1, <1>4, <1>5, <2>1, <2>2, <2>3, SMTT(30) DEF Copies
<1>10. NewestState'
  <2>1. x \in disk' \ torn' <=> ~(Repeats > MaxSnapshots)
    BY <1>1, <1>5
  <2> QED BY <1>1, <1>2, <1>5, <2>1, SnapshotsAssumption DEF NewestState
<1>11. IndexOK'
  BY <1>1, <1>6 DEF IndexOK
<1>12. NewestGreatest'
  BY <1>1, <1>3, WriteGreatest
<1> QED BY <1>7, <1>8, <1>9, <1>10, <1>11, <1>12 DEF FilesInv

(* createSnapshot alone, and a write that does not succeed, which damages  *)
(* one file.                                                               *)
LEMMA NoWriteKeeps ==
  ASSUME FilesInv, MakeSnapshot, UNCHANGED <<newest, repeats>>,
         \/ UNCHANGED <<disk, torn, spoiled>>
         \/ SpoilNext,
         \/ cached' = NextName /\ UNCHANGED <<up, version, index>>
         \/ Killed
  PROVE  FilesInv'
<1> PICK x : x = NextName
  OBVIOUS
<1>1. /\ up /\ clock' \in Nat /\ clock \in Nat /\ clock <= clock' /\ version \in Nat
      /\ x \in Names /\ x # NoName /\ x = Name(version, clock' - 1) /\ x.timestamp < clock'
      /\ (cached # NoName => x = cached)
      /\ (cached = NoName => x \notin disk /\ x \notin ToSet(index) /\ x # newest)
  BY SnapshotName DEF FilesInv, FilesTypeOK
<1>2. /\ disk \subseteq Names /\ IsFiniteSet(disk) /\ torn \subseteq disk /\ index \in Seq(Names)
      /\ newest \in Names \cup {NoName}
  BY DEF FilesInv, FilesTypeOK
<1>3. /\ disk' \in SUBSET Names /\ IsFiniteSet(disk') /\ torn' \subseteq disk'
      /\ disk' \subseteq disk \cup {x} /\ disk \subseteq disk' /\ torn \subseteq torn'
      /\ torn' \subseteq torn \cup {x} /\ disk' \ torn' \subseteq disk \ torn
  BY <1>1, <1>2, FS_AddElement DEF SpoilNext
<1>4. NewestState' /\ spoiled' \in BOOLEAN
  <2>1. CASE UNCHANGED <<disk, torn, spoiled>>
    BY <2>1 DEF FilesInv, NewestState, FilesTypeOK
  <2>2. CASE SpoilNext
    BY <2>2 DEF FilesInv, NewestState, FilesTypeOK, SpoilNext
  <2> QED BY <2>1, <2>2
<1>5. NewestGreatest'
  <2>1. CASE UNCHANGED <<disk, torn, spoiled>>
    BY <2>1 DEF FilesInv, NewestGreatest, SameDigits
  <2>2. CASE SpoilNext
    BY <2>2 DEF NewestGreatest, SpoilNext
  <2> QED BY <2>1, <2>2
<1>6. \A f \in disk' \cup {newest'} \cup ToSet(index) : f.timestamp < clock'
  <2>1. \A f \in disk \cup {newest} \cup ToSet(index) : f.timestamp < clock /\ f.timestamp \in Int
    <3>1. ToSet(index) \subseteq Names
      BY <1>2, LenProperties, ElementOfSeq DEF ToSet
    <3> QED BY <1>2, <3>1 DEF FilesInv, Past, Names, NoName, Name
  <2> QED BY <1>1, <1>3, <2>1
<1>7. CASE Killed
  <2>1. /\ up' = FALSE /\ version' = 0 /\ cached' = NoName /\ index' = <<>>
    BY <1>7 DEF Killed
  <2>2. FilesTypeOK'
    BY <1>1, <1>2, <1>3, <1>4, <2>1, EmptySeq DEF FilesInv, FilesTypeOK
  <2>3. ToSet(index') = {}
    BY <2>1 DEF ToSet
  <2>4. Past'
    BY <1>6, <2>1, <2>3 DEF Past
  <2> QED BY <1>4, <1>5, <2>1, <2>2, <2>4 DEF FilesInv, Copies, IndexOK
<1>8. CASE cached' = x /\ UNCHANGED <<up, version, index>>
  <2>1. FilesTypeOK'
    BY <1>1, <1>2, <1>3, <1>4, <1>8 DEF FilesInv, FilesTypeOK
  <2>2. Past'
    BY <1>1, <1>6, <1>8 DEF Past
  <2>3. Copies'
    <3>1. CASE cached = NoName
      BY <1>1, <1>8, <3>1 DEF Copies
    <3>2. CASE cached # NoName
      BY <1>1, <1>8, <3>2 DEF FilesInv, Copies
    <3> QED BY <3>1, <3>2
  <2>4. IndexOK'
    <3>1. Lists(index, disk, torn) /\ Behind(index, disk, torn, cached, Name(version, clock))
      BY <1>1 DEF FilesInv, IndexOK
    <3>2. Lists(index, disk', torn')
      BY <1>3, <3>1 DEF Lists
    <3>3. \A i \in 1 .. Len(index) : index[i] \in Names
      BY <1>2, LenProperties, ElementOfSeq
    <3>4. \A f \in Names : Before(f, Name(version, clock)) => Before(f, Name(version, clock'))
      BY <1>1 DEF Before, Name, Names
    <3>5. torn \ {cached} \subseteq torn' \ {x}
      BY <1>1, <1>2, <1>3
    <3>6. Behind(index, disk', torn', x, Name(version, clock'))
      <4> SUFFICES ASSUME NEW i \in 1 .. Len(index)
                   PROVE  \/ index[i] \notin disk' \ torn'
                          \/ Before(index[i], Name(version, clock'))
                          \/ \E j \in i + 1 .. Len(index) :
                                index[j] \in torn' \ {x} \/ Shorter(index[j], index[i])
        BY DEF Behind
      <4>1. \/ index[i] \notin disk \ torn
            \/ Before(index[i], Name(version, clock))
            \/ \E j \in i + 1 .. Len(index) :
                  index[j] \in torn \ {cached} \/ Shorter(index[j], index[i])
        BY <3>1 DEF Behind
      <4> QED BY <1>3, <3>3, <3>4, <3>5, <4>1
    <3> QED BY <1>8, <3>2, <3>6 DEF IndexOK
  <2> QED BY <1>4, <1>5, <2>1, <2>2, <2>3, <2>4 DEF FilesInv
<1> QED BY <1>7, <1>8

(* loadSnapshotIndex, as a sequence. *)
LEMMA Listing ==
  ASSUME FilesInv, Start
  PROVE  \E n \in Nat :
           /\ Len(index') = n /\ (disk # {} => n > 0)
           /\ index' \in Seq(Names) /\ DOMAIN index' = 1 .. n
           /\ \A i \in 1 .. n : index'[i] \in disk
           /\ \A f \in disk : \E i \in 1 .. n : index'[i] = f
           /\ \A i, j \in 1 .. n : i < j => FileNameBefore(index'[i], index'[j])
           /\ \A i, j \in 1 .. n : index'[i] = index'[j] => i = j
           /\ n > 0 => Last(index') = index'[n]
<1> PICK n : n = Cardinality(disk)
  OBVIOUS
<1>1. n \in Nat /\ (disk # {} => n > 0) /\ disk \subseteq Names
  BY FS_CardinalityType, FS_EmptySet DEF FilesInv, FilesTypeOK
<1>2. index' \in Sorted(disk)
  BY DEF Start
<1>3. /\ index' \in [1 .. n -> disk]
      /\ \A i, j \in 1 .. n : index'[i] = index'[j] => i = j
      /\ \A f \in disk : \E i \in 1 .. n : index'[i] = f
      /\ \A i, j \in DOMAIN index' : i < j => FileNameBefore(index'[i], index'[j])
  BY <1>2 DEF Sorted, Bijection, Injection, Surjection, IsInjective
<1>4. Len(index') = n /\ DOMAIN index' = 1 .. n /\ index' \in Seq(Names)
  <2>1. index' \in [1 .. n -> Names]
    BY <1>1, <1>3
  <2>2. index' \in Seq(Names)
    BY <1>1, <2>1, SeqDef
  <2> QED BY <1>1, <1>3, <2>2, LenProperties
<1> QED BY <1>1, <1>3, <1>4 DEF Last

(* The order of the names of two files is that of their versions, and of   *)
(* their times, unless the second version has fewer digits.                *)
LEMMA NamesOrder ==
  ASSUME NEW f \in Names, NEW g \in Names, FileNameBefore(f, g)
  PROVE  Before(f, g) \/ Shorter(g, f)
<1>1. f.version \in Nat /\ g.version \in Nat /\ f.timestamp \in Nat /\ g.timestamp \in Nat
  BY DEF Names
<1>2. Width(f.version) \in Nat /\ Width(g.version) \in Nat
  BY <1>1, DigitsOf
<1>3. CASE f.version = g.version /\ f.timestamp < g.timestamp
  BY <1>3 DEF Before
<1>4. CASE StringBefore(Digits[f.version], Digits[g.version])
  <2>1. CASE Width(f.version) = Width(g.version)
    <3>1. f.version < g.version
      BY <1>1, <1>4, <2>1, StringOrder
    <3> QED BY <3>1 DEF Before
  <2>2. CASE Width(f.version) < Width(g.version)
    <3>1. ~(g.version <= f.version)
      <4>1. g.version <= f.version => Width(g.version) <= Width(f.version)
        BY <1>1, MoreDigits
      <4> QED BY <1>2, <2>2, <4>1
    <3> QED BY <1>1, <3>1 DEF Before
  <2> QED BY <1>2, <2>1, <2>2 DEF Shorter
<1> QED BY <1>3, <1>4 DEF FileNameBefore

(* The version read back is that of the last name: by NamesOrder every     *)
(* other file comes before it, or has more digits and stands before it.    *)
LEMMA StartKeeps ==
  ASSUME FilesInv, Start
  PROVE  FilesInv'
<1>1. /\ ~up /\ up' = TRUE
      /\ version' = IF disk = {} \/ Last(index') \in torn THEN 0 ELSE Last(index').version
      /\ UNCHANGED <<cached, clock, disk, torn, newest, repeats, spoiled>>
  BY DEF Start
<1>2. /\ disk \subseteq Names /\ torn \subseteq disk /\ clock \in Nat /\ cached = NoName
      /\ \A f \in disk : f.timestamp < clock
      /\ newest.timestamp < clock /\ NoName \notin Names
  BY <1>1 DEF FilesInv, FilesTypeOK, Past, NoName, Name, Names
<1>3. PICK n \in Nat :
        /\ Len(index') = n /\ (disk # {} => n > 0)
        /\ index' \in Seq(Names) /\ DOMAIN index' = 1 .. n
        /\ \A i \in 1 .. n : index'[i] \in disk
        /\ \A f \in disk : \E i \in 1 .. n : index'[i] = f
        /\ \A i, j \in 1 .. n : i < j => FileNameBefore(index'[i], index'[j])
        /\ \A i, j \in 1 .. n : index'[i] = index'[j] => i = j
        /\ n > 0 => Last(index') = index'[n]
  BY Listing
<1>4. ToSet(index)' = disk
  BY <1>3 DEF ToSet
<1>5. version' \in Nat
  <2>1. disk # {} => n \in 1 .. n /\ Last(index') = index'[n] /\ index'[n] \in Names
    BY <1>2, <1>3
  <2> QED BY <1>1, <2>1 DEF Names
<1>6. FilesTypeOK'
  BY <1>1, <1>3, <1>5 DEF FilesInv, FilesTypeOK
<1>7. Past'
  BY <1>1, <1>2, <1>4 DEF Past
<1>8. Copies' /\ NewestState' /\ NewestGreatest'
  BY <1>1, <1>2 DEF FilesInv, Copies, NewestState, NewestGreatest, SameDigits
<1>9. Lists(index', disk, torn)
  <2>1. Grouped(index')
    <3> SUFFICES ASSUME NEW i \in 1 .. n, NEW k \in 1 .. n, NEW j \in 1 .. n,
                        i <= k, k <= j, index'[i] = index'[j]
                 PROVE  index'[k] = index'[i]
      BY <1>3 DEF Grouped
    <3>1. i = j
      BY <1>3
    <3>2. k = i
      BY <3>1
    <3> QED BY <3>2
  <2> QED BY <1>3, <1>4, <2>1 DEF Lists
<1>10. ASSUME NEW i \in 1 .. n
       PROVE  \/ index'[i] \notin disk \ torn
              \/ Before(index'[i], Name(version', clock))
              \/ \E j \in i + 1 .. n : index'[j] \in torn \ {NoName} \/ Shorter(index'[j], index'[i])
  <2> PICK f, g : f = index'[i] /\ g = index'[n]
    OBVIOUS
  <2>1. n \in 1 .. n /\ f \in disk /\ g \in disk /\ Last(index') = g
    BY <1>3
  <2>2. f \in Names /\ g \in Names /\ f.timestamp < clock /\ g.timestamp < clock
    BY <1>2, <2>1
  <2>3. CASE g \in torn
    <3>1. i = n \/ n \in i + 1 .. n
      BY <1>3
    <3> QED BY <1>2, <2>2, <2>3, <3>1
  <2>4. CASE g \notin torn
    <3>1. version' = g.version
      BY <1>1, <2>1, <2>4
    <3>2. CASE i = n
      BY <2>2, <3>1, <3>2 DEF Before, Name
    <3>3. CASE i < n
      <4>1. Before(f, g) \/ Shorter(g, f)
        BY <1>3, <2>1, <2>2, <3>3, NamesOrder
      <4>2. Before(f, g) => Before(f, Name(version', clock))
        BY <2>2, <3>1 DEF Before, Name
      <4>3. n \in i + 1 .. n
        BY <1>3, <3>3
      <4> QED BY <4>1, <4>2, <4>3
    <3> QED BY <1>3, <3>2, <3>3
  <2> QED BY <2>3, <2>4
<1>11. IndexOK'
  BY <1>1, <1>2, <1>3, <1>9, <1>10 DEF IndexOK, Behind
<1> QED BY <1>6, <1>7, <1>8, <1>11 DEF FilesInv

(* A change of the state makes a greater version and no cached snapshot.   *)
LEMMA ChangeKeeps ==
  ASSUME FilesInv, NEW k \in Bursts, Change(k)
  PROVE  FilesInv'
<1>1. /\ version' = version + k /\ cached' = NoName /\ k \in Nat /\ version \in Nat
      /\ UNCHANGED <<up, clock, disk, torn, index, newest, repeats, spoiled>>
  BY BurstAssumption DEF Change, FilesInv, FilesTypeOK
<1>2. NoName \notin Names /\ disk \subseteq Names /\ torn \subseteq disk /\ index \in Seq(Names)
  BY DEF FilesInv, FilesTypeOK, NoName, Name, Names
<1>3. FilesTypeOK' /\ Past' /\ Copies' /\ NewestState' /\ NewestGreatest'
  BY <1>1 DEF FilesInv, FilesTypeOK, Past, Copies, NewestState, NewestGreatest, SameDigits, ToSet
<1>4. IndexOK'
  <2> SUFFICES ASSUME up PROVE Lists(index, disk, torn) /\ Behind(index, disk, torn, NoName, Name(version', clock))
    BY <1>1 DEF IndexOK
  <2>1. Lists(index, disk, torn) /\ Behind(index, disk, torn, cached, Name(version, clock))
    BY DEF FilesInv, IndexOK
  <2>2. \A i \in 1 .. Len(index) : index[i] \in Names
    BY <1>2, LenProperties, ElementOfSeq
  <2>3. \A f \in Names : Before(f, Name(version, clock)) => Before(f, Name(version', clock))
    BY <1>1 DEF Before, Name, Names
  <2>4. torn \ {cached} \subseteq torn \ {NoName}
    BY <1>2
  <2> SUFFICES ASSUME NEW i \in 1 .. Len(index)
               PROVE  \/ index[i] \notin disk \ torn
                      \/ Before(index[i], Name(version', clock))
                      \/ \E j \in i + 1 .. Len(index) :
                            index[j] \in torn \ {NoName} \/ Shorter(index[j], index[i])
    BY <2>1 DEF Behind
  <2>5. \/ index[i] \notin disk \ torn
        \/ Before(index[i], Name(version, clock))
        \/ \E j \in i + 1 .. Len(index) :
              index[j] \in torn \ {cached} \/ Shorter(index[j], index[i])
    BY <2>1 DEF Behind
  <2> QED BY <2>2, <2>3, <2>4, <2>5
<1> QED BY <1>3, <1>4 DEF FilesInv

(* Killed while pruning: the list is forgotten, the directory is as far as *)
(* pruning came.                                                           *)
LEMMA CrashAfterWriteKeeps ==
  ASSUME FilesInv, NEW n \in 0 .. Excess, CrashAfterWrite(n)
  PROVE  FilesInv'
<1> PICK x : x = NextName
  OBVIOUS
<1>1. /\ MakeSnapshot /\ WriteAndPrune(n)
      /\ repeats' = (IF n = Excess THEN Repeats ELSE 1)
      /\ up' = FALSE /\ version' = 0 /\ cached' = NoName /\ index' = <<>>
      /\ newest' = x /\ spoiled' = FALSE
      /\ disk' = (disk \cup {x}) \ Dropped(n) /\ torn' = torn \ ({x} \cup Dropped(n))
  BY DEF CrashAfterWrite, WriteAndPrune, Killed, Dropped
<1>2. /\ clock \in Nat /\ clock' \in Nat /\ clock <= clock'
      /\ x \in Names /\ x # NoName /\ x.timestamp < clock'
  BY <1>1, SnapshotName DEF FilesInv, FilesTypeOK
<1>3. /\ x \in Dropped(n) <=> n = Excess /\ Repeats > MaxSnapshots
      /\ Repeats \in Nat /\ 0 < Repeats /\ Repeats <= MaxSnapshots + 1
  BY <1>1, PrunesNew
<1>4. disk' \in SUBSET Names /\ IsFiniteSet(disk') /\ torn' \subseteq disk'
  BY <1>1, WriteLists
<1>5. FilesTypeOK'
  <2>1. repeats' \in Nat /\ repeats' <= MaxSnapshots + 1
    BY <1>1, <1>3, SnapshotsAssumption
  <2>2. index' \in Seq(Names) /\ version' \in Nat /\ up' \in BOOLEAN /\ spoiled' \in BOOLEAN
    BY <1>1, EmptySeq
  <2> QED BY <1>1, <1>2, <1>4, <2>1, <2>2 DEF FilesTypeOK
<1>6. Past'
  <2>1. \A f \in disk \cup {x} : f.timestamp < clock'
    BY <1>2 DEF FilesInv, FilesTypeOK, Past, Names
  <2>2. ToSet(index') = {}
    BY <1>1 DEF ToSet
  <2> QED BY <1>1, <2>1, <2>2 DEF Past
<1>7. NewestState'
  <2>1. x \in disk' \ torn' <=> ~(n = Excess /\ Repeats > MaxSnapshots)
    BY <1>1, <1>3
  <2>2. repeats' <= MaxSnapshots <=> ~(n = Excess /\ Repeats > MaxSnapshots)
    BY <1>1, <1>3, SnapshotsAssumption
  <2> QED BY <1>1, <1>2, <2>1, <2>2 DEF NewestState
<1>8. NewestGreatest'
  BY <1>1, WriteGreatest
<1> QED BY <1>1, <1>5, <1>6, <1>7, <1>8 DEF FilesInv, Copies, IndexOK

(* Every step, any failed write and any crash keep the directory and its   *)
(* index together.                                                         *)
LEMMA FilesNextInv ==
  ASSUME FilesInv, [FilesNext]_fileVars
  PROVE  FilesInv'
<1>1. CASE Start
  BY <1>1, StartKeeps
<1>2. CASE \E k \in Bursts : Change(k)
  BY <1>2, ChangeKeeps
<1>3. CASE SnapshotOnly
  BY <1>3, NoWriteKeeps DEF SnapshotOnly
<1>4. CASE SnapshotFails
  BY <1>4, NoWriteKeeps DEF SnapshotFails, SpoilNext
<1>5. CASE TakeSnapshot
  BY <1>5, TakeSnapshotKeeps
<1>6. CASE Crash
  <2>1. /\ up' = FALSE /\ version' = 0 /\ cached' = NoName /\ index' = <<>>
        /\ UNCHANGED <<clock, disk, torn, newest, repeats, spoiled>>
    BY <1>6 DEF Crash, Killed
  <2>2. ToSet(index') = {}
    BY <2>1 DEF ToSet
  <2>3. FilesTypeOK'
    BY <2>1, EmptySeq DEF FilesInv, FilesTypeOK
  <2> QED BY <2>1, <2>2, <2>3 DEF FilesInv, Past, Copies, NewestState, IndexOK, NewestGreatest, SameDigits
<1>7. CASE CrashInWrite
  BY <1>7, NoWriteKeeps DEF CrashInWrite, SpoilNext
<1>8. CASE \E n \in 0 .. Excess : CrashAfterWrite(n)
  BY <1>8, CrashAfterWriteKeeps
<1>9. CASE UNCHANGED fileVars
  BY <1>9 DEF fileVars, FilesInv, FilesTypeOK, Past, Copies, NewestState, IndexOK, NewestGreatest, SameDigits, ToSet
<1> QED
  BY <1>1, <1>2, <1>3, <1>4, <1>5, <1>6, <1>7, <1>8, <1>9 DEF FilesNext

(* What the invariant says of the last completed snapshot. *)
LEMMA InvKeepsNewest == FilesInv => NewestKept
BY DEF FilesInv, NewestState, IndexOK, Lists, NewestKept

(* SnapshotManager, whatever maxSnapshots: the last completed snapshot is  *)
(* on disk and readable just when no later write to its file failed and it *)
(* was completed at most maxSnapshots times in a row, although a restart   *)
(* changes the order pruning works in; and every readable file of the      *)
(* directory is listed.                                                    *)
THEOREM LastSnapshotKept == FilesSpec => []NewestKept
<1>1. FilesInv /\ [FilesNext]_fileVars => FilesInv'
  BY FilesNextInv
<1> QED
  BY <1>1, InvKeepsNewest, FilesInitInv, PTL DEF FilesSpec

(* The last name in sorted order. *)
LEMMA StartLoadsNewest ==
  ASSUME FilesInv, Start, newest # NoName, repeats <= MaxSnapshots, torn = {}, SameDigits
  PROVE  Last(index') = newest
<1>1. PICK n \in Nat :
        /\ Len(index') = n /\ (disk # {} => n > 0)
        /\ \A i \in 1 .. n : index'[i] \in disk
        /\ \A f \in disk : \E i \in 1 .. n : index'[i] = f
        /\ \A i, j \in 1 .. n : i < j => FileNameBefore(index'[i], index'[j])
        /\ n > 0 => Last(index') = index'[n]
  BY Listing
<1>2. newest \in disk /\ disk \subseteq Names
  BY DEF FilesInv, FilesTypeOK, NewestState
<1>3. PICK i \in 1 .. n : index'[i] = newest
  BY <1>1, <1>2
<1>4. n \in 1 .. n /\ Last(index') = index'[n]
  BY <1>1, <1>2
<1>5. CASE i = n
  BY <1>3, <1>4, <1>5
<1>6. CASE i # n
  <2> PICK g : g = index'[n]
    OBVIOUS
  <2>1. g \in disk /\ FileNameBefore(newest, g) /\ g \in Names /\ newest \in Names
    BY <1>1, <1>2, <1>3, <1>4, <1>6
  <2>2. g = newest \/ Before(g, newest)
    BY <2>1 DEF FilesInv, NewestGreatest
  <2>3. Before(newest, g) \/ Shorter(g, newest)
    BY <2>1, NamesOrder
  <2>4. ~Shorter(g, newest)
    <3>1. Width(g.version) = Width(newest.version)
      BY <1>2, <2>1 DEF SameDigits, Width
    <3>2. Width(newest.version) \in Nat
      BY <2>1, DigitsOf DEF Names
    <3> QED BY <3>1, <3>2 DEF Shorter
  <2>5. g = newest
    BY <2>1, <2>2, <2>3, <2>4 DEF Before, Names
  <2> QED BY <1>4, <2>5
<1> QED BY <1>5, <1>6

(* loadLatestSnapshot, whatever maxSnapshots and however long the run: as  *)
(* long as all versions on disk have equally many digits, no file is       *)
(* damaged and the last snapshot was not completed more than maxSnapshots  *)
(* times in a row, the last name in sorted order is the snapshot completed *)
(* last.                                                                   *)
THEOREM NewestLoaded == FilesSpec => RestartLoadsNewest
<1>1. ASSUME FilesInv, [FilesNext]_fileVars,
             ~up, up', newest # NoName, SameDigits, torn = {}, repeats <= MaxSnapshots
      PROVE  Last(index') = newest
  <2>1. Start
    BY <1>1 DEF FilesNext, fileVars, Change, SnapshotOnly, TakeSnapshot, SnapshotFails,
                MakeSnapshot, Crash, CrashInWrite, CrashAfterWrite
  <2> QED BY <1>1, <2>1, StartLoadsNewest
<1>2. FilesInv /\ [FilesNext]_fileVars
        => [ (~up /\ up' /\ newest # NoName /\ SameDigits /\ torn = {} /\ repeats <= MaxSnapshots)
               => Last(index') = newest ]_fileVars
  BY <1>1
<1>3. FilesInv /\ [FilesNext]_fileVars => FilesInv'
  BY FilesNextInv
<1> QED
  BY <1>2, <1>3, FilesInitInv, PTL DEF FilesSpec, RestartLoadsNewest
=============================================================================
