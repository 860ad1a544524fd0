---------------------------- MODULE ImportPreviewProofs ----------------------------
(***************************************************************************)
(* What is promised before an import is launched, for any file, any        *)
(* mapping and any user.  The preview: an accepted mapping runs, no row    *)
(* disappears without a rejected line, the rows shown can be stored, no    *)
(* secret is sent.  The wizard: what is previewed, acknowledged and shown  *)
(* is of the file that is selected.                                        *)
(***************************************************************************)
EXTENDS ImportPreview, ImportWizard, FiniteSetTheorems, SequenceTheorems, WellFoundedInduction, TLAPS

--------------------------------------------------------------------------------
(* Sequences of sequences, put end to end *)

\* A set of naturals that is not empty has a least element
LEMMA LeastNat ==
    ASSUME NEW T \in SUBSET Nat, T # {}
    PROVE  \E n \in T : \A m \in T : n <= m
<1> DEFINE F == {0 .. k : k \in T}
<1> DEFINE R == StrictSubsetOrdering(Nat)
<1>1. IsWellFoundedOn(R, FiniteSubsetsOf(Nat)) BY FS_StrictSubsetOrderingWellFounded
<1>2. F \subseteq FiniteSubsetsOf(Nat)
    <2>1. ASSUME NEW k \in T PROVE 0 .. k \in FiniteSubsetsOf(Nat)
        <3>1. IsFiniteSet(0 .. k) BY FS_Interval
        <3>2. 0 .. k \in SUBSET Nat OBVIOUS
        <3> QED BY <3>1, <3>2 DEF FiniteSubsetsOf
    <2> QED BY <2>1
<1>3. F # {} OBVIOUS
<1> HIDE DEF F, R
<1>4. \E x \in F : \A y \in F : ~(<<y, x>> \in R) BY <1>1, <1>2, <1>3, WFMin
<1>5. PICK n \in T : \A y \in F : ~(<<y, 0 .. n>> \in R) BY <1>4 DEF F
<1>6. \A m \in T : n <= m
    <2> SUFFICES ASSUME NEW m \in T, m < n PROVE FALSE OBVIOUS
    <2>1. 0 .. m \in F BY DEF F
    <2>2. <<0 .. m, 0 .. n>> \in R BY SMT DEF R, StrictSubsetOrdering
    <2> QED BY <2>1, <2>2, <1>5
<1> QED BY <1>6

\* Induction over the naturals, of the set of those that hold
LEMMA NatInduct ==
    ASSUME NEW P \in SUBSET Nat, 0 \in P, \A n \in P : n + 1 \in P
    PROVE  P = Nat
<1> SUFFICES ASSUME P # Nat PROVE FALSE OBVIOUS
<1>1. Nat \ P # {} OBVIOUS
<1>2. PICK n \in Nat \ P : \A m \in Nat \ P : n <= m BY <1>1, LeastNat
<1>3. n # 0 /\ n - 1 \in Nat /\ ~(n <= n - 1) BY <1>2
<1>4. n - 1 \in P BY <1>2, <1>3
<1>5. (n - 1) + 1 = n BY <1>3
<1> QED BY <1>2, <1>4, <1>5

\* Induction over the sequences of a set: those of every length, one longer by one
LEMMA SeqInduct ==
    ASSUME NEW S, NEW P, <<>> \in P, \A s \in Seq(S), x \in S : s \in P => Append(s, x) \in P
    PROVE  Seq(S) \subseteq P
<1> DEFINE Q == {n \in Nat : \A s \in Seq(S) : Len(s) = n => s \in P}
<1>1. 0 \in Q BY EmptySeq
<1>2. ASSUME NEW n \in Q PROVE n + 1 \in Q
    <2> SUFFICES ASSUME NEW s \in Seq(S), Len(s) = n + 1 PROVE s \in P OBVIOUS
    <2>1. s # <<>> BY EmptySeq
    <2>2. PICK t \in Seq(S), x \in S : s = Append(t, x) BY <2>1, SequenceEmptyOrAppend
    <2>3. Len(t) = n
        <3>1. Len(s) = Len(t) + 1 /\ Len(t) \in Nat BY <2>2, AppendProperties, LenProperties
        <3> QED BY <3>1
    <2> QED BY <2>2, <2>3
<1> HIDE DEF Q
<1>3. Q = Nat
    <2>1. Q \in SUBSET Nat BY DEF Q
    <2> QED BY <1>1, <1>2, <2>1, NatInduct
<1> QED BY <1>3, LenProperties DEF Q

\* g puts the first sequences of ss end to end
Joins(g, ss) == g = [i \in 1 .. Len(ss) |-> IF i = 1 THEN ss[i] ELSE g[i - 1] \o ss[i]]

\* FlattenSeq of the library is the last value of such a function
LEMMA FlattenIsChosen ==
    ASSUME NEW ss, Len(ss) # 0
    PROVE  FlattenSeq(ss) = (CHOOSE g : Joins(g, ss))[Len(ss)]
BY DEF FlattenSeq, Joins

\* There is such a function
LEMMA JoinsExist ==
    ASSUME NEW ss, Len(ss) \in Nat
    PROVE  \E g : Joins(g, ss)
<1> DEFINE UpTo(g, n) == \A i \in 1 .. Len(ss) : i <= n =>
                            g[i] = IF i = 1 THEN ss[i] ELSE g[i - 1] \o ss[i]
<1> DEFINE P == {n \in Nat : \E g : UpTo(g, n)}
<1>1. 0 \in P OBVIOUS
<1>2. ASSUME NEW n \in P PROVE n + 1 \in P
    <2>1. PICK g : UpTo(g, n) OBVIOUS
    <2> DEFINE h == [i \in 1 .. Len(ss) |-> IF i = 1 THEN ss[i] ELSE g[i - 1] \o ss[i]]
    <2>2. ASSUME NEW i \in 1 .. Len(ss), i <= n + 1, i # 1 PROVE h[i - 1] = g[i - 1]
        <3>1. i - 1 \in 1 .. Len(ss) /\ i - 1 <= n BY <2>2
        <3> QED BY <2>1, <3>1
    <2>3. UpTo(h, n + 1) BY <2>2
    <2> HIDE DEF UpTo
    <2> QED BY <2>3
<1> HIDE DEF P
<1>3. P = Nat
    <2>1. P \in SUBSET Nat BY DEF P
    <2> QED BY <1>1, <1>2, <2>1, NatInduct
<1>4. PICK g : UpTo(g, Len(ss)) BY <1>3 DEF P
<1> DEFINE h == [i \in 1 .. Len(ss) |-> IF i = 1 THEN ss[i] ELSE g[i - 1] \o ss[i]]
<1>5. \A i \in 1 .. Len(ss) : h[i] = g[i] BY <1>4
<1>6. \A i \in 1 .. Len(ss) : i # 1 => i - 1 \in 1 .. Len(ss) OBVIOUS
<1>7. Joins(h, ss) BY <1>5, <1>6 DEF Joins
<1> QED BY <1>7

LEMMA FlattenJoins ==
    ASSUME NEW ss, Len(ss) \in Nat, Len(ss) # 0
    PROVE  \E g : Joins(g, ss) /\ FlattenSeq(ss) = g[Len(ss)]
BY FlattenIsChosen, JoinsExist

LEMMA FlattenEmpty == FlattenSeq(<<>>) = <<>>
BY DEF FlattenSeq

\* One sequence more is put at the end
LEMMA FlattenAppend ==
    ASSUME NEW S, NEW ss \in Seq(Seq(S)), NEW s \in Seq(S)
    PROVE  FlattenSeq(Append(ss, s)) = FlattenSeq(ss) \o s
<1> DEFINE tt == Append(ss, s)
<1>1. Len(ss) \in Nat /\ Len(tt) = Len(ss) + 1 /\ tt[Len(ss) + 1] = s
      /\ \A i \in 1 .. Len(ss) : tt[i] = ss[i]
    BY AppendProperties, LenProperties
<1> HIDE DEF tt
<1>2. PICK h : Joins(h, tt) /\ FlattenSeq(tt) = h[Len(tt)] BY <1>1, FlattenJoins
<1>3. CASE Len(ss) = 0
    <2>1. ss = <<>> BY <1>3, EmptySeq
    <2>2. FlattenSeq(tt) = s BY <1>1, <1>2, <1>3 DEF Joins
    <2> QED BY <2>1, <2>2, FlattenEmpty, ConcatEmptySeq DEF tt
<1>4. CASE Len(ss) # 0
    <2>1. PICK g : Joins(g, ss) /\ FlattenSeq(ss) = g[Len(ss)] BY <1>1, <1>4, FlattenJoins
    <2> DEFINE P == {n \in Nat : n + 1 \in 1 .. Len(ss) => g[n + 1] = h[n + 1]}
    <2>2. 0 \in P BY <1>1, <1>2, <2>1 DEF Joins
    <2>3. ASSUME NEW n \in P PROVE n + 1 \in P
        <3> SUFFICES ASSUME (n + 1) + 1 \in 1 .. Len(ss) PROVE g[(n + 1) + 1] = h[(n + 1) + 1] OBVIOUS
        <3>1. n + 1 \in 1 .. Len(ss) /\ (n + 1) + 1 # 1 /\ ((n + 1) + 1) - 1 = n + 1
              /\ (n + 1) + 1 \in 1 .. Len(tt)
            BY <1>1
        <3>2. g[n + 1] = h[n + 1] BY <3>1
        <3>3. g[(n + 1) + 1] = g[n + 1] \o ss[(n + 1) + 1] BY <2>1, <3>1 DEF Joins
        <3>4. h[(n + 1) + 1] = h[n + 1] \o tt[(n + 1) + 1] BY <1>2, <3>1 DEF Joins
        <3> QED BY <1>1, <3>2, <3>3, <3>4
    <2> HIDE DEF P
    <2>4. P = Nat
        <3>1. P \in SUBSET Nat BY DEF P
        <3> QED BY <2>2, <2>3, <3>1, NatInduct
    <2>5. Len(ss) - 1 \in P BY <1>1, <1>4, <2>4
    <2>6. g[Len(ss)] = h[Len(ss)] BY <1>1, <1>4, <2>5 DEF P
    <2>7. h[Len(tt)] = h[Len(ss)] \o tt[Len(tt)]
        <3>1. Len(tt) \in 1 .. Len(tt) /\ Len(tt) # 1 /\ Len(tt) - 1 = Len(ss) BY <1>1, <1>4
        <3>2. h[Len(tt)] = h[Len(tt) - 1] \o tt[Len(tt)] BY <1>2, <3>1 DEF Joins
        <3> QED BY <3>1, <3>2
    <2> QED BY <1>1, <1>2, <2>1, <2>6, <2>7 DEF tt
<1> QED BY <1>3, <1>4

\* What is put end to end are the items of the sequences
LEMMA FlattenType ==
    ASSUME NEW S, NEW ss \in Seq(Seq(S))
    PROVE  FlattenSeq(ss) \in Seq(S)
<1> DEFINE P == {t \in Seq(Seq(S)) : FlattenSeq(t) \in Seq(S)}
<1>1. <<>> \in P BY FlattenEmpty, EmptySeq
<1>2. ASSUME NEW t \in Seq(Seq(S)), NEW s \in Seq(S), t \in P PROVE Append(t, s) \in P
    BY <1>2, FlattenAppend, ConcatProperties, AppendProperties
<1> HIDE DEF P
<1>3. Seq(Seq(S)) \subseteq P BY <1>1, <1>2, SeqInduct
<1> QED BY <1>3 DEF P

\* Each item comes from one of the sequences
LEMMA FlattenRange ==
    ASSUME NEW S, NEW ss \in Seq(Seq(S)), NEW x \in Range(FlattenSeq(ss))
    PROVE  \E i \in 1 .. Len(ss) : x \in Range(ss[i])
<1> DEFINE From(t) == \A y \in Range(FlattenSeq(t)) : \E i \in 1 .. Len(t) : y \in Range(t[i])
<1> DEFINE P == {t \in Seq(Seq(S)) : From(t)}
<1>1. <<>> \in P
    <2>1. Range(<<>>) = {} BY DEF Range
    <2> QED BY <2>1, FlattenEmpty, EmptySeq
<1>2. ASSUME NEW t \in Seq(Seq(S)), NEW s \in Seq(S), t \in P PROVE Append(t, s) \in P
    <2> DEFINE u == Append(t, s)
    <2>1. u \in Seq(Seq(S)) /\ Len(u) = Len(t) + 1 /\ u[Len(t) + 1] = s
          /\ (\A i \in 1 .. Len(t) : u[i] = t[i]) /\ Len(t) \in Nat
        BY AppendProperties, LenProperties
    <2>2. Range(FlattenSeq(u)) = Range(FlattenSeq(t)) \cup Range(s)
        <3>1. FlattenSeq(t) \in Seq(S) BY FlattenType
        <3>2. Range(FlattenSeq(t) \o s) = Range(FlattenSeq(t)) \cup Range(s)
            BY <3>1, RangeConcatenation
        <3> QED BY <3>2, FlattenAppend
    <2> HIDE DEF u
    <2>3. ASSUME NEW y \in Range(FlattenSeq(u)) PROVE \E i \in 1 .. Len(u) : y \in Range(u[i])
        <3>1. CASE y \in Range(s)
            <4>1. Len(t) + 1 \in 1 .. Len(u) BY <2>1
            <4> QED BY <2>1, <3>1, <4>1
        <3>2. CASE y \in Range(FlattenSeq(t))
            <4>1. PICK i \in 1 .. Len(t) : y \in Range(t[i]) BY <1>2, <3>2
            <4>2. i \in 1 .. Len(u) BY <2>1
            <4> QED BY <2>1, <4>1, <4>2
        <3> QED BY <2>2, <3>1, <3>2
    <2>4. From(u) BY <2>3
    <2> QED BY <2>1, <2>4 DEF u
<1> HIDE DEF P
<1>3. Seq(Seq(S)) \subseteq P BY <1>1, <1>2, SeqInduct
<1> QED BY <1>3 DEF P

\* Each item of the sequences is there
LEMMA FlattenCovers ==
    ASSUME NEW S, NEW ss \in Seq(Seq(S)), NEW i \in 1 .. Len(ss)
    PROVE  Range(ss[i]) \subseteq Range(FlattenSeq(ss))
<1> DEFINE Covers(t) == \A j \in 1 .. Len(t) : Range(t[j]) \subseteq Range(FlattenSeq(t))
<1> DEFINE P == {t \in Seq(Seq(S)) : Covers(t)}
<1>1. <<>> \in P BY EmptySeq
<1>2. ASSUME NEW t \in Seq(Seq(S)), NEW s \in Seq(S), t \in P PROVE Append(t, s) \in P
    <2> DEFINE u == Append(t, s)
    <2>1. u \in Seq(Seq(S)) /\ Len(u) = Len(t) + 1 /\ u[Len(t) + 1] = s
          /\ (\A j \in 1 .. Len(t) : u[j] = t[j]) /\ Len(t) \in Nat
        BY AppendProperties, LenProperties
    <2>2. Range(FlattenSeq(u)) = Range(FlattenSeq(t)) \cup Range(s)
        <3>1. FlattenSeq(t) \in Seq(S) BY FlattenType
        <3>2. Range(FlattenSeq(t) \o s) = Range(FlattenSeq(t)) \cup Range(s)
            BY <3>1, RangeConcatenation
        <3> QED BY <3>2, FlattenAppend
    <2> HIDE DEF u
    <2>3. ASSUME NEW j \in 1 .. Len(u) PROVE Range(u[j]) \subseteq Range(FlattenSeq(u))
        <3>1. CASE j = Len(t) + 1 BY <2>1, <2>2, <3>1
        <3>2. CASE j # Len(t) + 1
            <4>1. j \in 1 .. Len(t) BY <2>1, <3>2
            <4>2. Range(t[j]) \subseteq Range(FlattenSeq(t)) BY <1>2, <4>1
            <4> QED BY <2>1, <2>2, <4>1, <4>2
        <3> QED BY <3>1, <3>2
    <2>4. Covers(u) BY <2>3
    <2> QED BY <2>1, <2>4 DEF u
<1> HIDE DEF P
<1>3. Seq(Seq(S)) \subseteq P BY <1>1, <1>2, SeqInduct
<1> QED BY <1>3 DEF P

\* Part by part, one sequence of sequences is not longer than another, or as long
PartsUnder(ss, tt) == Len(ss) = Len(tt) /\ \A i \in 1 .. Len(ss) : Len(ss[i]) <= Len(tt[i])

PartsEqual(ss, tt) == \A i \in 1 .. Len(ss) : Len(ss[i]) = Len(tt[i])

\* The length of a flattened sequence grows with those of its parts, and is equal to
\* another one only part by part
LEMMA FlattenCompare ==
    ASSUME NEW S, NEW T, NEW ss \in Seq(Seq(S)), NEW tt \in Seq(Seq(T)), PartsUnder(ss, tt)
    PROVE  /\ Len(FlattenSeq(ss)) <= Len(FlattenSeq(tt))
           /\ Len(FlattenSeq(ss)) = Len(FlattenSeq(tt)) <=> PartsEqual(ss, tt)
<1> DEFINE Holds(s, t) ==
      /\ Len(FlattenSeq(s)) <= Len(FlattenSeq(t))
      /\ Len(FlattenSeq(s)) = Len(FlattenSeq(t)) <=> \A i \in 1 .. Len(s) : Len(s[i]) = Len(t[i])
<1> DEFINE Under(s, t) == Len(s) = Len(t) /\ \A i \in 1 .. Len(s) : Len(s[i]) <= Len(t[i])
<1> DEFINE P == {s \in Seq(Seq(S)) : \A t \in Seq(Seq(T)) : Under(s, t) => Holds(s, t)}
<1>1. <<>> \in P
    <2>1. \A t \in Seq(Seq(T)) : Len(t) = 0 => t = <<>> BY EmptySeq
    <2> QED BY <2>1, FlattenEmpty, EmptySeq
<1>2. ASSUME NEW s \in Seq(Seq(S)), NEW x \in Seq(S), s \in P PROVE Append(s, x) \in P
    <2> DEFINE a == Append(s, x)
    <2>1. a \in Seq(Seq(S)) /\ Len(a) = Len(s) + 1 /\ a[Len(s) + 1] = x
          /\ (\A i \in 1 .. Len(s) : a[i] = s[i]) /\ Len(s) \in Nat
        BY AppendProperties, LenProperties
    <2>2. FlattenSeq(a) = FlattenSeq(s) \o x BY FlattenAppend
    <2> HIDE DEF a
    <2>3. ASSUME NEW b \in Seq(Seq(T)), Under(a, b) PROVE Holds(a, b)
        <3>1. b # <<>> BY <2>1, <2>3, EmptySeq
        <3>2. PICK t \in Seq(Seq(T)), y \in Seq(T) : b = Append(t, y) BY <3>1, SequenceEmptyOrAppend
        <3>3. Len(b) = Len(t) + 1 /\ b[Len(t) + 1] = y /\ (\A i \in 1 .. Len(t) : b[i] = t[i])
              /\ Len(t) \in Nat
            BY <3>2, AppendProperties, LenProperties
        <3>4. FlattenSeq(b) = FlattenSeq(t) \o y BY <3>2, FlattenAppend
        <3>5. Len(s) = Len(t) BY <2>1, <2>3, <3>3
        <3>6. \A i \in 1 .. Len(s) : i \in 1 .. Len(a) BY <2>1
        <3>7. Len(s) + 1 \in 1 .. Len(a) BY <2>1
        <3>8. Len(x) <= Len(y) BY <2>1, <2>3, <3>3, <3>5, <3>7
        <3>9. Under(s, t) BY <2>1, <2>3, <3>3, <3>5, <3>6
        <3>10. Holds(s, t) BY <1>2, <3>9
        <3>11. Len(x) \in Nat /\ Len(y) \in Nat /\ Len(FlattenSeq(s)) \in Nat
               /\ Len(FlattenSeq(t)) \in Nat
            BY FlattenType, LenProperties
        <3>12. /\ Len(FlattenSeq(a)) = Len(FlattenSeq(s)) + Len(x)
               /\ Len(FlattenSeq(b)) = Len(FlattenSeq(t)) + Len(y)
            <4>1. FlattenSeq(s) \in Seq(S) /\ FlattenSeq(t) \in Seq(T) BY FlattenType
            <4>2. Len(FlattenSeq(s) \o x) = Len(FlattenSeq(s)) + Len(x) BY <4>1, ConcatProperties
            <4>3. Len(FlattenSeq(t) \o y) = Len(FlattenSeq(t)) + Len(y) BY <4>1, ConcatProperties
            <4> QED BY <2>2, <3>4, <4>2, <4>3
        <3>13. (\A i \in 1 .. Len(a) : Len(a[i]) = Len(b[i]))
               <=> Len(x) = Len(y) /\ \A i \in 1 .. Len(s) : Len(s[i]) = Len(t[i])
            <4>1. \A i \in 1 .. Len(a) : i \in 1 .. Len(s) \/ i = Len(s) + 1 BY <2>1
            <4> QED BY <2>1, <3>3, <3>5, <3>6, <3>7, <4>1
        <3>14. Len(FlattenSeq(a)) <= Len(FlattenSeq(b)) BY <3>8, <3>10, <3>11, <3>12
        <3>15. Len(FlattenSeq(a)) = Len(FlattenSeq(b))
               <=> Len(x) = Len(y) /\ Len(FlattenSeq(s)) = Len(FlattenSeq(t))
            <4>1. Len(FlattenSeq(s)) <= Len(FlattenSeq(t)) BY <3>10
            <4> HIDE DEF Holds
            <4>2. PICK m \in Nat, n \in Nat, p \in Nat, q \in Nat :
                    m = Len(FlattenSeq(s)) /\ n = Len(FlattenSeq(t)) /\ p = Len(x) /\ q = Len(y)
                BY <3>11
            <4>3. m <= n /\ p <= q BY <3>8, <4>1, <4>2
            <4>4. m + p = n + q <=> p = q /\ m = n BY <4>3
            <4>5. Len(FlattenSeq(a)) = m + p /\ Len(FlattenSeq(b)) = n + q BY <3>12, <4>2
            <4> QED BY <4>2, <4>4, <4>5
        <3> QED BY <3>10, <3>13, <3>14, <3>15
    <2> HIDE DEF Holds, Under
    <2> QED BY <2>1, <2>3 DEF a
<1> HIDE DEF P
<1>3. Seq(Seq(S)) \subseteq P BY <1>1, <1>2, SeqInduct
<1> QED BY <1>3 DEF P, PartsUnder, PartsEqual

\* Sequences of one item each are as many as the items
LEMMA FlattenSingletons ==
    ASSUME NEW S, NEW s \in Seq(S)
    PROVE  FlattenSeq([i \in 1 .. Len(s) |-> <<s[i]>>]) = s
<1> DEFINE Single(t) == [i \in 1 .. Len(t) |-> <<t[i]>>]
<1> DEFINE P == {t \in Seq(S) : FlattenSeq(Single(t)) = t}
<1>0. ASSUME NEW t \in Seq(S) PROVE Single(t) \in Seq(Seq(S)) /\ Len(Single(t)) = Len(t)
    <2>1. Len(t) \in Nat /\ \A i \in 1 .. Len(t) : <<t[i]>> \in Seq(S) BY LenProperties, ElementOfSeq
    <2> QED BY <2>1
<1>1. <<>> \in P
    <2>1. Single(<<>>) = <<>> BY EmptySeq
    <2> QED BY <2>1, FlattenEmpty, EmptySeq
<1>2. ASSUME NEW t \in Seq(S), NEW x \in S, t \in P PROVE Append(t, x) \in P
    <2>1. Append(t, x) \in Seq(S) /\ Len(Append(t, x)) = Len(t) + 1
          /\ Append(t, x)[Len(t) + 1] = x /\ (\A i \in 1 .. Len(t) : Append(t, x)[i] = t[i])
          /\ Len(t) \in Nat
        BY AppendProperties, LenProperties
    <2>2. <<x>> \in Seq(S) OBVIOUS
    <2>3. Single(Append(t, x)) = Append(Single(t), <<x>>)
        <3> DEFINE a == Single(Append(t, x))
        <3> DEFINE b == Append(Single(t), <<x>>)
        <3>1. a \in Seq(Seq(S)) /\ Len(a) = Len(t) + 1 BY <1>0, <2>1
        <3>2. b \in Seq(Seq(S)) /\ Len(b) = Len(t) + 1 BY <1>0, <2>2, AppendProperties
        <3>3. \A i \in 1 .. Len(t) + 1 : a[i] = b[i]
            <4>1. ASSUME NEW i \in 1 .. Len(t) PROVE a[i] = b[i]
                <5>1. a[i] = <<t[i]>> BY <2>1
                <5>2. b[i] = Single(t)[i] BY <1>0, <2>2, AppendProperties
                <5> QED BY <5>1, <5>2
            <4>2. a[Len(t) + 1] = <<x>> BY <2>1
            <4>3. b[Len(t) + 1] = <<x>> BY <1>0, <2>2, AppendProperties
            <4>4. \A i \in 1 .. Len(t) + 1 : i \in 1 .. Len(t) \/ i = Len(t) + 1 BY <2>1
            <4> HIDE DEF a, b
            <4> QED BY <4>1, <4>2, <4>3, <4>4
        <3> HIDE DEF a, b
        <3>4. a = b BY <3>1, <3>2, <3>3, SeqEqual
        <3> QED BY <3>4 DEF a, b
    <2>4. FlattenSeq(Append(Single(t), <<x>>)) = FlattenSeq(Single(t)) \o <<x>>
        BY <1>0, <2>2, FlattenAppend
    <2>5. t \o <<x>> = Append(t, x) BY AppendIsConcat
    <2>6. FlattenSeq(Single(t)) = t BY <1>2
    <2> HIDE DEF Single
    <2>7. FlattenSeq(Single(Append(t, x))) = Append(t, x) BY <2>3, <2>4, <2>5, <2>6
    <2> QED BY <2>1, <2>7
<1> HIDE DEF P
<1>3. Seq(S) \subseteq P BY <1>1, <1>2, SeqInduct
<1> QED BY <1>3 DEF P

\* What is picked from a sequence are the items at the places, all of them or fewer
LEMMA PickedType ==
    ASSUME NEW S, NEW s \in Seq(S), NEW places
    PROVE  /\ Picked(s, places) \in Seq(S)
           /\ Len(Picked(s, places)) <= Len(s)
           /\ Len(Picked(s, places)) = Len(s) <=> \A i \in 1 .. Len(s) : i \in places
           /\ \A x \in Range(Picked(s, places)) : \E i \in 1 .. Len(s) : i \in places /\ x = s[i]
<1> DEFINE ss == [i \in 1 .. Len(s) |-> IF i \in places THEN <<s[i]>> ELSE <<>>]
<1> DEFINE tt == [i \in 1 .. Len(s) |-> <<s[i]>>]
<1>1. Len(s) \in Nat /\ \A i \in 1 .. Len(s) : s[i] \in S BY LenProperties, ElementOfSeq
<1>2. \A i \in 1 .. Len(s) : ss[i] \in Seq(S) /\ tt[i] \in Seq(S) BY <1>1
<1>3. /\ ss \in Seq(Seq(S)) /\ Len(ss) = Len(s)
      /\ tt \in Seq(Seq(S)) /\ Len(tt) = Len(s)
    BY <1>1, <1>2
<1>4. ASSUME NEW i \in 1 .. Len(s)
      PROVE  Len(tt[i]) = 1 /\ (i \in places => Len(ss[i]) = 1) /\ (i \notin places => Len(ss[i]) = 0)
    BY <1>1, EmptySeq
<1>5. FlattenSeq(tt) = s BY FlattenSingletons
<1>6. Picked(s, places) = FlattenSeq(ss) BY DEF Picked
<1>7. \A i \in 1 .. Len(s) : i \notin places => Range(ss[i]) = {} BY DEF Range
<1>8. \A i \in 1 .. Len(s) : i \in places => Range(ss[i]) = {s[i]} BY DEF Range
<1> HIDE DEF ss, tt
<1>9. FlattenSeq(ss) \in Seq(S) BY <1>3, FlattenType
<1>10. /\ Len(FlattenSeq(ss)) <= Len(FlattenSeq(tt))
       /\ Len(FlattenSeq(ss)) = Len(FlattenSeq(tt))
             <=> \A i \in 1 .. Len(ss) : Len(ss[i]) = Len(tt[i])
    <2>1. ASSUME NEW i \in 1 .. Len(ss) PROVE Len(ss[i]) <= Len(tt[i])
        <3>1. i \in 1 .. Len(s) BY <1>3
        <3>2. CASE i \in places
            <4>1. Len(ss[i]) = 1 /\ Len(tt[i]) = 1 BY <1>4, <3>1, <3>2
            <4> QED BY <4>1
        <3>3. CASE i \notin places
            <4>1. Len(ss[i]) = 0 /\ Len(tt[i]) = 1 BY <1>4, <3>1, <3>3
            <4> QED BY <4>1
        <3> QED BY <3>2, <3>3
    <2>2. PartsUnder(ss, tt) BY <1>3, <2>1 DEF PartsUnder
    <2> QED BY <1>3, <2>2, FlattenCompare DEF PartsEqual
<1>11. \A x \in Range(FlattenSeq(ss)) : \E i \in 1 .. Len(s) : i \in places /\ x = s[i]
    <2> SUFFICES ASSUME NEW x \in Range(FlattenSeq(ss))
                 PROVE  \E i \in 1 .. Len(s) : i \in places /\ x = s[i]
      OBVIOUS
    <2>1. PICK i \in 1 .. Len(ss) : x \in Range(ss[i]) BY <1>3, FlattenRange
    <2> QED BY <1>3, <1>7, <1>8, <2>1
<1>12. (\A i \in 1 .. Len(ss) : Len(ss[i]) = Len(tt[i])) <=> \A i \in 1 .. Len(s) : i \in places
    <2>1. 1 # 0 OBVIOUS
    <2>2. \A i \in 1 .. Len(s) : Len(ss[i]) = Len(tt[i]) <=> i \in places BY <1>4, <2>1
    <2> QED BY <1>3, <2>2
<1> QED BY <1>5, <1>6, <1>9, <1>10, <1>11, <1>12

LEMMA EntriesEmpty == \A k : EntriesOf(<<>>, k) = <<>>
<1> SUFFICES ASSUME NEW k PROVE EntriesOf(<<>>, k) = <<>> OBVIOUS
<1>1. <<>> \in Seq({}) BY EmptySeq
<1>2. EntriesOf(<<>>, k) \in Seq({}) /\ Len(EntriesOf(<<>>, k)) <= 0
    BY <1>1, PickedType, EmptySeq DEF EntriesOf
<1>3. Len(EntriesOf(<<>>, k)) = 0 BY <1>2, LenProperties
<1> QED BY <1>2, <1>3, EmptySeq

\* The entries of a kind keep their order
LEMMA EntriesAppend ==
    ASSUME NEW R, NEW r \in Seq(R), NEW x \in R, NEW k
    PROVE  EntriesOf(Append(r, x), k)
             = IF x.entity = k THEN Append(EntriesOf(r, k), x) ELSE EntriesOf(r, k)
<1> DEFINE Shown(q) ==
      [i \in 1 .. Len(q) |-> IF i \in {j \in 1 .. Len(q) : q[j].entity = k} THEN <<q[i]>> ELSE <<>>]
<1> DEFINE s == IF x.entity = k THEN <<x>> ELSE <<>>
<1>1. \A q : EntriesOf(q, k) = FlattenSeq(Shown(q)) BY DEF EntriesOf, Picked
<1>2. Append(r, x) \in Seq(R) /\ Len(Append(r, x)) = Len(r) + 1 /\ Len(r) \in Nat
      /\ Append(r, x)[Len(r) + 1] = x /\ \A i \in 1 .. Len(r) : Append(r, x)[i] = r[i]
    BY AppendProperties, LenProperties
<1>3. s \in Seq(R) OBVIOUS
<1>4. ASSUME NEW q \in Seq(R) PROVE Shown(q) \in Seq(Seq(R)) /\ Len(Shown(q)) = Len(q)
    <2>1. Len(q) \in Nat /\ \A i \in 1 .. Len(q) : q[i] \in R BY LenProperties, ElementOfSeq
    <2>2. \A i \in 1 .. Len(q) : Shown(q)[i] \in Seq(R) BY <2>1
    <2> QED BY <2>1, <2>2
<1>5. Shown(Append(r, x)) = Append(Shown(r), s)
    <2> DEFINE a == Shown(Append(r, x))
    <2> DEFINE b == Append(Shown(r), s)
    <2>1. a \in Seq(Seq(R)) /\ Len(a) = Len(r) + 1 BY <1>2, <1>4
    <2>2. b \in Seq(Seq(R)) /\ Len(b) = Len(r) + 1 /\ b[Len(r) + 1] = s
          /\ \A i \in 1 .. Len(r) : b[i] = Shown(r)[i]
        <3> HIDE DEF s, Shown
        <3> QED BY <1>3, <1>4, AppendProperties
    <2>3. \A i \in 1 .. Len(r) : a[i] = Shown(r)[i] BY <1>2
    <2>4. a[Len(r) + 1] = s BY <1>2
    <2>5. \A i \in 1 .. Len(r) + 1 : i \in 1 .. Len(r) \/ i = Len(r) + 1 BY <1>2
    <2> HIDE DEF a, b, s, Shown
    <2>6. \A i \in 1 .. Len(a) : a[i] = b[i] BY <2>1, <2>2, <2>3, <2>4, <2>5
    <2>7. a = b BY <2>1, <2>2, <2>6, SeqEqual
    <2> QED BY <2>7 DEF a, b
<1> HIDE DEF Shown
<1>6. EntriesOf(Append(r, x), k) = FlattenSeq(Shown(r)) \o s
    <2>1. FlattenSeq(Append(Shown(r), s)) = FlattenSeq(Shown(r)) \o s BY <1>3, <1>4, FlattenAppend
    <2> HIDE DEF s
    <2> QED BY <1>1, <1>5, <2>1
<1>7. FlattenSeq(Shown(r)) \in Seq(R) BY <1>4, FlattenType
<1>8. CASE x.entity = k BY <1>1, <1>6, <1>7, <1>8, AppendIsConcat
<1>9. CASE x.entity # k BY <1>1, <1>6, <1>7, <1>9, ConcatEmptySeq
<1> QED BY <1>8, <1>9

LEMMA EntriesType ==
    ASSUME NEW R, NEW r \in Seq(R), NEW k
    PROVE  /\ EntriesOf(r, k) \in Seq(R)
           /\ Len(EntriesOf(r, k)) \in Nat
           /\ \A x \in Range(EntriesOf(r, k)) : x \in Range(r) /\ x.entity = k
           /\ (\A x \in Range(r) : x.entity = k) => Len(EntriesOf(r, k)) = Len(r)
           /\ (\A x \in Range(r) : x.entity # k) => Len(EntriesOf(r, k)) = 0
<1> DEFINE places == {i \in 1 .. Len(r) : r[i].entity = k}
<1>1. EntriesOf(r, k) = Picked(r, places) BY DEF EntriesOf
<1>2. \A i \in 1 .. Len(r) : r[i] \in Range(r)
    BY LenProperties DEF Range
<1>3. \A i \in places : i \in 1 .. Len(r) /\ r[i].entity = k OBVIOUS
<1>4. \A i \in 1 .. Len(r) : r[i].entity = k => i \in places OBVIOUS
<1> HIDE DEF places
<1>5. /\ Picked(r, places) \in Seq(R)
      /\ Len(Picked(r, places)) = Len(r) <=> \A i \in 1 .. Len(r) : i \in places
      /\ \A x \in Range(Picked(r, places)) : \E i \in 1 .. Len(r) : i \in places /\ x = r[i]
    BY PickedType
<1>6. \A x \in Range(EntriesOf(r, k)) : x \in Range(r) /\ x.entity = k BY <1>1, <1>2, <1>3, <1>5
<1>7. ASSUME \A x \in Range(r) : x.entity # k PROVE Len(EntriesOf(r, k)) = 0
    <2> DEFINE t == EntriesOf(r, k)
    <2>1. t \in Seq(R) BY <1>1, <1>5
    <2>2. Range(t) = {} BY <1>6, <1>7
    <2> HIDE DEF t
    <2>3. Len(t) \in Nat /\ \A i \in 1 .. Len(t) : t[i] \in Range(t) BY <2>1, LenProperties DEF Range
    <2>4. Len(t) = 0
        <3> SUFFICES ASSUME Len(t) # 0 PROVE FALSE OBVIOUS
        <3>1. 1 \in 1 .. Len(t) BY <2>3
        <3> QED BY <2>2, <2>3, <3>1
    <2> QED BY <2>4 DEF t
<1>8. Len(EntriesOf(r, k)) \in Nat BY <1>1, <1>5, LenProperties
<1> QED BY <1>1, <1>2, <1>4, <1>5, <1>6, <1>7, <1>8

\* The entries of a kind in two sequences are those of the one and those of the other
LEMMA EntriesConcat ==
    ASSUME NEW R, NEW r \in Seq(R), NEW q \in Seq(R), NEW k
    PROVE  Len(EntriesOf(r \o q, k)) = Len(EntriesOf(r, k)) + Len(EntriesOf(q, k))
<1> DEFINE P == {t \in Seq(R) : Len(EntriesOf(r \o t, k)) = Len(EntriesOf(r, k)) + Len(EntriesOf(t, k))}
<1>1. <<>> \in P
    <2>1. r \o <<>> = r BY ConcatEmptySeq
    <2>2. EntriesOf(<<>>, k) = <<>> /\ Len(<<>>) = 0 BY EntriesEmpty, EmptySeq
    <2>3. Len(EntriesOf(r, k)) \in Nat BY EntriesType
    <2>4. Len(EntriesOf(r, k)) + 0 = Len(EntriesOf(r, k)) BY <2>3
    <2> QED BY <2>1, <2>2, <2>4, EmptySeq
<1>2. ASSUME NEW t \in Seq(R), NEW x \in R, t \in P PROVE Append(t, x) \in P
    <2>1. r \o Append(t, x) = Append(r \o t, x)
        <3>1. Append(t, x) = t \o <<x>> BY AppendIsConcat
        <3>2. <<x>> \in Seq(R) /\ r \o t \in Seq(R) BY ConcatProperties
        <3>3. (r \o t) \o <<x>> = r \o (t \o <<x>>) BY SMTT(30), <3>2, ConcatAssociative
        <3>4. Append(r \o t, x) = (r \o t) \o <<x>> BY <3>2, AppendIsConcat
        <3> QED BY <3>1, <3>3, <3>4
    <2>2. r \o t \in Seq(R) BY ConcatProperties
    <2>3. Append(t, x) \in Seq(R) BY AppendProperties
    <2>4. EntriesOf(r \o t, k) \in Seq(R) /\ EntriesOf(t, k) \in Seq(R)
          /\ Len(EntriesOf(r \o t, k)) \in Nat /\ Len(EntriesOf(t, k)) \in Nat
          /\ Len(EntriesOf(r, k)) \in Nat
        BY <2>2, EntriesType
    <2>5. Len(EntriesOf(r \o t, k)) = Len(EntriesOf(r, k)) + Len(EntriesOf(t, k)) BY <1>2
    <2>6. CASE x.entity # k
        <3>1. EntriesOf(Append(r \o t, x), k) = EntriesOf(r \o t, k)
              /\ EntriesOf(Append(t, x), k) = EntriesOf(t, k)
            BY ZenonT(40), <2>2, <2>6, EntriesAppend
        <3> QED BY <2>1, <2>3, <2>5, <3>1
    <2>7. CASE x.entity = k
        <3>1. EntriesOf(Append(r \o t, x), k) = Append(EntriesOf(r \o t, k), x)
              /\ EntriesOf(Append(t, x), k) = Append(EntriesOf(t, k), x)
            BY <2>2, <2>7, EntriesAppend
        <3>2. Len(Append(EntriesOf(r \o t, k), x)) = Len(EntriesOf(r \o t, k)) + 1
              /\ Len(Append(EntriesOf(t, k), x)) = Len(EntriesOf(t, k)) + 1
            BY <2>4, AppendProperties
        <3>3. Len(EntriesOf(r \o Append(t, x), k))
                = Len(EntriesOf(r, k)) + Len(EntriesOf(Append(t, x), k))
            <4>1. PICK l \in Nat, m \in Nat, n \in Nat :
                    l = Len(EntriesOf(r, k)) /\ m = Len(EntriesOf(t, k))
                    /\ n = Len(EntriesOf(r \o t, k))
                BY <2>4
            <4>2. n + 1 = l + (m + 1) BY <2>5, <4>1
            <4> QED BY <2>1, <3>1, <3>2, <4>1, <4>2
        <3> QED BY <2>3, <3>3
    <2> QED BY <2>6, <2>7
<1> HIDE DEF P
<1>3. Seq(R) \subseteq P BY <1>1, <1>2, SeqInduct
<1> QED BY <1>3 DEF P

\* The entries of a kind in sequences put end to end, counted part by part
LEMMA EntriesOfFlatten ==
    ASSUME NEW R, NEW ss \in Seq(Seq(R)), NEW k
    PROVE  Len(EntriesOf(FlattenSeq(ss), k))
             = Len(FlattenSeq([e \in 1 .. Len(ss) |-> EntriesOf(ss[e], k)]))
<1> DEFINE Parts(t) == [e \in 1 .. Len(t) |-> EntriesOf(t[e], k)]
<1> DEFINE P == {t \in Seq(Seq(R)) : Len(EntriesOf(FlattenSeq(t), k)) = Len(FlattenSeq(Parts(t)))}
<1>0. ASSUME NEW t \in Seq(Seq(R)) PROVE Parts(t) \in Seq(Seq(R)) /\ Len(Parts(t)) = Len(t)
    <2>1. Len(t) \in Nat /\ \A i \in 1 .. Len(t) : t[i] \in Seq(R) BY LenProperties, ElementOfSeq
    <2>2. \A i \in 1 .. Len(t) : EntriesOf(t[i], k) \in Seq(R) BY <2>1, EntriesType
    <2> QED BY <2>1, <2>2
<1>1. <<>> \in P
    <2>1. Parts(<<>>) = <<>> BY EmptySeq
    <2>2. EntriesOf(<<>>, k) = <<>> BY EntriesEmpty
    <2> HIDE DEF Parts
    <2> QED BY <2>1, <2>2, FlattenEmpty, EmptySeq
<1>2. ASSUME NEW t \in Seq(Seq(R)), NEW s \in Seq(R), t \in P PROVE Append(t, s) \in P
    <2>1. Append(t, s) \in Seq(Seq(R)) /\ Len(Append(t, s)) = Len(t) + 1 /\ Len(t) \in Nat
          /\ Append(t, s)[Len(t) + 1] = s /\ \A i \in 1 .. Len(t) : Append(t, s)[i] = t[i]
        BY AppendProperties, LenProperties
    <2>2. EntriesOf(s, k) \in Seq(R) BY EntriesType
    <2>3. Parts(Append(t, s)) = Append(Parts(t), EntriesOf(s, k))
        <3> DEFINE a == Parts(Append(t, s))
        <3> DEFINE b == Append(Parts(t), EntriesOf(s, k))
        <3>1. a \in Seq(Seq(R)) /\ Len(a) = Len(t) + 1 BY <1>0, <2>1
        <3>2. b \in Seq(Seq(R)) /\ Len(b) = Len(t) + 1 /\ b[Len(t) + 1] = EntriesOf(s, k)
              /\ \A i \in 1 .. Len(t) : b[i] = Parts(t)[i]
            <4> HIDE DEF Parts
            <4> QED BY <1>0, <2>2, AppendProperties
        <3>3. \A i \in 1 .. Len(t) : a[i] = Parts(t)[i] BY <2>1
        <3>4. a[Len(t) + 1] = EntriesOf(s, k) BY <2>1
        <3>5. \A i \in 1 .. Len(t) + 1 : i \in 1 .. Len(t) \/ i = Len(t) + 1 BY <2>1
        <3> HIDE DEF a, b, Parts
        <3>6. \A i \in 1 .. Len(a) : a[i] = b[i] BY <3>1, <3>2, <3>3, <3>4, <3>5
        <3>7. a = b BY <3>1, <3>2, <3>6, SeqEqual
        <3> QED BY <3>7 DEF a, b
    <2> HIDE DEF Parts
    <2>4. FlattenSeq(Parts(Append(t, s))) = FlattenSeq(Parts(t)) \o EntriesOf(s, k)
        BY <1>0, <2>2, <2>3, FlattenAppend
    <2>5. FlattenSeq(Append(t, s)) = FlattenSeq(t) \o s BY FlattenAppend
    <2>6. FlattenSeq(t) \in Seq(R) /\ FlattenSeq(Parts(t)) \in Seq(R) BY <1>0, FlattenType
    <2>7. Len(EntriesOf(FlattenSeq(t) \o s, k))
            = Len(EntriesOf(FlattenSeq(t), k)) + Len(EntriesOf(s, k))
        BY <2>6, EntriesConcat
    <2>8. Len(FlattenSeq(Parts(t)) \o EntriesOf(s, k))
            = Len(FlattenSeq(Parts(t))) + Len(EntriesOf(s, k))
        BY <2>2, <2>6, ConcatProperties
    <2>9. Len(EntriesOf(FlattenSeq(t), k)) = Len(FlattenSeq(Parts(t))) BY <1>2
    <2> QED BY <2>1, <2>4, <2>5, <2>7, <2>8, <2>9
<1> HIDE DEF P
<1>3. Seq(Seq(R)) \subseteq P BY <1>1, <1>2, SeqInduct
<1> QED BY <1>3 DEF P

--------------------------------------------------------------------------------
(* Paths, and the rows they reach *)

LEMMA AnySequence ==
    ASSUME NEW S, NEW s \in Seq(S)
    PROVE  IsSequence(s)
BY SeqOfRange DEF IsSequence

LEMMA AppendIsSequence ==
    ASSUME NEW s, IsSequence(s), NEW x
    PROVE  IsSequence(Append(s, x))
<1> DEFINE S == Range(s) \cup {x}
<1>1. s \in Seq(S)
    <2>1. s \in Seq(Range(s)) /\ Range(s) \subseteq S BY DEF IsSequence
    <2> HIDE DEF S
    <2> QED BY <2>1, SeqMonotonic
<1>2. Append(s, x) \in Seq(S) BY <1>1, AppendProperties
<1> QED BY <1>2, AnySequence

\* A turn of parse_path keeps what was read or adds a segment
LEMMA SegmentIsAdded ==
    ASSUME NEW path, NEW state
    PROVE  \E x : ReadSegment(path, state).segments \in {state.segments, Append(state.segments, x)}
<1> DEFINE i == state.at
<1> DEFINE n == Identifier(path, i + 1)
<1> DEFINE quoted == ReadQuoted(path, i + 2)
<1> DEFINE Goes(segment, next) == [at |-> next, segments |-> Append(state.segments, segment)]
<1> DEFINE read == CASE path[i] = "." /\ n > 0 -> Goes(Key(SubSeq(path, i + 1, i + n)), i + n + 1)
                     [] StartsAt(path, i, <<"[", "]">>) -> Goes(Each, i + 2)
                     [] StartsAt(path, i, <<"[", Quote>>) /\ quoted.after # 0 ->
                          Goes(Key(quoted.name), quoted.after)
                     [] OTHER -> [at |-> 0, segments |-> state.segments]
<1>1. ReadSegment(path, state) = IF i \in {0, Len(path) + 1} THEN state ELSE read
    BY DEF ReadSegment
<1>2. \/ read = Goes(Key(SubSeq(path, i + 1, i + n)), i + n + 1)
      \/ read = Goes(Each, i + 2)
      \/ read = Goes(Key(quoted.name), quoted.after)
      \/ read = [at |-> 0, segments |-> state.segments]
    <2> HIDE DEF Goes, i, n, quoted
    <2> QED OBVIOUS
<1>3. \E x : read.segments \in {state.segments, Append(state.segments, x)}
    <2> HIDE DEF i, n, quoted, read
    <2>1. ASSUME NEW x, NEW next, read = Goes(x, next) PROVE read.segments = Append(state.segments, x)
        BY <2>1
    <2>2. CASE read = [at |-> 0, segments |-> state.segments] BY <2>2
    <2> HIDE DEF Goes
    <2> QED BY <1>2, <2>1, <2>2
<1> HIDE DEF i, n, quoted, read
<1> QED BY <1>1, <1>3

\* g holds the states of the loop of parse_path
Turns(g, path) ==
    g = [n \in 0 .. Len(path) |->
            IF n = 0 THEN [at |-> 2, segments |-> <<>>] ELSE ReadSegment(path, g[n - 1])]

LEMMA ParseIsChosen ==
    ASSUME NEW path
    PROVE  ParsePath(path) \in {Unsupported, (CHOOSE g : Turns(g, path))[Len(path)].segments}
BY DEF ParsePath, Turns

LEMMA TurnsExist ==
    ASSUME NEW path, Len(path) \in Nat
    PROVE  \E g : Turns(g, path)
<1> DEFINE First == [at |-> 2, segments |-> <<>>]
<1> DEFINE UpTo(g, n) == \A i \in 0 .. Len(path) : i <= n =>
                            g[i] = IF i = 0 THEN First ELSE ReadSegment(path, g[i - 1])
<1> DEFINE P == {n \in Nat : \E g : UpTo(g, n)}
<1>1. 0 \in P
    <2>1. UpTo([i \in 0 .. Len(path) |-> First], 0) OBVIOUS
    <2> QED BY <2>1
<1>2. ASSUME NEW n \in P PROVE n + 1 \in P
    <2>1. PICK g : UpTo(g, n) OBVIOUS
    <2> DEFINE h == [i \in 0 .. Len(path) |-> IF i = 0 THEN First ELSE ReadSegment(path, g[i - 1])]
    <2>2. ASSUME NEW i \in 0 .. Len(path), i <= n + 1, i # 0 PROVE h[i - 1] = g[i - 1]
        <3>1. i - 1 \in 0 .. Len(path) /\ i - 1 <= n BY <2>2
        <3> QED BY <2>1, <3>1
    <2>3. UpTo(h, n + 1) BY <2>2
    <2> HIDE DEF UpTo
    <2> QED BY <2>3
<1> HIDE DEF P
<1>3. P = Nat
    <2>1. P \in SUBSET Nat BY DEF P
    <2> QED BY <1>1, <1>2, <2>1, NatInduct
<1>4. PICK g : UpTo(g, Len(path)) BY <1>3 DEF P
<1> DEFINE h == [i \in 0 .. Len(path) |-> IF i = 0 THEN First ELSE ReadSegment(path, g[i - 1])]
<1>5. \A i \in 0 .. Len(path) : h[i] = g[i] BY <1>4
<1>6. \A i \in 0 .. Len(path) : i # 0 => i - 1 \in 0 .. Len(path) OBVIOUS
<1>7. Turns(h, path) BY <1>5, <1>6 DEF Turns
<1> QED BY <1>7

\* The segments of a path are a sequence
LEMMA ParsedIsSequence ==
    ASSUME NEW path, IsSequence(path)
    PROVE  IsSequence(ParsePath(path))
<1>1. Len(path) \in Nat BY LenProperties DEF IsSequence
<1> DEFINE g == CHOOSE f : Turns(f, path)
<1>2. Turns(g, path) BY <1>1, TurnsExist
<1>3. ParsePath(path) \in {Unsupported, g[Len(path)].segments} BY ParseIsChosen
<1> HIDE DEF g
<1> DEFINE P == {n \in Nat : n <= Len(path) => IsSequence(g[n].segments)}
<1>4. 0 \in P
    <2>1. g[0].segments = <<>> BY <1>1, <1>2 DEF Turns
    <2>2. IsSequence(<<>>) BY EmptySeq, AnySequence
    <2> QED BY <2>1, <2>2
<1>5. ASSUME NEW n \in P PROVE n + 1 \in P
    <2> SUFFICES ASSUME n + 1 <= Len(path) PROVE IsSequence(g[n + 1].segments) OBVIOUS
    <2>1. n + 1 \in 0 .. Len(path) /\ n + 1 # 0 /\ (n + 1) - 1 = n /\ n <= Len(path) BY <1>1
    <2>2. g[n + 1] = ReadSegment(path, g[n]) BY <1>2, <2>1 DEF Turns
    <2>3. IsSequence(g[n].segments) BY <2>1
    <2>4. PICK x : ReadSegment(path, g[n]).segments \in {g[n].segments, Append(g[n].segments, x)}
        BY SegmentIsAdded
    <2>5. IsSequence(Append(g[n].segments, x)) BY <2>3, AppendIsSequence
    <2> QED BY <2>2, <2>3, <2>4, <2>5
<1> HIDE DEF P
<1>6. P = Nat
    <2>1. P \in SUBSET Nat BY DEF P
    <2> QED BY <1>4, <1>5, <2>1, NatInduct
<1>7. IsSequence(g[Len(path)].segments)
    <2>1. Len(path) \in P /\ Len(path) <= Len(path) BY <1>1, <1>6
    <2> QED BY <2>1 DEF P
<1>8. IsSequence(Unsupported)
    <2>1. <<<<"unsupported">>>> \in Seq({<<"unsupported">>}) OBVIOUS
    <2> QED BY <2>1, AnySequence DEF Unsupported
<1> QED BY <1>3, <1>7, <1>8

LEMMA PrefixIsSequence ==
    ASSUME NEW entity, IsSequence(entity.iterate)
    PROVE  IsSequence(Prefix(entity))
<1>1. IsSequence(ParsePath(entity.iterate)) BY ParsedIsSequence
<1>2. IsSequence(Append(ParsePath(entity.iterate), Each)) BY <1>1, AppendIsSequence
<1>3. IsSequence(<<>>) BY EmptySeq, AnySequence
<1>4. Prefix(entity) \in {<<>>, ParsePath(entity.iterate), Append(ParsePath(entity.iterate), Each)}
    BY DEF Prefix, IteratePath
<1> QED BY <1>1, <1>2, <1>3, <1>4

\* What one segment reaches from values are values
LEMMA ReachedType ==
    ASSUME NEW rows \in Seq(Values), NEW s
    PROVE  Reached(rows, s) \in Seq(Values)
<1> DEFINE Part(v) == IF s = Each THEN IF v[1] = "list" THEN v[2] ELSE <<>>
                      ELSE IF Member(v, s[2]) = Null THEN <<>> ELSE <<Member(v, s[2])>>
<1> DEFINE parts == [i \in 1 .. Len(rows) |-> Part(rows[i])]
<1>1. Reached(rows, s) = FlattenSeq(parts) BY DEF Reached
<1>2. ASSUME NEW v \in Values PROVE Part(v) \in Seq(Values)
    <2>1. v[1] = "list" => v[2] \in Seq(Values) BY ValuesAssumption
    <2>2. Member(v, s[2]) \in Values BY ValuesAssumption DEF Member
    <2>3. <<>> \in Seq(Values) /\ <<Member(v, s[2])>> \in Seq(Values) BY <2>2
    <2> QED BY <2>1, <2>3
<1>3. Len(rows) \in Nat /\ \A i \in 1 .. Len(rows) : rows[i] \in Values BY LenProperties, ElementOfSeq
<1> HIDE DEF Part
<1>4. parts \in Seq(Seq(Values)) BY <1>2, <1>3
<1> QED BY <1>1, <1>4, FlattenType

\* g holds the rows that each prefix of the segments reaches
Arrives(g, document, segments) ==
    g = [n \in 0 .. Len(segments) |->
            IF n = 0 THEN [rows |-> <<document>>, wrong |-> FALSE]
            ELSE [rows |-> Reached(g[n - 1].rows, segments[n]),
                  wrong |-> g[n - 1].wrong \/ Blocked(g[n - 1].rows, segments[n])]]

LEMMA ResolveIsChosen ==
    ASSUME NEW document, NEW segments
    PROVE  ResolveRows(document, segments)
             = (CHOOSE g : Arrives(g, document, segments))[Len(segments)]
BY DEF ResolveRows, Arrives

LEMMA ArrivalsExist ==
    ASSUME NEW document, NEW segments, Len(segments) \in Nat
    PROVE  \E g : Arrives(g, document, segments)
<1> DEFINE First == [rows |-> <<document>>, wrong |-> FALSE]
<1> DEFINE After(x, s) == [rows |-> Reached(x.rows, s), wrong |-> x.wrong \/ Blocked(x.rows, s)]
<1> DEFINE UpTo(g, n) == \A i \in 0 .. Len(segments) : i <= n =>
                            g[i] = IF i = 0 THEN First ELSE After(g[i - 1], segments[i])
<1> DEFINE P == {n \in Nat : \E g : UpTo(g, n)}
<1> HIDE DEF First, After
<1>1. 0 \in P
    <2>1. UpTo([i \in 0 .. Len(segments) |-> First], 0) OBVIOUS
    <2> QED BY <2>1
<1>2. ASSUME NEW n \in P PROVE n + 1 \in P
    <2>1. PICK g : UpTo(g, n) OBVIOUS
    <2> DEFINE h == [i \in 0 .. Len(segments) |-> IF i = 0 THEN First ELSE After(g[i - 1], segments[i])]
    <2>2. ASSUME NEW i \in 0 .. Len(segments), i <= n + 1, i # 0 PROVE h[i - 1] = g[i - 1]
        <3>1. i - 1 \in 0 .. Len(segments) /\ i - 1 <= n BY <2>2
        <3> QED BY <2>1, <3>1
    <2>3. UpTo(h, n + 1) BY <2>2
    <2> HIDE DEF UpTo
    <2> QED BY <2>3
<1> HIDE DEF P
<1>3. P = Nat
    <2>1. P \in SUBSET Nat BY DEF P
    <2> QED BY <1>1, <1>2, <2>1, NatInduct
<1>4. PICK g : UpTo(g, Len(segments)) BY <1>3 DEF P
<1> DEFINE h == [i \in 0 .. Len(segments) |-> IF i = 0 THEN First ELSE After(g[i - 1], segments[i])]
<1>5. \A i \in 0 .. Len(segments) : h[i] = g[i] BY <1>4
<1>6. \A i \in 0 .. Len(segments) : i # 0 => i - 1 \in 0 .. Len(segments) OBVIOUS
<1>7. h = [i \in 0 .. Len(segments) |-> IF i = 0 THEN First ELSE After(h[i - 1], segments[i])]
    BY <1>5, <1>6
<1> HIDE DEF h
<1>8. Arrives(h, document, segments) BY <1>7 DEF Arrives, First, After
<1> QED BY <1>8

\* The rows of a mapping in a record are values
LEMMA RowsAreValues ==
    ASSUME NEW document \in Values, NEW segments, IsSequence(segments)
    PROVE  ResolveRows(document, segments).rows \in Seq(Values)
<1>1. Len(segments) \in Nat BY LenProperties DEF IsSequence
<1>2. PICK g : Arrives(g, document, segments) /\ ResolveRows(document, segments) = g[Len(segments)]
    BY <1>1, ArrivalsExist, ResolveIsChosen
<1> DEFINE P == {n \in Nat : n <= Len(segments) => g[n].rows \in Seq(Values)}
<1>3. 0 \in P
    <2>1. g[0] = [rows |-> <<document>>, wrong |-> FALSE] BY <1>1, <1>2 DEF Arrives
    <2>2. <<document>> \in Seq(Values) OBVIOUS
    <2>3. g[0].rows = <<document>> BY <2>1
    <2>4. g[0].rows \in Seq(Values) BY <2>2, <2>3
    <2> QED BY <2>4
<1>4. ASSUME NEW n \in P PROVE n + 1 \in P
    <2> SUFFICES ASSUME n + 1 <= Len(segments) PROVE g[n + 1].rows \in Seq(Values) OBVIOUS
    <2>1. n + 1 \in 0 .. Len(segments) /\ n + 1 # 0 /\ (n + 1) - 1 = n /\ n <= Len(segments) BY <1>1
    <2> DEFINE wrong == g[n].wrong \/ Blocked(g[n].rows, segments[n + 1])
    <2>a. g[n + 1] = [rows |-> Reached(g[n].rows, segments[n + 1]), wrong |-> wrong]
        BY <1>2, <2>1 DEF Arrives
    <2> HIDE DEF wrong
    <2>2. g[n + 1].rows = Reached(g[n].rows, segments[n + 1]) BY <2>a
    <2>3. g[n].rows \in Seq(Values) BY <2>1
    <2> QED BY <2>2, <2>3, ReachedType
<1> HIDE DEF P
<1>5. P = Nat
    <2>1. P \in SUBSET Nat BY DEF P
    <2> QED BY <1>3, <1>4, <2>1, NatInduct
<1>6. Len(segments) \in P /\ Len(segments) <= Len(segments) BY <1>1, <1>5
<1> QED BY <1>2, <1>6 DEF P

LEMMA RowsOfType ==
    ASSUME NEW entity, IsSequence(entity.iterate), NEW record \in Values
    PROVE  RowsOf(entity, record).rows \in Seq(Values)
<1>1. ResolveRows(record, Prefix(entity)).rows \in Seq(Values) BY PrefixIsSequence, RowsAreValues
<1>2. <<record>> \in Seq(Values) /\ <<>> \in Seq(Values) OBVIOUS
<1>3. \/ RowsOf(entity, record) = [rows |-> <<record>>, wrong |-> FALSE]
      \/ RowsOf(entity, record) = [rows |-> <<>>, wrong |-> TRUE]
      \/ RowsOf(entity, record) = ResolveRows(record, Prefix(entity))
    BY DEF RowsOf
<1>4. CASE RowsOf(entity, record) = [rows |-> <<record>>, wrong |-> FALSE] BY <1>2, <1>4
<1>5. CASE RowsOf(entity, record) = [rows |-> <<>>, wrong |-> TRUE] BY <1>2, <1>5
<1> QED BY <1>1, <1>3, <1>4, <1>5

--------------------------------------------------------------------------------
(* The operators of an accepted mapping *)

\* An outcome whose code is not that of a path refused
Runs(outcome) == \E v, code : outcome = Outcome(v, code) /\ code # "MAPPING_UNSUPPORTED_PATH"

LEMMA ReturnsRuns == \A v : Runs(Returns(v))
BY DEF Runs, Returns

LEMMA RaisesRuns == \A code : code # "MAPPING_UNSUPPORTED_PATH" => Runs(Raises(code))
BY DEF Runs, Raises

LEMMA CastRuns == \A v, op : Runs(Cast(v, op))
<1> SUFFICES ASSUME NEW v, NEW op PROVE Runs(Cast(v, op)) OBVIOUS
<1>1. Runs(Raises("CAST_FAILED")) /\ Runs(Raises("OPERATOR_FAILED")) BY RaisesRuns
<1>2. Runs(TruthOf(v))
    <2>1. \/ TruthOf(v) = Returns(v)
          \/ TruthOf(v) = Returns(<<"bool", TRUE>>)
          \/ TruthOf(v) = Returns(<<"bool", FALSE>>)
          \/ TruthOf(v) = Raises("CAST_FAILED")
        BY DEF TruthOf
    <2> QED BY <1>1, <2>1, ReturnsRuns
<1>3. Runs(Converted(v, op.to))
    <2> DEFINE n == IF op.to = "float" THEN <<"float", InThousandths(v)>>
                    ELSE <<"int", InThousandths(v) \div 1000>>
    <2>1. \/ Converted(v, op.to) = Returns(<<"text", Text(v)>>)
          \/ Converted(v, op.to) = TruthOf(v)
          \/ Converted(v, op.to) = Returns(v)
          \/ Converted(v, op.to) = Raises("OPERATOR_FAILED")
          \/ Converted(v, op.to) = Raises("CAST_FAILED")
          \/ Converted(v, op.to) = Returns(n)
        BY DEF Converted
    <2> HIDE DEF n
    <2> QED BY <1>1, <1>2, <2>1, ReturnsRuns
<1>4. Cast(v, op) \in {Returns(Null), Converted(v, op.to)} BY DEF Cast
<1> QED BY <1>3, <1>4, ReturnsRuns

LEMMA UnitConvertRuns == \A v, from, to : Runs(UnitConvert(v, from, to))
<1> SUFFICES ASSUME NEW v, NEW from, NEW to PROVE Runs(UnitConvert(v, from, to)) OBVIOUS
<1>1. Runs(Raises("OPERATOR_FAILED")) BY RaisesRuns
<1>2. \/ UnitConvert(v, from, to) = Raises("OPERATOR_FAILED")
      \/ \E w : UnitConvert(v, from, to) = Returns(w)
    BY DEF UnitConvert
<1> QED BY <1>1, <1>2, ReturnsRuns

LEMMA MapValuesRuns == \A v, op : Runs(MapValues(v, op))
<1> SUFFICES ASSUME NEW v, NEW op PROVE Runs(MapValues(v, op)) OBVIOUS
<1>1. Runs(Raises("OPERATOR_FAILED")) BY RaisesRuns
<1>2. \/ MapValues(v, op) = Raises("OPERATOR_FAILED")
      \/ \E w : MapValues(v, op) = Returns(w)
    BY DEF MapValues
<1> QED BY <1>1, <1>2, ReturnsRuns

LEMMA ParseDatetimeRuns == \A v, format : Runs(ParseDatetime(v, format))
<1> SUFFICES ASSUME NEW v, NEW format PROVE Runs(ParseDatetime(v, format)) OBVIOUS
<1>1. Runs(Raises("DATETIME_PARSE_FAILED")) BY RaisesRuns
<1>2. \/ ParseDatetime(v, format) = Raises("DATETIME_PARSE_FAILED")
      \/ \E w : ParseDatetime(v, format) = Returns(w)
    BY DEF ParseDatetime
<1> QED BY <1>1, <1>2, ReturnsRuns

LEMMA RegexExtractRuns == \A v, pattern : Runs(RegexExtract(v, pattern))
<1> SUFFICES ASSUME NEW v, NEW pattern PROVE Runs(RegexExtract(v, pattern)) OBVIOUS
<1>1. Runs(Raises("REGEX_EXTRACTOR_NOT_CONFIGURED")) /\ Runs(Raises("OPERATOR_FAILED")) BY RaisesRuns
<1>2. \/ RegexExtract(v, pattern) = Raises("REGEX_EXTRACTOR_NOT_CONFIGURED")
      \/ RegexExtract(v, pattern) = Raises("OPERATOR_FAILED")
      \/ \E w : RegexExtract(v, pattern) = Returns(w)
    BY DEF RegexExtract
<1> QED BY <1>1, <1>2, ReturnsRuns

Combining == {"coalesce", "concat", "hash"}

Operators == {"cast", "parse_datetime", "default", "coalesce", "unit_convert", "map_values", "trim",
              "lower", "upper", "regex_extract", "concat", "hash", "json_passthrough"}

LEMMA OperatorNames == DOMAIN OPERATOR_SPECS = Operators
BY DEF OPERATOR_SPECS, Operators

\* An operator without errors is known, has its parameters, and reads paths that are
\* supported, unless it has a null for its paths
LEMMA AcceptedOperator ==
    ASSUME NEW op, NEW prefix, NEW entity, OperatorErrors(op, prefix, entity) = {}
    PROVE  /\ op.op \in Operators
           /\ OPERATOR_SPECS[op.op].required \subseteq DOMAIN op
           /\ ReadParameters(op) \subseteq DOMAIN op
           /\ op.op \in Combining /\ op.sources # NullParameter =>
                 /\ WellShaped(op, "sources")
                 /\ \A path \in Range(op.sources) : SourcePath(path, prefix) # Unsupported
           /\ op.op = "hash" => op.algorithm \in {"sha256", NullParameter}
<1>1. op.op \in Operators
    BY OperatorNames DEF OperatorErrors
<1>2. ParameterErrors(op, entity) = {} BY <1>1, OperatorNames DEF OperatorErrors
<1> DEFINE wrong == Refused(op) \cup (OPERATOR_SPECS[op.op].required \ DOMAIN op)
              \cup (DOMAIN op \ ({"op"} \cup OPERATOR_SPECS[op.op].required
                                 \cup OPERATOR_SPECS[op.op].optional))
<1>3. ParameterErrors(op, entity) = {ValidationError("INVALID_OPERATOR_PARAM", entity, p) : p \in wrong}
    BY DEF ParameterErrors
<1> HIDE DEF wrong
<1>4. wrong = {} BY <1>2, <1>3
<1>5. Refused(op) = {} /\ OPERATOR_SPECS[op.op].required \subseteq DOMAIN op BY <1>4 DEF wrong
<1>6. ReadParameters(op) \subseteq DOMAIN op BY <1>5 DEF ReadParameters
<1>7. ASSUME op.op \in Combining, op.sources # NullParameter
      PROVE  /\ WellShaped(op, "sources")
             /\ \A path \in Range(op.sources) : SourcePath(path, prefix) # Unsupported
    <2>1. "sources" \in OPERATOR_SPECS[op.op].required
        BY <1>7 DEF Combining, OPERATOR_SPECS, Parameters
    <2>2. "sources" \in DOMAIN op BY <1>5, <2>1
    <2>3. WellShaped(op, "sources")
        <3>1. NotNull(op, "sources") BY <1>7, <2>2 DEF NotNull, Has
        <3>2. op["sources"] # Malformed BY <1>5, <3>1 DEF Refused, SHAPED
        <3> QED BY <3>1, <3>2 DEF WellShaped
    <2>4. UNION {PathErrors(path, prefix, entity, "sources") : path \in Range(op.sources)} = {}
        BY <1>1, <2>2, <2>3, OperatorNames DEF OperatorErrors
    <2>5. ASSUME NEW path \in Range(op.sources) PROVE SourcePath(path, prefix) # Unsupported
        <3>1. PathErrors(path, prefix, entity, "sources") = {} BY <2>4, <2>5
        <3> QED BY <3>1 DEF PathErrors
    <2> QED BY <2>3, <2>5
<1>8. ASSUME op.op = "hash" PROVE op.algorithm \in {"sha256", NullParameter}
    <2>1. "algorithm" \in DOMAIN op BY <1>5, <1>8 DEF OPERATOR_SPECS, Parameters
    <2>2. BadChoices(op) = {} BY <1>5 DEF Refused
    <2>3. ASSUME NotNull(op, "algorithm") PROVE op["algorithm"] = "sha256"
        BY <1>8, <2>2, <2>3 DEF BadChoices, CHOICES
    <2> QED BY <2>1, <2>3 DEF NotNull, Has
<1> QED BY <1>1, <1>5, <1>6, <1>7, <1>8

\* It has no parameter but those of its kind
LEMMA KnownParameters ==
    ASSUME NEW op, NEW prefix, NEW entity, OperatorErrors(op, prefix, entity) = {}
    PROVE  \A p \in DOMAIN op \ {"op"} :
              p \in OPERATOR_SPECS[op.op].required \cup OPERATOR_SPECS[op.op].optional
<1>1. op.op \in DOMAIN OPERATOR_SPECS BY DEF OperatorErrors
<1>2. ParameterErrors(op, entity) = {} BY <1>1 DEF OperatorErrors
<1> DEFINE unexpected == DOMAIN op \ ({"op"} \cup OPERATOR_SPECS[op.op].required
                                       \cup OPERATOR_SPECS[op.op].optional)
<1> DEFINE wrong == Refused(op) \cup (OPERATOR_SPECS[op.op].required \ DOMAIN op) \cup unexpected
<1>3. ParameterErrors(op, entity) = {ValidationError("INVALID_OPERATOR_PARAM", entity, p) : p \in wrong}
    BY DEF ParameterErrors
<1> HIDE DEF wrong
<1>4. wrong = {} BY <1>2, <1>3
<1>5. unexpected = {} BY <1>4 DEF wrong
<1> QED BY <1>5

\* The operators that have sources, a table or an algorithm
LEMMA SpecOf ==
    ASSUME NEW name \in Operators
    PROVE  LET known == OPERATOR_SPECS[name].required \cup OPERATOR_SPECS[name].optional
           IN /\ "table" \in known => name = "map_values"
              /\ "sources" \in known => name \in Combining
              /\ "algorithm" \in known => name = "hash"
BY DEF Operators, Combining, OPERATOR_SPECS, Parameters

LEMMA FromSourcesRuns ==
    ASSUME NEW op, NEW row, NEW prefix, op.op \in Combining,
           op.sources # NullParameter =>
              \A path \in Range(op.sources) : SourcePath(path, prefix) # Unsupported
    PROVE  Runs(FromSources(op, row, prefix))
<1> DEFINE found == Found(op.sources, row, prefix)
<1>1. \/ FromSources(op, row, prefix) = Raises("OPERATOR_FAILED")
      \/ FromSources(op, row, prefix) = Combined(op, found, row, prefix)
    BY DEF FromSources
<1> HIDE DEF found
<1>2. \/ Combined(op, found, row, prefix) = Raises("OPERATOR_FAILED")
      \/ \E w : Combined(op, found, row, prefix) = Returns(w)
    BY DEF Combined, Combining
<1>3. Runs(Raises("OPERATOR_FAILED")) BY RaisesRuns
<1> QED BY <1>1, <1>2, <1>3, ReturnsRuns

LEMMA OperatorRuns ==
    ASSUME NEW op, NEW v, NEW row, NEW prefix, NEW entity, OperatorErrors(op, prefix, entity) = {}
    PROVE  Runs(ApplyOperator(op, v, row, prefix))
<1>1. /\ op.op \in Operators /\ ReadParameters(op) \subseteq DOMAIN op
      /\ op.op \in Combining /\ op.sources # NullParameter =>
            \A path \in Range(op.sources) : SourcePath(path, prefix) # Unsupported
    BY AcceptedOperator
<1>2. CASE op.op = "cast" BY <1>1, <1>2, OperatorNames, CastRuns DEF ApplyOperator
<1>3. CASE op.op = "default" BY <1>1, <1>3, OperatorNames, ReturnsRuns DEF ApplyOperator
<1>4. CASE op.op \in {"trim", "lower", "upper"} BY <1>1, <1>4, OperatorNames, ReturnsRuns DEF ApplyOperator
<1>5. CASE op.op = "unit_convert" BY <1>1, <1>5, OperatorNames, UnitConvertRuns DEF ApplyOperator
<1>6. CASE op.op = "map_values" BY <1>1, <1>6, OperatorNames, MapValuesRuns DEF ApplyOperator
<1>7. CASE op.op = "json_passthrough" BY <1>1, <1>7, OperatorNames, ReturnsRuns DEF ApplyOperator
<1>8. CASE op.op = "parse_datetime" BY <1>1, <1>8, OperatorNames, ParseDatetimeRuns DEF ApplyOperator
<1>9. CASE op.op = "regex_extract" BY <1>1, <1>9, OperatorNames, RegexExtractRuns DEF ApplyOperator
<1>10. CASE op.op \in Combining BY <1>1, <1>10, OperatorNames, FromSourcesRuns DEF ApplyOperator, Combining
<1> QED BY <1>1, <1>2, <1>3, <1>4, <1>5, <1>6, <1>7, <1>8, <1>9, <1>10 DEF Operators, Combining

\* Sources at which nothing is found
LEMMA NothingIsFound ==
    ASSUME NEW sources, IsSequence(sources), NEW row, NEW prefix,
           \A path \in Range(sources) : Lookup(path, row, prefix) = Null
    PROVE  Found(sources, row, prefix) = <<>>
<1> DEFINE values == [i \in 1 .. Len(sources) |-> Lookup(sources[i], row, prefix)]
<1> DEFINE places == {i \in 1 .. Len(sources) : values[i] # Null}
<1>1. Found(sources, row, prefix) = Picked(values, places) BY DEF Found
<1>2. Len(sources) \in Nat /\ \A i \in 1 .. Len(sources) : sources[i] \in Range(sources)
    BY LenProperties, ElementOfSeq DEF IsSequence
<1>3. \A i \in 1 .. Len(sources) : values[i] = Null BY <1>2
<1>4. values \in Seq({Null}) BY <1>2, <1>3
<1>5. places = {} BY <1>3
<1> HIDE DEF values, places
<1> DEFINE t == Picked(values, places)
<1>6. t \in Seq({Null}) /\ \A x \in Range(t) : FALSE BY <1>4, <1>5, PickedType
<1> HIDE DEF t
<1>7. t = <<>>
    <2> SUFFICES ASSUME t # <<>> PROVE FALSE OBVIOUS
    <2>1. Len(t) \in Nat \ {0} /\ DOMAIN t = 1 .. Len(t) BY <1>6, EmptySeq, LenProperties
    <2>2. t[1] \in Range(t) BY <2>1 DEF Range
    <2> QED BY <1>6, <2>2
<1> QED BY <1>1, <1>7 DEF t

\* An operator that was given nothing, that can run and that answers nothing, returns nothing
LEMMA NothingStaysNothing ==
    ASSUME NEW op, NEW row, NEW prefix, NEW entity, OperatorErrors(op, prefix, entity) = {},
           ~Answers(op), ~RunsOverNull(op),
           WellShaped(op, "sources") => IsSequence(op.sources),
           NotNull(op, "sources") => \A path \in Range(op.sources) : Lookup(path, row, prefix) = Null
    PROVE  ApplyOperator(op, Null, row, prefix) = Returns(Null)
<1>1. /\ op.op \in Operators /\ ReadParameters(op) \subseteq DOMAIN op
      /\ OPERATOR_SPECS[op.op].required \subseteq DOMAIN op
      /\ op.op = "hash" => op.algorithm \in {"sha256", NullParameter}
      /\ op.op \in Combining /\ op.sources # NullParameter =>
            /\ WellShaped(op, "sources")
            /\ \A path \in Range(op.sources) : SourcePath(path, prefix) # Unsupported
    BY AcceptedOperator
<1>2. CASE op.op = "cast"
    <2>1. Cast(Null, op) = Returns(Null) BY DEF Cast
    <2> QED BY <1>1, <1>2, <2>1, OperatorNames DEF ApplyOperator
<1>3. CASE op.op = "default"
    <2>1. op.value = Null BY <1>3 DEF Answers
    <2> QED BY <1>1, <1>3, <2>1, OperatorNames DEF ApplyOperator
<1>4. CASE op.op \in {"trim", "lower", "upper"} BY <1>1, <1>4, OperatorNames DEF ApplyOperator
<1>5. CASE op.op = "unit_convert"
    <2>1. UnitConvert(Null, op.from, op.to) = Returns(Null) BY DEF UnitConvert
    <2> QED BY <1>1, <1>5, <2>1, OperatorNames DEF ApplyOperator
<1>6. CASE op.op = "map_values"
    <2>1. MapValues(Null, op) = Returns(Null) BY <1>6 DEF Answers
    <2> QED BY <1>1, <1>6, <2>1, OperatorNames DEF ApplyOperator
<1>7. CASE op.op = "json_passthrough" BY <1>1, <1>7, OperatorNames DEF ApplyOperator
<1>8. CASE op.op = "parse_datetime"
    <2>1. ParseDatetime(Null, op.format) = Returns(Null) BY DEF ParseDatetime
    <2> QED BY <1>1, <1>8, <2>1, OperatorNames DEF ApplyOperator
<1>9. CASE op.op = "regex_extract"
    <2>1. RegexExtract(Null, op.pattern) = Returns(Null) BY DEF RegexExtract
    <2> QED BY <1>1, <1>9, <2>1, OperatorNames DEF ApplyOperator
<1>10. CASE op.op \in Combining
    <2>a. op.sources # NullParameter
        <3>1. "sources" \in OPERATOR_SPECS[op.op].required
            BY <1>10 DEF Combining, OPERATOR_SPECS, Parameters
        <3>2. Has(op, "sources") BY <1>1, <3>1 DEF Has
        <3> QED BY <3>2 DEF RunsOverNull
    <2>b. op.op = "hash" /\ Has(op, "algorithm") => op.algorithm = "sha256" BY <1>1 DEF RunsOverNull
    <2>c. WellShaped(op, "sources") /\ NotNull(op, "sources") BY <1>1, <1>10, <2>a DEF WellShaped
    <2>1. Found(op.sources, row, prefix) = <<>> BY <2>c, NothingIsFound
    <2>2. FromSources(op, row, prefix) = Combined(op, <<>>, row, prefix)
        BY <1>1, <1>10, <2>1, <2>a, <2>b DEF FromSources
    <2>3. Combined(op, <<>>, row, prefix) = Returns(Null) BY DEF Combined
    <2> QED BY <1>1, <1>10, <2>2, <2>3, OperatorNames DEF ApplyOperator, Combining
<1> QED BY <1>1, <1>2, <1>3, <1>4, <1>5, <1>6, <1>7, <1>8, <1>9, <1>10 DEF Operators, Combining

\* An operator of an accepted mapping that has a null for what it runs through fails
LEMMA NullFails ==
    ASSUME NEW op, NEW v, NEW row, NEW prefix, NEW entity, OperatorErrors(op, prefix, entity) = {},
           RunsOverNull(op)
    PROVE  ApplyOperator(op, v, row, prefix) = Raises("OPERATOR_FAILED")
<1>1. op.op \in Operators /\ ReadParameters(op) \subseteq DOMAIN op BY AcceptedOperator
<1>2. PICK p \in {"sources", "table", "algorithm"} : p \in DOMAIN op /\ op[p] = NullParameter
    BY DEF RunsOverNull, Has
<1>3. p \in OPERATOR_SPECS[op.op].required \cup OPERATOR_SPECS[op.op].optional BY <1>2, KnownParameters
<1>4. CASE p = "table"
    <2>1. op.op = "map_values" BY <1>1, <1>3, <1>4, SpecOf
    <2>2. MapValues(v, op) = Raises("OPERATOR_FAILED") BY <1>2, <1>4 DEF MapValues, Has
    <2> QED BY <1>1, <2>1, <2>2, OperatorNames DEF ApplyOperator
<1>5. CASE p # "table"
    <2>1. op.op \in Combining /\ (p = "algorithm" => op.op = "hash")
        BY <1>1, <1>2, <1>3, <1>5, SpecOf DEF Combining
    <2>a. NullParameter # "sha256"
        <3>1. /\ "hash" \in DOMAIN CHOICES /\ "algorithm" \in DOMAIN CHOICES["hash"]
              /\ CHOICES["hash"]["algorithm"] = {"sha256"}
            BY DEF CHOICES
        <3>2. NullParameter \notin CHOICES["hash"]["algorithm"] BY <3>1, ParametersAssumption
        <3> QED BY <3>1, <3>2
    <2>2. p = "algorithm" => Has(op, "algorithm") /\ op.algorithm # "sha256"
        BY <1>2, <2>a DEF Has
    <2>3. p = "sources" => op.sources = NullParameter BY <1>2
    <2>4. FromSources(op, row, prefix) = Raises("OPERATOR_FAILED")
        BY <1>2, <1>5, <2>1, <2>2, <2>3 DEF FromSources
    <2> QED BY <1>1, <2>1, <2>4, OperatorNames DEF ApplyOperator, Combining
<1> QED BY <1>4, <1>5

--------------------------------------------------------------------------------
(* The fields and the rows of an accepted mapping *)

\* g holds what each prefix of the operators of a rule makes of a row
Passes(g, rule, row, prefix) ==
    g = [n \in 0 .. Len(rule.operators) |->
            IF n = 0 THEN Returns(Lookup(rule.source, row, prefix))
            ELSE IF g[n - 1].code # "none" THEN g[n - 1]
            ELSE ApplyOperator(rule.operators[n], g[n - 1].value, row, prefix)]

LEMMA ApplyFieldIsChosen ==
    ASSUME NEW rule, NEW row, NEW prefix, SourcePath(rule.source, prefix) # Unsupported
    PROVE  ApplyField(rule, row, prefix)
             = (CHOOSE g : Passes(g, rule, row, prefix))[Len(rule.operators)]
BY DEF ApplyField, Passes

LEMMA PassesExist ==
    ASSUME NEW rule, NEW row, NEW prefix, Len(rule.operators) \in Nat
    PROVE  \E g : Passes(g, rule, row, prefix)
<1> DEFINE count == Len(rule.operators)
<1> DEFINE First == Returns(Lookup(rule.source, row, prefix))
<1> DEFINE After(x, op) == IF x.code # "none" THEN x ELSE ApplyOperator(op, x.value, row, prefix)
<1> DEFINE UpTo(g, n) == \A i \in 0 .. count : i <= n =>
                            g[i] = IF i = 0 THEN First ELSE After(g[i - 1], rule.operators[i])
<1> DEFINE P == {n \in Nat : \E g : UpTo(g, n)}
<1>0. count \in Nat OBVIOUS
<1>d. /\ First = Returns(Lookup(rule.source, row, prefix))
      /\ count = Len(rule.operators)
      /\ \A x, op : After(x, op) = IF x.code # "none" THEN x ELSE ApplyOperator(op, x.value, row, prefix)
    OBVIOUS
<1> HIDE DEF First, After, count
<1>1. 0 \in P
    <2>1. UpTo([i \in 0 .. count |-> First], 0) BY <1>0
    <2> QED BY <2>1
<1>2. ASSUME NEW n \in P PROVE n + 1 \in P
    <2>1. PICK g : UpTo(g, n) OBVIOUS
    <2> DEFINE h == [i \in 0 .. count |-> IF i = 0 THEN First ELSE After(g[i - 1], rule.operators[i])]
    <2>2. ASSUME NEW i \in 0 .. count, i <= n + 1, i # 0 PROVE h[i - 1] = g[i - 1]
        <3>1. i - 1 \in 0 .. count /\ i - 1 <= n BY <1>0, <2>2
        <3> QED BY <2>1, <3>1
    <2>3. UpTo(h, n + 1) BY <2>2
    <2> HIDE DEF UpTo
    <2> QED BY <2>3
<1> HIDE DEF P
<1>3. P = Nat
    <2>1. P \in SUBSET Nat BY DEF P
    <2> QED BY <1>1, <1>2, <2>1, NatInduct
<1>4. PICK g : UpTo(g, count) BY <1>0, <1>3 DEF P
<1> DEFINE h == [i \in 0 .. count |-> IF i = 0 THEN First ELSE After(g[i - 1], rule.operators[i])]
<1>5. \A i \in 0 .. count : h[i] = g[i] BY <1>0, <1>4
<1>6. \A i \in 0 .. count : i # 0 => i - 1 \in 0 .. count BY <1>0
<1>7. h = [i \in 0 .. count |-> IF i = 0 THEN First ELSE After(h[i - 1], rule.operators[i])]
    BY <1>5, <1>6
<1> HIDE DEF h
<1>8. Passes(h, rule, row, prefix) BY <1>7 DEF Passes, First, After, count
<1> QED BY <1>8

LEMMA AcceptedRule ==
    ASSUME NEW rule, NEW prefix, NEW entity, FieldErrors(rule, prefix, entity) = {}
    PROVE  /\ SourcePath(rule.source, prefix) # Unsupported
           /\ \A op \in Range(rule.operators) : OperatorErrors(op, prefix, entity) = {}
<1>1. PathErrors(rule.source, prefix, entity, rule.target) = {} BY DEF FieldErrors
<1>2. UNION {OperatorErrors(op, prefix, entity) : op \in Range(rule.operators)} = {} BY DEF FieldErrors
<1> QED BY <1>1, <1>2 DEF PathErrors

\* No operator of an accepted rule refuses a path
LEMMA FieldRuns ==
    ASSUME NEW rule, NEW row, NEW prefix, NEW entity, FieldErrors(rule, prefix, entity) = {},
           IsSequence(rule.operators)
    PROVE  Runs(ApplyField(rule, row, prefix))
<1>1. /\ Len(rule.operators) \in Nat
      /\ \A i \in 1 .. Len(rule.operators) : rule.operators[i] \in Range(rule.operators)
    BY LenProperties, ElementOfSeq DEF IsSequence
<1>a. SourcePath(rule.source, prefix) # Unsupported BY AcceptedRule
<1>b. \E g : Passes(g, rule, row, prefix) BY <1>1, PassesExist
<1>c. ApplyField(rule, row, prefix)
        = (CHOOSE g : Passes(g, rule, row, prefix))[Len(rule.operators)]
    BY <1>a, ApplyFieldIsChosen
<1>2. PICK g : /\ Passes(g, rule, row, prefix)
               /\ ApplyField(rule, row, prefix) = g[Len(rule.operators)]
    BY <1>b, <1>c
<1> DEFINE P == {n \in Nat : n <= Len(rule.operators) => Runs(g[n])}
<1>3. 0 \in P BY <1>1, <1>2, ReturnsRuns DEF Passes
<1>4. ASSUME NEW n \in P PROVE n + 1 \in P
    <2> SUFFICES ASSUME n + 1 <= Len(rule.operators) PROVE Runs(g[n + 1]) OBVIOUS
    <2>1. /\ n + 1 \in 0 .. Len(rule.operators) /\ n + 1 # 0 /\ (n + 1) - 1 = n
          /\ n <= Len(rule.operators) /\ n + 1 \in 1 .. Len(rule.operators)
        BY SMTT(30), <1>1
    <2>2. g[n + 1] \in {g[n], ApplyOperator(rule.operators[n + 1], g[n].value, row, prefix)}
        BY <1>2, <2>1 DEF Passes
    <2>3. OperatorErrors(rule.operators[n + 1], prefix, entity) = {} BY <1>1, <2>1, AcceptedRule
    <2> QED BY <2>1, <2>2, <2>3, OperatorRuns
<1> HIDE DEF P
<1>5. P = Nat
    <2>1. P \in SUBSET Nat BY DEF P
    <2> QED BY <1>3, <1>4, <2>1, NatInduct
<1>6. Len(rule.operators) \in P /\ Len(rule.operators) <= Len(rule.operators) BY <1>1, <1>5
<1> QED BY <1>2, <1>6 DEF P

\* What comes of nothing after n operators: the failure of one that is broken, or nothing
FailedWithin(rule, n) == \E i \in 1 .. n : RunsOverNull(rule.operators[i])

Comes(outcome, failed) ==
    outcome = IF failed THEN Raises("OPERATOR_FAILED") ELSE Returns(Null)

\* Nothing stays nothing, whatever the operators of an accepted rule that answers nothing,
\* until one of them is broken
LEMMA NothingComesOut ==
    ASSUME NEW rule, NEW row, NEW prefix, NEW entity, FieldErrors(rule, prefix, entity) = {},
           IsSequence(rule.operators),
           \A op \in Range(rule.operators) :
              WellShaped(op, "sources") => IsSequence(op.sources),
           FindsNothing(rule, row, prefix), \A op \in Range(rule.operators) : ~Answers(op)
    PROVE  Comes(ApplyField(rule, row, prefix), \E op \in Range(rule.operators) : RunsOverNull(op))
<1>1. /\ Len(rule.operators) \in Nat
      /\ DOMAIN rule.operators = 1 .. Len(rule.operators)
      /\ \A i \in 1 .. Len(rule.operators) : rule.operators[i] \in Range(rule.operators)
    BY LenProperties, ElementOfSeq DEF IsSequence
<1>a. SourcePath(rule.source, prefix) # Unsupported BY AcceptedRule
<1>b. \E g : Passes(g, rule, row, prefix) BY <1>1, PassesExist
<1>c. ApplyField(rule, row, prefix)
        = (CHOOSE g : Passes(g, rule, row, prefix))[Len(rule.operators)]
    BY <1>a, ApplyFieldIsChosen
<1>2. PICK g : /\ Passes(g, rule, row, prefix)
               /\ ApplyField(rule, row, prefix) = g[Len(rule.operators)]
    BY <1>b, <1>c
<1> DEFINE P == {n \in Nat : n <= Len(rule.operators) => Comes(g[n], FailedWithin(rule, n))}
<1>3. 0 \in P
    <2>1. ~FailedWithin(rule, 0) BY DEF FailedWithin
    <2>2. g[0] = Returns(Null) BY <1>1, <1>2 DEF Passes, FindsNothing
    <2> QED BY <2>1, <2>2 DEF Comes
<1>4. ASSUME NEW n \in P PROVE n + 1 \in P
    <2> SUFFICES ASSUME n + 1 <= Len(rule.operators)
                 PROVE  Comes(g[n + 1], FailedWithin(rule, n + 1))
        OBVIOUS
    <2>1. /\ n + 1 \in 0 .. Len(rule.operators) /\ n + 1 # 0 /\ (n + 1) - 1 = n
          /\ n <= Len(rule.operators) /\ n + 1 \in 1 .. Len(rule.operators)
        BY <1>1
    <2> DEFINE op == rule.operators[n + 1]
    <2>2. op \in Range(rule.operators) BY <1>1, <2>1
    <2>3. FailedWithin(rule, n + 1) <=> FailedWithin(rule, n) \/ RunsOverNull(op)
        <3>1. \A i : i \in 1 .. n + 1 <=> i \in 1 .. n \/ i = n + 1 BY <2>1
        <3> QED BY <3>1 DEF FailedWithin
    <2> HIDE DEF op
    <2>4. g[n + 1] = IF g[n].code # "none" THEN g[n] ELSE ApplyOperator(op, g[n].value, row, prefix)
        BY <1>2, <2>1 DEF Passes, op
    <2>5. Comes(g[n], FailedWithin(rule, n)) BY <2>1
    <2>6. OperatorErrors(op, prefix, entity) = {} BY <2>2, AcceptedRule
    <2>7. CASE FailedWithin(rule, n)
        <3>1. g[n] = Raises("OPERATOR_FAILED") BY <2>5, <2>7 DEF Comes
        <3>2. g[n].code # "none" BY <3>1 DEF Raises, Outcome
        <3> QED BY <2>3, <2>4, <2>7, <3>1, <3>2 DEF Comes
    <2>8. CASE ~FailedWithin(rule, n)
        <3>1. g[n] = Returns(Null) BY <2>5, <2>8 DEF Comes
        <3>2. g[n].code = "none" /\ g[n].value = Null BY <3>1 DEF Returns, Outcome
        <3>3. g[n + 1] = ApplyOperator(op, Null, row, prefix) BY <2>4, <3>2
        <3>4. CASE RunsOverNull(op)
            <4>1. ApplyOperator(op, Null, row, prefix) = Raises("OPERATOR_FAILED") BY <2>6, <3>4, NullFails
            <4> QED BY <2>3, <3>3, <3>4, <4>1 DEF Comes
        <3>5. CASE ~RunsOverNull(op)
            <4>1. NotNull(op, "sources") => \A path \in Range(op.sources) : Lookup(path, row, prefix) = Null
                BY <2>2 DEF FindsNothing
            <4>2. ApplyOperator(op, Null, row, prefix) = Returns(Null)
                BY <2>2, <2>6, <3>5, <4>1, NothingStaysNothing
            <4> QED BY <2>3, <2>8, <3>3, <3>5, <4>2 DEF Comes
        <3> QED BY <3>4, <3>5
    <2> QED BY <2>7, <2>8
<1> HIDE DEF P
<1>5. P = Nat
    <2>1. P \in SUBSET Nat BY DEF P
    <2> QED BY <1>3, <1>4, <2>1, NatInduct
<1>6. Len(rule.operators) \in P /\ Len(rule.operators) <= Len(rule.operators) BY <1>1, <1>5
<1>7. Comes(g[Len(rule.operators)], FailedWithin(rule, Len(rule.operators))) BY <1>6 DEF P
<1>8. FailedWithin(rule, Len(rule.operators)) <=> \E op \in Range(rule.operators) : RunsOverNull(op)
    BY <1>1 DEF FailedWithin, Range
<1> QED BY <1>2, <1>7, <1>8 DEF Comes

\* What an accepted rule makes of a row: an issue that is not about a path, nothing,
\* or a value of the type of its field
Typed(outcome, target) ==
    \/ \E severity, code : outcome = Issue(severity, code) /\ code # "MAPPING_UNSUPPORTED_PATH"
    \/ outcome = Returns(Null)
    \/ \E v : outcome = Returns(v) /\ v # Null /\ v[1] = FieldType(target)

LEMMA CoercedIsTyped ==
    ASSUME NEW target, NEW v, v # Null
    PROVE  \/ Coerce(target, v) = Mismatch
           \/ \E w : Coerce(target, v) = Returns(w) /\ w # Null /\ w[1] = FieldType(target)
<1>1. \A x : <<"text", x>> # Null /\ <<"int", x>> # Null BY DEF Null
<1>2. \A x : <<"text", x>>[1] = "text" /\ <<"int", x>>[1] = "int" OBVIOUS
<1>3. \/ v[1] = FieldType(target) /\ Coerce(target, v) = Returns(v)
      \/ FieldType(target) = "text" /\ Coerce(target, v) = Returns(<<"text", Text(v)>>)
      \/ FieldType(target) = "int" /\ Coerce(target, v) = Returns(<<"int", Round(v[2])>>)
      \/ Coerce(target, v) = Mismatch
    BY DEF Coerce
<1> QED BY <1>1, <1>2, <1>3

LEMMA FieldIsTyped ==
    ASSUME NEW rule, NEW row, NEW prefix, NEW entity, FieldErrors(rule, prefix, entity) = {},
           IsSequence(rule.operators)
    PROVE  Typed(Field(rule, row, prefix), rule.target)
<1>1. PICK v, code : /\ ApplyField(rule, row, prefix) = Outcome(v, code)
                     /\ code # "MAPPING_UNSUPPORTED_PATH"
    BY FieldRuns DEF Runs
<1> DEFINE coerced == IF v = Null THEN Outcome(v, code) ELSE Coerce(rule.target, v)
<1> DEFINE Judged(value) ==
            CASE value.code = "TYPE_MISMATCH" -> Issue("rejected", "TYPE_MISMATCH")
              [] value.code \notin {"none", "TYPE_MISMATCH"} ->
                    Issue(IF rule.required THEN "rejected" ELSE "warning", value.code)
              [] value = Returns(Null) /\ rule.required ->
                    Issue("rejected", "MISSING_REQUIRED_FIELD")
              [] OTHER -> value
<1>2. Outcome(v, code).value = v BY DEF Outcome
<1>3. Field(rule, row, prefix) = Judged(coerced) BY <1>1, <1>2 DEF Field
<1>4. \/ \E c : coerced = Outcome(Null, c) /\ c # "MAPPING_UNSUPPORTED_PATH"
      \/ \E w : coerced = Returns(w) /\ w # Null /\ w[1] = FieldType(rule.target)
    BY <1>1, CoercedIsTyped DEF Mismatch, Raises
<1> HIDE DEF coerced
<1>5. coerced = Returns(Null) \/ coerced.code # "none" => Typed(Judged(coerced), rule.target)
    <2>1. \A w, c : Outcome(w, c).code = c BY DEF Outcome
    <2>2. Returns(Null).code = "none" BY <2>1 DEF Returns
    <2>3. CASE coerced = Returns(Null)
        <3>1. Judged(coerced) \in {Issue("rejected", "MISSING_REQUIRED_FIELD"), coerced}
            BY <2>2, <2>3
        <3> HIDE DEF Judged
        <3> QED BY <2>3, <3>1 DEF Typed
    <2>4. CASE coerced.code # "none" /\ coerced # Returns(Null)
        <3>1. PICK c : coerced = Outcome(Null, c) /\ c # "MAPPING_UNSUPPORTED_PATH"
            BY <1>4, <2>1, <2>4 DEF Returns
        <3>2. coerced.code = c BY <2>1, <3>1
        <3>3. \E s : Judged(coerced) = Issue(s, c) \/ Judged(coerced) = Issue(s, "TYPE_MISMATCH")
            BY <2>4, <3>2
        <3> HIDE DEF Judged
        <3> QED BY <3>1, <3>3 DEF Typed
    <2> QED BY <2>3, <2>4
<1>6. ASSUME NEW w, coerced = Returns(w), w # Null, w[1] = FieldType(rule.target)
      PROVE  Typed(Judged(coerced), rule.target)
    <2>1. coerced.code = "none" /\ coerced.value = w BY <1>6 DEF Returns, Outcome
    <2>2. Returns(Null).value = Null BY DEF Returns, Outcome
    <2>3. coerced # Returns(Null) BY <1>6, <2>1, <2>2
    <2>4. Judged(coerced) = coerced BY <2>1, <2>3
    <2> HIDE DEF Judged
    <2> QED BY <1>6, <2>4 DEF Typed
<1>7. \A c : Outcome(Null, c).code = c BY DEF Outcome
<1>8. \A c : c = "none" => Outcome(Null, c) = Returns(Null) BY DEF Returns
<1> HIDE DEF Judged
<1> QED BY <1>3, <1>4, <1>5, <1>6, <1>7, <1>8

\* An entity that validation accepts
Accepts(entity) == EntityErrors(entity) = {}

LEMMA AcceptedEntity ==
    ASSUME NEW entity, Accepts(entity)
    PROVE  /\ entity.target \in VALID_TARGETS
           /\ entity.iterate # <<>> => IteratePath(entity.iterate) # Unsupported
           /\ \A rule \in Range(entity.fields) : FieldErrors(rule, Prefix(entity), entity) = {}
<1>1. entity.target \in VALID_TARGETS BY DEF Accepts, EntityErrors
<1>2. UNION {FieldErrors(rule, Prefix(entity), entity) : rule \in Range(entity.fields)} = {}
    BY <1>1 DEF Accepts, EntityErrors
<1>3. (IF entity.iterate # <<>> /\ IteratePath(entity.iterate) = Unsupported
       THEN {ValidationError("MAPPING_UNSUPPORTED_PATH", entity, "iterate")} ELSE {}) = {}
    BY <1>1 DEF Accepts, EntityErrors
<1> QED BY <1>1, <1>2, <1>3

\* The shape that MappingDefinition gives an entity
Shaped(entity) ==
    /\ IsSequence(entity.iterate) /\ IsSequence(entity.fields)
    /\ \A rule \in Range(entity.fields) :
          /\ IsSequence(rule.operators) /\ rule.required \in BOOLEAN
          /\ \A op \in Range(rule.operators) :
                WellShaped(op, "sources") => IsSequence(op.sources)

\* The prefix of an accepted entity that is iterated names a list
LEMMA AcceptedPrefix ==
    ASSUME NEW entity, Accepts(entity), Shaped(entity), entity.iterate # <<>>
    PROVE  Prefix(entity) # <<>>
<1>1. Prefix(entity) = IteratePath(entity.iterate) BY AcceptedEntity DEF Prefix
<1> DEFINE segments == ParsePath(entity.iterate)
<1>2. IsSequence(segments) BY ParsedIsSequence DEF Shaped
<1>3. \/ IteratePath(entity.iterate) = segments /\ segments # <<>>
      \/ IteratePath(entity.iterate) = Append(segments, Each)
    BY DEF IteratePath
<1> HIDE DEF segments
<1>4. Append(segments, Each) # <<>>
    <2> DEFINE S == Range(segments) \cup {Each}
    <2>a. segments \in Seq(S)
        <3>1. segments \in Seq(Range(segments)) /\ Range(segments) \subseteq S BY <1>2 DEF IsSequence
        <3> HIDE DEF S
        <3> QED BY <3>1, SeqMonotonic
    <2>1. Len(Append(segments, Each)) = Len(segments) + 1 /\ Len(segments) \in Nat
          /\ Append(segments, Each) \in Seq(S)
        BY <2>a, AppendProperties, LenProperties
    <2>2. Len(Append(segments, Each)) # 0 BY <2>1
    <2> QED BY <2>2, EmptySeq
<1> QED BY <1>1, <1>3, <1>4

\* A set of naturals with a bound has a greatest member
LEMMA MaxIn ==
    ASSUME NEW n \in Nat, NEW S \in SUBSET (1 .. n), S # {}
    PROVE  Max(S) \in S
<1> DEFINE T == {n - i : i \in S}
<1>1. T \in SUBSET Nat /\ T # {}
    <2>1. \A i \in S : i \in 1 .. n OBVIOUS
    <2>2. \A i \in 1 .. n : n - i \in Nat OBVIOUS
    <2>3. T \in SUBSET Nat BY <2>1, <2>2
    <2> QED BY <2>3
<1>2. PICK m \in T : \A k \in T : m <= k BY <1>1, LeastNat
<1>3. PICK i \in S : m = n - i BY <1>2
<1>4. \A j \in S : i >= j
    <2> TAKE j \in S
    <2>1. n - i <= n - j BY <1>2, <1>3
    <2>2. i \in Nat /\ j \in Nat BY SMT
    <2> QED BY <2>1, <2>2
<1> QED BY <1>3, <1>4 DEF Max

\* The values have the types of their fields
TypedData(data) == \A field \in DOMAIN data : data[field][1] = FieldType(field)

\* The fields are among those an entity has rules for
FieldsOf(data, entity) == DOMAIN data \subseteq {rule.target : rule \in Range(entity.fields)}

\* What one row of an accepted entity becomes
RowOutcome(outcome, entity) ==
    /\ outcome.rejected <=> Rejected(outcome.issues)
    /\ \A issue \in outcome.issues : issue.code # "MAPPING_UNSUPPORTED_PATH"
    /\ TypedData(outcome.data) /\ FieldsOf(outcome.data, entity)

LEMMA EntityRuns ==
    ASSUME NEW entity, Accepts(entity), Shaped(entity), NEW row
    PROVE  RowOutcome(ApplyEntity(entity, row), entity)
<1> DEFINE count == Len(entity.fields)
<1> DEFINE outcomes == [i \in 1 .. count |-> Field(entity.fields[i], row, Prefix(entity))]
<1> DEFINE raised == {o \in Range(outcomes) : IsIssue(o)}
<1> DEFINE given == {i \in 1 .. Len(outcomes) : ~IsIssue(outcomes[i]) /\ outcomes[i] # Returns(Null)}
<1> DEFINE For(target) == {i \in given : entity.fields[i].target = target}
<1> DEFINE data == [target \in {entity.fields[i].target : i \in given} |->
                        outcomes[Max(For(target))].value]
<1>1. ApplyEntity(entity, row) = [issues |-> raised, rejected |-> Rejected(raised), data |-> data]
    BY DEF ApplyEntity
<1>2. count \in Nat /\ \A i \in 1 .. count : entity.fields[i] \in Range(entity.fields)
    BY LenProperties, ElementOfSeq DEF IsSequence, Shaped
<1>3. DOMAIN outcomes = 1 .. count /\ Len(outcomes) = count BY <1>2
<1>4. \A i \in 1 .. count : Typed(outcomes[i], entity.fields[i].target)
    <2> TAKE i \in 1 .. count
    <2>1. outcomes[i] = Field(entity.fields[i], row, Prefix(entity)) OBVIOUS
    <2>2. FieldErrors(entity.fields[i], Prefix(entity), entity) = {} BY <1>2, AcceptedEntity
    <2>3. IsSequence(entity.fields[i].operators) BY <1>2 DEF Shaped
    <2> HIDE DEF outcomes
    <2> QED BY <2>1, <2>2, <2>3, FieldIsTyped
<1> HIDE DEF outcomes
<1>5. \A v, c : Outcome(v, c).value = v /\ ~IsIssue(Outcome(v, c)) BY DEF Outcome, IsIssue
<1>6. ASSUME NEW issue \in raised PROVE issue.code # "MAPPING_UNSUPPORTED_PATH"
    <2>1. PICK i \in 1 .. count : issue = outcomes[i] BY <1>3 DEF Range
    <2>2. IsIssue(issue) OBVIOUS
    <2>3. \E s, c : issue = Issue(s, c) /\ c # "MAPPING_UNSUPPORTED_PATH"
        BY <1>4, <1>5, <2>1, <2>2 DEF Typed, Returns
    <2>4. \A s, c : Issue(s, c).code = c BY DEF Issue
    <2> QED BY <2>3, <2>4
<1>7. ASSUME NEW field \in DOMAIN data
      PROVE  /\ data[field][1] = FieldType(field)
             /\ \E rule \in Range(entity.fields) : field = rule.target
    <2>1. PICK j \in given : field = entity.fields[j].target OBVIOUS
    <2>2. For(field) # {} /\ For(field) \subseteq 1 .. count BY <1>3, <2>1
    <2>3. Max(For(field)) \in For(field) BY <1>2, <2>2, MaxIn
    <2> DEFINE m == Max(For(field))
    <2>4. data[field] = outcomes[m].value OBVIOUS
    <2>5. m \in 1 .. count /\ ~IsIssue(outcomes[m]) /\ outcomes[m] # Returns(Null)
          /\ entity.fields[m].target = field
        BY <1>3, <2>3
    <2> HIDE DEF m
    <2>6. \A s, c : IsIssue(Issue(s, c)) BY DEF Issue, IsIssue
    <2>7. \E v : outcomes[m] = Returns(v) /\ v[1] = FieldType(field)
        BY <1>4, <2>5, <2>6 DEF Typed
    <2>8. outcomes[m].value[1] = FieldType(field) BY <1>5, <2>7 DEF Returns
    <2>9. j \in 1 .. count BY <1>3
    <2> QED BY <1>2, <2>1, <2>4, <2>8, <2>9
<1>b. TypedData(data) /\ FieldsOf(data, entity)
    <2> HIDE DEF data
    <2> QED BY <1>7 DEF TypedData, FieldsOf
<1> HIDE DEF raised, data
<1>8. /\ ApplyEntity(entity, row).issues = raised
      /\ ApplyEntity(entity, row).rejected = Rejected(raised)
      /\ ApplyEntity(entity, row).data = data
    BY <1>1
<1> QED BY <1>6, <1>b, <1>8 DEF RowOutcome

--------------------------------------------------------------------------------
(* What the engine makes of a record *)

LEMMA TheTargets == VALID_TARGETS = {"session", "model_call", "tool_call"}
BY DEF VALID_TARGETS, TARGET_FIELDS

RefusesRow(entity, record) ==
    \E row \in Range(RowsOf(entity, record).rows) : ApplyEntity(entity, row).rejected

\* An entry of a record is made of one of the rows its entity reaches, in its place
ComesFrom(x, entity, record) ==
    \E i \in 1 .. Len(RowsOf(entity, record).rows) :
        x = [entity |-> entity.target,
             data |-> ApplyEntity(entity, RowsOf(entity, record).rows[i]).data,
             source_index |-> i - 1]

\* Only an iterated entity can fail to reach a list
LEMMA WrongIsIterated ==
    ASSUME NEW entity, Accepts(entity), Shaped(entity), NEW record, RowsOf(entity, record).wrong
    PROVE  Prefix(entity) # <<>>
<1>1. CASE entity.iterate = <<>>
    <2>1. RowsOf(entity, record) = [rows |-> <<record>>, wrong |-> FALSE] BY <1>1 DEF RowsOf
    <2> QED BY <2>1
<1> QED BY <1>1, AcceptedPrefix

LEMMA AppliedRows ==
    ASSUME NEW entity, Accepts(entity), Shaped(entity), NEW record \in Values
    PROVE  LET a == Applied(entity, record)
               rows == RowsOf(entity, record).rows
           IN /\ a.entity = entity.target
              /\ Len(rows) \in Nat /\ a.rows = [i \in 1 .. Len(rows) |-> ApplyEntity(entity, rows[i])]
              /\ a.issues = IF ~RowsOf(entity, record).wrong THEN {}
                            ELSE {Issue("rejected", "ITERATE_NOT_A_LIST")}
<1> DEFINE reached == RowsOf(entity, record)
<1> DEFINE rows == [i \in 1 .. Len(reached.rows) |-> ApplyEntity(entity, reached.rows[i])]
<1> DEFINE raised == IF ~reached.wrong THEN {}
                ELSE {Issue("rejected", IF Prefix(entity) = <<>> THEN "MAPPING_UNSUPPORTED_PATH"
                                        ELSE "ITERATE_NOT_A_LIST")}
<1>1. Applied(entity, record) = [entity |-> entity.target, rows |-> rows, issues |-> raised]
    BY DEF Applied
<1>2. Len(reached.rows) \in Nat BY RowsOfType, LenProperties DEF Shaped
<1>3. raised = IF ~reached.wrong THEN {} ELSE {Issue("rejected", "ITERATE_NOT_A_LIST")}
    BY WrongIsIterated
<1> HIDE DEF rows, raised
<1>4. /\ Applied(entity, record).entity = entity.target /\ Applied(entity, record).rows = rows
      /\ Applied(entity, record).issues = raised
    BY <1>1
<1> HIDE DEF reached
<1> QED BY <1>2, <1>3, <1>4 DEF rows, reached

\* As many rows survive as are reached, unless one is refused
LEMMA SurvivorsKept ==
    ASSUME NEW entity, Accepts(entity), Shaped(entity), NEW record \in Values
    PROVE  LET kept == Survivors(Applied(entity, record))
               rows == RowsOf(entity, record).rows
           IN /\ IsSequence(kept)
              /\ \A x \in Range(kept) : ComesFrom(x, entity, record)
              /\ Len(kept) \in Nat /\ Len(rows) \in Nat /\ Len(kept) <= Len(rows)
              /\ Len(kept) = Len(rows) <=> ~RefusesRow(entity, record)
<1> DEFINE a == Applied(entity, record)
<1> DEFINE rows == RowsOf(entity, record).rows
<1> DEFINE Entry(i) == [entity |-> a.entity, data |-> a.rows[i].data, source_index |-> i - 1]
<1> DEFINE s == [i \in 1 .. Len(a.rows) |-> Entry(i)]
<1> DEFINE places == {i \in 1 .. Len(a.rows) : ~a.rows[i].rejected}
<1> DEFINE S == {Entry(i) : i \in 1 .. Len(a.rows)}
<1>1. /\ a.entity = entity.target /\ Len(rows) \in Nat
      /\ a.rows = [i \in 1 .. Len(rows) |-> ApplyEntity(entity, rows[i])]
    BY AppliedRows
<1> HIDE DEF a
<1>2. Survivors(a) = Picked(s, places) BY DEF Survivors
<1>3. Len(a.rows) = Len(rows) /\ \A i \in 1 .. Len(rows) : a.rows[i] = ApplyEntity(entity, rows[i])
    BY <1>1
<1>4. s \in Seq(S) /\ Len(s) = Len(rows) /\ \A i \in 1 .. Len(rows) : s[i] = Entry(i)
    <2>1. Len(a.rows) = Len(rows) /\ Len(rows) \in Nat BY <1>1, <1>3
    <2> HIDE DEF Entry, rows
    <2>2. s = [i \in 1 .. Len(rows) |-> Entry(i)] /\ S = {Entry(i) : i \in 1 .. Len(rows)} BY <2>1
    <2> HIDE DEF s, S
    <2> QED BY <2>1, <2>2
<1>5. \A i \in 1 .. Len(rows) : i \in places <=> ~ApplyEntity(entity, rows[i]).rejected BY <1>3
<1> HIDE DEF s, places, S
<1> DEFINE kept == Picked(s, places)
<1>6. /\ kept \in Seq(S) /\ Len(kept) <= Len(rows)
      /\ Len(kept) = Len(rows) <=> \A i \in 1 .. Len(rows) : i \in places
      /\ \A x \in Range(kept) : \E i \in 1 .. Len(rows) : i \in places /\ x = s[i]
    BY <1>4, PickedType
<1> HIDE DEF kept
<1>7. IsSequence(kept) /\ Len(kept) \in Nat BY <1>6, AnySequence, LenProperties
<1>8. ASSUME NEW x \in Range(kept) PROVE ComesFrom(x, entity, record)
    <2>1. PICK i \in 1 .. Len(rows) : x = s[i] BY <1>6
    <2>2. x = [entity |-> entity.target, data |-> ApplyEntity(entity, rows[i]).data,
               source_index |-> i - 1]
        BY <1>1, <1>3, <1>4, <2>1
    <2> QED BY <2>2 DEF ComesFrom
<1>9. (\A i \in 1 .. Len(rows) : i \in places) <=> ~RefusesRow(entity, record)
    <2>1. rows \in Seq(Values) BY RowsOfType DEF Shaped
    <2>2. DOMAIN rows = 1 .. Len(rows) BY <2>1, LenProperties
    <2> QED BY <1>5, <2>2 DEF RefusesRow, Range
<1> QED BY <1>1, <1>2, <1>6, <1>7, <1>8, <1>9 DEF kept, a

\* A mapping that is parsed and accepted
Valid(definition) ==
    /\ IsSequence(definition)
    /\ \A entity \in Range(definition) : Accepts(entity) /\ Shaped(entity)

LEMMA ValidMapping ==
    ASSUME NEW definition \in Mappings, Validate(definition) = {}
    PROVE  Valid(definition)
<1>1. \A entity \in Range(definition) : Accepts(entity) BY DEF Validate, Accepts
<1>2. IsSequence(definition) /\ \A entity \in Range(definition) : Shaped(entity)
    BY MappingsAssumption DEF Shaped
<1> QED BY <1>1, <1>2 DEF Valid

LEMMA ValidEntities ==
    ASSUME NEW definition, Valid(definition)
    PROVE  /\ Len(definition) \in Nat /\ DOMAIN definition = 1 .. Len(definition)
           /\ \A e \in 1 .. Len(definition) :
                 /\ definition[e] \in Range(definition)
                 /\ Accepts(definition[e]) /\ Shaped(definition[e])
                 /\ definition[e].target \in {"session", "model_call", "tool_call"}
BY LenProperties, ElementOfSeq, AcceptedEntity, TheTargets DEF Valid, IsSequence

\* The rows of a kind that a mapping reaches in a record
HeldBy(definition, kind, record) ==
    Len(FlattenSeq([e \in 1 .. Len(definition) |->
        IF definition[e].target = kind THEN RowsOf(definition[e], record).rows ELSE <<>>]))

LEMMA ApplyParts ==
    ASSUME NEW definition, Valid(definition), NEW record
    PROVE  /\ Apply(definition, record).results
                = FlattenSeq([e \in 1 .. Len(definition) |-> Survivors(Applied(definition[e], record))])
           /\ Apply(definition, record).issues
                = UNION {Applied(definition[e], record).issues
                         \cup UNION {row.issues : row \in Range(Applied(definition[e], record).rows)} :
                            e \in 1 .. Len(definition)}
<1> DEFINE applied == [e \in 1 .. Len(definition) |-> Applied(definition[e], record)]
<1> DEFINE Raised(a) == a.issues \cup UNION {row.issues : row \in Range(a.rows)}
<1>1. Apply(definition, record)
        = [results |-> FlattenSeq([e \in 1 .. Len(applied) |-> Survivors(applied[e])]),
           issues |-> UNION {Raised(a) : a \in Range(applied)}]
    BY DEF Apply
<1>2. Len(definition) \in Nat BY ValidEntities
<1>3. Len(applied) = Len(definition) /\ DOMAIN applied = 1 .. Len(definition) BY <1>2
<1>4. \A e \in 1 .. Len(definition) : applied[e] = Applied(definition[e], record) OBVIOUS
<1>5. Range(applied) = {Applied(definition[e], record) : e \in 1 .. Len(definition)} BY DEF Range
<1>6. [e \in 1 .. Len(applied) |-> Survivors(applied[e])]
        = [e \in 1 .. Len(definition) |-> Survivors(Applied(definition[e], record))]
    BY <1>3, <1>4
<1> HIDE DEF Raised
<1> DEFINE results == FlattenSeq([e \in 1 .. Len(applied) |-> Survivors(applied[e])])
<1> DEFINE raised == UNION {Raised(a) : a \in Range(applied)}
<1> HIDE DEF applied
<1>7. UNION {Raised(a) : a \in Range(applied)}
        = UNION {Raised(Applied(definition[e], record)) : e \in 1 .. Len(definition)}
    BY <1>5
<1>8. Apply(definition, record) = [results |-> results, issues |-> raised] BY <1>1
<1> HIDE DEF results, raised
<1>9. Apply(definition, record).results = results /\ Apply(definition, record).issues = raised BY <1>8
<1> QED BY <1>6, <1>7, <1>9 DEF Raised, results, raised

\* The survivors of every entity
Kept(definition, record) ==
    [e \in 1 .. Len(definition) |-> Survivors(Applied(definition[e], record))]

LEMMA KeptType ==
    ASSUME NEW definition, Valid(definition), NEW record \in Values
    PROVE  /\ \E R : Kept(definition, record) \in Seq(Seq(R))
           /\ Len(definition) \in Nat /\ Len(Kept(definition, record)) = Len(definition)
           /\ \A e \in 1 .. Len(definition) :
                 LET kept == Kept(definition, record)[e]
                     rows == RowsOf(definition[e], record).rows
                 IN /\ IsSequence(kept)
                    /\ \A x \in Range(kept) : ComesFrom(x, definition[e], record)
                    /\ Len(kept) \in Nat /\ Len(rows) \in Nat /\ Len(kept) <= Len(rows)
                    /\ Len(kept) = Len(rows) <=> ~RefusesRow(definition[e], record)
<1> DEFINE ss == Kept(definition, record)
<1> DEFINE R == UNION {Range(ss[e]) : e \in 1 .. Len(definition)}
<1>1. Len(definition) \in Nat BY ValidEntities
<1>2. /\ ss = [e \in 1 .. Len(definition) |-> ss[e]] /\ Len(ss) = Len(definition)
      /\ \A e \in 1 .. Len(definition) : ss[e] = Survivors(Applied(definition[e], record))
    BY <1>1 DEF Kept
<1>3. ASSUME NEW e \in 1 .. Len(definition)
      PROVE  LET kept == ss[e]
                 rows == RowsOf(definition[e], record).rows
             IN /\ IsSequence(kept)
                /\ \A x \in Range(kept) : ComesFrom(x, definition[e], record)
                /\ Len(kept) \in Nat /\ Len(rows) \in Nat /\ Len(kept) <= Len(rows)
                /\ Len(kept) = Len(rows) <=> ~RefusesRow(definition[e], record)
    <2>1. Accepts(definition[e]) /\ Shaped(definition[e]) BY ValidEntities
    <2>2. ss[e] = Survivors(Applied(definition[e], record)) BY <1>2
    <2> HIDE DEF ss
    <2> QED BY <2>1, <2>2, SurvivorsKept
<1> HIDE DEF ss
<1>4. ss \in Seq(Seq(R))
    <2>1. \A e \in 1 .. Len(definition) : ss[e] \in Seq(R)
        <3> TAKE e \in 1 .. Len(definition)
        <3>1. ss[e] \in Seq(Range(ss[e])) /\ Range(ss[e]) \subseteq R BY <1>3 DEF IsSequence
        <3> HIDE DEF R
        <3> QED BY <3>1, SeqMonotonic
    <2> HIDE DEF R
    <2> QED BY <1>1, <1>2, <2>1
<1> HIDE DEF R
<1> QED BY <1>1, <1>2, <1>3, <1>4 DEF ss

\* The results of a record, each from an entity
LEMMA ResultsComeFrom ==
    ASSUME NEW definition, Valid(definition), NEW record \in Values
    PROVE  LET results == Apply(definition, record).results
           IN /\ IsSequence(results)
              /\ \A x \in Range(results) : \E e \in 1 .. Len(definition) : ComesFrom(x, definition[e], record)
<1> DEFINE ss == Kept(definition, record)
<1>1. Apply(definition, record).results = FlattenSeq(ss) BY ApplyParts DEF Kept
<1>2. PICK R : ss \in Seq(Seq(R)) BY KeptType
<1>3. /\ Len(ss) = Len(definition)
      /\ \A e \in 1 .. Len(definition) : \A x \in Range(ss[e]) : ComesFrom(x, definition[e], record)
    BY KeptType
<1> HIDE DEF ss
<1>4. IsSequence(FlattenSeq(ss)) BY <1>2, FlattenType, AnySequence
<1>5. \A x \in Range(FlattenSeq(ss)) : \E e \in 1 .. Len(ss) : x \in Range(ss[e])
    BY <1>2, FlattenRange
<1> QED BY <1>1, <1>3, <1>4, <1>5

\* A record gives no more entries of a kind than it holds rows, and as many unless one
\* is refused
LEMMA EntriesHeld ==
    ASSUME NEW definition, Valid(definition), NEW record \in Values, NEW kind
    PROVE  LET n == Len(EntriesOf(Apply(definition, record).results, kind))
               held == HeldBy(definition, kind, record)
           IN /\ n \in Nat /\ held \in Nat /\ n <= held
              /\ n = held <=> \A e \in 1 .. Len(definition) :
                                definition[e].target = kind => ~RefusesRow(definition[e], record)
<1> DEFINE ss == Kept(definition, record)
<1> DEFINE Rows(e) == RowsOf(definition[e], record).rows
<1> DEFINE qq == [e \in 1 .. Len(definition) |-> EntriesOf(ss[e], kind)]
<1> DEFINE tt == [e \in 1 .. Len(definition) |->
                    IF definition[e].target = kind THEN Rows(e) ELSE <<>>]
<1>1. Apply(definition, record).results = FlattenSeq(ss) BY ApplyParts DEF Kept
<1>2. PICK R : ss \in Seq(Seq(R)) BY KeptType
<1>3. /\ Len(definition) \in Nat /\ Len(ss) = Len(definition)
      /\ \A e \in 1 .. Len(definition) :
            /\ \A x \in Range(ss[e]) : ComesFrom(x, definition[e], record)
            /\ Len(ss[e]) \in Nat /\ Len(Rows(e)) \in Nat /\ Len(ss[e]) <= Len(Rows(e))
            /\ Len(ss[e]) = Len(Rows(e)) <=> ~RefusesRow(definition[e], record)
    BY KeptType
<1>4. \A e \in 1 .. Len(definition) : Rows(e) \in Seq(Values) BY ValidEntities, RowsOfType DEF Shaped
<1>5. HeldBy(definition, kind, record) = Len(FlattenSeq(tt)) BY DEF HeldBy
<1> HIDE DEF ss, Rows
<1>6. \A e \in 1 .. Len(definition) : ss[e] \in Seq(R) BY <1>2, <1>3, ElementOfSeq
<1>7. Len(EntriesOf(FlattenSeq(ss), kind)) = Len(FlattenSeq(qq)) BY <1>2, <1>3, EntriesOfFlatten
<1>8. \A e \in 1 .. Len(definition) : qq[e] \in Seq(R) BY <1>6, EntriesType
<1>9. qq \in Seq(Seq(R)) /\ tt \in Seq(Seq(Values)) /\ Len(qq) = Len(tt) /\ Len(tt) = Len(definition)
    <2>1. <<>> \in Seq(Values) OBVIOUS
    <2>2. \A e \in 1 .. Len(definition) : EntriesOf(ss[e], kind) \in Seq(R) BY <1>8
    <2> QED BY <1>3, <1>4, <2>1, <2>2
<1>10. ASSUME NEW e \in 1 .. Len(definition)
       PROVE  /\ Len(qq[e]) <= Len(tt[e])
              /\ Len(qq[e]) = Len(tt[e]) <=>
                    (definition[e].target = kind => ~RefusesRow(definition[e], record))
    <2>1. \A x \in Range(ss[e]) : x.entity = definition[e].target
        <3> TAKE x \in Range(ss[e])
        <3>1. ComesFrom(x, definition[e], record) BY <1>3
        <3> QED BY <3>1 DEF ComesFrom
    <2>2. qq[e] = EntriesOf(ss[e], kind) OBVIOUS
    <2>3. CASE definition[e].target = kind
        <3>1. Len(qq[e]) = Len(ss[e]) BY <1>6, <2>1, <2>2, <2>3, EntriesType
        <3>2. tt[e] = Rows(e) BY <2>3
        <3> HIDE DEF qq, tt
        <3> QED BY <1>3, <2>3, <3>1, <3>2
    <2>4. CASE definition[e].target # kind
        <3>1. Len(qq[e]) = 0 BY <1>6, <2>1, <2>2, <2>4, EntriesType
        <3>2. tt[e] = <<>> BY <2>4
        <3>3. Len(<<>>) = 0 OBVIOUS
        <3> HIDE DEF qq, tt
        <3> QED BY <2>4, <3>1, <3>2, <3>3
    <2> QED BY <2>3, <2>4
<1> HIDE DEF qq, tt
<1>11. /\ Len(FlattenSeq(qq)) <= Len(FlattenSeq(tt))
       /\ Len(FlattenSeq(qq)) = Len(FlattenSeq(tt))
            <=> PartsEqual(qq, tt)
    <2>1. PartsUnder(qq, tt) BY <1>9, <1>10 DEF PartsUnder
    <2> QED BY <1>9, <2>1, FlattenCompare
<1>12. Len(FlattenSeq(qq)) \in Nat /\ Len(FlattenSeq(tt)) \in Nat BY <1>9, FlattenType, LenProperties
<1> QED BY <1>1, <1>5, <1>7, <1>9, <1>10, <1>11, <1>12 DEF PartsEqual

\* The issues of the engine: none is about a path, and one rejects exactly when a list
\* is not reached or a row is refused
LEMMA EngineIssues ==
    ASSUME NEW definition, Valid(definition), NEW record \in Values
    PROVE  LET raised == Apply(definition, record).issues
           IN /\ \A issue \in raised : issue.code # "MAPPING_UNSUPPORTED_PATH"
              /\ Rejected(raised) <=> \E entity \in Range(definition) :
                    RowsOf(entity, record).wrong \/ RefusesRow(entity, record)
<1> DEFINE OfEntity(entity) ==
        Applied(entity, record).issues \cup UNION {row.issues : row \in Range(Applied(entity, record).rows)}
<1>1. Apply(definition, record).issues = UNION {OfEntity(definition[e]) : e \in 1 .. Len(definition)}
    BY ApplyParts
<1>2. ASSUME NEW entity, Accepts(entity), Shaped(entity)
      PROVE  /\ \A issue \in OfEntity(entity) : issue.code # "MAPPING_UNSUPPORTED_PATH"
             /\ Rejected(OfEntity(entity)) <=> RowsOf(entity, record).wrong \/ RefusesRow(entity, record)
    <2> DEFINE rows == RowsOf(entity, record).rows
    <2> DEFINE lost == Applied(entity, record).issues
    <2>1. /\ Len(rows) \in Nat
          /\ Applied(entity, record).rows = [i \in 1 .. Len(rows) |-> ApplyEntity(entity, rows[i])]
          /\ lost = IF ~RowsOf(entity, record).wrong THEN {} ELSE {Issue("rejected", "ITERATE_NOT_A_LIST")}
        BY <1>2, AppliedRows
    <2>2. rows \in Seq(Values) BY <1>2, RowsOfType DEF Shaped
    <2>3. DOMAIN rows = 1 .. Len(rows) BY <2>2, LenProperties
    <2>4. Range(Applied(entity, record).rows) = {ApplyEntity(entity, row) : row \in Range(rows)}
        <3> HIDE DEF rows
        <3> QED BY <2>1, <2>3 DEF Range
    <2>5. \A row : RowOutcome(ApplyEntity(entity, row), entity) BY <1>2, EntityRuns
    <2>6. \A s, c : Issue(s, c).severity = s /\ Issue(s, c).code = c BY DEF Issue
    <2>7. /\ \A issue \in lost : issue.code # "MAPPING_UNSUPPORTED_PATH"
          /\ Rejected(lost) <=> RowsOf(entity, record).wrong
        <3> HIDE DEF lost, rows
        <3> QED BY <2>1, <2>6 DEF Rejected
    <2> DEFINE found == UNION {row.issues : row \in Range(Applied(entity, record).rows)}
    <2>8. found = UNION {ApplyEntity(entity, row).issues : row \in Range(rows)}
        <3> HIDE DEF rows
        <3> QED BY <2>4
    <2> HIDE DEF found, lost
    <2>9. /\ \A issue \in found : issue.code # "MAPPING_UNSUPPORTED_PATH"
          /\ Rejected(found) <=> RefusesRow(entity, record)
        BY <2>5, <2>8 DEF Rejected, RefusesRow, RowOutcome
    <2>10. OfEntity(entity) = lost \cup found BY DEF lost, found
    <2> HIDE DEF OfEntity
    <2> QED BY <2>7, <2>9, <2>10 DEF Rejected
<1>3. Range(definition) = {definition[e] : e \in 1 .. Len(definition)} BY ValidEntities DEF Range
<1>4. \A entity \in Range(definition) : Accepts(entity) /\ Shaped(entity) BY DEF Valid
<1> HIDE DEF OfEntity
<1>5. Apply(definition, record).issues = UNION {OfEntity(entity) : entity \in Range(definition)}
    BY <1>1, <1>3
<1> QED BY <1>2, <1>4, <1>5 DEF Rejected

--------------------------------------------------------------------------------
(* What is built of the entries of a record *)

\* A row can be stored: its values have the types of their fields, its natural key is there
Sound(definition, row) ==
    /\ TypedData(row.data)
    /\ EntityOf(definition, row.kind).natural_key \subseteq DOMAIN row.data

\* A row is made of one of the entries of a record
MadeOf(row, definition, record) ==
    \E x : \E e \in 1 .. Len(definition) :
        /\ ComesFrom(x, definition[e], record) /\ row.kind = x.entity
        /\ row.data = IF x.entity = "session" THEN x.data ELSE SequenceNumbered(x)

\* An attempt builds a row or explains why it does not
Attempted(a, definition, record) ==
    \/ \E code : a = NotBuilt(code) /\ code # "MAPPING_UNSUPPORTED_PATH"
    \/ \E row, names : /\ a = Built(row, names)
                       /\ Sound(definition, row) /\ MadeOf(row, definition, record)

LEMMA ReferenceNameCodes == \A v : ReferenceName(v).code \in {"none", "REFERENCE_NAME_INVALID"}
<1> SUFFICES ASSUME NEW v PROVE ReferenceName(v).code \in {"none", "REFERENCE_NAME_INVALID"} OBVIOUS
<1>1. ReferenceName(v) = Raises("REFERENCE_NAME_INVALID") \/ \E w : ReferenceName(v) = Returns(w)
    BY DEF ReferenceName
<1>2. \A w, c : Outcome(w, c).code = c BY DEF Outcome
<1> QED BY <1>1, <1>2 DEF Raises, Returns

LEMMA KeyIsThere ==
    ASSUME NEW entity, NEW data, ~MissesNaturalKey(entity, data)
    PROVE  entity.natural_key \subseteq DOMAIN data
BY DEF MissesNaturalKey, Get

\* The data of an entry is typed, and holds fields of its entity
LEMMA EntryIsTyped ==
    ASSUME NEW definition, NEW record, NEW e \in 1 .. Len(definition), NEW x,
           Valid(definition), ComesFrom(x, definition[e], record)
    PROVE  /\ TypedData(x.data) /\ FieldsOf(x.data, definition[e])
           /\ x.entity = definition[e].target
<1> DEFINE Row(i) == RowsOf(definition[e], record).rows[i]
<1>1. PICK i \in 1 .. Len(RowsOf(definition[e], record).rows) :
         x = [entity |-> definition[e].target, data |-> ApplyEntity(definition[e], Row(i)).data,
              source_index |-> i - 1]
    BY DEF ComesFrom
<1>2. x.data = ApplyEntity(definition[e], Row(i)).data /\ x.entity = definition[e].target
      /\ x.source_index = i - 1
    BY <1>1
<1>3. RowOutcome(ApplyEntity(definition[e], Row(i)), definition[e]) BY ValidEntities, EntityRuns
<1> QED BY <1>2, <1>3 DEF RowOutcome

LEMMA SessionAttempted ==
    ASSUME NEW definition, NEW record, NEW e \in 1 .. Len(definition), NEW x,
           Valid(definition), ComesFrom(x, definition[e], record), x.entity = "session"
    PROVE  Attempted(BuildSession(EntityOf(definition, "session"), x.data), definition, record)
<1> DEFINE entity == EntityOf(definition, "session")
<1> DEFINE row == [kind |-> "session", data |-> x.data]
<1>1. row.kind = "session" /\ row.data = x.data OBVIOUS
<1> DEFINE agent == ReferenceName(Get(x.data, "agent_name"))
<1>2. agent.code \in {"none", "REFERENCE_NAME_INVALID"} BY ReferenceNameCodes
<1>3. \/ BuildSession(entity, x.data) = NotBuilt("MAPPING_MISSING_NATURAL_KEY")
      \/ BuildSession(entity, x.data) = NotBuilt(agent.code) /\ agent.code # "none"
      \/ BuildSession(entity, x.data) = NotBuilt("ENTITY_CONSTRUCTION_FAILED")
      \/ /\ ~MissesNaturalKey(entity, x.data)
         /\ BuildSession(entity, x.data) = Built(row, NamesOf("agent", agent.value, Null))
    BY DEF BuildSession
<1> HIDE DEF agent, row
<1>4. MadeOf(row, definition, record) BY <1>1 DEF MadeOf
<1>5. ~MissesNaturalKey(entity, x.data) => Sound(definition, row)
    <2>1. TypedData(x.data) BY EntryIsTyped
    <2>2. ~MissesNaturalKey(entity, x.data) => entity.natural_key \subseteq DOMAIN x.data BY KeyIsThere
    <2> QED BY <1>1, <2>1, <2>2 DEF Sound
<1> HIDE DEF entity
<1>6. Attempted(BuildSession(entity, x.data), definition, record)
    BY <1>2, <1>3, <1>4, <1>5 DEF Attempted
<1> QED BY <1>6 DEF entity

LEMMA NumberedIsTyped ==
    ASSUME NEW x, TypedData(x.data)
    PROVE  TypedData(SequenceNumbered(x))
<1> SUFFICES ASSUME NEW field \in DOMAIN SequenceNumbered(x)
             PROVE  SequenceNumbered(x)[field][1] = FieldType(field)
    BY DEF TypedData
<1>1. field \in DOMAIN x.data \cup {"sequence_index"} BY DEF SequenceNumbered
<1>2. CASE field \in DOMAIN x.data
    <2>1. SequenceNumbered(x)[field] = x.data[field] BY <1>2 DEF SequenceNumbered
    <2> QED BY <1>2, <2>1 DEF TypedData
<1>3. CASE field \notin DOMAIN x.data
    <2>1. field = "sequence_index" BY <1>1, <1>3
    <2>2. SequenceNumbered(x)[field] = <<"int", x.source_index>> BY <1>1, <1>3 DEF SequenceNumbered
    <2>3. FieldType(field) = "int" BY <2>1 DEF FieldType
    <2> QED BY <2>2, <2>3
<1> QED BY <1>2, <1>3

LEMMA CallAttempted ==
    ASSUME NEW definition, NEW record, NEW e \in 1 .. Len(definition), NEW x,
           Valid(definition), ComesFrom(x, definition[e], record), x.entity \in {"model_call", "tool_call"}
    PROVE  Attempted(BuildCall(EntityOf(definition, x.entity), x), definition, record)
<1> DEFINE entity == EntityOf(definition, x.entity)
<1> DEFINE data == SequenceNumbered(x)
<1> DEFINE row == [kind |-> x.entity, data |-> data]
<1> DEFINE Broken == {"MAPPING_MISSING_NATURAL_KEY", "REFERENCE_NAME_INVALID", "ENTITY_CONSTRUCTION_FAILED"}
<1>1. row.kind = x.entity /\ row.data = data OBVIOUS
<1>2. \/ \E code \in Broken : BuildCall(entity, x) = NotBuilt(code)
      \/ ~MissesNaturalKey(entity, data) /\ \E names : BuildCall(entity, x) = Built(row, names)
    <2>1. CASE x.entity = "model_call"
        <3>1. BuildCall(entity, x) = BuildModelCall(entity, x) BY <2>1 DEF BuildCall
        <3>2. row = [kind |-> "model_call", data |-> data] BY <2>1
        <3> DEFINE model == ReferenceName(Get(data, "model_name"))
        <3> DEFINE provider == ReferenceName(Get(data, "provider_name"))
        <3> DEFINE names == NamesOf("provider", provider.value, Null)
                            \cup NamesOf("model", model.value, provider.value)
        <3> HIDE DEF entity
        <3>3. \/ BuildModelCall(entity, x) = NotBuilt("MAPPING_MISSING_NATURAL_KEY")
              \/ BuildModelCall(entity, x) = NotBuilt("REFERENCE_NAME_INVALID")
              \/ BuildModelCall(entity, x) = NotBuilt("ENTITY_CONSTRUCTION_FAILED")
              \/ /\ ~MissesNaturalKey(entity, data)
                 /\ BuildModelCall(entity, x) = Built([kind |-> "model_call", data |-> data], names)
            BY DEF BuildModelCall
        <3> HIDE DEF row, data, names
        <3> QED BY <3>1, <3>2, <3>3
    <2>2. CASE x.entity = "tool_call"
        <3>1. BuildCall(entity, x) = BuildToolCall(entity, x) BY <2>2 DEF BuildCall
        <3>2. row = [kind |-> "tool_call", data |-> data] BY <2>2
        <3> DEFINE tool == ReferenceName(Get(data, "tool_name"))
        <3> DEFINE names == NamesOf("tool", tool.value, Null)
        <3>3. tool.code \in {"none", "REFERENCE_NAME_INVALID"} BY ReferenceNameCodes
        <3> HIDE DEF entity
        <3>4. \/ BuildToolCall(entity, x) = NotBuilt("MAPPING_MISSING_NATURAL_KEY")
              \/ BuildToolCall(entity, x) = NotBuilt(tool.code) /\ tool.code # "none"
              \/ BuildToolCall(entity, x) = NotBuilt("REFERENCE_NAME_INVALID")
              \/ BuildToolCall(entity, x) = NotBuilt("ENTITY_CONSTRUCTION_FAILED")
              \/ /\ ~MissesNaturalKey(entity, data)
                 /\ BuildToolCall(entity, x) = Built([kind |-> "tool_call", data |-> data], names)
            BY DEF BuildToolCall
        <3> HIDE DEF row, data, names, tool
        <3> QED BY <3>1, <3>2, <3>3, <3>4
    <2> QED BY <2>1, <2>2
<1> HIDE DEF row, entity
<1>3. MadeOf(row, definition, record) BY <1>1 DEF MadeOf
<1>4. ~MissesNaturalKey(entity, data) => Sound(definition, row)
    <2>1. TypedData(data)
        <3>1. TypedData(x.data) BY EntryIsTyped
        <3> QED BY <3>1, NumberedIsTyped
    <2> HIDE DEF data
    <2> QED BY <1>1, <2>1, KeyIsThere DEF Sound, entity
<1>5. Attempted(BuildCall(entity, x), definition, record) BY <1>2, <1>3, <1>4 DEF Attempted
<1> QED BY <1>5 DEF entity

\* The attempts to build the calls of a kind: one for each entry, if their session was built
LEMMA CallsAttempted ==
    ASSUME NEW definition, Valid(definition), NEW record \in Values, NEW session,
           NEW kind \in {"model_call", "tool_call"}
    PROVE  LET entries == EntriesOf(Apply(definition, record).results, kind)
               calls == CallAttempts(definition, entries, session)
           IN /\ IsSequence(calls) /\ \A a \in Range(calls) : Attempted(a, definition, record)
              /\ Len(entries) \in Nat
              /\ session # <<>> /\ session[1].rows # <<>> => Len(calls) = Len(entries)
              /\ session = <<>> \/ session[1].rows = <<>> =>
                    \/ Len(entries) = 0 /\ calls = <<>>
                    \/ Len(entries) > 0 /\ calls = <<NotBuilt("PARENT_SESSION_MISSING")>>
<1> DEFINE results == Apply(definition, record).results
<1> DEFINE entries == EntriesOf(results, kind)
<1> DEFINE calls == CallAttempts(definition, entries, session)
<1> DEFINE Missing == NotBuilt("PARENT_SESSION_MISSING")
<1>1. results \in Seq(Range(results)) BY ResultsComeFrom DEF IsSequence
<1>2. \A x \in Range(results) : \E e \in 1 .. Len(definition) : ComesFrom(x, definition[e], record)
    BY ResultsComeFrom
<1> HIDE DEF results
<1>3. /\ entries \in Seq(Range(results)) /\ Len(entries) \in Nat
      /\ \A x \in Range(entries) : x \in Range(results) /\ x.entity = kind
    BY <1>1, EntriesType
<1> HIDE DEF entries
<1>4. \A i \in 1 .. Len(entries) : entries[i] \in Range(entries) BY <1>3, ElementOfSeq, LenProperties DEF Range
<1>5. Attempted(Missing, definition, record) BY DEF Attempted
<1>6. CASE entries = <<>>
    <2>1. calls = <<>> BY <1>6 DEF CallAttempts
    <2>2. Len(entries) = 0 /\ Len(<<>>) = 0 BY <1>6
    <2>3. IsSequence(<<>>) /\ Range(<<>>) = {} BY DEF IsSequence, Range
    <2> HIDE DEF calls
    <2> QED BY <2>1, <2>2, <2>3 DEF calls, entries, results
<1>7. CASE entries # <<>> /\ (session = <<>> \/ session[1].rows = <<>>)
    <2>1. calls = <<Missing>> BY <1>7 DEF CallAttempts
    <2>2. Len(entries) > 0 BY <1>3, <1>7, EmptySeq
    <2>3. <<Missing>> \in Seq({Missing}) /\ Range(<<Missing>>) = {Missing} BY DEF Range
    <2>4. IsSequence(<<Missing>>) BY <2>3, AnySequence
    <2> HIDE DEF calls, Missing
    <2> QED BY <1>3, <1>5, <1>7, <2>1, <2>2, <2>3, <2>4 DEF calls, entries, results, Missing
<1>8. CASE entries # <<>> /\ session # <<>> /\ session[1].rows # <<>>
    <2> DEFINE Call(i) == BuildCall(EntityOf(definition, entries[1].entity), entries[i])
    <2>1. calls = [i \in 1 .. Len(entries) |-> Call(i)] BY <1>8 DEF CallAttempts
    <2>2. Len(entries) > 0 BY <1>3, <1>8, EmptySeq
    <2>3. ASSUME NEW i \in 1 .. Len(entries) PROVE Attempted(Call(i), definition, record)
        <3>1. entries[i] \in Range(results) /\ entries[i].entity = kind BY <1>3, <1>4
        <3>2. entries[1].entity = kind BY <1>3, <1>4, <2>2
        <3> DEFINE x == entries[i]
        <3>3. PICK e \in 1 .. Len(definition) : ComesFrom(x, definition[e], record) BY <1>2, <3>1
        <3>4. Call(i) = BuildCall(EntityOf(definition, x.entity), x) BY <3>1, <3>2
        <3>5. x.entity \in {"model_call", "tool_call"} BY <3>1
        <3> HIDE DEF x, Call
        <3> QED BY <3>3, <3>4, <3>5, CallAttempted
    <2> HIDE DEF Call, calls
    <2>4. Len(calls) = Len(entries) /\ DOMAIN calls = 1 .. Len(entries) BY <1>3, <2>1
    <2>5. calls \in Seq({Call(i) : i \in 1 .. Len(entries)}) BY <1>3, <2>1
    <2>6. IsSequence(calls) BY <2>5, AnySequence
    <2>7. \A a \in Range(calls) : Attempted(a, definition, record) BY <2>1, <2>3, <2>4 DEF Range
    <2> QED BY <1>3, <1>8, <2>4, <2>6, <2>7 DEF calls, entries, results
<1> QED BY <1>6, <1>7, <1>8

LEMMA SequencesJoined ==
    ASSUME NEW s, NEW t, IsSequence(s), IsSequence(t)
    PROVE  IsSequence(s \o t) /\ Range(s \o t) \subseteq Range(s) \cup Range(t)
           /\ Len(s \o t) = Len(s) + Len(t) /\ Len(s) \in Nat /\ Len(t) \in Nat
<1> DEFINE S == Range(s) \cup Range(t)
<1>1. s \in Seq(S) /\ t \in Seq(S)
    <2>1. s \in Seq(Range(s)) /\ t \in Seq(Range(t)) /\ Range(s) \subseteq S /\ Range(t) \subseteq S
        BY DEF IsSequence
    <2> HIDE DEF S
    <2> QED BY <2>1, SeqMonotonic
<1> HIDE DEF S
<1>2. s \o t \in Seq(S) /\ Len(s \o t) = Len(s) + Len(t) /\ Len(s) \in Nat /\ Len(t) \in Nat
    BY <1>1, ConcatProperties, LenProperties
<1>3. Range(s \o t) \subseteq S BY <1>2, RangeOfSeq
<1> QED BY <1>2, <1>3, AnySequence DEF S

\* How many attempts there are of a record, and whether anything can come of them
LEMMA AllAttempted ==
    ASSUME NEW definition, Valid(definition), NEW record \in Values
    PROVE  LET results == Apply(definition, record).results
               N(kind) == Len(EntriesOf(results, kind))
               attempts == Attempts(definition, results)
           IN /\ IsSequence(attempts) /\ \A a \in Range(attempts) : Attempted(a, definition, record)
              /\ N("session") \in Nat /\ N("model_call") \in Nat /\ N("tool_call") \in Nat
              /\ \/ /\ N("session") = 0 /\ N("model_call") = 0 /\ N("tool_call") = 0
                    /\ Len(attempts) = 0
                 \/ /\ N("session") + N("model_call") + N("tool_call") > 0
                    /\ Len(attempts) > 0 /\ \A a \in Range(attempts) : a.rows = <<>>
                 \/ /\ N("session") > 0
                    /\ Len(attempts) = 1 + N("model_call") + N("tool_call")
<1> DEFINE results == Apply(definition, record).results
<1> DEFINE sessions == EntriesOf(results, "session")
<1> DEFINE built == BuildSession(EntityOf(definition, "session"), sessions[1].data)
<1> DEFINE session == IF sessions = <<>> THEN <<>> ELSE <<built>>
<1> DEFINE Calls(kind) == CallAttempts(definition, EntriesOf(results, kind), session)
<1> DEFINE N(kind) == Len(EntriesOf(results, kind))
<1> DEFINE attempts == session \o Calls("model_call") \o Calls("tool_call")
<1> DEFINE Missing == NotBuilt("PARENT_SESSION_MISSING")
<1>1. Attempts(definition, results) = attempts BY DEF Attempts
<1>2. results \in Seq(Range(results)) BY ResultsComeFrom DEF IsSequence
<1>3. \A x \in Range(results) : \E e \in 1 .. Len(definition) : ComesFrom(x, definition[e], record)
    BY ResultsComeFrom
<1> DEFINE Outcomes(calls, n) ==
            /\ session # <<>> /\ session[1].rows # <<>> => Len(calls) = n
            /\ session = <<>> \/ session[1].rows = <<>> =>
                  \/ n = 0 /\ calls = <<>>
                  \/ n > 0 /\ calls = <<Missing>>
<1>4. \A kind \in {"model_call", "tool_call"} :
         /\ IsSequence(Calls(kind)) /\ \A a \in Range(Calls(kind)) : Attempted(a, definition, record)
         /\ N(kind) \in Nat /\ Outcomes(Calls(kind), N(kind))
    <2> HIDE DEF session
    <2> QED BY CallsAttempted
<1> HIDE DEF results
<1>5. /\ sessions \in Seq(Range(results)) /\ Len(sessions) \in Nat
      /\ \A x \in Range(sessions) : x \in Range(results) /\ x.entity = "session"
    BY <1>2, EntriesType
<1>6. sessions # <<>> => Attempted(built, definition, record)
    <2> SUFFICES ASSUME sessions # <<>> PROVE Attempted(built, definition, record) OBVIOUS
    <2>1. sessions[1] \in Range(sessions)
        <3> HIDE DEF sessions
        <3> QED BY <1>5, EmptySeq, LenProperties DEF Range
    <2> DEFINE x == sessions[1]
    <2>2. x \in Range(results) /\ x.entity = "session" BY <1>5, <2>1
    <2>3. PICK e \in 1 .. Len(definition) : ComesFrom(x, definition[e], record) BY <1>3, <2>2
    <2>4. built = BuildSession(EntityOf(definition, "session"), x.data) OBVIOUS
    <2> HIDE DEF x, built
    <2> QED BY <2>2, <2>3, <2>4, SessionAttempted
<1>7. N("session") \in Nat /\ (N("session") = 0 <=> sessions = <<>>)
    <2>1. N("session") = Len(sessions) OBVIOUS
    <2> HIDE DEF sessions
    <2> QED BY <1>5, <2>1, EmptySeq
<1> HIDE DEF sessions, built
<1>8. /\ IsSequence(session) /\ \A a \in Range(session) : Attempted(a, definition, record)
      /\ session = <<>> <=> N("session") = 0
      /\ session # <<>> => Len(session) = 1 /\ session[1] = built /\ \A a \in Range(session) : a = built
    <2> HIDE DEF N
    <2>1. CASE sessions = <<>>
        <3>1. session = <<>> BY <2>1
        <3> HIDE DEF session
        <3> QED BY <1>7, <2>1, <3>1 DEF IsSequence, Range
    <2>2. CASE sessions # <<>>
        <3>1. session = <<built>> BY <2>2
        <3>2. <<built>> \in Seq({built}) /\ Range(<<built>>) = {built} /\ <<built>> # <<>> BY DEF Range
        <3>3. IsSequence(<<built>>) BY <3>2, AnySequence
        <3> HIDE DEF session
        <3> QED BY <1>6, <1>7, <2>2, <3>1, <3>2, <3>3
    <2> QED BY <2>1, <2>2
<1> HIDE DEF session
<1> DEFINE models == Calls("model_call")
<1> DEFINE tools == Calls("tool_call")
<1>9. /\ IsSequence(models) /\ IsSequence(tools)
      /\ \A a \in Range(models) \cup Range(tools) : Attempted(a, definition, record)
      /\ N("model_call") \in Nat /\ N("tool_call") \in Nat
    BY <1>4
<1>10. Outcomes(models, N("model_call")) /\ Outcomes(tools, N("tool_call"))
    <2> HIDE DEF Outcomes, N
    <2> QED BY <1>4
<1>11. attempts = session \o models \o tools OBVIOUS
<1> HIDE DEF models, tools, Calls, Missing, attempts, Outcomes
<1>12. /\ IsSequence(session \o models) /\ Range(session \o models) \subseteq Range(session) \cup Range(models)
       /\ Len(session \o models) = Len(session) + Len(models)
       /\ Len(session) \in Nat /\ Len(models) \in Nat
    BY <1>8, <1>9, SequencesJoined
<1>13. /\ IsSequence(attempts) /\ Range(attempts) \subseteq Range(session \o models) \cup Range(tools)
       /\ Len(attempts) = Len(session \o models) + Len(tools) /\ Len(tools) \in Nat
    BY <1>9, <1>11, <1>12, SequencesJoined
<1>14. /\ Range(attempts) \subseteq Range(session) \cup Range(models) \cup Range(tools)
       /\ Len(attempts) = Len(session) + Len(models) + Len(tools)
    BY <1>12, <1>13
<1>15. \A a \in Range(attempts) : Attempted(a, definition, record) BY <1>8, <1>9, <1>14
<1>16. Missing.rows = <<>> /\ Range(<<Missing>>) = {Missing} /\ Range(<<>>) = {}
       /\ Len(<<>>) = 0 /\ Len(<<Missing>>) = 1
    <2>1. Missing.rows = <<>> BY DEF Missing, NotBuilt
    <2> QED BY <2>1 DEF Range
<1> DEFINE s == N("session")
<1> DEFINE m == N("model_call")
<1> DEFINE t == N("tool_call")
<1>n. s \in Nat /\ m \in Nat /\ t \in Nat BY <1>7, <1>9
<1> HIDE DEF N
<1>17. \/ s = 0 /\ m = 0 /\ t = 0 /\ Len(attempts) = 0
       \/ s + m + t > 0 /\ Len(attempts) > 0 /\ \A a \in Range(attempts) : a.rows = <<>>
       \/ s > 0 /\ Len(attempts) = 1 + m + t
    <2>1. CASE session # <<>> /\ session[1].rows # <<>>
        <3>1. Len(session) = 1 /\ Len(models) = m /\ Len(tools) = t BY <1>8, <1>10, <2>1 DEF Outcomes
        <3>2. s # 0 BY <1>8, <2>1
        <3> HIDE DEF s, m, t
        <3> QED BY <1>14, <1>n, <3>1, <3>2
    <2>2. CASE session = <<>> \/ session[1].rows = <<>>
        <3>1. \A a \in Range(session) : a.rows = <<>> BY <1>8, <1>16, <2>2
        <3>2. \A a \in Range(models) : a.rows = <<>> BY <1>10, <1>16, <2>2 DEF Outcomes
        <3>3. \A a \in Range(tools) : a.rows = <<>> BY <1>10, <1>16, <2>2 DEF Outcomes
        <3>4. \A a \in Range(attempts) : a.rows = <<>> BY <1>14, <3>1, <3>2, <3>3
        <3>5. \/ m = 0 /\ Len(models) = 0
              \/ m > 0 /\ Len(models) = 1
            BY <1>10, <1>16, <2>2 DEF Outcomes
        <3>6. \/ t = 0 /\ Len(tools) = 0
              \/ t > 0 /\ Len(tools) = 1
            BY <1>10, <1>16, <2>2 DEF Outcomes
        <3>7. \/ s = 0 /\ Len(session) = 0
              \/ s > 0 /\ Len(session) = 1
            BY <1>8, <1>16, <1>n
        <3> HIDE DEF s, m, t
        <3> QED BY <1>14, <1>n, <3>4, <3>5, <3>6, <3>7
    <2> QED BY <2>1, <2>2
<1> QED BY <1>1, <1>13, <1>15, <1>17, <1>n DEF N, results, attempts

\* A mapping's rows of a record, as many as were expected of the entries or fewer
LEMMA NormalizeParts ==
    ASSUME NEW definition, NEW record, Len(Attempts(definition, Apply(definition, record).results)) \in Nat
    PROVE  LET results == Apply(definition, record).results
               attempts == Attempts(definition, results)
           IN /\ Normalize(definition, record).rows
                    = FlattenSeq([i \in 1 .. Len(attempts) |-> attempts[i].rows])
              /\ Normalize(definition, record).issues
                    = (Apply(definition, record).issues \cup SessionsIgnored(results))
                      \cup UNION {a.issues : a \in Range(attempts)}
<1> DEFINE results == Apply(definition, record).results
<1> DEFINE attempts == Attempts(definition, results)
<1> DEFINE rows == FlattenSeq([i \in 1 .. Len(attempts) |-> attempts[i].rows])
<1> DEFINE raised == (Apply(definition, record).issues \cup SessionsIgnored(results))
                     \cup UNION {a.issues : a \in Range(attempts)}
<1> DEFINE names == UNION {a.names : a \in Range(attempts)}
<1>1. Normalize(definition, record) = [rows |-> rows, issues |-> raised, reference_requests |-> names]
    BY DEF Normalize
<1> HIDE DEF rows, raised, names
<1>2. Normalize(definition, record).rows = rows /\ Normalize(definition, record).issues = raised BY <1>1
<1> QED BY <1>2 DEF rows, raised

\* An attempt builds one row, or none and is rejected
LEMMA AttemptBuilds ==
    ASSUME NEW definition, NEW record, NEW a, Attempted(a, definition, record)
    PROVE  /\ a.rows \in Seq(Range(a.rows)) /\ Len(a.rows) \in Nat /\ Len(a.rows) <= 1
           /\ Len(a.rows) = 1 <=> ~Rejected(a.issues)
           /\ \A row \in Range(a.rows) : Sound(definition, row) /\ MadeOf(row, definition, record)
           /\ \A issue \in a.issues : issue.code # "MAPPING_UNSUPPORTED_PATH"
<1>1. ASSUME NEW code, a = NotBuilt(code), code # "MAPPING_UNSUPPORTED_PATH"
      PROVE  /\ a.rows = <<>> /\ Rejected(a.issues)
             /\ \A issue \in a.issues : issue.code # "MAPPING_UNSUPPORTED_PATH"
    <2> DEFINE raised == {Issue("rejected", code)}
    <2>1. a = [rows |-> <<>>, names |-> {}, issues |-> raised] BY <1>1 DEF NotBuilt
    <2>2. Issue("rejected", code).severity = "rejected" /\ Issue("rejected", code).code = code BY DEF Issue
    <2>3. /\ Rejected(raised)
          /\ \A issue \in raised : issue.code # "MAPPING_UNSUPPORTED_PATH"
        BY <1>1, <2>2 DEF Rejected
    <2> HIDE DEF raised
    <2>4. a.rows = <<>> /\ a.issues = raised BY <2>1
    <2> QED BY <2>3, <2>4
<1>2. ASSUME NEW row, NEW names, a = Built(row, names)
      PROVE  a.rows = <<row>> /\ ~Rejected(a.issues) /\ a.issues = {}
    <2>1. a = [rows |-> <<row>>, names |-> names, issues |-> {}] BY <1>2 DEF Built
    <2>2. a.rows = <<row>> /\ a.issues = {} BY <2>1
    <2> QED BY <2>2 DEF Rejected
<1>3. <<>> \in Seq({}) /\ Len(<<>>) = 0 /\ Range(<<>>) = {} BY DEF Range
<1>4. \A row : <<row>> \in Seq({row}) /\ Len(<<row>>) = 1 /\ Range(<<row>>) = {row} BY DEF Range
<1>5. CASE \E code : a = NotBuilt(code) /\ code # "MAPPING_UNSUPPORTED_PATH"
    <2>1. /\ a.rows = <<>> /\ Rejected(a.issues)
          /\ \A issue \in a.issues : issue.code # "MAPPING_UNSUPPORTED_PATH"
        BY <1>1, <1>5
    <2> QED BY <1>3, <2>1
<1>6. CASE \E row, names : /\ a = Built(row, names)
                           /\ Sound(definition, row) /\ MadeOf(row, definition, record)
    <2>1. PICK row, names : /\ a = Built(row, names)
                            /\ Sound(definition, row) /\ MadeOf(row, definition, record)
        BY <1>6
    <2>2. a.rows = <<row>> /\ ~Rejected(a.issues) /\ a.issues = {} BY <1>2, <2>1
    <2> QED BY <1>4, <2>1, <2>2
<1> QED BY <1>5, <1>6 DEF Attempted

LEMMA FlattenAtMostOne ==
    ASSUME NEW S, NEW ss \in Seq(Seq(S))
    PROVE  (\A i \in 1 .. Len(ss) : Len(ss[i]) <= 1) =>
              /\ Len(FlattenSeq(ss)) <= Len(ss)
              /\ Len(FlattenSeq(ss)) = Len(ss) <=> \A i \in 1 .. Len(ss) : Len(ss[i]) = 1
<1> DEFINE T == {1}
<1> DEFINE count == Len(ss)
<1> DEFINE ones == [i \in 1 .. count |-> 1]
<1> DEFINE tt == [i \in 1 .. Len(ones) |-> <<ones[i]>>]
<1>1. count \in Nat /\ \A i \in 1 .. count : ss[i] \in Seq(S) BY LenProperties, ElementOfSeq
<1>2. ones \in Seq(T) /\ Len(ones) = count BY <1>1
<1>3. \A i \in 1 .. count : ones[i] = 1 OBVIOUS
<1> HIDE DEF ones, T, count
<1>4. FlattenSeq(tt) = ones BY <1>2, FlattenSingletons
<1>5. \A i \in 1 .. count : <<ones[i]>> \in Seq(T) /\ Len(<<ones[i]>>) = 1 BY <1>2, <1>3, ElementOfSeq DEF T
<1>6. tt \in Seq(Seq(T)) /\ Len(tt) = count BY <1>1, <1>2, <1>5
<1>7. \A i \in 1 .. count : tt[i] = <<ones[i]>> BY <1>2
<1> HIDE DEF tt
<1>8. \A i \in 1 .. count : Len(tt[i]) = 1 BY <1>5, <1>7
<1>9. Len(ss) = Len(tt) BY <1>6 DEF count
<1>10. ASSUME PartsUnder(ss, tt)
       PROVE  /\ Len(FlattenSeq(ss)) <= Len(FlattenSeq(tt))
              /\ Len(FlattenSeq(ss)) = Len(FlattenSeq(tt)) <=> PartsEqual(ss, tt)
    BY <1>6, <1>10, FlattenCompare
<1> QED BY <1>2, <1>4, <1>8, <1>9, <1>10 DEF count, PartsUnder, PartsEqual

\* What the entries of a record would give if each of them were built
Due(definition, record) ==
    LET N(kind) == Len(EntriesOf(Apply(definition, record).results, kind))
    IN (IF N("session") = 0 THEN 0 ELSE 1) + N("model_call") + N("tool_call")

LEMMA RowsBuilt ==
    ASSUME NEW definition, Valid(definition), NEW record \in Values
    PROVE  LET attempts == Attempts(definition, Apply(definition, record).results)
               rows == Normalize(definition, record).rows
           IN /\ IsSequence(rows) /\ Len(rows) \in Nat /\ Due(definition, record) \in Nat
              /\ \A row \in Range(rows) : Sound(definition, row) /\ MadeOf(row, definition, record)
              /\ Len(rows) <= Due(definition, record)
              /\ Len(rows) = Due(definition, record) <=> \A a \in Range(attempts) : ~Rejected(a.issues)
<1> DEFINE results == Apply(definition, record).results
<1> DEFINE N(kind) == Len(EntriesOf(results, kind))
<1> DEFINE attempts == Attempts(definition, results)
<1> DEFINE s == N("session")
<1> DEFINE m == N("model_call")
<1> DEFINE t == N("tool_call")
<1>1. /\ IsSequence(attempts) /\ \A a \in Range(attempts) : Attempted(a, definition, record)
      /\ s \in Nat /\ m \in Nat /\ t \in Nat
      /\ \/ s = 0 /\ m = 0 /\ t = 0 /\ Len(attempts) = 0
         \/ s + m + t > 0 /\ Len(attempts) > 0 /\ \A a \in Range(attempts) : a.rows = <<>>
         \/ s > 0 /\ Len(attempts) = 1 + m + t
    BY AllAttempted
<1>2. Due(definition, record) = (IF s = 0 THEN 0 ELSE 1) + m + t BY DEF Due
<1> HIDE DEF attempts, s, m, t
<1>3. Len(attempts) \in Nat /\ DOMAIN attempts = 1 .. Len(attempts) BY <1>1, LenProperties DEF IsSequence
<1> DEFINE count == Len(attempts)
<1> DEFINE ss == [i \in 1 .. count |-> attempts[i].rows]
<1> DEFINE R == UNION {Range(a.rows) : a \in Range(attempts)}
<1> DEFINE rows == FlattenSeq(ss)
<1>4. Normalize(definition, record).rows = rows BY <1>3, NormalizeParts DEF attempts
<1>5. \A i \in 1 .. count : attempts[i] \in Range(attempts) BY <1>3 DEF Range
<1>6. \A a \in Range(attempts) :
         /\ a.rows \in Seq(Range(a.rows)) /\ Len(a.rows) \in Nat /\ Len(a.rows) <= 1
         /\ Len(a.rows) = 1 <=> ~Rejected(a.issues)
         /\ \A row \in Range(a.rows) : Sound(definition, row) /\ MadeOf(row, definition, record)
    BY <1>1, AttemptBuilds
<1>7. ss \in Seq(Seq(R)) /\ Len(ss) = count
    <2>1. ASSUME NEW i \in 1 .. count PROVE attempts[i].rows \in Seq(R)
        <3>1. Range(attempts[i].rows) \subseteq R BY <1>5
        <3>2. attempts[i].rows \in Seq(Range(attempts[i].rows)) BY <1>5, <1>6
        <3> HIDE DEF R
        <3> QED BY <3>1, <3>2, SeqMonotonic
    <2> HIDE DEF R, count
    <2> QED BY <1>3, <2>1 DEF count
<1>8. \A i \in 1 .. count : ss[i] = attempts[i].rows OBVIOUS
<1> HIDE DEF ss, R, count
<1>10. /\ Len(rows) <= count
       /\ Len(rows) = count <=> \A i \in 1 .. count : Len(ss[i]) = 1
    <2>1. \A i \in 1 .. Len(ss) : Len(ss[i]) \in Nat /\ Len(ss[i]) <= 1 BY <1>5, <1>6, <1>7, <1>8
    <2> HIDE DEF rows
    <2>2. rows = FlattenSeq(ss) BY DEF rows
    <2> QED BY <1>7, <2>1, <2>2, FlattenAtMostOne
<1>11. rows \in Seq(R) /\ IsSequence(rows) /\ Len(rows) \in Nat
    BY <1>7, FlattenType, AnySequence, LenProperties
<1>12. \A x \in Range(rows) : \E i \in 1 .. count : x \in Range(ss[i]) BY <1>7, FlattenRange
<1>13. Len(rows) = count <=> \A a \in Range(attempts) : ~Rejected(a.issues)
    BY <1>3, <1>5, <1>6, <1>8, <1>10 DEF count, Range
<1>14. (\A a \in Range(attempts) : a.rows = <<>>) => Len(rows) = 0
    <2> SUFFICES ASSUME \A a \in Range(attempts) : a.rows = <<>> PROVE Len(rows) = 0 OBVIOUS
    <2>1. \A i \in 1 .. count : Range(ss[i]) = {} BY <1>5, <1>8 DEF Range
    <2>2. Range(rows) = {} BY <1>12, <2>1
    <2> HIDE DEF rows
    <2>3. Len(rows) > 0 => rows[1] \in Range(rows) BY <1>11, LenProperties DEF Range
    <2> QED BY <1>11, <2>2, <2>3
<1>15. (Len(rows) = Due(definition, record) <=> \A a \in Range(attempts) : ~Rejected(a.issues))
       /\ Len(rows) <= Due(definition, record) /\ Due(definition, record) \in Nat
    <2> DEFINE n == Len(rows)
    <2> DEFINE whole == \A a \in Range(attempts) : ~Rejected(a.issues)
    <2> DEFINE due == Due(definition, record)
    <2>1. n \in Nat /\ n <= count /\ (n = count <=> whole) /\ count \in Nat
        BY <1>3, <1>10, <1>11, <1>13 DEF count
    <2>2. due = (IF s = 0 THEN 0 ELSE 1) + m + t BY <1>2
    <2>3. \/ s = 0 /\ m = 0 /\ t = 0 /\ count = 0
          \/ s + m + t > 0 /\ count > 0 /\ n = 0
          \/ s > 0 /\ count = 1 + m + t
        BY <1>1, <1>14 DEF count
    <2> HIDE DEF n, whole, due
    <2>4. (n = due <=> whole) /\ n <= due /\ due \in Nat BY <1>1, <2>1, <2>2, <2>3
    <2> QED BY <2>4 DEF n, whole, due
<1>16. \A row \in Range(rows) : Sound(definition, row) /\ MadeOf(row, definition, record)
    BY <1>5, <1>6, <1>8, <1>12
<1> HIDE DEF rows
<1> QED BY <1>4, <1>11, <1>15, <1>16 DEF attempts

\* The issues of a record: none is about a path, and one rejects the record exactly when
\* a list is not reached, a row is refused or an entry is not built
LEMMA NormalizeIssues ==
    ASSUME NEW definition, Valid(definition), NEW record \in Values
    PROVE  LET n == Normalize(definition, record)
           IN /\ \A issue \in n.issues : issue.code # "MAPPING_UNSUPPORTED_PATH"
              /\ Rejected(n.issues) <=>
                    \/ \E entity \in Range(definition) :
                          RowsOf(entity, record).wrong \/ RefusesRow(entity, record)
                    \/ Len(n.rows) # Due(definition, record)
<1> DEFINE raised == Apply(definition, record).issues
<1> DEFINE results == Apply(definition, record).results
<1> DEFINE ignored == SessionsIgnored(results)
<1> DEFINE attempts == Attempts(definition, results)
<1> DEFINE refused == UNION {a.issues : a \in Range(attempts)}
<1> DEFINE n == Normalize(definition, record)
<1> DEFINE lost == \E entity \in Range(definition) :
                      RowsOf(entity, record).wrong \/ RefusesRow(entity, record)
<1>1. /\ \A issue \in raised : issue.code # "MAPPING_UNSUPPORTED_PATH"
      /\ Rejected(raised) <=> lost
    BY EngineIssues
<1>2. \A issue \in ignored : issue.code # "MAPPING_UNSUPPORTED_PATH" /\ issue.severity # "rejected"
    BY DEF SessionsIgnored, Issue
<1>3. IsSequence(attempts) /\ \A a \in Range(attempts) : Attempted(a, definition, record) BY AllAttempted
<1>4. Len(attempts) \in Nat BY <1>3, LenProperties DEF IsSequence
<1>5. n.issues = (raised \cup ignored) \cup refused BY <1>4, NormalizeParts
<1>6. Len(n.rows) = Due(definition, record) <=> \A a \in Range(attempts) : ~Rejected(a.issues) BY RowsBuilt
<1> HIDE DEF raised, ignored, attempts, n, lost
<1>7. \A a \in Range(attempts) : \A issue \in a.issues : issue.code # "MAPPING_UNSUPPORTED_PATH"
    BY <1>3, AttemptBuilds
<1>8. \A issue \in refused : issue.code # "MAPPING_UNSUPPORTED_PATH" BY <1>7
<1>9. Rejected(refused) <=> Len(n.rows) # Due(definition, record) BY <1>6 DEF Rejected
<1> HIDE DEF refused
<1>10. \A issue \in n.issues : issue.code # "MAPPING_UNSUPPORTED_PATH" BY <1>1, <1>2, <1>5, <1>8
<1>11. Rejected(n.issues) <=> Rejected(raised) \/ Rejected(refused) BY <1>2, <1>5 DEF Rejected
<1> QED BY <1>1, <1>9, <1>10, <1>11 DEF n, lost

\* What a record holds for a mapping: one session, and every call
ExpectedBy(definition, record) ==
    HeldBy(definition, "model_call", record) + HeldBy(definition, "tool_call", record)
    + IF HeldBy(definition, "session", record) = 0 THEN 0 ELSE 1

LEMMA RejectedExactly ==
    ASSUME NEW definition, Valid(definition), NEW record \in Values
    PROVE  LET n == Normalize(definition, record)
           IN Rejected(n.issues) <=>
                 \/ Len(n.rows) < ExpectedBy(definition, record)
                 \/ \E entity \in Range(definition) : RowsOf(entity, record).wrong
                 \/ \E entity \in Range(definition) : entity.target = "session" /\ RefusesRow(entity, record)
<1> DEFINE N(kind) == Len(EntriesOf(Apply(definition, record).results, kind))
<1> DEFINE H(kind) == HeldBy(definition, kind, record)
<1> DEFINE Loses(kind) == \E entity \in Range(definition) : entity.target = kind /\ RefusesRow(entity, record)
<1>1. ASSUME NEW kind
      PROVE  N(kind) \in Nat /\ H(kind) \in Nat /\ N(kind) <= H(kind) /\ (N(kind) = H(kind) <=> ~Loses(kind))
    <2>1. /\ N(kind) \in Nat /\ H(kind) \in Nat /\ N(kind) <= H(kind)
          /\ N(kind) = H(kind) <=> \A e \in 1 .. Len(definition) :
                                     definition[e].target = kind => ~RefusesRow(definition[e], record)
        BY EntriesHeld
    <2> HIDE DEF N, H
    <2>2. Range(definition) = {definition[e] : e \in 1 .. Len(definition)} BY ValidEntities DEF Range
    <2>3. Loses(kind) <=> \E e \in 1 .. Len(definition) :
                             definition[e].target = kind /\ RefusesRow(definition[e], record)
        BY <2>2
    <2> HIDE DEF Loses
    <2> QED BY <2>1, <2>3
<1>2. Due(definition, record) = (IF N("session") = 0 THEN 0 ELSE 1) + N("model_call") + N("tool_call")
    BY DEF Due
<1>3. ExpectedBy(definition, record) = H("model_call") + H("tool_call") + IF H("session") = 0 THEN 0 ELSE 1
    BY DEF ExpectedBy
<1>4. \A entity \in Range(definition) : entity.target \in {"session", "model_call", "tool_call"}
    BY ValidEntities DEF Range
<1> DEFINE n == Normalize(definition, record)
<1> DEFINE wrong == \E entity \in Range(definition) : RowsOf(entity, record).wrong
<1> DEFINE refuses == \E entity \in Range(definition) : RefusesRow(entity, record)
<1>5. Len(n.rows) \in Nat /\ Len(n.rows) <= Due(definition, record) /\ Due(definition, record) \in Nat
    BY RowsBuilt
<1>6. Rejected(n.issues) <=> wrong \/ refuses \/ Len(n.rows) # Due(definition, record)
    BY NormalizeIssues
<1>7. refuses <=> Loses("session") \/ Loses("model_call") \/ Loses("tool_call") BY <1>4
<1> HIDE DEF n, wrong, refuses, Loses, N, H
<1> DEFINE count == Len(n.rows)
<1> DEFINE due == Due(definition, record)
<1> DEFINE held == ExpectedBy(definition, record)
<1>8. /\ N("session") \in Nat /\ H("session") \in Nat /\ N("session") <= H("session")
      /\ N("session") = H("session") <=> ~Loses("session")
    BY <1>1
<1>9. /\ N("model_call") \in Nat /\ H("model_call") \in Nat /\ N("model_call") <= H("model_call")
      /\ N("model_call") = H("model_call") <=> ~Loses("model_call")
    BY <1>1
<1>10. /\ N("tool_call") \in Nat /\ H("tool_call") \in Nat /\ N("tool_call") <= H("tool_call")
       /\ N("tool_call") = H("tool_call") <=> ~Loses("tool_call")
    BY <1>1
<1>11. held \in Nat /\ due <= held
    <2> HIDE DEF held
    <2>1. held = H("model_call") + H("tool_call") + IF H("session") = 0 THEN 0 ELSE 1 BY <1>3 DEF held
    <2> QED BY <1>2, <1>8, <1>9, <1>10, <2>1
<1>12. Loses("model_call") \/ Loses("tool_call") => due < held
    <2> HIDE DEF held
    <2>1. held = H("model_call") + H("tool_call") + IF H("session") = 0 THEN 0 ELSE 1 BY <1>3 DEF held
    <2> QED BY <1>2, <1>8, <1>9, <1>10, <2>1
<1>13. ~refuses => due = held
    <2> HIDE DEF held
    <2>1. held = H("model_call") + H("tool_call") + IF H("session") = 0 THEN 0 ELSE 1 BY <1>3 DEF held
    <2> QED BY <1>2, <1>7, <1>8, <1>9, <1>10, <2>1
<1> HIDE DEF held, due, count
<1>14. count \in Nat /\ count <= due /\ due \in Nat BY <1>5 DEF count, due
<1>15. Rejected(n.issues) <=> wrong \/ refuses \/ count # due BY <1>6 DEF count, due
<1>16. Rejected(n.issues) <=> count < held \/ wrong \/ Loses("session")
    <2>1. CASE count < held
        <3>1. refuses \/ count # due BY <1>11, <1>13, <1>14, <2>1
        <3> QED BY <1>15, <2>1, <3>1
    <2>2. CASE ~(count < held)
        <3>1. count = due /\ due = held BY <1>11, <1>14, <2>2
        <3>2. ~Loses("model_call") /\ ~Loses("tool_call") BY <1>11, <1>12, <1>14, <3>1
        <3> QED BY <1>7, <1>15, <2>2, <3>1, <3>2
    <2> QED BY <2>1, <2>2
<1> QED BY <1>16 DEF n, count, held, wrong, Loses

--------------------------------------------------------------------------------
(* The preview *)

\* The rows of a kind, and how many of them are shown
UpTo(room, rows) == IF Len(rows) <= room THEN rows ELSE SubSeq(rows, 1, room)

ShownOf(kind) ==
    /\ would_import[kind] \in Nat /\ IsSequence(shown[kind])
    /\ Len(shown[kind]) = IF would_import[kind] < RowsShown THEN would_import[kind] ELSE RowsShown
    /\ \A row \in Range(shown[kind]) : row.kind = kind /\ Sound(mapping, row)

RejectedOf(definition, text, count) ==
    {line \in 1 .. count : Rejected(Normalize(definition, text[line]).issues)}

(***************************************************************************)
(* The invariant: what has been read was read under an accepted mapping,   *)
(* the lines that are rejected are those whose normalisation rejects them, *)
(* no issue is about a path, and the rows shown are the first ones, sound. *)
(***************************************************************************)
PreviewInv ==
    /\ file \in Files /\ mapping \in Mappings
    /\ phase \in {"uploaded", "profiled", "refused", "reading", "answered"}
    /\ phase \in {"reading", "answered"} => Validate(mapping) = {}
    /\ offset \in 0 .. Sampled
    /\ rejected_lines = RejectedOf(mapping, file, offset)
    /\ \A found \in issues : found.issue.code # "MAPPING_UNSUPPORTED_PATH"
    /\ \A kind \in Kinds : ShownOf(kind)

LEMMA UpToRoom ==
    ASSUME NEW rows, NEW room \in Nat, IsSequence(rows)
    PROVE  /\ IsSequence(UpTo(room, rows)) /\ Range(UpTo(room, rows)) \subseteq Range(rows)
           /\ Len(UpTo(room, rows)) = IF Len(rows) <= room THEN Len(rows) ELSE room
<1>1. rows \in Seq(Range(rows)) /\ Len(rows) \in Nat BY LenProperties DEF IsSequence
<1>2. CASE Len(rows) <= room BY <1>2 DEF UpTo
<1>3. CASE ~(Len(rows) <= room)
    <2>1. \A i \in 1 .. room : i \in 1 .. Len(rows) BY <1>1, <1>3
    <2>2. \A i \in 1 .. room : rows[i] \in Range(rows) BY <1>1, <2>1, ElementOfSeq
    <2>3. /\ SubSeq(rows, 1, room) \in Seq(Range(rows))
          /\ Len(SubSeq(rows, 1, room)) = IF 1 <= room THEN room - 1 + 1 ELSE 0
        BY <2>2, SubSeqProperties
    <2>4. Len(SubSeq(rows, 1, room)) = room BY <2>3
    <2>5. UpTo(room, rows) = SubSeq(rows, 1, room) BY <1>3 DEF UpTo
    <2>6. IsSequence(UpTo(room, rows)) BY <2>3, <2>5, AnySequence
    <2>7. Range(UpTo(room, rows)) \subseteq Range(rows) BY <2>3, <2>5, RangeOfSeq
    <2> QED BY <1>3, <2>4, <2>5, <2>6, <2>7
<1> QED BY <1>2, <1>3

\* A record is one of the values of the file
LEMMA RecordIsValue ==
    ASSUME NEW text \in Files, NEW line \in 1 .. Len(text)
    PROVE  text[line] \in Values
BY FilesAssumption, ElementOfSeq

LEMMA SampleOfFile ==
    ASSUME file \in Files
    PROVE  Sampled \in 0 .. SampleSize /\ Sampled <= Len(file) /\ Len(file) \in Nat
BY FilesAssumption, PreviewAssumption, LenProperties DEF Sampled

\* What is said of the rows of a kind that a record gives
SoundRows(rows, kind, definition, record) ==
    /\ IsSequence(rows) /\ Len(rows) \in Nat
    /\ \A row \in Range(rows) :
          row.kind = kind /\ Sound(definition, row) /\ MadeOf(row, definition, record)

LEMMA RowsOfKindSound ==
    ASSUME NEW definition, NEW record \in Values, NEW kind, Valid(definition)
    PROVE  SoundRows(RowsOfKind(Normalize(definition, record).rows, kind), kind, definition, record)
<1> DEFINE s == Normalize(definition, record).rows
<1> DEFINE places == {i \in 1 .. Len(s) : s[i].kind = kind}
<1>1. IsSequence(s) /\ Len(s) \in Nat /\ \A row \in Range(s) : Sound(definition, row) /\ MadeOf(row, definition, record)
    BY RowsBuilt
<1>2. RowsOfKind(s, kind) = Picked(s, places) BY DEF RowsOfKind
<1>3. \A i \in places : s[i].kind = kind OBVIOUS
<1> HIDE DEF s, places
<1> DEFINE rows == Picked(s, places)
<1>4. s \in Seq(Range(s)) BY <1>1 DEF IsSequence
<1>5. /\ rows \in Seq(Range(s))
      /\ \A x \in Range(rows) : \E i \in 1 .. Len(s) : i \in places /\ x = s[i]
    BY <1>4, PickedType
<1>6. IsSequence(rows) /\ Len(rows) \in Nat BY <1>5, AnySequence, LenProperties
<1>7. \A i \in 1 .. Len(s) : s[i] \in Range(s) BY <1>4, ElementOfSeq
<1> HIDE DEF rows
<1>8. \A row \in Range(rows) : row.kind = kind /\ Sound(definition, row) /\ MadeOf(row, definition, record)
    BY <1>1, <1>3, <1>5, <1>7
<1> QED BY <1>2, <1>6, <1>8 DEF SoundRows, rows, s

\* One turn of the loop keeps what is said of the rows shown
LEMMA ShownGrows ==
    ASSUME NEW definition, NEW kind, NEW would \in Nat, NEW seen, NEW rows,
           IsSequence(seen), IsSequence(rows),
           Len(seen) = IF would < RowsShown THEN would ELSE RowsShown,
           \A row \in Range(seen) \cup Range(rows) : row.kind = kind /\ Sound(definition, row)
    PROVE  LET next == seen \o UpTo(RowsShown - Len(seen), rows)
           IN /\ IsSequence(next) /\ would + Len(rows) \in Nat
              /\ Len(next) = IF would + Len(rows) < RowsShown THEN would + Len(rows) ELSE RowsShown
              /\ \A row \in Range(next) : row.kind = kind /\ Sound(definition, row)
<1> DEFINE room == RowsShown - Len(seen)
<1> DEFINE more == UpTo(room, rows)
<1> DEFINE next == seen \o more
<1>1. Len(rows) \in Nat BY LenProperties DEF IsSequence
<1>2. RowsShown \in Nat BY PreviewAssumption
<1>3. room \in Nat BY <1>2
<1> HIDE DEF room
<1>4. /\ IsSequence(more) /\ Range(more) \subseteq Range(rows)
      /\ Len(more) = IF Len(rows) <= room THEN Len(rows) ELSE room
    BY <1>3, UpToRoom
<1> HIDE DEF more
<1>5. /\ IsSequence(next) /\ Range(next) \subseteq Range(seen) \cup Range(more)
      /\ Len(next) = Len(seen) + Len(more)
    BY <1>4, SequencesJoined
<1> HIDE DEF next
<1>6. Len(next) = IF would + Len(rows) < RowsShown THEN would + Len(rows) ELSE RowsShown
    <2>1. PICK l \in Nat, n \in Nat : n = Len(rows) /\ l = Len(seen) BY <1>1, <1>2
    <2>2. l = IF would < RowsShown THEN would ELSE RowsShown BY <2>1
    <2>3. Len(next) = l + IF n <= RowsShown - l THEN n ELSE RowsShown - l BY <1>4, <1>5, <2>1 DEF room
    <2>4. Len(next) = IF would + n < RowsShown THEN would + n ELSE RowsShown BY <1>2, <2>2, <2>3
    <2> QED BY <2>1, <2>4
<1>7. \A row \in Range(next) : row.kind = kind /\ Sound(definition, row) BY <1>4, <1>5
<1>8. would + Len(rows) \in Nat BY <1>1
<1> QED BY <1>5, <1>6, <1>7, <1>8 DEF next, more, room

LEMMA PreviewBegins == PreviewInit => PreviewInv
<1> SUFFICES ASSUME PreviewInit PROVE PreviewInv OBVIOUS
<1>1. file \in Files /\ mapping \in Mappings /\ phase = "uploaded" /\ offset = 0
      /\ issues = {} /\ rejected_lines = {}
    BY DEF PreviewInit
<1>2. offset \in 0 .. Sampled BY <1>1, SampleOfFile
<1>3. rejected_lines = RejectedOf(mapping, file, offset) BY <1>1 DEF RejectedOf
<1>4. \A kind \in Kinds : ShownOf(kind)
    <2> TAKE kind \in Kinds
    <2>1. would_import[kind] = 0 /\ shown[kind] = <<>> BY DEF PreviewInit
    <2>2. Len(<<>>) = 0 /\ Range(<<>>) = {} /\ IsSequence(<<>>) BY DEF Range, IsSequence
    <2>3. RowsShown \in Nat BY PreviewAssumption
    <2> QED BY <2>1, <2>2, <2>3 DEF ShownOf
<1> QED BY <1>1, <1>2, <1>3, <1>4 DEF PreviewInv

\* What a step that reads no record leaves as it was
LEMMA NothingRead ==
    ASSUME PreviewInv, UNCHANGED <<file, mapping, Reported>>,
           phase' \in {"uploaded", "profiled", "refused", "reading", "answered"},
           phase' \in {"reading", "answered"} => Validate(mapping) = {}
    PROVE  PreviewInv'
<1>1. /\ file' = file /\ mapping' = mapping /\ offset' = offset /\ would_import' = would_import
      /\ shown' = shown /\ issues' = issues /\ rejected_lines' = rejected_lines
    BY DEF Reported
<1>2. Sampled' = Sampled BY <1>1 DEF Sampled
<1>3. \A kind \in Kinds : ShownOf(kind)' BY <1>1 DEF PreviewInv, ShownOf
<1> QED BY <1>1, <1>2, <1>3 DEF PreviewInv

LEMMA RecordRead ==
    ASSUME PreviewInv, PreviewRecord
    PROVE  PreviewInv'
<1> DEFINE line == offset + 1
<1> DEFINE result == Normalize(mapping, file[line])
<1> DEFINE Rows(kind) == RowsOfKind(result.rows, kind)
<1>1. /\ phase = "reading" /\ offset < Sampled /\ offset' = line
      /\ file' = file /\ mapping' = mapping /\ phase' = phase
      /\ would_import' = [kind \in Kinds |-> would_import[kind] + Len(Rows(kind))]
      /\ shown' = [kind \in Kinds |-> shown[kind] \o UpTo(RowsShown - Len(shown[kind]), Rows(kind))]
      /\ issues' = issues \cup {[line |-> line, issue |-> issue] : issue \in result.issues}
      /\ rejected_lines' = rejected_lines \cup (IF Rejected(result.issues) THEN {line} ELSE {})
    BY DEF PreviewRecord, UpTo
<1>2. file \in Files /\ Valid(mapping) BY <1>1, ValidMapping DEF PreviewInv
<1>3. offset \in Nat /\ Sampled \in Nat /\ Sampled <= Len(file) /\ Len(file) \in Nat
    BY <1>2, SampleOfFile, PreviewAssumption DEF PreviewInv
<1>4. line \in 1 .. Len(file) /\ line \in 0 .. Sampled BY <1>1, <1>3
<1>5. file[line] \in Values BY <1>2, <1>4, RecordIsValue
<1>6. \A issue \in result.issues : issue.code # "MAPPING_UNSUPPORTED_PATH" BY <1>2, <1>5, NormalizeIssues
<1>7. ASSUME NEW kind
      PROVE  /\ IsSequence(Rows(kind)) /\ Len(Rows(kind)) \in Nat
             /\ \A row \in Range(Rows(kind)) : row.kind = kind /\ Sound(mapping, row)
    <2>1. PICK record \in Values : record = file[line] BY <1>5
    <2>2. SoundRows(RowsOfKind(Normalize(mapping, record).rows, kind), kind, mapping, record)
        BY <1>2, RowsOfKindSound
    <2>3. SoundRows(Rows(kind), kind, mapping, record) BY <2>1, <2>2
    <2> HIDE DEF Rows
    <2> QED BY <2>3 DEF SoundRows
<1> HIDE DEF result
<1>8. \A found \in issues' : found.issue.code # "MAPPING_UNSUPPORTED_PATH"
    <2> TAKE found \in issues'
    <2>1. found \in issues \/ \E issue \in result.issues : found = [line |-> line, issue |-> issue]
        BY <1>1
    <2> QED BY <1>6, <2>1 DEF PreviewInv
<1>9. rejected_lines' = RejectedOf(mapping, file, line)
    <2>1. rejected_lines = RejectedOf(mapping, file, offset) BY DEF PreviewInv
    <2>2. 1 .. line = (1 .. offset) \cup {line} BY <1>3
    <2>3. RejectedOf(mapping, file, line)
            = RejectedOf(mapping, file, offset) \cup (IF Rejected(result.issues) THEN {line} ELSE {})
        BY <2>2 DEF RejectedOf, result
    <2> QED BY <1>1, <2>1, <2>3
<1> HIDE DEF Rows, line
<1>10. ASSUME NEW kind \in Kinds PROVE ShownOf(kind)'
    <2> DEFINE next == shown[kind] \o UpTo(RowsShown - Len(shown[kind]), Rows(kind))
    <2>1. /\ would_import'[kind] = would_import[kind] + Len(Rows(kind))
          /\ shown'[kind] = next
        BY <1>1
    <2>2. ShownOf(kind) BY DEF PreviewInv
    <2>3. /\ IsSequence(next) /\ would_import[kind] + Len(Rows(kind)) \in Nat
          /\ Len(next) = IF would_import[kind] + Len(Rows(kind)) < RowsShown
                         THEN would_import[kind] + Len(Rows(kind)) ELSE RowsShown
          /\ \A row \in Range(next) : row.kind = kind /\ Sound(mapping, row)
        BY <1>7, <2>2, ShownGrows DEF ShownOf
    <2> HIDE DEF next
    <2> QED BY <1>1, <2>1, <2>3 DEF ShownOf
<1>11. Sampled' = Sampled BY <1>1 DEF Sampled
<1> QED BY <1>1, <1>4, <1>8, <1>9, <1>10, <1>11 DEF PreviewInv

LEMMA PreviewGoesOn == PreviewInv /\ [PreviewNext]_previewVars => PreviewInv'
<1> SUFFICES ASSUME PreviewInv, [PreviewNext]_previewVars PROVE PreviewInv' OBVIOUS
<1>1. CASE ProfileFile BY <1>1, NothingRead DEF ProfileFile
<1>2. CASE Refuse BY <1>2, NothingRead DEF Refuse
<1>3. CASE Accept BY <1>3, NothingRead DEF Accept
<1>4. CASE PreviewRecord BY <1>4, RecordRead
<1>5. CASE Answer
    <2>1. Validate(mapping) = {} BY <1>5 DEF Answer, PreviewInv
    <2> QED BY <1>5, <2>1, NothingRead DEF Answer
<1>6. CASE UNCHANGED previewVars
    <2>1. UNCHANGED <<file, mapping, Reported>> /\ phase' = phase BY <1>6 DEF previewVars, Reported
    <2> QED BY <2>1, NothingRead DEF PreviewInv
<1> QED BY <1>1, <1>2, <1>3, <1>4, <1>5, <1>6 DEF PreviewNext

\* What holds of a preview at every step of it.
THEOREM PreviewInvariant == PreviewSpec => []PreviewInv
<1>1. PreviewInit => PreviewInv BY PreviewBegins
<1>2. PreviewInv /\ [PreviewNext]_previewVars => PreviewInv' BY PreviewGoesOn
<1> QED BY <1>1, <1>2, PTL DEF PreviewSpec

\* Type correctness: a preview reads no more than its sample, and shows as many rows of
\* a kind as there are or as fit.
THEOREM PreviewTypeCorrect == PreviewSpec => []PreviewTypeOK
<1>1. PreviewInv => PreviewTypeOK
    <2> SUFFICES ASSUME PreviewInv PROVE PreviewTypeOK OBVIOUS
    <2>1. Sampled \in 0 .. SampleSize /\ SampleSize \in Nat BY SampleOfFile, PreviewAssumption DEF PreviewInv
    <2>2. offset \in 0 .. SampleSize BY <2>1 DEF PreviewInv
    <2>3. rejected_lines \subseteq 1 .. offset BY DEF PreviewInv, RejectedOf
    <2> QED BY <2>2, <2>3 DEF PreviewInv, PreviewTypeOK, ShownOf
<1> QED BY <1>1, PreviewInvariant, PTL

--------------------------------------------------------------------------------
(* What is promised of a preview *)

\* What is read of the file at a phase where a record has been read
LEMMA AcceptedPreview ==
    ASSUME PreviewInv, phase \in {"reading", "answered"}
    PROVE  /\ Valid(mapping)
           /\ \A record \in Range(file) : record \in Values
           /\ \A line \in 1 .. offset : line \in 1 .. Len(file) /\ file[line] \in Values
<1>1. file \in Files /\ mapping \in Mappings /\ Validate(mapping) = {} BY DEF PreviewInv
<1>2. Valid(mapping) BY <1>1, ValidMapping
<1>3. offset \in Nat /\ offset <= Sampled /\ Sampled <= Len(file) /\ Len(file) \in Nat
      /\ Sampled \in Nat
    BY <1>1, SampleOfFile, PreviewAssumption DEF PreviewInv
<1>4. \A line \in 1 .. offset : line \in 1 .. Len(file) BY <1>3
<1>5. \A line \in 1 .. Len(file) : file[line] \in Values BY <1>1, RecordIsValue
<1>6. DOMAIN file = 1 .. Len(file) BY <1>1, FilesAssumption, LenProperties
<1>7. \A record \in Range(file) : record \in Values BY <1>5, <1>6 DEF Range
<1> QED BY <1>2, <1>4, <1>5, <1>7

\* The field of a rule that is asked for no answer, where it finds nothing
LEMMA NothingFound ==
    ASSUME NEW entity, NEW rule \in Range(entity.fields), NEW row,
           Accepts(entity), Shaped(entity), FindsNothing(rule, row, Prefix(entity)),
           \A op \in Range(rule.operators) : ~Answers(op)
    PROVE  Field(rule, row, Prefix(entity)) = OfNothing(rule)
<1>1. FieldErrors(rule, Prefix(entity), entity) = {} BY AcceptedEntity
<1>2. /\ IsSequence(rule.operators) /\ rule.required \in BOOLEAN
      /\ \A op \in Range(rule.operators) :
            WellShaped(op, "sources") => IsSequence(op.sources)
    BY DEF Shaped
<1> DEFINE broken == \E op \in Range(rule.operators) : RunsOverNull(op)
           made == ApplyField(rule, row, Prefix(entity))
<1>3. Comes(made, broken) BY <1>1, <1>2, NothingComesOut
<1>4. /\ Returns(Null).value = Null /\ Returns(Null).code = "none"
      /\ Raises("OPERATOR_FAILED").value = Null /\ Raises("OPERATOR_FAILED").code = "OPERATOR_FAILED"
    BY DEF Returns, Raises, Outcome
<1>5. OfNothing(rule) =
         IF broken THEN Issue(IF rule.required THEN "rejected" ELSE "warning", "OPERATOR_FAILED")
         ELSE IF rule.required THEN Issue("rejected", "MISSING_REQUIRED_FIELD") ELSE Returns(Null)
    BY DEF OfNothing
<1>6. ASSUME made.value = Null
      PROVE  Field(rule, row, Prefix(entity)) =
                CASE made.code = "TYPE_MISMATCH" -> Issue("rejected", "TYPE_MISMATCH")
                  [] made.code \notin {"none", "TYPE_MISMATCH"} ->
                        Issue(IF rule.required THEN "rejected" ELSE "warning", made.code)
                  [] made = Returns(Null) /\ rule.required ->
                        Issue("rejected", "MISSING_REQUIRED_FIELD")
                  [] OTHER -> made
    BY <1>6 DEF Field
<1> HIDE DEF broken, made
<1>7. CASE broken
    <2>1. made = Raises("OPERATOR_FAILED") BY <1>3, <1>7 DEF Comes
    <2>2. made.value = Null /\ made.code = "OPERATOR_FAILED" BY <1>4, <2>1
    <2>3. made # Returns(Null) BY <1>4, <2>2
    <2> QED BY <1>5, <1>6, <1>7, <2>2, <2>3
<1>8. CASE ~broken
    <2>1. made = Returns(Null) /\ made.value = Null /\ made.code = "none" BY <1>3, <1>4, <1>8 DEF Comes
    <2>2. CASE rule.required BY <1>5, <1>6, <1>8, <2>1, <2>2
    <2>3. CASE ~rule.required BY <1>5, <1>6, <1>8, <2>1, <2>3
    <2> QED BY <2>2, <2>3
<1> QED BY <1>7, <1>8

\* A mapping that was accepted fails for one reason only that was in the mapping: its
\* paths are never refused, and its operators make nothing of nothing, unless one of
\* them has a null for its sources, its table or its algorithm (mapping_validator.py:70).
THEOREM AcceptedMappingsRun == PreviewSpec => []ValidMappingsRun
<1>1. PreviewInv => ValidMappingsRun
    <2> SUFFICES ASSUME PreviewInv, phase \in {"reading", "answered"}
                 PROVE  ValidMappingsRun
        BY DEF ValidMappingsRun
    <2>1. \A found \in issues : found.issue.code # "MAPPING_UNSUPPORTED_PATH" BY DEF PreviewInv
    <2>2. Valid(mapping) BY AcceptedPreview
    <2>3. ASSUME NEW record \in Range(file), NEW entity \in Range(mapping),
                 NEW row \in Range(RowsOf(entity, record).rows), NEW rule \in Range(entity.fields),
                 FindsNothing(rule, row, Prefix(entity)),
                 \A op \in Range(rule.operators) : ~Answers(op)
          PROVE  Field(rule, row, Prefix(entity)) = OfNothing(rule)
        BY <2>2, <2>3, NothingFound DEF Valid
    <2> QED BY <2>1, <2>3 DEF ValidMappingsRun
<1> QED BY <1>1, PreviewInvariant, PTL

\* A line is rejected exactly when a row it holds is not built, a list is not reached or a
\* session is refused: nothing is lost in silence, nothing complete is reported.
THEOREM NothingIsLost == PreviewSpec => []NothingLostInSilence
<1>1. PreviewInv => NothingLostInSilence
    <2> SUFFICES ASSUME PreviewInv, phase \in {"reading", "answered"}, NEW line \in 1 .. offset
                 PROVE  LET record == file[line]
                        IN line \in rejected_lines <=>
                              \/ Len(Normalize(mapping, record).rows) < Expected(record)
                              \/ \E e \in Range(mapping) : RowsOf(e, record).wrong
                              \/ RefusesSession(record)
        BY DEF NothingLostInSilence
    <2>1. Valid(mapping) /\ file[line] \in Values BY AcceptedPreview
    <2>2. line \in rejected_lines <=> Rejected(Normalize(mapping, file[line]).issues)
        BY DEF PreviewInv, RejectedOf
    <2> DEFINE record == file[line]
    <2>3. record \in Values BY <2>1
    <2> HIDE DEF record
    <2>4. Rejected(Normalize(mapping, record).issues) <=>
             \/ Len(Normalize(mapping, record).rows) < ExpectedBy(mapping, record)
             \/ \E entity \in Range(mapping) : RowsOf(entity, record).wrong
             \/ \E entity \in Range(mapping) : entity.target = "session" /\ RefusesRow(entity, record)
        BY <2>1, <2>3, RejectedExactly
    <2>5. \A kind : Held(kind, record) = HeldBy(mapping, kind, record) BY DEF Held, HeldBy
    <2>6. Expected(record) = ExpectedBy(mapping, record) BY <2>5 DEF Expected, ExpectedBy
    <2>7. RefusesSession(record) <=>
             \E entity \in Range(mapping) : entity.target = "session" /\ RefusesRow(entity, record)
        BY DEF RefusesSession, RefusesRow
    <2>8. line \in rejected_lines <=> Rejected(Normalize(mapping, record).issues) BY <2>2 DEF record
    <2>9. line \in rejected_lines <=>
             \/ Len(Normalize(mapping, record).rows) < Expected(record)
             \/ \E e \in Range(mapping) : RowsOf(e, record).wrong
             \/ RefusesSession(record)
        BY <2>4, <2>6, <2>7, <2>8
    <2> QED BY <2>9 DEF record
<1> QED BY <1>1, PreviewInvariant, PTL

\* A row that can be stored: its index is a place in the source list, its other fields are
\* those of the row in that place
InItsPlace(row, entity, record) ==
    LET index == row.data.sequence_index[2]
        rows == RowsOf(entity, record).rows
    IN /\ index + 1 \in 1 .. Len(rows)
       /\ \A field \in DOMAIN row.data \ {"sequence_index"} :
             row.data[field] = Get(ApplyEntity(entity, rows[index + 1]).data, field)

\* One entity has the target
OnlyOne(definition, target) ==
    Cardinality({i \in 1 .. Len(definition) : definition[i].target = target}) = 1

LEMMA OnlyEntity ==
    ASSUME NEW definition, NEW entity \in Range(definition), NEW e \in 1 .. Len(definition),
           Valid(definition), OnlyOne(definition, entity.target),
           definition[e].target = entity.target
    PROVE  definition[e] = entity
<1> DEFINE S == {i \in 1 .. Len(definition) : definition[i].target = entity.target}
<1>1. Len(definition) \in Nat /\ DOMAIN definition = 1 .. Len(definition) BY ValidEntities
<1>2. IsFiniteSet(1 .. Len(definition))
    <2>1. 1 \in Int /\ Len(definition) \in Int BY <1>1
    <2> QED BY <2>1, FS_Interval
<1>3. IsFiniteSet(S) BY <1>2, FS_Subset
<1>4. PICK d \in 1 .. Len(definition) : definition[d] = entity BY <1>1 DEF Range
<1>5. e \in S /\ d \in S BY <1>4
<1>6. Cardinality(S) = 1 BY DEF OnlyOne
<1> HIDE DEF S
<1>7. PICK x : S = {x} BY <1>3, <1>6, FS_Singleton
<1> QED BY <1>4, <1>5, <1>7

\* The rows of the calls whose mapping gives no index
LEMMA CallIsInItsPlace ==
    ASSUME NEW definition, NEW entity \in Range(definition), NEW record, NEW row,
           Valid(definition), MadeOf(row, definition, record), row.kind = entity.target,
           IsCall(entity.target), OnlyOne(definition, entity.target),
           "sequence_index" \notin {rule.target : rule \in Range(entity.fields)}
    PROVE  InItsPlace(row, entity, record)
<1>0. PICK x : \E e \in 1 .. Len(definition) :
         /\ ComesFrom(x, definition[e], record) /\ row.kind = x.entity
         /\ row.data = IF x.entity = "session" THEN x.data ELSE SequenceNumbered(x)
    BY DEF MadeOf
<1>1. PICK e \in 1 .. Len(definition) :
         /\ ComesFrom(x, definition[e], record) /\ row.kind = x.entity
         /\ row.data = IF x.entity = "session" THEN x.data ELSE SequenceNumbered(x)
    BY <1>0
<1>2. FieldsOf(x.data, definition[e]) /\ x.entity = definition[e].target
    BY <1>1, EntryIsTyped
<1>3. definition[e] = entity BY <1>1, <1>2, OnlyEntity
<1>4. entity.target # "session" BY DEF IsCall, TARGET_FIELDS
<1>5. row.data = SequenceNumbered(x) BY <1>1, <1>4
<1> DEFINE rows == RowsOf(entity, record).rows
<1>6. PICK i \in 1 .. Len(rows) :
         x.data = ApplyEntity(entity, rows[i]).data /\ x.source_index = i - 1
    BY <1>1, <1>3 DEF ComesFrom
<1>7. "sequence_index" \notin DOMAIN x.data BY <1>2, <1>3 DEF FieldsOf
<1> HIDE DEF rows
<1>8. /\ DOMAIN row.data = DOMAIN x.data \cup {"sequence_index"}
      /\ row.data["sequence_index"] = <<"int", i - 1>>
      /\ \A field \in DOMAIN row.data \ {"sequence_index"} :
            field \in DOMAIN x.data /\ row.data[field] = x.data[field]
    BY <1>5, <1>6, <1>7 DEF SequenceNumbered
<1>9. row.data.sequence_index[2] = i - 1
    <2>1. row.data.sequence_index = <<"int", i - 1>> BY <1>8
    <2> QED BY <2>1
<1>10. (i - 1) + 1 = i OBVIOUS
<1>11. \A field \in DOMAIN row.data \ {"sequence_index"} :
          row.data[field] = Get(ApplyEntity(entity, rows[i]).data, field)
    BY <1>6, <1>8 DEF Get
<1> QED BY <1>9, <1>10, <1>11 DEF InItsPlace, rows

\* The rows shown have the types of their fields and their natural key, and a call that
\* is given no index keeps its place in the source list.
THEOREM PreviewedRowsAreSound == PreviewSpec => []RowsAreSound
<1>1. PreviewInv => ShownRowsAreSound
    BY DEF PreviewInv, ShownOf, ShownRowsAreSound, Sound, TypedData
<1>2. PreviewInv => SourcePositionsAreKept
    <2> SUFFICES ASSUME PreviewInv, phase = "reading", offset > 0, NEW entity \in Range(mapping),
                        IsCall(entity.target), OnlyOne(mapping, entity.target),
                        "sequence_index" \notin {rule.target : rule \in Range(entity.fields)},
                        NEW row \in Range(RowsOfKind(Normalize(mapping, file[offset]).rows, entity.target))
                 PROVE  InItsPlace(row, entity, file[offset])
        BY DEF SourcePositionsAreKept, OnlyOne, InItsPlace
    <2>1. offset \in 1 .. offset
        <3>1. file \in Files BY DEF PreviewInv
        <3>2. Sampled \in Int /\ offset \in 0 .. Sampled BY <3>1, SampleOfFile DEF PreviewInv
        <3> QED BY <3>2
    <2>2. Valid(mapping) /\ file[offset] \in Values BY <2>1, AcceptedPreview
    <2> DEFINE record == file[offset]
    <2>3. record \in Values BY <2>2
    <2>4. row \in Range(RowsOfKind(Normalize(mapping, record).rows, entity.target)) OBVIOUS
    <2> HIDE DEF record
    <2>5. SoundRows(RowsOfKind(Normalize(mapping, record).rows, entity.target), entity.target,
                    mapping, record)
        BY <2>2, <2>3, RowsOfKindSound
    <2>6. row.kind = entity.target /\ MadeOf(row, mapping, record) BY <2>4, <2>5 DEF SoundRows
    <2>7. InItsPlace(row, entity, record) BY <2>2, <2>6, CallIsInItsPlace
    <2> QED BY <2>7 DEF record
<1>3. PreviewInv => RowsAreSound BY <1>1, <1>2 DEF RowsAreSound
<1> QED BY <1>3, PreviewInvariant, PTL

--------------------------------------------------------------------------------
(***************************************************************************)
(* What is sent to a provider.  A word of a body stands in a whole secret, *)
(* no secret reaches over the place where the redaction is, so that what   *)
(* it leaves is clean; cutting it and numbering it keep it clean, and so   *)
(* does building lists and objects of what is clean.                       *)
(***************************************************************************)

\* A text without a word of a body
Clean(text) == IsSequence(text) /\ Range(text) \cap Body = {}

LEMMA SecretWords ==
    /\ IsSequence(Secret) /\ Len(Secret) \in Nat \ {0} /\ Secret[1] \notin Body
    /\ \A k \in 2 .. Len(Secret) : Secret[k] \in Body
<1>1. Secret \in Seq(Range(Secret)) /\ Secret # <<>> /\ Head(Secret) \notin Body BY SanitizerAssumption
<1>2. Len(Secret) \in Nat \ {0} BY <1>1, EmptySeq
<1>3. Head(Secret) = Secret[1] BY <1>1
<1>4. ASSUME NEW k \in 2 .. Len(Secret) PROVE Secret[k] \in Body
    <2> DEFINE s == Tail(Secret)
    <2>1. s \in Seq(Range(Secret)) /\ Len(s) = Len(Secret) - 1 /\ \A i \in 1 .. Len(s) : s[i] = Secret[i + 1]
        BY <1>1, HeadTailProperties
    <2>2. DOMAIN s = 1 .. Len(s) BY <2>1, LenProperties
    <2> HIDE DEF s
    <2>3. k - 1 \in 1 .. Len(s) /\ (k - 1) + 1 = k BY <1>2, <2>1
    <2>4. s[k - 1] = Secret[k] BY <2>1, <2>3
    <2>5. s[k - 1] \in Range(s) BY <2>2, <2>3 DEF Range
    <2> QED BY <2>4, <2>5 DEF Body, s
<1> QED BY <1>1, <1>2, <1>3, <1>4 DEF IsSequence

\* The words of a secret stand where it starts
LEMMA StartsThere ==
    ASSUME NEW text, IsSequence(text), NEW i \in 1 .. Len(text), StartsAt(text, i, Secret)
    PROVE  /\ i + Len(Secret) <= Len(text) + 1
           /\ \A k \in 1 .. Len(Secret) : text[i + k - 1] = Secret[k]
<1> DEFINE rest == SubSeq(text, i, Len(text))
<1> DEFINE n == Len(Secret)
<1>1. text \in Seq(Range(text)) /\ Len(text) \in Nat BY LenProperties DEF IsSequence
<1>2. n \in Nat /\ Secret \in Seq(Range(Secret)) BY SecretWords DEF IsSequence
<1>3. \A k \in i .. Len(text) : text[k] \in Range(text)
    <2>1. \A k \in i .. Len(text) : k \in 1 .. Len(text) BY <1>1
    <2> QED BY <1>1, <2>1, ElementOfSeq
<1>4. /\ rest \in Seq(Range(text)) /\ Len(rest) = Len(text) - i + 1
      /\ \A k \in 1 .. Len(text) - i + 1 : rest[k] = text[i + k - 1]
    BY <1>1, <1>3, SubSeqProperties
<1>5. n <= Len(rest) /\ SubSeq(Secret, 1, n) = SubSeq(rest, 1, n) BY DEF StartsAt, IsPrefix
<1>6. SubSeq(Secret, 1, n) = Secret BY <1>2, SubSeqFull
<1> HIDE DEF rest
<1>7. \A k \in 1 .. n : k \in 1 .. Len(rest) BY <1>1, <1>2, <1>4, <1>5
<1>8. \A k \in 1 .. n : rest[k] \in Range(text) BY <1>4, <1>7, ElementOfSeq
<1>9. \A k \in 1 .. n - 1 + 1 : SubSeq(rest, 1, n)[k] = rest[1 + k - 1] BY <1>2, <1>8, SubSeqProperties
<1>10. n <= Len(text) - i + 1 BY <1>4, <1>5
<1> HIDE DEF n
<1>11. ASSUME NEW k \in 1 .. n PROVE text[i + k - 1] = Secret[k]
    <2>1. k \in 1 .. n - 1 + 1 /\ 1 + k - 1 = k /\ k \in 1 .. Len(text) - i + 1 BY <1>1, <1>2, <1>10
    <2>2. SubSeq(rest, 1, n)[k] = rest[k] BY <1>9, <2>1
    <2>3. rest[k] = text[i + k - 1] BY <1>4, <2>1
    <2> QED BY <1>5, <1>6, <2>2, <2>3
<1>12. i + n <= Len(text) + 1 BY <1>1, <1>2, <1>10
<1> QED BY <1>11, <1>12 DEF n

\* No secret that starts before a place reaches over it
Apart(text, i) ==
    \A j \in 1 .. Len(text) : StartsAt(text, j, Secret) => ~(j < i /\ i < j + Len(Secret))

\* g holds what is made of a text from each place on
Redacts(g, text) ==
    g = [i \in 1 .. Len(text) + 1 |->
            IF i > Len(text) THEN <<>>
            ELSE IF StartsAt(text, i, Secret) THEN <<"[REDACTED]">> \o g[i + Len(Secret)]
            ELSE <<text[i]>> \o g[i + 1]]

LEMMA RedactedIsChosen ==
    ASSUME NEW text
    PROVE  Redacted(text) = (CHOOSE g : Redacts(g, text))[1]
BY DEF Redacted, Redacts

LEMMA RedactionsExist ==
    ASSUME NEW text, IsSequence(text)
    PROVE  \E g : Redacts(g, text)
<1> DEFINE last == Len(text) + 1
<1> DEFINE Part(g, i) == IF i > Len(text) THEN <<>>
                         ELSE IF StartsAt(text, i, Secret) THEN <<"[REDACTED]">> \o g[i + Len(Secret)]
                         ELSE <<text[i]>> \o g[i + 1]
<1> DEFINE From(g, n) == \A i \in 1 .. last : i + n >= last => g[i] = Part(g, i)
<1> DEFINE P == {n \in Nat : \E g : From(g, n)}
<1>1. Len(text) \in Nat BY LenProperties DEF IsSequence
<1>2. \A i \in 1 .. Len(text) : StartsAt(text, i, Secret) => i + Len(Secret) <= last /\ i + Len(Secret) > i
    <2>1. \A i \in 1 .. Len(text) : StartsAt(text, i, Secret) => i + Len(Secret) <= last
        BY StartsThere
    <2>2. Len(Secret) \in Nat \ {0} BY SecretWords
    <2> HIDE DEF last
    <2> QED BY <1>1, <2>1, <2>2
<1>3. ASSUME NEW g, NEW h, NEW m \in Int, NEW i \in 1 .. last, i + m >= last,
             \A j \in 1 .. last : j + m > last => g[j] = h[j]
      PROVE  Part(g, i) = Part(h, i)
    <2>1. CASE i > Len(text) BY <2>1
    <2>2. CASE i <= Len(text) /\ StartsAt(text, i, Secret)
        <3>1. i \in 1 .. Len(text) BY <1>1, <2>2
        <3>2. Len(Secret) \in Nat \ {0} BY SecretWords
        <3>3. i + Len(Secret) \in 1 .. last /\ (i + Len(Secret)) + m > last
            <4>1. i + Len(Secret) <= last BY <1>2, <2>2, <3>1
            <4> QED BY <1>1, <1>3, <3>1, <3>2, <4>1
        <3>4. g[i + Len(Secret)] = h[i + Len(Secret)] BY <1>3, <3>3
        <3> HIDE DEF last
        <3> QED BY <2>2, <3>4, <1>1
    <2>3. CASE i <= Len(text) /\ ~StartsAt(text, i, Secret)
        <3>1. i + 1 \in 1 .. last /\ (i + 1) + m > last BY <1>1, <1>3, <2>3
        <3>2. g[i + 1] = h[i + 1] BY <1>3, <3>1
        <3> HIDE DEF last
        <3> QED BY <2>3, <3>2, <1>1
    <2> QED BY <2>1, <2>2, <2>3, <1>1
<1> HIDE DEF Part, last
<1>4. last \in Nat BY <1>1 DEF last
<1>5. 0 \in P
    <2> DEFINE g == [i \in 1 .. last |-> <<>>]
    <2>1. ASSUME NEW i \in 1 .. last, i + 0 >= last PROVE g[i] = Part(g, i)
        <3>1. i > Len(text) BY <1>1, <2>1 DEF last
        <3> QED BY <3>1 DEF Part
    <2> HIDE DEF g
    <2>2. From(g, 0) BY <2>1
    <2> QED BY <2>2
<1>6. ASSUME NEW n \in P PROVE n + 1 \in P
    <2>1. PICK g : From(g, n) OBVIOUS
    <2> DEFINE h == [i \in 1 .. last |-> Part(g, i)]
    <2>2. \A j \in 1 .. last : j + n >= last => g[j] = h[j] BY <2>1
    <2>3. \A j \in 1 .. last : j + (n + 1) > last => g[j] = h[j] BY <2>2, <1>4
    <2>4. ASSUME NEW i \in 1 .. last, i + (n + 1) >= last PROVE h[i] = Part(h, i)
        <3>1. h[i] = Part(g, i) OBVIOUS
        <3> HIDE DEF h
        <3>2. n + 1 \in Int OBVIOUS
        <3>3. Part(g, i) = Part(h, i) BY <1>3, <2>3, <2>4, <3>2
        <3> QED BY <3>1, <3>3
    <2> HIDE DEF h
    <2>5. From(h, n + 1) BY <2>4
    <2> HIDE DEF From
    <2> QED BY <2>5
<1> HIDE DEF P
<1>7. P = Nat
    <2>1. P \in SUBSET Nat BY DEF P
    <2> QED BY <1>5, <1>6, <2>1, NatInduct
<1>8. PICK g : From(g, last) BY <1>4, <1>7 DEF P
<1> DEFINE h == [i \in 1 .. last |-> Part(g, i)]
<1>9. \A i \in 1 .. last : g[i] = h[i] BY <1>4, <1>8
<1>10. ASSUME NEW i \in 1 .. last PROVE h[i] = Part(h, i)
    <2>1. h[i] = Part(g, i) OBVIOUS
    <2> HIDE DEF h
    <2>2. last \in Int /\ i + last >= last BY <1>4
    <2>3. Part(g, i) = Part(h, i) BY <1>3, <1>9, <2>2
    <2> QED BY <2>1, <2>3
<1>11. h = [i \in 1 .. last |-> h[i]] OBVIOUS
<1> HIDE DEF h
<1>12. h = [i \in 1 .. last |-> Part(h, i)] BY <1>10, <1>11
<1>13. Redacts(h, text) BY <1>12 DEF Redacts, Part, last
<1> QED BY <1>13

LEMMA MarkersAreClean == \A word \in Markers : word \notin Body
<1>1. Secret \in Seq(Range(Secret)) /\ Secret # <<>> /\ Range(Secret) \cap Markers = {}
    BY SanitizerAssumption
<1>2. Tail(Secret) \in Seq(Range(Secret)) BY <1>1, HeadTailProperties
<1>3. Body \subseteq Range(Secret) BY <1>2, RangeOfSeq DEF Body
<1> QED BY <1>1, <1>3

LEMMA CleanNothing == Clean(<<>>)
<1>1. Range(<<>>) = {} /\ IsSequence(<<>>) BY DEF Range, IsSequence
<1> QED BY <1>1 DEF Clean

LEMMA CleanWord ==
    ASSUME NEW word, word \notin Body
    PROVE  Clean(<<word>>)
<1>1. <<word>> \in Seq({word}) OBVIOUS
<1>2. IsSequence(<<word>>) /\ Range(<<word>>) \subseteq {word} BY <1>1, AnySequence, RangeOfSeq
<1> QED BY <1>2 DEF Clean

LEMMA CleanJoined ==
    ASSUME NEW s, NEW t, Clean(s), Clean(t)
    PROVE  Clean(s \o t)
<1>1. IsSequence(s) /\ IsSequence(t) /\ Range(s) \cap Body = {} /\ Range(t) \cap Body = {} BY DEF Clean
<1>2. IsSequence(s \o t) /\ Range(s \o t) \subseteq Range(s) \cup Range(t) BY <1>1, SequencesJoined
<1> QED BY <1>1, <1>2 DEF Clean

\* What is made of a text holds no word of a body
LEMMA RedactedIsClean ==
    ASSUME NEW text, Whole(text)
    PROVE  Clean(Redacted(text))
<1> DEFINE size == Len(text)
<1> DEFINE n == Len(Secret)
<1>1. IsSequence(text) BY DEF Whole, IsSequence
<1>2. size \in Nat BY <1>1, LenProperties DEF IsSequence
<1>3. n \in Nat \ {0} BY SecretWords
<1>4. PICK g : Redacts(g, text) /\ Redacted(text) = g[1] BY <1>1, RedactionsExist, RedactedIsChosen
<1>5. \A j \in 1 .. size : StartsAt(text, j, Secret) =>
            /\ j + n <= size + 1 /\ text[j] \notin Body
            /\ \A i \in j + 1 .. j + n - 1 : text[i] \in Body
    <2> TAKE j \in 1 .. size
    <2> HAVE StartsAt(text, j, Secret)
    <2>1. j + n <= size + 1 /\ \A k \in 1 .. n : text[j + k - 1] = Secret[k] BY <1>1, StartsThere
    <2> HIDE DEF size, n
    <2>2. text[j] = Secret[1]
        <3>1. 1 \in 1 .. n /\ j + 1 - 1 = j BY <1>2, <1>3
        <3> QED BY <2>1, <3>1
    <2>3. ASSUME NEW i \in j + 1 .. j + n - 1 PROVE text[i] \in Body
        <3>1. PICK k \in Int : k = i - j + 1 BY <1>2
        <3>2. k \in 1 .. n /\ k \in 2 .. n /\ j + k - 1 = i BY <1>2, <1>3, <3>1
        <3>3. text[i] = Secret[k] BY <2>1, <3>2
        <3> QED BY <3>2, <3>3, SecretWords DEF n
    <2> QED BY <2>1, <2>2, <2>3, SecretWords
<1> DEFINE P == {k \in Nat : \A i \in 1 .. size + 1 :
                    i + k >= size + 1 /\ Apart(text, i) => Clean(g[i])}
<1> HIDE DEF size, n
<1>6. g[size + 1] = <<>>
    <2>1. size + 1 \in 1 .. size + 1 /\ size + 1 > size BY <1>2
    <2> QED BY <1>4, <2>1 DEF Redacts, size
<1>7. 0 \in P
    <2>1. \A i \in 1 .. size + 1 : i + 0 >= size + 1 => i = size + 1 BY <1>2
    <2> QED BY <1>6, <2>1, CleanNothing
<1>8. ASSUME NEW k \in P PROVE k + 1 \in P
    <2>a. k \in Nat OBVIOUS
    <2>b. \A i \in 1 .. size + 1 : i + k >= size + 1 /\ Apart(text, i) => Clean(g[i]) OBVIOUS
    <2> HIDE DEF P
    <2> SUFFICES ASSUME NEW i \in 1 .. size + 1, i + (k + 1) >= size + 1, Apart(text, i)
                 PROVE  Clean(g[i])
        BY <2>a DEF P
    <2>1. CASE i > size
        <3>1. i = size + 1 BY <1>2, <2>1
        <3> QED BY <1>6, <3>1, CleanNothing
    <2>2. CASE i <= size /\ StartsAt(text, i, Secret)
        <3>1. i \in 1 .. size BY <1>2, <2>2
        <3>2. i + n <= size + 1 /\ \A m \in i + 1 .. i + n - 1 : text[m] \in Body BY <1>5, <2>2, <3>1
        <3>3. i + n \in 1 .. size + 1 /\ (i + n) + k >= size + 1 BY <1>2, <1>3, <2>a, <3>2
        <3>4. Apart(text, i + n)
            <4> SUFFICES ASSUME NEW j \in 1 .. size, StartsAt(text, j, Secret), j < i + n, i + n < j + n
                         PROVE  FALSE
                BY DEF Apart, size, n
            <4>1. j \in i + 1 .. i + n - 1 BY <1>2, <1>3
            <4> QED BY <1>5, <3>2, <4>1
        <3>5. g[i] = <<"[REDACTED]">> \o g[i + n]
            <4>1. ~(i > size) BY <1>2, <2>2
            <4> QED BY <1>4, <2>2, <4>1 DEF Redacts, size, n
        <3>6. Clean(g[i + n]) BY <2>b, <3>3, <3>4
        <3>7. Clean(<<"[REDACTED]">>) BY CleanWord, MarkersAreClean DEF Markers
        <3> QED BY <3>5, <3>6, <3>7, CleanJoined
    <2>3. CASE i <= size /\ ~StartsAt(text, i, Secret)
        <3>1. i \in 1 .. size BY <1>2, <2>3
        <3>2. i + 1 \in 1 .. size + 1 /\ (i + 1) + k >= size + 1 BY <1>2, <2>a, <2>3
        <3>3. \A j \in 1 .. size : StartsAt(text, j, Secret) => j # i /\ ~(j < i /\ i < j + n)
            BY <2>3 DEF Apart, size, n
        <3>4. Apart(text, i + 1)
            <4> SUFFICES ASSUME NEW j \in 1 .. size, StartsAt(text, j, Secret), j < i + 1, i + 1 < j + n
                         PROVE  FALSE
                BY DEF Apart, size, n
            <4>1. j # i => j < i /\ i < j + n BY <1>2, <1>3
            <4> QED BY <3>3, <4>1
        <3>5. text[i] \notin Body
            <4> SUFFICES ASSUME text[i] \in Body PROVE FALSE OBVIOUS
            <4>1. PICK j \in 1 .. i : StartsAt(text, j, Secret) /\ i < j + n
                BY <3>1 DEF Whole, size, n
            <4>2. j \in 1 .. size /\ (j # i => j < i) BY <1>2, <3>1
            <4> QED BY <3>3, <4>1, <4>2
        <3>6. g[i] = <<text[i]>> \o g[i + 1]
            <4>1. ~(i > size) BY <1>2, <2>3
            <4> QED BY <1>4, <2>3, <4>1 DEF Redacts, size, n
        <3>7. Clean(g[i + 1]) BY <2>b, <3>2, <3>4
        <3> QED BY <3>5, <3>6, <3>7, CleanWord, CleanJoined
    <2> QED BY <1>2, <2>1, <2>2, <2>3
<1> HIDE DEF P
<1>9. P = Nat
    <2>1. P \in SUBSET Nat BY DEF P
    <2> QED BY <1>7, <1>8, <2>1, NatInduct
<1>10. size \in P BY <1>2, <1>9
<1>11. Apart(text, 1) BY DEF Apart
<1>12. 1 \in 1 .. size + 1 /\ 1 + size >= size + 1 BY <1>2
<1>13. Clean(g[1]) BY <1>10, <1>11, <1>12 DEF P
<1> QED BY <1>4, <1>13

LEMMA TruncatedIsClean ==
    ASSUME NEW text, Clean(text)
    PROVE  Clean(Truncated(text))
<1>1. text \in Seq(Range(text)) /\ Len(text) \in Nat /\ Range(text) \cap Body = {}
    BY LenProperties DEF Clean, IsSequence
<1>2. MaxValueLength \in Nat \ {0} BY SanitizerAssumption
<1>3. ASSUME NEW m \in Int, m <= Len(text) PROVE Clean(SubSeq(text, 1, m))
    <2>1. \A i \in 1 .. m : i \in 1 .. Len(text) BY <1>1, <1>3
    <2>2. \A i \in 1 .. m : text[i] \in Range(text) BY <1>1, <2>1, ElementOfSeq
    <2>3. SubSeq(text, 1, m) \in Seq(Range(text)) BY <2>2, SubSeqProperties
    <2>4. IsSequence(SubSeq(text, 1, m)) /\ Range(SubSeq(text, 1, m)) \subseteq Range(text)
        BY <2>3, AnySequence, RangeOfSeq
    <2> QED BY <1>1, <2>4 DEF Clean
<1>4. CASE Len(text) <= MaxValueLength BY <1>4 DEF Truncated
<1>5. CASE ~(Len(text) <= MaxValueLength) /\ MaxValueLength <= 1
    <2>1. MaxValueLength \in Int /\ MaxValueLength <= Len(text) BY <1>1, <1>2, <1>5
    <2>2. Clean(SubSeq(text, 1, MaxValueLength)) BY <1>3, <2>1
    <2> QED BY <1>5, <2>2 DEF Truncated
<1>6. CASE ~(Len(text) <= MaxValueLength) /\ ~(MaxValueLength <= 1)
    <2> DEFINE start == SubSeq(text, 1, MaxValueLength - 1)
    <2>1. MaxValueLength - 1 \in Int /\ MaxValueLength - 1 <= Len(text) BY <1>1, <1>2, <1>6
    <2>2. Clean(start) BY <1>3, <2>1
    <2> HIDE DEF start
    <2>3. IsSequence(start) /\ Range(start) \cap Body = {} BY <2>2 DEF Clean
    <2>4. Clean(<<"[truncated]">>) BY CleanWord, MarkersAreClean DEF Markers
    <2>5. Append(start, "[truncated]") = start \o <<"[truncated]">>
        <3> DEFINE S == Range(start) \cup {"[truncated]"}
        <3>1. start \in Seq(Range(start)) /\ Range(start) \subseteq S BY <2>3 DEF IsSequence
        <3> HIDE DEF S
        <3>2. start \in Seq(S) BY <3>1, SeqMonotonic
        <3>3. "[truncated]" \in S BY DEF S
        <3> QED BY <3>2, <3>3, AppendIsConcat
    <2>6. Clean(start \o <<"[truncated]">>) BY <2>2, <2>4, CleanJoined
    <2>7. Truncated(text) = Append(start, "[truncated]") BY <1>6 DEF Truncated, start
    <2> QED BY <2>5, <2>6, <2>7
<1> QED BY <1>4, <1>5, <1>6

LEMMA SanitizedIsClean ==
    ASSUME NEW text, Whole(text)
    PROVE  Clean(SanitizeValue(text))
BY RedactedIsClean, TruncatedIsClean DEF SanitizeValue

\* A text without a word of a body has all of it in whole secrets
LEMMA CleanIsWhole ==
    ASSUME NEW text, Clean(text)
    PROVE  Whole(text)
<1>1. text \in Seq(Range(text)) /\ Range(text) \cap Body = {} BY DEF Clean, IsSequence
<1>2. \A i \in 1 .. Len(text) : text[i] \in Range(text) BY <1>1, ElementOfSeq
<1> QED BY <1>1, <1>2 DEF Whole

LEMMA NumberedIsClean ==
    ASSUME NEW key, Clean(key), NEW n \in Nat
    PROVE  Clean(Numbered(key, n)) /\ Len(Numbered(key, n)) = Len(key) + 1 + n /\ Len(key) \in Nat
<1> DEFINE strokes == [i \in 1 .. n |-> "|"]
<1>1. strokes \in Seq({"|"}) /\ Len(strokes) = n
    <2>1. strokes \in [1 .. n -> {"|"}] OBVIOUS
    <2> HIDE DEF strokes
    <2> QED BY <2>1
<1> HIDE DEF strokes
<1>2. IsSequence(strokes) /\ Range(strokes) \subseteq {"|"} BY <1>1, AnySequence, RangeOfSeq
<1>3. Clean(strokes) BY <1>2, MarkersAreClean DEF Clean, Markers
<1>4. Clean(<<"#">>) BY CleanWord, MarkersAreClean DEF Markers
<1> DEFINE start == key \o <<"#">>
<1>5. Clean(start) BY <1>4, CleanJoined
<1>6. Len(start) = Len(key) + Len(<<"#">>) /\ Len(key) \in Nat BY <1>4, SequencesJoined DEF Clean
<1>7. Len(start) = Len(key) + 1 BY <1>6
<1> HIDE DEF start
<1>8. Clean(start \o strokes) BY <1>3, <1>5, CleanJoined
<1>9. Len(start \o strokes) = Len(start) + Len(strokes) BY <1>3, <1>5, SequencesJoined DEF Clean
<1>10. Numbered(key, n) = start \o strokes BY DEF Numbered, start, strokes
<1> QED BY <1>1, <1>6, <1>7, <1>8, <1>9, <1>10

\* A name that is taken has a number that is not
LEMMA FreeKeyIsClean ==
    ASSUME NEW key, Clean(key), NEW taken, IsFiniteSet(taken)
    PROVE  Clean(FreeKey(key, taken))
<1> DEFINE last == Cardinality(taken) + 2
<1> DEFINE Free == {n \in 2 .. last : Numbered(key, n) \notin taken}
<1> DEFINE First(n) == Numbered(key, n) \notin taken /\ \A m \in 2 .. n - 1 : Numbered(key, m) \in taken
<1>1. Cardinality(taken) \in Nat BY FS_CardinalityType
<1>2. IsFiniteSet(2 .. last) /\ Cardinality(2 .. last) = Cardinality(taken) + 1
    <2>1. PICK c \in Nat : c = Cardinality(taken) BY <1>1
    <2>2. IsFiniteSet(2 .. c + 2) /\ Cardinality(2 .. c + 2) = IF 2 > c + 2 THEN 0 ELSE (c + 2) - 2 + 1
        BY FS_Interval
    <2>3. Cardinality(2 .. c + 2) = c + 1 BY <2>2
    <2> QED BY <2>1, <2>2, <2>3
<1>3. last \in Nat /\ \A n \in 2 .. last : n \in Nat BY <1>1
<1> HIDE DEF last
<1>4. Free # {}
    <2> SUFFICES ASSUME Free = {} PROVE FALSE OBVIOUS
    <2> DEFINE f == [n \in 2 .. last |-> Numbered(key, n)]
    <2>1. f \in [2 .. last -> taken] OBVIOUS
    <2>2. Cardinality(taken) < Cardinality(2 .. last) BY <1>1, <1>2
    <2> DEFINE S == 2 .. last
    <2>a. IsFiniteSet(S) /\ f \in [S -> taken] /\ Cardinality(taken) < Cardinality(S) BY <1>2, <2>1, <2>2
    <2> HIDE DEF f, S
    <2>3. \E x, y \in S : x # y /\ f[x] = f[y] BY <2>a, FS_PigeonHole
    <2>4. PICK x \in 2 .. last : \E y \in 2 .. last : x # y /\ f[x] = f[y] BY <2>3 DEF S
    <2>5. PICK y \in 2 .. last : x # y /\ f[x] = f[y] BY <2>4
    <2>6. Numbered(key, x) = Numbered(key, y) BY <2>5 DEF f
    <2>7. x \in Nat /\ y \in Nat BY <1>3
    <2>8. /\ Len(Numbered(key, x)) = Len(key) + 1 + x /\ Len(key) \in Nat
          /\ Len(Numbered(key, y)) = Len(key) + 1 + y
        BY <2>7, NumberedIsClean
    <2>9. x = y BY <2>6, <2>7, <2>8
    <2> QED BY <2>5, <2>9
<1>5. \E n \in 2 .. last : First(n)
    <2>1. Free \in SUBSET Nat BY <1>3
    <2>2. PICK n \in Free : \A m \in Free : n <= m BY <1>4, <2>1, LeastNat
    <2>3. n \in 2 .. last /\ Numbered(key, n) \notin taken OBVIOUS
    <2>4. \A m \in 2 .. n - 1 : m \in 2 .. last /\ ~(n <= m) BY <1>3, <2>3
    <2>5. \A m \in 2 .. n - 1 : Numbered(key, m) \in taken BY <2>2, <2>4
    <2> QED BY <2>3, <2>5
<1>6. CASE key \notin taken BY <1>6 DEF FreeKey
<1>7. CASE key \in taken
    <2> DEFINE n == CHOOSE k \in 2 .. last : First(k)
    <2>1. n \in 2 .. last BY <1>5
    <2>2. FreeKey(key, taken) = Numbered(key, n) BY <1>7 DEF FreeKey, last
    <2> HIDE DEF n
    <2>3. n \in Nat BY <1>3, <2>1
    <2> QED BY <2>2, <2>3, NumberedIsClean
<1> QED BY <1>6, <1>7

\* The elements of a finite set, in some order
LEMMA NamesInOrder ==
    ASSUME NEW S, IsFiniteSet(S)
    PROVE  SetToSeq(S) \in Seq(S)
<1> DEFINE c == Cardinality(S)
<1>1. c \in Nat /\ ExistsBijection(1 .. c, S) BY FS_CardinalityType
<1> HIDE DEF c
<1>2. PICK f \in Bijection(1 .. c, S) : TRUE BY <1>1 DEF ExistsBijection
<1>3. f \in [1 .. c -> S] /\ IsInjective(f) BY <1>2 DEF Bijection, Injection
<1>4. SetToSeq(S) \in [1 .. c -> S] BY <1>3 DEF SetToSeq, c
<1> QED BY <1>1, <1>4

\* What the members of an object are made into: clean names, and values of a set
Holds(members, S) ==
    /\ IsFiniteSet(DOMAIN members)
    /\ \A name \in DOMAIN members : Clean(name) /\ members[name] \in S

\* One more member
Put(held, key, value) == [k \in DOMAIN held \cup {key} |-> IF k = key THEN value ELSE held[k]]

Puts(g, names, members, clean) ==
    g = [n \in 0 .. Len(names) |->
            IF n = 0 THEN <<>>
            ELSE Put(g[n - 1], FreeKey(Redacted(names[n]), DOMAIN g[n - 1]), clean[members[names[n]]])]

LEMMA MembersAreChosen ==
    ASSUME NEW members, NEW clean
    PROVE  LET names == SetToSeq(DOMAIN members) IN
           SanitizeMembers(members, clean) = (CHOOSE g : Puts(g, names, members, clean))[Len(names)]
BY DEF SanitizeMembers, Puts, Put

LEMMA PutsExist ==
    ASSUME NEW names, NEW members, NEW clean, Len(names) \in Nat
    PROVE  \E g : Puts(g, names, members, clean)
<1> DEFINE After(x, name) == Put(x, FreeKey(Redacted(name), DOMAIN x), clean[members[name]])
<1> DEFINE UpToTurn(g, n) == \A i \in 0 .. Len(names) : i <= n =>
                                g[i] = IF i = 0 THEN <<>> ELSE After(g[i - 1], names[i])
<1> DEFINE P == {n \in Nat : \E g : UpToTurn(g, n)}
<1> HIDE DEF After
<1>1. 0 \in P
    <2>1. UpToTurn([i \in 0 .. Len(names) |-> <<>>], 0) OBVIOUS
    <2> QED BY <2>1
<1>2. ASSUME NEW n \in P PROVE n + 1 \in P
    <2>1. PICK g : UpToTurn(g, n) OBVIOUS
    <2> DEFINE h == [i \in 0 .. Len(names) |-> IF i = 0 THEN <<>> ELSE After(g[i - 1], names[i])]
    <2>2. ASSUME NEW i \in 0 .. Len(names), i <= n + 1, i # 0 PROVE h[i - 1] = g[i - 1]
        <3>1. i - 1 \in 0 .. Len(names) /\ i - 1 <= n BY <2>2
        <3> QED BY <2>1, <3>1
    <2>3. UpToTurn(h, n + 1) BY <2>2
    <2> HIDE DEF UpToTurn
    <2> QED BY <2>3
<1> HIDE DEF P
<1>3. P = Nat
    <2>1. P \in SUBSET Nat BY DEF P
    <2> QED BY <1>1, <1>2, <2>1, NatInduct
<1>4. PICK g : UpToTurn(g, Len(names)) BY <1>3 DEF P
<1> DEFINE h == [i \in 0 .. Len(names) |-> IF i = 0 THEN <<>> ELSE After(g[i - 1], names[i])]
<1>5. \A i \in 0 .. Len(names) : h[i] = g[i] BY <1>4
<1>6. \A i \in 0 .. Len(names) : i # 0 => i - 1 \in 0 .. Len(names) OBVIOUS
<1>7. h = [i \in 0 .. Len(names) |-> IF i = 0 THEN <<>> ELSE After(h[i - 1], names[i])] BY <1>5, <1>6
<1> HIDE DEF h
<1>8. Puts(h, names, members, clean) BY <1>7 DEF Puts, After
<1> QED BY <1>8

LEMMA PutHolds ==
    ASSUME NEW held, NEW S, NEW key, NEW value \in S, Holds(held, S), Clean(key)
    PROVE  Holds(Put(held, key, value), S)
<1> DEFINE next == Put(held, key, value)
<1>1. DOMAIN next = DOMAIN held \cup {key} BY DEF Put
<1>2. IsFiniteSet(DOMAIN next) BY <1>1, FS_AddElement DEF Holds
<1>3. \A name \in DOMAIN next : next[name] = IF name = key THEN value ELSE held[name]
    BY <1>1 DEF Put
<1> HIDE DEF next
<1> QED BY <1>1, <1>2, <1>3 DEF Holds, next

LEMMA MembersAreClean ==
    ASSUME NEW members, NEW clean, NEW S, IsFiniteSet(DOMAIN members),
           \A name \in DOMAIN members : Whole(name) /\ clean[members[name]] \in S
    PROVE  Holds(SanitizeMembers(members, clean), S)
<1> DEFINE names == SetToSeq(DOMAIN members)
<1>1. names \in Seq(DOMAIN members) BY NamesInOrder
<1>2. Len(names) \in Nat /\ \A n \in 1 .. Len(names) : names[n] \in DOMAIN members
    <2> HIDE DEF names
    <2> QED BY <1>1, LenProperties, ElementOfSeq
<1>3. \E g : Puts(g, names, members, clean) BY <1>2, PutsExist
<1>4. PICK g : /\ Puts(g, names, members, clean)
               /\ SanitizeMembers(members, clean) = g[Len(names)]
    BY <1>3, MembersAreChosen
<1> HIDE DEF names
<1> DEFINE P == {n \in Nat : n <= Len(names) => Holds(g[n], S)}
<1>5. 0 \in P
    <2>1. g[0] = <<>> BY <1>2, <1>4 DEF Puts
    <2>2. DOMAIN <<>> = {} OBVIOUS
    <2>3. Holds(<<>>, S) BY <2>2, FS_EmptySet DEF Holds
    <2> QED BY <2>1, <2>3
<1>6. ASSUME NEW n \in P PROVE n + 1 \in P
    <2> SUFFICES ASSUME n + 1 <= Len(names) PROVE Holds(g[n + 1], S) OBVIOUS
    <2>1. /\ n + 1 \in 0 .. Len(names) /\ n + 1 # 0 /\ (n + 1) - 1 = n /\ n <= Len(names)
          /\ n + 1 \in 1 .. Len(names)
        BY <1>2
    <2> DEFINE name == names[n + 1]
    <2> DEFINE key == FreeKey(Redacted(name), DOMAIN g[n])
    <2>2. g[n + 1] = Put(g[n], key, clean[members[name]]) BY <1>4, <2>1 DEF Puts
    <2>3. Holds(g[n], S) BY <2>1
    <2>4. name \in DOMAIN members BY <1>2, <2>1
    <2>5. Clean(Redacted(name)) BY <2>4, RedactedIsClean
    <2>6. Clean(key) BY <2>3, <2>5, FreeKeyIsClean DEF Holds
    <2>7. clean[members[name]] \in S BY <2>4
    <2> HIDE DEF key, name
    <2> QED BY <2>2, <2>3, <2>6, <2>7, PutHolds
<1> HIDE DEF P
<1>7. P = Nat
    <2>1. P \in SUBSET Nat BY DEF P
    <2> QED BY <1>5, <1>6, <2>1, NatInduct
<1>8. Len(names) \in P /\ Len(names) <= Len(names) BY <1>2, <1>7
<1> QED BY <1>4, <1>8 DEF P

LEMMA ItemsStay ==
    ASSUME NEW items, NEW clean, NEW S, IsSequence(items), \A item \in Range(items) : clean[item] \in S
    PROVE  Range(SanitizeItems(items, clean)) \subseteq S
<1> DEFINE m == IF Len(items) < MaxListItems THEN Len(items) ELSE MaxListItems
<1>1. Len(items) \in Nat /\ items \in Seq(Range(items)) BY LenProperties DEF IsSequence
<1>2. MaxListItems \in Nat \ {0} BY SanitizerAssumption
<1>3. \A i \in 1 .. m : i \in 1 .. Len(items) BY <1>1, <1>2
<1> HIDE DEF m
<1>4. \A i \in 1 .. m : items[i] \in Range(items) BY <1>1, <1>3, ElementOfSeq
<1>5. SanitizeItems(items, clean) = [i \in 1 .. m |-> clean[items[i]]] BY DEF SanitizeItems, m
<1> QED BY <1>4, <1>5 DEF Range

--------------------------------------------------------------------------------
(* Values that are made of sanitized values *)

\* What a value of a set holds is in the set
Closed(S) ==
    /\ Null \in S
    /\ \A v \in S :
          /\ v[1] = "object" => \A name \in DOMAIN v[2] : v[2][name] \in S
          /\ v[1] = "list" => Range(v[2]) \subseteq S

Levels(g, value) ==
    g = [n \in 0 .. Nesting |->
            IF n = 0 THEN {[path |-> <<>>, value |-> value]}
            ELSE UNION {Below(node) : node \in g[n - 1]}]

\* The nodes of a value are those of its levels
GivesNodes(g, value) == Nodes(value) = UNION {g[n] : n \in 0 .. Nesting}

LEMMA NodesAreChosen ==
    ASSUME NEW value
    PROVE  GivesNodes(CHOOSE f : Levels(f, value), value)
BY DEF Nodes, Levels, GivesNodes

LEMMA LevelsExist ==
    ASSUME NEW value
    PROVE  \E g : Levels(g, value)
<1> DEFINE Top == {[path |-> <<>>, value |-> value]}
<1> DEFINE OneDown(nodes) == UNION {Below(node) : node \in nodes}
<1> DEFINE UpToLevel(g, n) == \A i \in 0 .. Nesting : i <= n =>
                                 g[i] = IF i = 0 THEN Top ELSE OneDown(g[i - 1])
<1> DEFINE P == {n \in Nat : \E g : UpToLevel(g, n)}
<1>0. Nesting \in Nat BY NestingAssumption
<1> HIDE DEF Top, OneDown
<1>1. 0 \in P
    <2>1. UpToLevel([i \in 0 .. Nesting |-> Top], 0) OBVIOUS
    <2> QED BY <2>1
<1>2. ASSUME NEW n \in P PROVE n + 1 \in P
    <2>1. PICK g : UpToLevel(g, n) OBVIOUS
    <2> DEFINE h == [i \in 0 .. Nesting |-> IF i = 0 THEN Top ELSE OneDown(g[i - 1])]
    <2>2. ASSUME NEW i \in 0 .. Nesting, i <= n + 1, i # 0 PROVE h[i - 1] = g[i - 1]
        <3>1. i - 1 \in 0 .. Nesting /\ i - 1 <= n BY <1>0, <2>2
        <3> QED BY <2>1, <3>1
    <2>3. UpToLevel(h, n + 1) BY <2>2
    <2> HIDE DEF UpToLevel
    <2> QED BY <2>3
<1> HIDE DEF P
<1>3. P = Nat
    <2>1. P \in SUBSET Nat BY DEF P
    <2> QED BY <1>1, <1>2, <2>1, NatInduct
<1>4. PICK g : UpToLevel(g, Nesting) BY <1>0, <1>3 DEF P
<1> DEFINE h == [i \in 0 .. Nesting |-> IF i = 0 THEN Top ELSE OneDown(g[i - 1])]
<1>5. \A i \in 0 .. Nesting : h[i] = g[i] BY <1>0, <1>4
<1>6. \A i \in 0 .. Nesting : i # 0 => i - 1 \in 0 .. Nesting BY <1>0
<1>7. h = [i \in 0 .. Nesting |-> IF i = 0 THEN Top ELSE OneDown(h[i - 1])] BY <1>5, <1>6
<1> HIDE DEF h
<1>8. Levels(h, value) BY <1>7 DEF Levels, Top, OneDown
<1> QED BY <1>8

LEMMA BelowStays ==
    ASSUME NEW S, Closed(S), NEW node, node.value \in S, NEW below \in Below(node)
    PROVE  below.value \in S
<1>1. CASE node.value[1] = "object"
    <2>1. Below(node) = {[path |-> Append(node.path, PathSegment(name)), value |-> node.value[2][name]] :
                            name \in DOMAIN node.value[2]}
        BY <1>1 DEF Below
    <2>2. PICK name \in DOMAIN node.value[2] : below.value = node.value[2][name] BY <2>1
    <2> QED BY <1>1, <2>2 DEF Closed
<1>2. CASE node.value[1] = "list"
    <2> DEFINE items == IF node.value[2] = <<>> THEN {Null} ELSE Range(node.value[2])
    <2>1. Below(node) = {[path |-> Append(node.path, <<"[", "]">>), value |-> item] : item \in items}
        BY <1>2 DEF Below
    <2>2. below.value \in items
        <3> HIDE DEF items
        <3> QED BY <2>1
    <2> QED BY <1>2, <2>2 DEF Closed
<1>3. CASE node.value[1] \notin {"object", "list"}
    <2>1. Below(node) = {} BY <1>3 DEF Below
    <2> QED BY <2>1
<1> QED BY <1>1, <1>2, <1>3

LEMMA NodesStay ==
    ASSUME NEW S, Closed(S), NEW value \in S, NEW node \in Nodes(value)
    PROVE  node.value \in S
<1>1. PICK g : Levels(g, value) /\ GivesNodes(g, value)
    BY LevelsExist, NodesAreChosen
<1>2. Nesting \in Nat BY NestingAssumption
<1> DEFINE P == {n \in Nat : n <= Nesting => \A x \in g[n] : x.value \in S}
<1>3. 0 \in P
    <2>1. g[0] = {[path |-> <<>>, value |-> value]} BY <1>1, <1>2 DEF Levels
    <2> QED BY <2>1
<1>4. ASSUME NEW n \in P PROVE n + 1 \in P
    <2> SUFFICES ASSUME n + 1 <= Nesting, NEW x \in g[n + 1] PROVE x.value \in S OBVIOUS
    <2>1. n + 1 \in 0 .. Nesting /\ n + 1 # 0 /\ (n + 1) - 1 = n /\ n <= Nesting BY <1>2
    <2>2. g[n + 1] = UNION {Below(y) : y \in g[n]} BY <1>1, <2>1 DEF Levels
    <2>3. PICK y \in g[n] : x \in Below(y) BY <2>2
    <2>4. y.value \in S BY <2>1
    <2> QED BY <2>3, <2>4, BelowStays
<1> HIDE DEF P
<1>5. P = Nat
    <2>1. P \in SUBSET Nat BY DEF P
    <2> QED BY <1>3, <1>4, <2>1, NatInduct
<1>6. PICK n \in 0 .. Nesting : node \in g[n] BY <1>1 DEF GivesNodes
<1>7. n \in P /\ n <= Nesting BY <1>2, <1>5, <1>6
<1> QED BY <1>6, <1>7 DEF P

\* A value of which a text or a name holds no word of a body
CleanValue(v) ==
    /\ v[1] = "object" => \A name \in DOMAIN v[2] : Clean(name)
    /\ v[1] = "text" => Clean(v[2])

\* g[left] holds what becomes of every value with so many levels left
Sanitizes(g) == g = [left \in 0 .. MaxDepth + 1 |-> [v \in Values |-> SanitizeLevel(left, v, g[left - 1])]]

LEMMA SanitizeIsChosen ==
    ASSUME NEW value
    PROVE  Sanitize(value) = (CHOOSE g : Sanitizes(g))[MaxDepth + 1][value]
BY DEF Sanitize, Sanitizes

LEMMA SanitizersExist == \E g : Sanitizes(g)
<1> DEFINE last == MaxDepth + 1
<1> DEFINE Level(left, below) == [v \in Values |-> SanitizeLevel(left, v, below)]
<1> DEFINE UpToLeft(g, n) == \A i \in 0 .. last : i <= n => g[i] = Level(i, g[i - 1])
<1> DEFINE P == {n \in Nat : \E g : UpToLeft(g, n)}
<1>0. last \in Nat BY SanitizerAssumption
<1> HIDE DEF last
<1>a. \A x, y : Level(0, x) = Level(0, y) BY DEF SanitizeLevel
<1> HIDE DEF Level
<1>1. 0 \in P
    <2> DEFINE g == [i \in 0 .. last |-> Level(0, 0)]
    <2>1. g[0] = Level(0, 0) BY <1>0
    <2> HIDE DEF g
    <2>2. g[0] = Level(0, g[0 - 1]) BY <1>a, <2>1
    <2>3. \A i \in 0 .. last : i <= 0 => i = 0 BY <1>0
    <2>4. UpToLeft(g, 0) BY <2>2, <2>3
    <2> QED BY <2>4
<1>2. ASSUME NEW n \in P PROVE n + 1 \in P
    <2>1. PICK g : UpToLeft(g, n) OBVIOUS
    <2> DEFINE h == [i \in 0 .. last |-> Level(i, g[i - 1])]
    <2>2. ASSUME NEW i \in 0 .. last, i <= n + 1 PROVE h[i] = Level(i, h[i - 1])
        <3>1. CASE i = 0 BY <1>a, <3>1
        <3>2. CASE i # 0
            <4>1. i - 1 \in 0 .. last /\ i - 1 <= n BY <1>0, <2>2, <3>2
            <4>2. g[i - 1] = Level(i - 1, g[(i - 1) - 1]) BY <2>1, <4>1
            <4>3. h[i - 1] = g[i - 1] BY <4>1, <4>2
            <4> QED BY <4>3
        <3> QED BY <3>1, <3>2
    <2> HIDE DEF h
    <2>3. UpToLeft(h, n + 1) BY <2>2
    <2> HIDE DEF UpToLeft
    <2> QED BY <2>3
<1> HIDE DEF P
<1>3. P = Nat
    <2>1. P \in SUBSET Nat BY DEF P
    <2> QED BY <1>1, <1>2, <2>1, NatInduct
<1>4. PICK g : UpToLeft(g, last) BY <1>0, <1>3 DEF P
<1> DEFINE h == [i \in 0 .. last |-> Level(i, g[i - 1])]
<1>5. \A i \in 0 .. last : h[i] = g[i] BY <1>0, <1>4
<1>6. ASSUME NEW i \in 0 .. last PROVE h[i] = Level(i, h[i - 1])
    <2>1. CASE i = 0 BY <1>a, <2>1
    <2>2. CASE i # 0
        <3>1. i - 1 \in 0 .. last BY <1>0, <2>2
        <3> QED BY <1>5, <3>1
    <2> QED BY <2>1, <2>2
<1>7. h = [i \in 0 .. last |-> h[i]] OBVIOUS
<1> HIDE DEF h
<1>8. h = [i \in 0 .. last |-> Level(i, h[i - 1])] BY <1>6, <1>7
<1>9. Sanitizes(h) BY <1>8 DEF Sanitizes, Level, last
<1> QED BY <1>9

\* The values that a sanitized value is made of
LEMMA SanitizedValues ==
    \E S : Closed(S) /\ (\A v \in S : CleanValue(v)) /\ (\A value \in Values : Sanitize(value) \in S)
<1>1. PICK g : Sanitizes(g) /\ \A value : Sanitize(value) = g[MaxDepth + 1][value]
    <2>1. \A value : Sanitize(value) = (CHOOSE g : Sanitizes(g))[MaxDepth + 1][value] BY SanitizeIsChosen
    <2> QED BY <2>1, SanitizersExist
<1>2. MaxDepth + 1 \in Nat BY SanitizerAssumption
<1> DEFINE last == MaxDepth + 1
<1> DEFINE S == {Null} \cup UNION {{g[left][v] : v \in Values} : left \in 0 .. last}
<1>3. \A left \in 0 .. last, v \in Values : g[left][v] = SanitizeLevel(left, v, g[left - 1])
    <2>1. \A left \in 0 .. last : g[left] = [v \in Values |-> SanitizeLevel(left, v, g[left - 1])]
        BY <1>1 DEF Sanitizes
    <2> QED BY <2>1
<1>4. \A left \in 0 .. last, v \in Values : g[left][v] \in S OBVIOUS
<1>5. \A x \in S : x = Null \/ \E left \in 0 .. last, v \in Values : x = g[left][v] OBVIOUS
<1>6. Null \in S OBVIOUS
<1> HIDE DEF S, last
<1>7. ASSUME NEW x \in S
      PROVE  /\ CleanValue(x)
             /\ x[1] = "object" => \A name \in DOMAIN x[2] : x[2][name] \in S
             /\ x[1] = "list" => Range(x[2]) \subseteq S
    <2>1. CASE x = Null BY <2>1 DEF Null, CleanValue
    <2>2. CASE x # Null
        <3>1. PICK left \in 0 .. last : \E v \in Values : x = g[left][v] BY <1>5, <2>2
        <3>2. PICK v \in Values : x = g[left][v] BY <3>1
        <3>3. x = SanitizeLevel(left, v, g[left - 1]) BY <1>3, <3>2
        <3> DEFINE clean == g[left - 1]
        <3>4. left > 0 => \A w \in Values : clean[w] \in S
            <4>1. left > 0 => left - 1 \in 0 .. last BY <1>2 DEF last
            <4> QED BY <1>4, <4>1
        <3> HIDE DEF clean
        <3>5. CASE left = 0
            <4>1. x = <<"text", <<"[REDACTED_TOO_DEEP]">>>> BY <3>3, <3>5 DEF SanitizeLevel
            <4>2. Clean(<<"[REDACTED_TOO_DEEP]">>) BY CleanWord, MarkersAreClean DEF Markers
            <4> QED BY <4>1, <4>2 DEF CleanValue
        <3>6. CASE left > 0 /\ v[1] = "object"
            <4>1. x = <<"object", SanitizeMembers(v[2], clean)>> BY <3>3, <3>6 DEF SanitizeLevel, clean
            <4>2. IsFiniteSet(DOMAIN v[2]) /\ \A name \in DOMAIN v[2] : v[2][name] \in Values
                BY <3>6, ValuesAssumption
            <4>3. \A name \in DOMAIN v[2] : Whole(name) BY <3>6, SecretsAssumption
            <4>4. \A name \in DOMAIN v[2] : Whole(name) /\ clean[v[2][name]] \in S
                BY <3>4, <3>6, <4>2, <4>3
            <4>5. Holds(SanitizeMembers(v[2], clean), S) BY <4>2, <4>4, MembersAreClean
            <4> QED BY <4>1, <4>5 DEF Holds, CleanValue
        <3>7. CASE left > 0 /\ v[1] = "list"
            <4>1. x = <<"list", SanitizeItems(v[2], clean)>> BY <3>3, <3>7 DEF SanitizeLevel, clean
            <4>2. v[2] \in Seq(Values) BY <3>7, ValuesAssumption
            <4>3. IsSequence(v[2]) /\ Range(v[2]) \subseteq Values BY <4>2, AnySequence, RangeOfSeq
            <4>4. \A item \in Range(v[2]) : clean[item] \in S BY <3>4, <3>7, <4>3
            <4>5. Range(SanitizeItems(v[2], clean)) \subseteq S BY <4>3, <4>4, ItemsStay
            <4> QED BY <4>1, <4>5 DEF CleanValue
        <3>8. CASE left > 0 /\ v[1] = "text"
            <4>1. x = <<"text", SanitizeValue(v[2])>> BY <3>3, <3>8 DEF SanitizeLevel
            <4>2. Text(v) = v[2] BY <3>8 DEF Text
            <4>3. Whole(v[2])
                <5>1. Whole(Text(v)) BY <3>8, SecretsAssumption
                <5> QED BY <4>2, <5>1
            <4>4. Clean(SanitizeValue(v[2])) BY <4>3, SanitizedIsClean
            <4> QED BY <4>1, <4>4 DEF CleanValue
        <3>9. CASE left > 0 /\ v[1] \notin {"object", "list", "text"}
            <4>1. x = v BY <3>3, <3>9 DEF SanitizeLevel
            <4> QED BY <3>9, <4>1 DEF CleanValue
        <3>10. left = 0 \/ left > 0 BY <1>2 DEF last
        <3> QED BY <3>5, <3>6, <3>7, <3>8, <3>9, <3>10
    <2> QED BY <2>1, <2>2
<1>8. \A value \in Values : Sanitize(value) \in S
    <2>1. last \in 0 .. last BY <1>2 DEF last
    <2> QED BY <1>1, <1>4, <2>1 DEF last
<1> QED BY <1>6, <1>7, <1>8 DEF Closed

LEMMA SanitizedWords ==
    ASSUME NEW value \in Values
    PROVE  WordsIn(Sanitize(value)) \cap Body = {}
<1>1. PICK S : Closed(S) /\ (\A v \in S : CleanValue(v)) /\ (\A v \in Values : Sanitize(v) \in S)
    BY SanitizedValues
<1>2. PICK made \in S : made = Sanitize(value) BY <1>1
<1>3. \A node \in Nodes(made) : CleanValue(node.value) BY <1>1, NodesStay
<1> DEFINE Words(v) == CASE v[1] = "object" -> UNION {Range(name) : name \in DOMAIN v[2]}
                         [] v[1] = "text" -> Range(v[2])
                         [] OTHER -> {}
<1>4. ASSUME NEW v, CleanValue(v) PROVE Words(v) \cap Body = {}
    <2>1. CASE v[1] = "object"
        <3>1. Words(v) = UNION {Range(name) : name \in DOMAIN v[2]} BY <2>1
        <3>2. \A name \in DOMAIN v[2] : Range(name) \cap Body = {} BY <1>4, <2>1 DEF CleanValue, Clean
        <3> HIDE DEF Words
        <3> QED BY <3>1, <3>2
    <2>2. CASE v[1] = "text"
        <3>1. Words(v) = Range(v[2]) BY <2>2
        <3>2. Range(v[2]) \cap Body = {} BY <1>4, <2>2 DEF CleanValue, Clean
        <3> HIDE DEF Words
        <3> QED BY <3>1, <3>2
    <2>3. CASE v[1] \notin {"object", "text"}
        <3>1. Words(v) = {} BY <2>3
        <3> HIDE DEF Words
        <3> QED BY <3>1
    <2> QED BY <2>1, <2>2, <2>3
<1>5. WordsIn(made) = UNION {Words(node.value) : node \in Nodes(made)} BY DEF WordsIn
<1> HIDE DEF Words
<1>6. \A node \in Nodes(made) : Words(node.value) \cap Body = {} BY <1>3, <1>4
<1>7. WordsIn(made) \cap Body = {} BY <1>5, <1>6
<1> QED BY <1>2, <1>7

\* The examples of the fields that are profiled
CleanProfile == \A field \in profile : \A text \in field.examples : Clean(text)

LEMMA ExamplesAreClean ==
    ASSUME file \in Files, NEW path, NEW text \in Examples(path)
    PROVE  Clean(text)
<1> DEFINE leaves == UNION {Leaves(record) : record \in Range(file)}
<1>1. PICK leaf \in leaves : text = SanitizeValue(Text(leaf.value)) BY DEF Examples
<1>2. PICK record \in Range(file) : leaf \in Leaves(record) OBVIOUS
<1>3. file \in Seq(Values) BY FilesAssumption
<1>4. record \in Values
    <2>1. Range(file) \subseteq Values BY <1>3, RangeOfSeq
    <2> QED BY <2>1
<1>5. Closed(Values)
    <2>1. \A v \in Values : v[1] = "list" => Range(v[2]) \subseteq Values
        <3> TAKE v \in Values
        <3> HAVE v[1] = "list"
        <3>1. v[2] \in Seq(Values) BY ValuesAssumption
        <3> QED BY <3>1, RangeOfSeq
    <2> QED BY <2>1, ValuesAssumption DEF Closed
<1>6. leaf \in Nodes(record) /\ leaf.value[1] \notin {"object", "list"} BY <1>2 DEF Leaves
<1>7. leaf.value \in Values BY <1>4, <1>5, <1>6, NodesStay
<1>8. Whole(Text(leaf.value)) BY <1>6, <1>7, SecretsAssumption
<1> QED BY <1>1, <1>8, SanitizedIsClean

LEMMA ProfileIsClean == PreviewInv /\ CleanProfile /\ [PreviewNext]_previewVars => CleanProfile'
<1> SUFFICES ASSUME PreviewInv, CleanProfile, [PreviewNext]_previewVars PROVE CleanProfile' OBVIOUS
<1>1. CASE ProfileFile
    <2>1. file \in Files BY DEF PreviewInv
    <2>2. profile' = {SanitizeField([path |-> path, examples |-> Examples(path)]) : path \in ProfilePaths(file)}
        BY <1>1 DEF ProfileFile
    <2> SUFFICES ASSUME NEW field \in profile', NEW text \in field.examples PROVE Clean(text)
        BY DEF CleanProfile
    <2>3. PICK path \in ProfilePaths(file) :
              field = SanitizeField([path |-> path, examples |-> Examples(path)])
        BY <2>2
    <2>4. field.examples = {SanitizeValue(example) : example \in Examples(path)}
        BY <2>3 DEF SanitizeField
    <2>5. PICK example \in Examples(path) : text = SanitizeValue(example) BY <2>4
    <2>6. Clean(example) BY <2>1, ExamplesAreClean
    <2> QED BY <2>5, <2>6, CleanIsWhole, SanitizedIsClean
<1>2. CASE UNCHANGED profile BY <1>2 DEF CleanProfile
<1>3. CASE Refuse BY <1>2, <1>3 DEF Refuse
<1>4. CASE Accept BY <1>2, <1>4 DEF Accept
<1>5. CASE PreviewRecord BY <1>2, <1>5 DEF PreviewRecord
<1>6. CASE Answer BY <1>2, <1>6 DEF Answer
<1>7. CASE UNCHANGED previewVars BY <1>2, <1>7 DEF previewVars
<1> QED BY <1>1, <1>3, <1>4, <1>5, <1>6, <1>7 DEF PreviewNext

\* Whatever the bounds of a value, of a list and of the depth are, no word of the body
\* of a secret is in what is sent to a provider, keys and profile included
\* (sanitizer.py:280).
THEOREM SecretsStayHere == PreviewSpec => []NoSecretIsSent
<1>1. PreviewInit => CleanProfile BY DEF PreviewInit, CleanProfile
<1>2. PreviewInv /\ CleanProfile => NoSecretIsSent
    <2> SUFFICES ASSUME PreviewInv, CleanProfile PROVE NoSecretIsSent OBVIOUS
    <2> DEFINE examples == UNION {UNION {Range(text) : text \in field.examples} : field \in profile}
    <2> DEFINE records == UNION {WordsIn(record) : record \in Range(SanitizeSamples(file))}
    <2>1. \A field \in profile : \A text \in field.examples : Range(text) \cap Body = {}
        BY DEF CleanProfile, Clean
    <2>2. examples \cap Body = {} BY <2>1
    <2>3. ASSUME NEW record \in Range(SanitizeSamples(file)) PROVE WordsIn(record) \cap Body = {}
        <3> DEFINE m == IF Len(file) < MaxRecords THEN Len(file) ELSE MaxRecords
        <3>1. SanitizeSamples(file) = [i \in 1 .. m |-> Sanitize(file[i])] BY DEF SanitizeSamples
        <3>2. file \in Seq(Values) /\ Len(file) \in Nat BY FilesAssumption, LenProperties DEF PreviewInv
        <3>3. MaxRecords \in Nat BY SanitizerAssumption
        <3>4. \A i \in 1 .. m : i \in 1 .. Len(file) BY <3>2, <3>3
        <3> HIDE DEF m
        <3>5. PICK i \in 1 .. m : record = Sanitize(file[i]) BY <3>1 DEF Range
        <3>6. file[i] \in Values BY <3>2, <3>4, ElementOfSeq
        <3> QED BY <3>5, <3>6, SanitizedWords
    <2>4. records \cap Body = {} BY <2>3
    <2>5. NoSecretIsSent <=> (phase = "profiled" => Body \cap (examples \cup records) = {})
        BY DEF NoSecretIsSent
    <2> HIDE DEF examples, records
    <2> QED BY <2>2, <2>4, <2>5
<1> QED BY <1>1, <1>2, ProfileIsClean, PreviewInvariant, PTL DEF PreviewSpec

--------------------------------------------------------------------------------
(* What the profiler writes, the parser reads *)

\* A text stands at a place of a path
Stands(path, i, text) ==
    i + Len(text) <= Len(path) + 1 /\ \A k \in 1 .. Len(text) : path[i + k - 1] = text[k]

\* Which is what the parser asks
LEMMA StartsIsStands ==
    ASSUME NEW C, NEW path \in Seq(C), NEW text \in Seq(C), NEW i \in 1 .. Len(path) + 1
    PROVE  StartsAt(path, i, text) <=> Stands(path, i, text)
<1> DEFINE rest == SubSeq(path, i, Len(path))
<1> DEFINE n == Len(text)
<1>1. Len(path) \in Nat /\ n \in Nat BY LenProperties
<1>2. \A k \in i .. Len(path) : path[k] \in C
    <2>1. \A k \in i .. Len(path) : k \in 1 .. Len(path) BY <1>1
    <2> QED BY <2>1, ElementOfSeq
<1>3. /\ rest \in Seq(C) /\ Len(rest) = IF i <= Len(path) THEN Len(path) - i + 1 ELSE 0
      /\ \A k \in 1 .. Len(path) - i + 1 : rest[k] = path[i + k - 1]
    BY <1>1, <1>2, SubSeqProperties
<1>4. Len(rest) = Len(path) - i + 1 BY <1>1, <1>3
<1>5. SubSeq(text, 1, n) = text BY SubSeqFull
<1> HIDE DEF rest
<1>6. StartsAt(path, i, text) <=> n <= Len(rest) /\ text = SubSeq(rest, 1, n)
    BY <1>5 DEF StartsAt, IsPrefix, rest
<1>7. ASSUME n <= Len(rest)
      PROVE  text = SubSeq(rest, 1, n) <=> \A k \in 1 .. n : path[i + k - 1] = text[k]
    <2>1. \A k \in 1 .. n : k \in 1 .. Len(rest) BY <1>1, <1>4, <1>7
    <2>2. \A k \in 1 .. n : rest[k] \in C BY <1>3, <2>1, ElementOfSeq
    <2> DEFINE start == SubSeq(rest, 1, n)
    <2>3. /\ start \in Seq(C) /\ Len(start) = IF 1 <= n THEN n - 1 + 1 ELSE 0
          /\ \A k \in 1 .. n - 1 + 1 : start[k] = rest[1 + k - 1]
        BY <1>1, <2>2, SubSeqProperties
    <2> HIDE DEF start, n
    <2>4. Len(start) = n BY <1>1, <2>3
    <2>5. \A k \in 1 .. n : start[k] = path[i + k - 1]
        <3> TAKE k \in 1 .. n
        <3>1. k \in 1 .. n - 1 + 1 /\ 1 + k - 1 = k /\ k \in 1 .. Len(path) - i + 1 BY <1>1, <1>4, <2>1
        <3> QED BY <1>3, <2>3, <3>1
    <2>6. text = start <=> \A k \in 1 .. n : start[k] = text[k]
        <3>1. (\A k \in 1 .. n : start[k] = text[k]) => text = start BY <2>3, <2>4, SeqEqual DEF n
        <3> QED BY <3>1
    <2> QED BY <2>5, <2>6 DEF start
<1>8. n <= Len(rest) <=> i + n <= Len(path) + 1 BY <1>1, <1>4
<1> QED BY <1>6, <1>7, <1>8 DEF Stands

LEMMA StandsJoined ==
    ASSUME NEW C, NEW path \in Seq(C), NEW s \in Seq(C), NEW t \in Seq(C), NEW i \in Nat
    PROVE  Stands(path, i, s \o t) <=> Stands(path, i, s) /\ Stands(path, i + Len(s), t)
<1>1. /\ Len(s \o t) = Len(s) + Len(t)
      /\ \A k \in 1 .. Len(s) + Len(t) : (s \o t)[k] = IF k <= Len(s) THEN s[k] ELSE t[k - Len(s)]
    BY ConcatProperties
<1>2. Len(s) \in Nat /\ Len(t) \in Nat /\ Len(path) \in Nat BY LenProperties
<1>3. PICK m \in Nat, n \in Nat : m = Len(s) /\ n = Len(t) BY <1>2
<1> DEFINE u == s \o t
<1>4. \A k \in 1 .. m : k \in 1 .. m + n /\ u[k] = s[k] BY <1>1, <1>3
<1>5. \A k \in 1 .. n : m + k \in 1 .. m + n /\ u[m + k] = t[k]
    <2> TAKE k \in 1 .. n
    <2>1. m + k \in 1 .. m + n /\ ~(m + k <= m) /\ (m + k) - m = k OBVIOUS
    <2> QED BY <1>1, <1>3, <2>1
<1>6. Len(u) = m + n BY <1>1, <1>3
<1> HIDE DEF u
<1>7. ASSUME Stands(path, i, u) PROVE Stands(path, i, s) /\ Stands(path, i + m, t)
    <2>1. \A k \in 1 .. m : path[i + k - 1] = s[k] BY <1>4, <1>6, <1>7 DEF Stands
    <2>2. \A k \in 1 .. n : path[(i + m) + k - 1] = t[k]
        <3> TAKE k \in 1 .. n
        <3>1. (i + m) + k - 1 = i + (m + k) - 1 OBVIOUS
        <3>2. path[i + (m + k) - 1] = u[m + k] BY <1>5, <1>6, <1>7 DEF Stands
        <3> QED BY <1>5, <3>1, <3>2
    <2>3. i + (m + n) <= Len(path) + 1 BY <1>6, <1>7 DEF Stands
    <2> QED BY <1>2, <1>3, <2>1, <2>2, <2>3 DEF Stands
<1>8. ASSUME Stands(path, i, s), Stands(path, i + m, t) PROVE Stands(path, i, u)
    <2>1. ASSUME NEW k \in 1 .. m + n PROVE path[i + k - 1] = u[k]
        <3>1. CASE k <= m
            <4>1. k \in 1 .. m BY <3>1
            <4> QED BY <1>3, <1>4, <1>8, <4>1 DEF Stands
        <3>2. CASE ~(k <= m)
            <4>1. PICK l \in Int : l = k - m OBVIOUS
            <4>2. l \in 1 .. n /\ m + l = k /\ (i + m) + l - 1 = i + k - 1 BY <3>2, <4>1
            <4>3. path[(i + m) + l - 1] = t[l] BY <1>3, <1>8, <4>2 DEF Stands
            <4> QED BY <1>5, <4>2, <4>3
        <3> QED BY <3>1, <3>2
    <2>2. (i + m) + n <= Len(path) + 1 BY <1>3, <1>8 DEF Stands
    <2> QED BY SMTT(30), <1>2, <1>6, <2>1, <2>2 DEF Stands
<1> QED BY <1>3, <1>7, <1>8 DEF u

--------------------------------------------------------------------------------

\* So many characters from a place on make an identifier that ends there
Runs1(path, i, n) ==
    /\ \A j \in i .. i + n - 1 : path[j] \in Letters \cup Digits
    /\ i + n > Len(path) \/ path[i + n] \notin Letters \cup Digits

LEMMA IdentifierRead ==
    ASSUME NEW path, Len(path) \in Nat, NEW i \in 1 .. Len(path), NEW n \in 1 .. Len(path) - i + 1,
           path[i] \in Letters, Runs1(path, i, n)
    PROVE  Identifier(path, i) = n
<1> DEFINE m == CHOOSE k \in 1 .. Len(path) - i + 1 : Runs1(path, i, k)
<1>1. Identifier(path, i) = m
    <2>1. ~(i > Len(path)) OBVIOUS
    <2> QED BY <2>1 DEF Identifier, Runs1
<1>2. m \in 1 .. Len(path) - i + 1 /\ Runs1(path, i, m) OBVIOUS
<1> HIDE DEF m
<1>3. CASE m < n
    <2>1. i + m \in i .. i + n - 1 /\ ~(i + m > Len(path)) BY <1>2, <1>3
    <2> QED BY <1>2, <2>1 DEF Runs1
<1>4. CASE n < m
    <2>1. i + n \in i .. i + m - 1 /\ ~(i + n > Len(path)) BY <1>2, <1>4
    <2> QED BY <1>2, <2>1 DEF Runs1
<1> QED BY <1>1, <1>2, <1>3, <1>4

\* An identifier is made of the characters of identifiers
LEMMA IdentifierLetters ==
    ASSUME NEW C, NEW name \in Seq(C), IsIdentifier(name)
    PROVE  /\ Len(name) \in Nat \ {0} /\ name[1] \in Letters
           /\ \A j \in 1 .. Len(name) : name[j] \in Letters \cup Digits
<1> DEFINE len == Len(name)
<1>1. len \in Nat \ {0} BY EmptySeq DEF IsIdentifier
<1>2. Identifier(name, 1) = len BY DEF IsIdentifier
<1>3. name[1] \in Letters BY <1>1, <1>2 DEF Identifier
<1>4. Identifier(name, 1) = CHOOSE n \in 1 .. len - 1 + 1 : Runs1(name, 1, n)
    <2>1. ~(1 > Len(name)) BY <1>1
    <2> QED BY <1>3, <2>1 DEF Identifier, Runs1
<1> DEFINE T == {n \in 1 .. len : 1 + n > len \/ name[1 + n] \notin Letters \cup Digits}
<1> HIDE DEF len
<1>5. PICK n \in T : \A m \in T : n <= m
    <2>1. len \in T /\ T \in SUBSET Nat BY <1>1
    <2> HIDE DEF T
    <2> QED BY <2>1, LeastNat
<1>6. Runs1(name, 1, n)
    <2>1. ASSUME NEW j \in 1 .. 1 + n - 1 PROVE name[j] \in Letters \cup Digits
        <3>1. CASE j = 1 BY <1>3, <3>1
        <3>2. CASE j # 1
            <4>1. j - 1 \in 1 .. len /\ ~(n <= j - 1) /\ 1 + (j - 1) = j BY <1>1, <3>2
            <4>2. j - 1 \notin T BY <1>5, <4>1
            <4> QED BY <4>1, <4>2
        <3> QED BY <3>1, <3>2
    <2> QED BY <2>1, <1>5 DEF Runs1, len
<1>7. n \in 1 .. len - 1 + 1 BY <1>1
<1>8. Runs1(name, 1, len) BY <1>2, <1>4, <1>6, <1>7
<1>9. \A j \in 1 .. len : name[j] \in Letters \cup Digits
    <2>1. 1 + len - 1 = len BY <1>1
    <2> QED BY <1>8, <2>1 DEF Runs1
<1> QED BY <1>1, <1>3, <1>9 DEF len

--------------------------------------------------------------------------------

Marks == {".", "[", "]", Quote, Backslash}

MarksDiffer == /\ "." # "[" /\ "." # "]" /\ "." # Quote /\ "." # Backslash
               /\ "[" # "]" /\ "[" # Quote /\ "[" # Backslash
               /\ "]" # Quote /\ "]" # Backslash /\ Quote # Backslash

LEMMA MarksAreOthers == MarksDiffer
BY DEF MarksDiffer, Quote, Backslash

\* Where a segment may end: nothing more of an identifier follows
Ended(path, i) == i = Len(path) + 1 \/ (i \in 1 .. Len(path) /\ path[i] \in {".", "["})

Turned(state, segment, next) == [at |-> next, segments |-> Append(state.segments, segment)]

LEMMA TwoMarks ==
    ASSUME NEW C, Marks \subseteq C, NEW a \in Marks, NEW b \in Marks
    PROVE  <<a, b>> \in Seq(C) /\ Len(<<a, b>>) = 2 /\ <<a, b>>[1] = a /\ <<a, b>>[2] = b
OBVIOUS

LEMMA StandsTwo ==
    ASSUME NEW path, Len(path) \in Nat, NEW i \in 1 .. Len(path) + 1, NEW a, NEW b
    PROVE  Stands(path, i, <<a, b>>) <=> i + 1 <= Len(path) /\ path[i] = a /\ path[i + 1] = b
<1> DEFINE text == <<a, b>>
<1>1. Len(text) = 2 /\ text[1] = a /\ text[2] = b OBVIOUS
<1> HIDE DEF text
<1>2. i + 1 - 1 = i /\ i + 2 - 1 = i + 1 OBVIOUS
<1>3. (\A k \in 1 .. 2 : path[i + k - 1] = text[k]) <=> path[i] = a /\ path[i + 1] = b
    <2>1. 1 .. 2 = {1, 2} OBVIOUS
    <2> QED BY <1>1, <1>2, <2>1
<1>4. i + 2 <= Len(path) + 1 <=> i + 1 <= Len(path) OBVIOUS
<1>5. Stands(path, i, text) <=> i + 1 <= Len(path) /\ path[i] = a /\ path[i + 1] = b
    BY <1>1, <1>3, <1>4 DEF Stands
<1> QED BY <1>5 DEF text

\* The three forms of a segment, each read as it is written
LEMMA ReadsEach ==
    ASSUME NEW C, NEW path \in Seq(C), Marks \subseteq C, NEW state, NEW i \in 1 .. Len(path),
           state.at = i, Stands(path, i, <<"[", "]">>)
    PROVE  ReadSegment(path, state) = Turned(state, Each, i + 2)
<1>1. Len(path) \in Nat BY LenProperties
<1>2. i \in 1 .. Len(path) + 1 BY <1>1
<1>3. path[i] = "[" /\ path[i + 1] = "]" BY <1>1, <1>2, StandsTwo
<1>4. <<"[", "]">> \in Seq(C) /\ <<"[", Quote>> \in Seq(C) BY TwoMarks DEF Marks
<1>5. StartsAt(path, i, <<"[", "]">>) BY <1>2, <1>4, StartsIsStands
<1>6. ~StartsAt(path, i, <<"[", Quote>>)
    <2>1. ~Stands(path, i, <<"[", Quote>>) BY <1>1, <1>2, <1>3, StandsTwo, MarksAreOthers DEF MarksDiffer
    <2> QED BY <1>2, <1>4, <2>1, StartsIsStands
<1>7. path[i] # "." BY <1>3
<1>8. i \notin {0, Len(path) + 1} BY <1>1
<1> QED BY <1>5, <1>6, <1>7, <1>8 DEF ReadSegment, Turned

LEMMA ReadsPlain ==
    ASSUME NEW C, NEW path \in Seq(C), Marks \subseteq C, NEW state, NEW i \in 1 .. Len(path),
           NEW name \in Seq(C), IsIdentifier(name), state.at = i,
           Stands(path, i, <<".">> \o name), Ended(path, i + Len(<<".">> \o name))
    PROVE  ReadSegment(path, state) = Turned(state, Key(name), i + Len(<<".">> \o name))
<1>1. Len(path) \in Nat BY LenProperties
<1>2. <<".">> \in Seq(C) /\ Len(<<".">>) = 1 /\ <<".">>[1] = "." BY DEF Marks
<1>3. Len(name) \in Nat \ {0} /\ name[1] \in Letters
      /\ \A j \in 1 .. Len(name) : name[j] \in Letters \cup Digits
    BY IdentifierLetters
<1>4. Len(<<".">> \o name) = 1 + Len(name) BY <1>2, ConcatProperties
<1>5. i \in Nat BY <1>1
<1>6. Stands(path, i, <<".">>) /\ Stands(path, i + 1, name) BY <1>2, <1>5, StandsJoined
<1>7. PICK n \in Nat \ {0} : n = Len(name) BY <1>3
<1>a. \A k \in 1 .. n : name[k] \in Letters \cup Digits BY <1>3, <1>7
<1>8. path[i] = "."
    <2>1. 1 \in 1 .. Len(<<".">>) /\ i + 1 - 1 = i BY <1>2
    <2> QED BY <1>2, <1>6, <2>1 DEF Stands
<1>9. (i + 1) + n <= Len(path) + 1 /\ \A k \in 1 .. n : path[(i + 1) + k - 1] = name[k]
    BY <1>6, <1>7 DEF Stands
<1>10. i + 1 \in 1 .. Len(path) /\ n \in 1 .. Len(path) - (i + 1) + 1 BY <1>1, <1>7, <1>9
<1>11. Runs1(path, i + 1, n)
    <2>1. ASSUME NEW j \in i + 1 .. (i + 1) + n - 1 PROVE path[j] \in Letters \cup Digits
        <3>1. PICK k \in 1 .. n : (i + 1) + k - 1 = j
            <4>1. j - i \in 1 .. n /\ (i + 1) + (j - i) - 1 = j BY <1>7
            <4> QED BY <4>1
        <3>2. path[j] = name[k] BY <1>9, <3>1
        <3> QED BY <1>a, <3>2
    <2>2. (i + 1) + n > Len(path) \/ path[(i + 1) + n] \notin Letters \cup Digits
        <3>1. i + (1 + n) = (i + 1) + n OBVIOUS
        <3>2. Ended(path, (i + 1) + n) BY <1>4, <1>7, <3>1
        <3>3. CASE (i + 1) + n = Len(path) + 1 BY <1>1, <3>3
        <3>4. CASE path[(i + 1) + n] \in {".", "["} BY <3>4, NotationAssumption
        <3> QED BY <3>2, <3>3, <3>4 DEF Ended
    <2> QED BY <2>1, <2>2 DEF Runs1
<1>12. path[i + 1] \in Letters
    <2>1. 1 \in 1 .. n /\ (i + 1) + 1 - 1 = i + 1 BY <1>7
    <2> QED BY <1>3, <1>9, <2>1
<1>13. Identifier(path, i + 1) = n BY <1>1, <1>10, <1>11, <1>12, IdentifierRead
<1>14. SubSeq(path, i + 1, i + n) = name
    <2>1. \A k \in i + 1 .. i + n : path[k] \in C
        <3>1. \A k \in i + 1 .. i + n : k \in 1 .. Len(path) BY <1>1, <1>9
        <3> QED BY <3>1, ElementOfSeq
    <2> DEFINE own == SubSeq(path, i + 1, i + n)
    <2>2. /\ own \in Seq(C) /\ Len(own) = IF i + 1 <= i + n THEN (i + n) - (i + 1) + 1 ELSE 0
          /\ \A k \in 1 .. (i + n) - (i + 1) + 1 : own[k] = path[(i + 1) + k - 1]
        BY <1>1, <2>1, SubSeqProperties
    <2> HIDE DEF own
    <2>3. Len(own) = n BY <1>1, <1>7, <2>2
    <2>4. (i + n) - (i + 1) + 1 = n BY <1>1, <1>7
    <2>5. \A k \in 1 .. n : own[k] = name[k] BY <1>9, <2>2, <2>4
    <2> QED BY <1>7, <2>2, <2>3, <2>5, SeqEqual DEF own
<1>15. <<"[", "]">> \in Seq(C) /\ <<"[", Quote>> \in Seq(C) BY TwoMarks DEF Marks
<1>16. i \in 1 .. Len(path) + 1 BY <1>1
<1>17. ~StartsAt(path, i, <<"[", "]">>) /\ ~StartsAt(path, i, <<"[", Quote>>)
    <2>1. path[i] # "[" BY <1>8
    <2>2. ~Stands(path, i, <<"[", "]">>) /\ ~Stands(path, i, <<"[", Quote>>) BY <1>1, <1>16, <2>1, StandsTwo
    <2> QED BY <1>15, <1>16, <2>2, StartsIsStands
<1>18. i \notin {0, Len(path) + 1} BY <1>1
<1>19. ReadSegment(path, state) = Turned(state, Key(name), i + n + 1)
    <2>1. n > 0 BY <1>7
    <2> QED BY <1>8, <1>13, <1>14, <1>17, <1>18, <2>1 DEF ReadSegment, Turned
<1>20. i + n + 1 = i + (1 + n) BY <1>1, <1>7
<1> QED BY <1>4, <1>7, <1>19, <1>20

--------------------------------------------------------------------------------

Wrong == [name |-> <<>>, after |-> 0]

AtQuote(i) == [name |-> <<>>, after |-> i + 2]

Prepend(c, later) == [name |-> <<c>> \o later.name, after |-> later.after]

\* What is read of a quoted name from a place on, when g holds what is read later
Quoted(g, path, i) ==
    CASE i > Len(path) -> Wrong
      [] i <= Len(path) /\ path[i] = Quote ->
            IF StartsAt(path, i + 1, <<"]">>) THEN AtQuote(i) ELSE Wrong
      [] i <= Len(path) /\ path[i] = Backslash ->
            IF i < Len(path) /\ path[i + 1] \in {Quote, Backslash}
            THEN Prepend(path[i + 1], g[i + 2])
            ELSE Wrong
      [] OTHER -> Prepend(path[i], g[i + 1])

\* g holds what is read from every place of a path after start
Quotes(g, path, start) == g = [i \in start .. Len(path) + 1 |-> Quoted(g, path, i)]

LEMMA QuotedIsChosen ==
    ASSUME NEW path, NEW start
    PROVE  ReadQuoted(path, start) = (CHOOSE g : Quotes(g, path, start))[start]
BY DEF ReadQuoted, Quotes, Quoted, Wrong, Prepend, AtQuote

\* What follows a place within a path is the same in g and in h
AgreeAfter(g, h, path, i) ==
    /\ i + 1 <= Len(path) + 1 => g[i + 1] = h[i + 1]
    /\ i + 2 <= Len(path) + 1 => g[i + 2] = h[i + 2]

LEMMA QuotedLater ==
    ASSUME NEW path, Len(path) \in Nat, NEW i \in Nat, NEW g, NEW h, AgreeAfter(g, h, path, i)
    PROVE  Quoted(g, path, i) = Quoted(h, path, i)
<1>1. CASE i > Len(path) BY <1>1 DEF Quoted
<1>2. CASE i <= Len(path)
    <2>1. i + 1 <= Len(path) + 1 /\ (i < Len(path) => i + 2 <= Len(path) + 1) BY <1>2
    <2>2. g[i + 1] = h[i + 1] /\ (i < Len(path) => g[i + 2] = h[i + 2]) BY <2>1 DEF AgreeAfter
    <2> QED BY <2>2 DEF Quoted
<1> QED BY <1>1, <1>2

\* What is read of a quoted name is computed from the end of the path
LEMMA QuotationsExist ==
    ASSUME NEW path, Len(path) \in Nat, NEW start \in Nat
    PROVE  \E g : Quotes(g, path, start)
<1> DEFINE last == Len(path) + 1
<1> DEFINE From(g, n) == \A i \in start .. last : i + n >= last => g[i] = Quoted(g, path, i)
<1> DEFINE P == {n \in Nat : \E g : From(g, n)}
<1>1. 0 \in P
    <2> DEFINE g == [i \in start .. last |-> Quoted(<<>>, path, i)]
    <2>1. ASSUME NEW i \in start .. last, i + 0 >= last PROVE g[i] = Quoted(g, path, i)
        <3>1. i > Len(path) BY <2>1
        <3>2. g[i] = Quoted(<<>>, path, i) OBVIOUS
        <3> HIDE DEF g
        <3> QED BY <3>1, <3>2 DEF Quoted
    <2> HIDE DEF g
    <2>2. From(g, 0) BY <2>1
    <2> QED BY <2>2
<1>2. ASSUME NEW n \in P PROVE n + 1 \in P
    <2>1. PICK g : From(g, n) OBVIOUS
    <2> DEFINE h == [i \in start .. last |-> Quoted(g, path, i)]
    <2>2. \A j \in start .. last : j + n >= last => g[j] = h[j] BY <2>1
    <2>3. ASSUME NEW i \in start .. last, i + (n + 1) >= last PROVE h[i] = Quoted(h, path, i)
        <3>1. h[i] = Quoted(g, path, i) OBVIOUS
        <3> HIDE DEF h
        <3>2. i \in Nat BY <2>3
        <3>3. i + 1 <= last => g[i + 1] = h[i + 1]
            <4> SUFFICES ASSUME i + 1 <= last PROVE g[i + 1] = h[i + 1] OBVIOUS
            <4>1. i + 1 \in start .. last /\ (i + 1) + n >= last BY <2>3
            <4> QED BY <2>2, <4>1
        <3>4. i + 2 <= last => g[i + 2] = h[i + 2]
            <4> SUFFICES ASSUME i + 2 <= last PROVE g[i + 2] = h[i + 2] OBVIOUS
            <4>1. i + 2 \in start .. last /\ (i + 2) + n >= last BY <2>3
            <4> QED BY <2>2, <4>1
        <3>5. AgreeAfter(g, h, path, i) BY <3>3, <3>4 DEF AgreeAfter
        <3>6. Quoted(g, path, i) = Quoted(h, path, i)
            <4> HIDE DEF From, P, last
            <4> QED BY <3>2, <3>5, QuotedLater
        <3> QED BY <3>1, <3>6
    <2> HIDE DEF h
    <2>4. From(h, n + 1) BY <2>3
    <2> HIDE DEF From
    <2> QED BY <2>4
<1> HIDE DEF P
<1>3. P = Nat
    <2>1. P \in SUBSET Nat BY DEF P
    <2> QED BY <1>1, <1>2, <2>1, NatInduct
<1>4. PICK g : From(g, last)
    <2>1. last \in P BY <1>3
    <2> HIDE DEF From, last
    <2> QED BY <2>1 DEF P
<1>5. \A i \in start .. last : g[i] = Quoted(g, path, i)
    <2>1. \A i \in start .. last : i + last >= last OBVIOUS
    <2> QED BY <1>4, <2>1
<1> DEFINE h == [i \in start .. last |-> Quoted(g, path, i)]
<1>6. \A i \in start .. last : h[i] = g[i] BY <1>5
<1> HIDE DEF h
<1>7. \A i \in start .. last : Quoted(g, path, i) = Quoted(h, path, i)
    <2> TAKE i \in start .. last
    <2>1. i \in Nat OBVIOUS
    <2>2. i + 1 <= last => g[i + 1] = h[i + 1]
        <3>1. i + 1 <= last => i + 1 \in start .. last OBVIOUS
        <3> QED BY <1>6, <3>1
    <2>3. i + 2 <= last => g[i + 2] = h[i + 2]
        <3>1. i + 2 <= last => i + 2 \in start .. last OBVIOUS
        <3> QED BY <1>6, <3>1
    <2>4. AgreeAfter(g, h, path, i) BY <2>2, <2>3 DEF AgreeAfter
    <2> HIDE DEF From, P, last
    <2> QED BY <2>1, <2>4, QuotedLater
<1>8. Quotes(h, path, start) BY <1>7 DEF Quotes, h
<1> QED BY <1>8

\* What g holds for a place
Gives(g, i, name, end) == g[i] = [name |-> name, after |-> end]

\* One character of a name is read as it was written
LEMMA ReadsCharacter ==
    ASSUME NEW C, NEW path \in Seq(C), NEW start \in Nat, NEW g, Quotes(g, path, start),
           NEW c \in C, Backslash \in C, NEW i \in Nat, start <= i, Stands(path, i, Escaped(c)),
           NEW rest, NEW end, NEW j, j = i + Len(Escaped(c)), Gives(g, j, rest, end)
    PROVE  Gives(g, i, <<c>> \o rest, end)
<1>1. Len(path) \in Nat BY LenProperties
<1>2. CASE c \in {Quote, Backslash}
    <2>1. Escaped(c) = <<Backslash, c>> BY <1>2 DEF Escaped
    <2>2. Len(Escaped(c)) = 2 BY <2>1
    <2>3. i + 1 <= Len(path)
        <3>1. i + 2 <= Len(path) + 1 BY <2>2 DEF Stands
        <3> QED BY <1>1, <3>1
    <2>4. path[i] = Backslash /\ path[i + 1] = c
        <3>1. Escaped(c)[1] = Backslash /\ Escaped(c)[2] = c BY <2>1
        <3>2. 1 \in 1 .. 2 /\ 2 \in 1 .. 2 /\ i + 1 - 1 = i /\ i + 2 - 1 = i + 1 OBVIOUS
        <3> QED BY <2>2, <3>1, <3>2 DEF Stands
    <2>5. i \in start .. Len(path) + 1 /\ i <= Len(path) /\ i < Len(path) /\ ~(i > Len(path)) BY <1>1, <2>3
    <2>6. g[i] = Quoted(g, path, i) BY <2>5 DEF Quotes
    <2>7. Backslash # Quote BY MarksAreOthers DEF MarksDiffer
    <2>8. g[i] = Prepend(c, g[i + 2])
        BY <1>2, <2>4, <2>5, <2>6, <2>7 DEF Quoted
    <2>9. g[i + 2] = [name |-> rest, after |-> end] BY <2>2 DEF Gives
    <2> QED BY <2>8, <2>9 DEF Prepend, Gives
<1>3. CASE c \notin {Quote, Backslash}
    <2>1. Escaped(c) = <<c>> BY <1>3 DEF Escaped
    <2>2. Len(Escaped(c)) = 1 BY <2>1
    <2>3. i <= Len(path)
        <3>1. i + 1 <= Len(path) + 1 BY <2>2 DEF Stands
        <3> QED BY <1>1, <3>1
    <2>4. path[i] = c
        <3>1. Escaped(c)[1] = c BY <2>1
        <3>2. 1 \in 1 .. 1 /\ i + 1 - 1 = i OBVIOUS
        <3> QED BY <2>2, <3>1, <3>2 DEF Stands
    <2>5. i \in start .. Len(path) + 1 /\ ~(i > Len(path)) BY <1>1, <2>3
    <2>6. g[i] = Quoted(g, path, i) BY <2>5 DEF Quotes
    <2>7. g[i] = Prepend(c, g[i + 1]) BY <1>3, <2>4, <2>5, <2>6 DEF Quoted
    <2>8. g[i + 1] = [name |-> rest, after |-> end] BY <2>2 DEF Gives
    <2> QED BY <2>7, <2>8 DEF Prepend, Gives
<1> QED BY <1>2, <1>3

Escapes(name) == FlattenSeq([i \in 1 .. Len(name) |-> Escaped(name[i])])

LEMMA EscapedType == ASSUME NEW C, NEW c \in C, Backslash \in C PROVE Escaped(c) \in Seq(C)
BY DEF Escaped

LEMMA EscapesType ==
    ASSUME NEW C, NEW name \in Seq(C), Backslash \in C
    PROVE  Escapes(name) \in Seq(C)
<1> DEFINE ss == [i \in 1 .. Len(name) |-> Escaped(name[i])]
<1>1. \A i \in 1 .. Len(name) : ss[i] \in Seq(C) BY ElementOfSeq, EscapedType
<1>2. ss \in Seq(Seq(C)) BY <1>1, IsASeq, LenProperties
<1> QED BY <1>2, FlattenType DEF Escapes

\* A name is escaped character by character
LEMMA EscapesAppend ==
    ASSUME NEW C, NEW name \in Seq(C), NEW c \in C, Backslash \in C
    PROVE  Escapes(Append(name, c)) = Escapes(name) \o Escaped(c)
<1> DEFINE ss == [i \in 1 .. Len(name) |-> Escaped(name[i])]
<1> DEFINE long == Append(name, c)
<1> DEFINE tt == [i \in 1 .. Len(long) |-> Escaped(long[i])]
<1>1. /\ long \in Seq(C) /\ Len(long) = Len(name) + 1 /\ long[Len(name) + 1] = c
      /\ \A i \in 1 .. Len(name) : long[i] = name[i]
    BY AppendProperties
<1>2. Len(name) \in Nat BY LenProperties
<1>3. \A i \in 1 .. Len(name) : ss[i] \in Seq(C) BY ElementOfSeq, EscapedType
<1>4. ss \in Seq(Seq(C)) /\ Len(ss) = Len(name) BY <1>2, <1>3, IsASeq
<1>5. Escaped(c) \in Seq(C) BY EscapedType
<1> DEFINE uu == Append(ss, Escaped(c))
<1>6. /\ uu \in Seq(Seq(C)) /\ Len(uu) = Len(name) + 1 /\ uu[Len(name) + 1] = Escaped(c)
      /\ \A i \in 1 .. Len(name) : uu[i] = ss[i]
    BY <1>4, <1>5, AppendProperties
<1>7. \A i \in 1 .. Len(long) : long[i] \in C BY <1>1, ElementOfSeq
<1>8. \A i \in 1 .. Len(long) : tt[i] \in Seq(C) BY <1>7, EscapedType
<1>9. tt \in Seq(Seq(C)) /\ Len(tt) = Len(name) + 1 BY <1>1, <1>2, <1>8, IsASeq
<1>10. \A i \in 1 .. Len(name) + 1 : tt[i] = uu[i]
    <2> TAKE i \in 1 .. Len(name) + 1
    <2>1. tt[i] = Escaped(long[i]) BY <1>1
    <2>2. CASE i = Len(name) + 1
        <3> HIDE DEF tt, uu, long
        <3> QED BY <1>1, <1>6, <2>1, <2>2
    <2>3. CASE i # Len(name) + 1
        <3>1. i \in 1 .. Len(name) BY <1>2, <2>3
        <3>2. ss[i] = Escaped(name[i]) BY <3>1
        <3> HIDE DEF tt, uu, long, ss
        <3> QED BY <1>1, <1>6, <2>1, <3>1, <3>2
    <2> QED BY <2>2, <2>3
<1> HIDE DEF tt, uu
<1>11. tt = uu BY <1>6, <1>9, <1>10, SeqEqual
<1>12. FlattenSeq(uu) = FlattenSeq(ss) \o Escaped(c)
    <2> HIDE DEF ss
    <2> QED BY <1>4, <1>5, FlattenAppend DEF uu
<1> QED BY <1>11, <1>12 DEF Escapes, tt

\* Hence so is a whole name, whatever follows it
LEMMA ReadsName ==
    ASSUME NEW C, NEW path \in Seq(C), NEW start \in Nat, NEW g, Quotes(g, path, start),
           Backslash \in C, NEW name \in Seq(C), NEW end,
           Stands(path, start, Escapes(name)), Gives(g, start + Len(Escapes(name)), <<>>, end)
    PROVE  Gives(g, start, name, end)
<1> DEFINE P == {s \in Seq(C) : Stands(path, start, Escapes(s)) =>
                    \A r \in Seq(C) : Gives(g, start + Len(Escapes(s)), r, end) =>
                                         Gives(g, start, s \o r, end)}
<1>1. <<>> \in P
    <2>1. [i \in 1 .. Len(<<>>) |-> Escaped(<<>>[i])] = <<>> OBVIOUS
    <2>2. Escapes(<<>>) = <<>> BY <2>1, FlattenEmpty DEF Escapes
    <2>3. start + Len(<<>>) = start OBVIOUS
    <2>4. \A r \in Seq(C) : <<>> \o r = r BY ConcatEmptySeq
    <2>5. <<>> \in Seq(C) BY EmptySeq
    <2> QED BY <2>2, <2>3, <2>4, <2>5
<1>2. ASSUME NEW s \in Seq(C), NEW c \in C, s \in P PROVE Append(s, c) \in P
    <2> DEFINE long == Append(s, c)
    <2>1. long \in Seq(C) BY AppendProperties
    <2>2. Escapes(long) = Escapes(s) \o Escaped(c) BY EscapesAppend
    <2>3. Escapes(s) \in Seq(C) /\ Escaped(c) \in Seq(C) BY EscapesType, EscapedType
    <2>4. Len(Escapes(s)) \in Nat /\ Len(Escaped(c)) \in Nat BY <2>3, LenProperties
    <2>5. Len(Escapes(long)) = Len(Escapes(s)) + Len(Escaped(c)) BY <2>2, <2>3, ConcatProperties
    <2>6. long = s \o <<c>> BY AppendIsConcat
    <2> SUFFICES ASSUME Stands(path, start, Escapes(long)), NEW r \in Seq(C),
                        Gives(g, start + Len(Escapes(long)), r, end)
                 PROVE  Gives(g, start, long \o r, end)
        BY <2>1
    <2> HIDE DEF long
    <2>7. PICK i \in Nat : i = start + Len(Escapes(s)) BY <2>4
    <2>8. Stands(path, start, Escapes(s)) /\ Stands(path, i, Escaped(c))
        BY <2>2, <2>3, <2>7, StandsJoined
    <2>9. start <= i BY <2>4, <2>7
    <2>10. PICK j \in Nat : j = i + Len(Escaped(c)) BY <2>4
    <2>11. Gives(g, j, r, end)
        <3>1. j = start + Len(Escapes(long))
            <4>1. j = (start + Len(Escapes(s))) + Len(Escaped(c)) BY <2>7, <2>10
            <4> HIDE DEF P
            <4> QED BY <2>4, <2>5, <4>1
        <3> QED BY <3>1
    <2>12. Gives(g, i, <<c>> \o r, end)
        <3> HIDE DEF P
        <3> QED BY <2>8, <2>9, <2>10, <2>11, ReadsCharacter
    <2>13. <<c>> \in Seq(C) /\ <<c>> \o r \in Seq(C) BY ConcatProperties
    <2>14. Gives(g, start, s \o (<<c>> \o r), end) BY <1>2, <2>7, <2>8, <2>12, <2>13
    <2>15. long \o r = s \o (<<c>> \o r)
        <3> HIDE DEF P
        <3>1. (s \o <<c>>) \o r = s \o (<<c>> \o r) BY SMTT(30), <2>13, ConcatAssociative
        <3> QED BY <2>6, <3>1
    <2> QED BY <2>14, <2>15
<1> HIDE DEF P
<1>3. Seq(C) \subseteq P BY <1>1, <1>2, SeqInduct
<1>4. <<>> \in Seq(C) /\ name \o <<>> = name BY EmptySeq, ConcatEmptySeq
<1>5. name \in P BY <1>3
<1> QED BY <1>4, <1>5 DEF P

Bracketed(name) == <<"[", Quote>> \o Escapes(name) \o <<Quote, "]">>

LEMMA StartOfConcat ==
    ASSUME NEW S, NEW s \in Seq(S), NEW t \in Seq(S)
    PROVE  /\ s \o t \in Seq(S) /\ Len(s \o t) = Len(s) + Len(t)
           /\ \A k \in 1 .. Len(s) : (s \o t)[k] = s[k]
<1>1. /\ s \o t \in Seq(S) /\ Len(s \o t) = Len(s) + Len(t)
      /\ \A k \in 1 .. Len(s) + Len(t) : (s \o t)[k] = IF k <= Len(s) THEN s[k] ELSE t[k - Len(s)]
    BY ConcatProperties
<1>2. Len(s) \in Nat /\ Len(t) \in Nat BY LenProperties
<1>3. \A k \in 1 .. Len(s) : k \in 1 .. Len(s) + Len(t) /\ k <= Len(s) BY <1>2
<1> DEFINE u == s \o t
<1>4. \A k \in 1 .. Len(s) : u[k] = s[k] BY <1>1, <1>3
<1> QED BY <1>1, <1>4

LEMMA BracketedType ==
    ASSUME NEW C, Marks \subseteq C, NEW name \in Seq(C)
    PROVE  /\ Bracketed(name) \in Seq(C)
           /\ Len(Bracketed(name)) = 4 + Len(Escapes(name)) /\ Len(Escapes(name)) \in Nat
           /\ Bracketed(name)[1] = "[" /\ Bracketed(name)[2] = Quote
<1> DEFINE a == <<"[", Quote>>
<1> DEFINE b == Escapes(name)
<1> DEFINE e == <<Quote, "]">>
<1>1. a \in Seq(C) /\ Len(a) = 2 /\ a[1] = "[" /\ a[2] = Quote BY TwoMarks DEF Marks
<1>2. e \in Seq(C) /\ Len(e) = 2 BY TwoMarks DEF Marks
<1>3. b \in Seq(C) BY EscapesType DEF Marks
<1> HIDE DEF a, b, e
<1>4. Len(b) \in Nat BY <1>3, LenProperties
<1>5. /\ a \o b \in Seq(C) /\ Len(a \o b) = Len(a) + Len(b)
      /\ \A k \in 1 .. Len(a) : (a \o b)[k] = a[k]
    BY <1>1, <1>3, StartOfConcat
<1> DEFINE ab == a \o b
<1>6. ab[1] = "[" /\ ab[2] = Quote /\ ab \in Seq(C) /\ Len(ab) = 2 + Len(b)
    <2>1. 1 \in 1 .. Len(a) /\ 2 \in 1 .. Len(a) BY <1>1
    <2> QED BY <1>1, <1>5, <2>1
<1> HIDE DEF ab
<1>7. /\ ab \o e \in Seq(C) /\ Len(ab \o e) = Len(ab) + Len(e)
      /\ \A k \in 1 .. Len(ab) : (ab \o e)[k] = ab[k]
    <2>1. ab \in Seq(C) BY <1>6
    <2>2. e \in Seq(C) BY <1>2
    <2> QED BY <2>1, <2>2, StartOfConcat
<1>8. (ab \o e)[1] = "[" /\ (ab \o e)[2] = Quote
    <2>1. 1 \in 1 .. Len(ab) /\ 2 \in 1 .. Len(ab) BY <1>4, <1>6
    <2> QED BY <1>6, <1>7, <2>1
<1>9. Len(ab \o e) = 4 + Len(b) BY <1>2, <1>4, <1>6, <1>7
<1> QED BY <1>4, <1>7, <1>8, <1>9 DEF Bracketed, a, b, e, ab

LEMMA ReadsQuoted ==
    ASSUME NEW C, NEW path \in Seq(C), Marks \subseteq C, NEW state, NEW i \in 1 .. Len(path),
           NEW name \in Seq(C), state.at = i, Stands(path, i, Bracketed(name))
    PROVE  ReadSegment(path, state) = Turned(state, Key(name), i + Len(Bracketed(name)))
<1> DEFINE a == <<"[", Quote>>
<1> DEFINE b == Escapes(name)
<1> DEFINE e == <<Quote, "]">>
<1>1. a \in Seq(C) /\ Len(a) = 2 /\ a[1] = "[" /\ a[2] = Quote BY TwoMarks DEF Marks
<1>2. e \in Seq(C) /\ Len(e) = 2 BY TwoMarks DEF Marks
<1>3. b \in Seq(C) BY EscapesType DEF Marks
<1>4. Len(path) \in Nat /\ i \in Nat /\ Len(b) \in Nat BY <1>3, LenProperties
<1>5. Stands(path, i, a) /\ Stands(path, i + 2, b) /\ Stands(path, i + (2 + Len(b)), e)
    <2> HIDE DEF a, b, e
    <2>1. a \o b \in Seq(C) /\ Len(a \o b) = 2 + Len(b)
        <3>1. a \o b \in Seq(C) /\ Len(a \o b) = Len(a) + Len(b) BY <1>1, <1>3, StartOfConcat
        <3> QED BY <1>1, <3>1
    <2>2. Stands(path, i, (a \o b) \o e) BY DEF Bracketed, a, b, e
    <2>3. Stands(path, i, a \o b) /\ Stands(path, i + (2 + Len(b)), e)
        BY <1>2, <1>4, <2>1, <2>2, StandsJoined
    <2> QED BY <1>1, <1>3, <1>4, <2>3, StandsJoined
<1>6. PICK p \in Nat : p = i + 2 BY <1>4
<1>7. PICK q \in Nat : q = p + Len(b) BY <1>4
<1>8. q \in 1 .. Len(path) + 1 /\ q + 1 <= Len(path) /\ path[q] = Quote /\ path[q + 1] = "]"
    <2>1. i + (2 + Len(b)) = q BY <1>4, <1>6, <1>7
    <2>2. Stands(path, q, e) BY <1>5, <2>1
    <2>3. q \in 1 .. Len(path) + 1 BY <1>2, <1>4, <1>6, <1>7, <2>2 DEF Stands
    <2> QED BY <1>4, <2>2, <2>3, StandsTwo
<1>9. Stands(path, p, b) BY <1>5, <1>6
<1>10. StartsAt(path, q + 1, <<"]">>)
    <2> DEFINE text == <<"]">>
    <2>1. text \in Seq(C) /\ Len(text) = 1 /\ text[1] = "]" BY DEF Marks
    <2>2. q + 1 \in 1 .. Len(path) + 1 BY <1>4, <1>8
    <2> HIDE DEF text
    <2>3. Stands(path, q + 1, text)
        <3>1. \A k \in 1 .. 1 : k = 1 /\ (q + 1) + k - 1 = q + 1 OBVIOUS
        <3>2. (q + 1) + 1 <= Len(path) + 1 BY <1>4, <1>8
        <3> QED BY <1>8, <2>1, <3>1, <3>2 DEF Stands
    <2>4. StartsAt(path, q + 1, text) BY <2>1, <2>2, <2>3, StartsIsStands
    <2> QED BY <2>4 DEF text
<1> DEFINE g == CHOOSE f : Quotes(f, path, p)
<1>11. Quotes(g, path, p) BY <1>4, QuotationsExist
<1>12. ReadQuoted(path, p) = g[p] BY QuotedIsChosen
<1> HIDE DEF g, b
<1>13. Gives(g, q, <<>>, q + 2)
    <2>1. q \in p .. Len(path) + 1 /\ q <= Len(path) /\ ~(q > Len(path)) BY <1>4, <1>7, <1>8
    <2>2. g[q] = Quoted(g, path, q) BY <1>11, <2>1 DEF Quotes
    <2>3. Quote # Backslash BY MarksAreOthers DEF MarksDiffer
    <2>4. Quoted(g, path, q) = AtQuote(q) BY <1>8, <1>10, <2>1, <2>3 DEF Quoted
    <2> QED BY <2>2, <2>4 DEF Gives, AtQuote
<1>14. Gives(g, p, name, q + 2)
    <2>1. Backslash \in C BY DEF Marks
    <2>2. Gives(g, p + Len(Escapes(name)), <<>>, q + 2) BY <1>7, <1>13 DEF b
    <2> QED BY <1>9, <1>11, <2>1, <2>2, ReadsName DEF b
<1>15. ReadQuoted(path, i + 2) = [name |-> name, after |-> q + 2] BY <1>6, <1>12, <1>14 DEF Gives
<1>16. i \in 1 .. Len(path) + 1 BY <1>4
<1>17. path[i] = "[" /\ path[i + 1] = Quote BY <1>4, <1>5, <1>16, StandsTwo
<1>18. StartsAt(path, i, a) BY <1>1, <1>5, <1>16, StartsIsStands
<1>19. ~StartsAt(path, i, <<"[", "]">>)
    <2>1. <<"[", "]">> \in Seq(C) BY TwoMarks DEF Marks
    <2>2. ~Stands(path, i, <<"[", "]">>) BY <1>4, <1>16, <1>17, StandsTwo, MarksAreOthers DEF MarksDiffer
    <2> QED BY <1>16, <2>1, <2>2, StartsIsStands
<1>20. i \notin {0, Len(path) + 1} /\ path[i] # "." /\ q + 2 # 0 BY <1>4, <1>17
<1>21. ReadSegment(path, state) = Turned(state, Key(name), q + 2)
    <2>1. ReadQuoted(path, i + 2).name = name /\ ReadQuoted(path, i + 2).after = q + 2 BY <1>15
    <2>2. StartsAt(path, i, <<"[", Quote>>) BY <1>18
    <2> HIDE DEF a, e
    <2> QED BY <1>19, <1>20, <2>1, <2>2 DEF ReadSegment, Turned
<1>22. i + Len(Bracketed(name)) = q + 2
    <2>1. Len(Bracketed(name)) = 4 + Len(b) BY BracketedType DEF b
    <2> QED BY <1>4, <1>6, <1>7, <2>1
<1> QED BY <1>21, <1>22

--------------------------------------------------------------------------------

\* A name that the notation can write
Writable(name) ==
    IsSequence(name) /\ (name # <<>> /\ Last(name) = "\n" => ~IsIdentifier(Front(name)))

Segments(C) == {Each} \cup {Key(name) : name \in {n \in Seq(C) : Writable(n)}}

Write(s) == IF s = Each THEN <<"[", "]">> ELSE PathSegment(s[2])

\* A name that can be written is written plain or in quotes
LEMMA PathSegmentForms ==
    ASSUME NEW name, Writable(name)
    PROVE  \/ PathSegment(name) = <<".">> \o name /\ IsIdentifier(name)
           \/ PathSegment(name) = Bracketed(name)
<1>1. CASE name # <<>> /\ Last(name) = "\n"
    <2>1. ~IsIdentifier(Front(name)) BY <1>1 DEF Writable
    <2> QED BY <1>1, <2>1 DEF PathSegment, Bracketed, Escapes
<1>2. CASE ~(name # <<>> /\ Last(name) = "\n")
    BY <1>2 DEF PathSegment, Bracketed, Escapes
<1> QED BY <1>1, <1>2

LEMMA WriteForms ==
    ASSUME NEW C, NEW s \in Segments(C)
    PROVE  \/ s = Each /\ Write(s) = <<"[", "]">>
           \/ \E name \in Seq(C) :
                 /\ s = Key(name)
                 /\ \/ Write(s) = <<".">> \o name /\ IsIdentifier(name)
                    \/ Write(s) = Bracketed(name)
<1>1. CASE s = Each BY <1>1 DEF Write
<1>2. CASE s # Each
    <2>1. PICK name \in Seq(C) : Writable(name) /\ s = Key(name) BY <1>2 DEF Segments
    <2>2. s[2] = name BY <2>1 DEF Key
    <2>3. Write(s) = PathSegment(name) BY <1>2, <2>2 DEF Write
    <2> QED BY <2>1, <2>3, PathSegmentForms
<1> QED BY <1>1, <1>2

LEMMA WriteType ==
    ASSUME NEW C, Marks \subseteq C, NEW s \in Segments(C)
    PROVE  /\ Write(s) \in Seq(C) /\ Len(Write(s)) \in Nat \ {0}
           /\ Write(s)[1] \in {".", "["}
<1>1. CASE Write(s) = <<"[", "]">> BY <1>1, TwoMarks DEF Marks
<1>2. ASSUME NEW name \in Seq(C), Write(s) = <<".">> \o name
      PROVE  Write(s) \in Seq(C) /\ Len(Write(s)) \in Nat \ {0} /\ Write(s)[1] \in {".", "["}
    <2> DEFINE dot == <<".">>
    <2>1. dot \in Seq(C) /\ Len(dot) = 1 /\ dot[1] = "." BY DEF Marks
    <2> HIDE DEF dot
    <2>2. /\ dot \o name \in Seq(C) /\ Len(dot \o name) = Len(dot) + Len(name)
          /\ \A k \in 1 .. Len(dot) : (dot \o name)[k] = dot[k]
        BY <2>1, StartOfConcat
    <2>3. Len(name) \in Nat BY LenProperties
    <2>4. 1 \in 1 .. Len(dot) BY <2>1
    <2>5. (dot \o name)[1] = "." BY <2>1, <2>2, <2>4
    <2> QED BY <1>2, <2>1, <2>2, <2>3, <2>5 DEF dot
<1>3. ASSUME NEW name \in Seq(C), Write(s) = Bracketed(name)
      PROVE  Write(s) \in Seq(C) /\ Len(Write(s)) \in Nat \ {0} /\ Write(s)[1] \in {".", "["}
    BY <1>3, BracketedType
<1> QED BY <1>1, <1>2, <1>3, WriteForms

\* A segment is read as it was written, whatever comes next
LEMMA ReadsWritten ==
    ASSUME NEW C, NEW path \in Seq(C), Marks \subseteq C, NEW state, NEW i \in 1 .. Len(path),
           NEW s \in Segments(C), state.at = i,
           Stands(path, i, Write(s)), Ended(path, i + Len(Write(s)))
    PROVE  ReadSegment(path, state) = Turned(state, s, i + Len(Write(s)))
<1>1. CASE s = Each /\ Write(s) = <<"[", "]">>
    <2>1. Len(<<"[", "]">>) = 2 OBVIOUS
    <2> QED BY <1>1, <2>1, ReadsEach
<1>2. ASSUME NEW name \in Seq(C), s = Key(name), Write(s) = <<".">> \o name, IsIdentifier(name)
      PROVE  ReadSegment(path, state) = Turned(state, s, i + Len(Write(s)))
    BY SMTT(30), <1>2, ReadsPlain
<1>3. ASSUME NEW name \in Seq(C), s = Key(name), Write(s) = Bracketed(name)
      PROVE  ReadSegment(path, state) = Turned(state, s, i + Len(Write(s)))
    BY <1>3, ReadsQuoted
<1> QED BY <1>1, <1>2, <1>3, WriteForms

Writes(ss) == FlattenSeq([i \in 1 .. Len(ss) |-> Write(ss[i])])

LEMMA WritesType ==
    ASSUME NEW C, Marks \subseteq C, NEW ss \in Seq(Segments(C))
    PROVE  Writes(ss) \in Seq(C)
<1> DEFINE tt == [i \in 1 .. Len(ss) |-> Write(ss[i])]
<1>1. \A i \in 1 .. Len(ss) : tt[i] \in Seq(C) BY ElementOfSeq, WriteType
<1>2. tt \in Seq(Seq(C)) BY <1>1, IsASeq, LenProperties
<1> QED BY <1>2, FlattenType DEF Writes

\* The texts of the segments of a path
Texts(ss) == [i \in 1 .. Len(ss) |-> Write(ss[i])]

LEMMA TextsAppend ==
    ASSUME NEW C, Marks \subseteq C, NEW ss \in Seq(Segments(C)), NEW s \in Segments(C)
    PROVE  Texts(ss) \in Seq(Seq(C)) /\ Texts(Append(ss, s)) = Append(Texts(ss), Write(s))
<1> DEFINE long == Append(ss, s)
<1>1. /\ long \in Seq(Segments(C)) /\ Len(long) = Len(ss) + 1 /\ long[Len(ss) + 1] = s
      /\ \A i \in 1 .. Len(ss) : long[i] = ss[i]
    BY AppendProperties
<1>2. Len(ss) \in Nat BY LenProperties
<1> HIDE DEF long
<1>3. \A i \in 1 .. Len(ss) : Write(ss[i]) \in Seq(C) BY ElementOfSeq, WriteType
<1>4. Texts(ss) \in Seq(Seq(C)) /\ Len(Texts(ss)) = Len(ss) BY <1>2, <1>3, IsASeq DEF Texts
<1>5. Write(s) \in Seq(C) BY WriteType
<1> DEFINE uu == Append(Texts(ss), Write(s))
<1>6. /\ uu \in Seq(Seq(C)) /\ Len(uu) = Len(ss) + 1 /\ uu[Len(ss) + 1] = Write(s)
      /\ \A i \in 1 .. Len(ss) : uu[i] = Texts(ss)[i]
    BY <1>4, <1>5, AppendProperties
<1> HIDE DEF uu
<1>7. \A i \in 1 .. Len(long) : Write(long[i]) \in Seq(C) BY <1>1, ElementOfSeq, WriteType
<1>8. Texts(long) \in Seq(Seq(C)) /\ Len(Texts(long)) = Len(ss) + 1
    BY <1>1, <1>2, <1>7, IsASeq DEF Texts
<1>9. \A i \in 1 .. Len(ss) + 1 : Texts(long)[i] = uu[i]
    <2> TAKE i \in 1 .. Len(ss) + 1
    <2>1. Texts(long)[i] = Write(long[i]) BY <1>1 DEF Texts
    <2>2. CASE i = Len(ss) + 1 BY <1>1, <1>6, <2>1, <2>2
    <2>3. CASE i # Len(ss) + 1
        <3>1. i \in 1 .. Len(ss) BY <1>2, <2>3
        <3>2. Texts(ss)[i] = Write(ss[i]) BY <3>1 DEF Texts
        <3> QED BY <1>1, <1>6, <2>1, <3>1, <3>2
    <2> QED BY <2>2, <2>3
<1>10. Texts(long) = uu BY <1>6, <1>8, <1>9, SeqEqual
<1> QED BY <1>4, <1>10 DEF long, uu

LEMMA WritesAppend ==
    ASSUME NEW C, Marks \subseteq C, NEW ss \in Seq(Segments(C)), NEW s \in Segments(C)
    PROVE  Writes(Append(ss, s)) = Writes(ss) \o Write(s)
<1>1. Texts(ss) \in Seq(Seq(C)) /\ Texts(Append(ss, s)) = Append(Texts(ss), Write(s)) BY TextsAppend
<1>2. Write(s) \in Seq(C) BY WriteType
<1>3. FlattenSeq(Append(Texts(ss), Write(s))) = FlattenSeq(Texts(ss)) \o Write(s)
    BY <1>1, <1>2, FlattenAppend
<1> QED BY <1>1, <1>3 DEF Writes, Texts

LEMMA WritesNothing == Writes(<<>>) = <<>>
<1>1. [i \in 1 .. Len(<<>>) |-> Write(<<>>[i])] = <<>> OBVIOUS
<1> QED BY <1>1, FlattenEmpty DEF Writes

\* The loop of parse_path has read the segments that stand at the start of a path
HasRead(g, path, ss) ==
    /\ Len(ss) <= Len(Writes(ss))
    /\ Stands(path, 2, Writes(ss)) /\ Ended(path, 2 + Len(Writes(ss)))
       => g[Len(ss)] = [at |-> 2 + Len(Writes(ss)), segments |-> ss]

LEMMA ReadsSegments ==
    ASSUME NEW C, NEW path \in Seq(C), Marks \subseteq C, NEW g, Turns(g, path),
           NEW ss \in Seq(Segments(C))
    PROVE  HasRead(g, path, ss)
<1> DEFINE P == {t \in Seq(Segments(C)) : HasRead(g, path, t)}
<1>1. Len(path) \in Nat BY LenProperties
<1>2. <<>> \in P
    <2>1. g[0] = [at |-> 2, segments |-> <<>>] BY <1>1 DEF Turns
    <2>2. Len(<<>>) = 0 /\ 2 + 0 = 2 /\ <<>> \in Seq(Segments(C)) BY EmptySeq
    <2> QED BY <2>1, <2>2, WritesNothing DEF HasRead
<1>3. ASSUME NEW t \in Seq(Segments(C)), NEW s \in Segments(C), t \in P PROVE Append(t, s) \in P
    <2> DEFINE long == Append(t, s)
    <2>1. long \in Seq(Segments(C)) /\ Len(long) = Len(t) + 1 BY AppendProperties
    <2>2. Writes(long) = Writes(t) \o Write(s) BY WritesAppend
    <2> HIDE DEF long
    <2>3. Writes(t) \in Seq(C) /\ Write(s) \in Seq(C) BY WritesType, WriteType
    <2>4. /\ Len(Writes(t)) \in Nat /\ Len(Write(s)) \in Nat \ {0} /\ Len(t) \in Nat
          /\ Write(s)[1] \in {".", "["}
        BY <2>3, LenProperties, WriteType
    <2>5. Len(Writes(long)) = Len(Writes(t)) + Len(Write(s)) BY <2>2, <2>3, ConcatProperties
    <2>6. Len(long) <= Len(Writes(long)) BY <1>3, <2>1, <2>4, <2>5 DEF HasRead
    <2>7. ASSUME Stands(path, 2, Writes(long)), Ended(path, 2 + Len(Writes(long)))
          PROVE  g[Len(long)] = [at |-> 2 + Len(Writes(long)), segments |-> long]
        <3>1. PICK i \in Nat : i = 2 + Len(Writes(t)) BY <2>4
        <3>2. Stands(path, 2, Writes(t)) /\ Stands(path, i, Write(s))
            BY <2>2, <2>3, <2>7, <3>1, StandsJoined
        <3>3. i \in 1 .. Len(path) /\ path[i] = Write(s)[1]
            <4>1. i + Len(Write(s)) <= Len(path) + 1
                  /\ \A k \in 1 .. Len(Write(s)) : path[i + k - 1] = Write(s)[k]
                BY <3>2 DEF Stands
            <4>2. 1 \in 1 .. Len(Write(s)) /\ i + 1 - 1 = i BY <2>4
            <4> QED BY <1>1, <2>4, <3>1, <4>1, <4>2
        <3>4. g[Len(t)] = [at |-> i, segments |-> t]
            <4>1. Ended(path, i) BY <2>4, <3>3 DEF Ended
            <4> QED BY <1>3, <3>1, <3>2, <4>1 DEF HasRead
        <3>5. Len(t) + 1 \in 0 .. Len(path) /\ Len(t) + 1 # 0 /\ (Len(t) + 1) - 1 = Len(t)
            <4>1. Len(t) <= Len(Writes(t)) BY <1>3 DEF HasRead
            <4> QED BY <1>1, <2>4, <3>1, <3>3, <4>1
        <3>6. g[Len(t) + 1] = ReadSegment(path, g[Len(t)]) BY <3>5 DEF Turns
        <3>7. i + Len(Write(s)) = 2 + Len(Writes(long)) BY <2>4, <2>5, <3>1
        <3>8. Ended(path, i + Len(Write(s))) BY <2>7, <3>7
        <3>9. PICK state : state = g[Len(t)] OBVIOUS
        <3>10. state.at = i /\ state.segments = t BY <3>4, <3>9
        <3>11. ReadSegment(path, state) = Turned(state, s, i + Len(Write(s)))
            <4> HIDE DEF P
            <4> QED BY <3>2, <3>3, <3>8, <3>10, ReadsWritten
        <3>12. Turned(state, s, i + Len(Write(s))) = [at |-> i + Len(Write(s)), segments |-> long]
            BY <3>10 DEF Turned, long
        <3> QED BY <2>1, <3>6, <3>7, <3>9, <3>11, <3>12
    <2>8. HasRead(g, path, long) BY <2>6, <2>7 DEF HasRead
    <2> QED BY <2>1, <2>8 DEF long
<1> HIDE DEF P
<1>4. Seq(Segments(C)) \subseteq P BY <1>2, <1>3, SeqInduct
<1> QED BY <1>4 DEF P

\* What the profiler writes, the parser reads: a path written of any segments, of which the
\* names are not an identifier followed by a newline, is parsed to these segments
\* (polars_profiler.py:63, json_path.py:55).
THEOREM ParsesWritten ==
    ASSUME NEW C, Marks \subseteq C, "$" \in C, NEW ss \in Seq(Segments(C))
    PROVE  ParsePath(<<"$">> \o Writes(ss)) = ss
<1> DEFINE path == <<"$">> \o Writes(ss)
<1> DEFINE root == <<"$">>
<1>1. root \in Seq(C) /\ Len(root) = 1 /\ root[1] = "$" OBVIOUS
<1>2. Writes(ss) \in Seq(C) BY WritesType
<1>3. Len(Writes(ss)) \in Nat /\ Len(ss) \in Nat BY <1>2, LenProperties
<1>4. path = root \o Writes(ss) OBVIOUS
<1> HIDE DEF root, path
<1>5. /\ path \in Seq(C) /\ Len(path) = Len(root) + Len(Writes(ss))
      /\ \A k \in 1 .. Len(root) : path[k] = root[k]
    <2> DEFINE joined == root \o Writes(ss)
    <2>1. /\ joined \in Seq(C) /\ Len(joined) = Len(root) + Len(Writes(ss))
          /\ \A k \in 1 .. Len(root) : joined[k] = root[k]
        BY <1>1, <1>2, StartOfConcat
    <2> QED BY <1>4, <2>1
<1>6. PICK last \in Nat : last = Len(path) + 1 /\ last = 2 + Len(Writes(ss)) BY <1>1, <1>3, <1>5
<1>7. path # <<>> /\ path[1] = "$"
    <2>1. 1 \in 1 .. Len(root) /\ Len(path) # 0 BY <1>1, <1>3, <1>5
    <2> QED BY <1>1, <1>5, <2>1, EmptySeq
<1>8. Stands(path, 2, Writes(ss))
    <2>1. Stands(path, 1, path)
        <3>1. \A k \in 1 .. Len(path) : 1 + k - 1 = k OBVIOUS
        <3>2. 1 + Len(path) <= Len(path) + 1 BY <1>5, LenProperties
        <3> QED BY <3>1, <3>2 DEF Stands
    <2>2. Stands(path, 1 + Len(root), Writes(ss)) BY <1>1, <1>2, <1>4, <1>5, <2>1, StandsJoined
    <2>3. 1 + Len(root) = 2 BY <1>1
    <2> QED BY <2>2, <2>3
<1>9. Ended(path, 2 + Len(Writes(ss))) BY <1>6 DEF Ended
<1> DEFINE g == CHOOSE f : Turns(f, path)
<1>10. Len(path) \in Nat BY <1>5, LenProperties
<1>11. Turns(g, path) BY <1>10, TurnsExist
<1> HIDE DEF g
<1>12. HasRead(g, path, ss) BY <1>5, <1>11, ReadsSegments
<1>13. g[Len(ss)] = [at |-> last, segments |-> ss] /\ Len(ss) <= Len(path)
    <2>1. Len(ss) <= Len(Writes(ss)) BY <1>12 DEF HasRead
    <2>2. Len(ss) <= Len(path) BY <1>1, <1>3, <1>5, <2>1
    <2> QED BY <1>6, <1>8, <1>9, <1>12, <2>2 DEF HasRead
<1> DEFINE P == {n \in Nat : Len(ss) + n <= Len(path) =>
                     g[Len(ss) + n] = [at |-> last, segments |-> ss]}
<1>14. 0 \in P
    <2>1. Len(ss) + 0 = Len(ss) BY <1>3
    <2> QED BY <1>13, <2>1
<1>15. ASSUME NEW n \in P PROVE n + 1 \in P
    <2> SUFFICES ASSUME Len(ss) + (n + 1) <= Len(path)
                 PROVE  g[Len(ss) + (n + 1)] = [at |-> last, segments |-> ss]
        OBVIOUS
    <2>1. PICK m \in Nat : m = Len(ss) + n BY <1>3
    <2>2. Len(ss) + (n + 1) = m + 1 /\ m <= Len(path) /\ m + 1 \in 0 .. Len(path) /\ m + 1 # 0
          /\ (m + 1) - 1 = m
        BY <1>3, <1>10, <2>1
    <2>3. g[m] = [at |-> last, segments |-> ss] BY <2>1, <2>2
    <2>4. g[m + 1] = ReadSegment(path, g[m]) BY <1>11, <2>2 DEF Turns
    <2>5. g[m].at \in {0, Len(path) + 1} BY <1>6, <2>3
    <2>6. ReadSegment(path, g[m]) = g[m] BY <2>5 DEF ReadSegment
    <2> QED BY <2>2, <2>3, <2>4, <2>6
<1> HIDE DEF P
<1>16. P = Nat
    <2>1. P \in SUBSET Nat BY DEF P
    <2> QED BY <1>14, <1>15, <2>1, NatInduct
<1>17. g[Len(path)] = [at |-> last, segments |-> ss]
    <2>1. PICK n \in Nat : Len(ss) + n = Len(path)
        <3>1. Len(path) - Len(ss) \in Nat /\ Len(ss) + (Len(path) - Len(ss)) = Len(path)
            BY <1>3, <1>10, <1>13
        <3> QED BY <3>1
    <2>2. n \in P BY <1>16
    <2>3. Len(ss) + n <= Len(path) BY <1>10, <2>1
    <2> QED BY <2>1, <2>2, <2>3 DEF P
<1>18. ParsePath(path) = ss
    <2>1. g[Len(path)].at = Len(path) + 1 /\ g[Len(path)].segments = ss BY <1>6, <1>17
    <2> QED BY <1>7, <2>1 DEF ParsePath, Turns, g
<1> QED BY <1>18 DEF path

--------------------------------------------------------------------------------
(* What the engine finds at a path of the profile *)

\* The characters of paths
Chars == Marks \cup {"$"} \cup
         UNION {UNION {Range(name) : name \in DOMAIN value[2]} :
                   value \in {v \in Values : v[1] = "object"}}

MemberSegments == Segments(Chars)

\* The name of a member is one of these segments
LEMMA NamesAreWritten ==
    ASSUME NEW value \in Values, value[1] = "object", NEW name \in DOMAIN value[2]
    PROVE  /\ Key(name) \in MemberSegments /\ Key(name) # Each /\ Key(name)[2] = name
           /\ Write(Key(name)) = PathSegment(name)
<1>1. Writable(name) BY NamesAssumption DEF Writable
<1>2. name \in Seq(Range(name)) BY <1>1 DEF Writable, IsSequence
<1>3. Range(name) \subseteq Chars BY DEF Chars
<1>4. name \in Seq(Chars)
    <2> HIDE DEF Chars
    <2> QED BY <1>2, <1>3, SeqMonotonic
<1>5. Key(name) # Each /\ Key(name)[2] = name
    <2>1. Key(name)[1] = "key" /\ Key(name)[2] = name /\ Each[1] = "each" BY DEF Key, Each
    <2> QED BY <2>1
<1> QED BY <1>1, <1>4, <1>5 DEF MemberSegments, Segments, Write

LEMMA MarksAreChars == Marks \subseteq Chars /\ "$" \in Chars
BY DEF Chars

\* Two paths are never written alike, nor two segments
LEMMA TextsInjective ==
    ASSUME NEW ss \in Seq(MemberSegments), NEW tt \in Seq(MemberSegments), Writes(ss) = Writes(tt)
    PROVE  ss = tt
<1>1. ParsePath(<<"$">> \o Writes(ss)) = ss BY MarksAreChars, ParsesWritten DEF MemberSegments
<1>2. ParsePath(<<"$">> \o Writes(tt)) = tt BY MarksAreChars, ParsesWritten DEF MemberSegments
<1> QED BY <1>1, <1>2

LEMMA WriteInjective ==
    ASSUME NEW s \in MemberSegments, NEW t \in MemberSegments, Write(s) = Write(t)
    PROVE  s = t
<1> DEFINE ss == Append(<<>>, s)
<1> DEFINE tt == Append(<<>>, t)
<1>1. <<>> \in Seq(MemberSegments) /\ Len(<<>>) = 0 BY EmptySeq
<1>2. ss \in Seq(MemberSegments) /\ ss[1] = s /\ tt \in Seq(MemberSegments) /\ tt[1] = t
    <2>1. ss \in Seq(MemberSegments) /\ ss[Len(<<>>) + 1] = s BY <1>1, AppendProperties
    <2>2. tt \in Seq(MemberSegments) /\ tt[Len(<<>>) + 1] = t BY <1>1, AppendProperties
    <2>3. Len(<<>>) + 1 = 1 OBVIOUS
    <2> QED BY <2>1, <2>2, <2>3
<1>3. Writes(ss) = Writes(<<>>) \o Write(s) /\ Writes(tt) = Writes(<<>>) \o Write(t)
    BY <1>1, MarksAreChars, WritesAppend DEF MemberSegments
<1> HIDE DEF ss, tt
<1>4. ss = tt BY <1>2, <1>3, TextsInjective
<1> QED BY <1>2, <1>4

\* The path of a value in a file is what is written of as many segments
LEMMA LevelPaths ==
    ASSUME NEW value \in Values, NEW g, Levels(g, value), NEW m \in 0 .. Nesting, NEW node \in g[m]
    PROVE  /\ node.value \in Values
           /\ \E ss \in Seq(MemberSegments) : Len(ss) = m /\ node.path = Texts(ss)
<1> DEFINE Placed(x, n) == /\ x.value \in Values
                          /\ \E ss \in Seq(MemberSegments) : Len(ss) = n /\ x.path = Texts(ss)
<1> DEFINE P == {n \in Nat : n <= Nesting => \A x \in g[n] : Placed(x, n)}
<1>1. Nesting \in Nat BY NestingAssumption
<1>2. 0 \in P
    <2>1. g[0] = {[path |-> <<>>, value |-> value]} BY <1>1 DEF Levels
    <2>2. Texts(<<>>) = <<>> BY DEF Texts
    <2>3. <<>> \in Seq(MemberSegments) /\ Len(<<>>) = 0 BY EmptySeq
    <2>4. ASSUME NEW x \in g[0] PROVE Placed(x, 0)
        <3>1. x.path = <<>> /\ x.value = value BY <2>1
        <3>2. x.path = Texts(<<>>) BY <2>2, <3>1
        <3> QED BY <2>3, <3>1, <3>2
    <2> QED BY <2>4
<1>3. ASSUME NEW n \in P PROVE n + 1 \in P
    <2> SUFFICES ASSUME n + 1 <= Nesting, NEW x \in g[n + 1] PROVE Placed(x, n + 1) OBVIOUS
    <2>1. n + 1 \in 0 .. Nesting /\ n + 1 # 0 /\ (n + 1) - 1 = n /\ n <= Nesting BY <1>1
    <2>2. g[n + 1] = UNION {Below(y) : y \in g[n]} BY <2>1 DEF Levels
    <2>3. PICK y \in g[n] : x \in Below(y) BY <2>2
    <2>4. Placed(y, n) BY <2>1
    <2>5. PICK ss \in Seq(MemberSegments) : Len(ss) = n /\ y.path = Texts(ss) BY <2>4
    <2>6. ASSUME NEW s \in MemberSegments, x.path = Append(y.path, Write(s)), x.value \in Values
          PROVE  Placed(x, n + 1)
        <3>1. Append(ss, s) \in Seq(MemberSegments) /\ Len(Append(ss, s)) = n + 1
            BY <2>5, AppendProperties
        <3>2. Texts(Append(ss, s)) = Append(Texts(ss), Write(s))
            BY MarksAreChars, TextsAppend DEF MemberSegments
        <3> QED BY <2>5, <2>6, <3>1, <3>2
    <2>7. CASE y.value[1] = "object"
        <3>1. Below(y) = {[path |-> Append(y.path, PathSegment(name)), value |-> y.value[2][name]] :
                             name \in DOMAIN y.value[2]}
            BY <2>7 DEF Below
        <3>2. PICK name \in DOMAIN y.value[2] :
                  x.path = Append(y.path, PathSegment(name)) /\ x.value = y.value[2][name]
            BY SMTT(30), <2>3, <3>1
        <3>3. x.value \in Values BY <2>4, <2>7, <3>2, ValuesAssumption
        <3>4. Key(name) \in MemberSegments /\ Write(Key(name)) = PathSegment(name)
            BY <2>4, <2>7, NamesAreWritten
        <3> HIDE DEF Placed
        <3> QED BY <2>6, <3>2, <3>3, <3>4
    <2>8. CASE y.value[1] = "list"
        <3> DEFINE items == IF y.value[2] = <<>> THEN {Null} ELSE Range(y.value[2])
        <3>1. Below(y) = {[path |-> Append(y.path, <<"[", "]">>), value |-> item] : item \in items}
            BY <2>8 DEF Below
        <3>2. items \subseteq Values
            <4>1. y.value[2] \in Seq(Values) BY <2>4, <2>8, ValuesAssumption
            <4>2. Range(y.value[2]) \subseteq Values BY <4>1, RangeOfSeq
            <4> QED BY <4>2, ValuesAssumption
        <3> HIDE DEF items, Placed
        <3>3. x.path = Append(y.path, <<"[", "]">>) /\ x.value \in items BY <2>3, <3>1
        <3>4. Each \in MemberSegments /\ Write(Each) = <<"[", "]">>
            BY DEF MemberSegments, Segments, Write
        <3> QED BY <2>6, <3>2, <3>3, <3>4
    <2>9. CASE y.value[1] \notin {"object", "list"}
        <3>1. Below(y) = {} BY <2>9 DEF Below
        <3> QED BY <2>3, <3>1
    <2> QED BY <2>7, <2>8, <2>9
<1> HIDE DEF P
<1>4. P = Nat
    <2>1. P \in SUBSET Nat BY DEF P
    <2> QED BY <1>2, <1>3, <2>1, NatInduct
<1>5. m \in P /\ m <= Nesting BY <1>1, <1>4
<1> QED BY <1>5 DEF P

\* The values that a segment reaches from others
Step(V, s) ==
    IF s = Each THEN UNION {Range(v[2]) : v \in {u \in V : u[1] = "list"}}
    ELSE {v[2][s[2]] : v \in {u \in V : u[1] = "object" /\ s[2] \in DOMAIN u[2]}}

\* The same values, but for those that are missing
SameFound(V, W) == V \ {Null} = W \ {Null}

LEMMA StepsAlike ==
    ASSUME NEW V, NEW W, SameFound(V, W), NEW s
    PROVE  Step(V, s) = Step(W, s)
<1>1. Null[1] # "list" /\ Null[1] # "object" BY DEF Null
<1>2. \A v : v # Null => (v \in V <=> v \in W) BY DEF SameFound
<1>3. {u \in V : u[1] = "list"} = {u \in W : u[1] = "list"} BY <1>1, <1>2
<1>4. {u \in V : u[1] = "object" /\ s[2] \in DOMAIN u[2]}
        = {u \in W : u[1] = "object" /\ s[2] \in DOMAIN u[2]}
    BY <1>1, <1>2
<1> QED BY <1>3, <1>4 DEF Step

\* The values at the path that is written of some segments
FoundAt(g, ss) == {node.value : node \in {x \in g[Len(ss)] : x.path = Texts(ss)}}

\* One level below, the profiler finds what a segment reaches
LEMMA FoundBelow ==
    ASSUME NEW value \in Values, NEW g, Levels(g, value),
           NEW ss \in Seq(MemberSegments), NEW s \in MemberSegments, Len(ss) + 1 <= Nesting
    PROVE  SameFound(FoundAt(g, Append(ss, s)), Step(FoundAt(g, ss), s))
<1> DEFINE long == Append(ss, s)
<1>1. Nesting \in Nat /\ Len(ss) \in Nat BY NestingAssumption, LenProperties
<1>2. PICK n \in Nat : n = Len(ss) BY <1>1
<1>3. n \in 0 .. Nesting /\ n + 1 \in 0 .. Nesting /\ n + 1 # 0 /\ (n + 1) - 1 = n BY <1>1, <1>2
<1>4. Len(long) = n + 1 /\ long \in Seq(MemberSegments) BY <1>2, AppendProperties
<1>5. g[n + 1] = UNION {Below(y) : y \in g[n]} BY <1>3 DEF Levels
<1>6. Texts(ss) \in Seq(Seq(Chars)) /\ Texts(long) = Append(Texts(ss), Write(s))
    BY MarksAreChars, TextsAppend DEF MemberSegments
<1>7. Write(s) \in Seq(Chars) BY MarksAreChars, WriteType DEF MemberSegments
<1> HIDE DEF long
<1>8. ASSUME NEW y \in g[n], NEW t \in MemberSegments,
             Append(y.path, Write(t)) = Texts(long)
      PROVE  y.path = Texts(ss) /\ t = s
    <2>1. PICK tt \in Seq(MemberSegments) : y.path = Texts(tt) BY <1>3, LevelPaths
    <2>2. y.path \in Seq(Seq(Chars)) BY <2>1, MarksAreChars, TextsAppend DEF MemberSegments
    <2>3. Write(t) \in Seq(Chars) BY MarksAreChars, WriteType DEF MemberSegments
    <2>4. Append(y.path, Write(t)) = Append(Texts(ss), Write(s)) BY <1>6, <1>8
    <2>5. y.path = Texts(ss) /\ Write(t) = Write(s) BY <1>6, <1>7, <2>2, <2>3, <2>4, AppendInjective
    <2> QED BY <2>5, WriteInjective
<1>9. ASSUME NEW v \in FoundAt(g, long), v # Null PROVE v \in Step(FoundAt(g, ss), s)
    <2>1. PICK x \in g[n + 1] : x.path = Texts(long) /\ x.value = v BY <1>4 DEF FoundAt
    <2>2. PICK y \in g[n] : x \in Below(y) BY <1>5
    <2>3. y.value \in Values BY <1>3, LevelPaths
    <2>4. y.path = Texts(ss) => y.value \in FoundAt(g, ss) BY <1>2 DEF FoundAt
    <2>5. CASE y.value[1] = "object"
        <3>1. Below(y) = {[path |-> Append(y.path, PathSegment(name)), value |-> y.value[2][name]] :
                             name \in DOMAIN y.value[2]}
            BY <2>5 DEF Below
        <3>2. PICK name \in DOMAIN y.value[2] :
                  x.path = Append(y.path, PathSegment(name)) /\ x.value = y.value[2][name]
            BY <2>2, <3>1
        <3>3. /\ Key(name) \in MemberSegments /\ Write(Key(name)) = PathSegment(name)
              /\ Key(name) # Each /\ Key(name)[2] = name
            BY <2>3, <2>5, NamesAreWritten
        <3>4. y.path = Texts(ss) /\ Key(name) = s BY <1>8, <2>1, <3>2, <3>3
        <3> QED BY <2>1, <2>4, <2>5, <3>2, <3>3, <3>4 DEF Step
    <2>6. CASE y.value[1] = "list"
        <3> DEFINE items == IF y.value[2] = <<>> THEN {Null} ELSE Range(y.value[2])
        <3>1. Below(y) = {[path |-> Append(y.path, <<"[", "]">>), value |-> item] : item \in items}
            BY <2>6 DEF Below
        <3>2. x.path = Append(y.path, <<"[", "]">>) /\ x.value \in items
            <4> HIDE DEF items
            <4> QED BY <2>2, <3>1
        <3>3. Each \in MemberSegments /\ Write(Each) = <<"[", "]">>
            BY DEF MemberSegments, Segments, Write
        <3>4. y.path = Texts(ss) /\ Each = s BY <1>8, <2>1, <3>2, <3>3
        <3>5. v \in Range(y.value[2]) BY <1>9, <2>1, <3>2
        <3> QED BY <2>4, <2>6, <3>4, <3>5 DEF Step
    <2>7. CASE y.value[1] \notin {"object", "list"}
        <3>1. Below(y) = {} BY <2>7 DEF Below
        <3> QED BY <2>2, <3>1
    <2> QED BY <2>5, <2>6, <2>7
<1>10. ASSUME NEW v \in Step(FoundAt(g, ss), s) PROVE v \in FoundAt(g, long)
    <2>1. SUFFICES ASSUME NEW y \in g[n], y.path = Texts(ss), NEW x \in Below(y),
                          x.path = Append(y.path, Write(s)), x.value = v
                   PROVE  v \in FoundAt(g, long)
        <3>1. CASE s = Each
            <4>1. PICK u \in FoundAt(g, ss) : u[1] = "list" /\ v \in Range(u[2]) BY <1>10, <3>1 DEF Step
            <4>2. PICK y \in g[n] : y.path = Texts(ss) /\ y.value = u BY <1>2 DEF FoundAt
            <4> DEFINE x == [path |-> Append(y.path, <<"[", "]">>), value |-> v]
            <4>4. u[2] # <<>>
                <5>1. Range(<<>>) = {} BY DEF Range
                <5> QED BY <4>1, <5>1
            <4>5. x \in Below(y)
                <5>1. Below(y) = {[path |-> Append(y.path, <<"[", "]">>), value |-> item] :
                                     item \in Range(y.value[2])}
                    BY <4>1, <4>2, <4>4 DEF Below
                <5> QED BY <4>1, <4>2, <5>1
            <4>6. x.path = Append(y.path, Write(s)) /\ x.value = v BY <3>1 DEF Write
            <4> HIDE DEF x
            <4> QED BY <2>1, <4>2, <4>5, <4>6
        <3>2. CASE s # Each
            <4>1. PICK u \in FoundAt(g, ss) : u[1] = "object" /\ s[2] \in DOMAIN u[2] /\ v = u[2][s[2]]
                BY <1>10, <3>2 DEF Step
            <4>2. PICK y \in g[n] : y.path = Texts(ss) /\ y.value = u BY <1>2 DEF FoundAt
            <4> DEFINE x == [path |-> Append(y.path, PathSegment(s[2])), value |-> v]
            <4>3. x \in Below(y)
                <5>1. Below(y) = {[path |-> Append(y.path, PathSegment(name)), value |-> y.value[2][name]] :
                                     name \in DOMAIN y.value[2]}
                    BY <4>1, <4>2 DEF Below
                <5> QED BY <4>1, <4>2, <5>1
            <4>4. x.path = Append(y.path, Write(s)) /\ x.value = v BY <3>2 DEF Write
            <4> HIDE DEF x
            <4> QED BY <2>1, <4>2, <4>3, <4>4
        <3> QED BY <3>1, <3>2
    <2>2. x \in g[n + 1] BY <1>5, <2>1
    <2>3. x.path = Texts(long) BY <1>6, <2>1
    <2> QED BY <1>4, <2>1, <2>2, <2>3 DEF FoundAt
<1> QED BY <1>9, <1>10 DEF SameFound, long

\* One segment more is one step more of resolve_rows
LEMMA RowsOneMore ==
    ASSUME NEW record, NEW S, NEW ss \in Seq(S), NEW s \in S
    PROVE  ResolveRows(record, Append(ss, s)).rows = Reached(ResolveRows(record, ss).rows, s)
<1> DEFINE long == Append(ss, s)
<1>1. /\ Len(long) = Len(ss) + 1 /\ long[Len(ss) + 1] = s /\ Len(ss) \in Nat
      /\ \A i \in 1 .. Len(ss) : long[i] = ss[i]
    BY AppendProperties, LenProperties
<1> HIDE DEF long
<1>2. PICK g : Arrives(g, record, ss) /\ ResolveRows(record, ss) = g[Len(ss)]
    BY <1>1, ArrivalsExist, ResolveIsChosen
<1>3. PICK h : Arrives(h, record, long) /\ ResolveRows(record, long) = h[Len(long)]
    <2>1. Len(long) \in Nat BY <1>1
    <2> QED BY <2>1, ArrivalsExist, ResolveIsChosen
<1> DEFINE P == {n \in Nat : n <= Len(ss) => h[n].rows = g[n].rows}
<1>4. 0 \in P
    <2>1. g[0] = [rows |-> <<record>>, wrong |-> FALSE] BY <1>1, <1>2 DEF Arrives
    <2>2. h[0] = [rows |-> <<record>>, wrong |-> FALSE] BY <1>1, <1>3 DEF Arrives
    <2> QED BY <2>1, <2>2
<1>5. ASSUME NEW n \in Nat, n + 1 <= Len(long)
      PROVE  h[n + 1].rows = Reached(h[n].rows, long[n + 1])
    <2>1. n + 1 \in 0 .. Len(long) /\ n + 1 # 0 /\ (n + 1) - 1 = n BY <1>1, <1>5
    <2> DEFINE wrong == h[n].wrong \/ Blocked(h[n].rows, long[n + 1])
    <2>2. h[n + 1] = [rows |-> Reached(h[n].rows, long[n + 1]), wrong |-> wrong]
        BY <1>3, <2>1 DEF Arrives
    <2> HIDE DEF wrong
    <2> QED BY <2>2
<1>6. ASSUME NEW n \in Nat, n + 1 <= Len(ss)
      PROVE  g[n + 1].rows = Reached(g[n].rows, ss[n + 1])
    <2>1. n + 1 \in 0 .. Len(ss) /\ n + 1 # 0 /\ (n + 1) - 1 = n BY <1>1, <1>6
    <2> DEFINE wrong == g[n].wrong \/ Blocked(g[n].rows, ss[n + 1])
    <2>2. g[n + 1] = [rows |-> Reached(g[n].rows, ss[n + 1]), wrong |-> wrong]
        BY <1>2, <2>1 DEF Arrives
    <2> HIDE DEF wrong
    <2> QED BY <2>2
<1>7. ASSUME NEW n \in P PROVE n + 1 \in P
    <2> SUFFICES ASSUME n + 1 <= Len(ss) PROVE h[n + 1].rows = g[n + 1].rows OBVIOUS
    <2>1. n \in Nat /\ n <= Len(ss) /\ n + 1 <= Len(long) /\ n + 1 \in 1 .. Len(ss) BY <1>1
    <2>2. h[n].rows = g[n].rows BY <2>1
    <2>3. h[n + 1].rows = Reached(h[n].rows, long[n + 1]) BY <1>5, <2>1
    <2>4. g[n + 1].rows = Reached(g[n].rows, ss[n + 1]) BY <1>6, <2>1
    <2> QED BY <1>1, <2>1, <2>2, <2>3, <2>4
<1> HIDE DEF P
<1>8. P = Nat
    <2>1. P \in SUBSET Nat BY DEF P
    <2> QED BY <1>4, <1>7, <2>1, NatInduct
<1>9. h[Len(ss)].rows = g[Len(ss)].rows
    <2>1. Len(ss) \in P /\ Len(ss) <= Len(ss) BY <1>1, <1>8
    <2> QED BY <2>1 DEF P
<1>10. h[Len(ss) + 1].rows = Reached(h[Len(ss)].rows, long[Len(ss) + 1])
    <2>1. Len(ss) + 1 <= Len(long) BY <1>1
    <2> QED BY <1>1, <1>5, <2>1
<1> QED BY <1>1, <1>2, <1>3, <1>9, <1>10 DEF long

\* No segment, no step
LEMMA RowsOfNothing == \A record : ResolveRows(record, <<>>).rows = <<record>>
<1> SUFFICES ASSUME NEW record PROVE ResolveRows(record, <<>>).rows = <<record>> OBVIOUS
<1>1. Len(<<>>) = 0 OBVIOUS
<1>2. PICK g : Arrives(g, record, <<>>) /\ ResolveRows(record, <<>>) = g[0]
    BY <1>1, ArrivalsExist, ResolveIsChosen
<1>3. g[0] = [rows |-> <<record>>, wrong |-> FALSE] BY <1>1, <1>2 DEF Arrives
<1> QED BY <1>2, <1>3

\* What one segment reaches among rows
LEMMA ReachedIsStep ==
    ASSUME NEW rows \in Seq(Values), NEW s
    PROVE  SameFound(Range(Reached(rows, s)), Step(Range(rows), s))
<1> DEFINE Part(v) == IF s = Each THEN IF v[1] = "list" THEN v[2] ELSE <<>>
                      ELSE IF Member(v, s[2]) = Null THEN <<>> ELSE <<Member(v, s[2])>>
<1> DEFINE parts == [i \in 1 .. Len(rows) |-> Part(rows[i])]
<1>1. Reached(rows, s) = FlattenSeq(parts) BY DEF Reached
<1>2. ASSUME NEW v \in Values PROVE Part(v) \in Seq(Values)
    <2>1. v[1] = "list" => v[2] \in Seq(Values) BY ValuesAssumption
    <2>2. Member(v, s[2]) \in Values BY ValuesAssumption DEF Member
    <2>3. <<>> \in Seq(Values) /\ <<Member(v, s[2])>> \in Seq(Values) BY <2>2
    <2> QED BY <2>1, <2>3
<1>3. Len(rows) \in Nat /\ \A i \in 1 .. Len(rows) : rows[i] \in Values BY LenProperties, ElementOfSeq
<1>4. Range(<<>>) = {} /\ \A x : Range(<<x>>) = {x} BY DEF Range
<1>5. ASSUME NEW v \in Values
      PROVE  SameFound(Range(Part(v)), Step({v}, s))
    <2>1. CASE s = Each
        <3>1. CASE v[1] = "list"
            <4>1. {u \in {v} : u[1] = "list"} = {v} BY <3>1
            <4>2. Step({v}, s) = Range(v[2]) BY <2>1, <4>1 DEF Step
            <4> QED BY <2>1, <3>1, <4>2 DEF SameFound
        <3>2. CASE v[1] # "list"
            <4>1. {u \in {v} : u[1] = "list"} = {} BY <3>2
            <4>2. Step({v}, s) = {} BY <2>1, <4>1 DEF Step
            <4> QED BY <1>4, <2>1, <3>2, <4>2 DEF SameFound
        <3> QED BY <3>1, <3>2
    <2>2. CASE s # Each
        <3>1. CASE v[1] = "object" /\ s[2] \in DOMAIN v[2]
            <4>1. {u \in {v} : u[1] = "object" /\ s[2] \in DOMAIN u[2]} = {v} BY <3>1
            <4>2. Step({v}, s) = {v[2][s[2]]} BY <2>2, <4>1 DEF Step
            <4>3. Member(v, s[2]) = v[2][s[2]] BY <3>1 DEF Member
            <4>4. Range(Part(v)) = IF Member(v, s[2]) = Null THEN {} ELSE {Member(v, s[2])} BY <1>4, <2>2
            <4> HIDE DEF Part
            <4> QED BY <4>2, <4>3, <4>4 DEF SameFound
        <3>2. CASE ~(v[1] = "object" /\ s[2] \in DOMAIN v[2])
            <4>1. {u \in {v} : u[1] = "object" /\ s[2] \in DOMAIN u[2]} = {} BY <3>2
            <4>2. Step({v}, s) = {} BY <2>2, <4>1 DEF Step
            <4>3. Member(v, s[2]) = Null BY <3>2 DEF Member
            <4>4. Range(Part(v)) = {} BY <1>4, <2>2, <4>3
            <4> QED BY <4>2, <4>4 DEF SameFound
        <3> QED BY <3>1, <3>2
    <2> QED BY <2>1, <2>2
<1> HIDE DEF Part
<1>6. parts \in Seq(Seq(Values)) BY <1>2, <1>3
<1>7. ASSUME NEW x PROVE x \in Range(FlattenSeq(parts)) <=> \E v \in Range(rows) : x \in Range(Part(v))
    <2>1. Len(parts) = Len(rows) /\ \A i \in 1 .. Len(rows) : parts[i] = Part(rows[i]) BY <1>3
    <2>2. Range(rows) = {rows[i] : i \in 1 .. Len(rows)} BY DEF Range
    <2> HIDE DEF parts
    <2>3. x \in Range(FlattenSeq(parts)) <=> \E i \in 1 .. Len(parts) : x \in Range(parts[i])
        <3>1. x \in Range(FlattenSeq(parts)) => \E i \in 1 .. Len(parts) : x \in Range(parts[i])
            BY <1>6, FlattenRange
        <3>2. ASSUME NEW i \in 1 .. Len(parts), x \in Range(parts[i]) PROVE x \in Range(FlattenSeq(parts))
            BY <1>6, <3>2, FlattenCovers
        <3> QED BY <3>1, <3>2
    <2> QED BY <2>1, <2>2, <2>3
<1>8. ASSUME NEW x PROVE x \in Step(Range(rows), s) <=> \E v \in Range(rows) : x \in Step({v}, s)
    BY DEF Step
<1>9. Range(rows) \subseteq Values BY RangeOfSeq
<1> HIDE DEF parts
<1>10. ASSUME NEW x, x # Null PROVE x \in Range(Reached(rows, s)) <=> x \in Step(Range(rows), s)
    <2>1. \A v \in Range(rows) : x \in Range(Part(v)) <=> x \in Step({v}, s)
        BY <1>5, <1>9, <1>10 DEF SameFound
    <2> QED BY <1>1, <1>7, <1>8, <2>1
<1> QED BY <1>10 DEF SameFound

\* The rows at some segments are what the profiler finds at the path written of them
LEMMA RowsAreFound ==
    ASSUME NEW record \in Values, NEW g, Levels(g, record),
           NEW ss \in Seq(MemberSegments), Len(ss) <= Nesting
    PROVE  SameFound(Range(ResolveRows(record, ss).rows), FoundAt(g, ss))
<1> DEFINE R(t) == Range(ResolveRows(record, t).rows)
<1> DEFINE P == {t \in Seq(MemberSegments) : Len(t) <= Nesting => SameFound(R(t), FoundAt(g, t))}
<1>0. Nesting \in Nat BY NestingAssumption
<1>1. <<>> \in P
    <2>1. R(<<>>) = {record}
        <3>1. Range(<<record>>) = {record} BY DEF Range
        <3> QED BY <3>1, RowsOfNothing
    <2>2. g[0] = {[path |-> <<>>, value |-> record]} BY <1>0 DEF Levels
    <2>3. Texts(<<>>) = <<>> BY DEF Texts
    <2>4. <<>> \in Seq(MemberSegments) /\ Len(<<>>) = 0 BY EmptySeq
    <2>5. FoundAt(g, <<>>) = {record}
        <3> DEFINE top == [path |-> <<>>, value |-> record]
        <3>1. top.path = Texts(<<>>) /\ top.value = record BY <2>3
        <3> HIDE DEF top
        <3>2. g[Len(<<>>)] = {top} BY <2>2, <2>4 DEF top
        <3>3. {x \in g[Len(<<>>)] : x.path = Texts(<<>>)} = {top} BY <3>1, <3>2
        <3> QED BY <3>1, <3>3 DEF FoundAt
    <2> QED BY <2>1, <2>4, <2>5 DEF SameFound
<1>2. ASSUME NEW t \in Seq(MemberSegments), NEW s \in MemberSegments, t \in P PROVE Append(t, s) \in P
    <2> DEFINE long == Append(t, s)
    <2>1. long \in Seq(MemberSegments) /\ Len(long) = Len(t) + 1 /\ Len(t) \in Nat
        BY AppendProperties, LenProperties
    <2> SUFFICES ASSUME Len(long) <= Nesting PROVE SameFound(R(long), FoundAt(g, long)) BY <2>1
    <2>2. Len(t) <= Nesting /\ Len(t) + 1 <= Nesting BY <1>0, <2>1
    <2>3. SameFound(R(t), FoundAt(g, t)) BY <1>2, <2>2
    <2>4. ResolveRows(record, t).rows \in Seq(Values)
        <3>1. IsSequence(t) BY AnySequence
        <3> QED BY <3>1, RowsAreValues
    <2>5. ResolveRows(record, long).rows = Reached(ResolveRows(record, t).rows, s) BY RowsOneMore
    <2>6. SameFound(R(long), Step(R(t), s)) BY <2>4, <2>5, ReachedIsStep
    <2>7. SameFound(FoundAt(g, long), Step(FoundAt(g, t), s)) BY <2>2, FoundBelow
    <2>8. Step(R(t), s) = Step(FoundAt(g, t), s) BY <2>3, StepsAlike
    <2> QED BY <2>6, <2>7, <2>8 DEF SameFound
<1> HIDE DEF P
<1>3. Seq(MemberSegments) \subseteq P BY <1>1, <1>2, SeqInduct
<1>4. ss \in P BY <1>3
<1> QED BY <1>4 DEF P

\* at holds what resolve has found after every segment
Descends(g, document, segments) ==
    g = [n \in 0 .. Len(segments) |->
            IF n = 0 THEN document
            ELSE IF segments[n] = Each THEN Null ELSE Member(g[n - 1], segments[n][2])]

LEMMA DescentIsChosen ==
    ASSUME NEW document, NEW segments
    PROVE  Resolve(document, segments) = (CHOOSE g : Descends(g, document, segments))[Len(segments)]
BY DEF Resolve, Descends

LEMMA DescentsExist ==
    ASSUME NEW document, NEW segments, Len(segments) \in Nat
    PROVE  \E g : Descends(g, document, segments)
<1> DEFINE Down(v, s) == IF s = Each THEN Null ELSE Member(v, s[2])
<1> DEFINE UpToStep(g, n) == \A i \in 0 .. Len(segments) : i <= n =>
                            g[i] = IF i = 0 THEN document ELSE Down(g[i - 1], segments[i])
<1> DEFINE P == {n \in Nat : \E g : UpToStep(g, n)}
<1> HIDE DEF Down
<1>1. 0 \in P
    <2>1. UpToStep([i \in 0 .. Len(segments) |-> document], 0) OBVIOUS
    <2> QED BY <2>1
<1>2. ASSUME NEW n \in P PROVE n + 1 \in P
    <2>1. PICK g : UpToStep(g, n) OBVIOUS
    <2> DEFINE h == [i \in 0 .. Len(segments) |-> IF i = 0 THEN document ELSE Down(g[i - 1], segments[i])]
    <2>2. ASSUME NEW i \in 0 .. Len(segments), i <= n + 1, i # 0 PROVE h[i - 1] = g[i - 1]
        <3>1. i - 1 \in 0 .. Len(segments) /\ i - 1 <= n BY <2>2
        <3> QED BY <2>1, <3>1
    <2>3. UpToStep(h, n + 1) BY <2>2
    <2> HIDE DEF UpToStep
    <2> QED BY <2>3
<1> HIDE DEF P
<1>3. P = Nat
    <2>1. P \in SUBSET Nat BY DEF P
    <2> QED BY <1>1, <1>2, <2>1, NatInduct
<1>4. PICK g : UpToStep(g, Len(segments)) BY <1>3 DEF P
<1> DEFINE h == [i \in 0 .. Len(segments) |-> IF i = 0 THEN document ELSE Down(g[i - 1], segments[i])]
<1>5. \A i \in 0 .. Len(segments) : h[i] = g[i] BY <1>4
<1>6. \A i \in 0 .. Len(segments) : i # 0 => i - 1 \in 0 .. Len(segments) OBVIOUS
<1>7. h = [i \in 0 .. Len(segments) |-> IF i = 0 THEN document ELSE Down(h[i - 1], segments[i])]
    BY <1>5, <1>6
<1> HIDE DEF h
<1>8. Descends(h, document, segments) BY <1>7 DEF Descends, Down
<1> QED BY <1>8

LEMMA ResolveNothing == \A document : Resolve(document, <<>>) = document
<1> SUFFICES ASSUME NEW document PROVE Resolve(document, <<>>) = document OBVIOUS
<1>1. Len(<<>>) = 0 OBVIOUS
<1>2. PICK g : Descends(g, document, <<>>) /\ Resolve(document, <<>>) = g[0]
    BY <1>1, DescentsExist, DescentIsChosen
<1> QED BY <1>1, <1>2 DEF Descends

\* One segment more is one step more of resolve
LEMMA ResolveOneMore ==
    ASSUME NEW document, NEW S, NEW ss \in Seq(S), NEW s \in S
    PROVE  Resolve(document, Append(ss, s))
             = IF s = Each THEN Null ELSE Member(Resolve(document, ss), s[2])
<1> DEFINE long == Append(ss, s)
<1> DEFINE Down(v, t) == IF t = Each THEN Null ELSE Member(v, t[2])
<1>1. /\ Len(long) = Len(ss) + 1 /\ long[Len(ss) + 1] = s /\ Len(ss) \in Nat
      /\ \A i \in 1 .. Len(ss) : long[i] = ss[i]
    BY AppendProperties, LenProperties
<1> HIDE DEF long
<1>2. PICK g : Descends(g, document, ss) /\ Resolve(document, ss) = g[Len(ss)]
    BY <1>1, DescentsExist, DescentIsChosen
<1>3. PICK h : Descends(h, document, long) /\ Resolve(document, long) = h[Len(long)]
    <2>1. Len(long) \in Nat BY <1>1
    <2> QED BY <2>1, DescentsExist, DescentIsChosen
<1>4. ASSUME NEW n \in Nat, n + 1 <= Len(long) PROVE h[n + 1] = Down(h[n], long[n + 1])
    <2>1. n + 1 \in 0 .. Len(long) /\ n + 1 # 0 /\ (n + 1) - 1 = n BY <1>1, <1>4
    <2> QED BY <1>3, <2>1 DEF Descends
<1>5. ASSUME NEW n \in Nat, n + 1 <= Len(ss) PROVE g[n + 1] = Down(g[n], ss[n + 1])
    <2>1. n + 1 \in 0 .. Len(ss) /\ n + 1 # 0 /\ (n + 1) - 1 = n BY <1>1, <1>5
    <2> QED BY <1>2, <2>1 DEF Descends
<1>6. h[0] = document /\ g[0] = document BY <1>1, <1>2, <1>3 DEF Descends
<1> HIDE DEF Down
<1> DEFINE P == {n \in Nat : n <= Len(ss) => h[n] = g[n]}
<1>7. 0 \in P BY <1>6
<1>8. ASSUME NEW n \in P PROVE n + 1 \in P
    <2> SUFFICES ASSUME n + 1 <= Len(ss) PROVE h[n + 1] = g[n + 1] OBVIOUS
    <2>1. n \in Nat /\ n <= Len(ss) /\ n + 1 <= Len(long) /\ n + 1 \in 1 .. Len(ss) BY <1>1
    <2>2. h[n] = g[n] BY <2>1
    <2>3. h[n + 1] = Down(h[n], long[n + 1]) BY <1>4, <2>1
    <2>4. g[n + 1] = Down(g[n], ss[n + 1]) BY <1>5, <2>1
    <2> QED BY <1>1, <2>1, <2>2, <2>3, <2>4
<1> HIDE DEF P
<1>9. P = Nat
    <2>1. P \in SUBSET Nat BY DEF P
    <2> QED BY <1>7, <1>8, <2>1, NatInduct
<1>10. h[Len(ss)] = g[Len(ss)]
    <2>1. Len(ss) \in P /\ Len(ss) <= Len(ss) BY <1>1, <1>9
    <2> QED BY <2>1 DEF P
<1>11. h[Len(ss) + 1] = Down(h[Len(ss)], long[Len(ss) + 1])
    <2>1. Len(ss) + 1 <= Len(long) BY <1>1
    <2> QED BY <1>1, <1>4, <2>1
<1> QED BY <1>1, <1>2, <1>3, <1>10, <1>11 DEF long, Down

\* And among values, for one that is no []
LEMMA MembersAreStep ==
    ASSUME NEW V, NEW s, s # Each
    PROVE  SameFound({Member(v, s[2]) : v \in V}, Step(V, s))
<1>1. Step(V, s) = {v[2][s[2]] : v \in {u \in V : u[1] = "object" /\ s[2] \in DOMAIN u[2]}} BY DEF Step
<1>2. ASSUME NEW x, x # Null
      PROVE  x \in {Member(v, s[2]) : v \in V} <=> x \in Step(V, s)
    BY <1>1, <1>2 DEF Member
<1> QED BY <1>2 DEF SameFound

WithoutEach(ss) == \A i \in 1 .. Len(ss) : ss[i] # Each

\* What resolve finds in the rows of a prefix
LEMMA FoundInRows ==
    ASSUME NEW record \in Values, NEW g, Levels(g, record), NEW p \in Seq(MemberSegments),
           NEW own \in Seq(MemberSegments), WithoutEach(own), Len(p) + Len(own) <= Nesting
    PROVE  SameFound({Resolve(row, own) : row \in Range(ResolveRows(record, p).rows)}, FoundAt(g, p \o own))
<1> DEFINE rows == Range(ResolveRows(record, p).rows)
<1> DEFINE At(t) == {Resolve(row, t) : row \in rows}
<1> DEFINE P == {t \in Seq(MemberSegments) :
                    Len(p) + Len(t) <= Nesting /\ WithoutEach(t) => SameFound(At(t), FoundAt(g, p \o t))}
<1>0. Nesting \in Nat /\ Len(p) \in Nat BY NestingAssumption, LenProperties
<1>1. <<>> \in P
    <2>1. <<>> \in Seq(MemberSegments) /\ Len(<<>>) = 0 /\ p \o <<>> = p BY EmptySeq, ConcatEmptySeq
    <2>2. At(<<>>) = rows
        <3> HIDE DEF rows
        <3> QED BY ResolveNothing
    <2>3. Len(p) <= Nesting => SameFound(rows, FoundAt(g, p)) BY RowsAreFound
    <2>4. Len(p) + Len(<<>>) = Len(p) BY <1>0, <2>1
    <2> HIDE DEF At, rows
    <2> QED BY <2>1, <2>2, <2>3, <2>4
<1>2. ASSUME NEW t \in Seq(MemberSegments), NEW s \in MemberSegments, t \in P PROVE Append(t, s) \in P
    <2> DEFINE long == Append(t, s)
    <2>1. /\ long \in Seq(MemberSegments) /\ Len(long) = Len(t) + 1 /\ Len(t) \in Nat
          /\ long[Len(t) + 1] = s /\ \A i \in 1 .. Len(t) : long[i] = t[i]
        BY AppendProperties, LenProperties
    <2> SUFFICES ASSUME Len(p) + Len(long) <= Nesting, WithoutEach(long)
                 PROVE SameFound(At(long), FoundAt(g, p \o long))
        BY <2>1
    <2>2. \A row : Resolve(row, long) = IF s = Each THEN Null ELSE Member(Resolve(row, t), s[2])
        BY ResolveOneMore
    <2>3. p \o long = Append(p \o t, s) /\ p \o t \in Seq(MemberSegments) /\ Len(p \o t) = Len(p) + Len(t)
        <3>1. <<s>> \in Seq(MemberSegments) /\ long = t \o <<s>> BY AppendIsConcat
        <3>2. p \o t \in Seq(MemberSegments) /\ Len(p \o t) = Len(p) + Len(t) BY ConcatProperties
        <3>3. (p \o t) \o <<s>> = p \o (t \o <<s>>) BY SMTT(30), <3>1, ConcatAssociative
        <3>4. Append(p \o t, s) = (p \o t) \o <<s>> BY <3>2, AppendIsConcat
        <3> HIDE DEF long
        <3> QED BY <3>1, <3>2, <3>3, <3>4
    <2> HIDE DEF long
    <2>4. s # Each /\ WithoutEach(t)
        <3>1. Len(t) + 1 \in 1 .. Len(long) /\ \A i \in 1 .. Len(t) : i \in 1 .. Len(long) BY <2>1
        <3> QED BY <2>1, <3>1 DEF WithoutEach
    <2>5. Len(p) + Len(t) <= Nesting /\ Len(p \o t) + 1 <= Nesting BY <1>0, <2>1, <2>3
    <2>6. SameFound(At(t), FoundAt(g, p \o t)) BY <1>2, <2>4, <2>5
    <2>7. At(long) = {Member(v, s[2]) : v \in At(t)}
        <3> HIDE DEF rows
        <3> QED BY <2>2, <2>4
    <2> HIDE DEF At
    <2>8. SameFound(At(long), Step(At(t), s)) BY <2>4, <2>7, MembersAreStep
    <2>9. SameFound(FoundAt(g, Append(p \o t, s)), Step(FoundAt(g, p \o t), s)) BY <2>3, <2>5, FoundBelow
    <2>10. Step(At(t), s) = Step(FoundAt(g, p \o t), s) BY <2>6, StepsAlike
    <2> QED BY <2>3, <2>8, <2>9, <2>10 DEF SameFound
<1> HIDE DEF P
<1>3. Seq(MemberSegments) \subseteq P BY <1>1, <1>2, SeqInduct
<1>4. own \in P BY <1>3
<1> QED BY <1>4 DEF P

\* The last [] of a path is where it says
LEMMA LastEachIsLast ==
    ASSUME NEW ss, Len(ss) \in Nat
    PROVE  /\ LastEach(ss) \in 0 .. Len(ss)
           /\ \A j \in LastEach(ss) + 1 .. Len(ss) : ss[j] # Each
<1>1. CASE ~Contains(ss, Each) BY <1>1 DEF LastEach, Contains
<1>2. CASE Contains(ss, Each)
    <2> DEFINE T == {k \in Nat : k < Len(ss) /\ ss[Len(ss) - k] = Each}
    <2>1. PICK i \in 1 .. Len(ss) : ss[i] = Each BY <1>2 DEF Contains
    <2>2. T \in SUBSET Nat /\ T # {}
        <3>1. Len(ss) - i \in Nat /\ Len(ss) - i < Len(ss) /\ Len(ss) - (Len(ss) - i) = i OBVIOUS
        <3>2. Len(ss) - i \in T BY <2>1, <3>1
        <3> QED BY <3>2
    <2> HIDE DEF T
    <2>3. PICK k \in T : \A m \in T : k <= m BY <2>2, LeastNat
    <2>4. k \in Nat /\ k < Len(ss) /\ ss[Len(ss) - k] = Each BY <2>3 DEF T
    <2> DEFINE Lasts(n) == ss[n] = Each /\ \A j \in n + 1 .. Len(ss) : ss[j] # Each
    <2>5. Lasts(Len(ss) - k)
        <3> SUFFICES ASSUME NEW j \in (Len(ss) - k) + 1 .. Len(ss), ss[j] = Each PROVE FALSE BY <2>4
        <3>1. /\ Len(ss) - j \in Nat /\ Len(ss) - j < Len(ss) /\ Len(ss) - (Len(ss) - j) = j
              /\ ~(k <= Len(ss) - j)
            BY <2>4
        <3>2. Len(ss) - j \in T BY <3>1 DEF T
        <3> QED BY <2>3, <3>1, <3>2
    <2>6. Len(ss) - k \in 1 .. Len(ss) BY <2>4
    <2> DEFINE n == CHOOSE x \in 1 .. Len(ss) : Lasts(x)
    <2>7. n \in 1 .. Len(ss) /\ Lasts(n) BY <2>5, <2>6
    <2>8. LastEach(ss) = n BY <1>2 DEF LastEach
    <2> HIDE DEF n
    <2>9. n \in 0 .. Len(ss) BY <2>7
    <2> QED BY <2>7, <2>8, <2>9
<1> QED BY <1>1, <1>2

\* What the engine reads at a path of the profile is what the profiler found there
LEMMA ReadIsFound ==
    ASSUME NEW record \in Values, NEW g, Levels(g, record),
           NEW ss \in Seq(MemberSegments), Len(ss) <= Nesting, NEW path, path = <<"$">> \o Writes(ss)
    PROVE  SameFound(ReadAt(path, record), FoundAt(g, ss))
<1>1. ParsePath(path) = ss BY MarksAreChars, ParsesWritten DEF MemberSegments
<1>2. Len(ss) \in Nat /\ IsSequence(ss) BY LenProperties, AnySequence
<1>3. PICK n \in 0 .. Len(ss) : n = LastEach(ss) /\ \A j \in n + 1 .. Len(ss) : ss[j] # Each
    BY <1>2, LastEachIsLast
<1> DEFINE p == SubSeq(ss, 1, n)
<1> DEFINE own == SubSeq(ss, n + 1, Len(ss))
<1>4. p \in Seq(MemberSegments) /\ Len(p) = n
    <2>1. \A i \in 1 .. n : ss[i] \in MemberSegments
        <3>1. \A i \in 1 .. n : i \in 1 .. Len(ss) BY <1>2
        <3> QED BY <3>1, ElementOfSeq
    <2>2. p \in Seq(MemberSegments) /\ Len(p) = IF 1 <= n THEN n - 1 + 1 ELSE 0 BY <2>1, SubSeqProperties
    <2> HIDE DEF p
    <2> QED BY <1>2, <2>2
<1>5. own \in Seq(MemberSegments) /\ Len(own) = Len(ss) - n /\ WithoutEach(own)
    <2>1. \A i \in n + 1 .. Len(ss) : ss[i] \in MemberSegments
        <3>1. \A i \in n + 1 .. Len(ss) : i \in 1 .. Len(ss) BY <1>2
        <3> QED BY <3>1, ElementOfSeq
    <2>2. /\ own \in Seq(MemberSegments)
          /\ Len(own) = IF n + 1 <= Len(ss) THEN Len(ss) - (n + 1) + 1 ELSE 0
          /\ \A i \in 1 .. Len(ss) - (n + 1) + 1 : own[i] = ss[(n + 1) + i - 1]
        BY <1>2, <2>1, SubSeqProperties
    <2> HIDE DEF own
    <2>3. Len(own) = Len(ss) - n /\ Len(ss) - (n + 1) + 1 = Len(ss) - n BY <1>2, <2>2
    <2>4. ASSUME NEW i \in 1 .. Len(own) PROVE own[i] # Each
        <3>1. (n + 1) + i - 1 \in n + 1 .. Len(ss) BY <1>2, <2>3
        <3> QED BY <1>3, <2>2, <2>3, <3>1
    <2> QED BY <2>2, <2>3, <2>4 DEF WithoutEach
<1>6. p \o own = ss
    <2>1. 1 \in 1 .. Len(ss) + 1 /\ n \in 1 - 1 .. Len(ss) /\ Len(ss) \in n .. Len(ss) BY <1>2
    <2>2. SubSeq(ss, 1, n) \o SubSeq(ss, n + 1, Len(ss)) = SubSeq(ss, 1, Len(ss))
        BY <2>1, ConcatAdjacentSubSeq
    <2> QED BY <2>2, SubSeqFull
<1>7. SameFound({Resolve(row, own) : row \in Range(ResolveRows(record, p).rows)}, FoundAt(g, ss))
    <2> HIDE DEF p, own
    <2>1. Len(p) + Len(own) <= Nesting
        <3>1. n + (Len(ss) - n) = Len(ss) BY <1>2
        <3> QED BY <1>4, <1>5, <3>1
    <2> QED BY <1>4, <1>5, <1>6, <2>1, FoundInRows
<1>8. ReadAt(path, record) = {Resolve(row, own) : row \in Range(ResolveRows(record, p).rows)}
    <2>1. SubSeq(ss, 1, LastEach(ss)) = p BY <1>3
    <2>2. CASE p = <<>>
        <3>1. ReadAt(path, record) = {Resolve(record, ss)}
            <4> HIDE DEF p
            <4> QED BY <1>1, <2>1, <2>2 DEF ReadAt
        <3>2. own = ss
            <4> HIDE DEF p, own
            <4> QED BY <1>5, <1>6, <2>2, ConcatEmptySeq
        <3>3. Range(ResolveRows(record, p).rows) = {record}
            <4>1. Range(<<record>>) = {record} BY DEF Range
            <4>2. ResolveRows(record, p).rows = <<record>>
                <5> HIDE DEF p
                <5> QED BY <2>2, RowsOfNothing
            <4> QED BY <4>1, <4>2
        <3> HIDE DEF p, own
        <3> QED BY <3>1, <3>2, <3>3
    <2>3. CASE p # <<>>
        <3>1. SourcePath(path, p) = own
            <4>1. IsPrefix(p, ss)
                <5>1. SubSeq(p, 1, Len(p)) = p
                    <6> HIDE DEF p
                    <6> QED BY <1>4, SubSeqFull
                <5>2. SubSeq(ss, 1, Len(p)) = p BY <1>4
                <5>3. Len(p) <= Len(ss) BY <1>2, <1>4
                <5> QED BY <5>1, <5>2, <5>3 DEF IsPrefix
            <4>2. SubSeq(ss, Len(p) + 1, Len(ss)) = own BY <1>4
            <4>3. ~Contains(own, Each) BY <1>5 DEF Contains, WithoutEach
            <4> HIDE DEF p, own
            <4> QED BY <1>1, <2>3, <4>1, <4>2, <4>3 DEF SourcePath
        <3> HIDE DEF p, own
        <3> QED BY <1>1, <2>1, <2>3, <3>1 DEF ReadAt
    <2> QED BY <2>2, <2>3
<1> QED BY <1>7, <1>8

LEMMA TextsFlatten == \A ss : FlattenSeq(Texts(ss)) = Writes(ss)
BY DEF Texts, Writes

\* The values the profiler found in a record under a path
ProfiledAt(record, path) ==
    {leaf.value : leaf \in {l \in Leaves(record) : <<"$">> \o FlattenSeq(l.path) = path}}

\* The path of a profile that segments are written as
IsWriting(path, ss, text) ==
    path = <<"$">> \o Writes(ss) /\ Texts(ss) \notin NestedPaths(text) /\ Len(ss) <= Nesting

\* The leaves of a record are where a path of the profile says
LEMMA LeavesAreFound ==
    ASSUME NEW text, NEW record \in Values, record \in Range(text), NEW g, Levels(g, record),
           GivesNodes(g, record),
           NEW ss \in Seq(MemberSegments), NEW path, IsWriting(path, ss, text)
    PROVE  ProfiledAt(record, path) = FoundAt(g, ss)
<1> DEFINE There == {l \in Leaves(record) : <<"$">> \o FlattenSeq(l.path) = path}
<1> USE DEF IsWriting
<1>1. Len(ss) \in 0 .. Nesting BY LenProperties, NestingAssumption
<1>2. ASSUME NEW l \in There PROVE l \in g[Len(ss)] /\ l.path = Texts(ss)
    <2>1. l \in Nodes(record) BY DEF Leaves
    <2>2. PICK n \in 0 .. Nesting : l \in g[n] BY <2>1 DEF GivesNodes
    <2>3. PICK tt \in Seq(MemberSegments) : Len(tt) = n /\ l.path = Texts(tt) BY <2>2, LevelPaths
    <2>4. path = <<"$">> \o Writes(tt) BY <2>3, TextsFlatten
    <2>5. ParsePath(path) = tt BY <2>4, MarksAreChars, ParsesWritten DEF MemberSegments
    <2>6. ParsePath(path) = ss BY MarksAreChars, ParsesWritten DEF MemberSegments
    <2> QED BY <2>2, <2>3, <2>5, <2>6
<1>3. ASSUME NEW x \in g[Len(ss)], x.path = Texts(ss) PROVE x \in There
    <2>1. x \in Nodes(record) BY <1>1 DEF GivesNodes
    <2>2. x \in Leaves(record)
        <3> SUFFICES ASSUME x \notin Leaves(record) PROVE FALSE OBVIOUS
        <3>1. x \in UNION {Nodes(r) \ Leaves(r) : r \in Range(text)} BY <2>1
        <3>2. x.path \in NestedPaths(text) BY <3>1 DEF NestedPaths
        <3> QED BY <1>3, <3>2
    <2>3. <<"$">> \o FlattenSeq(x.path) = path BY <1>3, TextsFlatten
    <2> QED BY <2>2, <2>3
<1> HIDE DEF There
<1>4. There = {x \in g[Len(ss)] : x.path = Texts(ss)} BY <1>2, <1>3
<1> QED BY <1>4 DEF FoundAt, There, ProfiledAt

\* The paths that are sent are those of the file
ProfileIsOfTheFile == phase = "profiled" => {field.path : field \in profile} = ProfilePaths(file)

LEMMA ProfileStays == PreviewInv /\ ProfileIsOfTheFile /\ [PreviewNext]_previewVars => ProfileIsOfTheFile'
<1> SUFFICES ASSUME PreviewInv, ProfileIsOfTheFile, [PreviewNext]_previewVars, phase' = "profiled"
             PROVE  {field.path : field \in profile'} = ProfilePaths(file')
    BY DEF ProfileIsOfTheFile
<1>1. CASE ProfileFile
    <2> DEFINE Sent(path) == SanitizeField([path |-> path, examples |-> Examples(path)])
    <2>1. profile' = {Sent(path) : path \in ProfilePaths(file)} /\ file' = file BY <1>1 DEF ProfileFile
    <2>2. \A path : Sent(path).path = path BY DEF SanitizeField
    <2> HIDE DEF Sent
    <2>3. {field.path : field \in profile'} = ProfilePaths(file) BY <2>1, <2>2
    <2> QED BY <2>1, <2>3
<1>2. CASE Refuse BY <1>2 DEF Refuse
<1>3. CASE Accept BY <1>3 DEF Accept
<1>4. CASE PreviewRecord BY <1>4 DEF PreviewRecord
<1>5. CASE Answer BY <1>5 DEF Answer
<1>6. CASE UNCHANGED previewVars BY <1>6 DEF previewVars, ProfileIsOfTheFile
<1> QED BY <1>1, <1>2, <1>3, <1>4, <1>5, <1>6 DEF PreviewNext

\* A path of the profile of a file is read where it was written
LEMMA PathsResolve ==
    ASSUME NEW text \in Files, NEW path \in ProfilePaths(text)
    PROVE  /\ ParsePath(path) # Unsupported
           /\ \A record \in Range(text) :
                 ReadAt(path, record) \ {Null} =
                    {leaf.value : leaf \in {l \in Leaves(record) :
                        <<"$">> \o FlattenSeq(l.path) = path}} \ {Null}
<1>1. Range(text) \subseteq Values
    <2>1. text \in Seq(Values) BY FilesAssumption
    <2> QED BY <2>1, RangeOfSeq
<1>2. PICK first \in Range(text) : \E leaf \in Leaves(first) :
          path = <<"$">> \o FlattenSeq(leaf.path) /\ leaf.path \notin NestedPaths(text)
    BY DEF ProfilePaths
<1>3. PICK leaf \in Leaves(first) :
          path = <<"$">> \o FlattenSeq(leaf.path) /\ leaf.path \notin NestedPaths(text)
    BY <1>2
<1>4. PICK f : Levels(f, first) /\ GivesNodes(f, first)
    BY LevelsExist, NodesAreChosen
<1>5. PICK m \in 0 .. Nesting : leaf \in f[m] BY <1>4 DEF Leaves, GivesNodes
<1>6. PICK ss \in Seq(MemberSegments) : Len(ss) = m /\ leaf.path = Texts(ss)
    BY <1>1, <1>4, <1>5, LevelPaths
<1>7. path = <<"$">> \o Writes(ss) /\ Texts(ss) \notin NestedPaths(text) /\ Len(ss) <= Nesting
    BY <1>3, <1>6, TextsFlatten, NestingAssumption
<1>8. ParsePath(path) # Unsupported
    <2>1. ParsePath(path) = ss BY <1>7, MarksAreChars, ParsesWritten DEF MemberSegments
    <2>2. ss # Unsupported
        <3> SUFFICES ASSUME ss = Unsupported PROVE FALSE OBVIOUS
        <3>1. Len(Unsupported) = 1 /\ Unsupported[1][1] = "unsupported" BY DEF Unsupported
        <3>2. 1 \in 1 .. Len(ss) BY <3>1
        <3>3. ss[1] \in MemberSegments BY <3>2, ElementOfSeq
        <3>4. Each[1] = "each" /\ \A name : Key(name)[1] = "key" BY DEF Each, Key
        <3>5. ss[1][1] \in {"each", "key"}
            <4>1. ss[1] = Each \/ \E name : ss[1] = Key(name) BY <3>3 DEF MemberSegments, Segments
            <4> QED BY <3>4, <4>1
        <3> QED BY <3>1, <3>5
    <2> QED BY <2>1, <2>2
<1>9. ASSUME NEW record \in Range(text)
      PROVE  SameFound(ReadAt(path, record), ProfiledAt(record, path))
    <2>1. PICK g : Levels(g, record) /\ GivesNodes(g, record)
        BY LevelsExist, NodesAreChosen
    <2>2. record \in Values BY <1>1
    <2>3. SameFound(ReadAt(path, record), FoundAt(g, ss)) BY <1>7, <2>1, <2>2, ReadIsFound
    <2>4. ProfiledAt(record, path) = FoundAt(g, ss)
        <3>1. IsWriting(path, ss, text) BY <1>7 DEF IsWriting
        <3> QED BY <2>1, <2>2, <3>1, LeavesAreFound
    <2> QED BY <2>3, <2>4
<1> QED BY <1>8, <1>9 DEF SameFound, ProfiledAt

\* Whatever the names of a file are, and however deep it nests, a path that was sent
\* is one that the engine parses, and it reads there the values the profiler found and
\* no other (json_path.py:3, sanitizer.py:56).
THEOREM ProfileIsReadBack == PreviewSpec => []ProfiledPathsResolve
<1>1. PreviewInit => ProfileIsOfTheFile BY DEF PreviewInit, ProfileIsOfTheFile
<1>2. PreviewInv /\ ProfileIsOfTheFile => ProfiledPathsResolve
    <2> SUFFICES ASSUME PreviewInv, ProfileIsOfTheFile, phase = "profiled"
                 PROVE  /\ \A field \in profile : ParsePath(field.path) # Unsupported
                        /\ \A record \in Range(file) : \A field \in profile :
                              ReadAt(field.path, record) \ {Null} =
                                 {leaf.value : leaf \in {l \in Leaves(record) :
                                     <<"$">> \o FlattenSeq(l.path) = field.path}} \ {Null}
                        /\ {field.path : field \in profile} = ProfilePaths(file)
        BY DEF ProfiledPathsResolve
    <2>1. file \in Files BY DEF PreviewInv
    <2>2. {field.path : field \in profile} = ProfilePaths(file) BY DEF ProfileIsOfTheFile
    <2>3. \A field \in profile : field.path \in ProfilePaths(file) BY <2>2
    <2> QED BY <2>1, <2>2, <2>3, PathsResolve
<1> QED BY <1>1, <1>2, ProfileStays, PreviewInvariant, PTL DEF PreviewSpec

--------------------------------------------------------------------------------
(***************************************************************************)
(* The wizard.  The acknowledgement of a duplicate is safe for every user; *)
(* what is previewed and what is shown, for one who waits: while a request *)
(* of that user is in flight, the selection it was made of stays.          *)
(***************************************************************************)

\* The dropzone is gone once there is a file
UploadsComeFirst == uploading # None => fileId = None

\* Everything in flight, and the preview, is of the selection
FlightIsCurrent == \A q \in previewing \cup creating : What(q) = Selection

PreviewIsCurrent == preview \in {None, Selection}

RunIsCurrent == importRunId # None => importRunId.file = fileId

WizardInv ==
    /\ TypeOK
    /\ UploadsComeFirst
    /\ AckIsForThisFile
    /\ patient => FlightIsCurrent /\ PreviewIsCurrent /\ RunIsCurrent /\ LaunchedAsPreviewed

LEMMA WizardBegins == Init => WizardInv
BY WizardAssumption
   DEF Init, WizardInv, TypeOK, UploadsComeFirst, AckIsForThisFile, FlightIsCurrent, PreviewIsCurrent,
       RunIsCurrent, LaunchedAsPreviewed

LEMMA NewRequestIsOfTheSelection ==
    ASSUME TypeOK, Selection \in Selections, sent < MaxRequests
    PROVE  /\ NewRequest \in Request /\ What(NewRequest) = Selection
           /\ sent + 1 \in 0..MaxRequests
<1>1. fileId \in FileIds /\ mappingId \in MappingIds
  BY DEF Selection, Selections
<1> QED BY <1>1, WizardAssumption DEF NewRequest, Request, What, Selection, TypeOK

LEMMA RequestsAreOfSelections == \A q \in Request : What(q) \in Selections /\ What(q).file \in FileIds
BY DEF Request, What, Selections

LEMMA StepKeepsTypes == TypeOK /\ [Next]_vars => TypeOK'
<1> SUFFICES ASSUME TypeOK, [Next]_vars PROVE TypeOK'
  OBVIOUS
<1> USE WizardAssumption DEF TypeOK, Requests
<1>1. ASSUME NEW f \in FileIds, StartUpload(f) PROVE TypeOK'
  BY <1>1 DEF StartUpload, ForgetFile
<1>2. CASE UploadArrives
  BY <1>2 DEF UploadArrives, ForgetFile
<1>3. CASE UploadFails
  BY <1>3 DEF UploadFails
<1>4. CASE Reset
  BY <1>4 DEF Reset, ForgetFile
<1>5. ASSUME NEW m \in MappingIds \cup {None}, SelectMapping(m) PROVE TypeOK'
  BY <1>5 DEF SelectMapping
<1>6. CASE AcknowledgeDuplicate
  BY <1>6 DEF AcknowledgeDuplicate
<1>7. CASE RunPreview
  <2>1. NewRequest \in Request /\ sent + 1 \in 0..MaxRequests
    BY <1>7, NewRequestIsOfTheSelection DEF RunPreview
  <2> QED BY <1>7, <2>1 DEF RunPreview
<1>8. CASE LaunchImport
  <2>1. NewRequest \in Request /\ sent + 1 \in 0..MaxRequests
    BY <1>8, NewRequestIsOfTheSelection DEF LaunchImport, CanLaunch
  <2>2. Selection \in Selections /\ preview \in Selections
    BY <1>8 DEF LaunchImport, CanLaunch
  <2> QED BY <1>8, <2>1, <2>2 DEF LaunchImport
<1>9. ASSUME NEW q \in previewing, PreviewArrives(q) PROVE TypeOK'
  BY <1>9, RequestsAreOfSelections DEF PreviewArrives
<1>10. ASSUME NEW q \in creating, LaunchArrives(q) PROVE TypeOK'
  BY <1>10, RequestsAreOfSelections DEF LaunchArrives
<1>11. CASE UNCHANGED vars
  BY <1>11 DEF vars
<1> QED BY <1>1, <1>2, <1>3, <1>4, <1>5, <1>6, <1>7, <1>8, <1>9, <1>10, <1>11 DEF Next

\* A change of file finds nothing of a patient user in flight
LEMMA FileChangesAtRest ==
    ASSUME WizardInv, patient, (uploading # None) \/ (fileId = None) \/ ~Waiting
    PROVE  previewing = {} /\ creating = {}
<1>1. CASE ~Waiting
  BY <1>1 DEF Waiting
<1>2. CASE fileId = None
  BY <1>2, WizardAssumption, RequestsAreOfSelections DEF WizardInv, TypeOK, FlightIsCurrent, Selection
<1> QED BY <1>1, <1>2 DEF WizardInv, UploadsComeFirst

LEMMA WizardGoesOn == WizardInv /\ [Next]_vars => WizardInv'
<1> SUFFICES ASSUME WizardInv, [Next]_vars PROVE WizardInv'
  OBVIOUS
<1> USE DEF Requests
<1>0. TypeOK'
  BY StepKeepsTypes DEF WizardInv
\* What clears the file and everything made of it
<1>1. ASSUME ForgetFile, patient' = patient, previewing' = previewing, creating' = creating,
             launched' = launched, uploading' # None => fileId' = None,
             patient => previewing = {} /\ creating = {}
      PROVE  WizardInv'
  BY <1>0, <1>1
     DEF WizardInv, ForgetFile, UploadsComeFirst, AckIsForThisFile, FlightIsCurrent, PreviewIsCurrent,
         RunIsCurrent, LaunchedAsPreviewed
<1>2. ASSUME NEW f \in FileIds, StartUpload(f) PROVE WizardInv'
  BY <1>1, <1>2, FileChangesAtRest DEF StartUpload
<1>3. CASE UploadArrives
  BY <1>1, <1>3, FileChangesAtRest DEF UploadArrives
<1>4. CASE Reset
  BY <1>1, <1>4, FileChangesAtRest DEF Reset
<1>5. CASE UploadFails
  BY <1>0, <1>5
     DEF UploadFails, WizardInv, UploadsComeFirst, AckIsForThisFile, FlightIsCurrent, PreviewIsCurrent,
         RunIsCurrent, LaunchedAsPreviewed, Selection
<1>6. ASSUME NEW m \in MappingIds \cup {None}, SelectMapping(m) PROVE WizardInv'
  <2>1. patient => previewing = {} /\ creating = {}
    BY <1>6 DEF SelectMapping, Waiting
  <2> QED BY <1>0, <1>6, <2>1
          DEF SelectMapping, WizardInv, UploadsComeFirst, AckIsForThisFile, FlightIsCurrent,
              PreviewIsCurrent, RunIsCurrent, LaunchedAsPreviewed
<1>7. CASE AcknowledgeDuplicate
  BY <1>0, <1>7
     DEF AcknowledgeDuplicate, WizardInv, UploadsComeFirst, AckIsForThisFile, FlightIsCurrent,
         PreviewIsCurrent, RunIsCurrent, LaunchedAsPreviewed, Selection
<1>8. CASE RunPreview
  <2>1. What(NewRequest) = Selection
    BY <1>8, NewRequestIsOfTheSelection DEF RunPreview, WizardInv
  <2> QED BY <1>0, <1>8, <2>1
          DEF RunPreview, WizardInv, UploadsComeFirst, AckIsForThisFile, FlightIsCurrent,
              PreviewIsCurrent, RunIsCurrent, LaunchedAsPreviewed, Selection
<1>9. CASE LaunchImport
  <2>1. What(NewRequest) = Selection /\ preview # None
    BY <1>9, NewRequestIsOfTheSelection DEF LaunchImport, CanLaunch, WizardInv
  <2>2. patient => preview = Selection
    BY <2>1 DEF WizardInv, PreviewIsCurrent
  <2> QED BY <1>0, <1>9, <2>1, <2>2
          DEF LaunchImport, WizardInv, UploadsComeFirst, AckIsForThisFile, FlightIsCurrent,
              PreviewIsCurrent, RunIsCurrent, LaunchedAsPreviewed, Selection
<1>10. ASSUME NEW q \in previewing, PreviewArrives(q) PROVE WizardInv'
  BY <1>0, <1>10
     DEF PreviewArrives, WizardInv, UploadsComeFirst, AckIsForThisFile, FlightIsCurrent,
         PreviewIsCurrent, RunIsCurrent, LaunchedAsPreviewed, Selection
<1>11. ASSUME NEW q \in creating, LaunchArrives(q) PROVE WizardInv'
  <2>1. patient => What(q).file = fileId
    BY <1>11 DEF WizardInv, FlightIsCurrent, Selection
  <2> QED BY <1>0, <1>11, <2>1
          DEF LaunchArrives, WizardInv, UploadsComeFirst, AckIsForThisFile, FlightIsCurrent,
              PreviewIsCurrent, RunIsCurrent, LaunchedAsPreviewed, Selection
<1>12. CASE UNCHANGED vars
  BY <1>12 DEF vars, WizardInv, TypeOK, UploadsComeFirst, AckIsForThisFile, FlightIsCurrent,
               PreviewIsCurrent, RunIsCurrent, LaunchedAsPreviewed, Selection
<1> QED BY <1>2, <1>3, <1>4, <1>5, <1>6, <1>7, <1>8, <1>9, <1>10, <1>11, <1>12 DEF Next

--------------------------------------------------------------------------------
(* What is promised of the wizard *)

\* The invariant of the page: what is in flight against what is selected.
THEOREM WizardInvariant == Spec => []WizardInv
BY WizardBegins, WizardGoesOn, PTL DEF Spec

\* For a user who waits for every answer, the preview displayed at a launch was
\* made of what is launched (useImportWizard.ts).
THEOREM PreviewsAreLaunched == Spec => []PatientLaunchedAsPreviewed
<1>1. WizardInv => PatientLaunchedAsPreviewed
  BY DEF WizardInv, PatientLaunchedAsPreviewed
<1> QED BY <1>1, WizardInvariant, PTL

\* The acknowledgement of one file never lets another one through, whatever is in
\* flight.
THEOREM AcknowledgementsStay == Spec => []AckIsForThisFile
<1>1. WizardInv => AckIsForThisFile
  BY DEF WizardInv
<1> QED BY <1>1, WizardInvariant, PTL

\* For a user who waits, the run displayed under a file imports that file.
THEOREM RunsAreOfTheFile == Spec => []PatientRunIsForThisFile
<1>1. WizardInv => PatientRunIsForThisFile
  BY DEF WizardInv, PatientRunIsForThisFile, RunIsCurrent
<1> QED BY <1>1, WizardInvariant, PTL
================================================================================
