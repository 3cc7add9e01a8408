------------------------------ MODULE SeqFacts ------------------------------
(***************************************************************************)
(* Facts about stacks and queues kept as sequences, most of them without   *)
(* repetition, for the proofs.                                             *)
(***************************************************************************)
EXTENDS SequencesExt, SequenceTheorems, FiniteSetTheorems, WellFoundedInduction, TLAPS

\* The elements of a sequence, by index.
LEMMA RangeByIndex ==
  ASSUME NEW S, NEW s \in Seq(S)
  PROVE  \A x : x \in Range(s) <=> \E i \in 1 .. Len(s) : x = s[i]
BY DEF Range

\* Popping the top of a stack.
LEMMA FrontFacts ==
  ASSUME NEW S, NEW s \in Seq(S), s # <<>>
  PROVE  /\ Len(s) \in Nat \ {0}
         /\ Front(s) \in Seq(S)
         /\ Len(Front(s)) = Len(s) - 1
         /\ \A i \in 1 .. Len(s) - 1 : Front(s)[i] = s[i]
         /\ Last(s) \in S
         /\ Last(s) = s[Len(s)]
         /\ Last(s) \in Range(s)
<1>1. Len(s) \in Nat \ {0}
  BY EmptySeq
<1>2. \A i \in 1 .. Len(s) : s[i] \in S
  BY ElementOfSeq
<1>3. /\ Front(s) \in Seq(S)
      /\ Len(Front(s)) = Len(s) - 1
      /\ \A i \in 1 .. Len(s) - 1 : Front(s)[i] = s[i]
  <2> DEFINE t == SubSeq(s, 1, Len(s) - 1)
  <2>1. \A i \in 1 .. Len(s) - 1 : s[i] \in S
    BY <1>1, <1>2
  <2>2. 1 \in Int /\ Len(s) - 1 \in Int
    BY <1>1
  <2>3. /\ t \in Seq(S)
        /\ Len(t) = IF 1 <= Len(s) - 1 THEN Len(s) - 1 - 1 + 1 ELSE 0
        /\ \A i \in 1 .. Len(s) - 1 - 1 + 1 : t[i] = s[1 + i - 1]
    BY <2>1, <2>2, SubSeqProperties
  <2>4. Front(s) = t
    BY DEF Front
  <2> HIDE DEF t
  <2>5. \A i \in 1 .. Len(s) - 1 : t[i] = s[i]
    <3> SUFFICES ASSUME NEW i \in 1 .. Len(s) - 1 PROVE t[i] = s[i]
      OBVIOUS
    <3>1. i \in 1 .. Len(s) - 1 - 1 + 1 /\ 1 + i - 1 = i
      BY <1>1
    <3> QED
      BY <3>1, <2>3
  <2> QED
    BY <2>3, <2>4, <2>5, <1>1
<1>4. Last(s) \in S /\ Last(s) = s[Len(s)] /\ Last(s) \in Range(s)
  BY <1>1, <1>2, RangeByIndex DEF Last
<1> QED
  BY <1>1, <1>3, <1>4

\* Popping keeps the elements distinct and removes just the top.
LEMMA FrontDistinct ==
  ASSUME NEW S, NEW s \in Seq(S), s # <<>>, IsInjective(s)
  PROVE  /\ IsInjective(Front(s))
         /\ Range(Front(s)) = Range(s) \ {Last(s)}
<1>1. DOMAIN s = 1 .. Len(s) /\ DOMAIN Front(s) = 1 .. Len(s) - 1
  BY FrontFacts, LenProperties
<1>2. IsInjective(Front(s))
  <2>1. /\ Len(s) \in Nat \ {0}
        /\ \A i \in 1 .. Len(s) - 1 : Front(s)[i] = s[i]
    BY FrontFacts, Zenon
  <2> SUFFICES ASSUME NEW a \in DOMAIN Front(s), NEW b \in DOMAIN Front(s),
                      Front(s)[a] = Front(s)[b]
               PROVE  a = b
    BY DEF IsInjective
  <2>2. a \in DOMAIN s /\ b \in DOMAIN s /\ s[a] = s[b]
    BY <1>1, <2>1
  <2> QED
    BY <2>2 DEF IsInjective
<1>3. \A x : x \in Range(Front(s)) <=> \E i \in 1 .. Len(s) - 1 : x = s[i]
  BY FrontFacts, RangeByIndex
<1>4. \A x : x \in Range(s) \ {Last(s)} <=> \E i \in 1 .. Len(s) - 1 : x = s[i]
  BY <1>1, FrontFacts, RangeByIndex DEF IsInjective
<1> QED
  BY <1>2, <1>3, <1>4

\* Pushing a new element.
LEMMA AppendDistinct ==
  ASSUME NEW S, NEW s \in Seq(S), NEW e \in S, IsInjective(s), e \notin Range(s)
  PROVE  /\ IsInjective(Append(s, e))
         /\ Range(Append(s, e)) = Range(s) \cup {e}
<1>1. DOMAIN s = 1 .. Len(s) /\ DOMAIN Append(s, e) = 1 .. Len(s) + 1 /\ Len(s) \in Nat
  BY AppendProperties, LenProperties
<1>0. /\ \A i \in 1 .. Len(s) : Append(s, e)[i] = s[i]
      /\ Append(s, e)[Len(s) + 1] = e
  BY AppendProperties
<1>2. \A x : x \in Range(Append(s, e)) <=> x \in Range(s) \/ x = e
  BY <1>0, <1>1 DEF Range
<1>3. \A i \in 1 .. Len(s) : s[i] # e
  BY <1>1, RangeByIndex
<1>4. IsInjective(Append(s, e))
  BY <1>1, <1>3, AppendProperties DEF IsInjective
<1> QED
  BY <1>2, <1>4

\* Taking the head off a queue.
LEMMA TailDistinct ==
  ASSUME NEW S, NEW s \in Seq(S), s # <<>>, IsInjective(s)
  PROVE  /\ Head(s) \in Range(s)
         /\ IsInjective(Tail(s))
         /\ Range(Tail(s)) = Range(s) \ {Head(s)}
<1>1. /\ Len(s) \in Nat \ {0}
      /\ DOMAIN s = 1 .. Len(s)
      /\ DOMAIN Tail(s) = 1 .. Len(s) - 1
      /\ Tail(s) \in Seq(S)
      /\ \A i \in 1 .. Len(s) - 1 : Tail(s)[i] = s[i + 1]
  BY EmptySeq, HeadTailProperties, LenProperties
<1>2. Head(s) = s[1]
  BY <1>1
<1>3. IsInjective(Tail(s))
  BY <1>1 DEF IsInjective
<1>4. \A x : x \in Range(Tail(s)) <=> \E i \in 2 .. Len(s) : x = s[i]
  <2>1. ASSUME NEW x, x \in Range(Tail(s)) PROVE \E i \in 2 .. Len(s) : x = s[i]
    <3>1. PICK j \in 1 .. Len(s) - 1 : x = Tail(s)[j]
      BY <2>1, <1>1 DEF Range
    <3>2. j + 1 \in 2 .. Len(s) /\ x = s[j + 1]
      BY <3>1, <1>1
    <3> QED
      BY <3>2
  <2>2. ASSUME NEW x, NEW i \in 2 .. Len(s), x = s[i] PROVE x \in Range(Tail(s))
    <3>1. i - 1 \in 1 .. Len(s) - 1 /\ x = Tail(s)[i - 1]
      BY <2>2, <1>1
    <3> QED
      BY <3>1, <1>1 DEF Range
  <2> QED
    BY <2>1, <2>2
<1>5. Head(s) \in Range(s)
  BY <1>1, <1>2 DEF Range
<1>6. \A x : x \in Range(s) \ {Head(s)} <=> \E i \in 2 .. Len(s) : x = s[i]
  BY <1>1, <1>2, RangeByIndex DEF IsInjective
<1> QED
  BY <1>3, <1>4, <1>5, <1>6

\* Cutting the first n elements off.
LEMMA SuffixFacts ==
  ASSUME NEW S, NEW s \in Seq(S), NEW n \in 0 .. Len(s)
  PROVE  /\ SubSeq(s, n + 1, Len(s)) \in Seq(S)
         /\ Len(SubSeq(s, n + 1, Len(s))) = Len(s) - n
         /\ \A i \in 1 .. Len(s) - n : SubSeq(s, n + 1, Len(s))[i] = s[n + i]
<1> DEFINE t == SubSeq(s, n + 1, Len(s))
<1>1. /\ Len(s) \in Nat
      /\ DOMAIN s = 1 .. Len(s)
      /\ \A i \in 1 .. Len(s) : s[i] \in S
  BY LenProperties, ElementOfSeq
<1>2. /\ t \in Seq(S)
      /\ Len(t) = Len(s) - n
      /\ \A i \in 1 .. Len(s) - n : t[i] = s[n + i]
  <2>1. \A i \in n + 1 .. Len(s) : s[i] \in S
    BY <1>1
  <2>2. n + 1 \in Int /\ Len(s) \in Int
    BY <1>1
  <2>3. /\ t \in Seq(S)
        /\ Len(t) = IF n + 1 <= Len(s) THEN Len(s) - (n + 1) + 1 ELSE 0
        /\ \A i \in 1 .. Len(s) - (n + 1) + 1 : t[i] = s[n + 1 + i - 1]
    BY <2>1, <2>2, SubSeqProperties
  <2> HIDE DEF t
  <2>4. \A i \in 1 .. Len(s) - n : t[i] = s[n + i]
    <3> SUFFICES ASSUME NEW i \in 1 .. Len(s) - n PROVE t[i] = s[n + i]
      OBVIOUS
    <3>1. i \in 1 .. Len(s) - (n + 1) + 1 /\ n + 1 + i - 1 = n + i
      BY <1>1
    <3> QED
      BY <3>1, <2>3
  <2>5. Len(t) = Len(s) - n
    <3>1. Len(t) = IF n + 1 <= Len(s) THEN Len(s) - (n + 1) + 1 ELSE 0
      BY <2>3, Zenon
    <3>2. n \in Nat /\ Len(s) \in Nat /\ n <= Len(s)
      BY <1>1
    <3> QED
      BY <3>1, <3>2
  <2> QED
    BY <2>3, <2>4, <2>5, Zenon
<1> QED
  BY <1>2

\* ... keeps the elements distinct and removes just those.
LEMMA SuffixDistinct ==
  ASSUME NEW S, NEW s \in Seq(S), NEW n \in 0 .. Len(s), IsInjective(s)
  PROVE  /\ IsInjective(SubSeq(s, n + 1, Len(s)))
         /\ Range(SubSeq(s, n + 1, Len(s))) = Range(s) \ {s[i] : i \in 1 .. n}
<1> DEFINE t == SubSeq(s, n + 1, Len(s))
<1>1. Len(s) \in Nat /\ DOMAIN s = 1 .. Len(s)
  BY LenProperties
<1>2. /\ t \in Seq(S)
      /\ Len(t) = Len(s) - n
      /\ \A i \in 1 .. Len(s) - n : t[i] = s[n + i]
  BY SuffixFacts, Zenon
<1>3. DOMAIN t = 1 .. Len(s) - n
  BY <1>2, LenProperties
<1> HIDE DEF t
<1>4. IsInjective(t)
  <2> SUFFICES ASSUME NEW a \in DOMAIN t, NEW b \in DOMAIN t, t[a] = t[b]
               PROVE  a = b
    BY DEF IsInjective
  <2>0. a \in 1 .. Len(s) - n /\ b \in 1 .. Len(s) - n
    BY <1>3
  <2>1. n + a \in DOMAIN s /\ n + b \in DOMAIN s /\ s[n + a] = s[n + b]
    <3>1. n + a \in 1 .. Len(s) /\ n + b \in 1 .. Len(s)
      BY <2>0, <1>1
    <3>2. t[a] = s[n + a] /\ t[b] = s[n + b]
      BY <2>0, <1>2, Zenon
    <3> QED
      BY <3>1, <3>2, <1>1, Zenon
  <2>2. n + a = n + b
    BY <2>1, Zenon DEF IsInjective
  <2> QED
    BY <2>2, <1>1, <1>3
<1>5. ASSUME NEW x PROVE x \in Range(t) => x \in Range(s) \ {s[i] : i \in 1 .. n}
  <2> SUFFICES ASSUME x \in Range(t) PROVE x \in Range(s) \ {s[i] : i \in 1 .. n}
    OBVIOUS
  <2>1. PICK j \in 1 .. Len(s) - n : x = s[n + j]
    BY <1>2, <1>3 DEF Range
  <2>2. n + j \in DOMAIN s /\ \A i \in 1 .. n : i \in DOMAIN s /\ i # n + j
    BY <1>1
  <2>3. x \in Range(s)
    BY <2>1, <2>2 DEF Range
  <2>4. \A i \in 1 .. n : s[i] # x
    BY <2>1, <2>2 DEF IsInjective
  <2> QED
    BY <2>3, <2>4
<1>6. ASSUME NEW x PROVE x \in Range(s) \ {s[i] : i \in 1 .. n} => x \in Range(t)
  <2> SUFFICES ASSUME x \in Range(s) \ {s[i] : i \in 1 .. n} PROVE x \in Range(t)
    OBVIOUS
  <2>1. PICK j \in 1 .. Len(s) : x = s[j]
    BY <1>1 DEF Range
  <2>2. j \notin 1 .. n
    BY <2>1
  <2>3. j - n \in DOMAIN t /\ t[j - n] = x
    BY <2>1, <2>2, <1>1, <1>2, <1>3
  <2> QED
    BY <2>3 DEF Range
<1>7. Range(t) = Range(s) \ {s[i] : i \in 1 .. n}
  BY <1>5, <1>6
<1> QED
  BY <1>4, <1>7 DEF t

\* Taking a member out of the middle.
LEMMA RemoveAtFacts ==
  ASSUME NEW S, NEW s \in Seq(S), NEW n \in 1 .. Len(s)
  PROVE  /\ RemoveAt(s, n) \in Seq(S)
         /\ Len(RemoveAt(s, n)) = Len(s) - 1
         /\ \A i \in 1 .. n - 1 : RemoveAt(s, n)[i] = s[i]
         /\ \A i \in n .. Len(s) - 1 : RemoveAt(s, n)[i] = s[i + 1]
<1> DEFINE a == SubSeq(s, 1, n - 1)
           b == SubSeq(s, n + 1, Len(s))
<1>1. Len(s) \in Nat /\ n \in Nat \ {0} /\ n <= Len(s) /\ n \in 0 .. Len(s)
  BY LenProperties
<1>2. \A i \in 1 .. Len(s) : s[i] \in S
  BY ElementOfSeq
<1>3. /\ a \in Seq(S)
      /\ Len(a) = n - 1
      /\ \A i \in 1 .. n - 1 : a[i] = s[i]
  <2>1. 1 \in Int /\ n - 1 \in Int /\ \A i \in 1 .. n - 1 : s[i] \in S
    BY <1>1, <1>2
  <2>2. /\ a \in Seq(S)
        /\ Len(a) = IF 1 <= n - 1 THEN n - 1 - 1 + 1 ELSE 0
        /\ \A i \in 1 .. n - 1 - 1 + 1 : a[i] = s[1 + i - 1]
    BY <2>1, SubSeqProperties
  <2> HIDE DEF a
  <2> QED
    BY <2>2, <1>1
<1>4. /\ b \in Seq(S)
      /\ Len(b) = Len(s) - n
      /\ \A i \in 1 .. Len(s) - n : b[i] = s[n + i]
  BY <1>1, SuffixFacts
<1>5. RemoveAt(s, n) = a \o b
  BY DEF RemoveAt
<1> HIDE DEF a, b
<1>6. /\ a \o b \in Seq(S)
      /\ Len(a \o b) = Len(a) + Len(b)
      /\ \A i \in 1 .. Len(a) + Len(b) :
           (a \o b)[i] = IF i <= Len(a) THEN a[i] ELSE b[i - Len(a)]
  BY <1>3, <1>4, ConcatProperties
<1>7. \A i \in 1 .. n - 1 : (a \o b)[i] = s[i]
  BY <1>1, <1>3, <1>4, <1>6
<1>8. ASSUME NEW i \in n .. Len(s) - 1
      PROVE  (a \o b)[i] = s[i + 1]
  <2>1. /\ i \in 1 .. Len(a) + Len(b) /\ ~(i <= Len(a))
        /\ i - Len(a) \in 1 .. Len(s) - n /\ n + (i - Len(a)) = i + 1
    BY <1>1, <1>3, <1>4
  <2> QED
    BY <2>1, <1>4, <1>6
<1> QED
  BY <1>1, <1>3, <1>4, <1>5, <1>6, <1>7, <1>8

\* Nothing else leaves, and nothing is there twice.
LEMMA RemoveAtDistinct ==
  ASSUME NEW S, NEW s \in Seq(S), NEW n \in 1 .. Len(s), IsInjective(s)
  PROVE  /\ IsInjective(RemoveAt(s, n))
         /\ Range(RemoveAt(s, n)) = Range(s) \ {s[n]}
<1> DEFINE t == RemoveAt(s, n)
<1>1. Len(s) \in Nat /\ n \in Nat \ {0} /\ n <= Len(s) /\ DOMAIN s = 1 .. Len(s)
  BY LenProperties
<1>2. /\ t \in Seq(S)
      /\ Len(t) = Len(s) - 1
      /\ \A i \in 1 .. n - 1 : t[i] = s[i]
      /\ \A i \in n .. Len(s) - 1 : t[i] = s[i + 1]
  BY RemoveAtFacts
<1>3. DOMAIN t = 1 .. Len(s) - 1
  BY <1>2, LenProperties
<1> HIDE DEF t
<1>4. \A i, j \in 1 .. Len(s) : s[i] = s[j] => i = j
  BY <1>1 DEF IsInjective
<1>5. ASSUME NEW i \in 1 .. Len(s) - 1
      PROVE  \E a \in (1 .. Len(s)) \ {n} : t[i] = s[a] /\ a = IF i < n THEN i ELSE i + 1
  <2>1. CASE i < n
    BY <2>1, <1>1, <1>2
  <2>2. CASE ~(i < n)
    <3>1. i \in n .. Len(s) - 1 /\ i + 1 \in (1 .. Len(s)) \ {n}
      BY <2>2, <1>1
    <3> QED
      BY <3>1, <2>2, <1>2
  <2> QED
    BY <2>1, <2>2
<1>6. ASSUME NEW i \in 1 .. Len(s) - 1, NEW j \in 1 .. Len(s) - 1, t[i] = t[j]
      PROVE  i = j
  <2>1. PICK a \in (1 .. Len(s)) \ {n} : t[i] = s[a] /\ a = IF i < n THEN i ELSE i + 1
    BY <1>5
  <2>2. PICK b \in (1 .. Len(s)) \ {n} : t[j] = s[b] /\ b = IF j < n THEN j ELSE j + 1
    BY <1>5
  <2>3. a = b
    BY <1>4, <1>6, <2>1, <2>2
  <2> QED
    BY <2>1, <2>2, <2>3, <1>1
<1>7. IsInjective(t)
  BY <1>3, <1>6 DEF IsInjective
<1>8. ASSUME NEW x \in Range(t)
      PROVE  x \in Range(s) \ {s[n]}
  <2>1. PICK i \in 1 .. Len(s) - 1 : x = t[i]
    BY <1>3 DEF Range
  <2>2. PICK a \in (1 .. Len(s)) \ {n} : t[i] = s[a]
    BY <1>5
  <2> QED
    BY <2>1, <2>2, <1>1, <1>4 DEF Range
<1>9. ASSUME NEW x \in Range(s) \ {s[n]}
      PROVE  x \in Range(t)
  <2>1. PICK a \in 1 .. Len(s) : x = s[a]
    BY <1>1 DEF Range
  <2>2. CASE a < n
    <3>1. a \in 1 .. n - 1 /\ a \in 1 .. Len(s) - 1
      BY <2>1, <2>2, <1>1
    <3>2. t[a] = x
      BY <3>1, <2>1, <1>2
    <3> QED
      BY <3>1, <3>2, <1>3 DEF Range
  <2>3. CASE n < a
    <3>1. a - 1 \in n .. Len(s) - 1 /\ a - 1 \in 1 .. Len(s) - 1 /\ (a - 1) + 1 = a
      BY <2>1, <2>3, <1>1
    <3> QED
      BY <3>1, <2>1, <1>2, <1>3 DEF Range
  <2> QED
    BY <2>1, <2>2, <2>3, <1>1, <1>9
<1>10. Range(t) = Range(s) \ {s[n]}
  BY <1>8, <1>9
<1> QED
  BY <1>7, <1>10 DEF t

\* The same, by index.
LEMMA Dequeued ==
  ASSUME NEW S, NEW s \in Seq(S), s # <<>>
  PROVE  /\ Head(s) = s[1] /\ 1 \in 1 .. Len(s) /\ Len(s) \in Nat
         /\ Tail(s) \in Seq(S) /\ Len(Tail(s)) = Len(s) - 1
         /\ \A i \in 1 .. Len(s) - 1 : Tail(s)[i] = s[i + 1] /\ i + 1 \in 1 .. Len(s)
<1>1. /\ Len(s) \in Nat /\ Len(s) # 0
      /\ Tail(s) \in Seq(S) /\ Len(Tail(s)) = Len(s) - 1
      /\ \A i \in 1 .. Len(Tail(s)) : Tail(s)[i] = s[i + 1]
  BY HeadTailProperties, EmptySeq, LenProperties
<1>2. Head(s) = s[1]
  OBVIOUS
<1> QED
  BY <1>1, <1>2

\* Joining a queue.
LEMMA Enqueued ==
  ASSUME NEW S, NEW s \in Seq(S), NEW e \in S
  PROVE  /\ Len(s) \in Nat
         /\ Append(s, e) \in Seq(S) /\ Len(Append(s, e)) = Len(s) + 1
         /\ \A i \in 1 .. Len(s) : Append(s, e)[i] = s[i]
         /\ Append(s, e)[Len(s) + 1] = e
BY AppendProperties, LenProperties

\* Nothing leaves when there is nothing to take away.
LEMMA RemoveNothing ==
  ASSUME NEW S, NEW s \in Seq(S), NEW e, e \notin Range(s)
  PROVE  RemoveFirst(s, e) = s
<1>1. ~ \E i \in 1 .. Len(s) : s[i] = e
  BY RangeByIndex
<1> QED
  BY <1>1 DEF RemoveFirst
\* A set of natural numbers has a least member, that of the smallest of the
\* intervals that end in it.
LEMMA LeastNumber ==
  ASSUME NEW T, T \subseteq Nat, T # {}
  PROVE  Min(T) \in T
<1> DEFINE R == StrictSubsetOrdering(Nat)
           F == FiniteSubsetsOf(Nat)
           U == {0 .. x : x \in T}
<1>1. IsWellFoundedOn(R, F)
  BY FS_StrictSubsetOrderingWellFounded
<1>2. U \subseteq F
  <2> SUFFICES ASSUME NEW x \in T PROVE 0 .. x \in F
    OBVIOUS
  <2>1. IsFiniteSet(0 .. x) /\ 0 .. x \subseteq Nat
    BY FS_Interval
  <2> QED
    BY <2>1 DEF FiniteSubsetsOf
<1>3. U # {}
  OBVIOUS
<1>4. \E u \in U : \A v \in U : ~(<<v, u>> \in R)
  <2> HIDE DEF R, F, U
  <2> QED
    BY <1>1, <1>2, <1>3, WFMin
<1>5. PICK x \in T : \A y \in T : ~(<<0 .. y, 0 .. x>> \in R)
  BY <1>4
<1>6. ASSUME NEW y \in T PROVE x =< y
  <2>1. CASE y < x
    <3>1. /\ 0 .. y \subseteq 0 .. x
          /\ 0 .. y \subseteq Nat /\ 0 .. x \subseteq Nat
          /\ x \in 0 .. x /\ x \notin 0 .. y
      BY <2>1
    <3>2. <<0 .. y, 0 .. x>> \in R
      BY <3>1 DEF StrictSubsetOrdering
    <3> QED
      BY <3>2, <1>5
  <2> QED
    BY <2>1
<1>7. \E z \in T : \A y \in T : z =< y
  BY <1>6
<1> QED
  BY <1>7, Zenon DEF Min

\* Taking a member out by value.
LEMMA RemoveFirstType ==
  ASSUME NEW S, NEW s \in Seq(S), NEW e
  PROVE  RemoveFirst(s, e) \in Seq(S)
<1> DEFINE I == {i \in 1 .. Len(s) : s[i] = e}
<1>1. CASE I = {}
  BY <1>1 DEF RemoveFirst
<1>2. CASE I # {}
  <2>1. Min(I) \in I
    <3>1. I \subseteq Nat
      OBVIOUS
    <3> HIDE DEF I
    <3> QED
      BY <3>1, <1>2, LeastNumber
  <2>2. Min(I) \in 1 .. Len(s)
    BY <2>1
  <2>3. RemoveFirst(s, e) = RemoveAt(s, Min(I))
    BY <1>2 DEF RemoveFirst, SelectInSeq
  <2> HIDE DEF I
  <2> QED
    BY <2>2, <2>3, RemoveAtFacts
<1> QED
  BY <1>1, <1>2

\* Concatenation under another name: a prover that knows it regroups without end.
Cat(a, b) == a \o b

LEMMA CatAssociative ==
  ASSUME NEW S, NEW a \in Seq(S), NEW b \in Seq(S), NEW c \in Seq(S)
  PROVE  Cat(Cat(a, b), c) = Cat(a, Cat(b, c))
BY ConcatAssociative DEF Cat

\* Taking the head off the first of two sequences takes it off their concatenation.
LEMMA Taken ==
  ASSUME NEW S, NEW s \in Seq(S), NEW t \in Seq(S), s # <<>>
  PROVE  /\ s \o t \in Seq(S) /\ s \o t # <<>>
         /\ Head(s) \in S /\ Tail(s) \in Seq(S)
         /\ Head(s \o t) = Head(s)
         /\ Tail(s \o t) = Tail(s) \o t
<1>1. /\ Len(s) \in Nat \ {0} /\ Len(t) \in Nat /\ s \o t \in Seq(S)
      /\ Len(s \o t) = Len(s) + Len(t)
      /\ Head(s) = s[1] /\ s[1] \in S /\ Tail(s) \in Seq(S)
      /\ Len(Tail(s)) = Len(s) - 1
      /\ \A i \in 1 .. Len(s) - 1 : Tail(s)[i] = s[i + 1]
  BY Dequeued
<1>2. s \o t # <<>> /\ Head(s \o t) = Head(s)
  BY <1>1
<1>3. /\ Tail(s \o t) \in Seq(S) /\ Len(Tail(s \o t)) = Len(s) + Len(t) - 1
      /\ \A i \in 1 .. Len(s) + Len(t) - 1 : Tail(s \o t)[i] = (s \o t)[i + 1]
  BY <1>1, <1>2, Dequeued
<1>4. /\ Tail(s) \o t \in Seq(S) /\ Len(Tail(s) \o t) = Len(s) + Len(t) - 1
  BY <1>1
<1>5. \A i \in 1 .. Len(s) + Len(t) - 1 : Tail(s \o t)[i] = (Tail(s) \o t)[i]
  <2> TAKE i \in 1 .. Len(s) + Len(t) - 1
  <2>1. CASE i <= Len(s) - 1
    BY <1>1, <1>3, <2>1
  <2>2. CASE i > Len(s) - 1
    <3>1. (s \o t)[i + 1] = t[i + 1 - Len(s)]
      BY <1>1, <2>2
    <3>2. (Tail(s) \o t)[i] = t[i - (Len(s) - 1)]
      BY <1>1, <2>2
    <3> QED
      BY <1>1, <1>3, <3>1, <3>2
  <2> QED
    BY <1>1, <2>1, <2>2
<1>6. Tail(s \o t) = Tail(s) \o t
  BY <1>3, <1>4, <1>5, SeqEqual
<1> QED
  BY <1>1, <1>2, <1>6

\* Moving the first elements of the second one to the first changes nothing.
LEMMA Arrived ==
  ASSUME NEW S, NEW s \in Seq(S), NEW t \in Seq(S), NEW n \in 1 .. Len(t)
  PROVE  /\ s \o SubSeq(t, 1, n) \in Seq(S)
         /\ SubSeq(t, n + 1, Len(t)) \in Seq(S)
         /\ (s \o SubSeq(t, 1, n)) \o SubSeq(t, n + 1, Len(t)) = s \o t
<1> DEFINE u == SubSeq(t, 1, n)
           v == SubSeq(t, n + 1, Len(t))
<1>1. u \in Seq(S) /\ v \in Seq(S)
  BY SubSeqProperties
<1>2. Cat(u, v) = t
  BY ConcatAdjacentSubSeq, SubSeqFull DEF Cat
<1> HIDE DEF u, v
<1>3. Cat(s, u) \in Seq(S)
  BY <1>1, ConcatProperties DEF Cat
<1>4. Cat(Cat(s, u), v) = Cat(s, t)
  BY <1>1, <1>2, CatAssociative
<1> QED
  BY <1>1, <1>3, <1>4 DEF u, v, Cat
=============================================================================
