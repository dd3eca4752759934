--------------------------- MODULE SequenceFacts ----------------------------
(***************************************************************************)
(* Induction on numbers, as a statement about sets; and what appending,    *)
(* removing the head and concatenating do to the range of a sequence and   *)
(* to its elements being apart.                                            *)
(***************************************************************************)
EXTENDS Integers, Sequences, SequencesExt, SequenceTheorems, WellFoundedInduction, TLAPS

\* A set of numbers has a least one ...
LEMMA LeastElement ==
  ASSUME NEW T \in SUBSET Nat, T # {}
  PROVE  \E m \in T : \A k \in T : m <= k
<1>1. \E x \in T : \A y \in T : ~ (<<y, x>> \in OpToRel(<, Nat))
  BY WFMin, NatLessThanWellFounded
<1>2. PICK x \in T : \A y \in T : ~ (<<y, x>> \in OpToRel(<, Nat))
  BY <1>1
<1>3. ASSUME NEW y \in T, y < x PROVE FALSE
  <2>1. <<y, x>> \in Nat \X Nat
    OBVIOUS
  <2>2. <<y, x>> \in OpToRel(<, Nat)
    BY <1>3, <2>1 DEF OpToRel
  <2> QED
    BY <1>2, <2>2
<1>4. \A k \in T : x <= k
  BY <1>3
<1> QED
  BY <1>4

\* ... so a set with 0, and with the next of each of its numbers, has them all.
LEMMA SetInduction ==
  ASSUME NEW T, 0 \in T, NEW m \in Nat, \A n \in 0..m : n < m /\ n \in T => n + 1 \in T
  PROVE  \A n \in 0..m : n \in T
<1> DEFINE Out == {n \in 0..m : n \notin T}
<1> SUFFICES ASSUME Out # {} PROVE FALSE
  OBVIOUS
<1>0. Out \in SUBSET Nat
  OBVIOUS
<1>1. PICK n \in Out : \A k \in Out : n <= k
  <2> HIDE DEF Out
  <2> QED
    BY <1>0, LeastElement
<1>2. n # 0
  OBVIOUS
<1>3. n - 1 \in 0..m /\ n - 1 < m /\ n - 1 \notin Out
  BY <1>1, <1>2
<1> QED
  BY <1>1, <1>3

-----------------------------------------------------------------------------

LEMMA AppendFacts ==
  ASSUME NEW S, NEW s \in Seq(S), NEW e \in S
  PROVE  /\ Append(s, e) \in Seq(S)
         /\ Len(Append(s, e)) = Len(s) + 1
         /\ \A i \in 1..Len(s) : Append(s, e)[i] = s[i]
         /\ Append(s, e)[Len(s) + 1] = e
         /\ Append(s, e) # <<>>
OBVIOUS

LEMMA RangeElements ==
  ASSUME NEW S, NEW s \in Seq(S)
  PROVE  \A x : x \in ToSet(s) <=> \E i \in 1..Len(s) : s[i] = x
<1>1. ToSet(s) = {s[i] : i \in 1..Len(s)}
  BY LenProperties DEF ToSet
<1> QED
  BY <1>1

LEMMA RangeInSet ==
  ASSUME NEW S, NEW s \in Seq(S)
  PROVE  ToSet(s) \subseteq S
<1>1. ToSet(s) = {s[i] : i \in 1..Len(s)}
  BY LenProperties DEF ToSet
<1> QED
  BY <1>1, LenProperties

LEMMA RangeOfEmpty == ToSet(<<>>) = {}
BY DEF ToSet

LEMMA RangeOfAppend ==
  ASSUME NEW S, NEW s \in Seq(S), NEW e \in S
  PROVE  ToSet(Append(s, e)) = ToSet(s) \cup {e}
<1>1. /\ Append(s, e) \in Seq(S) /\ Len(Append(s, e)) = Len(s) + 1 /\ Len(s) \in Nat
      /\ \A i \in 1..Len(s) : Append(s, e)[i] = s[i]
      /\ Append(s, e)[Len(s) + 1] = e
  BY AppendFacts, LenProperties
<1>2. \A x : x \in ToSet(Append(s, e)) <=> \E i \in 1..Len(Append(s, e)) : Append(s, e)[i] = x
  BY <1>1, RangeElements
<1>3. \A x : x \in ToSet(s) <=> \E i \in 1..Len(s) : s[i] = x
  BY RangeElements
<1>4. \A x : x \in ToSet(s) \cup {e} => x \in ToSet(Append(s, e))
  BY <1>1, <1>2, <1>3
<1>5. \A x : x \in ToSet(Append(s, e)) => x \in ToSet(s) \cup {e}
  BY <1>1, <1>2, <1>3
<1> QED
  BY <1>4, <1>5

LEMMA RangeOfTail ==
  ASSUME NEW S, NEW s \in Seq(S), s # <<>>
  PROVE  ToSet(s) = ToSet(Tail(s)) \cup {Head(s)}
<1>1. /\ Head(s) = s[1] /\ Tail(s) \in Seq(S) /\ Len(Tail(s)) = Len(s) - 1
      /\ \A i \in 1..Len(Tail(s)) : Tail(s)[i] = s[i + 1]
      /\ Len(s) \in Nat \ {0}
  BY HeadTailProperties, EmptySeq
<1>2. \A x \in ToSet(s) : x \in ToSet(Tail(s)) \cup {Head(s)}
  <2> SUFFICES ASSUME NEW x \in ToSet(s), x # Head(s) PROVE x \in ToSet(Tail(s))
    OBVIOUS
  <2>1. PICK i \in 1..Len(s) : x = s[i]
    BY RangeElements
  <2>2. i # 1
    BY <1>1, <2>1
  <2>3. i - 1 \in 1..Len(Tail(s)) /\ x = Tail(s)[i - 1]
    BY <1>1, <2>1, <2>2
  <2> QED
    BY <1>1, <2>3, RangeElements
<1>3. \A x : x \in ToSet(s) <=> \E i \in 1..Len(s) : s[i] = x
  BY RangeElements
<1>4. \A x : x \in ToSet(Tail(s)) <=> \E i \in 1..Len(Tail(s)) : Tail(s)[i] = x
  BY <1>1, RangeElements
<1>5. \A x \in ToSet(Tail(s)) \cup {Head(s)} : x \in ToSet(s)
  BY <1>1, <1>3, <1>4
<1> QED
  BY <1>2, <1>5

LEMMA RangeOfConcat ==
  ASSUME NEW S, NEW s \in Seq(S), NEW t \in Seq(S)
  PROVE  ToSet(s \o t) = ToSet(s) \cup ToSet(t)
<1>1. /\ s \o t \in Seq(S) /\ Len(s \o t) = Len(s) + Len(t)
      /\ Len(s) \in Nat /\ Len(t) \in Nat
      /\ \A i \in 1..Len(s) + Len(t) :
           (s \o t)[i] = IF i <= Len(s) THEN s[i] ELSE t[i - Len(s)]
  BY ConcatProperties, LenProperties
<1>2. \A x : x \in ToSet(s \o t) <=> \E i \in 1..Len(s) + Len(t) : (s \o t)[i] = x
  BY <1>1, RangeElements
<1>3. \A x : x \in ToSet(s) <=> \E i \in 1..Len(s) : s[i] = x
  BY RangeElements
<1>4. \A x : x \in ToSet(t) <=> \E i \in 1..Len(t) : t[i] = x
  BY RangeElements
<1>5. \A x : x \in ToSet(s) => x \in ToSet(s \o t)
  BY <1>1, <1>2, <1>3
<1>6. ASSUME NEW x \in ToSet(t) PROVE x \in ToSet(s \o t)
  <2>1. PICK i \in 1..Len(t) : t[i] = x
    BY <1>4
  <2>2. Len(s) + i \in 1..Len(s) + Len(t) /\ (s \o t)[Len(s) + i] = x
    BY <1>1, <2>1
  <2> QED
    BY <1>2, <2>2
<1>7. ASSUME NEW x \in ToSet(s \o t) PROVE x \in ToSet(s) \cup ToSet(t)
  <2>1. PICK i \in 1..Len(s) + Len(t) : (s \o t)[i] = x
    BY <1>2
  <2>2. CASE i <= Len(s)
    BY <1>1, <1>3, <2>1, <2>2
  <2>3. CASE i > Len(s)
    <3>1. i - Len(s) \in 1..Len(t) /\ t[i - Len(s)] = x
      BY <1>1, <2>1, <2>3
    <3> QED
      BY <1>4, <3>1
  <2> QED
    BY <1>1, <2>1, <2>2, <2>3
<1> QED
  BY <1>5, <1>6, <1>7

\* Every element is in one place.
Apart(s) == \A i, j \in 1..Len(s) : s[i] = s[j] => i = j

LEMMA ApartAppend ==
  ASSUME NEW S, NEW s \in Seq(S), NEW e \in S, Apart(s), e \notin ToSet(s)
  PROVE  Apart(Append(s, e))
<1>1. \A i \in 1..Len(s) : s[i] # e
  BY RangeElements
<1> QED
  BY <1>1, AppendFacts, LenProperties DEF Apart

LEMMA ApartTail ==
  ASSUME NEW S, NEW s \in Seq(S), s # <<>>, Apart(s)
  PROVE  Apart(Tail(s)) /\ Head(s) \notin ToSet(Tail(s))
<1>1. /\ Head(s) = s[1] /\ Tail(s) \in Seq(S) /\ Len(Tail(s)) = Len(s) - 1
      /\ \A i \in 1..Len(Tail(s)) : Tail(s)[i] = s[i + 1]
      /\ Len(s) \in Nat \ {0}
  BY HeadTailProperties, EmptySeq
<1>2. \A i \in 1..Len(Tail(s)) : Tail(s)[i] # Head(s)
  BY <1>1 DEF Apart
<1>3. Apart(Tail(s))
  BY <1>1 DEF Apart
<1> QED
  BY <1>1, <1>2, <1>3, RangeElements

LEMMA ApartConcat ==
  ASSUME NEW S, NEW s \in Seq(S), NEW t \in Seq(S),
         Apart(s), Apart(t), ToSet(s) \cap ToSet(t) = {}
  PROVE  Apart(s \o t)
<1>1. \A i \in 1..Len(s), j \in 1..Len(t) : s[i] # t[j]
  BY RangeElements
<1> SUFFICES ASSUME NEW i \in 1..Len(s \o t), NEW j \in 1..Len(s \o t),
                    (s \o t)[i] = (s \o t)[j]
             PROVE  i = j
  BY DEF Apart
<1>2. i \in 1..Len(s) + Len(t) /\ j \in 1..Len(s) + Len(t) /\ Len(s) \in Nat /\ Len(t) \in Nat
  BY ConcatProperties, LenProperties
<1>3. CASE i <= Len(s) /\ j <= Len(s)
  BY <1>2, <1>3, ConcatProperties DEF Apart
<1>4. CASE i > Len(s) /\ j > Len(s)
  <2>1. t[i - Len(s)] = t[j - Len(s)] /\ i - Len(s) \in 1..Len(t) /\ j - Len(s) \in 1..Len(t)
    BY <1>2, <1>4, ConcatProperties
  <2>2. i - Len(s) = j - Len(s)
    BY <2>1 DEF Apart
  <2> QED
    BY <1>2, <2>2
<1>5. CASE i <= Len(s) /\ j > Len(s)
  <2>1. s[i] = t[j - Len(s)] /\ i \in 1..Len(s) /\ j - Len(s) \in 1..Len(t)
    BY <1>2, <1>5, ConcatProperties
  <2> QED
    BY <1>1, <2>1
<1>6. CASE i > Len(s) /\ j <= Len(s)
  <2>1. s[j] = t[i - Len(s)] /\ j \in 1..Len(s) /\ i - Len(s) \in 1..Len(t)
    BY <1>2, <1>6, ConcatProperties
  <2> QED
    BY <1>1, <2>1
<1> QED
  BY <1>2, <1>3, <1>4, <1>5, <1>6

LEMMA ApartIsInjective ==
  ASSUME NEW S, NEW s \in Seq(S), Apart(s)
  PROVE  IsInjective(s)
BY LenProperties DEF Apart, IsInjective

LEMMA SingleFacts ==
  ASSUME NEW S, NEW e \in S
  PROVE  /\ <<e>> \in Seq(S) /\ Len(<<e>>) = 1 /\ <<e>>[1] = e
         /\ ToSet(<<e>>) = {e} /\ Apart(<<e>>)
<1>1. <<e>> \in Seq(S) /\ Len(<<e>>) = 1 /\ <<e>>[1] = e
  OBVIOUS
<1>2. \A x : x \in ToSet(<<e>>) <=> \E i \in 1..1 : <<e>>[i] = x
  BY <1>1, RangeElements
<1>3. Apart(<<e>>)
  BY <1>1 DEF Apart
<1> QED
  BY <1>1, <1>2, <1>3

LEMMA PrependFacts ==
  ASSUME NEW S, NEW s \in Seq(S), NEW e \in S
  PROVE  /\ <<e>> \o s \in Seq(S)
         /\ ToSet(<<e>> \o s) = ToSet(s) \cup {e}
         /\ Apart(s) /\ e \notin ToSet(s) => Apart(<<e>> \o s)
<1>1. <<e>> \in Seq(S) /\ ToSet(<<e>>) = {e} /\ Apart(<<e>>)
  BY SingleFacts
<1>2. <<e>> \o s \in Seq(S)
  BY <1>1, ConcatProperties
<1>3. ToSet(<<e>> \o s) = ToSet(s) \cup {e}
  <2> DEFINE t == <<e>>
  <2>1. t \in Seq(S) /\ ToSet(t) = {e}
    BY <1>1
  <2> HIDE DEF t
  <2>2. ToSet(t \o s) = ToSet(t) \cup ToSet(s)
    BY <2>1, RangeOfConcat
  <2> QED
    BY <2>1, <2>2 DEF t
<1>4. Apart(s) /\ e \notin ToSet(s) => Apart(<<e>> \o s)
  BY <1>1, ApartConcat
<1> QED
  BY <1>2, <1>3, <1>4

LEMMA ApartEmpty == Apart(<<>>)
BY EmptySeq DEF Apart

LEMMA JoinFacts ==
  ASSUME NEW S, NEW s \in Seq(S), NEW t \in Seq(S),
         Apart(s), Apart(t), ToSet(s) \cap ToSet(t) = {}
  PROVE  s \o t \in Seq(S) /\ ToSet(s \o t) = ToSet(s) \cup ToSet(t) /\ Apart(s \o t)
BY ConcatProperties, RangeOfConcat, ApartConcat

\* k elements of s, from behind the first n of them on.
LEMMA SliceFacts ==
  ASSUME NEW S, NEW s \in Seq(S), NEW n \in Nat, NEW k \in Nat, n + k <= Len(s)
  PROVE  /\ SubSeq(s, n + 1, n + k) \in Seq(S)
         /\ Len(SubSeq(s, n + 1, n + k)) = k
         /\ \A i \in 1..k : SubSeq(s, n + 1, n + k)[i] = s[n + i]
<1> DEFINE first == n + 1
           last == n + k
           t == SubSeq(s, first, last)
<1>1. first \in Int /\ last \in Int /\ \A i \in first..last : s[i] \in S
  BY LenProperties
<1>2. last - first + 1 = k /\ (IF first <= last THEN last - first + 1 ELSE 0) = k
      /\ \A i \in 1..k : first + i - 1 = n + i
  OBVIOUS
<1> HIDE DEF first, last
<1>3. /\ t \in Seq(S)
      /\ Len(t) = IF first <= last THEN last - first + 1 ELSE 0
      /\ \A i \in 1..last - first + 1 : t[i] = s[first + i - 1]
  BY <1>1, SubSeqProperties
<1> HIDE DEF t
<1>4. \A i \in 1..k : t[i] = s[n + i]
  BY <1>2, <1>3
<1> QED
  BY <1>2, <1>3, <1>4 DEF t, first, last
=============================================================================
