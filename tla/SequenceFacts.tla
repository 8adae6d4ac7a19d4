---------------------------- MODULE SequenceFacts ----------------------------
(***************************************************************************)
(* How the operations that the kernel performs on its vectors and queues   *)
(* change the set of their elements, and that they create no duplicates.   *)
(***************************************************************************)
EXTENDS Integers, SequencesExt, SequenceTheorems, TLAPS

\* A sequence as a function, and its elements as a set.
LEMMA SeqElements ==
    ASSUME NEW S, NEW s \in Seq(S)
    PROVE  /\ Len(s) \in Nat /\ DOMAIN s = 1..Len(s)
           /\ ToSet(s) \subseteq S
           /\ \A x : x \in ToSet(s) <=> \E i \in 1..Len(s) : x = s[i]
           /\ IsInjective(s) <=>
                 \A i, j \in 1..Len(s) : s[i] = s[j] => i = j
<1>1. Len(s) \in Nat /\ DOMAIN s = 1..Len(s)
  OBVIOUS
<1>2. \A x : x \in ToSet(s) <=> \E i \in 1..Len(s) : x = s[i]
  BY <1>1 DEF ToSet
<1>3. ToSet(s) \subseteq S
  BY <1>1, <1>2, ElementOfSeq
<1>4. IsInjective(s) <=> \A i, j \in 1..Len(s) : s[i] = s[j] => i = j
  BY <1>1 DEF IsInjective
<1> QED BY <1>1, <1>2, <1>3, <1>4

\* The empty vector.
LEMMA EmptyElements ==
    /\ ToSet(<<>>) = {} /\ IsInjective(<<>>)
    /\ \A S : <<>> \in Seq(S)
BY DEF ToSet, IsInjective

\* push leaves the positions of the other elements alone.
LEMMA AppendIndex ==
    ASSUME NEW S, NEW s \in Seq(S), NEW e \in S
    PROVE  /\ Append(s, e) \in Seq(S) /\ Len(s) \in Nat
           /\ Len(Append(s, e)) = Len(s) + 1
           /\ \A i \in 1..Len(s) : Append(s, e)[i] = s[i]
           /\ Append(s, e)[Len(s) + 1] = e
OBVIOUS

\* push and push_back of a new element.
LEMMA AppendElements ==
    ASSUME NEW S, NEW s \in Seq(S), NEW e \in S
    PROVE  /\ Append(s, e) \in Seq(S)
           /\ ToSet(Append(s, e)) = ToSet(s) \cup {e}
           /\ IsInjective(s) /\ e \notin ToSet(s) => IsInjective(Append(s, e))
<1> DEFINE d == Append(s, e)
<1>1. /\ d \in Seq(S) /\ Len(d) = Len(s) + 1 /\ Len(s) \in Nat
      /\ \A i \in 1..Len(s) : d[i] = s[i]
      /\ d[Len(s) + 1] = e
  OBVIOUS
<1> HIDE DEF d
<1>2. \A i : i \in 1..Len(d) <=> i \in 1..Len(s) \/ i = Len(s) + 1
  BY <1>1
<1>3. \A x : x \in ToSet(d) <=> x \in ToSet(s) \cup {e}
  BY <1>1, <1>2, SeqElements, SMTT(30)
<1>4. IsInjective(s) /\ e \notin ToSet(s) => IsInjective(d)
  BY <1>1, <1>2, SeqElements
<1> QED BY <1>1, <1>3, <1>4 DEF d

\* pop_front of a non-empty queue.
LEMMA TailElements ==
    ASSUME NEW S, NEW s \in Seq(S), s # <<>>, IsInjective(s)
    PROVE  /\ Tail(s) \in Seq(S)
           /\ Head(s) \in ToSet(s) /\ Head(s) \in S
           /\ ToSet(Tail(s)) = ToSet(s) \ {Head(s)}
           /\ IsInjective(Tail(s))
<1> DEFINE d == Tail(s)
<1>1. /\ d \in Seq(S) /\ Len(d) = Len(s) - 1 /\ Len(s) \in Nat /\ Len(s) >= 1
      /\ Len(d) \in Nat
      /\ \A i \in 1..Len(d) : d[i] = s[i + 1]
      /\ Head(s) = s[1]
  BY EmptySeq, HeadTailProperties
<1> HIDE DEF d
<1>2. /\ \A i \in 1..Len(d) : i + 1 \in 1..Len(s) /\ i + 1 # 1
      /\ \A i \in 1..Len(s) : i = 1 \/ (i - 1 \in 1..Len(d) /\ (i - 1) + 1 = i)
      /\ 1 \in 1..Len(s)
  BY <1>1
<1>3. \A x : x \in ToSet(d) <=> \E i \in 1..Len(d) : x = d[i]
  BY <1>1, SeqElements
<1>4. \A x : x \in ToSet(s) <=> \E i \in 1..Len(s) : x = s[i]
  BY SeqElements
<1>5. \A i, j \in 1..Len(s) : s[i] = s[j] => i = j
  BY SeqElements
<1>6. \A x : x \in ToSet(d) => x \in ToSet(s) \ {Head(s)}
  BY <1>1, <1>2, <1>3, <1>4, <1>5
<1>7. \A x : x \in ToSet(s) \ {Head(s)} => x \in ToSet(d)
  <2> SUFFICES ASSUME NEW x, x \in ToSet(s), x # s[1]
               PROVE  x \in ToSet(d)
    BY <1>1
  <2>1. PICK i \in 1..Len(s) : x = s[i]
    BY <1>4
  <2>2. i - 1 \in 1..Len(d) /\ d[i - 1] = x
    BY <1>1, <1>2, <2>1
  <2> QED BY <1>3, <2>2
<1>8. \A i, j \in 1..Len(d) : d[i] = d[j] => i = j
  <2> TAKE i, j \in 1..Len(d)
  <2>1. d[i] = d[j] => i + 1 = j + 1
    BY <1>1, <1>2, <1>5
  <2> QED BY <2>1, <1>1
<1>9. Head(s) \in ToSet(s) /\ Head(s) \in S
  BY <1>1, <1>2, <1>4, SeqElements
<1> QED BY <1>1, <1>6, <1>7, <1>8, <1>9, SeqElements, ZenonT(40) DEF d

\* Vec::remove at a position.
LEMMA RemoveAtElements ==
    ASSUME NEW S, NEW s \in Seq(S), NEW k \in 1..Len(s), IsInjective(s)
    PROVE  /\ RemoveAt(s, k) \in Seq(S) /\ Len(RemoveAt(s, k)) = Len(s) - 1
           /\ ToSet(RemoveAt(s, k)) = ToSet(s) \ {s[k]}
           /\ IsInjective(RemoveAt(s, k))
<1> DEFINE a == SubSeq(s, 1, k - 1)
           b == SubSeq(s, k + 1, Len(s))
           d == RemoveAt(s, k)
<1>1. /\ a \in Seq(S) /\ Len(a) = k - 1
      /\ \A i \in 1..Len(a) : a[i] = s[i]
      /\ b \in Seq(S) /\ Len(b) = Len(s) - k
      /\ \A i \in 1..Len(b) : b[i] = s[i + k]
  OBVIOUS
<1>2. d = a \o b
  BY DEF RemoveAt
<1> HIDE DEF a, b, d
<1>3. d \in Seq(S) /\ Len(d) = Len(s) - 1 /\ Len(s) \in Nat
  BY <1>1, <1>2
<1>4. /\ \A i \in 1..Len(d) : i < k => d[i] = s[i]
      /\ \A i \in 1..Len(d) : i >= k => d[i] = s[i + 1]
  <2>1. /\ Len(a) \in Nat /\ Len(b) \in Nat
        /\ \A i \in 1..Len(a) : (a \o b)[i] = a[i]
        /\ \A i \in 1..Len(d) : i > Len(a) => (a \o b)[i] = b[i - Len(a)]
    BY <1>1, <1>2, <1>3, SMTT(30)
  <2>2. ASSUME NEW i \in 1..Len(d), i < k
        PROVE  d[i] = s[i]
    BY <1>1, <1>2, <2>1, <2>2
  <2>3. ASSUME NEW i \in 1..Len(d), i >= k
        PROVE  d[i] = s[i + 1]
    <3>1. i > Len(a) /\ i - Len(a) \in 1..Len(b) /\ (i - Len(a)) + k = i + 1
      BY <1>1, <1>3, <2>3
    <3> QED BY <1>1, <1>2, <2>1, <3>1
  <2> QED BY <2>2, <2>3
<1> DEFINE at(i) == IF i < k THEN i ELSE i + 1
           from(i) == IF i < k THEN i ELSE i - 1
<1>5. \A i \in 1..Len(d) : at(i) \in 1..Len(s) /\ at(i) # k /\ d[i] = s[at(i)]
  <2> TAKE i \in 1..Len(d)
  <2>1. CASE i < k
    <3>1. at(i) = i /\ i \in 1..Len(s)
      BY <1>3, <2>1
    <3> QED BY <1>4, <2>1, <3>1
  <2>2. CASE ~(i < k)
    <3>1. at(i) = i + 1 /\ i + 1 \in 1..Len(s) /\ i >= k /\ i + 1 # k
      BY <1>3, <2>2
    <3> QED BY <1>4, <3>1
  <2> QED BY <2>1, <2>2
<1>6. \A i \in 1..Len(s) :
         i # k => from(i) \in 1..Len(d) /\ d[from(i)] = s[i]
  BY <1>3, <1>4
<1>7. \A i, j \in 1..Len(d) : at(i) = at(j) => i = j
  OBVIOUS
<1>8. /\ \A x : x \in ToSet(d) <=> \E i \in 1..Len(d) : x = d[i]
      /\ \A x : x \in ToSet(s) <=> \E i \in 1..Len(s) : x = s[i]
      /\ \A i, j \in 1..Len(s) : s[i] = s[j] => i = j
  BY <1>3, SeqElements
<1> HIDE DEF at, from
<1>9. ToSet(d) = ToSet(s) \ {s[k]}
  <2>1. \A x : x \in ToSet(d) => x \in ToSet(s) \ {s[k]}
    BY <1>5, <1>8
  <2>2. \A x : x \in ToSet(s) \ {s[k]} => x \in ToSet(d)
    BY <1>6, <1>8
  <2> QED BY <2>1, <2>2
<1>10. \A i, j \in 1..Len(d) : d[i] = d[j] => i = j
  BY <1>5, <1>7, <1>8
<1> QED BY <1>3, <1>9, <1>10, SeqElements DEF d

\* pop leaves the positions of the other elements alone.
LEMMA FrontIndex ==
    ASSUME NEW S, NEW s \in Seq(S), s # <<>>
    PROVE  /\ Front(s) \in Seq(S) /\ Len(s) \in Nat /\ Len(s) >= 1
           /\ Len(Front(s)) = Len(s) - 1
           /\ \A i \in 1..Len(s) - 1 : Front(s)[i] = s[i]
           /\ Last(s) = s[Len(s)] /\ Last(s) \in S
<1>1. Len(s) \in Nat /\ Len(s) >= 1
  BY EmptySeq
<1>2. Last(s) = s[Len(s)] /\ Last(s) \in S
  BY <1>1 DEF Last
<1>3. Len(s) - 1 \in Nat /\ Front(s) = SubSeq(s, 1, Len(s) - 1)
  BY <1>1 DEF Front
<1>4. /\ SubSeq(s, 1, Len(s) - 1) \in Seq(S)
      /\ Len(SubSeq(s, 1, Len(s) - 1)) = Len(s) - 1
  <2>1. SubSeq(s, 1, Len(s) - 1) \in Seq(S)
    BY <1>1
  <2>2. Len(SubSeq(s, 1, Len(s) - 1)) = Len(s) - 1
    <3>1. PICK k \in 1..Len(s) : k = Len(s)
      BY <1>1
    <3>2. Len(SubSeq(s, 1, k - 1)) = k - 1
      OBVIOUS
    <3> QED BY <3>1, <3>2
  <2> QED BY <2>1, <2>2
<1>5. \A i \in 1..Len(s) - 1 : SubSeq(s, 1, Len(s) - 1)[i] = s[i]
  BY <1>1
<1> QED BY <1>1, <1>2, <1>3, <1>4, <1>5

\* Vec::pop of a non-empty stack.
LEMMA FrontElements ==
    ASSUME NEW S, NEW s \in Seq(S), s # <<>>, IsInjective(s)
    PROVE  /\ Front(s) \in Seq(S)
           /\ Last(s) \in ToSet(s) /\ Last(s) \in S
           /\ ToSet(Front(s)) = ToSet(s) \ {Last(s)}
           /\ IsInjective(Front(s))
<1>1. Len(s) \in Nat /\ Len(s) \in 1..Len(s)
  BY EmptySeq
<1>2. Front(s) = RemoveAt(s, Len(s))
  <2>1. SubSeq(s, Len(s) + 1, Len(s)) = <<>>
    BY <1>1
  <2>2. SubSeq(s, 1, Len(s) - 1) \in Seq(S)
    BY <1>1
  <2>3. SubSeq(s, 1, Len(s) - 1) \o <<>> = SubSeq(s, 1, Len(s) - 1)
    BY <2>2
  <2> QED BY <2>1, <2>3 DEF Front, RemoveAt
<1>3. Last(s) = s[Len(s)] /\ Last(s) \in ToSet(s) /\ Last(s) \in S
  BY <1>1, SeqElements DEF Last
<1>4. /\ RemoveAt(s, Len(s)) \in Seq(S) /\ IsInjective(RemoveAt(s, Len(s)))
      /\ ToSet(RemoveAt(s, Len(s))) = ToSet(s) \ {s[Len(s)]}
  BY <1>1, RemoveAtElements
<1> QED BY <1>2, <1>3, <1>4

\* Pushing the elements of one vector, in their order, on another.
LEMMA ConcatElements ==
    ASSUME NEW S, NEW s \in Seq(S), NEW t \in Seq(S)
    PROVE  /\ s \o t \in Seq(S)
           /\ ToSet(s \o t) = ToSet(s) \cup ToSet(t)
           /\ IsInjective(s) /\ IsInjective(t) /\ ToSet(s) \cap ToSet(t) = {}
                 => IsInjective(s \o t)
<1> DEFINE d == s \o t
<1>1. /\ d \in Seq(S) /\ Len(d) = Len(s) + Len(t)
      /\ Len(s) \in Nat /\ Len(t) \in Nat
      /\ \A i \in 1..Len(s) : d[i] = s[i]
      /\ \A i \in 1..Len(d) : i > Len(s) => d[i] = t[i - Len(s)]
  OBVIOUS
<1> HIDE DEF d
<1>2. /\ \A x : x \in ToSet(d) <=> \E i \in 1..Len(d) : x = d[i]
      /\ \A x : x \in ToSet(s) <=> \E i \in 1..Len(s) : x = s[i]
      /\ \A x : x \in ToSet(t) <=> \E i \in 1..Len(t) : x = t[i]
  BY <1>1, SeqElements, ZenonT(40)
<1>3. \A i \in 1..Len(d) : \/ i \in 1..Len(s) /\ d[i] = s[i]
                           \/ /\ i \notin 1..Len(s)
                              /\ i - Len(s) \in 1..Len(t)
                              /\ d[i] = t[i - Len(s)]
  BY <1>1, SMTT(30)
<1>4. /\ \A i \in 1..Len(s) : i \in 1..Len(d) /\ d[i] = s[i]
      /\ \A i \in 1..Len(t) :
            i + Len(s) \in 1..Len(d) /\ d[i + Len(s)] = t[i]
  <2>1. \A i \in 1..Len(t) : /\ i + Len(s) \in 1..Len(d) /\ i + Len(s) > Len(s)
                             /\ (i + Len(s)) - Len(s) = i
    BY <1>1
  <2> QED BY <1>1, <2>1
<1>5. ToSet(d) = ToSet(s) \cup ToSet(t)
  <2>1. \A x : x \in ToSet(d) => x \in ToSet(s) \cup ToSet(t)
    BY <1>2, <1>3
  <2>2. \A x : x \in ToSet(s) => x \in ToSet(d)
    BY <1>2, <1>4
  <2>3. ASSUME NEW x \in ToSet(t)
        PROVE  x \in ToSet(d)
    <3>1. PICK i \in 1..Len(t) : x = t[i]
      BY <1>2
    <3>2. i + Len(s) \in 1..Len(d) /\ d[i + Len(s)] = x
      BY <1>4, <3>1
    <3> QED BY <1>2, <3>2
  <2> QED BY <2>1, <2>2, <2>3
<1>6. ASSUME IsInjective(s), IsInjective(t), ToSet(s) \cap ToSet(t) = {},
             NEW i \in 1..Len(d), NEW j \in 1..Len(d), d[i] = d[j]
      PROVE  i = j
  <2>1. /\ \A k, l \in 1..Len(s) : s[k] = s[l] => k = l
        /\ \A k, l \in 1..Len(t) : t[k] = t[l] => k = l
    BY <1>6, SeqElements
  <2>2. CASE i \in 1..Len(s) /\ j \in 1..Len(s)
    BY <2>1, <2>2, <1>1, <1>6
  <2>3. CASE i \notin 1..Len(s) /\ j \notin 1..Len(s)
    <3>1. i - Len(s) = j - Len(s)
      BY <2>1, <2>3, <1>3, <1>6, SMTT(30)
    <3> QED BY <3>1, <1>1
  <2>4. CASE i \in 1..Len(s) /\ j \notin 1..Len(s)
    BY <2>4, <1>2, <1>3, <1>6, ZenonT(40)
  <2>5. CASE i \notin 1..Len(s) /\ j \in 1..Len(s)
    BY <2>5, <1>2, <1>3, <1>6, ZenonT(40)
  <2> QED BY <2>2, <2>3, <2>4, <2>5
<1>7. IsInjective(s) /\ IsInjective(t) /\ ToSet(s) \cap ToSet(t) = {}
         => IsInjective(d)
  BY <1>1, <1>6, SeqElements
<1> QED BY <1>1, <1>5, <1>7 DEF d
=============================================================================
